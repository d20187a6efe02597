----------------------------- MODULE WlanClients -----------------------------
(***************************************************************************)
(* The Wi-Fi clients of the access points (IPACM_Wlan.cpp): the array in   *)
(* which each instance of IPACM_Wlan keeps its clients, and the headers    *)
(* and routing rules the IPA holds for them.                               *)
(*                                                                         *)
(* The array is dense.  A client that joins takes the place behind the     *)
(* last one; when a client leaves, those behind it move down by one.  The  *)
(* move copies field by field, and one field is not copied: the power-save *)
(* flag stays with the place.  It is therefore a variable of its own here, *)
(* indexed by the place.                                                   *)
(*                                                                         *)
(* Events of the driver and of the kernel pass through one queue and one   *)
(* thread, hence a step is an event and its whole handler.                 *)
(*                                                                         *)
(* "world" is what the driver and the kernel announced: the clients that   *)
(* are associated, whether they are awake, and their addresses.            *)
(***************************************************************************)
EXTENDS Naturals, FiniteSets

CONSTANTS
    Ifaces,        \* access points
    Macs,          \* clients
    V4Addrs,       \* IPv4 addresses
    V6Addrs,       \* IPv6 addresses
    NoAddr,        \* no IPv4 address
    MaxClients,    \* IPA_MAX_NUM_WIFI_CLIENTS, 32 in the code
    V6Num,         \* IPV6_NUM_ADDR, 3 in the code
    Environments   \* the environments a run considers, each a set of Kinds

Kinds == {"sleep", "leave", "restless", "v6", "wide", "rejoin", "refuse"}

ASSUME ClientsAssumption ==
    /\ MaxClients \in Nat \ {0}
    /\ V6Num \in Nat
    /\ NoAddr \notin V4Addrs \cup V6Addrs
    /\ V4Addrs \cap V6Addrs = {}
    /\ IsFiniteSet(V6Addrs)
    /\ Environments \subseteq SUBSET Kinds

VARIABLES
    env,       \* the environment of this behaviour
    up,        \* access points that have an instance
    num,       \* num_wifi_client of each access point
    slot,      \* wlan_client: the client in each place
    asleep,    \* power_save_set of each place
    total,     \* total_num_wifi_clients
    headers,   \* headers in the IPA, by handle
    routes,    \* routing rules in the IPA, by handle
    world      \* what was announced of the clients of each access point

hw == <<headers, routes>>
vars == <<env, up, num, slot, asleep, total, headers, routes, world>>

Places == 1 .. MaxClients

\* A handle is named after what it was given for, with a number that makes
\* it new.
NoHandle == <<"none">>
Fresh(what, held) == <<what, CHOOSE n \in 0 .. Cardinality(held) : <<what, n>> \notin held>>

NoRoutes == [a \in {} |-> NoHandle]

Empty == [mac |-> NoAddr, hdr_v4 |-> NoHandle, hdr_v6 |-> NoHandle, v4 |-> NoAddr, v6 |-> {},
          rt_v4 |-> NoHandle, rt_v6 |-> NoRoutes]

\* get_wlan_client_index: the first place with this address, or 0.
IndexOf(i, m) ==
    LET hits == {k \in 1 .. num[i] : slot[i][k].mac = m}
    IN  IF hits = {} THEN 0 ELSE CHOOSE k \in hits : \A j \in hits : k <= j

---------------------------------------------------------------------------
(* Rules of one client.  A pair [c, r] is a client and the IPA's rules.    *)

With(r, new) == [h \in DOMAIN r \cup DOMAIN new |-> IF h \in DOMAIN new THEN new[h] ELSE r[h]]
Give(r, handles, what) == With(r, [h \in handles |-> what])
Without(r, handles) == [h \in DOMAIN r \ handles |-> r[h]]

RouteHandles(c) == ({c.rt_v4} \ {NoHandle}) \cup {c.rt_v6[a] : a \in DOMAIN c.rt_v6}
HeaderHandles(c) == {c.hdr_v4, c.hdr_v6} \ {NoHandle}

\* delete_default_qos_rtrules of either family.
UnrouteV4(s) == [c |-> [s.c EXCEPT !.rt_v4 = NoHandle], r |-> Without(s.r, {s.c.rt_v4})]
UnrouteV6(s) ==
    [c |-> [s.c EXCEPT !.rt_v6 = NoRoutes],
     r |-> Without(s.r, {s.c.rt_v6[a] : a \in DOMAIN s.c.rt_v6})]

\* handle_wlan_client_route_rule of either family.  The two rules of an IPv6
\* address, one in each table, are written and deleted together: one here.
RouteV4(s, sleeping) ==
    IF sleeping \/ s.c.rt_v4 # NoHandle \/ s.c.v4 = NoAddr
      THEN s
      ELSE LET h == Fresh(s.c.v4, DOMAIN s.r)
           IN  [c |-> [s.c EXCEPT !.rt_v4 = h],
                r |-> Give(s.r, {h}, [addr |-> s.c.v4, hdr |-> s.c.hdr_v4])]

RouteV6(s, sleeping) ==
    IF sleeping \/ s.c.v6 \subseteq DOMAIN s.c.rt_v6
      THEN s
      ELSE LET new == s.c.v6 \ DOMAIN s.c.rt_v6
               hdl == [a \in new |-> Fresh(a, DOMAIN s.r)]
               rule(a) == [addr |-> a, hdr |-> s.c.hdr_v6]
               hs == {hdl[a] : a \in new}
           IN  [c |-> [s.c EXCEPT !.rt_v6 = With(@, hdl)],
                r |-> With(s.r, [h \in hs |-> rule(h[1])])]

\* The client in place k of access point i with the rules, and what a handler
\* makes of them.
At(i, k) == [c |-> slot[i][k], r |-> routes]
Put(i, k, s) == slot' = [slot EXCEPT ![i][k] = s.c] /\ routes' = s.r

---------------------------------------------------------------------------
(* The handlers                                                            *)

\* handle_wlan_client_init_ex: the header of each family, then the place
\* behind the last.  When the IPA refuses the second header the first stays.
ClientAdd(i, m, refused) ==
    LET h4 == Fresh(<<m, "v4">>, DOMAIN headers)
        h6 == Fresh(<<m, "v6">>, DOMAIN headers)
        n == num[i] + 1
    IN  IF num[i] >= MaxClients \/ total >= MaxClients
          THEN UNCHANGED <<num, slot, asleep, total, hw>>
          ELSE IF refused
          THEN headers' = Give(headers, {h4}, m) /\ UNCHANGED <<num, slot, asleep, total, routes>>
          ELSE /\ headers' = Give(headers, {h4, h6}, m)
               /\ num' = [num EXCEPT ![i] = n]
               /\ slot' = [slot EXCEPT ![i][n] = [Empty EXCEPT !.mac = m, !.hdr_v4 = h4, !.hdr_v6 = h6]]
               /\ asleep' = [asleep EXCEPT ![i][n] = FALSE]
               /\ total' = total + 1
               /\ UNCHANGED routes

\* handle_wlan_client_ipaddr and then the routing rules, for an IPv4 address.
AddressV4_NotAgain(i, k, a) ==
    LET s == At(i, k)
    IN  IF a = s.c.v4 THEN UNCHANGED <<slot, routes>>
        ELSE IF s.c.v4 # NoAddr THEN Put(i, k, [UnrouteV4(s) EXCEPT !.c.v4 = a])
        ELSE Put(i, k, RouteV4([s EXCEPT !.c.v4 = a], asleep[i][k]))
AddressV4(i, k, a) ==
    LET s == At(i, k)
        was == IF s.c.v4 = NoAddr THEN s ELSE UnrouteV4(s)
        now == [was EXCEPT !.c.v4 = a]
    IN  IF a = s.c.v4 THEN UNCHANGED <<slot, routes>> ELSE Put(i, k, RouteV4(now, asleep[i][k]))

\* The same for an IPv6 address; a client has V6Num of them at most.  The code
\* ignores a global address without the interface's prefix: here every address
\* announced has it, and none is link-local.
AddressV6(i, k, a) ==
    LET s == At(i, k)
        now == [s EXCEPT !.c.v6 = @ \cup {a}]
    IN  IF Cardinality(s.c.v6) >= V6Num \/ a \in s.c.v6
          THEN UNCHANGED <<slot, routes>>
          ELSE Put(i, k, RouteV6(now, asleep[i][k]))

\* handle_wlan_client_pwrsave.
PowerSave_V4Only(i, k) ==
    IF asleep[i][k]
      THEN UNCHANGED <<slot, asleep, routes>>
      ELSE /\ Put(i, k, UnrouteV4(At(i, k)))
           /\ asleep' = [asleep EXCEPT ![i][k] = TRUE]
PowerSave(i, k) ==
    IF asleep[i][k]
      THEN UNCHANGED <<slot, asleep, routes>>
      ELSE /\ Put(i, k, UnrouteV6(UnrouteV4(At(i, k))))
           /\ asleep' = [asleep EXCEPT ![i][k] = TRUE]

\* IPA_WLAN_CLIENT_RECOVER_EVENT.
Recover(i, k) ==
    IF ~ asleep[i][k]
      THEN UNCHANGED <<slot, asleep, routes>>
      ELSE /\ Put(i, k, RouteV6(RouteV4(At(i, k), FALSE), FALSE))
           /\ asleep' = [asleep EXCEPT ![i][k] = FALSE]

\* handle_wlan_client_down_evt: the rules and headers of the client go, and
\* the clients behind it move down.  power_save_set is not among the fields
\* the move copies.  (What stays behind the last client is never read.)  A
\* delete the IPA refuses, which leaves the function half-way, is left out.
MovedDown_KeepV6(i, k) ==
    [j \in Places |-> IF j \in k .. (num[i] - 1) THEN [slot[i][j + 1] EXCEPT !.rt_v6 = slot[i][j].rt_v6]
                      ELSE IF j = num[i] THEN Empty ELSE slot[i][j]]
MovedDown(i, k) ==
    [j \in Places |-> IF j \in k .. (num[i] - 1) THEN slot[i][j + 1]
                      ELSE IF j = num[i] THEN Empty ELSE slot[i][j]]
ClientDel(i, k) ==
    LET c == slot[i][k]
    IN  /\ routes' = Without(routes, RouteHandles(c))
        /\ headers' = Without(headers, HeaderHandles(c))
        /\ slot' = [slot EXCEPT ![i] = MovedDown(i, k)]
        /\ num' = [num EXCEPT ![i] = @ - 1]
        /\ total' = total - 1
        /\ UNCHANGED asleep

\* handle_wlan_client_reset_rt for IPv6.
ForgottenV6(c) == [c EXCEPT !.rt_v6 = NoRoutes, !.v6 = {}]
ResetRtV6(i) ==
    /\ routes' = Without(routes, UNION {{slot[i][k].rt_v6[a] : a \in DOMAIN slot[i][k].rt_v6} : k \in 1 .. num[i]})
    /\ slot' = [slot EXCEPT ![i] = [k \in Places |->
                   IF k <= num[i] THEN ForgottenV6(slot[i][k]) ELSE slot[i][k]]]

---------------------------------------------------------------------------
(* The events                                                              *)

Init ==
    /\ env \in Environments
    /\ up = {}
    /\ num = [i \in Ifaces |-> 0]
    /\ slot = [i \in Ifaces |-> [k \in Places |-> Empty]]
    /\ asleep = [i \in Ifaces |-> [k \in Places |-> FALSE]]
    /\ total = 0
    /\ headers = [h \in {} |-> NoAddr]
    /\ routes = [h \in {} |-> NoAddr]
    /\ world = [i \in Ifaces |-> [m \in {} |-> NoAddr]]

\* What the environment knows of access point i: its clients, and the
\* addresses anyone holds.
Known(i) == DOMAIN world[i]
Taken == UNION {UNION {{world[i][m].v4} \cup world[i][m].v6 : m \in Known(i)} : i \in Ifaces}
Rewrite(i, m, client) == world' = [world EXCEPT ![i] = Give(@, {m}, client)]

\* An access point comes up: create_iface_instance and the constructor.
LinkUp(i) ==
    /\ i \notin up
    /\ up = {} \/ "wide" \in env
    /\ up' = up \cup {i}
    /\ num' = [num EXCEPT ![i] = 0]
    /\ slot' = [slot EXCEPT ![i] = [k \in Places |-> Empty]]
    /\ asleep' = [asleep EXCEPT ![i] = [k \in Places |-> FALSE]]
    /\ UNCHANGED <<env, total, hw, world>>

\* handle_down_evt deletes the rules and headers of every client, and the
\* instance deletes itself.
HandleDown(i) ==
    /\ routes' = Without(routes, UNION {RouteHandles(slot[i][k]) : k \in 1 .. num[i]})
    /\ headers' = Without(headers, UNION {HeaderHandles(slot[i][k]) : k \in 1 .. num[i]})
    /\ num' = [num EXCEPT ![i] = 0]
    /\ slot' = [slot EXCEPT ![i] = [k \in Places |-> Empty]]

\* IPA_WLAN_LINK_DOWN_EVENT: the total is cut by the count the instance still
\* has after handle_down_evt.
LinkDown_KeepTotal(i) ==
    /\ i \in up
    /\ up' = up \ {i}
    /\ HandleDown(i)
    /\ world' = [world EXCEPT ![i] = [m \in {} |-> NoAddr]]
    /\ UNCHANGED <<env, asleep, total>>
LinkDown(i) ==
    /\ i \in up
    /\ up' = up \ {i}
    /\ HandleDown(i)
    /\ total' = total - num[i]
    /\ world' = [world EXCEPT ![i] = [m \in {} |-> NoAddr]]
    /\ UNCHANGED <<env, asleep>>

\* IPA_WLAN_CLIENT_ADD_EVENT_EX.  A client the full array refuses stays
\* unknown; so does one whose header the IPA refuses.
Join(i, m) ==
    /\ i \in up
    /\ m \notin Known(i) \/ "rejoin" \in env
    /\ \E refused \in {FALSE} \cup (IF "refuse" \in env THEN {TRUE} ELSE {}) : ClientAdd(i, m, refused)
    /\ IF num' = num THEN UNCHANGED world ELSE Rewrite(i, m, [awake |-> TRUE, v4 |-> NoAddr, v6 |-> {}])
    /\ UNCHANGED <<env, up>>

\* IPA_WLAN_CLIENT_DEL_EVENT.
Leave(i, m) ==
    /\ "leave" \in env
    /\ m \in Known(i)
    /\ (\A c \in Known(i) : world[i][c].awake) \/ "restless" \in env
    /\ LET k == IndexOf(i, m) IN IF k = 0 THEN UNCHANGED <<num, slot, asleep, total, hw>> ELSE ClientDel(i, k)
    /\ world' = [world EXCEPT ![i] = [c \in Known(i) \ {m} |-> @[c]]]
    /\ UNCHANGED <<env, up>>

\* IPA_WLAN_CLIENT_POWER_SAVE_EVENT and IPA_WLAN_CLIENT_RECOVER_EVENT.
Sleep(i, m) ==
    /\ "sleep" \in env
    /\ m \in Known(i)
    /\ LET k == IndexOf(i, m) IN IF k = 0 THEN UNCHANGED <<slot, asleep, routes>> ELSE PowerSave(i, k)
    /\ Rewrite(i, m, [world[i][m] EXCEPT !.awake = FALSE])
    /\ UNCHANGED <<env, up, num, total, headers>>

Wake(i, m) ==
    /\ "sleep" \in env
    /\ m \in Known(i)
    /\ LET k == IndexOf(i, m) IN IF k = 0 THEN UNCHANGED <<slot, asleep, routes>> ELSE Recover(i, k)
    /\ Rewrite(i, m, [world[i][m] EXCEPT !.awake = TRUE])
    /\ UNCHANGED <<env, up, num, total, headers>>

\* IPA_NEIGH_CLIENT_IP_ADDR_ADD_EVENT.  No two clients hold one address; a
\* client may get another IPv4 address, and several of IPv6.
Address(i, m, a) ==
    /\ m \in Known(i)
    /\ a \notin Taken
    /\ LET k == IndexOf(i, m)
           c == world[i][m]
       IN  \/ /\ a \in V4Addrs
              /\ IF k = 0 THEN UNCHANGED <<slot, routes>> ELSE AddressV4(i, k, a)
              /\ Rewrite(i, m, [c EXCEPT !.v4 = a])
           \/ /\ a \in V6Addrs
              /\ "v6" \in env
              /\ IF k = 0 THEN UNCHANGED <<slot, routes>> ELSE AddressV6(i, k, a)
              /\ Rewrite(i, m, IF Cardinality(c.v6) < V6Num THEN [c EXCEPT !.v6 = @ \cup {a}] ELSE c)
    /\ UNCHANGED <<env, up, num, asleep, total, headers>>

\* The IPv6 uplink goes, and with it the prefix of the clients' addresses:
\* IPA_HANDLE_WAN_DOWN_V6_TETHER or IPA_DOWNSTREAM_DEL.  (A link-local address,
\* which reset_rt forgets as well although its client keeps it, is left out.)
PrefixGone(i) ==
    /\ i \in up
    /\ "v6" \in env
    /\ ResetRtV6(i)
    /\ world' = [world EXCEPT ![i] = [m \in Known(i) |-> [@[m] EXCEPT !.v6 = {}]]]
    /\ UNCHANGED <<env, up, num, asleep, total, headers>>

Next ==
    \E i \in Ifaces :
        \/ LinkUp(i) \/ LinkDown(i) \/ PrefixGone(i)
        \/ \E m \in Macs : \/ Join(i, m) \/ Leave(i, m) \/ Sleep(i, m) \/ Wake(i, m)
                            \/ \E a \in V4Addrs \cup V6Addrs : Address(i, m, a)

Spec == Init /\ [][Next]_vars

---------------------------------------------------------------------------
(* Properties                                                              *)

Held == UNION {{<<i, k>> : k \in 1 .. num[i]} : i \in Ifaces}

\* The rules in the IPA are those the clients in the arrays hold, each held
\* by one client, which is the one it leads to; the same of the headers.  A
\* handle lost in the move, or held twice, is a rule that stays or one that
\* is deleted under another client.
RoutesOwned ==
    /\ DOMAIN routes = UNION {RouteHandles(slot[p[1]][p[2]]) : p \in Held}
    /\ \A p, q \in Held : p # q => RouteHandles(slot[p[1]][p[2]]) \cap RouteHandles(slot[q[1]][q[2]]) = {}
    /\ \A p \in Held : LET c == slot[p[1]][p[2]] IN
          /\ c.rt_v4 # NoHandle => routes[c.rt_v4].addr = c.v4 /\ routes[c.rt_v4].hdr = c.hdr_v4
          /\ \A a \in DOMAIN c.rt_v6 : routes[c.rt_v6[a]].addr = a /\ routes[c.rt_v6[a]].hdr = c.hdr_v6

\* A client that is associated and awake can be reached: each of its addresses
\* has a rule that leads to its header.
Reached(m, a) ==
    \E h \in DOMAIN routes :
        /\ routes[h].addr = a
        /\ routes[h].hdr \in DOMAIN headers /\ headers[routes[h].hdr] = m
Served ==
    \A i \in Ifaces : \A m \in Known(i) :
        world[i][m].awake => \A a \in ({world[i][m].v4} \ {NoAddr}) \cup world[i][m].v6 : Reached(m, a)

\* Nothing is left in the IPA of a client that left, sleeps, or has given the
\* address up: no rule, and after it left no header.
NothingLeaks ==
    /\ \A h \in DOMAIN routes : \E i \in Ifaces : \E m \in Known(i) :
          world[i][m].awake /\ routes[h].addr \in {world[i][m].v4} \cup world[i][m].v6
    /\ \A h \in DOMAIN headers : \E i \in Ifaces : headers[h] \in Known(i)

\* The count that bounds the clients of all access points together is that of
\* the clients associated: none is refused while there is room.
TotalAgrees == total = Cardinality(UNION {{<<i, m>> : m \in Known(i)} : i \in Ifaces})
=============================================================================
