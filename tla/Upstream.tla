------------------------------- MODULE Upstream -------------------------------
(* Tethering offload: the framework's choice of an upstream and of downstreams *)
(* (HAL, OffloadManager), the uplink interfaces that carry it (IPACM_Wan) and  *)
(* the access point it is shared on (IPACM_Wlan, IPACM_Lan).  The framework    *)
(* calls on the HAL's thread; everything else is an event that one thread      *)
(* handles, the daemon's own events first (MessageQueue, EvtDispatcher).       *)
EXTENDS Integers, Sequences, FiniteSets, SequencesExt
CONSTANTS Stas, Modems,  \* uplinks: Wi-Fi stations and the modem's data interfaces
          Ap, NoIface,   \* the access point
          Environments,  \* what may happen, one of these sets
          CacheSize,     \* MAX_EVENT_CACHE
          MaxCalls, MaxChanges, \* bounds: calls of the framework; losses, restarts, file changes
          MaxQueue       \* and the events pending when the kernel makes another
VARIABLES net,      \* the kernel: links, addresses, gateways' neighbours announced
          file,     \* the version of the firewall's configuration file
          ipacm,    \* the daemon (see Init)
          call,     \* a call that has looked at pNatIfaces and not acted yet
          want,     \* what the framework has asked for last
          bounds, env
vars == <<net, file, ipacm, call, want, bounds, env>>

(* eager: the framework calls for interfaces not configured yet.  patient: it  *)
(* waits while a call is cached.  switch: it replaces the upstream without     *)
(* removing it.  narrow: it takes a family away.  late: neighbours become      *)
(* known after the call.  losses: links go down.  stop: offload stops.  ssr:   *)
(* the Wi-Fi firmware restarts.  file: the firewall changes.  concurrent: the  *)
(* HAL's thread is interrupted by the other.  sta, q6, ap: these interfaces    *)
(* exist.  v6: so does IPv6.  halfway: the access point may have an address of *)
(* one family only.  untethered: it may be up without being wanted.            *)
EnvironmentKinds == {"eager", "patient", "switch", "narrow", "late", "losses", "stop",
                     "ssr", "file", "concurrent", "sta", "q6", "ap", "v6", "halfway",
                     "untethered"}
Uplinks == Stas \cup Modems
Ifaces == Uplinks \cup {Ap}
ASSUME UpstreamAssumption ==
  /\ Stas \cap Modems = {} /\ Ap \notin Uplinks /\ NoIface \notin Ifaces
  /\ Environments \subseteq SUBSET EnvironmentKinds
  /\ IsFiniteSet(Stas)
  /\ CacheSize \in Nat \ {0} /\ {MaxCalls, MaxChanges, MaxQueue} \subseteq Nat

Families == {"v4", "v6"}
Kind(i) == IF i \in Stas THEN "sta" ELSE "q6"
Ev(what, i, f) == [what |-> what, iface |-> i, fam |-> f]
NoCall == [what |-> "none", iface |-> NoIface, fams |-> {}, ready |-> FALSE]
NoEntry == [what |-> "none", iface |-> NoIface, fams |-> {}]
NoWan == [ip |-> {}, gw |-> {}, neigh |-> {}, header |-> FALSE, partial |-> {},
          active |-> {}, isGw |-> FALSE, rules |-> [f \in Families |-> 0]]
NoAp == [on |-> FALSE, ip |-> {}, up |-> {}, down |-> {}, ul |-> [f \in Families |-> {}]]

(* A step for each of these families, IPv4 first. *)
ForEach(fams, s, Step(_, _)) ==
  LET first == IF "v4" \in fams THEN Step(s, "v4") ELSE s
  IN  IF "v6" \in fams THEN Step(first, "v6") ELSE first
External(s, ev) == [s EXCEPT !.ext = Append(@, ev)]
Internal(s, ev) == [s EXCEPT !.int = Append(@, ev)]
PostRoutes(s, what, i, fams) == ForEach(fams, s, LAMBDA acc, f : External(acc, Ev(what, i, f)))

(****************************** OffloadManager ******************************)
(* CheckNatIfaces, for every family of the call. *)
Configured(s, i, fams) == fams \subseteq s.nat[i]

(* The entry goes to the first free place from the latest; a full cache        *)
(* refuses it.                                                                 *)
Cached(s, entry) ==
  LET at(k) == (s.latest + k) % CacheSize
      free == {k \in 0 .. CacheSize - 1 : s.cache[at(k)] = NoEntry}
      k == CHOOSE k \in free : \A j \in free : k <= j
  IN  IF free = {} THEN s
      ELSE [s EXCEPT !.cache[at(k)] = entry, !.latest = (at(k) + 1) % CacheSize]
Entry(what, i, fams) == [what |-> what, iface |-> i, fams |-> fams]

SetUpstream_NoGrowth(s, i, fams) ==
  LET gone == IF i # s.gw THEN s.up ELSE s.up \ fams
      kept == s.up \ gone
      missing == IF kept = {} THEN fams ELSE {}
  IN  [PostRoutes(PostRoutes(s, "routeDel", s.gw, gone), "routeAdd", i, missing)
         EXCEPT !.gw = i, !.up = fams]
(* Another upstream takes the routes of the one before; the same one gives up  *)
(* the family it is not asked for and gets those it has not.  An IPv6 gateway  *)
(* of all zeros, which is ignored, results and interfaces the kernel does not  *)
(* know are left out.                                                          *)
SetUpstream(s, i, fams) ==
  LET gone == IF i # s.gw THEN s.up ELSE s.up \ fams
      kept == s.up \ gone
  IN  [PostRoutes(PostRoutes(s, "routeDel", s.gw, gone), "routeAdd", i, fams \ kept)
         EXCEPT !.gw = i, !.up = fams]

ClearUpstream_OneFamily(s) ==
  IF s.gw = NoIface
  THEN [s EXCEPT !.cache = [k \in DOMAIN @ |-> IF @[k].what = "upstream" THEN NoEntry ELSE @[k]]]
  ELSE [PostRoutes(s, "routeDel", s.gw, IF "v4" \in s.up THEN {"v4"} ELSE s.up)
          EXCEPT !.gw = NoIface, !.up = {}]
(* Without an upstream the cached calls for one are dropped; with one, its     *)
(* routes are, and the cache is left alone.                                    *)
ClearUpstream(s) ==
  IF s.gw = NoIface
  THEN [s EXCEPT !.cache = [k \in DOMAIN @ |-> IF @[k].what = "upstream" THEN NoEntry ELSE @[k]]]
  ELSE [PostRoutes(s, "routeDel", s.gw, s.up) EXCEPT !.gw = NoIface, !.up = {}]

StopAll(s) == [ClearUpstream(s) EXCEPT !.gw = NoIface, !.up = {}, !.latest = 0,
                 !.cache = [k \in DOMAIN @ |-> NoEntry], !.valid = FALSE]

(* What is not configured is cached; the link of an upstream is announced to   *)
(* the daemon, too.                                                            *)
TakeUpstream(s, i, fams, ready) ==
  IF ready THEN SetUpstream(s, i, fams)
  ELSE Cached(External(s, Ev("linkUp", i, "v4")), Entry("upstream", i, fams))
TakeDownstream(s, f, ready) ==
  LET v == [s EXCEPT !.valid = TRUE] IN
  IF ready THEN External(v, Ev("downAdd", Ap, f))
  ELSE Cached(v, Entry("downstream", Ap, {f}))
DropDownstream(s, f) == IF s.valid THEN External(s, Ev("downDel", Ap, f)) ELSE s

(* search_framwork_cache: the interface's cached calls are made, up to the     *)
(* first that is still not configured.                                         *)
SearchCache(s, i) ==
  LET mine == {k \in DOMAIN s.cache : s.cache[k].iface = i}
      unready == {k \in mine : ~Configured(s, i, s.cache[k].fams)}
      made(t, e) == IF e.what = "upstream" THEN SetUpstream(t, i, e.fams)
                    ELSE ForEach(e.fams, t, LAMBDA a, f : TakeDownstream(a, f, TRUE))
      past[n \in 0 .. CacheSize] ==
        IF n = 0 THEN s
        ELSE IF n - 1 \in mine /\ \A k \in unready : n - 1 < k
             THEN [made(past[n - 1], s.cache[n - 1]) EXCEPT !.cache[n - 1] = NoEntry]
             ELSE past[n - 1]
  IN  past[CacheSize]

(******************************** IPACM_Wan *********************************)
Instance(s, i) == i \in ToSet(s.wans)

(* The firewall's rules for the downlink, from the file as it is now. *)
InstallRules(s, i, f) == [s EXCEPT !.wan[i].rules[f] = file]

(* handle_route_add_evt: a station needs the link-layer header of its gateway  *)
(* first, and remembers the route until then.                                  *)
RouteUp(s, i, f) ==
  LET gw == [s EXCEPT !.wan[i].isGw = TRUE, !.mode = Kind(i)]
  IN  IF Kind(i) = "sta" /\ ~s.wan[i].header THEN [gw EXCEPT !.wan[i].partial = @ \cup {f}]
      ELSE Internal([InstallRules(gw, i, f) EXCEPT !.wan[i].active = @ \cup {f},
                                                   !.wanUp = @ \cup {f}], Ev("wanUp", i, f))

(* del_dft_firewall_rules and handle_route_del_evt of an active family; only   *)
(* the IPv4 gateway is forgotten.                                              *)
Lowered(w, f) == [w EXCEPT !.active = @ \ {f}, !.isGw = FALSE,
                           !.gw = @ \ ({f} \cap {"v4"}), !.rules[f] = 0]
RouteDown_KeepWanUp(s, i, f) == [s EXCEPT !.wan[i] = Lowered(@, f)]
RouteDown(s, i, f) == [s EXCEPT !.wan[i] = Lowered(@, f), !.wanUp = @ \ {f}]

(* Once: the header is complete when the gateways asked for are known          *)
(* neighbours; the routes that waited for it follow.                           *)
StaHeader(s, i) ==
  LET w == s.wan[i]
      unknown == w.gw \ w.neigh
  IN  IF w.header \/ "v4" \in unknown THEN s
      ELSE IF "v6" \in unknown THEN [s EXCEPT !.wan[i].header = "v4" \in w.gw]
      ELSE ForEach(w.partial, [s EXCEPT !.wan[i].header = w.gw # {}],
                   LAMBDA acc, f : RouteUp(acc, i, f))

OwnRouteAdd(s, i, f) ==
  LET h == StaHeader([s EXCEPT !.wan[i].gw = @ \cup {f}], i)
  IN  IF f \notin s.wan[i].ip \/ f \in s.wan[i].active THEN s
      ELSE IF f \in h.wan[i].active THEN h ELSE RouteUp(h, i, f)
OtherRouteAdd(s, others, f) ==
  LET served == {j \in others : f \in s.wan[j].active}
  IN  [s EXCEPT !.wan = [j \in Uplinks |-> IF j \in served THEN Lowered(s.wan[j], f)
                                          ELSE s.wan[j]],
                !.wanUp = IF served = {} THEN @ ELSE @ \ {f}]
(* The instances take the event in the order they were created. *)
RouteAdd(s, i, f) ==
  LET place(j) == CHOOSE k \in DOMAIN s.wans : s.wans[k] = j
      older == {j \in ToSet(s.wans) : Instance(s, i) => place(j) < place(i)}
      told == OtherRouteAdd(s, older, f)
      younger == ToSet(s.wans) \ (older \cup {i})
  IN  OtherRouteAdd(IF Instance(s, i) THEN OwnRouteAdd(told, i, f) ELSE told, younger, f)
RouteDel(s, i, f) ==
  IF Instance(s, i) /\ f \in s.wan[i].active
  THEN RouteDown(Internal(s, Ev("wanDown", i, f)), i, f) ELSE s

(* An interface's first address of a family configures it, and may be what a   *)
(* cached call waits for.                                                      *)
WanAddress(s, i, f) ==
  IF f \in s.wan[i].ip THEN s
  ELSE SearchCache([s EXCEPT !.wan[i].ip = @ \cup {f}, !.nat[i] = @ \cup {f}], i)

(* A neighbour already known is not looked at again. *)
Neighbour(s, i, f) ==
  IF ~Instance(s, i) \/ f \in s.wan[i].neigh THEN s
  ELSE StaHeader([s EXCEPT !.wan[i].neigh = @ \cup {f}], i)

(* handle_down_evt of a station, handle_down_evt_ex of the modem, which looks  *)
(* at is_default_gateway only.                                                 *)
WanDown(s, i) ==
  LET place == CHOOSE k \in DOMAIN s.wans : s.wans[k] = i
      down(acc, f) == Internal([RouteDown(acc, i, f) EXCEPT !.wanUp = @ \ {f}], Ev("wanDown", i, f))
      which == IF Kind(i) = "sta" THEN s.wan[i].active
               ELSE IF s.wan[i].isGw THEN s.wan[i].ip ELSE {}
  IN  [ForEach(which, s, down) EXCEPT !.wan[i] = NoWan, !.nat[i] = {},
                                      !.wans = RemoveAt(@, place)]

(* The modem's instance reads the file for every family it has, if it is the   *)
(* default gateway; a station's for those in use.                              *)
Redone(w, i) == IF Kind(i) = "sta" THEN w.active ELSE IF w.isGw THEN w.ip ELSE {}
Reread(w, fams) ==
  [w EXCEPT !.rules = [f \in Families |-> IF f \in fams THEN file ELSE @[f]]]
FirewallChange_V4Only(s) ==
  [s EXCEPT !.wan = [i \in Uplinks |->
     IF Instance(s, i) THEN Reread(s.wan[i], Redone(s.wan[i], i) \cap {"v4"}) ELSE s.wan[i]]]
FirewallChange(s) ==
  [s EXCEPT !.wan = [i \in Uplinks |->
     IF Instance(s, i) THEN Reread(s.wan[i], Redone(s.wan[i], i)) ELSE s.wan[i]]]

(************************** IPACM_Wlan, IPACM_Lan ***************************)
UplinkRules(s, f, kind) == [s EXCEPT !.ap.ul[f] = @ \cup {kind}]
NoUplinkRules(s, f, kind) ==
  [s EXCEPT !.ap.ul[f] = @ \ {IF kind = "q6" /\ "q6" \in @ THEN "q6" ELSE "sta"}]

WanUpTether(s, i, f) ==
  IF ~s.ap.on \/ f \notin s.ap.ip \/ f \in s.ap.up THEN s
  ELSE LET up == [s EXCEPT !.ap.up = @ \cup {f}]
       IN  IF f \in s.ap.down THEN UplinkRules(up, f, Kind(i)) ELSE up
WanDownTether(s, i, f) ==
  IF ~s.ap.on \/ f \notin s.ap.ip \/ f \notin s.ap.up THEN s
  ELSE LET down == [s EXCEPT !.ap.up = @ \ {f}]
       IN  IF f \in s.ap.down THEN NoUplinkRules(down, f, Kind(i)) ELSE down
(* With one access point the second IPv4 downstream that an uplink with        *)
(* address translation (xlat) refuses does not occur.                          *)
DownstreamAdd(s, f) ==
  IF ~s.ap.on \/ f \in s.ap.down THEN s
  ELSE LET down == [s EXCEPT !.ap.down = @ \cup {f}]
       IN  IF f \in s.ap.up \cap s.ap.ip THEN UplinkRules(down, f, s.mode) ELSE down
DownstreamDel(s, f) ==
  IF ~s.ap.on \/ f \notin s.ap.down THEN s
  ELSE LET none == [s EXCEPT !.ap.down = @ \ {f}]
       IN  IF f \in s.ap.up THEN NoUplinkRules(none, f, s.mode) ELSE none
ApAddress_NoUpstream(s, f) ==
  IF f \in s.ap.ip THEN s
  ELSE SearchCache([s EXCEPT !.ap.ip = @ \cup {f}, !.nat[Ap] = @ \cup {f}], Ap)
(* The access point also learns which upstream was there before it. *)
ApAddress(s, f) ==
  IF f \in s.ap.ip THEN s
  ELSE SearchCache([s EXCEPT !.ap.ip = @ \cup {f}, !.nat[Ap] = @ \cup {f}, !.ap.up = @ \cup s.wanUp], Ap)
ApDown(s) ==
  LET rest == ForEach(s.wanUp, s, LAMBDA acc, f : NoUplinkRules(acc, f, acc.mode))
  IN  [rest EXCEPT !.ap = NoAp, !.nat[Ap] = {}]

(* The firmware of the Wi-Fi is about to restart: the access point is no       *)
(* longer configured, and its downstream is put in the cache for when it comes *)
(* back.  Only it is told: stations do not ask for this event on Android.      *)
Ssr(s) ==
  LET first == IF "v4" \in s.ap.ip THEN {"v4"} ELSE s.ap.ip
      kept == ForEach(first, s, LAMBDA acc, f : Cached(acc, Entry("downstream", Ap, {f})))
  IN  [kept EXCEPT !.nat[Ap] = IF s.ap.on THEN {} ELSE @]

(************************ IPACM_IfaceManager, events *************************)
(* create_iface_instance: once per interface; it asks the kernel for the       *)
(* addresses there are already.                                                *)
LinkUp(s, i) ==
  LET known == ForEach(net[i].addrs, s, LAMBDA acc, f : External(acc, Ev("address", i, f)))
  IN  IF i = Ap THEN IF s.ap.on THEN s ELSE [known EXCEPT !.ap.on = TRUE]
      ELSE IF Instance(s, i) THEN s ELSE [known EXCEPT !.wans = Append(@, i)]

Handle(s, ev) ==
  CASE ev.what = "linkUp" -> LinkUp(s, ev.iface)
    [] ev.what = "address" -> IF ev.iface = Ap THEN IF s.ap.on THEN ApAddress(s, ev.fam) ELSE s
                              ELSE IF Instance(s, ev.iface) THEN WanAddress(s, ev.iface, ev.fam) ELSE s
    [] ev.what = "neighbour" -> Neighbour(s, ev.iface, ev.fam)
    [] ev.what = "linkDown" -> IF ev.iface = Ap THEN IF s.ap.on THEN ApDown(s) ELSE s
                               ELSE IF Instance(s, ev.iface) THEN WanDown(s, ev.iface) ELSE s
    [] ev.what = "routeAdd" -> RouteAdd(s, ev.iface, ev.fam)
    [] ev.what = "routeDel" -> RouteDel(s, ev.iface, ev.fam)
    [] ev.what = "downAdd" -> DownstreamAdd(s, ev.fam)
    [] ev.what = "downDel" -> DownstreamDel(s, ev.fam)
    [] ev.what = "firewall" -> FirewallChange(s)
    [] ev.what = "ssr" -> Ssr(s)
    [] ev.what = "wanUp" -> WanUpTether(s, ev.iface, ev.fam)
    [] ev.what = "wanDown" -> WanDownTether(s, ev.iface, ev.fam)

Init ==
  /\ net = [i \in Ifaces |-> [link |-> FALSE, addrs |-> {}, neigh |-> {}]]
  /\ ipacm = [gw |-> NoIface, up |-> {}, latest |-> 0, valid |-> FALSE,
              cache |-> [k \in 0 .. CacheSize - 1 |-> NoEntry],
              nat |-> [i \in Ifaces |-> {}],
              wans |-> <<>>, wan |-> [i \in Uplinks |-> NoWan], wanUp |-> {}, mode |-> "none",
              ap |-> NoAp, int |-> <<>>, ext |-> <<>>]
  /\ file = 1 /\ call = NoCall
  /\ want = [iface |-> NoIface, fams |-> {}, lost |-> FALSE, down |-> {}]
  /\ bounds = [calls |-> 0, changes |-> 0]
  /\ env \in Environments

(* The thread of the daemon; the HAL's only stops it when they are concurrent. *)
Undisturbed == call = NoCall \/ "concurrent" \in env
Process ==
  /\ Undisturbed /\ ipacm.int \o ipacm.ext # <<>>
  /\ ipacm' = IF ipacm.int # <<>> THEN Handle([ipacm EXCEPT !.int = Tail(@)], Head(ipacm.int))
              ELSE Handle([ipacm EXCEPT !.ext = Tail(@)], Head(ipacm.ext))
  /\ UNCHANGED <<net, file, call, want, bounds, env>>

(****************************** the framework ********************************)
Waiting == /\ "patient" \in env
           /\ \/ \E k \in DOMAIN ipacm.cache : ipacm.cache[k] # NoEntry
              \/ want.iface \in Stas /\ ~(want.fams \subseteq net[want.iface].neigh)
              \/ ~(want.down \subseteq net[Ap].addrs)
All == {f \in Families : f = "v6" => "v6" \in env}
Settled == "halfway" \in env \/ net[Ap].addrs \in {{}, All}
(* A call looks at pNatIfaces first. *)
Call(what, i, fams) ==
  /\ call = NoCall /\ bounds.calls < MaxCalls
  /\ call' = [what |-> what, iface |-> i, fams |-> fams,
              ready |-> i = NoIface \/ Configured(ipacm, i, fams)]
  /\ bounds' = [bounds EXCEPT !.calls = @ + 1]
  /\ UNCHANGED <<net, file, ipacm, env>>

setUpstreamParameters(i, fams) ==
  /\ ~want.lost /\ fams # {} /\ fams \subseteq net[i].addrs
  /\ <<i, fams>> # <<want.iface, want.fams>>
  /\ want.iface \in {NoIface, i} \/ "switch" \in env
  /\ want.iface = i => want.fams \subseteq fams \/ "narrow" \in env
  /\ "eager" \in env \/ Configured(ipacm, i, fams)
  /\ ~Waiting
  /\ Settled
  /\ "late" \in env \/ i \in Modems \/ fams \subseteq net[i].neigh
  /\ Call("upstream", i, fams)
  /\ want' = [want EXCEPT !.iface = i, !.fams = fams]
removeUpstream ==
  /\ want.iface # NoIface /\ Settled
  /\ ~Waiting
  /\ Call("clear", NoIface, {})
  /\ want' = [want EXCEPT !.iface = NoIface, !.fams = {}, !.lost = FALSE]
addDownstream(f) ==
  /\ f \in net[Ap].addrs \ want.down
  /\ "eager" \in env \/ Configured(ipacm, Ap, {f})
  /\ Call("downstream", Ap, {f})
  /\ want' = [want EXCEPT !.down = @ \cup {f}]
removeDownstream(f) ==
  /\ f \in want.down /\ ~Waiting
  /\ Call("noDownstream", Ap, {f})
  /\ want' = [want EXCEPT !.down = @ \ {f}]
stopOffload ==
  /\ "stop" \in env
  /\ Call("stop", NoIface, {})
  /\ want' = [iface |-> NoIface, fams |-> {}, lost |-> FALSE, down |-> {}]

Act ==
  /\ call # NoCall
  /\ ipacm' = CASE call.what = "upstream" -> TakeUpstream(ipacm, call.iface, call.fams, call.ready)
                [] call.what = "clear" -> ClearUpstream(ipacm)
                [] call.what = "stop" -> StopAll(ipacm)
                [] call.what = "downstream" ->
                     ForEach(call.fams, ipacm, LAMBDA s, f : TakeDownstream(s, f, call.ready))
                [] call.what = "noDownstream" -> ForEach(call.fams, ipacm, DropDownstream)
  /\ call' = NoCall
  /\ UNCHANGED <<net, file, want, bounds, env>>

(******************************** the kernel *********************************)
Calm == Undisturbed /\ Len(ipacm.int \o ipacm.ext) < MaxQueue
Post(ev) == ipacm' = External(ipacm, ev)
There(i) == (IF i = Ap THEN "ap" ELSE Kind(i)) \in env
Raise(i) ==
  /\ Calm /\ There(i) /\ ~net[i].link
  /\ net' = [net EXCEPT ![i].link = TRUE]
  /\ Post(Ev("linkUp", i, "v4"))
  /\ UNCHANGED <<file, call, want, bounds, env>>
Address(i, f) ==
  /\ Calm /\ net[i].link /\ f \notin net[i].addrs /\ f \in All
  /\ net' = [net EXCEPT ![i].addrs = @ \cup {f}]
  /\ Post(Ev("address", i, f))
  /\ UNCHANGED <<file, call, want, bounds, env>>
Resolve(i, f) ==
  /\ Calm /\ f \in net[i].addrs \ net[i].neigh
  /\ net' = [net EXCEPT ![i].neigh = @ \cup {f}]
  /\ Post(Ev("neighbour", i, f))
  /\ UNCHANGED <<file, call, want, bounds, env>>
Change(kind) ==
  /\ Calm /\ kind \in env /\ bounds.changes < MaxChanges
  /\ bounds' = [bounds EXCEPT !.changes = @ + 1]
  /\ UNCHANGED <<call, env>>
Down == [link |-> FALSE, addrs |-> {}, neigh |-> {}]
Lose(i) ==
  /\ Change("losses") /\ net[i].link /\ (i = Ap \/ Settled)
  /\ net' = [net EXCEPT ![i] = Down]
  /\ Post(Ev("linkDown", i, "v4"))
  /\ want' = [want EXCEPT !.lost = @ \/ i = want.iface, !.down = IF i = Ap THEN {} ELSE @]
  /\ UNCHANGED file
(* The firmware's restart takes the stations and the access point down; the    *)
(* daemon has to bring the downstream back.                                    *)
Restart ==
  LET fallen == {i \in Stas \cup {Ap} : net[i].link} IN
  /\ Change("ssr") /\ fallen # {}
  /\ "untethered" \in env \/ ipacm.ap.ip = {} \/ ipacm.ap.down \cap want.down = {"v4"}
  /\ net' = [i \in Ifaces |-> IF i \in fallen THEN Down ELSE net[i]]
  /\ ipacm' = [Internal(ipacm, Ev("ssr", NoIface, "v4"))
                 EXCEPT !.ext = @ \o [n \in 1 .. Cardinality(fallen) |->
                                        Ev("linkDown", SetToSeq(fallen)[n], "v4")]]
  /\ want' = [want EXCEPT !.lost = @ \/ want.iface \in fallen]
  /\ UNCHANGED file
Rewrite ==
  /\ Change("file")
  /\ file' = file + 1
  /\ Post(Ev("firewall", NoIface, "v4"))
  /\ UNCHANGED <<net, want>>

Next ==
  \/ Process \/ Act \/ removeUpstream \/ stopOffload \/ Restart \/ Rewrite
  \/ \E i \in Uplinks, fams \in SUBSET Families : setUpstreamParameters(i, fams)
  \/ \E f \in Families :
       \/ addDownstream(f) \/ removeDownstream(f)
       \/ \E i \in Ifaces : Address(i, f)
       \/ \E i \in Stas : Resolve(i, f)
  \/ \E i \in Ifaces : Raise(i) \/ Lose(i)
Spec == Init /\ [][Next]_vars

(**************************** what is coped with *****************************)
(* Routes may have to wait for a station's neighbours. *)
MayWait(e) == "late" \in e \/ ("eager" \in e /\ e \cap {"losses", "ssr"} # {})
(* A framework that calls too early waits for its call to leave the cache; no  *)
(* interface is lost between a call's look at pNatIfaces and its act; offload  *)
(* is not stopped while a route waits; neighbours are late with IPv4 only.     *)
Copes(e) ==
  /\ "eager" \in e => "patient" \in e
  /\ "concurrent" \in e => e \cap {"eager", "losses", "ssr"} = {}
  /\ MayWait(e) => "patient" \in e /\ "stop" \notin e
  /\ "late" \in e => "v6" \notin e
(* The modem's is_default_gateway may be wrong after a family is taken away. *)
Steady(e) == "narrow" \in e => e \cap {"losses", "file"} = {}

(* The access point follows if its calls are never cached, offload is not      *)
(* stopped and its families come together.                                     *)
Shares(e) ==
  /\ e \cap {"eager", "stop", "ssr"} = {}
  /\ "v6" \in e => e \cap {"halfway", "concurrent"} = {}

(******************************** properties *********************************)
Quiet == ipacm.int \o ipacm.ext = <<>> /\ call = NoCall
Carries(i) == ipacm.wan[i].active
Reachable(i) == net[i].link /\ want.fams \subseteq ipacm.nat[i]
                /\ (i \in Stas => want.fams \subseteq net[i].neigh)

(* When nothing is left to handle, the upstream the framework chose carries    *)
(* the families it chose and no other interface carries any.                   *)
Served == Quiet /\ want.iface \in Uplinks /\ ~want.lost /\ Reachable(want.iface) =>
            \A i \in Uplinks : Carries(i) = IF i = want.iface THEN want.fams ELSE {}
(* After the framework has removed the upstream none carries traffic. *)
NothingAfterRemoval == Quiet /\ want.iface = NoIface => \A i \in Uplinks : Carries(i) = {}
(* wan_up and wan_up_v6, which the rest of the daemon asks, say whether some   *)
(* uplink carries the family.                                                  *)
WanUpAgrees == Quiet => ipacm.wanUp = UNION {Carries(i) : i \in Uplinks}
(* The access point sends up exactly the families that are tethered and that   *)
(* an uplink carries, with the rules for that uplink's kind (in environments   *)
(* that Shares).                                                               *)
LanAgrees ==
  Quiet /\ Shares(env) => \A f \in Families :
    ipacm.ap.ul[f] = IF f \in want.down /\ ipacm.ap.on /\ f \in ipacm.ap.ip
                     THEN {Kind(i) : i \in {j \in Uplinks : f \in Carries(j)}} ELSE {}
(* The rules of an uplink that carries a family are those of the file. *)
FirewallCurrent == Quiet => \A i \in Uplinks : \A f \in Carries(i) : ipacm.wan[i].rules[f] = file

==============================================================================
