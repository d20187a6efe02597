--------------------------------- MODULE IpaNat ---------------------------------
(* IPACM's NAT: the connections IPACM_ConntrackListener hears of, the cache    *)
(* of them that NatApp keeps, and the rules of the hardware table the ipanat   *)
(* library fills.  All handlers run on the dispatcher thread, one at a time.   *)
(*                                                                            *)
(* A connection is a flow from Src to Dst.  Its rule is keyed by the flow and  *)
(* by a private address: that of Src, or the WAN address for the dummy rules   *)
(* of interfaces without NAT.  The answers of the driver are parameters:       *)
(* `refused', the keys for which there is no room in the cache, the temporary  *)
(* list or the table, and `stuck', the keys whose rule it fails to delete.     *)
EXTENDS Integers, FiniteSets

CONSTANTS
  Clients,    \* addresses on NAT interfaces
  Hosts,      \* private addresses on interfaces without NAT
  WanIps,     \* public addresses
  Peers,      \* addresses of STA clients, in one subnet
  Far,        \* any other target
  Flows, Src, Dst,
  None,       \* address 0
  MaxHosts,   \* MAX_IFACE_ADDRESS
  MaxSta,     \* MAX_STA_CLNT_IFACES
  Failures,   \* bound of the runs: what the driver may fail in one step
  MaxFailures,\* bound of the runs: deletions the driver fails in all
  Garbage     \* what the uninitialised memory of NatApp may hold

ASSUME AddressesAssumption ==
  /\ None \notin Clients \cup Hosts \cup WanIps \cup Peers \cup {Far}
  /\ Clients \cap Hosts = {} /\ Clients \cap WanIps = {} /\ Hosts \cap WanIps = {}
  /\ Peers \cap (Clients \cup Hosts) = {} /\ Far \notin Clients \cup Hosts \cup Peers

ASSUME FlowsAssumption ==
  /\ Src \in [Flows -> Clients \cup Hosts \cup WanIps]
  /\ Dst \in [Flows -> Peers \cup {Far}]

(* The rules that can be: a flow under its own address, or as a dummy.         *)
Keys == {k \in [priv : Clients \cup Hosts \cup WanIps \cup {None}, flow : Flows] :
           \/ k.priv = Src[k.flow]
           \/ Src[k.flow] \in Hosts /\ k.priv \in WanIps \cup {None}}

ASSUME BoundsAssumption ==
  /\ MaxHosts \in Nat /\ MaxSta \in Nat /\ MaxFailures \in Nat
  /\ Failures \subseteq SUBSET Keys /\ {} \in Failures
  /\ Garbage \subseteq [pre : WanIps \cup {None}, saving : SUBSET Clients]

VARIABLES
  nat,        \* the NatApp object, with the rules of the current table in .hw
  wanUp, wanIp, backhaul,   \* WanUp, wan_ipaddr, backhaul_mode
  natIf,      \* nat_iface_ipv4_addr
  nonNat,     \* nonnat_iface_ipv4_addr
  sta,        \* sta_clnt_ipv4_addr
  staCnt,     \* StaClntCnt
  live,       \* the flows conntrack reported and did not report destroyed
  failures    \* how often the driver failed to delete a rule or a table

listener == <<wanUp, wanIp, backhaul, natIf, nonNat, sta, staCnt>>
vars == <<nat, wanUp, wanIp, backhaul, natIf, nonNat, sta, staCnt, live, failures>>

Clear == [k \in Keys |-> 0]

(* pub_ip_addr_pre, PwrSaveIfs, wan_ipaddr and backhaul_mode have no initial   *)
(* value in the code: any is possible.                                        *)
Init ==
  /\ \E g \in Garbage :
       nat = [tbl |-> FALSE, pub |-> None, pre |-> g.pre, saving |-> g.saving,
              cache |-> [k \in Keys |-> "none"], temp |-> {}, hw |-> Clear]
  /\ wanUp = FALSE /\ wanIp \in WanIps \cup {None} /\ backhaul \in {"Q6", "STA"}
  /\ natIf = {} /\ nonNat = [i \in 1..MaxHosts |-> None]
  /\ sta = [i \in 1..MaxSta |-> None] /\ staCnt = 0
  /\ live = {} /\ failures = 0

-----------------------------------------------------------------------------
(* NatApp: what an operation makes of the object n. *)

Rules(n, from) == {k \in Keys : n.cache[k] = from}

(* The rules K are added to the table, which without a handle refuses all;    *)
(* what is refused leaves the cache.                                          *)
Reinstall_Unmarked(n, K, refused) ==
  [n EXCEPT !.hw = [k \in Keys |-> n.hw[k] + (IF k \in K \ refused THEN 1 ELSE 0)]]
Reinstall(n, K, refused) ==
  LET lost == IF n.tbl THEN K \cap refused ELSE K
  IN [n EXCEPT !.cache = [k \in Keys |-> IF k \in lost THEN "none"
                                         ELSE IF k \in K THEN "on" ELSE n.cache[k]],
               !.hw = [k \in Keys |-> n.hw[k] + (IF k \in K \ lost THEN 1 ELSE 0)]]

AddTable(n, ip, created, refused) ==
  IF ~created THEN [n EXCEPT !.tbl = FALSE, !.hw = Clear]
  ELSE LET m == [n EXCEPT !.tbl = TRUE, !.pub = ip, !.hw = Clear]
       IN IF ip = n.pre THEN Reinstall(m, {k \in Keys : n.cache[k] # "none"}, refused)
          ELSE m

Disabled_Not(n) == n.cache
Disabled(n) == [k \in Keys |-> IF n.cache[k] = "on" THEN "off" ELSE n.cache[k]]

Deletable(n, ip) == n.tbl /\ n.pub = ip

DeleteTable(n, ip, deleted) ==
  IF ~Deletable(n, ip) THEN n
  ELSE IF ~deleted THEN [n EXCEPT !.cache = Disabled(n)]
  ELSE [n EXCEPT !.cache = Disabled(n), !.pre = n.pub, !.tbl = FALSE,
                 !.pub = None, !.hw = Clear]

(* The rules K go from the table; the cache makes `gone' of them, and `failed' *)
(* of one that was in the table and could not be deleted.                     *)
Remove(n, K, stuck, gone, failed) ==
  [n EXCEPT
     !.hw = [k \in Keys |->
               n.hw[k] - (IF k \in K /\ n.cache[k] = "on" /\ k \notin stuck THEN 1 ELSE 0)],
     !.cache = [k \in Keys |->
                  IF k \notin K THEN n.cache[k]
                  ELSE IF n.cache[k] = "on" /\ k \in stuck THEN failed ELSE gone]]

DeleteEntry(n, k, stuck) == Remove(n, {k}, stuck, "none", "none")

Storable(n, k) == k.priv # None /\ n.cache[k] = "none"

AddEntries(n, K, refused) ==
  LET new == {k \in K \ refused : n.tbl /\ Storable(n, k)}
      rules == {k \in new : k.priv \notin n.saving}
  IN [n EXCEPT !.cache = [k \in Keys |-> IF k \in rules THEN "on"
                                         ELSE IF k \in new THEN "off" ELSE n.cache[k]],
               !.hw = [k \in Keys |-> n.hw[k] + (IF k \in rules THEN 1 ELSE 0)]]

AddFails(n, k, refused) ==
  ~n.tbl \/ (k.priv # None /\ (n.cache[k] # "none" \/ k \in refused))

CacheEntry(n, k, refused) ==
  IF Storable(n, k) /\ k \notin refused THEN [n EXCEPT !.cache[k] = "off"] ELSE n

AddTempEntry(n, k, pub, refused) ==
  IF n.cache[k] # "none" \/ k \in refused \/ \E t \in n.temp : t.key = k THEN n
  ELSE [n EXCEPT !.temp = @ \cup {[key |-> k, pub |-> pub]}]

DeleteTempEntry_Not(n, k) == n
DeleteTempEntry(n, k) == [n EXCEPT !.temp = {t \in @ : t.key # k}]

(* FlushTempEntries: the entries of an address are dropped, or added to the    *)
(* table if they are for its public address; one that cannot be added stays.  *)
Waiting(n, a) == {t \in n.temp : t.key.priv = a \/ Dst[t.key.flow] = a}
As(t, isDummy) == IF isDummy THEN [t EXCEPT !.key.priv = t.pub] ELSE t

Drop(n, a) == [n EXCEPT !.temp = @ \ Waiting(n, a)]

Flush(n, a, isDummy, refused) ==
  LET due == {As(t, isDummy) : t \in {u \in Waiting(n, a) : u.pub = n.pub}}
  IN [AddEntries(n, {t.key : t \in due}, refused)
      EXCEPT !.temp = (@ \ Waiting(n, a)) \cup {t \in due : AddFails(n, t.key, refused)}]

UpdatePwrSaveIf(n, c, stuck) ==
  IF c \in n.saving THEN n
  ELSE [Remove(n, {k \in Rules(n, "on") : k.priv = c}, stuck, "off", "on")
        EXCEPT !.saving = @ \cup {c}]

ResetPwrSaveIf_OnlyMark(n, c, refused) == [n EXCEPT !.saving = @ \ {c}]
ResetPwrSaveIf(n, c, refused) ==
  [Reinstall(n, {k \in Rules(n, "off") : k.priv = c}, refused) EXCEPT !.saving = @ \ {c}]

DelEntriesOnClntDiscon(n, a, stuck) ==
  [Remove(n, {k \in Rules(n, "on") : k.priv = a}, stuck, "off", "on")
   EXCEPT !.saving = @ \ {a}]

DelEntriesOnSTAClntDiscon(n, p, stuck) ==
  Remove(n, {k \in Keys : Dst[k.flow] = p}, stuck, "none", "on")

-----------------------------------------------------------------------------
(* IPACM_ConntrackListener: where a flow belongs, and what its events do.      *)

TriggerWANDown(ip, deleted) ==
  /\ nat' = DeleteTable(nat, ip, deleted)
  /\ IF Deletable(nat, ip) /\ deleted THEN wanUp' = FALSE /\ wanIp' = None
     ELSE UNCHANGED <<wanUp, wanIp>>

Failed(bad) ==
  IF bad THEN failures < MaxFailures /\ failures' = failures + 1 ELSE UNCHANGED failures

HandleWanDown(ip, deleted) ==
  /\ wanUp /\ TriggerWANDown(ip, deleted)
  /\ Failed(Deletable(nat, ip) /\ ~deleted)
  /\ UNCHANGED <<backhaul, natIf, nonNat, sta, staCnt, live>>

(* A new WAN address takes the old table down first, with or without success.  *)
TriggerWANUp(ip, mode, deleted, created, refused) ==
  /\ ~(wanUp /\ wanIp = ip)
  /\ nat' = AddTable(IF wanUp THEN DeleteTable(nat, wanIp, deleted) ELSE nat,
                     ip, created, refused)
  /\ wanUp' = TRUE /\ wanIp' = ip /\ backhaul' = mode
  /\ Failed(wanUp /\ Deletable(nat, wanIp) /\ ~deleted)
  /\ UNCHANGED <<natIf, nonNat, sta, staCnt, live>>

(* AddIface: the rule of a flow, and whether its client is not known yet.      *)
OnNatIface(f) == Src[f] \in natIf
OnNonNat(f) == Src[f] \in Hosts /\ backhaul = "Q6" /\ \E i \in 1..MaxHosts : nonNat[i] = Src[f]

RuleOf(f) == [priv |-> IF OnNonNat(f) THEN wanIp ELSE Src[f], flow |-> f]

(* Flows of the phone itself count only under the current address, over Q6.    *)
Ignored(f) == Src[f] \in WanIps /\ ~(Src[f] = wanIp /\ backhaul = "Q6")

(* CheckSTAClient looks at the first StaClntCnt slots only.                    *)
StaUnknown(f) ==
  /\ backhaul = "STA" /\ staCnt > 0
  /\ Dst[f] \in Peers /\ sta[1] # None
  /\ \A i \in 1..staCnt : sta[i] # Dst[f]

IsTemp(f) ==
  StaUnknown(f) \/ (Src[f] \notin WanIps /\ ~OnNatIface(f) /\ ~OnNonNat(f))

(* AddORDeleteNatEntry, for a new connection ...                               *)
Added(f, refused) ==
  IF Ignored(f) THEN nat
  ELSE IF ~wanUp THEN CacheEntry(nat, RuleOf(f), refused)
  ELSE IF IsTemp(f) THEN AddTempEntry(nat, RuleOf(f), wanIp, refused)
  ELSE AddEntries(nat, {RuleOf(f)}, refused)

(* ... which TCP reports again with every update, ...                          *)
CtNew(f, refused) ==
  /\ nat' = Added(f, refused) /\ live' = live \cup {f}
  /\ UNCHANGED <<listener, failures>>

(* ... and for one that ended. *)
Ended(f, stuck) ==
  IF Ignored(f) THEN nat
  ELSE DeleteTempEntry(DeleteEntry(nat, RuleOf(f), stuck), RuleOf(f))

CtDestroy(f, stuck) ==
  /\ f \in live /\ live' = live \ {f}
  /\ nat' = Ended(f, stuck)
  /\ Failed(~Ignored(f) /\ RuleOf(f) \in Rules(nat, "on") \cap stuck)
  /\ UNCHANGED listener

(* Clients of NAT interfaces: their Lan or Wlan object calls when an address   *)
(* is new or gone, and for power save.                                        *)
HandleNeighIpAddrAddEvt(c, refused) ==
  /\ c \notin natIf /\ natIf' = natIf \cup {c}
  /\ nat' = Flush(ResetPwrSaveIf(nat, c, refused), c, FALSE, refused)
  /\ UNCHANGED <<wanUp, wanIp, backhaul, nonNat, sta, staCnt, live, failures>>

RulesOf(a) == {k \in Rules(nat, "on") : k.priv = a}

HandleNeighIpAddrDelEvt(c, stuck) ==
  /\ c \in natIf /\ natIf' = natIf \ {c}
  /\ nat' = DelEntriesOnClntDiscon(Drop(nat, c), c, stuck)
  /\ Failed(RulesOf(c) \cap stuck # {})
  /\ UNCHANGED <<wanUp, wanIp, backhaul, nonNat, sta, staCnt, live>>

PowerSave(c, stuck) ==
  /\ c \in natIf /\ nat' = UpdatePwrSaveIf(nat, c, stuck)
  /\ Failed(c \notin nat.saving /\ RulesOf(c) \cap stuck # {})
  /\ UNCHANGED <<listener, live>>

(* The client's power_save_set outlives a change of its address, the place in   *)
(* PwrSaveIfs does not: a client can recover that has none.                    *)
Recover(c, refused) ==
  /\ c \in natIf /\ nat' = ResetPwrSaveIf(nat, c, refused)
  /\ UNCHANGED <<listener, live, failures>>

(* HandleNonNatIPAddr: the first free place, also for an address reported      *)
(* twice; with none free the event is lost.                                   *)
FreePlace(i) == nonNat[i] = None /\ \A j \in 1..(i-1) : nonNat[j] # None

AddHost(h, refused) ==
  /\ backhaul = "Q6"
  /\ \E i \in 1..MaxHosts : FreePlace(i) /\ nonNat' = [nonNat EXCEPT ![i] = h]
  /\ nat' = Flush(nat, h, TRUE, refused)
  /\ UNCHANGED <<wanUp, wanIp, backhaul, natIf, sta, staCnt, live, failures>>

DelHost(h, stuck) ==
  /\ backhaul = "Q6"
  /\ \E i \in 1..MaxHosts : /\ nonNat[i] = h /\ \A j \in 1..(i-1) : nonNat[j] # h
                            /\ nonNat' = [nonNat EXCEPT ![i] = None]
  /\ nat' = DelEntriesOnClntDiscon(Drop(nat, h), h, stuck)
  /\ Failed(RulesOf(h) \cap stuck # {})
  /\ UNCHANGED <<wanUp, wanIp, backhaul, natIf, sta, staCnt, live>>

(* Clients of the STA backhaul, reported by the Wan object when new or gone.   *)
StaPlace(i) == sta[i] = None /\ \A j \in 1..(i-1) : sta[j] # None

HandleSTAClientAddEvt(p, refused) ==
  /\ staCnt < MaxSta /\ \A i \in 1..MaxSta : sta[i] # p
  /\ \E i \in 1..MaxSta : StaPlace(i) /\ sta' = [sta EXCEPT ![i] = p]
  /\ staCnt' = staCnt + 1
  /\ nat' = Flush(nat, p, FALSE, refused)
  /\ UNCHANGED <<wanUp, wanIp, backhaul, natIf, nonNat, live, failures>>

(* One that found no place when it was new may leave as well.                  *)
HandleSTAClientDelEvt(p, stuck) ==
  /\ \/ \E i \in 1..MaxSta :
          /\ sta[i] = p /\ sta' = [sta EXCEPT ![i] = None] /\ staCnt' = staCnt - 1
          /\ nat' = Drop(DelEntriesOnSTAClntDiscon(nat, p, stuck), p)
          /\ Failed(\E k \in Rules(nat, "on") \cap stuck : Dst[k.flow] = p)
     \/ /\ \A i \in 1..MaxSta : sta[i] # p
        /\ nat' = Drop(nat, p) /\ UNCHANGED <<sta, staCnt, failures>>
  /\ UNCHANGED <<wanUp, wanIp, backhaul, natIf, nonNat, live>>

-----------------------------------------------------------------------------
Answers == IF Failures = {{}} THEN {TRUE} ELSE BOOLEAN

Wan == \E ip \in WanIps :
  \/ \E deleted \in Answers : HandleWanDown(ip, deleted)
  \/ \E mode \in {"Q6", "STA"}, deleted, created \in Answers, refused \in Failures :
       TriggerWANUp(ip, mode, deleted, created, refused)

Conntrack == \E f \in Flows, K \in Failures : CtNew(f, K) \/ CtDestroy(f, K)

Neighbours == \E K \in Failures :
  \/ \E c \in Clients : \/ HandleNeighIpAddrAddEvt(c, K) \/ HandleNeighIpAddrDelEvt(c, K)
                        \/ PowerSave(c, K) \/ Recover(c, K)
  \/ \E h \in Hosts : AddHost(h, K) \/ DelHost(h, K)
  \/ \E p \in Peers : HandleSTAClientAddEvt(p, K) \/ HandleSTAClientDelEvt(p, K)

Next == Wan \/ Conntrack \/ Neighbours

Spec == Init /\ [][Next]_vars

-----------------------------------------------------------------------------
Status == {"none", "off", "on"}

TypeOK ==
  /\ nat \in [tbl : BOOLEAN, pub : WanIps \cup {None}, pre : WanIps \cup {None},
              saving : SUBSET Clients, cache : [Keys -> Status],
              temp : SUBSET [key : Keys, pub : WanIps], hw : [Keys -> Nat]]
  /\ wanUp \in BOOLEAN /\ wanIp \in WanIps \cup {None} /\ backhaul \in {"Q6", "STA"}
  /\ natIf \subseteq Clients /\ nonNat \in [1..MaxHosts -> Hosts \cup {None}]
  /\ sta \in [1..MaxSta -> Peers \cup {None}]
  /\ staCnt = Cardinality({i \in 1..MaxSta : sta[i] # None})
  /\ live \subseteq Flows /\ failures \in 0..MaxFailures

(* A connection the cache calls enabled has its rule, in a table that exists,  *)
(* whatever the driver refused before.                                        *)
EnabledHasRule ==
  \A k \in Keys : nat.cache[k] = "on" => nat.tbl /\ nat.hw[k] > 0

(* As long as no deletion failed, the table holds one rule for each enabled    *)
(* connection and no other.                                                   *)
TableAgrees ==
  failures = 0 =>
    \A k \in Keys : nat.hw[k] = (IF nat.cache[k] = "on" THEN 1 ELSE 0)

(* There is a table only while the WAN is up, for its address.                 *)
TableIsOfWan == nat.tbl => wanUp /\ nat.pub = wanIp

(* "wait it timeout by destroy event" (AddTable): what is remembered of a NAT  *)
(* client's connections is forgotten when the connection ends, through all     *)
(* outages, departures and power saves in between: a rule is never restored    *)
(* for a connection that is over.                                             *)
NoStaleConnection ==
  \A k \in Keys : k.priv \in Clients /\ k.flow \notin live =>
    nat.cache[k] = "none" /\ \A t \in nat.temp : t.key # k

(* With the WAN back at its old address, a connection is kept without a rule   *)
(* only while its client is away or saves power.                              *)
RestoredOnReturn ==
  nat.tbl /\ nat.pub = nat.pre /\ failures = 0 =>
    \A k \in Keys : nat.cache[k] = "off" /\ k.priv \in natIf => k.priv \in nat.saving

(* "Device is Power Save mode: Dont insert into nat table but cache"           *)
(* (AddEntry): a client that saves power has no rule in the table.            *)
PowerSaveHasNoRule ==
  failures = 0 => \A k \in Keys : k.priv \in nat.saving => nat.hw[k] = 0
=============================================================================
