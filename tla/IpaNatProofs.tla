------------------------------ MODULE IpaNatProofs ------------------------------
(* IpaNat for any addresses, connections and failures: its types, the agreement *)
(* of the cache with the table, and what the cache remembers.  First what each *)
(* operation makes of a NatApp object, then the handlers.                      *)
EXTENDS IpaNat, FiniteSetTheorems, TLAPS

NatApps ==
  [tbl : BOOLEAN, pub : WanIps \cup {None}, pre : WanIps \cup {None},
   saving : SUBSET Clients, cache : [Keys -> Status],
   temp : SUBSET [key : Keys, pub : WanIps], hw : [Keys -> Nat]]

Backed(n) == \A k \in Keys : n.cache[k] = "on" => n.tbl /\ n.hw[k] > 0
Exact(n) == \A k \in Keys : n.hw[k] = (IF n.cache[k] = "on" THEN 1 ELSE 0)
Off(n) == \A k \in Keys : n.cache[k] # "on"

Sound(n) == n \in NatApps /\ Backed(n)

(* m comes from n by changes of single entries: the table is the same one,     *)
(* and what was exact is.                                                      *)
Follows(m, n) ==
  /\ Sound(m) /\ m.tbl = n.tbl /\ m.pub = n.pub
  /\ Exact(n) => Exact(m)

(* A NatApp object, part by part.                                              *)
LEMMA Parts ==
  ASSUME NEW n \in NatApps
  PROVE  /\ n.tbl \in BOOLEAN /\ n.pub \in WanIps \cup {None} /\ n.pre \in WanIps \cup {None}
         /\ n.saving \subseteq Clients /\ n.cache \in [Keys -> Status]
         /\ n.temp \subseteq [key : Keys, pub : WanIps] /\ n.hw \in [Keys -> Nat]
  BY DEF NatApps

(* Rules go: what is left is backed, and exact if the driver deleted them.     *)
LEMMA RemoveFollows ==
  ASSUME NEW n, Sound(n), NEW K, NEW stuck,
         NEW gone \in {"none", "off"}, NEW failed \in {"none", "on"}
  PROVE  LET m == Remove(n, K, stuck, gone, failed)
         IN /\ Sound(m) /\ m.tbl = n.tbl /\ m.pub = n.pub
            /\ m.temp = n.temp /\ m.saving = n.saving /\ m.pre = n.pre
            /\ Exact(n) /\ (\A k \in Keys \cap K \cap stuck : n.cache[k] # "on") => Exact(m)
<1> DEFINE m == Remove(n, K, stuck, gone, failed)
<1>1. n \in NatApps /\ Backed(n)
  BY DEF Sound
<1>2. /\ n.cache \in [Keys -> Status] /\ n.hw \in [Keys -> Nat]
  BY <1>1, Parts
<1>3. /\ m.tbl = n.tbl /\ m.pub = n.pub /\ m.temp = n.temp /\ m.saving = n.saving
      /\ m.pre = n.pre
      /\ m.hw = [k \in Keys |->
                  n.hw[k] - (IF k \in K /\ n.cache[k] = "on" /\ k \notin stuck THEN 1 ELSE 0)]
      /\ m.cache = [k \in Keys |->
                  IF k \notin K THEN n.cache[k]
                  ELSE IF n.cache[k] = "on" /\ k \in stuck THEN failed ELSE gone]
  BY <1>1 DEF Remove, NatApps
<1>4. ASSUME NEW k \in Keys PROVE m.hw[k] \in Nat /\ m.cache[k] \in Status
  BY <1>1, <1>2, <1>3 DEF Backed, Status
<1>5. m.hw \in [Keys -> Nat] /\ m.cache \in [Keys -> Status]
  BY <1>3, <1>4
<1>6. m \in NatApps
  BY <1>1, <1>5 DEF Remove, NatApps
<1>7. Backed(m)
  BY <1>1, <1>2, <1>3 DEF Backed
<1>8. Exact(n) /\ (\A k \in Keys \cap K \cap stuck : n.cache[k] # "on") => Exact(m)
  BY <1>2, <1>3 DEF Exact
<1> QED  BY <1>3, <1>6, <1>7, <1>8 DEF Sound

(* Rules come: with a table those that are not refused are in it.              *)
LEMMA ReinstallFollows ==
  ASSUME NEW n, Sound(n), NEW K, \A k \in Keys \cap K : n.cache[k] # "on", NEW refused
  PROVE  LET m == Reinstall(n, K, refused)
         IN Follows(m, n) /\ m.temp = n.temp /\ m.saving = n.saving /\ m.pre = n.pre
<1> DEFINE m == Reinstall(n, K, refused)
<1> DEFINE lost == IF n.tbl THEN K \cap refused ELSE K
<1>1. n \in NatApps /\ Backed(n)
  BY DEF Sound
<1>2. /\ n.cache \in [Keys -> Status] /\ n.hw \in [Keys -> Nat] /\ n.tbl \in BOOLEAN
  BY <1>1, Parts
<1>3. /\ m.tbl = n.tbl /\ m.pub = n.pub /\ m.temp = n.temp /\ m.saving = n.saving
      /\ m.pre = n.pre
      /\ m.hw = [k \in Keys |-> n.hw[k] + (IF k \in K \ lost THEN 1 ELSE 0)]
      /\ m.cache = [k \in Keys |-> IF k \in lost THEN "none"
                                   ELSE IF k \in K THEN "on" ELSE n.cache[k]]
  BY <1>1 DEF Reinstall, NatApps
<1>4. ASSUME NEW k \in Keys PROVE m.hw[k] \in Nat /\ m.cache[k] \in Status
  BY <1>2, <1>3 DEF Status
<1>5. m.hw \in [Keys -> Nat] /\ m.cache \in [Keys -> Status]
  BY <1>3, <1>4
<1>6. m \in NatApps
  BY <1>1, <1>5 DEF Reinstall, NatApps
<1>7. ~n.tbl => K = lost
  OBVIOUS
<1>8. lost \subseteq K
  OBVIOUS
<1> HIDE DEF lost
<1>9. Backed(m)
  BY <1>1, <1>2, <1>3, <1>7 DEF Backed
<1>10. Exact(n) => Exact(m)
  BY <1>2, <1>3, <1>8 DEF Exact
<1> QED  BY <1>3, <1>6, <1>9, <1>10 DEF Sound, Follows

(* New connections, with a rule unless their client saves power.               *)
LEMMA AddEntriesFollows ==
  ASSUME NEW n, Sound(n), NEW K, NEW refused
  PROVE  LET m == AddEntries(n, K, refused)
         IN Follows(m, n) /\ m.temp = n.temp /\ m.saving = n.saving /\ m.pre = n.pre
<1> DEFINE m == AddEntries(n, K, refused)
<1> DEFINE new == {k \in K \ refused : n.tbl /\ Storable(n, k)}
<1> DEFINE rules == {k \in new : k.priv \notin n.saving}
<1>1. n \in NatApps /\ Backed(n)
  BY DEF Sound
<1>2. /\ n.cache \in [Keys -> Status] /\ n.hw \in [Keys -> Nat] /\ n.tbl \in BOOLEAN
  BY <1>1, Parts
<1>3. /\ m.tbl = n.tbl /\ m.pub = n.pub /\ m.temp = n.temp /\ m.saving = n.saving
      /\ m.pre = n.pre
      /\ m.hw = [k \in Keys |-> n.hw[k] + (IF k \in rules THEN 1 ELSE 0)]
      /\ m.cache = [k \in Keys |-> IF k \in rules THEN "on"
                                   ELSE IF k \in new THEN "off" ELSE n.cache[k]]
  BY <1>1 DEF AddEntries, NatApps
<1>4. ASSUME NEW k \in rules PROVE n.tbl /\ n.cache[k] = "none" /\ k \in new
  BY DEF Storable
<1>5. ASSUME NEW k \in new PROVE n.tbl /\ n.cache[k] = "none"
  BY DEF Storable
<1> HIDE DEF new, rules
<1>6. ASSUME NEW k \in Keys PROVE m.hw[k] \in Nat /\ m.cache[k] \in Status
  BY <1>2, <1>3 DEF Status
<1>7. m.hw \in [Keys -> Nat] /\ m.cache \in [Keys -> Status]
  BY <1>3, <1>6
<1>8. m \in NatApps
  BY <1>1, <1>7 DEF AddEntries, NatApps
<1>9. Backed(m)
  BY <1>1, <1>2, <1>3, <1>4 DEF Backed
<1>10. Exact(n) => Exact(m)
  BY <1>2, <1>3, <1>4, <1>5 DEF Exact
<1> QED  BY <1>3, <1>8, <1>9, <1>10 DEF Sound, Follows

(* Changes of one entry that has no rule, and of the lists.                    *)
LEMMA CacheEntryFollows ==
  ASSUME NEW n, Sound(n), NEW k \in Keys, NEW refused
  PROVE  LET m == CacheEntry(n, k, refused)
         IN Follows(m, n)
<1>1. CASE Storable(n, k) /\ k \notin refused
  <2> DEFINE m == [n EXCEPT !.cache[k] = "off"]
  <2>1. n \in NatApps /\ Backed(n) /\ n.cache \in [Keys -> Status]
    BY Parts DEF Sound
  <2>2. /\ m.tbl = n.tbl /\ m.pub = n.pub /\ m.hw = n.hw
        /\ m.cache = [n.cache EXCEPT ![k] = "off"]
    BY <2>1 DEF NatApps
  <2>3. m \in NatApps
    BY <2>1 DEF NatApps, Status
  <2>4. n.cache[k] = "none"
    BY <1>1 DEF Storable
  <2>5. Backed(m) /\ (Exact(n) => Exact(m))
    BY <2>1, <2>2, <2>4 DEF Backed, Exact
  <2> QED  BY <1>1, <2>2, <2>3, <2>5 DEF CacheEntry, Follows, Sound
<1> QED  BY <1>1 DEF CacheEntry, Follows

LEMMA ListsFollow ==
  ASSUME NEW n, Sound(n), NEW S \in SUBSET Clients,
         NEW T \in SUBSET [key : Keys, pub : WanIps]
  PROVE  Follows([n EXCEPT !.saving = S], n) /\ Follows([n EXCEPT !.temp = T], n)
<1>1. n \in NatApps /\ Backed(n)
  BY DEF Sound
<1>2. [n EXCEPT !.saving = S] \in NatApps /\ [n EXCEPT !.temp = T] \in NatApps
  BY <1>1 DEF NatApps
<1>3. ASSUME NEW m \in {[n EXCEPT !.saving = S], [n EXCEPT !.temp = T]}
      PROVE  m.tbl = n.tbl /\ m.pub = n.pub /\ m.cache = n.cache /\ m.hw = n.hw
  BY <1>1 DEF NatApps
<1> QED  BY <1>1, <1>2, <1>3 DEF Follows, Sound, Backed, Exact

LEMMA FollowsChain ==
  ASSUME NEW a, NEW b, NEW c, Follows(a, b), Follows(b, c)
  PROVE  Follows(a, c)
  BY DEF Follows

LEMMA TempFollows ==
  ASSUME NEW n, Sound(n), NEW k \in Keys, NEW pub \in WanIps, NEW refused, NEW a
  PROVE  /\ Follows(AddTempEntry(n, k, pub, refused), n)
         /\ Follows(DeleteTempEntry(n, k), n) /\ Follows(Drop(n, a), n)
<1>1. n \in NatApps /\ n.temp \subseteq [key : Keys, pub : WanIps]
  BY Parts DEF Sound
<1>2. Follows(n, n)
  BY DEF Follows
<1>3. [key |-> k, pub |-> pub] \in [key : Keys, pub : WanIps]
  OBVIOUS
<1>4. Follows([n EXCEPT !.temp = @ \cup {[key |-> k, pub |-> pub]}], n)
  BY <1>1, <1>3, ListsFollow
<1>5. Follows([n EXCEPT !.temp = {t \in @ : t.key # k}], n)
  BY <1>1, ListsFollow
<1>6. Follows([n EXCEPT !.temp = @ \ Waiting(n, a)], n)
  BY <1>1, ListsFollow
<1> QED  BY <1>2, <1>4, <1>5, <1>6 DEF AddTempEntry, DeleteTempEntry, Drop

(* A temporary entry that becomes a dummy is one of a host's, and its key is   *)
(* that of the dummy rule.                                                     *)
LEMMA FlushFollows ==
  ASSUME NEW n, Sound(n), NEW a, NEW isDummy \in BOOLEAN, isDummy => a \in Hosts, NEW refused
  PROVE  Follows(Flush(n, a, isDummy, refused), n)
<1> DEFINE due == {As(t, isDummy) : t \in {u \in Waiting(n, a) : u.pub = n.pub}}
<1> DEFINE K == {t.key : t \in due}
<1> DEFINE T == (n.temp \ Waiting(n, a)) \cup {t \in due : AddFails(n, t.key, refused)}
<1>1. n \in NatApps /\ n.temp \subseteq [key : Keys, pub : WanIps]
  BY Parts DEF Sound
<1>2. ASSUME NEW t \in Waiting(n, a) PROVE As(t, isDummy) \in [key : Keys, pub : WanIps]
  <2>1. t \in [key : Keys, pub : WanIps] /\ (t.key.priv = a \/ Dst[t.key.flow] = a)
    BY <1>1, <1>2 DEF Waiting
  <2>2. CASE isDummy
    <3>1. t.key \in Keys /\ t.key.flow \in Flows /\ t.pub \in WanIps
      BY <2>1 DEF Keys
    <3>2. Dst[t.key.flow] \in Peers \cup {Far}
      BY <3>1, FlowsAssumption
    <3>3. t.key.priv = a /\ a \in Hosts
      BY <2>1, <2>2, <3>2, AddressesAssumption
    <3>4. Src[t.key.flow] \in Hosts
      BY <3>1, <3>3, AddressesAssumption DEF Keys
    <3>5. [t.key EXCEPT !.priv = t.pub] \in Keys
      BY <3>1, <3>4 DEF Keys
    <3>6. [t EXCEPT !.key.priv = t.pub] \in [key : Keys, pub : WanIps]
      BY <2>1, <3>5
    <3> QED  BY <2>2, <3>6 DEF As
  <2> QED  BY <2>1, <2>2 DEF As
<1>3. T \in SUBSET [key : Keys, pub : WanIps]
  BY <1>1, <1>2
<1>4. Follows(AddEntries(n, K, refused), n) /\ AddEntries(n, K, refused).temp = n.temp
  BY AddEntriesFollows
<1>5. Sound(AddEntries(n, K, refused))
  BY <1>4 DEF Follows
<1>6. Follows([AddEntries(n, K, refused) EXCEPT !.temp = T], AddEntries(n, K, refused))
  BY <1>3, <1>5, ListsFollow
<1>7. Flush(n, a, isDummy, refused) = [AddEntries(n, K, refused) EXCEPT !.temp = T]
  BY <1>4 DEF Flush
<1> QED  BY <1>4, <1>6, <1>7, FollowsChain

(* A deleted table has no connection left that is called enabled.              *)
LEMMA DeleteTableSound ==
  ASSUME NEW n, Sound(n), NEW ip, NEW deleted \in BOOLEAN
  PROVE  LET m == DeleteTable(n, ip, deleted)
         IN /\ Sound(m)
            /\ ~Deletable(n, ip) => m = n
            /\ Deletable(n, ip) => Off(m) /\ (deleted => ~m.tbl /\ Exact(m))
            /\ ~deleted => m.tbl = n.tbl /\ m.pub = n.pub
<1> DEFINE m == DeleteTable(n, ip, deleted)
<1>1. n \in NatApps /\ Backed(n) /\ n.cache \in [Keys -> Status] /\ n.pub \in WanIps \cup {None}
  BY Parts DEF Sound
<1>2. Disabled(n) \in [Keys -> Status] /\ \A k \in Keys : Disabled(n)[k] # "on"
  BY <1>1 DEF Disabled, Status
<1>3. Clear \in [Keys -> Nat] /\ \A k \in Keys : Clear[k] = 0
  BY DEF Clear
<1>4. CASE ~Deletable(n, ip)
  BY <1>4 DEF DeleteTable
<1>5. CASE Deletable(n, ip) /\ ~deleted
  <2>1. m = [n EXCEPT !.cache = Disabled(n)]
    BY <1>5 DEF DeleteTable
  <2>2. m \in NatApps /\ m.cache = Disabled(n) /\ m.tbl = n.tbl /\ m.pub = n.pub
    BY <1>1, <1>2, <2>1 DEF NatApps
  <2> QED  BY <1>2, <1>5, <2>2 DEF Sound, Backed, Off
<1>6. CASE Deletable(n, ip) /\ deleted
  <2>1. m = [n EXCEPT !.cache = Disabled(n), !.pre = n.pub, !.tbl = FALSE,
                      !.pub = None, !.hw = Clear]
    BY <1>6 DEF DeleteTable
  <2>2. m \in NatApps /\ m.cache = Disabled(n) /\ ~m.tbl /\ m.hw = Clear
    BY <1>1, <1>2, <1>3, <2>1 DEF NatApps
  <2> QED  BY <1>2, <1>3, <1>6, <2>2 DEF Sound, Backed, Off, Exact
<1> QED  BY <1>4, <1>5, <1>6

(* A new table holds a rule for what the cache calls enabled, and no other.    *)
LEMMA AddTableSound ==
  ASSUME NEW n \in NatApps, Off(n), NEW ip \in WanIps, NEW created \in BOOLEAN, NEW refused
  PROVE  LET m == AddTable(n, ip, created, refused)
         IN Sound(m) /\ Exact(m) /\ (m.tbl => m.pub = ip)
<1>3. Clear \in [Keys -> Nat] /\ \A k \in Keys : Clear[k] = 0
  BY DEF Clear
<1>1. CASE ~created
  <2> DEFINE m == [n EXCEPT !.tbl = FALSE, !.hw = Clear]
  <2>1. m \in NatApps /\ m.cache = n.cache /\ m.hw = Clear /\ ~m.tbl
    BY <1>3 DEF NatApps
  <2> QED  BY <1>1, <1>3, <2>1 DEF AddTable, Sound, Backed, Exact, Off
<1>2. CASE created
  <2> DEFINE m == [n EXCEPT !.tbl = TRUE, !.pub = ip, !.hw = Clear]
  <2> DEFINE K == {k \in Keys : n.cache[k] # "none"}
  <2>1. m \in NatApps /\ m.cache = n.cache /\ m.hw = Clear /\ m.pub = ip
    BY <1>3 DEF NatApps
  <2>2. Sound(m) /\ Exact(m)
    BY <1>3, <2>1 DEF Sound, Backed, Exact, Off
  <2>3. \A k \in Keys \cap K : m.cache[k] # "on"
    BY <2>1 DEF Off
  <2>4. AddTable(n, ip, created, refused)
          = IF ip = n.pre THEN Reinstall(m, K, refused) ELSE m
    BY <1>2 DEF AddTable
  <2> HIDE DEF m, K
  <2>5. Follows(Reinstall(m, K, refused), m)
    BY <2>2, <2>3, ReinstallFollows
  <2> QED  BY <2>1, <2>2, <2>4, <2>5 DEF Follows
<1> QED  BY <1>1, <1>2

(* Power save and departure take rules from the table and keep the entries.    *)
LEMMA LeaveFollows ==
  ASSUME NEW n, Sound(n), NEW a, NEW stuck
  PROVE  /\ a \in Clients => LET m == UpdatePwrSaveIf(n, a, stuck)
           IN /\ Sound(m) /\ m.tbl = n.tbl /\ m.pub = n.pub
              /\ Exact(n) /\ (a \in n.saving \/ {k \in Rules(n, "on") : k.priv = a} \cap stuck = {})
                   => Exact(m)
         /\ LET m == DelEntriesOnClntDiscon(n, a, stuck)
           IN /\ Sound(m) /\ m.tbl = n.tbl /\ m.pub = n.pub
              /\ Exact(n) /\ {k \in Rules(n, "on") : k.priv = a} \cap stuck = {} => Exact(m)
         /\ LET m == DelEntriesOnSTAClntDiscon(n, a, stuck)
           IN /\ Sound(m) /\ m.tbl = n.tbl /\ m.pub = n.pub
              /\ Exact(n) /\ ~(\E k \in Rules(n, "on") \cap stuck : Dst[k.flow] = a) => Exact(m)
<1> DEFINE K == {k \in Rules(n, "on") : k.priv = a}
<1> DEFINE r == Remove(n, K, stuck, "off", "on")
<1>1. n \in NatApps /\ n.saving \subseteq Clients
  BY Parts DEF Sound
<1>2. /\ Sound(r) /\ r.tbl = n.tbl /\ r.pub = n.pub /\ r.saving = n.saving
      /\ Exact(n) /\ (\A k \in Keys \cap K \cap stuck : n.cache[k] # "on") => Exact(r)
  BY RemoveFollows
<1>3. K \cap stuck = {} => \A k \in Keys \cap K \cap stuck : n.cache[k] # "on"
  OBVIOUS
<1>4. UpdatePwrSaveIf(n, a, stuck)
        = IF a \in n.saving THEN n ELSE [r EXCEPT !.saving = n.saving \cup {a}]
  BY <1>2 DEF UpdatePwrSaveIf
<1>5. DelEntriesOnClntDiscon(n, a, stuck) = [r EXCEPT !.saving = n.saving \ {a}]
  BY <1>2 DEF DelEntriesOnClntDiscon
<1> HIDE DEF K, r
<1>6. a \in Clients => Follows([r EXCEPT !.saving = n.saving \cup {a}], r)
  <2> SUFFICES ASSUME a \in Clients PROVE Follows([r EXCEPT !.saving = n.saving \cup {a}], r)
    OBVIOUS
  <2>1. n.saving \cup {a} \in SUBSET Clients
    BY <1>1
  <2> QED  BY <1>2, <2>1, ListsFollow
<1>7. Follows([r EXCEPT !.saving = n.saving \ {a}], r)
  <2>1. n.saving \ {a} \in SUBSET Clients
    BY <1>1
  <2> QED  BY <1>2, <2>1, ListsFollow
<1>8. a \in Clients => LET m == UpdatePwrSaveIf(n, a, stuck)
        IN /\ Sound(m) /\ m.tbl = n.tbl /\ m.pub = n.pub
           /\ Exact(n) /\ (a \in n.saving \/ K \cap stuck = {}) => Exact(m)
  BY <1>2, <1>3, <1>4, <1>6 DEF Follows
<1>9. LET m == DelEntriesOnClntDiscon(n, a, stuck)
      IN /\ Sound(m) /\ m.tbl = n.tbl /\ m.pub = n.pub
         /\ Exact(n) /\ K \cap stuck = {} => Exact(m)
  BY <1>2, <1>3, <1>5, <1>7 DEF Follows
<1>10. LET m == DelEntriesOnSTAClntDiscon(n, a, stuck)
       IN /\ Sound(m) /\ m.tbl = n.tbl /\ m.pub = n.pub
          /\ Exact(n) /\ ~(\E k \in Rules(n, "on") \cap stuck : Dst[k.flow] = a) => Exact(m)
  <2> DEFINE D == {k \in Keys : Dst[k.flow] = a}
  <2>1. ~(\E k \in Rules(n, "on") \cap stuck : Dst[k.flow] = a)
          => \A k \in Keys \cap D \cap stuck : n.cache[k] # "on"
    BY DEF Rules
  <2> HIDE DEF D
  <2>2. LET m == Remove(n, D, stuck, "none", "on")
        IN /\ Sound(m) /\ m.tbl = n.tbl /\ m.pub = n.pub
           /\ Exact(n) /\ (\A k \in Keys \cap D \cap stuck : n.cache[k] # "on") => Exact(m)
    BY RemoveFollows
  <2> QED  BY <2>1, <2>2 DEF DelEntriesOnSTAClntDiscon, D
<1> QED  BY <1>8, <1>9, <1>10 DEF K

LEMMA ResetFollows ==
  ASSUME NEW n, Sound(n), NEW c, NEW refused
  PROVE  Follows(ResetPwrSaveIf(n, c, refused), n)
<1> DEFINE K == {k \in Rules(n, "off") : k.priv = c}
<1> DEFINE r == Reinstall(n, K, refused)
<1>1. n.saving \ {c} \in SUBSET Clients
  BY Parts DEF Sound
<1>2. \A k \in Keys \cap K : n.cache[k] # "on"
  BY DEF Rules
<1>3. Follows(r, n) /\ r.saving = n.saving
  BY <1>2, ReinstallFollows
<1>4. Sound(r)
  BY <1>3 DEF Follows
<1>5. ResetPwrSaveIf(n, c, refused) = [r EXCEPT !.saving = n.saving \ {c}]
  BY <1>3 DEF ResetPwrSaveIf
<1> HIDE DEF r
<1>6. Follows([r EXCEPT !.saving = n.saving \ {c}], r)
  BY <1>1, <1>4, ListsFollow
<1> QED  BY <1>3, <1>5, <1>6, FollowsChain

-----------------------------------------------------------------------------
(* The state of the listener keeps its types; the count of STA clients is that *)
(* of the places taken.                                                        *)
Taken(s) == {i \in 1..MaxSta : s[i] # None}

Lists ==
  /\ wanUp \in BOOLEAN /\ wanIp \in WanIps \cup {None} /\ backhaul \in {"Q6", "STA"}
  /\ natIf \subseteq Clients /\ nonNat \in [1..MaxHosts -> Hosts \cup {None}]
  /\ sta \in [1..MaxSta -> Peers \cup {None}]
  /\ staCnt = Cardinality(Taken(sta))
  /\ live \subseteq Flows /\ failures \in 0..MaxFailures
  /\ wanUp => wanIp # None

LEMMA TakenFinite ==
  ASSUME NEW s
  PROVE  IsFiniteSet(Taken(s)) /\ Cardinality(Taken(s)) \in Nat
<1>1. MaxSta \in Nat
  BY BoundsAssumption
<1>2. IsFiniteSet(1..MaxSta)
  BY <1>1, FS_Interval
<1>3. Taken(s) \subseteq 1..MaxSta
  BY DEF Taken
<1>4. IsFiniteSet(Taken(s))
  BY <1>2, <1>3, FS_Subset
<1> QED  BY <1>4, FS_CardinalityType

LEMMA TakenChanges ==
  ASSUME NEW s \in [1..MaxSta -> Peers \cup {None}], NEW i \in 1..MaxSta, NEW p \in Peers
  PROVE  /\ s[i] = None => Cardinality(Taken([s EXCEPT ![i] = p])) = Cardinality(Taken(s)) + 1
         /\ s[i] = p => Cardinality(Taken([s EXCEPT ![i] = None])) = Cardinality(Taken(s)) - 1
<1>1. p # None
  BY AddressesAssumption
<1>2. ASSUME s[i] = None
      PROVE  Cardinality(Taken([s EXCEPT ![i] = p])) = Cardinality(Taken(s)) + 1
  <2>1. Taken([s EXCEPT ![i] = p]) = Taken(s) \cup {i} /\ i \notin Taken(s)
    BY <1>1, <1>2 DEF Taken
  <2>2. IsFiniteSet(Taken(s))
    BY TakenFinite
  <2> QED  BY <2>1, <2>2, FS_AddElement
<1>3. ASSUME s[i] = p
      PROVE  Cardinality(Taken([s EXCEPT ![i] = None])) = Cardinality(Taken(s)) - 1
  <2>1. Taken([s EXCEPT ![i] = None]) = Taken(s) \ {i} /\ i \in Taken(s)
    BY <1>1, <1>3 DEF Taken
  <2>2. IsFiniteSet(Taken(s))
    BY TakenFinite
  <2> QED  BY <2>1, <2>2, FS_RemoveElement
<1> QED  BY <1>2, <1>3

LEMMA FailedType ==
  ASSUME failures \in 0..MaxFailures, NEW bad \in BOOLEAN, Failed(bad)
  PROVE  failures' \in 0..MaxFailures /\ (failures' = 0 => failures = 0 /\ ~bad)
<1>1. MaxFailures \in Nat
  BY BoundsAssumption
<1>2. CASE bad
  BY <1>1, <1>2 DEF Failed
<1>3. CASE ~bad
  BY <1>1, <1>3 DEF Failed
<1> QED  BY <1>2, <1>3

LEMMA ListsStep == Lists /\ [Next]_vars => Lists'
<1> SUFFICES ASSUME Lists, [Next]_vars PROVE Lists'
  OBVIOUS
<1> USE DEF Lists, listener
<1>1. ASSUME NEW ip \in WanIps, NEW deleted \in BOOLEAN, HandleWanDown(ip, deleted)
      PROVE  Lists'
  <2>1. failures' \in 0..MaxFailures
    BY <1>1, FailedType DEF HandleWanDown
  <2>2. /\ wanUp' \in BOOLEAN /\ wanIp' \in WanIps \cup {None}
        /\ wanUp' => wanIp' # None
    BY <1>1 DEF HandleWanDown, TriggerWANDown
  <2> QED  BY <1>1, <2>1, <2>2 DEF HandleWanDown
<1>2. ASSUME NEW ip \in WanIps, NEW mode \in {"Q6", "STA"}, NEW deleted \in BOOLEAN,
             NEW created \in BOOLEAN, NEW refused,
             TriggerWANUp(ip, mode, deleted, created, refused)
      PROVE  Lists'
  <2>1. failures' \in 0..MaxFailures
    BY <1>2, FailedType DEF TriggerWANUp
  <2>2. ip # None
    BY AddressesAssumption
  <2> QED  BY <1>2, <2>1, <2>2 DEF TriggerWANUp
<1>3. ASSUME NEW f \in Flows, NEW K, CtNew(f, K) \/ CtDestroy(f, K)
      PROVE  Lists'
  <2>1. CASE CtNew(f, K)
    BY <2>1 DEF CtNew
  <2>2. CASE CtDestroy(f, K)
    <3>1. failures' \in 0..MaxFailures
      BY <2>2, FailedType DEF CtDestroy
    <3> QED  BY <2>2, <3>1 DEF CtDestroy
  <2> QED  BY <1>3, <2>1, <2>2
<1>4. ASSUME NEW c \in Clients, NEW K,
             \/ HandleNeighIpAddrAddEvt(c, K) \/ HandleNeighIpAddrDelEvt(c, K)
             \/ PowerSave(c, K) \/ Recover(c, K)
      PROVE  Lists'
  <2>1. CASE HandleNeighIpAddrAddEvt(c, K)
    BY <2>1 DEF HandleNeighIpAddrAddEvt
  <2>2. CASE HandleNeighIpAddrDelEvt(c, K)
    <3>1. failures' \in 0..MaxFailures
      BY <2>2, FailedType DEF HandleNeighIpAddrDelEvt
    <3> QED  BY <2>2, <3>1 DEF HandleNeighIpAddrDelEvt
  <2>3. CASE PowerSave(c, K)
    <3>1. failures' \in 0..MaxFailures
      BY <2>3, FailedType DEF PowerSave
    <3> QED  BY <2>3, <3>1 DEF PowerSave
  <2>4. CASE Recover(c, K)
    BY <2>4 DEF Recover
  <2> QED  BY <1>4, <2>1, <2>2, <2>3, <2>4
<1>5. ASSUME NEW h \in Hosts, NEW K, AddHost(h, K) \/ DelHost(h, K)
      PROVE  Lists'
  <2>1. CASE AddHost(h, K)
    BY <2>1 DEF AddHost
  <2>2. CASE DelHost(h, K)
    <3>1. failures' \in 0..MaxFailures
      BY <2>2, FailedType DEF DelHost
    <3> QED  BY <2>2, <3>1 DEF DelHost
  <2> QED  BY <1>5, <2>1, <2>2
<1>6. ASSUME NEW p \in Peers, NEW K, HandleSTAClientAddEvt(p, K)
      PROVE  Lists'
  <2>1. PICK i \in 1..MaxSta : StaPlace(i) /\ sta' = [sta EXCEPT ![i] = p]
    BY <1>6 DEF HandleSTAClientAddEvt
  <2>2. staCnt' = Cardinality(Taken(sta))'
    BY <1>6, <2>1, TakenChanges DEF HandleSTAClientAddEvt, StaPlace
  <2>3. sta' \in [1..MaxSta -> Peers \cup {None}]
    BY <2>1
  <2> QED  BY <1>6, <2>2, <2>3 DEF HandleSTAClientAddEvt
<1>7. ASSUME NEW p \in Peers, NEW K, HandleSTAClientDelEvt(p, K)
      PROVE  Lists'
  <2>1. CASE UNCHANGED <<sta, staCnt, failures>>
    BY <1>7, <2>1 DEF HandleSTAClientDelEvt
  <2>2. CASE \E i \in 1..MaxSta :
                /\ sta[i] = p /\ sta' = [sta EXCEPT ![i] = None] /\ staCnt' = staCnt - 1
                /\ Failed(\E k \in Rules(nat, "on") \cap K : Dst[k.flow] = p)
    <3>1. PICK i \in 1..MaxSta :
                /\ sta[i] = p /\ sta' = [sta EXCEPT ![i] = None] /\ staCnt' = staCnt - 1
                /\ Failed(\E k \in Rules(nat, "on") \cap K : Dst[k.flow] = p)
      BY <2>2
    <3>2. failures' \in 0..MaxFailures
      BY <3>1, FailedType
    <3>3. staCnt' = Cardinality(Taken(sta))'
      BY <3>1, TakenChanges
    <3>4. sta' \in [1..MaxSta -> Peers \cup {None}]
      BY <3>1
    <3> QED  BY <1>7, <3>2, <3>3, <3>4 DEF HandleSTAClientDelEvt
  <2> QED  BY <1>7, <2>1, <2>2 DEF HandleSTAClientDelEvt
<1>8. CASE UNCHANGED vars
  BY <1>8 DEF vars, Taken
<1>9. Answers \subseteq BOOLEAN
  BY DEF Answers
<1>10. CASE Next
  BY <1>1, <1>2, <1>3, <1>4, <1>5, <1>6, <1>7, <1>9, <1>10 DEF Next, Wan, Conntrack, Neighbours
<1> QED  BY <1>8, <1>10

-----------------------------------------------------------------------------
(* The cache and the table, with the WAN the table is for.                     *)
NatInv ==
  /\ Sound(nat) /\ TableIsOfWan
  /\ failures = 0 => Exact(nat)

Inv == Lists /\ NatInv

LEMMA RuleOfType ==
  ASSUME Lists, NEW f \in Flows
  PROVE  RuleOf(f) \in Keys
<1>1. Src[f] \in Clients \cup Hosts \cup WanIps
  BY FlowsAssumption
<1> QED  BY <1>1 DEF RuleOf, Keys, OnNonNat, Lists

(* What follows from the object as it was, with the WAN as it was, agrees.     *)
LEMMA NatKept ==
  ASSUME NatInv, Sound(nat'), nat'.tbl = nat.tbl, nat'.pub = nat.pub,
         UNCHANGED <<wanUp, wanIp>>,
         failures' = 0 => failures = 0 /\ (Exact(nat) => Exact(nat'))
  PROVE  NatInv'
  BY DEF NatInv, TableIsOfWan

LEMMA WanStep ==
  ASSUME Inv, NEW ip \in WanIps, NEW mode \in {"Q6", "STA"}, NEW deleted \in BOOLEAN,
         NEW created \in BOOLEAN, NEW refused,
         HandleWanDown(ip, deleted) \/ TriggerWANUp(ip, mode, deleted, created, refused)
  PROVE  NatInv'
<1>1. Sound(nat) /\ TableIsOfWan /\ Lists
  BY DEF Inv, NatInv
<1>2. CASE HandleWanDown(ip, deleted)
  <2> DEFINE m == DeleteTable(nat, ip, deleted)
  <2>1. /\ Sound(m) /\ (~Deletable(nat, ip) => m = nat)
        /\ Deletable(nat, ip) => Off(m) /\ (deleted => ~m.tbl /\ Exact(m))
        /\ ~deleted => m.tbl = nat.tbl /\ m.pub = nat.pub
    BY <1>1, DeleteTableSound
  <2> HIDE DEF m
  <2>2. nat' = m
    BY <1>2 DEF HandleWanDown, TriggerWANDown, m
  <2>3. failures' = 0 => failures = 0 /\ (~Deletable(nat, ip) \/ deleted)
    <3>1. (Deletable(nat, ip) /\ ~deleted) \in BOOLEAN
      OBVIOUS
    <3> QED  BY <1>1, <1>2, <3>1, FailedType DEF HandleWanDown, Lists
  <2>4. CASE Deletable(nat, ip) /\ deleted
    BY <2>1, <2>2, <2>4 DEF NatInv, TableIsOfWan
  <2>5. CASE ~(Deletable(nat, ip) /\ deleted)
    <3>1. UNCHANGED <<wanUp, wanIp>>
      BY <1>2, <2>5 DEF HandleWanDown, TriggerWANDown
    <3>2. m.tbl = nat.tbl /\ m.pub = nat.pub
      BY <2>1, <2>5
    <3>3. failures' = 0 => failures = 0 /\ (Exact(nat) => Exact(nat'))
      BY <2>1, <2>2, <2>3, <2>5
    <3>4. Sound(nat') /\ nat'.tbl = nat.tbl /\ nat'.pub = nat.pub
      BY <2>1, <2>2, <3>2
    <3>5. NatInv
      BY DEF Inv
    <3> QED  BY <3>1, <3>3, <3>4, <3>5, NatKept
  <2> QED  BY <2>4, <2>5
<1>3. CASE TriggerWANUp(ip, mode, deleted, created, refused)
  <2> DEFINE n == IF wanUp THEN DeleteTable(nat, wanIp, deleted) ELSE nat
  <2>1. Sound(n) /\ Off(n)
    <3>1. CASE wanUp /\ Deletable(nat, wanIp)
      BY <1>1, <3>1, DeleteTableSound
    <3>2. CASE ~(wanUp /\ Deletable(nat, wanIp))
      <4>1. n = nat
        BY <1>1, <3>2, DeleteTableSound
      <4>2. ~nat.tbl
        BY <1>1, <3>2 DEF TableIsOfWan, Deletable
      <4> QED  BY <1>1, <4>1, <4>2 DEF Sound, Backed, Off
    <3> QED  BY <3>1, <3>2
  <2> HIDE DEF n
  <2>2. n \in NatApps
    BY <2>1 DEF Sound
  <2>3. LET m == AddTable(n, ip, created, refused)
        IN Sound(m) /\ Exact(m) /\ (m.tbl => m.pub = ip)
    BY <2>1, <2>2, AddTableSound
  <2>4. nat' = AddTable(n, ip, created, refused) /\ wanUp' = TRUE /\ wanIp' = ip
    BY <1>3 DEF TriggerWANUp, n
  <2> QED  BY <2>3, <2>4 DEF NatInv, TableIsOfWan
<1> QED  BY <1>2, <1>3

LEMMA ConntrackStep ==
  ASSUME Inv, NEW f \in Flows, NEW K, CtNew(f, K) \/ CtDestroy(f, K)
  PROVE  NatInv'
<1> DEFINE k == RuleOf(f)
<1>1. Sound(nat) /\ NatInv /\ Lists
  BY DEF Inv, NatInv
<1>2. k \in Keys
  BY <1>1, RuleOfType
<1>3. Follows(nat, nat)
  BY <1>1 DEF Follows
<1>4. CASE CtNew(f, K)
  <2>1. Follows(CacheEntry(nat, k, K), nat)
    BY <1>1, <1>2, CacheEntryFollows
  <2>2. wanUp => Follows(AddTempEntry(nat, k, wanIp, K), nat)
    BY <1>1, <1>2, TempFollows DEF Lists
  <2>3. Follows(AddEntries(nat, {k}, K), nat)
    BY <1>1, AddEntriesFollows
  <2>4. Follows(Added(f, K), nat)
    BY <1>3, <2>1, <2>2, <2>3 DEF Added
  <2>5. nat' = Added(f, K) /\ UNCHANGED <<wanUp, wanIp, failures>>
    BY <1>4 DEF CtNew, listener
  <2> QED  BY <1>1, <2>4, <2>5, NatKept DEF Follows
<1>5. CASE CtDestroy(f, K)
  <2> DEFINE bad == ~Ignored(f) /\ k \in Rules(nat, "on") \cap K
  <2> DEFINE r == DeleteEntry(nat, k, K)
  <2>1. /\ Sound(r) /\ r.tbl = nat.tbl /\ r.pub = nat.pub
        /\ Exact(nat) /\ (\A j \in Keys \cap {k} \cap K : nat.cache[j] # "on") => Exact(r)
    BY <1>1, RemoveFollows DEF DeleteEntry
  <2> HIDE DEF r
  <2>2. Follows(DeleteTempEntry(r, k), r)
    <3>1. r.temp \subseteq [key : Keys, pub : WanIps]
      BY <2>1, Parts DEF Sound
    <3> QED  BY <2>1, <3>1, ListsFollow DEF DeleteTempEntry
  <2>3. /\ nat' = (IF Ignored(f) THEN nat ELSE DeleteTempEntry(r, k))
        /\ UNCHANGED <<wanUp, wanIp>>
    BY <1>5 DEF CtDestroy, Ended, listener, r
  <2>4. failures' = 0 => failures = 0 /\ ~bad
    BY <1>1, <1>5, FailedType DEF CtDestroy, Lists
  <2>5. ~bad /\ ~Ignored(f) => \A j \in Keys \cap {k} \cap K : nat.cache[j] # "on"
    BY DEF Rules
  <2>6. Sound(nat') /\ nat'.tbl = nat.tbl /\ nat'.pub = nat.pub
    BY <1>1, <2>1, <2>2, <2>3 DEF Follows
  <2>7. failures' = 0 => failures = 0 /\ (Exact(nat) => Exact(nat'))
    BY <2>1, <2>2, <2>3, <2>4, <2>5 DEF Follows
  <2> QED  BY <1>1, <2>3, <2>6, <2>7, NatKept
<1> QED  BY <1>4, <1>5

LEMMA DropFollows ==
  ASSUME NEW n, Sound(n), NEW a
  PROVE  Follows(Drop(n, a), n)
<1>1. n.temp \subseteq [key : Keys, pub : WanIps]
  BY Parts DEF Sound
<1> QED  BY <1>1, ListsFollow DEF Drop

(* A client or a host goes: its temporary entries first, then its rules.       *)
LEMMA DepartureFollows ==
  ASSUME NEW n, Sound(n), NEW a, NEW stuck
  PROVE  LET m == DelEntriesOnClntDiscon(Drop(n, a), a, stuck)
         IN /\ Sound(m) /\ m.tbl = n.tbl /\ m.pub = n.pub
            /\ Exact(n) /\ {k \in Rules(n, "on") : k.priv = a} \cap stuck = {} => Exact(m)
<1> DEFINE d == Drop(n, a)
<1>1. Follows(d, n) /\ Sound(d)
  BY DropFollows DEF Follows
<1>2. d.cache = n.cache
  <2>1. n \in NatApps
    BY DEF Sound
  <2> QED  BY <2>1 DEF Drop, NatApps
<1>3. Rules(d, "on") = Rules(n, "on")
  BY <1>2 DEF Rules
<1> HIDE DEF d
<1>4. LET m == DelEntriesOnClntDiscon(d, a, stuck)
      IN /\ Sound(m) /\ m.tbl = d.tbl /\ m.pub = d.pub
         /\ Exact(d) /\ {k \in Rules(d, "on") : k.priv = a} \cap stuck = {} => Exact(m)
  BY <1>1, LeaveFollows
<1> QED  BY <1>1, <1>3, <1>4 DEF Follows, d

LEMMA ClientStep ==
  ASSUME Inv, NEW c \in Clients, NEW K,
         \/ HandleNeighIpAddrAddEvt(c, K) \/ HandleNeighIpAddrDelEvt(c, K)
         \/ PowerSave(c, K) \/ Recover(c, K)
  PROVE  NatInv'
<1>1. Sound(nat) /\ NatInv /\ failures \in 0..MaxFailures
  BY DEF Inv, NatInv, Lists
<1>2. CASE HandleNeighIpAddrAddEvt(c, K)
  <2> DEFINE r == ResetPwrSaveIf(nat, c, K)
  <2>1. Follows(r, nat) /\ Sound(r)
    BY <1>1, ResetFollows DEF Follows
  <2> HIDE DEF r
  <2>2. Follows(Flush(r, c, FALSE, K), r)
    BY <2>1, FlushFollows
  <2>3. Follows(nat', nat)
    BY <1>2, <2>1, <2>2, FollowsChain DEF HandleNeighIpAddrAddEvt, r
  <2> QED  BY <1>1, <1>2, <2>3, NatKept DEF HandleNeighIpAddrAddEvt, Follows
<1>3. CASE HandleNeighIpAddrDelEvt(c, K)
  <2>1. failures' = 0 => failures = 0 /\ RulesOf(c) \cap K = {}
    BY <1>1, <1>3, FailedType DEF HandleNeighIpAddrDelEvt
  <2>2. nat' = DelEntriesOnClntDiscon(Drop(nat, c), c, K) /\ UNCHANGED <<wanUp, wanIp>>
    BY <1>3 DEF HandleNeighIpAddrDelEvt
  <2> QED  BY <1>1, <2>1, <2>2, DepartureFollows, NatKept DEF RulesOf
<1>4. CASE PowerSave(c, K)
  <2>1. failures' = 0 => failures = 0 /\ ~(c \notin nat.saving /\ RulesOf(c) \cap K # {})
    BY <1>1, <1>4, FailedType DEF PowerSave
  <2>2. nat' = UpdatePwrSaveIf(nat, c, K) /\ UNCHANGED <<wanUp, wanIp>>
    BY <1>4 DEF PowerSave, listener
  <2> QED  BY <1>1, <2>1, <2>2, LeaveFollows, NatKept DEF RulesOf
<1>5. CASE Recover(c, K)
  <2>1. Follows(nat', nat)
    BY <1>1, <1>5, ResetFollows DEF Recover
  <2> QED  BY <1>1, <1>5, <2>1, NatKept DEF Recover, listener, Follows
<1> QED  BY <1>2, <1>3, <1>4, <1>5

LEMMA HostStep ==
  ASSUME Inv, NEW h \in Hosts, NEW K, AddHost(h, K) \/ DelHost(h, K)
  PROVE  NatInv'
<1>1. Sound(nat) /\ NatInv /\ failures \in 0..MaxFailures
  BY DEF Inv, NatInv, Lists
<1>2. CASE AddHost(h, K)
  <2>1. Follows(nat', nat)
    BY <1>1, <1>2, FlushFollows DEF AddHost
  <2> QED  BY <1>1, <1>2, <2>1, NatKept DEF AddHost, Follows
<1>3. CASE DelHost(h, K)
  <2>1. failures' = 0 => failures = 0 /\ RulesOf(h) \cap K = {}
    BY <1>1, <1>3, FailedType DEF DelHost
  <2>2. nat' = DelEntriesOnClntDiscon(Drop(nat, h), h, K) /\ UNCHANGED <<wanUp, wanIp>>
    BY <1>3 DEF DelHost
  <2> QED  BY <1>1, <2>1, <2>2, DepartureFollows, NatKept DEF RulesOf
<1> QED  BY <1>2, <1>3

LEMMA PeerStep ==
  ASSUME Inv, NEW p \in Peers, NEW K,
         HandleSTAClientAddEvt(p, K) \/ HandleSTAClientDelEvt(p, K)
  PROVE  NatInv'
<1>1. Sound(nat) /\ NatInv /\ failures \in 0..MaxFailures
  BY DEF Inv, NatInv, Lists
<1>2. CASE HandleSTAClientAddEvt(p, K)
  <2>1. Follows(nat', nat)
    BY <1>1, <1>2, FlushFollows DEF HandleSTAClientAddEvt
  <2> QED  BY <1>1, <1>2, <2>1, NatKept DEF HandleSTAClientAddEvt, Follows
<1>3. CASE HandleSTAClientDelEvt(p, K) /\ nat' = Drop(nat, p) /\ UNCHANGED failures
  <2>1. Follows(nat', nat)
    BY <1>1, <1>3, DropFollows
  <2> QED  BY <1>1, <1>3, <2>1, NatKept DEF HandleSTAClientDelEvt, Follows
<1>4. CASE /\ HandleSTAClientDelEvt(p, K)
           /\ nat' = Drop(DelEntriesOnSTAClntDiscon(nat, p, K), p)
           /\ Failed(\E k \in Rules(nat, "on") \cap K : Dst[k.flow] = p)
  <2> DEFINE m == DelEntriesOnSTAClntDiscon(nat, p, K)
  <2>1. /\ Sound(m) /\ m.tbl = nat.tbl /\ m.pub = nat.pub
        /\ Exact(nat) /\ ~(\E k \in Rules(nat, "on") \cap K : Dst[k.flow] = p) => Exact(m)
    BY <1>1, LeaveFollows
  <2> HIDE DEF m
  <2>2. Follows(Drop(m, p), m)
    BY <2>1, DropFollows
  <2>3. failures' = 0
          => failures = 0 /\ ~(\E k \in Rules(nat, "on") \cap K : Dst[k.flow] = p)
    BY <1>1, <1>4, FailedType
  <2>4. nat' = Drop(m, p) /\ UNCHANGED <<wanUp, wanIp>>
    BY <1>4 DEF HandleSTAClientDelEvt, m
  <2> QED  BY <1>1, <2>1, <2>2, <2>3, <2>4, NatKept DEF Follows
<1> QED  BY <1>2, <1>3, <1>4 DEF HandleSTAClientDelEvt

LEMMA InvStep == Inv /\ [Next]_vars => Inv'
<1> SUFFICES ASSUME Inv, [Next]_vars PROVE Inv'
  OBVIOUS
<1>1. Lists'
  BY ListsStep DEF Inv
<1>2. CASE UNCHANGED vars
  BY <1>1, <1>2 DEF Inv, NatInv, TableIsOfWan, vars
<1>3. CASE Next
  <2>1. Answers \subseteq BOOLEAN
    BY DEF Answers
  <2>2. PICK m \in {"Q6", "STA"} : TRUE
    OBVIOUS
  <2>3. ASSUME Wan PROVE NatInv'
    BY <2>1, <2>2, <2>3, WanStep DEF Wan
  <2>4. ASSUME Conntrack PROVE NatInv'
    BY <2>4, ConntrackStep DEF Conntrack
  <2>5. ASSUME Neighbours PROVE NatInv'
    BY <2>5, ClientStep, HostStep, PeerStep DEF Neighbours
  <2> QED  BY <1>1, <1>3, <2>3, <2>4, <2>5 DEF Next, Inv
<1> QED  BY <1>2, <1>3

LEMMA InvInit == Init => Inv
<1> SUFFICES ASSUME Init PROVE Inv
  OBVIOUS
<1>1. PICK g \in Garbage :
        nat = [tbl |-> FALSE, pub |-> None, pre |-> g.pre, saving |-> g.saving,
               cache |-> [k \in Keys |-> "none"], temp |-> {}, hw |-> Clear]
  BY DEF Init
<1>2. g \in [pre : WanIps \cup {None}, saving : SUBSET Clients]
  BY BoundsAssumption
<1>3. Clear \in [Keys -> Nat] /\ \A k \in Keys : Clear[k] = 0
  BY DEF Clear
<1>4. nat \in NatApps
  BY <1>1, <1>2, <1>3 DEF NatApps, Status
<1>5. NatInv
  BY <1>1, <1>3, <1>4 DEF NatInv, Sound, Backed, Exact, TableIsOfWan
<1>6. Taken(sta) = {} /\ sta \in [1..MaxSta -> Peers \cup {None}]
  BY DEF Init, Taken
<1>7. Cardinality(Taken(sta)) = 0
  BY <1>6, FS_EmptySet
<1>8. /\ wanUp \in BOOLEAN /\ ~wanUp /\ wanIp \in WanIps \cup {None}
      /\ backhaul \in {"Q6", "STA"}
  BY Zenon DEF Init
<1>9. /\ natIf \subseteq Clients /\ nonNat \in [1..MaxHosts -> Hosts \cup {None}]
      /\ staCnt = 0 /\ live \subseteq Flows /\ failures \in 0..MaxFailures
  BY BoundsAssumption DEF Init
<1>10. Lists
  BY <1>6, <1>7, <1>8, <1>9 DEF Lists
<1> QED  BY <1>5, <1>10 DEF Inv

(* The inductive invariant of IpaNat.                                          *)
THEOREM NatInvariant == Spec => []Inv
  BY InvInit, InvStep, PTL DEF Spec

(* The NatApp object and the listener's lists keep their types, for any        *)
(* number of clients, connections, places and failures: no rule is counted      *)
(* twice or deleted twice, and the count of STA clients is that of the places  *)
(* taken.                                                                      *)
THEOREM NatTypeOK == Spec => []TypeOK
<1>1. Inv => TypeOK
  BY DEF Inv, NatInv, Lists, Sound, NatApps, TypeOK, Taken
<1> QED  BY <1>1, NatInvariant, PTL

(* Whatever the driver refuses, a connection the cache calls enabled (AddEntry, *)
(* AddTable, ResetPwrSaveIf) has its rule in a table that exists.              *)
THEOREM EnabledConnectionsHaveRules == Spec => []EnabledHasRule
<1>1. Inv => EnabledHasRule
  BY DEF Inv, NatInv, Sound, Backed, EnabledHasRule
<1> QED  BY <1>1, NatInvariant, PTL

(* Until a deletion fails, the table and the cache agree rule by rule.         *)
THEOREM TableAndCacheAgree == Spec => []TableAgrees
<1>1. Inv => TableAgrees
  BY DEF Inv, NatInv, Exact, TableAgrees
<1> QED  BY <1>1, NatInvariant, PTL

(* The table is the one of the WAN that is up (TriggerWANUp, TriggerWANDown).  *)
THEOREM TableBelongsToWan == Spec => []TableIsOfWan
<1>1. Inv => TableIsOfWan
  BY DEF Inv, NatInv
<1> QED  BY <1>1, NatInvariant, PTL

-----------------------------------------------------------------------------
(* What the object remembers, and what of it waits without a rule although its *)
(* client does not save power.                                                 *)
Remembered(n) == {k \in Keys : n.cache[k] # "none"} \cup {t.key : t \in n.temp}
Waits(n) == {k \in Keys : n.cache[k] = "off" /\ k.priv \notin n.saving}

Quiet(m, n) ==
  /\ m.tbl = n.tbl /\ m.pub = n.pub /\ m.pre = n.pre
  /\ Remembered(m) \subseteq Remembered(n) /\ Waits(m) \subseteq Waits(n)

LEMMA QuietChain ==
  ASSUME NEW a, NEW b, NEW c, Quiet(a, b), Quiet(b, c)
  PROVE  Quiet(a, c)
  BY DEF Quiet

LEMMA RemoveQuiet ==
  ASSUME NEW n \in NatApps, NEW K, NEW stuck, NEW gone \in {"none", "off"},
         NEW failed \in {"none", "on"}, gone = "none" \/ K \subseteq Rules(n, "on")
  PROVE  LET m == Remove(n, K, stuck, gone, failed)
         IN /\ m \in NatApps => m.saving = n.saving /\ m.temp = n.temp
            /\ m.tbl = n.tbl /\ m.pub = n.pub /\ m.pre = n.pre
            /\ Remembered(m) \subseteq Remembered(n)
            /\ Waits(m) \subseteq Waits(n) \cup (IF gone = "off" THEN K ELSE {})
<1> DEFINE m == Remove(n, K, stuck, gone, failed)
<1>1. n.cache \in [Keys -> Status]
  BY Parts
<1>2. /\ m.tbl = n.tbl /\ m.pub = n.pub /\ m.pre = n.pre /\ m.saving = n.saving
      /\ m.temp = n.temp
      /\ m.cache = [k \in Keys |->
                  IF k \notin K THEN n.cache[k]
                  ELSE IF n.cache[k] = "on" /\ k \in stuck THEN failed ELSE gone]
  BY DEF Remove, NatApps
<1>3. ASSUME NEW k \in Keys, m.cache[k] # "none" PROVE n.cache[k] # "none"
  BY <1>1, <1>2, <1>3 DEF Rules
<1>4. ASSUME NEW k \in Keys, m.cache[k] = "off"
      PROVE  n.cache[k] = "off" \/ (gone = "off" /\ k \in K)
  BY <1>1, <1>2, <1>4
<1> HIDE DEF m
<1>5. Remembered(m) \subseteq Remembered(n)
  BY <1>2, <1>3 DEF Remembered
<1>6. Waits(m) \subseteq Waits(n) \cup (IF gone = "off" THEN K ELSE {})
  BY <1>2, <1>4 DEF Waits
<1> QED  BY <1>2, <1>5, <1>6 DEF m

LEMMA ReinstallQuiet ==
  ASSUME NEW n \in NatApps, NEW K, NEW refused, \A k \in K : k \in Keys /\ n.cache[k] # "none"
  PROVE  LET m == Reinstall(n, K, refused)
         IN /\ Quiet(m, n) /\ m.saving = n.saving
            /\ \A k \in Keys \cap K : m.cache[k] # "off"
            /\ \A k \in Keys : m.cache[k] = "off" => n.cache[k] = "off"
<1> DEFINE m == Reinstall(n, K, refused)
<1> DEFINE lost == IF n.tbl THEN K \cap refused ELSE K
<1>1. n.cache \in [Keys -> Status]
  BY Parts
<1>2. /\ m.tbl = n.tbl /\ m.pub = n.pub /\ m.pre = n.pre /\ m.saving = n.saving
      /\ m.temp = n.temp
      /\ m.cache = [k \in Keys |-> IF k \in lost THEN "none"
                                   ELSE IF k \in K THEN "on" ELSE n.cache[k]]
  BY DEF Reinstall, NatApps
<1> HIDE DEF m, lost
<1>3. ASSUME NEW k \in Keys, m.cache[k] # "none" PROVE n.cache[k] # "none"
  BY <1>1, <1>2, <1>3
<1>4. ASSUME NEW k \in Keys, m.cache[k] = "off" PROVE n.cache[k] = "off" /\ k \notin K
  BY <1>1, <1>2, <1>4
<1>5. Remembered(m) \subseteq Remembered(n)
  BY <1>2, <1>3 DEF Remembered
<1>6. Waits(m) \subseteq Waits(n)
  BY <1>2, <1>4 DEF Waits
<1> QED  BY <1>2, <1>4, <1>5, <1>6 DEF m, Quiet

LEMMA AddEntriesQuiet ==
  ASSUME NEW n \in NatApps, NEW K, NEW refused
  PROVE  LET m == AddEntries(n, K, refused)
         IN /\ m.tbl = n.tbl /\ m.pub = n.pub /\ m.pre = n.pre /\ m.temp = n.temp
            /\ m.saving = n.saving
            /\ {k \in Keys : m.cache[k] # "none"} \subseteq {k \in Keys : n.cache[k] # "none"} \cup K
            /\ Waits(m) \subseteq Waits(n)
<1> DEFINE m == AddEntries(n, K, refused)
<1> DEFINE new == {k \in K \ refused : n.tbl /\ Storable(n, k)}
<1> DEFINE rules == {k \in new : k.priv \notin n.saving}
<1>1. /\ m.tbl = n.tbl /\ m.pub = n.pub /\ m.pre = n.pre /\ m.saving = n.saving
      /\ m.temp = n.temp
      /\ m.cache = [k \in Keys |-> IF k \in rules THEN "on"
                                   ELSE IF k \in new THEN "off" ELSE n.cache[k]]
  BY DEF AddEntries, NatApps
<1>2. new \subseteq K /\ rules \subseteq K /\ \A k \in new \ rules : k.priv \in n.saving
  OBVIOUS
<1> HIDE DEF m, new, rules
<1>3. {k \in Keys : m.cache[k] # "none"} \subseteq {k \in Keys : n.cache[k] # "none"} \cup K
  BY <1>1, <1>2
<1>4. Waits(m) \subseteq Waits(n)
  BY <1>1, <1>2 DEF Waits
<1> QED  BY <1>1, <1>3, <1>4 DEF m

(* Changes of the lists that forget temporary entries or power save only.      *)
LEMMA ListsQuiet ==
  ASSUME NEW n \in NatApps, NEW S, NEW T
  PROVE  /\ LET m == [n EXCEPT !.saving = S]
            IN /\ m.tbl = n.tbl /\ m.pub = n.pub /\ m.pre = n.pre /\ m.cache = n.cache
               /\ m.saving = S /\ Remembered(m) = Remembered(n)
         /\ LET m == [n EXCEPT !.temp = T]
            IN /\ m.tbl = n.tbl /\ m.pub = n.pub /\ m.pre = n.pre /\ m.cache = n.cache
               /\ m.temp = T /\ Waits(m) = Waits(n)
               /\ Remembered(m) = {k \in Keys : n.cache[k] # "none"} \cup {t.key : t \in T}
<1> DEFINE a == [n EXCEPT !.saving = S]
<1> DEFINE b == [n EXCEPT !.temp = T]
<1>1. /\ a.tbl = n.tbl /\ a.pub = n.pub /\ a.pre = n.pre /\ a.cache = n.cache
      /\ a.saving = S /\ a.temp = n.temp
  BY DEF NatApps
<1>2. /\ b.tbl = n.tbl /\ b.pub = n.pub /\ b.pre = n.pre /\ b.cache = n.cache
      /\ b.saving = n.saving /\ b.temp = T
  BY DEF NatApps
<1> HIDE DEF a, b
<1>3. Remembered(a) = Remembered(n)
  BY <1>1 DEF Remembered
<1>4. /\ Waits(b) = Waits(n)
      /\ Remembered(b) = {k \in Keys : n.cache[k] # "none"} \cup {t.key : t \in T}
  BY <1>2 DEF Remembered, Waits
<1> QED  BY <1>1, <1>2, <1>3, <1>4 DEF a, b

LEMMA DropQuiet ==
  ASSUME NEW n \in NatApps, NEW a
  PROVE  Quiet(Drop(n, a), n) /\ Drop(n, a).saving = n.saving /\ Drop(n, a).cache = n.cache
<1> DEFINE T == n.temp \ Waiting(n, a)
<1>1. Drop(n, a) = [n EXCEPT !.temp = T]
  BY DEF Drop
<1>2. Drop(n, a).saving = n.saving
  BY DEF Drop, NatApps
<1>3. {t.key : t \in T} \subseteq {t.key : t \in n.temp}
  OBVIOUS
<1> HIDE DEF T
<1> QED  BY <1>1, <1>2, <1>3, ListsQuiet DEF Quiet, Remembered

(* A flush adds no key that was not waiting, dummies excepted.                 *)
LEMMA FlushQuiet ==
  ASSUME NEW n, Sound(n), NEW a, NEW isDummy \in BOOLEAN, NEW refused
  PROVE  LET m == Flush(n, a, isDummy, refused)
         IN /\ m.tbl = n.tbl /\ m.pub = n.pub /\ m.pre = n.pre
            /\ Waits(m) \subseteq Waits(n)
            /\ \A k \in Remembered(m) : k \in Remembered(n) \/ (isDummy /\ k.priv \in WanIps)
<1> DEFINE due == {As(t, isDummy) : t \in {u \in Waiting(n, a) : u.pub = n.pub}}
<1> DEFINE K == {t.key : t \in due}
<1> DEFINE T == (n.temp \ Waiting(n, a)) \cup {t \in due : AddFails(n, t.key, refused)}
<1> DEFINE b == AddEntries(n, K, refused)
<1>1. n \in NatApps /\ n.temp \subseteq [key : Keys, pub : WanIps]
  BY Parts DEF Sound
<1>2. ASSUME NEW k \in K
      PROVE  k \in {t.key : t \in n.temp} \/ (isDummy /\ k.priv \in WanIps)
  <2>1. PICK t \in Waiting(n, a) : k = As(t, isDummy).key
    OBVIOUS
  <2>2. t \in n.temp /\ t \in [key : Keys, pub : WanIps]
    BY <1>1, <2>1 DEF Waiting
  <2>3. CASE isDummy
    <3>1. k = [t.key EXCEPT !.priv = t.pub]
      BY <2>1, <2>2, <2>3 DEF As
    <3>2. t.key \in Keys /\ t.pub \in WanIps
      BY <2>2
    <3>3. k.priv = t.pub
      BY <3>1, <3>2 DEF Keys
    <3> QED  BY <2>3, <3>2, <3>3
  <2>4. CASE ~isDummy
    BY <2>1, <2>2, <2>4 DEF As
  <2> QED  BY <2>3, <2>4
<1>3. /\ b.tbl = n.tbl /\ b.pub = n.pub /\ b.pre = n.pre /\ b.temp = n.temp
      /\ {k \in Keys : b.cache[k] # "none"} \subseteq {k \in Keys : n.cache[k] # "none"} \cup K
      /\ Waits(b) \subseteq Waits(n)
  BY <1>1, AddEntriesQuiet
<1>4. b \in NatApps
  BY AddEntriesFollows DEF Follows, Sound
<1>5. Flush(n, a, isDummy, refused) = [b EXCEPT !.temp = T]
  BY <1>3 DEF Flush
<1>6. \A k \in {t.key : t \in T} : k \in {t.key : t \in n.temp} \/ k \in K
  OBVIOUS
<1> HIDE DEF b, T, K, due
<1>7. LET m == [b EXCEPT !.temp = T]
      IN /\ m.tbl = b.tbl /\ m.pub = b.pub /\ m.pre = b.pre /\ Waits(m) = Waits(b)
         /\ Remembered(m) = {k \in Keys : b.cache[k] # "none"} \cup {t.key : t \in T}
  BY <1>4, ListsQuiet
<1> DEFINE m == [b EXCEPT !.temp = T]
<1> HIDE DEF m
<1>8. ASSUME NEW k \in Remembered(m)
      PROVE  k \in Remembered(n) \/ (isDummy /\ k.priv \in WanIps)
  <2>1. k \in {j \in Keys : b.cache[j] # "none"} \/ k \in {t.key : t \in T}
    BY <1>7, <1>8 DEF m
  <2>2. k \in {j \in Keys : n.cache[j] # "none"} \/ k \in K \/ k \in {t.key : t \in n.temp}
    BY <1>3, <1>6, <2>1
  <2> QED  BY <1>2, <2>2 DEF Remembered
<1> QED  BY <1>3, <1>5, <1>7, <1>8 DEF m

LEMMA TablesQuiet ==
  ASSUME NEW n \in NatApps, NEW ip, NEW deleted, NEW created, NEW refused
  PROVE  /\ Remembered(DeleteTable(n, ip, deleted)) \subseteq Remembered(n)
         /\ Remembered(AddTable(n, ip, created, refused)) \subseteq Remembered(n)
         /\ LET m == AddTable(n, ip, created, refused)
            IN m.tbl /\ m.pub = m.pre => Waits(m) = {}
<1>1. n.cache \in [Keys -> Status]
  BY Parts
<1>2. Remembered(DeleteTable(n, ip, deleted)) \subseteq Remembered(n)
  <2>1. \A k \in Keys : Disabled(n)[k] # "none" => n.cache[k] # "none"
    BY <1>1 DEF Disabled
  <2>2. /\ DeleteTable(n, ip, deleted).temp = n.temp
        /\ DeleteTable(n, ip, deleted).cache \in {n.cache, Disabled(n)}
    BY DEF DeleteTable, NatApps
  <2> QED  BY <2>1, <2>2 DEF Remembered
<1>3. CASE ~created
  <2>1. AddTable(n, ip, created, refused) = [n EXCEPT !.tbl = FALSE, !.hw = Clear]
    BY <1>3 DEF AddTable
  <2> DEFINE m == [n EXCEPT !.tbl = FALSE, !.hw = Clear]
  <2>2. m.cache = n.cache /\ m.temp = n.temp /\ ~m.tbl
    BY DEF NatApps
  <2> QED  BY <1>2, <2>1, <2>2 DEF Remembered
<1>4. CASE created
  <2> DEFINE m == [n EXCEPT !.tbl = TRUE, !.pub = ip, !.hw = Clear]
  <2> DEFINE K == {k \in Keys : n.cache[k] # "none"}
  <2> DEFINE r == Reinstall(m, K, refused)
  <2>1. m.cache = n.cache /\ m.temp = n.temp /\ m.pub = ip /\ m.pre = n.pre
    BY DEF NatApps
  <2>2. AddTable(n, ip, created, refused) = IF ip = n.pre THEN r ELSE m
    BY <1>4 DEF AddTable
  <2>3. /\ r.cache = [k \in Keys |-> IF k \in (IF m.tbl THEN K \cap refused ELSE K) THEN "none"
                                     ELSE IF k \in K THEN "on" ELSE m.cache[k]]
        /\ r.temp = n.temp
    BY DEF Reinstall, NatApps
  <2>4. \A k \in Keys : r.cache[k] # "none" => n.cache[k] # "none"
    BY <1>1, <2>1, <2>3
  <2>5. \A k \in Keys : r.cache[k] # "off"
    BY <1>1, <2>1, <2>3
  <2> HIDE DEF m, K, r
  <2>6. Remembered(r) \subseteq Remembered(n) /\ Remembered(m) = Remembered(n)
    BY <2>1, <2>3, <2>4 DEF Remembered
  <2>7. Waits(r) = {}
    BY <2>5 DEF Waits
  <2> QED  BY <1>2, <2>1, <2>2, <2>6, <2>7
<1> QED  BY <1>3, <1>4

LEMMA SleepQuiet ==
  ASSUME NEW n \in NatApps, Sound(n), NEW a, NEW stuck
  PROVE  /\ Quiet(UpdatePwrSaveIf(n, a, stuck), n)
         /\ LET m == DelEntriesOnClntDiscon(n, a, stuck)
            IN /\ m.tbl = n.tbl /\ m.pub = n.pub /\ m.pre = n.pre
               /\ Remembered(m) \subseteq Remembered(n)
               /\ \A k \in Waits(m) : k \in Waits(n) \/ k.priv = a
         /\ Quiet(DelEntriesOnSTAClntDiscon(n, a, stuck), n)
<1> DEFINE K == {k \in Rules(n, "on") : k.priv = a}
<1> DEFINE r == Remove(n, K, stuck, "off", "on")
<1> DEFINE D == {k \in Keys : Dst[k.flow] = a}
<1>1. r \in NatApps /\ r.saving = n.saving
  BY RemoveFollows DEF Sound
<1>2. /\ r.tbl = n.tbl /\ r.pub = n.pub /\ r.pre = n.pre
      /\ Remembered(r) \subseteq Remembered(n) /\ Waits(r) \subseteq Waits(n) \cup K
  BY RemoveQuiet
<1>3. Quiet(DelEntriesOnSTAClntDiscon(n, a, stuck), n)
  BY RemoveQuiet DEF DelEntriesOnSTAClntDiscon, Quiet
<1>4. UpdatePwrSaveIf(n, a, stuck)
        = IF a \in n.saving THEN n ELSE [r EXCEPT !.saving = n.saving \cup {a}]
  BY <1>1 DEF UpdatePwrSaveIf
<1>5. DelEntriesOnClntDiscon(n, a, stuck) = [r EXCEPT !.saving = n.saving \ {a}]
  BY <1>1 DEF DelEntriesOnClntDiscon
<1>6. \A k \in K : k.priv = a
  OBVIOUS
<1> HIDE DEF K, r
<1>7. ASSUME NEW S
      PROVE  LET m == [r EXCEPT !.saving = S]
             IN /\ m.tbl = n.tbl /\ m.pub = n.pub /\ m.pre = n.pre
                /\ Remembered(m) \subseteq Remembered(n)
                /\ m.saving = S /\ m.cache = r.cache
  BY <1>1, <1>2, ListsQuiet
<1>8. LET m == [r EXCEPT !.saving = n.saving \cup {a}] IN Quiet(m, n)
  <2> DEFINE m == [r EXCEPT !.saving = n.saving \cup {a}]
  <2>1. /\ m.tbl = n.tbl /\ m.pub = n.pub /\ m.pre = n.pre
        /\ Remembered(m) \subseteq Remembered(n)
        /\ m.saving = n.saving \cup {a} /\ m.cache = r.cache
    BY <1>7
  <2> HIDE DEF m
  <2>2. ASSUME NEW k \in Waits(m) PROVE k \in Waits(n)
    <3>1. k \in Waits(r) /\ k.priv # a
      BY <1>1, <2>1, <2>2 DEF Waits
    <3> QED  BY <1>2, <1>6, <3>1
  <2> QED  BY <2>1, <2>2 DEF Quiet, m
<1>9. Quiet(n, n)
  BY DEF Quiet
<1>10. LET m == [r EXCEPT !.saving = n.saving \ {a}]
       IN /\ m.tbl = n.tbl /\ m.pub = n.pub /\ m.pre = n.pre
          /\ Remembered(m) \subseteq Remembered(n)
          /\ \A k \in Waits(m) : k \in Waits(n) \/ k.priv = a
  <2> DEFINE m == [r EXCEPT !.saving = n.saving \ {a}]
  <2>1. /\ m.tbl = n.tbl /\ m.pub = n.pub /\ m.pre = n.pre
        /\ Remembered(m) \subseteq Remembered(n)
        /\ m.saving = n.saving \ {a} /\ m.cache = r.cache
    BY <1>7
  <2> HIDE DEF m
  <2>2. ASSUME NEW k \in Waits(m), k.priv # a PROVE k \in Waits(n)
    <3>1. k \in Waits(r)
      BY <1>1, <2>1, <2>2 DEF Waits
    <3> QED  BY <1>2, <1>6, <2>2, <3>1
  <2> QED  BY <2>1, <2>2 DEF m
<1> QED  BY <1>3, <1>4, <1>5, <1>8, <1>9, <1>10

LEMMA ResetQuiet ==
  ASSUME NEW n \in NatApps, Sound(n), NEW c, NEW refused
  PROVE  LET m == ResetPwrSaveIf(n, c, refused)
         IN Quiet(m, n) /\ \A k \in Waits(m) : k.priv # c
<1> DEFINE K == {k \in Rules(n, "off") : k.priv = c}
<1> DEFINE r == Reinstall(n, K, refused)
<1> DEFINE m == [r EXCEPT !.saving = n.saving \ {c}]
<1>1. \A k \in K : k \in Keys /\ n.cache[k] # "none"
  BY DEF Rules
<1>2. \A k \in Keys \cap K : n.cache[k] # "on"
  BY DEF Rules
<1>3. Follows(r, n)
  BY <1>2, ReinstallFollows
<1>4. /\ Quiet(r, n) /\ r.saving = n.saving
      /\ \A k \in Keys \cap K : r.cache[k] # "off"
      /\ \A k \in Keys : r.cache[k] = "off" => n.cache[k] = "off"
  BY <1>1, ReinstallQuiet
<1>5. \A k \in Keys : n.cache[k] = "off" /\ k.priv = c => k \in K
  BY DEF Rules
<1>6. ResetPwrSaveIf(n, c, refused) = m
  BY <1>4 DEF ResetPwrSaveIf
<1> HIDE DEF r, K
<1>7. r \in NatApps
  BY <1>3 DEF Follows, Sound
<1>8. /\ m.tbl = r.tbl /\ m.pub = r.pub /\ m.pre = r.pre /\ m.cache = r.cache
      /\ m.saving = n.saving \ {c} /\ Remembered(m) = Remembered(r)
  BY <1>7, ListsQuiet
<1> HIDE DEF m
<1>9. ASSUME NEW k \in Waits(m) PROVE k.priv # c /\ k \in Waits(n)
  BY <1>4, <1>5, <1>8, <1>9 DEF Waits
<1> QED  BY <1>4, <1>6, <1>8, <1>9 DEF Quiet

(* What a new connection is remembered as, and that an ended one is forgotten. *)
LEMMA CacheQuiet ==
  ASSUME NEW n \in NatApps, NEW k \in Keys, NEW refused
  PROVE  Remembered(CacheEntry(n, k, refused)) \subseteq Remembered(n) \cup {k}
<1> DEFINE m == [n EXCEPT !.cache[k] = "off"]
<1>1. m.temp = n.temp /\ m.cache = [n.cache EXCEPT ![k] = "off"]
  BY DEF NatApps
<1>2. \A j \in Keys : m.cache[j] # "none" => n.cache[j] # "none" \/ j = k
  BY <1>1, Parts
<1> HIDE DEF m
<1>3. Remembered(m) \subseteq Remembered(n) \cup {k}
  BY <1>1, <1>2 DEF Remembered
<1> QED  BY <1>3 DEF CacheEntry, m

LEMMA TempQuiet ==
  ASSUME NEW n \in NatApps, NEW k, NEW pub, NEW refused
  PROVE  LET m == AddTempEntry(n, k, pub, refused)
         IN /\ m.tbl = n.tbl /\ m.pub = n.pub /\ m.pre = n.pre /\ Waits(m) \subseteq Waits(n)
            /\ Remembered(m) \subseteq Remembered(n) \cup {k}
<1> DEFINE T == n.temp \cup {[key |-> k, pub |-> pub]}
<1>1. AddTempEntry(n, k, pub, refused) \in {n, [n EXCEPT !.temp = T]}
  BY DEF AddTempEntry
<1>2. {t.key : t \in T} \subseteq {t.key : t \in n.temp} \cup {k}
  OBVIOUS
<1> HIDE DEF T
<1>3. LET m == [n EXCEPT !.temp = T]
      IN /\ m.tbl = n.tbl /\ m.pub = n.pub /\ m.pre = n.pre /\ Waits(m) = Waits(n)
         /\ Remembered(m) = {j \in Keys : n.cache[j] # "none"} \cup {t.key : t \in T}
  BY ListsQuiet
<1>4. Remembered([n EXCEPT !.temp = T]) \subseteq Remembered(n) \cup {k}
  BY <1>2, <1>3 DEF Remembered
<1> QED  BY <1>1, <1>3, <1>4

LEMMA EndQuiet ==
  ASSUME NEW n \in NatApps, Sound(n), NEW k \in Keys, NEW stuck
  PROVE  LET m == DeleteTempEntry(DeleteEntry(n, k, stuck), k)
         IN Quiet(m, n) /\ k \notin Remembered(m)
<1> DEFINE r == DeleteEntry(n, k, stuck)
<1> DEFINE T == {t \in r.temp : t.key # k}
<1> DEFINE m == [r EXCEPT !.temp = T]
<1>1. r \in NatApps
  BY RemoveFollows DEF Sound, DeleteEntry
<1>2. Quiet(r, n)
  BY RemoveQuiet DEF DeleteEntry, Quiet
<1>3. r.cache[k] = "none"
  BY DEF DeleteEntry, Remove, NatApps
<1>4. DeleteTempEntry(r, k) = m
  BY DEF DeleteTempEntry
<1> HIDE DEF r
<1>5. k \notin {t.key : t \in T} /\ {t.key : t \in T} \subseteq {t.key : t \in r.temp}
  OBVIOUS
<1> HIDE DEF T
<1>6. /\ m.tbl = r.tbl /\ m.pub = r.pub /\ m.pre = r.pre /\ Waits(m) = Waits(r)
      /\ Remembered(m) = {j \in Keys : r.cache[j] # "none"} \cup {t.key : t \in T}
  BY <1>1, ListsQuiet
<1>7. Remembered(m) \subseteq Remembered(r) /\ k \notin Remembered(m)
  BY <1>3, <1>5, <1>6 DEF Remembered
<1> HIDE DEF m
<1>8. Quiet(m, r)
  BY <1>6, <1>7 DEF Quiet
<1> QED  BY <1>2, <1>4, <1>7, <1>8, QuietChain DEF r

-----------------------------------------------------------------------------
(* The two properties of what the object remembers, in its terms.              *)
Mem == \A k \in Remembered(nat) : k.priv \in Clients => k.flow \in live

Restored ==
  nat.tbl /\ nat.pub = nat.pre /\ failures = 0 => \A k \in Waits(nat) : k.priv \notin natIf

Kept == Mem /\ Restored

LEMMA KeptMeans == Kept => NoStaleConnection /\ RestoredOnReturn
<1> SUFFICES ASSUME Kept PROVE NoStaleConnection /\ RestoredOnReturn
  OBVIOUS
<1>1. NoStaleConnection
  BY DEF Kept, Mem, Remembered, NoStaleConnection
<1>2. RestoredOnReturn
  BY DEF Kept, Restored, Waits, RestoredOnReturn
<1> QED  BY <1>1, <1>2

LEMMA QuietKeeps ==
  ASSUME Kept, Quiet(nat', nat), natIf' \subseteq natIf, live \subseteq live',
         failures' = 0 => failures = 0
  PROVE  Kept'
<1>1. Mem'
  BY DEF Kept, Mem, Quiet
<1>2. Restored'
  BY DEF Kept, Restored, Quiet
<1> QED  BY <1>1, <1>2 DEF Kept

(* A deletion of the table ends it or fails; a new one at the old address      *)
(* leaves nothing waiting.                                                     *)
LEMMA WanKeeps ==
  ASSUME Inv, Kept, NEW ip \in WanIps, NEW mode, NEW deleted \in BOOLEAN,
         NEW created \in BOOLEAN, NEW refused,
         HandleWanDown(ip, deleted) \/ TriggerWANUp(ip, mode, deleted, created, refused)
  PROVE  Kept'
<1>1. nat \in NatApps /\ failures \in 0..MaxFailures
  BY DEF Inv, NatInv, Lists, Sound
<1>2. CASE HandleWanDown(ip, deleted)
  <2>1. nat' = DeleteTable(nat, ip, deleted) /\ UNCHANGED <<natIf, live>>
    BY <1>2 DEF HandleWanDown, TriggerWANDown
  <2>2. Mem'
    BY <1>1, <2>1, TablesQuiet DEF Kept, Mem
  <2>3. failures' = 0 => failures = 0 /\ ~(Deletable(nat, ip) /\ ~deleted)
    BY <1>1, <1>2, FailedType DEF HandleWanDown
  <2>4. CASE ~Deletable(nat, ip)
    BY <2>1, <2>2, <2>3, <2>4 DEF DeleteTable, Kept, Restored
  <2>5. CASE Deletable(nat, ip) /\ deleted
    <3>1. ~nat'.tbl
      BY <1>1, <2>1, <2>5 DEF DeleteTable, NatApps
    <3> QED  BY <2>2, <3>1 DEF Kept, Restored
  <2>6. CASE Deletable(nat, ip) /\ ~deleted
    BY <2>2, <2>3, <2>6 DEF Kept, Restored
  <2> QED  BY <2>4, <2>5, <2>6
<1>3. CASE TriggerWANUp(ip, mode, deleted, created, refused)
  <2> DEFINE n == IF wanUp THEN DeleteTable(nat, wanIp, deleted) ELSE nat
  <2>1. n \in NatApps
    BY <1>1, DeleteTableSound DEF Inv, NatInv, Sound
  <2>2. Remembered(n) \subseteq Remembered(nat)
    BY <1>1, TablesQuiet
  <2>3. nat' = AddTable(n, ip, created, refused) /\ UNCHANGED <<natIf, live>>
    BY <1>3 DEF TriggerWANUp
  <2> HIDE DEF n
  <2>4. /\ Remembered(nat') \subseteq Remembered(n)
        /\ nat'.tbl /\ nat'.pub = nat'.pre => Waits(nat') = {}
    BY <2>1, <2>3, TablesQuiet
  <2>5. Mem'
    BY <2>2, <2>3, <2>4 DEF Kept, Mem
  <2>6. Restored'
    BY <2>4 DEF Restored
  <2> QED  BY <2>5, <2>6 DEF Kept
<1> QED  BY <1>2, <1>3

(* The rule of a NAT client's connection is always under the client's address. *)
LEMMA ClientRule ==
  ASSUME NEW k \in Keys, k.priv \in Clients
  PROVE  k = RuleOf(k.flow) /\ ~Ignored(k.flow)
<1>1. k = [priv |-> k.priv, flow |-> k.flow]
  BY DEF Keys
<1>2. k.priv = Src[k.flow]
  BY AddressesAssumption DEF Keys
<1>3. Src[k.flow] \notin Hosts /\ Src[k.flow] \notin WanIps
  BY <1>2, AddressesAssumption
<1> QED  BY <1>1, <1>2, <1>3 DEF RuleOf, OnNonNat, Ignored

LEMMA ConntrackKeeps ==
  ASSUME Inv, Kept, NEW f \in Flows, NEW K, CtNew(f, K) \/ CtDestroy(f, K)
  PROVE  Kept'
<1>1. Sound(nat) /\ nat \in NatApps /\ failures \in 0..MaxFailures
  BY DEF Inv, NatInv, Lists, Sound
<1> DEFINE r == RuleOf(f)
<1>2. r \in Keys /\ r.flow = f
  BY RuleOfType DEF RuleOf, Inv
<1>3. UNCHANGED natIf
  BY DEF CtNew, CtDestroy, listener
<1> HIDE DEF r
<1>4. CASE CtNew(f, K)
  <2>1. nat' = Added(f, K) /\ live' = live \cup {f} /\ UNCHANGED failures
    BY <1>4 DEF CtNew
  <2>2. CASE nat' = nat
    BY <1>3, <2>1, <2>2, QuietKeeps DEF Quiet
  <2>3. CASE ~wanUp /\ nat' = CacheEntry(nat, r, K)
    <3>1. ~nat.tbl
      BY <2>3 DEF Inv, NatInv, TableIsOfWan
    <3>2. nat'.tbl = nat.tbl
      BY <1>1, <1>2, <2>3 DEF CacheEntry, NatApps
    <3>3. Remembered(nat') \subseteq Remembered(nat) \cup {r}
      BY <1>1, <1>2, <2>3, CacheQuiet
    <3>4. Mem'
      BY <1>2, <2>1, <3>3 DEF Kept, Mem
    <3> QED  BY <3>1, <3>2, <3>4 DEF Kept, Restored
  <2>4. CASE nat' = AddTempEntry(nat, r, wanIp, K) \/ nat' = AddEntries(nat, {r}, K)
    <3>1. /\ nat'.tbl = nat.tbl /\ nat'.pub = nat.pub /\ nat'.pre = nat.pre
          /\ Waits(nat') \subseteq Waits(nat)
          /\ Remembered(nat') \subseteq Remembered(nat) \cup {r}
      <4>1. CASE nat' = AddTempEntry(nat, r, wanIp, K)
        BY <1>1, <4>1, TempQuiet
      <4>2. CASE nat' = AddEntries(nat, {r}, K)
        BY <1>1, <4>2, AddEntriesQuiet DEF Remembered
      <4> QED  BY <2>4, <4>1, <4>2
    <3>2. Mem'
      BY <1>2, <2>1, <3>1 DEF Kept, Mem
    <3> QED  BY <1>3, <2>1, <3>1, <3>2 DEF Kept, Restored
  <2> QED  BY <2>1, <2>2, <2>3, <2>4 DEF Added, r
<1>5. CASE CtDestroy(f, K)
  <2>1. /\ nat' = Ended(f, K) /\ live' = live \ {f}
        /\ failures' = 0 => failures = 0
    BY <1>1, <1>5, FailedType DEF CtDestroy
  <2>2. Quiet(nat', nat) /\ (Ignored(f) \/ r \notin Remembered(nat'))
    <3>1. CASE Ignored(f)
      BY <2>1, <3>1 DEF Ended, Quiet
    <3>2. CASE ~Ignored(f)
      <4>1. nat' = DeleteTempEntry(DeleteEntry(nat, r, K), r)
        BY <2>1, <3>2 DEF Ended, r
      <4> QED  BY <1>1, <1>2, <4>1, EndQuiet
    <3> QED  BY <3>1, <3>2
  <2>3. Restored'
    BY <1>3, <2>1, <2>2 DEF Kept, Restored, Quiet
  <2>4. ASSUME NEW k \in Remembered(nat'), k.priv \in Clients
        PROVE  k.flow \in live'
    <3>1. k \in Remembered(nat) /\ k.flow \in live
      BY <2>2, <2>4 DEF Quiet, Kept, Mem
    <3>2. k \in Keys
      BY <1>1, <3>1, Parts DEF Remembered
    <3>3. k.flow # f
      BY <2>2, <2>4, <3>2, ClientRule DEF r
    <3> QED  BY <2>1, <3>1, <3>3
  <2>5. Mem'
    BY <2>4 DEF Mem
  <2> QED  BY <2>3, <2>5 DEF Kept
<1> QED  BY <1>4, <1>5

(* Who leaves takes the temporary entries along; what is cached waits.         *)
LEMMA DepartureKeeps ==
  ASSUME Inv, Kept, NEW a, NEW K, nat' = DelEntriesOnClntDiscon(Drop(nat, a), a, K),
         natIf' \subseteq natIf, a \notin natIf', UNCHANGED live,
         failures' = 0 => failures = 0
  PROVE  Kept'
<1>1. Sound(nat) /\ nat \in NatApps
  BY DEF Inv, NatInv, Sound
<1> DEFINE d == Drop(nat, a)
<1>2. Sound(d) /\ d \in NatApps
  BY <1>1, DropFollows DEF Follows, Sound
<1>3. Quiet(d, nat)
  BY <1>1, DropQuiet
<1> HIDE DEF d
<1>4. /\ nat'.tbl = d.tbl /\ nat'.pub = d.pub /\ nat'.pre = d.pre
      /\ Remembered(nat') \subseteq Remembered(d)
      /\ \A k \in Waits(nat') : k \in Waits(d) \/ k.priv = a
  BY <1>2, SleepQuiet DEF d
<1>5. Mem'
  BY <1>3, <1>4 DEF Kept, Mem, Quiet
<1>6. Restored'
  BY <1>3, <1>4 DEF Kept, Restored, Quiet
<1> QED  BY <1>5, <1>6 DEF Kept

(* A client that comes finds its connections restored or forgotten; one that   *)
(* goes leaves what waits behind.                                              *)
LEMMA ClientKeeps ==
  ASSUME Inv, Kept, NEW c \in Clients, NEW K,
         \/ HandleNeighIpAddrAddEvt(c, K) \/ HandleNeighIpAddrDelEvt(c, K)
         \/ PowerSave(c, K) \/ Recover(c, K)
  PROVE  Kept'
<1>1. Sound(nat) /\ nat \in NatApps /\ failures \in 0..MaxFailures
  BY DEF Inv, NatInv, Lists, Sound
<1>2. CASE HandleNeighIpAddrAddEvt(c, K)
  <2> DEFINE m == ResetPwrSaveIf(nat, c, K)
  <2>1. Sound(m)
    BY <1>1, ResetFollows DEF Follows
  <2>2. Quiet(m, nat) /\ \A k \in Waits(m) : k.priv # c
    BY <1>1, ResetQuiet
  <2>3. /\ nat' = Flush(m, c, FALSE, K)
        /\ natIf' = natIf \cup {c} /\ UNCHANGED <<live, failures>>
    BY <1>2 DEF HandleNeighIpAddrAddEvt
  <2> HIDE DEF m
  <2>4. /\ nat'.tbl = m.tbl /\ nat'.pub = m.pub /\ nat'.pre = m.pre
        /\ Waits(nat') \subseteq Waits(m) /\ Remembered(nat') \subseteq Remembered(m)
    BY <2>1, <2>3, FlushQuiet
  <2>5. Mem'
    BY <2>2, <2>3, <2>4 DEF Kept, Mem, Quiet
  <2>6. Restored'
    BY <2>2, <2>3, <2>4 DEF Kept, Restored, Quiet
  <2> QED  BY <2>5, <2>6 DEF Kept
<1>3. CASE HandleNeighIpAddrDelEvt(c, K)
  <2>1. /\ nat' = DelEntriesOnClntDiscon(Drop(nat, c), c, K)
        /\ natIf' = natIf \ {c} /\ UNCHANGED live
    BY <1>3 DEF HandleNeighIpAddrDelEvt
  <2>2. failures' = 0 => failures = 0
    BY <1>1, <1>3, FailedType DEF HandleNeighIpAddrDelEvt
  <2> QED  BY <1>1, <2>1, <2>2, DepartureKeeps
<1>4. CASE PowerSave(c, K)
  <2>1. nat' = UpdatePwrSaveIf(nat, c, K) /\ UNCHANGED <<natIf, live>>
    BY <1>4 DEF PowerSave, listener
  <2>2. failures' = 0 => failures = 0
    BY <1>1, <1>4, FailedType DEF PowerSave
  <2>3. Quiet(nat', nat)
    BY <1>1, <2>1, SleepQuiet
  <2> QED  BY <2>1, <2>2, <2>3, QuietKeeps
<1>5. CASE Recover(c, K)
  <2>1. Quiet(nat', nat)
    BY <1>1, <1>5, ResetQuiet DEF Recover
  <2> QED  BY <1>5, <2>1, QuietKeeps DEF Recover, listener
<1> QED  BY <1>2, <1>3, <1>4, <1>5

(* The dummy rules of a host are not those of a NAT client.                    *)
LEMMA HostKeeps ==
  ASSUME Inv, Kept, NEW h \in Hosts, NEW K, AddHost(h, K) \/ DelHost(h, K)
  PROVE  Kept'
<1>1. Sound(nat) /\ nat \in NatApps /\ failures \in 0..MaxFailures /\ natIf \subseteq Clients
  BY DEF Inv, NatInv, Lists, Sound
<1>2. CASE AddHost(h, K)
  <2>1. nat' = Flush(nat, h, TRUE, K) /\ UNCHANGED <<natIf, live, failures>>
    BY <1>2 DEF AddHost
  <2>2. /\ nat'.tbl = nat.tbl /\ nat'.pub = nat.pub /\ nat'.pre = nat.pre
        /\ Waits(nat') \subseteq Waits(nat)
        /\ \A k \in Remembered(nat') : k \in Remembered(nat) \/ k.priv \in WanIps
    <3>1. LET m == Flush(nat, h, TRUE, K)
          IN /\ m.tbl = nat.tbl /\ m.pub = nat.pub /\ m.pre = nat.pre
             /\ Waits(m) \subseteq Waits(nat)
             /\ \A k \in Remembered(m) :
                  k \in Remembered(nat) \/ (TRUE /\ k.priv \in WanIps)
      BY <1>1, FlushQuiet, ZenonT(30)
    <3> QED  BY <2>1, <3>1
  <2>3. Mem'
    BY <2>1, <2>2, AddressesAssumption DEF Kept, Mem
  <2>4. Restored'
    BY <2>1, <2>2 DEF Kept, Restored
  <2> QED  BY <2>3, <2>4 DEF Kept
<1>3. CASE DelHost(h, K)
  <2>1. /\ nat' = DelEntriesOnClntDiscon(Drop(nat, h), h, K) /\ UNCHANGED <<natIf, live>>
    BY <1>3 DEF DelHost
  <2>2. failures' = 0 => failures = 0
    BY <1>1, <1>3, FailedType DEF DelHost
  <2>3. h \notin natIf'
    BY <1>1, <2>1, AddressesAssumption
  <2> QED  BY <1>1, <2>1, <2>2, <2>3, DepartureKeeps
<1> QED  BY <1>2, <1>3

LEMMA PeerKeeps ==
  ASSUME Inv, Kept, NEW p \in Peers, NEW K,
         HandleSTAClientAddEvt(p, K) \/ HandleSTAClientDelEvt(p, K)
  PROVE  Kept'
<1>1. Sound(nat) /\ nat \in NatApps /\ failures \in 0..MaxFailures
  BY DEF Inv, NatInv, Lists, Sound
<1>2. UNCHANGED <<natIf, live>>
  BY DEF HandleSTAClientAddEvt, HandleSTAClientDelEvt
<1>3. failures' = 0 => failures = 0
  <2>1. \/ UNCHANGED failures
        \/ Failed(\E k \in Rules(nat, "on") \cap K : Dst[k.flow] = p)
    BY DEF HandleSTAClientAddEvt, HandleSTAClientDelEvt
  <2> QED  BY <1>1, <2>1, FailedType
<1>4. CASE nat' = Flush(nat, p, FALSE, K)
  <2>1. Quiet(nat', nat)
    BY <1>1, <1>4, FlushQuiet DEF Quiet
  <2> QED  BY <1>2, <1>3, <2>1, QuietKeeps
<1>5. CASE nat' = Drop(nat, p)
  <2>1. Quiet(nat', nat)
    BY <1>1, <1>5, DropQuiet
  <2> QED  BY <1>2, <1>3, <2>1, QuietKeeps
<1>6. CASE nat' = Drop(DelEntriesOnSTAClntDiscon(nat, p, K), p)
  <2> DEFINE m == DelEntriesOnSTAClntDiscon(nat, p, K)
  <2>1. Quiet(m, nat) /\ m \in NatApps
    BY <1>1, SleepQuiet, LeaveFollows DEF Sound
  <2> HIDE DEF m
  <2>2. Quiet(Drop(m, p), m)
    BY <2>1, DropQuiet
  <2>3. Quiet(nat', nat)
    BY <1>6, <2>1, <2>2, QuietChain DEF m
  <2> QED  BY <1>2, <1>3, <2>3, QuietKeeps
<1> QED  BY <1>4, <1>5, <1>6 DEF HandleSTAClientAddEvt, HandleSTAClientDelEvt

LEMMA KeptStep == Inv /\ Kept /\ [Next]_vars => Kept'
<1> SUFFICES ASSUME Inv, Kept, [Next]_vars PROVE Kept'
  OBVIOUS
<1>1. CASE UNCHANGED vars
  BY <1>1 DEF Kept, Mem, Restored, vars
<1>2. CASE Next
  <2>1. Answers \subseteq BOOLEAN
    BY DEF Answers
  <2>2. PICK m \in {"Q6", "STA"} : TRUE
    OBVIOUS
  <2>3. ASSUME Wan PROVE Kept'
    BY <2>1, <2>2, <2>3, WanKeeps DEF Wan
  <2>4. ASSUME Conntrack PROVE Kept'
    BY <2>4, ConntrackKeeps DEF Conntrack
  <2>5. ASSUME Neighbours PROVE Kept'
    BY <2>5, ClientKeeps, HostKeeps, PeerKeeps DEF Neighbours
  <2> QED  BY <1>2, <2>3, <2>4, <2>5 DEF Next
<1> QED  BY <1>1, <1>2

LEMMA KeptInit == Init => Kept
<1> SUFFICES ASSUME Init PROVE Kept
  OBVIOUS
<1>1. PICK g \in Garbage :
        nat = [tbl |-> FALSE, pub |-> None, pre |-> g.pre, saving |-> g.saving,
               cache |-> [k \in Keys |-> "none"], temp |-> {}, hw |-> Clear]
  BY DEF Init
<1>2. nat.tbl = FALSE /\ nat.cache = [k \in Keys |-> "none"] /\ nat.temp = {}
  BY <1>1
<1>3. Remembered(nat) = {}
  BY <1>2 DEF Remembered
<1> QED  BY <1>2, <1>3 DEF Kept, Mem, Restored

LEMMA KeptInvariant == Spec => [](Inv /\ Kept)
<1>1. Init => Inv /\ Kept
  BY InvInit, KeptInit
<1>2. (Inv /\ Kept) /\ [Next]_vars => (Inv /\ Kept)'
  BY InvStep, KeptStep
<1> QED  BY <1>1, <1>2, PTL DEF Spec

(* "wait it timeout by destroy event" (AddTable): for any number of clients,   *)
(* WAN addresses and outages, no ended connection of a NAT client is           *)
(* remembered, so none gets a rule again.                                      *)
THEOREM StaleConnectionsForgotten == Spec => []NoStaleConnection
<1>1. Kept => NoStaleConnection
  BY KeptMeans
<1> QED  BY <1>1, KeptInvariant, PTL

(* With the WAN back at the address it had (AddTable's pub_ip_addr_pre), no    *)
(* connection of a client that is there and awake is left without its rule.    *)
THEOREM ConnectionsRestored == Spec => []RestoredOnReturn
<1>1. Kept => RestoredOnReturn
  BY KeptMeans
<1> QED  BY <1>1, KeptInvariant, PTL
=============================================================================
