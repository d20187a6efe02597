---------------------------- MODULE NatTableProofs ----------------------------
(* What holds of the NAT table for every size of the tables, every set of     *)
(* rules and every pair of hash functions, as long as no ioctl of an addition *)
(* is refused in the middle.  Settled(m) is the inductive invariant between   *)
(* two operations; Safe(m, c) says that the memory m is all right now and     *)
(* after each of the writes c still to come, and ends Settled.  AddSafe and   *)
(* DelSafe show that the writes of an operation are safe for every settled    *)
(* table, one write at a time (Through).                                      *)
EXTENDS NatTable, FiniteSetTheorems, SequenceTheorems, WellFoundedInduction, TLAPS

Id(m, h) == m[<<"id", h>>]
Meta(m, j) == m[<<"meta", j>>]

(* The cells of the tables, and what each kind holds.                         *)
Cells == (({"rule", "indx"} \X Entries) \cup ({"meta"} \X Expn)) \cup ({"id"} \X Handles)
RuleRec == [rule : Rules \cup {NoRule}, enable : BOOLEAN, invalid : BOOLEAN,
            next : Expn \cup {0}, prev : Entries \cup {0}, indx : Entries \cup {0}]
IndexRec == [tbl : Entries \cup {0}, next : Expn \cup {0}]
MetaRec == [prev : Entries \cup {0}]
IdRec == [entry : Entries \cup {0}, rule : Rules \cup {NoRule}]

Mem(m) == /\ m = [c \in Cells |-> m[c]]
          /\ \A e \in Entries : Rule(m, e) \in RuleRec
          /\ \A e \in Entries : Index(m, e) \in IndexRec
          /\ \A j \in Expn : Meta(m, j) \in MetaRec
          /\ \A h \in Handles : Id(m, h) \in IdRec

Put(m, t, e, rec) == [m EXCEPT ![<<t, e>>] = rec]

(* Writing one field of an entry changes that field and no other.             *)
LEMMA PutRule ==
  ASSUME NEW m, Mem(m), NEW e \in Entries, NEW rec \in RuleRec
  PROVE  /\ Mem(Put(m, "rule", e, rec))
         /\ \A x \in Entries : Rule(Put(m, "rule", e, rec), x) = IF x = e THEN rec ELSE Rule(m, x)
         /\ \A x \in Entries : Index(Put(m, "rule", e, rec), x) = Index(m, x)
         /\ \A x \in Expn : Meta(Put(m, "rule", e, rec), x) = Meta(m, x)
         /\ \A h \in Handles : Id(Put(m, "rule", e, rec), h) = Id(m, h)
<1> DEFINE m2 == Put(m, "rule", e, rec)
<1>1. /\ \A x \in Entries : Rule(m2, x) = IF x = e THEN rec ELSE Rule(m, x)
      /\ \A x \in Entries : Index(m2, x) = Index(m, x)
      /\ \A x \in Expn : Meta(m2, x) = Meta(m, x)
      /\ \A h \in Handles : Id(m2, h) = Id(m, h)
  BY DEF Put, Mem, Cells, Rule, Index, Meta, Id
<1>2. m2 = [c \in Cells |-> m2[c]]
  BY DEF Put, Mem
<1> QED
  BY <1>1, <1>2 DEF Mem

(* The same for a cell of the index tables ...                                *)
LEMMA PutIndex ==
  ASSUME NEW m, Mem(m), NEW e \in Entries, NEW rec \in IndexRec
  PROVE  /\ Mem(Put(m, "indx", e, rec))
         /\ \A x \in Entries : Rule(Put(m, "indx", e, rec), x) = Rule(m, x)
         /\ \A x \in Entries : Index(Put(m, "indx", e, rec), x) = IF x = e THEN rec ELSE Index(m, x)
         /\ \A x \in Expn : Meta(Put(m, "indx", e, rec), x) = Meta(m, x)
         /\ \A h \in Handles : Id(Put(m, "indx", e, rec), h) = Id(m, h)
<1> DEFINE m2 == Put(m, "indx", e, rec)
<1>1. /\ \A x \in Entries : Index(m2, x) = IF x = e THEN rec ELSE Index(m, x)
      /\ \A x \in Entries : Rule(m2, x) = Rule(m, x)
      /\ \A x \in Expn : Meta(m2, x) = Meta(m, x)
      /\ \A h \in Handles : Id(m2, h) = Id(m, h)
  BY DEF Put, Mem, Cells, Rule, Index, Meta, Id
<1>2. m2 = [c \in Cells |-> m2[c]]
  BY DEF Put, Mem
<1> QED
  BY <1>1, <1>2 DEF Mem

(* ... for a back link of an index ...                                        *)
LEMMA PutMeta ==
  ASSUME NEW m, Mem(m), NEW e \in Expn, NEW rec \in MetaRec
  PROVE  /\ Mem(Put(m, "meta", e, rec))
         /\ \A x \in Entries : Rule(Put(m, "meta", e, rec), x) = Rule(m, x)
         /\ \A x \in Entries : Index(Put(m, "meta", e, rec), x) = Index(m, x)
         /\ \A x \in Expn : Meta(Put(m, "meta", e, rec), x) = IF x = e THEN rec ELSE Meta(m, x)
         /\ \A h \in Handles : Id(Put(m, "meta", e, rec), h) = Id(m, h)
<1> DEFINE m2 == Put(m, "meta", e, rec)
<1>1. /\ \A x \in Entries : Index(m2, x) = Index(m, x)
      /\ \A x \in Entries : Rule(m2, x) = Rule(m, x)
      /\ \A x \in Expn : Meta(m2, x) = IF x = e THEN rec ELSE Meta(m, x)
      /\ \A h \in Handles : Id(m2, h) = Id(m, h)
  BY DEF Put, Mem, Cells, Rule, Index, Meta, Id
<1>2. m2 = [c \in Cells |-> m2[c]]
  BY DEF Put, Mem
<1> QED
  BY <1>1, <1>2 DEF Mem

(* ... and for a handle.                                                      *)
LEMMA PutId ==
  ASSUME NEW m, Mem(m), NEW e \in Handles, NEW rec \in IdRec
  PROVE  /\ Mem(Put(m, "id", e, rec))
         /\ \A x \in Entries : Rule(Put(m, "id", e, rec), x) = Rule(m, x)
         /\ \A x \in Entries : Index(Put(m, "id", e, rec), x) = Index(m, x)
         /\ \A x \in Expn : Meta(Put(m, "id", e, rec), x) = Meta(m, x)
         /\ \A h \in Handles : Id(Put(m, "id", e, rec), h) = IF h = e THEN rec ELSE Id(m, h)
<1> DEFINE m2 == Put(m, "id", e, rec)
<1>1. /\ \A x \in Entries : Index(m2, x) = Index(m, x)
      /\ \A x \in Entries : Rule(m2, x) = Rule(m, x)
      /\ \A x \in Expn : Meta(m2, x) = Meta(m, x)
      /\ \A h \in Handles : Id(m2, h) = IF h = e THEN rec ELSE Id(m, h)
  BY DEF Put, Mem, Cells, Rule, Index, Meta, Id
<1>2. m2 = [c \in Cells |-> m2[c]]
  BY DEF Put, Mem
<1> QED
  BY <1>1, <1>2 DEF Mem

(* A write of one field of a rule is the rule with that field changed.        *)
LEMMA WriteRule ==
  ASSUME NEW m, Mem(m), NEW e \in Entries
  PROVE  /\ \A v : Write(m, W("rule", e, [next |-> v])) = Put(m, "rule", e, [Rule(m, e) EXCEPT !.next = v])
         /\ \A v : Write(m, W("rule", e, [prev |-> v])) = Put(m, "rule", e, [Rule(m, e) EXCEPT !.prev = v])
         /\ \A v : Write(m, W("rule", e, [indx |-> v])) = Put(m, "rule", e, [Rule(m, e) EXCEPT !.indx = v])
         /\ \A v : Write(m, W("rule", e, [enable |-> v])) = Put(m, "rule", e, [Rule(m, e) EXCEPT !.enable = v])
         /\ \A v : Write(m, W("rule", e, [invalid |-> v])) = Put(m, "rule", e, [Rule(m, e) EXCEPT !.invalid = v])
         /\ \A v : v \in RuleRec => Write(m, W("rule", e, v)) = Put(m, "rule", e, v)
<1>1. Rule(m, e) \in RuleRec
  BY DEF Mem
<1> DEFINE upd(fs) == [f \in DOMAIN Rule(m, e) |-> IF f \in DOMAIN fs THEN fs[f] ELSE Rule(m, e)[f]]
<1>2. \A fs : Write(m, W("rule", e, fs)) = Put(m, "rule", e, upd(fs))
  BY DEF Write, W, Put, Rule
<1>3. ASSUME NEW v PROVE upd([next |-> v]) = [Rule(m, e) EXCEPT !.next = v]
  BY <1>1 DEF RuleRec
<1>4. ASSUME NEW v PROVE upd([prev |-> v]) = [Rule(m, e) EXCEPT !.prev = v]
  BY <1>1 DEF RuleRec
<1>5. ASSUME NEW v PROVE upd([indx |-> v]) = [Rule(m, e) EXCEPT !.indx = v]
  BY <1>1 DEF RuleRec
<1>6. ASSUME NEW v PROVE upd([enable |-> v]) = [Rule(m, e) EXCEPT !.enable = v]
  BY <1>1 DEF RuleRec
<1>7. ASSUME NEW v PROVE upd([invalid |-> v]) = [Rule(m, e) EXCEPT !.invalid = v]
  BY <1>1 DEF RuleRec
<1>8. ASSUME NEW v PROVE v \in RuleRec => upd(v) = v
  BY <1>1 DEF RuleRec
<1> HIDE DEF upd
<1> QED
  BY <1>2, <1>3, <1>4, <1>5, <1>6, <1>7, <1>8

(* The same for an entry of the index tables ...                              *)
LEMMA WriteIndex ==
  ASSUME NEW m, Mem(m), NEW e \in Entries
  PROVE  /\ \A v : Write(m, W("indx", e, [next |-> v])) = Put(m, "indx", e, [Index(m, e) EXCEPT !.next = v])
         /\ \A v : Write(m, W("indx", e, [tbl |-> v])) = Put(m, "indx", e, [Index(m, e) EXCEPT !.tbl = v])
         /\ \A v : v \in IndexRec => Write(m, W("indx", e, v)) = Put(m, "indx", e, v)
<1>1. Index(m, e) \in IndexRec
  BY DEF Mem
<1> DEFINE upd(fs) == [f \in DOMAIN Index(m, e) |-> IF f \in DOMAIN fs THEN fs[f] ELSE Index(m, e)[f]]
<1>2. \A fs : Write(m, W("indx", e, fs)) = Put(m, "indx", e, upd(fs))
  BY DEF Write, W, Put, Index
<1>3. ASSUME NEW v PROVE upd([next |-> v]) = [Index(m, e) EXCEPT !.next = v]
  BY <1>1 DEF IndexRec
<1>4. ASSUME NEW v PROVE upd([tbl |-> v]) = [Index(m, e) EXCEPT !.tbl = v]
  BY <1>1 DEF IndexRec
<1>5. ASSUME NEW v PROVE v \in IndexRec => upd(v) = v
  BY <1>1 DEF IndexRec
<1> HIDE DEF upd
<1> QED
  BY <1>2, <1>3, <1>4, <1>5

(* ... and for back links and handles, which are written whole.               *)
LEMMA WriteOther ==
  ASSUME NEW m, Mem(m)
  PROVE  /\ \A j \in Expn : \A v \in MetaRec : Write(m, W("meta", j, v)) = Put(m, "meta", j, v)
         /\ \A h \in Handles : \A v \in IdRec : Write(m, W("id", h, v)) = Put(m, "id", h, v)
<1>1. ASSUME NEW rec \in MetaRec, NEW v \in MetaRec
      PROVE  [f \in DOMAIN rec |-> IF f \in DOMAIN v THEN v[f] ELSE rec[f]] = v
  BY DEF MetaRec
<1>2. ASSUME NEW rec \in IdRec, NEW v \in IdRec
      PROVE  [f \in DOMAIN rec |-> IF f \in DOMAIN v THEN v[f] ELSE rec[f]] = v
  BY DEF IdRec
<1>3. ASSUME NEW j \in Expn, NEW v \in MetaRec
      PROVE  Write(m, W("meta", j, v)) = Put(m, "meta", j, v)
  <2>1. Meta(m, j) \in MetaRec
    BY DEF Mem
  <2>2. [f \in DOMAIN Meta(m, j) |-> IF f \in DOMAIN v THEN v[f] ELSE Meta(m, j)[f]] = v
    BY <1>1, <2>1
  <2> QED
    BY <2>2 DEF Write, W, Put, Meta
<1>4. ASSUME NEW h \in Handles, NEW v \in IdRec
      PROVE  Write(m, W("id", h, v)) = Put(m, "id", h, v)
  <2>1. Id(m, h) \in IdRec
    BY DEF Mem
  <2>2. [f \in DOMAIN Id(m, h) |-> IF f \in DOMAIN v THEN v[f] ELSE Id(m, h)[f]] = v
    BY <1>2, <2>1
  <2> QED
    BY <2>2 DEF Write, W, Put, Id
<1> QED
  BY <1>3, <1>4

(* memset and calloc leave well-formed tables.                                *)
LEMMA EmptyMem == Mem(Empty)
<1>1. \A c \in Cells : Empty[c] = CASE c[1] = "rule" -> EmptyRule
              [] c[1] = "indx" -> EmptyIndex
              [] c[1] = "meta" -> [prev |-> 0]
              [] c[1] = "id"   -> [entry |-> 0, rule |-> NoRule]
  BY DEF Empty, Cells
<1>2. \A e \in Entries : Rule(Empty, e) = EmptyRule /\ Index(Empty, e) = EmptyIndex
  BY <1>1 DEF Cells, Rule, Index
<1>3. \A e \in Expn : Meta(Empty, e) = [prev |-> 0]
  BY <1>1 DEF Cells, Meta
<1>4. \A e \in Handles : Id(Empty, e) = [entry |-> 0, rule |-> NoRule]
  BY <1>1 DEF Cells, Id
<1>5. Empty = [c \in Cells |-> Empty[c]]
  BY DEF Empty, Cells
<1>6. /\ EmptyRule \in RuleRec /\ EmptyIndex \in IndexRec
      /\ [prev |-> 0] \in MetaRec /\ [entry |-> 0, rule |-> NoRule] \in IdRec
  BY DEF EmptyRule, EmptyIndex, RuleRec, IndexRec, MetaRec, IdRec
<1> QED
  BY <1>2, <1>3, <1>4, <1>5, <1>6 DEF Mem

-------------------------------------------------------------------------------
(* Naturals: least elements, and induction over a set.                        *)

(* A set of numbers has a least one.                                          *)
LEMMA LeastNumber ==
  ASSUME NEW S \in SUBSET Nat, S # {}
  PROVE  \E x \in S : \A y \in S : x <= y
<1> DEFINE R == {ss \in Nat \X Nat : ss[1] < ss[2]}
<1>1. IsWellFoundedOn(R, Nat)
  BY NatLessThanWellFounded DEF OpToRel
<1>2. \A x, y \in Nat : y < x => <<y, x>> \in R
  OBVIOUS
<1> HIDE DEF R
<1>3. PICK x \in S : \A y \in S : ~(<<y, x>> \in R)
  BY <1>1, WFMin
<1>4. \A y \in S : ~(y < x)
  BY <1>2, <1>3
<1> QED
  BY <1>4

(* Induction over the numbers, as a fact about a set.                         *)
LEMMA NaturalSet ==
  ASSUME NEW S, 0 \in S, \A n \in Nat : n \in S => n + 1 \in S
  PROVE  Nat \subseteq S
<1> SUFFICES ASSUME Nat \ S # {} PROVE FALSE
  OBVIOUS
<1>1. PICK n \in Nat \ S : \A k \in Nat \ S : n <= k
  BY LeastNumber
<1>2. n # 0 /\ n - 1 \in Nat
  BY <1>1
<1>3. n - 1 \in S
  BY <1>1, <1>2
<1> QED
  BY <1>1, <1>2, <1>3

-------------------------------------------------------------------------------
(* Chains.  The chain of e is the least set that has e and with an entry also *)
(* the one it is linked to.                                                   *)

Links(m, t) == \A x \in Entries : NextOf(m, t, x) \in Expn \cup {0}
Closed(m, t, S) == \A x \in S : NextOf(m, t, x) # 0 => NextOf(m, t, x) \in S

Grow(m, t, s) == s \cup ({NextOf(m, t, x) : x \in s} \ {0})
Grows(m, t, e, n, f) == f = [k \in 0 .. n |-> IF k = 0 THEN {e} ELSE Grow(m, t, f[k-1])]
Within(m, t, e) == CHOOSE f : Grows(m, t, e, E, f)

(* The recursive function of Chain exists up to any number of steps.          *)
LEMMA GrowsExists ==
  ASSUME NEW m, NEW t, NEW e, NEW n \in Nat
  PROVE  \E f : Grows(m, t, e, n, f)
<1> DEFINE S == {k \in Nat : \E f : Grows(m, t, e, k, f)}
<1>1. 0 \in S
  <2>1. Grows(m, t, e, 0, [k \in 0 .. 0 |-> {e}])
    BY DEF Grows
  <2> QED
    BY <2>1
<1>2. ASSUME NEW k \in Nat, k \in S PROVE k + 1 \in S
  <2>1. PICK f : Grows(m, t, e, k, f)
    BY <1>2
  <2> DEFINE g == [j \in 0 .. k + 1 |-> IF j = k + 1 THEN Grow(m, t, f[k]) ELSE f[j]]
  <2>2. \A j \in 0 .. k : f[j] = IF j = 0 THEN {e} ELSE Grow(m, t, f[j-1])
    BY <2>1 DEF Grows
  <2>3. g[k + 1] = Grow(m, t, f[k]) /\ \A j \in 0 .. k : g[j] = f[j]
    OBVIOUS
  <2>4. ASSUME NEW j \in 0 .. k + 1
        PROVE  g[j] = IF j = 0 THEN {e} ELSE Grow(m, t, g[j-1])
    <3>1. j = k + 1 \/ j \in 0 .. k
      OBVIOUS
    <3>2. j # 0 => j - 1 \in 0 .. k
      OBVIOUS
    <3> HIDE DEF g
    <3> QED
      BY <2>2, <2>3, <3>1, <3>2
  <2>5. g = [j \in 0 .. k + 1 |-> g[j]]
    OBVIOUS
  <2> HIDE DEF g
  <2>6. Grows(m, t, e, k + 1, g)
    BY <2>4, <2>5 DEF Grows
  <2> QED
    BY <2>6
<1> HIDE DEF S
<1>3. Nat \subseteq S
  BY <1>1, <1>2, NaturalSet
<1> QED
  BY <1>3 DEF S

GrowsTo(m, t, e, f, S) == /\ S = f[E] /\ f[0] = {e}
                          /\ \A k \in Nat : k < E => f[k+1] = Grow(m, t, f[k])

(* What Chain is: the last of the E sets that grow from the entry.            *)
LEMMA ChainSteps ==
  ASSUME NEW m, NEW t, NEW e
  PROVE  \E f : GrowsTo(m, t, e, f, Chain(m, t, e))
<1>1. Grows(m, t, e, E, Within(m, t, e))
  BY GrowsExists, TableAssumption DEF Within
<1>2. Chain(m, t, e) = Within(m, t, e)[E]
  BY DEF Chain, Within, Grows, Grow
<1>3. \A k \in 0 .. E : Within(m, t, e)[k] = IF k = 0 THEN {e} ELSE Grow(m, t, Within(m, t, e)[k-1])
  BY <1>1 DEF Grows
<1>4. Within(m, t, e)[0] = {e}
  BY <1>3, TableAssumption
<1>5. \A k \in Nat : k < E => Within(m, t, e)[k+1] = Grow(m, t, Within(m, t, e)[k])
  BY <1>3, TableAssumption
<1> QED
  BY <1>2, <1>4, <1>5 DEF GrowsTo

(* Any set closed under the links that has e has its chain.                   *)
LEMMA ChainLeast ==
  ASSUME NEW m, NEW t, NEW e, NEW S, e \in S, Closed(m, t, S)
  PROVE  Chain(m, t, e) \subseteq S
<1>0. PICK f : GrowsTo(m, t, e, f, Chain(m, t, e))
  BY ChainSteps
<1>1. /\ Chain(m, t, e) = f[E] /\ f[0] = {e}
      /\ \A k \in Nat : k < E => f[k+1] = Grow(m, t, f[k])
  BY <1>0 DEF GrowsTo
<1> DEFINE N == {k \in Nat : k <= E => f[k] \subseteq S}
<1>2. 0 \in N
  BY <1>1
<1>3. ASSUME NEW k \in Nat, k \in N PROVE k + 1 \in N
  <2> SUFFICES ASSUME k + 1 <= E PROVE f[k+1] \subseteq S
    OBVIOUS
  <2>1. f[k] \subseteq S /\ f[k+1] = Grow(m, t, f[k])
    BY <1>1, <1>3, TableAssumption
  <2> QED
    BY <2>1 DEF Grow, Closed
<1> HIDE DEF N
<1>4. Nat \subseteq N
  BY <1>2, <1>3, NaturalSet
<1> QED
  BY <1>1, <1>4, TableAssumption DEF N

(* The expansion table has E - 1 entries.                                     *)
LEMMA ExpnFinite == IsFiniteSet(Expn) /\ Cardinality(Expn) = E - 1
  BY FS_Interval, TableAssumption DEF Expn

(* E steps are enough for a chain: it holds its entry, entries of the         *)
(* expansion table, and what follows each of them. A chain that still grew    *)
(* after E steps would have more entries than there are.                      *)
LEMMA ChainClosed ==
  ASSUME NEW m, NEW t, NEW e \in Entries, Links(m, t)
  PROVE  /\ e \in Chain(m, t, e) /\ Chain(m, t, e) \subseteq {e} \cup Expn
         /\ Closed(m, t, Chain(m, t, e))
<1>0. PICK f : GrowsTo(m, t, e, f, Chain(m, t, e))
  BY ChainSteps
<1>1. /\ Chain(m, t, e) = f[E] /\ f[0] = {e}
      /\ \A k \in Nat : k < E => f[k+1] = Grow(m, t, f[k])
  BY <1>0 DEF GrowsTo
<1> DEFINE U == {e} \cup Expn
           N == {k \in Nat : k <= E =>
                   /\ e \in f[k] /\ f[k] \subseteq U
                   /\ Closed(m, t, f[k]) \/ Cardinality(f[k]) >= k + 1}
<1>2. IsFiniteSet(U) /\ Cardinality(U) <= E /\ U \subseteq Entries /\ Cardinality(U) \in Nat
  <2>1. IsFiniteSet(U) /\ Cardinality(U) <= E
    <3>1. U = Expn \cup {e}
      OBVIOUS
    <3>2. /\ IsFiniteSet(Expn \cup {e})
          /\ Cardinality(Expn \cup {e}) = IF e \in Expn THEN Cardinality(Expn) ELSE Cardinality(Expn) + 1
      BY ExpnFinite, FS_AddElement
    <3> HIDE DEF U
    <3> QED
      BY <3>1, <3>2, ExpnFinite, TableAssumption
  <2>2. Cardinality(U) \in Nat
    BY <2>1, FS_CardinalityType
  <2> HIDE DEF U
  <2> QED
    BY <2>1, <2>2 DEF Entries, U
<1> HIDE DEF U
<1>3. 0 \in N
  <2>1. Cardinality(f[0]) = 1
    BY <1>1, FS_Singleton
  <2> QED
    BY <1>1, <2>1 DEF U
<1>4. ASSUME NEW k \in Nat, k \in N PROVE k + 1 \in N
  <2> SUFFICES ASSUME k + 1 <= E
               PROVE  /\ e \in f[k+1] /\ f[k+1] \subseteq U
                      /\ Closed(m, t, f[k+1]) \/ Cardinality(f[k+1]) >= k + 2
    BY TableAssumption
  <2>1. /\ e \in f[k] /\ f[k] \subseteq U /\ f[k+1] = Grow(m, t, f[k])
        /\ Closed(m, t, f[k]) \/ Cardinality(f[k]) >= k + 1
    BY <1>1, <1>4, TableAssumption
  <2>2. e \in f[k+1] /\ f[k+1] \subseteq U /\ f[k] \subseteq f[k+1]
    BY <1>2, <2>1 DEF Grow, Links, U
  <2>3. CASE Closed(m, t, f[k])
    <3>1. f[k+1] = f[k]
      BY <2>1, <2>3 DEF Grow, Closed
    <3> QED
      BY <2>2, <2>3, <3>1
  <2>4. CASE ~Closed(m, t, f[k]) /\ Cardinality(f[k]) >= k + 1
    <3>1. f[k+1] # f[k]
      BY <2>1, <2>4 DEF Grow, Closed
    <3>2. IsFiniteSet(f[k+1]) /\ IsFiniteSet(f[k])
      BY <1>2, <2>1, <2>2, FS_Subset
    <3>3. Cardinality(f[k]) <= Cardinality(f[k+1]) /\ Cardinality(f[k]) # Cardinality(f[k+1])
      BY <2>2, <3>1, <3>2, FS_Subset
    <3>4. Cardinality(f[k]) \in Nat /\ Cardinality(f[k+1]) \in Nat
      BY <3>2, FS_CardinalityType
    <3> QED
      BY <2>2, <2>4, <3>3, <3>4
  <2> QED
    BY <2>1, <2>3, <2>4
<1> HIDE DEF N
<1>5. Nat \subseteq N
  BY <1>3, <1>4, NaturalSet
<1>6. /\ e \in f[E] /\ f[E] \subseteq U
      /\ Closed(m, t, f[E]) \/ Cardinality(f[E]) >= E + 1
  BY <1>5, TableAssumption DEF N
<1>7. Cardinality(f[E]) <= Cardinality(U) /\ Cardinality(f[E]) \in Nat
  BY <1>2, <1>6, FS_Subset, FS_CardinalityType
<1> QED
  BY <1>1, <1>2, <1>6, <1>7, TableAssumption DEF U

(* What a change of the links does to the chains: nothing to a chain none of  *)
(* whose entries is linked anew ...                                           *)
LEMMA ChainSame ==
  ASSUME NEW m, NEW m2, NEW t, NEW b \in Entries, Links(m, t), Links(m2, t),
         \A x \in Chain(m, t, b) : NextOf(m2, t, x) = NextOf(m, t, x)
  PROVE  Chain(m2, t, b) = Chain(m, t, b)
<1>1. /\ b \in Chain(m, t, b) /\ Closed(m, t, Chain(m, t, b))
      /\ b \in Chain(m2, t, b) /\ Closed(m2, t, Chain(m2, t, b))
  BY ChainClosed
<1>2. Closed(m2, t, Chain(m, t, b))
  BY <1>1 DEF Closed
<1>3. Chain(m2, t, b) \subseteq Chain(m, t, b)
  BY <1>1, <1>2, ChainLeast
<1>4. Closed(m, t, Chain(m2, t, b))
  BY <1>1, <1>3 DEF Closed
<1> QED
  BY <1>1, <1>3, <1>4, ChainLeast

(* ... a free entry f linked to a last entry l follows it ...                 *)
LEMMA ChainAppend ==
  ASSUME NEW m, NEW m2, NEW t, NEW b \in Base, Links(m, t), Links(m2, t),
         NEW l \in Entries, NEW f \in Expn, NextOf(m, t, l) = 0, NextOf(m, t, f) = 0, l # f,
         NextOf(m2, t, l) = f, \A x \in Entries \ {l} : NextOf(m2, t, x) = NextOf(m, t, x)
  PROVE  Chain(m2, t, b) = Chain(m, t, b) \cup {x \in {f} : l \in Chain(m, t, b)}
<1> DEFINE C == Chain(m, t, b)
           C2 == Chain(m2, t, b)
           D == C \cup {x \in {f} : l \in C}
<1>0. b \in Entries /\ f \in Entries /\ Expn \subseteq Entries
  BY DEF Entries
<1>1. /\ b \in C /\ Closed(m, t, C) /\ C \subseteq {b} \cup Expn
      /\ b \in C2 /\ Closed(m2, t, C2) /\ C2 \subseteq {b} \cup Expn
  BY <1>0, ChainClosed
<1>2. C \subseteq Entries /\ C2 \subseteq Entries
  BY <1>0, <1>1
<1> HIDE DEF C, C2
<1>3. Closed(m2, t, D)
  BY <1>0, <1>1, <1>2 DEF Closed
<1>4. C2 \subseteq D
  BY <1>1, <1>3, ChainLeast DEF C2
<1>5. Closed(m, t, C2)
  BY <1>0, <1>1, <1>2 DEF Closed
<1>6. C \subseteq C2
  BY <1>1, <1>5, ChainLeast DEF C
<1>7. l \in C => f \in C2
  BY <1>0, <1>1, <1>6, TableAssumption DEF Closed, Expn
<1> QED
  BY <1>4, <1>6, <1>7 DEF C, C2

(* ... and an entry f that is unlinked leaves, the rest stays.                *)
LEMMA ChainUnlink ==
  ASSUME NEW m, NEW m2, NEW t, NEW b \in Base, Links(m, t), Links(m2, t),
         NEW p \in Entries, NEW f \in Expn, p # f, NextOf(m, t, p) = f,
         \A x \in Entries : NextOf(m, t, x) = f => x = p,
         NextOf(m2, t, p) = NextOf(m, t, f),
         \A x \in Entries \ {p} : NextOf(m2, t, x) = NextOf(m, t, x)
  PROVE  Chain(m2, t, b) = Chain(m, t, b) \ {f}
<1> DEFINE C == Chain(m, t, b)
           C2 == Chain(m2, t, b)
           D == C2 \cup {x \in {f} : p \in C2}
<1>0. b \in Entries /\ f \in Entries /\ b # f /\ f # 0
  BY TableAssumption DEF Entries, Base, Expn
<1>1. /\ b \in C /\ Closed(m, t, C) /\ C \subseteq {b} \cup Expn
      /\ b \in C2 /\ Closed(m2, t, C2) /\ C2 \subseteq {b} \cup Expn
  BY <1>0, ChainClosed
<1>2. C \subseteq Entries /\ C2 \subseteq Entries
  BY <1>0, <1>1 DEF Entries
<1> HIDE DEF C, C2
<1>3. Closed(m2, t, C \ {f})
  <2> SUFFICES ASSUME NEW x \in C \ {f}, NextOf(m2, t, x) # 0
               PROVE  NextOf(m2, t, x) \in C \ {f}
    BY DEF Closed
  <2>1. CASE x = p
    <3>1. f \in C
      BY <1>0, <1>1, <2>1 DEF Closed
    <3>2. NextOf(m, t, f) \in C /\ NextOf(m, t, f) # f
      BY <1>0, <1>1, <2>1, <3>1 DEF Closed
    <3> QED
      BY <2>1, <3>2
  <2>2. CASE x # p
    <3>1. NextOf(m2, t, x) = NextOf(m, t, x) /\ NextOf(m, t, x) # f
      BY <1>2, <2>2
    <3> QED
      BY <1>1, <3>1 DEF Closed
  <2> QED
    BY <2>1, <2>2
<1>4. C2 \subseteq C \ {f}
  BY <1>0, <1>1, <1>3, ChainLeast DEF C2
<1>5. Closed(m, t, D)
  <2> SUFFICES ASSUME NEW x \in D, NextOf(m, t, x) # 0
               PROVE  NextOf(m, t, x) \in D
    BY DEF Closed
  <2>1. CASE x = f
    <3>1. NextOf(m2, t, p) \in C2
      BY <1>1, <1>4, <2>1 DEF Closed
    <3> QED
      BY <3>1, <2>1
  <2>2. CASE x = p /\ x # f
    BY <2>2
  <2>3. CASE x # p /\ x # f
    BY <1>1, <1>2, <2>3 DEF Closed
  <2> QED
    BY <2>1, <2>2, <2>3
<1>6. C \subseteq D
  BY <1>1, <1>5, ChainLeast DEF C
<1> QED
  BY <1>4, <1>6 DEF C, C2

(* An entry of the expansion table that lies in a chain is linked from there. *)
LEMMA ChainPred ==
  ASSUME NEW m, NEW t, NEW b \in Base, Links(m, t), NEW f \in Expn, f \in Chain(m, t, b)
  PROVE  \E x \in Chain(m, t, b) : x # f /\ NextOf(m, t, x) = f
<1> SUFFICES ASSUME \A x \in Chain(m, t, b) : x # f => NextOf(m, t, x) # f PROVE FALSE
  OBVIOUS
<1>0. b \in Entries /\ b # f
  BY TableAssumption DEF Entries, Base, Expn
<1>1. b \in Chain(m, t, b) /\ Closed(m, t, Chain(m, t, b))
  BY <1>0, ChainClosed
<1>2. Closed(m, t, Chain(m, t, b) \ {f})
  BY <1>1 DEF Closed
<1> QED
  BY <1>0, <1>1, <1>2, ChainLeast

-------------------------------------------------------------------------------
(* What the hardware sees of a memory m.                                      *)

Shown(m, x) == Rule(m, x).enable /\ ~Rule(m, x).invalid
InRule(m, b, x) == x \in Chain(m, "rule", b) /\ Shown(m, x)
InIndex(m, b, x) == \E i \in Chain(m, "indx", b) : Index(m, i).tbl = x
Finds(m, r) == \E x \in Entries : /\ InRule(m, DstHash[r], x) /\ Rule(m, x).rule = r
                                  /\ InIndex(m, SrcHash[r], x)
Inst(m) == {r \in Rules : Finds(m, r)}
Held(m) == {h \in Handles : Id(m, h).entry # 0}
Given(m) == [h \in Held(m) |-> Id(m, h).rule]

(* One step of RuleSet, or none.                                              *)
Moves(m, m2) ==
  \/ Inst(m2) = Inst(m) /\ Given(m2) = Given(m)
  \/ \E r \in Rules : r \notin Inst(m) /\ Inst(m2) = Inst(m) \cup {r} /\ Given(m2) = Given(m)
  \/ \E h \in Held(m) : Given(m)[h] \in Inst(m) /\ Inst(m2) = Inst(m) \ {Given(m)[h]} /\ Given(m2) = Given(m)
  \/ \E h \in Handles \ Held(m), r \in Inst(m) :
       /\ \A g \in Held(m) : Given(m)[g] # r
       /\ Inst(m2) = Inst(m)
       /\ Given(m2) = [g \in Held(m) \cup {h} |-> IF g = h THEN r ELSE Given(m)[g]]
  \/ \E h \in Held(m) : /\ Given(m)[h] \notin Inst(m)
                         /\ Inst(m2) = Inst(m)
                         /\ Given(m2) = [g \in Held(m) \ {h} |-> Given(m)[g]]

(* The table between two operations.  Links of rules ...                      *)
Back(m) ==
  \A x \in Entries :
    /\ Rule(m, x).next # 0 => /\ Rule(m, x).enable /\ Rule(m, Rule(m, x).next).enable
                              /\ Rule(m, Rule(m, x).next).prev = x
    /\ ~Rule(m, x).enable => Rule(m, x).next = 0 /\ ~Rule(m, x).invalid
    /\ Rule(m, x).invalid => x \in Base /\ Rule(m, x).next # 0
    /\ Shown(m, x) => \E h \in Handles : Id(m, h).entry = x

(* ... handles, their rules and the indices of these ...                      *)
OwnedBy(m, h, x, r) ==
  /\ r \in Rules /\ Shown(m, x) /\ Rule(m, x).rule = r
  /\ x \in Chain(m, "rule", DstHash[r])
  /\ Rule(m, x).indx \in Chain(m, "indx", SrcHash[r]) /\ Index(m, Rule(m, x).indx).tbl = x
  /\ \A g \in Handles \ {h} : Id(m, g).entry # x /\ Id(m, g).rule # r
Owned(m) ==
  \A h \in Handles :
    /\ Id(m, h).entry = 0 => Id(m, h).rule = NoRule
    /\ Id(m, h).entry # 0 => OwnedBy(m, h, Id(m, h).entry, Id(m, h).rule)

(* ... and links of indices.                                                  *)
Indexed(m) ==
  \A i \in Entries :
    /\ Index(m, i).next # 0 => /\ Index(m, i).tbl # 0 /\ Index(m, Index(m, i).next).tbl # 0
                               /\ Meta(m, Index(m, i).next).prev = i
    /\ Index(m, i).tbl = 0 => Index(m, i).next = 0
    /\ Index(m, i).tbl # 0 => Shown(m, Index(m, i).tbl) /\ Rule(m, Index(m, i).tbl).indx = i
Settled(m) == Mem(m) /\ Back(m) /\ Owned(m) /\ Indexed(m)

(* The memory m with the writes c to come.                                    *)
AddingIn(c) == {w.cell[2] : w \in {c[k] : k \in 1 .. Len(c)} \cap
                              [cell : {"rule"} \X Entries, fields : {[enable |-> TRUE]}]}
NoDangle(m, A) == \A b \in Base : \A x \in Entries : InIndex(m, b, x) => Rule(m, x).enable \/ x \in A
Good(m, c) == /\ Mem(m)
              /\ NoDangle(m, AddingIn(c))
              /\ c = <<>> => Settled(m)
              /\ c # <<>> => Moves(m, Write(m, Head(c)))



IsSeq(ws) == \E S : ws \in Seq(S)

(* Lists of writes: no write and one write.                                   *)
LEMMA SeqUnit == IsSeq(<<>>) /\ \A w : IsSeq(<<w>>)
<1>1. <<>> \in Seq({}) /\ \A w : <<w>> \in Seq({w})
  OBVIOUS
<1> QED
  BY <1>1 DEF IsSeq

(* Two lists of writes are one.                                               *)
LEMMA SeqCat ==
  ASSUME NEW xs, NEW ys, IsSeq(xs), IsSeq(ys)
  PROVE  IsSeq(xs \o ys)
<1>1. PICK A, B : xs \in Seq(A) /\ ys \in Seq(B)
  BY DEF IsSeq
<1>2. xs \in Seq(A \cup B) /\ ys \in Seq(A \cup B)
  BY <1>1
<1>3. xs \o ys \in Seq(A \cup B)
  BY <1>2
<1> QED
  BY <1>3 DEF IsSeq

(* It does not matter which lists are joined first.                           *)
LEMMA SeqAssoc ==
  ASSUME NEW xs, NEW ys, NEW zs, IsSeq(xs), IsSeq(ys), IsSeq(zs)
  PROVE  (xs \o ys) \o zs = xs \o (ys \o zs)
<1>1. PICK A, B, C : xs \in Seq(A) /\ ys \in Seq(B) /\ zs \in Seq(C)
  BY DEF IsSeq
<1> DEFINE S == A \cup B \cup C
<1>2. xs \in Seq(S) /\ ys \in Seq(S) /\ zs \in Seq(S)
  BY <1>1
<1> QED
  BY <1>2

(* The list without writes changes no list.                                   *)
LEMMA SeqEmpty ==
  ASSUME NEW xs, IsSeq(xs)
  PROVE  xs \o <<>> = xs /\ <<>> \o xs = xs
<1>1. PICK A : xs \in Seq(A)
  BY DEF IsSeq
<1> QED
  BY <1>1

(* The first write of a list that starts with w, and the rest.                *)
LEMMA SeqHead ==
  ASSUME NEW w, NEW ys, IsSeq(ys)
  PROVE  /\ IsSeq(<<w>> \o ys) /\ <<w>> \o ys # <<>>
         /\ Head(<<w>> \o ys) = w /\ Tail(<<w>> \o ys) = ys
<1>1. PICK A : ys \in Seq(A)
  BY DEF IsSeq
<1> DEFINE S == A \cup {w}
<1>2. ys \in Seq(S) /\ <<w>> \in Seq(S)
  BY <1>1
<1>3. <<w>> \o ys \in Seq(S)
  BY <1>2
<1> QED
  BY <1>2, <1>3 DEF IsSeq

(* Two writes are a write and a write.                                        *)
LEMMA Pairs ==
  ASSUME NEW v, NEW w
  PROVE  <<v, w>> = <<v>> \o <<w>>
<1> DEFINE s == <<v>> \o <<w>>
           t == <<v, w>>
<1>1. <<v>> \in Seq({v, w}) /\ <<w>> \in Seq({v, w})
  OBVIOUS
<1>2. s \in Seq({v, w}) /\ Len(s) = 2 /\ s[1] = v /\ s[2] = w
  BY <1>1
<1>3. t \in Seq({v, w}) /\ Len(t) = 2 /\ t[1] = v /\ t[2] = w
  OBVIOUS
<1> HIDE DEF s, t
<1>4. \A k \in 1 .. Len(s) : s[k] = t[k]
  BY <1>2, <1>3
<1>5. s = t
  BY <1>2, <1>3, <1>4, SeqEqual
<1> QED
  BY <1>5 DEF s, t

(* Three writes are a write and two.                                          *)
LEMMA Triples ==
  ASSUME NEW u, NEW v, NEW w
  PROVE  <<u, v, w>> = <<u>> \o (<<v>> \o <<w>>)
<1> DEFINE s == <<u>> \o <<v, w>>
           t == <<u, v, w>>
<1>1. <<u>> \in Seq({u, v, w}) /\ <<v, w>> \in Seq({u, v, w})
  OBVIOUS
<1>2. s \in Seq({u, v, w}) /\ Len(s) = 3 /\ s[1] = u /\ s[2] = v /\ s[3] = w
  BY <1>1
<1>3. t \in Seq({u, v, w}) /\ Len(t) = 3 /\ t[1] = u /\ t[2] = v /\ t[3] = w
  OBVIOUS
<1> HIDE DEF s, t
<1>4. \A k \in 1 .. Len(s) : s[k] = t[k]
  BY <1>2, <1>3
<1>5. s = t
  BY <1>2, <1>3, <1>4, SeqEqual
<1> QED
  BY <1>5, Pairs DEF s, t

-------------------------------------------------------------------------------
(* Every memory that the writes of ws lead through from m is good for the     *)
(* writes that are then left.  Z holds these pairs.                           *)
Chases(Z) == \A m, c : <<m, c>> \in Z =>
               /\ IsSeq(c) /\ Good(m, c)
               /\ c # <<>> => <<Write(m, Head(c)), Tail(c)>> \in Z
Safe(m, ws) == \E Z : <<m, ws>> \in Z /\ Chases(Z)

(* What may still happen is all right now ...                                 *)
LEMMA SafeGood ==
  ASSUME NEW m, NEW ws, Safe(m, ws)
  PROVE  IsSeq(ws) /\ Good(m, ws)
  BY DEF Safe, Chases

(* ... and after the next write ...                                           *)
LEMMA SafeStep ==
  ASSUME NEW m, NEW ws, Safe(m, ws), ws # <<>>
  PROVE  Safe(Write(m, Head(ws)), Tail(ws))
  BY DEF Safe, Chases

(* ... a settled table with nothing to do is safe ...                         *)
LEMMA SafeEnd ==
  ASSUME NEW m, Good(m, <<>>)
  PROVE  Safe(m, <<>>)
<1> DEFINE Z == {<<m, <<>> >>}
<1>1. Chases(Z)
  BY SeqUnit DEF Chases
<1>2. <<m, <<>> >> \in Z
  OBVIOUS
<1> HIDE DEF Z
<1> QED
  BY <1>1, <1>2 DEF Safe

(* ... and so is a good one that one write takes to a safe one.               *)
LEMMA SafeCons ==
  ASSUME NEW m, NEW w, NEW c, Good(m, <<w>> \o c), Safe(Write(m, w), c)
  PROVE  Safe(m, <<w>> \o c)
<1>1. PICK Z : <<Write(m, w), c>> \in Z /\ Chases(Z)
  BY DEF Safe
<1> DEFINE ws == <<w>> \o c
           Y == Z \cup {<<m, ws>>}
<1>2. IsSeq(c)
  BY <1>1 DEF Chases
<1>3. IsSeq(ws) /\ ws # <<>> /\ Head(ws) = w /\ Tail(ws) = c
  BY <1>2, SeqHead
<1>4. Good(m, ws)
  OBVIOUS
<1> HIDE DEF ws
<1>5. Chases(Y)
  <2> SUFFICES ASSUME NEW m1, NEW c1, <<m1, c1>> \in Y
               PROVE  /\ IsSeq(c1) /\ Good(m1, c1)
                      /\ c1 # <<>> => <<Write(m1, Head(c1)), Tail(c1)>> \in Y
    BY DEF Chases
  <2>1. CASE <<m1, c1>> \in Z
    BY <1>1, <2>1 DEF Chases
  <2>2. CASE m1 = m /\ c1 = ws
    BY <1>1, <1>3, <1>4, <2>2
  <2> QED
    BY <2>1, <2>2
<1>6. <<m, ws>> \in Y
  OBVIOUS
<1> HIDE DEF Y
<1> QED
  BY <1>5, <1>6 DEF Safe, ws

-------------------------------------------------------------------------------
(* The memory after a list of writes.                                         *)
Upto(m, ws, n, f) == f = [k \in 0 .. n |-> IF k = 0 THEN m ELSE Write(f[k-1], ws[k])]

(* The recursive function of After exists up to any number of writes.         *)
LEMMA UptoExists ==
  ASSUME NEW m, NEW ws, NEW n \in Nat
  PROVE  \E f : Upto(m, ws, n, f)
<1> DEFINE S == {k \in Nat : \E f : Upto(m, ws, k, f)}
<1>1. 0 \in S
  <2>1. Upto(m, ws, 0, [k \in 0 .. 0 |-> m])
    BY DEF Upto
  <2> QED
    BY <2>1
<1>2. ASSUME NEW k \in Nat, k \in S PROVE k + 1 \in S
  <2>1. PICK f : Upto(m, ws, k, f)
    BY <1>2
  <2> DEFINE g == [j \in 0 .. k + 1 |-> IF j = k + 1 THEN Write(f[k], ws[k+1]) ELSE f[j]]
  <2>2. \A j \in 0 .. k : f[j] = IF j = 0 THEN m ELSE Write(f[j-1], ws[j])
    BY <2>1 DEF Upto
  <2>3. g[k + 1] = Write(f[k], ws[k+1]) /\ \A j \in 0 .. k : g[j] = f[j]
    OBVIOUS
  <2>4. ASSUME NEW j \in 0 .. k + 1
        PROVE  g[j] = IF j = 0 THEN m ELSE Write(g[j-1], ws[j])
    <3>1. j = k + 1 \/ j \in 0 .. k
      OBVIOUS
    <3>2. j # 0 => j - 1 \in 0 .. k
      OBVIOUS
    <3> HIDE DEF g
    <3> QED
      BY <2>2, <2>3, <3>1, <3>2
  <2>5. g = [j \in 0 .. k + 1 |-> g[j]]
    OBVIOUS
  <2> HIDE DEF g
  <2>6. Upto(m, ws, k + 1, g)
    BY <2>4, <2>5 DEF Upto
  <2> QED
    BY <2>6
<1> HIDE DEF S
<1>3. Nat \subseteq S
  BY <1>1, <1>2, NaturalSet
<1> QED
  BY <1>3 DEF S

(* What After is.                                                             *)
LEMMA AfterUpto ==
  ASSUME NEW m, NEW ws, IsSeq(ws)
  PROVE  \E f : /\ After(m, ws) = f[Len(ws)]
                /\ \A j \in 0 .. Len(ws) : f[j] = IF j = 0 THEN m ELSE Write(f[j-1], ws[j])
<1> DEFINE f == CHOOSE f : Upto(m, ws, Len(ws), f)
<1>1. Len(ws) \in Nat
  BY DEF IsSeq
<1>2. Upto(m, ws, Len(ws), f)
  BY <1>1, UptoExists
<1>3. After(m, ws) = f[Len(ws)]
  BY DEF After, Upto
<1> HIDE DEF f
<1>4. \A j \in 0 .. Len(ws) : f[j] = IF j = 0 THEN m ELSE Write(f[j-1], ws[j])
  BY <1>2 DEF Upto
<1> QED
  BY <1>3, <1>4

(* Without writes the memory stays ...                                        *)
LEMMA AfterNone ==
  ASSUME NEW m
  PROVE  After(m, <<>>) = m
<1>1. IsSeq(<<>>) /\ Len(<<>>) = 0
  BY SeqUnit
<1> QED
  BY <1>1, AfterUpto

(* ... and one more write is done to what the others left.                    *)
LEMMA AfterCons ==
  ASSUME NEW m, NEW ws, IsSeq(ws), NEW w
  PROVE  After(m, ws \o <<w>>) = Write(After(m, ws), w)
<1> DEFINE vs == ws \o <<w>>
<1>1. /\ IsSeq(vs) /\ Len(ws) \in Nat /\ Len(vs) = Len(ws) + 1
      /\ vs[Len(ws) + 1] = w /\ \A k \in 1 .. Len(ws) : vs[k] = ws[k]
  <2>1. PICK A : ws \in Seq(A)
    BY DEF IsSeq
  <2>2. ws \in Seq(A \cup {w}) /\ <<w>> \in Seq(A \cup {w})
    BY <2>1
  <2>3. vs \in Seq(A \cup {w})
    BY <2>2
  <2> QED
    BY <2>2, <2>3 DEF IsSeq
<1> HIDE DEF vs
<1>2. PICK f : /\ After(m, ws) = f[Len(ws)]
               /\ \A j \in 0 .. Len(ws) : f[j] = IF j = 0 THEN m ELSE Write(f[j-1], ws[j])
  BY AfterUpto
<1>3. PICK g : /\ After(m, vs) = g[Len(vs)]
               /\ \A j \in 0 .. Len(vs) : g[j] = IF j = 0 THEN m ELSE Write(g[j-1], vs[j])
  BY <1>1, AfterUpto
<1> DEFINE S == {k \in Nat : k <= Len(ws) => f[k] = g[k]}
<1>4. 0 \in S
  BY <1>1, <1>2, <1>3
<1>5. ASSUME NEW k \in Nat, k \in S PROVE k + 1 \in S
  <2> SUFFICES ASSUME k + 1 <= Len(ws) PROVE f[k + 1] = g[k + 1]
    OBVIOUS
  <2>1. k + 1 \in 0 .. Len(ws) /\ k + 1 \in 0 .. Len(vs) /\ k + 1 \in 1 .. Len(ws) /\ (k + 1) - 1 = k /\ k + 1 # 0
    BY <1>1
  <2>2. f[k + 1] = Write(f[k], ws[k + 1])
    BY <1>2, <2>1
  <2>3. g[k + 1] = Write(g[k], vs[k + 1])
    BY <1>3, <2>1
  <2>4. f[k] = g[k]
    BY <1>1, <1>5
  <2> QED
    BY <1>1, <2>1, <2>2, <2>3, <2>4
<1> HIDE DEF S
<1>6. Nat \subseteq S
  BY <1>4, <1>5, NaturalSet
<1>7. f[Len(ws)] = g[Len(ws)]
  BY <1>1, <1>6 DEF S
<1>8. g[Len(ws) + 1] = Write(g[Len(ws)], vs[Len(ws) + 1])
  <2>1. Len(ws) + 1 \in 0 .. Len(vs) /\ (Len(ws) + 1) - 1 = Len(ws) /\ Len(ws) + 1 # 0
    BY <1>1
  <2> QED
    BY <1>3, <2>1
<1> QED
  BY <1>1, <1>2, <1>3, <1>7, <1>8 DEF vs

-------------------------------------------------------------------------------
(* A part xs of an operation takes the memory from m to m2, safely whatever   *)
(* safe rest follows (that still enables x, unless x is 0).                   *)
Fits(x, c) == x = 0 \/ x \in AddingIn(c)
Through(m, xs, m2, x) ==
  /\ IsSeq(xs)
  /\ \A c : Fits(x, c) /\ Safe(m2, c) => Safe(m, xs \o c)
  /\ \A n, ys : IsSeq(ys) /\ After(n, ys) = m => After(n, ys \o xs) = m2

(* Writes in front leave what is still to be enabled.                         *)
LEMMA AddingCat ==
  ASSUME NEW xs, NEW c, IsSeq(xs), IsSeq(c)
  PROVE  AddingIn(c) \subseteq AddingIn(xs \o c)
<1> DEFINE d == xs \o c
<1>1. PICK A, B : xs \in Seq(A) /\ c \in Seq(B)
  BY DEF IsSeq
<1>2. xs \in Seq(A \cup B) /\ c \in Seq(A \cup B)
  BY <1>1
<1>3. ASSUME NEW k \in 1 .. Len(c) PROVE \E j \in 1 .. Len(d) : d[j] = c[k]
  <2>1. Len(xs) + k \in 1 .. Len(d) /\ d[Len(xs) + k] = c[k]
    BY <1>2
  <2> QED
    BY <2>1
<1> HIDE DEF d
<1>4. {c[k] : k \in 1 .. Len(c)} \subseteq {d[k] : k \in 1 .. Len(d)}
  BY <1>3, Zenon
<1>5. AddingIn(c) \subseteq AddingIn(d)
  BY <1>4, Zenon DEF AddingIn
<1> QED
  BY <1>5 DEF d

(* The write that enables x is one of those that enable.                      *)
LEMMA AddingFirst ==
  ASSUME NEW x \in Entries, NEW c, IsSeq(c)
  PROVE  x \in AddingIn(<<W("rule", x, [enable |-> TRUE])>> \o c)
<1> DEFINE w == W("rule", x, [enable |-> TRUE])
           d == <<w>> \o c
<1>1. PICK A : c \in Seq(A)
  BY DEF IsSeq
<1>2. c \in Seq(A \cup {w}) /\ <<w>> \in Seq(A \cup {w})
  BY <1>1
<1>3. 1 \in 1 .. Len(d) /\ d[1] = w
  BY <1>2
<1>4. w \in [cell : {"rule"} \X Entries, fields : {[enable |-> TRUE]}] /\ w.cell[2] = x
  BY DEF W
<1> HIDE DEF d, w
<1>5. w \in {d[k] : k \in 1 .. Len(d)}
  BY <1>3
<1>6. w.cell[2] \in AddingIn(d)
  BY <1>4, <1>5 DEF AddingIn
<1> QED
  BY <1>4, <1>6 DEF d, w

(* No write takes a memory to itself.                                         *)
LEMMA ThroughNone ==
  ASSUME NEW m, NEW x
  PROVE  Through(m, <<>>, m, x)
<1>1. ASSUME NEW c, Safe(m, c) PROVE Safe(m, <<>> \o c)
  BY <1>1, SafeGood, SeqEmpty
<1>2. ASSUME NEW n, NEW ys, IsSeq(ys), After(n, ys) = m PROVE After(n, ys \o <<>>) = m
  BY <1>2, SeqEmpty
<1> QED
  BY <1>1, <1>2, SeqUnit DEF Through

(* One write is a way through, if it is one step of RuleSet and the only      *)
(* index that may dangle is of x.                                             *)
LEMMA ThroughStep ==
  ASSUME NEW m, NEW w, NEW x, Mem(m), NoDangle(m, {x}), Moves(m, Write(m, w))
  PROVE  Through(m, <<w>>, Write(m, w), x)
<1>1. ASSUME NEW c, Fits(x, c), Safe(Write(m, w), c) PROVE Safe(m, <<w>> \o c)
  <2>1. IsSeq(c) /\ IsSeq(<<w>>)
    BY <1>1, SafeGood, SeqUnit
  <2>2. <<w>> \o c # <<>> /\ Head(<<w>> \o c) = w
    BY <2>1, SeqHead
  <2>3. x # 0 => x \in AddingIn(<<w>> \o c)
    BY <1>1, <2>1, AddingCat DEF Fits
  <2>4. 0 \notin Entries
    BY TableAssumption DEF Entries, Base, Expn
  <2>5. NoDangle(m, AddingIn(<<w>> \o c))
    BY <2>3, <2>4 DEF NoDangle
  <2>6. Good(m, <<w>> \o c)
    BY <2>2, <2>5 DEF Good
  <2> QED
    BY <1>1, <2>6, SafeCons
<1> QED
  BY <1>1, AfterCons, SeqUnit DEF Through

(* Two ways through are one.                                                  *)
LEMMA ThroughCat ==
  ASSUME NEW m, NEW xs, NEW m2, NEW ys, NEW m3, NEW x, Through(m, xs, m2, x), Through(m2, ys, m3, x)
  PROVE  Through(m, xs \o ys, m3, x)
<1>1. IsSeq(xs) /\ IsSeq(ys) /\ IsSeq(xs \o ys)
  BY SeqCat DEF Through
<1>2. ASSUME NEW c, Fits(x, c), Safe(m3, c) PROVE Safe(m, (xs \o ys) \o c)
  <2>1. Safe(m2, ys \o c) /\ IsSeq(c)
    <3>1. IsSeq(c)
      BY <1>2, SafeGood
    <3> QED
      BY <1>2, <3>1 DEF Through
  <2>2. Fits(x, ys \o c)
    BY <1>1, <1>2, <2>1, AddingCat DEF Fits
  <2>3. Safe(m, xs \o (ys \o c))
    BY <2>1, <2>2 DEF Through
  <2>4. (xs \o ys) \o c = xs \o (ys \o c)
    BY <1>1, <2>1, SeqAssoc
  <2> QED
    BY <2>3, <2>4
<1>3. ASSUME NEW n, NEW zs, IsSeq(zs), After(n, zs) = m PROVE After(n, zs \o (xs \o ys)) = m3
  <2>1. After(n, zs \o xs) = m2 /\ IsSeq(zs \o xs)
    BY <1>1, <1>3, SeqCat DEF Through
  <2>2. After(n, (zs \o xs) \o ys) = m3
    BY <2>1 DEF Through
  <2>3. (zs \o xs) \o ys = zs \o (xs \o ys)
    BY <1>1, <1>3, SeqAssoc
  <2> QED
    BY <2>2, <2>3
<1> QED
  BY <1>1, <1>2, <1>3 DEF Through

-------------------------------------------------------------------------------
(* Two memories in which the hardware sees the same, but for the entry x.     *)
Off(m, m2, x) ==
  \A b \in Base : \A y \in Entries \ {x} :
    /\ InRule(m2, b, y) <=> InRule(m, b, y)
    /\ InRule(m, b, y) => Rule(m2, y).rule = Rule(m, y).rule
    /\ InIndex(m2, b, y) <=> InIndex(m, b, y)
    /\ InIndex(m, b, y) => Rule(m2, y).enable = Rule(m, y).enable
Hidden(m, x) == ~Shown(m, x) \/ \A b \in Base : ~InIndex(m, b, x)

(* Entry 0 is none, and the two tables share no entry.                        *)
LEMMA Positions == /\ Base \subseteq Entries /\ Expn \subseteq Entries /\ 0 \notin Entries /\ Entries \subseteq Nat
                   /\ Base \cap Expn = {}
  BY TableAssumption DEF Entries, Base, Expn

(* Links lead into the expansion table, indices to entries.                   *)
LEMMA MemLinks ==
  ASSUME NEW m, Mem(m)
  PROVE  /\ Links(m, "rule") /\ Links(m, "indx")
         /\ \A x \in Entries : NextOf(m, "rule", x) = Rule(m, x).next /\ Rule(m, x).next \in Expn \cup {0}
         /\ \A x \in Entries : NextOf(m, "indx", x) = Index(m, x).next /\ Index(m, x).next \in Expn \cup {0}
         /\ \A x \in Entries : Index(m, x).tbl \in Entries \cup {0}
  BY DEF Mem, Links, NextOf, Rule, Index, RuleRec, IndexRec

(* A chain lies in the tables.                                                *)
LEMMA ChainIn ==
  ASSUME NEW m, Mem(m), NEW b \in Entries, NEW t \in {"rule", "indx"}
  PROVE  Chain(m, t, b) \subseteq Entries /\ b \in Chain(m, t, b) /\ Closed(m, t, Chain(m, t, b))
<1>1. Links(m, t)
  BY MemLinks
<1>2. /\ b \in Chain(m, t, b) /\ Chain(m, t, b) \subseteq {b} \cup Expn
      /\ Closed(m, t, Chain(m, t, b))
  BY <1>1, ChainClosed
<1> QED
  BY <1>2, Positions

(* Two changes off everything but x are one.                                  *)
LEMMA OffTrans ==
  ASSUME NEW m, NEW m2, NEW m3, NEW x, Off(m, m2, x), Off(m2, m3, x)
  PROVE  Off(m, m3, x)
  BY DEF Off

(* With x hidden before and after, a change off everything but x changes no   *)
(* rule the hardware finds.                                                   *)
LEMMA OffInst ==
  ASSUME NEW m, NEW m2, NEW x, Off(m, m2, x), Hidden(m, x), Hidden(m2, x)
  PROVE  Inst(m2) = Inst(m)
<1>1. ASSUME NEW r \in Rules PROVE Finds(m2, r) <=> Finds(m, r)
  <2>1. DstHash[r] \in Base /\ SrcHash[r] \in Base
    BY TableAssumption
  <2>2. /\ Finds(m, r) => \E y \in Entries \ {x} : InRule(m, DstHash[r], y) /\ Rule(m, y).rule = r /\ InIndex(m, SrcHash[r], y)
        /\ Finds(m2, r) => \E y \in Entries \ {x} : InRule(m2, DstHash[r], y) /\ Rule(m2, y).rule = r /\ InIndex(m2, SrcHash[r], y)
    BY <2>1 DEF Finds, Hidden, InRule
  <2> QED
    BY <2>1, <2>2 DEF Off, Finds
<1> QED
  BY <1>1 DEF Inst

(* Such a change leaves no index dangling but that of x.                      *)
LEMMA OffDangle ==
  ASSUME NEW m, NEW m2, NEW x, Off(m, m2, x), NoDangle(m, {x})
  PROVE  /\ NoDangle(m2, {x})
         /\ (\A b \in Base : ~InIndex(m2, b, x)) => \A A : NoDangle(m2, A)
  BY DEF Off, NoDangle

(* The same handles.                                                          *)
LEMMA GivenSame ==
  ASSUME NEW m, NEW m2, \A h \in Handles : Id(m2, h) = Id(m, h)
  PROVE  Held(m2) = Held(m) /\ Given(m2) = Given(m)
<1>1. Held(m2) = Held(m)
  BY DEF Held
<1> QED
  BY <1>1 DEF Given, Held

(* A change off everything but x, hidden before and after, is no step of      *)
(* RuleSet.                                                                   *)
LEMMA QuietMove ==
  ASSUME NEW m, NEW m2, NEW x, Off(m, m2, x), Hidden(m, x), Hidden(m2, x),
         \A h \in Handles : Id(m2, h) = Id(m, h)
  PROVE  Moves(m, m2)
  BY OffInst, GivenSame DEF Moves

-------------------------------------------------------------------------------
(* The links of both tables unchanged.                                        *)
LEMMA SameLinks ==
  ASSUME NEW m, NEW m2, Mem(m), Mem(m2),
         \A y \in Entries : Rule(m2, y).next = Rule(m, y).next,
         NEW b \in Entries
  PROVE  Chain(m2, "rule", b) = Chain(m, "rule", b)
<1>1. \A y \in Chain(m, "rule", b) : NextOf(m2, "rule", y) = NextOf(m, "rule", y)
  BY ChainIn, MemLinks
<1> QED
  BY <1>1, ChainSame, MemLinks

(* The same for the indices.                                                  *)
LEMMA SameIndexLinks ==
  ASSUME NEW m, NEW m2, Mem(m), Mem(m2),
         \A y \in Entries : Index(m2, y).next = Index(m, y).next,
         NEW b \in Entries
  PROVE  Chain(m2, "indx", b) = Chain(m, "indx", b)
<1>1. \A y \in Chain(m, "indx", b) : NextOf(m2, "indx", y) = NextOf(m, "indx", y)
  BY ChainIn, MemLinks
<1> QED
  BY <1>1, ChainSame, MemLinks

(* A write that the hardware does not see.                                    *)
Alike(m, m2) ==
  /\ \A y \in Entries : /\ Rule(m2, y).next = Rule(m, y).next /\ Rule(m2, y).rule = Rule(m, y).rule
                        /\ Rule(m2, y).enable = Rule(m, y).enable /\ Rule(m2, y).invalid = Rule(m, y).invalid
  /\ \A y \in Entries : Index(m2, y) = Index(m, y)

(* With the same links, flags, rules and indices the hardware sees the same.  *)
LEMMA AlikeOff ==
  ASSUME NEW m, NEW m2, Mem(m), Mem(m2), Alike(m, m2), NEW x \in Entries
  PROVE  /\ Off(m, m2, x) /\ (Hidden(m2, x) <=> Hidden(m, x)) /\ (Shown(m2, x) <=> Shown(m, x))
         /\ \A b \in Base : InIndex(m2, b, x) <=> InIndex(m, b, x)
         /\ \A b \in Base : /\ Chain(m2, "rule", b) = Chain(m, "rule", b)
                            /\ Chain(m2, "indx", b) = Chain(m, "indx", b)
<1>1. \A b \in Base : /\ Chain(m2, "rule", b) = Chain(m, "rule", b)
                      /\ Chain(m2, "indx", b) = Chain(m, "indx", b)
  BY SameLinks, SameIndexLinks, Positions DEF Alike
<1>2. \A y \in Entries : Shown(m2, y) <=> Shown(m, y)
  BY DEF Alike, Shown
<1>3. \A b \in Base : \A y \in Entries : InIndex(m2, b, y) <=> InIndex(m, b, y)
  BY <1>1, ChainIn, Positions DEF Alike, InIndex
<1>4. \A b \in Base : \A y \in Entries : InRule(m2, b, y) <=> InRule(m, b, y)
  BY <1>1, <1>2 DEF InRule
<1> QED
  BY <1>1, <1>2, <1>3, <1>4 DEF Off, Hidden, Alike

(* Changes of the rule table: in the entry x itself ...                       *)
LEMMA RuleOff ==
  ASSUME NEW m, NEW m2, Mem(m), Mem(m2), NEW x \in Entries,
         \A y \in Entries \ {x} : Rule(m2, y) = Rule(m, y),
         \A y \in Entries : Index(m2, y) = Index(m, y),
         Rule(m2, x).next = Rule(m, x).next \/ \A b \in Base : x \notin Chain(m, "rule", b)
  PROVE  /\ Off(m, m2, x)
         /\ \A b \in Base : /\ Chain(m2, "rule", b) = Chain(m, "rule", b)
                            /\ Chain(m2, "indx", b) = Chain(m, "indx", b)
                            /\ InIndex(m2, b, x) <=> InIndex(m, b, x)
<1>1. ASSUME NEW b \in Base PROVE Chain(m2, "rule", b) = Chain(m, "rule", b)
  <2>1. Chain(m, "rule", b) \subseteq Entries
    BY ChainIn, Positions
  <2>2. \A y \in Chain(m, "rule", b) : NextOf(m2, "rule", y) = NextOf(m, "rule", y)
    BY <2>1, MemLinks
  <2> QED
    BY <2>2, ChainSame, MemLinks, Positions
<1>2. ASSUME NEW b \in Base PROVE Chain(m2, "indx", b) = Chain(m, "indx", b)
  BY SameIndexLinks, Positions
<1>3. \A b \in Base : \A y \in Entries : InIndex(m2, b, y) <=> InIndex(m, b, y)
  BY <1>2, ChainIn, Positions DEF InIndex
<1> QED
  BY <1>1, <1>2, <1>3 DEF Off, InRule, Shown

(* ... by linking it ...                                                      *)
LEMMA LinkOff ==
  ASSUME NEW m, NEW m2, Mem(m), Mem(m2), NEW x \in Expn, NEW l \in Entries,
         Rule(m, l).next = 0, Rule(m, x).next = 0, l # x,
         Rule(m2, l) = [Rule(m, l) EXCEPT !.next = x],
         \A y \in Entries \ {l} : Rule(m2, y) = Rule(m, y),
         \A y \in Entries : Index(m2, y) = Index(m, y)
  PROVE  /\ Off(m, m2, x)
         /\ \A b \in Base : /\ Chain(m2, "rule", b) = Chain(m, "rule", b) \cup {y \in {x} : l \in Chain(m, "rule", b)}
                            /\ Chain(m2, "indx", b) = Chain(m, "indx", b)
                            /\ InIndex(m2, b, x) <=> InIndex(m, b, x)
<1>0. /\ x \in Entries /\ Rule(m2, l).next = x /\ Rule(m2, l).enable = Rule(m, l).enable
      /\ Rule(m2, l).invalid = Rule(m, l).invalid /\ Rule(m2, l).rule = Rule(m, l).rule
  BY Positions DEF Mem, RuleRec
<1>1. ASSUME NEW b \in Base
      PROVE  Chain(m2, "rule", b) = Chain(m, "rule", b) \cup {y \in {x} : l \in Chain(m, "rule", b)}
  <2>1. \A y \in Entries \ {l} : NextOf(m2, "rule", y) = NextOf(m, "rule", y)
    BY MemLinks
  <2>2. Links(m, "rule") /\ Links(m2, "rule")
    BY MemLinks
  <2>3. NextOf(m2, "rule", l) = Rule(m2, l).next
    BY MemLinks
  <2>4. NextOf(m, "rule", l) = 0 /\ NextOf(m, "rule", x) = 0
    BY <1>0, MemLinks
  <2>5. NextOf(m2, "rule", l) = x
    BY <1>0, <2>3
  <2> QED
    BY <2>1, <2>2, <2>4, <2>5, ChainAppend
<1>2. ASSUME NEW b \in Base PROVE Chain(m2, "indx", b) = Chain(m, "indx", b)
  BY SameIndexLinks, Positions
<1>3. \A b \in Base : \A y \in Entries : InIndex(m2, b, y) <=> InIndex(m, b, y)
  BY <1>2, ChainIn, Positions DEF InIndex
<1>4. \A y \in Entries : /\ Shown(m2, y) <=> Shown(m, y)
                         /\ Rule(m2, y).rule = Rule(m, y).rule /\ Rule(m2, y).enable = Rule(m, y).enable
  BY <1>0 DEF Shown
<1> QED
  BY <1>0, <1>1, <1>2, <1>3, <1>4 DEF Off, InRule

(* ... and by unlinking it.                                                   *)
LEMMA UnlinkOff ==
  ASSUME NEW m, NEW m2, Mem(m), Mem(m2), NEW x \in Expn, NEW p \in Entries, p # x,
         Rule(m, p).next = x, \A y \in Entries : Rule(m, y).next = x => y = p,
         Rule(m2, p) = [Rule(m, p) EXCEPT !.next = Rule(m, x).next],
         \A y \in Entries \ {p} : Rule(m2, y) = Rule(m, y),
         \A y \in Entries : Index(m2, y) = Index(m, y)
  PROVE  /\ Off(m, m2, x)
         /\ \A b \in Base : /\ Chain(m2, "rule", b) = Chain(m, "rule", b) \ {x}
                            /\ Chain(m2, "indx", b) = Chain(m, "indx", b)
                            /\ InIndex(m2, b, x) <=> InIndex(m, b, x)
<1>0. /\ x \in Entries /\ Rule(m2, p).next = Rule(m, x).next /\ Rule(m2, p).enable = Rule(m, p).enable
      /\ Rule(m2, p).invalid = Rule(m, p).invalid /\ Rule(m2, p).rule = Rule(m, p).rule
  BY Positions DEF Mem, RuleRec
<1>1. ASSUME NEW b \in Base
      PROVE  Chain(m2, "rule", b) = Chain(m, "rule", b) \ {x}
  <2>1. \A y \in Entries \ {p} : NextOf(m2, "rule", y) = NextOf(m, "rule", y)
    BY MemLinks
  <2>2. Links(m, "rule") /\ Links(m2, "rule")
    BY MemLinks
  <2>3. NextOf(m2, "rule", p) = NextOf(m, "rule", x)
    BY <1>0 DEF NextOf, Rule
  <2>4. NextOf(m, "rule", p) = x
    BY <1>0, MemLinks
  <2>5. \A y \in Entries : NextOf(m, "rule", y) = x => y = p
    BY <1>0, MemLinks
  <2> QED
    BY <2>1, <2>2, <2>3, <2>4, <2>5, ChainUnlink
<1>2. ASSUME NEW b \in Base PROVE Chain(m2, "indx", b) = Chain(m, "indx", b)
  BY SameIndexLinks, Positions
<1>3. \A b \in Base : \A y \in Entries : InIndex(m2, b, y) <=> InIndex(m, b, y)
  BY <1>2, ChainIn, Positions DEF InIndex
<1>4. \A y \in Entries : /\ Shown(m2, y) <=> Shown(m, y)
                         /\ Rule(m2, y).rule = Rule(m, y).rule /\ Rule(m2, y).enable = Rule(m, y).enable
  BY <1>0 DEF Shown
<1> QED
  BY <1>0, <1>1, <1>2, <1>3, <1>4 DEF Off, InRule

(* Changes of the index table: in an entry for x or for none, or in one that  *)
(* lies in no chain ...                                                       *)
LEMMA IndexOff ==
  ASSUME NEW m, NEW m2, Mem(m), Mem(m2), NEW x \in Entries, NEW i \in Entries,
         \A y \in Entries : Rule(m2, y) = Rule(m, y),
         \A j \in Entries \ {i} : Index(m2, j) = Index(m, j),
         \/ \A b \in Base : i \notin Chain(m, "indx", b)
         \/ /\ Index(m2, i).next = Index(m, i).next
            /\ Index(m, i).tbl \in {0, x} /\ Index(m2, i).tbl \in {0, x}
  PROVE  /\ Off(m, m2, x)
         /\ \A b \in Base : /\ Chain(m2, "rule", b) = Chain(m, "rule", b)
                            /\ Chain(m2, "indx", b) = Chain(m, "indx", b)
<1>1. ASSUME NEW b \in Base PROVE Chain(m2, "rule", b) = Chain(m, "rule", b)
  BY SameLinks, Positions
<1>2. ASSUME NEW b \in Base
      PROVE  Chain(m2, "indx", b) = Chain(m, "indx", b) /\ Chain(m, "indx", b) \subseteq Entries
  <2>1. Chain(m, "indx", b) \subseteq Entries
    BY ChainIn, Positions
  <2>2. \A y \in Chain(m, "indx", b) : NextOf(m2, "indx", y) = NextOf(m, "indx", y)
    BY <2>1, MemLinks
  <2> QED
    BY <2>1, <2>2, ChainSame, MemLinks, Positions
<1>3. ASSUME NEW b \in Base, NEW y \in Entries \ {x}
      PROVE  InIndex(m2, b, y) <=> InIndex(m, b, y)
  BY <1>2, Positions DEF InIndex
<1> QED
  BY <1>1, <1>2, <1>3 DEF Off, InRule, Shown

(* ... in an entry for x that takes over the one it is linked to ...          *)
LEMMA TakeOverOff ==
  ASSUME NEW m, NEW m2, Mem(m), Mem(m2), NEW x \in Entries, NEW i \in Entries, NEW n \in Entries,
         \A y \in Entries : Rule(m2, y) = Rule(m, y),
         \A j \in Entries \ {i} : Index(m2, j) = Index(m, j),
         Index(m, i).tbl = x, Index(m, i).next = n, i # n,
         Index(m2, i).next = n, Index(m2, i).tbl = Index(m, n).tbl
  PROVE  /\ Off(m, m2, x)
         /\ \A b \in Base : /\ Chain(m2, "rule", b) = Chain(m, "rule", b)
                            /\ Chain(m2, "indx", b) = Chain(m, "indx", b)
<1>1. ASSUME NEW b \in Base PROVE Chain(m2, "rule", b) = Chain(m, "rule", b)
  BY SameLinks, Positions
<1>2. ASSUME NEW b \in Base
      PROVE  Chain(m2, "indx", b) = Chain(m, "indx", b) /\ Chain(m, "indx", b) \subseteq Entries
  <2>1. Chain(m, "indx", b) \subseteq Entries
    BY ChainIn, Positions
  <2>2. \A y \in Chain(m, "indx", b) : NextOf(m2, "indx", y) = NextOf(m, "indx", y)
    BY <2>1, MemLinks
  <2> QED
    BY <2>1, <2>2, ChainSame, MemLinks, Positions
<1>3. ASSUME NEW b \in Base, NEW y \in Entries \ {x}
      PROVE  InIndex(m2, b, y) <=> InIndex(m, b, y)
  <2>1. i \in Chain(m, "indx", b) => n \in Chain(m, "indx", b)
    <3>1. Closed(m, "indx", Chain(m, "indx", b)) /\ NextOf(m, "indx", i) = n
      BY ChainIn, MemLinks, Positions
    <3> QED
      BY <3>1, Positions DEF Closed
  <2>2. InIndex(m, b, y) => InIndex(m2, b, y)
    BY <1>2 DEF InIndex
  <2>3. InIndex(m2, b, y) => InIndex(m, b, y)
    BY <1>2, <2>1 DEF InIndex
  <2> QED
    BY <2>2, <2>3
<1> QED
  BY <1>1, <1>2, <1>3 DEF Off, InRule, Shown

(* ... by linking an entry for x ...                                          *)
LEMMA IndexLinkOff ==
  ASSUME NEW m, NEW m2, Mem(m), Mem(m2), NEW x \in Entries, NEW i \in Expn, NEW l \in Entries,
         Index(m, l).next = 0, Index(m, i).next = 0, l # i, Index(m, i).tbl = x,
         Index(m2, l) = [Index(m, l) EXCEPT !.next = i],
         \A y \in Entries \ {l} : Index(m2, y) = Index(m, y),
         \A y \in Entries : Rule(m2, y) = Rule(m, y)
  PROVE  /\ Off(m, m2, x)
         /\ \A b \in Base : /\ Chain(m2, "indx", b) = Chain(m, "indx", b) \cup {y \in {i} : l \in Chain(m, "indx", b)}
                            /\ Chain(m2, "rule", b) = Chain(m, "rule", b)
<1>0. /\ i \in Entries /\ Index(m2, l).next = i
      /\ \A j \in Entries : Index(m2, j).tbl = Index(m, j).tbl
  BY Positions DEF Mem, IndexRec
<1>1. ASSUME NEW b \in Base
      PROVE  /\ Chain(m2, "indx", b) = Chain(m, "indx", b) \cup {y \in {i} : l \in Chain(m, "indx", b)}
             /\ Chain(m, "indx", b) \subseteq Entries
  <2>1. \A y \in Entries \ {l} : NextOf(m2, "indx", y) = NextOf(m, "indx", y)
    BY MemLinks
  <2>2. /\ NextOf(m2, "indx", l) = i /\ NextOf(m, "indx", l) = 0 /\ NextOf(m, "indx", i) = 0
        /\ Links(m, "indx") /\ Links(m2, "indx")
    BY <1>0, MemLinks
  <2> QED
    BY <2>1, <2>2, ChainAppend, ChainIn, Positions
<1>2. ASSUME NEW b \in Base PROVE Chain(m2, "rule", b) = Chain(m, "rule", b)
  BY SameLinks, Positions
<1>3. ASSUME NEW b \in Base, NEW y \in Entries \ {x}
      PROVE  InIndex(m2, b, y) <=> InIndex(m, b, y)
  BY <1>0, <1>1 DEF InIndex
<1> QED
  BY <1>1, <1>2, <1>3 DEF Off, InRule, Shown

(* ... and by unlinking one that is for x, or for the same as the one before. *)
LEMMA IndexUnlinkOff ==
  ASSUME NEW m, NEW m2, Mem(m), Mem(m2), NEW x \in Entries, NEW f \in Expn, NEW p \in Entries, p # f,
         Index(m, p).next = f, \A y \in Entries : Index(m, y).next = f => y = p,
         Index(m, f).tbl = x \/ Index(m, f).tbl = Index(m, p).tbl,
         Index(m2, p).next = Index(m, f).next, Index(m2, p).tbl = Index(m, p).tbl,
         \A y \in Entries \ {p} : Index(m2, y) = Index(m, y),
         \A y \in Entries : Rule(m2, y) = Rule(m, y)
  PROVE  /\ Off(m, m2, x)
         /\ \A b \in Base : /\ Chain(m2, "indx", b) = Chain(m, "indx", b) \ {f}
                            /\ Chain(m2, "rule", b) = Chain(m, "rule", b)
<1>0. f \in Entries /\ \A j \in Entries : Index(m2, j).tbl = Index(m, j).tbl
  BY Positions
<1>1. ASSUME NEW b \in Base
      PROVE  Chain(m2, "indx", b) = Chain(m, "indx", b) \ {f}
  <2>1. \A y \in Entries \ {p} : NextOf(m2, "indx", y) = NextOf(m, "indx", y)
    BY MemLinks
  <2>2. Links(m, "indx") /\ Links(m2, "indx")
    BY MemLinks
  <2>3. NextOf(m2, "indx", p) = NextOf(m, "indx", f)
    BY <1>0 DEF NextOf, Index
  <2>4. NextOf(m, "indx", p) = f
    BY <1>0, MemLinks
  <2>5. \A y \in Entries : NextOf(m, "indx", y) = f => y = p
    BY <1>0, MemLinks
  <2> QED
    BY <2>1, <2>2, <2>3, <2>4, <2>5, ChainUnlink
<1>2. ASSUME NEW b \in Base PROVE Chain(m2, "rule", b) = Chain(m, "rule", b)
  BY SameLinks, Positions
<1>3. ASSUME NEW b \in Base, NEW y \in Entries \ {x}
      PROVE  InIndex(m2, b, y) <=> InIndex(m, b, y)
  <2> DEFINE C == Chain(m, "indx", b)
  <2>1. C \subseteq Entries /\ (f \in C => p \in C)
    <3>1. C \subseteq Entries
      BY ChainIn, Positions
    <3>2. ASSUME f \in C PROVE p \in C
      <4>1. PICK z \in C : z # f /\ NextOf(m, "indx", z) = f
        BY <3>2, ChainPred, MemLinks
      <4>2. z = p
        BY <3>1, <4>1, MemLinks
      <4> QED
        BY <4>1, <4>2
    <3> QED
      BY <3>1, <3>2
  <2>2. Chain(m2, "indx", b) = C \ {f}
    BY <1>1
  <2> HIDE DEF C
  <2>3. InIndex(m2, b, y) => InIndex(m, b, y)
    BY <1>0, <2>1, <2>2 DEF InIndex, C
  <2>4. ASSUME InIndex(m, b, y) PROVE InIndex(m2, b, y)
    <3>1. PICK j \in C : Index(m, j).tbl = y
      BY <2>4 DEF InIndex, C
    <3>2. CASE j # f
      BY <1>0, <2>1, <2>2, <3>1, <3>2 DEF InIndex
    <3>3. CASE j = f
      BY <1>0, <2>1, <2>2, <3>1, <3>3 DEF InIndex
    <3> QED
      BY <3>2, <3>3
  <2> QED
    BY <2>3, <2>4
<1> QED
  BY <1>1, <1>2, <1>3 DEF Off, InRule, Shown

-------------------------------------------------------------------------------
(* What the settled table implies.                                            *)

(* In a settled table a rule that is shown has its handle ...                 *)
LEMMA SettledOwner ==
  ASSUME NEW m, Settled(m), NEW x \in Entries, Shown(m, x)
  PROVE  \E h \in Handles : /\ Id(m, h).entry = x /\ Id(m, h).rule = Rule(m, x).rule
                            /\ OwnedBy(m, h, x, Rule(m, x).rule)
<1>1. PICK h \in Handles : Id(m, h).entry = x
  BY DEF Settled, Back
<1>2. OwnedBy(m, h, x, Id(m, h).rule)
  BY <1>1, Positions DEF Settled, Owned
<1> QED
  BY <1>1, <1>2 DEF OwnedBy

(* ... a rule in the expansion table is shown while it is enabled, as only    *)
(* heads are deleted in place ...                                             *)
LEMMA SettledExpn ==
  ASSUME NEW m, Settled(m), NEW x \in Expn, Rule(m, x).enable
  PROVE  Shown(m, x)
  BY Positions DEF Settled, Back, Shown, Mem, RuleRec

(* ... no two entries lead to the same one, and none to itself ...            *)
LEMMA SettledLinks ==
  ASSUME NEW m, Settled(m), NEW x \in Entries, Rule(m, x).next # 0
  PROVE  /\ Rule(m, x).next \in Expn /\ Rule(m, x).next # x
         /\ Rule(m, Rule(m, x).next).enable /\ Rule(m, Rule(m, x).next).prev = x
         /\ \A y \in Entries : Rule(m, y).next = Rule(m, x).next => y = x
<1> DEFINE f == Rule(m, x).next
<1>1. f \in Expn /\ f \in Entries
  BY MemLinks, Positions DEF Settled
<1>2. Rule(m, f).enable /\ \A y \in Entries : Rule(m, y).next = f => Rule(m, f).prev = y
  BY <1>1, Positions DEF Settled, Back
<1>3. Shown(m, f)
  BY <1>1, <1>2, SettledExpn
<1>4. PICK r \in Rules : f \in Chain(m, "rule", DstHash[r])
  BY <1>1, <1>3, SettledOwner DEF OwnedBy
<1>5. \E z \in Chain(m, "rule", DstHash[r]) : z # f /\ NextOf(m, "rule", z) = f
  BY <1>1, <1>4, ChainPred, MemLinks, TableAssumption DEF Settled
<1>6. Chain(m, "rule", DstHash[r]) \subseteq Entries
  BY ChainIn, Positions, TableAssumption DEF Settled
<1>7. \E z \in Entries : z # f /\ Rule(m, z).next = f
  BY <1>5, <1>6, MemLinks DEF Settled
<1>8. f # x
  BY <1>2, <1>7
<1> QED
  BY <1>1, <1>2, <1>8

(* ... an index is that of one rule with a handle, and lies in the chain of   *)
(* its source ...                                                             *)
LEMMA SettledIndex ==
  ASSUME NEW m, Settled(m), NEW i \in Entries, Index(m, i).tbl # 0
  PROVE  \E h \in Handles : /\ Id(m, h).entry = Index(m, i).tbl /\ Index(m, i).tbl \in Entries
                            /\ OwnedBy(m, h, Index(m, i).tbl, Id(m, h).rule)
                            /\ Shown(m, Index(m, i).tbl) /\ Rule(m, Index(m, i).tbl).indx = i
                            /\ Rule(m, Index(m, i).tbl).rule = Id(m, h).rule
                            /\ i \in Chain(m, "indx", SrcHash[Id(m, h).rule])
<1> DEFINE x == Index(m, i).tbl
<1>1. x \in Entries /\ Shown(m, x) /\ Rule(m, x).indx = i
  BY MemLinks DEF Settled, Indexed
<1>2. PICK h \in Handles : Id(m, h).entry = x /\ Id(m, h).rule = Rule(m, x).rule /\ OwnedBy(m, h, x, Rule(m, x).rule)
  BY <1>1, SettledOwner
<1> QED
  BY <1>1, <1>2 DEF OwnedBy

(* ... the links of indices are those of rules ...                            *)
LEMMA SettledIndexLinks ==
  ASSUME NEW m, Settled(m), NEW i \in Entries, Index(m, i).next # 0
  PROVE  /\ Index(m, i).next \in Expn /\ Index(m, i).next # i
         /\ Index(m, i).tbl # 0 /\ Index(m, Index(m, i).next).tbl # 0
         /\ Meta(m, Index(m, i).next).prev = i
         /\ \A y \in Entries : Index(m, y).next = Index(m, i).next => y = i
<1> DEFINE f == Index(m, i).next
<1>1. f \in Expn /\ f \in Entries
  BY MemLinks, Positions DEF Settled
<1>2. Index(m, i).tbl # 0 /\ Index(m, f).tbl # 0 /\ \A y \in Entries : Index(m, y).next = f => Meta(m, f).prev = y
  BY <1>1, Positions DEF Settled, Indexed
<1>4. PICK r \in Rules : f \in Chain(m, "indx", SrcHash[r])
  BY <1>1, <1>2, SettledIndex DEF OwnedBy
<1>5. \E z \in Chain(m, "indx", SrcHash[r]) : z # f /\ NextOf(m, "indx", z) = f
  BY <1>1, <1>4, ChainPred, MemLinks, TableAssumption DEF Settled
<1>6. Chain(m, "indx", SrcHash[r]) \subseteq Entries
  BY ChainIn, Positions, TableAssumption DEF Settled
<1>7. \E z \in Entries : z # f /\ Index(m, z).next = f
  BY <1>5, <1>6, MemLinks DEF Settled
<1>8. f # i
  BY <1>2, <1>7
<1> QED
  BY <1>1, <1>2, <1>8

(* ... no index dangles ...                                                   *)
LEMMA SettledDangle ==
  ASSUME NEW m, Settled(m), NEW A
  PROVE  NoDangle(m, A)
<1> SUFFICES ASSUME NEW b \in Base, NEW x \in Entries, InIndex(m, b, x) PROVE Rule(m, x).enable
  BY DEF NoDangle
<1>1. PICK i \in Chain(m, "indx", b) : Index(m, i).tbl = x
  BY DEF InIndex
<1>2. i \in Entries
  BY ChainIn, Positions DEF Settled
<1> QED
  BY <1>1, <1>2, Positions DEF Settled, Indexed, Shown

(* ... and the hardware finds the rules with handles and no other.            *)
LEMMA SettledFinds ==
  ASSUME NEW m, Settled(m), NEW r \in Rules
  PROVE  /\ Finds(m, r) => \E h \in Held(m) : Id(m, h).rule = r
         /\ \A h \in Held(m) : Id(m, h).rule = r => Finds(m, r)
<1>1. ASSUME Finds(m, r) PROVE \E h \in Held(m) : Id(m, h).rule = r
  <2>1. PICK x \in Entries : Shown(m, x) /\ Rule(m, x).rule = r
    BY <1>1 DEF Finds, InRule
  <2>2. PICK h \in Handles : Id(m, h).entry = x /\ Id(m, h).rule = r
    BY <2>1, SettledOwner
  <2> QED
    BY <2>2, Positions DEF Held
<1>2. ASSUME NEW h \in Held(m), Id(m, h).rule = r PROVE Finds(m, r)
  <2> DEFINE x == Id(m, h).entry
  <2>1. x # 0 /\ x \in Entries
    BY DEF Held, Settled, Mem, IdRec
  <2>2. OwnedBy(m, h, x, r)
    BY <1>2, <2>1 DEF Held, Settled, Owned
  <2> HIDE DEF x
  <2>3. InRule(m, DstHash[r], x) /\ Rule(m, x).rule = r /\ InIndex(m, SrcHash[r], x)
    BY <2>2 DEF OwnedBy, InRule, InIndex
  <2> QED
    BY <2>1, <2>3 DEF Finds
<1> QED
  BY <1>1, <1>2

-------------------------------------------------------------------------------
(* Adding a rule: the place it gets.                                          *)

(* The least of a set of numbers is one of them.                              *)
LEMMA MinOf ==
  ASSUME NEW S \in SUBSET Nat, S # {}
  PROVE  Min(S) \in S
  BY LeastNumber DEF Min

(* The first free entry of the expansion table, if there is one.              *)
LEMMA FreeEntry ==
  ASSUME NEW m, NEW t, Min(Free(m, t) \cup {T + E}) # T + E
  PROVE  Min(Free(m, t) \cup {T + E}) \in Expn /\ ~Taken(m, t, Min(Free(m, t) \cup {T + E}))
<1>1. Free(m, t) \cup {T + E} \in SUBSET Nat
  <2>1. Free(m, t) \subseteq Expn
    BY Zenon DEF Free
  <2>2. Expn \subseteq Nat /\ T + E \in Nat
    BY TableAssumption DEF Expn
  <2> QED
    BY <2>1, <2>2
<1>2. Min(Free(m, t) \cup {T + E}) \in Free(m, t) \cup {T + E}
  <2> DEFINE S == Free(m, t) \cup {T + E}
  <2>1. S \in SUBSET Nat /\ S # {}
    BY <1>1
  <2> HIDE DEF S
  <2>2. Min(S) \in S
    BY <2>1, MinOf
  <2> QED
    BY <2>2 DEF S
<1> QED
  BY <1>2 DEF Free

(* x is free, and linked from l or the base entry itself.                     *)
RulePlace(m, b, x, l) ==
  /\ x \in Entries /\ ~Rule(m, x).enable /\ ~Rule(m, x).invalid /\ Rule(m, x).next = 0
  /\ \A y \in Entries : Rule(m, y).next # x
  /\ \/ l = 0 /\ x = b
     \/ /\ x \in Expn /\ l \in Entries /\ l # x /\ l \in Chain(m, "rule", b)
        /\ Rule(m, l).next = 0 /\ Rule(m, l).enable
IndexPlace(m, b, i, l) ==
  /\ i \in Entries /\ Index(m, i).tbl = 0 /\ Index(m, i).next = 0
  /\ \A y \in Entries : Index(m, y).next # i
  /\ \/ l = 0 /\ i = b
     \/ /\ i \in Expn /\ l \in Entries /\ l # i /\ l \in Chain(m, "indx", b)
        /\ Index(m, l).next = 0 /\ Index(m, l).tbl # 0

(* Where generate_tbl_rule puts a rule in a settled table ...                 *)
LEMMA PlaceRule ==
  ASSUME NEW m, Settled(m), NEW b \in Base, NEW p \in Place(m, "rule", b)
  PROVE  RulePlace(m, b, p.entry, p.prev)
<1>1. ASSUME NEW x \in Entries, ~Rule(m, x).enable
      PROVE  ~Rule(m, x).invalid /\ Rule(m, x).next = 0 /\ \A y \in Entries : Rule(m, y).next # x
  <2>1. \A y \in Entries : Rule(m, y).next # 0 => Rule(m, Rule(m, y).next).enable
    BY SettledLinks
  <2> QED
    BY <1>1, <2>1, Positions DEF Settled, Back
<1>2. CASE ~Taken(m, "rule", b)
  <2>1. p.entry = b /\ p.prev = 0
    BY <1>2 DEF Place
  <2> QED
    BY <1>1, <1>2, <2>1, Positions DEF RulePlace, Taken
<1>3. CASE Taken(m, "rule", b)
  <2>1. /\ p.entry = Min(Free(m, "rule") \cup {T + E}) /\ p.entry # T + E
        /\ p.prev \in Lasts(m, "rule", b)
    BY <1>3 DEF Place
  <2>2. p.entry \in Expn /\ ~Rule(m, p.entry).enable
    BY <2>1, FreeEntry DEF Taken
  <2>3. /\ p.prev \in Chain(m, "rule", b) /\ p.prev \in Entries /\ Rule(m, p.prev).next = 0
        /\ p.prev \in {b} \cup Expn
    <3>1. Chain(m, "rule", b) \subseteq {b} \cup Expn /\ Chain(m, "rule", b) \subseteq Entries
      BY ChainClosed, MemLinks, Positions DEF Settled
    <3> QED
      BY <2>1, <3>1, MemLinks DEF Lasts, Settled
  <2>4. Rule(m, p.prev).enable
    <3>1. CASE p.prev = b
      BY <1>3, <3>1 DEF Taken
    <3>2. CASE p.prev \in Expn
      <4>1. PICK z \in Chain(m, "rule", b) : NextOf(m, "rule", z) = p.prev
        BY <2>3, <3>2, ChainPred, MemLinks DEF Settled
      <4>2. z \in Entries
        BY ChainIn, Positions DEF Settled
      <4>3. Rule(m, z).next = p.prev /\ p.prev # 0
        BY <4>1, <4>2, <2>3, MemLinks, Positions DEF Settled
      <4> QED
        BY <4>2, <4>3, SettledLinks
    <3> QED
      BY <2>3, <3>1, <3>2
  <2> QED
    BY <1>1, <2>2, <2>3, <2>4, Positions DEF RulePlace
<1> QED
  BY <1>2, <1>3

(* ... and generate_index_rule its index.                                     *)
LEMMA PlaceIndex ==
  ASSUME NEW m, Settled(m), NEW b \in Base, NEW p \in Place(m, "indx", b)
  PROVE  IndexPlace(m, b, p.entry, p.prev)
<1>1. ASSUME NEW x \in Entries, Index(m, x).tbl = 0
      PROVE  Index(m, x).next = 0 /\ \A y \in Entries : Index(m, y).next # x
  <2>1. \A y \in Entries : Index(m, y).next # 0 => Index(m, Index(m, y).next).tbl # 0
    BY SettledIndexLinks
  <2> QED
    BY <1>1, <2>1, Positions DEF Settled, Indexed
<1>2. CASE ~Taken(m, "indx", b)
  <2>1. p.entry = b /\ p.prev = 0
    BY <1>2 DEF Place
  <2> QED
    BY <1>1, <1>2, <2>1, Positions DEF IndexPlace, Taken
<1>3. CASE Taken(m, "indx", b)
  <2>1. /\ p.entry = Min(Free(m, "indx") \cup {T + E}) /\ p.entry # T + E
        /\ p.prev \in Lasts(m, "indx", b)
    BY <1>3 DEF Place
  <2>2. p.entry \in Expn /\ Index(m, p.entry).tbl = 0
    <3>1. \A e : Taken(m, "indx", e) <=> Index(m, e).tbl # 0
      BY DEF Taken
    <3>2. p.entry \in Expn /\ ~Taken(m, "indx", p.entry)
      BY <2>1, FreeEntry
    <3> QED
      BY <3>1, <3>2
  <2>3. /\ p.prev \in Chain(m, "indx", b) /\ p.prev \in Entries /\ Index(m, p.prev).next = 0
        /\ p.prev \in {b} \cup Expn
    <3>1. Chain(m, "indx", b) \subseteq {b} \cup Expn /\ Chain(m, "indx", b) \subseteq Entries
      BY ChainClosed, ChainIn, MemLinks, Positions DEF Settled
    <3> QED
      BY <2>1, <3>1, MemLinks DEF Lasts, Settled
  <2>4. Index(m, p.prev).tbl # 0
    <3>1. CASE p.prev = b
      BY <1>3, <3>1 DEF Taken
    <3>2. CASE p.prev \in Expn
      <4>1. PICK z \in Chain(m, "indx", b) : NextOf(m, "indx", z) = p.prev
        BY <2>3, <3>2, ChainPred, MemLinks DEF Settled
      <4>2. z \in Entries
        BY ChainIn, Positions DEF Settled
      <4>3. Index(m, z).next = p.prev /\ p.prev # 0
        BY <4>1, <4>2, <2>3, MemLinks, Positions DEF Settled
      <4> QED
        BY <4>2, <4>3, SettledIndexLinks
    <3> QED
      BY <2>3, <3>1, <3>2
  <2> QED
    BY <1>1, <2>2, <2>3, <2>4, Positions DEF IndexPlace
<1> QED
  BY <1>2, <1>3

(* There is a free handle: there are more handles than entries.               *)
LEMMA HandleFree ==
  ASSUME NEW m, Settled(m)
  PROVE  FreeHandle(m) \in Handles /\ Id(m, FreeHandle(m)).entry = 0
<1> DEFINE S == {h \in Handles : m[<<"id", h>>].entry = 0}
<1>1. S # {}
  <2> SUFFICES ASSUME \A h \in Handles : Id(m, h).entry # 0 PROVE FALSE
    BY DEF Id
  <2> DEFINE f == [h \in Handles |-> Id(m, h).entry]
  <2>1. f \in [Handles -> Entries]
    BY DEF Settled, Mem, IdRec
  <2>2. IsFiniteSet(Handles) /\ Cardinality(Handles) = T + E
    BY FS_Interval, TableAssumption DEF Handles
  <2>3. IsFiniteSet(Base) /\ Cardinality(Base) = T - 1
    BY FS_Interval, TableAssumption DEF Base
  <2>4. Cardinality(Base \cap Expn) = 0
    BY Positions, FS_EmptySet
  <2>5. IsFiniteSet(Entries) /\ Cardinality(Entries) = T + E - 2
    BY <2>3, <2>4, ExpnFinite, FS_Union, TableAssumption DEF Entries
  <2>6. Cardinality(Entries) < Cardinality(Handles)
    BY <2>2, <2>5, TableAssumption
  <2> HIDE DEF f
  <2>7. PICK g, h \in Handles : g # h /\ f[g] = f[h]
    BY <2>1, <2>2, <2>5, <2>6, FS_PigeonHole
  <2>8. Id(m, g).entry = Id(m, h).entry
    BY <2>7 DEF f
  <2> QED
    BY <2>7, <2>8 DEF Settled, Owned, OwnedBy
<1>2. S \in SUBSET Nat
  BY TableAssumption DEF Handles
<1>3. Min(S) \in S
  BY <1>1, <1>2, MinOf
<1> QED
  BY <1>3 DEF FreeHandle, Id

(* The table after an addition is settled again.                              *)
NewRule(r, l, i) == [EmptyRule EXCEPT !.rule = r, !.prev = l, !.indx = i]
AddShape(m, m2, r, x, l, i, k, h) ==
  /\ Mem(m2)
  /\ Rule(m2, x) = [NewRule(r, l, i) EXCEPT !.enable = TRUE]
  /\ l # 0 => Rule(m2, l) = [Rule(m, l) EXCEPT !.next = x]
  /\ \A y \in Entries \ {x, l} : Rule(m2, y) = Rule(m, y)
  /\ Index(m2, i).tbl = x /\ Index(m2, i).next = 0
  /\ k # 0 => Index(m2, k) = [Index(m, k) EXCEPT !.next = i]
  /\ \A j \in Entries \ {i, k} : Index(m2, j) = Index(m, j)
  /\ i \in Expn => Meta(m2, i).prev = k
  /\ \A j \in Expn \ {i} : Meta(m2, j) = Meta(m, j)
  /\ Id(m2, h).entry = x /\ Id(m2, h).rule = r
  /\ \A g \in Handles \ {h} : Id(m2, g) = Id(m, g)
  /\ \A b \in Base : Chain(m2, "rule", b) = Chain(m, "rule", b) \cup {y \in {x} : l \in Chain(m, "rule", b)}
  /\ \A b \in Base : Chain(m2, "indx", b) = Chain(m, "indx", b) \cup {y \in {i} : k \in Chain(m, "indx", b)}

(* The table after a whole addition is settled.                               *)
LEMMA AddSettled ==
  ASSUME NEW m, Settled(m), NEW r \in Rules, \A h \in Handles : Id(m, h).rule # r,
         NEW x, NEW l, RulePlace(m, DstHash[r], x, l),
         NEW i, NEW k, IndexPlace(m, SrcHash[r], i, k),
         NEW h \in Handles, Id(m, h).entry = 0,
         NEW m2, AddShape(m, m2, r, x, l, i, k, h)
  PROVE  Settled(m2)
<1>1. /\ x \in Entries /\ ~Rule(m, x).enable /\ \A y \in Entries : Rule(m, y).next # x
      /\ x # l /\ x # 0 /\ (l # 0 => l \in Entries /\ x \in Expn /\ Rule(m, l).next = 0 /\ Rule(m, l).enable)
      /\ ~Rule(m, x).invalid /\ Rule(m, x).next = 0
  BY Positions DEF RulePlace
<1>2. /\ i \in Entries /\ Index(m, i).tbl = 0 /\ Index(m, i).next = 0 /\ \A y \in Entries : Index(m, y).next # i
      /\ i # k /\ i # 0 /\ (k # 0 => k \in Entries /\ i \in Expn /\ Index(m, k).next = 0 /\ Index(m, k).tbl # 0)
  BY Positions DEF IndexPlace
<1>3. /\ Rule(m2, x).rule = r /\ Rule(m2, x).enable /\ ~Rule(m2, x).invalid
      /\ Rule(m2, x).next = 0 /\ Rule(m2, x).prev = l /\ Rule(m2, x).indx = i
  BY DEF AddShape, NewRule, EmptyRule
<1>4. /\ l # 0 => Rule(m2, l).next = x
      /\ \A y \in Entries \ {x} : /\ Rule(m2, y).rule = Rule(m, y).rule /\ Rule(m2, y).enable = Rule(m, y).enable
                                  /\ Rule(m2, y).invalid = Rule(m, y).invalid /\ Rule(m2, y).prev = Rule(m, y).prev
                                  /\ Rule(m2, y).indx = Rule(m, y).indx
                                  /\ y # l => Rule(m2, y).next = Rule(m, y).next
                                  /\ Shown(m2, y) <=> Shown(m, y)
  <2>1. \A y \in Entries : Rule(m, y) \in RuleRec
    BY DEF Settled, Mem
  <2>2. l # 0 => /\ Rule(m2, l).next = x /\ Rule(m2, l).rule = Rule(m, l).rule /\ Rule(m2, l).enable = Rule(m, l).enable
                 /\ Rule(m2, l).invalid = Rule(m, l).invalid /\ Rule(m2, l).prev = Rule(m, l).prev
                 /\ Rule(m2, l).indx = Rule(m, l).indx
    BY <1>1, <2>1 DEF AddShape, RuleRec
  <2>3. \A y \in Entries \ {x, l} : Rule(m2, y) = Rule(m, y)
    BY DEF AddShape
  <2> QED
    BY <1>1, <2>2, <2>3, Positions DEF Shown
<1>5. /\ Index(m2, i).tbl = x /\ Index(m2, i).next = 0 /\ (k # 0 => Index(m2, k).next = i)
      /\ \A j \in Entries \ {i} : Index(m2, j).tbl = Index(m, j).tbl /\ (j # k => Index(m2, j).next = Index(m, j).next)
  BY <1>2, Positions DEF AddShape, Settled, Mem, IndexRec
<1>6. Back(m2)
  <2> SUFFICES ASSUME NEW y \in Entries
               PROVE  /\ Rule(m2, y).next # 0 => /\ Rule(m2, y).enable /\ Rule(m2, Rule(m2, y).next).enable
                                                 /\ Rule(m2, Rule(m2, y).next).prev = y
                      /\ ~Rule(m2, y).enable => Rule(m2, y).next = 0 /\ ~Rule(m2, y).invalid
                      /\ Rule(m2, y).invalid => y \in Base /\ Rule(m2, y).next # 0
                      /\ Shown(m2, y) => \E g \in Handles : Id(m2, g).entry = y
    BY DEF Back
  <2>1. CASE y = x
    BY <1>3, <2>1 DEF AddShape
  <2>2. CASE y # x
    <3>1. /\ Rule(m, y).next # 0 => /\ Rule(m, y).enable /\ Rule(m, Rule(m, y).next).enable
                                     /\ Rule(m, Rule(m, y).next).prev = y
                                     /\ Rule(m, y).next \in Entries /\ Rule(m, y).next # x
          /\ ~Rule(m, y).enable => Rule(m, y).next = 0 /\ ~Rule(m, y).invalid
          /\ Rule(m, y).invalid => y \in Base /\ Rule(m, y).next # 0
          /\ Shown(m, y) => \E g \in Handles : Id(m, g).entry = y
      BY <1>1, SettledLinks, Positions DEF Settled, Back
    <3>2. Shown(m2, y) => \E g \in Handles : Id(m2, g).entry = y
      BY <1>4, <2>2, <3>1, Positions DEF AddShape
    <3>3. CASE y = l
      BY <1>1, <1>3, <1>4, <2>2, <3>1, <3>2, <3>3, Positions
    <3>4. CASE y # l
      BY <1>1, <1>3, <1>4, <2>2, <3>1, <3>2, <3>4
    <3> QED
      BY <3>3, <3>4
  <2> QED
    BY <2>1, <2>2
<1>7. Owned(m2)
  <2>1. DstHash[r] \in Base /\ SrcHash[r] \in Base
    BY TableAssumption
  <2>2. OwnedBy(m2, h, x, r)
    <3>1. x \in Chain(m2, "rule", DstHash[r])
      BY <2>1, ChainIn, Positions DEF AddShape, RulePlace, Settled
    <3>2. i \in Chain(m2, "indx", SrcHash[r])
      BY <2>1, ChainIn, Positions DEF AddShape, IndexPlace, Settled
    <3>3. ASSUME NEW g \in Handles \ {h} PROVE Id(m2, g).entry # x /\ Id(m2, g).rule # r
      <4>1. Id(m2, g) = Id(m, g)
        BY DEF AddShape
      <4>2. Id(m, g).entry # 0 => Rule(m, Id(m, g).entry).enable
        BY DEF Settled, Owned, OwnedBy, Shown
      <4> QED
        BY <1>1, <4>1, <4>2
    <3> QED
      BY <1>3, <1>5, <3>1, <3>2, <3>3 DEF OwnedBy, Shown
  <2>3. ASSUME NEW g \in Handles, g # h
        PROVE  /\ Id(m2, g).entry = 0 => Id(m2, g).rule = NoRule
               /\ Id(m2, g).entry # 0 => OwnedBy(m2, g, Id(m2, g).entry, Id(m2, g).rule)
    <3> DEFINE y == Id(m, g).entry
               s == Id(m, g).rule
    <3>1. Id(m2, g).entry = y /\ Id(m2, g).rule = s /\ (y = 0 => s = NoRule)
      BY <2>3 DEF AddShape, Settled, Owned
    <3>2. ASSUME y # 0 PROVE OwnedBy(m2, g, y, s)
      <4>1. OwnedBy(m, g, y, s) /\ y \in Entries
        BY <3>2 DEF Settled, Owned, Mem, IdRec
      <4>2. s \in Rules /\ DstHash[s] \in Base /\ SrcHash[s] \in Base
        BY <4>1, TableAssumption DEF OwnedBy
      <4>3. y # x
        BY <1>1, <4>1 DEF OwnedBy, Shown
      <4>4. Shown(m2, y) /\ Rule(m2, y).rule = s /\ Rule(m2, y).indx = Rule(m, y).indx
        BY <1>4, <4>1, <4>3 DEF OwnedBy
      <4>5. y \in Chain(m2, "rule", DstHash[s]) /\ Rule(m2, y).indx \in Chain(m2, "indx", SrcHash[s])
        BY <4>1, <4>2, <4>4 DEF OwnedBy, AddShape
      <4>6. Index(m2, Rule(m2, y).indx).tbl = y
        <5>1. Rule(m, y).indx \in Entries
          BY <4>1, <4>2, ChainIn, Positions DEF OwnedBy, Settled
        <5>2. Rule(m, y).indx # i
          BY <1>2, <4>1, Positions DEF OwnedBy
        <5> QED
          BY <1>5, <4>1, <4>4, <5>1, <5>2 DEF OwnedBy
      <4>7. \A f \in Handles \ {g} : Id(m2, f).entry # y /\ Id(m2, f).rule # s
        BY <4>1, <4>3 DEF OwnedBy, AddShape
      <4> QED
        BY <4>2, <4>4, <4>5, <4>6, <4>7 DEF OwnedBy
    <3> QED
      BY <3>1, <3>2
  <2>4. Id(m2, h).entry = x /\ Id(m2, h).rule = r
    BY DEF AddShape
  <2> QED
    BY <1>1, <2>2, <2>3, <2>4 DEF Owned
<1>8. Indexed(m2)
  <2> SUFFICES ASSUME NEW j \in Entries
               PROVE  /\ Index(m2, j).next # 0 => /\ Index(m2, j).tbl # 0 /\ Index(m2, Index(m2, j).next).tbl # 0
                                                  /\ Meta(m2, Index(m2, j).next).prev = j
                      /\ Index(m2, j).tbl = 0 => Index(m2, j).next = 0
                      /\ Index(m2, j).tbl # 0 => Shown(m2, Index(m2, j).tbl) /\ Rule(m2, Index(m2, j).tbl).indx = j
    BY DEF Indexed
  <2>1. CASE j = i
    BY <1>1, <1>3, <1>5, <2>1 DEF Shown
  <2>2. CASE j # i
    <3>1. /\ Index(m, j).next # 0 => /\ Index(m, j).tbl # 0 /\ Index(m, Index(m, j).next).tbl # 0
                                      /\ Meta(m, Index(m, j).next).prev = j
                                      /\ Index(m, j).next \in Expn /\ Index(m, j).next # i
          /\ Index(m, j).tbl = 0 => Index(m, j).next = 0
          /\ Index(m, j).tbl # 0 => /\ Shown(m, Index(m, j).tbl) /\ Rule(m, Index(m, j).tbl).indx = j
                                    /\ Index(m, j).tbl \in Entries
      BY <1>2, SettledIndexLinks, MemLinks DEF Settled, Indexed
    <3>2. Index(m2, j).tbl # 0 => Shown(m2, Index(m2, j).tbl) /\ Rule(m2, Index(m2, j).tbl).indx = j
      <4>1. Index(m, j).tbl # x
        BY <1>1, <3>1 DEF Shown
      <4> QED
        BY <1>4, <1>5, <2>2, <3>1, <4>1
    <3>3. CASE j = k
      <4>1. Index(m2, j).next = i /\ Meta(m2, i).prev = j /\ Index(m2, j).tbl # 0 /\ Index(m2, i).tbl # 0
        BY <1>1, <1>2, <1>5, <2>2, <3>3, Positions DEF AddShape
      <4> QED
        BY <3>2, <4>1
    <3>4. CASE j # k
      <4>1. Index(m2, j).next = Index(m, j).next /\ Index(m2, j).tbl = Index(m, j).tbl
        BY <1>5, <2>2, <3>4
      <4>2. Index(m, j).next # 0 => /\ Index(m2, Index(m, j).next).tbl # 0 /\ Meta(m2, Index(m, j).next).prev = j
        BY <1>5, <3>1, Positions DEF AddShape
      <4> QED
        BY <3>1, <3>2, <4>1, <4>2
    <3> QED
      BY <3>3, <3>4
  <2> QED
    BY <2>1, <2>2
<1> QED
  BY <1>6, <1>7, <1>8 DEF Settled, AddShape

-------------------------------------------------------------------------------
(* One cell changes.                                                          *)
SameRule(m, m2) == \A y \in Entries : Rule(m2, y) = Rule(m, y)
SameIndex(m, m2) == \A y \in Entries : Index(m2, y) = Index(m, y)
SameMeta(m, m2) == \A y \in Expn : Meta(m2, y) = Meta(m, y)
SameId(m, m2) == \A h \in Handles : Id(m2, h) = Id(m, h)
RuleTo(m, m2, e, rec) ==
  /\ Mem(m2) /\ Rule(m2, e) = rec /\ \A y \in Entries \ {e} : Rule(m2, y) = Rule(m, y)
  /\ SameIndex(m, m2) /\ SameMeta(m, m2) /\ SameId(m, m2)
IndexTo(m, m2, i, rec) ==
  /\ Mem(m2) /\ Index(m2, i) = rec /\ \A y \in Entries \ {i} : Index(m2, y) = Index(m, y)
  /\ SameRule(m, m2) /\ SameMeta(m, m2) /\ SameId(m, m2)
MetaTo(m, m2, i, rec) ==
  /\ Mem(m2) /\ Meta(m2, i) = rec /\ \A y \in Expn \ {i} : Meta(m2, y) = Meta(m, y)
  /\ SameRule(m, m2) /\ SameIndex(m, m2) /\ SameId(m, m2)
IdTo(m, m2, h, rec) ==
  /\ Mem(m2) /\ Id(m2, h) = rec /\ \A g \in Handles \ {h} : Id(m2, g) = Id(m, g)
  /\ SameRule(m, m2) /\ SameIndex(m, m2) /\ SameMeta(m, m2)

(* One write to a rule, whatever it writes.                                   *)
LEMMA RuleWritten ==
  ASSUME NEW m, Mem(m), NEW e \in Entries
  PROVE  /\ \A v \in RuleRec : RuleTo(m, Write(m, W("rule", e, v)), e, v)
         /\ \A v \in Expn \cup {0} :
              RuleTo(m, Write(m, W("rule", e, [next |-> v])), e, [Rule(m, e) EXCEPT !.next = v])
         /\ \A v \in Entries \cup {0} :
              /\ RuleTo(m, Write(m, W("rule", e, [prev |-> v])), e, [Rule(m, e) EXCEPT !.prev = v])
              /\ RuleTo(m, Write(m, W("rule", e, [indx |-> v])), e, [Rule(m, e) EXCEPT !.indx = v])
         /\ \A v \in BOOLEAN :
              /\ RuleTo(m, Write(m, W("rule", e, [enable |-> v])), e, [Rule(m, e) EXCEPT !.enable = v])
              /\ RuleTo(m, Write(m, W("rule", e, [invalid |-> v])), e, [Rule(m, e) EXCEPT !.invalid = v])
<1>0. Rule(m, e) \in RuleRec
  BY DEF Mem
<1>1. ASSUME NEW rec \in RuleRec PROVE RuleTo(m, Put(m, "rule", e, rec), e, rec)
  BY PutRule DEF RuleTo, SameIndex, SameMeta, SameId
<1>2. ASSUME NEW v \in RuleRec PROVE RuleTo(m, Write(m, W("rule", e, v)), e, v)
  <2>1. Write(m, W("rule", e, v)) = Put(m, "rule", e, v)
    BY WriteRule
  <2> QED
    BY <1>1, <2>1
<1>3. ASSUME NEW v \in Expn \cup {0}
      PROVE  RuleTo(m, Write(m, W("rule", e, [next |-> v])), e, [Rule(m, e) EXCEPT !.next = v])
  <2>1. [Rule(m, e) EXCEPT !.next = v] \in RuleRec
    BY <1>0 DEF RuleRec
  <2>2. Write(m, W("rule", e, [next |-> v])) = Put(m, "rule", e, [Rule(m, e) EXCEPT !.next = v])
    BY WriteRule
  <2> QED
    BY <1>1, <2>1, <2>2
<1>4. ASSUME NEW v \in Entries \cup {0}
      PROVE  /\ RuleTo(m, Write(m, W("rule", e, [prev |-> v])), e, [Rule(m, e) EXCEPT !.prev = v])
             /\ RuleTo(m, Write(m, W("rule", e, [indx |-> v])), e, [Rule(m, e) EXCEPT !.indx = v])
  <2>1. [Rule(m, e) EXCEPT !.prev = v] \in RuleRec /\ [Rule(m, e) EXCEPT !.indx = v] \in RuleRec
    BY <1>0 DEF RuleRec
  <2>2. /\ Write(m, W("rule", e, [prev |-> v])) = Put(m, "rule", e, [Rule(m, e) EXCEPT !.prev = v])
        /\ Write(m, W("rule", e, [indx |-> v])) = Put(m, "rule", e, [Rule(m, e) EXCEPT !.indx = v])
    BY WriteRule
  <2> QED
    BY <1>1, <2>1, <2>2
<1>5. ASSUME NEW v \in BOOLEAN
      PROVE  /\ RuleTo(m, Write(m, W("rule", e, [enable |-> v])), e, [Rule(m, e) EXCEPT !.enable = v])
             /\ RuleTo(m, Write(m, W("rule", e, [invalid |-> v])), e, [Rule(m, e) EXCEPT !.invalid = v])
  <2>1. [Rule(m, e) EXCEPT !.enable = v] \in RuleRec /\ [Rule(m, e) EXCEPT !.invalid = v] \in RuleRec
    BY <1>0 DEF RuleRec
  <2>2. /\ Write(m, W("rule", e, [enable |-> v])) = Put(m, "rule", e, [Rule(m, e) EXCEPT !.enable = v])
        /\ Write(m, W("rule", e, [invalid |-> v])) = Put(m, "rule", e, [Rule(m, e) EXCEPT !.invalid = v])
    BY WriteRule
  <2> QED
    BY <1>1, <2>1, <2>2
<1> QED
  BY <1>2, <1>3, <1>4, <1>5

(* One write to an index.                                                     *)
LEMMA IndexWritten ==
  ASSUME NEW m, Mem(m), NEW e \in Entries
  PROVE  /\ \A v \in IndexRec : IndexTo(m, Write(m, W("indx", e, v)), e, v)
         /\ \A v \in Expn \cup {0} :
              IndexTo(m, Write(m, W("indx", e, [next |-> v])), e, [Index(m, e) EXCEPT !.next = v])
         /\ \A v \in Entries \cup {0} :
              IndexTo(m, Write(m, W("indx", e, [tbl |-> v])), e, [Index(m, e) EXCEPT !.tbl = v])
<1>0. Index(m, e) \in IndexRec
  BY DEF Mem
<1>1. ASSUME NEW rec \in IndexRec PROVE IndexTo(m, Put(m, "indx", e, rec), e, rec)
  BY PutIndex DEF IndexTo, SameRule, SameMeta, SameId
<1>2. ASSUME NEW v \in IndexRec PROVE IndexTo(m, Write(m, W("indx", e, v)), e, v)
  <2>1. Write(m, W("indx", e, v)) = Put(m, "indx", e, v)
    BY WriteIndex
  <2> QED
    BY <1>1, <2>1
<1>3. ASSUME NEW v \in Expn \cup {0}
      PROVE  IndexTo(m, Write(m, W("indx", e, [next |-> v])), e, [Index(m, e) EXCEPT !.next = v])
  <2>1. [Index(m, e) EXCEPT !.next = v] \in IndexRec
    BY <1>0 DEF IndexRec
  <2>2. Write(m, W("indx", e, [next |-> v])) = Put(m, "indx", e, [Index(m, e) EXCEPT !.next = v])
    BY WriteIndex
  <2> QED
    BY <1>1, <2>1, <2>2
<1>4. ASSUME NEW v \in Entries \cup {0}
      PROVE  IndexTo(m, Write(m, W("indx", e, [tbl |-> v])), e, [Index(m, e) EXCEPT !.tbl = v])
  <2>1. [Index(m, e) EXCEPT !.tbl = v] \in IndexRec
    BY <1>0 DEF IndexRec
  <2>2. Write(m, W("indx", e, [tbl |-> v])) = Put(m, "indx", e, [Index(m, e) EXCEPT !.tbl = v])
    BY WriteIndex
  <2> QED
    BY <1>1, <2>1, <2>2
<1> QED
  BY <1>2, <1>3, <1>4

(* One write to a back link or a handle.                                      *)
LEMMA OtherWritten ==
  ASSUME NEW m, Mem(m)
  PROVE  /\ \A j \in Expn : \A v \in Entries \cup {0} :
              MetaTo(m, Write(m, W("meta", j, [prev |-> v])), j, [prev |-> v])
         /\ \A h \in Handles : \A v \in IdRec : IdTo(m, Write(m, W("id", h, v)), h, v)
<1>1. ASSUME NEW j \in Expn, NEW v \in Entries \cup {0}
      PROVE  MetaTo(m, Write(m, W("meta", j, [prev |-> v])), j, [prev |-> v])
  <2>1. [prev |-> v] \in MetaRec
    BY DEF MetaRec
  <2>2. Write(m, W("meta", j, [prev |-> v])) = Put(m, "meta", j, [prev |-> v])
    BY <2>1, WriteOther
  <2> QED
    BY <2>1, <2>2, PutMeta DEF MetaTo, SameRule, SameIndex, SameId
<1>2. ASSUME NEW h \in Handles, NEW v \in IdRec PROVE IdTo(m, Write(m, W("id", h, v)), h, v)
  BY WriteOther, PutId DEF IdTo, SameRule, SameIndex, SameMeta
<1> QED
  BY <1>1, <1>2

(* A write off everything but x is a way through.                             *)
LEMMA QuietStep ==
  ASSUME NEW m, NEW w, NEW m2, m2 = Write(m, w), NEW x, Mem(m), NoDangle(m, {x}),
         Off(m, m2, x), Hidden(m, x), Hidden(m2, x), SameId(m, m2)
  PROVE  Through(m, <<w>>, m2, x) /\ NoDangle(m2, {x})
  BY QuietMove, OffDangle, ThroughStep DEF SameId

-------------------------------------------------------------------------------
(* The writes of an addition, up to the enable flag: the hardware does not    *)
(* see the new rule x.                                                        *)
Adds(m0, m, x) == Mem(m) /\ ~Shown(m, x) /\ NoDangle(m, {x}) /\ SameId(m0, m)

(* The first write of an addition: the back link of the index entry ...       *)
LEMMA AddMeta ==
  ASSUME NEW m0, NEW m, NEW x \in Entries, Adds(m0, m, x), NEW i \in Expn, NEW k \in Entries \cup {0}
  PROVE  LET w == W("meta", i, [prev |-> k])
             m2 == Write(m, w)
         IN  /\ Through(m, <<w>>, m2, x) /\ Adds(m0, m2, x)
             /\ SameRule(m, m2) /\ SameIndex(m, m2) /\ Meta(m2, i).prev = k
             /\ \A j \in Expn \ {i} : Meta(m2, j) = Meta(m, j)
             /\ \A b \in Base : /\ Chain(m2, "rule", b) = Chain(m, "rule", b)
                                /\ Chain(m2, "indx", b) = Chain(m, "indx", b)
<1> DEFINE w == W("meta", i, [prev |-> k])
           m2 == Write(m, w)
<1>1. MetaTo(m, m2, i, [prev |-> k])
  BY OtherWritten DEF Adds
<1> HIDE DEF w, m2
<1>2. /\ Mem(m2) /\ Meta(m2, i).prev = k /\ \A j \in Expn \ {i} : Meta(m2, j) = Meta(m, j)
      /\ SameRule(m, m2) /\ SameIndex(m, m2) /\ SameId(m, m2)
  BY <1>1 DEF MetaTo
<1>3. Alike(m, m2)
  BY <1>2 DEF Alike, SameRule, SameIndex
<1>4. /\ Off(m, m2, x) /\ ~Shown(m2, x) /\ Mem(m)
      /\ \A b \in Base : /\ Chain(m2, "rule", b) = Chain(m, "rule", b)
                         /\ Chain(m2, "indx", b) = Chain(m, "indx", b)
  BY <1>2, <1>3, AlikeOff DEF Adds
<1>5. Through(m, <<w>>, m2, x) /\ NoDangle(m2, {x})
  BY <1>2, <1>4, QuietStep DEF Adds, Hidden, m2
<1> QED
  BY <1>2, <1>4, <1>5 DEF Adds, SameId, m2, w

(* ... then the rule, not enabled ...                                         *)
LEMMA AddRecord ==
  ASSUME NEW m0, NEW m, NEW x \in Entries, Adds(m0, m, x), NEW rec \in RuleRec,
         ~rec.enable, rec.next = 0, Rule(m, x).next = 0
  PROVE  LET w == W("rule", x, rec)
             m2 == Write(m, w)
         IN  /\ Through(m, <<w>>, m2, x) /\ Adds(m0, m2, x)
             /\ Rule(m2, x) = rec /\ \A y \in Entries \ {x} : Rule(m2, y) = Rule(m, y)
             /\ SameIndex(m, m2) /\ SameMeta(m, m2)
             /\ \A b \in Base : /\ Chain(m2, "rule", b) = Chain(m, "rule", b)
                                /\ Chain(m2, "indx", b) = Chain(m, "indx", b)
<1> DEFINE w == W("rule", x, rec)
           m2 == Write(m, w)
<1>1. RuleTo(m, m2, x, rec)
  BY RuleWritten DEF Adds
<1> HIDE DEF w, m2
<1>2. /\ Mem(m2) /\ Rule(m2, x) = rec /\ \A y \in Entries \ {x} : Rule(m2, y) = Rule(m, y)
      /\ SameIndex(m, m2) /\ SameMeta(m, m2) /\ SameId(m, m2)
  BY <1>1 DEF RuleTo
<1>3. Mem(m) /\ ~Shown(m2, x)
  BY <1>2 DEF Adds, Shown
<1>4. /\ Off(m, m2, x)
      /\ \A b \in Base : /\ Chain(m2, "rule", b) = Chain(m, "rule", b)
                         /\ Chain(m2, "indx", b) = Chain(m, "indx", b)
  BY <1>2, <1>3, RuleOff DEF SameIndex
<1>5. Through(m, <<w>>, m2, x) /\ NoDangle(m2, {x})
  BY <1>2, <1>3, <1>4, QuietStep DEF Adds, Hidden, m2
<1> QED
  BY <1>2, <1>3, <1>4, <1>5 DEF Adds, SameId, m2, w

(* ... the link to it, which lengthens a chain by an entry nobody sees ...    *)
LEMMA AddLink ==
  ASSUME NEW m0, NEW m, NEW x \in Expn, Adds(m0, m, x), NEW l \in Entries,
         Rule(m, l).next = 0, Rule(m, x).next = 0, l # x
  PROVE  LET w == W("rule", l, [next |-> x])
             m2 == Write(m, w)
         IN  /\ Through(m, <<w>>, m2, x) /\ Adds(m0, m2, x)
             /\ Rule(m2, l) = [Rule(m, l) EXCEPT !.next = x]
             /\ \A y \in Entries \ {l} : Rule(m2, y) = Rule(m, y)
             /\ SameIndex(m, m2) /\ SameMeta(m, m2)
             /\ \A b \in Base : /\ Chain(m2, "rule", b) = Chain(m, "rule", b) \cup {y \in {x} : l \in Chain(m, "rule", b)}
                                /\ Chain(m2, "indx", b) = Chain(m, "indx", b)
<1> DEFINE w == W("rule", l, [next |-> x])
           m2 == Write(m, w)
<1>1. RuleTo(m, m2, l, [Rule(m, l) EXCEPT !.next = x])
  BY RuleWritten DEF Adds
<1> HIDE DEF w, m2
<1>2. /\ Mem(m2) /\ Rule(m2, l) = [Rule(m, l) EXCEPT !.next = x]
      /\ \A y \in Entries \ {l} : Rule(m2, y) = Rule(m, y)
      /\ SameIndex(m, m2) /\ SameMeta(m, m2) /\ SameId(m, m2)
  BY <1>1 DEF RuleTo
<1>3. Mem(m) /\ ~Shown(m2, x) /\ x \in Entries
  BY <1>2, Positions DEF Adds, Shown
<1>4. /\ Off(m, m2, x)
      /\ \A b \in Base : /\ Chain(m2, "rule", b) = Chain(m, "rule", b) \cup {y \in {x} : l \in Chain(m, "rule", b)}
                         /\ Chain(m2, "indx", b) = Chain(m, "indx", b)
  BY <1>2, <1>3, LinkOff DEF SameIndex
<1>5. Through(m, <<w>>, m2, x) /\ NoDangle(m2, {x})
  BY <1>2, <1>3, <1>4, QuietStep DEF Adds, Hidden, m2
<1> QED
  BY <1>2, <1>3, <1>4, <1>5 DEF Adds, SameId, m2, w

(* ... the index, of a rule not yet enabled ...                               *)
LEMMA AddIndex ==
  ASSUME NEW m0, NEW m, NEW x \in Entries, Adds(m0, m, x), NEW i \in Entries,
         Index(m, i).next = 0, Index(m, i).tbl = 0
  PROVE  LET w == W("indx", i, [tbl |-> x, next |-> 0])
             m2 == Write(m, w)
         IN  /\ Through(m, <<w>>, m2, x) /\ Adds(m0, m2, x)
             /\ Index(m2, i).tbl = x /\ Index(m2, i).next = 0
             /\ \A y \in Entries \ {i} : Index(m2, y) = Index(m, y)
             /\ SameRule(m, m2) /\ SameMeta(m, m2)
             /\ \A b \in Base : /\ Chain(m2, "rule", b) = Chain(m, "rule", b)
                                /\ Chain(m2, "indx", b) = Chain(m, "indx", b)
<1> DEFINE rec == [tbl |-> x, next |-> 0]
           w == W("indx", i, rec)
           m2 == Write(m, w)
<1>0. rec \in IndexRec /\ rec.tbl = x /\ rec.next = 0
  BY DEF IndexRec
<1> HIDE DEF rec
<1>1. IndexTo(m, m2, i, rec)
  BY <1>0, IndexWritten DEF Adds
<1> HIDE DEF w, m2
<1>2. /\ Mem(m2) /\ Index(m2, i).tbl = x /\ Index(m2, i).next = 0
      /\ \A y \in Entries \ {i} : Index(m2, y) = Index(m, y)
      /\ SameRule(m, m2) /\ SameMeta(m, m2) /\ SameId(m, m2)
  BY <1>0, <1>1 DEF IndexTo
<1>3. Mem(m) /\ ~Shown(m2, x)
  BY <1>2 DEF Adds, Shown, SameRule
<1>4. /\ Off(m, m2, x)
      /\ \A b \in Base : /\ Chain(m2, "rule", b) = Chain(m, "rule", b)
                         /\ Chain(m2, "indx", b) = Chain(m, "indx", b)
  BY <1>2, <1>3, IndexOff DEF SameRule
<1>5. Through(m, <<w>>, m2, x) /\ NoDangle(m2, {x})
  BY <1>2, <1>3, <1>4, QuietStep DEF Adds, Hidden, m2
<1> QED
  BY <1>2, <1>3, <1>4, <1>5 DEF Adds, SameId, m2, w, rec

(* ... and the link to the index.                                             *)
LEMMA AddIndexLink ==
  ASSUME NEW m0, NEW m, NEW x \in Entries, Adds(m0, m, x), NEW i \in Expn, NEW k \in Entries,
         Index(m, k).next = 0, Index(m, i).next = 0, Index(m, i).tbl = x, k # i
  PROVE  LET w == W("indx", k, [next |-> i])
             m2 == Write(m, w)
         IN  /\ Through(m, <<w>>, m2, x) /\ Adds(m0, m2, x)
             /\ Index(m2, k) = [Index(m, k) EXCEPT !.next = i]
             /\ \A y \in Entries \ {k} : Index(m2, y) = Index(m, y)
             /\ SameRule(m, m2) /\ SameMeta(m, m2)
             /\ \A b \in Base : /\ Chain(m2, "indx", b) = Chain(m, "indx", b) \cup {y \in {i} : k \in Chain(m, "indx", b)}
                                /\ Chain(m2, "rule", b) = Chain(m, "rule", b)
<1> DEFINE w == W("indx", k, [next |-> i])
           m2 == Write(m, w)
<1>1. IndexTo(m, m2, k, [Index(m, k) EXCEPT !.next = i])
  BY IndexWritten DEF Adds
<1> HIDE DEF w, m2
<1>2. /\ Mem(m2) /\ Index(m2, k) = [Index(m, k) EXCEPT !.next = i]
      /\ \A y \in Entries \ {k} : Index(m2, y) = Index(m, y)
      /\ SameRule(m, m2) /\ SameMeta(m, m2) /\ SameId(m, m2)
  BY <1>1 DEF IndexTo
<1>3. Mem(m) /\ ~Shown(m2, x)
  BY <1>2 DEF Adds, Shown, SameRule
<1>4. /\ Off(m, m2, x)
      /\ \A b \in Base : /\ Chain(m2, "indx", b) = Chain(m, "indx", b) \cup {y \in {i} : k \in Chain(m, "indx", b)}
                         /\ Chain(m2, "rule", b) = Chain(m, "rule", b)
  BY <1>2, <1>3, IndexLinkOff DEF SameRule
<1>5. Through(m, <<w>>, m2, x) /\ NoDangle(m2, {x})
  BY <1>2, <1>3, <1>4, QuietStep DEF Adds, Hidden, m2
<1> QED
  BY <1>2, <1>3, <1>4, <1>5 DEF Adds, SameId, m2, w

(* All of them, x not being enabled yet.                                      *)
AddPrefix(r, x, l, i, k) ==
     (IF i \in Expn THEN <<W("meta", i, [prev |-> k])>> ELSE <<>>)
  \o <<W("rule", x, NewRule(r, l, i))>>
  \o (IF l = 0 THEN <<>> ELSE <<W("rule", l, [next |-> x])>>)
  \o <<W("indx", i, [tbl |-> x, next |-> 0])>>
  \o (IF k = 0 THEN <<>> ELSE <<W("indx", k, [next |-> i])>>)

AddedShape(m, m2, r, x, l, i, k) ==
  /\ Rule(m2, x) = NewRule(r, l, i)
  /\ l # 0 => Rule(m2, l) = [Rule(m, l) EXCEPT !.next = x]
  /\ \A y \in Entries \ {x, l} : Rule(m2, y) = Rule(m, y)
  /\ Index(m2, i).tbl = x /\ Index(m2, i).next = 0
  /\ k # 0 => Index(m2, k) = [Index(m, k) EXCEPT !.next = i]
  /\ \A j \in Entries \ {i, k} : Index(m2, j) = Index(m, j)
  /\ i \in Expn => Meta(m2, i).prev = k
  /\ \A j \in Expn \ {i} : Meta(m2, j) = Meta(m, j)
  /\ \A b \in Base : Chain(m2, "rule", b) = Chain(m, "rule", b) \cup {y \in {x} : l \in Chain(m, "rule", b)}
  /\ \A b \in Base : Chain(m2, "indx", b) = Chain(m, "indx", b) \cup {y \in {i} : k \in Chain(m, "indx", b)}

(* All writes of an addition up to the enable flag.                           *)
LEMMA AddPrefixThrough ==
  ASSUME NEW m, Settled(m), NEW r \in Rules,
         NEW x, NEW l, RulePlace(m, DstHash[r], x, l),
         NEW i, NEW k, IndexPlace(m, SrcHash[r], i, k)
  PROVE  \E m2 : /\ Through(m, AddPrefix(r, x, l, i, k), m2, x)
                 /\ Adds(m, m2, x) /\ AddedShape(m, m2, r, x, l, i, k)
<1> DEFINE s1 == IF i \in Expn THEN <<W("meta", i, [prev |-> k])>> ELSE <<>>
           s2 == <<W("rule", x, NewRule(r, l, i))>>
           s3 == IF l = 0 THEN <<>> ELSE <<W("rule", l, [next |-> x])>>
           s4 == <<W("indx", i, [tbl |-> x, next |-> 0])>>
           s5 == IF k = 0 THEN <<>> ELSE <<W("indx", k, [next |-> i])>>
           R(n, b) == Chain(n, "rule", b)
           D(n, b) == Chain(n, "indx", b)
<1>1. /\ x \in Entries /\ ~Rule(m, x).enable /\ Rule(m, x).next = 0 /\ x # l
      /\ l # 0 => x \in Expn /\ l \in Entries /\ Rule(m, l).next = 0
      /\ l \in Entries \cup {0}
  BY Positions DEF RulePlace
<1>2. /\ i \in Entries /\ Index(m, i).tbl = 0 /\ Index(m, i).next = 0 /\ i # k
      /\ k # 0 => i \in Expn /\ k \in Entries /\ Index(m, k).next = 0
      /\ k \in Entries \cup {0}
  BY Positions DEF IndexPlace
<1>3. Adds(m, m, x)
  BY <1>1, SettledDangle DEF Adds, Shown, SameId, Settled
<1>4. PICK m1 : /\ Through(m, s1, m1, x) /\ Adds(m, m1, x)
                /\ SameRule(m, m1) /\ SameIndex(m, m1) /\ (i \in Expn => Meta(m1, i).prev = k)
                /\ \A j \in Expn \ {i} : Meta(m1, j) = Meta(m, j)
                /\ \A b \in Base : R(m1, b) = R(m, b) /\ D(m1, b) = D(m, b)
  <2>1. CASE i \in Expn
    BY <1>1, <1>2, <1>3, <2>1, AddMeta
  <2>2. CASE i \notin Expn
    BY <1>3, <2>2, ThroughNone DEF SameRule, SameIndex
  <2> QED
    BY <2>1, <2>2
<1>5. PICK m2 : /\ Through(m1, s2, m2, x) /\ Adds(m, m2, x)
                /\ Rule(m2, x) = NewRule(r, l, i) /\ \A y \in Entries \ {x} : Rule(m2, y) = Rule(m, y)
                /\ SameIndex(m, m2) /\ SameMeta(m1, m2)
                /\ \A b \in Base : R(m2, b) = R(m, b) /\ D(m2, b) = D(m, b)
  <2>1. /\ NewRule(r, l, i) \in RuleRec /\ ~NewRule(r, l, i).enable /\ NewRule(r, l, i).next = 0
    BY <1>1, <1>2 DEF NewRule, EmptyRule, RuleRec
  <2>2. Rule(m1, x).next = 0 /\ \A y \in Entries : Rule(m1, y) = Rule(m, y)
    BY <1>1, <1>4 DEF SameRule
  <2> DEFINE w == W("rule", x, NewRule(r, l, i))
             n == Write(m1, w)
  <2>3. /\ Through(m1, <<w>>, n, x) /\ Adds(m, n, x)
        /\ Rule(n, x) = NewRule(r, l, i) /\ \A y \in Entries \ {x} : Rule(n, y) = Rule(m1, y)
        /\ SameIndex(m1, n) /\ SameMeta(m1, n)
        /\ \A b \in Base : R(n, b) = R(m1, b) /\ D(n, b) = D(m1, b)
    BY <1>1, <1>4, <2>1, <2>2, AddRecord
  <2> HIDE DEF n
  <2> QED
    BY <1>4, <2>2, <2>3 DEF SameIndex
<1>6. PICK m3 : /\ Through(m2, s3, m3, x) /\ Adds(m, m3, x)
                /\ Rule(m3, x) = NewRule(r, l, i)
                /\ l # 0 => Rule(m3, l) = [Rule(m, l) EXCEPT !.next = x]
                /\ \A y \in Entries \ {x, l} : Rule(m3, y) = Rule(m, y)
                /\ SameIndex(m, m3) /\ SameMeta(m1, m3)
                /\ \A b \in Base : /\ R(m3, b) = R(m, b) \cup {y \in {x} : l \in R(m, b)}
                                   /\ D(m3, b) = D(m, b)
  <2>1. CASE l = 0
    <3>1. \A b \in Base : R(m, b) = R(m, b) \cup {y \in {x} : l \in R(m, b)}
      BY <2>1, ChainIn, Positions DEF Settled
    <3> HIDE DEF R, D
    <3> QED
      BY <1>5, <2>1, <3>1, ThroughNone
  <2>2. CASE l # 0
    <3> DEFINE w == W("rule", l, [next |-> x])
               n == Write(m2, w)
    <3>1. Rule(m2, l) = Rule(m, l) /\ Rule(m2, x).next = 0
      BY <1>1, <1>5, <2>2 DEF NewRule, EmptyRule
    <3>2. /\ Through(m2, <<w>>, n, x) /\ Adds(m, n, x)
          /\ Rule(n, l) = [Rule(m2, l) EXCEPT !.next = x]
          /\ \A y \in Entries \ {l} : Rule(n, y) = Rule(m2, y)
          /\ SameIndex(m2, n) /\ SameMeta(m2, n)
          /\ \A b \in Base : /\ R(n, b) = R(m2, b) \cup {y \in {x} : l \in R(m2, b)}
                             /\ D(n, b) = D(m2, b)
      BY <1>1, <1>5, <2>2, <3>1, AddLink
    <3> HIDE DEF n, R, D
    <3>3. /\ Rule(n, x) = NewRule(r, l, i) /\ Rule(n, l) = [Rule(m, l) EXCEPT !.next = x]
          /\ \A y \in Entries \ {x, l} : Rule(n, y) = Rule(m, y)
          /\ SameIndex(m, n) /\ SameMeta(m1, n)
      BY <1>1, <1>5, <2>2, <3>1, <3>2 DEF SameIndex, SameMeta
    <3>4. \A b \in Base : /\ R(n, b) = R(m, b) \cup {y \in {x} : l \in R(m, b)}
                          /\ D(n, b) = D(m, b)
      BY <1>5, <3>2
    <3> QED
      BY <2>2, <3>2, <3>3, <3>4
  <2> QED
    BY <2>1, <2>2
<1>7. PICK m4 : /\ Through(m3, s4, m4, x) /\ Adds(m, m4, x)
                /\ SameRule(m3, m4) /\ SameMeta(m1, m4)
                /\ Index(m4, i).tbl = x /\ Index(m4, i).next = 0
                /\ \A j \in Entries \ {i} : Index(m4, j) = Index(m, j)
                /\ \A b \in Base : /\ R(m4, b) = R(m3, b) /\ D(m4, b) = D(m, b)
  <2> DEFINE w == W("indx", i, [tbl |-> x, next |-> 0])
             n == Write(m3, w)
  <2>1. Index(m3, i) = Index(m, i)
    BY <1>2, <1>6 DEF SameIndex
  <2>2. /\ Through(m3, <<w>>, n, x) /\ Adds(m, n, x)
        /\ Index(n, i).tbl = x /\ Index(n, i).next = 0
        /\ \A y \in Entries \ {i} : Index(n, y) = Index(m3, y)
        /\ SameRule(m3, n) /\ SameMeta(m3, n)
        /\ \A b \in Base : R(n, b) = R(m3, b) /\ D(n, b) = D(m3, b)
    BY <1>1, <1>2, <1>6, <2>1, AddIndex
  <2> HIDE DEF n, R, D
  <2>3. SameMeta(m1, n) /\ \A j \in Entries \ {i} : Index(n, j) = Index(m, j)
    BY <1>6, <2>2 DEF SameMeta, SameIndex
  <2> QED
    BY <1>6, <2>2, <2>3
<1>8. PICK m5 : /\ Through(m4, s5, m5, x) /\ Adds(m, m5, x)
                /\ SameRule(m3, m5) /\ SameMeta(m1, m5)
                /\ Index(m5, i).tbl = x /\ Index(m5, i).next = 0
                /\ k # 0 => Index(m5, k) = [Index(m, k) EXCEPT !.next = i]
                /\ \A j \in Entries \ {i, k} : Index(m5, j) = Index(m, j)
                /\ \A b \in Base : /\ R(m5, b) = R(m3, b)
                                   /\ D(m5, b) = D(m, b) \cup {y \in {i} : k \in D(m, b)}
  <2>1. CASE k = 0
    <3>1. \A b \in Base : D(m, b) = D(m, b) \cup {y \in {i} : k \in D(m, b)}
      BY <2>1, ChainIn, Positions DEF Settled
    <3> HIDE DEF R, D
    <3> QED
      BY <1>7, <2>1, <3>1, ThroughNone
  <2>2. CASE k # 0
    <3> DEFINE w == W("indx", k, [next |-> i])
               n == Write(m4, w)
    <3>1. Index(m4, k) = Index(m, k)
      BY <1>2, <1>7, <2>2
    <3>2. /\ Through(m4, <<w>>, n, x) /\ Adds(m, n, x)
          /\ Index(n, k) = [Index(m4, k) EXCEPT !.next = i]
          /\ \A y \in Entries \ {k} : Index(n, y) = Index(m4, y)
          /\ SameRule(m4, n) /\ SameMeta(m4, n)
          /\ \A b \in Base : /\ D(n, b) = D(m4, b) \cup {y \in {i} : k \in D(m4, b)}
                             /\ R(n, b) = R(m4, b)
      BY <1>1, <1>2, <1>7, <2>2, <3>1, AddIndexLink
    <3> HIDE DEF n, R, D
    <3>3. /\ SameRule(m3, n) /\ SameMeta(m1, n)
          /\ Index(n, i) = Index(m4, i) /\ Index(n, k) = [Index(m, k) EXCEPT !.next = i]
          /\ \A j \in Entries \ {i, k} : Index(n, j) = Index(m, j)
      BY <1>2, <1>7, <3>1, <3>2 DEF SameRule, SameMeta
    <3>4. \A b \in Base : /\ R(n, b) = R(m3, b)
                          /\ D(n, b) = D(m, b) \cup {y \in {i} : k \in D(m, b)}
      BY <1>7, <3>2
    <3> QED
      BY <1>7, <2>2, <3>2, <3>3, <3>4
  <2> QED
    BY <2>1, <2>2
<1>9. Through(m, (((s1 \o s2) \o s3) \o s4) \o s5, m5, x)
  <2> HIDE DEF s1, s2, s3, s4, s5
  <2>1. Through(m, s1 \o s2, m2, x)
    BY <1>4, <1>5, ThroughCat
  <2>2. Through(m, (s1 \o s2) \o s3, m3, x)
    BY <1>6, <2>1, ThroughCat
  <2>3. Through(m, ((s1 \o s2) \o s3) \o s4, m4, x)
    BY <1>7, <2>2, ThroughCat
  <2> QED
    BY <1>8, <2>3, ThroughCat
<1>10. AddedShape(m, m5, r, x, l, i, k)
  <2>1. /\ Rule(m5, x) = NewRule(r, l, i)
        /\ l # 0 => Rule(m5, l) = [Rule(m, l) EXCEPT !.next = x]
        /\ \A y \in Entries \ {x, l} : Rule(m5, y) = Rule(m, y)
    BY <1>1, <1>6, <1>8 DEF SameRule
  <2>2. /\ i \in Expn => Meta(m5, i).prev = k
        /\ \A j \in Expn \ {i} : Meta(m5, j) = Meta(m, j)
    BY <1>4, <1>8 DEF SameMeta
  <2> QED
    BY <1>6, <1>8, <2>1, <2>2 DEF AddedShape
<1> QED
  BY <1>8, <1>9, <1>10 DEF AddPrefix

Enables(m0, m, m2, r, x, l, i) ==
  /\ Moves(m, m2) /\ NoDangle(m2, {}) /\ Mem(m2) /\ SameId(m0, m2)
  /\ r \in Inst(m2)
  /\ Rule(m2, x) = [NewRule(r, l, i) EXCEPT !.enable = TRUE]
  /\ \A y \in Entries \ {x} : Rule(m2, y) = Rule(m, y)
  /\ SameIndex(m, m2) /\ SameMeta(m, m2)
  /\ \A b \in Base : /\ Chain(m2, "rule", b) = Chain(m, "rule", b)
                     /\ Chain(m2, "indx", b) = Chain(m, "indx", b)

(* The enable flag is the moment at which the hardware has the rule, ...      *)
LEMMA Enabling ==
  ASSUME NEW m0, Settled(m0), NEW r \in Rules, \A g \in Handles : Id(m0, g).rule # r,
         NEW x, NEW l, RulePlace(m0, DstHash[r], x, l),
         NEW i, NEW k, IndexPlace(m0, SrcHash[r], i, k),
         NEW m, Mem(m), ~Shown(m, x), NoDangle(m, {x}), SameId(m0, m), AddedShape(m0, m, r, x, l, i, k)
  PROVE  Enables(m0, m, Write(m, W("rule", x, [enable |-> TRUE])), r, x, l, i)
<1> DEFINE m2 == Write(m, W("rule", x, [enable |-> TRUE]))
<1>0. /\ x \in Entries /\ i \in Entries /\ DstHash[r] \in Base /\ SrcHash[r] \in Base /\ ~Rule(m0, x).enable
  BY TableAssumption DEF RulePlace, IndexPlace
<1>1. RuleTo(m, m2, x, [Rule(m, x) EXCEPT !.enable = TRUE])
  BY <1>0, RuleWritten
<1> HIDE DEF m2
<1>2. /\ Mem(m2) /\ Rule(m2, x) = [NewRule(r, l, i) EXCEPT !.enable = TRUE]
      /\ \A y \in Entries \ {x} : Rule(m2, y) = Rule(m, y)
      /\ SameIndex(m, m2) /\ SameMeta(m, m2) /\ SameId(m, m2)
  BY <1>1 DEF RuleTo, AddedShape
<1>3. /\ Rule(m2, x).rule = r /\ Rule(m2, x).enable /\ ~Rule(m2, x).invalid
      /\ Rule(m, x).rule = r /\ Rule(m, x).next = 0 /\ Rule(m2, x).next = 0
  BY <1>2 DEF AddedShape, NewRule, EmptyRule
<1>4. /\ Off(m, m2, x)
      /\ \A b \in Base : /\ Chain(m2, "rule", b) = Chain(m, "rule", b)
                         /\ Chain(m2, "indx", b) = Chain(m, "indx", b)
                         /\ InIndex(m2, b, x) <=> InIndex(m, b, x)
  BY <1>0, <1>2, <1>3, RuleOff DEF SameIndex
<1>5. NoDangle(m2, {})
  BY <1>3, <1>4, OffDangle DEF NoDangle
<1>6. InRule(m2, DstHash[r], x) /\ InIndex(m2, SrcHash[r], x)
  <2>1. x \in Chain(m, "rule", DstHash[r])
    BY <1>0, ChainIn, Positions DEF AddedShape, RulePlace, Settled
  <2>2. i \in Chain(m, "indx", SrcHash[r])
    BY <1>0, ChainIn, Positions DEF AddedShape, IndexPlace, Settled
  <2>3. InIndex(m, SrcHash[r], x)
    BY <2>2 DEF AddedShape, InIndex
  <2> QED
    BY <1>0, <1>3, <1>4, <2>1, <2>3 DEF InRule, Shown
<1>7. Finds(m2, r)
  BY <1>0, <1>3, <1>6 DEF Finds
<1>8. ~Finds(m, r)
  <2> SUFFICES ASSUME NEW y \in Entries, InRule(m, DstHash[r], y), Rule(m, y).rule = r PROVE FALSE
    BY DEF Finds
  <2>1. y # x /\ Shown(m, y)
    BY DEF InRule
  <2>2. Shown(m0, y) /\ Rule(m0, y).rule = r
    <3>1. CASE y = l
      <4>1. Rule(m0, l) \in RuleRec /\ l # 0
        BY <3>1, Positions DEF Settled, Mem
      <4>2. Rule(m, l) = [Rule(m0, l) EXCEPT !.next = x]
        BY <4>1 DEF AddedShape
      <4> QED
        BY <2>1, <3>1, <4>1, <4>2 DEF Shown, RuleRec
    <3>2. CASE y # l
      BY <2>1, <3>2 DEF AddedShape, Shown
    <3> QED
      BY <3>1, <3>2
  <2> QED
    BY <2>2, SettledOwner
<1>9. ASSUME NEW s \in Rules, s # r PROVE Finds(m2, s) <=> Finds(m, s)
  <2>1. DstHash[s] \in Base /\ SrcHash[s] \in Base
    BY TableAssumption
  <2>2. Finds(m, s) => \E y \in Entries \ {x} : InRule(m, DstHash[s], y) /\ Rule(m, y).rule = s /\ InIndex(m, SrcHash[s], y)
    BY <1>3, <1>9 DEF Finds
  <2>3. Finds(m2, s) => \E y \in Entries \ {x} : InRule(m2, DstHash[s], y) /\ Rule(m2, y).rule = s /\ InIndex(m2, SrcHash[s], y)
    BY <1>3, <1>9 DEF Finds
  <2> QED
    BY <1>4, <2>1, <2>2, <2>3 DEF Off, Finds
<1>10. r \notin Inst(m) /\ Inst(m2) = Inst(m) \cup {r}
  BY <1>7, <1>8, <1>9 DEF Inst
<1>11. Given(m2) = Given(m)
  BY <1>2, GivenSame DEF SameId
<1>12. Moves(m, m2)
  BY <1>10, <1>11 DEF Moves
<1>13. SameId(m0, m2)
  BY <1>2 DEF SameId
<1> QED
  BY <1>2, <1>4, <1>5, <1>10, <1>12, <1>13 DEF m2, Enables

(* ... and then its handle is given out.                                      *)
LEMMA Giving ==
  ASSUME NEW m, Mem(m), NEW r \in Rules, \A g \in Handles : Id(m, g).rule # r, r \in Inst(m),
         NEW h \in Handles, Id(m, h).entry = 0, NEW x \in Entries, NoDangle(m, {})
  PROVE  LET m2 == Write(m, W("id", h, [entry |-> x, rule |-> r]))
         IN  /\ Moves(m, m2) /\ NoDangle(m2, {}) /\ Mem(m2)
             /\ Id(m2, h).entry = x /\ Id(m2, h).rule = r
             /\ \A g \in Handles \ {h} : Id(m2, g) = Id(m, g)
             /\ SameRule(m, m2) /\ SameIndex(m, m2) /\ SameMeta(m, m2)
             /\ \A b \in Base : /\ Chain(m2, "rule", b) = Chain(m, "rule", b)
                                /\ Chain(m2, "indx", b) = Chain(m, "indx", b)
<1> DEFINE rec == [entry |-> x, rule |-> r]
           m2 == Write(m, W("id", h, rec))
<1>0. rec \in IdRec /\ rec.entry = x /\ rec.rule = r /\ x # 0
  BY Positions DEF IdRec
<1> HIDE DEF rec
<1>1. IdTo(m, m2, h, rec)
  BY <1>0, OtherWritten
<1> HIDE DEF m2
<1>2. /\ Mem(m2) /\ Id(m2, h).entry = x /\ Id(m2, h).rule = r
      /\ \A g \in Handles \ {h} : Id(m2, g) = Id(m, g)
      /\ SameRule(m, m2) /\ SameIndex(m, m2) /\ SameMeta(m, m2)
  BY <1>0, <1>1 DEF IdTo
<1>3. Alike(m, m2)
  BY <1>2 DEF Alike, SameRule, SameIndex
<1>4. \A y \in Entries : Off(m, m2, y)
  BY <1>2, <1>3, AlikeOff
<1>5. /\ \A b \in Base : /\ Chain(m2, "rule", b) = Chain(m, "rule", b)
                         /\ Chain(m2, "indx", b) = Chain(m, "indx", b)
      /\ \A b \in Base : InIndex(m2, b, x) <=> InIndex(m, b, x)
  BY <1>2, <1>3, AlikeOff
<1>6. \A s \in Rules : Finds(m2, s) <=> Finds(m, s)
  <2>1. \A b \in Base, y \in Entries : /\ InRule(m2, b, y) <=> InRule(m, b, y)
                                       /\ InIndex(m2, b, y) <=> InIndex(m, b, y)
    BY <1>2, <1>5, ChainIn, Positions DEF InRule, InIndex, Shown, SameRule, SameIndex
  <2> QED
    BY <1>2, <2>1, TableAssumption DEF Finds, SameRule
<1>7. Inst(m2) = Inst(m)
  BY <1>6 DEF Inst
<1>8. NoDangle(m2, {})
  <2>1. \A b \in Base, y \in Entries : InIndex(m2, b, y) <=> InIndex(m, b, y)
    BY <1>2, <1>5, ChainIn, Positions DEF InIndex, SameIndex
  <2> QED
    BY <1>2, <2>1 DEF NoDangle, SameRule
<1>9. Held(m2) = Held(m) \cup {h} /\ h \notin Held(m)
  BY <1>0, <1>2 DEF Held
<1>10. Given(m2) = [g \in Held(m) \cup {h} |-> IF g = h THEN r ELSE Given(m)[g]]
  BY <1>2, <1>9 DEF Given, Held
<1>11. \A g \in Held(m) : Given(m)[g] # r
  BY DEF Given, Held
<1>12. Moves(m, m2)
  BY <1>7, <1>9, <1>10, <1>11 DEF Moves
<1> QED
  BY <1>2, <1>5, <1>8, <1>12 DEF m2, rec

(* An addition to a settled table: between any two of its writes the table is *)
(* a set of rules and no index dangles, and after the last it is settled      *)
(* again.                                                                     *)
LEMMA AddSafe ==
  ASSUME NEW m, Settled(m), NEW r \in Rules, \A h \in Handles : Id(m, h).rule # r,
         NEW p \in Place(m, "rule", DstHash[r]), NEW q \in Place(m, "indx", SrcHash[r])
  PROVE  Safe(m, AddWrites(m, r, p, q, "none"))
<1> DEFINE x == p.entry
           l == p.prev
           i == q.entry
           k == q.prev
           h == FreeHandle(m)
           w1 == W("rule", x, [enable |-> TRUE])
           w2 == W("id", h, [entry |-> x, rule |-> r])
<1>1. RulePlace(m, DstHash[r], x, l) /\ IndexPlace(m, SrcHash[r], i, k)
  BY PlaceRule, PlaceIndex, TableAssumption
<1>2. h \in Handles /\ Id(m, h).entry = 0
  BY HandleFree
<1>3. AddWrites(m, r, p, q, "none") = AddPrefix(r, x, l, i, k) \o <<w1, w2>>
  <2>1. /\ Link("rule", p, "none" = "link") = IF l = 0 THEN <<>> ELSE <<W("rule", l, [next |-> x])>>
        /\ Link("indx", q, "none" = "indexlink") = IF k = 0 THEN <<>> ELSE <<W("indx", k, [next |-> i])>>
        /\ (IF "none" = "enable" THEN <<>> ELSE <<w1, w2>>) = <<w1, w2>>
    BY DEF Link
  <2>2. [EmptyRule EXCEPT !.rule = r, !.prev = p.prev, !.indx = q.entry] = NewRule(r, l, i)
    BY DEF NewRule
  <2>3. AddWrites(m, r, p, q, "none") =
           (IF i \in Expn THEN <<W("meta", i, [prev |-> k])>> ELSE <<>>)
        \o <<W("rule", x, [EmptyRule EXCEPT !.rule = r, !.prev = p.prev, !.indx = q.entry])>>
        \o Link("rule", p, "none" = "link")
        \o <<W("indx", i, [tbl |-> x, next |-> 0])>>
        \o Link("indx", q, "none" = "indexlink")
        \o (IF "none" = "enable" THEN <<>> ELSE <<w1, w2>>)
    BY Zenon DEF AddWrites
  <2> QED
    BY <2>1, <2>2, <2>3, Zenon DEF AddPrefix
<1> HIDE DEF x, l, i, k, h
<1>4. PICK m5 : /\ Through(m, AddPrefix(r, x, l, i, k), m5, x)
                /\ Adds(m, m5, x) /\ AddedShape(m, m5, r, x, l, i, k)
  BY <1>1, AddPrefixThrough
<1> DEFINE m6 == Write(m5, w1)
           m7 == Write(m6, w2)
<1>5. /\ Moves(m5, m6) /\ NoDangle(m6, {}) /\ Mem(m6) /\ SameId(m, m6) /\ r \in Inst(m6)
      /\ Rule(m6, x) = [NewRule(r, l, i) EXCEPT !.enable = TRUE]
      /\ \A y \in Entries \ {x} : Rule(m6, y) = Rule(m5, y)
      /\ SameIndex(m5, m6) /\ SameMeta(m5, m6)
      /\ \A b \in Base : /\ Chain(m6, "rule", b) = Chain(m5, "rule", b)
                         /\ Chain(m6, "indx", b) = Chain(m5, "indx", b)
  <2>1. Mem(m5) /\ ~Shown(m5, x) /\ NoDangle(m5, {x}) /\ SameId(m, m5) /\ AddedShape(m, m5, r, x, l, i, k)
    BY <1>4 DEF Adds
  <2>2. Enables(m, m5, m6, r, x, l, i)
    BY <1>1, <2>1, Enabling
  <2> QED
    BY <2>2 DEF Enables
<1>6. x \in Entries /\ i \in Entries /\ x # l
  BY <1>1, Positions DEF RulePlace, IndexPlace
<1>7. /\ Moves(m6, m7) /\ NoDangle(m7, {}) /\ Mem(m7)
      /\ Id(m7, h).entry = x /\ Id(m7, h).rule = r
      /\ \A g \in Handles \ {h} : Id(m7, g) = Id(m6, g)
      /\ SameRule(m6, m7) /\ SameIndex(m6, m7) /\ SameMeta(m6, m7)
      /\ \A b \in Base : /\ Chain(m7, "rule", b) = Chain(m6, "rule", b)
                         /\ Chain(m7, "indx", b) = Chain(m6, "indx", b)
  <2>1. \A g \in Handles : Id(m6, g) = Id(m, g)
    BY <1>5 DEF SameId
  <2> HIDE DEF m6
  <2> QED
    BY <1>2, <1>5, <1>6, <2>1, Giving
<1> HIDE DEF m6, m7
<1>8. AddShape(m, m7, r, x, l, i, k, h)
  <2>1. /\ Rule(m7, x) = [NewRule(r, l, i) EXCEPT !.enable = TRUE]
        /\ l # 0 => Rule(m7, l) = [Rule(m, l) EXCEPT !.next = x]
        /\ \A y \in Entries \ {x, l} : Rule(m7, y) = Rule(m, y)
    BY <1>1, <1>4, <1>5, <1>6, <1>7 DEF AddedShape, SameRule, RulePlace
  <2>2. /\ Index(m7, i).tbl = x /\ Index(m7, i).next = 0
        /\ k # 0 => Index(m7, k) = [Index(m, k) EXCEPT !.next = i]
        /\ \A j \in Entries \ {i, k} : Index(m7, j) = Index(m, j)
    BY <1>1, <1>4, <1>5, <1>6, <1>7 DEF AddedShape, SameIndex, IndexPlace
  <2>3. /\ i \in Expn => Meta(m7, i).prev = k
        /\ \A j \in Expn \ {i} : Meta(m7, j) = Meta(m, j)
    BY <1>4, <1>5, <1>7 DEF AddedShape, SameMeta
  <2>4. \A g \in Handles \ {h} : Id(m7, g) = Id(m, g)
    BY <1>5, <1>7 DEF SameId
  <2>5. \A b \in Base : /\ Chain(m7, "rule", b) = Chain(m, "rule", b) \cup {y \in {x} : l \in Chain(m, "rule", b)}
                        /\ Chain(m7, "indx", b) = Chain(m, "indx", b) \cup {y \in {i} : k \in Chain(m, "indx", b)}
    BY <1>4, <1>5, <1>7 DEF AddedShape
  <2> QED
    BY <1>7, <2>1, <2>2, <2>3, <2>4, <2>5 DEF AddShape
<1>9. Settled(m7)
  BY <1>1, <1>2, <1>8, AddSettled
<1>10. Safe(m7, <<>>)
  BY <1>7, <1>9, SafeEnd, SettledDangle DEF Good
<1>11. IsSeq(<<>>) /\ IsSeq(<<w1>>) /\ IsSeq(<<w2>>) /\ <<w2>> \o <<>> = <<w2>> /\ <<w1, w2>> = <<w1>> \o <<w2>>
  BY SeqUnit, SeqEmpty, Pairs
<1>12. Safe(m6, <<w2>>)
  <2>1. <<w2>> \o <<>> # <<>> /\ Head(<<w2>> \o <<>>) = w2
    BY <1>11, SeqHead
  <2>2. Good(m6, <<w2>> \o <<>>)
    BY <1>5, <1>7, <2>1 DEF Good, NoDangle, m7
  <2>3. Safe(m6, <<w2>> \o <<>>)
    BY <1>10, <2>2, SafeCons DEF m7
  <2> QED
    BY <1>11, <2>3
<1>13. Safe(m5, <<w1>> \o <<w2>>) /\ Fits(x, <<w1>> \o <<w2>>)
  <2>1. <<w1>> \o <<w2>> # <<>> /\ Head(<<w1>> \o <<w2>>) = w1
    BY <1>11, SeqHead
  <2>2. x \in AddingIn(<<w1>> \o <<w2>>)
    BY <1>6, <1>11, AddingFirst
  <2>3. Good(m5, <<w1>> \o <<w2>>)
    BY <1>4, <1>5, <2>1, <2>2 DEF Good, NoDangle, Adds, m6
  <2> QED
    BY <1>12, <2>2, <2>3, SafeCons DEF m6, Fits
<1>14. Safe(m, AddPrefix(r, x, l, i, k) \o (<<w1>> \o <<w2>>))
  BY <1>4, <1>13 DEF Through
<1> QED
  BY <1>3, <1>11, <1>14 DEF x, l, i, k, h

-------------------------------------------------------------------------------
(* Deleting a rule: handle h is that of rule r in the entry e, i its index.   *)
Deleting(m, h, e, r, i) ==
  /\ Settled(m) /\ h \in Handles /\ Id(m, h).entry = e /\ Id(m, h).rule = r
  /\ e \in Entries /\ r \in Rules /\ OwnedBy(m, h, e, r)
  /\ i \in Entries /\ i = Rule(m, e).indx

(* The rule a handle deletes, its entry and its only index.                   *)
LEMMA DeletingFacts ==
  ASSUME NEW m, NEW h, NEW e, NEW r, NEW i, Deleting(m, h, e, r, i)
  PROVE  /\ Mem(m) /\ DstHash[r] \in Base /\ SrcHash[r] \in Base
         /\ Rule(m, e).enable /\ ~Rule(m, e).invalid /\ Rule(m, e).rule = r
         /\ e \in Chain(m, "rule", DstHash[r])
         /\ Index(m, i).tbl = e /\ i \in Chain(m, "indx", SrcHash[r])
         /\ \A j \in Entries : Index(m, j).tbl = e => j = i
<1>1. DstHash[r] \in Base /\ SrcHash[r] \in Base
  BY TableAssumption DEF Deleting
<1>2. ASSUME NEW j \in Entries, Index(m, j).tbl = e PROVE j = i
  BY <1>2, Positions DEF Deleting, Settled, Indexed
<1> QED
  BY <1>1, <1>2 DEF Deleting, Settled, OwnedBy, Shown

(* The memory during the deletion: no index leads to e any more.              *)
Dels(m0, m, e) == /\ Mem(m) /\ \A b \in Base : ~InIndex(m, b, e)
                  /\ NoDangle(m, {}) /\ SameId(m0, m) /\ Off(m0, m, e)

(* Once no index leads to the entry the hardware has lost its rule and no     *)
(* other.                                                                     *)
LEMMA RemovedInst ==
  ASSUME NEW m, NEW h, NEW e, NEW r, NEW i, Deleting(m, h, e, r, i),
         NEW m2, Off(m, m2, e), \A b \in Base : ~InIndex(m2, b, e)
  PROVE  Inst(m2) = Inst(m) \ {r} /\ r \in Inst(m)
<1>0. Settled(m) /\ h \in Handles /\ Id(m, h).entry = e /\ Id(m, h).rule = r /\ e \in Entries /\ r \in Rules
  BY DEF Deleting
<1>1. ASSUME NEW s \in Rules PROVE Finds(m2, s) <=> Finds(m, s) /\ s # r
  <2>1. DstHash[s] \in Base /\ SrcHash[s] \in Base
    BY TableAssumption
  <2>2. ASSUME Finds(m2, s) PROVE Finds(m, s) /\ s # r
    <3>1. PICK y \in Entries : InRule(m2, DstHash[s], y) /\ Rule(m2, y).rule = s /\ InIndex(m2, SrcHash[s], y)
      BY <2>2 DEF Finds
    <3>2. y # e
      BY <2>1, <3>1
    <3>3. InRule(m, DstHash[s], y) /\ Rule(m, y).rule = s /\ InIndex(m, SrcHash[s], y)
      BY <2>1, <3>1, <3>2 DEF Off
    <3>4. PICK g \in Handles : Id(m, g).entry = y /\ Id(m, g).rule = s
      BY <1>0, <3>3, SettledOwner DEF InRule
    <3>5. \A f \in Handles \ {h} : Id(m, f).rule # r
      BY DEF Deleting, OwnedBy
    <3> QED
      BY <1>0, <3>2, <3>3, <3>4, <3>5 DEF Finds
  <2>3. ASSUME Finds(m, s), s # r PROVE Finds(m2, s)
    <3>1. PICK y \in Entries : InRule(m, DstHash[s], y) /\ Rule(m, y).rule = s /\ InIndex(m, SrcHash[s], y)
      BY <2>3 DEF Finds
    <3>2. y # e
      BY <2>3, <3>1, DeletingFacts
    <3> QED
      BY <2>1, <3>1, <3>2 DEF Off, Finds
  <2> QED
    BY <2>2, <2>3
<1>2. Finds(m, r)
  <2>1. h \in Held(m)
    BY <1>0, Positions DEF Held
  <2> QED
    BY <1>0, <2>1, SettledFinds
<1> QED
  BY <1>0, <1>1, <1>2 DEF Inst

(* The first write takes the rule from the hardware ...                       *)
LEMMA CutStep ==
  ASSUME NEW m, NEW h, NEW e, NEW r, NEW i, Deleting(m, h, e, r, i),
         NEW w, NEW m2, m2 = Write(m, w), Mem(m2), SameId(m, m2),
         Off(m, m2, e), \A b \in Base : ~InIndex(m2, b, e)
  PROVE  Through(m, <<w>>, m2, 0) /\ Dels(m, m2, e)
<1>1. Inst(m2) = Inst(m) \ {r} /\ r \in Inst(m)
  BY RemovedInst
<1>2. Given(m2) = Given(m)
  BY GivenSame DEF SameId
<1>3. h \in Held(m) /\ Given(m)[h] = r
  BY Positions DEF Deleting, Held, Given
<1>4. Moves(m, m2)
  BY <1>1, <1>2, <1>3 DEF Moves
<1>5. NoDangle(m, {e}) /\ NoDangle(m, {0}) /\ Mem(m)
  BY SettledDangle DEF Deleting, Settled
<1>6. NoDangle(m2, {})
  BY <1>5, OffDangle
<1>7. Through(m, <<w>>, m2, 0)
  BY <1>4, <1>5, ThroughStep
<1> QED
  BY <1>6, <1>7 DEF Dels

(* ... and the others it does not see.                                        *)
LEMMA DelStep ==
  ASSUME NEW m0, NEW m, NEW e, Dels(m0, m, e),
         NEW w, NEW m2, m2 = Write(m, w), Mem(m2), SameId(m, m2),
         Off(m, m2, e), \A b \in Base : ~InIndex(m2, b, e)
  PROVE  Through(m, <<w>>, m2, 0) /\ Dels(m0, m2, e)
<1>1. Hidden(m, e) /\ Hidden(m2, e)
  BY DEF Hidden, Dels
<1>2. Moves(m, m2)
  BY <1>1, QuietMove DEF SameId
<1>3. NoDangle(m, {e}) /\ NoDangle(m, {0}) /\ Mem(m)
  BY DEF Dels, NoDangle
<1>4. NoDangle(m2, {})
  BY <1>3, OffDangle
<1>5. Through(m, <<w>>, m2, 0)
  BY <1>2, <1>3, ThroughStep
<1>6. Off(m0, m2, e)
  BY OffTrans DEF Dels
<1>7. SameId(m0, m2)
  BY DEF Dels, SameId
<1> QED
  BY <1>4, <1>5, <1>6, <1>7 DEF Dels

(* What is left is settled again.                                             *)
RulesLeft(m, m2, e) ==
  \A y \in Entries :
    /\ Rule(m2, y).next # 0 => /\ Rule(m2, y).enable /\ Rule(m2, Rule(m2, y).next).enable
                               /\ Rule(m2, Rule(m2, y).next).prev = y
    /\ ~Rule(m2, y).enable => Rule(m2, y).next = 0 /\ ~Rule(m2, y).invalid
    /\ Rule(m2, y).invalid => y \in Base /\ Rule(m2, y).next # 0
    /\ Shown(m2, y) => y # e /\ Shown(m, y)
IndicesLeft(m, m2, e) ==
  \A j \in Entries :
    /\ Index(m2, j).next # 0 => /\ Index(m2, j).tbl # 0 /\ Index(m2, Index(m2, j).next).tbl # 0
                                /\ Meta(m2, Index(m2, j).next).prev = j
    /\ Index(m2, j).tbl = 0 => Index(m2, j).next = 0
    /\ Index(m2, j).tbl # 0 => /\ Index(m2, j).tbl \in Entries \ {e} /\ Shown(m, Index(m2, j).tbl)
                               /\ Rule(m2, Index(m2, j).tbl).indx = j

(* The table after a whole deletion is settled.                               *)
LEMMA DelSettled ==
  ASSUME NEW m, NEW h, NEW e, NEW r, NEW i, Deleting(m, h, e, r, i),
         NEW m2, Mem(m2), Off(m, m2, e), RulesLeft(m, m2, e), IndicesLeft(m, m2, e),
         Id(m2, h).entry = 0, Id(m2, h).rule = NoRule,
         \A g \in Handles \ {h} : Id(m2, g) = Id(m, g)
  PROVE  Settled(m2)
<1>0. /\ Settled(m) /\ h \in Handles /\ Id(m, h).entry = e /\ Id(m, h).rule = r /\ e \in Entries /\ r \in Rules
      /\ \A g \in Handles \ {h} : Id(m, g).entry # e /\ Id(m, g).rule # r
  BY DEF Deleting, OwnedBy
<1>1. ASSUME NEW y \in Entries \ {e}, Shown(m, y)
      PROVE  \E g \in Handles \ {h} : /\ Id(m, g).entry = y /\ OwnedBy(m, g, y, Rule(m, y).rule)
                                      /\ Id(m, g).rule = Rule(m, y).rule
  BY <1>0, <1>1, SettledOwner
<1>2. ASSUME NEW y \in Entries \ {e}, Shown(m, y)
      PROVE  /\ Shown(m2, y) /\ Rule(m2, y).rule = Rule(m, y).rule
             /\ y \in Chain(m2, "rule", DstHash[Rule(m, y).rule])
             /\ Rule(m2, y).indx \in Chain(m2, "indx", SrcHash[Rule(m, y).rule])
             /\ Index(m2, Rule(m2, y).indx).tbl = y
  <2> DEFINE s == Rule(m, y).rule
  <2>1. PICK g \in Handles \ {h} : OwnedBy(m, g, y, s)
    BY <1>1, <1>2
  <2>2. s \in Rules /\ DstHash[s] \in Base /\ SrcHash[s] \in Base
    BY <2>1, TableAssumption DEF OwnedBy
  <2> HIDE DEF s
  <2>3. InRule(m, DstHash[s], y) /\ InIndex(m, SrcHash[s], y)
    BY <1>2, <2>1 DEF OwnedBy, InRule, InIndex
  <2>4. InRule(m2, DstHash[s], y) /\ InIndex(m2, SrcHash[s], y) /\ Rule(m2, y).rule = Rule(m, y).rule
    BY <2>2, <2>3 DEF Off
  <2>5. PICK j \in Chain(m2, "indx", SrcHash[s]) : Index(m2, j).tbl = y
    BY <2>4 DEF InIndex
  <2>6. j \in Entries
    BY <2>2, <2>5, ChainIn, Positions
  <2>7. Rule(m2, y).indx = j
    BY <2>5, <2>6, Positions DEF IndicesLeft
  <2> QED
    BY <2>4, <2>5, <2>7 DEF InRule, s
<1>3. Back(m2)
  <2> SUFFICES ASSUME NEW y \in Entries, Shown(m2, y) PROVE \E g \in Handles : Id(m2, g).entry = y
    BY DEF Back, RulesLeft
  <2>1. y # e /\ Shown(m, y)
    BY DEF RulesLeft
  <2>2. PICK g \in Handles \ {h} : Id(m, g).entry = y
    BY <1>1, <2>1
  <2> QED
    BY <2>2
<1>4. Indexed(m2)
  BY <1>2 DEF IndicesLeft, Indexed
<1>5. Owned(m2)
  <2>1. ASSUME NEW g \in Handles \ {h}
        PROVE  /\ Id(m2, g).entry = 0 => Id(m2, g).rule = NoRule
               /\ Id(m2, g).entry # 0 => OwnedBy(m2, g, Id(m2, g).entry, Id(m2, g).rule)
    <3> DEFINE y == Id(m, g).entry
               s == Id(m, g).rule
    <3>1. Id(m2, g).entry = y /\ Id(m2, g).rule = s /\ (y = 0 => s = NoRule)
      BY <1>0 DEF Settled, Owned
    <3>2. ASSUME y # 0 PROVE OwnedBy(m2, g, y, s)
      <4>1. OwnedBy(m, g, y, s) /\ y \in Entries /\ y # e
        BY <1>0, <3>2 DEF Settled, Owned, Mem, IdRec
      <4> HIDE DEF y, s
      <4>2. Shown(m, y) /\ Rule(m, y).rule = s /\ s \in Rules
        BY <4>1 DEF OwnedBy
      <4>3. \A f \in Handles \ {g} : Id(m2, f).entry # y /\ Id(m2, f).rule # s
        BY <1>0, <4>1, <4>2, Positions, TableAssumption DEF OwnedBy
      <4> QED
        BY <1>2, <4>1, <4>2, <4>3 DEF OwnedBy
    <3> QED
      BY <3>1, <3>2
  <2> QED
    BY <2>1 DEF Owned
<1> QED
  BY <1>3, <1>4, <1>5 DEF Settled

(* The index i: the only one of its chain, a head, or in the expansion table. *)
OnlyCut(m, m2, i) == /\ Index(m2, i).tbl = 0 /\ Index(m2, i).next = 0
                     /\ \A j \in Entries \ {i} : Index(m2, j) = Index(m, j)
HeadCut(m, m2, i, n) == /\ Index(m2, i).tbl = Index(m, n).tbl /\ Index(m2, i).next = Index(m, n).next
                        /\ \A j \in Entries \ {i} : Index(m2, j) = Index(m, j)
                        /\ \A b \in Base : n \notin Chain(m2, "indx", b)
TailCut(m, m2, i, q) == /\ Index(m2, q).tbl = Index(m, q).tbl /\ Index(m2, q).next = Index(m, i).next
                        /\ \A j \in Entries \ {q} : Index(m2, j) = Index(m, j)
                        /\ \A b \in Base : i \notin Chain(m2, "indx", b)
IndexCut(m, m2, i) ==
  /\ i \in Base /\ Index(m, i).next = 0 => OnlyCut(m, m2, i)
  /\ i \in Base /\ Index(m, i).next # 0 => HeadCut(m, m2, i, Index(m, i).next)
  /\ i \in Expn => TailCut(m, m2, i, Meta(m, i).prev)

(* The index that is the only one of its chain is emptied ...                 *)
LEMMA OnlyIndex ==
  ASSUME NEW m, NEW h, NEW e, NEW r, NEW i, Deleting(m, h, e, r, i), Index(m, i).next = 0
  PROVE  LET w == W("indx", i, [tbl |-> 0])
             m2 == Write(m, w)
         IN  /\ Through(m, <<w>>, m2, 0) /\ Dels(m, m2, e) /\ SameRule(m, m2) /\ SameMeta(m, m2)
             /\ OnlyCut(m, m2, i)
<1> DEFINE w == W("indx", i, [tbl |-> 0])
           m2 == Write(m, w)
<1>0. /\ Mem(m) /\ i \in Entries /\ e \in Entries /\ Index(m, i).tbl = e
      /\ \A j \in Entries : Index(m, j).tbl = e => j = i
  BY DeletingFacts DEF Deleting
<1>1. IndexTo(m, m2, i, [Index(m, i) EXCEPT !.tbl = 0])
  BY <1>0, IndexWritten
<1> HIDE DEF w, m2
<1>2. /\ Mem(m2) /\ \A j \in Entries \ {i} : Index(m2, j) = Index(m, j)
      /\ SameRule(m, m2) /\ SameMeta(m, m2) /\ SameId(m, m2)
      /\ Index(m2, i).tbl = 0 /\ Index(m2, i).next = 0
  BY <1>0, <1>1 DEF IndexTo, Mem, IndexRec
<1>3. Off(m, m2, e)
  BY <1>0, <1>2, IndexOff DEF SameRule
<1>4. ASSUME NEW b \in Base PROVE ~InIndex(m2, b, e)
  BY <1>0, <1>2, ChainIn, Positions DEF InIndex
<1>5. Through(m, <<w>>, m2, 0) /\ Dels(m, m2, e)
  BY <1>2, <1>3, <1>4, CutStep DEF m2
<1> QED
  BY <1>2, <1>5 DEF OnlyCut, w, m2

(* ... the first of a chain takes over the next one, in two writes of which   *)
(* the first already hides the rule ...                                       *)
LEMMA HeadIndex ==
  ASSUME NEW m, NEW h, NEW e, NEW r, NEW i, Deleting(m, h, e, r, i), Index(m, i).next # 0
  PROVE  LET n == Index(m, i).next
             w1 == W("indx", i, [tbl |-> Index(m, n).tbl])
             w2 == W("indx", i, [next |-> Index(m, n).next])
             m2 == Write(Write(m, w1), w2)
         IN  /\ Through(m, <<w1, w2>>, m2, 0) /\ Dels(m, m2, e) /\ SameRule(m, m2) /\ SameMeta(m, m2)
             /\ HeadCut(m, m2, i, n)
<1> DEFINE n == Index(m, i).next
           w1 == W("indx", i, [tbl |-> Index(m, n).tbl])
           w2 == W("indx", i, [next |-> Index(m, n).next])
           m1 == Write(m, w1)
           m2 == Write(m1, w2)
<1>0. /\ Mem(m) /\ Settled(m) /\ i \in Entries /\ e \in Entries /\ Index(m, i).tbl = e
      /\ \A j \in Entries : Index(m, j).tbl = e => j = i
  BY DeletingFacts DEF Deleting
<1>a. n \in Expn /\ n \in Entries /\ n # i /\ \A y \in Entries : Index(m, y).next = n => y = i
  BY <1>0, SettledIndexLinks, Positions
<1>b. /\ Index(m, n).tbl \in Entries /\ Index(m, n).next \in Expn \cup {0}
      /\ Index(m, n).tbl # e
  BY <1>0, <1>a, SettledIndexLinks, MemLinks
<1>1. IndexTo(m, m1, i, [Index(m, i) EXCEPT !.tbl = Index(m, n).tbl])
  <2>1. Index(m, n).tbl \in Entries \cup {0}
    BY <1>b
  <2> QED
    BY <1>0, <2>1, IndexWritten
<1> HIDE DEF m1
<1>2. /\ Mem(m1) /\ \A j \in Entries \ {i} : Index(m1, j) = Index(m, j)
      /\ SameRule(m, m1) /\ SameMeta(m, m1) /\ SameId(m, m1)
      /\ Index(m1, i).tbl = Index(m, n).tbl /\ Index(m1, i).next = n
  <2>1. Index(m, i) \in IndexRec
    BY <1>0 DEF Mem
  <2>2. [Index(m, i) EXCEPT !.tbl = Index(m, n).tbl].next = n /\ [Index(m, i) EXCEPT !.tbl = Index(m, n).tbl].tbl = Index(m, n).tbl
    BY <2>1 DEF IndexRec
  <2> QED
    BY <1>1, <2>2 DEF IndexTo
<1>3. Off(m, m1, e)
  BY <1>0, <1>a, <1>2, TakeOverOff DEF SameRule
<1>4. ASSUME NEW b \in Base PROVE ~InIndex(m1, b, e)
  <2>1. \A j \in Entries : Index(m1, j).tbl # e
    BY <1>0, <1>b, <1>2
  <2> QED
    BY <1>2, <2>1, ChainIn, Positions DEF InIndex
<1>5. Through(m, <<w1>>, m1, 0) /\ Dels(m, m1, e)
  BY <1>2, <1>3, <1>4, CutStep DEF m1
<1>6. IndexTo(m1, m2, i, [Index(m1, i) EXCEPT !.next = Index(m, n).next])
  BY <1>0, <1>b, <1>2, IndexWritten
<1> HIDE DEF m2
<1>7. /\ Mem(m2) /\ \A j \in Entries \ {i} : Index(m2, j) = Index(m1, j)
      /\ SameRule(m1, m2) /\ SameMeta(m1, m2) /\ SameId(m1, m2)
      /\ Index(m2, i).tbl = Index(m, n).tbl /\ Index(m2, i).next = Index(m, n).next
  <2>1. Index(m1, i) \in IndexRec
    BY <1>0, <1>2 DEF Mem
  <2>2. /\ [Index(m1, i) EXCEPT !.next = Index(m, n).next].next = Index(m, n).next
        /\ [Index(m1, i) EXCEPT !.next = Index(m, n).next].tbl = Index(m1, i).tbl
    BY <2>1 DEF IndexRec
  <2> QED
    BY <1>2, <1>6, <2>2 DEF IndexTo
<1>8. /\ Off(m1, m2, e)
      /\ \A b \in Base : Chain(m2, "indx", b) = Chain(m1, "indx", b) \ {n}
  <2>1. /\ Index(m1, i).next = n /\ \A y \in Entries : Index(m1, y).next = n => y = i
        /\ Index(m1, n).tbl = Index(m1, i).tbl
        /\ Index(m2, i).next = Index(m1, n).next /\ Index(m2, i).tbl = Index(m1, i).tbl
    BY <1>0, <1>a, <1>2, <1>7
  <2> QED
    BY <1>0, <1>2, <1>7, <1>a, <2>1, IndexUnlinkOff DEF SameRule
<1>9. ASSUME NEW b \in Base PROVE ~InIndex(m2, b, e)
  <2>1. \A j \in Entries : Index(m2, j).tbl # e
    BY <1>0, <1>b, <1>2, <1>7
  <2> QED
    BY <1>7, <2>1, ChainIn, Positions DEF InIndex
<1>10. Through(m1, <<w2>>, m2, 0) /\ Dels(m, m2, e)
  BY <1>5, <1>7, <1>8, <1>9, DelStep DEF m2
<1>11. Through(m, <<w1, w2>>, m2, 0)
  BY <1>5, <1>10, ThroughCat, Pairs
<1>12. HeadCut(m, m2, i, n) /\ SameRule(m, m2) /\ SameMeta(m, m2)
  BY <1>2, <1>7, <1>8 DEF HeadCut, SameRule, SameMeta
<1> QED
  BY <1>10, <1>11, <1>12 DEF m1, m2

(* (the back link of an index in the expansion table is right)                *)
LEMMA TailPrev ==
  ASSUME NEW m, NEW h, NEW e, NEW r, NEW i, Deleting(m, h, e, r, i), i \in Expn
  PROVE  /\ Meta(m, i).prev \in Entries /\ Meta(m, i).prev # i /\ Index(m, Meta(m, i).prev).next = i
         /\ \A y \in Entries : Index(m, y).next = i => y = Meta(m, i).prev
<1>0. Mem(m) /\ Settled(m) /\ i \in Chain(m, "indx", SrcHash[r]) /\ SrcHash[r] \in Base /\ i # 0
  BY DeletingFacts, Positions DEF Deleting
<1>1. PICK z \in Chain(m, "indx", SrcHash[r]) : z # i /\ NextOf(m, "indx", z) = i
  BY <1>0, ChainPred, MemLinks
<1>2. z \in Entries /\ Index(m, z).next = i
  BY <1>0, <1>1, ChainIn, MemLinks, Positions
<1>3. Meta(m, i).prev = z /\ \A y \in Entries : Index(m, y).next = i => y = z
  BY <1>0, <1>2, SettledIndexLinks
<1> QED
  BY <1>1, <1>2, <1>3

(* ... and the one before any other leads on to the one after it.             *)
LEMMA TailIndex ==
  ASSUME NEW m, NEW h, NEW e, NEW r, NEW i, Deleting(m, h, e, r, i), i \in Expn
  PROVE  LET q == Meta(m, i).prev
             w == W("indx", q, [next |-> Index(m, i).next])
             m2 == Write(m, w)
         IN  /\ Through(m, <<w>>, m2, 0) /\ Dels(m, m2, e) /\ SameRule(m, m2) /\ SameMeta(m, m2)
             /\ TailCut(m, m2, i, q)
<1> DEFINE q == Meta(m, i).prev
           w == W("indx", q, [next |-> Index(m, i).next])
           m2 == Write(m, w)
<1>0. /\ Mem(m) /\ i \in Entries /\ e \in Entries /\ Index(m, i).tbl = e
      /\ \A j \in Entries : Index(m, j).tbl = e => j = i
      /\ Index(m, i).next \in Expn \cup {0}
  BY DeletingFacts, MemLinks DEF Deleting
<1>a. /\ q \in Entries /\ q # i /\ Index(m, q).next = i
      /\ \A y \in Entries : Index(m, y).next = i => y = q
  BY TailPrev
<1>1. IndexTo(m, m2, q, [Index(m, q) EXCEPT !.next = Index(m, i).next])
  BY <1>0, <1>a, IndexWritten
<1> HIDE DEF w, m2, q
<1>2. /\ Mem(m2) /\ \A j \in Entries \ {q} : Index(m2, j) = Index(m, j)
      /\ SameRule(m, m2) /\ SameMeta(m, m2) /\ SameId(m, m2)
      /\ Index(m2, q).tbl = Index(m, q).tbl /\ Index(m2, q).next = Index(m, i).next
  <2>1. Index(m, q) \in IndexRec
    BY <1>0, <1>a DEF Mem
  <2>2. /\ [Index(m, q) EXCEPT !.next = Index(m, i).next].next = Index(m, i).next
        /\ [Index(m, q) EXCEPT !.next = Index(m, i).next].tbl = Index(m, q).tbl
    BY <2>1 DEF IndexRec
  <2> QED
    BY <1>1, <2>2 DEF IndexTo
<1>3. /\ Off(m, m2, e)
      /\ \A b \in Base : Chain(m2, "indx", b) = Chain(m, "indx", b) \ {i}
  BY <1>0, <1>a, <1>2, IndexUnlinkOff DEF SameRule
<1>4. ASSUME NEW b \in Base PROVE ~InIndex(m2, b, e)
  <2>1. \A j \in Entries \ {i} : Index(m2, j).tbl # e
    BY <1>0, <1>a, <1>2
  <2>2. Chain(m2, "indx", b) \subseteq Entries \ {i}
    BY <1>2, <1>3, ChainIn, Positions
  <2> QED
    BY <2>1, <2>2 DEF InIndex
<1>5. Through(m, <<w>>, m2, 0) /\ Dels(m, m2, e)
  BY <1>2, <1>3, <1>4, CutStep DEF m2
<1> QED
  BY <1>2, <1>3, <1>5 DEF TailCut, w, m2, q

(* The DMA commands for the index hide the rule and change nothing else the   *)
(* hardware sees.                                                             *)
LEMMA IndexThrough ==
  ASSUME NEW m, NEW h, NEW e, NEW r, NEW i, Deleting(m, h, e, r, i)
  PROVE  \E m2 : /\ Through(m, IndexCmds(m, i), m2, 0) /\ Dels(m, m2, e)
                 /\ SameRule(m, m2) /\ SameMeta(m, m2) /\ IndexCut(m, m2, i)
<1>0. i \in Base \/ i \in Expn
  BY DEF Deleting, Entries
<1>1. /\ NextOf(m, "indx", i) = Index(m, i).next /\ m[<<"meta", i>>].prev = Meta(m, i).prev
  BY DEF NextOf, Index, Meta
<1>2. CASE i \in Base /\ Index(m, i).next = 0
  <2>1. Pos(m, "indx", i) = "only_one" /\ i \notin Expn
    BY <1>1, <1>2, Positions DEF Pos
  <2>2. IndexCmds(m, i) = << W("indx", i, [tbl |-> 0]) >>
    BY <2>1 DEF IndexCmds
  <2> QED
    BY <1>2, <2>1, <2>2, OnlyIndex DEF IndexCut
<1>3. CASE i \in Base /\ Index(m, i).next # 0
  <2> DEFINE n == Index(m, i).next
  <2>1. Pos(m, "indx", i) = "head" /\ i \notin Expn
    BY <1>1, <1>3, Positions DEF Pos
  <2>2. IndexCmds(m, i) = << W("indx", i, [tbl |-> Index(m, n).tbl]), W("indx", i, [next |-> Index(m, n).next]) >>
    BY <2>1 DEF IndexCmds
  <2> QED
    BY <1>3, <2>1, <2>2, HeadIndex DEF IndexCut
<1>4. CASE i \in Expn
  <2>1. Pos(m, "indx", i) \notin {"only_one", "head"} /\ i \notin Base
    BY <1>4, Positions DEF Pos
  <2>2. IndexCmds(m, i) = << W("indx", Meta(m, i).prev, [next |-> Index(m, i).next]) >>
    BY <1>1, <2>1 DEF IndexCmds
  <2> QED
    BY <1>4, <2>1, <2>2, TailIndex DEF IndexCut
<1> QED
  BY <1>0, <1>2, <1>3, <1>4

(* A write to the rule deleted, or one that the hardware does not see.        *)
LEMMA DelOwn ==
  ASSUME NEW m0, NEW m, NEW e, e \in Entries, Dels(m0, m, e), NEW w, NEW m2, m2 = Write(m, w),
         NEW rec, RuleTo(m, m2, e, rec),
         rec.next = Rule(m, e).next \/ \A b \in Base : e \notin Chain(m, "rule", b)
  PROVE  /\ Through(m, <<w>>, m2, 0) /\ Dels(m0, m2, e)
         /\ \A b \in Base : /\ Chain(m2, "rule", b) = Chain(m, "rule", b)
                            /\ Chain(m2, "indx", b) = Chain(m, "indx", b)
<1>1. /\ Mem(m) /\ Mem(m2) /\ Rule(m2, e) = rec /\ \A y \in Entries \ {e} : Rule(m2, y) = Rule(m, y)
      /\ SameIndex(m, m2) /\ SameId(m, m2)
  BY DEF RuleTo, Dels
<1>2. /\ Off(m, m2, e)
      /\ \A b \in Base : /\ Chain(m2, "rule", b) = Chain(m, "rule", b)
                         /\ Chain(m2, "indx", b) = Chain(m, "indx", b)
                         /\ InIndex(m2, b, e) <=> InIndex(m, b, e)
  BY <1>1, RuleOff DEF SameIndex
<1>3. \A b \in Base : ~InIndex(m2, b, e)
  BY <1>2 DEF Dels
<1> QED
  BY <1>1, <1>2, <1>3, DelStep

(* Writes that leave links, flags, rules and indices, which are those to back *)
(* links.                                                                     *)
LEMMA DelBack ==
  ASSUME NEW m0, NEW m, NEW e, e \in Entries, Dels(m0, m, e), NEW w, NEW m2, m2 = Write(m, w),
         Mem(m2), SameId(m, m2), Alike(m, m2)
  PROVE  /\ Through(m, <<w>>, m2, 0) /\ Dels(m0, m2, e)
         /\ \A b \in Base : /\ Chain(m2, "rule", b) = Chain(m, "rule", b)
                            /\ Chain(m2, "indx", b) = Chain(m, "indx", b)
<1>1. Mem(m)
  BY DEF Dels
<1>2. /\ Off(m, m2, e)
      /\ \A b \in Base : /\ Chain(m2, "rule", b) = Chain(m, "rule", b)
                         /\ Chain(m2, "indx", b) = Chain(m, "indx", b)
                         /\ InIndex(m2, b, e) <=> InIndex(m, b, e)
  BY <1>1, AlikeOff
<1>3. \A b \in Base : ~InIndex(m2, b, e)
  BY <1>2 DEF Dels
<1> QED
  BY <1>2, <1>3, DelStep

(* What becomes of the rule in e: nothing, a head that only leads on, or      *)
(* nothing and the one before it leads to the one after it.                   *)
Gone(m, e) == ~Rule(m, e).enable /\ ~Rule(m, e).invalid /\ Rule(m, e).next = 0
SameFlags(m, m2, e) == \A y \in Entries \ {e} : /\ Rule(m2, y).enable = Rule(m, y).enable
                                                /\ Rule(m2, y).invalid = Rule(m, y).invalid
SameIndx(m, m2, e) == \A y \in Entries \ {e} : Rule(m2, y).indx = Rule(m, y).indx
Others(m, m2, e) == SameFlags(m, m2, e) /\ SameIndx(m, m2, e)
SameNext(m, m2, S) == \A y \in Entries \ S : Rule(m2, y).next = Rule(m, y).next
SamePrev(m, m2, S) == \A y \in Entries \ S : Rule(m2, y).prev = Rule(m, y).prev
RuleCut(m, m2, e) ==
  LET p == Rule(m, e).prev
      f == Rule(m, e).next
  IN  /\ SameFlags(m, m2, e)
      /\ e \in Base => SameNext(m, m2, {e}) /\ SamePrev(m, m2, {e})
      /\ e \in Base /\ f = 0 => Gone(m2, e)
      /\ e \in Base /\ f # 0 => Rule(m2, e).enable /\ Rule(m2, e).invalid /\ Rule(m2, e).next = f
      /\ e \in Expn => /\ Gone(m2, e) /\ SameNext(m, m2, {e, p}) /\ SamePrev(m, m2, {e, f})
                       /\ Rule(m2, p).next = f /\ (f # 0 => Rule(m2, f).prev = p)

(* The records memset leaves.                                                 *)
LEMMA EmptyRec == /\ EmptyRule \in RuleRec /\ ~EmptyRule.enable /\ ~EmptyRule.invalid
                  /\ EmptyRule.next = 0 /\ EmptyRule.prev = 0 /\ EmptyRule.indx = 0 /\ EmptyRule.rule = NoRule
                  /\ EmptyIndex \in IndexRec /\ EmptyIndex.tbl = 0 /\ EmptyIndex.next = 0
  BY DEF EmptyRule, RuleRec, EmptyIndex, IndexRec

(* The rule that is the only one of its chain is disabled and wiped ...       *)
LEMMA OnlyRule ==
  ASSUME NEW m0, NEW m, NEW e, e \in Entries, Dels(m0, m, e), SameRule(m0, m), e \in Base, Rule(m, e).next = 0
  PROVE  \E m2 : /\ Through(m, <<W("rule", e, [enable |-> FALSE])>> \o <<W("rule", e, EmptyRule)>>, m2, 0)
                 /\ Dels(m0, m2, e) /\ SameIndex(m, m2) /\ SameMeta(m, m2) /\ RuleCut(m0, m2, e) /\ SameIndx(m0, m2, e)
<1> DEFINE w1 == W("rule", e, [enable |-> FALSE])
           w2 == W("rule", e, EmptyRule)
           m1 == Write(m, w1)
           m2 == Write(m1, w2)
           rec == [Rule(m, e) EXCEPT !.enable = FALSE]
<1>0. Mem(m) /\ rec.next = 0 /\ e \notin Expn
  BY Positions DEF Dels, Mem, RuleRec
<1>1. RuleTo(m, m1, e, rec)
  BY <1>0, RuleWritten
<1> HIDE DEF m1, rec, w1, w2
<1>2. Through(m, <<w1>>, m1, 0) /\ Dels(m0, m1, e)
  BY <1>0, <1>1, DelOwn DEF m1
<1>3. Mem(m1) /\ Rule(m1, e).next = 0
  BY <1>0, <1>1 DEF RuleTo
<1>4. RuleTo(m1, m2, e, EmptyRule)
  BY <1>3, RuleWritten, EmptyRec DEF w2
<1> HIDE DEF m2
<1>5. Through(m1, <<w2>>, m2, 0) /\ Dels(m0, m2, e)
  BY <1>2, <1>3, <1>4, DelOwn, EmptyRec DEF m2
<1>6. Through(m, <<w1>> \o <<w2>>, m2, 0)
  BY <1>2, <1>5, ThroughCat
<1>7. /\ \A y \in Entries \ {e} : Rule(m2, y) = Rule(m0, y)
      /\ Gone(m2, e) /\ SameIndex(m, m2) /\ SameMeta(m, m2)
  BY <1>1, <1>4, EmptyRec DEF RuleTo, Gone, SameRule, SameIndex, SameMeta
<1>8. RuleCut(m0, m2, e) /\ SameIndx(m0, m2, e)
  <2>1. Rule(m0, e).next = 0
    BY DEF SameRule
  <2> QED
    BY <1>0, <1>7, <2>1 DEF RuleCut, Others, SameFlags, SameIndx, SameNext, SamePrev
<1> QED
  BY <1>5, <1>6, <1>7, <1>8 DEF w1, w2

(* ... the first of a chain is only marked as deleted ...                     *)
LEMMA HeadRule ==
  ASSUME NEW m0, NEW m, NEW e, e \in Entries, Dels(m0, m, e), SameRule(m0, m), e \in Base, Rule(m, e).next # 0,
         Rule(m, e).enable
  PROVE  \E m2 : /\ Through(m, <<W("rule", e, [invalid |-> TRUE])>> \o <<>>, m2, 0)
                 /\ Dels(m0, m2, e) /\ SameIndex(m, m2) /\ SameMeta(m, m2) /\ RuleCut(m0, m2, e) /\ SameIndx(m0, m2, e)
<1> DEFINE w1 == W("rule", e, [invalid |-> TRUE])
           m2 == Write(m, w1)
           rec == [Rule(m, e) EXCEPT !.invalid = TRUE]
<1>0. /\ Mem(m) /\ rec.next = Rule(m, e).next /\ rec.invalid /\ rec.enable = Rule(m, e).enable /\ e \notin Expn
  BY Positions DEF Dels, Mem, RuleRec
<1>1. RuleTo(m, m2, e, rec)
  BY <1>0, RuleWritten
<1> HIDE DEF m2, rec, w1
<1>2. Through(m, <<w1>>, m2, 0) /\ Dels(m0, m2, e)
  BY <1>0, <1>1, DelOwn DEF m2
<1>3. <<w1>> \o <<>> = <<w1>>
  BY SeqUnit, SeqEmpty
<1>4. /\ \A y \in Entries \ {e} : Rule(m2, y) = Rule(m0, y)
      /\ Rule(m2, e).enable /\ Rule(m2, e).invalid /\ Rule(m2, e).next = Rule(m0, e).next
      /\ SameIndex(m, m2) /\ SameMeta(m, m2) /\ Rule(m0, e).next # 0
  BY <1>0, <1>1 DEF RuleTo, SameRule
<1>5. RuleCut(m0, m2, e) /\ SameIndx(m0, m2, e)
  BY <1>0, <1>4 DEF RuleCut, Others, SameFlags, SameIndx, SameNext, SamePrev
<1> QED
  BY <1>2, <1>3, <1>4, <1>5 DEF w1

(* ... and any other is cut out, the back link of the one after it set, and   *)
(* wiped.                                                                     *)
LEMMA TailRule ==
  ASSUME NEW m0, NEW m, NEW e, e \in Expn, Dels(m0, m, e), SameRule(m0, m),
         NEW p, p \in Entries, p = Rule(m, e).prev, p # e, Rule(m, p).next = e,
         \A y \in Entries : Rule(m, y).next = e => y = p,
         NEW f, f = Rule(m, e).next, f # e
  PROVE  \E m2 : /\ Through(m, <<W("rule", p, [next |-> f])>> \o
                               ((IF f # 0 THEN <<W("rule", f, [prev |-> p])>> ELSE <<>>)
                                 \o <<W("rule", e, EmptyRule)>>), m2, 0)
                 /\ Dels(m0, m2, e) /\ SameIndex(m, m2) /\ SameMeta(m, m2) /\ RuleCut(m0, m2, e) /\ SameIndx(m0, m2, e)
<1> DEFINE w1 == W("rule", p, [next |-> f])
           s == IF f # 0 THEN <<W("rule", f, [prev |-> p])>> ELSE <<>>
           w3 == W("rule", e, EmptyRule)
           m1 == Write(m, w1)
           rec == [Rule(m, p) EXCEPT !.next = f]
<1>0. /\ Mem(m) /\ f \in Expn \cup {0} /\ e \notin Base /\ e \in Entries
      /\ rec.next = f /\ rec.enable = Rule(m, p).enable /\ rec.invalid = Rule(m, p).invalid
      /\ rec.indx = Rule(m, p).indx /\ rec.prev = Rule(m, p).prev
  BY Positions, MemLinks DEF Dels, Mem, RuleRec
<1>1. RuleTo(m, m1, p, rec)
  BY <1>0, RuleWritten
<1>2. /\ Mem(m1) /\ SameIndex(m, m1) /\ SameMeta(m, m1) /\ SameId(m, m1)
      /\ \A y \in Entries \ {p} : Rule(m1, y) = Rule(m, y)
      /\ Rule(m1, p) = [Rule(m, p) EXCEPT !.next = f]
  BY <1>1 DEF RuleTo
<1> HIDE DEF m1, w1, s, w3
<1>3. /\ Off(m, m1, e)
      /\ \A b \in Base : /\ Chain(m1, "rule", b) = Chain(m, "rule", b) \ {e}
                         /\ InIndex(m1, b, e) <=> InIndex(m, b, e)
  BY <1>0, <1>2, UnlinkOff DEF SameIndex
<1>4. \A b \in Base : ~InIndex(m1, b, e)
  BY <1>3 DEF Dels
<1>5. Through(m, <<w1>>, m1, 0) /\ Dels(m0, m1, e)
  BY <1>2, <1>3, <1>4, DelStep DEF m1
<1>6. /\ SameNext(m, m1, {p}) /\ SamePrev(m, m1, {}) /\ Others(m, m1, e)
      /\ Rule(m1, p).next = f
  BY <1>0, <1>2 DEF SameNext, SamePrev, Others, SameFlags, SameIndx
<1>7. PICK m2 : /\ Through(m1, s, m2, 0) /\ Dels(m0, m2, e) /\ SameIndex(m, m2) /\ SameMeta(m, m2)
                /\ SameNext(m, m2, {p}) /\ SamePrev(m, m2, {f}) /\ Others(m, m2, e)
                /\ Rule(m2, p).next = f /\ (f # 0 => Rule(m2, f).prev = p)
                /\ \A b \in Base : Chain(m2, "rule", b) = Chain(m, "rule", b) \ {e}
  <2>1. CASE f = 0
    BY <1>2, <1>3, <1>5, <1>6, <2>1, ThroughNone DEF s, SamePrev
  <2>2. CASE f # 0
    <3> DEFINE w2 == W("rule", f, [prev |-> p])
               m2 == Write(m1, w2)
               rec2 == [Rule(m1, f) EXCEPT !.prev = p]
    <3>0. f \in Entries
      BY <1>0, <2>2, Positions
    <3>1. /\ rec2.prev = p /\ rec2.enable = Rule(m1, f).enable /\ rec2.invalid = Rule(m1, f).invalid
          /\ rec2.indx = Rule(m1, f).indx /\ rec2.next = Rule(m1, f).next /\ rec2.rule = Rule(m1, f).rule
      BY <1>2, <3>0 DEF Mem, RuleRec
    <3>2. RuleTo(m1, m2, f, rec2)
      BY <1>2, <3>0, RuleWritten
    <3> HIDE DEF m2, w2, rec2
    <3>3. /\ Mem(m2) /\ SameIndex(m1, m2) /\ SameMeta(m1, m2) /\ SameId(m1, m2)
          /\ \A y \in Entries \ {f} : Rule(m2, y) = Rule(m1, y)
          /\ Rule(m2, f) = rec2
      BY <3>2 DEF RuleTo
    <3>4. Alike(m1, m2)
      BY <3>1, <3>3 DEF Alike, SameIndex
    <3>5. /\ Through(m1, <<w2>>, m2, 0) /\ Dels(m0, m2, e)
          /\ \A b \in Base : Chain(m2, "rule", b) = Chain(m1, "rule", b)
      BY <1>0, <1>5, <3>3, <3>4, DelBack DEF m2
    <3>6. /\ SameNext(m, m2, {p}) /\ Rule(m2, p).next = f
      BY <1>6, <3>1, <3>3 DEF SameNext
    <3>7. SamePrev(m, m2, {f}) /\ Rule(m2, f).prev = p
      BY <1>6, <3>1, <3>3 DEF SamePrev
    <3>8. Others(m, m2, e)
      BY <1>6, <3>1, <3>3 DEF Others, SameFlags, SameIndx
    <3>9. SameIndex(m, m2) /\ SameMeta(m, m2)
      BY <1>2, <3>3 DEF SameIndex, SameMeta
    <3> QED
      BY <1>3, <2>2, <3>5, <3>6, <3>7, <3>8, <3>9 DEF s, w2
  <2> QED
    BY <2>1, <2>2
<1> DEFINE m3 == Write(m2, w3)
<1>8. RuleTo(m2, m3, e, EmptyRule)
  <2>1. Mem(m2)
    BY <1>7 DEF Dels
  <2> QED
    BY <1>0, <2>1, RuleWritten, EmptyRec DEF w3
<1> HIDE DEF m3
<1>9. Through(m2, <<w3>>, m3, 0) /\ Dels(m0, m3, e)
  BY <1>0, <1>7, <1>8, DelOwn DEF m3
<1>10. Through(m, <<w1>> \o (s \o <<w3>>), m3, 0)
  BY <1>5, <1>7, <1>9, ThroughCat
<1>11. /\ \A y \in Entries \ {e} : Rule(m3, y) = Rule(m2, y)
       /\ Rule(m3, e) = EmptyRule /\ SameIndex(m2, m3) /\ SameMeta(m2, m3)
  BY <1>8 DEF RuleTo
<1>12. RuleCut(m0, m3, e) /\ SameIndx(m0, m3, e)
  <2>1. Rule(m0, e).prev = p /\ Rule(m0, e).next = f
    BY <1>0 DEF SameRule
  <2>2. Others(m0, m3, e)
    BY <1>7, <1>11 DEF Others, SameFlags, SameIndx, SameRule
  <2>3. SameNext(m0, m3, {e, p}) /\ Rule(m3, p).next = f
    BY <1>7, <1>11 DEF SameNext, SameRule
  <2>4. SamePrev(m0, m3, {e, f}) /\ (f # 0 => Rule(m3, f).prev = p)
    BY <1>0, <1>7, <1>11, Positions DEF SamePrev, SameRule
  <2>5. Gone(m3, e)
    BY <1>11, EmptyRec DEF Gone
  <2> QED
    BY <1>0, <2>1, <2>2, <2>3, <2>4, <2>5 DEF RuleCut, Others
<1>13. SameIndex(m, m3) /\ SameMeta(m, m3)
  BY <1>7, <1>11 DEF SameIndex, SameMeta
<1> QED
  BY <1>9, <1>10, <1>12, <1>13 DEF w1, s, w3

(* The back link of a rule in the expansion table is right.                   *)
LEMMA RulePrev ==
  ASSUME NEW m, NEW h, NEW e, NEW r, NEW i, Deleting(m, h, e, r, i), e \in Expn
  PROVE  /\ Rule(m, e).prev \in Entries /\ Rule(m, e).prev # e /\ Rule(m, Rule(m, e).prev).next = e
         /\ \A y \in Entries : Rule(m, y).next = e => y = Rule(m, e).prev
         /\ Rule(m, e).next # e
<1>0. Mem(m) /\ Settled(m) /\ e \in Chain(m, "rule", DstHash[r]) /\ DstHash[r] \in Base /\ e # 0 /\ e \in Entries
  BY DeletingFacts, Positions DEF Deleting
<1>1. PICK z \in Chain(m, "rule", DstHash[r]) : z # e /\ NextOf(m, "rule", z) = e
  BY <1>0, ChainPred, MemLinks
<1>2. z \in Entries /\ Rule(m, z).next = e
  BY <1>0, <1>1, ChainIn, MemLinks, Positions
<1>3. Rule(m, e).prev = z /\ \A y \in Entries : Rule(m, y).next = e => y = z
  BY <1>0, <1>2, SettledLinks
<1> QED
  BY <1>0, <1>1, <1>2, <1>3, SettledLinks

(* The DMA command for the rule and the CPU's writes to its table.            *)
LEMMA RuleThrough ==
  ASSUME NEW m, NEW h, NEW e, NEW r, NEW i, Deleting(m, h, e, r, i),
         NEW m1, Dels(m, m1, e), SameRule(m, m1)
  PROVE  \E m2 : /\ Through(m1, RuleCmds(m, e) \o RuleCleanup(m, e), m2, 0) /\ Dels(m, m2, e)
                 /\ SameIndex(m1, m2) /\ SameMeta(m1, m2) /\ RuleCut(m, m2, e) /\ SameIndx(m, m2, e)
<1>0. /\ e \in Entries /\ (e \in Base \/ e \in Expn) /\ Rule(m1, e) = Rule(m, e)
      /\ \A y \in Entries : Rule(m1, y) = Rule(m, y)
  BY DEF Deleting, SameRule, Entries
<1>1. NextOf(m, "rule", e) = Rule(m, e).next
  BY DEF NextOf, Rule
<1>2. CASE e \in Base /\ Rule(m, e).next = 0
  <2>1. Pos(m, "rule", e) = "only_one"
    BY <1>1, <1>2 DEF Pos
  <2>2. RuleCmds(m, e) = << W("rule", e, [enable |-> FALSE]) >>
    BY <2>1 DEF RuleCmds
  <2>3. RuleCleanup(m, e) = <<>> \o << W("rule", e, EmptyRule) >>
    BY <2>1 DEF RuleCleanup
  <2>4. RuleCleanup(m, e) = << W("rule", e, EmptyRule) >>
    BY <2>3, SeqEmpty, SeqUnit
  <2> QED
    BY <1>0, <1>2, <2>2, <2>4, OnlyRule
<1>3. CASE e \in Base /\ Rule(m, e).next # 0
  <2>1. Pos(m, "rule", e) = "head"
    BY <1>1, <1>3 DEF Pos
  <2>2. RuleCmds(m, e) = << W("rule", e, [invalid |-> TRUE]) >>
    BY <2>1 DEF RuleCmds
  <2>3. RuleCleanup(m, e) = <<>> \o <<>>
    BY <2>1 DEF RuleCleanup
  <2>4. RuleCleanup(m, e) = <<>>
    BY <2>3, SeqEmpty, SeqUnit
  <2>5. Rule(m1, e).enable
    BY <1>0, DeletingFacts
  <2> QED
    BY <1>0, <1>3, <2>2, <2>4, <2>5, HeadRule
<1>4. CASE e \in Expn
  <2> DEFINE p == Rule(m, e).prev
             f == Rule(m, e).next
  <2>1. Pos(m, "rule", e) = IF f = 0 THEN "last" ELSE "middle"
    BY <1>1, <1>4, Positions DEF Pos
  <2>2. RuleCmds(m, e) = << W("rule", p, [next |-> f]) >>
    BY <2>1 DEF RuleCmds
  <2>3. RuleCleanup(m, e) = (IF f # 0 THEN <<W("rule", f, [prev |-> p])>> ELSE <<>>) \o << W("rule", e, EmptyRule) >>
    BY <2>1 DEF RuleCleanup
  <2>4. /\ p \in Entries /\ p # e /\ Rule(m1, p).next = e /\ f # e
        /\ \A y \in Entries : Rule(m1, y).next = e => y = p
        /\ p = Rule(m1, e).prev /\ f = Rule(m1, e).next
    BY <1>0, <1>4, RulePrev
  <2> HIDE DEF p, f
  <2> QED
    BY <1>4, <2>2, <2>3, <2>4, TailRule
<1> QED
  BY <1>0, <1>2, <1>3, <1>4

(* Emptying an index entry that no chain leads to.                            *)
LEMMA DropIndex ==
  ASSUME NEW m0, NEW m, NEW e, e \in Entries, Dels(m0, m, e), NEW i, i \in Entries,
         \/ \A b \in Base : i \notin Chain(m, "indx", b)
         \/ Index(m, i).next = 0 /\ Index(m, i).tbl = 0
  PROVE  LET w == W("indx", i, EmptyIndex)
             m2 == Write(m, w)
         IN  Through(m, <<w>>, m2, 0) /\ Dels(m0, m2, e) /\ IndexTo(m, m2, i, EmptyIndex)
<1> DEFINE w == W("indx", i, EmptyIndex)
           m2 == Write(m, w)
<1>1. Mem(m) /\ IndexTo(m, m2, i, EmptyIndex)
  BY IndexWritten, EmptyRec DEF Dels
<1> HIDE DEF w, m2
<1>2. /\ Mem(m2) /\ Index(m2, i).tbl = 0 /\ Index(m2, i).next = 0
      /\ \A j \in Entries \ {i} : Index(m2, j) = Index(m, j)
      /\ SameRule(m, m2) /\ SameId(m, m2)
  BY <1>1, EmptyRec DEF IndexTo
<1>3. /\ Off(m, m2, e)
      /\ \A b \in Base : Chain(m2, "indx", b) = Chain(m, "indx", b)
  BY <1>1, <1>2, IndexOff DEF SameRule
<1>4. ASSUME NEW b \in Base PROVE ~InIndex(m2, b, e)
  <2>1. \A j \in Chain(m, "indx", b) : j \in Entries /\ Index(m, j).tbl # e
    BY <1>1, ChainIn, Positions DEF Dels, InIndex
  <2> QED
    BY <1>2, <1>3, <2>1, Positions DEF InIndex
<1>5. Through(m, <<w>>, m2, 0) /\ Dels(m0, m2, e)
  BY <1>2, <1>3, <1>4, DelStep DEF m2
<1> QED
  BY <1>1, <1>5 DEF w, m2

(* Setting a back link of an index.                                           *)
LEMMA DelMeta ==
  ASSUME NEW m0, NEW m, NEW e, e \in Entries, Dels(m0, m, e), NEW j, j \in Expn, NEW v, v \in Entries \cup {0}
  PROVE  LET w == W("meta", j, [prev |-> v])
             m2 == Write(m, w)
         IN  /\ Through(m, <<w>>, m2, 0) /\ Dels(m0, m2, e) /\ MetaTo(m, m2, j, [prev |-> v])
             /\ \A b \in Base : Chain(m2, "indx", b) = Chain(m, "indx", b)
<1> DEFINE w == W("meta", j, [prev |-> v])
           m2 == Write(m, w)
<1>1. MetaTo(m, m2, j, [prev |-> v])
  BY OtherWritten DEF Dels
<1> HIDE DEF w, m2
<1>2. Mem(m2) /\ SameId(m, m2) /\ Alike(m, m2)
  BY <1>1 DEF MetaTo, Alike, SameRule, SameIndex
<1>3. /\ Through(m, <<w>>, m2, 0) /\ Dels(m0, m2, e)
      /\ \A b \in Base : Chain(m2, "indx", b) = Chain(m, "indx", b)
  BY <1>2, DelBack DEF m2
<1> QED
  BY <1>1, <1>3 DEF w, m2

SameLinking(m, m2) == \A y \in Entries : /\ Rule(m2, y).enable = Rule(m, y).enable
                                         /\ Rule(m2, y).invalid = Rule(m, y).invalid
                                         /\ Rule(m2, y).next = Rule(m, y).next
                                         /\ Rule(m2, y).prev = Rule(m, y).prev

(* Setting the index of a rule.                                               *)
LEMMA SetIndx ==
  ASSUME NEW m0, NEW m, NEW e, e \in Entries, Dels(m0, m, e), NEW y, y \in Entries, NEW v, v \in Entries
  PROVE  LET w == W("rule", y, [indx |-> v])
             m2 == Write(m, w)
         IN  /\ Through(m, <<w>>, m2, 0) /\ Dels(m0, m2, e)
             /\ SameIndex(m, m2) /\ SameMeta(m, m2) /\ SameLinking(m, m2)
             /\ Rule(m2, y).indx = v /\ \A z \in Entries \ {y} : Rule(m2, z).indx = Rule(m, z).indx
<1> DEFINE w == W("rule", y, [indx |-> v])
           m2 == Write(m, w)
           rec == [Rule(m, y) EXCEPT !.indx = v]
<1>0. /\ Mem(m) /\ rec.indx = v /\ rec.next = Rule(m, y).next /\ rec.rule = Rule(m, y).rule
      /\ rec.enable = Rule(m, y).enable /\ rec.invalid = Rule(m, y).invalid /\ rec.prev = Rule(m, y).prev
  BY DEF Dels, Mem, RuleRec
<1>1. RuleTo(m, m2, y, rec)
  BY <1>0, RuleWritten
<1> HIDE DEF w, m2, rec
<1>2. /\ Mem(m2) /\ SameId(m, m2) /\ Alike(m, m2) /\ SameIndex(m, m2) /\ SameMeta(m, m2) /\ SameLinking(m, m2)
      /\ Rule(m2, y).indx = v /\ \A z \in Entries \ {y} : Rule(m2, z).indx = Rule(m, z).indx
  BY <1>0, <1>1 DEF RuleTo, Alike, SameIndex, SameLinking
<1>3. Through(m, <<w>>, m2, 0) /\ Dels(m0, m2, e)
  BY <1>2, DelBack DEF m2
<1> QED
  BY <1>2, <1>3 DEF w, m2

(* The indices that stay.                                                     *)
KeptIndex(m, e, i, j) ==
  /\ Index(m, j).next # 0 => /\ Index(m, j).next \in Expn /\ Index(m, j).next # j
                             /\ Index(m, j).tbl # 0 /\ Index(m, Index(m, j).next).tbl # 0
                             /\ Meta(m, Index(m, j).next).prev = j
                             /\ \A y \in Entries : Index(m, y).next = Index(m, j).next => y = j
  /\ Index(m, j).tbl = 0 => Index(m, j).next = 0
  /\ Index(m, j).tbl # 0 => /\ Index(m, j).tbl \in Entries /\ Shown(m, Index(m, j).tbl)
                            /\ Rule(m, Index(m, j).tbl).indx = j
  /\ Index(m, j).tbl = e => j = i
(* What the deletion has to keep of every index.                              *)
LEMMA IndexKept ==
  ASSUME NEW m, NEW h, NEW e, NEW r, NEW i, Deleting(m, h, e, r, i), NEW j, j \in Entries
  PROVE  KeptIndex(m, e, i, j)
<1>1. Settled(m) /\ Mem(m)
  BY DEF Deleting, Settled
<1>2. Index(m, j).tbl = e => j = i
  BY DeletingFacts
<1> QED
  BY <1>1, <1>2, SettledIndexLinks, MemLinks DEF KeptIndex, Settled, Indexed

(* The CPU's writes to the index table: after an only one ...                 *)
LEMMA OnlyDone ==
  ASSUME NEW m, NEW h, NEW e, NEW r, NEW i, Deleting(m, h, e, r, i), i \in Base,
         NEW m2, Dels(m, m2, e), OnlyCut(m, m2, i), SameMeta(m, m2), SameIndx(m, m2, e)
  PROVE  \E m3 : /\ Through(m2, <<W("indx", i, EmptyIndex)>>, m3, 0) /\ Dels(m, m3, e)
                 /\ SameLinking(m2, m3) /\ IndicesLeft(m, m3, e)
<1> DEFINE w == W("indx", i, EmptyIndex)
           m3 == Write(m2, w)
<1>0. i \in Entries /\ e \in Entries /\ i \notin Expn
  BY Positions DEF Deleting
<1>1. Through(m2, <<w>>, m3, 0) /\ Dels(m, m3, e) /\ IndexTo(m2, m3, i, EmptyIndex)
  BY <1>0, DropIndex DEF OnlyCut
<1> HIDE DEF m3, w
<1>2. /\ Index(m3, i).tbl = 0 /\ Index(m3, i).next = 0 /\ \A j \in Entries \ {i} : Index(m3, j) = Index(m, j)
      /\ \A j \in Expn : Meta(m3, j) = Meta(m, j)
      /\ \A y \in Entries \ {e} : Rule(m3, y).indx = Rule(m, y).indx
      /\ SameLinking(m2, m3)
  BY <1>1, EmptyRec DEF IndexTo, OnlyCut, SameRule, SameMeta, SameIndx, SameLinking
<1>3. IndicesLeft(m, m3, e)
  <2> SUFFICES ASSUME NEW j \in Entries, j # i
               PROVE  /\ Index(m, j).next # 0 => /\ Index(m, j).tbl # 0 /\ Index(m3, Index(m, j).next).tbl # 0
                                                 /\ Meta(m3, Index(m, j).next).prev = j
                      /\ Index(m, j).tbl = 0 => Index(m, j).next = 0
                      /\ Index(m, j).tbl # 0 => /\ Index(m, j).tbl \in Entries \ {e} /\ Shown(m, Index(m, j).tbl)
                                                /\ Rule(m3, Index(m, j).tbl).indx = j
    BY <1>2 DEF IndicesLeft
  <2>1. KeptIndex(m, e, i, j) /\ Index(m, j).tbl # e
    BY <1>0, IndexKept DEF KeptIndex
  <2>2. Index(m, j).next # 0 => Index(m, j).next \in Entries \ {i} /\ Index(m, j).next \in Expn
    BY <1>0, <2>1, Positions DEF KeptIndex
  <2> QED
    BY <1>2, <2>1, <2>2 DEF KeptIndex
<1> QED
  BY <1>1, <1>2, <1>3 DEF w

(* ... after the first of a chain, whose rule gets a new index ...            *)
LEMMA HeadDone ==
  ASSUME NEW m, NEW h, NEW e, NEW r, NEW i, Deleting(m, h, e, r, i), i \in Base,
         NEW n, n = Index(m, i).next, n # 0,
         NEW m2, Dels(m, m2, e), HeadCut(m, m2, i, n), SameMeta(m, m2), SameIndx(m, m2, e)
  PROVE  \E m3 : /\ Through(m2, (IF Index(m, n).next = 0 THEN <<>> ELSE <<W("meta", Index(m, n).next, [prev |-> i])>>)
                                \o (<<W("indx", n, EmptyIndex)>> \o <<W("rule", Index(m, n).tbl, [indx |-> i])>>), m3, 0)
                 /\ Dels(m, m3, e) /\ SameLinking(m2, m3) /\ IndicesLeft(m, m3, e)
<1> DEFINE k == Index(m, n).next
           t == Index(m, n).tbl
           s == IF k = 0 THEN <<>> ELSE <<W("meta", k, [prev |-> i])>>
           w2 == W("indx", n, EmptyIndex)
           w3 == W("rule", t, [indx |-> i])
<1>0. /\ i \in Entries /\ e \in Entries /\ i \notin Expn /\ n \in Expn /\ n \in Entries /\ n # i
      /\ k \in Expn \cup {0} /\ k # n /\ t \in Entries /\ t # e /\ Shown(m, t)
      /\ \A y \in Entries : Index(m, y).next = n => y = i
      /\ k # 0 => Index(m, k).tbl # 0 /\ \A y \in Entries : Index(m, y).next = k => y = n
  <2>1. i \in Entries /\ e \in Entries /\ i \notin Expn
    BY Positions DEF Deleting
  <2>2. /\ n \in Expn /\ n \in Entries /\ n # i /\ Index(m, n).tbl # 0
        /\ \A y \in Entries : Index(m, y).next = n => y = i
    <3>1. KeptIndex(m, e, i, i)
      BY <2>1, IndexKept
    <3> QED
      BY <2>1, <3>1, Positions DEF KeptIndex
  <2>3. KeptIndex(m, e, i, n)
    BY <2>2, IndexKept
  <2>4. k \in Expn \cup {0} /\ k # n
    BY <2>2, <2>3, Positions DEF KeptIndex
  <2>5. t \in Entries /\ t # e /\ Shown(m, t)
    BY <2>2, <2>3 DEF KeptIndex
  <2>6. k # 0 => Index(m, k).tbl # 0 /\ \A y \in Entries : Index(m, y).next = k => y = n
    BY <2>2, <2>3 DEF KeptIndex
  <2> QED
    BY <2>1, <2>2, <2>4, <2>5, <2>6
<1> HIDE DEF k, t
<1>1. PICK m3 : /\ Through(m2, s, m3, 0) /\ Dels(m, m3, e) /\ SameRule(m2, m3) /\ SameIndex(m2, m3)
                /\ (k # 0 => Meta(m3, k).prev = i) /\ \A j \in Expn \ {k} : Meta(m3, j) = Meta(m, j)
                /\ \A b \in Base : n \notin Chain(m3, "indx", b)
  <2>1. CASE k = 0
    BY <2>1, ThroughNone DEF HeadCut, SameRule, SameIndex, SameMeta
  <2>2. CASE k # 0
    <3> DEFINE w1 == W("meta", k, [prev |-> i])
               m3 == Write(m2, w1)
    <3>1. /\ Through(m2, <<w1>>, m3, 0) /\ Dels(m, m3, e) /\ MetaTo(m2, m3, k, [prev |-> i])
          /\ \A b \in Base : Chain(m3, "indx", b) = Chain(m2, "indx", b)
      BY <1>0, <2>2, DelMeta
    <3> HIDE DEF m3
    <3>2. /\ SameRule(m2, m3) /\ SameIndex(m2, m3) /\ Meta(m3, k).prev = i
          /\ \A j \in Expn \ {k} : Meta(m3, j) = Meta(m, j)
      BY <3>1 DEF MetaTo, SameMeta
    <3>3. \A b \in Base : n \notin Chain(m3, "indx", b)
      BY <3>1 DEF HeadCut
    <3> QED
      BY <2>2, <3>1, <3>2, <3>3
  <2> QED
    BY <2>1, <2>2
<1> DEFINE m4 == Write(m3, w2)
<1>2. Through(m3, <<w2>>, m4, 0) /\ Dels(m, m4, e) /\ IndexTo(m3, m4, n, EmptyIndex)
  BY <1>0, <1>1, DropIndex
<1> HIDE DEF m4, w2, s
<1>3. /\ Index(m4, n).tbl = 0 /\ Index(m4, n).next = 0 /\ \A j \in Entries \ {n} : Index(m4, j) = Index(m3, j)
      /\ SameRule(m3, m4) /\ SameMeta(m3, m4)
  BY <1>2, EmptyRec DEF IndexTo
<1> DEFINE m5 == Write(m4, w3)
<1>4. /\ Through(m4, <<w3>>, m5, 0) /\ Dels(m, m5, e)
      /\ SameIndex(m4, m5) /\ SameMeta(m4, m5) /\ SameLinking(m4, m5)
      /\ Rule(m5, t).indx = i /\ \A z \in Entries \ {t} : Rule(m5, z).indx = Rule(m4, z).indx
  BY <1>0, <1>2, SetIndx
<1> HIDE DEF m5, w3
<1>5. Through(m2, s \o (<<w2>> \o <<w3>>), m5, 0)
  BY <1>1, <1>2, <1>4, ThroughCat
<1>6. SameLinking(m2, m5)
  BY <1>1, <1>3, <1>4 DEF SameLinking, SameRule
<1>7. /\ \A y \in Entries \ {e, t} : Rule(m5, y).indx = Rule(m, y).indx
      /\ Rule(m5, t).indx = i
  BY <1>1, <1>3, <1>4 DEF SameRule, SameIndx
<1>8. /\ Index(m5, i).tbl = t /\ Index(m5, i).next = k
      /\ Index(m5, n).tbl = 0 /\ Index(m5, n).next = 0
      /\ \A j \in Entries \ {i, n} : Index(m5, j) = Index(m, j)
  BY <1>0, <1>1, <1>3, <1>4 DEF SameIndex, HeadCut, k, t
<1>9. (k # 0 => Meta(m5, k).prev = i) /\ \A j \in Expn \ {k} : Meta(m5, j) = Meta(m, j)
  BY <1>0, <1>1, <1>3, <1>4 DEF SameMeta
<1>10. IndicesLeft(m, m5, e)
  <2> SUFFICES ASSUME NEW j \in Entries
               PROVE  /\ Index(m5, j).next # 0 => /\ Index(m5, j).tbl # 0 /\ Index(m5, Index(m5, j).next).tbl # 0
                                                  /\ Meta(m5, Index(m5, j).next).prev = j
                      /\ Index(m5, j).tbl = 0 => Index(m5, j).next = 0
                      /\ Index(m5, j).tbl # 0 => /\ Index(m5, j).tbl \in Entries \ {e} /\ Shown(m, Index(m5, j).tbl)
                                                 /\ Rule(m5, Index(m5, j).tbl).indx = j
    BY DEF IndicesLeft
  <2>1. CASE j = i
    <3>1. k # 0 => k \in Entries \ {i, n}
      BY <1>0, Positions
    <3> QED
      BY <1>0, <1>7, <1>8, <1>9, <2>1, <3>1, Positions
  <2>2. CASE j = n
    BY <1>8, <2>2
  <2>3. CASE j # i /\ j # n
    <3>1. Index(m5, j) = Index(m, j)
      BY <1>8, <2>3
    <3>2. /\ Index(m, j).next # 0 => /\ Index(m, j).next \in Expn /\ Index(m, j).tbl # 0 
                                      /\ Index(m, Index(m, j).next).tbl # 0 /\ Meta(m, Index(m, j).next).prev = j
          /\ Index(m, j).tbl = 0 => Index(m, j).next = 0
          /\ Index(m, j).tbl # 0 => /\ Index(m, j).tbl \in Entries /\ Shown(m, Index(m, j).tbl)
                                    /\ Rule(m, Index(m, j).tbl).indx = j
          /\ Index(m, j).tbl # e
      BY <2>3, IndexKept DEF KeptIndex
    <3>3. Index(m, j).next # n /\ (k # 0 => Index(m, j).next # k)
      BY <1>0, <2>3
    <3>4. Index(m, j).tbl # t
      <4>1. KeptIndex(m, e, i, n)
        BY <1>0, IndexKept
      <4>2. t # 0 => Rule(m, t).indx = n
        BY <4>1 DEF KeptIndex, t
      <4> QED
        BY <1>0, <2>3, <3>2, <4>2, Positions
    <3>5. Index(m, j).next # 0 => /\ Index(m5, Index(m, j).next) = Index(m, Index(m, j).next)
                                  /\ Meta(m5, Index(m, j).next) = Meta(m, Index(m, j).next)
      BY <1>0, <1>8, <1>9, <3>2, <3>3, Positions
    <3> QED
      BY <1>7, <3>1, <3>2, <3>4, <3>5
  <2> QED
    BY <2>1, <2>2, <2>3
<1> QED
  BY <1>4, <1>5, <1>6, <1>10 DEF k, t, s, w2, w3

(* ... and after any other.                                                   *)
LEMMA TailDone ==
  ASSUME NEW m, NEW h, NEW e, NEW r, NEW i, Deleting(m, h, e, r, i), i \in Expn,
         NEW n, n = Index(m, i).next, NEW q, q = Meta(m, i).prev,
         NEW m2, Dels(m, m2, e), TailCut(m, m2, i, q), SameMeta(m, m2), SameIndx(m, m2, e)
  PROVE  \E m3 : /\ Through(m2, (IF n = 0 THEN <<>>
                                 ELSE <<W("meta", n, [prev |-> q])>> \o <<W("meta", i, [prev |-> 0])>>)
                                \o <<W("indx", i, EmptyIndex)>>, m3, 0)
                 /\ Dels(m, m3, e) /\ SameLinking(m2, m3) /\ IndicesLeft(m, m3, e)
<1> DEFINE s == IF n = 0 THEN <<>> ELSE <<W("meta", n, [prev |-> q])>> \o <<W("meta", i, [prev |-> 0])>>
           w3 == W("indx", i, EmptyIndex)
<1>0. /\ i \in Entries /\ e \in Entries /\ n \in Expn \cup {0} /\ n # i /\ q \in Entries /\ q # i
      /\ Index(m, q).next = i /\ \A y \in Entries : Index(m, y).next = i => y = q
      /\ n # 0 => Index(m, n).tbl # 0 /\ \A y \in Entries : Index(m, y).next = n => y = i
      /\ Index(m, q).tbl # 0 /\ i # 0
  <2>1. i \in Entries /\ e \in Entries /\ i # 0
    BY Positions DEF Deleting
  <2>2. /\ q \in Entries /\ q # i /\ Index(m, q).next = i
        /\ \A y \in Entries : Index(m, y).next = i => y = q
    BY TailPrev
  <2>3. KeptIndex(m, e, i, i) /\ KeptIndex(m, e, i, q)
    BY <2>1, <2>2, IndexKept
  <2> QED
    BY <2>1, <2>2, <2>3, Positions DEF KeptIndex
<1>1. PICK m3 : /\ Through(m2, s, m3, 0) /\ Dels(m, m3, e) /\ SameRule(m2, m3) /\ SameIndex(m2, m3)
                /\ (n # 0 => Meta(m3, n).prev = q) /\ \A j \in Expn \ {n, i} : Meta(m3, j) = Meta(m, j)
                /\ \A b \in Base : i \notin Chain(m3, "indx", b)
  <2>1. CASE n = 0
    BY <2>1, ThroughNone DEF TailCut, SameRule, SameIndex, SameMeta
  <2>2. CASE n # 0
    <3> DEFINE w1 == W("meta", n, [prev |-> q])
               m3 == Write(m2, w1)
               w2 == W("meta", i, [prev |-> 0])
               m4 == Write(m3, w2)
    <3>1. /\ Through(m2, <<w1>>, m3, 0) /\ Dels(m, m3, e) /\ MetaTo(m2, m3, n, [prev |-> q])
          /\ \A b \in Base : Chain(m3, "indx", b) = Chain(m2, "indx", b)
      BY <1>0, <2>2, DelMeta
    <3> HIDE DEF m3
    <3>2. /\ Through(m3, <<w2>>, m4, 0) /\ Dels(m, m4, e) /\ MetaTo(m3, m4, i, [prev |-> 0])
          /\ \A b \in Base : Chain(m4, "indx", b) = Chain(m3, "indx", b)
      BY <1>0, <3>1, DelMeta
    <3> HIDE DEF m4
    <3>3. /\ SameRule(m2, m4) /\ SameIndex(m2, m4) /\ Meta(m4, n).prev = q
          /\ \A j \in Expn \ {n, i} : Meta(m4, j) = Meta(m, j)
      BY <1>0, <2>2, <3>1, <3>2 DEF MetaTo, SameMeta, SameRule, SameIndex
    <3>4. \A b \in Base : i \notin Chain(m4, "indx", b)
      BY <3>1, <3>2 DEF TailCut
    <3>5. Through(m2, <<w1>> \o <<w2>>, m4, 0)
      BY <3>1, <3>2, ThroughCat
    <3> QED
      BY <2>2, <3>2, <3>3, <3>4, <3>5
  <2> QED
    BY <2>1, <2>2
<1> DEFINE m4 == Write(m3, w3)
<1>2. Through(m3, <<w3>>, m4, 0) /\ Dels(m, m4, e) /\ IndexTo(m3, m4, i, EmptyIndex)
  BY <1>0, <1>1, DropIndex
<1> HIDE DEF m4, w3, s
<1>3. /\ Index(m4, i).tbl = 0 /\ Index(m4, i).next = 0 /\ \A j \in Entries \ {i} : Index(m4, j) = Index(m3, j)
      /\ SameRule(m3, m4) /\ SameMeta(m3, m4)
  BY <1>2, EmptyRec DEF IndexTo
<1>4. Through(m2, s \o <<w3>>, m4, 0)
  BY <1>1, <1>2, ThroughCat
<1>5. SameLinking(m2, m4)
  BY <1>1, <1>3 DEF SameLinking, SameRule
<1>6. \A y \in Entries \ {e} : Rule(m4, y).indx = Rule(m, y).indx
  BY <1>1, <1>3 DEF SameRule, SameIndx
<1>7. /\ Index(m4, q).tbl = Index(m, q).tbl /\ Index(m4, q).next = n
      /\ \A j \in Entries \ {i, q} : Index(m4, j) = Index(m, j)
  BY <1>0, <1>1, <1>3 DEF SameIndex, TailCut
<1>8. (n # 0 => Meta(m4, n).prev = q) /\ \A j \in Expn \ {n, i} : Meta(m4, j) = Meta(m, j)
  BY <1>0, <1>1, <1>3 DEF SameMeta
<1>9. IndicesLeft(m, m4, e)
  <2> SUFFICES ASSUME NEW j \in Entries
               PROVE  /\ Index(m4, j).next # 0 => /\ Index(m4, j).tbl # 0 /\ Index(m4, Index(m4, j).next).tbl # 0
                                                  /\ Meta(m4, Index(m4, j).next).prev = j
                      /\ Index(m4, j).tbl = 0 => Index(m4, j).next = 0
                      /\ Index(m4, j).tbl # 0 => /\ Index(m4, j).tbl \in Entries \ {e} /\ Shown(m, Index(m4, j).tbl)
                                                 /\ Rule(m4, Index(m4, j).tbl).indx = j
    BY DEF IndicesLeft
  <2>1. CASE j = i
    BY <1>3, <2>1
  <2>2. CASE j # i
    <3>1. Index(m4, j).tbl = Index(m, j).tbl /\ (j # q => Index(m4, j).next = Index(m, j).next)
      BY <1>7, <2>2
    <3>2. /\ Index(m, j).next # 0 => /\ Index(m, j).next \in Expn /\ Index(m, j).tbl # 0 
                                      /\ Index(m, Index(m, j).next).tbl # 0 /\ Meta(m, Index(m, j).next).prev = j
          /\ Index(m, j).tbl = 0 => Index(m, j).next = 0
          /\ Index(m, j).tbl # 0 => /\ Index(m, j).tbl \in Entries /\ Shown(m, Index(m, j).tbl)
                                    /\ Rule(m, Index(m, j).tbl).indx = j
          /\ Index(m, j).tbl # e
      BY <2>2, IndexKept DEF KeptIndex
    <3>3. \A f \in Entries \ {i} : Index(m4, f).tbl = Index(m, f).tbl
      BY <1>7
    <3>4. CASE j = q
      <4>1. n # 0 => n \in Entries \ {i}
        BY <1>0, Positions
      <4> QED
        BY <1>0, <1>6, <1>7, <1>8, <3>1, <3>2, <3>3, <3>4, <4>1
    <3>5. CASE j # q
      <4>1. Index(m, j).next # i /\ (n # 0 => Index(m, j).next # n)
        BY <1>0, <2>2, <3>5
      <4>2. Index(m, j).next # 0 => /\ Index(m4, Index(m, j).next).tbl = Index(m, Index(m, j).next).tbl
                                    /\ Meta(m4, Index(m, j).next) = Meta(m, Index(m, j).next)
        BY <1>8, <3>2, <3>3, <4>1, Positions
      <4> QED
        BY <1>6, <3>1, <3>2, <3>5, <4>2
    <3> QED
      BY <3>4, <3>5
  <2> QED
    BY <2>1, <2>2
<1> QED
  BY <1>2, <1>4, <1>5, <1>9 DEF s, w3

(* The cut of the index is still there when the rule is cut.                  *)
LEMMA CutSame ==
  ASSUME NEW m, NEW i, NEW m1, NEW m2, Mem(m1), Mem(m2), SameIndex(m1, m2), i \in Entries,
         \A j \in Expn : Meta(m, j).prev \in Entries \cup {0}, i \in Expn => Meta(m, i).prev # 0,
         IndexCut(m, m1, i)
  PROVE  IndexCut(m, m2, i)
<1>1. \A j \in Entries : Index(m2, j) = Index(m1, j)
  BY DEF SameIndex
<1>2. \A b \in Base : Chain(m2, "indx", b) = Chain(m1, "indx", b)
  BY <1>1, SameIndexLinks, Positions
<1>3. i \in Expn => Meta(m, i).prev \in Entries
  OBVIOUS
<1> QED
  BY <1>1, <1>2, <1>3 DEF IndexCut, OnlyCut, HeadCut, TailCut

(* The CPU's writes to the index table leave every index in order.            *)
LEMMA CleanupThrough ==
  ASSUME NEW m, NEW h, NEW e, NEW r, NEW i, Deleting(m, h, e, r, i),
         NEW m2, Dels(m, m2, e), IndexCut(m, m2, i), SameMeta(m, m2), SameIndx(m, m2, e)
  PROVE  \E m3 : /\ Through(m2, IndexCleanup(m, i), m3, 0) /\ Dels(m, m3, e)
                 /\ SameLinking(m2, m3) /\ IndicesLeft(m, m3, e)
<1>0. i \in Base \/ i \in Expn
  BY DEF Deleting, Entries
<1>1. /\ NextOf(m, "indx", i) = Index(m, i).next /\ m[<<"meta", i>>].prev = Meta(m, i).prev
  BY DEF NextOf, Index, Meta
<1> DEFINE n == Index(m, i).next
<1>2. CASE i \in Base /\ n = 0
  <2>1. Pos(m, "indx", i) = "only_one"
    BY <1>1, <1>2 DEF Pos
  <2>2. IndexCleanup(m, i) = << W("indx", i, EmptyIndex) >>
    BY <2>1 DEF IndexCleanup
  <2>3. OnlyCut(m, m2, i)
    BY <1>2 DEF IndexCut
  <2> QED
    BY <1>2, <2>2, <2>3, OnlyDone
<1>3. CASE i \in Base /\ n # 0
  <2>1. Pos(m, "indx", i) = "head"
    BY <1>1, <1>3 DEF Pos
  <2>2. IndexCleanup(m, i) = (IF Index(m, n).next = 0 THEN <<>> ELSE <<W("meta", Index(m, n).next, [prev |-> i])>>)
                             \o << W("indx", n, EmptyIndex), W("rule", Index(m, n).tbl, [indx |-> i]) >>
    BY <2>1 DEF IndexCleanup
  <2>3. IndexCleanup(m, i) = (IF Index(m, n).next = 0 THEN <<>> ELSE <<W("meta", Index(m, n).next, [prev |-> i])>>)
                             \o (<< W("indx", n, EmptyIndex) >> \o << W("rule", Index(m, n).tbl, [indx |-> i]) >>)
    BY <2>2, Pairs
  <2>4. HeadCut(m, m2, i, n)
    BY <1>3 DEF IndexCut
  <2> HIDE DEF n
  <2>5. n = Index(m, i).next
    BY DEF n
  <2> QED
    BY <1>3, <2>3, <2>4, <2>5, HeadDone
<1>4. CASE i \in Expn
  <2> DEFINE q == Meta(m, i).prev
  <2>1. Pos(m, "indx", i) = IF n = 0 THEN "last" ELSE "middle"
    BY <1>1, <1>4, Positions DEF Pos
  <2>2. TailCut(m, m2, i, q)
    BY <1>4 DEF IndexCut
  <2>3. IndexCleanup(m, i) = (IF n = 0 THEN <<>> ELSE <<W("meta", n, [prev |-> q])>> \o <<W("meta", i, [prev |-> 0])>>)
                             \o << W("indx", i, EmptyIndex) >>
    <3>1. CASE n = 0
      <4>1. IndexCleanup(m, i) = << W("indx", i, EmptyIndex) >>
        BY <2>1, <3>1 DEF IndexCleanup
      <4> QED
        BY <3>1, <4>1, SeqEmpty, SeqUnit
    <3>2. CASE n # 0
      <4>1. IndexCleanup(m, i) = << W("meta", n, [prev |-> q]), W("meta", i, [prev |-> 0]), W("indx", i, EmptyIndex) >>
        BY <1>1, <2>1, <3>2 DEF IndexCleanup
      <4>2. \A u, v, w : <<u, v, w>> = (<<u>> \o <<v>>) \o <<w>>
        <5> SUFFICES ASSUME NEW u, NEW v, NEW w PROVE <<u, v, w>> = (<<u>> \o <<v>>) \o <<w>>
          OBVIOUS
        <5> DEFINE x == <<u>>
                   y == <<v>>
                   z == <<w>>
        <5>1. IsSeq(x) /\ IsSeq(y) /\ IsSeq(z)
          BY SeqUnit
        <5>2. <<u, v, w>> = x \o (y \o z)
          BY Triples, Zenon
        <5> HIDE DEF x, y, z
        <5>3. (x \o y) \o z = x \o (y \o z)
          BY <5>1, SeqAssoc
        <5>4. <<u, v, w>> = (x \o y) \o z
          BY <5>2, <5>3, Zenon
        <5> QED
          BY <5>4, Zenon DEF x, y, z
      <4> QED
        BY <3>2, <4>1, <4>2
    <3> QED
      BY <3>1, <3>2
  <2>4. \E m3 : /\ Through(m2, (IF n = 0 THEN <<>>
                                 ELSE <<W("meta", n, [prev |-> q])>> \o <<W("meta", i, [prev |-> 0])>>)
                                \o <<W("indx", i, EmptyIndex)>>, m3, 0)
                /\ Dels(m, m3, e) /\ SameLinking(m2, m3) /\ IndicesLeft(m, m3, e)
    BY <1>4, <2>2, TailDone
  <2> HIDE DEF n, q
  <2> QED
    BY <2>3, <2>4
<1> QED
  BY <1>0, <1>2, <1>3, <1>4

(* The dead heads: the set is empty or has one element, and so has the list.  *)
LEMMA WipeNone == Wipe({}) = <<>>
<1>1. Cardinality({}) = 0
  BY FS_EmptySet
<1>2. \E f \in [1 .. 0 -> {}] : IsInjective(f)
  <2>1. IsInjective([x \in 1 .. 0 |-> x]) /\ [x \in 1 .. 0 |-> x] \in [1 .. 0 -> {}]
    BY DEF IsInjective
  <2> QED
    BY <2>1
<1>3. SetToSeq({}) \in [1 .. 0 -> {}]
  BY <1>1, <1>2 DEF SetToSeq
<1> DEFINE f == SetToSeq({})
<1> HIDE DEF f
<1>4. f \in Seq({}) /\ Len(f) = 0
  BY <1>3 DEF f
<1> QED
  BY <1>4 DEF Wipe, f

(* One dead head.                                                             *)
LEMMA WipeOne ==
  ASSUME NEW p
  PROVE  Wipe({p}) = <<W("rule", p, EmptyRule)>>
<1>1. Cardinality({p}) = 1
  BY FS_Singleton
<1>2. \E f \in [1 .. 1 -> {p}] : IsInjective(f)
  <2>1. IsInjective([x \in 1 .. 1 |-> p]) /\ [x \in 1 .. 1 |-> p] \in [1 .. 1 -> {p}]
    BY DEF IsInjective
  <2> QED
    BY <2>1
<1>3. SetToSeq({p}) \in [1 .. 1 -> {p}]
  BY <1>1, <1>2 DEF SetToSeq
<1> DEFINE f == SetToSeq({p})
<1> HIDE DEF f
<1>4. f \in Seq({p}) /\ Len(f) = 1 /\ f[1] = p
  <2>1. f \in [1 .. 1 -> {p}] /\ 1 \in 1 .. 1
    BY <1>3 DEF f
  <2>2. f \in Seq({p}) /\ Len(f) = 1
    BY <2>1
  <2>3. f[1] \in {p}
    BY <2>1, Zenon
  <2> QED
    BY <2>2, <2>3
<1>5. Wipe({p}) = [k \in 1 .. 1 |-> W("rule", f[k], EmptyRule)]
  BY <1>4 DEF Wipe, f
<1> DEFINE w == W("rule", p, EmptyRule)
<1>6. Wipe({p}) = [k \in 1 .. 1 |-> w]
  BY <1>4, <1>5
<1> HIDE DEF w
<1>7. [k \in 1 .. 1 |-> w] = <<w>>
  OBVIOUS
<1> QED
  BY <1>6, <1>7 DEF w

KeptRule(m, y) ==
  /\ Rule(m, y).next # 0 => /\ Rule(m, y).next \in Expn /\ Rule(m, y).next # y
                            /\ Rule(m, y).enable /\ Rule(m, Rule(m, y).next).enable
                            /\ Rule(m, Rule(m, y).next).prev = y
                            /\ \A z \in Entries : Rule(m, z).next = Rule(m, y).next => z = y
  /\ ~Rule(m, y).enable => Rule(m, y).next = 0 /\ ~Rule(m, y).invalid
  /\ Rule(m, y).invalid => y \in Base /\ Rule(m, y).next # 0
(* What the deletion has to keep of every rule.                               *)
LEMMA RuleKept ==
  ASSUME NEW m, Settled(m), NEW y, y \in Entries
  PROVE  KeptRule(m, y)
<1>1. Rule(m, y).next # 0 => Rule(m, y).enable
  BY DEF Settled, Back
<1>2. /\ ~Rule(m, y).enable => Rule(m, y).next = 0 /\ ~Rule(m, y).invalid
      /\ Rule(m, y).invalid => y \in Base /\ Rule(m, y).next # 0
  BY DEF Settled, Back
<1> QED
  BY <1>1, <1>2, SettledLinks DEF KeptRule

(* The rules after the clean-up, unless that left a dead head.                *)
LEMMA RulesDone ==
  ASSUME NEW m, NEW h, NEW e, NEW r, NEW i, Deleting(m, h, e, r, i),
         NEW m2, RuleCut(m, m2, e),
         ~(e \in Expn /\ Rule(m, e).next = 0 /\ Rule(m, Rule(m, e).prev).invalid)
  PROVE  RulesLeft(m, m2, e) /\ DeadHeads(m2) = {}
<1>0. /\ Settled(m) /\ e \in Entries /\ KeptRule(m, e) /\ \A y \in Entries : KeptRule(m, y)
      /\ Rule(m, e).enable
  BY RuleKept, DeletingFacts DEF Deleting
<1> DEFINE p == Rule(m, e).prev
           f == Rule(m, e).next
<1>1. CASE e \in Base
  <2>0. e \notin Expn /\ (f # 0 => f \in Expn /\ f \in Entries /\ f # e)
    BY <1>0, <1>1, Positions DEF KeptRule
  <2>1. ASSUME NEW y \in Entries, y # e
        PROVE  /\ Rule(m2, y).next = Rule(m, y).next /\ Rule(m2, y).prev = Rule(m, y).prev
               /\ Rule(m2, y).enable = Rule(m, y).enable /\ Rule(m2, y).invalid = Rule(m, y).invalid
               /\ KeptRule(m, y)
    BY <1>0, <1>1, <2>1 DEF RuleCut, SameNext, SamePrev, SameFlags
  <2>2. Gone(m2, e) \/ (Rule(m2, e).enable /\ Rule(m2, e).invalid /\ Rule(m2, e).next = f /\ f # 0)
    BY <1>1 DEF RuleCut
  <2> HIDE DEF f
  <2>3. ASSUME NEW y \in Entries
        PROVE  /\ Rule(m2, y).next # 0 => /\ Rule(m2, y).enable /\ Rule(m2, Rule(m2, y).next).enable
                                          /\ Rule(m2, Rule(m2, y).next).prev = y
               /\ ~Rule(m2, y).enable => Rule(m2, y).next = 0 /\ ~Rule(m2, y).invalid
               /\ Rule(m2, y).invalid => y \in Base /\ Rule(m2, y).next # 0
               /\ Shown(m2, y) => y # e /\ Shown(m, y)
    <3>1. CASE y = e
      <4>1. f # 0 => Rule(m2, f).enable /\ Rule(m2, f).prev = e
        BY <1>0, <2>0, <2>1 DEF KeptRule, f
      <4> QED
        BY <1>1, <2>2, <3>1, <4>1 DEF Gone, Shown
    <3>2. CASE y # e
      <4>1. Rule(m, y).next # 0 => Rule(m, y).next \in Entries /\ Rule(m, y).next # e
        BY <2>0, <2>1, <3>2, Positions DEF KeptRule
      <4> QED
        BY <2>1, <3>2, <4>1 DEF KeptRule, Shown
    <3> QED
      BY <3>1, <3>2
  <2>4. DeadHeads(m2) = {}
    BY <2>3, Positions DEF DeadHeads
  <2> QED
    BY <2>3, <2>4 DEF RulesLeft
<1>2. CASE e \in Expn
  <2>0. /\ p \in Entries /\ p # e /\ Rule(m, p).next = e /\ f # e /\ KeptRule(m, p)
        /\ \A y \in Entries : Rule(m, y).next = e => y = p
        /\ e # 0 /\ (f # 0 => f \in Entries) /\ Rule(m, p).enable
    <3>1. /\ p \in Entries /\ p # e /\ Rule(m, p).next = e /\ f # e
          /\ \A y \in Entries : Rule(m, y).next = e => y = p
      BY <1>2, RulePrev
    <3>2. e # 0 /\ (f # 0 => f \in Entries) /\ KeptRule(m, p)
      BY <1>0, <1>2, <3>1, Positions DEF KeptRule
    <3> QED
      BY <3>1, <3>2 DEF KeptRule
  <2>1. ASSUME NEW y \in Entries, y # e
        PROVE  /\ y # p => Rule(m2, y).next = Rule(m, y).next
               /\ y # f => Rule(m2, y).prev = Rule(m, y).prev
               /\ Rule(m2, y).enable = Rule(m, y).enable /\ Rule(m2, y).invalid = Rule(m, y).invalid
               /\ KeptRule(m, y)
    BY <1>0, <1>2, <2>1 DEF RuleCut, SameNext, SamePrev, SameFlags
  <2>2. Gone(m2, e) /\ Rule(m2, p).next = f /\ (f # 0 => Rule(m2, f).prev = p)
    BY <1>2 DEF RuleCut
  <2>3. f = 0 => ~Rule(m, p).invalid
    BY <1>2
  <2>4. f # 0 => Rule(m, f).enable /\ \A y \in Entries : Rule(m, y).next = f => y = e
    BY <1>0 DEF KeptRule
  <2> HIDE DEF f, p
  <2>5. ASSUME NEW y \in Entries
        PROVE  /\ Rule(m2, y).next # 0 => /\ Rule(m2, y).enable /\ Rule(m2, Rule(m2, y).next).enable
                                          /\ Rule(m2, Rule(m2, y).next).prev = y
               /\ ~Rule(m2, y).enable => Rule(m2, y).next = 0 /\ ~Rule(m2, y).invalid
               /\ Rule(m2, y).invalid => y \in Base /\ Rule(m2, y).next # 0
               /\ Shown(m2, y) => y # e /\ Shown(m, y)
    <3>1. CASE y = e
      BY <2>2, <3>1 DEF Gone, Shown
    <3>2. CASE y = p
      <4>1. f # 0 => Rule(m2, f).enable
        BY <2>0, <2>1, <2>4
      <4>2. Rule(m, p).invalid => p \in Base
        BY <2>0 DEF KeptRule
      <4> QED
        BY <2>0, <2>1, <2>2, <2>3, <3>2, <4>1, <4>2 DEF Shown
    <3>3. CASE y # e /\ y # p
      <4>1. Rule(m, y).next # e /\ (Rule(m, y).next # 0 => Rule(m, y).next # f)
        BY <2>0, <2>4, <3>3
      <4>2. Rule(m, y).next # 0 => Rule(m, y).next \in Entries
        BY <2>1, <3>3, Positions DEF KeptRule
      <4> QED
        BY <2>1, <3>3, <4>1, <4>2 DEF KeptRule, Shown
    <3> QED
      BY <3>1, <3>2, <3>3
  <2>6. DeadHeads(m2) = {}
    BY <2>5, Positions DEF DeadHeads
  <2> QED
    BY <2>5, <2>6 DEF RulesLeft
<1> QED
  BY <1>0, <1>1, <1>2 DEF Entries

(* ... or it left one, which is wiped.                                        *)
LEMMA RulesWiped ==
  ASSUME NEW m, NEW h, NEW e, NEW r, NEW i, Deleting(m, h, e, r, i), e \in Expn,
         NEW p, p = Rule(m, e).prev, Rule(m, e).next = 0, Rule(m, p).invalid,
         NEW m2, RuleCut(m, m2, e)
  PROVE  /\ p \in Base /\ p \in Entries /\ p # e /\ DeadHeads(m2) = {p} /\ Rule(m2, p).next = 0 /\ Rule(m2, p).invalid
         /\ \A m3 : Gone(m3, p) /\ (\A y \in Entries \ {p} : Rule(m3, y) = Rule(m2, y)) => RulesLeft(m, m3, e)
<1>0. /\ Settled(m) /\ e \in Entries /\ \A y \in Entries : KeptRule(m, y)
  BY RuleKept DEF Deleting
<1>1. /\ p \in Entries /\ p # e /\ Rule(m, p).next = e
      /\ \A y \in Entries : Rule(m, y).next = e => y = p
  BY RulePrev
<1>2. p \in Base
  BY <1>0, <1>1 DEF KeptRule
<1>3. ASSUME NEW y \in Entries, y # e
      PROVE  /\ y # p => Rule(m2, y).next = Rule(m, y).next
             /\ Rule(m2, y).prev = Rule(m, y).prev
             /\ Rule(m2, y).enable = Rule(m, y).enable /\ Rule(m2, y).invalid = Rule(m, y).invalid
             /\ KeptRule(m, y)
  BY <1>0, <1>3, Positions DEF RuleCut, SameNext, SamePrev, SameFlags
<1>4. Gone(m2, e) /\ Rule(m2, p).next = 0
  BY DEF RuleCut
<1>5. Rule(m2, p).invalid
  BY <1>1, <1>3
<1>6. DeadHeads(m2) = {p}
  <2>1. ASSUME NEW b \in Base, b # p PROVE ~(Rule(m2, b).invalid /\ Rule(m2, b).next = 0)
    <3>1. b \in Entries /\ b # e
      BY Positions
    <3> QED
      BY <1>3, <2>1, <3>1 DEF KeptRule
  <2> QED
    BY <1>2, <1>4, <1>5, <2>1 DEF DeadHeads
<1>7. ASSUME NEW m3, Gone(m3, p), \A y \in Entries \ {p} : Rule(m3, y) = Rule(m2, y)
      PROVE  RulesLeft(m, m3, e)
  <2> SUFFICES ASSUME NEW y \in Entries
               PROVE  /\ Rule(m3, y).next # 0 => /\ Rule(m3, y).enable /\ Rule(m3, Rule(m3, y).next).enable
                                                 /\ Rule(m3, Rule(m3, y).next).prev = y
                      /\ ~Rule(m3, y).enable => Rule(m3, y).next = 0 /\ ~Rule(m3, y).invalid
                      /\ Rule(m3, y).invalid => y \in Base /\ Rule(m3, y).next # 0
                      /\ Shown(m3, y) => y # e /\ Shown(m, y)
    BY DEF RulesLeft
  <2>1. CASE y = p
    BY <1>7, <2>1 DEF Gone, Shown
  <2>2. CASE y = e
    <3>1. Gone(m3, e)
      BY <1>0, <1>1, <1>4, <1>7 DEF Gone
    <3> QED
      BY <2>2, <3>1 DEF Gone, Shown
  <2>3. CASE y # p /\ y # e
    <3>1. /\ Rule(m3, y).next = Rule(m, y).next /\ Rule(m3, y).enable = Rule(m, y).enable
          /\ Rule(m3, y).invalid = Rule(m, y).invalid /\ KeptRule(m, y)
      BY <1>3, <1>7, <2>3
    <3>2. Rule(m, y).next # 0 => Rule(m, y).next \in Entries /\ Rule(m, y).next # e /\ Rule(m, y).next # p
      BY <1>1, <1>2, <2>3, <3>1, Positions DEF KeptRule
    <3>3. Rule(m, y).next # 0 => /\ Rule(m3, Rule(m, y).next).enable = Rule(m, Rule(m, y).next).enable
                                 /\ Rule(m3, Rule(m, y).next).prev = Rule(m, Rule(m, y).next).prev
      BY <1>3, <1>7, <3>2
    <3> QED
      BY <2>3, <3>1, <3>3 DEF KeptRule, Shown
  <2> QED
    BY <2>1, <2>2, <2>3
<1> QED
  BY <1>1, <1>2, <1>4, <1>5, <1>6, <1>7

(* The cut of the rule is still there when the indices are in order.          *)
LEMMA CutLinking ==
  ASSUME NEW m, NEW h, NEW e, NEW r, NEW i, Deleting(m, h, e, r, i),
         NEW m2, NEW m3, RuleCut(m, m2, e), SameLinking(m2, m3)
  PROVE  RuleCut(m, m3, e)
<1> DEFINE p == Rule(m, e).prev
           f == Rule(m, e).next
<1>0. e \in Entries /\ (e \in Expn => p \in Entries) /\ (f # 0 => f \in Entries)
  <2>1. e \in Entries /\ Mem(m)
    BY DEF Deleting, Settled
  <2>2. e \in Expn => p \in Entries
    BY RulePrev
  <2>3. f \in Expn \cup {0}
    BY <2>1, MemLinks
  <2> HIDE DEF p, f
  <2> QED
    BY <2>1, <2>2, <2>3, Positions
<1> HIDE DEF p, f
<1>1. SameFlags(m, m3, e)
  BY DEF RuleCut, SameFlags, SameLinking
<1>2. e \in Base => SameNext(m, m3, {e}) /\ SamePrev(m, m3, {e})
  BY DEF RuleCut, SameNext, SamePrev, SameLinking
<1>3. e \in Base /\ f = 0 => Gone(m3, e)
  BY <1>0 DEF RuleCut, Gone, SameLinking, f
<1>4. e \in Base /\ f # 0 => Rule(m3, e).enable /\ Rule(m3, e).invalid /\ Rule(m3, e).next = f
  BY <1>0 DEF RuleCut, SameLinking, f
<1>5. e \in Expn => /\ Gone(m3, e) /\ SameNext(m, m3, {e, p}) /\ SamePrev(m, m3, {e, f})
                    /\ Rule(m3, p).next = f /\ (f # 0 => Rule(m3, f).prev = p)
  <2> SUFFICES ASSUME e \in Expn
               PROVE  /\ Gone(m3, e) /\ SameNext(m, m3, {e, p}) /\ SamePrev(m, m3, {e, f})
                      /\ Rule(m3, p).next = f /\ (f # 0 => Rule(m3, f).prev = p)
    OBVIOUS
  <2>1. /\ Gone(m2, e) /\ SameNext(m, m2, {e, p}) /\ SamePrev(m, m2, {e, f})
        /\ Rule(m2, p).next = f /\ (f # 0 => Rule(m2, f).prev = p)
    BY DEF RuleCut, p, f
  <2> QED
    BY <1>0, <2>1 DEF SameLinking, Gone, SameNext, SamePrev
<1> QED
  BY <1>1, <1>2, <1>3, <1>4, <1>5 DEF RuleCut, p, f

(* The head that lost its last entry is wiped, and there is no other.         *)
LEMMA WipeThrough ==
  ASSUME NEW m, NEW h, NEW e, NEW r, NEW i, Deleting(m, h, e, r, i),
         NEW m3, RuleCut(m, m3, e), Dels(m, m3, e), IndicesLeft(m, m3, e)
  PROVE  \E m4 : /\ Through(m3, Wipe(DeadHeads(m3)), m4, 0) /\ Dels(m, m4, e)
                 /\ RulesLeft(m, m4, e) /\ IndicesLeft(m, m4, e)
<1> DEFINE p == Rule(m, e).prev
<1>0. e \in Entries /\ Mem(m3)
  BY DEF Deleting, Dels
<1>1. CASE ~(e \in Expn /\ Rule(m, e).next = 0 /\ Rule(m, p).invalid)
  <2>1. RulesLeft(m, m3, e) /\ DeadHeads(m3) = {}
    BY <1>1, RulesDone
  <2>2. Wipe(DeadHeads(m3)) = <<>>
    BY <2>1, WipeNone
  <2> QED
    BY <2>1, <2>2, ThroughNone
<1>2. CASE e \in Expn /\ Rule(m, e).next = 0 /\ Rule(m, p).invalid
  <2>1. p = Rule(m, e).prev
    OBVIOUS
  <2> HIDE DEF p
  <2>2. /\ p \in Base /\ p \in Entries /\ p # e /\ DeadHeads(m3) = {p} /\ Rule(m3, p).next = 0 /\ Rule(m3, p).invalid
        /\ \A n : Gone(n, p) /\ (\A y \in Entries \ {p} : Rule(n, y) = Rule(m3, y)) => RulesLeft(m, n, e)
    BY <1>2, <2>1, RulesWiped
  <2> DEFINE w == W("rule", p, EmptyRule)
             m4 == Write(m3, w)
  <2>3. RuleTo(m3, m4, p, EmptyRule)
    BY <1>0, <2>2, RuleWritten, EmptyRec
  <2>4. Wipe(DeadHeads(m3)) = <<w>>
    BY <2>2, WipeOne
  <2> HIDE DEF m4, w
  <2>5. /\ Mem(m4) /\ Gone(m4, p) /\ \A y \in Entries \ {p} : Rule(m4, y) = Rule(m3, y)
        /\ SameIndex(m3, m4) /\ SameMeta(m3, m4) /\ SameId(m3, m4) /\ Rule(m4, p).next = Rule(m3, p).next
    BY <2>2, <2>3, EmptyRec DEF RuleTo, Gone
  <2>6. /\ Off(m3, m4, p)
        /\ \A b \in Base : /\ Chain(m4, "indx", b) = Chain(m3, "indx", b)
                           /\ InIndex(m4, b, p) <=> InIndex(m3, b, p)
    BY <1>0, <2>2, <2>5, RuleOff DEF SameIndex
  <2>7. ~Shown(m, p)
    BY <1>2 DEF Shown
  <2>8. ASSUME NEW b \in Base PROVE ~InIndex(m3, b, p)
    <3>1. \A j \in Chain(m3, "indx", b) : j \in Entries
      BY <1>0, ChainIn, Positions
    <3> QED
      BY <2>2, <2>7, <3>1, Positions DEF InIndex, IndicesLeft
  <2>9. ASSUME NEW b \in Base PROVE ~InIndex(m4, b, e)
    <3>1. \A j \in Chain(m3, "indx", b) : j \in Entries /\ Index(m3, j).tbl # e
      BY <1>0, ChainIn, Positions DEF Dels, InIndex
    <3> QED
      BY <2>5, <2>6, <3>1 DEF InIndex, SameIndex
  <2>10. Off(m3, m4, e)
    <3>1. \A b \in Base : ~InRule(m3, b, p) /\ ~InRule(m4, b, p) /\ ~InIndex(m3, b, p) /\ ~InIndex(m4, b, p)
      BY <2>2, <2>5, <2>6, <2>8 DEF InRule, Shown, Gone
    <3> QED
      BY <2>6, <3>1 DEF Off
  <2>11. Through(m3, <<w>>, m4, 0) /\ Dels(m, m4, e)
    BY <2>5, <2>9, <2>10, DelStep DEF m4
  <2>12. RulesLeft(m, m4, e)
    BY <2>2, <2>5
  <2>13. IndicesLeft(m, m4, e)
    <3> SUFFICES ASSUME NEW j \in Entries
                 PROVE  /\ Index(m3, j).next # 0 => /\ Index(m3, j).tbl # 0 /\ Index(m4, Index(m3, j).next).tbl # 0
                                                    /\ Meta(m4, Index(m3, j).next).prev = j
                        /\ Index(m3, j).tbl = 0 => Index(m3, j).next = 0
                        /\ Index(m3, j).tbl # 0 => /\ Index(m3, j).tbl \in Entries \ {e} /\ Shown(m, Index(m3, j).tbl)
                                                   /\ Rule(m4, Index(m3, j).tbl).indx = j
      BY <2>5 DEF IndicesLeft, SameIndex
    <3>1. /\ Index(m3, j).next # 0 => /\ Index(m3, j).tbl # 0 /\ Index(m3, Index(m3, j).next).tbl # 0
                                      /\ Meta(m3, Index(m3, j).next).prev = j
                                      /\ Index(m3, j).next \in Expn /\ Index(m3, j).next \in Entries
          /\ Index(m3, j).tbl = 0 => Index(m3, j).next = 0
          /\ Index(m3, j).tbl # 0 => /\ Index(m3, j).tbl \in Entries \ {e} /\ Shown(m, Index(m3, j).tbl)
                                     /\ Rule(m3, Index(m3, j).tbl).indx = j
      BY <1>0, MemLinks, Positions DEF IndicesLeft
    <3> QED
      BY <2>5, <2>7, <3>1 DEF SameIndex, SameMeta
  <2> QED
    BY <2>4, <2>11, <2>12, <2>13
<1> QED
  BY <1>1, <1>2

(* The handle ends, and the table is settled.                                 *)
LEMMA LastStep ==
  ASSUME NEW m, NEW h, NEW e, NEW r, NEW i, Deleting(m, h, e, r, i),
         NEW m4, Dels(m, m4, e), RulesLeft(m, m4, e), IndicesLeft(m, m4, e)
  PROVE  Safe(m4, <<W("id", h, [entry |-> 0, rule |-> NoRule])>>)
<1> DEFINE rec == [entry |-> 0, rule |-> NoRule]
           w == W("id", h, rec)
           m5 == Write(m4, w)
<1>0. /\ h \in Handles /\ e \in Entries /\ r \in Rules /\ Id(m, h).entry = e /\ Id(m, h).rule = r /\ Mem(m4)
      /\ \A g \in Handles : Id(m4, g) = Id(m, g)
      /\ \A g \in Handles \ {h} : Id(m, g).rule # r
  BY DEF Deleting, Dels, SameId, OwnedBy
<1>1. rec \in IdRec /\ rec.entry = 0 /\ rec.rule = NoRule
  BY DEF IdRec
<1> HIDE DEF rec
<1>2. IdTo(m4, m5, h, rec)
  BY <1>0, <1>1, OtherWritten
<1> HIDE DEF m5, w
<1>3. /\ Mem(m5) /\ Id(m5, h).entry = 0 /\ Id(m5, h).rule = NoRule
      /\ \A g \in Handles \ {h} : Id(m5, g) = Id(m4, g)
      /\ \A y \in Entries : Rule(m5, y) = Rule(m4, y)
      /\ \A y \in Entries : Index(m5, y) = Index(m4, y)
      /\ \A y \in Expn : Meta(m5, y) = Meta(m4, y)
  BY <1>1, <1>2 DEF IdTo, SameRule, SameIndex, SameMeta
<1>4. Alike(m4, m5)
  BY <1>3 DEF Alike
<1>5. Off(m4, m5, e) /\ Hidden(m4, e) /\ Hidden(m5, e)
  <2>1. Hidden(m4, e)
    BY DEF Hidden, Dels
  <2> QED
    BY <1>0, <1>3, <1>4, <2>1, AlikeOff
<1>6. Off(m, m5, e)
  BY <1>5, OffTrans DEF Dels
<1>7. Settled(m5)
  <2>1. \A y \in Entries : /\ Rule(m4, y).next # 0 => Rule(m4, y).next \in Entries
                           /\ Index(m4, y).next # 0 => Index(m4, y).next \in Entries /\ Index(m4, y).next \in Expn
                           /\ Index(m4, y).tbl # 0 => Index(m4, y).tbl \in Entries
    BY <1>0, MemLinks, Positions
  <2>2. RulesLeft(m, m5, e)
    BY <1>3, <2>1 DEF RulesLeft, Shown
  <2>3. IndicesLeft(m, m5, e)
    BY <1>3, <2>1 DEF IndicesLeft
  <2> QED
    BY <1>0, <1>3, <1>6, <2>2, <2>3, DelSettled
<1>8. Inst(m4) = Inst(m) \ {r}
  BY RemovedInst DEF Dels
<1>9. Inst(m5) = Inst(m4)
  BY <1>5, OffInst
<1>10. h \in Held(m4) /\ Given(m4)[h] = r
  BY <1>0, Positions DEF Held, Given
<1>11. Held(m5) = Held(m4) \ {h}
  BY <1>0, <1>3 DEF Held
<1>12. Given(m5) = [g \in Held(m4) \ {h} |-> Given(m4)[g]]
  <2>1. \A g \in Held(m4) \ {h} : Id(m5, g) = Id(m4, g)
    BY <1>3 DEF Held
  <2> QED
    BY <1>11, <2>1 DEF Given
<1>13. Moves(m4, m5)
  BY <1>8, <1>9, <1>10, <1>12 DEF Moves
<1>14. IsSeq(<<>>) /\ <<w>> \o <<>> = <<w>> /\ <<w>> \o <<>> # <<>> /\ Head(<<w>> \o <<>>) = w
  BY SeqUnit, SeqEmpty, SeqHead
<1>15. Safe(m5, <<>>)
  BY <1>3, <1>7, SafeEnd, SettledDangle DEF Good
<1>16. NoDangle(m4, AddingIn(<<w>> \o <<>>))
  BY DEF Dels, NoDangle
<1>17. Good(m4, <<w>> \o <<>>)
  BY <1>0, <1>13, <1>14, <1>16 DEF Good, m5
<1>18. Safe(m4, <<w>> \o <<>>)
  BY <1>15, <1>17, SafeCons DEF m5
<1>19. Safe(m4, <<w>>)
  BY <1>14, <1>18
<1> QED
  BY <1>19 DEF w, rec

(* A deletion from a settled table: between any two of its writes the table   *)
(* is a set of rules and no index dangles, and after the last it is settled   *)
(* again.                                                                     *)
LEMMA DelSafe ==
  ASSUME NEW m, Settled(m), NEW h \in Handles, Id(m, h).entry # 0
  PROVE  Safe(m, DelWrites(m, h))
<1> DEFINE e == Id(m, h).entry
           r == Id(m, h).rule
           i == Rule(m, e).indx
           A == IndexCmds(m, i)
           B == RuleCmds(m, e)
           C == RuleCleanup(m, e)
           D == IndexCleanup(m, i)
           done == ((A \o B) \o C) \o D
           w == W("id", h, [entry |-> 0, rule |-> NoRule])
<1>0. DelWrites(m, h) = (done \o Wipe(DeadHeads(After(m, done)))) \o <<w>>
  BY DEF DelWrites, DmaCmds, Id
<1>1. Deleting(m, h, e, r, i)
  <2>1. OwnedBy(m, h, e, r) /\ e \in Entries
    BY DEF Settled, Owned, Mem, IdRec
  <2>2. r \in Rules /\ i \in Entries
    <3>1. r \in Rules /\ SrcHash[r] \in Base /\ i \in Chain(m, "indx", SrcHash[r])
      BY <2>1, TableAssumption DEF OwnedBy
    <3> QED
      BY <3>1, ChainIn, Positions DEF Settled
  <2> QED
    BY <2>1, <2>2 DEF Deleting
<1>2. IsSeq(B) /\ IsSeq(C)
  <2>1. IsSeq(B)
    BY SeqUnit DEF RuleCmds
  <2>3. IsSeq(IF Pos(m, "rule", e) = "middle" THEN <<W("rule", Rule(m, e).next, [prev |-> Rule(m, e).prev])>> ELSE <<>>)
    BY SeqUnit
  <2>4. IsSeq(IF Pos(m, "rule", e) = "head" THEN <<>> ELSE <<W("rule", e, EmptyRule)>>)
    BY SeqUnit
  <2>5. IsSeq(C)
    BY <2>3, <2>4, SeqCat DEF RuleCleanup
  <2> QED
    BY <2>1, <2>5
<1> HIDE DEF e, r, i, A, B, C, D, w
<1>3. PICK m1 : Through(m, A, m1, 0) /\ Dels(m, m1, e) /\ SameRule(m, m1) /\ SameMeta(m, m1) /\ IndexCut(m, m1, i)
  BY <1>1, IndexThrough DEF A
<1>4. PICK m2 : /\ Through(m1, B \o C, m2, 0) /\ Dels(m, m2, e)
                /\ SameIndex(m1, m2) /\ SameMeta(m1, m2) /\ RuleCut(m, m2, e) /\ SameIndx(m, m2, e)
  BY <1>1, <1>3, RuleThrough DEF B, C
<1>5. PICK m3 : /\ Through(m2, D, m3, 0) /\ Dels(m, m3, e)
                /\ SameLinking(m2, m3) /\ IndicesLeft(m, m3, e)
  <2>1. IndexCut(m, m2, i)
    <3>1. /\ Mem(m1) /\ Mem(m2) /\ i \in Entries /\ \A j \in Expn : Meta(m, j).prev \in Entries \cup {0}
      BY <1>1, <1>3, <1>4 DEF Dels, Deleting, Settled, Mem, MetaRec
    <3>2. i \in Expn => Meta(m, i).prev # 0
      BY <1>1, TailPrev, Positions
    <3> QED
      BY <1>3, <1>4, <3>1, <3>2, CutSame
  <2>2. SameMeta(m, m2)
    BY <1>3, <1>4 DEF SameMeta
  <2> QED
    BY <1>1, <1>4, <2>1, <2>2, CleanupThrough DEF D
<1>6. RuleCut(m, m3, e)
  BY <1>1, <1>4, <1>5, CutLinking
<1>7. PICK m4 : /\ Through(m3, Wipe(DeadHeads(m3)), m4, 0) /\ Dels(m, m4, e)
                /\ RulesLeft(m, m4, e) /\ IndicesLeft(m, m4, e)
  BY <1>1, <1>5, <1>6, WipeThrough
<1>8. Through(m, done, m3, 0)
  <2>1. Through(m, A \o (B \o C), m2, 0)
    BY <1>3, <1>4, ThroughCat
  <2>2. IsSeq(A)
    BY <1>3 DEF Through
  <2>3. A \o (B \o C) = (A \o B) \o C
    BY <1>2, <2>2, SeqAssoc
  <2>4. Through(m, (A \o B) \o C, m2, 0)
    BY <2>1, <2>3
  <2> QED
    BY <1>5, <2>4, ThroughCat
<1>9. After(m, done) = m3
  <2> HIDE DEF done
  <2>1. IsSeq(done) /\ IsSeq(<<>>) /\ After(m, <<>>) = m
    BY <1>8, SeqUnit, AfterNone DEF Through
  <2>2. After(m, <<>> \o done) = m3
    BY <1>8, <2>1 DEF Through
  <2> QED
    BY <2>1, <2>2, SeqEmpty
<1>10. Through(m, done \o Wipe(DeadHeads(m3)), m4, 0)
  BY <1>7, <1>8, ThroughCat
<1>11. Safe(m4, <<w>>)
  BY <1>1, <1>7, LastStep DEF w
<1>12. Safe(m, (done \o Wipe(DeadHeads(m3))) \o <<w>>)
  BY <1>10, <1>11 DEF Through, Fits
<1> QED
  BY <1>0, <1>9, <1>12

-------------------------------------------------------------------------------
(* An empty table is settled, shows nothing to the hardware and has no        *)
(* handles (ipa_nati_reset_tbl).                                              *)
LEMMA EmptySettled == Settled(Empty) /\ Inst(Empty) = {} /\ Given(Empty) = << >>
<1>1. \A c \in Cells : Empty[c] = CASE c[1] = "rule" -> EmptyRule
              [] c[1] = "indx" -> EmptyIndex
              [] c[1] = "meta" -> [prev |-> 0]
              [] c[1] = "id"   -> [entry |-> 0, rule |-> NoRule]
  BY DEF Empty, Cells
<1>2. \A e \in Entries : Rule(Empty, e) = EmptyRule /\ Index(Empty, e) = EmptyIndex
  BY <1>1 DEF Cells, Rule, Index
<1>3. \A h \in Handles : Id(Empty, h) = [entry |-> 0, rule |-> NoRule]
  BY <1>1 DEF Cells, Id
<1>4. /\ \A e \in Entries : /\ ~Rule(Empty, e).enable /\ ~Rule(Empty, e).invalid /\ Rule(Empty, e).next = 0
                            /\ Index(Empty, e).tbl = 0 /\ Index(Empty, e).next = 0
      /\ \A h \in Handles : Id(Empty, h).entry = 0 /\ Id(Empty, h).rule = NoRule
  BY <1>2, <1>3 DEF EmptyRule, EmptyIndex
<1>5. Held(Empty) = {}
  BY <1>4 DEF Held
<1>6. Given(Empty) = << >>
  BY <1>5 DEF Given
<1>7. Inst(Empty) = {}
  BY <1>4 DEF Inst, Finds, InRule, Shown
<1>8. Back(Empty) /\ Owned(Empty) /\ Indexed(Empty)
  BY <1>4 DEF Back, Owned, Indexed, Shown
<1> QED
  BY <1>6, <1>7, <1>8, EmptyMem DEF Settled

(* The invariant: the writes still to do are safe for the memory they are     *)
(* done to, and without a table there are none.                               *)
Kept == /\ Safe(mem, todo)
        /\ ~table => mem = Empty /\ todo = <<>>

(* What the invariant says of the memory.                                     *)
LEMMA KeptGood ==
  ASSUME Kept
  PROVE  Mem(mem) /\ Good(mem, todo) /\ (todo = <<>> => Settled(mem))
  BY SafeGood DEF Kept, Good

(* An empty table with nothing to do.                                         *)
LEMMA EmptySafe == Safe(Empty, <<>>)
  BY EmptySettled, SafeEnd, SettledDangle, EmptyMem DEF Good

(* The program starts without a table.                                        *)
LEMMA KeptInit == Init => Kept
  BY EmptySafe DEF Init, Kept

(* Every step keeps the invariant, the additions and deletions by AddSafe and *)
(* DelSafe.                                                                   *)
LEMMA KeptStep ==
  ASSUME Faults = {}, Kept, [Next]_vars
  PROVE  Kept'
<1>1. CASE AddTable \/ DelTable
  BY <1>1, EmptySafe DEF AddTable, DelTable, Kept
<1>2. CASE Step
  BY <1>2, SafeStep DEF Step, Kept
<1>3. ASSUME NEW r \in Rules, AddRule(r) PROVE Kept'
  <2>1. PICK p \in Place(mem, "rule", DstHash[r]), q \in Place(mem, "indx", SrcHash[r]) :
          todo' = AddWrites(mem, r, p, q, "none")
    BY <1>3 DEF AddRule
  <2>2. Settled(mem) /\ \A h \in Handles : Id(mem, h).rule # r
    BY <1>3, KeptGood DEF AddRule, Id
  <2>3. Safe(mem, todo')
    BY <2>1, <2>2, AddSafe
  <2> QED
    BY <1>3, <2>3 DEF AddRule, Kept
<1>4. ASSUME NEW h \in Handles, DelRule(h) PROVE Kept'
  <2>1. Settled(mem) /\ Id(mem, h).entry # 0 /\ todo' = DelWrites(mem, h)
    BY <1>4, KeptGood DEF DelRule, Parse, Id
  <2>2. Safe(mem, todo')
    BY <2>1, DelSafe
  <2> QED
    BY <1>4, <2>2 DEF DelRule, Kept
<1>5. CASE UNCHANGED vars
  BY <1>5 DEF vars, Kept
<1> QED
  BY <1>1, <1>2, <1>3, <1>4, <1>5 DEF Next

(* The invariant holds as long as no ioctl is refused in the middle of an     *)
(* addition.                                                                  *)
LEMMA AlwaysKept == Faults = {} => (Spec => []Kept)
<1> SUFFICES ASSUME Faults = {} PROVE Spec => []Kept
  OBVIOUS
<1>1. Kept /\ [Next]_vars => Kept'
  BY KeptStep
<1> QED
  BY <1>1, KeptInit, PTL DEF Spec

-------------------------------------------------------------------------------
(* Between any two writes, whatever was added and deleted before and however  *)
(* the hashes collide, every index the hardware reaches is of an enabled rule *)
(* or of the one about to be enabled (ReorderCmds).                           *)
THEOREM IndicesNeverDangle == Faults = {} => (Spec => []IndexNeverDangles)
<1>1. Kept => IndexNeverDangles
  <2> SUFFICES ASSUME Kept, NEW b \in Base, NEW i \in Chain(mem, "indx", b), Index(mem, i).tbl # 0
               PROVE  \/ Rule(mem, Index(mem, i).tbl).enable
                      \/ Index(mem, i).tbl \in Adding
    BY DEF IndexNeverDangles
  <2>1. Mem(mem) /\ NoDangle(mem, AddingIn(todo))
    BY KeptGood DEF Good
  <2>2. i \in Entries
    BY <2>1, ChainIn, Positions
  <2>3. Index(mem, i).tbl \in Entries
    BY <2>1, <2>2, MemLinks
  <2>4. InIndex(mem, b, Index(mem, i).tbl)
    BY DEF InIndex
  <2>5. Adding = AddingIn(todo)
    BY DEF Adding, AddingIn
  <2> QED
    BY <2>1, <2>3, <2>4, <2>5 DEF NoDangle
<1> QED
  BY <1>1, AlwaysKept, PTL

(* The back links a later deletion trusts are right after any order of        *)
(* additions and deletions, in both tables (UpdateSwSpecParams).              *)
THEOREM LinksAgree == Faults = {} => (Spec => []BackLinksAgree)
<1>1. Kept => BackLinksAgree
  <2> SUFFICES ASSUME Kept, todo = <<>> PROVE BackLinksAgree
    BY DEF BackLinksAgree
  <2>1. Settled(mem)
    BY KeptGood
  <2>2. \A e, f \in Entries : Rule(mem, e).next = f => Rule(mem, f).prev = e
    BY <2>1, Positions DEF Settled, Back
  <2>3. \A i, j \in Entries : Index(mem, i).next = j => mem[<<"meta", j>>].prev = i
    BY <2>1, Positions DEF Settled, Indexed, Meta
  <2>4. \A h \in Live : Index(mem, Rule(mem, mem[<<"id", h>>].entry).indx).tbl = mem[<<"id", h>>].entry
    BY <2>1 DEF Settled, Owned, OwnedBy, Live, Id
  <2> QED
    BY <2>2, <2>3, <2>4 DEF BackLinksAgree
<1> QED
  BY <1>1, AlwaysKept, PTL

(* Every rule with a handle has one index and every index one rule.           *)
LEMMA IndexPerRule ==
  ASSUME NEW m, Settled(m)
  PROVE  Cardinality({i \in Entries : Index(m, i).tbl # 0}) = Cardinality(Held(m))
<1> DEFINE Used == {i \in Entries : Index(m, i).tbl # 0}
           of == [h \in Held(m) |-> Rule(m, Id(m, h).entry).indx]
<1>1. \A h \in Held(m) : /\ Id(m, h).entry \in Entries /\ OwnedBy(m, h, Id(m, h).entry, Id(m, h).rule)
  BY DEF Held, Settled, Owned, Mem, IdRec
<1>2. \A h \in Held(m) : of[h] \in Used /\ Index(m, of[h]).tbl = Id(m, h).entry
  <2> SUFFICES ASSUME NEW h \in Held(m)
               PROVE  of[h] \in Used /\ Index(m, of[h]).tbl = Id(m, h).entry
    OBVIOUS
  <2>1. SrcHash[Id(m, h).rule] \in Base
    BY <1>1, TableAssumption DEF OwnedBy
  <2>2. of[h] \in Entries
    BY <1>1, <2>1, ChainIn, Positions DEF OwnedBy, Settled
  <2> QED
    BY <1>1, <2>2, Positions DEF OwnedBy
<1>3. \A h, g \in Held(m) : of[h] = of[g] => h = g
  <2> SUFFICES ASSUME NEW h \in Held(m), NEW g \in Held(m), of[h] = of[g], h # g PROVE FALSE
    OBVIOUS
  <2>1. Id(m, h).entry = Id(m, g).entry
    BY <1>2
  <2>2. g \in Handles \ {h}
    BY DEF Held
  <2> QED
    BY <1>1, <2>1, <2>2 DEF OwnedBy
<1>4. \A i \in Used : \E h \in Held(m) : of[h] = i
  <2> SUFFICES ASSUME NEW i \in Used PROVE \E h \in Held(m) : of[h] = i
    OBVIOUS
  <2>1. /\ Index(m, i).tbl \in Entries /\ Shown(m, Index(m, i).tbl) /\ Rule(m, Index(m, i).tbl).indx = i
    BY MemLinks DEF Settled, Indexed
  <2>2. PICK h \in Handles : Id(m, h).entry = Index(m, i).tbl
    BY <2>1 DEF Settled, Back
  <2>3. h \in Held(m)
    BY <2>1, <2>2, Positions DEF Held
  <2> QED
    BY <2>1, <2>2, <2>3
<1>5. ExistsBijection(Held(m), Used)
  <2> HIDE DEF Used
  <2>1. of \in [Held(m) -> Used]
    BY <1>2
  <2>2. of \in Injection(Held(m), Used)
    BY <1>3, <2>1, Zenon DEF Injection, IsInjective
  <2>3. of \in Surjection(Held(m), Used)
    BY <1>4, <2>1, Zenon DEF Surjection
  <2>4. of \in Bijection(Held(m), Used)
    BY <2>2, <2>3, Zenon DEF Bijection
  <2> QED
    BY <2>4, Zenon DEF ExistsBijection
<1>6. IsFiniteSet(Held(m))
  <2>1. T + E \in Int /\ 1 \in Int
    BY TableAssumption
  <2>2. IsFiniteSet(Handles) /\ Held(m) \subseteq Handles
    BY <2>1, FS_Interval DEF Held, Handles
  <2> QED
    BY <2>2, FS_Subset
<1> QED
  BY <1>5, <1>6, FS_Bijection

(* No entry of either table is lost: one in use is a live rule's, or a        *)
(* deleted head that still leads to one (del_dead_ipv4_head_nodes).           *)
THEOREM NoEntryLeaks == Faults = {} => (Spec => []NothingLeaks)
<1>1. Kept => NothingLeaks
  <2> SUFFICES ASSUME Kept, todo = <<>> PROVE NothingLeaks
    BY DEF NothingLeaks
  <2>1. Settled(mem) /\ Mem(mem)
    BY KeptGood
  <2>2. ASSUME NEW e \in Entries, Shown(mem, e) PROVE \E h \in Live : mem[<<"id", h>>].entry = e
    BY <2>1, <2>2, Positions DEF Settled, Back, Live, Id
  <2>3. \A e \in Expn : Rule(mem, e).enable => \E h \in Live : mem[<<"id", h>>].entry = e
    BY <2>1, <2>2, Positions DEF Settled, Back, Shown
  <2>4. ASSUME NEW e \in Base, Rule(mem, e).enable
        PROVE  \E h \in Live : mem[<<"id", h>>].entry \in Chain(mem, "rule", e)
    <3>0. e \in Entries /\ e \in Chain(mem, "rule", e) /\ Closed(mem, "rule", Chain(mem, "rule", e))
      BY <2>1, ChainIn, Positions
    <3>1. CASE Shown(mem, e)
      BY <2>2, <3>0, <3>1
    <3>2. CASE ~Shown(mem, e)
      <4> DEFINE f == Rule(mem, e).next
      <4>1. f # 0 /\ Rule(mem, f).enable
        BY <2>1, <2>4, <3>0, <3>2 DEF Settled, Back, Shown
      <4>2. f \in Expn /\ f \in Chain(mem, "rule", e)
        BY <2>1, <3>0, <4>1, MemLinks DEF Closed
      <4>3. Shown(mem, f)
        BY <2>1, <4>1, <4>2, Positions DEF Settled, Back, Shown
      <4> QED
        BY <2>2, <4>2, <4>3, Positions
    <3> QED
      BY <3>1, <3>2
  <2>5. Live = Held(mem)
    BY DEF Live, Held, Id
  <2>6. Cardinality({i \in Entries : Index(mem, i).tbl # 0}) = Cardinality(Live)
    BY <2>1, <2>5, IndexPerRule
  <2> QED
    BY <2>3, <2>4, <2>6 DEF NothingLeaks
<1> QED
  BY <1>1, AlwaysKept, PTL

-------------------------------------------------------------------------------
(* What the hardware finds, in the words of the lemmas.                       *)
LEMMA FoundIs ==
  ASSUME Mem(mem)
  PROVE  {r \in Rules : Found(r)} = Inst(mem) /\ [h \in Live |-> mem[<<"id", h>>].rule] = Given(mem)
<1>1. ASSUME NEW r \in Rules PROVE Found(r) <=> Finds(mem, r)
  <2>1. \A e \in Chain(mem, "rule", DstHash[r]) : e \in Entries
    BY ChainIn, Positions, TableAssumption
  <2> QED
    BY <2>1 DEF Found, Finds, InRule, InIndex, Shown
<1> QED
  BY <1>1 DEF Inst, Given, Live, Held, Id

(* Every write is a step of RuleSet or none: deleting or adding one rule      *)
(* never hides another from the hardware, even halfway.                       *)
THEOREM ImplementsRuleSet == Faults = {} => (Spec => IsRuleSet)
<1> DEFINE shown == {r \in Rules : Found(r)}
           owned == [h \in Live |-> mem[<<"id", h>>].rule]
<1>1. Init => Promise!RuleSetInit
  <2> SUFFICES ASSUME Init PROVE Promise!RuleSetInit
    OBVIOUS
  <2>1. shown = Inst(Empty) /\ owned = Given(Empty)
    BY FoundIs, EmptyMem DEF Init
  <2> QED
    BY <2>1, EmptySettled DEF Promise!RuleSetInit
<1>2. Kept /\ Kept' /\ [Next]_vars => [Promise!RuleSetNext]_<<shown, owned>>
  <2> SUFFICES ASSUME Kept, Kept', [Next]_vars
               PROVE  [Promise!RuleSetNext]_<<shown, owned>>
    OBVIOUS
  <2>1. Mem(mem) /\ Mem(mem')
    BY KeptGood, SafeGood DEF Kept, Good
  <2>2. shown = Inst(mem) /\ owned = Given(mem)
    BY <2>1, FoundIs
  <2>3. shown' = Inst(mem') /\ owned' = Given(mem')
    <3>1. ASSUME NEW r \in Rules PROVE Found(r)' <=> Finds(mem', r)
      <4>1. \A e \in Chain(mem', "rule", DstHash[r]) : e \in Entries
        BY <2>1, ChainIn, Positions, TableAssumption
      <4> QED
        BY <4>1 DEF Found, Finds, InRule, InIndex, Shown
    <3> QED
      BY <3>1 DEF Inst, Given, Live, Held, Id
  <2>4. CASE UNCHANGED mem
    BY <2>2, <2>3, <2>4
  <2>5. CASE mem' = Empty
    BY <2>3, <2>5, EmptySettled DEF Promise!RuleSetNext, Promise!Clear
  <2>6. CASE Step
    <3>1. Moves(mem, mem')
      BY <2>6, KeptGood DEF Step, Good
    <3> DEFINE I == Inst(mem)
               I2 == Inst(mem')
               G == Given(mem)
               G2 == Given(mem')
    <3>2. DOMAIN G = Held(mem) /\ Held(mem) \subseteq Handles /\ I \subseteq Rules
      BY DEF Given, Held, Inst
    <3>3. shown = I /\ owned = G /\ shown' = I2 /\ owned' = G2
      BY <2>2, <2>3
    <3> HIDE DEF I, I2, G, G2, shown, owned
    <3>4. CASE I2 = I /\ G2 = G
      BY <3>3, <3>4
    <3>5. ASSUME NEW r \in Rules, r \notin I, I2 = I \cup {r}, G2 = G PROVE Promise!Install(r)
      BY <3>3, <3>5 DEF Promise!Install, shown, owned
    <3>6. ASSUME NEW h \in Held(mem), G[h] \in I, I2 = I \ {G[h]}, G2 = G PROVE Promise!Remove(h)
      BY <3>2, <3>3, <3>6 DEF Promise!Remove, shown, owned
    <3>7. ASSUME NEW h \in Handles \ Held(mem), NEW r \in I, \A g \in Held(mem) : G[g] # r, I2 = I,
                 G2 = [g \in Held(mem) \cup {h} |-> IF g = h THEN r ELSE G[g]]
          PROVE  Promise!Give(h, r)
      BY <3>2, <3>3, <3>7 DEF Promise!Give, shown, owned
    <3>8. ASSUME NEW h \in Held(mem), G[h] \notin I, I2 = I, G2 = [g \in Held(mem) \ {h} |-> G[g]]
          PROVE  Promise!Forget(h)
      BY <3>2, <3>3, <3>8 DEF Promise!Forget, shown, owned
    <3>9. \/ I2 = I /\ G2 = G
          \/ \E r \in Rules : r \notin I /\ I2 = I \cup {r} /\ G2 = G
          \/ \E h \in Held(mem) : G[h] \in I /\ I2 = I \ {G[h]} /\ G2 = G
          \/ \E h \in Handles \ Held(mem), r \in I :
               /\ \A g \in Held(mem) : G[g] # r
               /\ I2 = I
               /\ G2 = [g \in Held(mem) \cup {h} |-> IF g = h THEN r ELSE G[g]]
          \/ \E h \in Held(mem) : G[h] \notin I /\ I2 = I /\ G2 = [g \in Held(mem) \ {h} |-> G[g]]
      BY <3>1 DEF Moves, I, I2, G, G2
    <3> QED
      BY <3>2, <3>4, <3>5, <3>6, <3>7, <3>8, <3>9 DEF Promise!RuleSetNext
  <2> QED
    BY <2>4, <2>5, <2>6 DEF Next, vars, AddTable, DelTable, AddRule, DelRule
<1> QED
  BY <1>1, <1>2, AlwaysKept, PTL DEF Spec, IsRuleSet, Promise!RuleSetSpec

===============================================================================
