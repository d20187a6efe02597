---------------------------- MODULE TrackingProofs ----------------------------
(***************************************************************************)
(* Every call of a client is answered, no session outlives its client's    *)
(* interest, a client that tracks has what it asked for, and the engine    *)
(* runs what the sessions need: for any number of clients, calls and       *)
(* sessions.                                                               *)
(*                                                                         *)
(* The first argument counts.  What is on its way for a session (Due), as  *)
(* a message, as one that waits for the engine's capabilities or as the    *)
(* answer a request will get, and what was dropped are together what its   *)
(* client waits for (Tallied).  Each handler tells the client, hands the   *)
(* answer on to one request or drops it: Effect says so of all of them at  *)
(* once, EffectKeeps that this is enough, and the Outcomes are what the    *)
(* cases of the handlers come to.                                          *)
(*                                                                         *)
(* The second follows each session (Ordered): of the messages about it     *)
(* none comes before its start, it is in one of the two maps or on its way *)
(* into one, and who does not have it any more has its end on its way.     *)
(* The last of the messages that carry its options carries those its       *)
(* client gave last; when none is left, the map has them.  Local is a      *)
(* handler that concerns one session, SameKeeps a step that concerns none. *)
(* From here on the engine refuses nothing and no call is rejected         *)
(* (Orderly), so nothing is dropped (Accepted).                            *)
(*                                                                         *)
(* The third looks ahead in the queue of requests (Engaged): the last that *)
(* sets the fix, or the fix itself when none does, is right for the        *)
(* sessions there are, and the last one about a distance-based session, or *)
(* what the engine has, agrees with whether the session is wanted.         *)
(***************************************************************************)
EXTENDS Tracking, TLAPS, FiniteSetTheorems, FunctionTheorems, WellFoundedInduction

\* The elements of a sequence, as it grows and shrinks.
LEMMA ElemsAppend ==
  ASSUME NEW S, NEW q \in Seq(S), NEW x \in S
  PROVE  Append(q, x) \in Seq(S) /\ ToSet(Append(q, x)) = ToSet(q) \cup {x}
<1>1. /\ Append(q, x) \in Seq(S) /\ Len(Append(q, x)) = Len(q) + 1 /\ Len(q) \in Nat
      /\ DOMAIN Append(q, x) = 1 .. Len(q) + 1 /\ DOMAIN q = 1 .. Len(q)
      /\ \A k \in 1 .. Len(q) : Append(q, x)[k] = q[k]
      /\ Append(q, x)[Len(q) + 1] = x
  OBVIOUS
<1>2. 1 .. Len(q) + 1 = 1 .. Len(q) \cup {Len(q) + 1}
  BY <1>1
<1> QED BY <1>1, <1>2 DEF ToSet

\* ... as two are joined,
LEMMA ElemsCat ==
  ASSUME NEW S, NEW q \in Seq(S), NEW r \in Seq(S)
  PROVE  q \o r \in Seq(S) /\ ToSet(q \o r) = ToSet(q) \cup ToSet(r)
<1> DEFINE c == q \o r
<1>1. /\ c \in Seq(S) /\ Len(c) = Len(q) + Len(r) /\ Len(q) \in Nat /\ Len(r) \in Nat
      /\ DOMAIN c = 1 .. Len(q) + Len(r) /\ DOMAIN q = 1 .. Len(q) /\ DOMAIN r = 1 .. Len(r)
      /\ \A k \in 1 .. Len(q) : c[k] = q[k]
      /\ \A k \in 1 .. Len(r) : c[Len(q) + k] = r[k]
  OBVIOUS
<1>2. \A k \in 1 .. Len(q) + Len(r) : k \in 1 .. Len(q) \/ (k - Len(q) \in 1 .. Len(r) /\ Len(q) + (k - Len(q)) = k)
  BY <1>1
<1>3. \A k \in 1 .. Len(q) : k \in 1 .. Len(q) + Len(r)
  BY <1>1
<1>4. \A k \in 1 .. Len(r) : Len(q) + k \in 1 .. Len(q) + Len(r)
  BY <1>1
<1> HIDE DEF c
<1>5. ToSet(c) \subseteq ToSet(q) \cup ToSet(r)
  <2> SUFFICES ASSUME NEW k \in 1 .. Len(q) + Len(r) PROVE c[k] \in ToSet(q) \cup ToSet(r)
    BY <1>1 DEF ToSet
  <2> QED BY <1>1, <1>2 DEF ToSet
<1>6. ToSet(q) \subseteq ToSet(c)
  BY <1>1, <1>3 DEF ToSet
<1>7. ToSet(r) \subseteq ToSet(c)
  BY <1>1, <1>4 DEF ToSet
<1> QED BY <1>1, <1>5, <1>6, <1>7 DEF c

\* ... as the first is taken off.
LEMMA ElemsTail ==
  ASSUME NEW S, NEW q \in Seq(S), q # <<>>
  PROVE  /\ Tail(q) \in Seq(S) /\ Head(q) \in S /\ Head(q) \in ToSet(q)
         /\ ToSet(Tail(q)) \subseteq ToSet(q) /\ ToSet(q) = ToSet(Tail(q)) \cup {Head(q)}
<1> DEFINE t == Tail(q)
<1>1. /\ t \in Seq(S) /\ Len(t) = Len(q) - 1 /\ Len(q) \in Nat \ {0} /\ Head(q) = q[1]
      /\ DOMAIN t = 1 .. Len(q) - 1 /\ DOMAIN q = 1 .. Len(q)
      /\ \A k \in 1 .. Len(q) - 1 : t[k] = q[k + 1]
  OBVIOUS
<1> HIDE DEF t
<1>2. \A k \in 1 .. Len(q) - 1 : k + 1 \in 1 .. Len(q)
  BY <1>1
<1>3. \A k \in 1 .. Len(q) : k = 1 \/ (k - 1 \in 1 .. Len(q) - 1 /\ (k - 1) + 1 = k)
  BY <1>1
<1>4. ToSet(t) \subseteq ToSet(q)
  BY <1>1, <1>2 DEF ToSet
<1>5. ToSet(q) \subseteq ToSet(t) \cup {Head(q)}
  <2> SUFFICES ASSUME NEW k \in 1 .. Len(q), k # 1 PROVE q[k] \in ToSet(t)
    BY <1>1 DEF ToSet
  <2>1. k - 1 \in 1 .. Len(q) - 1 /\ t[k - 1] = q[k]
    BY <1>1
  <2>2. k - 1 \in DOMAIN t
    BY <1>1, <2>1
  <2> QED BY <2>1, <2>2, Zenon DEF ToSet
<1>6. Head(q) \in ToSet(q) /\ Head(q) \in S
  BY <1>1 DEF ToSet
<1> QED BY <1>1, <1>4, <1>5, <1>6 DEF t

\* A sequence over a set has its elements in it, and none if it is empty.
LEMMA ElemsOf ==
  ASSUME NEW S, NEW q \in Seq(S)
  PROVE  /\ ToSet(q) \subseteq S /\ (q = <<>> <=> ToSet(q) = {})
         /\ \A k \in 1 .. Len(q) : q[k] \in ToSet(q) /\ q[k] \in S
<1>1. /\ Len(q) \in Nat /\ DOMAIN q = 1 .. Len(q) /\ (q = <<>> <=> Len(q) = 0)
      /\ \A k \in 1 .. Len(q) : q[k] \in S
  OBVIOUS
<1>2. \A k \in 1 .. Len(q) : q[k] \in ToSet(q)
  BY <1>1, Zenon DEF ToSet
<1>3. ToSet(q) \subseteq S
  BY <1>1 DEF ToSet
<1>4. q = <<>> => ToSet(q) = {}
  BY <1>1 DEF ToSet
<1>5. q # <<>> => 1 \in 1 .. Len(q)
  BY <1>1
<1> QED BY <1>1, <1>2, <1>3, <1>4, <1>5

\* No element, and one.
LEMMA ElemsUnit ==
  ASSUME NEW S, NEW x \in S
  PROVE  /\ <<>> \in Seq(S) /\ ToSet(<<>>) = {} /\ Len(<<>>) = 0
         /\ <<x>> \in Seq(S) /\ ToSet(<<x>>) = {x} /\ <<x>> # <<>> /\ Len(<<x>>) = 1 /\ <<x>>[1] = x
  BY DEF ToSet

----
\* How many elements of q are in R.
Count(q, R) == Cardinality({k \in 1 .. Len(q) : q[k] \in R})
One(x, R) == IF x \in R THEN 1 ELSE 0

\* Counting the elements of a kind: none of a kind that does not occur,
LEMMA CountNat ==
  ASSUME NEW S, NEW q \in Seq(S), NEW R
  PROVE  /\ IsFiniteSet({k \in 1 .. Len(q) : q[k] \in R}) /\ Count(q, R) \in Nat
         /\ ToSet(q) \cap R = {} => Count(q, R) = 0
<1>1. Len(q) \in Nat /\ DOMAIN q = 1 .. Len(q) OBVIOUS
<1>2. IsFiniteSet(1 .. Len(q))
  BY <1>1, FS_Interval
<1>3. IsFiniteSet({k \in 1 .. Len(q) : q[k] \in R})
  BY <1>2, FS_Subset
<1>4. Count(q, R) \in Nat
  BY <1>3, FS_CardinalityType DEF Count
<1>5. ASSUME ToSet(q) \cap R = {} PROVE Count(q, R) = 0
  <2>1. {k \in 1 .. Len(q) : q[k] \in R} = {}
    BY <1>1, <1>5 DEF ToSet
  <2> QED BY <2>1, FS_EmptySet DEF Count
<1> QED BY <1>3, <1>4, <1>5

\* ... one more when one is added,
LEMMA CountAppend ==
  ASSUME NEW S, NEW q \in Seq(S), NEW x \in S, NEW R
  PROVE  Count(Append(q, x), R) = Count(q, R) + One(x, R)
<1> DEFINE A == {k \in 1 .. Len(q) : q[k] \in R}
           B == {k \in 1 .. Len(Append(q, x)) : Append(q, x)[k] \in R}
<1>1. /\ Len(Append(q, x)) = Len(q) + 1 /\ Len(q) \in Nat
      /\ \A k \in 1 .. Len(q) : Append(q, x)[k] = q[k]
      /\ Append(q, x)[Len(q) + 1] = x
  OBVIOUS
<1>2. IsFiniteSet(A) /\ Cardinality(A) \in Nat
  BY CountNat DEF Count
<1>3. CASE x \in R
  <2>1. B = A \cup {Len(q) + 1} /\ Len(q) + 1 \notin A
    BY <1>1, <1>3
  <2>2. Cardinality(A \cup {Len(q) + 1}) = Cardinality(A) + 1
    <3> HIDE DEF A, B
    <3> QED BY <1>2, <2>1, FS_AddElement
  <2> QED BY <1>3, <2>1, <2>2 DEF Count, One
<1>4. CASE x \notin R
  <2>1. B = A
    BY <1>1, <1>4
  <2>2. Count(Append(q, x), R) = Count(q, R) /\ Count(q, R) \in Nat
    BY <1>2, <2>1, Zenon DEF Count
  <2> QED BY <1>4, <2>2 DEF One
<1> QED BY <1>3, <1>4

\* ... one less when one is taken off,
LEMMA CountTail ==
  ASSUME NEW S, NEW q \in Seq(S), q # <<>>, NEW R
  PROVE  Count(q, R) = Count(Tail(q), R) + One(Head(q), R)
<1> DEFINE t == Tail(q)
           A == {k \in 1 .. Len(q) : q[k] \in R}
           B == {k \in 1 .. Len(t) : t[k] \in R}
           C == {k \in 2 .. Len(q) : q[k] \in R}
<1>1. /\ t \in Seq(S) /\ Len(t) = Len(q) - 1 /\ Len(q) \in Nat \ {0} /\ Head(q) = q[1]
      /\ \A k \in 1 .. Len(q) - 1 : t[k] = q[k + 1]
  OBVIOUS
<1>2. IsFiniteSet(B) /\ Cardinality(B) \in Nat /\ IsFiniteSet(A) /\ Cardinality(A) \in Nat
  <2> HIDE DEF t
  <2> QED BY <1>1, CountNat DEF Count
<1> HIDE DEF t
<1>3. Cardinality(C) = Cardinality(B) /\ IsFiniteSet(C)
  <2> DEFINE f == [k \in B |-> k + 1]
  <2>1. f \in [B -> C] /\ \A j, k \in B : f[j] = f[k] => j = k
    BY <1>1
  <2>2. ASSUME NEW k \in C PROVE \E j \in B : f[j] = k
    <3>1. k - 1 \in B /\ f[k - 1] = k
      BY <1>1
    <3> QED BY <3>1
  <2>3. f \in Bijection(B, C)
    <3> HIDE DEF f, B, C
    <3>1. f \in Injection(B, C)
      BY <2>1, Zenon DEF Injection, IsInjective
    <3>2. f \in Surjection(B, C)
      BY <2>1, <2>2, Zenon DEF Surjection
    <3> QED BY <3>1, <3>2, Zenon DEF Bijection
  <2> HIDE DEF f, B, C
  <2>4. ExistsBijection(B, C)
    BY <2>3, Zenon DEF ExistsBijection
  <2> QED BY <1>2, <2>4, FS_Bijection
<1>4. CASE q[1] \in R
  <2>1. A = C \cup {1} /\ 1 \notin C
    BY <1>1, <1>4
  <2> HIDE DEF A, B, C
  <2>2. Cardinality(A) = Cardinality(C) + 1
    BY <1>3, <2>1, FS_AddElement
  <2>3. Count(q, R) = Cardinality(A) /\ Count(t, R) = Cardinality(B)
    BY Zenon DEF Count, A, B
  <2> QED BY <1>1, <1>3, <1>4, <2>2, <2>3 DEF One, t
<1>5. CASE q[1] \notin R
  <2>1. A = C
    BY <1>1, <1>5
  <2> HIDE DEF A, B, C
  <2>2. Count(q, R) = Cardinality(A) /\ Count(t, R) = Cardinality(B)
    BY Zenon DEF Count, A, B
  <2> QED BY <1>1, <1>2, <1>3, <1>5, <2>1, <2>2 DEF One, t
<1> QED BY <1>4, <1>5

\* ... and the sum when two sequences are joined.
LEMMA CountCat ==
  ASSUME NEW S, NEW q \in Seq(S), NEW r \in Seq(S), NEW R
  PROVE  Count(q \o r, R) = Count(q, R) + Count(r, R)
<1> DEFINE t == q \o r
           A == {k \in 1 .. Len(q) : q[k] \in R}
           B == {k \in 1 .. Len(r) : r[k] \in R}
           C == {k \in Len(q) + 1 .. Len(t) : t[k] \in R}
           D == {k \in 1 .. Len(t) : t[k] \in R}
<1>1. /\ t \in Seq(S) /\ Len(t) = Len(q) + Len(r) /\ Len(q) \in Nat /\ Len(r) \in Nat
      /\ \A k \in 1 .. Len(q) : t[k] = q[k]
      /\ \A k \in 1 .. Len(r) : t[Len(q) + k] = r[k]
  OBVIOUS
<1>2. IsFiniteSet(A) /\ Cardinality(A) \in Nat /\ IsFiniteSet(B) /\ Cardinality(B) \in Nat
  BY CountNat, Zenon DEF Count
<1> HIDE DEF t
<1>3. Cardinality(C) = Cardinality(B) /\ IsFiniteSet(C)
  <2> DEFINE f == [k \in B |-> Len(q) + k]
  <2>1. f \in [B -> C] /\ \A j, k \in B : f[j] = f[k] => j = k
    BY <1>1
  <2>2. ASSUME NEW k \in C PROVE \E j \in B : f[j] = k
    <3>1. k - Len(q) \in B /\ f[k - Len(q)] = k
      BY <1>1
    <3> QED BY <3>1
  <2>3. f \in Bijection(B, C)
    <3> HIDE DEF f, B, C
    <3>1. f \in Injection(B, C)
      BY <2>1, Zenon DEF Injection, IsInjective
    <3>2. f \in Surjection(B, C)
      BY <2>1, <2>2, Zenon DEF Surjection
    <3> QED BY <3>1, <3>2, Zenon DEF Bijection
  <2> HIDE DEF f, B, C
  <2>4. ExistsBijection(B, C)
    BY <2>3, Zenon DEF ExistsBijection
  <2> QED BY <1>2, <2>4, FS_Bijection
<1>4. D = A \cup C /\ A \cap C = {}
  BY <1>1
<1>5. Count(t, R) = Cardinality(D) /\ Count(q, R) = Cardinality(A) /\ Count(r, R) = Cardinality(B)
  BY Zenon DEF Count
<1> HIDE DEF A, B, C, D
<1>6. Cardinality(A \cup C) = Cardinality(A) + Cardinality(C)
  <2>1. Cardinality(A \cup C) = Cardinality(A) + Cardinality(C) - Cardinality(A \cap C)
    BY <1>2, <1>3, FS_Union
  <2>2. Cardinality(A \cap C) = 0
    BY <1>4, FS_EmptySet
  <2> QED BY <1>2, <1>3, <2>1, <2>2
<1> QED BY <1>3, <1>4, <1>5, <1>6 DEF t

----
\* x is the last element of q that is in R.
LastIn(q, R, x) ==
    \E k \in 1 .. Len(q) : /\ q[k] = x /\ x \in R
                           /\ \A j \in 1 .. Len(q) : j > k => q[j] \notin R

\* The last element of a kind, as sequences are joined,
LEMMA LastCat ==
  ASSUME NEW S, NEW q \in Seq(S), NEW r \in Seq(S), NEW R, NEW x
  PROVE  /\ LastIn(r, R, x) => LastIn(q \o r, R, x)
         /\ ToSet(r) \cap R = {} /\ LastIn(q, R, x) => LastIn(q \o r, R, x)
<1> DEFINE t == q \o r
<1>1. /\ t \in Seq(S) /\ Len(t) = Len(q) + Len(r) /\ Len(q) \in Nat /\ Len(r) \in Nat
      /\ \A k \in 1 .. Len(q) : t[k] = q[k]
      /\ \A k \in 1 .. Len(r) : t[Len(q) + k] = r[k]
  OBVIOUS
<1>2. \A k \in 1 .. Len(r) : r[k] \in ToSet(r)
  BY ElemsOf
<1>3. \A k \in 1 .. Len(t) : k > Len(q) => k - Len(q) \in 1 .. Len(r) /\ t[k] = r[k - Len(q)]
  <2> TAKE k \in 1 .. Len(t)
  <2> HAVE k > Len(q)
  <2>1. k - Len(q) \in 1 .. Len(r) /\ Len(q) + (k - Len(q)) = k
    BY <1>1
  <2> QED BY <1>1, <2>1
<1> HIDE DEF t
<1>4. ASSUME LastIn(r, R, x) PROVE LastIn(t, R, x)
  <2>1. PICK k \in 1 .. Len(r) : r[k] = x /\ x \in R /\ \A j \in 1 .. Len(r) : j > k => r[j] \notin R
    BY <1>4 DEF LastIn
  <2>2. Len(q) + k \in 1 .. Len(t) /\ t[Len(q) + k] = x
    BY <1>1, <2>1
  <2>3. ASSUME NEW j \in 1 .. Len(t), j > Len(q) + k PROVE t[j] \notin R
    <3>1. j > Len(q) /\ j - Len(q) > k
      BY <1>1, <2>3
    <3> QED BY <1>3, <2>1, <3>1
  <2> QED BY <2>1, <2>2, <2>3 DEF LastIn
<1>5. ASSUME ToSet(r) \cap R = {}, LastIn(q, R, x) PROVE LastIn(t, R, x)
  <2>1. PICK k \in 1 .. Len(q) : q[k] = x /\ x \in R /\ \A j \in 1 .. Len(q) : j > k => q[j] \notin R
    BY <1>5 DEF LastIn
  <2>2. k \in 1 .. Len(t) /\ t[k] = x
    BY <1>1, <2>1
  <2>3. ASSUME NEW j \in 1 .. Len(t), j > k PROVE t[j] \notin R
    <3>1. CASE j > Len(q)
      BY <1>2, <1>3, <1>5, <3>1
    <3>2. CASE j <= Len(q)
      BY <1>1, <2>1, <2>3, <3>2
    <3> QED BY <1>1, <3>1, <3>2
  <2> QED BY <2>1, <2>2, <2>3 DEF LastIn
<1> QED BY <1>4, <1>5 DEF t

\* ... of one,
LEMMA LastOne ==
  ASSUME NEW S, NEW x \in S, NEW R
  PROVE  x \in R => LastIn(<<x>>, R, x)
<1>1. Len(<<x>>) = 1 /\ <<x>>[1] = x OBVIOUS
<1> QED BY <1>1 DEF LastIn

\* ... and it is of the sequence and of the kind.
LEMMA LastElem ==
  ASSUME NEW S, NEW q \in Seq(S), NEW R, NEW x, LastIn(q, R, x)
  PROVE  x \in ToSet(q) /\ x \in R /\ x \in S
  BY ElemsOf DEF LastIn

----
\* A set of numbers has a least one, and induction over a set.
LEMMA LeastNumber ==
  ASSUME NEW S \in SUBSET Nat, S # {}
  PROVE  \E x \in S : \A y \in S : x <= y
<1> DEFINE R == {ss \in Nat \X Nat : ss[1] < ss[2]}
<1>1. IsWellFoundedOn(R, Nat)
  BY NatLessThanWellFounded DEF OpToRel
<1>2. \A x, y \in Nat : y < x => <<y, x>> \in R OBVIOUS
<1> HIDE DEF R
<1>3. PICK x \in S : \A y \in S : ~(<<y, x>> \in R)
  BY <1>1, WFMin
<1>4. \A y \in S : ~(y < x)
  BY <1>2, <1>3
<1> QED BY <1>4

\* Induction, over the set of numbers a statement holds of.
LEMMA NaturalSet ==
  ASSUME NEW S, 0 \in S, \A n \in Nat : n \in S => n + 1 \in S
  PROVE  Nat \subseteq S
<1> SUFFICES ASSUME Nat \ S # {} PROVE FALSE OBVIOUS
<1>1. PICK n \in Nat \ S : \A k \in Nat \ S : n <= k
  BY LeastNumber
<1>2. n # 0 /\ n - 1 \in Nat
  BY <1>1
<1>3. n - 1 \in S
  BY <1>1, <1>2
<1> QED BY <1>1, <1>2, <1>3

\* A finite set of numbers can be put in order.
Sorted(n, S, s) == s \in [1 .. n -> S] /\ \A j, k \in 1 .. n : j < k => s[j] < s[k]

\* Every finite set of numbers can be listed in order.
LEMMA SortedExists ==
  ASSUME NEW n \in Nat, NEW S \in SUBSET Nat, IsFiniteSet(S), Cardinality(S) = n
  PROVE  \E s : Sorted(n, S, s)
<1> DEFINE Good == {k \in Nat : \A T \in SUBSET Nat : IsFiniteSet(T) /\ Cardinality(T) = k => \E s : Sorted(k, T, s)}
<1>1. 0 \in Good
  <2> SUFFICES ASSUME NEW T \in SUBSET Nat PROVE \E s : Sorted(0, T, s)
    OBVIOUS
  <2>1. Sorted(0, T, [k \in 1 .. 0 |-> 0])
    BY DEF Sorted
  <2> QED BY <2>1
<1>2. ASSUME NEW k \in Nat, k \in Good PROVE k + 1 \in Good
  <2> SUFFICES ASSUME NEW T \in SUBSET Nat, IsFiniteSet(T), Cardinality(T) = k + 1
               PROVE  \E s : Sorted(k + 1, T, s)
    OBVIOUS
  <2>1. T # {}
    BY FS_EmptySet
  <2>2. PICK x \in T : \A y \in T : x <= y
    BY <2>1, LeastNumber
  <2>3. IsFiniteSet(T \ {x}) /\ Cardinality(T \ {x}) = k
    BY FS_RemoveElement
  <2>4. PICK s : Sorted(k, T \ {x}, s)
    BY <1>2, <2>3
  <2> DEFINE r == [j \in 1 .. k + 1 |-> IF j = 1 THEN x ELSE s[j - 1]]
  <2>5. \A j \in 1 .. k : s[j] \in T /\ x < s[j]
    <3>1. \A j \in 1 .. k : s[j] \in T \ {x}
      BY <2>4 DEF Sorted
    <3>2. \A y \in T \ {x} : x < y
      BY <2>2
    <3> QED BY <3>1, <3>2
  <2>6. \A j \in 1 .. k + 1 : j # 1 => j - 1 \in 1 .. k OBVIOUS
  <2>7. r \in [1 .. k + 1 -> T]
    BY <2>5, <2>6
  <2>8. ASSUME NEW i \in 1 .. k + 1, NEW j \in 1 .. k + 1, i < j PROVE r[i] < r[j]
    <3>1. j # 1 /\ r[j] = s[j - 1] /\ j - 1 \in 1 .. k
      BY <2>6, <2>8
    <3>2. CASE i = 1
      BY <2>5, <3>1, <3>2
    <3>3. CASE i # 1
      <4>1. i - 1 \in 1 .. k /\ i - 1 < j - 1 /\ r[i] = s[i - 1]
        BY <2>6, <2>8, <3>3
      <4> QED BY <2>4, <3>1, <4>1 DEF Sorted
    <3> QED BY <3>2, <3>3
  <2> HIDE DEF r
  <2>9. Sorted(k + 1, T, r)
    BY <2>7, <2>8 DEF Sorted
  <2> QED BY <2>9
<1> HIDE DEF Good
<1>3. Nat \subseteq Good
  BY <1>1, <1>2, NaturalSet
<1> QED BY <1>3 DEF Good

\* InOrder gives each of the numbers once.
LEMMA InOrderOf ==
  ASSUME NEW S \in SUBSET Nat, IsFiniteSet(S)
  PROVE  /\ InOrder(S) \in Seq(S) /\ Len(InOrder(S)) = Cardinality(S) /\ Cardinality(S) \in Nat
         /\ DOMAIN InOrder(S) = 1 .. Cardinality(S)
         /\ \A k \in 1 .. Cardinality(S) : InOrder(S)[k] \in S
         /\ \A j, k \in 1 .. Cardinality(S) : j # k => InOrder(S)[j] # InOrder(S)[k]
         /\ \A i \in S : \E k \in 1 .. Cardinality(S) : InOrder(S)[k] = i
<1> DEFINE n == Cardinality(S)
           s == InOrder(S)
<1>1. n \in Nat
  BY FS_CardinalityType
<1>2. Sorted(n, S, s)
  <2>1. \E f : Sorted(n, S, f)
    BY <1>1, SortedExists
  <2> HIDE DEF n
  <2>2. \E f \in [1 .. n -> S] : \A j, k \in 1 .. n : j < k => f[j] < f[k]
    BY <2>1 DEF Sorted
  <2>3. s = CHOOSE f \in [1 .. n -> S] : \A j, k \in 1 .. n : j < k => f[j] < f[k]
    BY DEF InOrder, n
  <2> HIDE DEF s
  <2> QED BY <2>2, <2>3 DEF Sorted
<1> HIDE DEF n, s
<1>3. s \in [1 .. n -> S] /\ \A j, k \in 1 .. n : j < k => s[j] < s[k]
  BY <1>2 DEF Sorted
<1>4. \A j, k \in 1 .. n : j # k => s[j] # s[k]
  <2> TAKE j, k \in 1 .. n
  <2> HAVE j # k
  <2>1. j < k \/ k < j
    BY <1>1
  <2>2. s[j] \in Nat /\ s[k] \in Nat
    BY <1>3
  <2> QED BY <1>3, <2>1, <2>2
<1>5. s \in Seq(S) /\ Len(s) = n /\ DOMAIN s = 1 .. n
  BY <1>1, <1>3
<1>6. s \in Injection(1 .. n, S)
  BY <1>3, <1>4, Zenon DEF Injection, IsInjective
<1>7. Cardinality(1 .. n) = n
  BY <1>1, FS_Interval
<1>8. s \in Surjection(1 .. n, S)
  BY <1>6, <1>7, FS_Injection DEF n
<1>9. \A i \in S : \E k \in 1 .. n : s[k] = i
  BY <1>8, Zenon DEF Surjection
<1> QED BY <1>1, <1>3, <1>4, <1>5, <1>9 DEF s, n

----
\* The sequences that FlattenSeq puts together, one after the other.
Flat(seqs, n, f) == f = [k \in 1 .. n |-> IF k = 1 THEN seqs[k] ELSE f[k - 1] \o seqs[k]]

\* The function FlattenSeq is defined by exists, one join after the other.
LEMMA FlatExists ==
  ASSUME NEW seqs, NEW n \in Nat
  PROVE  \E f : Flat(seqs, n, f)
<1> DEFINE Good == {k \in Nat : \E f : Flat(seqs, k, f)}
<1>1. 0 \in Good
  <2>1. Flat(seqs, 0, [k \in 1 .. 0 |-> <<>>])
    BY DEF Flat
  <2> QED BY <2>1
<1>2. ASSUME NEW k \in Nat, k \in Good PROVE k + 1 \in Good
  <2>1. PICK f : Flat(seqs, k, f)
    BY <1>2
  <2> DEFINE g == [j \in 1 .. k + 1 |-> IF j = k + 1 THEN (IF j = 1 THEN seqs[j] ELSE f[j - 1] \o seqs[j]) ELSE f[j]]
  <2>2. \A j \in 1 .. k : f[j] = IF j = 1 THEN seqs[j] ELSE f[j - 1] \o seqs[j]
    BY <2>1 DEF Flat
  <2>3. \A j \in 1 .. k : g[j] = f[j] OBVIOUS
  <2>4. g[k + 1] = IF k + 1 = 1 THEN seqs[k + 1] ELSE f[(k + 1) - 1] \o seqs[k + 1]
    OBVIOUS
  <2>5. g = [j \in 1 .. k + 1 |-> g[j]] OBVIOUS
  <2> HIDE DEF g
  <2>6. ASSUME NEW j \in 1 .. k + 1 PROVE g[j] = IF j = 1 THEN seqs[j] ELSE g[j - 1] \o seqs[j]
    <3>1. j # 1 => j - 1 \in 1 .. k OBVIOUS
    <3>2. CASE j = k + 1
      BY <2>3, <2>4, <3>1, <3>2
    <3>3. CASE j # k + 1
      <4>1. j \in 1 .. k
        BY <3>3
      <4> QED BY <2>2, <2>3, <3>1, <4>1
    <3> QED BY <3>2, <3>3
  <2>7. Flat(seqs, k + 1, g)
    BY <2>5, <2>6 DEF Flat
  <2> QED BY <2>7
<1> HIDE DEF Good
<1>3. Nat \subseteq Good
  BY <1>1, <1>2, NaturalSet
<1> QED BY <1>3 DEF Good

\* f[k] is what the first k of the n sequences come to.
PrefixIndices(seqs, n, f) ==
    /\ f[0] = <<>> /\ f[n] = FlattenSeq(seqs)
    /\ \A k \in 0 .. n - 1 : f[k + 1] = f[k] \o seqs[k + 1]

\* What FlattenSeq gives is the last of the joins of its first sequences.
LEMMA FlattenPrefixes ==
  ASSUME NEW S, NEW n \in Nat, NEW seqs \in [1 .. n -> Seq(S)]
  PROVE  \E f : PrefixIndices(seqs, n, f)
<1>1. seqs \in Seq(Seq(S)) /\ Len(seqs) = n OBVIOUS
<1>2. CASE n = 0
  <2>1. seqs = <<>>
    BY <1>1, <1>2
  <2>2. FlattenSeq(seqs) = <<>>
    BY <1>1, <1>2, <2>1 DEF FlattenSeq
  <2>3. PrefixIndices(seqs, n, [k \in 0 .. 0 |-> <<>>])
    BY <1>2, <2>2 DEF PrefixIndices
  <2> QED BY <2>3
<1>3. CASE n # 0
  <2> DEFINE f == CHOOSE f : Flat(seqs, n, f)
  <2>1. Flat(seqs, n, f)
    BY FlatExists
  <2>2. FlattenSeq(seqs) = f[n]
    BY <1>1, <1>3 DEF FlattenSeq, Flat
  <2> HIDE DEF f
  <2> DEFINE g == [k \in 0 .. n |-> IF k = 0 THEN <<>> ELSE f[k]]
  <2>3. \A k \in 1 .. n : f[k] = IF k = 1 THEN seqs[k] ELSE f[k - 1] \o seqs[k]
    BY <2>1 DEF Flat
  <2>4. g[0] = <<>> /\ \A k \in 1 .. n : g[k] = f[k] OBVIOUS
  <2> HIDE DEF g
  <2>5. ASSUME NEW k \in 0 .. n - 1 PROVE g[k + 1] = g[k] \o seqs[k + 1]
    <3>1. k + 1 \in 1 .. n /\ (k + 1) - 1 = k OBVIOUS
    <3>2. CASE k = 0
      <4>1. seqs[1] \in Seq(S) /\ f[1] = seqs[1] /\ g[1] = f[1]
        BY <1>3, <2>3, <2>4
      <4>2. <<>> \o seqs[1] = seqs[1]
        BY <4>1
      <4> QED BY <2>4, <3>2, <4>1, <4>2
    <3>3. CASE k # 0
      <4>1. k \in 1 .. n /\ k + 1 # 1
        BY <3>3
      <4> QED BY <2>3, <2>4, <3>1, <4>1
    <3> QED BY <3>2, <3>3
  <2>6. g[n] = f[n]
    BY <1>3, <2>4
  <2>7. PrefixIndices(seqs, n, g)
    BY <2>2, <2>4, <2>5, <2>6 DEF PrefixIndices
  <2> QED BY <2>7
<1> QED BY <1>2, <1>3

\* What FlattenSeq gives has the elements of the sequences.
LEMMA FlattenElems ==
  ASSUME NEW S, NEW n \in Nat, NEW seqs \in [1 .. n -> Seq(S)]
  PROVE  /\ FlattenSeq(seqs) \in Seq(S)
         /\ ToSet(FlattenSeq(seqs)) = UNION {ToSet(seqs[k]) : k \in 1 .. n}
<1>1. PICK f : PrefixIndices(seqs, n, f)
  BY FlattenPrefixes
<1> DEFINE U(k) == UNION {ToSet(seqs[j]) : j \in 1 .. k}
           Good == {k \in Nat : k <= n => f[k] \in Seq(S) /\ ToSet(f[k]) = U(k)}
<1>2. 0 \in Good
  <2>1. f[0] = <<>>
    BY <1>1 DEF PrefixIndices
  <2>2. <<>> \in Seq(S) /\ ToSet(<<>>) = {}
    BY DEF ToSet
  <2>3. U(0) = {} OBVIOUS
  <2> QED BY <2>1, <2>2, <2>3
<1>3. ASSUME NEW k \in Nat, k \in Good PROVE k + 1 \in Good
  <2> SUFFICES ASSUME k + 1 <= n PROVE f[k + 1] \in Seq(S) /\ ToSet(f[k + 1]) = U(k + 1)
    OBVIOUS
  <2>1. k \in 0 .. n - 1 /\ k + 1 \in 1 .. n OBVIOUS
  <2>2. f[k + 1] = f[k] \o seqs[k + 1] /\ seqs[k + 1] \in Seq(S)
    BY <1>1, <2>1 DEF PrefixIndices
  <2>6. f[k] \in Seq(S) /\ ToSet(f[k]) = U(k)
    BY <1>3
  <2>3. f[k + 1] \in Seq(S) /\ ToSet(f[k + 1]) = U(k) \cup ToSet(seqs[k + 1])
    BY <2>2, <2>6, ElemsCat
  <2>4. 1 .. k + 1 = 1 .. k \cup {k + 1} OBVIOUS
  <2>5. U(k + 1) = U(k) \cup ToSet(seqs[k + 1])
    BY <2>4
  <2> QED BY <2>3, <2>5
<1> HIDE DEF Good
<1>4. Nat \subseteq Good
  BY <1>2, <1>3, NaturalSet
<1>5. f[n] = FlattenSeq(seqs)
  BY <1>1 DEF PrefixIndices
<1>6. n \in Good
  BY <1>4
<1>7. f[n] \in Seq(S) /\ ToSet(f[n]) = U(n)
  BY <1>6 DEF Good
<1> QED BY <1>5, <1>7


----
(* Types *)

Opts == [interval : Nat, power : Nat, distance : BOOLEAN]
Calls == {"start", "update", "stop", "remove", "config"}
Tellers == {"start", "update", "stop", "started", "updated", "stopped", "distStarted", "distStopped",
              "toTime", "redo", "redone"}
Answers == {"started", "updated", "stopped", "distStarted", "distStopped", "removed", "toTime", "redo",
            "redone"}
Kinds == Calls \cup Answers \cup {"engineUp", "silent"}

\* What a message of each kind carries.
Messages ==
    {m \in [what : Kinds, client : Clients \cup {NoClient}, id : Nat, opts : Opts, err : BOOLEAN] :
       /\ m.what \in Tellers \cup {"removed"} => m.client \in Clients /\ m.id # 0
       /\ m.what = "remove" => m.client \in Clients
       /\ m.what \in {"distStarted", "redo", "redone"} => m.opts.distance
       /\ m.what \in {"updated", "toTime"} => ~m.opts.distance
       /\ m.what \in {"updated", "toTime", "redo", "redone"} => m.opts.interval > 0
       /\ m.what \in Answers \/ ~m.err
       /\ m.what = "silent" => m = Silent}
Posts == {m \in Messages : m.what # "silent"}
\* Only what concerns distance-based sessions, and configuration, waits.
Defers == {m \in Posts : m.what = "config" \/ (m.what \in {"start", "update"} /\ m.opts.distance)}

\* What a request to the engine asks for, and what is done with its answer.
Asks ==
    {r \in [op : {"start", "stop", "startDist", "stopDist", "ssr"}, id : Nat, opts : Opts, then : Messages] :
       /\ r.then.what \in Answers \cup {"silent"} /\ ~r.then.err
       /\ r.op = "ssr" => r = Ssr
       /\ r.op = "start" => r.opts.interval > 0
       /\ r.op \in {"start", "stop"} => r.then.what \in {"silent", "started", "updated", "stopped"}
       /\ r.op = "startDist" => r.then.what \in {"silent", "distStarted", "redone"}
       /\ r.op = "stopDist" => r.then.what \in {"distStopped", "removed", "toTime", "redo"}
       /\ r.op \in {"startDist", "stopDist"} => r.id # 0 /\ (r.then # Silent => r.id = r.then.id)}

Ids == Nat \ {0}
TimeOpts == {o \in Opts : o.interval > 0 /\ ~o.distance}
DistOpts == {o \in Opts : o.interval > 0 /\ o.distance}

\* A map of sessions with options in D.
IsTable(t, D) ==
    /\ t = [i \in DOMAIN t |-> t[i]] /\ DOMAIN t \subseteq Ids /\ IsFiniteSet(DOMAIN t)
    /\ \A i \in DOMAIN t : /\ t[i] = Session(t[i].client, t[i].opts)
                           /\ t[i].client \in Clients /\ t[i].opts \in D

Record == [alive : BOOLEAN, tracking : BOOLEAN, session : Nat, opts : Opts,
              queue : Seq({"start", "update", "stop"}), dropped : Nat]

TypeOK ==
    /\ client \in [Clients -> Record]
    /\ IsTable(time, TimeOpts) /\ IsTable(dist, DistOpts)
    /\ known \in BOOLEAN
    /\ msgQ \in Seq(Posts) /\ pending \in Seq(Defers) /\ apiQ \in Seq(Asks)
    /\ engine \in [fix : [interval : Nat, power : Nat], dist : SUBSET Nat]
    /\ bounds \in [ids : Nat, calls : Nat, restarts : Nat]
    /\ env \in Environments /\ "basic" \notin env

\* What a client may ask for.
LEMMA OptionsAreOpts == StartOptions \subseteq Opts /\ \A o \in StartOptions : o.distance => "distance" \in env
  BY TrackingAssumption DEF StartOptions, Rejects, NoOptions, Opts

\* The options of requests that need none.
LEMMA NoOptsIs == NoOptions \in Opts /\ ~NoOptions.distance /\ NoOptions.interval = 0
  BY DEF NoOptions, Opts

\* The answer nobody is told of.
LEMMA SilentIs == Silent \in Messages /\ Silent.what = "silent" /\ Silent.id = 0 /\ ~Silent.err /\ ~Silent.opts.distance
  BY NoOptsIs DEF Silent, Msg, Messages, Kinds, Calls, Answers, Tellers, Ids

\* The commands.
LEMMA PostIs ==
  /\ \A c \in Clients, id \in Ids, o \in Opts : Msg("start", c, id, o) \in Posts /\ Msg("update", c, id, o) \in Posts
  /\ \A c \in Clients, id \in Ids : Msg("stop", c, id, NoOptions) \in Posts
  /\ \A c \in Clients : Msg("remove", c, 0, NoOptions) \in Posts
  /\ Msg("config", NoClient, 0, NoOptions) \in Posts /\ Msg("engineUp", NoClient, 0, NoOptions) \in Posts
  BY NoOptsIs DEF Msg, Posts, Messages, Kinds, Calls, Answers, Tellers, Ids

----
(* Maps of sessions *)

\* A map without sessions is the empty one.
LEMMA EmptyTable ==
  ASSUME NEW t, t = [i \in DOMAIN t |-> t[i]]
  PROVE  t = <<>> <=> DOMAIN t = {}
<1>1. ASSUME DOMAIN t = {} PROVE t = <<>>
  <2>1. \A D, S : \A f \in [D -> S] : D = {} => f = <<>> OBVIOUS
  <2>2. t \in [DOMAIN t -> {t[i] : i \in DOMAIN t}] OBVIOUS
  <2> QED BY <1>1, <2>1, <2>2
<1> QED BY <1>1

\* Erasing sessions leaves a map of the others (eraseTrackingSession).
LEMMA EraseTable ==
  ASSUME NEW t, NEW D, IsTable(t, D), NEW ids
  PROVE  /\ IsTable(Erase(t, ids), D) /\ \A i : i \in DOMAIN Erase(t, ids) <=> i \in DOMAIN t /\ i \notin ids
         /\ \A i \in DOMAIN t : i \notin ids => Erase(t, ids)[i] = t[i]
<1>1. Erase(t, ids) = [i \in DOMAIN t \ ids |-> t[i]]
  BY DEF Erase, Restrict
<1>2. IsFiniteSet(DOMAIN t \ ids)
  BY FS_Subset DEF IsTable
<1> QED BY <1>1, <1>2 DEF IsTable

\* Saving a session changes a map in its place and no other (saveTrackingSession).
LEMMA SaveTable ==
  ASSUME NEW t, NEW D, IsTable(t, D), NEW id \in Ids, NEW c \in Clients, NEW o \in D
  PROVE  /\ IsTable(Save(t, id, Session(c, o)), D)
         /\ \A i : i \in DOMAIN Save(t, id, Session(c, o)) <=> i \in DOMAIN t \/ i = id
         /\ Save(t, id, Session(c, o))[id] = Session(c, o)
         /\ \A i \in DOMAIN t : i # id => Save(t, id, Session(c, o))[i] = t[i]
<1> DEFINE u == Save(t, id, Session(c, o))
<1>1. u = [i \in DOMAIN t \cup {id} |-> IF i = id THEN Session(c, o) ELSE t[i]]
  BY DEF Save
<1>2. IsFiniteSet(DOMAIN t \cup {id})
  BY FS_AddElement DEF IsTable
<1>3. Session(c, o).client = c /\ Session(c, o).opts = o
  BY DEF Session
<1>4. (\A i : i \in DOMAIN u <=> i \in DOMAIN t \/ i = id) /\ u[id] = Session(c, o) /\ \A i \in DOMAIN t : i # id => u[i] = t[i]
  BY <1>1
<1>5. u = [i \in DOMAIN u |-> u[i]]
  BY <1>1
<1> HIDE DEF u
<1>6. ASSUME NEW i \in DOMAIN u
      PROVE  u[i] = Session(u[i].client, u[i].opts) /\ u[i].client \in Clients /\ u[i].opts \in D
  <2>1. CASE i = id
    BY <1>3, <1>4, <2>1
  <2>2. CASE i # id
    BY <1>4, <2>2 DEF IsTable
  <2> QED BY <2>1, <2>2
<1>7. DOMAIN u \subseteq Ids
  BY <1>4 DEF IsTable
<1>8. IsTable(u, D)
  BY <1>2, <1>4, <1>5, <1>6, <1>7 DEF IsTable
<1> QED BY <1>4, <1>8 DEF u

----
(* Multiplexing *)

\* The interval i is at most that of each session.
AtMost(i, t) == \A j \in DOMAIN t : i <= t[j].opts.interval

\* The library's minimum is in the set and at most each of its numbers.
LEMMA MinOf ==
  ASSUME NEW S \in SUBSET Nat, S # {}
  PROVE  Min(S) \in S
  BY LeastNumber DEF Min

\* The session with the smallest interval asks no more than the others (checkAndRestartTimeBasedSession).
LEMMA SmallestOf ==
  ASSUME NEW t, IsTable(t, TimeOpts), t # <<>>
  PROVE  /\ Smallest(t) \in TimeOpts
         /\ AtMost(Smallest(t).interval, t)
         /\ \E i \in DOMAIN t : Smallest(t) = t[i].opts
         /\ Strongest(t) \in Nat
<1>1. DOMAIN t # {} /\ DOMAIN t \subseteq Nat
  BY EmptyTable DEF IsTable
<1>2. \A i \in DOMAIN t : t[i].opts.interval \in Nat /\ t[i].opts.power \in Nat
  BY DEF IsTable, TimeOpts, Opts
<1> DEFINE least == {i \in DOMAIN t : \A j \in DOMAIN t : t[i].opts.interval <= t[j].opts.interval}
           all == {t[i].opts.interval : i \in DOMAIN t}
           powers == {t[i].opts.power : i \in DOMAIN t}
<1>3. least # {}
  <2>1. all \in SUBSET Nat /\ all # {}
    BY <1>1, <1>2
  <2>2. PICK x \in all : \A y \in all : x <= y
    BY <2>1, LeastNumber
  <2> QED BY <2>2
<1>4. least \subseteq DOMAIN t OBVIOUS
<1>5. Min(least) \in least
  BY <1>1, <1>3, <1>4, MinOf
<1>6. Smallest(t) = t[Min(least)].opts
  BY DEF Smallest
<1>7. \A j \in DOMAIN t : t[Min(least)].opts.interval <= t[j].opts.interval
  BY <1>5
<1>8. Min(least) \in DOMAIN t
  BY <1>4, <1>5
<1>9. Strongest(t) \in Nat
  <2>1. powers \in SUBSET Nat /\ powers # {}
    BY <1>1, <1>2
  <2>2. Min(powers) \in powers
    BY <2>1, MinOf
  <2> QED BY <2>1, <2>2 DEF Strongest
<1> HIDE DEF least
<1> QED BY <1>6, <1>7, <1>8, <1>9 DEF IsTable, AtMost

\* What Combined demands, if anything, is enough for all of them.
LEMMA CombinedOf ==
  ASSUME NEW t, IsTable(t, TimeOpts), t # <<>>, NEW o \in TimeOpts
  PROVE  \/ Combined(t, o) = {} /\ \E i \in DOMAIN t : t[i].opts.interval <= o.interval
         \/ \E x \in TimeOpts : Combined(t, o) = {x} /\ x.interval <= o.interval /\ AtMost(x.interval, t)
<1> DEFINE m == Smallest(t)
           more == o.interval < m.interval
           stronger == o.power < Strongest(t)
           x == [m EXCEPT !.interval = IF more THEN o.interval ELSE @,
                          !.power = IF stronger THEN o.power ELSE @]
<1>1. /\ m \in TimeOpts /\ AtMost(m.interval, t)
      /\ \E i \in DOMAIN t : m = t[i].opts
  BY SmallestOf
<1>2. m.interval \in Nat /\ o.interval \in Nat /\ o.power \in Nat /\ m.power \in Nat
  BY <1>1 DEF Opts, TimeOpts
<1>3. Combined(t, o) = IF more \/ stronger THEN {x} ELSE {}
  BY DEF Combined
<1>4. x \in TimeOpts /\ x.interval = IF more THEN o.interval ELSE m.interval
  BY <1>1, <1>2 DEF Opts, TimeOpts
<1> HIDE DEF m
<1>5. \A j \in DOMAIN t : t[j].opts.interval \in Nat
  BY DEF IsTable, Opts, TimeOpts
<1>6. CASE more \/ stronger
  <2>1. x.interval <= o.interval
    BY <1>1, <1>2, <1>4
  <2>2. AtMost(x.interval, t)
    BY <1>1, <1>2, <1>4, <1>5 DEF AtMost
  <2> HIDE DEF x
  <2> QED BY <1>3, <1>4, <1>6, <2>1, <2>2
<1>7. CASE ~(more \/ stronger)
  <2>1. m.interval <= o.interval
    BY <1>2, <1>7
  <2> HIDE DEF x, more, stronger
  <2> QED BY <1>1, <1>3, <1>7, <2>1
<1> QED BY <1>6, <1>7

\* The fix after a request, and what it has to be for the sessions.
FixOf(r) == IF r.op = "stop" THEN NoFix ELSE [interval |-> r.opts.interval, power |-> r.opts.power]
Fixes == [interval : Nat, power : Nat]
Serves(f, t) == (t = <<>> <=> f = NoFix) /\ AtMost(f.interval, t)

\* Nothing, or one request for the fix whose answer goes to the client, after
\* which the fix serves u if it served t before.
Keeps(t, u) == t # <<>> /\ u # <<>> /\ \A i \in Nat : AtMost(i, t) => AtMost(i, u)
Mixed(reqs, c, id, t, u) ==
    \/ reqs = <<>> /\ Keeps(t, u)
    \/ \E r \in Asks : /\ reqs = <<r>> /\ r.op \in {"start", "stop"}
                       /\ r.then.what \in {"started", "updated", "stopped"}
                       /\ r.then.client = c /\ r.then.id = id /\ ~r.then.opts.distance
                       /\ Serves(FixOf(r), u)

\* A request for a fix that asks no more than any session serves them all.
LEMMA StartServes ==
  ASSUME NEW x \in TimeOpts, NEW then \in Messages, NEW u, u # <<>>,
         AtMost(x.interval, u), then.what \in {"silent", "started", "updated", "stopped"}, ~then.err
  PROVE  LET r == Request("start", 0, x, then) IN
         /\ r \in Asks /\ r.op = "start" /\ r.then = then /\ r.opts = x
         /\ Serves(FixOf(r), u) /\ StartFix(x, then) = <<r>> /\ StartFixes({x}, then) = <<r>>
<1> DEFINE r == Request("start", 0, x, then)
<1>1. r.op = "start" /\ r.then = then /\ r.opts = x /\ r.id = 0
  BY DEF Request
<1>2. r \in Asks
  BY DEF Asks, Request, Answers, TimeOpts
<1>3. FixOf(r) = [interval |-> x.interval, power |-> x.power]
  BY <1>1 DEF FixOf
<1>4. FixOf(r) # NoFix /\ FixOf(r).interval = x.interval
  BY <1>3 DEF NoFix, TimeOpts, Opts
<1>5. StartFix(x, then) = <<r>>
  BY DEF StartFix
<1>6. StartFixes({x}, then) = <<r>>
  <2>1. (CHOOSE o \in {x} : TRUE) = x OBVIOUS
  <2>2. StartFixes({x}, then) = StartFix(CHOOSE o \in {x} : TRUE, then)
    BY Zenon DEF StartFixes
  <2> QED BY <1>5, <2>1, <2>2
<1> HIDE DEF r
<1> QED BY <1>1, <1>2, <1>4, <1>5, <1>6 DEF Serves, r

\* A request to stop the fix, and its answer.
LEMMA StopServes ==
  ASSUME NEW c \in Clients, NEW id \in Ids
  PROVE  LET r == Request("stop", 0, NoOptions, Msg("stopped", c, id, NoOptions)) IN
         /\ r \in Asks /\ r.op = "stop" /\ r.then.what = "stopped" /\ r.then.client = c /\ r.then.id = id
         /\ ~r.then.opts.distance /\ FixOf(r) = NoFix
<1>1. Msg("stopped", c, id, NoOptions) \in Messages
  BY NoOptsIs DEF Msg, Messages, Kinds, Calls, Answers, Tellers, Ids
<1> QED BY <1>1, NoOptsIs DEF Asks, Request, Answers, Msg, FixOf

\* A message carries what it was made of, and is one of the messages there are.
LEMMA MsgIs ==
  ASSUME NEW what \in Kinds, NEW c \in Clients, NEW id \in Ids, NEW o \in Opts
  PROVE  /\ Msg(what, c, id, o).what = what /\ Msg(what, c, id, o).client = c /\ Msg(what, c, id, o).id = id
         /\ Msg(what, c, id, o).opts = o /\ ~Msg(what, c, id, o).err
         /\ what \in {"started", "stopped", "distStopped", "removed", "stop"} => Msg(what, c, id, o) \in Messages
         /\ what \in {"redo", "redone", "distStarted"} /\ o.distance /\ o.interval > 0 => Msg(what, c, id, o) \in Messages
         /\ what \in {"updated", "toTime"} /\ ~o.distance /\ o.interval > 0 => Msg(what, c, id, o) \in Messages
         /\ what \in {"start", "update"} => Msg(what, c, id, o) \in Messages
  BY DEF Msg, Messages, Kinds, Calls, Answers, Tellers, Ids

\* After a time-based session starts, the fix serves it and the others (startTimeBasedTrackingMultiplex).
LEMMA StartMultiplexOf ==
  ASSUME NEW t, IsTable(t, TimeOpts), NEW c \in Clients, NEW id \in Ids, NEW o \in TimeOpts
  PROVE  Mixed(StartMultiplex(t, c, id, o), c, id, t, Save(t, id, Session(c, o)))
<1> DEFINE u == Save(t, id, Session(c, o))
           then == Msg("started", c, id, o)
<1> SUFFICES Mixed(StartMultiplex(t, c, id, o), c, id, t, u) OBVIOUS
<1>1. /\ IsTable(u, TimeOpts) /\ (\A i : i \in DOMAIN u <=> i \in DOMAIN t \/ i = id) /\ u[id] = Session(c, o)
      /\ \A i \in DOMAIN t : i # id => u[i] = t[i]
  BY SaveTable
<1>2. u # <<>>
  BY <1>1, EmptyTable DEF IsTable
<1>3. then \in Messages /\ then.what = "started" /\ then.client = c /\ then.id = id /\ then.opts = o /\ ~then.err
  <2>1. "started" \in Kinds /\ o \in Opts
    BY DEF Kinds, Answers, TimeOpts
  <2> QED BY <2>1, MsgIs
<1> HIDE DEF u, then
<1>4. u[id].opts = o
  BY <1>1 DEF Session
<1>5. \A i \in Nat : i <= o.interval /\ AtMost(i, t) => AtMost(i, u)
  BY <1>1, <1>4 DEF AtMost
<1>6. ASSUME NEW x \in TimeOpts, AtMost(x.interval, u), StartMultiplex(t, c, id, o) = StartFixes({x}, then)
      PROVE  Mixed(StartMultiplex(t, c, id, o), c, id, t, u)
  <2> DEFINE r == Request("start", 0, x, then)
  <2>1. r \in Asks /\ r.op = "start" /\ r.then = then /\ Serves(FixOf(r), u) /\ StartFixes({x}, then) = <<r>>
    BY <1>1, <1>2, <1>3, <1>6, StartServes
  <2> HIDE DEF r
  <2>2. ~o.distance
    BY DEF TimeOpts
  <2> QED BY <1>3, <1>6, <2>1, <2>2 DEF Mixed
<1>7. CASE t = <<>>
  <2>1. StartMultiplex(t, c, id, o) = StartFixes({o}, then)
    BY <1>7 DEF StartMultiplex, then
  <2>2. AtMost(o.interval, u)
    <3>1. DOMAIN u = {id}
      BY <1>1, <1>7
    <3>2. o.interval \in Nat
      BY DEF Opts, TimeOpts
    <3> QED BY <1>4, <3>1, <3>2 DEF AtMost
  <2> QED BY <1>6, <2>1, <2>2
<1>8. CASE t # <<>>
  <2>1. StartMultiplex(t, c, id, o) = StartFixes(Combined(t, o), then)
    BY <1>8 DEF StartMultiplex, then
  <2>2. CASE Combined(t, o) = {} /\ \E i \in DOMAIN t : t[i].opts.interval <= o.interval
    <3>1. StartMultiplex(t, c, id, o) = <<>>
      BY <2>1, <2>2 DEF StartFixes
    <3>2. PICK i \in DOMAIN t : t[i].opts.interval <= o.interval
      BY <2>2
    <3>3. ASSUME NEW j \in Nat, AtMost(j, t) PROVE AtMost(j, u)
      <4>1. j <= t[i].opts.interval /\ t[i].opts.interval \in Nat /\ o.interval \in Nat
        BY <3>3 DEF AtMost, IsTable, Opts, TimeOpts
      <4>2. j <= o.interval
        BY <3>2, <4>1
      <4> QED BY <1>5, <3>3, <4>2
    <3>4. Keeps(t, u)
      BY <1>2, <1>8, <3>3 DEF Keeps
    <3> QED BY <3>1, <3>4 DEF Mixed
  <2>3. ASSUME NEW x \in TimeOpts, Combined(t, o) = {x}, x.interval <= o.interval, AtMost(x.interval, t)
        PROVE  Mixed(StartMultiplex(t, c, id, o), c, id, t, u)
    <3>1. AtMost(x.interval, u)
      BY <1>5, <2>3 DEF Opts, TimeOpts
    <3> QED BY <1>6, <2>1, <2>3, <3>1
  <2>4. \/ Combined(t, o) = {} /\ \E i \in DOMAIN t : t[i].opts.interval <= o.interval
        \/ \E x \in TimeOpts : Combined(t, o) = {x} /\ x.interval <= o.interval /\ AtMost(x.interval, t)
    BY <1>8, CombinedOf
  <2> QED BY <2>2, <2>3, <2>4
<1> QED BY <1>7, <1>8

\* After one changes its options, the fix serves all of them (updateTrackingMultiplex).
LEMMA UpdateMultiplexOf ==
  ASSUME NEW t, IsTable(t, TimeOpts), NEW c \in Clients, NEW id \in DOMAIN t, NEW o \in TimeOpts
  PROVE  Mixed(UpdateMultiplex(t, c, id, o), c, id, t, Save(t, id, Session(c, o)))
<1> DEFINE u == Save(t, id, Session(c, o))
           old == t[id].opts
           others == Erase(t, {id})
           then == Msg("updated", c, id, old)
<1> SUFFICES Mixed(UpdateMultiplex(t, c, id, o), c, id, t, u) OBVIOUS
<1>0. id \in Ids /\ old \in TimeOpts /\ t # <<>>
  BY DEF IsTable
<1>1. /\ IsTable(u, TimeOpts) /\ (\A i : i \in DOMAIN u <=> i \in DOMAIN t) /\ u[id] = Session(c, o)
      /\ \A i \in DOMAIN t : i # id => u[i] = t[i]
  BY <1>0, SaveTable
<1>2. u # <<>>
  BY <1>1
<1>3. then \in Messages /\ then.what = "updated" /\ then.client = c /\ then.id = id /\ then.opts = old /\ ~then.err
  <2>1. "updated" \in Kinds /\ old \in Opts /\ ~old.distance /\ old.interval > 0
    BY <1>0 DEF Kinds, Answers, TimeOpts
  <2> HIDE DEF old
  <2> QED BY <1>0, <2>1, MsgIs
<1>9. /\ IsTable(others, TimeOpts) /\ \A i : i \in DOMAIN others <=> i \in DOMAIN t /\ i # id
      /\ \A i \in DOMAIN t : i # id => others[i] = t[i]
  BY EraseTable
<1> HIDE DEF u, then, others
<1>4. u[id].opts = o
  BY <1>1 DEF Session
<1>5. \A i \in Nat : i <= o.interval /\ AtMost(i, others) => AtMost(i, u)
  BY <1>1, <1>4, <1>9 DEF AtMost
<1>10. \A i \in Nat : AtMost(i, t) => AtMost(i, others) /\ i <= old.interval
  BY <1>9 DEF AtMost
<1>6. ASSUME NEW x \in TimeOpts, AtMost(x.interval, u), UpdateMultiplex(t, c, id, o) = StartFixes({x}, then)
      PROVE  Mixed(UpdateMultiplex(t, c, id, o), c, id, t, u)
  <2> DEFINE r == Request("start", 0, x, then)
  <2>1. r \in Asks /\ r.op = "start" /\ r.then = then /\ Serves(FixOf(r), u) /\ StartFixes({x}, then) = <<r>>
    BY <1>1, <1>2, <1>3, <1>6, StartServes
  <2> HIDE DEF r
  <2>2. ~old.distance
    BY <1>0 DEF TimeOpts
  <2> QED BY <1>3, <1>6, <2>1, <2>2 DEF Mixed
<1>7. CASE old.interval = o.interval /\ old.power = o.power
  <2>1. UpdateMultiplex(t, c, id, o) = <<>>
    BY <1>7 DEF UpdateMultiplex
  <2>2. \A i \in Nat : AtMost(i, t) => AtMost(i, u)
    BY <1>5, <1>7, <1>10
  <2>3. Keeps(t, u)
    BY <1>0, <1>2, <2>2 DEF Keeps
  <2> QED BY <2>1, <2>3 DEF Mixed
<1>8. CASE ~(old.interval = o.interval /\ old.power = o.power)
  <2>0. UpdateMultiplex(t, c, id, o) = StartFixes(IF others = <<>> THEN {o} ELSE Combined(others, o), then)
    BY <1>8, Zenon DEF UpdateMultiplex, then, others
  <2>1. CASE others = <<>>
    <3>0. DOMAIN others = {}
      BY <1>9, <2>1, EmptyTable DEF IsTable
    <3>1. DOMAIN u = {id}
      BY <1>1, <1>9, <3>0
    <3>2. AtMost(o.interval, u)
      <4>1. o.interval \in Nat
        BY DEF Opts, TimeOpts
      <4> QED BY <1>4, <3>1, <4>1 DEF AtMost
    <3>3. UpdateMultiplex(t, c, id, o) = StartFixes({o}, then)
      BY <2>0, <2>1
    <3> QED BY <1>6, <3>2, <3>3
  <2>2. CASE others # <<>> /\ Combined(others, o) = {} /\ \E i \in DOMAIN others : others[i].opts.interval <= o.interval
    <3>1. UpdateMultiplex(t, c, id, o) = <<>>
      BY <2>0, <2>2 DEF StartFixes
    <3>2. PICK i \in DOMAIN others : others[i].opts.interval <= o.interval
      BY <2>2
    <3>3. ASSUME NEW j \in Nat, AtMost(j, t) PROVE AtMost(j, u)
      <4>0. AtMost(j, others)
        BY <1>10, <3>3
      <4>1. j <= others[i].opts.interval /\ others[i].opts.interval \in Nat /\ o.interval \in Nat
        BY <1>9, <4>0 DEF AtMost, IsTable, Opts, TimeOpts
      <4>2. j <= o.interval
        BY <3>2, <4>1
      <4> QED BY <1>5, <4>0, <4>2
    <3>4. Keeps(t, u)
      BY <1>0, <1>2, <3>3 DEF Keeps
    <3> QED BY <3>1, <3>4 DEF Mixed
  <2>3. ASSUME others # <<>>, NEW x \in TimeOpts, Combined(others, o) = {x}, x.interval <= o.interval, AtMost(x.interval, others)
        PROVE  Mixed(UpdateMultiplex(t, c, id, o), c, id, t, u)
    <3>1. AtMost(x.interval, u)
      BY <1>5, <2>3 DEF Opts, TimeOpts
    <3> QED BY <1>6, <2>0, <2>3, <3>1
  <2>4. ASSUME others # <<>>
        PROVE  \/ Combined(others, o) = {} /\ \E i \in DOMAIN others : others[i].opts.interval <= o.interval
               \/ \E x \in TimeOpts : Combined(others, o) = {x} /\ x.interval <= o.interval /\ AtMost(x.interval, others)
    BY <1>9, <2>4, CombinedOf
  <2> QED BY <2>1, <2>2, <2>3, <2>4
<1> QED BY <1>7, <1>8

\* After one stops, the fix serves the others, and there is none without others
\* (stopTimeBasedTrackingMultiplex).
LEMMA StopMultiplexOf ==
  ASSUME NEW t, IsTable(t, TimeOpts), NEW c \in Clients, NEW id \in DOMAIN t
  PROVE  Mixed(StopMultiplex(t, c, id), c, id, t, Erase(t, {id}))
<1> DEFINE others == Erase(t, {id})
           old == t[id].opts
           m == Smallest(others)
           then == Msg("started", c, id, NoOptions)
<1>0. id \in Ids /\ t # <<>> /\ IsFiniteSet(DOMAIN t)
  BY DEF IsTable
<1>1. /\ IsTable(others, TimeOpts) /\ \A i : i \in DOMAIN others <=> i \in DOMAIN t /\ i # id
      /\ \A i \in DOMAIN t : i # id => others[i] = t[i]
  BY EraseTable
<1>2. others = <<>> <=> Cardinality(DOMAIN t) = 1
  <2>1. Cardinality(DOMAIN t \ {id}) = Cardinality(DOMAIN t) - 1 /\ IsFiniteSet(DOMAIN t \ {id})
    BY <1>0, FS_RemoveElement
  <2>2. Cardinality(DOMAIN t) \in Nat
    BY <1>0, FS_CardinalityType
  <2>3. Cardinality(DOMAIN t \ {id}) = 0 <=> DOMAIN t \ {id} = {}
    BY <2>1, FS_EmptySet
  <2>4. others = <<>> <=> DOMAIN others = {}
    BY <1>1, EmptyTable DEF IsTable
  <2> HIDE DEF others
  <2>5. Cardinality(DOMAIN t \ {id}) = 0 <=> Cardinality(DOMAIN t) = 1
    BY <2>1, <2>2
  <2> QED BY <1>1, <2>3, <2>4, <2>5
<1>3. then \in Messages /\ then.what = "started" /\ then.client = c /\ then.id = id /\ then.opts = NoOptions /\ ~then.err
  <2>1. "started" \in Kinds
    BY DEF Kinds, Answers
  <2> QED BY <1>0, <2>1, MsgIs, NoOptsIs
<1> HIDE DEF others, then
<1>4. CASE Cardinality(DOMAIN t) = 1
  <2> DEFINE r == Request("stop", 0, NoOptions, Msg("stopped", c, id, NoOptions))
  <2>1. StopMultiplex(t, c, id) = <<r>>
    BY <1>4, Zenon DEF StopMultiplex
  <2>2. /\ r \in Asks /\ r.op = "stop" /\ r.then.what = "stopped" /\ r.then.client = c /\ r.then.id = id
        /\ ~r.then.opts.distance /\ FixOf(r) = NoFix
    BY <1>0, StopServes
  <2> HIDE DEF r
  <2>3. Serves(FixOf(r), others)
    <3>1. others = <<>> /\ DOMAIN others = {}
      BY <1>1, <1>2, <1>4, EmptyTable DEF IsTable
    <3> QED BY <2>2, <3>1 DEF Serves, AtMost
  <2> QED BY <2>1, <2>2, <2>3 DEF Mixed, others
<1>5. CASE Cardinality(DOMAIN t) # 1
  <2>1. others # <<>>
    BY <1>2, <1>5
  <2>2. /\ m \in TimeOpts /\ AtMost(m.interval, others) /\ Strongest(others) \in Nat
    BY <1>1, <2>1, SmallestOf
  <2> DEFINE x == [m EXCEPT !.power = Strongest(others)]
  <2>3. x \in TimeOpts /\ x.interval = m.interval
    BY <2>2 DEF Opts, TimeOpts
  <2>4. \/ StopMultiplex(t, c, id) = StartFix(x, then)
        \/ StopMultiplex(t, c, id) = <<>>
    BY <1>5, Zenon DEF StopMultiplex, others, then
  <2> HIDE DEF x, m
  <2>5. CASE StopMultiplex(t, c, id) = StartFix(x, then)
    <3> DEFINE r == Request("start", 0, x, then)
    <3>0. AtMost(x.interval, others) /\ then.what \in {"silent", "started", "updated", "stopped"}
      BY <1>3, <2>2, <2>3
    <3>1. r \in Asks /\ r.op = "start" /\ r.then = then /\ Serves(FixOf(r), others) /\ StartFix(x, then) = <<r>>
      BY <1>3, <2>1, <2>3, <3>0, StartServes
    <3> HIDE DEF r
    <3> QED BY <1>3, <2>5, <3>1, NoOptsIs DEF Mixed, others
  <2>6. CASE StopMultiplex(t, c, id) = <<>>
    <3>1. \A i \in Nat : AtMost(i, t) => AtMost(i, others)
      BY <1>1 DEF AtMost
    <3>2. Keeps(t, others)
      BY <1>0, <2>1, <3>1 DEF Keeps
    <3> QED BY <2>6, <3>2 DEF Mixed, others
  <2> QED BY <2>4, <2>5, <2>6
<1> QED BY <1>4, <1>5

----
(* What is on its way, and whose it is *)

Thens == {r.then : r \in ToSet(apiQ)}
Items == ToSet(msgQ) \cup ToSet(pending) \cup Thens

\* The answers only distance-based sessions get.
DistKinds == {"distStarted", "distStopped", "removed", "toTime", "redo", "redone"}

\* What the environment allows a message to be.
ValidItem(m) ==
    /\ m.err => "refusal" \in env
    /\ m.opts.distance => "distance" \in env
    /\ m.what \in {"redo", "redone"} \/ (m.what = "update" /\ m.opts.distance) =>
         "distance" \in env /\ "updates" \in env
    /\ m.what \in DistKinds => "distance" \in env /\ known
Valid ==
    /\ \A m \in Items : ValidItem(m)
    /\ \A r \in ToSet(apiQ) : r.op \in {"startDist", "stopDist"} => "distance" \in env /\ known
    /\ DOMAIN dist # {} => "distance" \in env /\ known

\* What waits for the engine's capabilities does so in vain only if the engine does not open.
Waiting ==
    /\ pending # <<>> => ~known
    /\ ~known => /\ "early" \in env
                 /\ \/ "refusal" \in env
                    \/ \E r \in ToSet(apiQ) : r.op = "ssr"
                    \/ \E m \in ToSet(msgQ) : m.what = "engineUp"

\* A session id belongs to one client, and so does what is said of it.
OwnedItem(m) ==
    /\ m.id <= bounds.ids
    /\ m.what \in Tellers \cup {"removed"} => \A c \in Clients : client[c].session = m.id => m.client = c
    /\ m.what = "removed" => \A c \in Clients : client[c].session # m.id
    /\ m.what = "remove" => ~client[m.client].alive
OwnedIn(t) == \A i \in DOMAIN t : i <= bounds.ids /\ \A c \in Clients : client[c].session = i => t[i].client = c
OwnedClient(c) ==
    /\ client[c].session = 0 => client[c].queue = <<>> /\ client[c].dropped = 0 /\ ~client[c].tracking
    /\ ~client[c].alive => client[c].session = 0
    /\ client[c].session <= bounds.ids
    /\ client[c].session # 0 /\ client[c].opts.distance => "distance" \in env
    /\ \A d \in Clients : client[c].session = client[d].session /\ client[c].session # 0 => c = d
Owned ==
    /\ \A m \in Items : OwnedItem(m)
    /\ OwnedIn(time) /\ OwnedIn(dist)
    /\ \A c \in Clients : OwnedClient(c)

\* The messages that lead to an answer for a session.
Rep(s) == {m \in Messages : m.what \in Tellers /\ m.id = s}
RepAsks(s) == {r \in Asks : r.then \in Rep(s)}
Due(s) == Count(msgQ, Rep(s)) + Count(pending, Rep(s)) + Count(apiQ, RepAsks(s))
Tallied ==
    \A c \in Clients : client[c].session # 0 =>
                /\ Due(client[c].session) + client[c].dropped = Len(client[c].queue)
                /\ "patient" \in env => Len(client[c].queue) <= 1

Base == TypeOK /\ Valid /\ Waiting /\ Owned /\ Tallied

\* What is on its way are messages.
LEMMA ItemTypes ==
  TypeOK =>
         /\ ToSet(msgQ) \subseteq Posts /\ ToSet(pending) \subseteq Defers /\ ToSet(apiQ) \subseteq Asks
         /\ Thens \subseteq Messages /\ Items \subseteq Messages
<1> SUFFICES ASSUME TypeOK
             PROVE  /\ ToSet(msgQ) \subseteq Posts /\ ToSet(pending) \subseteq Defers /\ ToSet(apiQ) \subseteq Asks
                    /\ Thens \subseteq Messages /\ Items \subseteq Messages
  OBVIOUS
<1>1. ToSet(msgQ) \subseteq Posts /\ ToSet(pending) \subseteq Defers /\ ToSet(apiQ) \subseteq Asks
  BY ElemsOf DEF TypeOK
<1>2. Posts \subseteq Messages /\ Defers \subseteq Messages
  BY DEF Posts, Defers
<1>3. \A r \in Asks : r.then \in Messages
  BY DEF Asks
<1>4. Thens \subseteq Messages
  BY <1>1, <1>3 DEF Thens
<1> QED BY <1>1, <1>2, <1>4 DEF Items

\* ... are so many.
LEMMA DueNat == ASSUME TypeOK, NEW s PROVE Due(s) \in Nat
<1>1. Posts \subseteq Messages /\ Defers \subseteq Messages /\ msgQ \in Seq(Posts) /\ pending \in Seq(Defers) /\ apiQ \in Seq(Asks)
  BY DEF TypeOK, Posts, Defers
<1>2. Count(msgQ, Rep(s)) \in Nat /\ Count(pending, Rep(s)) \in Nat /\ Count(apiQ, RepAsks(s)) \in Nat
  BY <1>1, CountNat
<1> QED BY <1>2 DEF Due

----
(* A message is handled: what Effect says of every handler that does not     *)
(* defer the message is all the invariant needs.                             *)

Effect(m, reqs, rep) ==
    /\ msgQ # <<>> /\ m = Head(msgQ) /\ msgQ' = Tail(msgQ) /\ m.what # "engineUp"
    /\ UNCHANGED <<known, pending, engine, bounds, env>>
    /\ IsTable(time', TimeOpts) /\ IsTable(dist', DistOpts) /\ OwnedIn(time') /\ OwnedIn(dist')
    /\ DOMAIN dist' # {} => "distance" \in env /\ known
    /\ reqs \in Seq(Asks) /\ apiQ' = apiQ \o reqs
    /\ \A r \in ToSet(reqs) :
         /\ ValidItem(r.then) /\ OwnedItem(r.then) 
         /\ r.op \in {"startDist", "stopDist"} => "distance" \in env /\ known
    /\ IF rep THEN m.client \in Clients /\ m.what \in Tellers /\ (Report(m.client, m.id) \/ Drop(m.client, m.id))
              ELSE client' = client
    /\ \A c \in Clients : client[c].session # 0 =>
         Count(reqs, RepAsks(client[c].session)) = IF rep THEN 0 ELSE One(m, Rep(client[c].session))

\* An answer takes the oldest call of the client whose session it is about
\* (onResponseCb), or the call is counted among those left without one; nothing
\* else of any client changes.
LEMMA ReportKeeps ==
  ASSUME TypeOK, NEW c \in Clients, NEW id, Report(c, id) \/ Drop(c, id)
  PROVE  /\ client' \in [Clients -> Record]
         /\ \A d \in Clients :
              /\ client'[d].alive = client[d].alive /\ client'[d].tracking = client[d].tracking
              /\ client'[d].session = client[d].session /\ client'[d].opts = client[d].opts
              /\ client[d].queue = <<>> => client'[d].queue = <<>>
              /\ Len(client'[d].queue) <= Len(client[d].queue)
              /\ ~(d = c /\ client[d].session = id) => client'[d] = client[d]
              /\ d = c /\ client[d].session = id /\ client[d].queue # <<>> =>
                   Len(client'[d].queue) + client[d].dropped + 1 = Len(client[d].queue) + client'[d].dropped
<1>1. /\ client \in [Clients -> Record] /\ client[c].queue \in Seq({"start", "update", "stop"})
      /\ client[c].dropped \in Nat /\ client[c] \in Record
  BY DEF TypeOK, Record
<1>2. \A d \in Clients : Len(client[d].queue) \in Nat
  BY <1>1 DEF Record
<1>3. ASSUME client[c].session = id, client[c].queue # <<>>, Report(c, id)
      PROVE  \E x \in Record : /\ client' = [client EXCEPT ![c] = x] /\ x = [client[c] EXCEPT !.queue = x.queue]
                                  /\ Len(x.queue) + 1 = Len(client[c].queue)
  <2> DEFINE x == [client[c] EXCEPT !.queue = Tail(client[c].queue)]
  <2>1. Tail(client[c].queue) \in Seq({"start", "update", "stop"}) /\ Len(Tail(client[c].queue)) + 1 = Len(client[c].queue)
    BY <1>1, <1>3
  <2>2. x \in Record /\ x.queue = Tail(client[c].queue)
    BY <1>1, <2>1 DEF Record
  <2>3. client' = [client EXCEPT ![c] = x]
    BY <1>3 DEF Report
  <2>4. x = [client[c] EXCEPT !.queue = x.queue]
    BY <2>2, Zenon
  <2> HIDE DEF x
  <2> QED BY <2>1, <2>2, <2>3, <2>4
<1>4. ASSUME client[c].session = id, Drop(c, id)
      PROVE  \E x \in Record : /\ client' = [client EXCEPT ![c] = x] /\ x = [client[c] EXCEPT !.dropped = x.dropped]
                                  /\ x.dropped = client[c].dropped + 1
  <2>4. PICK n \in Nat : n = client[c].dropped + 1
    BY <1>1
  <2> DEFINE x == [client[c] EXCEPT !.dropped = n]
  <2>1. x \in Record /\ x.dropped = client[c].dropped + 1
    BY <1>1, <2>4 DEF Record
  <2>2. client' = [client EXCEPT ![c] = x]
    BY <1>4, <2>4 DEF Drop
  <2>3. x = [client[c] EXCEPT !.dropped = x.dropped]
    BY <2>1, Zenon
  <2> HIDE DEF x
  <2> QED BY <2>1, <2>2, <2>3
<1>5. ASSUME NEW x \in Record, client' = [client EXCEPT ![c] = x], client[c].session = id,
             \/ /\ x = [client[c] EXCEPT !.queue = x.queue] /\ client[c].queue # <<>>
                /\ Len(x.queue) + 1 = Len(client[c].queue)
             \/ x = [client[c] EXCEPT !.dropped = x.dropped] /\ x.dropped = client[c].dropped + 1
      PROVE  /\ client' \in [Clients -> Record] /\ client'[c] = x /\ \A d \in Clients : d # c => client'[d] = client[d]
             /\ x.alive = client[c].alive /\ x.tracking = client[c].tracking
             /\ x.session = client[c].session /\ x.opts = client[c].opts
             /\ client[c].queue = <<>> => x.queue = <<>>
             /\ Len(x.queue) <= Len(client[c].queue)
             /\ Len(x.queue) + client[c].dropped + 1 = Len(client[c].queue) + x.dropped
  <2>1. client' \in [Clients -> Record] /\ client'[c] = x /\ \A d \in Clients : d # c => client'[d] = client[d]
    BY <1>1, <1>5
  <2>2. CASE x = [client[c] EXCEPT !.queue = x.queue] /\ client[c].queue # <<>> /\ Len(x.queue) + 1 = Len(client[c].queue)
    <3>1. /\ x.alive = client[c].alive /\ x.tracking = client[c].tracking /\ x.dropped = client[c].dropped
          /\ x.session = client[c].session /\ x.opts = client[c].opts /\ Len(x.queue) \in Nat
      BY <1>1, <2>2 DEF Record
    <3>2. Len(client[c].queue) \in Nat
      BY <1>2
    <3>3. Len(x.queue) <= Len(client[c].queue)
      BY <2>2, <3>1, <3>2
    <3>4. Len(x.queue) + client[c].dropped + 1 = Len(client[c].queue) + x.dropped
      BY <1>1, <2>2, <3>1, <3>2
    <3> QED BY <2>1, <2>2, <3>1, <3>3, <3>4
  <2>3. CASE x = [client[c] EXCEPT !.dropped = x.dropped] /\ x.dropped = client[c].dropped + 1
    <3>1. /\ x.alive = client[c].alive /\ x.tracking = client[c].tracking /\ x.queue = client[c].queue
          /\ x.session = client[c].session /\ x.opts = client[c].opts
      BY <1>1, <2>3 DEF Record
    <3> QED BY <1>1, <1>2, <2>1, <2>3, <3>1
  <2> QED BY <1>5, <2>2, <2>3
<1>6. CASE client' = client
  <2>1. ~(client[c].session = id /\ client[c].queue # <<>>)
    <3> SUFFICES ASSUME client[c].session = id, client[c].queue # <<>> PROVE FALSE
      OBVIOUS
    <3>1. CASE Report(c, id)
      <4>1. PICK x \in Record : /\ client' = [client EXCEPT ![c] = x] /\ x = [client[c] EXCEPT !.queue = x.queue]
                                   /\ Len(x.queue) + 1 = Len(client[c].queue)
        BY <1>3, <3>1
      <4> QED BY <1>1, <1>2, <1>6, <4>1
    <3>2. CASE Drop(c, id)
      <4>1. PICK x \in Record : client' = [client EXCEPT ![c] = x] /\ x.dropped = client[c].dropped + 1
        BY <1>4, <3>2
      <4> QED BY <1>1, <1>6, <4>1
    <3> QED BY <3>1, <3>2
  <2> QED BY <1>1, <1>2, <1>6, <2>1
<1>7. CASE client' # client
  <2>1. client[c].session = id /\ (Report(c, id) => client[c].queue # <<>>)
    BY <1>7, Zenon DEF Report, Drop
  <2>2. PICK x \in Record : /\ client' = [client EXCEPT ![c] = x]
                               /\ \/ /\ x = [client[c] EXCEPT !.queue = x.queue] /\ client[c].queue # <<>>
                                     /\ Len(x.queue) + 1 = Len(client[c].queue)
                                  \/ x = [client[c] EXCEPT !.dropped = x.dropped] /\ x.dropped = client[c].dropped + 1
    BY <1>3, <1>4, <2>1
  <2>3. /\ client' \in [Clients -> Record] /\ client'[c] = x /\ \A d \in Clients : d # c => client'[d] = client[d]
        /\ x.alive = client[c].alive /\ x.tracking = client[c].tracking
        /\ x.session = client[c].session /\ x.opts = client[c].opts
        /\ client[c].queue = <<>> => x.queue = <<>>
        /\ Len(x.queue) <= Len(client[c].queue)
        /\ Len(x.queue) + client[c].dropped + 1 = Len(client[c].queue) + x.dropped
    BY <1>5, <2>1, <2>2
  <2> QED BY <1>2, <2>1, <2>3
<1> QED BY <1>6, <1>7

\* A handler with this effect keeps the invariant.
LEMMA EffectKeeps ==
  ASSUME Base, NEW m, NEW reqs, NEW rep \in BOOLEAN, Effect(m, reqs, rep)
  PROVE  Base'
<1>1. /\ TypeOK /\ Valid /\ Waiting /\ Owned /\ Tallied
  BY DEF Base
<1>2. /\ msgQ \in Seq(Posts) /\ msgQ # <<>> /\ apiQ \in Seq(Asks) /\ reqs \in Seq(Asks) /\ pending \in Seq(Defers)
  BY <1>1 DEF TypeOK, Effect
<1>3. /\ msgQ' \in Seq(Posts) /\ m \in Posts /\ ToSet(msgQ') \subseteq ToSet(msgQ)
      /\ ToSet(msgQ) = ToSet(msgQ') \cup {m} /\ m \in ToSet(msgQ)
  BY <1>2, ElemsTail DEF Effect
<1>4. apiQ' \in Seq(Asks) /\ ToSet(apiQ') = ToSet(apiQ) \cup ToSet(reqs)
  BY <1>2, ElemsCat DEF Effect
<1>5. Items' \subseteq Items \cup {r.then : r \in ToSet(reqs)}
  BY <1>3, <1>4 DEF Items, Thens, Effect
<1>6. /\ client' \in [Clients -> Record]
      /\ \A d \in Clients :
           /\ client'[d].alive = client[d].alive /\ client'[d].tracking = client[d].tracking
           /\ client'[d].session = client[d].session /\ client'[d].opts = client[d].opts
           /\ client[d].queue = <<>> => client'[d].queue = <<>>
           /\ Len(client'[d].queue) <= Len(client[d].queue)
           /\ ~(rep /\ d = m.client /\ client[d].session = m.id) => client'[d] = client[d]
           /\ rep /\ d = m.client /\ client[d].session = m.id /\ client[d].queue # <<>> =>
                Len(client'[d].queue) + client[d].dropped + 1 = Len(client[d].queue) + client'[d].dropped
  <2>1. CASE rep
    <3>1. m.client \in Clients /\ (Report(m.client, m.id) \/ Drop(m.client, m.id))
      BY <2>1 DEF Effect
    <3> QED BY <1>1, <2>1, <3>1, ReportKeeps
  <2>2. CASE ~rep
    <3>1. client' = client
      BY <2>2 DEF Effect
    <3>2. \A d \in Clients : Len(client[d].queue) \in Nat
      BY <1>1 DEF TypeOK, Record
    <3> QED BY <1>1, <2>2, <3>1, <3>2 DEF TypeOK
  <2> QED BY <2>1, <2>2
<1>7. TypeOK'
  BY <1>1, <1>2, <1>3, <1>4, <1>6 DEF TypeOK, Effect
<1>8. Valid'
  <2>1. \A n \in Items' : ValidItem(n)
    BY <1>1, <1>5 DEF Valid, Effect
  <2>2. \A n : ValidItem(n) => ValidItem(n)'
    BY DEF ValidItem, Effect
  <2>3. \A r \in ToSet(apiQ') : r.op \in {"startDist", "stopDist"} => "distance" \in env' /\ known'
    BY <1>1, <1>4 DEF Valid, Effect
  <2>4. DOMAIN dist' # {} => "distance" \in env' /\ known'
    BY DEF Effect
  <2> QED BY <2>1, <2>2, <2>3, <2>4 DEF Valid
<1>9. Waiting'
  BY <1>1, <1>3, <1>4 DEF Waiting, Effect
<1>10. Owned'
  <2>1. \A n \in Items' : OwnedItem(n)
    BY <1>1, <1>5 DEF Owned, Effect
  <2>2. \A n \in Messages : OwnedItem(n) => OwnedItem(n)'
    <3>1. \A n \in Messages : n.what = "remove" => n.client \in Clients
      BY DEF Messages
    <3> QED BY <1>6, <3>1 DEF OwnedItem, Effect
  <2>3. Items' \subseteq Messages
    <3>1. ToSet(reqs) \subseteq Asks
      BY <1>2, ElemsOf
    <3>2. \A r \in Asks : r.then \in Messages
      BY DEF Asks
    <3>3. Items \subseteq Messages
      BY <1>1, ItemTypes
    <3>4. ASSUME NEW n \in Items' PROVE n \in Messages
      <4>1. n \in Items \/ \E r \in ToSet(reqs) : n = r.then
        BY <1>5
      <4> QED BY <3>1, <3>2, <3>3, <4>1
    <3> QED BY <3>4
  <2>4. OwnedIn(time)' /\ OwnedIn(dist)'
    <3>1. OwnedIn(time') /\ OwnedIn(dist') /\ bounds' = bounds
      BY DEF Effect
    <3>2. \A c \in Clients : client'[c].session = client[c].session
      BY <1>6
    <3>3. OwnedIn(time)'
      BY <3>1, <3>2 DEF OwnedIn
    <3>4. OwnedIn(dist)'
      BY <3>1, <3>2 DEF OwnedIn
    <3> QED BY <3>3, <3>4
  <2>5. ASSUME NEW c \in Clients PROVE OwnedClient(c)'
    <3>1. OwnedClient(c)
      BY <1>1 DEF Owned
    <3>2. rep => m.id # 0
      BY <1>3 DEF Effect, Posts, Messages
    <3>3. client[c].session = 0 => client'[c] = client[c]
      BY <1>6, <3>2
    <3> QED BY <1>6, <3>1, <3>3 DEF OwnedClient, Effect
  <2> QED BY <2>1, <2>2, <2>3, <2>4, <2>5 DEF Owned
<1>11. Tallied'
  <2> SUFFICES ASSUME NEW c \in Clients, client[c].session # 0
               PROVE  /\ Due(client[c].session)' + client'[c].dropped = Len(client'[c].queue)
                      /\ "patient" \in env => Len(client'[c].queue) <= 1
    BY <1>6 DEF Tallied, Effect
  <2> DEFINE s == client[c].session
  <2>1. /\ Due(s) + client[c].dropped = Len(client[c].queue) /\ ("patient" \in env => Len(client[c].queue) <= 1)
    BY <1>1 DEF Tallied
  <2>2. s' = s
    BY <1>6
  <2>3. Count(msgQ, Rep(s)) = Count(msgQ', Rep(s)) + One(m, Rep(s))
    BY <1>2, CountTail DEF Effect
  <2>4. Count(apiQ', RepAsks(s)) = Count(apiQ, RepAsks(s)) + Count(reqs, RepAsks(s))
    BY <1>2, CountCat DEF Effect
  <2>5. pending' = pending
    BY DEF Effect
  <2>6. /\ Count(msgQ, Rep(s)) \in Nat /\ Count(msgQ', Rep(s)) \in Nat /\ Count(pending, Rep(s)) \in Nat
        /\ Count(apiQ', RepAsks(s)) \in Nat /\ Count(apiQ, RepAsks(s)) \in Nat /\ Count(reqs, RepAsks(s)) \in Nat
        /\ One(m, Rep(s)) \in {0, 1}
    BY <1>2, <1>3, <1>4, CountNat DEF One
  <2>7. Count(reqs, RepAsks(s)) = IF rep THEN 0 ELSE One(m, Rep(s))
    BY DEF Effect
  <2>8. /\ client[c].queue \in Seq({"start", "update", "stop"}) /\ Len(client[c].queue) \in Nat
        /\ Len(client'[c].queue) \in Nat /\ client[c].dropped \in Nat /\ client'[c].dropped \in Nat
    BY <1>1, <1>6 DEF TypeOK, Record
  <2> DEFINE out == Due(s)'
             goal == out + client'[c].dropped = Len(client'[c].queue) /\ ("patient" \in env => Len(client'[c].queue) <= 1)
  <2>9. out = Count(msgQ', Rep(s)) + Count(pending, Rep(s)) + Count(apiQ', RepAsks(s))
    BY <2>2, <2>5 DEF Due
  <2>10. Due(s) = Count(msgQ, Rep(s)) + Count(pending, Rep(s)) + Count(apiQ, RepAsks(s))
    BY DEF Due
  <2>13. s \in Nat
    BY <1>1 DEF TypeOK, Record
  <2> HIDE DEF s, out
  <2>11. ASSUME ~rep PROVE goal
    <3>1. client'[c] = client[c]
      BY <1>6, <2>11
    <3>2. Count(reqs, RepAsks(s)) = One(m, Rep(s))
      BY <2>7, <2>11, Zenon
    <3>3. out = Due(s)
      BY <2>3, <2>4, <2>6, <2>9, <2>10, <3>2
    <3> QED BY <2>1, <3>1, <3>3
  <2>12. ASSUME rep PROVE goal
    <3>1. Count(reqs, RepAsks(s)) = 0
      BY <2>7, <2>12, Zenon
    <3>2. CASE m \in Rep(s)
      <4>1. m.id = s /\ m.what \in Tellers /\ OwnedItem(m)
        BY <1>1, <1>3, <3>2 DEF Rep, Owned, Items
      <4>2. m.client = c
        BY <4>1 DEF OwnedItem, s
      <4>3. Due(s) > 0
        BY <2>3, <2>6, <2>10, <3>2 DEF One
      <4>4. client[c].queue # <<>>
        <5>1. Due(s) \in Nat
          BY <2>6, <2>10
        <5> QED BY <2>1, <2>8, <4>3, <5>1 DEF s
      <4>5. Len(client'[c].queue) <= Len(client[c].queue)
        BY <1>6
      <4>6. Len(client'[c].queue) + client[c].dropped + 1 = Len(client[c].queue) + client'[c].dropped
        BY <1>6, <2>12, <4>1, <4>2, <4>4 DEF s
      <4>7. One(m, Rep(s)) = 1
        BY <3>2 DEF One
      <4>8. out = Due(s) - 1
        BY <2>3, <2>4, <2>6, <2>9, <2>10, <3>1, <4>7
      <4>9. out \in Nat
        BY <2>6, <2>9
      <4>11. Due(s) \in Nat /\ Due(s) + client[c].dropped = Len(client[c].queue)
        BY <1>1, <2>1, DueNat DEF s
      <4>12. PICK x \in Nat, y \in Nat, a \in Nat, b \in Nat, o \in Nat :
               /\ x = client[c].dropped /\ y = client'[c].dropped /\ o = Due(s)
               /\ a = Len(client[c].queue) /\ b = Len(client'[c].queue)
        BY <2>8, <4>11
      <4>13. b + x + 1 = a + y /\ out = o - 1 /\ o + x = a
        BY <4>6, <4>8, <4>11, <4>12
      <4>10. out + client'[c].dropped = Len(client'[c].queue)
        <5>1. PICK w : w = out OBVIOUS
        <5>2. w + y = b
          BY <4>13, <5>1
        <5> QED BY <4>12, <5>1, <5>2
      <4> QED BY <2>1, <2>8, <4>5, <4>10
    <3>3. CASE m \notin Rep(s)
      <4>1. One(m, Rep(s)) = 0
        BY <3>3 DEF One
      <4>2. m \in Messages /\ m.what \in Tellers
        BY <1>3, <2>12 DEF Effect, Posts
      <4>3. m.id # s
        BY <3>3, <4>2 DEF Rep
      <4>4. client'[c] = client[c]
        BY <1>6, <4>3 DEF s
      <4>5. out = Due(s)
        BY <2>3, <2>4, <2>6, <2>9, <2>10, <3>1, <4>1
      <4> QED BY <2>1, <4>4, <4>5
    <3> QED BY <3>2, <3>3
  <2> QED BY <2>11, <2>12 DEF s, out
<1> QED BY <1>7, <1>8, <1>9, <1>10, <1>11 DEF Base

----
(* The other steps *)

\* A call posts m and may move its client to no session or to a new one.
LEMMA PostKeeps ==
  ASSUME Base, NEW m \in Posts, msgQ' = Append(msgQ, m), UNCHANGED <<adapter, apiQ, engine, env>>,
         bounds' \in [ids : Nat, calls : Nat, restarts : Nat], bounds'.ids >= bounds.ids,
         client' \in [Clients -> Record],
         \A c \in Clients : /\ client'[c].session \in {0, client[c].session} \/ client'[c].session > bounds.ids
                            /\ client'[c].alive => client[c].alive,
         \A c \in Clients : OwnedClient(c)',
         ValidItem(m), OwnedItem(m)',
         \A c \in Clients : client'[c].session # 0 =>
           /\ Due(client'[c].session) + One(m, Rep(client'[c].session)) + client'[c].dropped = Len(client'[c].queue)
           /\ "patient" \in env => Len(client'[c].queue) <= 1
  PROVE  Base'
<1>1. TypeOK /\ Valid /\ Waiting /\ Owned /\ Tallied
  BY DEF Base
<1>2. msgQ \in Seq(Posts) /\ apiQ \in Seq(Asks) /\ pending \in Seq(Defers)
  BY <1>1 DEF TypeOK
<1>3. msgQ' \in Seq(Posts) /\ ToSet(msgQ') = ToSet(msgQ) \cup {m}
  BY <1>2, ElemsAppend
<1>4. /\ time' = time /\ dist' = dist /\ known' = known /\ pending' = pending /\ apiQ' = apiQ
      /\ engine' = engine /\ env' = env
  BY DEF adapter
<1>5. TypeOK'
  BY <1>1, <1>3, <1>4 DEF TypeOK
<1>6. Items' = Items \cup {m}
  BY <1>3, <1>4 DEF Items, Thens
<1>7. Items \subseteq Messages /\ m \in Messages
  BY <1>1, ItemTypes DEF Posts
<1>8. Valid'
  <2>1. \A n : ValidItem(n) => ValidItem(n)'
    BY <1>4 DEF ValidItem
  <2> QED BY <1>1, <1>4, <1>6, <2>1 DEF Valid
<1>9. Waiting'
  BY <1>1, <1>3, <1>4 DEF Waiting
<1>10. bounds.ids \in Nat /\ bounds'.ids \in Nat
  BY <1>1 DEF TypeOK
<1>11. \A c \in Clients : client'[c].session \in Nat /\ client[c].session \in Nat
  BY <1>1 DEF TypeOK, Record
<1>12. Owned'
  <2>1. \A n \in Messages : OwnedItem(n) => OwnedItem(n)'
    <3> SUFFICES ASSUME NEW n \in Messages, OwnedItem(n) PROVE OwnedItem(n)'
      OBVIOUS
    <3>1. n.id \in Nat /\ n.id <= bounds.ids
      BY DEF Messages, OwnedItem
    <3>2. /\ n.what \in Tellers \cup {"removed"} => n.id # 0
          /\ n.what = "remove" => n.client \in Clients
      BY DEF Messages
    <3>3. \A c \in Clients : n.id # 0 /\ client'[c].session = n.id => client[c].session = n.id
      BY <1>10, <1>11, <3>1
    <3>4. n.id <= bounds'.ids
      BY <1>10, <3>1
    <3> QED BY <3>2, <3>3, <3>4 DEF OwnedItem
  <2>2. ASSUME NEW t, NEW D, IsTable(t, D), OwnedIn(t)
        PROVE  \A i \in DOMAIN t : i <= bounds'.ids /\ \A c \in Clients : client'[c].session = i => t[i].client = c
    <3> TAKE i \in DOMAIN t
    <3>1. i \in Nat /\ i # 0 /\ i <= bounds.ids
      BY <2>2 DEF OwnedIn, IsTable, Ids
    <3>2. \A c \in Clients : client'[c].session = i => client[c].session = i
      BY <1>10, <1>11, <3>1
    <3>3. i <= bounds'.ids
      BY <1>10, <3>1
    <3> QED BY <2>2, <3>2, <3>3 DEF OwnedIn
  <2>3. OwnedIn(time)' /\ OwnedIn(dist)'
    <3>1. IsTable(time, TimeOpts) /\ OwnedIn(time) /\ IsTable(dist, DistOpts) /\ OwnedIn(dist)
      BY <1>1 DEF Owned, TypeOK
    <3>2. \A i \in DOMAIN time : i <= bounds'.ids /\ \A c \in Clients : client'[c].session = i => time[i].client = c
      BY <2>2, <3>1
    <3>3. \A i \in DOMAIN dist : i <= bounds'.ids /\ \A c \in Clients : client'[c].session = i => dist[i].client = c
      BY <2>2, <3>1
    <3> QED BY <1>4, <3>2, <3>3 DEF OwnedIn
  <2> QED BY <1>1, <1>6, <1>7, <2>1, <2>3 DEF Owned
<1>13. Tallied'
  <2> SUFFICES ASSUME NEW c \in Clients, client'[c].session # 0
               PROVE  /\ Due(client[c].session)' + client'[c].dropped = Len(client'[c].queue)
                      /\ "patient" \in env => Len(client'[c].queue) <= 1
    BY <1>4 DEF Tallied
  <2> DEFINE s == client'[c].session
  <2>1. Due(s) + One(m, Rep(s)) + client'[c].dropped = Len(client'[c].queue) /\ ("patient" \in env => Len(client'[c].queue) <= 1)
    OBVIOUS
  <2>2. Count(msgQ', Rep(s)) = Count(msgQ, Rep(s)) + One(m, Rep(s))
    BY <1>2, CountAppend
  <2>3. /\ Count(msgQ, Rep(s)) \in Nat /\ Count(pending, Rep(s)) \in Nat /\ Count(apiQ, RepAsks(s)) \in Nat
        /\ One(m, Rep(s)) \in {0, 1}
    BY <1>2, CountNat DEF One
  <2>4. Due(client[c].session)' = Count(msgQ', Rep(s)) + Count(pending, Rep(s)) + Count(apiQ, RepAsks(s))
    BY <1>4 DEF Due
  <2>5. Due(s) = Count(msgQ, Rep(s)) + Count(pending, Rep(s)) + Count(apiQ, RepAsks(s))
    BY DEF Due
  <2> DEFINE out == Due(client[c].session)'
  <2> HIDE DEF out, s
  <2>6. out = Due(s) + One(m, Rep(s)) /\ client'[c].dropped \in Nat
    BY <2>2, <2>3, <2>4, <2>5 DEF out, Record
  <2> QED BY <2>1, <2>6 DEF out
<1> QED BY <1>5, <1>8, <1>9, <1>12, <1>13 DEF Base

\* Nothing is on its way for a session that was not given out yet.
LEMMA FreshSession ==
  ASSUME Base, NEW s \in Nat, s > bounds.ids
  PROVE  Due(s) = 0
<1>1. TypeOK /\ Owned
  BY DEF Base
<1>2. msgQ \in Seq(Posts) /\ apiQ \in Seq(Asks) /\ pending \in Seq(Defers) /\ bounds.ids \in Nat
  BY <1>1 DEF TypeOK
<1>3. \A n \in Items : n.id <= bounds.ids
  BY <1>1 DEF Owned, OwnedItem
<1>4. \A n \in Items : n \notin Rep(s)
  BY <1>2, <1>3 DEF Rep
<1>5. ToSet(msgQ) \cap Rep(s) = {} /\ ToSet(pending) \cap Rep(s) = {}
  BY <1>4 DEF Items
<1>6. ToSet(apiQ) \cap RepAsks(s) = {}
  BY <1>4 DEF Items, Thens, RepAsks
<1>7. Count(msgQ, Rep(s)) = 0 /\ Count(pending, Rep(s)) = 0 /\ Count(apiQ, RepAsks(s)) = 0
  BY <1>2, <1>5, <1>6, CountNat
<1> QED BY <1>7 DEF Due

\* startTracking keeps it: the session is new, and the call is on its way.
LEMMA StartKeeps ==
  ASSUME Base, NEW c \in Clients, NEW o \in StartOptions, StartTracking(c, o)
  PROVE  Base'
<1>0. \E id \in Ids : id = bounds.ids + 1
  <2>1. bounds.ids \in Nat
    BY DEF Base, TypeOK
  <2> QED BY <2>1 DEF Ids
<1> PICK id \in Ids : id = bounds.ids + 1
  BY <1>0
<1> DEFINE m == Msg("start", c, id, o)
<1>1. TypeOK /\ Valid /\ Waiting /\ Owned /\ Tallied
  BY DEF Base
<1>2. client \in [Clients -> Record] /\ bounds \in [ids : Nat, calls : Nat, restarts : Nat] /\ id \in Ids /\ id \in Nat
  BY <1>1 DEF TypeOK, Ids
<1>3. o \in Opts /\ (o.distance => "distance" \in env)
  BY OptionsAreOpts
<1>4. /\ m.what = "start" /\ m.client = c /\ m.id = id /\ m.opts = o /\ ~m.err /\ m \in Messages
  <2>1. "start" \in Kinds
    BY DEF Kinds, Calls
  <2> QED BY <1>3, <2>1, MsgIs
<1>5. /\ client[c].alive /\ msgQ' = Append(msgQ, m) /\ UNCHANGED <<adapter, apiQ, engine, env>>
      /\ bounds' = [bounds EXCEPT !.calls = bounds.calls + 1, !.ids = id]
      /\ client' = [client EXCEPT ![c] = [@ EXCEPT !.tracking = TRUE, !.session = id, !.opts = o,
                                                   !.queue = <<"start">>, !.dropped = 0]]
  BY DEF StartTracking, CanCall, Called, Post
<1> HIDE DEF m
<1>6. bounds' \in [ids : Nat, calls : Nat, restarts : Nat] /\ bounds'.ids = id
  <2>1. bounds' = [bounds EXCEPT !.calls = bounds.calls + 1, !.ids = id]
    BY <1>5
  <2>2. bounds.calls + 1 \in Nat
    BY <1>2
  <2> QED BY <1>2, <2>1, <2>2
<1>7. /\ client'[c].alive = client[c].alive /\ client'[c].tracking /\ client'[c].session = id /\ client'[c].opts = o
      /\ client'[c].queue = <<"start">> /\ client'[c].dropped = 0 /\ \A d \in Clients : d # c => client'[d] = client[d]
      /\ client' \in [Clients -> Record]
  <2> DEFINE x == [client[c] EXCEPT !.tracking = TRUE, !.session = id, !.opts = o, !.queue = <<"start">>, !.dropped = 0]
  <2>1. <<"start">> \in Seq({"start", "update", "stop"}) OBVIOUS
  <2>2. /\ x \in Record /\ x.alive = client[c].alive /\ x.tracking /\ x.session = id /\ x.opts = o
        /\ x.queue = <<"start">> /\ x.dropped = 0
    BY <1>2, <1>3, <2>1 DEF Record
  <2>3. client' = [client EXCEPT ![c] = x]
    BY <1>5
  <2> HIDE DEF x
  <2> QED BY <1>2, <2>2, <2>3
<1>8. id > bounds.ids /\ bounds.ids \in Nat
  BY <1>2
<1>9. \A d \in Clients : OwnedClient(d) /\ client[d].session \in Nat
  BY <1>1, <1>2 DEF Owned, Record
<1>10. ASSUME NEW d \in Clients PROVE OwnedClient(d)'
  <2>1. \A e \in Clients : client[e].session <= bounds.ids /\ client[e].session # id
    BY <1>2, <1>8, <1>9 DEF OwnedClient
  <2>2. CASE d = c
    <3>1. client'[d].session # 0 /\ client'[d].alive /\ client'[d].session <= bounds'.ids
      BY <1>2, <1>5, <1>6, <1>7, <2>2 DEF Ids
    <3>2. client'[d].opts.distance => "distance" \in env'
      BY <1>3, <1>5, <1>7, <2>2
    <3>3. \A e \in Clients : client'[d].session = client'[e].session => d = e
      BY <1>7, <2>1, <2>2
    <3> QED BY <3>1, <3>2, <3>3 DEF OwnedClient
  <2>3. CASE d # c
    <3>1. client'[d] = client[d]
      BY <1>7, <2>3
    <3>2. client[d].session <= bounds'.ids
      BY <1>2, <1>6, <1>8, <1>9, <2>1
    <3>3. \A e \in Clients : client'[d].session = client'[e].session /\ client'[d].session # 0 => d = e
      BY <1>7, <1>9, <2>1, <3>1 DEF OwnedClient
    <3> QED BY <1>5, <1>9, <3>1, <3>2, <3>3 DEF OwnedClient
  <2> QED BY <2>2, <2>3
<1>11. ValidItem(m)
  BY <1>3, <1>4 DEF ValidItem, DistKinds
<1>12. OwnedItem(m)'
  <2>1. \A d \in Clients : client'[d].session = id => c = d
    BY <1>7, <1>8, <1>9 DEF OwnedClient
  <2>2. id <= bounds'.ids
    BY <1>2, <1>6
  <2> QED BY <1>4, <2>1, <2>2 DEF OwnedItem
<1>13. ASSUME NEW d \in Clients, client'[d].session # 0
       PROVE  /\ Due(client'[d].session) + One(m, Rep(client'[d].session)) + client'[d].dropped = Len(client'[d].queue)
              /\ "patient" \in env => Len(client'[d].queue) <= 1
  <2>1. CASE d = c
    <3>1. Due(id) = 0
      BY <1>2, <1>8, FreshSession
    <3>2. One(m, Rep(id)) = 1
      BY <1>4 DEF One, Rep, Tellers
    <3>3. Len(client'[d].queue) = 1
      BY <1>7, <2>1
    <3>4. client'[d].session = id /\ client'[d].dropped = 0
      BY <1>7, <2>1
    <3> QED BY <3>1, <3>2, <3>3, <3>4
  <2>2. CASE d # c
    <3>1. client'[d] = client[d]
      BY <1>7, <2>2
    <3>2. client[d].session # id
      BY <1>2, <1>8, <1>9 DEF OwnedClient
    <3>3. One(m, Rep(client[d].session)) = 0
      BY <1>4, <3>2 DEF One, Rep
    <3>4. Due(client[d].session) + client[d].dropped = Len(client[d].queue) /\ ("patient" \in env => Len(client[d].queue) <= 1)
      BY <1>1, <1>13, <3>1 DEF Tallied
    <3>5. Len(client[d].queue) \in Nat /\ client[d].dropped \in Nat
      BY <1>2 DEF Record
    <3> QED BY <1>1, <3>1, <3>3, <3>4, <3>5, DueNat
  <2> QED BY <2>1, <2>2
<1>14. \A d \in Clients : /\ client'[d].session \in {0, client[d].session} \/ client'[d].session > bounds.ids
                          /\ client'[d].alive => client[d].alive
  BY <1>5, <1>7, <1>8
<1>15. bounds'.ids >= bounds.ids
  BY <1>2, <1>6, <1>8
<1>16. m \in Posts
  BY <1>4 DEF Posts
<1> QED BY <1>5, <1>6, <1>7, <1>10, <1>11, <1>12, <1>13, <1>14, <1>15, <1>16, PostKeeps

\* So does a call about a session that exists.
LEMMA CallKeeps ==
  ASSUME Base, NEW c \in Clients, NEW s \in Ids, client[c].session = s, CanCall(c),
         NEW m \in Posts, m.what \in {"update", "stop"}, m.id = s, m.client = c, ~m.err, ValidItem(m),
         NEW x \in Record, client' = [client EXCEPT ![c] = x], x.alive, x.session = s,
         x.opts.distance => "distance" \in env, x.dropped = client[c].dropped,
         NEW k \in {"update", "stop"}, x.queue = Append(client[c].queue, k),
         msgQ' = Append(msgQ, m), Called(0), UNCHANGED <<adapter, apiQ, engine, env>>
  PROVE  Base'
<1>1. TypeOK /\ Valid /\ Waiting /\ Owned /\ Tallied
  BY DEF Base
<1>2. client \in [Clients -> Record] /\ bounds \in [ids : Nat, calls : Nat, restarts : Nat] /\ s \in Nat /\ s # 0
  BY <1>1 DEF TypeOK, Ids
<1>3. bounds' \in [ids : Nat, calls : Nat, restarts : Nat] /\ bounds'.ids = bounds.ids
  <2>1. bounds' = [bounds EXCEPT !.calls = bounds.calls + 1, !.ids = bounds.ids + 0]
    BY DEF Called
  <2>2. bounds.calls + 1 \in Nat /\ bounds.ids + 0 = bounds.ids
    BY <1>2
  <2> QED BY <1>2, <2>1, <2>2
<1>4. client' \in [Clients -> Record] /\ client'[c] = x /\ \A d \in Clients : d # c => client'[d] = client[d]
  BY <1>2
<1>5. \A d \in Clients : client'[d].session = client[d].session
  BY <1>2, <1>4
<1>6. \A d \in Clients : OwnedClient(d)
  BY <1>1 DEF Owned
<1>7. env' = env OBVIOUS
<1>8. ASSUME NEW d \in Clients PROVE OwnedClient(d)'
  <2>1. CASE d = c
    <3>1. client'[d].session = s /\ client'[d].alive /\ s <= bounds'.ids
      BY <1>3, <1>4, <1>6, <2>1 DEF OwnedClient
    <3>2. client'[d].opts.distance => "distance" \in env'
      BY <1>4, <1>7, <2>1
    <3>3. \A e \in Clients : client'[d].session = client'[e].session => d = e
      BY <1>2, <1>5, <1>6, <2>1 DEF OwnedClient
    <3> QED BY <1>2, <3>1, <3>2, <3>3 DEF OwnedClient
  <2>2. CASE d # c
    <3>1. client'[d] = client[d]
      BY <1>4, <2>2
    <3>3. \A e \in Clients : client'[d].session = client'[e].session /\ client'[d].session # 0 => d = e
      BY <1>5, <1>6 DEF OwnedClient
    <3> QED BY <1>3, <1>6, <1>7, <3>1, <3>3 DEF OwnedClient
  <2> QED BY <2>1, <2>2
<1>9. OwnedItem(m)'
  <2>1. m.id <= bounds'.ids
    BY <1>2, <1>3, <1>6 DEF OwnedClient
  <2>2. \A d \in Clients : client'[d].session = s => d = c
    BY <1>2, <1>5, <1>6 DEF OwnedClient
  <2> QED BY <2>1, <2>2 DEF OwnedItem
<1>10. ASSUME NEW d \in Clients, client'[d].session # 0
       PROVE  /\ Due(client'[d].session) + One(m, Rep(client'[d].session)) + client'[d].dropped = Len(client'[d].queue)
              /\ "patient" \in env => Len(client'[d].queue) <= 1
  <2>1. /\ Due(client[d].session) + client[d].dropped = Len(client[d].queue) /\ ("patient" \in env => Len(client[d].queue) <= 1)
        /\ client'[d].session = client[d].session
    BY <1>1, <1>5, <1>10 DEF Tallied
  <2>2. client[d].queue \in Seq({"start", "update", "stop"}) /\ Len(client[d].queue) \in Nat /\ client[d].dropped \in Nat
    BY <1>2 DEF Record
  <2>3. CASE d = c
    <3>1. One(m, Rep(s)) = 1
      BY DEF One, Rep, Tellers, Posts
    <3>2. Len(client'[d].queue) = Len(client[d].queue) + 1
      BY <1>4, <2>2, <2>3
    <3>3. "patient" \in env => Len(client[d].queue) = 0
      BY <2>2, <2>3 DEF CanCall
    <3>4. client'[d].session = s /\ client[d].session = s /\ client'[d].dropped = client[d].dropped
      BY <1>4, <2>1, <2>3
    <3>5. Due(s) \in Nat /\ Due(s) + client[d].dropped = Len(client[d].queue)
      BY <1>1, <2>1, <3>4, DueNat
    <3>6. PICK o \in Nat, g \in Nat, a \in Nat : o = Due(s) /\ g = client[d].dropped /\ a = Len(client[d].queue)
      BY <2>2, <3>5
    <3>7. o + g = a /\ Len(client'[d].queue) = a + 1 /\ ("patient" \in env => a = 0)
      BY <3>2, <3>3, <3>5, <3>6
    <3>8. o + 1 + g = Len(client'[d].queue) /\ ("patient" \in env => Len(client'[d].queue) <= 1)
      BY <3>7
    <3> QED BY <3>1, <3>4, <3>6, <3>8
  <2>4. CASE d # c
    <3>1. client'[d] = client[d]
      BY <1>4, <2>4
    <3>2. client[d].session # s
      BY <1>2, <1>6, <2>4 DEF OwnedClient
    <3>3. One(m, Rep(client[d].session)) = 0
      BY <3>2 DEF One, Rep
    <3> QED BY <1>1, <2>1, <2>2, <3>1, <3>3, DueNat
  <2> QED BY <2>3, <2>4
<1>11. \A d \in Clients : /\ client'[d].session \in {0, client[d].session} \/ client'[d].session > bounds.ids
                          /\ client'[d].alive => client[d].alive
  <2> TAKE d \in Clients
  <2>1. client'[d].alive => client[d].alive
    BY <1>4 DEF CanCall
  <2> QED BY <1>5, <2>1
<1>12. bounds'.ids >= bounds.ids
  BY <1>2, <1>3
<1> QED BY <1>3, <1>4, <1>8, <1>9, <1>10, <1>11, <1>12, PostKeeps

\* A client with a session has asked for a distance only where there are such sessions.
LEMMA SessionClient ==
  ASSUME Base, NEW c \in Clients, client[c].session > 0
  PROVE  \E s \in Ids : client[c].session = s /\ (client[c].opts.distance => "distance" \in env)
<1>1. client[c].session \in Nat /\ OwnedClient(c)
  BY DEF Base, TypeOK, Record, Owned
<1>2. client[c].session \in Ids
  BY <1>1 DEF Ids
<1> QED BY <1>1, <1>2 DEF OwnedClient

\* stopTracking is such a call,
LEMMA StopKeeps ==
  ASSUME Base, NEW c \in Clients, StopTracking(c)
  PROVE  Base'
<1>1. client[c].session > 0 /\ CanCall(c)
  BY DEF StopTracking
<1>2. PICK s \in Ids : client[c].session = s /\ (client[c].opts.distance => "distance" \in env)
  BY <1>1, SessionClient
<1> DEFINE m == Msg("stop", c, s, NoOptions)
<1>3. client \in [Clients -> Record]
  BY DEF Base, TypeOK
<1>4. /\ m.what = "stop" /\ m.client = c /\ m.id = s /\ m.opts = NoOptions /\ ~m.err /\ m \in Messages
  <2>1. "stop" \in Kinds
    BY DEF Kinds, Calls
  <2> QED BY <2>1, MsgIs, NoOptsIs
<1>5. msgQ' = Append(msgQ, m) /\ Called(0) /\ UNCHANGED <<adapter, apiQ, engine, env>>
  BY <1>2 DEF StopTracking, Post
<1> HIDE DEF m
<1>6. \E x \in Record : /\ client' = [client EXCEPT ![c] = x] /\ x.alive = client[c].alive /\ x.session = client[c].session
                           /\ x.opts = client[c].opts /\ x.queue = Append(client[c].queue, "stop") /\ x.dropped = client[c].dropped
  <2> DEFINE x == [client[c] EXCEPT !.tracking = FALSE, !.queue = Append(client[c].queue, "stop")]
  <2>1. client' = [client EXCEPT ![c] = x]
    BY DEF StopTracking
  <2>2. Append(client[c].queue, "stop") \in Seq({"start", "update", "stop"})
    BY <1>3 DEF Record
  <2>3. /\ x \in Record /\ x.alive = client[c].alive /\ x.session = client[c].session /\ x.opts = client[c].opts
        /\ x.queue = Append(client[c].queue, "stop") /\ x.dropped = client[c].dropped
    BY <1>3, <2>2 DEF Record
  <2> HIDE DEF x
  <2> QED BY <2>1, <2>3
<1>7. PICK x \in Record : /\ client' = [client EXCEPT ![c] = x] /\ x.alive = client[c].alive /\ x.session = client[c].session
                             /\ x.opts = client[c].opts /\ x.queue = Append(client[c].queue, "stop") /\ x.dropped = client[c].dropped
  BY <1>6
<1>8. ValidItem(m) /\ m \in Posts
  BY <1>4, NoOptsIs DEF ValidItem, DistKinds, Posts
<1>9. x.alive
  BY <1>1, <1>7 DEF CanCall
<1> QED BY <1>1, <1>2, <1>4, <1>5, <1>7, <1>8, <1>9, CallKeeps

\* ... and so is updateTrackingOptions.
LEMMA UpdateKeeps ==
  ASSUME Base, NEW c \in Clients, NEW o \in UpdateOptions(c), UpdateTracking(c, o)
  PROVE  Base'
<1>1. client[c].session > 0 /\ CanCall(c)
  BY DEF UpdateTracking
<1>2. PICK s \in Ids : client[c].session = s /\ (client[c].opts.distance => "distance" \in env)
  BY <1>1, SessionClient
<1> DEFINE m == Msg("update", c, s, o)
<1>3. client \in [Clients -> Record]
  BY DEF Base, TypeOK
<1>10. o \in Opts /\ (o.distance => "distance" \in env /\ "updates" \in env)
  BY OptionsAreOpts DEF UpdateOptions
<1>4. /\ m.what = "update" /\ m.client = c /\ m.id = s /\ m.opts = o /\ ~m.err /\ m \in Messages
  <2>1. "update" \in Kinds
    BY DEF Kinds, Calls
  <2> QED BY <1>10, <2>1, MsgIs
<1>5. msgQ' = Append(msgQ, m) /\ Called(0) /\ UNCHANGED <<adapter, apiQ, engine, env>>
  BY <1>2 DEF UpdateTracking, Post
<1> HIDE DEF m
<1>6. \E x \in Record : /\ client' = [client EXCEPT ![c] = x] /\ x.alive = client[c].alive /\ x.session = client[c].session
                           /\ x.opts \in {client[c].opts, o} /\ x.queue = Append(client[c].queue, "update")
                           /\ x.dropped = client[c].dropped
  <2> DEFINE p == IF Rejected(client[c].opts) \/ Rejected(o) THEN client[c].opts ELSE o
             x == [client[c] EXCEPT !.queue = Append(client[c].queue, "update"), !.opts = p]
  <2>4. p \in {client[c].opts, o} /\ p \in Opts
    BY <1>3, <1>10 DEF Record
  <2>1. client' = [client EXCEPT ![c] = x]
    BY DEF UpdateTracking
  <2> HIDE DEF p
  <2>2. Append(client[c].queue, "update") \in Seq({"start", "update", "stop"})
    BY <1>3 DEF Record
  <2>3. /\ x \in Record /\ x.alive = client[c].alive /\ x.session = client[c].session
        /\ x.opts \in {client[c].opts, o} /\ x.queue = Append(client[c].queue, "update") /\ x.dropped = client[c].dropped
    BY <1>3, <2>2, <2>4 DEF Record
  <2> HIDE DEF x
  <2> QED BY <2>1, <2>3
<1>7. PICK x \in Record : /\ client' = [client EXCEPT ![c] = x] /\ x.alive = client[c].alive /\ x.session = client[c].session
                             /\ x.opts \in {client[c].opts, o} /\ x.queue = Append(client[c].queue, "update")
                             /\ x.dropped = client[c].dropped
  BY <1>6
<1>8. ValidItem(m) /\ m \in Posts
  BY <1>4, <1>10 DEF ValidItem, DistKinds, Posts
<1>9. x.alive
  BY <1>1, <1>7 DEF CanCall
<1> QED BY <1>1, <1>2, <1>4, <1>5, <1>7, <1>8, <1>9, <1>10, CallKeeps

\* A client that leaves waits for nothing any more.
LEMMA DestroyKeeps ==
  ASSUME Base, NEW c \in Clients, Destroy(c)
  PROVE  Base'
<1> DEFINE m == Msg("remove", c, 0, NoOptions)
<1>1. TypeOK /\ Owned /\ Tallied
  BY DEF Base
<1>2. client \in [Clients -> Record] /\ bounds \in [ids : Nat, calls : Nat, restarts : Nat]
  BY <1>1 DEF TypeOK
<1>3. /\ m.what = "remove" /\ m.client = c /\ m.id = 0 /\ m.opts = NoOptions /\ m.err = FALSE /\ m \in Messages
  BY NoOptsIs DEF Msg, Messages, Kinds, Calls, Answers, Tellers
<1>4. msgQ' = Append(msgQ, m) /\ Called(0) /\ UNCHANGED <<adapter, apiQ, engine, env>>
  BY DEF Destroy, Post
<1> HIDE DEF m
<1>5. bounds' \in [ids : Nat, calls : Nat, restarts : Nat] /\ bounds'.ids = bounds.ids
  <2>1. bounds' = [bounds EXCEPT !.calls = bounds.calls + 1, !.ids = bounds.ids + 0]
    BY <1>4 DEF Called
  <2>2. bounds.calls + 1 \in Nat /\ bounds.ids + 0 = bounds.ids
    BY <1>2
  <2> QED BY <1>2, <2>1, <2>2
<1>6. /\ client'[c].alive = FALSE /\ client'[c].tracking = FALSE /\ client'[c].session = 0 /\ client'[c].queue = <<>>
      /\ client'[c].dropped = 0 /\ \A d \in Clients : d # c => client'[d] = client[d]
      /\ client' \in [Clients -> Record]
  <2> DEFINE x == [client[c] EXCEPT !.alive = FALSE, !.tracking = FALSE, !.session = 0, !.queue = <<>>, !.dropped = 0]
  <2>1. client' = [client EXCEPT ![c] = x]
    BY DEF Destroy
  <2>2. <<>> \in Seq({"start", "update", "stop"}) OBVIOUS
  <2>3. x \in Record /\ x.alive = FALSE /\ x.tracking = FALSE /\ x.session = 0 /\ x.queue = <<>> /\ x.dropped = 0
    BY <1>2, <2>2 DEF Record
  <2> HIDE DEF x
  <2> QED BY <1>2, <2>1, <2>3
<1>7. \A d \in Clients : OwnedClient(d)
  BY <1>1 DEF Owned
<1>8. ASSUME NEW d \in Clients PROVE OwnedClient(d)'
  <2>1. CASE d = c
    <3>1. 0 <= bounds'.ids
      BY <1>2, <1>5
    <3> QED BY <1>6, <2>1, <3>1 DEF OwnedClient
  <2>2. CASE d # c
    <3>1. client'[d] = client[d] /\ OwnedClient(d)
      BY <1>6, <1>7, <2>2
    <3>2. \A e \in Clients : client'[d].session = client'[e].session /\ client'[d].session # 0 => d = e
      BY <1>6, <3>1 DEF OwnedClient
    <3> QED BY <1>4, <1>5, <3>1, <3>2 DEF OwnedClient
  <2> QED BY <2>1, <2>2
<1>9. OwnedItem(m)'
  <2>1. 0 <= bounds'.ids
    BY <1>2, <1>5
  <2> QED BY <1>3, <1>6, <2>1 DEF OwnedItem, Tellers
<1>10. ASSUME NEW d \in Clients, client'[d].session # 0
       PROVE  /\ Due(client'[d].session) + One(m, Rep(client'[d].session)) + client'[d].dropped = Len(client'[d].queue)
              /\ "patient" \in env => Len(client'[d].queue) <= 1
  <2>1. client'[d] = client[d]
    BY <1>6, <1>10
  <2>2. /\ Due(client[d].session) + client[d].dropped = Len(client[d].queue) /\ ("patient" \in env => Len(client[d].queue) <= 1)
    BY <1>1, <1>10, <2>1 DEF Tallied
  <2>3. One(m, Rep(client[d].session)) = 0
    BY <1>3 DEF One, Rep, Tellers
  <2>4. Len(client[d].queue) \in Nat /\ client[d].dropped \in Nat
    BY <1>2 DEF Record
  <2> QED BY <1>1, <2>1, <2>2, <2>3, <2>4, DueNat
<1>11. \A d \in Clients : /\ client'[d].session \in {0, client[d].session} \/ client'[d].session > bounds.ids
                          /\ client'[d].alive => client[d].alive
  <2> TAKE d \in Clients
  <2>1. CASE d = c
    BY <1>6, <2>1
  <2>2. CASE d # c
    BY <1>6, <2>2
  <2> QED BY <2>1, <2>2
<1>12. bounds'.ids >= bounds.ids
  BY <1>2, <1>5
<1>13. m \in Posts /\ ValidItem(m)
  BY <1>3, NoOptsIs DEF Posts, ValidItem, DistKinds
<1> QED BY <1>4, <1>5, <1>6, <1>8, <1>9, <1>10, <1>11, <1>12, <1>13, PostKeeps

\* A configuration call concerns no client.
LEMMA ConfigKeeps ==
  ASSUME Base, UpdateConfig
  PROVE  Base'
<1> DEFINE m == Msg("config", NoClient, 0, NoOptions)
<1>1. TypeOK /\ Owned /\ Tallied
  BY DEF Base
<1>2. client \in [Clients -> Record] /\ bounds \in [ids : Nat, calls : Nat, restarts : Nat]
  BY <1>1 DEF TypeOK
<1>3. /\ m.what = "config" /\ m.id = 0 /\ m.opts = NoOptions /\ m.err = FALSE /\ m \in Messages
  BY NoOptsIs DEF Msg, Messages, Kinds, Calls, Answers, Tellers
<1>4. msgQ' = Append(msgQ, m) /\ Called(0) /\ client' = client /\ UNCHANGED <<adapter, apiQ, engine, env>>
  BY DEF UpdateConfig, Post
<1> HIDE DEF m
<1>5. bounds' \in [ids : Nat, calls : Nat, restarts : Nat] /\ bounds'.ids = bounds.ids
  <2>1. bounds' = [bounds EXCEPT !.calls = bounds.calls + 1, !.ids = bounds.ids + 0]
    BY <1>4 DEF Called
  <2>2. bounds.calls + 1 \in Nat /\ bounds.ids + 0 = bounds.ids
    BY <1>2
  <2> QED BY <1>2, <2>1, <2>2
<1>6. \A d \in Clients : OwnedClient(d)'
  BY <1>1, <1>4, <1>5 DEF Owned, OwnedClient
<1>7. OwnedItem(m)'
  <2>1. 0 <= bounds'.ids
    BY <1>2, <1>5
  <2> QED BY <1>3, <2>1 DEF OwnedItem, Tellers
<1>8. ASSUME NEW d \in Clients, client'[d].session # 0
      PROVE  /\ Due(client'[d].session) + One(m, Rep(client'[d].session)) + client'[d].dropped = Len(client'[d].queue)
             /\ "patient" \in env => Len(client'[d].queue) <= 1
  <2>2. /\ Due(client[d].session) + client[d].dropped = Len(client[d].queue) /\ ("patient" \in env => Len(client[d].queue) <= 1)
    BY <1>1, <1>4, <1>8 DEF Tallied
  <2>3. One(m, Rep(client[d].session)) = 0
    BY <1>3 DEF One, Rep, Tellers
  <2>4. Len(client[d].queue) \in Nat /\ client[d].dropped \in Nat
    BY <1>2 DEF Record
  <2> QED BY <1>1, <1>4, <2>2, <2>3, <2>4, DueNat
<1>9. client' \in [Clients -> Record]
  BY <1>2, <1>4
<1>10. \A d \in Clients : /\ client'[d].session \in {0, client[d].session} \/ client'[d].session > bounds.ids
                          /\ client'[d].alive => client[d].alive
  BY <1>4
<1>11. bounds'.ids >= bounds.ids
  BY <1>2, <1>5
<1>12. m \in Posts /\ ValidItem(m)
  BY <1>3, NoOptsIs DEF Posts, ValidItem, DistKinds
<1> QED BY <1>4, <1>5, <1>6, <1>7, <1>8, <1>9, <1>10, <1>11, <1>12, PostKeeps

\* A message waits for the engine's capabilities.
Deferred(m) ==
    /\ msgQ # <<>> /\ m = Head(msgQ) /\ msgQ' = Tail(msgQ) /\ m \in Defers /\ ~known
    /\ pending' = Append(pending, m)
    /\ UNCHANGED <<client, time, dist, known, apiQ, engine, bounds, env>>

\* Waiting for the capabilities moves a message and loses nothing.
LEMMA DeferredKeeps ==
  ASSUME Base, NEW m, Deferred(m)
  PROVE  Base'
<1>1. TypeOK /\ Valid /\ Waiting /\ Owned /\ Tallied
  BY DEF Base
<1>2. /\ msgQ \in Seq(Posts) /\ msgQ # <<>> /\ apiQ \in Seq(Asks) /\ pending \in Seq(Defers)
      /\ m = Head(msgQ) /\ msgQ' = Tail(msgQ) /\ m \in Defers /\ pending' = Append(pending, m)
  BY <1>1 DEF TypeOK, Deferred
<1>3. /\ client' = client /\ time' = time /\ dist' = dist /\ known' = known /\ apiQ' = apiQ /\ engine' = engine
      /\ bounds' = bounds /\ env' = env /\ ~known
  BY DEF Deferred
<1>4. msgQ' \in Seq(Posts) /\ ToSet(msgQ) = ToSet(msgQ') \cup {m}
  BY <1>2, ElemsTail
<1>5. pending' \in Seq(Defers) /\ ToSet(pending') = ToSet(pending) \cup {m}
  BY <1>2, ElemsAppend
<1>6. Items' = Items
  BY <1>3, <1>4, <1>5 DEF Items, Thens
<1>7. TypeOK'
  BY <1>1, <1>3, <1>4, <1>5 DEF TypeOK
<1>8. Valid'
  BY <1>1, <1>3, <1>6 DEF Valid, ValidItem
<1>9. Waiting'
  <2>1. m.what # "engineUp"
    BY <1>2 DEF Defers
  <2> QED BY <1>1, <1>3, <1>4, <2>1 DEF Waiting
<1>10. Owned'
  BY <1>1, <1>3, <1>6 DEF Owned, OwnedItem, OwnedIn, OwnedClient
<1>11. Tallied'
  <2>1. ASSUME NEW s PROVE Due(s)' = Due(s)
    <3>1. Count(msgQ, Rep(s)) = Count(msgQ', Rep(s)) + One(m, Rep(s))
      BY <1>2, CountTail
    <3>2. Count(pending', Rep(s)) = Count(pending, Rep(s)) + One(m, Rep(s))
      BY <1>2, CountAppend
    <3>3. /\ Count(msgQ, Rep(s)) \in Nat /\ Count(msgQ', Rep(s)) \in Nat /\ Count(pending, Rep(s)) \in Nat
          /\ Count(pending', Rep(s)) \in Nat /\ Count(apiQ, RepAsks(s)) \in Nat /\ One(m, Rep(s)) \in {0, 1}
      BY <1>2, <1>4, <1>5, CountNat DEF One
    <3>4. Due(s)' = Count(msgQ', Rep(s)) + Count(pending', Rep(s)) + Count(apiQ, RepAsks(s))
      BY <1>3 DEF Due
    <3>5. Due(s) = Count(msgQ, Rep(s)) + Count(pending, Rep(s)) + Count(apiQ, RepAsks(s))
      BY DEF Due
    <3> QED BY <3>1, <3>2, <3>3, <3>4, <3>5
  <2>2. ASSUME NEW c \in Clients, client[c].session # 0
        PROVE  Due(client[c].session)' + client[c].dropped = Len(client[c].queue) /\ ("patient" \in env => Len(client[c].queue) <= 1)
    BY <1>1, <1>3, <2>1, <2>2 DEF Tallied
  <2> QED BY <1>3, <2>2 DEF Tallied
<1> QED BY <1>7, <1>8, <1>9, <1>10, <1>11 DEF Base

\* The engine's capabilities are known: what waited for them is posted again.
EngineUp(m, reqs) ==
    /\ msgQ # <<>> /\ m = Head(msgQ) /\ msgQ' = Tail(msgQ) \o pending /\ m.what = "engineUp"
    /\ pending' = <<>> /\ known' = TRUE
    /\ reqs \in Seq(Asks) /\ apiQ' = apiQ \o reqs
    /\ \A r \in ToSet(reqs) : r.then = Silent /\ (r.op \in {"startDist", "stopDist"} => DOMAIN dist # {})
    /\ UNCHANGED <<client, time, dist, engine, bounds, env>>

\* An answer nobody is told of is about no session,
LEMMA SilentRep == \A s : Silent \notin Rep(s)
  BY SilentIs DEF Rep, Tellers

\* ... and always allowed.
LEMMA SilentValid == ASSUME TypeOK PROVE ValidItem(Silent) /\ OwnedItem(Silent) /\ Silent \in Messages
<1>1. 0 <= bounds.ids
  BY DEF TypeOK
<1> QED BY <1>1, SilentIs DEF ValidItem, OwnedItem, DistKinds, Tellers

\* Nor is anything lost when what waited is posted again.
LEMMA EngineUpKeeps ==
  ASSUME Base, NEW m, NEW reqs, EngineUp(m, reqs)
  PROVE  Base'
<1>1. TypeOK /\ Valid /\ Waiting /\ Owned /\ Tallied
  BY DEF Base
<1>2. /\ msgQ \in Seq(Posts) /\ msgQ # <<>> /\ apiQ \in Seq(Asks) /\ pending \in Seq(Defers) /\ reqs \in Seq(Asks)
      /\ m = Head(msgQ) /\ msgQ' = Tail(msgQ) \o pending /\ apiQ' = apiQ \o reqs /\ pending' = <<>>
  BY <1>1 DEF TypeOK, EngineUp
<1>3. /\ client' = client /\ time' = time /\ dist' = dist /\ known' = TRUE /\ engine' = engine
      /\ bounds' = bounds /\ env' = env
  BY DEF EngineUp
<1>4. Tail(msgQ) \in Seq(Posts) /\ ToSet(Tail(msgQ)) \subseteq ToSet(msgQ)
  BY <1>2, ElemsTail
<1>5. pending \in Seq(Posts)
  <2>1. Defers \subseteq Posts
    BY DEF Defers
  <2> QED BY <1>2, <2>1
<1>6. msgQ' \in Seq(Posts) /\ ToSet(msgQ') = ToSet(Tail(msgQ)) \cup ToSet(pending)
  <2>1. /\ Tail(msgQ) \o pending \in Seq(Posts)
        /\ ToSet(Tail(msgQ) \o pending) = ToSet(Tail(msgQ)) \cup ToSet(pending)
    BY <1>4, <1>5, ElemsCat
  <2> QED BY <1>2, <2>1
<1>7. apiQ' \in Seq(Asks) /\ ToSet(apiQ') = ToSet(apiQ) \cup ToSet(reqs)
  BY <1>2, ElemsCat
<1>8. ToSet(pending') = {} /\ pending' \in Seq(Defers)
  BY <1>2 DEF ToSet
<1>9. \A r \in ToSet(reqs) : r.then = Silent /\ (r.op \in {"startDist", "stopDist"} => DOMAIN dist # {})
  BY DEF EngineUp
<1>10. Items' \subseteq Items \cup {Silent}
  BY <1>4, <1>6, <1>7, <1>8, <1>9 DEF Items, Thens
<1>11. ValidItem(Silent) /\ OwnedItem(Silent)
  BY <1>1, SilentValid
<1>12. TypeOK'
  BY <1>1, <1>3, <1>6, <1>7, <1>8 DEF TypeOK
<1>13. Valid'
  <2>1. \A n : ValidItem(n) => ValidItem(n)'
    BY <1>3 DEF ValidItem
  <2>2. \A n \in Items' : ValidItem(n)'
    BY <1>1, <1>10, <1>11, <2>1 DEF Valid
  <2>3. \A r \in ToSet(apiQ') : r.op \in {"startDist", "stopDist"} => "distance" \in env' /\ known'
    BY <1>1, <1>3, <1>7, <1>9 DEF Valid
  <2> QED BY <1>1, <1>3, <2>2, <2>3 DEF Valid
<1>14. Waiting'
  BY <1>2, <1>3 DEF Waiting
<1>15. Owned'
  BY <1>1, <1>3, <1>10, <1>11 DEF Owned, OwnedItem, OwnedIn, OwnedClient
<1>16. Tallied'
  <2>1. ASSUME NEW s PROVE Due(s)' = Due(s)
    <3>1. Count(msgQ, Rep(s)) = Count(Tail(msgQ), Rep(s)) + One(m, Rep(s))
      BY <1>2, CountTail
    <3>2. One(m, Rep(s)) = 0
      BY DEF One, Rep, Tellers, EngineUp
    <3>3. Count(msgQ', Rep(s)) = Count(Tail(msgQ), Rep(s)) + Count(pending, Rep(s))
      BY <1>2, <1>4, <1>5, CountCat
    <3>4. Count(pending', Rep(s)) = 0
      BY <1>8, CountNat
    <3>5. Count(apiQ', RepAsks(s)) = Count(apiQ, RepAsks(s)) + Count(reqs, RepAsks(s))
      BY <1>2, CountCat
    <3>6. Count(reqs, RepAsks(s)) = 0
      <4>1. ToSet(reqs) \cap RepAsks(s) = {}
        BY <1>9, SilentRep DEF RepAsks
      <4> QED BY <1>2, <4>1, CountNat
    <3>7. /\ Count(msgQ, Rep(s)) \in Nat /\ Count(Tail(msgQ), Rep(s)) \in Nat /\ Count(pending, Rep(s)) \in Nat
          /\ Count(apiQ, RepAsks(s)) \in Nat
      BY <1>2, <1>4, CountNat
    <3>8. Due(s)' = Count(msgQ', Rep(s)) + Count(pending', Rep(s)) + Count(apiQ', RepAsks(s))
      BY DEF Due
    <3>9. Due(s) = Count(msgQ, Rep(s)) + Count(pending, Rep(s)) + Count(apiQ, RepAsks(s))
      BY DEF Due
    <3> QED BY <3>1, <3>2, <3>3, <3>4, <3>5, <3>6, <3>7, <3>8, <3>9
  <2>2. ASSUME NEW c \in Clients, client[c].session # 0
        PROVE  Due(client[c].session)' + client[c].dropped = Len(client[c].queue) /\ ("patient" \in env => Len(client[c].queue) <= 1)
    BY <1>1, <1>3, <2>1, <2>2 DEF Tallied
  <2> QED BY <1>3, <2>2 DEF Tallied
<1> QED BY <1>12, <1>13, <1>14, <1>15, <1>16 DEF Base

----
(* The engine *)

\* The answer to a request is the message it was sent with, refused or not.
LEMMA AnswerOf ==
  ASSUME NEW n \in Messages, n.what \in Answers, NEW e \in BOOLEAN
  PROVE  LET a == [n EXCEPT !.err = e] IN
         /\ a \in Posts /\ a.what = n.what /\ a.client = n.client /\ a.id = n.id /\ a.opts = n.opts /\ a.err = e
<1> DEFINE a == [n EXCEPT !.err = e]
<1>1. /\ a.what = n.what /\ a.client = n.client /\ a.id = n.id /\ a.opts = n.opts /\ a.err = e
      /\ a \in [what : Kinds, client : Clients \cup {NoClient}, id : Nat, opts : Opts, err : BOOLEAN]
  BY DEF Messages
<1>2. n.what # "silent"
  BY DEF Answers
<1> HIDE DEF a
<1>3. a \in Messages
  BY <1>1, <1>2 DEF Messages
<1>4. a \in Posts
  BY <1>1, <1>2, <1>3 DEF Posts
<1> QED BY <1>1, <1>4 DEF a

\* The engine's answer takes the place of the request it answers.
LEMMA EngineAnswersKeeps ==
  ASSUME Base, NEW refused \in BOOLEAN, EngineAnswers(refused)
  PROVE  Base'
<1> DEFINE r == Head(apiQ)
           a == [r.then EXCEPT !.err = refused]
<1>1. TypeOK /\ Valid /\ Waiting /\ Owned /\ Tallied
  BY DEF Base
<1>2. msgQ \in Seq(Posts) /\ apiQ \in Seq(Asks) /\ pending \in Seq(Defers) /\ apiQ # <<>> /\ apiQ' = Tail(apiQ)
  BY <1>1 DEF TypeOK, EngineAnswers
<1>3. /\ client' = client /\ time' = time /\ dist' = dist /\ known' = known /\ pending' = pending
      /\ bounds' = bounds /\ env' = env
  BY DEF EngineAnswers, adapter
<1>4. /\ apiQ' \in Seq(Asks) /\ r \in Asks /\ r \in ToSet(apiQ) /\ ToSet(apiQ) = ToSet(apiQ') \cup {r}
  BY <1>2, ElemsTail
<1>5. /\ engine' = (IF refused THEN engine ELSE Done(r))
      /\ msgQ' = (IF r.then = Silent THEN msgQ ELSE Append(msgQ, a))
      /\ r # Ssr /\ (refused => "refusal" \in env)
  BY DEF EngineAnswers
<1> HIDE DEF r
<1>6. r.op \in {"start", "stop", "startDist", "stopDist"} /\ r.id \in Nat /\ r.opts \in Opts /\ r.then \in Messages
  BY <1>4, <1>5 DEF Asks
<1>7. r.then = Silent \/ r.then.what \in Answers
  BY <1>4 DEF Asks, Messages
<1>8. engine' \in [fix : [interval : Nat, power : Nat], dist : SUBSET Nat]
  <2>1. engine \in [fix : [interval : Nat, power : Nat], dist : SUBSET Nat]
    BY <1>1 DEF TypeOK
  <2>2. r.opts.interval \in Nat /\ r.opts.power \in Nat
    BY <1>6 DEF Opts
  <2>3. NoFix \in [interval : Nat, power : Nat]
    BY DEF NoFix
  <2>4. CASE r.op = "start"
    BY <1>5, <2>1, <2>2, <2>4 DEF Done
  <2>5. CASE r.op = "stop"
    BY <1>5, <2>1, <2>3, <2>5 DEF Done
  <2>6. CASE r.op = "startDist"
    BY <1>5, <1>6, <2>1, <2>6 DEF Done
  <2>7. CASE r.op = "stopDist"
    BY <1>5, <1>6, <2>1, <2>7 DEF Done
  <2> QED BY <1>6, <2>4, <2>5, <2>6, <2>7
<1>9. \A s : Count(apiQ, RepAsks(s)) = Count(apiQ', RepAsks(s)) + One(r, RepAsks(s))
  BY <1>2, CountTail DEF r
<1>10. \A s : /\ Count(msgQ, Rep(s)) \in Nat /\ Count(pending, Rep(s)) \in Nat /\ Count(apiQ', RepAsks(s)) \in Nat
              /\ Count(apiQ, RepAsks(s)) \in Nat
  BY <1>2, <1>4, CountNat
<1>11. ASSUME \A s : Count(msgQ', Rep(s)) = Count(msgQ, Rep(s)) + One(r, RepAsks(s))
       PROVE  Tallied'
  <2>1. ASSUME NEW s PROVE Due(s)' = Due(s)
    <3>1. Due(s)' = Count(msgQ', Rep(s)) + Count(pending, Rep(s)) + Count(apiQ', RepAsks(s))
      BY <1>3 DEF Due
    <3>2. Due(s) = Count(msgQ, Rep(s)) + Count(pending, Rep(s)) + Count(apiQ, RepAsks(s))
      BY DEF Due
    <3>3. One(r, RepAsks(s)) \in {0, 1}
      BY DEF One
    <3> QED BY <1>9, <1>10, <1>11, <3>1, <3>2, <3>3
  <2>2. ASSUME NEW c \in Clients, client[c].session # 0
        PROVE  Due(client[c].session)' + client[c].dropped = Len(client[c].queue) /\ ("patient" \in env => Len(client[c].queue) <= 1)
    BY <1>1, <1>3, <2>1, <2>2 DEF Tallied
  <2> QED BY <1>3, <2>2 DEF Tallied
<1>12. CASE r.then = Silent
  <2>1. msgQ' = msgQ
    BY <1>5, <1>12
  <2>2. Items' \subseteq Items
    BY <1>3, <1>4, <2>1 DEF Items, Thens
  <2>3. TypeOK'
    BY <1>1, <1>3, <1>4, <1>8, <2>1 DEF TypeOK
  <2>4. Valid'
    BY <1>1, <1>3, <1>4, <2>2 DEF Valid, ValidItem
  <2>5. Waiting'
    <3>1. r.op # "ssr"
      BY <1>6
    <3> QED BY <1>1, <1>3, <1>4, <2>1, <3>1 DEF Waiting
  <2>6. Owned'
    BY <1>1, <1>3, <2>2 DEF Owned, OwnedItem, OwnedIn, OwnedClient
  <2>7. Tallied'
    <3>1. \A s : One(r, RepAsks(s)) = 0
      BY <1>12, SilentRep DEF One, RepAsks
    <3>2. \A s : Count(msgQ', Rep(s)) = Count(msgQ, Rep(s)) + One(r, RepAsks(s))
      BY <1>10, <2>1, <3>1
    <3> QED BY <1>11, <3>2
  <2> QED BY <2>3, <2>4, <2>5, <2>6, <2>7 DEF Base
<1>13. CASE r.then # Silent
  <2>1. msgQ' = Append(msgQ, a)
    BY <1>5, <1>13
  <2>2. /\ a \in Posts /\ a.what = r.then.what /\ a.client = r.then.client /\ a.id = r.then.id
        /\ a.opts = r.then.opts /\ a.err = refused /\ r.then.what \in Answers
    BY <1>6, <1>7, <1>13, AnswerOf
  <2> HIDE DEF a
  <2>3. msgQ' \in Seq(Posts) /\ ToSet(msgQ') = ToSet(msgQ) \cup {a}
    BY <1>2, <2>1, <2>2, ElemsAppend
  <2>4. Items' \subseteq Items \cup {a} /\ r.then \in Items
    BY <1>3, <1>4, <2>3 DEF Items, Thens
  <2>5. TypeOK'
    BY <1>1, <1>3, <1>4, <1>8, <2>3 DEF TypeOK
  <2>6. ValidItem(a)
    BY <1>1, <1>5, <2>2, <2>4 DEF Valid, ValidItem
  <2>7. OwnedItem(a)
    BY <1>1, <2>2, <2>4 DEF Owned, OwnedItem
  <2>8. Valid'
    BY <1>1, <1>3, <1>4, <2>4, <2>6 DEF Valid, ValidItem
  <2>9. Waiting'
    <3>1. r.op # "ssr"
      BY <1>6
    <3> QED BY <1>1, <1>3, <1>4, <2>3, <3>1 DEF Waiting
  <2>10. Owned'
    BY <1>1, <1>3, <2>4, <2>7 DEF Owned, OwnedItem, OwnedIn, OwnedClient
  <2>11. Tallied'
    <3>1. \A s : One(a, Rep(s)) = One(r, RepAsks(s))
      BY <1>4, <1>6, <2>2 DEF One, Rep, RepAsks, Posts
    <3>2. \A s : Count(msgQ', Rep(s)) = Count(msgQ, Rep(s)) + One(a, Rep(s))
      BY <1>2, <2>1, <2>2, CountAppend
    <3>3. \A s : Count(msgQ', Rep(s)) = Count(msgQ, Rep(s)) + One(r, RepAsks(s))
      BY <3>1, <3>2
    <3> QED BY <1>11, <3>3
  <2> QED BY <2>5, <2>8, <2>9, <2>10, <2>11 DEF Base
<1> QED BY <1>12, <1>13

\* The request to open the engine again.
LEMMA SsrIs == Ssr \in Asks /\ Ssr.op = "ssr" /\ Ssr.then = Silent /\ \A s : Ssr \notin RepAsks(s)
<1>1. Ssr \in Asks /\ Ssr.op = "ssr" /\ Ssr.then = Silent
  BY SilentIs, NoOptsIs DEF Ssr, Request, Asks
<1> QED BY <1>1, SilentRep DEF RepAsks

\* The engine's restart changes nothing the clients wait for,
LEMMA EngineRestartsKeeps ==
  ASSUME Base, EngineRestarts
  PROVE  Base'
<1>1. TypeOK /\ Valid /\ Waiting /\ Owned /\ Tallied
  BY DEF Base
<1>2. msgQ \in Seq(Posts) /\ apiQ \in Seq(Asks) /\ pending \in Seq(Defers) /\ apiQ' = Append(apiQ, Ssr)
  BY <1>1 DEF TypeOK, EngineRestarts
<1>3. /\ client' = client /\ time' = time /\ dist' = dist /\ known' = known /\ pending' = pending
      /\ env' = env /\ msgQ' = msgQ /\ engine' = Off
  BY DEF EngineRestarts, adapter
<1>4. apiQ' \in Seq(Asks) /\ ToSet(apiQ') = ToSet(apiQ) \cup {Ssr}
  BY <1>2, SsrIs, ElemsAppend
<1>5. Items' \subseteq Items \cup {Silent}
  BY <1>3, <1>4, SsrIs DEF Items, Thens
<1>6. bounds' \in [ids : Nat, calls : Nat, restarts : Nat] /\ bounds'.ids = bounds.ids
  <2>1. bounds \in [ids : Nat, calls : Nat, restarts : Nat]
    BY <1>1 DEF TypeOK
  <2>2. bounds' = [bounds EXCEPT !.restarts = bounds.restarts + 1] /\ bounds.restarts + 1 \in Nat
    BY <2>1 DEF EngineRestarts
  <2> QED BY <2>1, <2>2
<1>7. Off \in [fix : [interval : Nat, power : Nat], dist : SUBSET Nat]
  BY DEF Off, NoFix
<1>8. TypeOK'
  BY <1>1, <1>3, <1>4, <1>6, <1>7 DEF TypeOK
<1>9. ValidItem(Silent) /\ OwnedItem(Silent)
  BY <1>1, SilentValid
<1>10. Valid'
  BY <1>1, <1>3, <1>4, <1>5, <1>9, SsrIs DEF Valid, ValidItem
<1>11. Waiting'
  BY <1>1, <1>3, <1>4 DEF Waiting
<1>12. Owned'
  BY <1>1, <1>3, <1>5, <1>6, <1>9 DEF Owned, OwnedItem, OwnedIn, OwnedClient
<1>13. Tallied'
  <2>1. ASSUME NEW s PROVE Due(s)' = Due(s)
    <3>1. Count(apiQ', RepAsks(s)) = Count(apiQ, RepAsks(s)) + One(Ssr, RepAsks(s))
      BY <1>2, SsrIs, CountAppend
    <3>2. One(Ssr, RepAsks(s)) = 0 /\ Count(apiQ, RepAsks(s)) \in Nat
      BY <1>2, SsrIs, CountNat DEF One
    <3>3. Count(apiQ', RepAsks(s)) = Count(apiQ, RepAsks(s))
      BY <3>1, <3>2
    <3> QED BY <1>3, <3>3 DEF Due
  <2>2. ASSUME NEW c \in Clients, client[c].session # 0
        PROVE  Due(client[c].session)' + client[c].dropped = Len(client[c].queue) /\ ("patient" \in env => Len(client[c].queue) <= 1)
    BY <1>1, <1>3, <2>1, <2>2 DEF Tallied
  <2> QED BY <1>3, <2>2 DEF Tallied
<1> QED BY <1>8, <1>10, <1>11, <1>12, <1>13 DEF Base

\* ... nor does its opening,
LEMMA EngineOpenedKeeps ==
  ASSUME Base, EngineOpened(TRUE)
  PROVE  Base'
<1> DEFINE m == Msg("engineUp", NoClient, 0, NoOptions)
<1>1. TypeOK /\ Valid /\ Waiting /\ Owned /\ Tallied
  BY DEF Base
<1>2. /\ msgQ \in Seq(Posts) /\ apiQ \in Seq(Asks) /\ pending \in Seq(Defers) /\ apiQ # <<>> /\ Head(apiQ) = Ssr
      /\ apiQ' = Tail(apiQ) /\ msgQ' = Append(msgQ, m)
  BY <1>1 DEF TypeOK, EngineOpened, Post
<1>3. /\ client' = client /\ time' = time /\ dist' = dist /\ known' = known /\ pending' = pending
      /\ env' = env /\ bounds' = bounds /\ engine' = engine
  BY DEF EngineOpened, adapter
<1>4. /\ m.what = "engineUp" /\ m.id = 0 /\ m.opts = NoOptions /\ m.err = FALSE /\ m \in Messages
  BY NoOptsIs DEF Msg, Messages, Kinds, Calls, Answers, Tellers
<1> HIDE DEF m
<1>5. m \in Posts /\ \A s : m \notin Rep(s)
  BY <1>4 DEF Posts, Rep, Tellers
<1>6. msgQ' \in Seq(Posts) /\ ToSet(msgQ') = ToSet(msgQ) \cup {m}
  BY <1>2, <1>5, ElemsAppend
<1>7. apiQ' \in Seq(Asks) /\ ToSet(apiQ') \subseteq ToSet(apiQ)
  BY <1>2, ElemsTail
<1>8. Items' \subseteq Items \cup {m}
  BY <1>3, <1>6, <1>7 DEF Items, Thens
<1>9. TypeOK'
  BY <1>1, <1>3, <1>6, <1>7 DEF TypeOK
<1>10. ValidItem(m)
  BY <1>4, NoOptsIs DEF ValidItem, DistKinds
<1>11. OwnedItem(m)
  <2>1. 0 <= bounds.ids
    BY <1>1 DEF TypeOK
  <2> QED BY <1>4, <2>1 DEF OwnedItem, Tellers
<1>12. Valid'
  BY <1>1, <1>3, <1>7, <1>8, <1>10 DEF Valid, ValidItem
<1>13. Waiting'
  BY <1>1, <1>3, <1>4, <1>6 DEF Waiting
<1>14. Owned'
  BY <1>1, <1>3, <1>8, <1>11 DEF Owned, OwnedItem, OwnedIn, OwnedClient
<1>15. Tallied'
  <2>1. ASSUME NEW s PROVE Due(s)' = Due(s)
    <3>1. Count(apiQ, RepAsks(s)) = Count(apiQ', RepAsks(s)) + One(Ssr, RepAsks(s))
      BY <1>2, CountTail
    <3>2. One(Ssr, RepAsks(s)) = 0 /\ Count(apiQ', RepAsks(s)) \in Nat
      BY <1>7, SsrIs, CountNat DEF One
    <3>3. Count(msgQ', Rep(s)) = Count(msgQ, Rep(s)) + One(m, Rep(s))
      BY <1>2, <1>5, CountAppend
    <3>4. One(m, Rep(s)) = 0 /\ Count(msgQ, Rep(s)) \in Nat
      BY <1>2, <1>5, CountNat DEF One
    <3>5. Count(apiQ', RepAsks(s)) = Count(apiQ, RepAsks(s)) /\ Count(msgQ', Rep(s)) = Count(msgQ, Rep(s))
      BY <3>1, <3>2, <3>3, <3>4
    <3> QED BY <1>3, <3>5 DEF Due
  <2>2. ASSUME NEW c \in Clients, client[c].session # 0
        PROVE  Due(client[c].session)' + client[c].dropped = Len(client[c].queue) /\ ("patient" \in env => Len(client[c].queue) <= 1)
    BY <1>1, <1>3, <2>1, <2>2 DEF Tallied
  <2> QED BY <1>3, <2>2 DEF Tallied
<1> QED BY <1>9, <1>12, <1>13, <1>14, <1>15 DEF Base

\* ... or a refusal to open.
LEMMA EngineNotOpenedKeeps ==
  ASSUME Base, EngineOpened(FALSE)
  PROVE  Base'
<1>1. TypeOK /\ Valid /\ Waiting /\ Owned /\ Tallied
  BY DEF Base
<1>2. /\ apiQ \in Seq(Asks) /\ apiQ # <<>> /\ Head(apiQ) = Ssr /\ apiQ' = Tail(apiQ) /\ "refusal" \in env
      /\ client' = client /\ time' = time /\ dist' = dist /\ known' = known /\ pending' = pending
      /\ env' = env /\ bounds' = bounds /\ engine' = engine /\ msgQ' = msgQ
  BY <1>1 DEF TypeOK, EngineOpened, adapter
<1>3. apiQ' \in Seq(Asks) /\ ToSet(apiQ') \subseteq ToSet(apiQ)
  BY <1>2, ElemsTail
<1>4. Items' \subseteq Items
  BY <1>2, <1>3 DEF Items, Thens
<1>5. TypeOK' /\ Waiting'
  BY <1>1, <1>2, <1>3 DEF TypeOK, Waiting
<1>6. Valid'
  BY <1>1, <1>2, <1>3, <1>4 DEF Valid, ValidItem
<1>7. Owned'
  BY <1>1, <1>2, <1>4 DEF Owned, OwnedItem, OwnedIn, OwnedClient
<1>8. Tallied'
  <2>1. ASSUME NEW s PROVE Due(s)' = Due(s)
    <3>1. Count(apiQ, RepAsks(s)) = Count(apiQ', RepAsks(s)) + One(Ssr, RepAsks(s))
      BY <1>2, CountTail
    <3>2. One(Ssr, RepAsks(s)) = 0 /\ Count(apiQ', RepAsks(s)) \in Nat
      BY <1>3, SsrIs, CountNat DEF One
    <3>3. Count(apiQ', RepAsks(s)) = Count(apiQ, RepAsks(s))
      BY <3>1, <3>2
    <3> QED BY <1>2, <3>3 DEF Due
  <2> QED BY <1>1, <1>2, <2>1 DEF Tallied
<1> QED BY <1>5, <1>6, <1>7, <1>8 DEF Base

----
(* What the handling of a message comes to *)

Took(m) ==
    /\ msgQ # <<>> /\ m = Head(msgQ) /\ m \in Posts /\ msgQ' = Tail(msgQ)
    /\ UNCHANGED <<known, pending, engine, bounds, env>>
Told(m) == Report(m.client, m.id) /\ apiQ' = apiQ
Asked(r) == apiQ' = apiQ \o <<r>> /\ client' = client
Remixed(m) ==
    \E reqs : /\ Mixed(reqs, m.client, m.id, time, time')
              /\ apiQ' = apiQ \o reqs /\ ReportNow(reqs, m.client, m.id)

\* A time-based session starts or changes, stops, or becomes distance-based.
JoinTime(m) ==
    /\ Took(m) /\ m.what \in {"start", "update", "toTime"} /\ m.opts \in TimeOpts
    /\ m.what = "update" => m.id \in DOMAIN time
    /\ time' = Save(time, m.id, Session(m.client, m.opts)) /\ dist' = dist /\ Remixed(m)
LeaveTime(m) ==
    /\ Took(m) /\ m.what = "stop" /\ m.id \in DOMAIN time
    /\ time' = Erase(time, {m.id}) /\ dist' = dist /\ Remixed(m)
ToDist(m) ==
    /\ Took(m) /\ m.what = "update" /\ m.opts \in DistOpts /\ known /\ m.id \in DOMAIN time
    /\ time' = Erase(time, {m.id}) /\ dist' = Save(dist, m.id, Session(m.client, m.opts))
    /\ \E reqs : /\ Mixed(reqs, m.client, m.id, time, time')
                 /\ apiQ' = apiQ \o (reqs \o StartDistance(m.id, m.opts, Silent)) /\ ReportNow(reqs, m.client, m.id)

\* A distance-based session starts, or is stopped to end, to become time-based or
\* to start again.
JoinDist(m) ==
    /\ Took(m) /\ m.what = "start" /\ m.opts \in DistOpts /\ known
    /\ time' = time /\ dist' = Save(dist, m.id, Session(m.client, m.opts))
    /\ Asked(Request("startDist", m.id, m.opts, Msg("distStarted", m.client, m.id, m.opts)))
AskToTime(m) ==
    /\ Took(m) /\ m.what = "update" /\ m.opts \in TimeOpts /\ m.id \in DOMAIN dist /\ m.id \notin DOMAIN time
    /\ time' = time /\ dist' = Erase(dist, {m.id})
    /\ Asked(Request("stopDist", m.id, NoOptions, Msg("toTime", m.client, m.id, m.opts)))
AskRedo(m) ==
    /\ Took(m) /\ m.what = "update" /\ m.opts \in DistOpts /\ known /\ m.id \in DOMAIN dist /\ m.id \notin DOMAIN time
    /\ time' = time /\ dist' = dist
    /\ Asked(Request("stopDist", m.id, NoOptions, Msg("redo", m.client, m.id, m.opts)))
AskStop(m) ==
    /\ Took(m) /\ m.what = "stop" /\ m.id \in DOMAIN dist /\ m.id \notin DOMAIN time
    /\ time' = time /\ dist' = dist
    /\ Asked(Request("stopDist", m.id, NoOptions, Msg("distStopped", m.client, m.id, NoOptions)))
AskAgain(m) ==
    /\ Took(m) /\ m.what = "redo" /\ ~m.err
    /\ time' = time /\ dist' = dist
    /\ Asked(Request("startDist", m.id, m.opts, Msg("redone", m.client, m.id, m.opts)))

\* There is no session to update or to stop, or the update is rejected.
NoSession(m) ==
    /\ Took(m)
    /\ \/ m.what \in {"update", "stop"} /\ m.id \notin DOMAIN time /\ m.id \notin DOMAIN dist
       \/ m.what = "update" /\ Rejected(m.opts)
    /\ time' = time /\ dist' = dist /\ Told(m)

\* The answers.
Settled(m) ==
    /\ Took(m) /\ m.what \in {"started", "distStarted", "updated", "stopped", "distStopped", "redone"}
    /\ m.what \in {"started", "distStarted", "updated"} => ~m.err
    /\ m.what \in {"distStopped", "redone"} => m.err
    /\ time' = time /\ dist' = dist /\ Told(m)
Failed(m) == Took(m) /\ m.what \in {"started", "distStarted"} /\ m.err /\ EraseSession(m.id) /\ Told(m)
Reverted(m) ==
    /\ Took(m) /\ m.what = "updated" /\ m.err
    /\ time' = Save(time, m.id, Session(m.client, m.opts)) /\ dist' = dist /\ Told(m)
Ended(m) == Took(m) /\ m.what = "distStopped" /\ ~m.err /\ EraseSession(m.id) /\ Told(m)
Redone(m) ==
    /\ Took(m) /\ m.what = "redone" /\ ~m.err
    /\ time' = time /\ dist' = Save(dist, m.id, Session(m.client, m.opts)) /\ Told(m)
Removed(m) ==
    /\ Took(m) /\ m.what = "removed" /\ client' = client /\ apiQ' = apiQ
    /\ IF m.err THEN time' = time /\ dist' = dist ELSE EraseSession(m.id)

\* The calls that get none.
Forgotten(m) ==
    /\ Took(m) /\ ((m.what = "start" /\ Rejected(m.opts)) \/ (m.what = "redo" /\ m.err))
    /\ time' = time /\ dist' = dist /\ apiQ' = apiQ /\ Drop(m.client, m.id)

\* The rest.
RemoveAll(m) == Took(m) /\ m.what = "remove" /\ HandleRemove(m)
Configured(m) ==
    /\ Took(m) /\ m.what = "config" /\ known /\ UNCHANGED <<client, time, dist>>
    /\ apiQ' = apiQ \o (SuspendSessions \o RestartSessions)

Outcome(m) ==
    \/ JoinTime(m) \/ LeaveTime(m) \/ ToDist(m)
    \/ JoinDist(m) \/ AskToTime(m) \/ AskRedo(m) \/ AskStop(m) \/ AskAgain(m)
    \/ NoSession(m) \/ Settled(m) \/ Failed(m) \/ Reverted(m) \/ Ended(m) \/ Redone(m) \/ Removed(m) \/ Forgotten(m)
    \/ RemoveAll(m) \/ Configured(m)

LEMMA OutcomeTook == ASSUME NEW m, Outcome(m) PROVE Took(m)
  BY DEF Outcome, JoinTime, LeaveTime, ToDist, JoinDist, AskToTime, AskRedo, AskStop, AskAgain, NoSession, Settled,
         Failed, Reverted, Ended, Redone, Removed, Forgotten, RemoveAll, Configured, Remixed

\* No request more.
LEMMA SequencesAsk ==
  ASSUME NEW q \in Seq(Asks)
  PROVE  q \o <<>> = q
  OBVIOUS

\* What the start of a session comes to (MsgStartTracking).
LEMMA StartOutcome ==
  ASSUME TypeOK, NEW m, Took(m), m.what = "start", ~Late(m), HandleStart(m)
  PROVE  JoinTime(m) \/ JoinDist(m) \/ Forgotten(m)
<1>1. m \in Posts /\ m.client \in Clients /\ m.id \in Ids /\ m.opts \in Opts
  BY DEF Took, Posts, Messages, Tellers, Ids
<1>5. "basic" \notin env /\ ByDistance(m.opts) = m.opts.distance
  BY <1>1 DEF TypeOK, ByDistance, Opts
<1>6. ~Rejected(m.opts) <=> m.opts.interval > 0
  BY <1>1 DEF Rejected, Opts
<1>7. CASE Rejected(m.opts)
  BY <1>7 DEF HandleStart, Forgotten, adapter
<1>2. IsTable(time, TimeOpts)
  BY DEF TypeOK
<1>3. CASE m.opts.distance /\ ~Rejected(m.opts)
  <2> DEFINE r == Request("startDist", m.id, m.opts, Msg("distStarted", m.client, m.id, m.opts))
  <2>1. known
    BY <1>3 DEF Late
  <2>2. time' = time /\ dist' = Save(dist, m.id, Session(m.client, m.opts))
    BY <1>3, <1>5 DEF HandleStart, SaveSession
  <2>3. StartDistance(m.id, m.opts, Msg("distStarted", m.client, m.id, m.opts)) = <<r>>
    BY DEF StartDistance
  <2>4. Ask(<<r>>) /\ ReportNow(<<r>>, m.client, m.id)
    BY <1>3, <1>5, <2>3 DEF HandleStart
  <2> HIDE DEF r
  <2>5. <<r>> # <<>> OBVIOUS
  <2>6. Asked(r)
    BY <2>4, <2>5 DEF Asked, Ask, ReportNow
  <2>7. m.opts \in DistOpts
    BY <1>1, <1>3, <1>6 DEF DistOpts
  <2> QED BY <2>1, <2>2, <2>6, <2>7 DEF JoinDist, r
<1>4. CASE ~m.opts.distance /\ ~Rejected(m.opts)
  <2> DEFINE reqs == StartMultiplex(time, m.client, m.id, m.opts)
  <2>1. time' = Save(time, m.id, Session(m.client, m.opts)) /\ dist' = dist
    BY <1>4, <1>5 DEF HandleStart, SaveSession
  <2>2. Ask(reqs) /\ ReportNow(reqs, m.client, m.id)
    BY <1>4, <1>5 DEF HandleStart
  <2>3. m.opts \in TimeOpts
    BY <1>1, <1>4, <1>6 DEF TimeOpts
  <2>4. Mixed(reqs, m.client, m.id, time, time')
    BY <1>1, <1>2, <2>1, <2>3, StartMultiplexOf
  <2> HIDE DEF reqs
  <2>5. Remixed(m)
    BY <2>2, <2>4 DEF Remixed, Ask
  <2> QED BY <2>1, <2>3, <2>5 DEF JoinTime
<1> QED BY <1>3, <1>4, <1>7

\* What becoming time-based comes to, once the engine has stopped the distance.
LEMMA ToTimeOutcome ==
  ASSUME TypeOK, NEW m, Took(m), m.what = "toTime", AnswerToTime(m)
  PROVE  JoinTime(m)
<1>1. m \in Posts /\ m.client \in Clients /\ m.id \in Ids /\ m.opts \in TimeOpts /\ ~m.opts.distance
  BY DEF Took, Posts, Messages, Tellers, Ids, TimeOpts
<1>2. IsTable(time, TimeOpts)
  BY DEF TypeOK
<1> DEFINE reqs == StartMultiplex(time, m.client, m.id, m.opts)
<1>3. time' = Save(time, m.id, Session(m.client, m.opts)) /\ dist' = dist
  BY <1>1 DEF AnswerToTime, SaveSession, ByDistance
<1>4. Ask(reqs) /\ ReportNow(reqs, m.client, m.id)
  BY DEF AnswerToTime
<1>5. Mixed(reqs, m.client, m.id, time, time')
  BY <1>1, <1>2, <1>3, StartMultiplexOf
<1> HIDE DEF reqs
<1>6. Remixed(m)
  BY <1>4, <1>5 DEF Remixed, Ask
<1> QED BY <1>1, <1>3, <1>6 DEF JoinTime

\* What an update comes to, in the cases of MsgUpdateTracking.
LEMMA UpdateOutcome ==
  ASSUME TypeOK, NEW m, Took(m), m.what = "update", ~Late(m), HandleUpdate(m)
  PROVE  JoinTime(m) \/ ToDist(m) \/ AskToTime(m) \/ AskRedo(m) \/ NoSession(m)
<1>1. m \in Posts /\ m.client \in Clients /\ m.id \in Ids /\ m.opts \in Opts
  BY DEF Took, Posts, Messages, Tellers, Ids
<1>2. IsTable(time, TimeOpts) /\ IsTable(dist, DistOpts)
  BY DEF TypeOK
<1>8. ByDistance(m.opts) = m.opts.distance
  BY <1>1 DEF TypeOK, ByDistance, Opts
<1>9. ~Rejected(m.opts) => m.opts \in (IF m.opts.distance THEN DistOpts ELSE TimeOpts)
  BY <1>1 DEF Rejected, Opts, TimeOpts, DistOpts
<1>3. CASE (m.id \notin DOMAIN time /\ m.id \notin DOMAIN dist) \/ Rejected(m.opts)
  <2>1. Report(m.client, m.id) /\ UNCHANGED <<time, dist, apiQ>>
    BY <1>3 DEF HandleUpdate
  <2> QED BY <1>3, <2>1 DEF NoSession, Told
<1>4. CASE m.id \in DOMAIN time /\ m.opts.distance /\ ~Rejected(m.opts)
  <2> DEFINE reqs == StopMultiplex(time, m.client, m.id)
  <2>1. /\ time' = Erase(time, {m.id}) /\ dist' = Save(dist, m.id, Session(m.client, m.opts))
        /\ Ask(reqs \o StartDistance(m.id, m.opts, Silent)) /\ ReportNow(reqs, m.client, m.id)
    BY <1>4, <1>8 DEF HandleUpdate
  <2>2. Mixed(reqs, m.client, m.id, time, time')
    BY <1>1, <1>2, <1>4, <2>1, StopMultiplexOf
  <2>3. known
    BY <1>4 DEF Late
  <2> HIDE DEF reqs
  <2> QED BY <1>4, <1>9, <2>1, <2>2, <2>3 DEF ToDist, Ask
<1>5. CASE m.id \in DOMAIN time /\ ~m.opts.distance /\ ~Rejected(m.opts)
  <2> DEFINE reqs == UpdateMultiplex(time, m.client, m.id, m.opts)
  <2>1. SaveSession(m.client, m.id, m.opts) /\ Ask(reqs) /\ ReportNow(reqs, m.client, m.id)
    BY <1>5 DEF HandleUpdate
  <2>2. time' = Save(time, m.id, Session(m.client, m.opts)) /\ dist' = dist
    BY <1>5, <1>8, <2>1 DEF SaveSession
  <2>3. m.opts \in TimeOpts
    BY <1>5, <1>9
  <2>4. Mixed(reqs, m.client, m.id, time, time')
    BY <1>1, <1>2, <1>5, <2>2, <2>3, UpdateMultiplexOf
  <2> HIDE DEF reqs
  <2>5. Remixed(m)
    BY <2>1, <2>4 DEF Remixed, Ask
  <2> QED BY <1>5, <2>2, <2>3, <2>5 DEF JoinTime
<1>6. CASE m.id \in DOMAIN dist /\ m.id \notin DOMAIN time /\ ~m.opts.distance /\ ~Rejected(m.opts)
  <2> DEFINE r == Request("stopDist", m.id, NoOptions, Msg("toTime", m.client, m.id, m.opts))
  <2>1. EraseSession(m.id) /\ Ask(StopDistance(m.id, Msg("toTime", m.client, m.id, m.opts))) /\ client' = client
    BY <1>6 DEF HandleUpdate
  <2>2. time' = time /\ dist' = Erase(dist, {m.id})
    BY <1>6, <2>1 DEF EraseSession
  <2>3. Asked(r)
    BY <2>1 DEF Asked, Ask, StopDistance
  <2> QED BY <1>6, <1>9, <2>2, <2>3 DEF AskToTime
<1>7. CASE m.id \in DOMAIN dist /\ m.id \notin DOMAIN time /\ m.opts.distance /\ ~Rejected(m.opts)
  <2> DEFINE r == Request("stopDist", m.id, NoOptions, Msg("redo", m.client, m.id, m.opts))
  <2>1. UNCHANGED <<client, time, dist>> /\ Ask(StopDistance(m.id, Msg("redo", m.client, m.id, m.opts)))
    BY <1>7 DEF HandleUpdate
  <2>2. Asked(r)
    BY <2>1 DEF Asked, Ask, StopDistance
  <2>3. known
    BY <1>7 DEF Late
  <2> QED BY <1>7, <1>9, <2>1, <2>2, <2>3 DEF AskRedo
<1> QED BY <1>3, <1>4, <1>5, <1>6, <1>7

\* What a stop comes to (MsgStopTracking).
LEMMA StopOutcome ==
  ASSUME TypeOK, NEW m, Took(m), m.what = "stop", HandleStop(m)
  PROVE  LeaveTime(m) \/ AskStop(m) \/ NoSession(m)
<1>1. m \in Posts /\ m.client \in Clients /\ m.id \in Ids
  BY DEF Took, Posts, Messages, Tellers, Ids
<1>2. IsTable(time, TimeOpts)
  BY DEF TypeOK
<1>3. CASE m.id \in DOMAIN time
  <2> DEFINE reqs == StopMultiplex(time, m.client, m.id)
  <2>1. time' = Erase(time, {m.id}) /\ Ask(reqs) /\ ReportNow(reqs, m.client, m.id) /\ dist' = dist
    BY <1>3 DEF HandleStop
  <2>2. Mixed(reqs, m.client, m.id, time, time')
    BY <1>1, <1>2, <1>3, <2>1, StopMultiplexOf
  <2> HIDE DEF reqs
  <2>3. Remixed(m)
    BY <2>1, <2>2 DEF Remixed, Ask
  <2> QED BY <1>3, <2>1, <2>3 DEF LeaveTime
<1>4. CASE m.id \notin DOMAIN time /\ m.id \in DOMAIN dist
  <2> DEFINE r == Request("stopDist", m.id, NoOptions, Msg("distStopped", m.client, m.id, NoOptions))
  <2>1. UNCHANGED <<client, time, dist>> /\ Ask(StopDistance(m.id, Msg("distStopped", m.client, m.id, NoOptions)))
    BY <1>4 DEF HandleStop
  <2>2. Asked(r)
    BY <2>1 DEF Asked, Ask, StopDistance
  <2> QED BY <1>4, <2>1, <2>2 DEF AskStop
<1>5. CASE m.id \notin DOMAIN time /\ m.id \notin DOMAIN dist
  <2>1. Report(m.client, m.id) /\ UNCHANGED <<time, dist, apiQ>>
    BY <1>5 DEF HandleStop
  <2> QED BY <1>5, <2>1 DEF NoSession, Told
<1> QED BY <1>3, <1>4, <1>5

\* What an answer of the engine comes to.
LEMMA AnswerOutcome ==
  ASSUME TypeOK, NEW m, Took(m),
         \/ m.what \in {"started", "distStarted"} /\ AnswerStarted(m)
         \/ m.what = "updated" /\ AnswerUpdated(m)
         \/ m.what = "stopped" /\ AnswerStopped(m)
         \/ m.what = "distStopped" /\ AnswerDistStopped(m)
         \/ m.what = "removed" /\ AnswerRemoved(m)
         \/ m.what = "redo" /\ AnswerRedo(m)
         \/ m.what = "redone" /\ AnswerRedone(m)
  PROVE  Outcome(m)
<1>1. m \in Posts /\ m \in Messages
  BY DEF Took, Posts
<1>2. CASE m.what \in {"started", "distStarted"} /\ AnswerStarted(m)
  <2>1. Told(m)
    BY <1>2 DEF AnswerStarted, Told
  <2>2. CASE m.err
    <3>1. EraseSession(m.id)
      BY <1>2, <2>2 DEF AnswerStarted
    <3> QED BY <1>2, <2>1, <2>2, <3>1 DEF Failed, Outcome
  <2>3. CASE ~m.err
    <3>1. time' = time /\ dist' = dist
      BY <1>2, <2>3 DEF AnswerStarted
    <3> QED BY <1>2, <2>1, <2>3, <3>1 DEF Settled, Outcome
  <2> QED BY <2>2, <2>3
<1>3. CASE m.what = "updated" /\ AnswerUpdated(m)
  <2>1. Told(m)
    BY <1>3 DEF AnswerUpdated, Told
  <2>2. CASE m.err
    <3>1. ~m.opts.distance
      BY <1>1, <1>3 DEF Messages
    <3>2. time' = Save(time, m.id, Session(m.client, m.opts)) /\ dist' = dist
      BY <1>3, <2>2, <3>1 DEF AnswerUpdated, SaveSession, ByDistance
    <3> QED BY <1>3, <2>1, <2>2, <3>2 DEF Reverted, Outcome
  <2>3. CASE ~m.err
    <3>1. time' = time /\ dist' = dist
      BY <1>3, <2>3 DEF AnswerUpdated
    <3> QED BY <1>3, <2>1, <2>3, <3>1 DEF Settled, Outcome
  <2> QED BY <2>2, <2>3
<1>4. CASE m.what = "stopped" /\ AnswerStopped(m)
  <2>1. Told(m) /\ time' = time /\ dist' = dist
    BY <1>4 DEF AnswerStopped, Told, adapter
  <2> QED BY <1>4, <2>1 DEF Settled, Outcome
<1>5. CASE m.what = "distStopped" /\ AnswerDistStopped(m)
  <2>1. Told(m)
    BY <1>5 DEF AnswerDistStopped, Told
  <2>2. CASE m.err
    <3>1. time' = time /\ dist' = dist
      BY <1>5, <2>2 DEF AnswerDistStopped
    <3> QED BY <1>5, <2>1, <2>2, <3>1 DEF Settled, Outcome
  <2>3. CASE ~m.err
    <3>1. EraseSession(m.id)
      BY <1>5, <2>3 DEF AnswerDistStopped
    <3> QED BY <1>5, <2>1, <2>3, <3>1 DEF Ended, Outcome
  <2> QED BY <2>2, <2>3
<1>6. CASE m.what = "removed" /\ AnswerRemoved(m)
  <2>1. client' = client /\ apiQ' = apiQ
    BY <1>6 DEF AnswerRemoved
  <2>2. IF m.err THEN time' = time /\ dist' = dist ELSE EraseSession(m.id)
    BY <1>6 DEF AnswerRemoved
  <2> QED BY <1>6, <2>1, <2>2 DEF Removed, Outcome
<1>7. CASE m.what = "redo" /\ AnswerRedo(m)
  <2>1. UNCHANGED <<time, dist>>
    BY <1>7 DEF AnswerRedo, adapter
  <2>2. CASE m.err
    <3>1. Drop(m.client, m.id) /\ apiQ' = apiQ
      BY <1>7, <2>2 DEF AnswerRedo
    <3> QED BY <1>7, <2>1, <2>2, <3>1 DEF Forgotten, Outcome
  <2>3. CASE ~m.err
    <3>1. apiQ' = apiQ \o StartDistance(m.id, m.opts, Msg("redone", m.client, m.id, m.opts)) /\ client' = client
      BY <1>7, <2>3 DEF AnswerRedo, Ask
    <3>2. Asked(Request("startDist", m.id, m.opts, Msg("redone", m.client, m.id, m.opts)))
      BY <2>1, <3>1 DEF StartDistance, Asked
    <3> QED BY <1>7, <2>1, <2>3, <3>2 DEF AskAgain, Outcome
  <2> QED BY <2>2, <2>3
<1>8. CASE m.what = "redone" /\ AnswerRedone(m)
  <2>1. Told(m)
    BY <1>8 DEF AnswerRedone, Told
  <2>2. CASE m.err
    <3>1. time' = time /\ dist' = dist
      BY <1>8, <2>2 DEF AnswerRedone
    <3> QED BY <1>8, <2>1, <2>2, <3>1 DEF Settled, Outcome
  <2>3. CASE ~m.err
    <3>1. m.opts.distance
      BY <1>1, <1>8 DEF Messages
    <3>2. time' = time /\ dist' = Save(dist, m.id, Session(m.client, m.opts))
      BY <1>8, <2>3, <3>1 DEF AnswerRedone, SaveSession, ByDistance, TypeOK
    <3> QED BY <1>8, <2>1, <2>3, <3>2 DEF Redone, Outcome
  <2> QED BY <2>2, <2>3
<1> QED BY <1>2, <1>3, <1>4, <1>5, <1>6, <1>7, <1>8

----
(* The requests of a restart, of a configuration call and of a removal *)

\* The request that starts a distance-based session again.
LEMMA StartDistanceOf ==
  ASSUME NEW i \in Ids, NEW o \in DistOpts
  PROVE  LET r == Request("startDist", i, o, Silent) IN
         r \in Asks /\ r.op = "startDist" /\ r.id = i /\ r.then = Silent /\ StartDistance(i, o, Silent) = <<r>>
  BY SilentIs DEF Asks, Request, StartDistance, DistOpts, Ids

\* The fix is one that serves the sessions, and each distance-based one starts.
Restarts(reqs) ==
    /\ reqs \in Seq(Asks)
    /\ \A r \in ToSet(reqs) : r.then = Silent /\ r.op \in {"start", "startDist"}
    /\ \A r \in ToSet(reqs) : r.op = "start" => time # <<>> /\ Serves(FixOf(r), time)
    /\ time # <<>> => \E r \in ToSet(reqs) : r.op = "start"
    /\ \A r \in ToSet(reqs) : r.op = "startDist" => r.id \in DOMAIN dist
    /\ \A i \in DOMAIN dist : \E r \in ToSet(reqs) : r.op = "startDist" /\ r.id = i

\* A restart asks for a fix that serves the time-based sessions and for each
\* distance-based one (restartSessions).
LEMMA RestartOf ==
  ASSUME TypeOK
  PROVE  Restarts(RestartSessions)
<1> DEFINE ids == InOrder(DOMAIN dist)
           n == Cardinality(DOMAIN dist)
           seqs == [k \in DOMAIN ids |-> StartDistance(ids[k], dist[ids[k]].opts, Silent)]
           ask(k) == Request("startDist", ids[k], dist[ids[k]].opts, Silent)
           fixes == RestartTimeBased(time)
           flat == FlattenSeq(seqs)
<1>1. IsTable(time, TimeOpts) /\ IsTable(dist, DistOpts)
  BY DEF TypeOK
<1>2. DOMAIN dist \in SUBSET Nat /\ DOMAIN dist \subseteq Ids /\ IsFiniteSet(DOMAIN dist)
  BY <1>1 DEF IsTable, Ids
<1>3. /\ n \in Nat /\ DOMAIN ids = 1 .. n
      /\ \A k \in 1 .. n : ids[k] \in DOMAIN dist
      /\ \A i \in DOMAIN dist : \E k \in 1 .. n : ids[k] = i
  BY <1>2, InOrderOf
<1>4. RestartSessions = fixes \o flat
  BY DEF RestartSessions
<1>5. /\ fixes \in Seq(Asks)
      /\ time = <<>> => ToSet(fixes) = {}
      /\ time # <<>> => \E r \in Asks : /\ ToSet(fixes) = {r} /\ r.op = "start" /\ r.then = Silent
                                        /\ Serves(FixOf(r), time)
  <2>1. CASE time = <<>>
    <3>1. fixes = <<>>
      BY <2>1 DEF RestartTimeBased
    <3>2. fixes \in Seq(Asks) /\ ToSet(fixes) = {}
      BY <3>1 DEF ToSet
    <3> QED BY <2>1, <3>2
  <2>2. CASE time # <<>>
    <3> DEFINE m == Smallest(time)
               x == [m EXCEPT !.power = Strongest(time)]
               r == Request("start", 0, x, Silent)
    <3>1. m \in TimeOpts /\ AtMost(m.interval, time) /\ Strongest(time) \in Nat
      BY <1>1, <2>2, SmallestOf
    <3>2. x \in TimeOpts /\ x.interval = m.interval
      BY <3>1 DEF TimeOpts, Opts
    <3>3. fixes = StartFix(x, Silent)
      BY <2>2 DEF RestartTimeBased
    <3> HIDE DEF x, m
    <3>4. r \in Asks /\ r.op = "start" /\ r.then = Silent /\ Serves(FixOf(r), time) /\ StartFix(x, Silent) = <<r>>
      BY <2>2, <3>1, <3>2, SilentIs, StartServes
    <3> HIDE DEF r
    <3>5. fixes \in Seq(Asks) /\ ToSet(fixes) = {r}
      BY <3>3, <3>4, ElemsUnit
    <3> QED BY <2>2, <3>4, <3>5
  <2> QED BY <2>1, <2>2
<1> HIDE DEF fixes, ids, n
<1>6. ASSUME NEW k \in 1 .. n
      PROVE  ask(k) \in Asks /\ ask(k).op = "startDist" /\ ask(k).id = ids[k] /\ ask(k).then = Silent /\ seqs[k] = <<ask(k)>>
  <2>1. ids[k] \in Ids /\ dist[ids[k]].opts \in DistOpts
    BY <1>1, <1>2, <1>3 DEF IsTable
  <2>2. seqs[k] = StartDistance(ids[k], dist[ids[k]].opts, Silent)
    BY <1>3
  <2> QED BY <2>1, <2>2, StartDistanceOf
<1>7. seqs \in [1 .. n -> Seq(Asks)] /\ \A k \in 1 .. n : ToSet(seqs[k]) = {ask(k)}
  <2>1. \A k \in 1 .. n : seqs[k] \in Seq(Asks) /\ ToSet(seqs[k]) = {ask(k)}
    <3> TAKE k \in 1 .. n
    <3> HIDE DEF seqs, ask
    <3> QED BY <1>6, ElemsUnit
  <2>2. seqs = [k \in 1 .. n |-> seqs[k]]
    BY <1>3
  <2> HIDE DEF seqs, ask
  <2> QED BY <2>1, <2>2
<1> HIDE DEF seqs, ask
<1>8. flat \in Seq(Asks) /\ ToSet(flat) = UNION {ToSet(seqs[k]) : k \in 1 .. n}
  <2>1. seqs \in [1 .. n -> Seq(Asks)] /\ n \in Nat
    BY <1>3, <1>7
  <2> QED BY <2>1, FlattenElems
<1>9. \A r : r \in ToSet(flat) <=> \E k \in 1 .. n : r = ask(k)
  BY <1>7, <1>8
<1> HIDE DEF flat
<1> DEFINE reqs == RestartSessions
<1>10. reqs \in Seq(Asks) /\ ToSet(reqs) = ToSet(fixes) \cup ToSet(flat)
  BY <1>4, <1>5, <1>8, ElemsCat
<1> HIDE DEF reqs
<1>11. \A r \in ToSet(flat) : r.then = Silent /\ r.op = "startDist" /\ r.id \in DOMAIN dist
  BY <1>3, <1>6, <1>9
<1>12. \A i \in DOMAIN dist : \E r \in ToSet(flat) : r.op = "startDist" /\ r.id = i
  <2> TAKE i \in DOMAIN dist
  <2>1. PICK k \in 1 .. n : ids[k] = i
    BY <1>3
  <2> QED BY <1>6, <1>9, <2>1
<1>13. \A r \in ToSet(fixes) : r.then = Silent /\ r.op = "start" /\ time # <<>> /\ Serves(FixOf(r), time)
  BY <1>5
<1>14. time # <<>> => \E r \in ToSet(fixes) : r.op = "start"
  BY <1>5
<1> QED BY <1>10, <1>11, <1>12, <1>13, <1>14 DEF Restarts, reqs

\* A suspension stops the fix if there are time-based sessions (suspendSessions).
LEMMA SuspendOf ==
  /\ SuspendSessions \in Seq(Asks)
  /\ \A r \in ToSet(SuspendSessions) : r.then = Silent /\ r.op = "stop"
  /\ time # <<>> => SuspendSessions # <<>>
<1> DEFINE r == Request("stop", 0, NoOptions, Silent)
<1>1. r \in Asks /\ r.then = Silent /\ r.op = "stop"
  BY SilentIs, NoOptsIs DEF Asks, Request
<1>2. SuspendSessions = IF time = <<>> THEN <<>> ELSE <<r>>
  BY DEF SuspendSessions
<1> HIDE DEF r
<1>3. <<>> \in Seq(Asks) /\ ToSet(<<>>) = {} /\ <<r>> \in Seq(Asks) /\ ToSet(<<r>>) = {r} /\ <<r>> # <<>>
  BY <1>1, ElemsUnit
<1> QED BY <1>1, <1>2, <1>3

Mine(t, c) == {i \in DOMAIN t : t[i].client = c}

\* What removing a client's sessions asks of the engine.
Removes(c, fixes, stops) ==
    /\ fixes \in Seq(Asks) /\ stops \in Seq(Asks)
    /\ \A r \in ToSet(fixes) : /\ r.op \in {"start", "stop"} /\ r.then.what \in {"started", "updated", "stopped"}
                               /\ r.then.client = c /\ r.then.id \in Mine(time, c) /\ ~r.then.opts.distance
    /\ \A r \in ToSet(stops) : /\ r.op = "stopDist" /\ r.then.what = "removed" /\ r.then.client = c
                               /\ r.id = r.then.id /\ r.then.id \in Mine(dist, c) /\ ~r.then.opts.distance
    /\ \A i \in Mine(dist, c) : \E r \in ToSet(stops) : r.then.what = "removed" /\ r.then.id = i

\* Requests that take the fix from the sessions t to the sessions u, one after the other.
Chain(reqs, c, t, u) ==
    \E n \in Nat : \E seqs \in [1 .. n -> Seq(Asks)] : \E s :
      /\ reqs = FlattenSeq(seqs) /\ s[0] = t /\ s[n] = u
      /\ \A k \in 0 .. n - 1 : \E id : Mixed(seqs[k + 1], c, id, s[k], s[k + 1])

\* Sessions erased in two steps, and none erased.
LEMMA EraseTwice ==
  ASSUME NEW t, t = [i \in DOMAIN t |-> t[i]]
  PROVE  /\ \A a, b, ids : (\A i : i \in ids <=> i \in a \/ i \in b) => Erase(Erase(t, a), b) = Erase(t, ids)
         /\ Erase(t, {}) = t
<1>1. ASSUME NEW a, NEW b, NEW ids, \A i : i \in ids <=> i \in a \/ i \in b PROVE Erase(Erase(t, a), b) = Erase(t, ids)
  <2>1. DOMAIN Erase(t, a) = DOMAIN t \ a /\ \A i \in DOMAIN t \ a : Erase(t, a)[i] = t[i]
    BY DEF Erase, Restrict
  <2>2. (DOMAIN t \ a) \ b = DOMAIN t \ ids
    BY <1>1
  <2>3. Erase(Erase(t, a), b) = [i \in DOMAIN t \ ids |-> Erase(t, a)[i]]
    BY <2>1, <2>2 DEF Erase, Restrict
  <2>4. \A i \in DOMAIN t \ ids : Erase(t, a)[i] = t[i]
    BY <1>1, <2>1
  <2>5. Erase(t, ids) = [i \in DOMAIN t \ ids |-> t[i]]
    BY DEF Erase, Restrict
  <2> QED BY <2>3, <2>4, <2>5
<1>2. Erase(t, {}) = t
  <2>1. DOMAIN t \ {} = DOMAIN t OBVIOUS
  <2> QED BY <2>1 DEF Erase, Restrict
<1> QED BY <1>1, <1>2

\* The request that stops a distance-based session of a client that left.
LEMMA StopDistanceOf ==
  ASSUME NEW i \in Ids, NEW c \in Clients
  PROVE  LET then == Msg("removed", c, i, NoOptions)
             r == Request("stopDist", i, NoOptions, then) IN
         /\ r \in Asks /\ r.op = "stopDist" /\ r.id = i /\ r.then.what = "removed" /\ r.then.client = c /\ r.then.id = i
         /\ ~r.then.opts.distance /\ StopDistance(i, then) = <<r>>
<1> DEFINE then == Msg("removed", c, i, NoOptions)
<1>1. "removed" \in Kinds
  BY DEF Kinds, Answers
<1>2. /\ then \in Messages /\ then.what = "removed" /\ then.client = c /\ then.id = i /\ then.opts = NoOptions /\ ~then.err
  BY <1>1, MsgIs, NoOptsIs
<1> HIDE DEF then
<1>3. i # 0 /\ i \in Nat
  BY DEF Ids
<1>4. LET r == Request("stopDist", i, NoOptions, then) IN
      /\ r \in Asks /\ r.op = "stopDist" /\ r.id = i /\ r.then = then /\ StopDistance(i, then) = <<r>>
  BY <1>2, <1>3, NoOptsIs DEF Asks, Request, StopDistance, Answers
<1> QED BY <1>2, <1>4, NoOptsIs DEF then

\* A client that left takes its time-based sessions along; its distance-based ones
\* go with the engine's answers (stopClientSessions).
LEMMA RemoveOf ==
  ASSUME TypeOK, NEW m \in Posts, m.what = "remove", HandleRemove(m)
  PROVE  /\ client' = client /\ dist' = dist /\ time' = Erase(time, Mine(time, m.client))
         /\ \E fixes, stops : /\ Removes(m.client, fixes, stops) /\ apiQ' = apiQ \o (fixes \o stops)
                              /\ Chain(fixes, m.client, time, time')
<1> DEFINE c == m.client
           ids == InOrder(Mine(time, c))
           n == Cardinality(Mine(time, c))
           before(i) == Erase(time, {ids[j] : j \in 1 .. i - 1})
           fixseqs == [i \in DOMAIN ids |-> StopMultiplex(before(i), c, ids[i])]
           dids == InOrder(Mine(dist, c))
           p == Cardinality(Mine(dist, c))
           then(i) == Msg("removed", c, dids[i], NoOptions)
           ask(i) == Request("stopDist", dids[i], NoOptions, then(i))
           stopseqs == [i \in DOMAIN dids |-> StopDistance(dids[i], then(i))]
           fixes == FlattenSeq(fixseqs)
           stops == FlattenSeq(stopseqs)
<1>1. IsTable(time, TimeOpts) /\ IsTable(dist, DistOpts) /\ c \in Clients
  BY DEF TypeOK, Posts, Messages
<1>2. Mine(time, c) \in SUBSET Nat /\ Mine(time, c) \subseteq DOMAIN time /\ IsFiniteSet(Mine(time, c))
  <2>1. Mine(time, c) \subseteq DOMAIN time
    BY DEF Mine
  <2> QED BY <1>1, <2>1, FS_Subset DEF IsTable, Ids
<1>3. Mine(dist, c) \in SUBSET Nat /\ Mine(dist, c) \subseteq DOMAIN dist /\ IsFiniteSet(Mine(dist, c))
  <2>1. Mine(dist, c) \subseteq DOMAIN dist
    BY DEF Mine
  <2> QED BY <1>1, <2>1, FS_Subset DEF IsTable, Ids
<1>4. /\ n \in Nat /\ DOMAIN ids = 1 .. n /\ \A k \in 1 .. n : ids[k] \in Mine(time, c)
      /\ \A j, k \in 1 .. n : j # k => ids[j] # ids[k]
      /\ \A i \in Mine(time, c) : \E k \in 1 .. n : ids[k] = i
  BY <1>2, InOrderOf
<1>5. /\ p \in Nat /\ DOMAIN dids = 1 .. p /\ \A k \in 1 .. p : dids[k] \in Mine(dist, c)
      /\ \A i \in Mine(dist, c) : \E k \in 1 .. p : dids[k] = i
  BY <1>3, InOrderOf
<1>6. /\ apiQ' = apiQ \o (fixes \o stops) /\ client' = client /\ dist' = dist
      /\ time' = Erase(time, Mine(time, c))
  BY DEF HandleRemove, Ask, Mine
<1> HIDE DEF ids, n, dids, p, c
<1>7. ASSUME NEW k \in 1 .. n
      PROVE  /\ fixseqs[k] \in Seq(Asks)
             /\ \A r \in ToSet(fixseqs[k]) : /\ r.op \in {"start", "stop"} /\ r.then.what \in {"started", "updated", "stopped"}
                                             /\ r.then.client = c /\ r.then.id \in Mine(time, c) /\ ~r.then.opts.distance
             /\ Mixed(fixseqs[k], c, ids[k], before(k), Erase(before(k), {ids[k]}))
  <2> DEFINE gone == {ids[j] : j \in 1 .. k - 1}
             t == Erase(time, gone)
             reqs == StopMultiplex(t, c, ids[k])
  <2>1. IsTable(t, TimeOpts) /\ \A i : i \in DOMAIN t <=> i \in DOMAIN time /\ i \notin gone
    BY <1>1, EraseTable
  <2>2. ids[k] \notin gone /\ ids[k] \in Mine(time, c) /\ ids[k] \in DOMAIN time
    <3>1. \A j \in 1 .. k - 1 : j \in 1 .. n /\ j # k
      BY <1>4
    <3>2. \A j \in 1 .. k - 1 : ids[j] # ids[k]
      BY <1>4, <3>1
    <3> QED BY <1>2, <1>4, <3>2
  <2>3. ids[k] \in DOMAIN t
    BY <2>1, <2>2
  <2>4. fixseqs[k] = reqs
    BY <1>4
  <2> HIDE DEF t, gone, fixseqs
  <2>5. Mixed(reqs, c, ids[k], t, Erase(t, {ids[k]}))
    BY <1>1, <2>1, <2>3, StopMultiplexOf
  <2>8. Mixed(fixseqs[k], c, ids[k], before(k), Erase(before(k), {ids[k]}))
    BY <2>4, <2>5 DEF t, gone
  <2> HIDE DEF reqs
  <2>6. CASE reqs = <<>>
    <3>1. reqs \in Seq(Asks) /\ ToSet(reqs) = {}
      BY <2>6 DEF ToSet
    <3> QED BY <2>4, <2>8, <3>1
  <2>7. ASSUME NEW r \in Asks, reqs = <<r>>, r.op \in {"start", "stop"}, r.then.what \in {"started", "updated", "stopped"},
               r.then.client = c, r.then.id = ids[k], ~r.then.opts.distance
        PROVE  /\ fixseqs[k] \in Seq(Asks)
               /\ \A q \in ToSet(fixseqs[k]) : /\ q.op \in {"start", "stop"} /\ q.then.what \in {"started", "updated", "stopped"}
                                               /\ q.then.client = c /\ q.then.id \in Mine(time, c) /\ ~q.then.opts.distance
    <3>1. reqs \in Seq(Asks) /\ ToSet(reqs) = {r}
      BY <2>7, ElemsUnit
    <3> QED BY <2>2, <2>4, <2>7, <3>1
  <2> QED BY <2>5, <2>6, <2>7, <2>8 DEF Mixed
<1>8. fixseqs \in [1 .. n -> Seq(Asks)]
  <2>1. fixseqs = [k \in 1 .. n |-> fixseqs[k]]
    BY <1>4
  <2> HIDE DEF fixseqs
  <2> QED BY <1>7, <2>1
<1> HIDE DEF fixseqs
<1>9. fixes \in Seq(Asks) /\ ToSet(fixes) = UNION {ToSet(fixseqs[k]) : k \in 1 .. n}
  BY <1>4, <1>8, FlattenElems
<1>10. \A r \in ToSet(fixes) : /\ r.op \in {"start", "stop"} /\ r.then.what \in {"started", "updated", "stopped"}
                               /\ r.then.client = c /\ r.then.id \in Mine(time, c) /\ ~r.then.opts.distance
  BY <1>7, <1>9
<1>11. ASSUME NEW k \in 1 .. p
       PROVE  /\ ask(k) \in Asks /\ ask(k).op = "stopDist" /\ ask(k).id = dids[k] /\ ask(k).then.what = "removed"
              /\ ask(k).then.client = c /\ ask(k).then.id = dids[k] /\ ~ask(k).then.opts.distance
              /\ stopseqs[k] = <<ask(k)>>
  <2>1. dids[k] \in Ids
    BY <1>1, <1>3, <1>5 DEF IsTable
  <2>2. stopseqs[k] = StopDistance(dids[k], then(k))
    BY <1>5
  <2> QED BY <1>1, <2>1, <2>2, StopDistanceOf
<1>12. stopseqs \in [1 .. p -> Seq(Asks)] /\ \A k \in 1 .. p : ToSet(stopseqs[k]) = {ask(k)}
  <2>1. \A k \in 1 .. p : stopseqs[k] \in Seq(Asks) /\ ToSet(stopseqs[k]) = {ask(k)}
    <3> TAKE k \in 1 .. p
    <3> HIDE DEF stopseqs, ask
    <3> QED BY <1>11, ElemsUnit
  <2>2. stopseqs = [k \in 1 .. p |-> stopseqs[k]]
    BY <1>5
  <2> HIDE DEF stopseqs, ask
  <2> QED BY <2>1, <2>2
<1> HIDE DEF stopseqs, ask
<1>13. stops \in Seq(Asks) /\ ToSet(stops) = UNION {ToSet(stopseqs[k]) : k \in 1 .. p}
  <2>1. stopseqs \in [1 .. p -> Seq(Asks)]
    BY <1>12
  <2> QED BY <1>5, <2>1, FlattenElems
<1>14. \A r : r \in ToSet(stops) <=> \E k \in 1 .. p : r = ask(k)
  BY <1>12, <1>13
<1>18. Chain(fixes, c, time, time')
  <2> DEFINE s == [k \in 0 .. n |-> before(k + 1)]
  <2>1. time = [i \in DOMAIN time |-> time[i]]
    BY <1>1 DEF IsTable
  <2>2. s[0] = time
    <3>1. {ids[j] : j \in 1 .. (0 + 1) - 1} = {} /\ 0 \in 0 .. n
      BY <1>4
    <3>2. s[0] = Erase(time, {ids[j] : j \in 1 .. (0 + 1) - 1})
      BY <3>1
    <3> QED BY <2>1, <3>1, <3>2, EraseTwice
  <2>3. s[n] = time'
    <3>1. {ids[j] : j \in 1 .. (n + 1) - 1} = Mine(time, c) /\ n \in 0 .. n
      BY <1>4
    <3>2. s[n] = Erase(time, {ids[j] : j \in 1 .. (n + 1) - 1})
      BY <3>1
    <3> QED BY <1>6, <3>1, <3>2
  <2>4. ASSUME NEW k \in 0 .. n - 1
        PROVE  Mixed(fixseqs[k + 1], c, ids[k + 1], s[k], s[k + 1])
    <3> DEFINE a == {ids[j] : j \in 1 .. (k + 1) - 1}
               b == {ids[j] : j \in 1 .. (k + 1 + 1) - 1}
    <3>1. k + 1 \in 1 .. n /\ k \in 0 .. n /\ k + 1 \in 0 .. n
      BY <1>4
    <3>2. \A i : i \in b <=> i \in a \/ i \in {ids[k + 1]}
      <4>1. \A j : j \in 1 .. (k + 1 + 1) - 1 <=> j \in 1 .. (k + 1) - 1 \/ j = k + 1
        OBVIOUS
      <4> QED BY <4>1
    <3>3. s[k] = Erase(time, a) /\ s[k + 1] = Erase(time, b) /\ before(k + 1) = Erase(time, a)
      BY <3>1
    <3> HIDE DEF a, b, s
    <3>4. Erase(Erase(time, a), {ids[k + 1]}) = Erase(time, b)
      BY <2>1, <3>2, EraseTwice
    <3>5. Mixed(fixseqs[k + 1], c, ids[k + 1], before(k + 1), Erase(before(k + 1), {ids[k + 1]}))
      BY <1>7, <3>1
    <3> HIDE DEF before
    <3> QED BY <3>3, <3>4, <3>5
  <2> HIDE DEF s, before
  <2> QED BY <1>4, <1>8, <2>2, <2>3, <2>4 DEF Chain
<1> HIDE DEF fixes, stops
<1>15. \A r \in ToSet(stops) : /\ r.op = "stopDist" /\ r.then.what = "removed" /\ r.then.client = c
                               /\ r.id = r.then.id /\ r.then.id \in Mine(dist, c) /\ ~r.then.opts.distance
  BY <1>5, <1>11, <1>14
<1>16. \A i \in Mine(dist, c) : \E r \in ToSet(stops) : r.then.what = "removed" /\ r.then.id = i
  <2> TAKE i \in Mine(dist, c)
  <2>1. PICK k \in 1 .. p : dids[k] = i
    BY <1>5
  <2> QED BY <1>11, <1>14, <2>1
<1>17. Removes(c, fixes, stops)
  BY <1>9, <1>10, <1>13, <1>15, <1>16 DEF Removes
<1> QED BY <1>6, <1>17, <1>18 DEF c

----
(* Every outcome has its effect *)

\* One request counts once.
LEMMA CountOne ==
  ASSUME NEW r \in Asks, NEW R
  PROVE  Count(<<r>>, R) = One(r, R) /\ Count(<<>>, R) = 0
<1>1. <<>> \in Seq(Asks) /\ ToSet(<<>>) = {}
  BY DEF ToSet
<1>2. Count(<<>>, R) = 0
  BY <1>1, CountNat
<1>3. Append(<<>>, r) = <<r>> OBVIOUS
<1>4. Count(Append(<<>>, r), R) = Count(<<>>, R) + One(r, R)
  BY <1>1, CountAppend
<1>5. One(r, R) \in {0, 1}
  BY DEF One
<1> QED BY <1>2, <1>3, <1>4, <1>5

\* An answer asked for on behalf of m is its client's, and takes its place.
LEMMA FollowsUp ==
  ASSUME Owned, NEW m \in Items, m \in Messages, m.what \in Tellers,
         NEW r \in Asks, r.then.what \in Tellers, r.then.id = m.id, r.then.client = m.client
  PROVE  OwnedItem(r.then) /\ \A s : One(r, RepAsks(s)) = One(m, Rep(s))
<1>1. OwnedItem(m)
  BY DEF Owned
<1>2. r.then \in Messages
  BY DEF Asks
<1>3. OwnedItem(r.then)
  BY <1>1 DEF OwnedItem, Tellers
<1>4. \A s : r \in RepAsks(s) <=> m \in Rep(s)
  BY <1>2 DEF RepAsks, Rep
<1> QED BY <1>3, <1>4 DEF One

\* Saving a session for the client a message is about, or erasing any, leaves each
\* session its client's.
LEMMA TableOwned ==
  ASSUME TypeOK, Owned, NEW m \in Items, m.what \in Tellers \cup {"removed"}, NEW t, NEW D, IsTable(t, D), OwnedIn(t)
  PROVE  /\ \A ids : OwnedIn(Erase(t, ids))
         /\ \A o \in D : m.client \in Clients /\ m.id \in Ids => OwnedIn(Save(t, m.id, Session(m.client, o)))
<1>1. OwnedItem(m)
  BY DEF Owned
<1>2. ASSUME NEW ids PROVE OwnedIn(Erase(t, ids))
  <2>1. /\ \A i : i \in DOMAIN Erase(t, ids) <=> i \in DOMAIN t /\ i \notin ids
        /\ \A i \in DOMAIN t : i \notin ids => Erase(t, ids)[i] = t[i]
    BY EraseTable
  <2> QED BY <2>1 DEF OwnedIn
<1>3. ASSUME NEW o \in D, m.client \in Clients, m.id \in Ids
      PROVE  OwnedIn(Save(t, m.id, Session(m.client, o)))
  <2> DEFINE u == Save(t, m.id, Session(m.client, o))
  <2>1. /\ \A i : i \in DOMAIN u <=> i \in DOMAIN t \/ i = m.id
        /\ u[m.id] = Session(m.client, o)
        /\ \A i \in DOMAIN t : i # m.id => u[i] = t[i]
    BY <1>3, SaveTable
  <2> HIDE DEF u
  <2>2. u[m.id].client = m.client
    BY <2>1 DEF Session
  <2>3. \A c \in Clients : client[c].session = m.id => m.client = c
    BY <1>1 DEF OwnedItem
  <2>4. m.id <= bounds.ids
    BY <1>1 DEF OwnedItem
  <2>5. ASSUME NEW i \in DOMAIN u
        PROVE  i <= bounds.ids /\ \A c \in Clients : client[c].session = i => u[i].client = c
    <3>1. CASE i = m.id
      BY <2>2, <2>3, <2>4, <3>1
    <3>2. CASE i # m.id
      BY <2>1, <3>2 DEF OwnedIn
    <3> QED BY <3>1, <3>2
  <2>6. OwnedIn(u)
    BY <2>5 DEF OwnedIn
  <2> QED BY <2>6 DEF u
<1> QED BY <1>2, <1>3

\* What there is to know of a message that is handled.
LEMMA Taken ==
  ASSUME Base, NEW m, Took(m)
  PROVE  /\ TypeOK /\ Valid /\ Owned /\ m \in Posts /\ m \in Messages /\ m \in Items /\ ValidItem(m) /\ OwnedItem(m)
         /\ IsTable(time, TimeOpts) /\ IsTable(dist, DistOpts) /\ OwnedIn(time) /\ OwnedIn(dist)
         /\ DOMAIN dist # {} => "distance" \in env /\ known
         /\ m.what \in Tellers \cup {"removed"} => m.client \in Clients /\ m.id \in Ids
         /\ m.opts \in Opts /\ m.id \in Nat /\ apiQ \in Seq(Asks)
<1>1. TypeOK /\ Valid /\ Owned
  BY DEF Base
<1>2. m \in Posts /\ m \in Messages
  BY DEF Took, Posts
<1>3. msgQ \in Seq(Posts) /\ m \in ToSet(msgQ)
  BY <1>1, ElemsTail DEF TypeOK, Took
<1>4. m \in Items
  BY <1>3 DEF Items
<1>5. ValidItem(m) /\ OwnedItem(m)
  BY <1>1, <1>4 DEF Valid, Owned
<1>6. m.what \in Tellers \cup {"removed"} => m.client \in Clients /\ m.id \in Ids
  BY <1>2 DEF Messages, Ids
<1>7. m.opts \in Opts /\ m.id \in Nat
  BY <1>2 DEF Messages
<1> QED BY <1>1, <1>2, <1>4, <1>5, <1>6, <1>7 DEF TypeOK, Valid, Owned

\* Multiplexing asks for nothing or for one thing.
LEMMA MixedAsks ==
  ASSUME NEW reqs, NEW c, NEW id, NEW t, NEW u, Mixed(reqs, c, id, t, u)
  PROVE  /\ reqs \in Seq(Asks)
         /\ reqs = <<>> \/ \E r \in Asks : reqs = <<r>>
         /\ \A r \in ToSet(reqs) : /\ r.then.what \in {"started", "updated", "stopped"} /\ r.then.client = c /\ r.then.id = id
                                   /\ ~r.then.opts.distance /\ r.op \in {"start", "stop"}
<1>1. CASE reqs = <<>>
  <2>1. reqs \in Seq(Asks) /\ ToSet(reqs) = {}
    BY <1>1 DEF ToSet
  <2> QED BY <1>1, <2>1
<1>2. ASSUME NEW r \in Asks, reqs = <<r>>, r.op \in {"start", "stop"}, r.then.what \in {"started", "updated", "stopped"},
             r.then.client = c, r.then.id = id, ~r.then.opts.distance
      PROVE  /\ reqs \in Seq(Asks) /\ \E q \in Asks : reqs = <<q>>
             /\ \A q \in ToSet(reqs) : /\ q.then.what \in {"started", "updated", "stopped"} /\ q.then.client = c /\ q.then.id = id
                                       /\ ~q.then.opts.distance /\ q.op \in {"start", "stop"}
  <2>1. reqs \in Seq(Asks) /\ ToSet(reqs) = {r}
    BY <1>2, ElemsUnit
  <2> QED BY <1>2, <2>1
<1> QED BY <1>1, <1>2 DEF Mixed

\* The requests reqs are followed by none that anyone is told of.
LEMMA RemixedEffect ==
  ASSUME Base, NEW m, Took(m), m.what \in Tellers,
         NEW reqs, Mixed(reqs, m.client, m.id, time, time'), ReportNow(reqs, m.client, m.id),
         NEW more \in Seq(Asks), apiQ' = apiQ \o (reqs \o more),
         \A r \in ToSet(more) : r.then = Silent /\ r.op = "startDist" /\ "distance" \in env /\ known,
         IsTable(time', TimeOpts), IsTable(dist', DistOpts), OwnedIn(time'), OwnedIn(dist'),
         DOMAIN dist' # {} => "distance" \in env /\ known
  PROVE  Base'
<1>1. /\ TypeOK /\ Valid /\ Owned /\ m \in Messages /\ m \in Items /\ m.client \in Clients /\ m.id \in Ids
  BY Taken
<1>2. /\ reqs \in Seq(Asks) /\ (reqs = <<>> \/ \E r \in Asks : reqs = <<r>>)
      /\ \A r \in ToSet(reqs) : /\ r.then.what \in {"started", "updated", "stopped"} /\ r.then.client = m.client /\ r.then.id = m.id
                                /\ ~r.then.opts.distance /\ r.op \in {"start", "stop"}
  BY MixedAsks
<1> DEFINE all == reqs \o more
<1>3. all \in Seq(Asks) /\ ToSet(all) = ToSet(reqs) \cup ToSet(more)
  BY <1>2, ElemsCat
<1>4. ToSet(reqs) \subseteq Asks
  BY <1>2, ElemsOf
<1>5. \A R : Count(all, R) = Count(reqs, R) + Count(more, R)
  BY <1>2, CountCat
<1>6. \A s : Count(more, RepAsks(s)) = 0
  <2> TAKE s
  <2>1. ToSet(more) \cap RepAsks(s) = {}
    BY SilentRep DEF RepAsks
  <2> QED BY <2>1, CountNat
<1>7. \A R : Count(reqs, R) \in Nat
  BY <1>2, CountNat
<1>8. \A s : Count(all, RepAsks(s)) = Count(reqs, RepAsks(s))
  BY <1>5, <1>6, <1>7
<1>9. apiQ' = apiQ \o all OBVIOUS
<1> HIDE DEF all
<1>10. ASSUME NEW r \in ToSet(reqs)
       PROVE  ValidItem(r.then) /\ OwnedItem(r.then) /\ \A s : One(r, RepAsks(s)) = One(m, Rep(s))
  <2>1. r.then.what \in Tellers /\ r \in Asks
    BY <1>2, <1>4 DEF Tellers
  <2>2. ~r.then.err
    BY <2>1 DEF Asks
  <2>3. ValidItem(r.then)
    BY <1>2, <2>2 DEF ValidItem, DistKinds
  <2> QED BY <1>1, <1>2, <2>1, <2>3, FollowsUp
<1>11. ASSUME NEW r \in ToSet(all)
       PROVE  /\ ValidItem(r.then) /\ OwnedItem(r.then)
              /\ r.op \in {"startDist", "stopDist"} => "distance" \in env /\ known
  <2>1. CASE r \in ToSet(reqs)
    BY <1>2, <1>10, <2>1
  <2>2. CASE r \in ToSet(more)
    BY <1>1, <2>2, SilentValid
  <2> QED BY <1>3, <2>1, <2>2
<1>12. m.what # "engineUp"
  BY DEF Tellers
<1>13. CASE reqs = <<>>
  <2>1. \A s : Count(all, RepAsks(s)) = 0
    <3>1. \A R : Count(<<>>, R) = 0
      <4>1. <<>> \in Seq(Asks) /\ ToSet(<<>>) = {}
        BY DEF ToSet
      <4> QED BY <4>1, CountNat
    <3> QED BY <1>8, <1>13, <3>1
  <2>2. Report(m.client, m.id)
    BY <1>13 DEF ReportNow
  <2>3. Effect(m, all, TRUE)
    BY <1>1, <1>3, <1>9, <1>11, <1>12, <2>1, <2>2 DEF Effect, Took
  <2> QED BY <2>3, EffectKeeps
<1>14. ASSUME NEW r \in Asks, reqs = <<r>> PROVE Base'
  <2>1. r \in ToSet(reqs) /\ reqs # <<>>
    BY <1>14, ElemsUnit
  <2>2. \A s : Count(all, RepAsks(s)) = One(m, Rep(s))
    BY <1>8, <1>10, <1>14, <2>1, CountOne
  <2>3. client' = client
    BY <2>1 DEF ReportNow
  <2>4. Effect(m, all, FALSE)
    BY <1>1, <1>3, <1>9, <1>11, <1>12, <2>2, <2>3 DEF Effect, Took
  <2> QED BY <2>4, EffectKeeps
<1> QED BY <1>2, <1>13, <1>14

\* One request is made of the engine, whose answer goes on with m.
LEMMA AskedEffect ==
  ASSUME Base, NEW m, Took(m), m.what \in Tellers,
         NEW r \in Asks, Asked(r), r.op \in {"startDist", "stopDist"}, "distance" \in env, known,
         r.then.what \in Tellers, r.then.id = m.id, r.then.client = m.client, ValidItem(r.then),
         time' = time, IsTable(dist', DistOpts), OwnedIn(dist')
  PROVE  Base'
<1>1. /\ TypeOK /\ Valid /\ Owned /\ m \in Messages /\ m \in Items /\ IsTable(time, TimeOpts) /\ OwnedIn(time)
  BY Taken
<1>2. OwnedItem(r.then) /\ \A s : One(r, RepAsks(s)) = One(m, Rep(s))
  BY <1>1, FollowsUp
<1>3. <<r>> \in Seq(Asks) /\ ToSet(<<r>>) = {r}
  BY ElemsUnit
<1>4. \A s : Count(<<r>>, RepAsks(s)) = One(m, Rep(s))
  BY <1>2, CountOne
<1>5. apiQ' = apiQ \o <<r>> /\ client' = client
  BY DEF Asked
<1>6. m.what # "engineUp"
  BY DEF Tellers
<1>7. \E reqs \in Seq(Asks) : /\ apiQ' = apiQ \o reqs /\ ToSet(reqs) = {r}
                              /\ \A s : Count(reqs, RepAsks(s)) = One(m, Rep(s))
  BY <1>3, <1>4, <1>5
<1>8. PICK reqs \in Seq(Asks) : /\ apiQ' = apiQ \o reqs /\ ToSet(reqs) = {r}
                                /\ \A s : Count(reqs, RepAsks(s)) = One(m, Rep(s))
  BY <1>7
<1>9. \A q \in ToSet(reqs) : q = r
  BY <1>8
<1>10. Effect(m, reqs, FALSE)
  BY <1>1, <1>2, <1>5, <1>6, <1>8, <1>9 DEF Effect, Took
<1> QED BY <1>10, EffectKeeps

\* The client is told at once or forgotten, or nothing is said to anyone.
LEMMA QuietEffect ==
  ASSUME Base, NEW m, Took(m), m.what # "engineUp", apiQ' = apiQ,
         NEW rep \in BOOLEAN, IF rep THEN m.what \in Tellers /\ (Report(m.client, m.id) \/ Drop(m.client, m.id))
                              ELSE client' = client /\ m.what \notin Tellers,
         IsTable(time', TimeOpts), IsTable(dist', DistOpts), OwnedIn(time'), OwnedIn(dist'),
         DOMAIN dist' # {} => "distance" \in env /\ known
  PROVE  Base'
<1>1. /\ TypeOK
      /\ m.what \in Tellers => m.client \in Clients
      /\ apiQ \in Seq(Asks)
  BY Taken
<1>0. <<>> \in Seq(Asks) OBVIOUS
<1>2. PICK reqs \in Seq(Asks) : reqs = <<>>
  BY <1>0
<1>3. ToSet(reqs) = {} /\ apiQ' = apiQ \o reqs
  BY <1>1, <1>2, SequencesAsk DEF ToSet
<1>4. \A R : Count(reqs, R) = 0
  BY <1>3, CountNat
<1>5. CASE rep
  <2>1. m.what \in Tellers /\ (Report(m.client, m.id) \/ Drop(m.client, m.id)) /\ m.client \in Clients
    <3>1. m.what \in Tellers /\ (Report(m.client, m.id) \/ Drop(m.client, m.id))
      BY <1>5, Zenon
    <3> QED BY <1>1, <3>1
  <2>2. Effect(m, reqs, TRUE)
    BY <1>3, <1>4, <2>1 DEF Effect, Took
  <2> QED BY <2>2, EffectKeeps
<1>6. CASE ~rep
  <2>1. client' = client /\ m.what \notin Tellers
    BY <1>6
  <2>2. \A s : One(m, Rep(s)) = 0
    BY <2>1 DEF One, Rep
  <2>3. Effect(m, reqs, FALSE)
    BY <1>3, <1>4, <2>1, <2>2 DEF Effect, Took
  <2> QED BY <2>3, EffectKeeps
<1> QED BY <1>5, <1>6

\* The requests about distance-based sessions that a client waits for.
LEMMA AskedOf ==
  ASSUME NEW what \in {"distStarted", "distStopped", "toTime", "redo", "redone"},
         NEW c \in Clients, NEW id \in Ids, NEW o \in Opts, NEW o2 \in Opts, NEW op \in {"startDist", "stopDist"},
         what \in {"distStarted", "redone"} <=> op = "startDist",
         what \in {"distStarted", "redone", "redo"} => o.distance,
         what = "toTime" => ~o.distance, what # "distStopped" => o.interval > 0
  PROVE  LET r == Request(op, id, o2, Msg(what, c, id, o)) IN
         /\ r \in Asks /\ r.op = op /\ r.id = id /\ r.opts = o2 /\ r.then.what = what /\ r.then.client = c /\ r.then.id = id
         /\ r.then.opts = o /\ ~r.then.err /\ r.then.what \in Tellers
<1> DEFINE then == Msg(what, c, id, o)
<1>1. what \in Kinds
  BY DEF Kinds, Answers
<1>2. then \in Messages /\ then.what = what /\ then.client = c /\ then.id = id /\ then.opts = o /\ ~then.err
  BY <1>1, MsgIs
<1> HIDE DEF then
<1>3. id # 0 /\ id \in Nat
  BY DEF Ids
<1>4. LET r == Request(op, id, o2, then) IN r \in Asks /\ r.op = op /\ r.id = id /\ r.opts = o2 /\ r.then = then
  BY <1>2, <1>3 DEF Asks, Request, Answers
<1> QED BY <1>2, <1>4 DEF then, Tellers

\* Erasing a session wherever it is leaves two maps of sessions.
LEMMA EraseSessionOf ==
  ASSUME Base, NEW m, Took(m), m.what \in Tellers \cup {"removed"}, EraseSession(m.id)
  PROVE  /\ IsTable(time', TimeOpts) /\ IsTable(dist', DistOpts) /\ OwnedIn(time') /\ OwnedIn(dist')
         /\ DOMAIN dist' # {} => "distance" \in env /\ known
<1>1. /\ TypeOK /\ Owned /\ m \in Items /\ IsTable(time, TimeOpts) /\ IsTable(dist, DistOpts)
      /\ OwnedIn(time) /\ OwnedIn(dist)
      /\ DOMAIN dist # {} => "distance" \in env /\ known
  BY Taken
<1>2. CASE time' = Erase(time, {m.id}) /\ dist' = dist
  <2>1. IsTable(time', TimeOpts)
    BY <1>1, <1>2, EraseTable
  <2>2. OwnedIn(time')
    BY <1>1, <1>2, TableOwned
  <2> QED BY <1>1, <1>2, <2>1, <2>2
<1>3. CASE time' = time /\ dist' = Erase(dist, {m.id})
  <2>1. IsTable(dist', DistOpts) /\ \A i : i \in DOMAIN dist' <=> i \in DOMAIN dist /\ i \notin {m.id}
    BY <1>1, <1>3, EraseTable
  <2>2. OwnedIn(dist')
    BY <1>1, <1>3, TableOwned
  <2>3. DOMAIN dist' # {} => DOMAIN dist # {}
    BY <2>1
  <2> QED BY <1>1, <1>3, <2>1, <2>2, <2>3
<1> QED BY <1>2, <1>3 DEF EraseSession

\* The outcomes that change the fix keep the invariant,
LEMMA FixOutcomesKeep ==
  ASSUME Base, NEW m, JoinTime(m) \/ LeaveTime(m)
  PROVE  Base'
<1>1. Took(m) /\ m.what \in {"start", "update", "toTime", "stop"} /\ dist' = dist
  BY DEF JoinTime, LeaveTime
<1>2. m.what \in Tellers
  BY <1>1 DEF Tellers
<1>3. /\ TypeOK /\ Owned /\ m \in Items /\ IsTable(time, TimeOpts) /\ IsTable(dist, DistOpts)
      /\ OwnedIn(time) /\ OwnedIn(dist) /\ m.client \in Clients /\ m.id \in Ids
      /\ DOMAIN dist # {} => "distance" \in env /\ known
      /\ m \in Messages /\ m.opts \in Opts
  BY <1>1, <1>2, Taken
<1>4. IsTable(time', TimeOpts) /\ OwnedIn(time')
  <2>1. CASE JoinTime(m)
    <3>1. time' = Save(time, m.id, Session(m.client, m.opts)) /\ m.opts \in TimeOpts
      BY <2>1 DEF JoinTime
    <3>2. IsTable(time', TimeOpts)
      BY <1>3, <3>1, SaveTable
    <3>3. OwnedIn(time')
      BY <1>2, <1>3, <3>1, TableOwned
    <3> QED BY <3>2, <3>3
  <2>2. CASE LeaveTime(m)
    <3>1. time' = Erase(time, {m.id})
      BY <2>2 DEF LeaveTime
    <3>2. IsTable(time', TimeOpts)
      BY <1>3, <3>1, EraseTable
    <3>3. OwnedIn(time')
      BY <1>2, <1>3, <3>1, TableOwned
    <3> QED BY <3>2, <3>3
  <2> QED BY <2>1, <2>2
<1>5. PICK reqs : /\ Mixed(reqs, m.client, m.id, time, time')
                  /\ apiQ' = apiQ \o reqs /\ ReportNow(reqs, m.client, m.id)
  BY DEF JoinTime, LeaveTime, Remixed
<1>6. reqs \in Seq(Asks)
  BY <1>5, MixedAsks
<1>0. <<>> \in Seq(Asks) OBVIOUS
<1>7. PICK more \in Seq(Asks) : more = <<>>
  BY <1>0
<1>8. apiQ' = apiQ \o (reqs \o more) /\ ToSet(more) = {}
  BY <1>5, <1>6, <1>7, SequencesAsk DEF ToSet
<1> QED BY <1>1, <1>2, <1>3, <1>4, <1>5, <1>8, RemixedEffect

\* ... so does the one from time-based to distance-based,
LEMMA ToDistKeeps ==
  ASSUME Base, NEW m, ToDist(m)
  PROVE  Base'
<1>1. /\ Took(m) /\ m.what = "update" /\ m.opts \in DistOpts /\ m.opts.distance /\ known
      /\ time' = Erase(time, {m.id}) /\ dist' = Save(dist, m.id, Session(m.client, m.opts))
  BY DEF ToDist, DistOpts
<1>2. m.what \in Tellers
  BY <1>1 DEF Tellers
<1>3. /\ TypeOK /\ Owned /\ m \in Items /\ IsTable(time, TimeOpts) /\ IsTable(dist, DistOpts)
      /\ OwnedIn(time) /\ OwnedIn(dist) /\ m.client \in Clients /\ m.id \in Ids
      /\ m \in Messages /\ m.opts \in Opts /\ ValidItem(m)
  BY <1>1, <1>2, Taken
<1>4. m.opts \in DistOpts /\ "distance" \in env
  BY <1>1, <1>3 DEF ValidItem
<1>5. IsTable(time', TimeOpts) /\ OwnedIn(time')
  BY <1>1, <1>2, <1>3, EraseTable, TableOwned
<1>6. IsTable(dist', DistOpts) /\ OwnedIn(dist')
  <2>1. IsTable(dist', DistOpts)
    BY <1>1, <1>3, <1>4, SaveTable
  <2>2. OwnedIn(dist')
    BY <1>1, <1>2, <1>3, <1>4, TableOwned
  <2> QED BY <2>1, <2>2
<1>7. PICK reqs : /\ Mixed(reqs, m.client, m.id, time, time')
                  /\ apiQ' = apiQ \o (reqs \o StartDistance(m.id, m.opts, Silent)) /\ ReportNow(reqs, m.client, m.id)
  BY DEF ToDist
<1> DEFINE r == Request("startDist", m.id, m.opts, Silent)
<1>8. r \in Asks /\ r.op = "startDist" /\ r.id = m.id /\ r.then = Silent /\ StartDistance(m.id, m.opts, Silent) = <<r>>
  BY <1>3, <1>4, StartDistanceOf
<1> HIDE DEF r
<1>9. <<r>> \in Seq(Asks) /\ ToSet(<<r>>) = {r}
  BY <1>8, ElemsUnit
<1>10. PICK more \in Seq(Asks) : more = StartDistance(m.id, m.opts, Silent) /\ ToSet(more) = {r}
  BY <1>8, <1>9
<1>11. apiQ' = apiQ \o (reqs \o more) /\ \A q \in ToSet(more) : q.then = Silent /\ q.op = "startDist"
  BY <1>7, <1>8, <1>10
<1> QED BY <1>1, <1>2, <1>4, <1>5, <1>6, <1>7, <1>11, RemixedEffect

\* ... those that ask the engine about a distance-based session,
LEMMA RequestOutcomesKeep ==
  ASSUME Base, NEW m, JoinDist(m) \/ AskToTime(m) \/ AskRedo(m) \/ AskStop(m) \/ AskAgain(m)
  PROVE  Base'
<1>1. Took(m) /\ m.what \in {"start", "update", "stop", "redo"} /\ time' = time
  BY DEF JoinDist, AskToTime, AskRedo, AskStop, AskAgain
<1>2. m.what \in Tellers
  BY <1>1 DEF Tellers
<1>3. /\ TypeOK /\ Owned /\ m \in Items /\ IsTable(time, TimeOpts) /\ IsTable(dist, DistOpts)
      /\ OwnedIn(time) /\ OwnedIn(dist) /\ m.client \in Clients /\ m.id \in Ids
      /\ DOMAIN dist # {} => "distance" \in env /\ known
      /\ m \in Messages /\ m.opts \in Opts /\ ValidItem(m)
  BY <1>1, <1>2, Taken
<1>4. "distance" \in env /\ known
  <2>1. CASE JoinDist(m)
    BY <1>3, <2>1 DEF JoinDist, ValidItem, DistOpts
  <2>2. CASE AskToTime(m) \/ AskRedo(m) \/ AskStop(m)
    BY <1>3, <2>2 DEF AskToTime, AskRedo, AskStop
  <2>3. CASE AskAgain(m)
    BY <1>3, <2>3 DEF AskAgain, ValidItem, DistKinds
  <2> QED BY <2>1, <2>2, <2>3
<1>5. IsTable(dist', DistOpts) /\ OwnedIn(dist')
  <2>1. CASE JoinDist(m)
    <3>1. dist' = Save(dist, m.id, Session(m.client, m.opts)) /\ m.opts \in DistOpts
      BY <2>1 DEF JoinDist
    <3>2. IsTable(dist', DistOpts)
      BY <1>3, <3>1, SaveTable
    <3>3. OwnedIn(dist')
      BY <1>2, <1>3, <3>1, TableOwned
    <3> QED BY <3>2, <3>3
  <2>2. CASE AskToTime(m)
    <3>1. dist' = Erase(dist, {m.id})
      BY <2>2 DEF AskToTime
    <3>2. IsTable(dist', DistOpts)
      BY <1>3, <3>1, EraseTable
    <3>3. OwnedIn(dist')
      BY <1>2, <1>3, <3>1, TableOwned
    <3> QED BY <3>2, <3>3
  <2>3. CASE AskRedo(m) \/ AskStop(m) \/ AskAgain(m)
    <3>1. dist' = dist
      BY <2>3 DEF AskRedo, AskStop, AskAgain
    <3> QED BY <1>3, <3>1
  <2> QED BY <2>1, <2>2, <2>3
<1>6. \E r \in Asks : /\ Asked(r) /\ r.op \in {"startDist", "stopDist"} /\ r.then.what \in Tellers
                      /\ r.then.id = m.id /\ r.then.client = m.client /\ ValidItem(r.then)
  <2>1. ASSUME NEW what \in {"distStarted", "distStopped", "toTime", "redo", "redone"}, NEW o \in Opts, NEW o2 \in Opts,
               NEW op \in {"startDist", "stopDist"},
               what \in {"distStarted", "redone"} <=> op = "startDist",
               what \in {"distStarted", "redone", "redo"} => o.distance,
               what = "toTime" => ~o.distance, what # "distStopped" => o.interval > 0,
               what \in {"redo", "redone"} => "updates" \in env,
               Asked(Request(op, m.id, o2, Msg(what, m.client, m.id, o)))
        PROVE  \E r \in Asks : /\ Asked(r) /\ r.op \in {"startDist", "stopDist"} /\ r.then.what \in Tellers
                               /\ r.then.id = m.id /\ r.then.client = m.client /\ ValidItem(r.then)
    <3> DEFINE r == Request(op, m.id, o2, Msg(what, m.client, m.id, o))
    <3>1. /\ r \in Asks /\ r.op = op /\ r.then.what = what /\ r.then.client = m.client /\ r.then.id = m.id
          /\ r.then.opts = o /\ ~r.then.err /\ r.then.what \in Tellers
      BY <1>3, <2>1, AskedOf
    <3>2. Asked(r)
      BY <2>1
    <3> HIDE DEF r
    <3>3. ValidItem(r.then)
      BY <1>4, <2>1, <3>1 DEF ValidItem
    <3> QED BY <3>1, <3>2, <3>3
  <2>2. CASE JoinDist(m)
    <3>1. /\ Asked(Request("startDist", m.id, m.opts, Msg("distStarted", m.client, m.id, m.opts)))
          /\ m.opts.distance /\ m.opts.interval > 0
      BY <1>3, <2>2 DEF JoinDist, DistOpts
    <3> QED BY <1>3, <2>1, <3>1
  <2>3. CASE AskToTime(m)
    <3>1. /\ Asked(Request("stopDist", m.id, NoOptions, Msg("toTime", m.client, m.id, m.opts)))
          /\ ~m.opts.distance /\ m.opts.interval > 0
      BY <1>3, <2>3 DEF AskToTime, TimeOpts
    <3> QED BY <1>3, <2>1, <3>1, NoOptsIs
  <2>4. CASE AskRedo(m)
    <3>1. /\ Asked(Request("stopDist", m.id, NoOptions, Msg("redo", m.client, m.id, m.opts)))
          /\ m.opts.distance /\ m.opts.interval > 0 /\ "updates" \in env
      BY <1>3, <2>4 DEF AskRedo, DistOpts, ValidItem
    <3> QED BY <1>3, <2>1, <3>1, NoOptsIs
  <2>5. CASE AskStop(m)
    <3>1. Asked(Request("stopDist", m.id, NoOptions, Msg("distStopped", m.client, m.id, NoOptions)))
      BY <2>5 DEF AskStop
    <3> QED BY <1>3, <2>1, <3>1, NoOptsIs
  <2>6. CASE AskAgain(m)
    <3>1. /\ Asked(Request("startDist", m.id, m.opts, Msg("redone", m.client, m.id, m.opts)))
          /\ m.opts.distance /\ m.opts.interval > 0 /\ "updates" \in env
      BY <1>3, <2>6 DEF AskAgain, Messages, ValidItem
    <3> QED BY <1>3, <2>1, <3>1
  <2> QED BY <2>2, <2>3, <2>4, <2>5, <2>6
<1> QED BY <1>1, <1>2, <1>4, <1>5, <1>6, AskedEffect

\* ... those that ask it nothing,
LEMMA QuietOutcomesKeep ==
  ASSUME Base, NEW m,
         \/ NoSession(m) \/ Settled(m) \/ Failed(m) \/ Reverted(m) \/ Ended(m) \/ Redone(m) \/ Removed(m) \/ Forgotten(m)
  PROVE  Base'
<1>1. /\ Took(m) /\ apiQ' = apiQ
      /\ m.what \in {"start", "update", "stop", "started", "distStarted", "updated", "stopped", "distStopped", "redone", "redo", "removed"}
  BY DEF NoSession, Settled, Failed, Reverted, Ended, Redone, Removed, Forgotten, Told
<1>2. m.what \in Tellers \cup {"removed"} /\ m.what # "engineUp"
  BY <1>1 DEF Tellers
<1>3. /\ TypeOK /\ Owned /\ m \in Items /\ IsTable(time, TimeOpts) /\ IsTable(dist, DistOpts)
      /\ OwnedIn(time) /\ OwnedIn(dist) /\ m.client \in Clients /\ m.id \in Ids
      /\ DOMAIN dist # {} => "distance" \in env /\ known
      /\ m \in Messages /\ m.opts \in Opts /\ ValidItem(m)
  BY <1>1, <1>2, Taken
<1>4. /\ IsTable(time', TimeOpts) /\ IsTable(dist', DistOpts) /\ OwnedIn(time') /\ OwnedIn(dist')
      /\ DOMAIN dist' # {} => "distance" \in env /\ known
  <2>1. CASE time' = time /\ dist' = dist
    BY <1>3, <2>1
  <2>2. CASE EraseSession(m.id)
    BY <1>1, <1>2, <2>2, EraseSessionOf
  <2>3. CASE Reverted(m)
    <3>1. time' = Save(time, m.id, Session(m.client, m.opts)) /\ dist' = dist /\ m.opts \in TimeOpts
      BY <1>3, <2>3 DEF Reverted, Messages, TimeOpts
    <3>2. IsTable(time', TimeOpts)
      BY <1>3, <3>1, SaveTable
    <3>3. OwnedIn(time')
      BY <1>2, <1>3, <3>1, TableOwned
    <3> QED BY <1>3, <3>1, <3>2, <3>3
  <2>4. CASE Redone(m)
    <3>1. time' = time /\ dist' = Save(dist, m.id, Session(m.client, m.opts)) /\ m.opts \in DistOpts
      BY <1>3, <2>4 DEF Redone, Messages, DistOpts
    <3>2. IsTable(dist', DistOpts)
      BY <1>3, <3>1, SaveTable
    <3>3. OwnedIn(dist')
      BY <1>2, <1>3, <3>1, TableOwned
    <3>4. "distance" \in env /\ known
      BY <1>3, <2>4 DEF Redone, ValidItem, DistKinds
    <3> QED BY <1>3, <3>1, <3>2, <3>3, <3>4
  <2>5. \/ time' = time /\ dist' = dist
        \/ EraseSession(m.id) \/ Reverted(m) \/ Redone(m)
    BY DEF NoSession, Settled, Failed, Ended, Removed, Forgotten
  <2> QED BY <2>1, <2>2, <2>3, <2>4, <2>5
<1>5. CASE Removed(m)
  <2>1. client' = client /\ m.what \notin Tellers
    BY <1>5 DEF Removed, Tellers
  <2> QED BY <1>1, <1>2, <1>4, <2>1, QuietEffect
<1>6. CASE NoSession(m) \/ Settled(m) \/ Failed(m) \/ Reverted(m) \/ Ended(m) \/ Redone(m) \/ Forgotten(m)
  <2>1. Report(m.client, m.id) \/ Drop(m.client, m.id)
    BY <1>6 DEF NoSession, Settled, Failed, Reverted, Ended, Redone, Told, Forgotten
  <2>2. m.what \in Tellers
    BY <1>6 DEF NoSession, Settled, Failed, Reverted, Ended, Redone, Forgotten, Tellers
  <2> QED BY <1>1, <1>2, <1>4, <2>1, <2>2, QuietEffect
<1> QED BY <1>5, <1>6

\* Answers to nobody's session leave the tally alone.
LEMMA UncountedEffect ==
  ASSUME Base, NEW m, Took(m), m.what \in {"remove", "config"}, client' = client,
         NEW reqs \in Seq(Asks), apiQ' = apiQ \o reqs,
         \A r \in ToSet(reqs) : /\ ValidItem(r.then) /\ OwnedItem(r.then)
                                /\ r.op \in {"startDist", "stopDist"} => "distance" \in env /\ known
                                /\ \A c \in Clients : client[c].session # 0 => r \notin RepAsks(client[c].session),
         IsTable(time', TimeOpts), IsTable(dist', DistOpts), OwnedIn(time'), OwnedIn(dist'),
         DOMAIN dist' # {} => "distance" \in env /\ known
  PROVE  Base'
<1>1. m.what \notin Tellers /\ m.what # "engineUp"
  BY DEF Tellers
<1>2. \A s : One(m, Rep(s)) = 0
  BY <1>1 DEF One, Rep
<1>3. ASSUME NEW c \in Clients, client[c].session # 0
      PROVE  Count(reqs, RepAsks(client[c].session)) = 0
  <2>1. ToSet(reqs) \cap RepAsks(client[c].session) = {}
    BY <1>3
  <2> QED BY <2>1, CountNat
<1>4. Effect(m, reqs, FALSE)
  BY <1>1, <1>2, <1>3 DEF Effect, Took
<1> QED BY <1>4, EffectKeeps

\* ... the removal of a client, whose sessions are nobody's by now,
LEMMA RemoveAllKeeps ==
  ASSUME Base, NEW m, RemoveAll(m)
  PROVE  Base'
<1>1. Took(m) /\ m.what = "remove" /\ HandleRemove(m)
  BY DEF RemoveAll
<1>2. /\ TypeOK /\ Owned /\ m \in Posts /\ m \in Messages /\ OwnedItem(m) /\ IsTable(time, TimeOpts) /\ IsTable(dist, DistOpts)
      /\ OwnedIn(time) /\ OwnedIn(dist) /\ apiQ \in Seq(Asks)
      /\ DOMAIN dist # {} => "distance" \in env /\ known
  BY <1>1, Taken
<1>3. m.client \in Clients /\ client[m.client].session = 0
  <2>1. m.client \in Clients
    BY <1>1, <1>2 DEF Messages
  <2>2. ~client[m.client].alive
    BY <1>1, <1>2 DEF OwnedItem
  <2> QED BY <1>2, <2>1, <2>2 DEF Owned, OwnedClient
<1>4. client' = client /\ dist' = dist /\ time' = Erase(time, Mine(time, m.client))
  BY <1>1, <1>2, RemoveOf
<1>5. PICK fixes, stops : Removes(m.client, fixes, stops) /\ apiQ' = apiQ \o (fixes \o stops)
  BY <1>1, <1>2, RemoveOf
<1> DEFINE reqs == fixes \o stops
<1>6. reqs \in Seq(Asks) /\ ToSet(reqs) = ToSet(fixes) \cup ToSet(stops) /\ ToSet(reqs) \subseteq Asks
  <2>1. reqs \in Seq(Asks) /\ ToSet(reqs) = ToSet(fixes) \cup ToSet(stops)
    BY <1>5, ElemsCat DEF Removes
  <2> HIDE DEF reqs
  <2> QED BY <2>1, ElemsOf
<1> HIDE DEF reqs
<1>7. IsTable(time', TimeOpts) /\ OwnedIn(time')
  <2>1. /\ IsTable(time', TimeOpts)
        /\ \A i : i \in DOMAIN time' <=> i \in DOMAIN time /\ i \notin Mine(time, m.client)
        /\ \A i \in DOMAIN time : i \notin Mine(time, m.client) => time'[i] = time[i]
    BY <1>2, <1>4, EraseTable
  <2> QED BY <1>2, <2>1 DEF OwnedIn
\* The sessions removed are no client's any more.
<1>8. ASSUME NEW t, NEW D, IsTable(t, D), OwnedIn(t), NEW i \in Mine(t, m.client)
      PROVE  i <= bounds.ids /\ \A c \in Clients : client[c].session # i
  <2>1. i \in DOMAIN t /\ t[i].client = m.client
    BY DEF Mine
  <2>2. i <= bounds.ids /\ \A c \in Clients : client[c].session = i => c = m.client
    BY <1>8, <2>1 DEF OwnedIn
  <2>3. i # 0
    BY <1>8, <2>1 DEF IsTable, Ids
  <2>4. ASSUME NEW c \in Clients, client[c].session = i PROVE FALSE
    BY <1>3, <2>2, <2>3, <2>4
  <2> QED BY <2>2, <2>4
<1>9. ASSUME NEW r \in ToSet(reqs)
      PROVE  /\ ValidItem(r.then) /\ OwnedItem(r.then)
             /\ r.op \in {"startDist", "stopDist"} => "distance" \in env /\ known
             /\ \A c \in Clients : client[c].session # 0 => r \notin RepAsks(client[c].session)
  <2>1. r \in Asks /\ ~r.then.err
    BY <1>6 DEF Asks
  <2>2. CASE r \in ToSet(fixes)
    <3>1. /\ r.op \in {"start", "stop"} /\ r.then.what \in {"started", "updated", "stopped"}
          /\ r.then.client = m.client /\ r.then.id \in Mine(time, m.client) /\ ~r.then.opts.distance
      BY <1>5, <2>2 DEF Removes
    <3>2. r.then.id <= bounds.ids /\ \A c \in Clients : client[c].session # r.then.id
      BY <1>2, <1>8, <3>1
    <3>3. ValidItem(r.then) /\ OwnedItem(r.then)
      BY <2>1, <3>1, <3>2 DEF ValidItem, OwnedItem, DistKinds
    <3> QED BY <3>1, <3>2, <3>3 DEF RepAsks, Rep
  <2>3. CASE r \in ToSet(stops)
    <3>1. /\ r.op = "stopDist" /\ r.then.what = "removed" /\ r.then.client = m.client
          /\ r.then.id \in Mine(dist, m.client) /\ ~r.then.opts.distance
      BY <1>5, <2>3 DEF Removes
    <3>2. r.then.id <= bounds.ids /\ \A c \in Clients : client[c].session # r.then.id
      BY <1>2, <1>8, <3>1
    <3>3. "distance" \in env /\ known
      BY <1>2, <3>1 DEF Mine
    <3>4. ValidItem(r.then) /\ OwnedItem(r.then)
      BY <2>1, <3>1, <3>2, <3>3 DEF ValidItem, OwnedItem
    <3> QED BY <3>1, <3>2, <3>3, <3>4 DEF RepAsks, Rep
  <2> QED BY <1>6, <2>2, <2>3
<1>10. apiQ' = apiQ \o reqs
  BY <1>5 DEF reqs
<1> QED BY <1>1, <1>2, <1>4, <1>6, <1>7, <1>9, <1>10, UncountedEffect

\* ... and the restart of the sessions for a configuration call.
LEMMA ConfiguredKeeps ==
  ASSUME Base, NEW m, Configured(m)
  PROVE  Base'
<1>1. Took(m) /\ m.what = "config" /\ known /\ client' = client /\ time' = time /\ dist' = dist
  BY DEF Configured
<1>2. /\ TypeOK /\ IsTable(time, TimeOpts) /\ IsTable(dist, DistOpts) /\ OwnedIn(time) /\ OwnedIn(dist)
      /\ DOMAIN dist # {} => "distance" \in env /\ known
  BY <1>1, Taken
<1>3. /\ SuspendSessions \in Seq(Asks) /\ \A r \in ToSet(SuspendSessions) : r.then = Silent /\ r.op = "stop"
  BY SuspendOf
<1>4. /\ RestartSessions \in Seq(Asks)
      /\ \A r \in ToSet(RestartSessions) : /\ r.then = Silent /\ r.op \in {"start", "startDist"}
                                           /\ r.op = "startDist" => r.id \in DOMAIN dist
  BY <1>2, RestartOf DEF Restarts
<1>5. /\ SuspendSessions \o RestartSessions \in Seq(Asks)
      /\ ToSet(SuspendSessions \o RestartSessions) = ToSet(SuspendSessions) \cup ToSet(RestartSessions)
  BY <1>3, <1>4, ElemsCat
<1>6. PICK reqs : reqs = SuspendSessions \o RestartSessions OBVIOUS
<1>7. /\ reqs \in Seq(Asks) /\ apiQ' = apiQ \o reqs
      /\ \A r \in ToSet(reqs) : r.then = Silent /\ (r.op \in {"startDist", "stopDist"} => DOMAIN dist # {})
  <2>1. apiQ' = apiQ \o reqs
    BY <1>6 DEF Configured
  <2>2. \A r \in ToSet(reqs) : r \in ToSet(SuspendSessions) \/ r \in ToSet(RestartSessions)
    BY <1>5, <1>6
  <2>3. ASSUME NEW r \in ToSet(reqs)
        PROVE  r.then = Silent /\ (r.op \in {"startDist", "stopDist"} => DOMAIN dist # {})
    <3>1. CASE r \in ToSet(SuspendSessions)
      BY <1>3, <3>1
    <3>2. CASE r \in ToSet(RestartSessions)
      BY <1>4, <3>2
    <3> QED BY <2>2, <3>1, <3>2
  <2> QED BY <1>5, <1>6, <2>1, <2>3
<1>8. ASSUME NEW r \in ToSet(reqs)
      PROVE  /\ ValidItem(r.then) /\ OwnedItem(r.then)
             /\ r.op \in {"startDist", "stopDist"} => "distance" \in env /\ known
             /\ \A c \in Clients : client[c].session # 0 => r \notin RepAsks(client[c].session)
  BY <1>2, <1>7, SilentValid, SilentRep DEF RepAsks
<1> QED BY <1>1, <1>2, <1>7, <1>8, UncountedEffect

----
(* Every handler comes to an outcome, waits, or the capabilities are known *)

\* With the handler's message a name of its own.
LEMMA HeadHandled ==
  ASSUME TypeOK, Proc
  PROVE  \E m \in Posts :
           /\ msgQ # <<>> /\ m = Head(msgQ) /\ UNCHANGED <<engine, bounds, env>>
           /\ msgQ' = Tail(msgQ) \o (IF m.what = "engineUp" THEN pending ELSE <<>>)
           /\ \/ m.what = "start" /\ HandleStart(m)
              \/ m.what = "update" /\ HandleUpdate(m)
              \/ m.what = "stop" /\ HandleStop(m)
              \/ m.what = "remove" /\ HandleRemove(m)
              \/ m.what = "config" /\ HandleConfig(m)
              \/ m.what = "engineUp" /\ HandleEngineUp(m)
              \/ m.what \in {"started", "distStarted"} /\ AnswerStarted(m)
              \/ m.what = "updated" /\ AnswerUpdated(m)
              \/ m.what = "stopped" /\ AnswerStopped(m)
              \/ m.what = "distStopped" /\ AnswerDistStopped(m)
              \/ m.what = "removed" /\ AnswerRemoved(m)
              \/ m.what = "toTime" /\ AnswerToTime(m)
              \/ m.what = "redo" /\ AnswerRedo(m)
              \/ m.what = "redone" /\ AnswerRedone(m)
<1>1. msgQ # <<>> /\ msgQ \in Seq(Posts)
  BY DEF TypeOK, Proc
<1>2. Head(msgQ) \in Posts
  BY <1>1, ElemsTail
<1> QED BY <1>1, <1>2 DEF Proc

\* Everything but the answer of the engine's opening takes the first message off.
LEMMA TakenOff ==
  ASSUME TypeOK, NEW m \in Posts, msgQ # <<>>, m = Head(msgQ), m.what # "engineUp",
         msgQ' = Tail(msgQ) \o (IF m.what = "engineUp" THEN pending ELSE <<>>)
  PROVE  msgQ' = Tail(msgQ)
<1>1. msgQ' = Tail(msgQ) \o <<>> OBVIOUS
<1>2. Tail(msgQ) \in Seq(Posts)
  BY ElemsTail DEF TypeOK
<1> QED BY <1>1, <1>2

\* Every message has an outcome, waits, or is the engine's opening.
LEMMA ProcOutcomes ==
  ASSUME TypeOK, Proc
  PROVE  \E m : Outcome(m) \/ Deferred(m) \/ \E reqs : EngineUp(m, reqs)
<1>1. PICK m \in Posts :
           /\ msgQ # <<>> /\ m = Head(msgQ) /\ UNCHANGED <<engine, bounds, env>>
           /\ msgQ' = Tail(msgQ) \o (IF m.what = "engineUp" THEN pending ELSE <<>>)
           /\ \/ m.what = "start" /\ HandleStart(m)
              \/ m.what = "update" /\ HandleUpdate(m)
              \/ m.what = "stop" /\ HandleStop(m)
              \/ m.what = "remove" /\ HandleRemove(m)
              \/ m.what = "config" /\ HandleConfig(m)
              \/ m.what = "engineUp" /\ HandleEngineUp(m)
              \/ m.what \in {"started", "distStarted"} /\ AnswerStarted(m)
              \/ m.what = "updated" /\ AnswerUpdated(m)
              \/ m.what = "stopped" /\ AnswerStopped(m)
              \/ m.what = "distStopped" /\ AnswerDistStopped(m)
              \/ m.what = "removed" /\ AnswerRemoved(m)
              \/ m.what = "toTime" /\ AnswerToTime(m)
              \/ m.what = "redo" /\ AnswerRedo(m)
              \/ m.what = "redone" /\ AnswerRedone(m)
  BY HeadHandled
<1> SUFFICES Outcome(m) \/ Deferred(m) \/ \E reqs : EngineUp(m, reqs)
  OBVIOUS
<1>2. m.what # "engineUp" => msgQ' = Tail(msgQ)
  BY <1>1, TakenOff
<1>3. ASSUME m.what # "engineUp", UNCHANGED <<known, pending>> PROVE Took(m)
  BY <1>1, <1>2, <1>3 DEF Took
<1>4. ASSUME Defer(m), ~known, m.what \in {"start", "update", "config"}, m.what = "config" \/ m.opts.distance
      PROVE  Deferred(m)
  <2>1. m \in Defers
    BY <1>4 DEF Defers
  <2> QED BY <1>1, <1>2, <1>4, <2>1 DEF Defer, Deferred
<1>5. CASE m.what = "start" /\ HandleStart(m)
  <2>1. CASE Late(m)
    BY <1>4, <1>5, <2>1 DEF HandleStart, Late
  <2>2. CASE ~Late(m)
    <3>1. UNCHANGED <<known, pending>>
      BY <1>5, <2>2 DEF HandleStart, adapter
    <3> QED BY <1>3, <1>5, <2>2, <3>1, StartOutcome DEF Outcome
  <2> QED BY <2>1, <2>2
<1>6. CASE m.what = "update" /\ HandleUpdate(m)
  <2>1. CASE Late(m)
    BY <1>4, <1>6, <2>1 DEF HandleUpdate, Late
  <2>2. CASE ~Late(m)
    <3>1. UNCHANGED <<known, pending>>
      BY <1>6, <2>2 DEF HandleUpdate
    <3> QED BY <1>3, <1>6, <2>2, <3>1, UpdateOutcome DEF Outcome
  <2> QED BY <2>1, <2>2
<1>7. CASE m.what = "stop" /\ HandleStop(m)
  <2>1. UNCHANGED <<known, pending>>
    BY <1>7 DEF HandleStop
  <2> QED BY <1>3, <1>7, <2>1, StopOutcome DEF Outcome
<1>8. CASE m.what = "remove" /\ HandleRemove(m)
  <2>1. UNCHANGED <<known, pending>>
    BY <1>8 DEF HandleRemove
  <2> QED BY <1>3, <1>8, <2>1 DEF Outcome, RemoveAll
<1>9. CASE m.what = "config" /\ HandleConfig(m)
  <2>1. CASE ~known
    BY <1>4, <1>9, <2>1 DEF HandleConfig
  <2>2. CASE known
    <3>1. Ask(SuspendSessions \o RestartSessions) /\ UNCHANGED <<client, time, dist, known, pending>>
      BY <1>9, <2>2 DEF HandleConfig, adapter
    <3> QED BY <1>3, <1>9, <2>2, <3>1 DEF Outcome, Configured, Ask
  <2> QED BY <2>1, <2>2
<1>10. CASE m.what = "engineUp" /\ HandleEngineUp(m)
  <2>1. /\ RestartSessions \in Seq(Asks)
        /\ \A r \in ToSet(RestartSessions) : /\ r.then = Silent /\ r.op \in {"start", "startDist"}
                                             /\ r.op = "startDist" => r.id \in DOMAIN dist
    BY RestartOf DEF Restarts
  <2>2. PICK reqs : reqs = RestartSessions OBVIOUS
  <2>3. /\ known' = TRUE /\ apiQ' = apiQ \o reqs /\ pending' = <<>> /\ UNCHANGED <<client, time, dist>>
    BY <1>10, <2>2 DEF HandleEngineUp, Ask
  <2>4. msgQ' = Tail(msgQ) \o pending
    BY <1>1, <1>10
  <2>5. \A r \in ToSet(reqs) : r.then = Silent /\ (r.op \in {"startDist", "stopDist"} => DOMAIN dist # {})
    BY <2>1, <2>2
  <2>6. EngineUp(m, reqs)
    BY <1>1, <1>10, <2>1, <2>2, <2>3, <2>4, <2>5 DEF EngineUp
  <2> QED BY <2>6
<1>11. CASE m.what = "toTime" /\ AnswerToTime(m)
  <2>1. UNCHANGED <<known, pending>>
    BY <1>11 DEF AnswerToTime
  <2> QED BY <1>3, <1>11, <2>1, ToTimeOutcome DEF Outcome
<1>12. CASE \/ m.what \in {"started", "distStarted"} /\ AnswerStarted(m)
            \/ m.what = "updated" /\ AnswerUpdated(m)
            \/ m.what = "stopped" /\ AnswerStopped(m)
            \/ m.what = "distStopped" /\ AnswerDistStopped(m)
            \/ m.what = "removed" /\ AnswerRemoved(m)
            \/ m.what = "redo" /\ AnswerRedo(m)
            \/ m.what = "redone" /\ AnswerRedone(m)
  <2>1. m.what # "engineUp"
    BY <1>12
  <2>2. UNCHANGED <<known, pending>>
    BY <1>12 DEF AnswerStarted, AnswerUpdated, AnswerStopped, AnswerDistStopped, AnswerRemoved, AnswerRedo, AnswerRedone, adapter
  <2>3. Took(m)
    BY <1>3, <2>1, <2>2
  <2> QED BY <1>12, <2>3, AnswerOutcome
<1> QED BY <1>1, <1>5, <1>6, <1>7, <1>8, <1>9, <1>10, <1>11, <1>12

----
(* The theorems *)

\* All outcomes keep the invariant,
LEMMA OutcomeKeeps ==
  ASSUME Base, NEW m, Outcome(m)
  PROVE  Base'
<1>1. CASE JoinTime(m) \/ LeaveTime(m)
  BY <1>1, FixOutcomesKeep
<1>2. CASE ToDist(m)
  BY <1>2, ToDistKeeps
<1>3. CASE JoinDist(m) \/ AskToTime(m) \/ AskRedo(m) \/ AskStop(m) \/ AskAgain(m)
  BY <1>3, RequestOutcomesKeep
<1>4. CASE \/ NoSession(m) \/ Settled(m) \/ Failed(m) \/ Reverted(m) \/ Ended(m) \/ Redone(m) \/ Removed(m) \/ Forgotten(m)
  BY <1>4, QuietOutcomesKeep
<1>5. CASE RemoveAll(m)
  BY <1>5, RemoveAllKeeps
<1>6. CASE Configured(m)
  BY <1>6, ConfiguredKeeps
<1> QED BY <1>1, <1>2, <1>3, <1>4, <1>5, <1>6 DEF Outcome

\* ... and so does the MsgTask.
LEMMA ProcKeeps ==
  ASSUME Base, Proc
  PROVE  Base'
<1>1. TypeOK
  BY DEF Base
<1>2. PICK m : Outcome(m) \/ Deferred(m) \/ \E reqs : EngineUp(m, reqs)
  BY <1>1, ProcOutcomes
<1>3. CASE Outcome(m)
  BY <1>3, OutcomeKeeps
<1>4. CASE Deferred(m)
  BY <1>4, DeferredKeeps
<1>5. ASSUME NEW reqs, EngineUp(m, reqs) PROVE Base'
  BY <1>5, EngineUpKeeps
<1> QED BY <1>2, <1>3, <1>4, <1>5

\* The invariant holds at the start,
LEMMA BaseInit == Init /\ "basic" \notin env => Base
<1> SUFFICES ASSUME Init, "basic" \notin env PROVE Base OBVIOUS
<1>1. /\ client = [c \in Clients |-> Idle] /\ time = <<>> /\ dist = <<>> /\ pending = <<>> /\ msgQ = <<>>
      /\ engine = Off /\ bounds = [ids |-> 0, calls |-> 0, restarts |-> 0]
      /\ env \in Environments /\ known = ("early" \notin env)
      /\ apiQ = IF known THEN <<>> ELSE <<Ssr>>
  BY DEF Init
<1>2. Idle \in Record /\ Idle.alive /\ ~Idle.tracking /\ Idle.session = 0 /\ Idle.queue = <<>> /\ Idle.dropped = 0
  BY NoOptsIs DEF Idle, Record
<1>3. client \in [Clients -> Record] /\ \A c \in Clients : client[c] = Idle
  BY <1>1, <1>2
<1>4. <<>> \in Seq(Posts) /\ <<>> \in Seq(Defers) /\ <<>> \in Seq(Asks) /\ ToSet(<<>>) = {}
  BY DEF ToSet
<1>5. /\ apiQ \in Seq(Asks) /\ \A r \in ToSet(apiQ) : r = Ssr
      /\ ~known => \E r \in ToSet(apiQ) : r.op = "ssr"
  <2>1. CASE known
    <3>1. apiQ = <<>>
      BY <1>1, <2>1
    <3> QED BY <1>4, <2>1, <3>1
  <2>2. CASE ~known
    <3>1. apiQ = <<Ssr>>
      BY <1>1, <2>2
    <3>2. <<Ssr>> \in Seq(Asks) /\ ToSet(<<Ssr>>) = {Ssr}
      BY SsrIs, ElemsUnit
    <3> QED BY <3>1, <3>2, SsrIs
  <2> QED BY <2>1, <2>2
<1>6. IsTable(<<>>, TimeOpts) /\ IsTable(<<>>, DistOpts)
  BY FS_EmptySet DEF IsTable
<1>7. TypeOK
  BY <1>1, <1>3, <1>4, <1>5, <1>6 DEF TypeOK, Off, NoFix
<1>8. Items \subseteq {Silent}
  BY <1>1, <1>4, <1>5, SsrIs DEF Items, Thens
<1>9. ValidItem(Silent) /\ OwnedItem(Silent)
  BY <1>7, SilentValid
<1>10. Valid
  BY <1>1, <1>5, <1>8, <1>9, SsrIs DEF Valid
<1>11. Waiting
  BY <1>1, <1>5 DEF Waiting
<1>12. Owned
  <2>1. OwnedIn(time) /\ OwnedIn(dist)
    BY <1>1 DEF OwnedIn
  <2>2. \A c \in Clients : OwnedClient(c)
    BY <1>1, <1>2, <1>3 DEF OwnedClient
  <2> QED BY <1>8, <1>9, <2>1, <2>2 DEF Owned
<1>13. Tallied
  BY <1>2, <1>3 DEF Tallied
<1> QED BY <1>7, <1>10, <1>11, <1>12, <1>13 DEF Base

\* ... and every step keeps it.
LEMMA BaseNext == Base /\ [Next]_vars => Base'
<1> SUFFICES ASSUME Base, [Next]_vars PROVE Base' OBVIOUS
<1>1. ASSUME NEW c \in Clients, NEW o \in StartOptions, StartTracking(c, o) PROVE Base'
  BY <1>1, StartKeeps
<1>2. ASSUME NEW c \in Clients, NEW o \in UpdateOptions(c), UpdateTracking(c, o) PROVE Base'
  BY <1>2, UpdateKeeps
<1>3. ASSUME NEW c \in Clients, StopTracking(c) PROVE Base'
  BY <1>3, StopKeeps
<1>4. ASSUME NEW c \in Clients, Destroy(c) PROVE Base'
  BY <1>4, DestroyKeeps
<1>5. CASE UpdateConfig
  BY <1>5, ConfigKeeps
<1>6. CASE Proc
  BY <1>6, ProcKeeps
<1>7. ASSUME NEW refused \in BOOLEAN, EngineAnswers(refused) PROVE Base'
  BY <1>7, EngineAnswersKeeps
<1>8. CASE EngineOpened(TRUE) \/ EngineOpened(FALSE)
  BY <1>8, EngineOpenedKeeps, EngineNotOpenedKeeps
<1>9. CASE EngineRestarts
  BY <1>9, EngineRestartsKeeps
<1>10. CASE UNCHANGED vars
  <2>1. Due(0)' = Due(0) /\ \A s : Due(s)' = Due(s)
    BY <1>10 DEF vars, Due
  <2>2. TypeOK' /\ Valid' /\ Waiting' /\ Owned'
    BY <1>10 DEF vars, Base, TypeOK, Valid, Waiting, Owned, ValidItem, OwnedItem, OwnedIn, OwnedClient, Items, Thens
  <2>3. Tallied'
    BY <1>10, <2>1 DEF vars, Base, Tallied
  <2> QED BY <2>2, <2>3 DEF Base
<1> QED BY <1>1, <1>2, <1>3, <1>4, <1>5, <1>6, <1>7, <1>8, <1>9, <1>10 DEF Next, Api

\* No step changes the environment.
LEMMA EnvironmentStays == [Next]_vars => env' = env
<1> SUFFICES ASSUME [Next]_vars PROVE env' = env OBVIOUS
<1>1. ASSUME NEW c \in Clients, NEW o, StartTracking(c, o) \/ UpdateTracking(c, o) \/ StopTracking(c) \/ Destroy(c)
      PROVE  env' = env
  BY <1>1 DEF StartTracking, UpdateTracking, StopTracking, Destroy
<1>2. ASSUME UpdateConfig \/ Proc \/ EngineRestarts PROVE env' = env
  BY <1>2 DEF UpdateConfig, Proc, EngineRestarts
<1>3. ASSUME NEW ok \in BOOLEAN, EngineAnswers(~ok) \/ EngineOpened(ok) PROVE env' = env
  BY <1>3 DEF EngineAnswers, EngineOpened
<1> QED BY <1>1, <1>2, <1>3 DEF Next, Api, vars

\* With an engine that has distance-based sessions, in every state the types are
\* right, sessions and messages are one client's, what waits for the engine's
\* capabilities waits in vain only if the engine does not open, and the answers
\* each client waits for are those on their way and those of the calls the
\* adapter has dropped: rejected starts, and updates the engine refused to begin.
THEOREM BaseInvariant == Spec => []("basic" \notin env => Base)
<1>1. Init => ("basic" \notin env => Base)
  BY BaseInit
<1>2. ("basic" \notin env => Base) /\ [Next]_vars => ("basic" \notin env => Base)'
  BY BaseNext, EnvironmentStays
<1> QED BY <1>1, <1>2, PTL DEF Spec

\* With nothing on its way the calls outstanding are those that were dropped.
LEMMA BaseAnswers == Base => Answered
<1> SUFFICES ASSUME Base, Quiet
             PROVE  /\ pending = <<>> => \A c \in Clients : Len(client[c].queue) = client[c].dropped
                    /\ "refusal" \notin env => pending = <<>>
  BY DEF Answered
<1>1. TypeOK /\ Waiting /\ Owned /\ Tallied /\ msgQ = <<>> /\ apiQ = <<>>
  BY DEF Base, Quiet
<1>2. ToSet(msgQ) = {} /\ ToSet(apiQ) = {}
  BY <1>1 DEF ToSet
<1>3. "refusal" \notin env => pending = <<>>
  BY <1>1, <1>2 DEF Waiting
<1>4. ASSUME pending = <<>>, NEW c \in Clients PROVE Len(client[c].queue) = client[c].dropped
  <2>1. CASE client[c].session = 0
    <3>1. client[c].queue = <<>> /\ client[c].dropped = 0
      BY <1>1, <2>1 DEF Owned, OwnedClient
    <3> QED BY <3>1
  <2>2. CASE client[c].session # 0
    <3> DEFINE s == client[c].session
    <3>1. /\ msgQ \in Seq(Posts) /\ apiQ \in Seq(Asks) /\ pending \in Seq(Defers)
          /\ ToSet(pending) = {}
      BY <1>1, <1>4 DEF TypeOK, ToSet
    <3>2. Count(msgQ, Rep(s)) = 0 /\ Count(pending, Rep(s)) = 0 /\ Count(apiQ, RepAsks(s)) = 0
      BY <1>2, <3>1, CountNat
    <3>3. Due(s) = 0 /\ client[c].dropped \in Nat
      BY <1>1, <3>2 DEF Due, TypeOK, Record
    <3> QED BY <1>1, <2>2, <3>3 DEF Tallied
  <2> QED BY <2>1, <2>2
<1> QED BY <1>3, <1>4

\* Once nothing is on its way, the answers still missing are those of the two calls
\* the adapter drops (GnssAdapter.cpp:2881, 3149): with any number of clients,
\* restarts, refusals and rejected calls, in every order.
THEOREM EveryCallIsAnswered == Spec => []("basic" \notin env => Answered)
<1>1. Spec => []("basic" \notin env => Base)
  BY BaseInvariant
<1>2. ("basic" \notin env => Base) => ("basic" \notin env => Answered)
  BY BaseAnswers
<1> QED BY <1>1, <1>2, PTL
----
(* Where the sessions are *)

\* Where the code keeps sessions and calls in order.
Orderly ==
    /\ "refusal" \notin env /\ "rejection" \notin env /\ "basic" \notin env
    /\ "distance" \in env /\ ("early" \in env \/ "updates" \in env) => "patient" \in env

\* c is the client of session i, as a table or something on its way has it.
Of(i, c) ==
    \/ i \in DOMAIN time /\ time[i].client = c
    \/ i \in DOMAIN dist /\ dist[i].client = c
    \/ \E m \in Items : m.what \in Tellers \cup {"removed"} /\ m.id = i /\ m.client = c
OneOwner == \A i \in Ids : \A c, d \in Clients : Of(i, c) /\ Of(i, d) => c = d

\* Nothing about a session comes before its start, nor does the removal of its client.
Precedes(m, n) ==
    n.what = "start" => /\ m.what \in Tellers \cup {"removed"} => m.id # n.id
                        /\ m.what = "remove" => m.client # n.client
StartFirst(q) == \A j, k \in 1 .. Len(q) : j < k => Precedes(q[j], q[k])

Present(what, i) == \E m \in Items : m.what = what /\ m.id = i
Held(i) == \E c \in Clients : client[c].session = i
Stage(i) ==
    /\ ~(i \in DOMAIN time /\ i \in DOMAIN dist)
    /\ Present("start", i) =>
         /\ i \notin DOMAIN time /\ i \notin DOMAIN dist
         /\ ~Present("toTime", i) /\ ~Present("redo", i) /\ ~Present("redone", i)
         /\ ~Present("distStopped", i) /\ ~Present("removed", i)
    /\ Present("toTime", i) => i \notin DOMAIN time /\ i \notin DOMAIN dist
    /\ Present("redo", i) \/ Present("redone", i) => i \in DOMAIN dist
    /\ Present("distStopped", i) \/ Present("removed", i) => i \notin DOMAIN time
    /\ Present("toTime", i) \/ Present("redo", i) \/ Present("redone", i) => "patient" \in env
Acting == {"start", "update", "stop", "toTime", "redo", "redone", "distStopped"}
Attended == "patient" \in env => \A m \in Items : m.what \in Acting => Held(m.id)

\* Without patience a session stays what it was started as.
ToBeDist(i) == i \in DOMAIN dist \/ \E m \in Items : m.what = "start" /\ m.id = i /\ m.opts.distance
KindsStay ==
    "patient" \notin env =>
      /\ \A m \in Items : m.what = "update" => ~ToBeDist(m.id)
      /\ \A c \in Clients : client[c].session # 0 /\ ~client[c].opts.distance => ~ToBeDist(client[c].session)

Live(c, i) == client[c].tracking /\ client[c].session = i
Ends(m, c, i) == (m.what = "stop" /\ m.id = i) \/ (m.what = "remove" /\ m.client = c)
Over(c, i) == \E m \in ToSet(msgQ) : Ends(m, c, i)
Ending(c, i) == Over(c, i) \/ Present("distStopped", i) \/ Present("removed", i)
Starting == {"start", "toTime", "redo", "redone"}
NoGhostIn(t) == \A i \in DOMAIN t : Live(t[i].client, i) \/ Ending(t[i].client, i)
Ghosts ==
    /\ NoGhostIn(time) /\ NoGhostIn(dist)
    /\ \A m \in Items : m.what \in Starting => Live(m.client, m.id) \/ Over(m.client, m.id)

\* The messages that bring a session's options.
Carriers(s) == {m \in Messages : m.what \in {"start", "update", "toTime", "redo", "redone"} /\ m.id = s}
Has(c, s, o) ==
    /\ ~Present("stop", s) /\ ~Present("distStopped", s)
    /\ \A m : LastIn(msgQ, Carriers(s), m) => m.opts = o
    /\ \A m \in ToSet(pending) \cup Thens : m \in Carriers(s) => m.opts = o
    /\ Present("update", s) => s \in DOMAIN time \/ s \in DOMAIN dist \/ Present("start", s)
    /\ (\A m \in Items : m \notin Carriers(s)) =>
         \/ s \in DOMAIN time /\ time[s] = Session(c, o)
         \/ s \in DOMAIN dist /\ dist[s] = Session(c, o)
Owed == \A c \in Clients : client[c].tracking => Has(c, client[c].session, client[c].opts)
Ordered ==
    /\ OneOwner /\ StartFirst(msgQ) /\ (\A i \in Ids : Stage(i)) /\ Attended /\ KindsStay /\ Ghosts /\ Owed

----
(* Sequences: the last of a kind, and what comes before what *)

\* As LastIn, the other way round: of a sequence from the first on,
LEMMA LastBehind ==
  ASSUME NEW S, NEW q \in Seq(S), q # <<>>, NEW R, NEW x
  PROVE  /\ LastIn(Tail(q), R, x) => LastIn(q, R, x)
         /\ ToSet(Tail(q)) \cap R = {} /\ Head(q) \in R => LastIn(q, R, Head(q))
<1>1. /\ Head(q) \in S /\ Tail(q) \in Seq(S) /\ q = <<Head(q)>> \o Tail(q) /\ <<Head(q)>> \in Seq(S)
  OBVIOUS
<1>2. Head(q) \in R => LastIn(<<Head(q)>>, R, Head(q))
  BY <1>1, LastOne
<1>3. PICK h, t : h = <<Head(q)>> /\ t = Tail(q) /\ h \in Seq(S) /\ t \in Seq(S) /\ q = h \o t
  BY <1>1
<1>4. /\ LastIn(t, R, x) => LastIn(h \o t, R, x)
      /\ ToSet(t) \cap R = {} /\ LastIn(h, R, Head(q)) => LastIn(h \o t, R, Head(q))
  BY <1>3, LastCat
<1> QED BY <1>2, <1>3, <1>4

\* ... and of two that are joined.
LEMMA LastOfCat ==
  ASSUME NEW S, NEW q \in Seq(S), NEW r \in Seq(S), NEW R, NEW x, LastIn(q \o r, R, x)
  PROVE  x \in ToSet(r) \/ (ToSet(r) \cap R = {} /\ LastIn(q, R, x))
<1> DEFINE t == q \o r
<1>1. /\ t \in Seq(S) /\ Len(t) = Len(q) + Len(r) /\ Len(q) \in Nat /\ Len(r) \in Nat
      /\ \A k \in 1 .. Len(q) : t[k] = q[k]
      /\ \A k \in 1 .. Len(r) : t[Len(q) + k] = r[k]
  OBVIOUS
<1>2. LastIn(t, R, x) OBVIOUS
<1> HIDE DEF t
<1>3. PICK k \in 1 .. Len(t) : t[k] = x /\ x \in R /\ \A j \in 1 .. Len(t) : j > k => t[j] \notin R
  BY <1>2 DEF LastIn
<1>4. CASE k > Len(q)
  <2>1. k - Len(q) \in 1 .. Len(r) /\ Len(q) + (k - Len(q)) = k
    BY <1>1, <1>4
  <2>2. r[k - Len(q)] = x
    BY <1>1, <1>3, <2>1
  <2> QED BY <2>1, <2>2, ElemsOf
<1>5. CASE k <= Len(q)
  <2>1. k \in 1 .. Len(q) /\ q[k] = x
    BY <1>1, <1>3, <1>5
  <2>2. ASSUME NEW j \in 1 .. Len(q), j > k PROVE q[j] \notin R
    BY <1>1, <1>3, <2>2
  <2>3. LastIn(q, R, x)
    BY <1>3, <2>1, <2>2 DEF LastIn
  <2>4. ASSUME NEW y \in ToSet(r) PROVE y \notin R
    <3>1. PICK j \in 1 .. Len(r) : r[j] = y
      BY <2>4 DEF ToSet
    <3>2. Len(q) + j \in 1 .. Len(t) /\ Len(q) + j > k /\ t[Len(q) + j] = y
      BY <1>1, <1>5, <3>1
    <3> QED BY <1>3, <3>2
  <2> QED BY <2>3, <2>4
<1> QED BY <1>1, <1>4, <1>5

\* The last of a sequence with one more.
LEMMA LastOfAppend ==
  ASSUME NEW S, NEW q \in Seq(S), NEW y \in S, NEW R, NEW x, LastIn(Append(q, y), R, x)
  PROVE  x = y \/ (y \notin R /\ LastIn(q, R, x))
<1>1. Append(q, y) = q \o <<y>> /\ <<y>> \in Seq(S) /\ ToSet(<<y>>) = {y}
  BY ElemsUnit
<1>2. LastIn(q \o <<y>>, R, x)
  BY <1>1
<1> QED BY <1>1, <1>2, LastOfCat

\* With what is at most one in a sequence nothing else of its kind is in it.
LEMMA CountAlone ==
  ASSUME NEW S, NEW q \in Seq(S), NEW R, Count(q, R) = 0
  PROVE  \A x \in ToSet(q) : x \notin R
<1>1. ASSUME NEW x \in ToSet(q), x \in R PROVE FALSE
  <2>1. PICK k \in 1 .. Len(q) : q[k] = x
    BY <1>1 DEF ToSet
  <2> DEFINE K == {j \in 1 .. Len(q) : q[j] \in R}
  <2>2. K \subseteq 1 .. Len(q) /\ IsFiniteSet(1 .. Len(q))
    BY FS_Interval
  <2>3. IsFiniteSet(K) /\ k \in K
    BY <1>1, <2>1, <2>2, FS_Subset
  <2>4. Cardinality(K) = 0
    BY DEF Count
  <2> QED BY <2>3, <2>4, FS_EmptySet
<1> QED BY <1>1

\* What there is at most one of is at one place.
LEMMA CountTwo ==
  ASSUME NEW S, NEW q \in Seq(S), NEW R, Count(q, R) <= 1,
         NEW j \in 1 .. Len(q), NEW k \in 1 .. Len(q), q[j] \in R, q[k] \in R
  PROVE  j = k
<1> DEFINE K == {l \in 1 .. Len(q) : q[l] \in R}
<1>1. K \subseteq 1 .. Len(q) /\ IsFiniteSet(1 .. Len(q))
  BY FS_Interval
<1>2. IsFiniteSet(K) /\ j \in K /\ k \in K
  BY <1>1, FS_Subset
<1>3. Cardinality(K) <= 1 /\ Cardinality(K) \in Nat
  BY <1>2, FS_CardinalityType DEF Count
<1>4. K # {}
  BY <1>2
<1>5. Cardinality(K) # 0
  BY <1>2, <1>4, FS_EmptySet
<1>6. Cardinality(K) = 1
  BY <1>3, <1>5
<1>7. \E x : K = {x}
  BY <1>2, <1>6, FS_Singleton
<1> QED BY <1>2, <1>7

\* That starts come first holds of what is left and of what is added.
LEMMA FirstTail ==
  ASSUME NEW S, NEW q \in Seq(S), q # <<>>, StartFirst(q)
  PROVE  StartFirst(Tail(q)) /\ \A n \in ToSet(Tail(q)) : Precedes(Head(q), n)
<1> DEFINE t == Tail(q)
<1>1. /\ t \in Seq(S) /\ Len(t) = Len(q) - 1 /\ Len(q) \in Nat \ {0} /\ Head(q) = q[1]
      /\ \A k \in 1 .. Len(q) - 1 : t[k] = q[k + 1]
  OBVIOUS
<1> HIDE DEF t
<1>2. \A j, k \in 1 .. Len(q) : j < k => Precedes(q[j], q[k])
  BY DEF StartFirst
<1>3. ASSUME NEW j \in 1 .. Len(t), NEW k \in 1 .. Len(t), j < k PROVE Precedes(t[j], t[k])
  <2>1. j + 1 \in 1 .. Len(q) /\ k + 1 \in 1 .. Len(q) /\ j + 1 < k + 1
    BY <1>1, <1>3
  <2>2. t[j] = q[j + 1] /\ t[k] = q[k + 1]
    BY <1>1
  <2> QED BY <1>2, <2>1, <2>2
<1>4. ASSUME NEW n \in ToSet(t) PROVE Precedes(Head(q), n)
  <2>1. PICK k \in 1 .. Len(t) : t[k] = n
    BY <1>1, <1>4 DEF ToSet
  <2>2. 1 \in 1 .. Len(q) /\ k + 1 \in 1 .. Len(q) /\ 1 < k + 1 /\ n = q[k + 1]
    BY <1>1, <2>1
  <2> QED BY <1>1, <1>2, <2>2
<1> QED BY <1>3, <1>4 DEF StartFirst, t

\* ... of two sequences that are joined,
LEMMA FirstCat ==
  ASSUME NEW S, NEW q \in Seq(S), NEW r \in Seq(S), StartFirst(q), StartFirst(r),
         \A m \in ToSet(q) : \A n \in ToSet(r) : Precedes(m, n)
  PROVE  StartFirst(q \o r)
<1> DEFINE t == q \o r
<1>1. /\ t \in Seq(S) /\ Len(t) = Len(q) + Len(r) /\ Len(q) \in Nat /\ Len(r) \in Nat
      /\ \A k \in 1 .. Len(q) : t[k] = q[k]
      /\ \A k \in 1 .. Len(r) : t[Len(q) + k] = r[k]
  OBVIOUS
<1>2. /\ \A k \in 1 .. Len(q) : q[k] \in ToSet(q)
      /\ \A k \in 1 .. Len(r) : r[k] \in ToSet(r)
  BY ElemsOf
<1>3. \A k \in 1 .. Len(t) : k > Len(q) => k - Len(q) \in 1 .. Len(r) /\ t[k] = r[k - Len(q)]
  <2> TAKE k \in 1 .. Len(t)
  <2> HAVE k > Len(q)
  <2>1. k - Len(q) \in 1 .. Len(r) /\ Len(q) + (k - Len(q)) = k
    BY <1>1
  <2> QED BY <1>1, <2>1
<1> HIDE DEF t
<1>4. ASSUME NEW j \in 1 .. Len(t), NEW k \in 1 .. Len(t), j < k PROVE Precedes(t[j], t[k])
  <2>1. CASE k <= Len(q)
    <3>1. j \in 1 .. Len(q) /\ k \in 1 .. Len(q)
      BY <1>1, <1>4, <2>1
    <3> QED BY <1>1, <1>4, <3>1 DEF StartFirst
  <2>2. CASE k > Len(q) /\ j <= Len(q)
    <3>1. j \in 1 .. Len(q) /\ t[j] = q[j] /\ t[k] \in ToSet(r) /\ t[j] \in ToSet(q)
      BY <1>1, <1>2, <1>3, <2>2
    <3> QED BY <3>1
  <2>3. CASE j > Len(q)
    <3>1. k > Len(q)
      BY <1>1, <1>4, <2>3
    <3>2. /\ j - Len(q) \in 1 .. Len(r) /\ k - Len(q) \in 1 .. Len(r)
          /\ t[j] = r[j - Len(q)] /\ t[k] = r[k - Len(q)]
      BY <1>3, <2>3, <3>1
    <3>3. j - Len(q) < k - Len(q)
      BY <1>1, <1>4
    <3> QED BY <3>2, <3>3 DEF StartFirst
  <2> QED BY <1>1, <2>1, <2>2, <2>3
<1> QED BY <1>4 DEF StartFirst, t

\* ... and when one is added.
LEMMA FirstAppend ==
  ASSUME NEW S, NEW q \in Seq(S), NEW y \in S, StartFirst(q), \A m \in ToSet(q) : Precedes(m, y)
  PROVE  StartFirst(Append(q, y))
<1>1. Append(q, y) = q \o <<y>> /\ <<y>> \in Seq(S) /\ ToSet(<<y>>) = {y} /\ Len(<<y>>) = 1
  BY ElemsUnit
<1>2. StartFirst(<<y>>)
  BY <1>1 DEF StartFirst
<1>3. StartFirst(q \o <<y>>)
  BY <1>1, <1>2, FirstCat
<1> QED BY <1>1, <1>3


----
(* Where no call is rejected *)

\* Calls and clients have options with an interval, and no call is dropped.
Accepted ==
    /\ \A m \in Items : m.what \in {"start", "update"} => m.opts.interval > 0
    /\ \A c \in Clients : /\ client[c].dropped = 0
                          /\ client[c].session # 0 => client[c].opts.interval > 0

\* What a client may ask for is not rejected,
LEMMA AcceptedOptions ==
  ASSUME Orderly
  PROVE  \A o \in StartOptions : o \in Opts /\ o.interval > 0 /\ ~Rejected(o)
<1>1. Rejects = {}
  BY DEF Rejects, Orderly
<1>2. ASSUME NEW o \in StartOptions PROVE o \in Opts /\ o.interval > 0 /\ ~Rejected(o)
  <2>1. o \in Options
    BY <1>1 DEF StartOptions
  <2>2. o \in [interval : Nat \ {0}, power : 1 .. 5, distance : BOOLEAN]
    BY <2>1, TrackingAssumption
  <2> QED BY <2>2 DEF Opts, Rejected
<1> QED BY <1>2

\* ... and the handlers add none of either.
LEMMA AcceptedOutcome ==
  ASSUME Base, Orderly, Accepted, NEW m, Outcome(m)
  PROVE  \A c \in Clients : /\ client'[c].dropped = client[c].dropped /\ client'[c].session = client[c].session
                            /\ client'[c].opts = client[c].opts
<1>1. Took(m)
  BY OutcomeTook
<1>2. TypeOK /\ m \in Items /\ ValidItem(m)
  BY <1>1, Taken
<1>3. ~Forgotten(m)
  BY <1>2 DEF Forgotten, Accepted, Orderly, ValidItem, Rejected
<1>4. client' = client \/ Report(m.client, m.id)
  BY <1>3 DEF Outcome, JoinTime, LeaveTime, ToDist, JoinDist, AskToTime, AskRedo, AskStop, AskAgain, NoSession, Settled,
              Failed, Reverted, Ended, Redone, Removed, RemoveAll, Configured, Remixed, Told, Asked, ReportNow, HandleRemove
<1>5. client \in [Clients -> Record]
  BY <1>2 DEF TypeOK
<1>6. CASE client' = client
  BY <1>6
<1>7. CASE client' # client
  <2>1. client' = [client EXCEPT ![m.client].queue = Tail(@)]
    BY <1>4, <1>7 DEF Report
  <2> QED BY <1>5, <2>1 DEF Record
<1> QED BY <1>6, <1>7

----
(* What is on its way for one session *)

\* Nothing has failed; what only distance-based sessions have, patient clients have.
LEMMA OrderlyItems ==
  ASSUME Base, Accepted, Orderly, Ordered
  PROVE  /\ \A m \in Items : m \in Messages /\ ~m.err
         /\ \A m \in Items : m.what \in {"toTime", "redo", "redone"} => "patient" \in env
         /\ \A m \in Items : m.what = "update" /\ m.opts.distance => "patient" \in env
         /\ "patient" \notin env => \A m \in ToSet(pending) : m.what = "config"
         /\ \A m \in Thens : m.what \in Answers \cup {"silent"}
         /\ ToSet(msgQ) \subseteq Items /\ ToSet(pending) \subseteq Items /\ Thens \subseteq Items
<1>1. TypeOK /\ Valid /\ Waiting
  BY DEF Base
<1>2. Items \subseteq Messages /\ ToSet(pending) \subseteq Defers /\ ToSet(apiQ) \subseteq Asks
  BY <1>1, ItemTypes
<1>3. \A m \in Items : ValidItem(m)
  BY <1>1 DEF Valid
<1>4. ToSet(msgQ) \subseteq Items /\ ToSet(pending) \subseteq Items /\ Thens \subseteq Items
  BY DEF Items
<1>5. ASSUME NEW m \in Items, m.what \in {"toTime", "redo", "redone"} PROVE "patient" \in env
  <2>1. m.id \in Ids
    BY <1>2, <1>5 DEF Messages, Tellers, Ids
  <2>2. Stage(m.id)
    BY <2>1 DEF Ordered
  <2>3. Present(m.what, m.id)
    BY DEF Present
  <2> QED BY <1>5, <2>2, <2>3 DEF Stage
<1>6. ASSUME NEW m \in Items, m.what = "update", m.opts.distance PROVE "patient" \in env
  BY <1>3, <1>6 DEF ValidItem, Orderly
<1>7. ASSUME "patient" \notin env, NEW m \in ToSet(pending) PROVE m.what = "config"
  <2>1. pending # <<>> /\ m \in Items /\ m \in Defers
    BY <1>2, <1>4 DEF ToSet
  <2>2. "early" \in env
    BY <1>1, <2>1 DEF Waiting
  <2>3. m.opts.distance => "distance" \in env
    BY <1>3, <2>1 DEF ValidItem
  <2> QED BY <1>7, <2>1, <2>2, <2>3 DEF Orderly, Defers
<1>8. \A m \in Thens : m.what \in Answers \cup {"silent"}
  BY <1>2 DEF Thens, Asks
<1>9. \A m \in Items : ~m.err
  BY <1>3 DEF ValidItem, Orderly
<1> QED BY <1>2, <1>4, <1>5, <1>6, <1>7, <1>8, <1>9

\* An answer that comes for a session is counted where it is.
LEMMA AskCounts ==
  ASSUME TypeOK, NEW s, Count(apiQ, RepAsks(s)) = 0
  PROVE  \A m \in Thens : m.what \in Tellers => m.id # s
<1>1. apiQ \in Seq(Asks) /\ ToSet(apiQ) \subseteq Asks
  BY ElemsOf DEF TypeOK
<1>2. \A r \in ToSet(apiQ) : r \notin RepAsks(s)
  BY <1>1, CountAlone
<1>3. ASSUME NEW m \in Thens, m.what \in Tellers, m.id = s PROVE FALSE
  <2>1. PICK r \in ToSet(apiQ) : m = r.then
    BY DEF Thens
  <2>2. r \in Asks /\ r.then \in Messages
    BY <1>1 DEF Asks
  <2> QED BY <1>2, <1>3, <2>1, <2>2 DEF RepAsks, Rep
<1> QED BY <1>3

\* So is a message that is posted or waits.
LEMMA PostCounts ==
  ASSUME NEW S, S \subseteq Messages, NEW q \in Seq(S), NEW s, Count(q, Rep(s)) = 0
  PROVE  \A m \in ToSet(q) : m.what \in Tellers => m.id # s
<1>1. \A m \in ToSet(q) : m \notin Rep(s)
  BY CountAlone
<1>2. ToSet(q) \subseteq Messages
  BY ElemsOf
<1> QED BY <1>1, <1>2 DEF Rep

\* A client that waits for nothing has nothing on its way.
LEMMA NothingOnItsWay ==
  ASSUME Base, Accepted, Orderly, NEW c \in Clients, client[c].session # 0, client[c].queue = <<>>
  PROVE  \A m \in Items : m.what \in Tellers => m.id # client[c].session
<1> DEFINE s == client[c].session
<1>1. TypeOK /\ Tallied
  BY DEF Base
<1>2. Due(s) = 0
  BY <1>1, DueNat DEF Tallied, Accepted
<1>3. msgQ \in Seq(Posts) /\ pending \in Seq(Defers) /\ apiQ \in Seq(Asks)
  BY <1>1 DEF TypeOK
<1>4. Posts \subseteq Messages /\ Defers \subseteq Messages
  BY DEF Posts, Defers
<1> HIDE DEF s
<1>5. Count(msgQ, Rep(s)) \in Nat /\ Count(pending, Rep(s)) \in Nat /\ Count(apiQ, RepAsks(s)) \in Nat
  BY <1>3, CountNat
<1>6. Count(msgQ, Rep(s)) = 0 /\ Count(pending, Rep(s)) = 0 /\ Count(apiQ, RepAsks(s)) = 0
  BY <1>2, <1>5 DEF Due
<1>7. /\ \A m \in ToSet(msgQ) : m.what \in Tellers => m.id # s
      /\ \A m \in ToSet(pending) : m.what \in Tellers => m.id # s
  BY <1>3, <1>4, <1>6, PostCounts
<1>8. \A m \in Thens : m.what \in Tellers => m.id # s
  BY <1>1, <1>6, AskCounts
<1>9. \A m \in Items : m.what \in Tellers => m.id # s
  BY <1>7, <1>8 DEF Items
<1> QED BY <1>9 DEF s

\* What is left when the first message is taken off.
Rest == ToSet(Tail(msgQ)) \cup ToSet(pending) \cup Thens

\* Of a client that waits for each answer one thing is on its way.
LEMMA Alone ==
  ASSUME Base, Accepted, Orderly, Ordered, "patient" \in env, NEW m, msgQ # <<>>, m = Head(msgQ), m.what \in Acting
  PROVE  /\ \A n \in Rest : n.id = m.id => n.what \notin Tellers /\ n.what # "removed"
         /\ \E c \in Clients : client[c].session = m.id /\ m.client = c /\ client[c].alive
<1>1. TypeOK /\ Tallied /\ Owned
  BY DEF Base
<1>2. msgQ \in Seq(Posts) /\ pending \in Seq(Defers) /\ apiQ \in Seq(Asks) /\ Posts \subseteq Messages /\ Defers \subseteq Messages
  BY <1>1 DEF TypeOK, Posts, Defers
<1>3. /\ Tail(msgQ) \in Seq(Posts) /\ m \in Posts /\ m \in Items /\ m.what \in Tellers /\ Rest \subseteq Items
      /\ \A n \in Rest : n \in ToSet(Tail(msgQ)) \/ n \in ToSet(pending) \/ n \in Thens
  BY <1>2, ElemsTail DEF Items, Rest, Acting, Tellers
<1>4. PICK c \in Clients : client[c].session = m.id
  BY <1>3 DEF Ordered, Attended, Held
<1>5. m.id \in Ids /\ m \in Rep(m.id) /\ client[c].session # 0
  BY <1>2, <1>3, <1>4 DEF Messages, Posts, Ids, Rep
<1>6. Due(m.id) = Len(client[c].queue) /\ Len(client[c].queue) <= 1
  BY <1>1, <1>4, <1>5, DueNat DEF Tallied, Accepted
<1>7. Count(msgQ, Rep(m.id)) = Count(Tail(msgQ), Rep(m.id)) + One(m, Rep(m.id))
  BY <1>2, CountTail
<1>8. One(m, Rep(m.id)) = 1
  BY <1>5 DEF One
<1>9. /\ Count(msgQ, Rep(m.id)) \in Nat /\ Count(pending, Rep(m.id)) \in Nat /\ Count(apiQ, RepAsks(m.id)) \in Nat
      /\ Count(Tail(msgQ), Rep(m.id)) \in Nat
  BY <1>2, <1>3, CountNat
<1>10. Due(m.id) = Count(msgQ, Rep(m.id)) + Count(pending, Rep(m.id)) + Count(apiQ, RepAsks(m.id))
  BY DEF Due
<1>11. Len(client[c].queue) \in Nat
  BY <1>6, <1>9, <1>10
<1>12. Count(Tail(msgQ), Rep(m.id)) = 0 /\ Count(pending, Rep(m.id)) = 0 /\ Count(apiQ, RepAsks(m.id)) = 0
  BY <1>6, <1>7, <1>8, <1>9, <1>10, <1>11
<1>13. /\ \A n \in ToSet(Tail(msgQ)) : n.what \in Tellers => n.id # m.id
       /\ \A n \in ToSet(pending) : n.what \in Tellers => n.id # m.id
  BY <1>2, <1>3, <1>12, PostCounts
<1>14. \A n \in Thens : n.what \in Tellers => n.id # m.id
  BY <1>1, <1>12, AskCounts
<1>15. \A n \in Rest : n.what = "removed" => n.id # m.id
  BY <1>1, <1>3, <1>4 DEF Owned, OwnedItem
<1>16. m.client = c /\ client[c].alive
  BY <1>1, <1>3, <1>4, <1>5 DEF Owned, OwnedItem, OwnedClient
<1> QED BY <1>3, <1>4, <1>13, <1>14, <1>15, <1>16

\* When a call is handled no start of its session is left.
LEMMA AloneFirst ==
  ASSUME Base, Accepted, Orderly, Ordered, NEW m, msgQ # <<>>, m = Head(msgQ), m.what \in Acting
  PROVE  \A n \in Rest : n.id = m.id => n.what \notin Starting
<1>1. CASE "patient" \in env
  <2>1. \A n \in Rest : n.id = m.id => n.what \notin Tellers
    BY <1>1, Alone
  <2> QED BY <2>1 DEF Starting, Tellers
<1>2. CASE "patient" \notin env
  <2>1. msgQ \in Seq(Posts)
    BY DEF Base, TypeOK
  <2>2. \A n \in ToSet(Tail(msgQ)) : Precedes(m, n)
    BY <2>1, FirstTail DEF Ordered
  <2>3. /\ \A n \in Items : n.what \notin {"toTime", "redo", "redone"}
        /\ \A n \in ToSet(pending) : n.what = "config"
        /\ \A n \in Thens : n.what \in Answers \cup {"silent"}
    BY <1>2, OrderlyItems
  <2>4. Rest \subseteq Items
    BY <2>1, ElemsTail DEF Rest, Items
  <2>5. ASSUME NEW n \in Rest, n.id = m.id, n.what \in Starting PROVE FALSE
    <3>1. n.what = "start"
      BY <2>3, <2>4, <2>5 DEF Starting
    <3>2. n \notin ToSet(pending) /\ n \notin Thens
      BY <2>3, <3>1 DEF Answers
    <3> QED BY <2>2, <2>5, <3>1, <3>2 DEF Rest, Precedes, Acting, Tellers
  <2> QED BY <2>5
<1> QED BY <1>1, <1>2

\* A message is handled that is about one session.
SameAt(i, t, u) == (i \in DOMAIN u <=> i \in DOMAIN t) /\ (i \in DOMAIN t => u[i] = t[i])
SameClient(i, c, t, u) == i \in DOMAIN u => u[i].client = c \/ (i \in DOMAIN t /\ u[i].client = t[i].client)
SameClients ==
    \A c \in Clients : /\ client'[c].tracking = client[c].tracking /\ client'[c].session = client[c].session
                       /\ client'[c].opts = client[c].opts /\ client'[c].alive = client[c].alive
Local(m, N) ==
    /\ Took(m) /\ N \subseteq Messages /\ Thens' = Thens \cup N /\ SameClients
    /\ \A n \in N : n = Silent \/ (n.id = m.id /\ n.client = m.client /\ n.what \in Answers)
    /\ \A i \in Ids : i # m.id => SameAt(i, time, time') /\ SameAt(i, dist, dist')
    /\ SameClient(m.id, m.client, time, time') /\ SameClient(m.id, m.client, dist, dist')

\* What is on its way when a message is handled, and what it leaves.
LEMMA TookItems ==
  ASSUME TypeOK, NEW m, NEW N, Took(m), Thens' = Thens \cup N
  PROVE  /\ Items = Rest \cup {m} /\ Items' = Rest \cup N
         /\ ToSet(msgQ') = ToSet(Tail(msgQ)) /\ ToSet(msgQ) = ToSet(Tail(msgQ)) \cup {m}
         /\ msgQ # <<>> /\ m = Head(msgQ) /\ msgQ \in Seq(Posts) /\ m \in Posts /\ m \in Messages
         /\ ToSet(Tail(msgQ)) \subseteq Rest
<1>1. msgQ \in Seq(Posts) /\ msgQ # <<>> /\ m = Head(msgQ) /\ msgQ' = Tail(msgQ) /\ pending' = pending /\ m \in Posts
  BY DEF TypeOK, Took
<1>2. ToSet(msgQ) = ToSet(Tail(msgQ)) \cup {m}
  BY <1>1, ElemsTail
<1>3. Items' = Rest \cup N
  BY <1>1 DEF Items, Rest
<1>4. Items = Rest \cup {m}
  BY <1>2 DEF Items, Rest
<1> QED BY <1>1, <1>2, <1>3, <1>4 DEF Rest, Posts

\* Whose the sessions are, and the rest of what is about one.
LEMMA LocalOwner ==
  ASSUME Base, Accepted, Orderly, Ordered, NEW m, NEW N, Local(m, N), m.what \in Tellers \cup {"removed"}
  PROVE  OneOwner'
<1>1. TypeOK
  BY DEF Base
<1>2. Items = Rest \cup {m} /\ Items' = Rest \cup N
  BY <1>1, TookItems DEF Local
<1>3. ASSUME NEW i \in Ids, NEW c \in Clients, Of(i, c)' PROVE Of(i, c)
  <2>1. Of(m.id, m.client)
    BY <1>2 DEF Of
  <2>2. CASE i \in DOMAIN time' /\ time'[i].client = c
    <3>1. CASE i = m.id
      BY <2>1, <2>2, <3>1 DEF Local, SameClient, Of
    <3>2. CASE i # m.id
      BY <2>2, <3>2 DEF Local, SameAt, Of
    <3> QED BY <3>1, <3>2
  <2>3. CASE i \in DOMAIN dist' /\ dist'[i].client = c
    <3>1. CASE i = m.id
      BY <2>1, <2>3, <3>1 DEF Local, SameClient, Of
    <3>2. CASE i # m.id
      BY <2>3, <3>2 DEF Local, SameAt, Of
    <3> QED BY <3>1, <3>2
  <2>4. ASSUME NEW n \in Items', n.what \in Tellers \cup {"removed"}, n.id = i, n.client = c PROVE Of(i, c)
    <3>1. CASE n \in Rest
      BY <1>2, <2>4, <3>1 DEF Of
    <3>2. CASE n \in N
      BY <2>1, <2>4, <3>2, SilentIs DEF Local, Tellers
    <3> QED BY <1>2, <3>1, <3>2
  <2> QED BY <1>3, <2>2, <2>3, <2>4 DEF Of
<1> QED BY <1>3 DEF OneOwner, Ordered

\* Where the session is,
LEMMA LocalStages ==
  ASSUME Base, Accepted, Orderly, Ordered, NEW m, NEW N, Local(m, N), m.what \in Tellers \cup {"removed"},
         Stage(m.id)', \A n \in N : n.what \in Acting => m.what \in Acting,
         "patient" \notin env /\ m.id \in DOMAIN dist' => ToBeDist(m.id)
  PROVE  (\A i \in Ids : Stage(i))' /\ Attended' /\ KindsStay'
<1>1. TypeOK /\ env' = env
  BY DEF Base, Local, Took
<1>2. Items = Rest \cup {m} /\ Items' = Rest \cup N /\ m.id \in Ids
  BY <1>1, TookItems DEF Local, Messages, Ids
<1>3. ASSUME NEW i \in Ids PROVE Stage(i)'
  <2>1. CASE i = m.id
    BY <2>1
  <2>2. CASE i # m.id
    <3>1. \A what : Present(what, i)' => Present(what, i)
      BY <1>2, <2>2, SilentIs DEF Present, Local, Ids
    <3>2. Stage(i) /\ SameAt(i, time, time') /\ SameAt(i, dist, dist')
      BY <2>2 DEF Ordered, Local
    <3> QED BY <1>1, <3>1, <3>2 DEF Stage, SameAt
  <2> QED BY <2>1, <2>2
<1>4. Attended'
  <2>1. ASSUME "patient" \in env, NEW n \in Items', n.what \in Acting PROVE Held(n.id)'
    <3>1. Held(n.id)
      <4>1. CASE n \in Rest
        BY <1>2, <2>1, <4>1 DEF Ordered, Attended
      <4>2. CASE n \in N
        <5>1. n.id = m.id /\ m.what \in Acting
          BY <2>1, <4>2, SilentIs DEF Local, Acting
        <5> QED BY <1>2, <2>1, <5>1 DEF Ordered, Attended
      <4> QED BY <1>2, <4>1, <4>2
    <3> QED BY <3>1 DEF Held, Local, SameClients
  <2> QED BY <1>1, <2>1 DEF Attended
<1>5. KindsStay'
  <2>1. ASSUME "patient" \notin env, NEW i \in Ids, ToBeDist(i)' PROVE ToBeDist(i)
    <3>1. CASE i \in DOMAIN dist'
      <4>1. CASE i = m.id
        BY <2>1, <3>1, <4>1
      <4>2. CASE i # m.id
        BY <3>1, <4>2 DEF Local, SameAt, ToBeDist
      <4> QED BY <4>1, <4>2
    <3>2. CASE i \notin DOMAIN dist'
      <4>1. PICK n \in Items' : n.what = "start" /\ n.id = i /\ n.opts.distance
        BY <2>1, <3>2 DEF ToBeDist
      <4>2. n \in Rest
        BY <1>2, <4>1, SilentIs DEF Local, Answers
      <4> QED BY <1>2, <4>1, <4>2 DEF ToBeDist
    <3> QED BY <3>1, <3>2
  <2>2. ASSUME "patient" \notin env, NEW n \in Items', n.what = "update" PROVE ~ToBeDist(n.id)'
    <3>1. n \in Rest
      BY <1>2, <2>2, SilentIs DEF Local, Answers
    <3>2. n \in Items /\ n \in Messages /\ n.id \in Ids
      BY <1>1, <1>2, <2>2, <3>1, ItemTypes DEF Messages, Tellers, Ids
    <3> QED BY <2>1, <2>2, <3>2 DEF Ordered, KindsStay
  <2>3. ASSUME "patient" \notin env, NEW c \in Clients, client[c].session # 0, ~client[c].opts.distance
        PROVE  ~ToBeDist(client[c].session)'
    <3>1. client[c].session \in Ids
      BY <1>1, <2>3 DEF TypeOK, Record, Ids
    <3>2. client'[c].session = client[c].session
      BY DEF Local, SameClients
    <3>3. PICK s : s = client[c].session /\ s = client'[c].session
      BY <3>2
    <3>4. ~ToBeDist(s)'
      BY <2>1, <2>3, <3>1, <3>3 DEF Ordered, KindsStay
    <3> QED BY <3>3, <3>4
  <2>4. \A c \in Clients : client'[c].session = client[c].session /\ client'[c].opts = client[c].opts
    BY DEF Local, SameClients
  <2> QED BY <1>1, <2>2, <2>3, <2>4 DEF KindsStay
<1> QED BY <1>3, <1>4, <1>5

\* ... and who still has it.
LEMMA LocalGhosts ==
  ASSUME Base, Accepted, Orderly, Ordered, TypeOK', NEW m, NEW N, Local(m, N), m.what \in Tellers \cup {"removed"},
         \A i \in DOMAIN time' : i = m.id => (Live(time[i].client, i) \/ Ending(time[i].client, i))',
         \A i \in DOMAIN dist' : i = m.id => (Live(dist[i].client, i) \/ Ending(dist[i].client, i))',
         \A n \in N : n.what \in Starting => Live(n.client, n.id)'
  PROVE  Ghosts'
<1>1. TypeOK
  BY DEF Base
<1>2. /\ Items = Rest \cup {m} /\ Items' = Rest \cup N
      /\ ToSet(msgQ') = ToSet(Tail(msgQ)) /\ ToSet(msgQ) = ToSet(Tail(msgQ)) \cup {m}
      /\ msgQ # <<>> /\ m = Head(msgQ) /\ m \in Messages
  BY <1>1, TookItems DEF Local
<1>3. m.what # "remove"
  BY DEF Tellers
<1>4. ASSUME NEW c, NEW i \in Ids, i # m.id, Live(c, i) \/ Ending(c, i), c \in Clients PROVE (Live(c, i) \/ Ending(c, i))'
  <2>1. Live(c, i) => Live(c, i)'
    BY <1>4 DEF Live, Local, SameClients
  <2>2. Over(c, i) => Over(c, i)'
    BY <1>2, <1>3, <1>4 DEF Over, Ends
  <2>3. \A what : Present(what, i) => Present(what, i)'
    BY <1>2, <1>4 DEF Present
  <2> QED BY <1>4, <2>1, <2>2, <2>3 DEF Ending
<1>5. NoGhostIn(time)'
  <2> SUFFICES ASSUME NEW i \in DOMAIN time' PROVE (Live(time[i].client, i) \/ Ending(time[i].client, i))'
    BY DEF NoGhostIn
  <2>1. CASE i = m.id
    BY <2>1
  <2>2. CASE i # m.id
    <3>1. i \in Ids
      BY DEF TypeOK, IsTable
    <3>2. i \in DOMAIN time /\ time'[i] = time[i]
      BY <2>2, <3>1 DEF Local, SameAt
    <3>3. PICK c \in Clients : c = time[i].client /\ c = time'[i].client
      BY <1>1, <3>2 DEF TypeOK, IsTable
    <3>4. Live(c, i) \/ Ending(c, i)
      BY <3>2, <3>3 DEF Ordered, Ghosts, NoGhostIn
    <3>5. (Live(c, i) \/ Ending(c, i))'
      BY <1>4, <2>2, <3>1, <3>4
    <3> QED BY <3>3, <3>5
  <2> QED BY <2>1, <2>2
<1>6. NoGhostIn(dist)'
  <2> SUFFICES ASSUME NEW i \in DOMAIN dist' PROVE (Live(dist[i].client, i) \/ Ending(dist[i].client, i))'
    BY DEF NoGhostIn
  <2>1. CASE i = m.id
    BY <2>1
  <2>2. CASE i # m.id
    <3>1. i \in Ids
      BY DEF TypeOK, IsTable
    <3>2. i \in DOMAIN dist /\ dist'[i] = dist[i]
      BY <2>2, <3>1 DEF Local, SameAt
    <3>3. PICK c \in Clients : c = dist[i].client /\ c = dist'[i].client
      BY <1>1, <3>2 DEF TypeOK, IsTable
    <3>4. Live(c, i) \/ Ending(c, i)
      BY <3>2, <3>3 DEF Ordered, Ghosts, NoGhostIn
    <3>5. (Live(c, i) \/ Ending(c, i))'
      BY <1>4, <2>2, <3>1, <3>4
    <3> QED BY <3>3, <3>5
  <2> QED BY <2>1, <2>2
<1>7. ASSUME NEW n \in Items', n.what \in Starting PROVE (Live(n.client, n.id) \/ Over(n.client, n.id))'
  <2>1. CASE n \in N
    BY <1>7, <2>1
  <2>2. CASE n \in Rest
    <3>1. Live(n.client, n.id) \/ Over(n.client, n.id)
      BY <1>2, <1>7, <2>2 DEF Ordered, Ghosts
    <3>2. n.client \in Clients
      BY <1>1, <1>2, <1>7, <2>2, ItemTypes DEF Messages, Starting, Tellers
    <3>3. CASE Live(n.client, n.id)
      BY <3>2, <3>3 DEF Live, Local, SameClients
    <3>4. CASE Over(n.client, n.id)
      <4>1. PICK x \in ToSet(msgQ) : Ends(x, n.client, n.id)
        BY <3>4 DEF Over
      <4>2. x # m
        <5>1. CASE m.what = "stop"
          <6>1. m.what \in Acting
            BY <5>1 DEF Acting
          <6>2. n.id # m.id
            BY <1>2, <1>7, <2>2, <6>1, AloneFirst
          <6> QED BY <4>1, <5>1, <6>2 DEF Ends
        <5> QED BY <1>3, <4>1, <5>1 DEF Ends
      <4>3. x \in ToSet(msgQ')
        BY <1>2, <4>1, <4>2
      <4> QED BY <4>1, <4>3 DEF Over
    <3> QED BY <3>1, <3>3, <3>4
  <2> QED BY <1>2, <2>1, <2>2
<1> QED BY <1>5, <1>6, <1>7 DEF Ghosts

\* Other clients' sessions keep their options,
LEMMA LocalOwed ==
  ASSUME Base, Accepted, Orderly, Ordered, NEW m, NEW N, Local(m, N), m.what \in Tellers \cup {"removed"},
         NEW c \in Clients, NEW s \in Ids, NEW o, s # m.id, Has(c, s, o)
  PROVE  Has(c, s, o)'
<1>1. TypeOK
  BY DEF Base
<1>2. /\ Items = Rest \cup {m} /\ Items' = Rest \cup N
      /\ msgQ # <<>> /\ m = Head(msgQ) /\ msgQ' = Tail(msgQ) /\ msgQ \in Seq(Posts) /\ pending' = pending
      /\ Thens' = Thens \cup N
  BY <1>1, TookItems DEF Local, Took
<1>3. \A what : Present(what, s)' <=> Present(what, s)
  BY <1>2, SilentIs DEF Present, Local, Ids
<1>4. m \notin Carriers(s) /\ \A n \in N : n \notin Carriers(s)
  BY SilentIs DEF Carriers, Local, Ids
<1>5. \A x : LastIn(msgQ', Carriers(s), x) => x.opts = o
  <2>1. \A x : LastIn(Tail(msgQ), Carriers(s), x) => LastIn(msgQ, Carriers(s), x)
    BY <1>2, LastBehind
  <2> QED BY <1>2, <2>1 DEF Has
<1>6. \A n \in ToSet(pending') \cup Thens' : n \in Carriers(s) => n.opts = o
  BY <1>2, <1>4 DEF Has
<1>7. SameAt(s, time, time') /\ SameAt(s, dist, dist')
  BY DEF Local
<1>8. (\A n \in Items' : n \notin Carriers(s)) => \A n \in Items : n \notin Carriers(s)
  BY <1>2, <1>4
<1>9. Present("update", s)' => s \in DOMAIN time' \/ s \in DOMAIN dist' \/ Present("start", s)'
  BY <1>3, <1>7 DEF Has, SameAt
<1>10. (\A n \in Items' : n \notin Carriers(s)) =>
         \/ s \in DOMAIN time' /\ time'[s] = Session(c, o)
         \/ s \in DOMAIN dist' /\ dist'[s] = Session(c, o)
  BY <1>7, <1>8 DEF Has, SameAt
<1>11. ~Present("stop", s)' /\ ~Present("distStopped", s)'
  BY <1>3 DEF Has
<1> QED BY <1>5, <1>6, <1>9, <1>10, <1>11 DEF Has

\* and what is shown of the one session is enough.
LEMMA LocalKeeps ==
  ASSUME Base, Accepted, Orderly, Ordered, TypeOK', NEW m, NEW N, Local(m, N), m.what \in Tellers \cup {"removed"},
         Stage(m.id)', \A n \in N : n.what \in Acting => m.what \in Acting,
         "patient" \notin env /\ m.id \in DOMAIN dist' => ToBeDist(m.id),
         \A i \in DOMAIN time' : i = m.id => (Live(time[i].client, i) \/ Ending(time[i].client, i))',
         \A i \in DOMAIN dist' : i = m.id => (Live(dist[i].client, i) \/ Ending(dist[i].client, i))',
         \A n \in N : n.what \in Starting => Live(n.client, n.id)',
         \A c \in Clients : \A o : Live(c, m.id) /\ client[c].opts = o => Has(c, m.id, o)'
  PROVE  Ordered'
<1>1. OneOwner' /\ (\A i \in Ids : Stage(i))' /\ Attended' /\ KindsStay'
  BY LocalOwner, LocalStages
<1>2. Ghosts'
  BY LocalGhosts
<1>3. StartFirst(msgQ)'
  BY FirstTail DEF Ordered, Local, Took, Base, TypeOK
<1>4. Owed'
  <2> SUFFICES ASSUME NEW c \in Clients, client'[c].tracking
               PROVE Has(c, client[c].session, client[c].opts)'
    BY DEF Owed
  <2>1. PICK s, o : s = client[c].session /\ o = client[c].opts OBVIOUS
  <2>2. client[c].tracking /\ s = client'[c].session /\ o = client'[c].opts
    BY <2>1 DEF Local, SameClients
  <2>3. s \in Ids
    BY <2>1, <2>2 DEF Base, TypeOK, Record, Owned, OwnedClient, Ids
  <2>4. Has(c, s, o)
    BY <2>1, <2>2 DEF Ordered, Owed
  <2>5. Has(c, s, o)'
    <3>1. CASE s = m.id
      BY <2>1, <2>2, <3>1 DEF Live
    <3>2. CASE s # m.id
      BY <2>3, <2>4, <3>2, LocalOwed
    <3> QED BY <3>1, <3>2
  <2> QED BY <2>2, <2>5
<1> QED BY <1>1, <1>2, <1>3, <1>4 DEF Ordered


----
(* The handlers *)

\* What is asked of the engine, and what clients hear, leaves the rest alone.
LEMMA AskedThens ==
  ASSUME TypeOK, NEW reqs \in Seq(Asks), apiQ' = apiQ \o reqs
  PROVE  Thens' = Thens \cup {r.then : r \in ToSet(reqs)} /\ {r.then : r \in ToSet(reqs)} \subseteq Messages
<1>1. apiQ \in Seq(Asks)
  BY DEF TypeOK
<1>2. ToSet(apiQ') = ToSet(apiQ) \cup ToSet(reqs) /\ ToSet(reqs) \subseteq Asks
  BY <1>1, ElemsCat, ElemsOf
<1> QED BY <1>2 DEF Thens, Asks

\* An answer changes a client's requests, and nothing else of it (onResponseCb).
LEMMA ReportSame ==
  ASSUME TypeOK, NEW c \in Clients, NEW id, Report(c, id) \/ client' = client
  PROVE  SameClients
<1>1. CASE Report(c, id)
  BY <1>1, ReportKeeps DEF SameClients
<1>2. CASE client' = client
  BY <1>2 DEF SameClients
<1> QED BY <1>1, <1>2

Hushed == {"started", "updated", "stopped", "distStarted"}
\* Multiplexing asks for answers that change no session,
LEMMA RemixedThens ==
  ASSUME Base, Accepted, NEW m, Took(m), m.what \in Tellers, Remixed(m)
  PROVE  /\ SameClients
         /\ \E N : /\ N \subseteq Messages /\ Thens' = Thens \cup N
                   /\ \A n \in N : n.id = m.id /\ n.client = m.client /\ n.what \in Answers /\ n.what \in Hushed
<1>1. TypeOK /\ m.client \in Clients
  BY Taken
<1>2. PICK reqs : /\ Mixed(reqs, m.client, m.id, time, time')
                  /\ apiQ' = apiQ \o reqs /\ ReportNow(reqs, m.client, m.id)
  BY DEF Remixed
<1>3. /\ reqs \in Seq(Asks)
      /\ \A r \in ToSet(reqs) : r.then.what \in {"started", "updated", "stopped"} /\ r.then.client = m.client /\ r.then.id = m.id
  BY <1>2, MixedAsks
<1>4. SameClients
  BY <1>1, <1>2, ReportSame DEF ReportNow
<1> DEFINE N == {r.then : r \in ToSet(reqs)}
<1>5. Thens' = Thens \cup N /\ N \subseteq Messages
  BY <1>1, <1>2, <1>3, AskedThens
<1>6. \A n \in N : n.id = m.id /\ n.client = m.client /\ n.what \in Answers /\ n.what \in Hushed
  BY <1>3 DEF Answers, Hushed
<1> QED BY <1>4, <1>5, <1>6

\* ... one request for its one answer,
LEMMA AskedOneThens ==
  ASSUME Base, Accepted, NEW r \in Asks, Asked(r)
  PROVE  SameClients /\ Thens' = Thens \cup {r.then} /\ r.then \in Messages
<1>1. TypeOK /\ <<r>> \in Seq(Asks) /\ ToSet(<<r>>) = {r}
  BY ElemsUnit DEF Base
<1>2. Thens' = Thens \cup {q.then : q \in {r}} /\ {q.then : q \in {r}} \subseteq Messages
  BY <1>1, AskedThens DEF Asked
<1>3. SameClients
  BY DEF Asked, SameClients
<1> QED BY <1>2, <1>3

\* ... and telling the client for none.
LEMMA ToldThens ==
  ASSUME Base, Accepted, NEW m, Took(m), m.what \in Tellers, Told(m)
  PROVE  SameClients /\ Thens' = Thens \cup {}
<1>1. TypeOK /\ m.client \in Clients
  BY Taken
<1> QED BY <1>1, ReportSame DEF Told, Thens

\* A session that is saved, erased or left alone changes nothing elsewhere.
LEMMA SaveAt ==
  ASSUME NEW t, NEW D, IsTable(t, D), NEW id \in Ids, NEW c \in Clients, NEW o \in D,
         NEW u, u = Save(t, id, Session(c, o))
  PROVE  /\ \A i \in Ids : i # id => SameAt(i, t, u)
         /\ SameClient(id, c, t, u) /\ id \in DOMAIN u /\ u[id] = Session(c, o)
  BY SaveTable DEF SameAt, SameClient, Session

\* ... of one that is erased,
LEMMA EraseAt ==
  ASSUME NEW t, NEW D, IsTable(t, D), NEW id, NEW c, NEW u, u = Erase(t, {id})
  PROVE  /\ \A i \in Ids : i # id => SameAt(i, t, u)
         /\ SameClient(id, c, t, u) /\ id \notin DOMAIN u
<1>1. /\ \A i : i \in DOMAIN u <=> i \in DOMAIN t /\ i \notin {id}
      /\ \A i \in DOMAIN t : i \notin {id} => u[i] = t[i]
  BY EraseTable
<1> QED BY <1>1 DEF SameAt, SameClient

\* ... and of one that is left alone.
LEMMA KeepAt ==
  ASSUME NEW t, NEW u, u = t, NEW id, NEW c
  PROVE  (\A i \in Ids : SameAt(i, t, u)) /\ SameClient(id, c, t, u)
  BY DEF SameAt, SameClient

\* Whoever holds a session is the client its messages name.
LEMMA LiveClient ==
  ASSUME Base, Accepted, NEW m \in Items, m.what \in Tellers \cup {"removed"}, NEW c \in Clients, Live(c, m.id)
  PROVE  m.client = c /\ m.what # "removed" /\ m.id # 0 /\ client[c].alive
<1>1. Owned /\ m.id # 0
  BY ItemTypes DEF Base, Messages
<1> QED BY <1>1 DEF Owned, OwnedItem, OwnedClient, Live

\* A session is saved: as a call started or changed it, or as the second half of a change.
LEMMA SavedKeeps ==
  ASSUME Base, Accepted, Orderly, Ordered, TypeOK', NEW m, NEW N, Local(m, N), m.what \in {"start", "update", "toTime", "redone"},
         \A n \in N : n.what \in Hushed \cup {"silent"},
         IF m.opts.distance
         THEN m.id \notin DOMAIN time' /\ m.id \in DOMAIN dist' /\ dist'[m.id] = Session(m.client, m.opts)
         ELSE m.id \notin DOMAIN dist' /\ m.id \in DOMAIN time' /\ time'[m.id] = Session(m.client, m.opts),
         m.what = "update" => m.id \in DOMAIN time
  PROVE  Ordered'
<1> DEFINE i == m.id
           c == m.client
<1>1. /\ Items = Rest \cup {m} /\ Items' = Rest \cup N
      /\ ToSet(msgQ') = ToSet(Tail(msgQ)) /\ ToSet(msgQ) = ToSet(Tail(msgQ)) \cup {m}
      /\ msgQ # <<>> /\ m = Head(msgQ) /\ msgQ' = Tail(msgQ) /\ msgQ \in Seq(Posts) /\ m \in Messages
      /\ pending' = pending /\ Thens' = Thens \cup N /\ env' = env /\ ToSet(Tail(msgQ)) \subseteq Rest
  BY TookItems DEF Local, Took, Base
<1>2. m.what \in Acting /\ m.what \in Tellers /\ i \in Ids /\ c \in Clients
  BY <1>1 DEF Acting, Tellers, Messages, Ids
<1>3. \A n \in Rest : n.id = i => n.what \notin Starting
  BY <1>1, <1>2, AloneFirst
<1>4. Stage(i) /\ Of(i, c)
  BY <1>1, <1>2 DEF Ordered, Of
<1>5. \A what : what \notin Hushed \cup {"silent"} => (Present(what, i)' <=> \E n \in Rest : n.what = what /\ n.id = i)
  BY <1>1 DEF Present
<1>6. \A n \in Rest : n.what \in {"distStopped", "removed"} /\ n.id = i => m.opts.distance
  <2>1. CASE "patient" \in env
    <3>1. \A n \in Rest : n.id = i => n.what \notin Tellers /\ n.what # "removed"
      BY <1>1, <1>2, <2>1, Alone
    <3> QED BY <3>1 DEF Tellers
  <2>2. CASE "patient" \notin env
    <3>1. m.what \in {"start", "update"}
      BY <1>1, <2>2, OrderlyItems
    <3>2. Present(m.what, i) /\ \A n \in Rest : Present(n.what, n.id)
      BY <1>1 DEF Present
    <3> QED BY <1>4, <3>1, <3>2 DEF Stage
  <2> QED BY <2>1, <2>2
<1>7. Stage(i)'
  <2>1. /\ ~Present("start", i)' /\ ~Present("toTime", i)' /\ ~Present("redo", i)' /\ ~Present("redone", i)'
    BY <1>3, <1>5 DEF Starting, Hushed
  <2>2. Present("distStopped", i)' \/ Present("removed", i)' => m.opts.distance
    BY <1>5, <1>6 DEF Hushed
  <2> QED BY <2>1, <2>2 DEF Stage
<1>8. "patient" \notin env /\ i \in DOMAIN dist' => ToBeDist(i)
  <2> SUFFICES ASSUME "patient" \notin env, i \in DOMAIN dist' PROVE ToBeDist(i)
    OBVIOUS
  <2>1. m.opts.distance OBVIOUS
  <2>2. m.what = "start"
    BY <1>1, <2>1, OrderlyItems
  <2> QED BY <1>1, <2>1, <2>2 DEF ToBeDist
<1>9. Live(c, i)' \/ Ending(c, i)'
  <2>1. Live(c, i) \/ Ending(c, i)
    <3>1. CASE m.what # "update"
      BY <1>1, <3>1 DEF Ordered, Ghosts, Starting, Ending
    <3>2. CASE m.what = "update"
      <4>1. i \in DOMAIN time /\ time[i].client \in Clients
        BY <3>2 DEF Base, TypeOK, IsTable
      <4>2. Of(i, time[i].client)
        BY <4>1 DEF Of
      <4>3. time[i].client = c
        BY <1>2, <1>4, <4>1, <4>2 DEF Ordered, OneOwner
      <4> QED BY <4>1, <4>3 DEF Ordered, Ghosts, NoGhostIn
    <3> QED BY <3>1, <3>2
  <2>2. Live(c, i) => Live(c, i)'
    BY <1>2 DEF Live, Local, SameClients
  <2>3. Over(c, i) => Over(c, i)'
    BY <1>1 DEF Over, Ends
  <2>4. \A what : what \in {"distStopped", "removed"} /\ Present(what, i) => Present(what, i)'
    BY <1>1 DEF Present
  <2> QED BY <2>1, <2>2, <2>3, <2>4 DEF Ending
<1>10. ASSUME NEW d \in Clients, NEW o, Live(d, i), client[d].opts = o PROVE Has(d, i, o)'
  <2>1. d = c /\ Has(d, i, o)
    <3>1. d = c
      BY <1>1, <1>2, <1>10, LiveClient
    <3> QED BY <1>10, <3>1 DEF Live, Ordered, Owed
  <2>2. \A x : LastIn(msgQ', Carriers(i), x) => x.opts = o
    <3>1. \A x : LastIn(Tail(msgQ), Carriers(i), x) => LastIn(msgQ, Carriers(i), x)
      BY <1>1, LastBehind
    <3> QED BY <1>1, <2>1, <3>1 DEF Has
  <2>3. \A n \in N : n \notin Carriers(i)
    BY DEF Carriers, Hushed
  <2>4. \A n \in ToSet(pending') \cup Thens' : n \in Carriers(i) => n.opts = o
    BY <1>1, <2>1, <2>3 DEF Has
  <2>5. ~Present("stop", i)' /\ ~Present("distStopped", i)'
    <3>1. ~Present("stop", i) /\ ~Present("distStopped", i)
      BY <2>1 DEF Has
    <3> QED BY <1>1, <1>5, <3>1 DEF Present, Hushed
  <2>6. (\A n \in Items' : n \notin Carriers(i)) =>
         \/ i \in DOMAIN time' /\ time'[i] = Session(d, o)
         \/ i \in DOMAIN dist' /\ dist'[i] = Session(d, o)
    <3> SUFFICES ASSUME \A n \in Items' : n \notin Carriers(i)
                 PROVE  \/ i \in DOMAIN time' /\ time'[i] = Session(d, o)
                        \/ i \in DOMAIN dist' /\ dist'[i] = Session(d, o)
      OBVIOUS
    <3>1. ToSet(Tail(msgQ)) \cap Carriers(i) = {} /\ m \in Carriers(i)
      BY <1>1 DEF Carriers
    <3>2. LastIn(msgQ, Carriers(i), m)
      BY <1>1, <3>1, LastBehind
    <3>3. m.opts = o
      BY <2>1, <3>2 DEF Has
    <3> QED BY <2>1, <3>3
  <2> QED BY <2>2, <2>4, <2>5, <2>6 DEF Has
<1>11. /\ \A j \in DOMAIN time' : j = m.id => (Live(time[j].client, j) \/ Ending(time[j].client, j))'
       /\ \A j \in DOMAIN dist' : j = m.id => (Live(dist[j].client, j) \/ Ending(dist[j].client, j))'
  <2>1. (i \in DOMAIN time' => time'[i].client = c) /\ (i \in DOMAIN dist' => dist'[i].client = c)
    BY DEF Session
  <2> QED BY <1>9, <2>1
<1>12. /\ \A n \in N : n.what \in Acting => m.what \in Acting
       /\ \A n \in N : n.what \in Starting => Live(n.client, n.id)'
  BY <1>2 DEF Starting, Hushed
<1> QED BY <1>2, <1>7, <1>8, <1>10, <1>11, <1>12, LocalKeeps

\* A session is gone.
LEMMA StoppedKeeps ==
  ASSUME Base, Accepted, Orderly, Ordered, TypeOK', NEW m, NEW N, Local(m, N), m.what \in {"stop", "distStopped", "removed"},
         \A n \in N : n.what \in Hushed, m.id \notin DOMAIN time', m.id \notin DOMAIN dist'
  PROVE  Ordered'
<1> DEFINE i == m.id
<1>1. /\ Items = Rest \cup {m} /\ Items' = Rest \cup N
      /\ msgQ # <<>> /\ m = Head(msgQ) /\ m \in Messages /\ m \in Items /\ env' = env
  BY TookItems DEF Local, Took, Base
<1>2. m.what \in Tellers \cup {"removed"} /\ i \in Ids
  BY <1>1 DEF Tellers, Messages, Ids
<1>3. Stage(i)
  BY <1>2 DEF Ordered
<1>4. \A what : what \notin Hushed => (Present(what, i)' <=> \E n \in Rest : n.what = what /\ n.id = i)
  BY <1>1 DEF Present
<1>5. \A what : what \notin Hushed /\ Present(what, i)' => Present(what, i)
  BY <1>1, <1>4 DEF Present
<1>6. \A n \in Rest : n.id = i => n.what \notin {"redo", "redone"}
  <2>1. CASE m.what # "removed"
    <3>1. \A n \in Rest : n.id = i => n.what \notin Starting
      BY <1>1, <2>1, AloneFirst DEF Acting
    <3> QED BY <3>1 DEF Starting
  <2>2. CASE m.what = "removed"
    <3> SUFFICES ASSUME NEW n \in Rest, n.id = i, n.what \in {"redo", "redone"} PROVE FALSE
      OBVIOUS
    <3>1. "patient" \in env
      BY <1>1, OrderlyItems
    <3>2. Held(i)
      BY <1>1, <3>1 DEF Ordered, Attended, Acting
    <3>3. \A c \in Clients : client[c].session # i
      BY <1>1, <2>2 DEF Base, Owned, OwnedItem
    <3> QED BY <3>2, <3>3 DEF Held
  <2> QED BY <2>1, <2>2
<1>7. Stage(i)'
  <2>1. ~Present("redo", i)' /\ ~Present("redone", i)'
    BY <1>4, <1>6 DEF Hushed
  <2>2. \A what \in {"start", "toTime", "distStopped", "removed"} : Present(what, i)' => Present(what, i)
    BY <1>5 DEF Hushed
  <2> QED BY <1>1, <1>3, <2>1, <2>2 DEF Stage
<1>8. ASSUME NEW d \in Clients, Live(d, i) PROVE FALSE
  <2>1. m.what # "removed"
    BY <1>1, <1>2, <1>8, LiveClient
  <2>2. ~Present("stop", i) /\ ~Present("distStopped", i)
    BY <1>8 DEF Live, Ordered, Owed, Has
  <2> QED BY <1>1, <2>1, <2>2 DEF Present
<1>9. \A n \in N : n.what \notin Acting /\ n.what \notin Starting
  BY DEF Hushed, Acting, Starting
<1> QED BY <1>2, <1>7, <1>8, <1>9, LocalKeeps

\* Nothing happens to the sessions: an answer was given, or there was nothing to update.
LEMMA IdleKeeps ==
  ASSUME Base, Accepted, Orderly, Ordered, TypeOK', NEW m, Local(m, {}), time' = time, dist' = dist,
         \/ m.what \in Hushed
         \/ m.what = "update" /\ m.id \notin DOMAIN time /\ m.id \notin DOMAIN dist
  PROVE  Ordered'
<1> DEFINE i == m.id
<1>1. /\ Items = Rest \cup {m} /\ Items' = Rest \cup {}
      /\ ToSet(msgQ') = ToSet(Tail(msgQ)) /\ ToSet(msgQ) = ToSet(Tail(msgQ)) \cup {m}
      /\ msgQ # <<>> /\ m = Head(msgQ) /\ msgQ' = Tail(msgQ) /\ msgQ \in Seq(Posts) /\ m \in Messages /\ m \in Items
      /\ pending' = pending /\ Thens' = Thens /\ env' = env
  BY TookItems DEF Local, Took, Base
<1>2. m.what \in Tellers \cup {"removed"} /\ i \in Ids /\ m.what \notin {"stop", "remove", "distStopped", "removed", "start"}
  BY <1>1 DEF Tellers, Messages, Ids, Hushed
<1>3. /\ \A what : Present(what, i)' => Present(what, i)
      /\ \A what \in {"start", "distStopped", "removed"} : Present(what, i) => Present(what, i)'
  BY <1>1, <1>2 DEF Present
<1>4. Stage(i)'
  <2>1. Stage(i)
    BY <1>2 DEF Ordered
  <2> QED BY <1>1, <1>3, <2>1 DEF Stage
<1>5. ASSUME NEW c \in Clients, Live(c, i) \/ Ending(c, i) PROVE (Live(c, i) \/ Ending(c, i))'
  <2>1. Live(c, i) => Live(c, i)'
    BY DEF Live, Local, SameClients
  <2>2. Over(c, i) => Over(c, i)'
    BY <1>1, <1>2 DEF Over, Ends
  <2> QED BY <1>3, <1>5, <2>1, <2>2 DEF Ending
<1>6. \A j \in DOMAIN time' : j = m.id => (Live(time[j].client, j) \/ Ending(time[j].client, j))'
  <2> SUFFICES ASSUME i \in DOMAIN time PROVE (Live(time[i].client, i) \/ Ending(time[i].client, i))'
    OBVIOUS
  <2>1. PICK c \in Clients : c = time[i].client
    BY DEF Base, TypeOK, IsTable
  <2>2. Live(c, i) \/ Ending(c, i)
    BY <2>1 DEF Ordered, Ghosts, NoGhostIn
  <2>3. c = time'[i].client
    BY <2>1
  <2> QED BY <1>5, <2>2, <2>3
<1>7. \A j \in DOMAIN dist' : j = m.id => (Live(dist[j].client, j) \/ Ending(dist[j].client, j))'
  <2> SUFFICES ASSUME i \in DOMAIN dist PROVE (Live(dist[i].client, i) \/ Ending(dist[i].client, i))'
    OBVIOUS
  <2>1. PICK c \in Clients : c = dist[i].client
    BY DEF Base, TypeOK, IsTable
  <2>2. Live(c, i) \/ Ending(c, i)
    BY <2>1 DEF Ordered, Ghosts, NoGhostIn
  <2>3. c = dist'[i].client
    BY <2>1
  <2> QED BY <1>5, <2>2, <2>3
<1>8. ASSUME NEW c \in Clients, NEW o, Live(c, i), client[c].opts = o PROVE Has(c, i, o)'
  <2>1. Has(c, i, o)
    BY <1>8 DEF Live, Ordered, Owed
  <2>2. m.what \in Hushed
    <3> SUFFICES ASSUME m.what = "update", i \notin DOMAIN time, i \notin DOMAIN dist PROVE FALSE
      OBVIOUS
    <3>1. Present("start", i)
      BY <1>1, <2>1 DEF Has, Present
    <3>2. \E n \in Rest : n.id = i /\ n.what = "start"
      BY <1>1, <3>1 DEF Present
    <3> QED BY <1>1, <3>2, AloneFirst DEF Acting, Starting
  <2>3. m \notin Carriers(i)
    BY <2>2 DEF Carriers, Hushed
  <2>4. \A x : LastIn(msgQ', Carriers(i), x) => x.opts = o
    <3>1. \A x : LastIn(Tail(msgQ), Carriers(i), x) => LastIn(msgQ, Carriers(i), x)
      BY <1>1, LastBehind
    <3> QED BY <1>1, <2>1, <3>1 DEF Has
  <2>5. (\A n \in Items' : n \notin Carriers(i)) => \A n \in Items : n \notin Carriers(i)
    BY <1>1, <2>3
  <2>6. ~Present("stop", i)' /\ ~Present("distStopped", i)' /\ (Present("update", i)' => Present("update", i))
    BY <1>3, <2>1 DEF Has
  <2> QED BY <1>1, <1>3, <2>1, <2>4, <2>5, <2>6 DEF Has
<1>9. "patient" \notin env /\ i \in DOMAIN dist' => ToBeDist(i)
  BY DEF ToBeDist
<1> QED BY <1>2, <1>4, <1>6, <1>7, <1>8, <1>9, LocalKeeps

\* A distance-based session is to be stopped.
LEMMA AskStopKeeps ==
  ASSUME Base, Accepted, Orderly, Ordered, TypeOK', NEW m, NEW n, Local(m, {n}), m.what = "stop", n.what = "distStopped",
         n.id = m.id, time' = time, dist' = dist, m.id \in DOMAIN dist, m.id \notin DOMAIN time
  PROVE  Ordered'
<1> DEFINE i == m.id
<1>1. /\ Items = Rest \cup {m} /\ Items' = Rest \cup {n}
      /\ msgQ # <<>> /\ m = Head(msgQ) /\ m \in Messages /\ m \in Items /\ env' = env
  BY TookItems DEF Local, Took, Base
<1>2. m.what \in Tellers \cup {"removed"} /\ m.what \in Acting /\ i \in Ids
  BY <1>1 DEF Tellers, Messages, Ids, Acting
<1>3. \A x \in Rest : x.id = i => x.what \notin Starting
  BY <1>1, <1>2, AloneFirst
<1>4. Stage(i)'
  <2>1. \A what \in Starting : ~Present(what, i)'
    BY <1>1, <1>3 DEF Present, Starting
  <2> QED BY <2>1 DEF Stage, Starting
<1>5. Present("distStopped", i)'
  BY <1>1 DEF Present
<1>6. ASSUME NEW d \in Clients, Live(d, i) PROVE FALSE
  <2>1. ~Present("stop", i)
    BY <1>6 DEF Live, Ordered, Owed, Has
  <2> QED BY <1>1, <2>1 DEF Present
<1>7. "patient" \notin env /\ i \in DOMAIN dist' => ToBeDist(i)
  BY DEF ToBeDist
<1>8. \A j \in DOMAIN dist' : j = m.id => (Live(dist[j].client, j) \/ Ending(dist[j].client, j))'
  BY <1>5 DEF Ending
<1>9. n.what \notin Starting
  BY DEF Starting
<1> QED BY <1>2, <1>4, <1>6, <1>7, <1>8, <1>9, LocalKeeps

\* Of a client that waits for each answer, what starts a session lives.
LEMMA AloneLives ==
  ASSUME Base, Accepted, Orderly, Ordered, "patient" \in env, NEW m, msgQ # <<>>, m = Head(msgQ), m.what \in {"update", "redo"},
         m.id \in DOMAIN dist
  PROVE  Live(m.client, m.id) /\ m.client \in Clients
<1> DEFINE i == m.id
<1>1. /\ \A n \in Rest : n.id = i => n.what \notin Tellers /\ n.what # "removed"
      /\ \E c \in Clients : client[c].session = i /\ m.client = c /\ client[c].alive
  BY Alone DEF Acting
<1>2. PICK c \in Clients : client[c].session = i /\ m.client = c /\ client[c].alive
  BY <1>1
<1>3. msgQ \in Seq(Posts) /\ Owned
  BY DEF Base, TypeOK
<1>4. ToSet(msgQ) = ToSet(Tail(msgQ)) \cup {m} /\ Items = Rest \cup {m}
  BY <1>3, ElemsTail DEF Items, Rest
<1>5. dist[i].client = c
  BY <1>2, <1>3 DEF Owned, OwnedIn
<1>6. Live(c, i) \/ Ending(c, i)
  BY <1>5 DEF Ordered, Ghosts, NoGhostIn
<1>7. ~Over(c, i)
  <2> SUFFICES ASSUME NEW x \in ToSet(msgQ), Ends(x, c, i) PROVE FALSE
    BY DEF Over
  <2>1. x \in Rest /\ x \in Items
    BY <1>4 DEF Ends, Rest
  <2>2. x.what = "remove" /\ x.client = c
    BY <1>1, <2>1 DEF Ends, Tellers
  <2> QED BY <1>2, <1>3, <2>1, <2>2 DEF Owned, OwnedItem
<1>8. ~Present("distStopped", i) /\ ~Present("removed", i)
  BY <1>1, <1>4 DEF Present, Tellers
<1> QED BY <1>2, <1>6, <1>7, <1>8 DEF Ending

\* A change of a distance-based session goes on with another answer of the engine.
LEMMA MovedKeeps ==
  ASSUME Base, Accepted, Orderly, Ordered, TypeOK', "patient" \in env, NEW m, NEW n, Local(m, {n}), m.what \in {"update", "redo"},
         m.id \in DOMAIN dist, n.id = m.id, n.client = m.client, n.opts = m.opts, n.what \in {"toTime", "redo", "redone"},
         m.id \notin DOMAIN time',
         IF n.what = "toTime" THEN m.id \notin DOMAIN dist' ELSE dist' = dist
  PROVE  Ordered'
<1> DEFINE i == m.id
<1>1. /\ Items = Rest \cup {m} /\ Items' = Rest \cup {n} /\ ToSet(msgQ') = ToSet(Tail(msgQ)) 
      /\ msgQ # <<>> /\ m = Head(msgQ) /\ m \in Messages /\ m \in Items /\ env' = env /\ msgQ \in Seq(Posts)
      /\ msgQ' = Tail(msgQ) /\ pending' = pending /\ Thens' = Thens \cup {n} /\ ToSet(Tail(msgQ)) \subseteq Rest
      /\ Rest = ToSet(Tail(msgQ)) \cup ToSet(pending) \cup Thens
  BY TookItems DEF Local, Took, Base, Rest
<1>2. m.what \in Tellers \cup {"removed"} /\ m.what \in Acting /\ i \in Ids
  BY <1>1 DEF Tellers, Messages, Ids, Acting
<1>3. \A x \in Rest : x.id = i => x.what \notin Tellers /\ x.what # "removed"
  BY <1>1, <1>2, Alone
<1>4. Live(m.client, i) /\ m.client \in Clients
  BY <1>1, AloneLives
<1>5. Live(m.client, i)'
  BY <1>4 DEF Live, Local, SameClients
<1>6. \A what \in Tellers \cup {"removed"} : Present(what, i)' => what = n.what
  BY <1>1, <1>3 DEF Present
<1>7. Stage(i)'
  <2>1. \A what \in {"start", "distStopped", "removed"} : ~Present(what, i)'
    BY <1>6 DEF Tellers
  <2>2. Present("toTime", i)' => n.what = "toTime"
    BY <1>6 DEF Tellers
  <2>3. Present("redo", i)' \/ Present("redone", i)' => n.what # "toTime"
    BY <1>6 DEF Tellers
  <2> QED BY <1>1, <2>1, <2>2, <2>3 DEF Stage
<1>8. dist[i].client = m.client
  BY <1>4 DEF Base, Owned, OwnedIn, Live
<1>9. \A j \in DOMAIN dist' : j = m.id => (Live(dist[j].client, j) \/ Ending(dist[j].client, j))'
  <2> SUFFICES ASSUME i \in DOMAIN dist' PROVE Live(dist[i].client, i)'
    OBVIOUS
  <2>1. dist'[i].client = m.client
    BY <1>8
  <2> QED BY <1>5, <2>1
<1>10. ASSUME NEW c \in Clients, NEW o, Live(c, i), client[c].opts = o PROVE Has(c, i, o)'
  <2>1. Has(c, i, o)
    BY <1>10 DEF Live, Ordered, Owed
  <2>2. \A x \in Rest : x \notin Carriers(i)
    BY <1>3 DEF Carriers, Tellers
  <2>3. m.opts = o
    <3>1. ToSet(Tail(msgQ)) \cap Carriers(i) = {} /\ m \in Carriers(i)
      BY <1>1, <2>2 DEF Carriers
    <3>2. LastIn(msgQ, Carriers(i), m)
      BY <1>1, <3>1, LastBehind
    <3> QED BY <2>1, <3>2 DEF Has
  <2>4. n \in Carriers(i) /\ n \in Items'
    BY <1>1 DEF Carriers, Local
  <2>5. \A x : ~LastIn(msgQ', Carriers(i), x)
    <3> SUFFICES ASSUME NEW x, LastIn(Tail(msgQ), Carriers(i), x) PROVE FALSE
      BY <1>1
    <3>1. Tail(msgQ) \in Seq(Posts)
      BY <1>1, ElemsTail
    <3>2. x \in ToSet(Tail(msgQ)) /\ x \in Carriers(i)
      BY <3>1, LastElem
    <3> QED BY <1>1, <2>2, <3>2
  <2>6. \A x \in ToSet(pending') \cup Thens' : x \in Carriers(i) => x.opts = o
    BY <1>1, <2>2, <2>3
  <2>7. ~Present("stop", i)' /\ ~Present("distStopped", i)' /\ ~Present("update", i)'
    BY <1>6 DEF Tellers
  <2> QED BY <2>4, <2>5, <2>6, <2>7 DEF Has
<1>11. n.what \in Starting => Live(n.client, n.id)'
  BY <1>5
<1> QED BY <1>2, <1>7, <1>9, <1>10, <1>11, LocalKeeps

\* What a message of a session is made of.
LEMMA TookSession ==
  ASSUME Base, Accepted, Ordered, NEW m, Took(m), m.what \in Tellers \cup {"removed"}
  PROVE  /\ m.id \in Ids /\ m.client \in Clients /\ Stage(m.id) /\ m \in Items /\ TypeOK
         /\ Present(m.what, m.id) /\ IsTable(time, TimeOpts) /\ IsTable(dist, DistOpts)
         /\ m.what \in {"start", "update", "toTime", "redo", "redone"} =>
              m.opts \in (IF m.opts.distance THEN DistOpts ELSE TimeOpts)
<1>1. /\ m.id \in Ids /\ m.client \in Clients /\ m \in Items /\ m \in Messages /\ m.opts \in Opts
      /\ TypeOK /\ IsTable(time, TimeOpts) /\ IsTable(dist, DistOpts)
  BY Taken
<1>2. m.what \in {"start", "update", "toTime", "redo", "redone"} => m.opts.interval > 0
  BY <1>1 DEF Messages, Accepted
<1> QED BY <1>1, <1>2 DEF Ordered, Present, TimeOpts, DistOpts

\* A time-based session starts or changes (MsgStartTracking, MsgUpdateTracking),
LEMMA JoinTimeOrdered ==
  ASSUME Base, Accepted, Orderly, Ordered, TypeOK', NEW m, JoinTime(m)
  PROVE  Ordered'
<1>1. /\ Took(m) /\ m.what \in {"start", "update", "toTime"} /\ ~m.opts.distance /\ (m.what = "update" => m.id \in DOMAIN time)
      /\ time' = Save(time, m.id, Session(m.client, m.opts)) /\ dist' = dist /\ Remixed(m) /\ m.what \in Tellers
  BY DEF JoinTime, Tellers, TimeOpts
<1>2. /\ m.id \in Ids /\ m.client \in Clients /\ Stage(m.id) /\ Present(m.what, m.id) /\ IsTable(time, TimeOpts)
      /\ m.opts \in TimeOpts
  BY <1>1, TookSession
<1>3. SameClients
  BY <1>1, RemixedThens
<1>4. PICK N : /\ N \subseteq Messages /\ Thens' = Thens \cup N
               /\ \A n \in N : n.id = m.id /\ n.client = m.client /\ n.what \in Answers /\ n.what \in Hushed
  BY <1>1, RemixedThens
<1>5. /\ \A i \in Ids : i # m.id => SameAt(i, time, time')
      /\ SameClient(m.id, m.client, time, time') /\ m.id \in DOMAIN time' /\ time'[m.id] = Session(m.client, m.opts)
  BY <1>1, <1>2, SaveAt
<1>6. (\A i \in Ids : SameAt(i, dist, dist')) /\ SameClient(m.id, m.client, dist, dist')
  BY <1>1, KeepAt
<1>7. Local(m, N)
  BY <1>1, <1>3, <1>4, <1>5, <1>6 DEF Local
<1>8. m.id \notin DOMAIN dist'
  BY <1>1, <1>2 DEF Stage
<1> QED BY <1>1, <1>4, <1>5, <1>7, <1>8, SavedKeeps

\* ... or stops (MsgStopTracking),
LEMMA LeaveTimeOrdered ==
  ASSUME Base, Accepted, Orderly, Ordered, TypeOK', NEW m, LeaveTime(m)
  PROVE  Ordered'
<1>1. /\ Took(m) /\ m.what = "stop" /\ m.id \in DOMAIN time
      /\ time' = Erase(time, {m.id}) /\ dist' = dist /\ Remixed(m) /\ m.what \in Tellers
  BY DEF LeaveTime, Tellers
<1>2. Stage(m.id) /\ IsTable(time, TimeOpts)
  BY <1>1, TookSession
<1>3. SameClients
  BY <1>1, RemixedThens
<1>4. PICK N : /\ N \subseteq Messages /\ Thens' = Thens \cup N
               /\ \A n \in N : n.id = m.id /\ n.client = m.client /\ n.what \in Answers /\ n.what \in Hushed
  BY <1>1, RemixedThens
<1>5. /\ \A i \in Ids : i # m.id => SameAt(i, time, time')
      /\ SameClient(m.id, m.client, time, time') /\ m.id \notin DOMAIN time'
  BY <1>1, <1>2, EraseAt
<1>6. (\A i \in Ids : SameAt(i, dist, dist')) /\ SameClient(m.id, m.client, dist, dist')
  BY <1>1, KeepAt
<1>7. Local(m, N)
  BY <1>1, <1>3, <1>4, <1>5, <1>6 DEF Local
<1>8. m.id \notin DOMAIN dist'
  BY <1>1, <1>2 DEF Stage
<1> QED BY <1>1, <1>4, <1>5, <1>7, <1>8, StoppedKeeps

\* ... or becomes distance-based.
LEMMA ToDistOrdered ==
  ASSUME Base, Accepted, Orderly, Ordered, TypeOK', NEW m, ToDist(m)
  PROVE  Ordered'
<1>1. /\ Took(m) /\ m.what = "update" /\ m.opts.distance /\ m.id \in DOMAIN time /\ m.what \in Tellers
      /\ time' = Erase(time, {m.id}) /\ dist' = Save(dist, m.id, Session(m.client, m.opts))
  BY DEF ToDist, DistOpts, Tellers
<1>2. PICK reqs : /\ Mixed(reqs, m.client, m.id, time, time')
                  /\ apiQ' = apiQ \o (reqs \o StartDistance(m.id, m.opts, Silent)) /\ ReportNow(reqs, m.client, m.id)
  BY DEF ToDist
<1>3. /\ m.id \in Ids /\ m.client \in Clients /\ Stage(m.id) /\ IsTable(time, TimeOpts) /\ IsTable(dist, DistOpts)
      /\ m.opts \in DistOpts /\ TypeOK
  BY <1>1, TookSession
<1>4. SameClients
  BY <1>2, <1>3, ReportSame DEF ReportNow
<1>5. /\ reqs \in Seq(Asks)
      /\ \A r \in ToSet(reqs) : r.then.what \in {"started", "updated", "stopped"} /\ r.then.client = m.client /\ r.then.id = m.id
  BY <1>2, MixedAsks
<1>6. PICK r \in Asks : r.then = Silent /\ StartDistance(m.id, m.opts, Silent) = <<r>>
  BY <1>3, StartDistanceOf
<1>7. PICK last : last = StartDistance(m.id, m.opts, Silent) /\ last \in Seq(Asks) /\ ToSet(last) = {r}
  BY <1>6, ElemsUnit
<1>8. reqs \o last \in Seq(Asks) /\ ToSet(reqs \o last) = ToSet(reqs) \cup {r}
  BY <1>5, <1>7, ElemsCat
<1> DEFINE N == {q.then : q \in ToSet(reqs \o last)}
<1>9. Thens' = Thens \cup N /\ N \subseteq Messages
  BY <1>2, <1>3, <1>7, <1>8, AskedThens
<1>10. /\ \A n \in N : n = Silent \/ (n.id = m.id /\ n.client = m.client /\ n.what \in Answers)
       /\ \A n \in N : n.what \in Hushed \cup {"silent"}
  BY <1>5, <1>6, <1>8, SilentIs DEF Answers, Hushed
<1> HIDE DEF N
<1>11. /\ \A i \in Ids : i # m.id => SameAt(i, time, time')
       /\ SameClient(m.id, m.client, time, time') /\ m.id \notin DOMAIN time'
  BY <1>1, <1>3, EraseAt
<1>12. /\ \A i \in Ids : i # m.id => SameAt(i, dist, dist')
       /\ SameClient(m.id, m.client, dist, dist') /\ m.id \in DOMAIN dist' /\ dist'[m.id] = Session(m.client, m.opts)
  BY <1>1, <1>3, SaveAt
<1>13. Local(m, N)
  BY <1>1, <1>4, <1>9, <1>10, <1>11, <1>12 DEF Local
<1> QED BY <1>1, <1>10, <1>11, <1>12, <1>13, SavedKeeps

\* The request in a handler that asks the engine one thing.
LEMMA AskedLocal ==
  ASSUME Base, Accepted, NEW m, Took(m), NEW r \in Asks, Asked(r), r.then.id = m.id, r.then.client = m.client,
         r.then.what \in Answers,
         \A i \in Ids : i # m.id => SameAt(i, time, time') /\ SameAt(i, dist, dist'),
         SameClient(m.id, m.client, time, time'), SameClient(m.id, m.client, dist, dist')
  PROVE  Local(m, {r.then})
<1>1. SameClients /\ Thens' = Thens \cup {r.then} /\ r.then \in Messages
  BY AskedOneThens
<1> QED BY <1>1 DEF Local

\* A distance-based session starts (MsgStartTracking),
LEMMA JoinDistOrdered ==
  ASSUME Base, Accepted, Orderly, Ordered, TypeOK', NEW m, JoinDist(m)
  PROVE  Ordered'
<1>1. /\ Took(m) /\ m.what = "start" /\ m.opts.distance /\ m.what \in Tellers
      /\ time' = time /\ dist' = Save(dist, m.id, Session(m.client, m.opts))
      /\ Asked(Request("startDist", m.id, m.opts, Msg("distStarted", m.client, m.id, m.opts)))
  BY DEF JoinDist, DistOpts, Tellers
<1>2. /\ m.id \in Ids /\ m.client \in Clients /\ Stage(m.id) /\ Present(m.what, m.id) /\ IsTable(dist, DistOpts)
      /\ m.opts \in DistOpts
  BY <1>1, TookSession
<1>3. m.opts \in Opts /\ m.opts.distance /\ m.opts.interval > 0
  BY <1>2 DEF DistOpts
<1>4. PICK r \in Asks : /\ r.then.what = "distStarted" /\ r.then.client = m.client /\ r.then.id = m.id
                        /\ Asked(r)
  BY <1>1, <1>2, <1>3, AskedOf
<1>5. /\ \A i \in Ids : i # m.id => SameAt(i, dist, dist')
      /\ SameClient(m.id, m.client, dist, dist') /\ m.id \in DOMAIN dist' /\ dist'[m.id] = Session(m.client, m.opts)
  BY <1>1, <1>2, SaveAt
<1>6. (\A i \in Ids : SameAt(i, time, time')) /\ SameClient(m.id, m.client, time, time')
  BY <1>1, KeepAt
<1>7. Local(m, {r.then})
  BY <1>1, <1>4, <1>5, <1>6, AskedLocal DEF Answers
<1>8. m.id \notin DOMAIN time'
  BY <1>1, <1>2 DEF Stage
<1>9. \A n \in {r.then} : n.what \in Hushed \cup {"silent"}
  BY <1>4 DEF Hushed
<1> QED BY <1>1, <1>5, <1>7, <1>8, <1>9, SavedKeeps

\* ... or the engine is asked to stop or to start it again (MsgUpdateTracking, MsgStopTracking).
LEMMA AskOrdered ==
  ASSUME Base, Accepted, Orderly, Ordered, TypeOK', NEW m, AskToTime(m) \/ AskRedo(m) \/ AskStop(m) \/ AskAgain(m)
  PROVE  Ordered'
<1>1. Took(m) /\ m.what \in {"update", "stop", "redo"} /\ m.what \in Tellers /\ time' = time
  BY DEF AskToTime, AskRedo, AskStop, AskAgain, Tellers
<1>2. /\ m.id \in Ids /\ m.client \in Clients /\ Stage(m.id) /\ Present(m.what, m.id) /\ m \in Items
      /\ IsTable(time, TimeOpts) /\ IsTable(dist, DistOpts)
      /\ m.what \in {"update", "redo"} => m.opts \in Opts /\ m.opts.interval > 0
  BY <1>1, TookSession DEF TimeOpts, DistOpts
<1>3. (\A i \in Ids : SameAt(i, time, time')) /\ SameClient(m.id, m.client, time, time')
  BY <1>1, KeepAt
<1>4. dist' = dist => (\A i \in Ids : SameAt(i, dist, dist')) /\ SameClient(m.id, m.client, dist, dist')
  BY KeepAt
<1>5. CASE AskToTime(m)
  <2>1. /\ m.what = "update" /\ ~m.opts.distance /\ m.id \in DOMAIN dist /\ m.id \notin DOMAIN time /\ dist' = Erase(dist, {m.id})
        /\ Asked(Request("stopDist", m.id, NoOptions, Msg("toTime", m.client, m.id, m.opts)))
    BY <1>5 DEF AskToTime, TimeOpts
  <2>2. PICK r \in Asks : /\ r.then.what = "toTime" /\ r.then.client = m.client /\ r.then.id = m.id /\ r.then.opts = m.opts
                          /\ Asked(r)
    BY <1>2, <2>1, NoOptsIs, AskedOf
  <2>3. /\ \A i \in Ids : i # m.id => SameAt(i, dist, dist')
        /\ SameClient(m.id, m.client, dist, dist') /\ m.id \notin DOMAIN dist'
    BY <1>2, <2>1, EraseAt
  <2>4. Local(m, {r.then})
    BY <1>1, <1>3, <2>2, <2>3, AskedLocal DEF Answers
  <2>5. "patient" \in env
    <3>1. ToBeDist(m.id)
      BY <2>1 DEF ToBeDist
    <3> QED BY <1>2, <2>1, <3>1 DEF Ordered, KindsStay
  <2>6. PICK n : n = r.then OBVIOUS
  <2> QED BY <1>1, <2>1, <2>2, <2>3, <2>4, <2>5, <2>6, MovedKeeps
<1>6. CASE AskRedo(m)
  <2>1. /\ m.what = "update" /\ m.opts.distance /\ m.id \in DOMAIN dist /\ m.id \notin DOMAIN time /\ dist' = dist
        /\ Asked(Request("stopDist", m.id, NoOptions, Msg("redo", m.client, m.id, m.opts)))
    BY <1>6 DEF AskRedo, DistOpts
  <2>2. PICK r \in Asks : /\ r.then.what = "redo" /\ r.then.client = m.client /\ r.then.id = m.id /\ r.then.opts = m.opts
                          /\ Asked(r)
    BY <1>2, <2>1, NoOptsIs, AskedOf
  <2>3. Local(m, {r.then})
    BY <1>1, <1>3, <1>4, <2>1, <2>2, AskedLocal DEF Answers
  <2>4. "patient" \in env
    BY <1>2, <2>1, OrderlyItems
  <2>5. PICK n : n = r.then OBVIOUS
  <2> QED BY <1>1, <2>1, <2>2, <2>3, <2>4, <2>5, MovedKeeps
<1>7. CASE AskAgain(m)
  <2>1. /\ m.what = "redo" /\ m.opts.distance /\ dist' = dist
        /\ Asked(Request("startDist", m.id, m.opts, Msg("redone", m.client, m.id, m.opts)))
    BY <1>1, <1>7, Taken DEF AskAgain, Messages
  <2>2. PICK r \in Asks : /\ r.then.what = "redone" /\ r.then.client = m.client /\ r.then.id = m.id /\ r.then.opts = m.opts
                          /\ Asked(r)
    BY <1>2, <2>1, AskedOf
  <2>3. Local(m, {r.then})
    BY <1>1, <1>3, <1>4, <2>1, <2>2, AskedLocal DEF Answers
  <2>4. "patient" \in env
    BY <1>2, <2>1, OrderlyItems
  <2>5. m.id \in DOMAIN dist /\ m.id \notin DOMAIN time
    BY <1>2, <2>1 DEF Stage
  <2>6. PICK n : n = r.then OBVIOUS
  <2> QED BY <1>1, <2>1, <2>2, <2>3, <2>4, <2>5, <2>6, MovedKeeps
<1>8. CASE AskStop(m)
  <2>1. /\ m.what = "stop" /\ m.id \in DOMAIN dist /\ m.id \notin DOMAIN time /\ dist' = dist
        /\ Asked(Request("stopDist", m.id, NoOptions, Msg("distStopped", m.client, m.id, NoOptions)))
    BY <1>8 DEF AskStop
  <2>2. PICK r \in Asks : /\ r.then.what = "distStopped" /\ r.then.client = m.client /\ r.then.id = m.id
                          /\ Asked(r)
    BY <1>2, <2>1, NoOptsIs, AskedOf
  <2>3. Local(m, {r.then})
    BY <1>1, <1>3, <1>4, <2>1, <2>2, AskedLocal DEF Answers
  <2>4. PICK n : n = r.then OBVIOUS
  <2> QED BY <1>1, <2>1, <2>2, <2>3, <2>4, AskStopKeeps
<1> QED BY <1>5, <1>6, <1>7, <1>8

\* A handler that asks the engine for nothing: an answer, or a call about no session.
LEMMA QuietOrdered ==
  ASSUME Base, Accepted, Orderly, Ordered, TypeOK', NEW m,
         NoSession(m) \/ Settled(m) \/ Failed(m) \/ Reverted(m) \/ Ended(m) \/ Redone(m) \/ Removed(m) \/ Forgotten(m)
  PROVE  Ordered'
<1>1. Took(m) /\ m.what \in Tellers \cup {"removed"}
  BY DEF NoSession, Settled, Failed, Reverted, Ended, Redone, Removed, Forgotten, Tellers
<1>2. /\ m.id \in Ids /\ m.client \in Clients /\ Stage(m.id) /\ Present(m.what, m.id) /\ m \in Items
      /\ IsTable(time, TimeOpts) /\ IsTable(dist, DistOpts) /\ TypeOK
      /\ m.what = "redone" => m.opts \in (IF m.opts.distance THEN DistOpts ELSE TimeOpts)
  BY <1>1, TookSession
<1>3. ~m.err
  BY <1>2, OrderlyItems
<1>4. time' = time => (\A i \in Ids : SameAt(i, time, time')) /\ SameClient(m.id, m.client, time, time')
  BY KeepAt
<1>5. dist' = dist => (\A i \in Ids : SameAt(i, dist, dist')) /\ SameClient(m.id, m.client, dist, dist')
  BY KeepAt
<1>6. ASSUME Told(m), m.what \in Tellers PROVE SameClients /\ Thens' = Thens \cup {}
  BY <1>1, <1>6, ToldThens
<1>7. ASSUME EraseSession(m.id), m.id \notin DOMAIN time, SameClients, Thens' = Thens \cup {} 
      PROVE Local(m, {}) /\ m.id \notin DOMAIN time' /\ m.id \notin DOMAIN dist'
  <2>1. time' = time /\ dist' = Erase(dist, {m.id})
    BY <1>7 DEF EraseSession
  <2>2. /\ \A i \in Ids : i # m.id => SameAt(i, dist, dist')
        /\ SameClient(m.id, m.client, dist, dist') /\ m.id \notin DOMAIN dist'
    BY <1>2, <2>1, EraseAt
  <2> QED BY <1>1, <1>4, <1>7, <2>1, <2>2 DEF Local
<1>8. CASE NoSession(m) \/ Settled(m)
  <2>1. /\ time' = time /\ dist' = dist /\ Told(m) /\ m.what \in Tellers
        /\ \/ m.what \in {"update", "stop"} /\ m.id \notin DOMAIN time /\ m.id \notin DOMAIN dist
           \/ m.what \in Hushed
    BY <1>2, <1>3, <1>8 DEF NoSession, Settled, Tellers, Hushed, Accepted, Rejected
  <2>2. SameClients /\ Thens' = Thens \cup {}
    BY <1>6, <2>1
  <2>3. Local(m, {})
    BY <1>1, <1>4, <1>5, <2>1, <2>2 DEF Local
  <2>4. CASE m.what = "stop"
    <3>1. m.id \notin DOMAIN time /\ m.id \notin DOMAIN dist
      BY <2>1, <2>4 DEF Hushed
    <3> QED BY <2>1, <2>3, <2>4, <3>1, StoppedKeeps
  <2>5. CASE m.what # "stop"
    BY <2>1, <2>3, <2>5, IdleKeeps
  <2> QED BY <2>4, <2>5
<1>9. CASE Ended(m)
  <2>1. m.what = "distStopped" /\ EraseSession(m.id) /\ Told(m) /\ m.what \in Tellers
    BY <1>9 DEF Ended, Tellers
  <2>2. SameClients /\ Thens' = Thens \cup {} /\ m.id \notin DOMAIN time
    BY <1>2, <1>6, <2>1 DEF Stage
  <2> QED BY <1>7, <2>1, <2>2, StoppedKeeps
<1>10. CASE Removed(m)
  <2>1. m.what = "removed" /\ EraseSession(m.id) /\ client' = client /\ apiQ' = apiQ
    BY <1>3, <1>10 DEF Removed
  <2>2. SameClients /\ Thens' = Thens \cup {} /\ m.id \notin DOMAIN time
    BY <1>2, <2>1 DEF Stage, SameClients, Thens
  <2> QED BY <1>7, <2>1, <2>2, StoppedKeeps
<1>11. CASE Redone(m)
  <2>1. m.what = "redone" /\ time' = time /\ dist' = Save(dist, m.id, Session(m.client, m.opts)) /\ Told(m) /\ m.what \in Tellers
    BY <1>11 DEF Redone, Tellers
  <2>2. m.opts.distance
    BY <1>1, <2>1, Taken DEF Messages
  <2>3. m.opts \in DistOpts
    BY <1>2, <2>1, <2>2
  <2>4. SameClients /\ Thens' = Thens \cup {} /\ m.id \in DOMAIN dist /\ m.id \notin DOMAIN time
    BY <1>2, <1>6, <2>1 DEF Stage
  <2>5. /\ \A i \in Ids : i # m.id => SameAt(i, dist, dist')
        /\ SameClient(m.id, m.client, dist, dist') /\ m.id \in DOMAIN dist' /\ dist'[m.id] = Session(m.client, m.opts)
    BY <1>2, <2>1, <2>3, SaveAt
  <2>6. Local(m, {})
    BY <1>1, <1>4, <2>1, <2>4, <2>5 DEF Local
  <2> QED BY <2>1, <2>2, <2>4, <2>5, <2>6, SavedKeeps
<1>12. ~Failed(m) /\ ~Reverted(m) /\ ~Forgotten(m)
  BY <1>2, <1>3 DEF Failed, Reverted, Forgotten, Accepted, Rejected
<1> QED BY <1>8, <1>9, <1>10, <1>11, <1>12

\* A client is removed.
LEMMA RemoveAllOrdered ==
  ASSUME Base, Accepted, Orderly, Ordered, NEW m, RemoveAll(m)
  PROVE  Ordered'
<1> DEFINE c == m.client
<1>1. /\ Took(m) /\ m.what = "remove" /\ HandleRemove(m) /\ m \in Posts /\ TypeOK /\ Owned /\ m \in Messages /\ m \in Items
      /\ IsTable(time, TimeOpts) /\ IsTable(dist, DistOpts) /\ OwnedItem(m)
  BY Taken DEF RemoveAll, Took
<1>2. /\ client' = client /\ dist' = dist /\ time' = Erase(time, Mine(time, c))
      /\ \E fixes, stops : Removes(c, fixes, stops) /\ apiQ' = apiQ \o (fixes \o stops)
  BY <1>1, RemoveOf
<1>3. PICK fixes, stops : Removes(c, fixes, stops) /\ apiQ' = apiQ \o (fixes \o stops)
  BY <1>2
<1>4. fixes \o stops \in Seq(Asks) /\ ToSet(fixes \o stops) = ToSet(fixes) \cup ToSet(stops)
  BY <1>3, ElemsCat DEF Removes
<1> DEFINE N == {r.then : r \in ToSet(fixes \o stops)}
<1>5. Thens' = Thens \cup N /\ N \subseteq Messages
  BY <1>1, <1>3, <1>4, AskedThens
<1>6. ASSUME NEW n \in N
      PROVE  /\ n.client = c /\ n.id \in Ids
             /\ \/ n.what \in Hushed /\ n.id \in Mine(time, c)
                \/ n.what = "removed" /\ n.id \in Mine(dist, c)
  <2>1. PICK r \in ToSet(fixes) \cup ToSet(stops) : n = r.then
    BY <1>4
  <2>2. Mine(time, c) \subseteq Ids /\ Mine(dist, c) \subseteq Ids
    BY <1>1 DEF Mine, IsTable
  <2> QED BY <1>3, <2>1, <2>2 DEF Removes, Hushed
<1>7. \A i \in Mine(dist, c) : \E n \in N : n.what = "removed" /\ n.id = i
  <2> TAKE i \in Mine(dist, c)
  <2>1. PICK r \in ToSet(stops) : r.then.what = "removed" /\ r.then.id = i
    BY <1>3 DEF Removes
  <2> QED BY <1>4, <2>1
<1> HIDE DEF N
<1>8. /\ Items = Rest \cup {m} /\ Items' = Rest \cup N
      /\ ToSet(msgQ') = ToSet(Tail(msgQ)) /\ ToSet(msgQ) = ToSet(Tail(msgQ)) \cup {m}
      /\ msgQ # <<>> /\ m = Head(msgQ) /\ msgQ' = Tail(msgQ) /\ msgQ \in Seq(Posts)
      /\ pending' = pending /\ env' = env /\ ToSet(Tail(msgQ)) \subseteq Rest
  BY <1>1, <1>5, TookItems DEF Took
<1>9. /\ \A i : i \in DOMAIN time' <=> i \in DOMAIN time /\ i \notin Mine(time, c)
      /\ \A i \in DOMAIN time : i \notin Mine(time, c) => time'[i] = time[i]
  BY <1>1, <1>2, EraseTable
<1>10. \A i \in DOMAIN time' : i \in DOMAIN time /\ time'[i] = time[i] /\ time[i].client # c
  BY <1>9 DEF Mine
<1>11. \A what, i : what \notin Hushed \cup {"removed"} => (Present(what, i)' => Present(what, i))
  BY <1>6, <1>8 DEF Present
<1>12. \A what, i : what # "remove" => (Present(what, i) => Present(what, i)')
  BY <1>1, <1>8 DEF Present
<1>13. ~client[c].alive
  BY <1>1 DEF OwnedItem
<1>14. ASSUME NEW n \in Rest, n.what \in Starting, n.client = c PROVE FALSE
  <2>1. n \in Items /\ n \in Messages /\ n.what \in Tellers /\ n.id # 0
    BY <1>1, <1>8, <1>14, ItemTypes DEF Starting, Tellers, Messages
  <2>2. CASE "patient" \in env
    <3>1. PICK d \in Clients : client[d].session = n.id
      BY <1>14, <2>1, <2>2 DEF Ordered, Attended, Held, Acting, Starting
    <3>2. d = c
      BY <1>1, <1>14, <2>1, <3>1 DEF Owned, OwnedItem
    <3>3. client[d].session = 0
      BY <1>1, <1>13, <3>1, <3>2 DEF Owned, OwnedClient
    <3> QED BY <2>1, <3>1, <3>3
  <2>3. CASE "patient" \notin env
    <3>1. n.what = "start" /\ n \notin ToSet(pending) /\ n \notin Thens
      BY <1>14, <2>1, <2>3, OrderlyItems DEF Starting, Answers
    <3>2. Precedes(m, n)
      BY <1>8, <1>14, <3>1, FirstTail DEF Ordered, Rest
    <3> QED BY <1>1, <1>14, <3>1, <3>2 DEF Precedes
  <2> QED BY <2>2, <2>3
<1>15. OneOwner'
  <2>1. ASSUME NEW i \in Ids, NEW d \in Clients, Of(i, d)' PROVE Of(i, d)
    <3>1. CASE (i \in DOMAIN time' /\ time'[i].client = d) \/ (i \in DOMAIN dist' /\ dist'[i].client = d)
      BY <1>2, <1>10, <3>1 DEF Of
    <3>2. ASSUME NEW n \in Items', n.what \in Tellers \cup {"removed"}, n.id = i, n.client = d PROVE Of(i, d)
      <4>1. CASE n \in Rest
        BY <1>8, <3>2, <4>1 DEF Of
      <4>2. CASE n \in N
        BY <1>6, <3>2, <4>2 DEF Of, Mine
      <4> QED BY <1>8, <4>1, <4>2
    <3> QED BY <2>1, <3>1, <3>2 DEF Of
  <2> QED BY <2>1 DEF OneOwner, Ordered
<1>16. StartFirst(msgQ)'
  BY <1>8, FirstTail DEF Ordered
<1>17. ASSUME NEW i \in Ids PROVE Stage(i)'
  <2>1. Stage(i)
    BY DEF Ordered
  <2>2. \A what \in {"start", "toTime", "redo", "redone", "distStopped"} : Present(what, i)' => Present(what, i)
    BY <1>11 DEF Hushed
  <2>3. Present("removed", i)' => Present("removed", i) \/ i \in DOMAIN dist
    BY <1>6, <1>8 DEF Present, Hushed, Mine
  <2> QED BY <1>2, <1>8, <1>10, <2>1, <2>2, <2>3 DEF Stage
<1>18. Attended'
  <2>1. ASSUME NEW n \in Items', n.what \in Acting PROVE n \in Items
    BY <1>6, <1>8, <2>1 DEF Acting, Hushed
  <2> QED BY <1>2, <1>8, <2>1 DEF Ordered, Attended, Held
<1>19. KindsStay'
  <2>1. ASSUME NEW n \in Items', n.what \in {"start", "update"} PROVE n \in Items
    BY <1>6, <1>8, <2>1 DEF Hushed
  <2>2. \A i : ToBeDist(i)' => ToBeDist(i)
    BY <1>2, <2>1 DEF ToBeDist
  <2> QED BY <1>2, <1>8, <2>1, <2>2 DEF Ordered, KindsStay
<1>20. Ghosts'
  <2>1. ASSUME NEW d, d # c, NEW i, Live(d, i) \/ Ending(d, i) PROVE (Live(d, i) \/ Ending(d, i))'
    <3>1. Live(d, i) => Live(d, i)'
      BY <1>2 DEF Live
    <3>2. Over(d, i) => Over(d, i)'
      BY <1>1, <1>8, <2>1 DEF Over, Ends
    <3> QED BY <1>12, <2>1, <3>1, <3>2 DEF Ending
  <2>2. NoGhostIn(time)'
    <3> SUFFICES ASSUME NEW i \in DOMAIN time' PROVE (Live(time[i].client, i) \/ Ending(time[i].client, i))'
      BY DEF NoGhostIn
    <3>1. PICK d : d = time[i].client /\ d = time'[i].client /\ d # c /\ i \in DOMAIN time
      BY <1>10
    <3>2. Live(d, i) \/ Ending(d, i)
      BY <3>1 DEF Ordered, Ghosts, NoGhostIn
    <3>3. (Live(d, i) \/ Ending(d, i))'
      BY <2>1, <3>1, <3>2
    <3> QED BY <3>1, <3>3
  <2>3. NoGhostIn(dist)'
    <3> SUFFICES ASSUME NEW i \in DOMAIN dist' PROVE (Live(dist[i].client, i) \/ Ending(dist[i].client, i))'
      BY DEF NoGhostIn
    <3>1. PICK d : d = dist[i].client /\ d = dist'[i].client /\ i \in DOMAIN dist
      BY <1>2
    <3>2. CASE d = c
      <4>1. i \in Mine(dist, c)
        BY <3>1, <3>2 DEF Mine
      <4>2. Present("removed", i)'
        BY <1>7, <1>8, <4>1 DEF Present
      <4> QED BY <4>2 DEF Ending
    <3>3. CASE d # c
      <4>1. Live(d, i) \/ Ending(d, i)
        BY <3>1 DEF Ordered, Ghosts, NoGhostIn
      <4>2. (Live(d, i) \/ Ending(d, i))'
        BY <2>1, <3>3, <4>1
      <4> QED BY <3>1, <4>2
    <3> QED BY <3>2, <3>3
  <2>4. ASSUME NEW n \in Items', n.what \in Starting PROVE (Live(n.client, n.id) \/ Over(n.client, n.id))'
    <3>1. n \in Rest /\ n \in Items
      BY <1>6, <1>8, <2>4 DEF Starting, Hushed
    <3>2. n.client # c
      BY <1>14, <2>4, <3>1
    <3>3. Live(n.client, n.id) \/ Over(n.client, n.id)
      BY <2>4, <3>1 DEF Ordered, Ghosts
    <3>4. Live(n.client, n.id) => Live(n.client, n.id)'
      BY <1>2 DEF Live
    <3>5. Over(n.client, n.id) => Over(n.client, n.id)'
      BY <1>1, <1>8, <3>2 DEF Over, Ends
    <3> QED BY <3>3, <3>4, <3>5
  <2> QED BY <2>2, <2>3, <2>4 DEF Ghosts
<1>21. Owed'
  <2> SUFFICES ASSUME NEW d \in Clients, client'[d].tracking
               PROVE Has(d, client[d].session, client[d].opts)'
    BY DEF Owed
  <2>1. PICK s, o : s = client[d].session /\ o = client[d].opts OBVIOUS
  <2>2. client[d].tracking /\ s = client'[d].session /\ o = client'[d].opts /\ Has(d, s, o)
    BY <1>2, <2>1 DEF Ordered, Owed
  <2>3. d # c /\ s # 0
    BY <1>1, <1>13, <2>1, <2>2 DEF Owned, OwnedClient
  <2>4. m \notin Carriers(s) /\ \A n \in N : n \notin Carriers(s)
    BY <1>1, <1>6 DEF Carriers, Hushed
  <2>5. \A x : LastIn(msgQ', Carriers(s), x) => x.opts = o
    <3>1. \A x : LastIn(Tail(msgQ), Carriers(s), x) => LastIn(msgQ, Carriers(s), x)
      BY <1>8, LastBehind
    <3> QED BY <1>8, <2>2, <3>1 DEF Has
  <2>6. \A n \in ToSet(pending') \cup Thens' : n \in Carriers(s) => n.opts = o
    BY <1>5, <1>8, <2>2, <2>4 DEF Has
  <2>7. s \in DOMAIN time => s \in DOMAIN time' /\ time'[s] = time[s]
    BY <1>1, <1>9, <2>1, <2>3 DEF Owned, OwnedIn, Mine
  <2>8. (\A n \in Items' : n \notin Carriers(s)) => \A n \in Items : n \notin Carriers(s)
    BY <1>8, <2>4
  <2>9. ~Present("stop", s)' /\ ~Present("distStopped", s)' /\ (Present("update", s)' => Present("update", s))
    BY <1>11, <2>2 DEF Has, Hushed
  <2>10. Present("start", s) => Present("start", s)'
    BY <1>12
  <2>11. Present("update", s)' => s \in DOMAIN time' \/ s \in DOMAIN dist' \/ Present("start", s)'
    BY <1>2, <2>2, <2>7, <2>9, <2>10 DEF Has
  <2>12. (\A n \in Items' : n \notin Carriers(s)) =>
         \/ s \in DOMAIN time' /\ time'[s] = Session(d, o)
         \/ s \in DOMAIN dist' /\ dist'[s] = Session(d, o)
    BY <1>2, <2>2, <2>7, <2>8 DEF Has
  <2>13. Has(d, s, o)'
    BY <2>5, <2>6, <2>9, <2>11, <2>12 DEF Has
  <2> QED BY <2>2, <2>13
<1> QED BY <1>15, <1>16, <1>17, <1>18, <1>19, <1>20, <1>21 DEF Ordered


----
(* What concerns no session, and the engine *)

\* What waits, is posted again, answered or asked for without a client, is the same as before.
SameOptions(s, o) ==
    (\A x : LastIn(msgQ, Carriers(s), x) => x.opts = o) /\ \A x \in ToSet(pending) \cup Thens : x \in Carriers(s) => x.opts = o
\* ... keeps sessions and calls in order.
LEMMA SameKeeps ==
  ASSUME Base, Accepted, Orderly, Ordered, time' = time, dist' = dist, SameClients, env' = env, StartFirst(msgQ)',
         \A n : n.what \notin {"config", "engineUp", "silent"} => (n \in Items' <=> n \in Items),
         \A n : n.what \in {"stop", "remove"} => (n \in ToSet(msgQ') <=> n \in ToSet(msgQ)),
         \A s, o : SameOptions(s, o) => SameOptions(s, o)'
  PROVE  Ordered'
<1>1. \A what, i : what \notin {"config", "engineUp", "silent"} => (Present(what, i)' <=> Present(what, i))
  BY DEF Present
<1>2. OneOwner'
  <2>1. \A i, d : Of(i, d)' => Of(i, d)
    BY DEF Of, Tellers
  <2> QED BY <2>1 DEF OneOwner, Ordered
<1>3. ASSUME NEW i \in Ids PROVE Stage(i)'
  <2>1. Stage(i)
    BY DEF Ordered
  <2>2. \A what \in {"start", "toTime", "redo", "redone", "distStopped", "removed"} : Present(what, i)' <=> Present(what, i)
    BY <1>1
  <2> QED BY <2>1, <2>2 DEF Stage
<1>4. Attended'
  <2>1. \A i : Held(i) => Held(i)'
    BY DEF Held, SameClients
  <2>2. \A n \in Items' : n.what \in Acting => n \in Items
    BY DEF Acting
  <2> QED BY <2>1, <2>2 DEF Ordered, Attended
<1>5. KindsStay'
  <2>1. \A i : ToBeDist(i)' => ToBeDist(i)
    BY DEF ToBeDist
  <2>2. \A c \in Clients : client'[c].session = client[c].session /\ client'[c].opts = client[c].opts
    BY DEF SameClients
  <2>3. ASSUME NEW c \in Clients, "patient" \notin env, client'[c].session # 0 /\ ~client'[c].opts.distance
        PROVE ~ToBeDist(client[c].session)'
    <3>1. PICK s : s = client[c].session /\ s = client'[c].session
      BY <2>2
    <3>2. ~ToBeDist(s)
      BY <2>2, <2>3, <3>1 DEF Ordered, KindsStay
    <3>3. ~ToBeDist(s)'
      BY <2>1, <3>2
    <3> QED BY <3>1, <3>3
  <2>4. ASSUME NEW n \in Items', n.what = "update", "patient" \notin env PROVE ~ToBeDist(n.id)'
    BY <2>1, <2>4 DEF Ordered, KindsStay
  <2> QED BY <2>3, <2>4 DEF KindsStay
<1>6. Ghosts'
  <2>1. ASSUME NEW d \in Clients, NEW i PROVE (Live(d, i)' <=> Live(d, i)) /\ (Over(d, i)' <=> Over(d, i))
    <3>1. Live(d, i)' <=> Live(d, i)
      BY DEF Live, SameClients
    <3>2. Over(d, i)' <=> Over(d, i)
      BY DEF Over, Ends
    <3> QED BY <3>1, <3>2
  <2>2. ASSUME NEW d \in Clients, NEW i, Live(d, i) \/ Ending(d, i) PROVE (Live(d, i) \/ Ending(d, i))'
    <3>1. \A what \in {"distStopped", "removed"} : Present(what, i)' <=> Present(what, i)
      BY <1>1
    <3> QED BY <2>1, <2>2, <3>1 DEF Ending
  <2>3. NoGhostIn(time)'
    <3> SUFFICES ASSUME NEW i \in DOMAIN time' PROVE (Live(time[i].client, i) \/ Ending(time[i].client, i))'
      BY DEF NoGhostIn
    <3>1. PICK d \in Clients : d = time[i].client /\ d = time'[i].client /\ i \in DOMAIN time
      BY DEF Base, TypeOK, IsTable
    <3>2. Live(d, i) \/ Ending(d, i)
      BY <3>1 DEF Ordered, Ghosts, NoGhostIn
    <3> QED BY <2>2, <3>1, <3>2
  <2>4. NoGhostIn(dist)'
    <3> SUFFICES ASSUME NEW i \in DOMAIN dist' PROVE (Live(dist[i].client, i) \/ Ending(dist[i].client, i))'
      BY DEF NoGhostIn
    <3>1. PICK d \in Clients : d = dist[i].client /\ d = dist'[i].client /\ i \in DOMAIN dist
      BY DEF Base, TypeOK, IsTable
    <3>2. Live(d, i) \/ Ending(d, i)
      BY <3>1 DEF Ordered, Ghosts, NoGhostIn
    <3> QED BY <2>2, <3>1, <3>2
  <2>5. ASSUME NEW n \in Items', n.what \in Starting PROVE (Live(n.client, n.id) \/ Over(n.client, n.id))'
    <3>1. n \in Items
      BY <2>5 DEF Starting
    <3>2. n.client \in Clients
      BY <2>5, <3>1, ItemTypes DEF Base, Messages, Starting, Tellers
    <3> QED BY <2>1, <2>5, <3>1, <3>2 DEF Ordered, Ghosts
  <2> QED BY <2>3, <2>4, <2>5 DEF Ghosts
<1>7. Owed'
  <2> SUFFICES ASSUME NEW d \in Clients, client'[d].tracking
               PROVE Has(d, client[d].session, client[d].opts)'
    BY DEF Owed
  <2>1. PICK s, o : s = client[d].session /\ o = client[d].opts OBVIOUS
  <2>2. client[d].tracking /\ s = client'[d].session /\ o = client'[d].opts /\ Has(d, s, o)
    BY <2>1 DEF Ordered, Owed, SameClients
  <2>3. SameOptions(s, o)'
    BY <2>2 DEF Has, SameOptions
  <2>4. \A what \in {"start", "update", "stop", "distStopped"} : Present(what, s)' <=> Present(what, s)
    BY <1>1
  <2>5. (\A n \in Items' : n \notin Carriers(s)) => \A n \in Items : n \notin Carriers(s)
    BY DEF Carriers
  <2>6. Has(d, s, o)'
    BY <2>2, <2>3, <2>4, <2>5 DEF Has, SameOptions
  <2> QED BY <2>2, <2>6
<1> QED BY <1>2, <1>3, <1>4, <1>5, <1>6, <1>7 DEF Ordered

\* Nothing is told of a request that is its own end.
LEMMA SilentThens ==
  ASSUME TypeOK, NEW reqs \in Seq(Asks), apiQ' = apiQ \o reqs, \A r \in ToSet(reqs) : r.then = Silent
  PROVE  Thens \subseteq Thens' /\ \A n \in Thens' : n \in Thens \/ n = Silent
<1>1. Thens' = Thens \cup {r.then : r \in ToSet(reqs)}
  BY AskedThens
<1> QED BY <1>1

\* No message without a session brings one options.
LEMMA NotCarried ==
  ASSUME NEW n, n.what \notin {"start", "update", "toTime", "redo", "redone"}
  PROVE  \A s : n \notin Carriers(s)
  BY DEF Carriers

\* A configuration call,
LEMMA ConfiguredOrdered ==
  ASSUME Base, Accepted, Orderly, Ordered, NEW m, Configured(m)
  PROVE  Ordered'
<1>1. Took(m) /\ m.what = "config" /\ client' = client /\ time' = time /\ dist' = dist /\ TypeOK
  BY DEF Configured, Base
<1>2. env' = env /\ pending' = pending /\ msgQ' = Tail(msgQ)
  BY <1>1 DEF Took
<1>3. PICK reqs : reqs = SuspendSessions \o RestartSessions OBVIOUS
<1>4. reqs \in Seq(Asks) /\ apiQ' = apiQ \o reqs /\ \A r \in ToSet(reqs) : r.then = Silent
  <2>1. SuspendSessions \in Seq(Asks) /\ \A r \in ToSet(SuspendSessions) : r.then = Silent
    BY SuspendOf
  <2>2. RestartSessions \in Seq(Asks) /\ \A r \in ToSet(RestartSessions) : r.then = Silent
    BY <1>1, RestartOf DEF Restarts
  <2>3. reqs \in Seq(Asks) /\ ToSet(reqs) = ToSet(SuspendSessions) \cup ToSet(RestartSessions)
    BY <1>3, <2>1, <2>2, ElemsCat
  <2> QED BY <1>3, <2>1, <2>2, <2>3 DEF Configured
<1>5. Thens \subseteq Thens' /\ \A n \in Thens' : n \in Thens \/ n = Silent
  BY <1>1, <1>4, SilentThens
<1>6. /\ msgQ \in Seq(Posts) /\ msgQ # <<>> /\ m = Head(msgQ) /\ ToSet(msgQ) = ToSet(Tail(msgQ)) \cup {m}
  BY <1>1, ElemsTail DEF TypeOK, Took
<1>7. \A n : n.what \notin {"config", "engineUp", "silent"} => (n \in Items' <=> n \in Items)
  BY <1>1, <1>2, <1>5, <1>6, SilentIs DEF Items
<1>8. \A n : n.what \in {"stop", "remove"} => (n \in ToSet(msgQ') <=> n \in ToSet(msgQ))
  BY <1>1, <1>2, <1>6
<1>9. StartFirst(msgQ)'
  BY <1>2, <1>6, FirstTail DEF Ordered
<1>10. ASSUME NEW s, NEW o, SameOptions(s, o) PROVE SameOptions(s, o)'
  <2>1. \A x : LastIn(Tail(msgQ), Carriers(s), x) => LastIn(msgQ, Carriers(s), x)
    BY <1>6, LastBehind
  <2>2. Silent \notin Carriers(s)
    BY SilentIs, NotCarried
  <2> QED BY <1>2, <1>5, <1>10, <2>1, <2>2 DEF SameOptions
<1>11. SameClients
  BY <1>1 DEF SameClients
<1> QED BY <1>1, <1>2, <1>7, <1>8, <1>9, <1>10, <1>11, SameKeeps

\* ... a message that waits for the capabilities,
LEMMA DeferredOrdered ==
  ASSUME Base, Accepted, Orderly, Ordered, NEW m, Deferred(m)
  PROVE  Ordered'
<1>1. /\ TypeOK /\ Valid /\ Waiting /\ msgQ \in Seq(Posts) /\ msgQ # <<>> /\ m = Head(msgQ) /\ msgQ' = Tail(msgQ)
      /\ m \in Defers /\ ~known /\ pending \in Seq(Defers) /\ pending' = Append(pending, m)
      /\ client' = client /\ time' = time /\ dist' = dist /\ apiQ' = apiQ /\ env' = env
  BY DEF Deferred, Base, TypeOK
<1>2. ToSet(msgQ) = ToSet(Tail(msgQ)) \cup {m} /\ ToSet(pending') = ToSet(pending) \cup {m} /\ m \in Items
  BY <1>1, ElemsTail, ElemsAppend DEF Items
<1>3. Thens' = Thens
  BY <1>1 DEF Thens
<1>4. Items' = Items
  BY <1>1, <1>2, <1>3 DEF Items
<1>5. \A n : n.what \in {"stop", "remove"} => (n \in ToSet(msgQ') <=> n \in ToSet(msgQ))
  BY <1>1, <1>2 DEF Defers
<1>6. StartFirst(msgQ)'
  BY <1>1, FirstTail DEF Ordered
<1>7. ASSUME NEW s, NEW o, SameOptions(s, o) PROVE SameOptions(s, o)'
  <2>1. \A x : LastIn(Tail(msgQ), Carriers(s), x) => LastIn(msgQ, Carriers(s), x)
    BY <1>1, LastBehind
  <2>2. ASSUME m \in Carriers(s) PROVE m.opts = o
    <3>1. m.what \in {"start", "update"} /\ m.opts.distance /\ m.id = s
      BY <1>1, <2>2 DEF Carriers, Defers
    <3>2. "patient" \in env
      BY <1>1, <1>2, <3>1 DEF Valid, ValidItem, Waiting, Orderly
    <3>3. \A n \in Rest : n.id = s => n.what \notin Tellers
      BY <1>1, <3>1, <3>2, Alone DEF Acting
    <3>4. ToSet(Tail(msgQ)) \cap Carriers(s) = {}
      BY <3>3 DEF Rest, Carriers, Tellers
    <3>5. LastIn(msgQ, Carriers(s), m)
      BY <1>1, <2>2, <3>4, LastBehind
    <3> QED BY <1>7, <3>5 DEF SameOptions
  <2> QED BY <1>1, <1>2, <1>3, <1>7, <2>1, <2>2 DEF SameOptions
<1>8. SameClients
  BY <1>1 DEF SameClients
<1> QED BY <1>1, <1>4, <1>5, <1>6, <1>7, <1>8, SameKeeps

\* What waits for the capabilities comes after nothing of the same session.
LEMMA PendingFirst ==
  ASSUME Base, Accepted, Orderly, Ordered, msgQ # <<>>
  PROVE  StartFirst(pending) /\ \A a \in ToSet(Tail(msgQ)) : \A b \in ToSet(pending) : Precedes(a, b)
<1>1. /\ TypeOK /\ Owned /\ Tallied
      /\ msgQ \in Seq(Posts) /\ pending \in Seq(Defers) /\ apiQ \in Seq(Asks) /\ Posts \subseteq Messages /\ Defers \subseteq Messages
  BY DEF Base, TypeOK, Posts, Defers
<1>2. Tail(msgQ) \in Seq(Posts) /\ ToSet(Tail(msgQ)) \subseteq Items /\ ToSet(pending) \subseteq Items
  BY <1>1, ElemsTail DEF Items
<1>3. ASSUME NEW b \in ToSet(pending), b.what = "start"
      PROVE  /\ \E c \in Clients : client[c].session = b.id /\ b.client = c /\ client[c].alive
             /\ b \in Rep(b.id) /\ Count(Tail(msgQ), Rep(b.id)) = 0 /\ Count(pending, Rep(b.id)) <= 1
  <2>1. b \in Messages /\ b \in Items /\ b.id \in Ids /\ b \in Rep(b.id)
    <3>1. ToSet(pending) \subseteq Defers
      BY <1>1, ItemTypes
    <3> QED BY <1>1, <1>2, <1>3, <3>1 DEF Messages, Ids, Rep, Tellers
  <2>2. "patient" \in env
    BY <1>3, OrderlyItems
  <2>3. PICK c \in Clients : client[c].session = b.id
    BY <1>3, <2>1, <2>2 DEF Ordered, Attended, Held, Acting
  <2>4. b.client = c /\ client[c].alive
    BY <1>1, <1>3, <2>1, <2>3 DEF Owned, OwnedItem, OwnedClient, Tellers, Ids
  <2>5. Due(b.id) = Len(client[c].queue) /\ Len(client[c].queue) <= 1
    BY <1>1, <2>1, <2>2, <2>3, DueNat DEF Tallied, Accepted, Ids
  <2>6. Due(b.id) = Count(msgQ, Rep(b.id)) + Count(pending, Rep(b.id)) + Count(apiQ, RepAsks(b.id))
    BY DEF Due
  <2>7. /\ Count(msgQ, Rep(b.id)) \in Nat /\ Count(pending, Rep(b.id)) \in Nat /\ Count(apiQ, RepAsks(b.id)) \in Nat
        /\ Count(Tail(msgQ), Rep(b.id)) \in Nat
    BY <1>1, <1>2, CountNat
  <2>8. Count(pending, Rep(b.id)) # 0
    BY <1>1, <1>3, <2>1, CountAlone
  <2>9. Count(msgQ, Rep(b.id)) >= Count(Tail(msgQ), Rep(b.id))
    <3>1. Count(msgQ, Rep(b.id)) = Count(Tail(msgQ), Rep(b.id)) + One(Head(msgQ), Rep(b.id))
      BY <1>1, CountTail
    <3> QED BY <2>7, <3>1 DEF One
  <2>10. Due(b.id) <= 1
    BY <2>5
  <2>11. Count(Tail(msgQ), Rep(b.id)) = 0 /\ Count(pending, Rep(b.id)) <= 1
    BY <2>6, <2>7, <2>8, <2>9, <2>10
  <2> QED BY <2>1, <2>3, <2>4, <2>11
<1>4. ASSUME NEW a \in ToSet(Tail(msgQ)), NEW b \in ToSet(pending), b.what = "start"
      PROVE  Precedes(a, b)
  <2>1. PICK c \in Clients : client[c].session = b.id /\ b.client = c /\ client[c].alive
    BY <1>3, <1>4
  <2>2. a.what \in Tellers => a.id # b.id
    BY <1>1, <1>2, <1>3, <1>4, PostCounts
  <2>3. a \in Items /\ OwnedItem(a)
    BY <1>1, <1>2 DEF Owned
  <2> QED BY <2>1, <2>2, <2>3 DEF Precedes, OwnedItem
<1>5. ASSUME NEW j \in 1 .. Len(pending), NEW k \in 1 .. Len(pending), j < k PROVE Precedes(pending[j], pending[k])
  <2>1. pending[j] \in ToSet(pending) /\ pending[k] \in ToSet(pending) /\ pending[j] \in Defers
    BY <1>1, ElemsOf
  <2>2. PICK a, b : a = pending[j] /\ b = pending[k] OBVIOUS
  <2>3. ASSUME b.what = "start", a.what \in Tellers, a.id = b.id PROVE FALSE
    <3>1. b \in Rep(b.id) /\ Count(pending, Rep(b.id)) <= 1
      BY <1>3, <2>1, <2>2, <2>3
    <3>2. a \in Rep(b.id)
      BY <1>1, <2>1, <2>2, <2>3 DEF Rep
    <3>3. j = k
      BY <1>1, <2>2, <3>1, <3>2, CountTwo
    <3>4. j \in Int /\ k \in Int OBVIOUS
    <3> QED BY <1>5, <3>3, <3>4
  <2>4. a.what \in {"start", "update", "config"}
    BY <2>1, <2>2 DEF Defers
  <2> QED BY <2>2, <2>3, <2>4 DEF Precedes
<1>6. \A a \in ToSet(Tail(msgQ)) : \A b \in ToSet(pending) : Precedes(a, b)
  BY <1>4 DEF Precedes
<1> QED BY <1>5, <1>6 DEF StartFirst

\* ... the capabilities that come,
LEMMA EngineUpOrdered ==
  ASSUME Base, Accepted, Orderly, Ordered, NEW m, NEW reqs, EngineUp(m, reqs)
  PROVE  Ordered'
<1>1. /\ TypeOK /\ msgQ \in Seq(Posts) /\ msgQ # <<>> /\ m = Head(msgQ) /\ msgQ' = Tail(msgQ) \o pending /\ m.what = "engineUp"
      /\ pending \in Seq(Defers) /\ pending \in Seq(Posts) /\ pending' = <<>> /\ reqs \in Seq(Asks) /\ apiQ' = apiQ \o reqs
      /\ \A r \in ToSet(reqs) : r.then = Silent
      /\ client' = client /\ time' = time /\ dist' = dist /\ env' = env
  <2>1. Defers \subseteq Posts
    BY DEF Defers
  <2>2. pending \in Seq(Defers)
    BY DEF Base, TypeOK
  <2>3. pending \in Seq(Posts)
    BY <2>1, <2>2
  <2> QED BY <2>2, <2>3 DEF EngineUp, Base, TypeOK
<1>2. Tail(msgQ) \in Seq(Posts) /\ ToSet(msgQ) = ToSet(Tail(msgQ)) \cup {m}
  BY <1>1, ElemsTail
<1>3. ToSet(msgQ') = ToSet(Tail(msgQ)) \cup ToSet(pending) /\ ToSet(pending') = {}
  <2>1. PICK q, p : q = Tail(msgQ) /\ p = pending OBVIOUS
  <2>2. q \in Seq(Posts) /\ p \in Seq(Posts) /\ msgQ' = q \o p
    BY <1>1, <1>2, <2>1
  <2>3. ToSet(q \o p) = ToSet(q) \cup ToSet(p)
    BY <2>2, ElemsCat
  <2>4. ToSet(pending') = {}
    BY <1>1 DEF ToSet
  <2> QED BY <2>1, <2>2, <2>3, <2>4
<1>4. Thens \subseteq Thens' /\ \A n \in Thens' : n \in Thens \/ n = Silent
  BY <1>1, SilentThens
<1>5. \A n : n.what \notin {"config", "engineUp", "silent"} => (n \in Items' <=> n \in Items)
  BY <1>1, <1>2, <1>3, <1>4, SilentIs DEF Items
<1>6. \A n : n.what \in {"stop", "remove"} => (n \in ToSet(msgQ') <=> n \in ToSet(msgQ))
  <2>1. \A n \in ToSet(pending) : n.what \notin {"stop", "remove"}
    BY <1>1, ItemTypes DEF Defers
  <2> QED BY <1>1, <1>2, <1>3, <2>1
<1>7. StartFirst(msgQ)'
  <2>1. StartFirst(Tail(msgQ))
    BY <1>1, FirstTail DEF Ordered
  <2>2. StartFirst(pending) /\ \A a \in ToSet(Tail(msgQ)) : \A b \in ToSet(pending) : Precedes(a, b)
    BY <1>1, PendingFirst
  <2>3. StartFirst(Tail(msgQ) \o pending)
    BY <1>1, <1>2, <2>1, <2>2, FirstCat
  <2> QED BY <1>1, <2>3
<1>8. ASSUME NEW s, NEW o, SameOptions(s, o) PROVE SameOptions(s, o)'
  <2>1. ASSUME NEW x, LastIn(Tail(msgQ) \o pending, Carriers(s), x) PROVE x.opts = o
    <3>1. x \in Carriers(s)
      BY <2>1 DEF LastIn
    <3>2. x \in ToSet(pending) \/ LastIn(Tail(msgQ), Carriers(s), x)
      BY <1>1, <1>2, <2>1, LastOfCat
    <3>3. LastIn(Tail(msgQ), Carriers(s), x) => LastIn(msgQ, Carriers(s), x)
      BY <1>1, LastBehind
    <3> QED BY <1>8, <3>1, <3>2, <3>3 DEF SameOptions
  <2>2. Silent \notin Carriers(s)
    BY SilentIs, NotCarried
  <2> QED BY <1>1, <1>3, <1>4, <1>8, <2>1, <2>2 DEF SameOptions
<1>9. SameClients
  BY <1>1 DEF SameClients
<1> QED BY <1>1, <1>5, <1>6, <1>7, <1>8, <1>9, SameKeeps

\* ... the engine's answer, which takes the place of the request,
LEMMA EngineAnswersOrdered ==
  ASSUME Base, Accepted, Orderly, Ordered, NEW refused \in BOOLEAN, EngineAnswers(refused)
  PROVE  Ordered'
<1>1. PICK r, n : r = Head(apiQ) /\ n = r.then OBVIOUS
<1>2. /\ TypeOK /\ msgQ \in Seq(Posts) /\ apiQ \in Seq(Asks) /\ apiQ # <<>> /\ apiQ' = Tail(apiQ)
      /\ client' = client /\ time' = time /\ dist' = dist /\ pending' = pending /\ env' = env /\ refused = FALSE
      /\ msgQ' = IF n = Silent THEN msgQ ELSE Append(msgQ, [n EXCEPT !.err = refused])
  BY <1>1 DEF Base, TypeOK, EngineAnswers, adapter, Orderly
<1>3. Tail(apiQ) \in Seq(Asks) /\ r \in Asks /\ ToSet(apiQ) = ToSet(Tail(apiQ)) \cup {r}
  BY <1>1, <1>2, ElemsTail
<1>4. n \in Messages /\ n.what \in Answers \cup {"silent"} /\ ~n.err /\ n.err \in BOOLEAN /\ (n # Silent => n.what \in Answers)
  BY <1>1, <1>3 DEF Asks, Messages
<1>5. n \in Thens /\ \A x : x \in Thens <=> x \in Thens' \/ x = n
  BY <1>1, <1>2, <1>3 DEF Thens
<1>6. n # Silent => msgQ' = Append(msgQ, n) /\ n \in Posts
  <2>1. [n EXCEPT !.err = FALSE] = n
    BY <1>4 DEF Messages
  <2>2. n.what \in Answers => n \in Posts
    BY <1>4 DEF Answers, Posts
  <2> QED BY <1>2, <1>4, <2>1, <2>2
<1>7. n # Silent => ToSet(msgQ') = ToSet(msgQ) \cup {n}
  BY <1>2, <1>6, ElemsAppend
<1>8. n = Silent => msgQ' = msgQ
  BY <1>2
<1>9. \A x : x.what \notin {"config", "engineUp", "silent"} => (x \in Items' <=> x \in Items)
  BY <1>2, <1>5, <1>7, <1>8, SilentIs DEF Items
<1>10. \A x : x.what \in {"stop", "remove"} => (x \in ToSet(msgQ') <=> x \in ToSet(msgQ))
  BY <1>4, <1>7, <1>8 DEF Answers
<1>11. StartFirst(msgQ)'
  <2>1. \A x \in ToSet(msgQ) : Precedes(x, n)
    BY <1>4 DEF Precedes, Answers
  <2>2. n # Silent => StartFirst(Append(msgQ, n))
    BY <1>2, <1>6, <2>1, FirstAppend DEF Ordered
  <2> QED BY <1>6, <1>8, <2>2 DEF Ordered
<1>12. ASSUME NEW s, NEW o, SameOptions(s, o) PROVE SameOptions(s, o)'
  <2>1. ASSUME NEW x, LastIn(msgQ', Carriers(s), x) PROVE x.opts = o
    <3>1. x \in Carriers(s)
      BY <2>1 DEF LastIn
    <3>2. n # Silent => x = n \/ LastIn(msgQ, Carriers(s), x)
      BY <1>2, <1>6, <2>1, LastOfAppend
    <3> QED BY <1>5, <1>8, <1>12, <2>1, <3>1, <3>2 DEF SameOptions
  <2> QED BY <1>2, <1>5, <1>12, <2>1 DEF SameOptions
<1>13. SameClients
  BY <1>2 DEF SameClients
<1> QED BY <1>2, <1>9, <1>10, <1>11, <1>12, <1>13, SameKeeps

\* ... and a message that is about no session.
LEMMA NeutralKeeps ==
  ASSUME Base, Accepted, Orderly, Ordered, NEW m \in Posts, m.what \in {"config", "engineUp"}, msgQ' = Append(msgQ, m),
         client' = client, time' = time, dist' = dist, pending' = pending, env' = env,
         \A n : n # Silent => (n \in Thens' <=> n \in Thens)
  PROVE  Ordered'
<1>1. msgQ \in Seq(Posts) /\ ToSet(msgQ') = ToSet(msgQ) \cup {m}
  BY ElemsAppend DEF Base, TypeOK
<1>2. \A x : x.what \notin {"config", "engineUp", "silent"} => (x \in Items' <=> x \in Items)
  BY <1>1, SilentIs DEF Items
<1>3. \A x : x.what \in {"stop", "remove"} => (x \in ToSet(msgQ') <=> x \in ToSet(msgQ))
  BY <1>1
<1>4. StartFirst(msgQ)'
  BY <1>1, FirstAppend DEF Ordered, Precedes
<1>5. ASSUME NEW s, NEW o, SameOptions(s, o) PROVE SameOptions(s, o)'
  <2>1. Silent \notin Carriers(s) /\ m \notin Carriers(s)
    BY SilentIs, NotCarried
  <2>2. ASSUME NEW x, LastIn(msgQ', Carriers(s), x) PROVE x.opts = o
    <3>1. x \in Carriers(s)
      BY <2>2 DEF LastIn
    <3>2. x = m \/ LastIn(msgQ, Carriers(s), x)
      BY <1>1, <2>2, LastOfAppend
    <3> QED BY <1>5, <2>1, <3>1, <3>2 DEF SameOptions
  <2> QED BY <1>5, <2>1, <2>2 DEF SameOptions
<1>6. SameClients
  BY DEF SameClients
<1> QED BY <1>2, <1>3, <1>4, <1>5, <1>6, SameKeeps

\* That the engine is open is such a message (LocSsrMsg),
LEMMA EngineOpenedOrdered ==
  ASSUME Base, Accepted, Orderly, Ordered, EngineOpened(TRUE)
  PROVE  Ordered'
<1>1. PICK m : m = Msg("engineUp", NoClient, 0, NoOptions) OBVIOUS
<1>2. m.what = "engineUp" /\ m \in Posts
  BY <1>1, PostIs DEF Msg
<1>3. /\ client' = client /\ time' = time /\ dist' = dist /\ pending' = pending /\ env' = env
      /\ msgQ' = Append(msgQ, m) /\ apiQ' = Tail(apiQ) /\ apiQ # <<>> /\ Head(apiQ) = Ssr /\ apiQ \in Seq(Asks)
  BY <1>1 DEF EngineOpened, adapter, Post, Base, TypeOK
<1>4. ToSet(apiQ) = ToSet(Tail(apiQ)) \cup {Ssr}
  BY <1>3, ElemsTail
<1>5. \A n : n # Silent => (n \in Thens' <=> n \in Thens)
  BY <1>3, <1>4, SsrIs DEF Thens
<1> QED BY <1>2, <1>3, <1>5, NeutralKeeps

\* ... and so is a configuration call (gnssUpdateConfigCommand).
LEMMA ConfigOrdered ==
  ASSUME Base, Accepted, Orderly, Ordered, UpdateConfig
  PROVE  Ordered'
<1>1. PICK m : m = Msg("config", NoClient, 0, NoOptions) OBVIOUS
<1>2. m.what = "config" /\ m \in Posts
  BY <1>1, PostIs DEF Msg
<1>3. /\ client' = client /\ time' = time /\ dist' = dist /\ pending' = pending /\ env' = env
      /\ msgQ' = Append(msgQ, m) /\ apiQ' = apiQ
  BY <1>1 DEF UpdateConfig, adapter, Post
<1>4. Thens' = Thens
  BY <1>3 DEF Thens
<1> QED BY <1>2, <1>3, <1>4, NeutralKeeps

\* The engine's restart sends no answer.
LEMMA EngineRestartsOrdered ==
  ASSUME Base, Accepted, Orderly, Ordered, EngineRestarts
  PROVE  Ordered'
<1>1. /\ client' = client /\ time' = time /\ dist' = dist /\ pending' = pending /\ env' = env /\ msgQ' = msgQ
      /\ apiQ' = Append(apiQ, Ssr) /\ apiQ \in Seq(Asks)
  BY DEF EngineRestarts, adapter, Base, TypeOK
<1>2. ToSet(apiQ') = ToSet(apiQ) \cup {Ssr}
  BY <1>1, SsrIs, ElemsAppend
<1>3. \A n : n # Silent => (n \in Thens' <=> n \in Thens)
  BY <1>2, SsrIs DEF Thens
<1>4. \A x : x.what \notin {"config", "engineUp", "silent"} => (x \in Items' <=> x \in Items)
  BY <1>1, <1>3, SilentIs DEF Items
<1>5. ASSUME NEW s, NEW o, SameOptions(s, o) PROVE SameOptions(s, o)'
  <2>1. Silent \notin Carriers(s)
    BY SilentIs, NotCarried
  <2> QED BY <1>1, <1>3, <1>5, <2>1 DEF SameOptions
<1>6. SameClients
  BY <1>1 DEF SameClients
<1>7. StartFirst(msgQ)'
  BY <1>1 DEF Ordered
<1>8. \A n : n.what \in {"stop", "remove"} => (n \in ToSet(msgQ') <=> n \in ToSet(msgQ))
  BY <1>1
<1> QED BY <1>1, <1>4, <1>5, <1>6, <1>7, <1>8, SameKeeps


----
(* The calls *)

\* A call is posted.
Posted(m) ==
    /\ m \in Posts /\ msgQ' = Append(msgQ, m) /\ UNCHANGED <<time, dist, pending, apiQ, env>>
\* What is on its way when a call was posted.
LEMMA PostedItems ==
  ASSUME TypeOK, NEW m, Posted(m)
  PROVE  /\ Items' = Items \cup {m} /\ ToSet(msgQ') = ToSet(msgQ) \cup {m} /\ msgQ \in Seq(Posts)
         /\ Thens' = Thens /\ pending' = pending /\ time' = time /\ dist' = dist /\ env' = env
<1>1. msgQ \in Seq(Posts) /\ ToSet(msgQ') = ToSet(msgQ) \cup {m}
  BY ElemsAppend DEF TypeOK, Posted
<1>2. Thens' = Thens /\ pending' = pending
  BY DEF Posted, Thens
<1> QED BY <1>1, <1>2 DEF Items, Posted

\* Whose a session is that a client holds.
LEMMA OfHeld ==
  ASSUME Base, Accepted, NEW c \in Clients, client[c].session # 0, NEW d \in Clients, Of(client[c].session, d)
  PROVE  d = c
<1>1. Owned /\ Items \subseteq Messages
  BY ItemTypes DEF Base
<1>2. ASSUME NEW n \in Items, n.what \in Tellers \cup {"removed"}, n.id = client[c].session, n.client = d PROVE d = c
  BY <1>1, <1>2 DEF Owned, OwnedItem
<1> QED BY <1>1, <1>2 DEF Of, Owned, OwnedIn

\* What a call leaves to the others.
LEMMA PostedOwed ==
  ASSUME TypeOK, NEW m, Posted(m), NEW c, NEW s, NEW o, m.id # s, Has(c, s, o)
  PROVE  Has(c, s, o)'
<1>1. /\ Items' = Items \cup {m} /\ ToSet(msgQ') = ToSet(msgQ) \cup {m} /\ msgQ \in Seq(Posts)
      /\ Thens' = Thens /\ pending' = pending /\ time' = time /\ dist' = dist
  BY PostedItems
<1>2. \A what : Present(what, s)' <=> Present(what, s)
  BY <1>1 DEF Present
<1>3. m \notin Carriers(s)
  BY DEF Carriers
<1>4. ASSUME NEW x, LastIn(msgQ', Carriers(s), x) PROVE x.opts = o
  <2>1. x \in Carriers(s)
    BY <1>4 DEF LastIn
  <2>2. x = m \/ LastIn(msgQ, Carriers(s), x)
    BY <1>1, <1>4, LastOfAppend DEF Posted
  <2> QED BY <1>3, <2>1, <2>2 DEF Has
<1>5. \A n \in ToSet(pending') \cup Thens' : n \in Carriers(s) => n.opts = o
  BY <1>1 DEF Has
<1>6. (\A n \in Items' : n \notin Carriers(s)) => \A n \in Items : n \notin Carriers(s)
  BY <1>1
<1> QED BY <1>1, <1>2, <1>4, <1>5, <1>6 DEF Has

\* Who has the sessions when a call was posted.
LEMMA PostedGhosts ==
  ASSUME Base, Accepted, Ordered, NEW m, Posted(m), m.what \in {"start", "update", "stop", "remove"},
         \A d \in Clients : \A i : Live(d, i) => (Live(d, i) \/ Over(d, i))',
         m.what = "start" => Live(m.client, m.id)'
  PROVE  Ghosts'
<1>1. /\ Items' = Items \cup {m} /\ ToSet(msgQ') = ToSet(msgQ) \cup {m} /\ time' = time /\ dist' = dist /\ TypeOK
  BY PostedItems DEF Base
<1>2. ASSUME NEW d \in Clients, NEW i, Live(d, i) \/ Over(d, i) PROVE (Live(d, i) \/ Over(d, i))'
  <2>1. Over(d, i) => Over(d, i)'
    BY <1>1 DEF Over, Ends
  <2> QED BY <1>2, <2>1
<1>3. ASSUME NEW d \in Clients, NEW i, Live(d, i) \/ Ending(d, i) PROVE (Live(d, i) \/ Ending(d, i))'
  <2>1. \A what : Present(what, i) => Present(what, i)'
    BY <1>1 DEF Present
  <2> QED BY <1>2, <1>3, <2>1 DEF Ending
<1>4. NoGhostIn(time)'
  <2> SUFFICES ASSUME NEW i \in DOMAIN time' PROVE (Live(time[i].client, i) \/ Ending(time[i].client, i))'
    BY DEF NoGhostIn
  <2>1. PICK d \in Clients : d = time[i].client /\ d = time'[i].client /\ i \in DOMAIN time
    BY <1>1 DEF TypeOK, IsTable
  <2>2. Live(d, i) \/ Ending(d, i)
    BY <2>1 DEF Ordered, Ghosts, NoGhostIn
  <2> QED BY <1>3, <2>1, <2>2
<1>5. NoGhostIn(dist)'
  <2> SUFFICES ASSUME NEW i \in DOMAIN dist' PROVE (Live(dist[i].client, i) \/ Ending(dist[i].client, i))'
    BY DEF NoGhostIn
  <2>1. PICK d \in Clients : d = dist[i].client /\ d = dist'[i].client /\ i \in DOMAIN dist
    BY <1>1 DEF TypeOK, IsTable
  <2>2. Live(d, i) \/ Ending(d, i)
    BY <2>1 DEF Ordered, Ghosts, NoGhostIn
  <2> QED BY <1>3, <2>1, <2>2
<1>6. ASSUME NEW n \in Items', n.what \in Starting PROVE (Live(n.client, n.id) \/ Over(n.client, n.id))'
  <2>1. CASE n = m
    BY <1>6, <2>1 DEF Starting
  <2>2. CASE n \in Items
    <3>1. n.client \in Clients
      BY <1>1, <1>6, <2>2, ItemTypes DEF Messages, Starting, Tellers
    <3>2. Live(n.client, n.id) \/ Over(n.client, n.id)
      BY <1>6, <2>2 DEF Ordered, Ghosts
    <3> QED BY <1>2, <3>1, <3>2
  <2> QED BY <1>1, <2>1, <2>2
<1> QED BY <1>4, <1>5, <1>6 DEF Ghosts

\* The calls that are about a session that is held, or about none.
LEMMA PostedStages ==
  ASSUME Base, Accepted, Orderly, Ordered, NEW m, Posted(m), m.what \in {"update", "stop", "remove"},
         NEW c \in Clients, m.what # "remove" => m.client = c /\ m.id = client[c].session /\ m.id # 0
  PROVE  OneOwner' /\ StartFirst(msgQ)' /\ (\A i \in Ids : Stage(i))' /\ \A i : ToBeDist(i)' => ToBeDist(i)
<1>1. /\ Items' = Items \cup {m} /\ ToSet(msgQ') = ToSet(msgQ) \cup {m} /\ msgQ \in Seq(Posts)
      /\ time' = time /\ dist' = dist /\ env' = env /\ TypeOK
  BY PostedItems DEF Base
<1>2. OneOwner'
  <2>1. ASSUME NEW i \in Ids, NEW d \in Clients, Of(i, d)' PROVE Of(i, d) \/ (i = client[c].session /\ d = c /\ i # 0)
    BY <1>1, <2>1 DEF Of, Tellers
  <2>2. ASSUME NEW i \in Ids, NEW d \in Clients, NEW e \in Clients, Of(i, d)', Of(i, e)' PROVE d = e
    <3>1. CASE i = client[c].session /\ i # 0
      <4>1. d = c
        BY <2>1, <2>2, <3>1, OfHeld
      <4>2. e = c
        BY <2>1, <2>2, <3>1, OfHeld
      <4> QED BY <4>1, <4>2
    <3>2. CASE ~(i = client[c].session /\ i # 0)
      BY <2>1, <2>2, <3>2 DEF Ordered, OneOwner
    <3> QED BY <3>1, <3>2
  <2> QED BY <2>2 DEF OneOwner
<1>3. StartFirst(msgQ)'
  <2>1. \A a \in ToSet(msgQ) : Precedes(a, m)
    BY DEF Precedes
  <2>2. StartFirst(Append(msgQ, m))
    BY <1>1, <2>1, FirstAppend DEF Ordered, Posted
  <2> QED BY <2>2 DEF Posted
<1>4. ASSUME NEW i \in Ids PROVE Stage(i)'
  <2>1. Stage(i)
    BY DEF Ordered
  <2>2. \A what \in {"start", "toTime", "redo", "redone", "distStopped", "removed"} : Present(what, i)' <=> Present(what, i)
    BY <1>1 DEF Present
  <2> QED BY <1>1, <2>1, <2>2 DEF Stage
<1>5. \A i : ToBeDist(i)' => ToBeDist(i)
  BY <1>1 DEF ToBeDist
<1> QED BY <1>2, <1>3, <1>4, <1>5

\* What the client's record becomes when it starts, stops and updates its session, and when it leaves.
LEMMA CallClients ==
  ASSUME TypeOK, NEW c \in Clients
  PROVE  /\ \A o \in StartOptions : StartTracking(c, o) =>
              /\ client[c].alive /\ ("patient" \in env => client[c].queue = <<>>) /\ ~client[c].tracking
              /\ client'[c].tracking /\ client'[c].session = bounds.ids + 1 /\ client'[c].opts = o
         /\ \A o : UpdateTracking(c, o) =>
              /\ ("patient" \in env => client[c].queue = <<>>) /\ client[c].session # 0
              /\ client'[c].tracking = client[c].tracking /\ client'[c].session = client[c].session
              /\ ~Rejected(client[c].opts) /\ ~Rejected(o) => client'[c].opts = o
         /\ StopTracking(c) => /\ client[c].session # 0
                               /\ ~client'[c].tracking /\ client'[c].session = client[c].session
                               /\ client'[c].opts = client[c].opts
         /\ Destroy(c) => /\ "patient" \in env => client[c].queue = <<>>
                          /\ ~client'[c].tracking /\ client'[c].session = 0
         /\ (\/ \E o \in StartOptions : StartTracking(c, o)
             \/ \E o \in UpdateOptions(c) : UpdateTracking(c, o)
             \/ StopTracking(c) \/ Destroy(c)) =>
              client'[c].dropped \in {client[c].dropped, 0} /\ \A d \in Clients : d # c => client'[d] = client[d]
<1>1. client \in [Clients -> Record] /\ client[c] \in Record
  BY DEF TypeOK
<1>2. ASSUME NEW o \in StartOptions, StartTracking(c, o)
      PROVE  /\ client[c].alive /\ ("patient" \in env => client[c].queue = <<>>) /\ ~client[c].tracking
             /\ client'[c].tracking /\ client'[c].session = bounds.ids + 1 /\ client'[c].opts = o
             /\ client'[c].dropped \in {client[c].dropped, 0} /\ \A d \in Clients : d # c => client'[d] = client[d]
  BY <1>1, <1>2 DEF StartTracking, CanCall, Record
<1>3. ASSUME NEW o, UpdateTracking(c, o)
      PROVE  /\ ("patient" \in env => client[c].queue = <<>>) /\ client[c].session # 0
             /\ client'[c].tracking = client[c].tracking /\ client'[c].session = client[c].session
             /\ ~Rejected(client[c].opts) /\ ~Rejected(o) => client'[c].opts = o
             /\ client'[c].dropped \in {client[c].dropped, 0} /\ \A d \in Clients : d # c => client'[d] = client[d]
  BY <1>1, <1>3 DEF UpdateTracking, CanCall, Record
<1>4. ASSUME StopTracking(c)
      PROVE  /\ client[c].session # 0
             /\ ~client'[c].tracking /\ client'[c].session = client[c].session /\ client'[c].opts = client[c].opts
             /\ client'[c].dropped \in {client[c].dropped, 0} /\ \A d \in Clients : d # c => client'[d] = client[d]
  BY <1>1, <1>4 DEF StopTracking, CanCall, Record
<1>5. ASSUME Destroy(c)
      PROVE  /\ "patient" \in env => client[c].queue = <<>>
             /\ ~client'[c].tracking /\ client'[c].session = 0
             /\ client'[c].dropped \in {client[c].dropped, 0} /\ \A d \in Clients : d # c => client'[d] = client[d]
  BY <1>1, <1>5 DEF Destroy, CanCall, Record
<1> QED BY <1>2, <1>3, <1>4, <1>5

----
(* Where no call is rejected none is dropped *)

\* Not by the clients' calls,
LEMMA AcceptedCalls ==
  ASSUME Base, Orderly, Accepted, NEW c \in Clients,
         \/ \E o \in StartOptions : StartTracking(c, o)
         \/ \E o \in UpdateOptions(c) : UpdateTracking(c, o)
         \/ StopTracking(c) \/ Destroy(c)
  PROVE  Accepted'
<1>1. TypeOK /\ bounds.ids + 1 \in Ids /\ client[c].session \in Nat
  BY DEF Base, TypeOK, Record, Ids
<1>2. ASSUME NEW m, Posted(m), m.what \in {"start", "update"} => m.opts.interval > 0,
             client'[c].session # 0 => client'[c].opts.interval > 0
      PROVE  Accepted'
  BY <1>1, <1>2, PostedItems, CallClients DEF Accepted
<1>3. ASSUME NEW o \in StartOptions, StartTracking(c, o) PROVE Accepted'
  <2>1. PICK m : m = Msg("start", c, bounds.ids + 1, o) OBVIOUS
  <2>2. m \in Posts /\ m.opts = o /\ o.interval > 0
    BY <1>1, <2>1, AcceptedOptions, PostIs DEF Msg
  <2>3. Posted(m)
    BY <1>3, <2>1, <2>2 DEF StartTracking, Post, Posted, adapter
  <2> QED BY <1>1, <1>2, <1>3, <2>2, <2>3, CallClients
<1>4. ASSUME NEW o \in UpdateOptions(c), UpdateTracking(c, o) PROVE Accepted'
  <2>1. PICK m : m = Msg("update", c, client[c].session, o) OBVIOUS
  <2>2. client[c].session \in Ids /\ ~Rejected(client[c].opts) /\ ~Rejected(o) /\ o \in Opts /\ o.interval > 0
    BY <1>1, <1>4, CallClients, AcceptedOptions DEF Accepted, Rejected, UpdateOptions, Ids
  <2>3. m \in Posts /\ m.opts = o
    BY <2>1, <2>2, PostIs DEF Msg
  <2>4. Posted(m)
    BY <1>4, <2>1, <2>3 DEF UpdateTracking, Post, Posted, adapter
  <2> QED BY <1>1, <1>2, <1>4, <2>2, <2>3, <2>4, CallClients
<1>5. CASE StopTracking(c)
  <2>1. PICK m : m = Msg("stop", c, client[c].session, NoOptions) OBVIOUS
  <2>2. client[c].session \in Ids
    BY <1>1, <1>5, CallClients DEF Ids
  <2>3. m \in Posts /\ m.what = "stop"
    BY <2>1, <2>2, PostIs DEF Msg
  <2>4. Posted(m)
    BY <1>5, <2>1, <2>3 DEF StopTracking, Post, Posted, adapter
  <2> QED BY <1>1, <1>2, <1>5, <2>3, <2>4, CallClients DEF Accepted
<1>6. CASE Destroy(c)
  <2>1. PICK m : m = Msg("remove", c, 0, NoOptions) OBVIOUS
  <2>2. m \in Posts /\ m.what = "remove"
    BY <2>1, PostIs DEF Msg
  <2>3. Posted(m)
    BY <1>6, <2>1, <2>2 DEF Destroy, Post, Posted, adapter
  <2> QED BY <1>1, <1>2, <1>6, <2>2, <2>3, CallClients
<1> QED BY <1>3, <1>4, <1>5, <1>6

\* ... nor by any other step,
LEMMA AcceptedNext == Base /\ Orderly /\ Accepted /\ [Next]_vars => Accepted'
<1> SUFFICES ASSUME Base, Orderly, Accepted, [Next]_vars PROVE Accepted'
  OBVIOUS
<1>1. TypeOK /\ TypeOK'
  BY BaseNext DEF Base
<1>2. /\ msgQ \in Seq(Posts) /\ pending \in Seq(Defers) /\ apiQ' \in Seq(Asks)
      /\ ToSet(msgQ) \subseteq Items /\ ToSet(pending) \subseteq Items
  BY <1>1 DEF TypeOK, Items
<1>3. \A n \in Thens' : n.what \notin {"start", "update"}
  <2>1. ToSet(apiQ') \subseteq Asks
    BY <1>2, ElemsOf
  <2>2. \A r \in Asks : r.then.what \notin {"start", "update"}
    BY DEF Asks, Answers
  <2> QED BY <2>1, <2>2 DEF Thens
<1>4. ASSUME \A n \in ToSet(msgQ') \cup ToSet(pending') : n \in Items \/ n.what \notin {"start", "update"},
             \A c \in Clients : /\ client'[c].dropped = client[c].dropped /\ client'[c].session = client[c].session
                                /\ client'[c].opts = client[c].opts
      PROVE  Accepted'
  BY <1>3, <1>4 DEF Accepted, Items
<1>5. ASSUME NEW c \in Clients,
             \/ \E o \in StartOptions : StartTracking(c, o)
             \/ \E o \in UpdateOptions(c) : UpdateTracking(c, o)
             \/ StopTracking(c) \/ Destroy(c)
      PROVE  Accepted'
  BY <1>5, AcceptedCalls
<1>6. ASSUME NEW m \in Posts, m.what \notin {"start", "update"}, msgQ' = Append(msgQ, m), UNCHANGED <<client, pending>>
      PROVE  Accepted'
  <2>1. ToSet(msgQ') = ToSet(msgQ) \cup {m}
    BY <1>2, <1>6, ElemsAppend
  <2> QED BY <1>2, <1>4, <1>6, <2>1
<1>7. CASE UpdateConfig
  <2>1. PICK m : m = Msg("config", NoClient, 0, NoOptions) OBVIOUS
  <2>2. m \in Posts /\ m.what = "config"
    BY <2>1, PostIs DEF Msg
  <2>3. msgQ' = Append(msgQ, m) /\ UNCHANGED <<client, pending>>
    BY <1>7, <2>1 DEF UpdateConfig, Post, adapter
  <2> QED BY <1>6, <2>2, <2>3
<1>8. CASE Proc
  <2>1. PICK m : Outcome(m) \/ Deferred(m) \/ \E reqs : EngineUp(m, reqs)
    BY <1>1, <1>8, ProcOutcomes
  <2>2. msgQ # <<>> /\ Tail(msgQ) \in Seq(Posts) /\ ToSet(msgQ) = ToSet(Tail(msgQ)) \cup {Head(msgQ)}
    <3>1. msgQ # <<>>
      BY <1>8 DEF Proc
    <3> QED BY <1>2, <3>1, ElemsTail
  <2>3. CASE Outcome(m)
    <3>1. msgQ' = Tail(msgQ) /\ pending' = pending
      BY <2>3, OutcomeTook DEF Took
    <3> QED BY <1>2, <1>4, <2>2, <2>3, <3>1, AcceptedOutcome
  <2>4. CASE Deferred(m)
    <3>1. msgQ' = Tail(msgQ) /\ pending' = Append(pending, m) /\ client' = client /\ m \in Defers /\ m = Head(msgQ)
      BY <2>4 DEF Deferred
    <3>2. ToSet(pending') = ToSet(pending) \cup {m}
      BY <1>2, <3>1, ElemsAppend
    <3> QED BY <1>2, <1>4, <2>2, <3>1, <3>2
  <2>5. ASSUME NEW reqs, EngineUp(m, reqs) PROVE Accepted'
    <3>1. msgQ' = Tail(msgQ) \o pending /\ pending' = <<>> /\ client' = client
      BY <2>5 DEF EngineUp
    <3>2. pending \in Seq(Posts) /\ ToSet(<<>>) = {}
      BY <1>2 DEF Defers, ToSet
    <3>3. ToSet(msgQ') = ToSet(Tail(msgQ)) \cup ToSet(pending)
      <4>1. PICK S, q, r : S = Posts /\ q = Tail(msgQ) /\ r = pending OBVIOUS
      <4>2. q \in Seq(S) /\ r \in Seq(S)
        BY <2>2, <3>2, <4>1
      <4>3. ToSet(q \o r) = ToSet(q) \cup ToSet(r)
        BY <4>2, ElemsCat
      <4> QED BY <3>1, <4>1, <4>3
    <3> QED BY <1>2, <1>4, <2>2, <3>1, <3>2, <3>3
  <2> QED BY <2>1, <2>3, <2>4, <2>5
<1>9. ASSUME NEW refused \in BOOLEAN, EngineAnswers(refused) PROVE Accepted'
  <2>1. apiQ \in Seq(Asks) /\ apiQ # <<>> /\ client' = client /\ pending' = pending
    BY <1>1, <1>9 DEF EngineAnswers, adapter, TypeOK
  <2>2. PICK n : n = Head(apiQ).then OBVIOUS
  <2>3. Head(apiQ) \in Asks
    BY <2>1
  <2>4. n \in Messages /\ n.what \in Answers \cup {"silent"}
    BY <2>2, <2>3 DEF Asks
  <2>5. CASE n = Silent
    <3>1. msgQ' = msgQ
      BY <1>9, <2>2, <2>5 DEF EngineAnswers
    <3> QED BY <1>2, <1>4, <2>1, <3>1
  <2>6. CASE n # Silent
    <3>1. n.what \in Answers
      BY <2>4, <2>6 DEF Messages
    <3>2. PICK a : a = [n EXCEPT !.err = refused] OBVIOUS
    <3>3. a \in Posts /\ a.what = n.what
      BY <2>4, <3>1, <3>2, AnswerOf
    <3>4. msgQ' = Append(msgQ, a)
      BY <1>9, <2>2, <2>6, <3>2 DEF EngineAnswers
    <3> QED BY <1>6, <2>1, <3>1, <3>3, <3>4 DEF Answers
  <2> QED BY <2>5, <2>6
<1>10. ASSUME NEW opened \in BOOLEAN, EngineOpened(opened) PROVE Accepted'
  <2>1. PICK m : m = Msg("engineUp", NoClient, 0, NoOptions) OBVIOUS
  <2>2. m \in Posts /\ m.what = "engineUp"
    BY <2>1, PostIs DEF Msg
  <2>3. UNCHANGED <<client, pending>> /\ (msgQ' = Append(msgQ, m) \/ msgQ' = msgQ)
    BY <1>10, <2>1 DEF EngineOpened, Post, adapter
  <2>4. CASE msgQ' = Append(msgQ, m)
    BY <1>6, <2>2, <2>3, <2>4
  <2>5. CASE msgQ' = msgQ
    BY <1>2, <1>4, <2>3, <2>5
  <2> QED BY <2>3, <2>4, <2>5
<1>11. CASE EngineRestarts \/ UNCHANGED vars
  <2>1. UNCHANGED <<client, pending, msgQ>>
    BY <1>11 DEF EngineRestarts, vars, adapter
  <2> QED BY <1>2, <1>4, <2>1
<1> QED BY <1>5, <1>7, <1>8, <1>9, <1>10, <1>11 DEF Next, Api

\* ... in any state.
LEMMA NothingDropped == Spec => [](Orderly => Base /\ Accepted)
<1>1. Init => (Orderly => Accepted)
  <2> SUFFICES ASSUME Init PROVE Accepted OBVIOUS
  <2>1. /\ pending = <<>> /\ msgQ = <<>> /\ apiQ = IF known THEN <<>> ELSE <<Ssr>>
        /\ \A c \in Clients : client[c].dropped = 0 /\ client[c].session = 0
    BY DEF Init, Idle
  <2>2. ToSet(<<>>) = {} /\ ToSet(<<Ssr>>) = {Ssr}
    BY SsrIs, ElemsUnit DEF ToSet
  <2>3. \A n \in Items : n = Silent
    BY <2>1, <2>2, SsrIs DEF Items, Thens
  <2> QED BY <2>1, <2>3, SilentIs DEF Accepted
<1>2. ("basic" \notin env => Base) /\ (Orderly => Accepted) /\ [Next]_vars => (Orderly => Accepted)'
  <2> SUFFICES ASSUME "basic" \notin env => Base, Orderly => Accepted, [Next]_vars, Orderly' PROVE Accepted'
    OBVIOUS
  <2>1. Orderly
    BY EnvironmentStays DEF Orderly
  <2> QED BY <2>1, AcceptedNext DEF Orderly
<1>3. ("basic" \notin env => Base) /\ (Orderly => Accepted) => (Orderly => Base /\ Accepted)
  BY DEF Orderly
<1> QED BY <1>1, <1>2, <1>3, BaseInvariant, PTL DEF Spec

----
(* Sessions and the calls *)

\* startTracking: nothing is known of the new session yet.
LEMMA StartOrdered ==
  ASSUME Base, Accepted, Orderly, Ordered, NEW c \in Clients, NEW o \in StartOptions, StartTracking(c, o)
  PROVE  Ordered'
<1>1. PICK id : id = bounds.ids + 1 OBVIOUS
<1>2. PICK m : m = Msg("start", c, id, o) OBVIOUS
<1>3. TypeOK /\ Owned /\ id \in Ids /\ id > bounds.ids /\ bounds.ids \in Nat
  BY <1>1 DEF Base, TypeOK, Ids
<1>4. o \in Opts /\ o.interval > 0
  BY AcceptedOptions
<1>5. m.what = "start" /\ m.client = c /\ m.id = id /\ m.opts = o /\ m \in Posts
  BY <1>2, <1>3, <1>4, PostIs DEF Msg
<1>6. Posted(m)
  BY <1>1, <1>2, <1>5 DEF StartTracking, Post, Posted, adapter
<1>7. /\ Items' = Items \cup {m} /\ ToSet(msgQ') = ToSet(msgQ) \cup {m} /\ msgQ \in Seq(Posts)
      /\ Thens' = Thens /\ pending' = pending /\ time' = time /\ dist' = dist /\ env' = env
      /\ ToSet(msgQ) \subseteq Items /\ ToSet(pending) \subseteq Items /\ Thens \subseteq Items
  BY <1>3, <1>6, PostedItems DEF Items
<1>8. /\ client[c].alive /\ ("patient" \in env => client[c].queue = <<>>) /\ ~client[c].tracking
      /\ client'[c].tracking /\ client'[c].session = id /\ client'[c].opts = o
      /\ \A d \in Clients : d # c => client'[d] = client[d]
  BY <1>1, <1>3, CallClients
<1>9. /\ \A n \in Items : n.id # id
      /\ id \notin DOMAIN time /\ id \notin DOMAIN dist
      /\ \A d \in Clients : client[d].session # id
  <2>1. \A n \in Items : n.id <= bounds.ids /\ n \in Messages
    BY <1>3, ItemTypes DEF Owned, OwnedItem
  <2>2. \A n \in Items : n.id \in Nat
    BY <2>1 DEF Messages
  <2>3. \A i \in DOMAIN time \cup DOMAIN dist : i <= bounds.ids /\ i \in Nat
    BY <1>3 DEF Owned, OwnedIn, TypeOK, IsTable, Ids
  <2>4. \A d \in Clients : client[d].session <= bounds.ids /\ client[d].session \in Nat
    BY <1>3 DEF Owned, OwnedClient, TypeOK, Record
  <2>5. id \in Nat /\ \A k \in Nat : k <= bounds.ids => k # id
    BY <1>3 DEF Ids
  <2> QED BY <2>1, <2>2, <2>3, <2>4, <2>5
<1>10. OneOwner'
  <2>1. ASSUME NEW i \in Ids, NEW d \in Clients, Of(i, d)' PROVE (Of(i, d) /\ i # id) \/ (i = id /\ d = c)
    BY <1>5, <1>7, <1>9, <2>1 DEF Of
  <2> QED BY <2>1 DEF Ordered, OneOwner
<1>11. StartFirst(msgQ)'
  <2>1. \A a \in ToSet(msgQ) : Precedes(a, m)
    <3>1. \A a \in ToSet(msgQ) : a.what = "remove" => a.client # c
      BY <1>3, <1>7, <1>8 DEF Owned, OwnedItem
    <3> QED BY <1>5, <1>7, <1>9, <3>1 DEF Precedes
  <2>2. StartFirst(Append(msgQ, m))
    BY <1>5, <1>7, <2>1, FirstAppend DEF Ordered
  <2> QED BY <1>6, <2>2 DEF Posted
<1>12. ASSUME NEW i \in Ids PROVE Stage(i)'
  <2>1. CASE i = id
    <3>1. \A what : what # "start" => ~Present(what, i)'
      BY <1>5, <1>7, <1>9, <2>1 DEF Present
    <3> QED BY <1>7, <1>9, <2>1, <3>1 DEF Stage
  <2>2. CASE i # id
    <3>1. \A what : Present(what, i)' <=> Present(what, i)
      BY <1>5, <1>7, <2>2 DEF Present
    <3>2. Stage(i)
      BY DEF Ordered
    <3> QED BY <1>7, <3>1, <3>2 DEF Stage
  <2> QED BY <2>1, <2>2
<1>13. Attended'
  <2>1. ASSUME "patient" \in env, NEW n \in Items, n.what \in Acting PROVE Held(n.id)'
    <3>1. PICK d \in Clients : client[d].session = n.id
      BY <2>1 DEF Ordered, Attended, Held
    <3>2. n.id # 0 /\ n.what \in Tellers
      BY <1>3, <2>1, ItemTypes DEF Acting, Tellers, Messages
    <3>3. d # c
      BY <1>8, <2>1, <3>1, <3>2, NothingOnItsWay
    <3> QED BY <1>8, <3>1, <3>3 DEF Held
  <2>2. Held(id)'
    BY <1>8 DEF Held
  <2> QED BY <1>5, <1>7, <2>1, <2>2 DEF Attended
<1>14. KindsStay'
  <2>1. \A i : i # id => (ToBeDist(i)' => ToBeDist(i))
    BY <1>5, <1>7 DEF ToBeDist
  <2>2. ~o.distance => ~ToBeDist(id)'
    BY <1>5, <1>7, <1>9 DEF ToBeDist
  <2>3. ASSUME "patient" \notin env, NEW n \in Items', n.what = "update" PROVE ~ToBeDist(n.id)'
    BY <1>5, <1>7, <1>9, <2>1, <2>3 DEF Ordered, KindsStay
  <2>4. ASSUME "patient" \notin env, NEW d \in Clients, client'[d].session # 0, ~client'[d].opts.distance
        PROVE  ~ToBeDist(client[d].session)'
    <3>1. CASE d = c
      BY <1>8, <2>2, <2>4, <3>1
    <3>2. CASE d # c
      <4>1. client'[d] = client[d]
        BY <1>8, <3>2
      <4>2. PICK s : s = client[d].session /\ s = client'[d].session
        BY <4>1
      <4>3. ~ToBeDist(s) /\ s # id
        BY <1>9, <2>4, <4>1, <4>2 DEF Ordered, KindsStay
      <4>4. ~ToBeDist(s)'
        BY <2>1, <4>3
      <4> QED BY <4>2, <4>4
    <3> QED BY <3>1, <3>2
  <2> QED BY <1>7, <2>3, <2>4 DEF KindsStay
<1>15. Ghosts'
  <2>1. Live(c, id)'
    BY <1>8 DEF Live
  <2>2. \A d \in Clients : \A i : Live(d, i) => Live(d, i)'
    BY <1>8 DEF Live
  <2> QED BY <1>5, <1>6, <2>1, <2>2, PostedGhosts
<1>16. Owed'
  <2> SUFFICES ASSUME NEW d \in Clients, client'[d].tracking PROVE Has(d, client[d].session, client[d].opts)'
    BY DEF Owed
  <2>1. PICK s, p : s = client'[d].session /\ p = client'[d].opts OBVIOUS
  <2>2. CASE d = c
    <3>1. s = id /\ p = o
      BY <1>8, <2>1, <2>2
    <3>2. ~Present("stop", id)' /\ ~Present("distStopped", id)' /\ ~Present("update", id)'
      BY <1>5, <1>7, <1>9 DEF Present
    <3>3. \A n \in Items : n \notin Carriers(id)
      BY <1>9 DEF Carriers
    <3>4. m \in Carriers(id)
      BY <1>5 DEF Carriers, Posts
    <3>5. ASSUME NEW x, LastIn(msgQ', Carriers(id), x) PROVE x.opts = o
      <4>1. x \in Carriers(id)
        BY <3>5 DEF LastIn
      <4>2. x = m \/ LastIn(msgQ, Carriers(id), x)
        BY <1>5, <1>6, <1>7, <3>5, LastOfAppend DEF Posted
      <4>3. LastIn(msgQ, Carriers(id), x) => x \in ToSet(msgQ)
        BY <1>7, LastElem
      <4> QED BY <1>5, <1>7, <3>3, <4>1, <4>2, <4>3
    <3>6. Has(d, id, o)'
      BY <1>7, <3>2, <3>3, <3>4, <3>5 DEF Has
    <3> QED BY <2>1, <3>1, <3>6
  <2>3. CASE d # c
    <3>1. client'[d] = client[d]
      BY <1>8, <2>3
    <3>2. Has(d, s, p)
      BY <2>1, <3>1 DEF Ordered, Owed
    <3>3. s # id
      BY <1>9, <2>1, <3>1
    <3>4. Has(d, s, p)'
      BY <1>3, <1>5, <1>6, <3>2, <3>3, PostedOwed
    <3> QED BY <2>1, <3>4
  <2> QED BY <2>2, <2>3
<1> QED BY <1>10, <1>11, <1>12, <1>13, <1>14, <1>15, <1>16 DEF Ordered

\* Where the other clients' sessions are concerned, the rest of what they are owed.
LEMMA OthersOwed ==
  ASSUME Base, Accepted, Ordered, NEW c \in Clients, NEW m, Posted(m), m.what \in {"update", "stop", "remove"},
         m.what # "remove" => m.id = client[c].session,
         \A d \in Clients : d # c => client'[d] = client[d],
         NEW d \in Clients, d # c, client'[d].tracking
  PROVE  Has(d, client[d].session, client[d].opts)'
<1>1. TypeOK /\ Owned
  BY DEF Base
<1>2. client'[d] = client[d] OBVIOUS
<1>3. PICK s, o : s = client'[d].session /\ o = client'[d].opts OBVIOUS
<1>4. Has(d, s, o)
  BY <1>2, <1>3 DEF Ordered, Owed
<1>5. s # 0 /\ s # client[c].session
  BY <1>1, <1>2, <1>3 DEF Owned, OwnedClient
<1>6. CASE m.what # "remove"
  <2>1. Has(d, s, o)'
    BY <1>1, <1>4, <1>5, <1>6, PostedOwed
  <2> QED BY <1>3, <2>1
<1>7. CASE m.what = "remove"
  <2>1. /\ Items' = Items \cup {m} /\ ToSet(msgQ') = ToSet(msgQ) \cup {m} /\ msgQ \in Seq(Posts)
        /\ Thens' = Thens /\ pending' = pending /\ time' = time /\ dist' = dist
    BY <1>1, PostedItems
  <2>2. \A what \in {"start", "update", "stop", "distStopped"} : Present(what, s)' <=> Present(what, s)
    BY <1>7, <2>1 DEF Present
  <2>3. m \notin Carriers(s)
    BY <1>7 DEF Carriers
  <2>4. ASSUME NEW x, LastIn(msgQ', Carriers(s), x) PROVE x.opts = o
    <3>1. x \in Carriers(s)
      BY <2>4 DEF LastIn
    <3>2. x = m \/ LastIn(msgQ, Carriers(s), x)
      BY <2>1, <2>4, LastOfAppend DEF Posted
    <3> QED BY <1>4, <2>3, <3>1, <3>2 DEF Has
  <2>5. Has(d, s, o)'
    BY <1>4, <2>1, <2>2, <2>3, <2>4 DEF Has
  <2> QED BY <1>3, <2>5
<1> QED BY <1>6, <1>7

\* stopTracking: what the client had is on its way out.
LEMMA StopOrdered ==
  ASSUME Base, Accepted, Orderly, Ordered, NEW c \in Clients, StopTracking(c)
  PROVE  Ordered'
<1>1. PICK s : s = client[c].session OBVIOUS
<1>2. PICK m : m = Msg("stop", c, s, NoOptions) OBVIOUS
<1>3. /\ TypeOK /\ Owned /\ s # 0 /\ s \in Ids
      /\ ~client'[c].tracking /\ client'[c].session = s /\ client'[c].opts = client[c].opts
      /\ \A d \in Clients : d # c => client'[d] = client[d]
  BY <1>1, CallClients DEF Base, TypeOK, Record, Ids
<1>4. m.what = "stop" /\ m.client = c /\ m.id = s /\ m \in Posts
  BY <1>2, <1>3, PostIs DEF Msg
<1>5. Posted(m)
  BY <1>1, <1>2, <1>4 DEF StopTracking, Post, Posted, adapter
<1>6. /\ Items' = Items \cup {m} /\ ToSet(msgQ') = ToSet(msgQ) \cup {m} /\ env' = env
  BY <1>3, <1>5, PostedItems
<1>7. OneOwner' /\ StartFirst(msgQ)' /\ (\A i \in Ids : Stage(i))' /\ \A i : ToBeDist(i)' => ToBeDist(i)
  BY <1>1, <1>3, <1>4, <1>5, PostedStages
<1>8. \A d \in Clients : client'[d].session = client[d].session /\ client'[d].opts = client[d].opts
  BY <1>1, <1>3
<1>9. Attended'
  <2>1. \A i : Held(i) => Held(i)'
    BY <1>8 DEF Held
  <2>2. Held(s)
    BY <1>1 DEF Held
  <2> QED BY <1>4, <1>6, <2>1, <2>2 DEF Ordered, Attended
<1>10. KindsStay'
  <2>1. ASSUME "patient" \notin env, NEW n \in Items', n.what = "update" PROVE ~ToBeDist(n.id)'
    BY <1>4, <1>6, <1>7, <2>1 DEF Ordered, KindsStay
  <2>2. ASSUME "patient" \notin env, NEW d \in Clients, client'[d].session # 0, ~client'[d].opts.distance
        PROVE  ~ToBeDist(client[d].session)'
    <3>1. PICK i : i = client[d].session /\ i = client'[d].session
      BY <1>8
    <3>2. ~ToBeDist(i)'
      BY <1>7, <1>8, <2>2, <3>1 DEF Ordered, KindsStay
    <3> QED BY <3>1, <3>2
  <2> QED BY <1>6, <2>1, <2>2 DEF KindsStay
<1>11. Ghosts'
  <2>1. Over(c, s)'
    BY <1>4, <1>6 DEF Over, Ends
  <2>2. ASSUME NEW d \in Clients, NEW i, Live(d, i) PROVE (Live(d, i) \/ Over(d, i))'
    <3>1. CASE d = c
      <4>1. i = s
        BY <1>1, <2>2, <3>1 DEF Live
      <4> QED BY <2>1, <3>1, <4>1
    <3>2. CASE d # c
      BY <1>3, <2>2, <3>2 DEF Live
    <3> QED BY <3>1, <3>2
  <2> QED BY <1>4, <1>5, <2>2, PostedGhosts
<1>12. Owed'
  <2> SUFFICES ASSUME NEW d \in Clients, client'[d].tracking PROVE Has(d, client[d].session, client[d].opts)'
    BY DEF Owed
  <2>1. d # c
    BY <1>3
  <2> QED BY <1>1, <1>3, <1>4, <1>5, <2>1, OthersOwed
<1> QED BY <1>7, <1>9, <1>10, <1>11, <1>12 DEF Ordered

\* destroy: the client's sessions are on their way out.
LEMMA DestroyOrdered ==
  ASSUME Base, Accepted, Orderly, Ordered, NEW c \in Clients, Destroy(c)
  PROVE  Ordered'
<1>1. PICK m : m = Msg("remove", c, 0, NoOptions) OBVIOUS
<1>2. /\ TypeOK /\ Owned
      /\ ("patient" \in env => client[c].queue = <<>>) /\ ~client'[c].tracking /\ client'[c].session = 0
      /\ \A d \in Clients : d # c => client'[d] = client[d]
  BY CallClients DEF Base
<1>3. m.what = "remove" /\ m.client = c /\ m \in Posts
  BY <1>1, PostIs DEF Msg
<1>4. Posted(m)
  BY <1>1, <1>3 DEF Destroy, Post, Posted, adapter
<1>5. /\ Items' = Items \cup {m} /\ ToSet(msgQ') = ToSet(msgQ) \cup {m} /\ env' = env
  BY <1>2, <1>4, PostedItems
<1>6. OneOwner' /\ StartFirst(msgQ)' /\ (\A i \in Ids : Stage(i))' /\ \A i : ToBeDist(i)' => ToBeDist(i)
  BY <1>3, <1>4, PostedStages
<1>7. Attended'
  <2>1. ASSUME "patient" \in env, NEW n \in Items, n.what \in Acting PROVE Held(n.id)'
    <3>1. PICK d \in Clients : client[d].session = n.id
      BY <2>1 DEF Ordered, Attended, Held
    <3>2. n.id # 0 /\ n.what \in Tellers
      BY <1>2, <2>1, ItemTypes DEF Acting, Tellers, Messages
    <3>3. d # c
      BY <1>2, <2>1, <3>1, <3>2, NothingOnItsWay
    <3> QED BY <1>2, <3>1, <3>3 DEF Held
  <2> QED BY <1>3, <1>5, <2>1 DEF Attended, Acting
<1>8. KindsStay'
  <2>1. ASSUME "patient" \notin env, NEW n \in Items', n.what = "update" PROVE ~ToBeDist(n.id)'
    BY <1>3, <1>5, <1>6, <2>1 DEF Ordered, KindsStay
  <2>2. ASSUME "patient" \notin env, NEW d \in Clients, client'[d].session # 0, ~client'[d].opts.distance
        PROVE  ~ToBeDist(client[d].session)'
    <3>1. client'[d] = client[d]
      BY <1>2, <2>2
    <3>2. PICK i : i = client[d].session /\ i = client'[d].session
      BY <3>1
    <3>3. ~ToBeDist(i)'
      BY <1>6, <2>2, <3>1, <3>2 DEF Ordered, KindsStay
    <3> QED BY <3>2, <3>3
  <2> QED BY <1>5, <2>1, <2>2 DEF KindsStay
<1>9. Ghosts'
  <2>1. \A i : Over(c, i)'
    BY <1>3, <1>5 DEF Over, Ends
  <2>2. ASSUME NEW d \in Clients, NEW i, Live(d, i) PROVE (Live(d, i) \/ Over(d, i))'
    <3>1. CASE d = c
      BY <2>1, <3>1
    <3>2. CASE d # c
      BY <1>2, <2>2, <3>2 DEF Live
    <3> QED BY <3>1, <3>2
  <2> QED BY <1>3, <1>4, <2>2, PostedGhosts
<1>10. Owed'
  <2> SUFFICES ASSUME NEW d \in Clients, client'[d].tracking PROVE Has(d, client[d].session, client[d].opts)'
    BY DEF Owed
  <2>1. d # c
    BY <1>2
  <2> QED BY <1>2, <1>3, <1>4, <2>1, OthersOwed
<1> QED BY <1>6, <1>7, <1>8, <1>9, <1>10 DEF Ordered

\* updateTrackingOptions: the new options are on their way behind everything else.
LEMMA UpdateOrdered ==
  ASSUME Base, Accepted, Orderly, Ordered, NEW c \in Clients, NEW o \in UpdateOptions(c), UpdateTracking(c, o)
  PROVE  Ordered'
<1>1. PICK s : s = client[c].session OBVIOUS
<1>2. PICK m : m = Msg("update", c, s, o) OBVIOUS
<1>3. /\ TypeOK /\ Owned /\ Valid /\ s # 0 /\ s \in Ids /\ ("patient" \in env => client[c].queue = <<>>)
      /\ client'[c].tracking = client[c].tracking /\ client'[c].session = s /\ client'[c].opts = o
      /\ \A d \in Clients : d # c => client'[d] = client[d]
  <2>1. TypeOK /\ client[c].session # 0
    BY CallClients DEF Base
  <2>2. ~Rejected(o) /\ ~Rejected(client[c].opts)
    BY <2>1, AcceptedOptions DEF UpdateOptions, Accepted, Rejected
  <2> QED BY <1>1, <2>1, <2>2, CallClients DEF Base, TypeOK, Record, Ids
<1>4. /\ o \in Opts /\ o.interval > 0
      /\ "updates" \in env \/ (~o.distance /\ ~client[c].opts.distance)
  BY AcceptedOptions DEF UpdateOptions
<1>5. m.what = "update" /\ m.client = c /\ m.id = s /\ m.opts = o /\ m \in Posts
  BY <1>2, <1>3, <1>4, PostIs DEF Msg
<1>6. Posted(m)
  BY <1>1, <1>2, <1>5 DEF UpdateTracking, Post, Posted, adapter
<1>7. /\ Items' = Items \cup {m} /\ ToSet(msgQ') = ToSet(msgQ) \cup {m} /\ msgQ \in Seq(Posts)
      /\ Thens' = Thens /\ pending' = pending /\ time' = time /\ dist' = dist /\ env' = env
      /\ ToSet(pending) \subseteq Items /\ Thens \subseteq Items
  BY <1>3, <1>6, PostedItems DEF Items
<1>8. OneOwner' /\ StartFirst(msgQ)' /\ (\A i \in Ids : Stage(i))' /\ \A i : ToBeDist(i)' => ToBeDist(i)
  BY <1>1, <1>3, <1>5, <1>6, PostedStages
<1>9. \A d \in Clients : client'[d].session = client[d].session
  BY <1>1, <1>3
<1>10. Attended'
  <2>1. \A i : Held(i) => Held(i)'
    BY <1>9 DEF Held
  <2>2. Held(s)
    BY <1>1 DEF Held
  <2> QED BY <1>5, <1>7, <2>1, <2>2 DEF Ordered, Attended
<1>11. "patient" \notin env => ~ToBeDist(s)
  <2>1. CASE "distance" \in env
    <3>1. "patient" \notin env => ~client[c].opts.distance
      BY <1>4, <2>1 DEF Orderly
    <3> QED BY <1>1, <1>3, <3>1 DEF Ordered, KindsStay
  <2>2. CASE "distance" \notin env
    BY <1>3, <2>2 DEF ToBeDist, Valid, ValidItem
  <2> QED BY <2>1, <2>2
<1>12. KindsStay'
  <2>1. ASSUME "patient" \notin env, NEW n \in Items', n.what = "update" PROVE ~ToBeDist(n.id)'
    BY <1>5, <1>7, <1>8, <1>11, <2>1 DEF Ordered, KindsStay
  <2>2. ASSUME "patient" \notin env, NEW d \in Clients, client'[d].session # 0, ~client'[d].opts.distance
        PROVE  ~ToBeDist(client[d].session)'
    <3>1. PICK i : i = client[d].session /\ i = client'[d].session
      BY <1>9
    <3>2. ~ToBeDist(i)
      <4>1. CASE d = c
        BY <1>1, <1>11, <2>2, <3>1, <4>1
      <4>2. CASE d # c
        BY <1>3, <2>2, <3>1, <4>2 DEF Ordered, KindsStay
      <4> QED BY <4>1, <4>2
    <3>3. ~ToBeDist(i)'
      BY <1>8, <3>2
    <3> QED BY <3>1, <3>3
  <2> QED BY <1>7, <2>1, <2>2 DEF KindsStay
<1>13. Ghosts'
  <2>1. \A d \in Clients : \A i : Live(d, i) => Live(d, i)'
    BY <1>1, <1>3 DEF Live
  <2> QED BY <1>5, <1>6, <2>1, PostedGhosts
<1>14. \A n \in Items : n.what \in {"toTime", "redo", "redone"} => n.id # s
  BY <1>1, <1>3, OrderlyItems, NothingOnItsWay DEF Tellers
<1>15. \A n \in ToSet(pending) \cup Thens : n.what \in {"start", "update"} => n.id # s
  <2>1. CASE "patient" \in env
    BY <1>1, <1>3, <1>7, <2>1, NothingOnItsWay DEF Tellers
  <2>2. CASE "patient" \notin env
    BY <2>2, OrderlyItems DEF Answers
  <2> QED BY <2>1, <2>2
<1>16. Owed'
  <2> SUFFICES ASSUME NEW d \in Clients, client'[d].tracking PROVE Has(d, client[d].session, client[d].opts)'
    BY DEF Owed
  <2>1. CASE d = c
    <3>1. PICK p : p = client[c].opts OBVIOUS
    <3>2. Has(c, s, p)
      BY <1>1, <1>3, <2>1, <3>1 DEF Ordered, Owed
    <3>3. \A what \in {"start", "stop", "distStopped"} : Present(what, s)' <=> Present(what, s)
      BY <1>5, <1>7 DEF Present
    <3>4. ASSUME NEW x, LastIn(msgQ', Carriers(s), x) PROVE x.opts = o
      <4>1. x = m \/ (m \notin Carriers(s) /\ LastIn(msgQ, Carriers(s), x))
        BY <1>5, <1>6, <1>7, <3>4, LastOfAppend DEF Posted
      <4> QED BY <1>5, <4>1 DEF Carriers, Posts
    <3>5. \A n \in ToSet(pending') \cup Thens' : n \notin Carriers(s)
      BY <1>7, <1>14, <1>15 DEF Carriers
    <3>6. s \in DOMAIN time \/ s \in DOMAIN dist \/ Present("start", s)
      <4>1. CASE \A n \in Items : n \notin Carriers(s)
        BY <3>2, <4>1 DEF Has
      <4>2. ASSUME NEW n \in Items, n \in Carriers(s) PROVE Present("start", s) \/ Present("update", s)
        BY <1>14, <4>2 DEF Carriers, Present
      <4> QED BY <3>2, <4>1, <4>2 DEF Has
    <3>7. m \in Carriers(s)
      BY <1>5 DEF Carriers, Posts
    <3>8. Has(c, s, o)'
      BY <1>7, <3>2, <3>3, <3>4, <3>5, <3>6, <3>7 DEF Has
    <3> QED BY <1>3, <2>1, <3>8
  <2>2. CASE d # c
    BY <1>1, <1>3, <1>5, <1>6, <2>2, OthersOwed
  <2> QED BY <2>1, <2>2
<1> QED BY <1>8, <1>10, <1>12, <1>13, <1>16 DEF Ordered


----
(* The theorems on the sessions *)

\* Every outcome of a message keeps sessions and calls in order,
LEMMA OutcomeOrdered ==
  ASSUME Base, Accepted, Orderly, Ordered, NEW m, Outcome(m)
  PROVE  Ordered'
<1>1. TypeOK'
  BY OutcomeKeeps DEF Base
<1>2. CASE JoinTime(m)
  BY <1>1, <1>2, JoinTimeOrdered
<1>3. CASE LeaveTime(m)
  BY <1>1, <1>3, LeaveTimeOrdered
<1>4. CASE ToDist(m)
  BY <1>1, <1>4, ToDistOrdered
<1>5. CASE JoinDist(m)
  BY <1>1, <1>5, JoinDistOrdered
<1>6. CASE AskToTime(m) \/ AskRedo(m) \/ AskStop(m) \/ AskAgain(m)
  BY <1>1, <1>6, AskOrdered
<1>7. CASE \/ NoSession(m) \/ Settled(m) \/ Failed(m) \/ Reverted(m) \/ Ended(m) \/ Redone(m) \/ Removed(m) \/ Forgotten(m)
  BY <1>1, <1>7, QuietOrdered
<1>8. CASE RemoveAll(m)
  BY <1>8, RemoveAllOrdered
<1>9. CASE Configured(m)
  BY <1>9, ConfiguredOrdered
<1> QED BY <1>2, <1>3, <1>4, <1>5, <1>6, <1>7, <1>8, <1>9 DEF Outcome

\* ... the MsgTask does,
LEMMA ProcOrdered ==
  ASSUME Base, Accepted, Orderly, Ordered, Proc
  PROVE  Ordered'
<1>1. PICK m : Outcome(m) \/ Deferred(m) \/ \E reqs : EngineUp(m, reqs)
  BY ProcOutcomes DEF Base
<1>2. CASE Outcome(m)
  BY <1>2, OutcomeOrdered
<1>3. CASE Deferred(m)
  BY <1>3, DeferredOrdered
<1>4. ASSUME NEW reqs, EngineUp(m, reqs) PROVE Ordered'
  BY <1>4, EngineUpOrdered
<1> QED BY <1>1, <1>2, <1>3, <1>4

\* They are in order at the start,
LEMMA OrderedInit == Init => Ordered
<1> SUFFICES ASSUME Init PROVE Ordered OBVIOUS
<1>1. /\ time = <<>> /\ dist = <<>> /\ pending = <<>> /\ msgQ = <<>> /\ DOMAIN time = {} /\ DOMAIN dist = {}
      /\ apiQ = IF known THEN <<>> ELSE <<Ssr>>
      /\ \A c \in Clients : client[c].session = 0 /\ ~client[c].tracking
  BY DEF Init, Idle
<1>2. /\ ToSet(<<>>) = {} /\ ToSet(<<Ssr>>) = {Ssr} /\ Len(msgQ) = 0
  BY <1>1, SsrIs, ElemsUnit
<1>3. \A n \in Items : n = Silent
  BY <1>1, <1>2, SsrIs DEF Items, Thens
<1>4. \A n \in Items : n.what = "silent"
  BY <1>3, SilentIs
<1>5. \A what, i : what # "silent" => ~Present(what, i)
  BY <1>4 DEF Present
<1>6. OneOwner
  BY <1>1, <1>4 DEF OneOwner, Of, Tellers
<1>7. StartFirst(msgQ)
  BY <1>2 DEF StartFirst
<1>8. \A i \in Ids : Stage(i)
  BY <1>1, <1>5 DEF Stage
<1>9. Attended /\ KindsStay
  BY <1>1, <1>4 DEF Attended, Acting, KindsStay
<1>10. Ghosts /\ Owed
  BY <1>1, <1>4 DEF Ghosts, NoGhostIn, Starting, Owed
<1> QED BY <1>6, <1>7, <1>8, <1>9, <1>10 DEF Ordered

\* ... and every step keeps them so.
LEMMA OrderedNext == (Orderly => Base /\ Accepted) /\ (Orderly => Ordered) /\ [Next]_vars => (Orderly => Ordered)'
<1> SUFFICES ASSUME Orderly => Base /\ Accepted, Orderly => Ordered, [Next]_vars, Orderly' PROVE Ordered'
  OBVIOUS
<1>1. env' = env
  BY EnvironmentStays
<1>2. Orderly /\ Ordered /\ Base /\ Accepted
  BY <1>1 DEF Orderly
<1>3. ASSUME NEW c \in Clients, NEW o \in StartOptions, StartTracking(c, o) PROVE Ordered'
  BY <1>2, <1>3, StartOrdered
<1>4. ASSUME NEW c \in Clients, NEW o \in UpdateOptions(c), UpdateTracking(c, o) PROVE Ordered'
  BY <1>2, <1>4, UpdateOrdered
<1>5. ASSUME NEW c \in Clients, StopTracking(c) PROVE Ordered'
  BY <1>2, <1>5, StopOrdered
<1>6. ASSUME NEW c \in Clients, Destroy(c) PROVE Ordered'
  BY <1>2, <1>6, DestroyOrdered
<1>7. CASE UpdateConfig
  BY <1>2, <1>7, ConfigOrdered
<1>8. CASE Proc
  BY <1>2, <1>8, ProcOrdered
<1>9. ASSUME NEW refused \in BOOLEAN, EngineAnswers(refused) PROVE Ordered'
  BY <1>2, <1>9, EngineAnswersOrdered
<1>10. ASSUME NEW opened \in BOOLEAN, EngineOpened(opened) PROVE Ordered'
  <2>1. opened
    BY <1>2, <1>10 DEF EngineOpened, Orderly
  <2> QED BY <1>2, <1>10, <2>1, EngineOpenedOrdered
<1>11. CASE EngineRestarts
  BY <1>2, <1>11, EngineRestartsOrdered
<1>12. CASE UNCHANGED vars
  <2>1. /\ client' = client /\ time' = time /\ dist' = dist /\ pending' = pending /\ msgQ' = msgQ /\ apiQ' = apiQ /\ env' = env
    BY <1>12 DEF vars
  <2>2. Thens' = Thens
    BY <2>1 DEF Thens
  <2>3. Items' = Items
    BY <2>1, <2>2 DEF Items
  <2>4. SameClients
    BY <2>1 DEF SameClients
  <2>5. \A s, o : SameOptions(s, o) => SameOptions(s, o)'
    BY <2>1, <2>2 DEF SameOptions
  <2>6. StartFirst(msgQ)'
    BY <1>2, <2>1 DEF Ordered
  <2> QED BY <1>2, <2>1, <2>3, <2>4, <2>5, <2>6, SameKeeps
<1> QED BY <1>3, <1>4, <1>5, <1>6, <1>7, <1>8, <1>9, <1>10, <1>11, <1>12 DEF Next, Api

\* Where Orderly holds, sessions and calls are in order in every state (not so with
\* impatient clients of distance-based sessions: run tracking_impatient).
THEOREM SessionsInvariant == Spec => [](Orderly => Ordered)
<1>1. Init => (Orderly => Ordered)
  BY OrderedInit
<1>2. (Orderly => Base /\ Accepted) /\ (Orderly => Ordered) /\ [Next]_vars => (Orderly => Ordered)'
  BY OrderedNext
<1>3. Spec => [](Orderly => Base /\ Accepted)
  BY NothingDropped
<1> QED BY <1>1, <1>2, <1>3, PTL DEF Spec

\* With the queues empty nothing waits either.
LEMMA NothingLeft ==
  ASSUME Base, "refusal" \notin env, Quiet
  PROVE  Items = {} /\ msgQ = <<>> /\ ToSet(msgQ) = {}
<1>1. msgQ = <<>> /\ apiQ = <<>> /\ Waiting
  BY DEF Base, Quiet
<1>2. ToSet(<<>>) = {}
  BY DEF ToSet
<1>3. known /\ pending = <<>>
  BY <1>1, <1>2 DEF Waiting
<1> QED BY <1>1, <1>2, <1>3 DEF Items, Thens

\* Then every session is one a client has,
LEMMA OrderedNoGhost == Base /\ "refusal" \notin env /\ Ordered => NoGhost
<1> SUFFICES ASSUME Base, "refusal" \notin env, Ordered, Quiet, NEW i \in DOMAIN time \cup DOMAIN dist
             PROVE  \E c \in Clients : client[c].tracking /\ client[c].session = i
  BY DEF NoGhost
<1>1. Items = {} /\ ToSet(msgQ) = {}
  BY NothingLeft
<1>2. \A c : ~Ending(c, i)
  BY <1>1 DEF Ending, Over, Present
<1>3. /\ i \in DOMAIN time => time[i].client \in Clients /\ Live(time[i].client, i)
      /\ i \in DOMAIN dist => dist[i].client \in Clients /\ Live(dist[i].client, i)
  BY <1>2 DEF Ordered, Ghosts, NoGhostIn, Base, TypeOK, IsTable
<1> QED BY <1>3 DEF Live

\* ... and every client that tracks has its session.
LEMMA OrderedHas == Base /\ Ordered => HasWhatItAsked
<1> SUFFICES ASSUME Base, "refusal" \notin env, Ordered, Quiet, NEW c \in Clients, client[c].tracking
             PROVE  \E sessions \in {time, dist} :
                      /\ client[c].session \in DOMAIN sessions
                      /\ sessions[client[c].session] = Session(c, client[c].opts)
  BY DEF HasWhatItAsked
<1>1. Items = {}
  BY NothingLeft
<1>2. Has(c, client[c].session, client[c].opts)
  BY DEF Ordered, Owed
<1> QED BY <1>1, <1>2 DEF Has

\* Once nothing is on its way every session is one its client has not stopped: with
\* any number of clients, sessions and restarts, in every order of calls and answers.
THEOREM NoSessionOutlives == Spec => [](Orderly => NoGhost)
<1>1. Spec => [](Orderly => Base /\ Accepted) /\ [](Orderly => Ordered)
  BY NothingDropped, SessionsInvariant
<1>2. (Orderly => Base /\ Accepted) /\ (Orderly => Ordered) => (Orderly => NoGhost)
  BY OrderedNoGhost DEF Orderly
<1> QED BY <1>1, <1>2, PTL

\* ... and a client that tracks has the session it asked for, of the kind and with
\* the options it gave last.
THEOREM ClientsHaveWhatTheyAsked == Spec => [](Orderly => HasWhatItAsked)
<1>1. Spec => [](Orderly => Base /\ Accepted) /\ [](Orderly => Ordered)
  BY NothingDropped, SessionsInvariant
<1>2. (Orderly => Base /\ Accepted) /\ (Orderly => Ordered) => (Orderly => HasWhatItAsked)
  BY OrderedHas DEF Orderly
<1> QED BY <1>1, <1>2, PTL

----
(* What the engine will do *)

\* The requests that set the fix, and those for a distance-based session.
FixAsks == {r \in Asks : r.op \in {"start", "stop"}}
DistAsks(i) == {r \in Asks : r.op \in {"startDist", "stopDist"} /\ r.id = i}

\* No restart of the sessions is on its way.
Up == (\A r \in ToSet(apiQ) : r.op # "ssr") /\ \A m \in ToSet(msgQ) : m.what # "engineUp"
\* The fix the engine comes to is one for the sessions.
Right(f) == (time = <<>> => f = NoFix) /\ (Up => Serves(f, time))
FixRight ==
    /\ \A r : LastIn(apiQ, FixAsks, r) => Right(FixOf(r))
    /\ ToSet(apiQ) \cap FixAsks = {} => Right(engine.fix)

\* A distance-based session the engine comes to have, and the last request for it.
Leaving(i) == Present("distStopped", i) \/ Present("removed", i) \/ Present("redo", i)
Wanted(i) == i \in DOMAIN dist /\ ~Leaving(i)
DistRight(i) ==
    /\ \A r : LastIn(apiQ, DistAsks(i), r) => (r.op = "startDist" <=> Wanted(i))
    /\ ToSet(apiQ) \cap DistAsks(i) = {} => (i \in engine.dist <=> Wanted(i))

\* An engine that does not restart opens once.
Openings == {m \in Posts : m.what = "engineUp"}
OpenOnce == "restart" \notin env => Count(msgQ, Openings) + Count(apiQ, {Ssr}) = IF known THEN 0 ELSE 1
Configures == \A m \in Items : m.what = "config" => "config" \in env
Engaged == FixRight /\ engine.dist \subseteq Ids /\ (\A i \in Ids : DistRight(i)) /\ OpenOnce /\ Configures

\* Where the engine keeps what it has while distance-based sessions run.
Steady == Orderly /\ ("distance" \in env => "restart" \notin env /\ "config" \notin env)

\* The last of a kind is in the part added if one of its kind is, and before it if none is.
LEMMA LastOfTwo ==
  ASSUME NEW S, NEW q \in Seq(S), NEW r \in Seq(S), NEW R, NEW x
  PROVE  /\ LastIn(q \o r, R, x) => \/ ToSet(r) \cap R # {} /\ x \in ToSet(r) /\ x \in R /\ LastIn(r, R, x)
                                    \/ ToSet(r) \cap R = {} /\ LastIn(q, R, x)
         /\ ToSet(q \o r) \cap R = {} <=> ToSet(q) \cap R = {} /\ ToSet(r) \cap R = {}
<1> DEFINE t == q \o r
<1>1. /\ t \in Seq(S) /\ Len(t) = Len(q) + Len(r) /\ Len(q) \in Nat /\ Len(r) \in Nat
      /\ \A k \in 1 .. Len(r) : t[Len(q) + k] = r[k]
  OBVIOUS
<1>2. ToSet(t) = ToSet(q) \cup ToSet(r)
  BY ElemsCat
<1>3. LastIn(t, R, x) => x \in ToSet(r) \/ (ToSet(r) \cap R = {} /\ LastIn(q, R, x))
  BY LastOfCat
<1> HIDE DEF t
<1>4. ASSUME LastIn(t, R, x), ToSet(r) \cap R # {} PROVE LastIn(r, R, x)
  <2>1. PICK k \in 1 .. Len(t) : t[k] = x /\ x \in R /\ \A j \in 1 .. Len(t) : j > k => t[j] \notin R
    BY <1>4 DEF LastIn
  <2>2. PICK y \in ToSet(r) : y \in R
    BY <1>4
  <2>3. PICK l \in 1 .. Len(r) : r[l] = y
    BY <2>2 DEF ToSet
  <2>4. Len(q) + l \in 1 .. Len(t) /\ t[Len(q) + l] \in R
    BY <1>1, <2>2, <2>3
  <2>5. ~(Len(q) + l > k)
    BY <2>1, <2>4
  <2>6. k - Len(q) \in 1 .. Len(r) /\ Len(q) + (k - Len(q)) = k
    BY <1>1, <2>5
  <2>7. r[k - Len(q)] = x
    BY <1>1, <2>1, <2>6
  <2>8. ASSUME NEW j \in 1 .. Len(r), j > k - Len(q) PROVE r[j] \notin R
    <3>1. Len(q) + j \in 1 .. Len(t) /\ Len(q) + j > k /\ t[Len(q) + j] = r[j]
      BY <1>1, <2>8
    <3> QED BY <2>1, <3>1
  <2> QED BY <2>1, <2>6, <2>7, <2>8 DEF LastIn
<1>5. LastIn(r, R, x) => x \in ToSet(r) /\ x \in R
  BY LastElem
<1>6. LastIn(t, R, x) => \/ ToSet(r) \cap R # {} /\ x \in ToSet(r) /\ x \in R /\ LastIn(r, R, x)
                         \/ ToSet(r) \cap R = {} /\ LastIn(q, R, x)
  <2>1. CASE ToSet(r) \cap R = {}
    <3>1. LastIn(t, R, x) => x \in R
      BY DEF LastIn
    <3> QED BY <1>3, <2>1, <3>1
  <2> QED BY <1>4, <1>5, <2>1
<1>7. ToSet(t) \cap R = {} <=> ToSet(q) \cap R = {} /\ ToSet(r) \cap R = {}
  BY <1>2
<1> QED BY <1>6, <1>7 DEF t

\* A fix that is right stays right while what is asked of it stays the same or grows less.
LEMMA RightStays ==
  ASSUME NEW f \in Fixes, Right(f), Up' => Up \/ time = <<>>, time' = time \/ Keeps(time, time')
  PROVE  Right(f)'
<1>1. CASE time' = time
  <2>1. time = <<>> => f = NoFix /\ AtMost(f.interval, time)
    BY DEF Right, AtMost
  <2> QED BY <1>1, <2>1 DEF Right, Serves
<1>2. CASE Keeps(time, time')
  <2>1. f.interval \in Nat
    BY DEF Fixes
  <2> QED BY <1>2, <2>1 DEF Keeps, Right, Serves
<1> QED BY <1>1, <1>2

\* The fix stays right after requests that do not set it,
LEMMA FixKept ==
  ASSUME TypeOK, FixRight, NEW reqs \in Seq(Asks), apiQ' = apiQ \o reqs, ToSet(reqs) \cap FixAsks = {},
         engine' = engine, Up' => Up \/ time = <<>>, time' = time \/ Keeps(time, time')
  PROVE  FixRight'
<1>1. apiQ \in Seq(Asks) /\ engine.fix \in Fixes
  BY DEF TypeOK, Fixes
<1>2. PICK a : a = apiQ OBVIOUS
<1>3. ASSUME NEW r, LastIn(apiQ', FixAsks, r) PROVE Right(FixOf(r))'
  <2>1. LastIn(a \o reqs, FixAsks, r)
    BY <1>2, <1>3
  <2>2. LastIn(a, FixAsks, r)
    BY <1>1, <1>2, <2>1, LastOfTwo
  <2>3. r \in Asks
    BY <1>1, <1>2, <2>2, LastElem
  <2>4. FixOf(r) \in Fixes /\ Right(FixOf(r))
    BY <1>2, <2>2, <2>3 DEF FixRight, FixOf, Fixes, Asks, Opts, NoFix
  <2>5. PICK f : f = FixOf(r) OBVIOUS
  <2> QED BY <2>4, <2>5, RightStays
<1>4. ASSUME ToSet(apiQ') \cap FixAsks = {} PROVE Right(engine.fix)'
  <2>1. ToSet(a \o reqs) \cap FixAsks = {}
    BY <1>2, <1>4
  <2>2. ToSet(a) \cap FixAsks = {}
    BY <1>1, <1>2, <2>1, LastOfTwo
  <2>3. PICK f : f = engine.fix OBVIOUS
  <2>4. Right(f)'
    BY <1>1, <1>2, <2>2, <2>3, RightStays DEF FixRight
  <2>5. f = engine.fix'
    BY <2>3
  <2> QED BY <2>4, <2>5 DEF Right
<1> QED BY <1>3, <1>4 DEF FixRight

\* ... and after requests of which the last is right.
LEMMA FixAsked ==
  ASSUME TypeOK, NEW reqs \in Seq(Asks), apiQ' = apiQ \o reqs, ToSet(reqs) \cap FixAsks # {},
         \A r : LastIn(reqs, FixAsks, r) => Serves(FixOf(r), time')
  PROVE  FixRight'
<1>1. apiQ \in Seq(Asks)
  BY DEF TypeOK
<1>2. PICK a : a = apiQ OBVIOUS
<1>3. ASSUME NEW r, LastIn(apiQ', FixAsks, r) PROVE Right(FixOf(r))'
  <2>1. LastIn(a \o reqs, FixAsks, r)
    BY <1>2, <1>3
  <2>2. LastIn(reqs, FixAsks, r)
    BY <1>1, <1>2, <2>1, LastOfTwo
  <2> QED BY <2>2 DEF Right, Serves
<1>4. ToSet(apiQ') \cap FixAsks # {}
  <2>1. ToSet(a \o reqs) \cap FixAsks # {}
    BY <1>1, <1>2, LastOfTwo
  <2> QED BY <1>2, <2>1
<1> QED BY <1>3, <1>4 DEF FixRight

\* The same of a distance-based session: nothing is asked for it,
LEMMA DistKept ==
  ASSUME TypeOK, NEW i \in Ids, DistRight(i), NEW reqs \in Seq(Asks), apiQ' = apiQ \o reqs, ToSet(reqs) \cap DistAsks(i) = {},
         engine' = engine, Wanted(i)' <=> Wanted(i)
  PROVE  DistRight(i)'
<1>1. apiQ \in Seq(Asks)
  BY DEF TypeOK
<1>2. PICK a : a = apiQ OBVIOUS
<1>3. ASSUME NEW r, LastIn(apiQ', DistAsks(i), r) PROVE r.op = "startDist" <=> Wanted(i)'
  <2>1. LastIn(a \o reqs, DistAsks(i), r)
    BY <1>2, <1>3
  <2>2. LastIn(a, DistAsks(i), r)
    BY <1>1, <1>2, <2>1, LastOfTwo
  <2> QED BY <1>2, <2>2 DEF DistRight
<1>4. ASSUME ToSet(apiQ') \cap DistAsks(i) = {} PROVE i \in engine'.dist <=> Wanted(i)'
  <2>1. ToSet(a \o reqs) \cap DistAsks(i) = {}
    BY <1>2, <1>4
  <2>2. ToSet(a) \cap DistAsks(i) = {}
    BY <1>1, <1>2, <2>1, LastOfTwo
  <2> QED BY <1>2, <2>2 DEF DistRight
<1> QED BY <1>3, <1>4 DEF DistRight

\* ... or what it comes to.
LEMMA DistAsked ==
  ASSUME TypeOK, NEW i \in Ids, NEW reqs \in Seq(Asks), apiQ' = apiQ \o reqs, ToSet(reqs) \cap DistAsks(i) # {},
         \A r \in ToSet(reqs) : r \in DistAsks(i) => (r.op = "startDist" <=> Wanted(i)')
  PROVE  DistRight(i)'
<1>1. apiQ \in Seq(Asks)
  BY DEF TypeOK
<1>2. PICK a : a = apiQ OBVIOUS
<1>3. ASSUME NEW r, LastIn(apiQ', DistAsks(i), r) PROVE r.op = "startDist" <=> Wanted(i)'
  <2>1. LastIn(a \o reqs, DistAsks(i), r)
    BY <1>2, <1>3
  <2>2. r \in ToSet(reqs) /\ r \in DistAsks(i)
    BY <1>1, <1>2, <2>1, LastOfTwo
  <2> QED BY <2>2
<1>4. ToSet(apiQ') \cap DistAsks(i) # {}
  <2>1. ToSet(a \o reqs) \cap DistAsks(i) # {}
    BY <1>1, <1>2, LastOfTwo
  <2> QED BY <1>2, <2>1
<1> QED BY <1>3, <1>4 DEF DistRight

\* A handler asks for nothing about a restart, and takes no news of one.
LEMMA TookOnce ==
  ASSUME Base, Accepted, OpenOnce, Configures, NEW m, Took(m), m.what # "engineUp",
         NEW reqs \in Seq(Asks), apiQ' = apiQ \o reqs, \A r \in ToSet(reqs) : r.op # "ssr"
  PROVE  OpenOnce' /\ Configures' /\ (Up' => Up)
<1>1. /\ TypeOK /\ msgQ \in Seq(Posts) /\ msgQ # <<>> /\ m = Head(msgQ) /\ msgQ' = Tail(msgQ) /\ apiQ \in Seq(Asks)
      /\ env' = env /\ known' = known /\ pending' = pending
  BY DEF Base, TypeOK, Took
<1>2. /\ Tail(msgQ) \in Seq(Posts) /\ ToSet(msgQ) = ToSet(Tail(msgQ)) \cup {m}
      /\ Count(msgQ, Openings) = Count(Tail(msgQ), Openings) + One(m, Openings)
  BY <1>1, ElemsTail, CountTail
<1>3. One(m, Openings) = 0
  BY DEF One, Openings
<1>4. PICK a : a = apiQ OBVIOUS
<1>5. Count(a \o reqs, {Ssr}) = Count(a, {Ssr}) + Count(reqs, {Ssr}) /\ ToSet(a \o reqs) = ToSet(a) \cup ToSet(reqs)
  BY <1>1, <1>4, CountCat, ElemsCat
<1>6. Ssr \notin ToSet(reqs)
  BY SsrIs
<1>7. Count(reqs, {Ssr}) = 0
  BY <1>6, CountNat
<1>8. Count(msgQ, Openings) \in Nat /\ Count(Tail(msgQ), Openings) \in Nat /\ Count(a, {Ssr}) \in Nat
  BY <1>1, <1>2, <1>4, CountNat
<1>9. OpenOnce'
  BY <1>1, <1>2, <1>3, <1>4, <1>5, <1>7, <1>8 DEF OpenOnce
<1>10. Up' => Up
  BY <1>1, <1>2, <1>4, <1>5 DEF Up
<1>11. Thens' = Thens \cup {r.then : r \in ToSet(reqs)}
  BY <1>1, AskedThens
<1>12. \A r \in ToSet(reqs) : r.then.what # "config"
  <2>1. ToSet(reqs) \subseteq Asks
    BY ElemsOf
  <2> QED BY <2>1 DEF Asks, Answers
<1>13. \A n \in Items' : n.what = "config" => n \in Items
  BY <1>1, <1>2, <1>11, <1>12 DEF Items
<1>14. Configures'
  BY <1>1, <1>13 DEF Configures
<1> QED BY <1>9, <1>10, <1>14

\* A handler of one session leaves the engine's others alone.
LEMMA OthersDist ==
  ASSUME Base, Accepted, NEW m, Took(m), NEW reqs \in Seq(Asks), apiQ' = apiQ \o reqs, m.id \in Ids,
         \A r \in ToSet(reqs) : r.op \in {"startDist", "stopDist"} => r.id = m.id,
         \A r \in ToSet(reqs) : r.then.id = m.id \/ r.then = Silent,
         \A i \in Ids : i # m.id => (i \in DOMAIN dist' <=> i \in DOMAIN dist),
         \A i \in Ids : DistRight(i)
  PROVE  \A i \in Ids : i # m.id => DistRight(i)'
<1>1. TypeOK /\ engine' = engine
  BY DEF Base, Took
<1>2. PICK N : N = {r.then : r \in ToSet(reqs)} OBVIOUS
<1>3. Thens' = Thens \cup N
  BY <1>1, <1>2, AskedThens
<1>4. Items = Rest \cup {m} /\ Items' = Rest \cup N
  BY <1>1, <1>3, TookItems
<1>5. ASSUME NEW i \in Ids, i # m.id PROVE DistRight(i)'
  <2>1. \A n \in N : n.id # i
    BY <1>2, <1>5, SilentIs DEF Ids
  <2>2. \A what : Present(what, i)' <=> Present(what, i)
    BY <1>4, <1>5, <2>1 DEF Present
  <2>3. Wanted(i)' <=> Wanted(i)
    BY <1>5, <2>2 DEF Wanted, Leaving
  <2>4. ToSet(reqs) \cap DistAsks(i) = {}
    BY <1>5 DEF DistAsks
  <2> QED BY <1>1, <2>3, <2>4, DistKept
<1> QED BY <1>5

\* What a handler of one session has to do for the engine to come to what it should.
LEMMA HandlerEngaged ==
  ASSUME Base, Accepted, Engaged, NEW m, Took(m), m.what \in Tellers \cup {"removed"},
         NEW reqs \in Seq(Asks), apiQ' = apiQ \o reqs,
         \A r \in ToSet(reqs) : r.op # "ssr" /\ (r.op \in {"startDist", "stopDist"} => r.id = m.id),
         \A r \in ToSet(reqs) : r.then.id = m.id \/ r.then = Silent,
         \A i \in Ids : i # m.id => (i \in DOMAIN dist' <=> i \in DOMAIN dist),
         \/ ToSet(reqs) \cap FixAsks = {} /\ (time' = time \/ Keeps(time, time'))
         \/ ToSet(reqs) \cap FixAsks # {} /\ \A r \in ToSet(reqs) : r \in FixAsks => Serves(FixOf(r), time'),
         \/ ToSet(reqs) \cap DistAsks(m.id) = {} /\ (Wanted(m.id)' <=> Wanted(m.id))
         \/ ToSet(reqs) \cap DistAsks(m.id) # {}
            /\ \A r \in ToSet(reqs) : r \in DistAsks(m.id) => (r.op = "startDist" <=> Wanted(m.id)')
  PROVE  Engaged'
<1>1. TypeOK /\ engine' = engine /\ m.id \in Ids /\ m.what # "engineUp"
  BY Taken DEF Base, Took, Tellers
<1>2. FixRight /\ engine.dist \subseteq Ids /\ (\A i \in Ids : DistRight(i)) /\ OpenOnce /\ Configures
  BY DEF Engaged
<1>3. OpenOnce' /\ Configures' /\ (Up' => Up)
  BY <1>1, <1>2, TookOnce
<1>4. FixRight'
  <2>1. CASE ToSet(reqs) \cap FixAsks = {} /\ (time' = time \/ Keeps(time, time'))
    BY <1>1, <1>2, <1>3, <2>1, FixKept
  <2>2. CASE ToSet(reqs) \cap FixAsks # {} /\ \A r \in ToSet(reqs) : r \in FixAsks => Serves(FixOf(r), time')
    <3>1. \A r : LastIn(reqs, FixAsks, r) => r \in ToSet(reqs) /\ r \in FixAsks
      BY LastElem
    <3> QED BY <1>1, <2>2, <3>1, FixAsked
  <2> QED BY <2>1, <2>2
<1>5. \A i \in Ids : i # m.id => DistRight(i)'
  BY <1>1, <1>2, OthersDist
<1>6. DistRight(m.id)'
  <2>1. CASE ToSet(reqs) \cap DistAsks(m.id) = {} /\ (Wanted(m.id)' <=> Wanted(m.id))
    BY <1>1, <1>2, <2>1, DistKept
  <2>2. CASE /\ ToSet(reqs) \cap DistAsks(m.id) # {}
             /\ \A r \in ToSet(reqs) : r \in DistAsks(m.id) => (r.op = "startDist" <=> Wanted(m.id)')
    BY <1>1, <2>2, DistAsked
  <2> QED BY <2>1, <2>2
<1>7. (\A i \in Ids : DistRight(i))'
  BY <1>5, <1>6
<1> QED BY <1>1, <1>2, <1>3, <1>4, <1>7 DEF Engaged

\* What a request for the fix, or none, comes to.
LEMMA MixedEngaged ==
  ASSUME NEW reqs, NEW c, NEW id, Mixed(reqs, c, id, time, time')
  PROVE  /\ \A i : ToSet(reqs) \cap DistAsks(i) = {}
         /\ \/ ToSet(reqs) \cap FixAsks = {} /\ Keeps(time, time')
            \/ ToSet(reqs) \cap FixAsks # {} /\ \A r \in ToSet(reqs) : r \in FixAsks => Serves(FixOf(r), time')
<1>1. CASE reqs = <<>> /\ Keeps(time, time')
  <2>1. ToSet(reqs) = {}
    BY <1>1 DEF ToSet
  <2> QED BY <1>1, <2>1
<1>2. ASSUME NEW r \in Asks, reqs = <<r>>, r.op \in {"start", "stop"}, Serves(FixOf(r), time')
      PROVE  /\ \A i : ToSet(reqs) \cap DistAsks(i) = {}
             /\ ToSet(reqs) \cap FixAsks # {} /\ \A q \in ToSet(reqs) : q \in FixAsks => Serves(FixOf(q), time')
  <2>1. ToSet(reqs) = {r}
    BY <1>2, ElemsUnit
  <2>2. r \in FixAsks /\ \A i : r \notin DistAsks(i)
    BY <1>2 DEF FixAsks, DistAsks
  <2> QED BY <1>2, <2>1, <2>2
<1> QED BY <1>1, <1>2 DEF Mixed

\* Which messages about a session are on its way after its handler.
LEMMA TookPresent ==
  ASSUME Base, Accepted, NEW m, Took(m), NEW reqs \in Seq(Asks), apiQ' = apiQ \o reqs
  PROVE  /\ \A what, i : Present(what, i)' => Present(what, i) \/ \E r \in ToSet(reqs) : r.then.what = what /\ r.then.id = i
         /\ \A what, i : Present(what, i) /\ what # m.what => Present(what, i)'
         /\ \A r \in ToSet(reqs) : Present(r.then.what, r.then.id)'
<1>1. TypeOK
  BY DEF Base
<1>2. PICK N : N = {r.then : r \in ToSet(reqs)} OBVIOUS
<1>3. Thens' = Thens \cup N
  BY <1>1, <1>2, AskedThens
<1>4. Items = Rest \cup {m} /\ Items' = Rest \cup N
  BY <1>1, <1>3, TookItems
<1> QED BY <1>2, <1>4 DEF Present

\* A time-based session starts, changes or stops.
LEMMA FixEngaged ==
  ASSUME Base, Accepted, Engaged, NEW m, JoinTime(m) \/ LeaveTime(m)
  PROVE  Engaged'
<1>1. Took(m) /\ m.what \in {"start", "update", "toTime", "stop"} /\ m.what \in Tellers /\ dist' = dist /\ Remixed(m)
  BY DEF JoinTime, LeaveTime, Tellers
<1>2. PICK reqs : Mixed(reqs, m.client, m.id, time, time') /\ apiQ' = apiQ \o reqs
  BY <1>1 DEF Remixed
<1>3. /\ reqs \in Seq(Asks)
      /\ \A r \in ToSet(reqs) : r.then.what \in {"started", "updated", "stopped"} /\ r.then.id = m.id /\ r.op \in {"start", "stop"}
  BY <1>2, MixedAsks
<1>4. \A what : what \in {"distStopped", "removed", "redo"} => (Present(what, m.id)' <=> Present(what, m.id))
  <2>1. /\ \A what, i : Present(what, i)' => Present(what, i) \/ \E r \in ToSet(reqs) : r.then.what = what /\ r.then.id = i
        /\ \A what, i : Present(what, i) /\ what # m.what => Present(what, i)'
    BY <1>1, <1>2, <1>3, TookPresent
  <2>2. \A what \in {"distStopped", "removed", "redo"} : ~\E r \in ToSet(reqs) : r.then.what = what
    BY <1>3
  <2> QED BY <1>1, <2>1, <2>2
<1>5. Wanted(m.id)' <=> Wanted(m.id)
  BY <1>1, <1>4 DEF Wanted, Leaving
<1>6. /\ ToSet(reqs) \cap DistAsks(m.id) = {}
      /\ \/ ToSet(reqs) \cap FixAsks = {} /\ Keeps(time, time')
         \/ ToSet(reqs) \cap FixAsks # {} /\ \A r \in ToSet(reqs) : r \in FixAsks => Serves(FixOf(r), time')
  BY <1>2, MixedEngaged
<1> QED BY <1>1, <1>2, <1>3, <1>5, <1>6, HandlerEngaged

\* A session becomes distance-based.
LEMMA ToDistEngaged ==
  ASSUME Base, Accepted, Ordered, Engaged, NEW m, ToDist(m)
  PROVE  Engaged'
<1>1. /\ Took(m) /\ m.what = "update" /\ m.opts.distance /\ m.id \in DOMAIN time /\ m.what \in Tellers
      /\ dist' = Save(dist, m.id, Session(m.client, m.opts))
  BY DEF ToDist, DistOpts, Tellers
<1>2. PICK fix : /\ Mixed(fix, m.client, m.id, time, time')
                 /\ apiQ' = apiQ \o (fix \o StartDistance(m.id, m.opts, Silent))
  BY DEF ToDist
<1>3. /\ m.id \in Ids /\ m.client \in Clients /\ Stage(m.id) /\ IsTable(dist, DistOpts)
      /\ m.opts \in DistOpts
  BY <1>1, TookSession
<1>4. /\ fix \in Seq(Asks)
      /\ \A r \in ToSet(fix) : r.then.what \in {"started", "updated", "stopped"} /\ r.then.id = m.id /\ r.op \in {"start", "stop"}
  BY <1>2, MixedAsks
<1>5. PICK r \in Asks : r.op = "startDist" /\ r.id = m.id /\ r.then = Silent /\ StartDistance(m.id, m.opts, Silent) = <<r>>
  BY <1>3, StartDistanceOf
<1>6. PICK last : last = <<r>> /\ last \in Seq(Asks) /\ ToSet(last) = {r}
  BY ElemsUnit
<1>7. PICK reqs : reqs = fix \o last OBVIOUS
<1>8. reqs \in Seq(Asks) /\ ToSet(reqs) = ToSet(fix) \cup {r} /\ apiQ' = apiQ \o reqs
  <2>1. reqs \in Seq(Asks) /\ ToSet(reqs) = ToSet(fix) \cup ToSet(last)
    BY <1>4, <1>6, <1>7, ElemsCat
  <2>2. StartDistance(m.id, m.opts, Silent) = last
    BY <1>5, <1>6
  <2> QED BY <1>2, <1>6, <1>7, <2>1, <2>2
<1>9. /\ \A i : i \in DOMAIN dist' <=> i \in DOMAIN dist \/ i = m.id
  BY <1>1, <1>3, SaveTable
<1>10. Wanted(m.id)'
  <2>1. ~Leaving(m.id)
    BY <1>1, <1>3 DEF Stage, Leaving
  <2>2. \A what, i : Present(what, i)' => Present(what, i) \/ \E q \in ToSet(reqs) : q.then.what = what /\ q.then.id = i
    BY <1>1, <1>8, TookPresent
  <2>3. \A what \in {"distStopped", "removed", "redo"} : ~\E q \in ToSet(reqs) : q.then.what = what
    BY <1>4, <1>5, <1>8, SilentIs
  <2> QED BY <1>9, <2>1, <2>2, <2>3 DEF Wanted, Leaving
<1>11. /\ ToSet(fix) \cap DistAsks(m.id) = {}
       /\ \/ ToSet(fix) \cap FixAsks = {} /\ Keeps(time, time')
          \/ ToSet(fix) \cap FixAsks # {} /\ \A q \in ToSet(fix) : q \in FixAsks => Serves(FixOf(q), time')
  BY <1>2, MixedEngaged
<1>12. r \notin FixAsks /\ r \in DistAsks(m.id)
  BY <1>5 DEF FixAsks, DistAsks
<1>13. \/ ToSet(reqs) \cap FixAsks = {} /\ (time' = time \/ Keeps(time, time'))
       \/ ToSet(reqs) \cap FixAsks # {} /\ \A q \in ToSet(reqs) : q \in FixAsks => Serves(FixOf(q), time')
  BY <1>8, <1>11, <1>12
<1>14. /\ ToSet(reqs) \cap DistAsks(m.id) # {}
       /\ \A q \in ToSet(reqs) : q \in DistAsks(m.id) => (q.op = "startDist" <=> Wanted(m.id)')
  BY <1>5, <1>8, <1>10, <1>11, <1>12
<1>15. /\ \A q \in ToSet(reqs) : q.op # "ssr" /\ (q.op \in {"startDist", "stopDist"} => q.id = m.id)
       /\ \A q \in ToSet(reqs) : q.then.id = m.id \/ q.then = Silent
  BY <1>4, <1>5, <1>8
<1> QED BY <1>1, <1>8, <1>9, <1>13, <1>14, <1>15, HandlerEngaged

\* One request for a distance-based session.
LEMMA RequestEngaged ==
  ASSUME Base, Accepted, Engaged, NEW m, Took(m), m.what \in Tellers, NEW r \in Asks, Asked(r),
         r.op \in {"startDist", "stopDist"}, r.id = m.id, r.then.id = m.id, time' = time,
         \A i \in Ids : i # m.id => (i \in DOMAIN dist' <=> i \in DOMAIN dist),
         r.op = "startDist" <=> Wanted(m.id)'
  PROVE  Engaged'
<1>1. PICK reqs : reqs = <<r>> /\ reqs \in Seq(Asks) /\ ToSet(reqs) = {r}
  BY ElemsUnit
<1>2. apiQ' = apiQ \o reqs
  BY <1>1 DEF Asked
<1>3. r \notin FixAsks /\ r \in DistAsks(m.id)
  BY DEF FixAsks, DistAsks
<1>4. ToSet(reqs) \cap FixAsks = {} /\ ToSet(reqs) \cap DistAsks(m.id) # {}
  BY <1>1, <1>3
<1>5. /\ \A q \in ToSet(reqs) : q.op # "ssr" /\ (q.op \in {"startDist", "stopDist"} => q.id = m.id)
      /\ \A q \in ToSet(reqs) : q.then.id = m.id \/ q.then = Silent
      /\ \A q \in ToSet(reqs) : q \in DistAsks(m.id) => (q.op = "startDist" <=> Wanted(m.id)')
  BY <1>1
<1> QED BY <1>1, <1>2, <1>4, <1>5, HandlerEngaged

\* ... that was made, it brings the answer on its way.
LEMMA RequestPresent ==
  ASSUME Base, Accepted, NEW m, Took(m), NEW r \in Asks, Asked(r)
  PROVE  /\ \A what, i : Present(what, i)' => Present(what, i) \/ (what = r.then.what /\ i = r.then.id)
         /\ Present(r.then.what, r.then.id)'
<1>1. PICK reqs : reqs = <<r>> /\ reqs \in Seq(Asks) /\ ToSet(reqs) = {r}
  BY ElemsUnit
<1>2. apiQ' = apiQ \o reqs
  BY <1>1 DEF Asked
<1>3. /\ \A what, i : Present(what, i)' => Present(what, i) \/ \E q \in ToSet(reqs) : q.then.what = what /\ q.then.id = i
      /\ \A q \in ToSet(reqs) : Present(q.then.what, q.then.id)'
  BY <1>1, <1>2, TookPresent
<1>4. ASSUME NEW q \in ToSet(reqs) PROVE q = r
  BY <1>1, <1>4
<1>5. ASSUME NEW what, NEW i, Present(what, i)' PROVE Present(what, i) \/ (what = r.then.what /\ i = r.then.id)
  BY <1>3, <1>4, <1>5
<1>6. Present(r.then.what, r.then.id)'
  BY <1>1, <1>3
<1> QED BY <1>5, <1>6

\* A distance-based session starts, stops, or is changed.
LEMMA AskEngaged ==
  ASSUME Base, Accepted, Orderly, Ordered, Engaged, NEW m,
         JoinDist(m) \/ AskToTime(m) \/ AskRedo(m) \/ AskStop(m) \/ AskAgain(m)
  PROVE  Engaged'
<1>1. Took(m) /\ m.what \in {"start", "update", "stop", "redo"} /\ m.what \in Tellers /\ time' = time
  BY DEF JoinDist, AskToTime, AskRedo, AskStop, AskAgain, Tellers
<1>2. /\ m.id \in Ids /\ m.client \in Clients /\ Stage(m.id) /\ Present(m.what, m.id) /\ m \in Items
      /\ IsTable(dist, DistOpts)
      /\ m.what \in {"start", "update", "redo"} => m.opts \in Opts /\ m.opts.interval > 0
      /\ m.what \in {"start", "update", "redo"} /\ m.opts.distance => m.opts \in DistOpts
  BY <1>1, TookSession DEF TimeOpts, DistOpts
<1>3. CASE JoinDist(m)
  <2>1. /\ m.what = "start" /\ m.opts.distance /\ dist' = Save(dist, m.id, Session(m.client, m.opts))
        /\ Asked(Request("startDist", m.id, m.opts, Msg("distStarted", m.client, m.id, m.opts)))
    BY <1>3 DEF JoinDist, DistOpts
  <2>2. PICK r \in Asks : /\ r.op = "startDist" /\ r.id = m.id /\ r.then.what = "distStarted" /\ r.then.id = m.id
                          /\ Asked(r)
    BY <1>2, <2>1, AskedOf
  <2>3. \A i : i \in DOMAIN dist' <=> i \in DOMAIN dist \/ i = m.id
    BY <1>2, <2>1, SaveTable
  <2>4. \A what, i : Present(what, i)' => Present(what, i) \/ what = "distStarted"
    BY <1>1, <2>2, RequestPresent
  <2>5. Wanted(m.id)'
    BY <1>2, <2>1, <2>3, <2>4 DEF Stage, Wanted, Leaving
  <2> QED BY <1>1, <2>2, <2>3, <2>5, RequestEngaged
<1>4. CASE AskToTime(m)
  <2>1. /\ m.what = "update" /\ ~m.opts.distance /\ dist' = Erase(dist, {m.id})
        /\ Asked(Request("stopDist", m.id, NoOptions, Msg("toTime", m.client, m.id, m.opts)))
    BY <1>4 DEF AskToTime, TimeOpts
  <2>2. PICK r \in Asks : r.op = "stopDist" /\ r.id = m.id /\ r.then.what = "toTime" /\ r.then.id = m.id /\ Asked(r)
    BY <1>2, <2>1, NoOptsIs, AskedOf
  <2>3. \A i : i \in DOMAIN dist' <=> i \in DOMAIN dist /\ i \notin {m.id}
    BY <1>2, <2>1, EraseTable
  <2>4. ~Wanted(m.id)'
    BY <2>3 DEF Wanted
  <2> QED BY <1>1, <2>2, <2>3, <2>4, RequestEngaged
<1>5. CASE AskRedo(m)
  <2>1. /\ m.what = "update" /\ m.opts.distance /\ dist' = dist
        /\ Asked(Request("stopDist", m.id, NoOptions, Msg("redo", m.client, m.id, m.opts)))
    BY <1>5 DEF AskRedo, DistOpts
  <2>2. PICK r \in Asks : r.op = "stopDist" /\ r.id = m.id /\ r.then.what = "redo" /\ r.then.id = m.id /\ Asked(r)
    BY <1>2, <2>1, NoOptsIs, AskedOf
  <2>3. Present("redo", m.id)'
    BY <1>1, <2>2, RequestPresent
  <2>4. ~Wanted(m.id)'
    BY <2>3 DEF Wanted, Leaving
  <2> QED BY <1>1, <2>1, <2>2, <2>4, RequestEngaged
<1>6. CASE AskStop(m)
  <2>1. /\ m.what = "stop" /\ dist' = dist
        /\ Asked(Request("stopDist", m.id, NoOptions, Msg("distStopped", m.client, m.id, NoOptions)))
    BY <1>6 DEF AskStop
  <2>2. PICK r \in Asks : r.op = "stopDist" /\ r.id = m.id /\ r.then.what = "distStopped" /\ r.then.id = m.id /\ Asked(r)
    BY <1>2, <2>1, NoOptsIs, AskedOf
  <2>3. Present("distStopped", m.id)'
    BY <1>1, <2>2, RequestPresent
  <2>4. ~Wanted(m.id)'
    BY <2>3 DEF Wanted, Leaving
  <2> QED BY <1>1, <2>1, <2>2, <2>4, RequestEngaged
<1>7. CASE AskAgain(m)
  <2>1. /\ m.what = "redo" /\ m.opts.distance /\ dist' = dist
        /\ Asked(Request("startDist", m.id, m.opts, Msg("redone", m.client, m.id, m.opts)))
    BY <1>1, <1>7, Taken DEF AskAgain, Messages
  <2>2. PICK r \in Asks : r.op = "startDist" /\ r.id = m.id /\ r.then.what = "redone" /\ r.then.id = m.id /\ Asked(r)
    BY <1>2, <2>1, AskedOf
  <2>3. "patient" \in env
    BY <1>2, <2>1, OrderlyItems
  <2>4. \A n \in Rest : n.id = m.id => n.what \notin Tellers /\ n.what # "removed"
    BY <1>1, <2>1, <2>3, Alone DEF Took, Acting
  <2>5. Items' = Rest \cup {r.then}
    BY <1>1, <2>2, AskedOneThens, TookItems DEF Base
  <2>6. ~Leaving(m.id)'
    BY <2>2, <2>4, <2>5 DEF Leaving, Present, Tellers
  <2>7. Wanted(m.id)'
    BY <1>2, <2>1, <2>6 DEF Wanted, Stage
  <2> QED BY <1>1, <2>1, <2>2, <2>7, RequestEngaged
<1> QED BY <1>3, <1>4, <1>5, <1>6, <1>7

\* A handler that asks the engine for nothing.
LEMMA QuietEngaged ==
  ASSUME Base, Accepted, Orderly, Ordered, Engaged, NEW m,
         NoSession(m) \/ Settled(m) \/ Failed(m) \/ Reverted(m) \/ Ended(m) \/ Redone(m) \/ Removed(m) \/ Forgotten(m)
  PROVE  Engaged'
<1>1. Took(m) /\ m.what \in Tellers \cup {"removed"} /\ apiQ' = apiQ
  BY DEF NoSession, Settled, Failed, Reverted, Ended, Redone, Removed, Forgotten, Tellers, Told
<1>2. /\ m.id \in Ids /\ m.client \in Clients /\ Stage(m.id) /\ Present(m.what, m.id) /\ m \in Items
      /\ IsTable(dist, DistOpts) /\ TypeOK
      /\ m.what = "redone" => m.opts \in (IF m.opts.distance THEN DistOpts ELSE TimeOpts)
  BY <1>1, TookSession
<1>3. ~m.err
  BY <1>2, OrderlyItems
<1>4. PICK reqs : reqs = <<>> /\ reqs \in Seq(Asks) /\ ToSet(reqs) = {}
  BY ElemsUnit, SsrIs
<1>5. apiQ' = apiQ \o reqs
  BY <1>1, <1>2, <1>4, SequencesAsk DEF TypeOK
<1>6. /\ \A what, i : Present(what, i)' => Present(what, i)
      /\ \A what, i : Present(what, i) /\ what # m.what => Present(what, i)'
  BY <1>1, <1>4, <1>5, TookPresent
<1>7. ASSUME time' = time, \A i \in Ids : i # m.id => (i \in DOMAIN dist' <=> i \in DOMAIN dist), Wanted(m.id)' <=> Wanted(m.id)
      PROVE  Engaged'
  BY <1>1, <1>4, <1>5, <1>7, HandlerEngaged
<1>8. CASE NoSession(m) \/ Settled(m)
  <2>1. time' = time /\ dist' = dist /\ m.what \notin {"distStopped", "removed", "redo"}
    BY <1>3, <1>8 DEF NoSession, Settled
  <2>2. Wanted(m.id)' <=> Wanted(m.id)
    BY <1>6, <2>1 DEF Wanted, Leaving
  <2> QED BY <1>7, <2>1, <2>2
<1>9. CASE Ended(m) \/ Removed(m)
  <2>1. m.what \in {"distStopped", "removed"} /\ EraseSession(m.id)
    BY <1>3, <1>9 DEF Ended, Removed
  <2>2. m.id \notin DOMAIN time
    BY <1>2, <2>1 DEF Stage
  <2>3. time' = time /\ dist' = Erase(dist, {m.id})
    BY <2>1, <2>2 DEF EraseSession
  <2>4. \A i : i \in DOMAIN dist' <=> i \in DOMAIN dist /\ i \notin {m.id}
    BY <1>2, <2>3, EraseTable
  <2>5. ~Wanted(m.id)' /\ ~Wanted(m.id)
    BY <1>2, <2>1, <2>4 DEF Wanted, Leaving
  <2> QED BY <1>7, <2>3, <2>4, <2>5
<1>10. CASE Redone(m)
  <2>1. m.what = "redone" /\ time' = time /\ dist' = Save(dist, m.id, Session(m.client, m.opts))
    BY <1>10 DEF Redone
  <2>2. m.opts.distance
    BY <1>1, <2>1, Taken DEF Messages
  <2>3. \A i : i \in DOMAIN dist' <=> i \in DOMAIN dist \/ i = m.id
    BY <1>2, <2>1, <2>2, SaveTable
  <2>4. Wanted(m.id)' <=> Wanted(m.id)
    BY <1>2, <1>6, <2>1, <2>3 DEF Stage, Wanted, Leaving
  <2> QED BY <1>7, <2>1, <2>3, <2>4
<1>11. ~Failed(m) /\ ~Reverted(m) /\ ~Forgotten(m)
  BY <1>2, <1>3 DEF Failed, Reverted, Forgotten, Accepted, Rejected
<1> QED BY <1>8, <1>9, <1>10, <1>11

----
(* A client is removed *)

\* The fix after a series of requests: none was made and the sessions ask no more, or
\* the last serves them.
Chained(reqs, t, u) ==
    \/ ToSet(reqs) \cap FixAsks = {} /\ (u = t \/ Keeps(t, u))
    \/ ToSet(reqs) \cap FixAsks # {} /\ \A r : LastIn(reqs, FixAsks, r) => Serves(FixOf(r), u)

\* Two series are one.
LEMMA ChainedCat ==
  ASSUME NEW q \in Seq(Asks), NEW r \in Seq(Asks), NEW t, NEW u, NEW v, Chained(q, t, u), Chained(r, u, v)
  PROVE  Chained(q \o r, t, v)
<1>1. ToSet(q \o r) \cap FixAsks = {} <=> ToSet(q) \cap FixAsks = {} /\ ToSet(r) \cap FixAsks = {}
  <2>1. \A x : ToSet(q \o r) \cap x = {} <=> ToSet(q) \cap x = {} /\ ToSet(r) \cap x = {}
    BY ElemsCat
  <2> QED BY <2>1
<1>2. \A x : LastIn(q \o r, FixAsks, x) => \/ ToSet(r) \cap FixAsks # {} /\ LastIn(r, FixAsks, x)
                                           \/ ToSet(r) \cap FixAsks = {} /\ LastIn(q, FixAsks, x)
  BY LastOfTwo
<1>3. CASE ToSet(r) \cap FixAsks # {}
  BY <1>1, <1>2, <1>3 DEF Chained
<1>4. CASE ToSet(r) \cap FixAsks = {} /\ ToSet(q) \cap FixAsks # {}
  <2>1. ASSUME NEW x, LastIn(q \o r, FixAsks, x) PROVE Serves(FixOf(x), v)
    <3>1. LastIn(q, FixAsks, x)
      BY <1>2, <1>4, <2>1
    <3>2. x \in Asks
      BY <3>1, LastElem
    <3>3. FixOf(x).interval \in Nat
      BY <3>2 DEF FixOf, Asks, Opts, NoFix
    <3>4. Serves(FixOf(x), u) /\ (v = u \/ Keeps(u, v))
      BY <1>4, <3>1 DEF Chained
    <3> QED BY <3>3, <3>4 DEF Serves, Keeps
  <2> QED BY <1>1, <1>4, <2>1 DEF Chained
<1>5. CASE ToSet(r) \cap FixAsks = {} /\ ToSet(q) \cap FixAsks = {}
  <2>1. (u = t \/ Keeps(t, u)) /\ (v = u \/ Keeps(u, v))
    BY <1>5 DEF Chained
  <2>2. v = t \/ Keeps(t, v)
    BY <2>1 DEF Keeps
  <2> QED BY <1>1, <1>5, <2>2 DEF Chained
<1> QED BY <1>3, <1>4, <1>5

\* One request for the fix is such a series,
LEMMA ChainedOne ==
  ASSUME NEW reqs, NEW c, NEW id, NEW t, NEW u, Mixed(reqs, c, id, t, u)
  PROVE  reqs \in Seq(Asks) /\ Chained(reqs, t, u)
<1>1. CASE reqs = <<>> /\ Keeps(t, u)
  <2>1. reqs \in Seq(Asks) /\ ToSet(reqs) = {}
    BY <1>1, ElemsUnit, SsrIs
  <2> QED BY <1>1, <2>1 DEF Chained
<1>2. ASSUME NEW r \in Asks, reqs = <<r>>, r.op \in {"start", "stop"}, Serves(FixOf(r), u)
      PROVE  reqs \in Seq(Asks) /\ Chained(reqs, t, u)
  <2>1. reqs \in Seq(Asks) /\ ToSet(reqs) = {r}
    BY <1>2, ElemsUnit
  <2>2. r \in FixAsks
    BY <1>2 DEF FixAsks
  <2>3. \A x : LastIn(reqs, FixAsks, x) => x = r
    BY <2>1, LastElem
  <2> QED BY <1>2, <2>1, <2>2, <2>3 DEF Chained
<1> QED BY <1>1, <1>2 DEF Mixed

\* ... and one for each session is.
LEMMA ChainedAll ==
  ASSUME NEW reqs, NEW c, NEW t, NEW u, Chain(reqs, c, t, u)
  PROVE  Chained(reqs, t, u)
<1>1. PICK n \in Nat : \E seqs \in [1 .. n -> Seq(Asks)] : \E s :
        /\ reqs = FlattenSeq(seqs) /\ s[0] = t /\ s[n] = u
        /\ \A k \in 0 .. n - 1 : \E id : Mixed(seqs[k + 1], c, id, s[k], s[k + 1])
  BY DEF Chain
<1>2. PICK seqs \in [1 .. n -> Seq(Asks)] : \E s :
        /\ reqs = FlattenSeq(seqs) /\ s[0] = t /\ s[n] = u
        /\ \A k \in 0 .. n - 1 : \E id : Mixed(seqs[k + 1], c, id, s[k], s[k + 1])
  BY <1>1
<1>3. PICK s :
        /\ reqs = FlattenSeq(seqs) /\ s[0] = t /\ s[n] = u
        /\ \A k \in 0 .. n - 1 : \E id : Mixed(seqs[k + 1], c, id, s[k], s[k + 1])
  BY <1>2
<1>4. PICK f : PrefixIndices(seqs, n, f)
  BY FlattenPrefixes
<1>5. /\ f[0] = <<>> /\ f[n] = reqs
      /\ \A k \in 0 .. n - 1 : f[k + 1] = f[k] \o seqs[k + 1]
  BY <1>3, <1>4 DEF PrefixIndices
<1> DEFINE P(k) == k <= n => f[k] \in Seq(Asks) /\ Chained(f[k], t, s[k])
           S == {k \in Nat : P(k)}
<1>6. 0 \in S
  <2>1. f[0] \in Seq(Asks) /\ ToSet(f[0]) = {}
    BY <1>5, ElemsUnit, SsrIs
  <2> QED BY <1>3, <2>1 DEF Chained
<1>7. ASSUME NEW k \in Nat, k \in S PROVE k + 1 \in S
  <2>1. CASE k + 1 <= n
    <3>1. k \in 0 .. n - 1 /\ k <= n /\ k + 1 \in 1 .. n
      BY <2>1
    <3>2. f[k] \in Seq(Asks) /\ Chained(f[k], t, s[k]) /\ f[k + 1] = f[k] \o seqs[k + 1]
      BY <1>5, <1>7, <3>1
    <3>3. PICK id : Mixed(seqs[k + 1], c, id, s[k], s[k + 1])
      BY <1>3, <3>1
    <3>4. seqs[k + 1] \in Seq(Asks) /\ Chained(seqs[k + 1], s[k], s[k + 1])
      BY <3>3, ChainedOne
    <3>5. PICK q, r : q = f[k] /\ r = seqs[k + 1] OBVIOUS
    <3>6. q \o r \in Seq(Asks) /\ Chained(q \o r, t, s[k + 1])
      BY <3>2, <3>4, <3>5, ElemsCat, ChainedCat
    <3>7. f[k + 1] \in Seq(Asks) /\ Chained(f[k + 1], t, s[k + 1])
      BY <3>2, <3>5, <3>6
    <3>8. P(k + 1) /\ k + 1 \in Nat
      BY <3>7
    <3> HIDE DEF P
    <3> QED BY <3>8
  <2>2. CASE ~(k + 1 <= n)
    BY <2>2
  <2> QED BY <2>1, <2>2
<1> HIDE DEF P
<1>8. Nat \subseteq S
  <2> HIDE DEF S
  <2> QED BY <1>6, <1>7, NaturalSet
<1>9. P(n)
  BY <1>8
<1> QED BY <1>3, <1>5, <1>9 DEF P

\* The fix is right after a series that serves the sessions.
LEMMA FixChained ==
  ASSUME TypeOK, FixRight, NEW reqs \in Seq(Asks), apiQ' = apiQ \o reqs, Chained(reqs, time, time'),
         engine' = engine, Up' => Up
  PROVE  FixRight'
<1>1. CASE ToSet(reqs) \cap FixAsks = {} /\ (time' = time \/ Keeps(time, time'))
  BY <1>1, FixKept
<1>2. CASE ToSet(reqs) \cap FixAsks # {} /\ \A r : LastIn(reqs, FixAsks, r) => Serves(FixOf(r), time')
  BY <1>2, FixAsked
<1> QED BY <1>1, <1>2 DEF Chained

\* A client that left takes its sessions along.
LEMMA RemoveAllEngaged ==
  ASSUME Base, Accepted, Engaged, NEW m, RemoveAll(m)
  PROVE  Engaged'
<1>1. Took(m) /\ m.what = "remove" /\ HandleRemove(m) /\ m \in Posts /\ TypeOK /\ engine' = engine
  BY DEF RemoveAll, Took, Base
<1>2. dist' = dist
  BY <1>1, RemoveOf
<1>3. PICK fixes, stops : /\ Removes(m.client, fixes, stops) /\ apiQ' = apiQ \o (fixes \o stops)
                          /\ Chain(fixes, m.client, time, time')
  BY <1>1, RemoveOf
<1>4. PICK reqs : reqs = fixes \o stops OBVIOUS
<1>5. /\ fixes \in Seq(Asks) /\ stops \in Seq(Asks)
      /\ \A r \in ToSet(fixes) : r.op \in {"start", "stop"} /\ r.then.what \in {"started", "updated", "stopped"}
      /\ \A r \in ToSet(stops) : r.op = "stopDist" /\ r.then.what = "removed" /\ r.id = r.then.id /\ r.id \in Mine(dist, m.client)
      /\ \A i \in Mine(dist, m.client) : \E r \in ToSet(stops) : r.then.what = "removed" /\ r.then.id = i
  BY <1>3 DEF Removes
<1>6. reqs \in Seq(Asks) /\ ToSet(reqs) = ToSet(fixes) \cup ToSet(stops) /\ apiQ' = apiQ \o reqs
  BY <1>3, <1>4, <1>5, ElemsCat
<1>7. FixRight /\ engine.dist \subseteq Ids /\ (\A i \in Ids : DistRight(i)) /\ OpenOnce /\ Configures
  BY DEF Engaged
<1>8. OpenOnce' /\ Configures' /\ (Up' => Up)
  <2>1. \A r \in ToSet(reqs) : r.op # "ssr"
    BY <1>5, <1>6
  <2> QED BY <1>1, <1>6, <1>7, <2>1, TookOnce
<1>9. FixRight'
  <2>1. Chained(fixes, time, time')
    BY <1>3, ChainedAll
  <2>2. Chained(stops, time', time')
    BY <1>5 DEF Chained, FixAsks
  <2>3. Chained(reqs, time, time')
    BY <1>4, <1>5, <2>1, <2>2, ChainedCat
  <2> QED BY <1>1, <1>6, <1>7, <1>8, <2>3, FixChained
<1>10. /\ \A what, i : Present(what, i)' => Present(what, i) \/ \E r \in ToSet(reqs) : r.then.what = what /\ r.then.id = i
       /\ \A what, i : Present(what, i) /\ what # m.what => Present(what, i)'
       /\ \A r \in ToSet(reqs) : Present(r.then.what, r.then.id)'
  BY <1>1, <1>6, TookPresent
<1>11. ASSUME NEW i \in Ids, i \in Mine(dist, m.client) PROVE DistRight(i)'
  <2>1. PICK r \in ToSet(stops) : r.then.what = "removed" /\ r.then.id = i
    BY <1>5, <1>11
  <2>2. r \in ToSet(reqs) /\ r \in DistAsks(i)
    <3>1. r \in Asks
      BY <1>5, ElemsOf
    <3> QED BY <1>5, <1>6, <2>1, <3>1 DEF DistAsks
  <2>3. Present("removed", i)'
    BY <1>10, <2>1, <2>2
  <2>4. ~Wanted(i)'
    BY <2>3 DEF Wanted, Leaving
  <2>5. \A q \in ToSet(reqs) : q.op # "startDist"
    BY <1>5, <1>6
  <2>6. ToSet(reqs) \cap DistAsks(i) # {}
    BY <2>2
  <2> QED BY <1>1, <1>6, <2>4, <2>5, <2>6, DistAsked
<1>12. ASSUME NEW i \in Ids, i \notin Mine(dist, m.client) PROVE DistRight(i)'
  <2>1. ToSet(reqs) \cap DistAsks(i) = {}
    BY <1>5, <1>6, <1>12 DEF DistAsks
  <2>2. \A what \in {"distStopped", "removed", "redo"} : Present(what, i)' => Present(what, i)
    <3>1. ASSUME NEW r \in ToSet(reqs) PROVE ~(r.then.what \in {"distStopped", "removed", "redo"} /\ r.then.id = i)
      BY <1>5, <1>6, <1>12, <3>1
    <3> QED BY <1>10, <3>1
  <2>3. \A what \in {"distStopped", "removed", "redo"} : Present(what, i) => Present(what, i)'
    BY <1>1, <1>10
  <2>4. Wanted(i)' <=> Wanted(i)
    BY <1>2, <2>2, <2>3 DEF Wanted, Leaving
  <2> QED BY <1>1, <1>6, <1>7, <2>1, <2>4, DistKept
<1>13. (\A i \in Ids : DistRight(i))'
  BY <1>11, <1>12
<1> QED BY <1>1, <1>7, <1>8, <1>9, <1>13 DEF Engaged

----
(* The other steps *)

\* Where nothing is asked of the engine and no session changes.
LEMMA SameEngaged ==
  ASSUME TypeOK, Engaged, apiQ' = apiQ, engine' = engine, time' = time, dist' = dist, Up' => Up,
         \A what \in {"distStopped", "removed", "redo"} : \A i : Present(what, i)' <=> Present(what, i)
  PROVE  FixRight' /\ (\A i \in Ids : DistRight(i))' /\ (engine.dist \subseteq Ids)'
<1>1. PICK reqs : reqs = <<>> /\ reqs \in Seq(Asks) /\ ToSet(reqs) = {}
  BY ElemsUnit, SsrIs
<1>2. apiQ' = apiQ \o reqs
  BY <1>1, SequencesAsk DEF TypeOK
<1>3. FixRight /\ (\A i \in Ids : DistRight(i)) /\ engine.dist \subseteq Ids
  BY DEF Engaged
<1>4. FixRight'
  BY <1>1, <1>2, <1>3, FixKept
<1>5. ASSUME NEW i \in Ids PROVE DistRight(i)'
  <2>1. Wanted(i)' <=> Wanted(i)
    BY DEF Wanted, Leaving
  <2>2. ToSet(reqs) \cap DistAsks(i) = {}
    BY <1>1
  <2> QED BY <1>1, <1>2, <1>3, <2>1, <2>2, DistKept
<1> QED BY <1>3, <1>4, <1>5

\* Without distance-based sessions nothing is right but to ask for none.
LEMMA NoDistEngaged ==
  ASSUME TypeOK, NEW i \in Ids, DistRight(i), NEW reqs \in Seq(Asks), apiQ' = apiQ \o reqs, engine' = engine,
         DOMAIN dist = {}, dist' = dist, \A r \in ToSet(reqs) : r.op = "startDist" => r.id \in DOMAIN dist,
         \A r \in ToSet(reqs) : r.op # "stopDist"
  PROVE  DistRight(i)'
<1>1. ToSet(reqs) \cap DistAsks(i) = {}
  BY DEF DistAsks
<1>2. ~Wanted(i) /\ ~Wanted(i)'
  BY DEF Wanted
<1> QED BY <1>1, <1>2, DistKept

\* What a restart of the sessions asks for last is a fix that serves them.
LEMMA RestartsFix ==
  ASSUME TypeOK
  PROVE  LET reqs == RestartSessions IN
         /\ reqs \in Seq(Asks) /\ (ToSet(reqs) \cap FixAsks = {} <=> time = <<>>)
         /\ \A r \in ToSet(reqs) : r.op \in {"start", "startDist"} /\ (r \in FixAsks => Serves(FixOf(r), time))
         /\ \A r \in ToSet(reqs) : r.op = "startDist" => r.id \in DOMAIN dist
<1>1. PICK reqs : reqs = RestartSessions OBVIOUS
<1>2. Restarts(reqs)
  BY <1>1, RestartOf
<1>3. reqs \in Seq(Asks) /\ ToSet(reqs) \subseteq Asks
  BY <1>2, ElemsOf DEF Restarts
<1>4. time # <<>> => \E r \in ToSet(reqs) : r \in FixAsks
  BY <1>2, <1>3 DEF Restarts, FixAsks
<1>5. \A r \in ToSet(reqs) : /\ r.op \in {"start", "startDist"} /\ (r \in FixAsks => time # <<>> /\ Serves(FixOf(r), time))
                             /\ r.op = "startDist" => r.id \in DOMAIN dist
  BY <1>2 DEF Restarts, FixAsks
<1>6. ToSet(reqs) \cap FixAsks = {} <=> time = <<>>
  BY <1>4, <1>5
<1> QED BY <1>1, <1>3, <1>5, <1>6

\* Sessions are suspended and started again.
LEMMA ConfiguredEngaged ==
  ASSUME Base, Accepted, Steady, Engaged, NEW m, Configured(m)
  PROVE  Engaged'
<1>1. /\ Took(m) /\ m.what = "config" /\ m \in Items /\ Valid /\ time' = time /\ dist' = dist /\ TypeOK /\ engine' = engine
  BY Taken DEF Configured, Took, Base
<1>2. FixRight /\ engine.dist \subseteq Ids /\ (\A i \in Ids : DistRight(i)) /\ OpenOnce /\ Configures
  BY DEF Engaged
<1>3. DOMAIN dist = {}
  BY <1>1, <1>2 DEF Configures, Steady, Valid
<1>4. PICK s, r, reqs : s = SuspendSessions /\ r = RestartSessions /\ reqs = s \o r OBVIOUS
<1>5. s \in Seq(Asks) /\ (\A x \in ToSet(s) : x.op = "stop") /\ (time = <<>> => ToSet(s) = {})
  <2>1. time = <<>> => SuspendSessions = <<>>
    BY DEF SuspendSessions
  <2> QED BY <1>4, <2>1, SuspendOf, ElemsUnit, SsrIs
<1>6. /\ r \in Seq(Asks) /\ (ToSet(r) \cap FixAsks = {} <=> time = <<>>)
      /\ \A x \in ToSet(r) : x.op \in {"start", "startDist"} /\ (x \in FixAsks => Serves(FixOf(x), time))
      /\ \A x \in ToSet(r) : x.op = "startDist" => x.id \in DOMAIN dist
  BY <1>1, <1>4, RestartsFix
<1>7. reqs \in Seq(Asks) /\ ToSet(reqs) = ToSet(s) \cup ToSet(r) /\ apiQ' = apiQ \o reqs
  <2>1. reqs \in Seq(Asks) /\ ToSet(reqs) = ToSet(s) \cup ToSet(r)
    BY <1>4, <1>5, <1>6, ElemsCat
  <2> QED BY <1>4, <2>1 DEF Configured
<1>8. OpenOnce' /\ Configures' /\ (Up' => Up)
  <2>1. \A x \in ToSet(reqs) : x.op # "ssr"
    BY <1>5, <1>6, <1>7
  <2> QED BY <1>1, <1>2, <1>7, <2>1, TookOnce
<1>9. FixRight'
  <2>1. CASE time = <<>>
    <3>1. ToSet(reqs) \cap FixAsks = {}
      BY <1>5, <1>6, <1>7, <2>1
    <3> QED BY <1>1, <1>2, <1>7, <1>8, <3>1, FixKept
  <2>2. CASE time # <<>>
    <3>1. \A x : LastIn(s \o r, FixAsks, x) => x \in ToSet(r) /\ x \in FixAsks
      BY <1>5, <1>6, <2>2, LastOfTwo
    <3>2. \A x : LastIn(reqs, FixAsks, x) => Serves(FixOf(x), time')
      BY <1>1, <1>4, <1>6, <3>1
    <3>3. ToSet(reqs) \cap FixAsks # {}
      BY <1>6, <1>7, <2>2
    <3> QED BY <1>1, <1>7, <3>2, <3>3, FixAsked
  <2> QED BY <2>1, <2>2
<1>10. (\A i \in Ids : DistRight(i))'
  <2>1. /\ \A x \in ToSet(reqs) : x.op = "startDist" => x.id \in DOMAIN dist
        /\ \A x \in ToSet(reqs) : x.op # "stopDist"
    BY <1>5, <1>6, <1>7
  <2> QED BY <1>1, <1>2, <1>3, <1>7, <2>1, NoDistEngaged
<1> QED BY <1>1, <1>2, <1>8, <1>9, <1>10 DEF Engaged

\* A message waits for the capabilities.
LEMMA DeferredEngaged ==
  ASSUME Base, Accepted, Engaged, NEW m, Deferred(m)
  PROVE  Engaged'
<1>1. /\ TypeOK /\ msgQ \in Seq(Posts) /\ msgQ # <<>> /\ m = Head(msgQ) /\ msgQ' = Tail(msgQ)
      /\ m \in Defers /\ pending \in Seq(Defers) /\ pending' = Append(pending, m)
      /\ time' = time /\ dist' = dist /\ apiQ' = apiQ /\ engine' = engine /\ env' = env /\ known' = known
  BY DEF Deferred, Base, TypeOK
<1>2. /\ ToSet(msgQ) = ToSet(Tail(msgQ)) \cup {m} /\ ToSet(pending') = ToSet(pending) \cup {m}
      /\ Count(msgQ, Openings) = Count(Tail(msgQ), Openings) + One(m, Openings)
      /\ Count(Tail(msgQ), Openings) \in Nat
  <2>1. Tail(msgQ) \in Seq(Posts) /\ ToSet(msgQ) = ToSet(Tail(msgQ)) \cup {m}
    BY <1>1, ElemsTail
  <2>2. Count(msgQ, Openings) = Count(Tail(msgQ), Openings) + One(m, Openings)
    BY <1>1, CountTail
  <2>3. Count(Tail(msgQ), Openings) \in Nat
    BY <2>1, CountNat
  <2>4. ToSet(pending') = ToSet(pending) \cup {m}
    BY <1>1, ElemsAppend
  <2> QED BY <2>1, <2>2, <2>3, <2>4
<1>3. Thens' = Thens
  BY <1>1 DEF Thens
<1>4. Items' = Items
  BY <1>1, <1>2, <1>3 DEF Items
<1>5. Up' => Up
  BY <1>1, <1>2 DEF Up, Defers
<1>6. \A what, i : Present(what, i)' <=> Present(what, i)
  BY <1>4 DEF Present
<1>7. FixRight' /\ (\A i \in Ids : DistRight(i))' /\ (engine.dist \subseteq Ids)'
  BY <1>1, <1>5, <1>6, SameEngaged
<1>8. One(m, Openings) = 0
  BY <1>1 DEF One, Openings, Defers
<1>9. OpenOnce'
  BY <1>1, <1>2, <1>8 DEF Engaged, OpenOnce
<1>10. Configures'
  BY <1>1, <1>4 DEF Engaged, Configures
<1> QED BY <1>7, <1>9, <1>10 DEF Engaged

\* The engine's capabilities come and the sessions start again.
LEMMA EngineUpEngaged ==
  ASSUME Base, Accepted, Steady, Engaged, Proc, Head(msgQ).what = "engineUp"
  PROVE  Engaged'
<1>1. PICK m \in Posts : /\ msgQ # <<>> /\ m = Head(msgQ) /\ UNCHANGED <<engine, bounds, env>>
                         /\ msgQ' = Tail(msgQ) \o (IF m.what = "engineUp" THEN pending ELSE <<>>)
                         /\ m.what = "engineUp" /\ HandleEngineUp(m)
  BY HeadHandled DEF Base
<1>2. /\ TypeOK /\ Valid /\ msgQ \in Seq(Posts) /\ pending \in Seq(Posts) /\ pending \in Seq(Defers) /\ apiQ \in Seq(Asks)
      /\ msgQ' = Tail(msgQ) \o pending /\ pending' = <<>> /\ known' = TRUE /\ known \in BOOLEAN
      /\ time' = time /\ dist' = dist /\ engine' = engine /\ env' = env
  <2>1. Defers \subseteq Posts /\ pending \in Seq(Defers)
    BY DEF Defers, Base, TypeOK
  <2>2. pending \in Seq(Posts)
    BY <2>1
  <2> QED BY <1>1, <2>1, <2>2 DEF Base, TypeOK, HandleEngineUp
<1>3. PICK reqs : reqs = RestartSessions OBVIOUS
<1>4. /\ reqs \in Seq(Asks) /\ (ToSet(reqs) \cap FixAsks = {} <=> time = <<>>) /\ apiQ' = apiQ \o reqs
      /\ \A x \in ToSet(reqs) : x.op \in {"start", "startDist"} /\ (x \in FixAsks => Serves(FixOf(x), time))
      /\ \A x \in ToSet(reqs) : x.op = "startDist" => x.id \in DOMAIN dist
  <2>1. apiQ' = apiQ \o reqs
    BY <1>1, <1>3 DEF HandleEngineUp, Ask
  <2> QED BY <1>2, <1>3, <2>1, RestartsFix
<1>5. FixRight /\ engine.dist \subseteq Ids /\ (\A i \in Ids : DistRight(i)) /\ OpenOnce /\ Configures
  BY DEF Engaged
<1>6. PICK t, p, a : t = Tail(msgQ) /\ p = pending /\ a = apiQ OBVIOUS
<1>7. /\ t \in Seq(Posts) /\ p \in Seq(Posts) /\ a \in Seq(Asks) /\ ToSet(msgQ) = ToSet(t) \cup {m}
      /\ Count(msgQ, Openings) = Count(t, Openings) + One(m, Openings)
      /\ ToSet(t \o p) = ToSet(t) \cup ToSet(p) /\ Count(t \o p, Openings) = Count(t, Openings) + Count(p, Openings)
  <2>1. t \in Seq(Posts) /\ p \in Seq(Posts) /\ a \in Seq(Asks) /\ ToSet(msgQ) = ToSet(t) \cup {m}
    BY <1>1, <1>2, <1>6, ElemsTail
  <2>2. Count(msgQ, Openings) = Count(t, Openings) + One(m, Openings)
    BY <1>1, <1>2, <1>6, CountTail
  <2> QED BY <2>1, <2>2, ElemsCat, CountCat
<1>8. One(m, Openings) = 1 /\ Count(p, Openings) = 0 /\ Count(reqs, {Ssr}) = 0
  <2>1. m \in Openings
    BY <1>1 DEF Openings
  <2>2. ToSet(p) \cap Openings = {}
    BY <1>2, <1>6, ItemTypes DEF Openings, Defers
  <2>3. ToSet(reqs) \cap {Ssr} = {}
    BY <1>4, SsrIs
  <2> QED BY <1>4, <1>7, <2>1, <2>2, <2>3, CountNat DEF One
<1>9. Count(t, Openings) \in Nat /\ Count(a, {Ssr}) \in Nat
  BY <1>7, CountNat
<1>10. Count(a \o reqs, {Ssr}) = Count(a, {Ssr}) + Count(reqs, {Ssr})
  BY <1>4, <1>7, CountCat
<1>11. "restart" \notin env => ~known /\ Count(t, Openings) = 0 /\ Count(a, {Ssr}) = 0
  <2> SUFFICES ASSUME "restart" \notin env PROVE ~known /\ Count(t, Openings) = 0 /\ Count(a, {Ssr}) = 0
    OBVIOUS
  <2>1. Count(msgQ, Openings) + Count(apiQ, {Ssr}) = IF known THEN 0 ELSE 1
    BY <1>5 DEF OpenOnce
  <2> QED BY <1>6, <1>7, <1>8, <1>9, <2>1
<1>12. OpenOnce'
  BY <1>2, <1>4, <1>6, <1>7, <1>8, <1>10, <1>11 DEF OpenOnce
<1>13. DOMAIN dist = {}
  BY <1>2, <1>11 DEF Valid, Steady
<1>14. Configures'
  <2>1. Thens' = Thens \cup {r.then : r \in ToSet(reqs)}
    BY <1>2, <1>4, AskedThens
  <2>2. \A r \in ToSet(reqs) : r.then.what # "config"
    <3>1. ToSet(reqs) \subseteq Asks
      BY <1>4, ElemsOf
    <3> QED BY <3>1 DEF Asks, Answers
  <2>3. ToSet(pending') = {}
    BY <1>2 DEF ToSet
  <2>4. ToSet(msgQ') = ToSet(t) \cup ToSet(pending)
    BY <1>2, <1>6, <1>7
  <2>5. \A n \in Items' : n.what = "config" => n \in Items
    BY <1>7, <2>1, <2>2, <2>3, <2>4 DEF Items
  <2> QED BY <1>2, <1>5, <2>5 DEF Configures
<1>15. FixRight'
  <2>1. CASE time = <<>>
    BY <1>2, <1>4, <1>5, <2>1, FixKept
  <2>2. CASE time # <<>>
    <3>1. \A x : LastIn(reqs, FixAsks, x) => x \in ToSet(reqs) /\ x \in FixAsks
      BY <1>4, LastElem
    <3>2. \A x : LastIn(reqs, FixAsks, x) => Serves(FixOf(x), time')
      BY <1>2, <1>4, <3>1
    <3> QED BY <1>2, <1>4, <2>2, <3>2, FixAsked
  <2> QED BY <2>1, <2>2
<1>16. (\A i \in Ids : DistRight(i))'
  BY <1>2, <1>4, <1>5, <1>13, NoDistEngaged
<1> QED BY <1>2, <1>5, <1>12, <1>14, <1>15, <1>16 DEF Engaged

\* The first request has been sent and done.
LEMMA FirstSent ==
  ASSUME TypeOK, Engaged, apiQ # <<>>, apiQ' = Tail(apiQ), NEW r, r = Head(apiQ), time' = time, Up' => Up,
         engine'.fix = IF r \in FixAsks THEN FixOf(r) ELSE engine.fix,
         \A i \in Ids : Wanted(i)' <=> Wanted(i),
         \A i \in Ids : i \in engine'.dist <=> IF r \in DistAsks(i) THEN r.op = "startDist" ELSE i \in engine.dist
  PROVE  FixRight' /\ (\A i \in Ids : DistRight(i))'
<1>1. FixRight /\ (\A i \in Ids : DistRight(i)) /\ apiQ \in Seq(Asks) /\ engine.fix \in Fixes
  BY DEF Engaged, TypeOK, Fixes
<1>2. PICK a, t : a = apiQ /\ t = Tail(apiQ) OBVIOUS
<1>3. t \in Seq(Asks) /\ r \in Asks /\ ToSet(a) = ToSet(t) \cup {r}
  BY <1>1, <1>2, ElemsTail
<1>4. \A R : \A x : LastIn(t, R, x) => LastIn(a, R, x)
  BY <1>1, <1>2, LastBehind
<1>5. \A R : ToSet(t) \cap R = {} /\ r \in R => LastIn(a, R, r)
  BY <1>1, <1>2, LastBehind
<1>6. ASSUME NEW x, LastIn(apiQ', FixAsks, x) PROVE Right(FixOf(x))'
  <2>1. LastIn(t, FixAsks, x)
    BY <1>2, <1>6
  <2>2. LastIn(a, FixAsks, x)
    BY <1>4, <2>1
  <2>3. x \in Asks
    BY <1>3, <2>1, LastElem
  <2>4. PICK f : f = FixOf(x) OBVIOUS
  <2>5. f \in Fixes /\ Right(f)
    BY <1>1, <1>2, <2>2, <2>3, <2>4 DEF FixRight, FixOf, Fixes, Asks, Opts, NoFix
  <2> QED BY <2>4, <2>5, RightStays
<1>7. ASSUME ToSet(apiQ') \cap FixAsks = {} PROVE Right(engine.fix)'
  <2>1. ToSet(t) \cap FixAsks = {}
    BY <1>2, <1>7
  <2>2. PICK f : f = IF r \in FixAsks THEN FixOf(r) ELSE engine.fix OBVIOUS
  <2>3. CASE r \in FixAsks
    <3>1. LastIn(a, FixAsks, r)
      BY <1>5, <2>1, <2>3
    <3>2. f \in Fixes /\ Right(f)
      BY <1>1, <1>2, <1>3, <2>2, <2>3, <3>1 DEF FixRight, FixOf, Fixes, Asks, Opts, NoFix
    <3>3. Right(f)'
      BY <3>2, RightStays
    <3>4. f = engine.fix'
      BY <2>2
    <3> QED BY <3>3, <3>4 DEF Right
  <2>4. CASE r \notin FixAsks
    <3>1. ToSet(a) \cap FixAsks = {}
      BY <1>3, <2>1, <2>4
    <3>2. f \in Fixes /\ Right(f)
      BY <1>1, <1>2, <2>2, <2>4, <3>1 DEF FixRight
    <3>3. Right(f)'
      BY <3>2, RightStays
    <3>4. f = engine.fix'
      BY <2>2
    <3> QED BY <3>3, <3>4 DEF Right
  <2> QED BY <2>3, <2>4
<1>8. FixRight'
  BY <1>6, <1>7 DEF FixRight
<1>9. ASSUME NEW i \in Ids PROVE DistRight(i)'
  <2>1. DistRight(i) /\ (Wanted(i)' <=> Wanted(i))
    BY <1>1
  <2>2. ASSUME NEW x, LastIn(apiQ', DistAsks(i), x) PROVE x.op = "startDist" <=> Wanted(i)'
    <3>1. LastIn(t, DistAsks(i), x)
      BY <1>2, <2>2
    <3>2. LastIn(a, DistAsks(i), x)
      BY <1>4, <3>1
    <3> QED BY <1>2, <2>1, <3>2 DEF DistRight
  <2>3. ASSUME ToSet(apiQ') \cap DistAsks(i) = {} PROVE i \in engine'.dist <=> Wanted(i)'
    <3>1. ToSet(t) \cap DistAsks(i) = {}
      BY <1>2, <2>3
    <3>2. CASE r \in DistAsks(i)
      <4>1. LastIn(a, DistAsks(i), r)
        BY <1>5, <3>1, <3>2
      <4> QED BY <1>2, <2>1, <3>2, <4>1 DEF DistRight
    <3>3. CASE r \notin DistAsks(i)
      <4>1. ToSet(a) \cap DistAsks(i) = {}
        BY <1>3, <3>1, <3>3
      <4> QED BY <1>2, <2>1, <3>3, <4>1 DEF DistRight
    <3> QED BY <3>2, <3>3
  <2> QED BY <2>2, <2>3 DEF DistRight
<1> QED BY <1>8, <1>9

\* What the engine has done, its answer tells.
LEMMA EngineAnswersEngaged ==
  ASSUME Base, Accepted, Orderly, Engaged, NEW refused \in BOOLEAN, EngineAnswers(refused)
  PROVE  Engaged'
<1>1. PICK r, n : r = Head(apiQ) /\ n = r.then OBVIOUS
<1>2. /\ TypeOK /\ msgQ \in Seq(Posts) /\ apiQ \in Seq(Asks) /\ apiQ # <<>> /\ apiQ' = Tail(apiQ) /\ r # Ssr
      /\ known' = known /\ time' = time /\ dist' = dist /\ pending' = pending /\ env' = env /\ refused = FALSE
      /\ engine' = Done(r) /\ engine \in [fix : [interval : Nat, power : Nat], dist : SUBSET Nat]
      /\ msgQ' = IF n = Silent THEN msgQ ELSE Append(msgQ, [n EXCEPT !.err = refused])
  BY <1>1 DEF Base, TypeOK, EngineAnswers, adapter, Orderly
<1>3. Tail(apiQ) \in Seq(Asks) /\ r \in Asks /\ ToSet(apiQ) = ToSet(Tail(apiQ)) \cup {r}
  BY <1>1, <1>2, ElemsTail
<1>4. n \in Messages /\ n.what \in Answers \cup {"silent"} /\ ~n.err /\ (n # Silent => n.what \in Answers)
  BY <1>1, <1>3 DEF Asks, Messages
<1>5. n \in Thens /\ \A x : x \in Thens <=> x \in Thens' \/ x = n
  BY <1>1, <1>2, <1>3 DEF Thens
<1>6. n # Silent => msgQ' = Append(msgQ, n) /\ n \in Posts
  <2>1. [n EXCEPT !.err = FALSE] = n
    BY <1>4 DEF Messages
  <2>2. n.what \in Answers => n \in Posts
    BY <1>4 DEF Answers, Posts
  <2> QED BY <1>2, <1>4, <2>1, <2>2
<1>7. ToSet(msgQ') = ToSet(msgQ) \cup (IF n = Silent THEN {} ELSE {n}) /\ Count(msgQ', Openings) = Count(msgQ, Openings)
  <2>1. CASE n = Silent
    BY <1>2, <2>1
  <2>2. CASE n # Silent
    <3>1. ToSet(Append(msgQ, n)) = ToSet(msgQ) \cup {n}
      BY <1>2, <1>6, <2>2, ElemsAppend
    <3>2. Count(Append(msgQ, n), Openings) = Count(msgQ, Openings) + One(n, Openings) /\ Count(msgQ, Openings) \in Nat
      <4>1. n \in Posts /\ msgQ \in Seq(Posts)
        BY <1>2, <1>6, <2>2
      <4>2. Count(msgQ, Openings) \in Nat
        BY <4>1, CountNat
      <4>3. Count(Append(msgQ, n), Openings) = Count(msgQ, Openings) + One(n, Openings)
        BY <4>1, CountAppend
      <4> QED BY <4>2, <4>3
    <3>3. One(n, Openings) = 0
      BY <1>4, <2>2 DEF One, Openings, Answers
    <3>4. Count(msgQ', Openings) = Count(Append(msgQ, n), Openings) /\ ToSet(msgQ') = ToSet(Append(msgQ, n))
      BY <1>6, <2>2
    <3>5. Count(msgQ', Openings) = Count(msgQ, Openings)
      BY <3>2, <3>3, <3>4
    <3> QED BY <2>2, <3>1, <3>4, <3>5
  <2> QED BY <2>1, <2>2
<1>8. \A x : x.what # "silent" => (x \in Items' <=> x \in Items)
  BY <1>2, <1>5, <1>7, SilentIs DEF Items
<1>9. r.op \in {"start", "stop", "startDist", "stopDist"} /\ (r.op \in {"startDist", "stopDist"} => r.id \in Ids)
  BY <1>2, <1>3 DEF Asks, Ids
<1>10. Up' => Up
  BY <1>2, <1>3, <1>7, <1>9 DEF Up
<1>11. \A i \in Ids : Wanted(i)' <=> Wanted(i)
  <2>1. \A what \in {"distStopped", "removed", "redo"} : \A i : Present(what, i)' <=> Present(what, i)
    BY <1>8 DEF Present
  <2> QED BY <1>2, <2>1 DEF Wanted, Leaving
<1>12. /\ engine'.fix = IF r \in FixAsks THEN FixOf(r) ELSE engine.fix
       /\ \A i : i \in engine'.dist <=> IF r \in DistAsks(i) THEN r.op = "startDist" ELSE i \in engine.dist
  <2>1. CASE r.op = "start"
    BY <1>2, <1>3, <2>1 DEF Done, FixAsks, FixOf, DistAsks
  <2>2. CASE r.op = "stop"
    BY <1>2, <1>3, <2>2 DEF Done, FixAsks, FixOf, DistAsks
  <2>3. CASE r.op = "startDist"
    BY <1>2, <1>3, <2>3 DEF Done, FixAsks, DistAsks
  <2>4. CASE r.op = "stopDist"
    BY <1>2, <1>3, <2>4 DEF Done, FixAsks, DistAsks
  <2> QED BY <1>9, <2>1, <2>2, <2>3, <2>4
<1>13. FixRight' /\ (\A i \in Ids : DistRight(i))'
  BY <1>1, <1>2, <1>10, <1>11, <1>12, FirstSent
<1>14. (engine.dist \subseteq Ids)'
  <2>1. \A i : r \in DistAsks(i) => i \in Ids
    BY <1>9 DEF DistAsks
  <2> QED BY <1>12, <2>1 DEF Engaged
<1>15. OpenOnce'
  <2>1. Count(apiQ, {Ssr}) = Count(Tail(apiQ), {Ssr}) + One(r, {Ssr}) /\ Count(Tail(apiQ), {Ssr}) \in Nat
    <3>1. Count(Tail(apiQ), {Ssr}) \in Nat
      BY <1>3, CountNat
    <3>2. Count(apiQ, {Ssr}) = Count(Tail(apiQ), {Ssr}) + One(r, {Ssr})
      BY <1>1, <1>2, CountTail
    <3> QED BY <3>1, <3>2
  <2>2. One(r, {Ssr}) = 0
    BY <1>2 DEF One
  <2>3. Count(apiQ', {Ssr}) = Count(apiQ, {Ssr})
    <3>1. Count(apiQ', {Ssr}) = Count(Tail(apiQ), {Ssr})
      BY <1>2
    <3> QED BY <2>1, <2>2, <3>1
  <2> QED BY <1>2, <1>7, <2>3 DEF Engaged, OpenOnce
<1>16. Configures'
  BY <1>2, <1>8 DEF Engaged, Configures
<1> QED BY <1>13, <1>14, <1>15, <1>16 DEF Engaged

\* The engine is open and tells.
LEMMA EngineOpenedEngaged ==
  ASSUME Base, Accepted, Engaged, EngineOpened(TRUE)
  PROVE  Engaged'
<1>1. PICK m : m = Msg("engineUp", NoClient, 0, NoOptions) OBVIOUS
<1>2. m.what = "engineUp" /\ m \in Posts
  BY <1>1, PostIs DEF Msg
<1>3. /\ time' = time /\ dist' = dist /\ pending' = pending /\ env' = env /\ known' = known /\ engine' = engine
      /\ msgQ' = Append(msgQ, m) /\ apiQ' = Tail(apiQ) /\ apiQ # <<>> /\ Head(apiQ) = Ssr /\ apiQ \in Seq(Asks)
      /\ TypeOK /\ msgQ \in Seq(Posts)
  BY <1>1 DEF EngineOpened, adapter, Post, Base, TypeOK
<1>4. ToSet(apiQ) = ToSet(Tail(apiQ)) \cup {Ssr} /\ Tail(apiQ) \in Seq(Asks)
  BY <1>3, ElemsTail
<1>5. ToSet(msgQ') = ToSet(msgQ) \cup {m}
  BY <1>2, <1>3, ElemsAppend
<1>6. \A n : n # Silent => (n \in Thens' <=> n \in Thens)
  BY <1>3, <1>4, SsrIs DEF Thens
<1>7. \A n : n.what \notin {"silent", "engineUp"} => (n \in Items' <=> n \in Items)
  BY <1>2, <1>3, <1>5, <1>6, SilentIs DEF Items
<1>8. ~Up'
  BY <1>2, <1>5 DEF Up
<1>9. \A i \in Ids : Wanted(i)' <=> Wanted(i)
  <2>1. \A what \in {"distStopped", "removed", "redo"} : \A i : Present(what, i)' <=> Present(what, i)
    BY <1>7 DEF Present
  <2> QED BY <1>3, <2>1 DEF Wanted, Leaving
<1>10. Ssr \notin FixAsks /\ \A i : Ssr \notin DistAsks(i)
  BY SsrIs DEF FixAsks, DistAsks
<1>11. FixRight' /\ (\A i \in Ids : DistRight(i))'
  <2>1. PICK r : r = Ssr OBVIOUS
  <2>2. r = Head(apiQ) /\ r \notin FixAsks /\ \A i : r \notin DistAsks(i)
    BY <1>3, <1>10, <2>1
  <2>3. engine'.fix = IF r \in FixAsks THEN FixOf(r) ELSE engine.fix
    BY <1>3, <2>2
  <2>4. \A i \in Ids : i \in engine'.dist <=> IF r \in DistAsks(i) THEN r.op = "startDist" ELSE i \in engine.dist
    BY <1>3, <2>2
  <2> QED BY <1>3, <1>8, <1>9, <2>2, <2>3, <2>4, FirstSent
<1>12. OpenOnce'
  <2>1. Count(apiQ, {Ssr}) = Count(Tail(apiQ), {Ssr}) + One(Head(apiQ), {Ssr}) /\ Count(Tail(apiQ), {Ssr}) \in Nat
    <3>1. Count(Tail(apiQ), {Ssr}) \in Nat
      BY <1>4, CountNat
    <3>2. Count(apiQ, {Ssr}) = Count(Tail(apiQ), {Ssr}) + One(Head(apiQ), {Ssr})
      BY <1>3, CountTail
    <3> QED BY <3>1, <3>2
  <2>2. Count(msgQ', Openings) = Count(msgQ, Openings) + One(m, Openings) /\ Count(msgQ, Openings) \in Nat
    <3>1. Count(Append(msgQ, m), Openings) = Count(msgQ, Openings) + One(m, Openings)
      BY <1>2, <1>3, CountAppend
    <3> QED BY <1>3, <3>1, CountNat
  <2>3. One(Head(apiQ), {Ssr}) = 1 /\ One(m, Openings) = 1
    BY <1>2, <1>3 DEF One, Openings
  <2> QED BY <1>3, <2>1, <2>2, <2>3 DEF Engaged, OpenOnce
<1>13. Configures'
  BY <1>3, <1>7 DEF Engaged, Configures
<1> QED BY <1>3, <1>11, <1>12, <1>13 DEF Engaged

\* A call waits for its handler.
LEMMA PostedEngaged ==
  ASSUME Base, Accepted, Engaged, NEW m \in Posts, m.what \in {"start", "update", "stop", "remove", "config"},
         m.what = "config" => "config" \in env, msgQ' = Append(msgQ, m),
         UNCHANGED <<time, dist, known, pending, apiQ, engine, env>>
  PROVE  Engaged'
<1>1. /\ TypeOK /\ msgQ \in Seq(Posts) /\ ToSet(msgQ') = ToSet(msgQ) \cup {m}
      /\ time' = time /\ dist' = dist /\ known' = known /\ apiQ' = apiQ /\ engine' = engine /\ env' = env
  <2>1. TypeOK /\ msgQ \in Seq(Posts)
    BY DEF Base, TypeOK
  <2> QED BY <2>1, ElemsAppend
<1>2. Thens' = Thens /\ pending' = pending
  BY DEF Thens
<1>3. Items' = Items \cup {m}
  BY <1>1, <1>2 DEF Items
<1>4. \A what \in {"distStopped", "removed", "redo"} : \A i : Present(what, i)' <=> Present(what, i)
  BY <1>3 DEF Present
<1>5. Up' => Up
  BY <1>1 DEF Up
<1>6. FixRight' /\ (\A i \in Ids : DistRight(i))' /\ (engine.dist \subseteq Ids)'
  BY <1>1, <1>4, <1>5, SameEngaged
<1>7. OpenOnce'
  <2>1. Count(Append(msgQ, m), Openings) = Count(msgQ, Openings) + One(m, Openings) /\ Count(msgQ, Openings) \in Nat
    <3>1. Count(msgQ, Openings) \in Nat
      BY <1>1, CountNat
    <3>2. Count(Append(msgQ, m), Openings) = Count(msgQ, Openings) + One(m, Openings)
      BY <1>1, CountAppend
    <3> QED BY <3>1, <3>2
  <2>2. One(m, Openings) = 0
    BY DEF One, Openings
  <2>3. Count(msgQ', Openings) = Count(msgQ, Openings)
    <3>1. Count(msgQ', Openings) = Count(Append(msgQ, m), Openings) OBVIOUS
    <3> QED BY <2>1, <2>2, <3>1
  <2> QED BY <1>1, <2>3 DEF Engaged, OpenOnce
<1>8. Configures'
  BY <1>1, <1>3 DEF Engaged, Configures
<1> QED BY <1>6, <1>7, <1>8 DEF Engaged

\* ... a client's,
LEMMA CallEngaged ==
  ASSUME Base, Accepted, Engaged, NEW c \in Clients,
         \/ \E o \in StartOptions : StartTracking(c, o)
         \/ \E o \in UpdateOptions(c) : UpdateTracking(c, o)
         \/ StopTracking(c) \/ Destroy(c)
  PROVE  Engaged'
<1>1. TypeOK /\ client[c].session \in Nat /\ bounds.ids \in Nat
  BY DEF Base, TypeOK, Record
<1>2. ASSUME NEW o \in StartOptions, StartTracking(c, o) PROVE Engaged'
  <2>1. PICK m, id : id = bounds.ids + 1 /\ m = Msg("start", c, id, o) OBVIOUS
  <2>2. id \in Ids /\ o \in Opts
    BY <1>1, <2>1, OptionsAreOpts DEF Ids
  <2>3. m.what = "start" /\ m \in Posts
    BY <2>1, <2>2, PostIs DEF Msg
  <2>4. msgQ' = Append(msgQ, m) /\ UNCHANGED <<time, dist, known, pending, apiQ, engine, env>>
    BY <1>2, <2>1 DEF StartTracking, Post, adapter
  <2> QED BY <2>3, <2>4, PostedEngaged
<1>3. ASSUME NEW o \in UpdateOptions(c), UpdateTracking(c, o) PROVE Engaged'
  <2>1. PICK m, id : id = client[c].session /\ m = Msg("update", c, id, o) OBVIOUS
  <2>2. id \in Ids /\ o \in Opts
    <3>1. client[c].session > 0 /\ o \in StartOptions
      BY <1>3 DEF UpdateTracking, UpdateOptions
    <3> QED BY <1>1, <2>1, <3>1, OptionsAreOpts DEF Ids
  <2>3. m.what = "update" /\ m \in Posts
    BY <2>1, <2>2, PostIs DEF Msg
  <2>4. msgQ' = Append(msgQ, m) /\ UNCHANGED <<time, dist, known, pending, apiQ, engine, env>>
    BY <1>3, <2>1 DEF UpdateTracking, Post, adapter
  <2> QED BY <2>3, <2>4, PostedEngaged
<1>4. CASE StopTracking(c)
  <2>1. PICK m, id : id = client[c].session /\ m = Msg("stop", c, id, NoOptions) OBVIOUS
  <2>2. id \in Ids
    BY <1>1, <1>4, <2>1 DEF StopTracking, Ids
  <2>3. m.what = "stop" /\ m \in Posts
    BY <2>1, <2>2, PostIs DEF Msg
  <2>4. msgQ' = Append(msgQ, m) /\ UNCHANGED <<time, dist, known, pending, apiQ, engine, env>>
    BY <1>4, <2>1 DEF StopTracking, Post, adapter
  <2> QED BY <2>3, <2>4, PostedEngaged
<1>5. CASE Destroy(c)
  <2>1. PICK m : m = Msg("remove", c, 0, NoOptions) OBVIOUS
  <2>2. m.what = "remove" /\ m \in Posts
    BY <2>1, PostIs DEF Msg
  <2>3. msgQ' = Append(msgQ, m) /\ UNCHANGED <<time, dist, known, pending, apiQ, engine, env>>
    BY <1>5, <2>1 DEF Destroy, Post, adapter
  <2> QED BY <2>2, <2>3, PostedEngaged
<1> QED BY <1>2, <1>3, <1>4, <1>5

\* ... or one about the configuration.
LEMMA ConfigEngaged ==
  ASSUME Base, Accepted, Engaged, UpdateConfig
  PROVE  Engaged'
<1>1. PICK m : m = Msg("config", NoClient, 0, NoOptions) OBVIOUS
<1>2. m.what = "config" /\ m \in Posts
  BY <1>1, PostIs DEF Msg
<1>3. /\ msgQ' = Append(msgQ, m) /\ UNCHANGED <<time, dist, known, pending, apiQ, engine, env>>
      /\ "config" \in env
  BY <1>1 DEF UpdateConfig, adapter, Post
<1> QED BY <1>2, <1>3, PostedEngaged

\* A restart forgets what the engine ran, with no distance-based session to lose.
LEMMA EngineRestartsEngaged ==
  ASSUME Base, Accepted, Steady, Engaged, EngineRestarts
  PROVE  Engaged'
<1>1. /\ time' = time /\ dist' = dist /\ pending' = pending /\ env' = env /\ msgQ' = msgQ /\ known' = known
      /\ "restart" \in env /\ apiQ = <<>> /\ apiQ' = Append(apiQ, Ssr) /\ engine' = Off /\ Valid /\ apiQ \in Seq(Asks)
  BY DEF EngineRestarts, adapter, Base, TypeOK, Steady, Orderly
<1>2. apiQ' = <<Ssr>> /\ ToSet(apiQ') = {Ssr}
  BY <1>1, SsrIs, ElemsUnit
<1>3. DOMAIN dist = {}
  BY <1>1 DEF Valid, Steady
<1>4. ~Up'
  BY <1>2, SsrIs DEF Up
<1>5. Ssr \notin FixAsks /\ \A i : Ssr \notin DistAsks(i)
  BY SsrIs DEF FixAsks, DistAsks
<1>6. \A R : \A x : LastIn(apiQ', R, x) => x = Ssr /\ x \in R
  <2>1. PICK q : q = <<Ssr>> /\ q \in Seq(Asks) /\ ToSet(q) = {Ssr}
    BY SsrIs, ElemsUnit
  <2>2. \A R : \A x : LastIn(q, R, x) => x \in ToSet(q) /\ x \in R
    BY <2>1, LastElem
  <2> QED BY <1>2, <2>1, <2>2
<1>7. FixRight'
  <2>1. engine'.fix = NoFix
    BY <1>1 DEF Off
  <2>2. Right(engine.fix)'
    BY <1>4, <2>1 DEF Right
  <2> QED BY <1>5, <1>6, <2>2 DEF FixRight
<1>8. ASSUME NEW i \in Ids PROVE DistRight(i)'
  <2>1. ~Wanted(i)' /\ i \notin engine'.dist
    BY <1>1, <1>3 DEF Wanted, Off
  <2> QED BY <1>5, <1>6, <2>1 DEF DistRight
<1>9. (engine.dist \subseteq Ids)'
  BY <1>1 DEF Off
<1>10. OpenOnce'
  BY <1>1 DEF OpenOnce
<1>11. Configures'
  <2>1. ToSet(apiQ') = ToSet(apiQ) \cup {Ssr}
    <3>1. ToSet(<<>>) = {}
      BY SsrIs, ElemsUnit
    <3> QED BY <1>1, <1>2, <3>1
  <2>2. \A n : n # Silent => (n \in Thens' <=> n \in Thens)
    BY <2>1, SsrIs DEF Thens
  <2>3. \A n : n.what # "silent" => (n \in Items' <=> n \in Items)
    BY <1>1, <2>2, SilentIs DEF Items
  <2> QED BY <1>1, <2>3 DEF Engaged, Configures
<1> QED BY <1>7, <1>8, <1>9, <1>10, <1>11 DEF Engaged

----
(* The theorem *)

\* All outcomes leave the engine what it comes to right,
LEMMA OutcomeEngaged ==
  ASSUME Base, Accepted, Steady, Ordered, Engaged, NEW m, Outcome(m)
  PROVE  Engaged'
<1>1. Orderly
  BY DEF Steady
<1>2. CASE JoinTime(m) \/ LeaveTime(m)
  BY <1>2, FixEngaged
<1>3. CASE ToDist(m)
  BY <1>3, ToDistEngaged
<1>4. CASE JoinDist(m) \/ AskToTime(m) \/ AskRedo(m) \/ AskStop(m) \/ AskAgain(m)
  BY <1>1, <1>4, AskEngaged
<1>5. CASE \/ NoSession(m) \/ Settled(m) \/ Failed(m) \/ Reverted(m) \/ Ended(m) \/ Redone(m) \/ Removed(m) \/ Forgotten(m)
  BY <1>1, <1>5, QuietEngaged
<1>6. CASE RemoveAll(m)
  BY <1>6, RemoveAllEngaged
<1>7. CASE Configured(m)
  BY <1>7, ConfiguredEngaged
<1> QED BY <1>2, <1>3, <1>4, <1>5, <1>6, <1>7 DEF Outcome

\* ... and so does the MsgTask.
LEMMA ProcEngaged ==
  ASSUME Base, Accepted, Steady, Ordered, Engaged, Proc
  PROVE  Engaged'
<1>1. TypeOK
  BY DEF Base
<1>2. PICK m : Outcome(m) \/ Deferred(m) \/ \E reqs : EngineUp(m, reqs)
  BY <1>1, ProcOutcomes
<1>3. CASE Outcome(m)
  BY <1>3, OutcomeEngaged
<1>4. CASE Deferred(m)
  BY <1>4, DeferredEngaged
<1>5. ASSUME NEW reqs, EngineUp(m, reqs) PROVE Engaged'
  BY <1>5, EngineUpEngaged DEF EngineUp
<1> QED BY <1>2, <1>3, <1>4, <1>5

\* At the start nothing runs and nothing is asked for, or only that the engine opens,
LEMMA EngagedInit == Init => Engaged
<1> SUFFICES ASSUME Init PROVE Engaged OBVIOUS
<1>1. /\ time = <<>> /\ dist = <<>> /\ pending = <<>> /\ msgQ = <<>> /\ DOMAIN time = {} /\ DOMAIN dist = {}
      /\ apiQ = (IF known THEN <<>> ELSE <<Ssr>>) /\ engine = Off
  BY DEF Init
<1>2. PICK none, one : /\ none = <<>> /\ none \in Seq(Asks) /\ ToSet(none) = {}
                       /\ one = <<Ssr>> /\ one \in Seq(Asks) /\ ToSet(one) = {Ssr}
  BY SsrIs, ElemsUnit
<1>3. apiQ \in Seq(Asks) /\ ToSet(apiQ) \subseteq {Ssr} /\ ToSet(msgQ) = {} /\ ToSet(pending) = {}
  BY <1>1, <1>2
<1>4. Ssr \notin FixAsks /\ \A i : Ssr \notin DistAsks(i)
  BY SsrIs DEF FixAsks, DistAsks
<1>5. \A R : \A x : LastIn(apiQ, R, x) => x \in ToSet(apiQ) /\ x \in R
  BY <1>3, LastElem
<1>6. Right(NoFix)
  BY <1>1 DEF Right, Serves, AtMost
<1>7. FixRight
  BY <1>1, <1>3, <1>4, <1>5, <1>6 DEF FixRight, Off
<1>8. ASSUME NEW i \in Ids PROVE DistRight(i)
  BY <1>1, <1>3, <1>4, <1>5 DEF DistRight, Wanted, Off
<1>9. OpenOnce
  <2>1. Count(none, Openings) = 0 /\ Count(none, {Ssr}) = 0
    <3>1. none \in Seq(Posts)
      BY <1>2
    <3> QED BY <1>2, <3>1, CountNat
  <2>2. Count(one, {Ssr}) = 1
    <3>1. Count(<<Ssr>>, {Ssr}) = One(Ssr, {Ssr})
      BY SsrIs, CountOne
    <3> QED BY <1>2, <3>1 DEF One
  <2> QED BY <1>1, <1>2, <2>1, <2>2 DEF OpenOnce
<1>10. Configures
  BY <1>3, SsrIs, SilentIs DEF Configures, Items, Thens
<1> QED BY <1>1, <1>7, <1>8, <1>9, <1>10 DEF Engaged, Off

\* ... and every step keeps it so.
LEMMA EngagedNext ==
  (Orderly => Base /\ Accepted) /\ (Orderly => Ordered) /\ (Steady => Engaged) /\ [Next]_vars => (Steady => Engaged)'
<1> SUFFICES ASSUME Orderly => Base /\ Accepted, Orderly => Ordered, Steady => Engaged, [Next]_vars, Steady' PROVE Engaged'
  OBVIOUS
<1>1. env' = env
  BY EnvironmentStays
<1>2. Steady /\ Orderly /\ Ordered /\ Engaged /\ Base /\ Accepted
  BY <1>1 DEF Steady, Orderly
<1>3. ASSUME NEW c \in Clients,
             \/ \E o \in StartOptions : StartTracking(c, o)
             \/ \E o \in UpdateOptions(c) : UpdateTracking(c, o)
             \/ StopTracking(c) \/ Destroy(c)
      PROVE  Engaged'
  BY <1>2, <1>3, CallEngaged
<1>4. CASE UpdateConfig
  BY <1>2, <1>4, ConfigEngaged
<1>5. CASE Proc
  BY <1>2, <1>5, ProcEngaged
<1>6. ASSUME NEW refused \in BOOLEAN, EngineAnswers(refused) PROVE Engaged'
  BY <1>2, <1>6, EngineAnswersEngaged
<1>7. ASSUME NEW opened \in BOOLEAN, EngineOpened(opened) PROVE Engaged'
  <2>1. opened
    BY <1>2, <1>7 DEF EngineOpened, Orderly
  <2> QED BY <1>2, <1>7, <2>1, EngineOpenedEngaged
<1>8. CASE EngineRestarts
  BY <1>2, <1>8, EngineRestartsEngaged
<1>9. CASE UNCHANGED vars
  <2>1. /\ time' = time /\ dist' = dist /\ pending' = pending /\ msgQ' = msgQ /\ apiQ' = apiQ /\ env' = env
        /\ known' = known /\ engine' = engine /\ TypeOK
    BY <1>2, <1>9 DEF vars, adapter, Base
  <2>2. Thens' = Thens
    BY <2>1 DEF Thens
  <2>3. Items' = Items
    BY <2>1, <2>2 DEF Items
  <2>4. \A what, i : Present(what, i)' <=> Present(what, i)
    BY <2>3 DEF Present
  <2>5. FixRight' /\ (\A i \in Ids : DistRight(i))' /\ (engine.dist \subseteq Ids)'
    BY <1>2, <2>1, <2>4, SameEngaged DEF Up
  <2> QED BY <1>2, <2>1, <2>3, <2>5 DEF Engaged, OpenOnce, Configures
<1> QED BY <1>3, <1>4, <1>5, <1>6, <1>7, <1>8, <1>9 DEF Next, Api

\* With nothing on its way the engine runs what it came to.
LEMMA EngagedServed == Base /\ Engaged => Served
<1> SUFFICES ASSUME Base, Engaged, Quiet, "refusal" \notin env
             PROVE  /\ time = <<>> <=> engine.fix = NoFix
                    /\ \A i \in DOMAIN time : engine.fix.interval <= time[i].opts.interval
                    /\ engine.dist = DOMAIN dist
  BY DEF Served
<1>1. Items = {} /\ ToSet(msgQ) = {} /\ apiQ = <<>> /\ TypeOK
  BY NothingLeft DEF Quiet, Base
<1>2. ToSet(apiQ) = {}
  BY <1>1 DEF ToSet
<1>3. Up
  BY <1>1, <1>2 DEF Up
<1>4. Serves(engine.fix, time)
  BY <1>2, <1>3 DEF Engaged, FixRight, Right
<1>5. \A i \in Ids : i \in engine.dist <=> i \in DOMAIN dist
  BY <1>1, <1>2 DEF Engaged, DistRight, Wanted, Leaving, Present
<1>6. engine.dist \subseteq Ids /\ DOMAIN dist \subseteq Ids
  BY <1>1 DEF Engaged, TypeOK, IsTable
<1>7. engine.dist = DOMAIN dist
  BY <1>5, <1>6
<1> QED BY <1>4, <1>7 DEF Serves, AtMost

\* Once nothing is on its way the engine has a fix exactly while there are
\* time-based sessions, as often as each of them asked for, and exactly the
\* distance-based sessions: with any number of sessions, clients, calls, restarts
\* and configuration calls, but for those that come while distance-based sessions
\* are there (these start one again that is being stopped).
THEOREM EngineDoesWhatIsAsked == Spec => [](Steady => Served)
<1>1. Spec => [](Orderly => Base /\ Accepted) /\ [](Orderly => Ordered)
  BY NothingDropped, SessionsInvariant
<1>2. Init => (Steady => Engaged)
  BY EngagedInit
<1>3. (Orderly => Base /\ Accepted) /\ (Orderly => Ordered) /\ (Steady => Engaged) /\ [Next]_vars => (Steady => Engaged)'
  BY EngagedNext
<1>4. (Orderly => Base /\ Accepted) /\ (Steady => Engaged) => (Steady => Served)
  BY EngagedServed DEF Steady
<1> QED BY <1>1, <1>2, <1>3, <1>4, PTL DEF Spec
==============================================================================
