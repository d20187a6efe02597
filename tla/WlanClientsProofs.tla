-------------------------- MODULE WlanClientsProofs --------------------------
(***************************************************************************)
(* Whatever the order of events, and wherever the power-save flags stand,  *)
(* the routing rules in the IPA are those the clients in the arrays hold,  *)
(* for any number of access points, clients and addresses.                 *)
(*                                                                         *)
(* A handler works on one client and the IPA's rules.  What it keeps is    *)
(* stated once, as Keeps, of such a pair and of the handles the others     *)
(* hold; each of the four operations on rules keeps it; and a handler that *)
(* keeps it and stores the client keeps the invariant.                     *)
(***************************************************************************)
EXTENDS WlanClients, Sequences, TLAPS, FiniteSetTheorems, WellFoundedInduction

Addrs == V4Addrs \cup V6Addrs

RouteHandle == Addrs \X Nat

ClientRec ==
    [mac : Macs \cup {NoAddr}, hdr_v4 : UNION {(Macs \X {"v4"}) \X Nat, {NoHandle}},
     hdr_v6 : UNION {(Macs \X {"v6"}) \X Nat, {NoHandle}},
     v4 : V4Addrs \cup {NoAddr}, v6 : SUBSET V6Addrs, rt_v4 : RouteHandle \cup {NoHandle},
     rt_v6 : UNION {[D -> RouteHandle] : D \in SUBSET V6Addrs}]

\* The rules a client holds lead to its addresses through its headers.
Right(c, r) ==
    /\ c.rt_v4 # NoHandle => r[c.rt_v4].addr = c.v4 /\ r[c.rt_v4].hdr = c.hdr_v4
    /\ \A a \in DOMAIN c.rt_v6 : r[c.rt_v6[a]].addr = a /\ r[c.rt_v6[a]].hdr = c.hdr_v6

\* A pair of a client and the rules, next to others who hold the handles in
\* "others" with the rules of r0.
Keeps(s, r0, others) ==
    /\ s.c \in ClientRec
    /\ s.c.rt_v4 # NoHandle => s.c.v4 # NoAddr
    /\ DOMAIN s.c.rt_v6 \subseteq s.c.v6
    /\ IsFiniteSet(DOMAIN s.r) /\ NoHandle \notin DOMAIN s.r
    /\ DOMAIN s.r = RouteHandles(s.c) \cup others
    /\ RouteHandles(s.c) \cap others = {}
    /\ Right(s.c, s.r)
    /\ \A h \in others : s.r[h] = r0[h]

---------------------------------------------------------------------------
(* Handles and partial functions                                           *)

LEMMA FreshIsNew ==
  ASSUME NEW what, NEW held, IsFiniteSet(held)
  PROVE  /\ Fresh(what, held) \notin held
         /\ \E n \in Nat : Fresh(what, held) = <<what, n>>
<1> DEFINE C == Cardinality(held)
<1>1. C \in Nat
  BY FS_CardinalityType
<1>2. \E n \in 0 .. C : <<what, n>> \notin held
  <2> SUFFICES ASSUME \A n \in 0 .. C : <<what, n>> \in held PROVE FALSE
    OBVIOUS
  <2> DEFINE f == [n \in 0 .. C |-> <<what, n>>]
  <2>1. f \in [0 .. C -> held]
    OBVIOUS
  <2>2. IsFiniteSet(0 .. C) /\ Cardinality(0 .. C) = C + 1
    BY <1>1, FS_Interval
  <2>3. C < Cardinality(0 .. C)
    BY <1>1, <2>2
  <2>4. \E x, y \in 0 .. C : x # y /\ f[x] = f[y]
    <3> HIDE DEF f
    <3> QED BY <2>1, <2>2, <2>3, FS_PigeonHole
  <2> QED BY <2>4
<1>3. (CHOOSE n \in 0 .. C : <<what, n>> \notin held) \in 0 .. C
  BY <1>2
<1>4. <<what, CHOOSE n \in 0 .. C : <<what, n>> \notin held>> \notin held
  BY <1>2
<1> QED BY <1>1, <1>3, <1>4 DEF Fresh

LEMMA NoHandleIsNone ==
  ASSUME NEW x, NEW y
  PROVE  <<x, y>> # NoHandle
<1>1. Len(<<x, y>>) = 2 /\ Len(NoHandle) = 1
  BY DEF NoHandle
<1> QED BY <1>1

LEMMA WithoutFacts ==
  ASSUME NEW r, NEW hs
  PROVE  /\ DOMAIN Without(r, hs) = DOMAIN r \ hs
         /\ \A h \in DOMAIN r \ hs : Without(r, hs)[h] = r[h]
BY DEF Without

LEMMA WithFacts ==
  ASSUME NEW r, NEW new
  PROVE  /\ DOMAIN With(r, new) = DOMAIN r \cup DOMAIN new
         /\ \A h \in DOMAIN new : With(r, new)[h] = new[h]
         /\ \A h \in DOMAIN r \ DOMAIN new : With(r, new)[h] = r[h]
BY DEF With

LEMMA NoRoutesFacts ==
  NoRoutes \in UNION {[D -> RouteHandle] : D \in SUBSET V6Addrs} /\ DOMAIN NoRoutes = {}
<1>1. NoRoutes \in [{} -> RouteHandle] /\ {} \in SUBSET V6Addrs
  BY DEF NoRoutes
<1> QED BY <1>1 DEF NoRoutes

---------------------------------------------------------------------------
(* The operations on the rules of one client                               *)

LEMMA UnrouteV4Keeps ==
  ASSUME NEW s, NEW r0, NEW others, Keeps(s, r0, others), ClientsAssumption
  PROVE  LET t == UnrouteV4(s) IN
         /\ Keeps(t, r0, others)
         /\ t.c.rt_v4 = NoHandle
         /\ t.c.v6 = s.c.v6 /\ t.c.rt_v6 = s.c.rt_v6 /\ t.c.v4 = s.c.v4
         /\ t.c.hdr_v4 = s.c.hdr_v4 /\ t.c.hdr_v6 = s.c.hdr_v6 /\ t.c.mac = s.c.mac
<1> DEFINE c == s.c
           d == [c EXCEPT !.rt_v4 = NoHandle]
           q == Without(s.r, {c.rt_v4})
<1>0. UnrouteV4(s) = [c |-> d, r |-> q]
  BY DEF UnrouteV4
<1>1. DOMAIN q = DOMAIN s.r \ {c.rt_v4} /\ \A h \in DOMAIN q : q[h] = s.r[h]
  BY DEF Without
<1>2. c \in ClientRec /\ d \in ClientRec /\ d.rt_v4 = NoHandle /\ d.v6 = c.v6 /\ d.rt_v6 = c.rt_v6 /\ d.v4 = c.v4
      /\ d.hdr_v4 = c.hdr_v4 /\ d.hdr_v6 = c.hdr_v6 /\ d.mac = c.mac
  BY DEF Keeps, ClientRec
<1> HIDE DEF d, q
<1>3. \A a \in DOMAIN c.rt_v6 : c.rt_v6[a] # NoHandle /\ a \in V6Addrs
  BY <1>2, NoHandleIsNone DEF ClientRec, RouteHandle
<1>4. \A a \in DOMAIN c.rt_v6 : c.rt_v6[a] # c.rt_v4
  <2> SUFFICES ASSUME NEW a \in DOMAIN c.rt_v6, c.rt_v6[a] = c.rt_v4 PROVE FALSE
    OBVIOUS
  <2>1. c.rt_v4 # NoHandle
    BY <1>3
  <2>2. s.r[c.rt_v4].addr = c.v4 /\ s.r[c.rt_v4].addr = a
    BY <2>1 DEF Keeps, Right
  <2>3. c.v4 \in V4Addrs
    BY <2>1, <1>2 DEF Keeps, ClientRec
  <2> QED BY <2>2, <2>3, <1>3 DEF ClientsAssumption
<1>5. RouteHandles(d) = RouteHandles(c) \ {c.rt_v4}
  BY <1>2, <1>3, <1>4 DEF RouteHandles
<1>6. DOMAIN q = RouteHandles(d) \cup others /\ RouteHandles(d) \cap others = {}
  <2>1. c.rt_v4 # NoHandle => c.rt_v4 \in RouteHandles(c)
    BY DEF RouteHandles
  <2>2. c.rt_v4 \notin others
    BY <2>1 DEF Keeps
  <2> QED BY <1>1, <1>5, <2>2 DEF Keeps
<1>8. IsFiniteSet(DOMAIN q) /\ NoHandle \notin DOMAIN q
  BY <1>1, FS_Subset DEF Keeps
<1>9. Right(d, q)
  <2>1. \A a \in DOMAIN c.rt_v6 : c.rt_v6[a] \in DOMAIN q
    BY <1>2, <1>6 DEF RouteHandles
  <2> QED BY <1>1, <1>2, <2>1 DEF Right, Keeps
<1>10. \A h \in others : q[h] = r0[h]
  BY <1>1, <1>6 DEF Keeps
<1>11. Keeps([c |-> d, r |-> q], r0, others)
  BY <1>2, <1>6, <1>8, <1>9, <1>10 DEF Keeps
<1> QED BY <1>0, <1>2, <1>11

LEMMA UnrouteV6Keeps ==
  ASSUME NEW s, NEW r0, NEW others, Keeps(s, r0, others), ClientsAssumption
  PROVE  LET t == UnrouteV6(s) IN
         /\ Keeps(t, r0, others)
         /\ t.c.rt_v6 = NoRoutes
         /\ t.c.v6 = s.c.v6 /\ t.c.rt_v4 = s.c.rt_v4 /\ t.c.v4 = s.c.v4
         /\ t.c.hdr_v4 = s.c.hdr_v4 /\ t.c.hdr_v6 = s.c.hdr_v6 /\ t.c.mac = s.c.mac
<1> DEFINE c == s.c
           hs == {c.rt_v6[a] : a \in DOMAIN c.rt_v6}
           d == [c EXCEPT !.rt_v6 = NoRoutes]
           q == Without(s.r, hs)
<1>0. UnrouteV6(s) = [c |-> d, r |-> q]
  BY DEF UnrouteV6
<1>1. DOMAIN q = DOMAIN s.r \ hs /\ \A h \in DOMAIN q : q[h] = s.r[h]
  BY DEF Without
<1>a. NoRoutes \in UNION {[D -> RouteHandle] : D \in SUBSET V6Addrs} /\ DOMAIN NoRoutes = {}
  BY NoRoutesFacts
<1>2. c \in ClientRec /\ d \in ClientRec /\ d.rt_v6 = NoRoutes /\ d.v6 = c.v6 /\ d.rt_v4 = c.rt_v4 /\ d.v4 = c.v4
      /\ d.hdr_v4 = c.hdr_v4 /\ d.hdr_v6 = c.hdr_v6 /\ d.mac = c.mac
  BY <1>a DEF Keeps, ClientRec
<1> HIDE DEF d, q
<1>4. c.rt_v4 # NoHandle => c.rt_v4 \notin hs
  <2> SUFFICES ASSUME NEW a \in DOMAIN c.rt_v6, c.rt_v6[a] = c.rt_v4, c.rt_v4 # NoHandle PROVE FALSE
    OBVIOUS
  <2>2. s.r[c.rt_v4].addr = c.v4 /\ s.r[c.rt_v4].addr = a
    BY DEF Keeps, Right
  <2>3. c.v4 \in V4Addrs /\ a \in V6Addrs
    BY <1>2 DEF Keeps, ClientRec
  <2> QED BY <2>2, <2>3 DEF ClientsAssumption
<1>5. RouteHandles(d) = RouteHandles(c) \ hs
  BY <1>2, <1>4, <1>a DEF RouteHandles
<1>6. DOMAIN q = RouteHandles(d) \cup others /\ RouteHandles(d) \cap others = {}
  <2>1. hs \subseteq RouteHandles(c)
    BY DEF RouteHandles
  <2> QED BY <1>1, <1>5, <2>1 DEF Keeps
<1>8. IsFiniteSet(DOMAIN q) /\ NoHandle \notin DOMAIN q
  BY <1>1, FS_Subset DEF Keeps
<1>9. Right(d, q)
  <2>1. c.rt_v4 # NoHandle => c.rt_v4 \in DOMAIN q
    BY <1>2, <1>6 DEF RouteHandles
  <2> QED BY <1>1, <1>2, <1>a, <2>1 DEF Right, Keeps
<1>10. \A h \in others : q[h] = r0[h]
  BY <1>1, <1>6 DEF Keeps
<1>11. Keeps([c |-> d, r |-> q], r0, others)
  BY <1>2, <1>6, <1>8, <1>9, <1>10, <1>a DEF Keeps
<1> QED BY <1>0, <1>2, <1>11

LEMMA RouteV4Keeps ==
  ASSUME NEW s, NEW r0, NEW others, Keeps(s, r0, others), ClientsAssumption, NEW sleeping \in BOOLEAN
  PROVE  LET t == RouteV4(s, sleeping) IN
         /\ Keeps(t, r0, others)
         /\ t.c.v6 = s.c.v6 /\ t.c.v4 = s.c.v4
<1> DEFINE c == s.c
           h == Fresh(c.v4, DOMAIN s.r)
           d == [c EXCEPT !.rt_v4 = h]
           rule == [addr |-> c.v4, hdr |-> c.hdr_v4]
           q == Give(s.r, {h}, rule)
<1>1. CASE sleeping \/ s.c.rt_v4 # NoHandle \/ s.c.v4 = NoAddr
  BY <1>1 DEF RouteV4
<1>2. CASE ~ (sleeping \/ s.c.rt_v4 # NoHandle \/ s.c.v4 = NoAddr)
  <2>0. RouteV4(s, sleeping) = [c |-> d, r |-> q]
    BY <1>2 DEF RouteV4
  <2>1. h \notin DOMAIN s.r /\ \E n \in Nat : h = <<c.v4, n>>
    <3>1. IsFiniteSet(DOMAIN s.r)
      BY DEF Keeps
    <3> QED BY ONLY <3>1, FreshIsNew
  <2>2. c \in ClientRec /\ c.v4 \in V4Addrs
    BY <1>2 DEF Keeps, ClientRec
  <2>3. h \in RouteHandle /\ h # NoHandle
    BY <2>1, <2>2, NoHandleIsNone DEF RouteHandle, Addrs
  <2>4. DOMAIN q = DOMAIN s.r \cup {h} /\ q[h] = rule /\ \A x \in DOMAIN s.r : q[x] = s.r[x]
    BY <2>1 DEF With, Give
  <2> HIDE DEF h
  <2>5. d \in ClientRec /\ d.rt_v4 = h /\ d.v6 = c.v6 /\ d.rt_v6 = c.rt_v6 /\ d.v4 = c.v4
        /\ d.hdr_v4 = c.hdr_v4 /\ d.hdr_v6 = c.hdr_v6 /\ d.mac = c.mac
    BY <2>2, <2>3 DEF ClientRec
  <2>6. rule.addr = c.v4 /\ rule.hdr = c.hdr_v4
    OBVIOUS
  <2> HIDE DEF d, q, rule
  <2>7. RouteHandles(d) = RouteHandles(c) \cup {h}
    BY <1>2, <2>3, <2>5 DEF RouteHandles
  <2>8. DOMAIN q = RouteHandles(d) \cup others /\ RouteHandles(d) \cap others = {}
    BY <2>1, <2>4, <2>7 DEF Keeps
  <2>9. IsFiniteSet(DOMAIN q) /\ NoHandle \notin DOMAIN q
    BY <2>3, <2>4, FS_AddElement DEF Keeps
  <2>10. Right(d, q)
    <3>1. \A a \in DOMAIN c.rt_v6 : c.rt_v6[a] \in DOMAIN s.r
      BY DEF Keeps, RouteHandles
    <3> QED BY <2>4, <2>5, <2>6, <3>1 DEF Right, Keeps
  <2>11. \A x \in others : q[x] = r0[x]
    BY <2>4 DEF Keeps
  <2>12. Keeps([c |-> d, r |-> q], r0, others)
    BY <1>2, <2>5, <2>8, <2>9, <2>10, <2>11 DEF Keeps
  <2> QED BY <2>0, <2>5, <2>12
<1> QED BY <1>1, <1>2

LEMMA RouteV6Keeps ==
  ASSUME NEW s, NEW r0, NEW others, Keeps(s, r0, others), ClientsAssumption, NEW sleeping \in BOOLEAN
  PROVE  Keeps(RouteV6(s, sleeping), r0, others)
<1> DEFINE c == s.c
           new == c.v6 \ DOMAIN c.rt_v6
           hdl == [a \in new |-> Fresh(a, DOMAIN s.r)]
           hs == {hdl[a] : a \in new}
           add == [h \in hs |-> [addr |-> h[1], hdr |-> c.hdr_v6]]
           d == [c EXCEPT !.rt_v6 = With(c.rt_v6, hdl)]
           q == With(s.r, add)
<1>1. CASE sleeping \/ s.c.v6 \subseteq DOMAIN s.c.rt_v6
  BY <1>1 DEF RouteV6
<1>2. CASE ~ (sleeping \/ s.c.v6 \subseteq DOMAIN s.c.rt_v6)
  <2>0. RouteV6(s, sleeping) = [c |-> d, r |-> q]
    BY <1>2 DEF RouteV6
  <2>1. \A a \in new : hdl[a] \notin DOMAIN s.r /\ \E n \in Nat : hdl[a] = <<a, n>>
    BY FreshIsNew DEF Keeps
  <2>2. c \in ClientRec /\ new \subseteq V6Addrs /\ DOMAIN hdl = new /\ DOMAIN c.rt_v6 \subseteq V6Addrs
        /\ c.rt_v6 \in [DOMAIN c.rt_v6 -> RouteHandle]
    BY DEF Keeps, ClientRec
  <2>a. IsFiniteSet(hs)
    <3>1. IsFiniteSet(new)
      BY <2>2, FS_Subset DEF ClientsAssumption
    <3>2. hdl \in Surjection(new, hs)
      BY DEF Surjection
    <3> HIDE DEF hdl, hs, new
    <3> QED BY <3>1, <3>2, FS_Surjection
  <2>b. DOMAIN add = hs /\ \A a \in new : add[hdl[a]].addr = a /\ add[hdl[a]].hdr = c.hdr_v6
    <3> SUFFICES ASSUME NEW a \in new PROVE hdl[a][1] = a
      OBVIOUS
    <3> HIDE DEF hdl, new
    <3> QED BY <2>1
  <2>c. hdl = [a \in new |-> hdl[a]]
    OBVIOUS
  <2> HIDE DEF hdl
  <2>3. \A a \in new : hdl[a] \in RouteHandle /\ hdl[a] # NoHandle
    <3> SUFFICES ASSUME NEW a \in new PROVE hdl[a] \in RouteHandle /\ hdl[a] # NoHandle
      OBVIOUS
    <3>1. PICK n \in Nat : hdl[a] = <<a, n>>
      BY <2>1
    <3>2. a \in Addrs
      BY <2>2 DEF Addrs
    <3> QED BY <3>1, <3>2, NoHandleIsNone DEF RouteHandle
  <2> HIDE DEF add
  <2>4. DOMAIN q = DOMAIN s.r \cup hs /\ (\A h \in hs : q[h] = add[h]) /\ \A x \in DOMAIN s.r : q[x] = s.r[x]
    BY <2>1, <2>b DEF With
  <2> HIDE DEF q
  <2>5. With(c.rt_v6, hdl) \in [c.v6 -> RouteHandle]
        /\ (\A a \in new : With(c.rt_v6, hdl)[a] = hdl[a]) /\ \A a \in DOMAIN c.rt_v6 : With(c.rt_v6, hdl)[a] = c.rt_v6[a]
    BY <2>2, <2>3, <2>c DEF With, Keeps
  <2>6. d \in ClientRec /\ d.rt_v6 = With(c.rt_v6, hdl) /\ d.v6 = c.v6 /\ d.rt_v4 = c.rt_v4 /\ d.v4 = c.v4
        /\ d.hdr_v4 = c.hdr_v4 /\ d.hdr_v6 = c.hdr_v6 /\ d.mac = c.mac
    <3>1. c.v6 \in SUBSET V6Addrs
      BY <2>2 DEF ClientRec
    <3>2. With(c.rt_v6, hdl) \in UNION {[D -> RouteHandle] : D \in SUBSET V6Addrs}
      BY <3>1, <2>5
    <3> QED BY <2>2, <3>2 DEF ClientRec
  <2>e. DOMAIN d.rt_v6 = c.v6 /\ (\A a \in new : d.rt_v6[a] = hdl[a]) /\ \A a \in DOMAIN c.rt_v6 : d.rt_v6[a] = c.rt_v6[a]
    BY <2>5, <2>6
  <2>f. c.v6 = new \cup DOMAIN c.rt_v6
    BY DEF Keeps
  <2> HIDE DEF d
  <2>7. RouteHandles(d) = RouteHandles(c) \cup hs
    BY <2>6, <2>e, <2>f DEF RouteHandles
  <2>8. DOMAIN q = RouteHandles(d) \cup others /\ RouteHandles(d) \cap others = {}
    BY <2>1, <2>4, <2>7 DEF Keeps
  <2>9. IsFiniteSet(DOMAIN q) /\ NoHandle \notin DOMAIN q
    <3>1. NoHandle \notin hs
      BY <2>3
    <3>2. IsFiniteSet(DOMAIN s.r \cup hs)
      BY <2>a, FS_Union DEF Keeps
    <3> QED BY <3>1, <3>2, <2>4 DEF Keeps
  <2>10. Right(d, q)
    <3>1. \A a \in DOMAIN c.rt_v6 : c.rt_v6[a] \in DOMAIN s.r
      BY DEF Keeps, RouteHandles
    <3>2. c.rt_v4 # NoHandle => c.rt_v4 \in DOMAIN s.r
      BY DEF Keeps, RouteHandles
    <3>3. Right(c, s.r)
      BY DEF Keeps
    <3>4. d.rt_v4 # NoHandle => q[d.rt_v4].addr = d.v4 /\ q[d.rt_v4].hdr = d.hdr_v4
      BY <2>4, <2>6, <3>2, <3>3 DEF Right
    <3>5. ASSUME NEW a \in c.v6 PROVE q[d.rt_v6[a]].addr = a /\ q[d.rt_v6[a]].hdr = d.hdr_v6
      <4>1. CASE a \in new
        BY <4>1, <2>4, <2>6, <2>b, <2>e
      <4>2. CASE a \in DOMAIN c.rt_v6
        BY <4>2, <2>4, <2>6, <2>e, <3>1, <3>3 DEF Right
      <4> QED BY <4>1, <4>2, <2>f
    <3> QED BY <2>e, <3>4, <3>5 DEF Right
  <2>11. \A x \in others : q[x] = r0[x]
    BY <2>4 DEF Keeps
  <2>12. Keeps([c |-> d, r |-> q], r0, others)
    BY <2>6, <2>8, <2>9, <2>10, <2>11, <2>e DEF Keeps
  <2> QED BY <2>0, <2>12
<1> QED BY <1>1, <1>2

---------------------------------------------------------------------------
(* Tables: clients by place, and the rules they hold between them          *)

GoodClient(c) ==
    /\ c \in ClientRec
    /\ c.rt_v4 # NoHandle => c.v4 # NoAddr
    /\ DOMAIN c.rt_v6 \subseteq c.v6

\* The clients cl of the places in H hold the rules r.
Table(H, cl, r) ==
    /\ \A p \in H : GoodClient(cl[p])
    /\ IsFiniteSet(DOMAIN r) /\ NoHandle \notin DOMAIN r
    /\ DOMAIN r = UNION {RouteHandles(cl[p]) : p \in H}
    /\ \A p, q \in H : p # q => RouteHandles(cl[p]) \cap RouteHandles(cl[q]) = {}
    /\ \A p \in H : Right(cl[p], r)

\* A client's handles are all it takes to know that its rules are right.
LEMMA RightFrame ==
  ASSUME NEW c, NEW r, NEW q, Right(c, r),
         \A h \in RouteHandles(c) : q[h].addr = r[h].addr /\ q[h].hdr = r[h].hdr
  PROVE  Right(c, q)
<1>1. c.rt_v4 # NoHandle => c.rt_v4 \in RouteHandles(c)
  BY DEF RouteHandles
<1>2. \A a \in DOMAIN c.rt_v6 : c.rt_v6[a] \in RouteHandles(c)
  BY DEF RouteHandles
<1> QED BY <1>1, <1>2 DEF Right

\* One client of a table with the others' handles.
LEMMA TableGivesKeeps ==
  ASSUME NEW H, NEW cl, NEW r, Table(H, cl, r), NEW p \in H
  PROVE  Keeps([c |-> cl[p], r |-> r], r, DOMAIN r \ RouteHandles(cl[p]))
<1>1. RouteHandles(cl[p]) \subseteq DOMAIN r
  BY DEF Table
<1> QED BY <1>1 DEF Table, Keeps, GoodClient

\* An operation on one client that leaves the others theirs.
LEMMA TableUpdate ==
  ASSUME NEW H, NEW cl, NEW cl2, NEW r, Table(H, cl, r), NEW p \in H,
         NEW s, Keeps(s, r, DOMAIN r \ RouteHandles(cl[p])),
         cl2[p] = s.c, \A q \in H \ {p} : cl2[q] = cl[q]
  PROVE  Table(H, cl2, s.r)
<1> DEFINE others == DOMAIN r \ RouteHandles(cl[p])
<1>1. \A q \in H \ {p} : RouteHandles(cl[q]) \subseteq others
  BY DEF Table
<1>2. others = UNION {RouteHandles(cl[q]) : q \in H \ {p}}
  BY <1>1 DEF Table
<1>3. DOMAIN s.r = RouteHandles(s.c) \cup others /\ RouteHandles(s.c) \cap others = {}
  BY DEF Keeps
<1> HIDE DEF others
<1>4. UNION {RouteHandles(cl2[q]) : q \in H} = RouteHandles(s.c) \cup others
  BY <1>2
<1>5. ASSUME NEW q \in H PROVE GoodClient(cl2[q]) /\ Right(cl2[q], s.r)
  <2>1. CASE q = p
    BY <2>1 DEF Keeps, GoodClient
  <2>2. CASE q # p
    <3>1. \A h \in RouteHandles(cl[q]) : s.r[h] = r[h]
      BY <2>2, <1>1 DEF Keeps, others
    <3>2. Right(cl[q], s.r)
      BY <3>1, RightFrame DEF Table
    <3> QED BY <2>2, <3>2 DEF Table
  <2> QED BY <2>1, <2>2
<1>6. ASSUME NEW a \in H, NEW b \in H, a # b PROVE RouteHandles(cl2[a]) \cap RouteHandles(cl2[b]) = {}
  <2>1. CASE a = p
    BY <2>1, <1>6, <1>1, <1>3
  <2>2. CASE b = p
    BY <2>2, <1>6, <1>1, <1>3
  <2>3. CASE a # p /\ b # p
    BY <2>3, <1>6 DEF Table
  <2> QED BY <2>1, <2>2, <2>3
<1> QED BY <1>3, <1>4, <1>5, <1>6 DEF Table, Keeps

\* Clients that leave with their rules.
LEMMA TableRemove ==
  ASSUME NEW H, NEW cl, NEW r, Table(H, cl, r), NEW R \in SUBSET H,
         NEW hs, hs = UNION {RouteHandles(cl[p]) : p \in R}
  PROVE  Table(H \ R, cl, Without(r, hs))
<1> DEFINE q == Without(r, hs)
<1>1. DOMAIN q = DOMAIN r \ hs /\ \A h \in DOMAIN r \ hs : q[h] = r[h]
  BY DEF Without
<1> HIDE DEF q
<1>2. ASSUME NEW p \in H \ R PROVE RouteHandles(cl[p]) \subseteq DOMAIN r \ hs
  <2>1. \A t \in R : RouteHandles(cl[p]) \cap RouteHandles(cl[t]) = {}
    BY <1>2 DEF Table
  <2> QED BY <2>1 DEF Table
<1>3. DOMAIN q = UNION {RouteHandles(cl[p]) : p \in H \ R}
  <2>1. DOMAIN r = hs \cup UNION {RouteHandles(cl[p]) : p \in H \ R}
    BY DEF Table
  <2> QED BY <1>1, <1>2, <2>1
<1>4. \A p \in H \ R : Right(cl[p], q)
  BY <1>1, <1>2, RightFrame DEF Table
<1>5. IsFiniteSet(DOMAIN q) /\ NoHandle \notin DOMAIN q
  BY <1>1, FS_Subset DEF Table
<1> QED BY <1>3, <1>4, <1>5 DEF Table, q

\* The same clients in other places.
LEMMA TableMove ==
  ASSUME NEW H, NEW H2, NEW cl, NEW cl2, NEW r, Table(H, cl, r),
         NEW f \in [H2 -> H], \A p, q \in H2 : p # q => f[p] # f[q],
         \A p \in H : \E q \in H2 : f[q] = p,
         \A q \in H2 : cl2[q] = cl[f[q]]
  PROVE  Table(H2, cl2, r)
<1>1. UNION {RouteHandles(cl2[q]) : q \in H2} = UNION {RouteHandles(cl[p]) : p \in H}
  OBVIOUS
<1> QED BY <1>1 DEF Table

\* A client without rules.
LEMMA TableAdd ==
  ASSUME NEW H, NEW cl, NEW cl2, NEW r, Table(H, cl, r), NEW p, p \notin H,
         GoodClient(cl2[p]), RouteHandles(cl2[p]) = {}, \A q \in H : cl2[q] = cl[q]
  PROVE  Table(H \cup {p}, cl2, r)
<1>1. UNION {RouteHandles(cl2[q]) : q \in H \cup {p}} = UNION {RouteHandles(cl[q]) : q \in H}
  OBVIOUS
<1>2. Right(cl2[p], r)
  BY RightFrame DEF Right, RouteHandles
<1> QED BY <1>1, <1>2 DEF Table

\* Clients that lose their IPv6 addresses, and the rules of these.
V6Handles(c) == {c.rt_v6[a] : a \in DOMAIN c.rt_v6}

LEMMA ForgottenFacts ==
  ASSUME NEW c \in ClientRec
  PROVE  LET d == ForgottenV6(c) IN
         /\ d \in ClientRec /\ d.rt_v4 = c.rt_v4 /\ d.v4 = c.v4 /\ d.hdr_v4 = c.hdr_v4
         /\ d.rt_v6 = NoRoutes
BY NoRoutesFacts DEF ClientRec, ForgottenV6

LEMMA TableResetV6 ==
  ASSUME NEW H, NEW cl, NEW cl2, NEW r, Table(H, cl, r), NEW R \in SUBSET H,
         NEW hs, hs = UNION {V6Handles(cl[p]) : p \in R},
         \A p \in R : cl2[p] = ForgottenV6(cl[p]),
         \A p \in H \ R : cl2[p] = cl[p],
         ClientsAssumption
  PROVE  Table(H, cl2, Without(r, hs))
<1> DEFINE q == Without(r, hs)
<1>1. DOMAIN q = DOMAIN r \ hs /\ \A h \in DOMAIN r \ hs : q[h] = r[h]
  BY DEF Without
<1> HIDE DEF q
<1>2. NoRoutes \in UNION {[D -> RouteHandle] : D \in SUBSET V6Addrs} /\ DOMAIN NoRoutes = {}
  BY NoRoutesFacts
<1>3. ASSUME NEW p \in R
      PROVE  /\ GoodClient(cl2[p])
             /\ cl2[p].rt_v4 = cl[p].rt_v4 /\ cl2[p].v4 = cl[p].v4 /\ cl2[p].hdr_v4 = cl[p].hdr_v4
             /\ cl2[p].rt_v6 = NoRoutes
  <2>1. cl[p] \in ClientRec
    BY DEF Table, GoodClient
  <2>2. cl2[p] \in ClientRec /\ cl2[p].rt_v4 = cl[p].rt_v4 /\ cl2[p].v4 = cl[p].v4
        /\ cl2[p].hdr_v4 = cl[p].hdr_v4 /\ cl2[p].rt_v6 = NoRoutes
    BY <2>1, ForgottenFacts
  <2> QED BY <1>2, <2>2 DEF Table, GoodClient
<1>4. ASSUME NEW p \in R PROVE cl[p].rt_v4 # NoHandle => cl[p].rt_v4 \notin V6Handles(cl[p])
  <2> SUFFICES ASSUME NEW a \in DOMAIN cl[p].rt_v6, cl[p].rt_v6[a] = cl[p].rt_v4, cl[p].rt_v4 # NoHandle PROVE FALSE
    BY DEF V6Handles
  <2>1. r[cl[p].rt_v4].addr = cl[p].v4 /\ r[cl[p].rt_v4].addr = a
    BY DEF Table, Right
  <2>2. cl[p].v4 \in V4Addrs /\ a \in V6Addrs
    BY DEF Table, GoodClient, ClientRec
  <2> QED BY <2>1, <2>2 DEF ClientsAssumption
<1>5. ASSUME NEW p \in R PROVE RouteHandles(cl2[p]) = RouteHandles(cl[p]) \ V6Handles(cl[p])
  BY <1>2, <1>3, <1>4 DEF RouteHandles, V6Handles
<1>6. \A p \in H : V6Handles(cl[p]) \subseteq RouteHandles(cl[p])
  BY DEF V6Handles, RouteHandles
<1>7. ASSUME NEW p \in H PROVE RouteHandles(cl2[p]) = RouteHandles(cl[p]) \ hs
  <2>1. \A t \in R \ {p} : RouteHandles(cl[p]) \cap V6Handles(cl[t]) = {}
    BY <1>6 DEF Table
  <2>2. CASE p \in R
    BY <2>1, <2>2, <1>5
  <2>3. CASE p \notin R
    BY <2>1, <2>3
  <2> QED BY <2>2, <2>3
<1>8. DOMAIN q = UNION {RouteHandles(cl2[p]) : p \in H}
  BY <1>1, <1>7 DEF Table
<1>9. ASSUME NEW p \in H PROVE GoodClient(cl2[p]) /\ Right(cl2[p], q)
  <2>1. \A h \in RouteHandles(cl2[p]) : q[h] = r[h]
    BY <1>1, <1>7, <1>8
  <2>2. Right(cl2[p], r)
    BY <1>2, <1>3 DEF Right, Table
  <2>3. Right(cl2[p], q)
    BY <2>1, <2>2, RightFrame
  <2> QED BY <1>3, <2>3 DEF Table
<1>10. IsFiniteSet(DOMAIN q) /\ NoHandle \notin DOMAIN q
  BY <1>1, FS_Subset DEF Table
<1>11. \A a, b \in H : a # b => RouteHandles(cl2[a]) \cap RouteHandles(cl2[b]) = {}
  BY <1>7 DEF Table
<1> QED BY <1>8, <1>9, <1>10, <1>11 DEF Table, q

---------------------------------------------------------------------------
(* The invariant                                                           *)

Cl == [p \in Held |-> slot[p[1]][p[2]]]

TypeInv ==
    /\ up \subseteq Ifaces
    /\ num \in [Ifaces -> 0 .. MaxClients]
    /\ slot \in [Ifaces -> [Places -> ClientRec]]
    /\ asleep \in [Ifaces -> [Places -> BOOLEAN]]
    /\ IsFiniteSet(DOMAIN headers)
    /\ \A i \in Ifaces \ up : num[i] = 0

IInv == TypeInv /\ Table(Held, Cl, routes)

LEMMA HeldFacts ==
  ASSUME TypeInv, ClientsAssumption
  PROVE  /\ \A i \in Ifaces : \A k \in 1 .. num[i] :
               <<i, k>> \in Held /\ Cl[<<i, k>>] = slot[i][k] /\ slot[i][k] \in ClientRec /\ k \in Places
         /\ \A p \in Held : \E i \in Ifaces : \E k \in 1 .. num[i] : p = <<i, k>>
<1>1. \A p \in Held : \E i \in Ifaces : \E k \in 1 .. num[i] : p = <<i, k>>
  BY DEF Held
<1>2. ASSUME NEW i \in Ifaces, NEW k \in 1 .. num[i]
      PROVE  <<i, k>> \in Held /\ Cl[<<i, k>>] = slot[i][k] /\ slot[i][k] \in ClientRec /\ k \in Places
  <2>1. <<i, k>> \in Held
    BY DEF Held
  <2>2. k \in Places
    BY DEF TypeInv, Places, ClientsAssumption
  <2> QED BY <2>1, <2>2 DEF Cl, TypeInv
<1> QED BY <1>1, <1>2

\* A set of numbers that is not empty has a least one.
LEMMA LeastNumber ==
  ASSUME NEW T \in SUBSET Nat, T # {}
  PROVE  \E x \in T : \A y \in T : x <= y
<1> DEFINE R == {ss \in Nat \X Nat : ss[1] < ss[2]}
<1>1. IsWellFoundedOn(R, Nat)
  BY NatLessThanWellFounded DEF OpToRel
<1>2. \A x, y \in Nat : y < x => <<y, x>> \in R
  OBVIOUS
<1> HIDE DEF R
<1>3. PICK x \in T : \A y \in T : ~(<<y, x>> \in R)
  BY <1>1, WFMin
<1>4. \A y \in T : ~(y < x)
  BY <1>2, <1>3
<1> QED
  BY <1>4

LEMMA IndexFacts ==
  ASSUME TypeInv, ClientsAssumption, NEW i \in Ifaces, NEW m, IndexOf(i, m) # 0
  PROVE  IndexOf(i, m) \in 1 .. num[i]
<1> DEFINE hits == {k \in 1 .. num[i] : slot[i][k].mac = m}
<1>1. hits # {}
  BY DEF IndexOf
<1>2. hits \subseteq Nat
  BY DEF TypeInv
<1>3. \E k \in hits : \A j \in hits : k <= j
  BY <1>1, <1>2, LeastNumber
<1> QED BY <1>1, <1>3 DEF IndexOf

\* A handler that works on one client and stores it.
LEMMA StoreStep ==
  ASSUME IInv, ClientsAssumption, NEW i \in Ifaces, NEW k \in 1 .. num[i],
         NEW s, Keeps(s, routes, DOMAIN routes \ RouteHandles(slot[i][k])), Put(i, k, s),
         UNCHANGED <<up, num, headers>>, asleep' \in [Ifaces -> [Places -> BOOLEAN]]
  PROVE  IInv'
<1>1. TypeInv /\ k \in Places /\ <<i, k>> \in Held /\ Cl[<<i, k>>] = slot[i][k]
  BY HeldFacts DEF IInv
<1>2. s.c \in ClientRec
  BY DEF Keeps
<1>3. slot' \in [Ifaces -> [Places -> ClientRec]] /\ slot'[i][k] = s.c
      /\ \A j \in Ifaces : \A n \in Places : <<j, n>> # <<i, k>> => slot'[j][n] = slot[j][n]
  BY <1>1, <1>2 DEF Put, TypeInv
<1>4. TypeInv'
  BY <1>1, <1>3 DEF TypeInv
<1>5. Held' = Held
  BY DEF Held
<1>6. Cl'[<<i, k>>] = s.c /\ \A q \in Held \ {<<i, k>>} : Cl'[q] = Cl[q]
  <2>1. Cl' = [p \in Held |-> slot'[p[1]][p[2]]]
    BY <1>5 DEF Cl
  <2>2. ASSUME NEW q \in Held, q # <<i, k>> PROVE Cl'[q] = Cl[q]
    <3>a. PICK j \in Ifaces : \E n \in 1 .. num[j] : q = <<j, n>>
      BY <1>1, HeldFacts
    <3>1. PICK n \in 1 .. num[j] : q = <<j, n>>
      BY <3>a
    <3>2. n \in Places
      BY <1>1, HeldFacts
    <3>3. slot'[j][n] = slot[j][n]
      BY <1>3, <2>2, <3>1, <3>2
    <3> QED BY <2>1, <3>1, <3>3 DEF Cl
  <2>3. Cl'[<<i, k>>] = s.c
    BY <1>1, <1>3, <2>1
  <2> QED BY <2>2, <2>3
<1>7. Table(Held, Cl', s.r)
  <2> HIDE DEF Cl
  <2> QED BY <1>1, <1>6, TableUpdate DEF IInv
<1> QED BY <1>4, <1>5, <1>7 DEF IInv, Put

\* The client of a place, with the rules.
LEMMA AtKeeps ==
  ASSUME IInv, ClientsAssumption, NEW i \in Ifaces, NEW k \in 1 .. num[i]
  PROVE  /\ Keeps(At(i, k), routes, DOMAIN routes \ RouteHandles(slot[i][k]))
         /\ At(i, k).c = slot[i][k] /\ slot[i][k] \in ClientRec /\ k \in Places
<1>1. <<i, k>> \in Held /\ Cl[<<i, k>>] = slot[i][k] /\ slot[i][k] \in ClientRec /\ k \in Places
  BY HeldFacts DEF IInv
<1>2. Keeps([c |-> Cl[<<i, k>>], r |-> routes], routes, DOMAIN routes \ RouteHandles(Cl[<<i, k>>]))
  <2> HIDE DEF Cl
  <2> QED BY <1>1, TableGivesKeeps DEF IInv
<1> QED BY <1>1, <1>2 DEF At

LEMMA AddressV4Step ==
  ASSUME IInv, ClientsAssumption, NEW i \in Ifaces, NEW k \in 1 .. num[i], NEW a \in V4Addrs,
         AddressV4(i, k, a), UNCHANGED <<up, num, headers, asleep>>
  PROVE  IInv'
<1> DEFINE s == At(i, k)
           others == DOMAIN routes \ RouteHandles(slot[i][k])
           was == IF s.c.v4 = NoAddr THEN s ELSE UnrouteV4(s)
           now == [was EXCEPT !.c.v4 = a]
<1>1. Keeps(s, routes, others)
  BY AtKeeps
<1>2. CASE a = s.c.v4
  <2>1. UNCHANGED <<slot, routes, up, num, headers, asleep>>
    BY <1>2 DEF AddressV4
  <2> QED BY <2>1 DEF IInv, TypeInv, Held, Cl
<1>3. CASE a # s.c.v4
  <2>1. Keeps(was, routes, others) /\ was.c.rt_v4 = NoHandle
    <3>1. CASE s.c.v4 = NoAddr
      BY <3>1, <1>1 DEF Keeps
    <3>2. CASE s.c.v4 # NoAddr
      BY <3>2, <1>1, UnrouteV4Keeps
    <3> QED BY <3>1, <3>2
  <2>2. was = [c |-> was.c, r |-> was.r]
    BY DEF At, UnrouteV4
  <2> HIDE DEF was
  <2>3. now.r = was.r /\ now.c = [was.c EXCEPT !.v4 = a]
    BY <2>2
  <2> HIDE DEF now
  <2>4. was.c \in ClientRec
    BY <2>1 DEF Keeps
  <2>5. now.c \in ClientRec /\ now.c.rt_v4 = NoHandle /\ now.c.rt_v6 = was.c.rt_v6 /\ now.c.v6 = was.c.v6
        /\ now.c.hdr_v6 = was.c.hdr_v6
    BY <2>1, <2>3, <2>4 DEF ClientRec
  <2>6. Keeps(now, routes, others)
    <3>1. RouteHandles(now.c) = RouteHandles(was.c)
      BY <2>1, <2>5 DEF RouteHandles
    <3>2. Right(now.c, now.r)
      BY <2>1, <2>3, <2>5 DEF Right, Keeps
    <3> QED BY <2>1, <2>3, <2>5, <3>1, <3>2 DEF Keeps
  <2>7. asleep[i][k] \in BOOLEAN
    BY AtKeeps DEF IInv, TypeInv
  <2>8. Keeps(RouteV4(now, asleep[i][k]), routes, others)
    BY <2>6, <2>7, RouteV4Keeps
  <2>9. Put(i, k, RouteV4(now, asleep[i][k]))
    BY <1>3 DEF AddressV4, now, was
  <2>10. asleep' \in [Ifaces -> [Places -> BOOLEAN]]
    BY DEF IInv, TypeInv
  <2> QED BY <2>8, <2>9, <2>10, StoreStep
<1> QED BY <1>2, <1>3

LEMMA AddressV6Step ==
  ASSUME IInv, ClientsAssumption, NEW i \in Ifaces, NEW k \in 1 .. num[i], NEW a \in V6Addrs,
         AddressV6(i, k, a), UNCHANGED <<up, num, headers, asleep>>
  PROVE  IInv'
<1> DEFINE s == At(i, k)
           others == DOMAIN routes \ RouteHandles(slot[i][k])
           now == [s EXCEPT !.c.v6 = @ \cup {a}]
<1>1. Keeps(s, routes, others)
  BY AtKeeps
<1>2. CASE Cardinality(s.c.v6) >= V6Num \/ a \in s.c.v6
  <2>1. UNCHANGED <<slot, routes, up, num, headers, asleep>>
    BY <1>2 DEF AddressV6
  <2> QED BY <2>1 DEF IInv, TypeInv, Held, Cl
<1>3. CASE ~ (Cardinality(s.c.v6) >= V6Num \/ a \in s.c.v6)
  <2>1. now.r = s.r /\ now.c = [s.c EXCEPT !.v6 = @ \cup {a}]
    BY DEF At
  <2>2. s.c \in ClientRec
    BY <1>1 DEF Keeps
  <2> HIDE DEF now
  <2>3. now.c \in ClientRec /\ now.c.rt_v4 = s.c.rt_v4 /\ now.c.rt_v6 = s.c.rt_v6 /\ now.c.v6 = s.c.v6 \cup {a}
        /\ now.c.v4 = s.c.v4 /\ now.c.hdr_v4 = s.c.hdr_v4 /\ now.c.hdr_v6 = s.c.hdr_v6
    BY <2>1, <2>2 DEF ClientRec
  <2>4. Keeps(now, routes, others)
    <3> HIDE DEF s
    <3>1. RouteHandles(now.c) = RouteHandles(s.c)
      BY <2>3 DEF RouteHandles
    <3>2. Right(now.c, now.r)
      BY <1>1, <2>1, <2>3 DEF Right, Keeps
    <3> QED BY <1>1, <2>1, <2>3, <3>1, <3>2 DEF Keeps
  <2>5. asleep[i][k] \in BOOLEAN
    BY AtKeeps DEF IInv, TypeInv
  <2>6. Keeps(RouteV6(now, asleep[i][k]), routes, others)
    BY <2>4, <2>5, RouteV6Keeps
  <2>7. Put(i, k, RouteV6(now, asleep[i][k]))
    BY <1>3 DEF AddressV6, now
  <2>8. asleep' \in [Ifaces -> [Places -> BOOLEAN]]
    BY DEF IInv, TypeInv
  <2> QED BY <2>6, <2>7, <2>8, StoreStep
<1> QED BY <1>2, <1>3

LEMMA PowerSaveStep ==
  ASSUME IInv, ClientsAssumption, NEW i \in Ifaces, NEW k \in 1 .. num[i],
         PowerSave(i, k) \/ Recover(i, k), UNCHANGED <<up, num, headers>>
  PROVE  IInv'
<1> DEFINE s == At(i, k)
           others == DOMAIN routes \ RouteHandles(slot[i][k])
<1>1. Keeps(s, routes, others) /\ k \in Places
  BY AtKeeps
<1>2. CASE UNCHANGED <<slot, asleep, routes>>
  BY <1>2 DEF IInv, TypeInv, Held, Cl
<1>3. ASSUME NEW t, Keeps(t, routes, others), Put(i, k, t), NEW b \in BOOLEAN, asleep' = [asleep EXCEPT ![i][k] = b]
      PROVE  IInv'
  <2>1. asleep' \in [Ifaces -> [Places -> BOOLEAN]]
    BY <1>1, <1>3 DEF IInv, TypeInv
  <2> QED BY <1>3, <2>1, StoreStep
<1>4. Keeps(UnrouteV6(UnrouteV4(s)), routes, others)
  BY <1>1, UnrouteV4Keeps, UnrouteV6Keeps
<1>5. Keeps(RouteV6(RouteV4(s, FALSE), FALSE), routes, others)
  BY <1>1, RouteV4Keeps, RouteV6Keeps
<1>6. CASE PowerSave(i, k)
  BY <1>2, <1>3, <1>4, <1>6 DEF PowerSave
<1>7. CASE Recover(i, k)
  BY <1>2, <1>3, <1>5, <1>7 DEF Recover
<1> QED BY <1>6, <1>7

LEMMA HeadersFinite ==
  ASSUME NEW hd, IsFiniteSet(DOMAIN hd)
  PROVE  /\ \A a, m : IsFiniteSet(DOMAIN Give(hd, {a}, m))
         /\ \A a, b, m : IsFiniteSet(DOMAIN Give(hd, {a, b}, m))
         /\ \A hs : IsFiniteSet(DOMAIN Without(hd, hs))
<1>1. ASSUME NEW a, NEW m PROVE IsFiniteSet(DOMAIN Give(hd, {a}, m))
  <2>1. DOMAIN Give(hd, {a}, m) = DOMAIN hd \cup {a}
    BY DEF With, Give
  <2> QED BY <2>1, FS_AddElement
<1>2. ASSUME NEW a, NEW b, NEW m PROVE IsFiniteSet(DOMAIN Give(hd, {a, b}, m))
  <2>1. DOMAIN Give(hd, {a, b}, m) = (DOMAIN hd \cup {a}) \cup {b}
    BY DEF With, Give
  <2>2. IsFiniteSet(DOMAIN hd \cup {a})
    BY FS_AddElement
  <2>3. IsFiniteSet((DOMAIN hd \cup {a}) \cup {b})
    BY <2>2, FS_AddElement
  <2> QED BY <2>1, <2>3
<1>3. ASSUME NEW hs PROVE IsFiniteSet(DOMAIN Without(hd, hs))
  <2>1. DOMAIN Without(hd, hs) \subseteq DOMAIN hd
    BY DEF Without
  <2> QED BY <2>1, FS_Subset
<1> QED BY <1>1, <1>2, <1>3

LEMMA ClientAddStep ==
  ASSUME IInv, ClientsAssumption, NEW i \in up, NEW m \in Macs, NEW refused,
         ClientAdd(i, m, refused), up' = up
  PROVE  IInv'
<1> DEFINE h4 == Fresh(<<m, "v4">>, DOMAIN headers)
           h6 == Fresh(<<m, "v6">>, DOMAIN headers)
           n == num[i] + 1
           new == [Empty EXCEPT !.mac = m, !.hdr_v4 = h4, !.hdr_v6 = h6]
<1>a. TypeInv /\ i \in Ifaces
  BY DEF IInv, TypeInv
<1>1. CASE UNCHANGED <<num, slot, asleep, total, hw>>
  BY <1>1 DEF IInv, TypeInv, Held, Cl, hw
<1>2. CASE headers' = Give(headers, {h4}, m) /\ UNCHANGED <<num, slot, asleep, total, routes>>
  <2>2. IsFiniteSet(DOMAIN headers')
    <3> HIDE DEF h4
    <3> QED BY <1>2, <1>a, HeadersFinite DEF TypeInv
  <2>3. TypeInv'
    BY <1>2, <1>a, <2>2 DEF TypeInv
  <2> QED BY <1>2, <2>3 DEF IInv, Held, Cl
<1>3. CASE /\ num[i] < MaxClients
           /\ headers' = Give(headers, {h4, h6}, m)
           /\ num' = [num EXCEPT ![i] = n]
           /\ slot' = [slot EXCEPT ![i][n] = new]
           /\ asleep' = [asleep EXCEPT ![i][n] = FALSE]
           /\ UNCHANGED routes
  <2>1. IsFiniteSet(DOMAIN headers')
    <3> HIDE DEF h4, h6
    <3> QED BY <1>3, <1>a, HeadersFinite DEF TypeInv
  <2>2. h4 \in (Macs \X {"v4"}) \X Nat /\ h6 \in (Macs \X {"v6"}) \X Nat
    <3> HIDE DEF h4, h6
    <3>1. \E x \in Nat : h4 = <<<<m, "v4">>, x>>
      BY <1>a, FreshIsNew DEF h4, TypeInv
    <3>2. \E x \in Nat : h6 = <<<<m, "v6">>, x>>
      BY <1>a, FreshIsNew DEF h6, TypeInv
    <3> QED BY <3>1, <3>2
  <2> HIDE DEF h4, h6
  <2>3. Empty \in ClientRec /\ Empty.rt_v4 = NoHandle /\ Empty.rt_v6 = NoRoutes
    BY NoRoutesFacts DEF Empty, ClientRec
  <2>4. new \in ClientRec /\ new.rt_v4 = NoHandle /\ new.rt_v6 = NoRoutes
    BY <2>2, <2>3 DEF ClientRec
  <2> HIDE DEF new
  <2>5. GoodClient(new) /\ RouteHandles(new) = {}
    BY <2>4, NoRoutesFacts DEF GoodClient, RouteHandles
  <2>6. num[i] \in Nat /\ n \in Places /\ num'[i] = n /\ \A j \in Ifaces : j # i => num'[j] = num[j]
    BY <1>3, <1>a DEF TypeInv, Places, ClientsAssumption
  <2>7. slot' \in [Ifaces -> [Places -> ClientRec]] /\ slot'[i][n] = new
        /\ \A j \in Ifaces : \A x \in Places : <<j, x>> # <<i, n>> => slot'[j][x] = slot[j][x]
    BY <1>3, <1>a, <2>4, <2>6 DEF TypeInv
  <2>8. TypeInv'
    BY <1>3, <1>a, <2>1, <2>6, <2>7 DEF TypeInv, Places, ClientsAssumption
  <2>9. Held' = Held \cup {<<i, n>>} /\ <<i, n>> \notin Held
    <3>2. n \notin 1 .. num[i] /\ n \in 1 .. num'[i]
      BY <2>6
    <3>3. <<i, n>> \notin Held
      BY <3>2, <1>a, HeldFacts
    <3>4. \A q : q \in Held' <=> \E j \in Ifaces : \E x \in 1 .. num'[j] : q = <<j, x>>
      BY DEF Held
    <3>5. \A q : q \in Held <=> \E j \in Ifaces : \E x \in 1 .. num[j] : q = <<j, x>>
      BY DEF Held
    <3>6. ASSUME NEW q \in Held' PROVE q \in Held \cup {<<i, n>>}
      <4>1. PICK j \in Ifaces : \E x \in 1 .. num'[j] : q = <<j, x>>
        BY <3>4
      <4>2. PICK x \in 1 .. num'[j] : q = <<j, x>>
        BY <4>1
      <4>3. x \in 1 .. num[j] \/ (j = i /\ x = n)
        BY <2>6
      <4> QED BY <3>5, <4>2, <4>3
    <3>7. ASSUME NEW q \in Held PROVE q \in Held'
      <4>1. PICK j \in Ifaces : \E x \in 1 .. num[j] : q = <<j, x>>
        BY <3>5
      <4>2. PICK x \in 1 .. num[j] : q = <<j, x>>
        BY <4>1
      <4>3. x \in 1 .. num'[j]
        BY <2>6
      <4> QED BY <3>4, <4>2, <4>3
    <3>8. <<i, n>> \in Held'
      BY <1>a, <3>2, <3>4
    <3> HIDE DEF n
    <3> QED BY <3>3, <3>6, <3>7, <3>8
  <2>10. Cl'[<<i, n>>] = new /\ \A q \in Held : Cl'[q] = Cl[q]
    <3>1. Cl' = [p \in Held \cup {<<i, n>>} |-> slot'[p[1]][p[2]]]
      BY <2>9 DEF Cl
    <3>2. ASSUME NEW q \in Held PROVE Cl'[q] = Cl[q]
      <4>1. PICK j \in Ifaces : \E x \in 1 .. num[j] : q = <<j, x>>
        BY <1>a, HeldFacts
      <4>2. PICK x \in 1 .. num[j] : q = <<j, x>>
        BY <4>1
      <4>3. x \in Places
        BY <1>a, HeldFacts
      <4>4. slot'[j][x] = slot[j][x]
        BY <2>7, <2>9, <4>2, <4>3
      <4> QED BY <3>1, <4>2, <4>4 DEF Cl
    <3>3. Cl'[<<i, n>>] = new
      BY <2>7, <3>1
    <3> QED BY <3>2, <3>3
  <2>11. Table(Held', Cl', routes')
    <3> HIDE DEF Cl
    <3> QED BY <1>3, <2>5, <2>9, <2>10, TableAdd DEF IInv
  <2> QED BY <2>8, <2>11 DEF IInv
<1>4. num[i] \in Nat
  BY <1>a DEF TypeInv
<1>5. CASE num[i] >= MaxClients \/ total >= MaxClients
  BY <1>1, <1>5 DEF ClientAdd
<1>6. CASE ~ (num[i] >= MaxClients \/ total >= MaxClients)
  <2>1. num[i] < MaxClients
    BY <1>4, <1>6 DEF ClientsAssumption
  <2> QED BY <1>2, <1>3, <1>6, <2>1 DEF ClientAdd
<1> QED BY <1>5, <1>6

LEMMA ClientDelStep ==
  ASSUME IInv, ClientsAssumption, NEW i \in up, NEW k \in 1 .. num[i], ClientDel(i, k), up' = up
  PROVE  IInv'
<1> DEFINE p == <<i, k>>
           c == slot[i][k]
           f == [q \in Held' |-> IF q[1] = i /\ q[2] >= k THEN <<i, q[2] + 1>> ELSE q]
<1>1. TypeInv /\ i \in Ifaces /\ k \in Places /\ p \in Held /\ Cl[p] = c
  BY HeldFacts DEF IInv, TypeInv
<1>2. num[i] \in 1 .. MaxClients /\ num' = [num EXCEPT ![i] = num[i] - 1] /\ num'[i] = num[i] - 1
      /\ \A j \in Ifaces : j # i => num'[j] = num[j]
  BY <1>1 DEF ClientDel, TypeInv, ClientsAssumption
<1>3. num' \in [Ifaces -> 0 .. MaxClients]
  BY <1>1, <1>2 DEF TypeInv, ClientsAssumption
<1>4. Empty \in ClientRec
  BY NoRoutesFacts DEF Empty, ClientRec
<1>5. slot' = [slot EXCEPT ![i] = MovedDown(i, k)]
  BY DEF ClientDel
<1>6. MovedDown(i, k) \in [Places -> ClientRec]
  <2>1. \A j \in k .. (num[i] - 1) : j + 1 \in Places
    BY <1>1, <1>2 DEF Places, ClientsAssumption
  <2>2. slot[i] \in [Places -> ClientRec]
    BY <1>1 DEF TypeInv
  <2> QED BY <1>4, <2>1, <2>2 DEF MovedDown
<1>7. slot' \in [Ifaces -> [Places -> ClientRec]]
  BY <1>1, <1>5, <1>6 DEF TypeInv
<1>8. IsFiniteSet(DOMAIN headers')
  BY <1>1, HeadersFinite DEF ClientDel, TypeInv
<1>9. TypeInv'
  BY <1>1, <1>2, <1>3, <1>7, <1>8 DEF TypeInv, ClientDel
<1>10. Table(Held \ {p}, Cl, routes')
  <2>1. RouteHandles(c) = UNION {RouteHandles(Cl[q]) : q \in {p}}
    BY <1>1
  <2>2. routes' = Without(routes, RouteHandles(c))
    BY DEF ClientDel
  <2>3. {p} \in SUBSET Held
    BY <1>1
  <2> HIDE DEF p, c, Cl
  <2> QED BY <2>1, <2>2, <2>3, TableRemove DEF IInv
<1>11. \A q : q \in Held' <=> \E j \in Ifaces : \E x \in 1 .. num'[j] : q = <<j, x>>
  BY DEF Held
<1>12. ASSUME NEW j \in Ifaces, NEW x \in 1 .. num'[j]
       PROVE  /\ <<j, x>> \in Held' /\ Cl'[<<j, x>>] = slot'[j][x]
              /\ (j = i /\ x >= k) => f[<<j, x>>] = <<i, x + 1>> /\ x + 1 \in 1 .. num[i] /\ x + 1 # k
                                      /\ slot'[j][x] = slot[i][x + 1]
              /\ ~ (j = i /\ x >= k) => f[<<j, x>>] = <<j, x>> /\ x \in 1 .. num[j] /\ <<j, x>> # p
                                        /\ slot'[j][x] = slot[j][x]
  <2>1. <<j, x>> \in Held' /\ Cl'[<<j, x>>] = slot'[j][x]
    BY <1>11 DEF Cl
  <2>2. x \in Places
    BY <1>3 DEF Places, ClientsAssumption
  <2>3. CASE j = i /\ x >= k
    <3>1. x \in k .. (num[i] - 1)
      BY <1>2, <2>3
    <3>2. slot'[j][x] = MovedDown(i, k)[x] /\ MovedDown(i, k)[x] = slot[i][x + 1]
      BY <1>1, <1>5, <2>2, <2>3, <3>1 DEF TypeInv, MovedDown
    <3>3. f[<<j, x>>] = <<i, x + 1>>
      BY <2>1, <2>3
    <3> QED BY <1>2, <2>1, <2>3, <3>1, <3>2, <3>3
  <2>4. CASE ~ (j = i /\ x >= k)
    <3>1. f[<<j, x>>] = <<j, x>>
      BY <2>1, <2>4
    <3>2. x \in 1 .. num[j] /\ <<j, x>> # p
      BY <1>2, <2>4
    <3>3. slot'[j][x] = slot[j][x]
      <4>1. CASE j = i
        <5>1. x < k /\ x # num[i] /\ x \notin k .. (num[i] - 1)
          BY <1>2, <2>4, <4>1
        <5> QED BY <1>1, <1>5, <2>2, <4>1, <5>1 DEF TypeInv, MovedDown
      <4>2. CASE j # i
        BY <1>1, <1>5, <4>2 DEF TypeInv
      <4> QED BY <4>1, <4>2
    <3> QED BY <2>1, <2>4, <3>1, <3>2, <3>3
  <2> QED BY <2>3, <2>4
<1>13. ASSUME NEW q \in Held' PROVE f[q] \in Held \ {p} /\ Cl'[q] = Cl[f[q]]
  <2>1. PICK j \in Ifaces : \E x \in 1 .. num'[j] : q = <<j, x>>
    BY <1>11
  <2>2. PICK x \in 1 .. num'[j] : q = <<j, x>>
    BY <2>1
  <2> HIDE DEF f
  <2>3. CASE j = i /\ x >= k
    BY <1>1, <1>12, <2>2, <2>3, HeldFacts
  <2>4. CASE ~ (j = i /\ x >= k)
    BY <1>1, <1>12, <2>2, <2>4, HeldFacts
  <2> QED BY <2>3, <2>4
<1>14. ASSUME NEW q \in Held', NEW t \in Held', q # t PROVE f[q] # f[t]
  <2>1. PICK j \in Ifaces : \E x \in 1 .. num'[j] : q = <<j, x>>
    BY <1>11
  <2>2. PICK x \in 1 .. num'[j] : q = <<j, x>>
    BY <2>1
  <2>3. PICK l \in Ifaces : \E y \in 1 .. num'[l] : t = <<l, y>>
    BY <1>11
  <2>4. PICK y \in 1 .. num'[l] : t = <<l, y>>
    BY <2>3
  <2>5. x \in Nat /\ y \in Nat /\ k \in Nat
    BY <1>1, <1>3 DEF Places
  <2>6. f[q] = (IF j = i /\ x >= k THEN <<i, x + 1>> ELSE <<j, x>>)
        /\ f[t] = (IF l = i /\ y >= k THEN <<i, y + 1>> ELSE <<l, y>>)
    BY <2>2, <2>4
  <2> HIDE DEF f
  <2> QED BY <1>14, <2>2, <2>4, <2>5, <2>6
<1>15. ASSUME NEW t \in Held \ {p} PROVE \E q \in Held' : f[q] = t
  <2>1. PICK l \in Ifaces : \E y \in 1 .. num[l] : t = <<l, y>>
    BY <1>1, HeldFacts
  <2>2. PICK y \in 1 .. num[l] : t = <<l, y>>
    BY <2>1
  <2> HIDE DEF f
  <2>3. CASE l = i /\ y > k
    <3>1. y - 1 \in 1 .. num'[i] /\ y - 1 >= k /\ (y - 1) + 1 = y
      BY <1>2, <2>2, <2>3
    <3>2. <<i, y - 1>> \in Held' /\ f[<<i, y - 1>>] = <<i, (y - 1) + 1>>
      BY <1>1, <1>12, <3>1
    <3> QED BY <2>2, <2>3, <3>1, <3>2
  <2>4. CASE ~ (l = i /\ y > k)
    <3>1. y \in 1 .. num'[l] /\ ~ (l = i /\ y >= k)
      BY <1>2, <2>2, <2>4
    <3> QED BY <1>12, <2>2, <3>1
  <2> QED BY <2>3, <2>4
<1>16. Table(Held', Cl', routes')
  <2>1. f \in [Held' -> Held \ {p}]
    BY <1>13
  <2> HIDE DEF f, p, Cl
  <2> QED BY <1>10, <1>13, <1>14, <1>15, <2>1, TableMove
<1> QED BY <1>9, <1>16 DEF IInv

LEMMA LinkUpStep ==
  ASSUME IInv, ClientsAssumption, NEW i \in Ifaces, LinkUp(i)
  PROVE  IInv'
<1>1. TypeInv /\ num[i] = 0 /\ num' = num
  BY DEF IInv, TypeInv, LinkUp
<1>2. Empty \in ClientRec
  BY NoRoutesFacts DEF Empty, ClientRec
<1>3. slot' \in [Ifaces -> [Places -> ClientRec]] /\ \A j \in Ifaces \ {i} : slot'[j] = slot[j]
  BY <1>1, <1>2 DEF TypeInv, LinkUp
<1>4. TypeInv'
  BY <1>1, <1>3 DEF TypeInv, LinkUp, hw
<1>5. Held' = Held /\ routes' = routes
  BY <1>1 DEF Held, LinkUp, hw
<1>6. ASSUME NEW q \in Held PROVE Cl'[q] = Cl[q]
  <2>1. PICK j \in Ifaces : \E x \in 1 .. num[j] : q = <<j, x>>
    BY <1>1, HeldFacts
  <2>2. PICK x \in 1 .. num[j] : q = <<j, x>>
    BY <2>1
  <2>3. j # i
    BY <1>1
  <2> QED BY <1>3, <1>5, <2>2, <2>3 DEF Cl
<1>7. Cl' = Cl
  BY <1>5, <1>6 DEF Cl
<1> QED BY <1>4, <1>5, <1>7 DEF IInv

LEMMA LinkDownStep ==
  ASSUME IInv, ClientsAssumption, NEW i \in Ifaces, LinkDown(i)
  PROVE  IInv'
<1> DEFINE hs == UNION {RouteHandles(slot[i][k]) : k \in 1 .. num[i]}
           gone == {<<i, k>> : k \in 1 .. num[i]}
<1>1. TypeInv /\ num'[i] = 0 /\ (\A j \in Ifaces : j # i => num'[j] = num[j]) /\ num' \in [Ifaces -> 0 .. MaxClients]
  BY DEF IInv, TypeInv, LinkDown, HandleDown, ClientsAssumption
<1>2. Empty \in ClientRec
  BY NoRoutesFacts DEF Empty, ClientRec
<1>3. slot' \in [Ifaces -> [Places -> ClientRec]] /\ \A j \in Ifaces : j # i => slot'[j] = slot[j]
  BY <1>1, <1>2 DEF TypeInv, LinkDown, HandleDown
<1>4. IsFiniteSet(DOMAIN headers')
  BY <1>1, HeadersFinite DEF LinkDown, HandleDown, TypeInv
<1>5. TypeInv'
  BY <1>1, <1>3, <1>4 DEF TypeInv, LinkDown, HandleDown
<1>6. gone \in SUBSET Held
  BY <1>1, HeldFacts
<1>7. hs = UNION {RouteHandles(Cl[p]) : p \in gone}
  <2>1. \A k \in 1 .. num[i] : Cl[<<i, k>>] = slot[i][k]
    BY <1>1, HeldFacts
  <2> HIDE DEF Cl
  <2>2. {RouteHandles(Cl[p]) : p \in gone} = {RouteHandles(slot[i][k]) : k \in 1 .. num[i]}
    <3>1. ASSUME NEW p \in gone PROVE \E k \in 1 .. num[i] : RouteHandles(Cl[p]) = RouteHandles(slot[i][k])
      <4>1. PICK k \in 1 .. num[i] : p = <<i, k>>
        OBVIOUS
      <4>2. Cl[p] = slot[i][k]
        BY <2>1, <4>1
      <4> QED BY <4>2
    <3>2. ASSUME NEW k \in 1 .. num[i] PROVE \E p \in gone : RouteHandles(Cl[p]) = RouteHandles(slot[i][k])
      <4>1. <<i, k>> \in gone /\ Cl[<<i, k>>] = slot[i][k]
        BY <2>1
      <4> QED BY <4>1
    <3> HIDE DEF gone
    <3> QED BY <3>1, <3>2
  <2> HIDE DEF gone
  <2> QED BY <2>2
<1>8. routes' = Without(routes, hs)
  BY DEF LinkDown, HandleDown
<1>9. Table(Held \ gone, Cl, routes')
  <2> HIDE DEF gone, hs, Cl
  <2> QED BY <1>6, <1>7, <1>8, TableRemove DEF IInv
<1>10. ASSUME NEW q PROVE q \in Held' <=> q \in Held \ gone
  <2>1. q \in Held' <=> \E j \in Ifaces : \E x \in 1 .. num'[j] : q = <<j, x>>
    BY DEF Held
  <2>2. q \in Held <=> \E j \in Ifaces : \E x \in 1 .. num[j] : q = <<j, x>>
    BY DEF Held
  <2>3. ASSUME q \in Held' PROVE q \in Held \ gone
    <3>1. PICK j \in Ifaces : \E x \in 1 .. num'[j] : q = <<j, x>>
      BY <2>1, <2>3
    <3>2. PICK x \in 1 .. num'[j] : q = <<j, x>>
      BY <3>1
    <3>3. j # i
      BY <1>1, <3>2
    <3>4. q \notin gone /\ x \in 1 .. num[j]
      BY <1>1, <3>2, <3>3
    <3> QED BY <2>2, <3>2, <3>4
  <2>4. ASSUME q \in Held \ gone PROVE q \in Held'
    <3>1. PICK j \in Ifaces : \E x \in 1 .. num[j] : q = <<j, x>>
      BY <2>2, <2>4
    <3>2. PICK x \in 1 .. num[j] : q = <<j, x>>
      BY <3>1
    <3>3. j # i
      BY <2>4, <3>2
    <3> QED BY <1>1, <2>1, <3>2, <3>3
  <2> QED BY <2>3, <2>4
<1>11. Held' = Held \ gone
  <2> HIDE DEF gone
  <2> QED BY <1>10
<1>12. ASSUME NEW q \in Held' PROVE Cl'[q] = Cl[q]
  <2>1. PICK j \in Ifaces : \E x \in 1 .. num[j] : q = <<j, x>>
    BY <1>1, <1>10, HeldFacts
  <2>2. PICK x \in 1 .. num[j] : q = <<j, x>>
    BY <2>1
  <2>3. j # i
    BY <1>10, <2>2
  <2>4. q \in Held
    BY <1>10
  <2> QED BY <1>3, <2>2, <2>3, <2>4 DEF Cl
<1>13. Table(Held', Cl', routes')
  <2> DEFINE f == [q \in Held' |-> q]
  <2>1. f \in [Held' -> Held \ gone] /\ (\A p, q \in Held' : p # q => f[p] # f[q])
        /\ (\A p \in Held \ gone : \E q \in Held' : f[q] = p) /\ \A q \in Held' : Cl'[q] = Cl[f[q]]
    BY <1>11, <1>12
  <2> HIDE DEF f, gone, Cl
  <2> QED BY <1>9, <2>1, TableMove
<1> QED BY <1>5, <1>13 DEF IInv

LEMMA PrefixGoneStep ==
  ASSUME IInv, ClientsAssumption, NEW i \in Ifaces, PrefixGone(i)
  PROVE  IInv'
<1> DEFINE hs == UNION {V6Handles(slot[i][k]) : k \in 1 .. num[i]}
           mine == {<<i, k>> : k \in 1 .. num[i]}
<1>1. TypeInv /\ UNCHANGED <<up, num, asleep, headers>>
  BY DEF IInv, PrefixGone
<1>2. routes' = Without(routes, hs)
  BY DEF PrefixGone, ResetRtV6, V6Handles
<1>3. slot' = [slot EXCEPT ![i] = [k \in Places |-> IF k <= num[i] THEN ForgottenV6(slot[i][k]) ELSE slot[i][k]]]
  BY DEF PrefixGone, ResetRtV6
<1>4. \A k \in Places : slot[i][k] \in ClientRec /\ ForgottenV6(slot[i][k]) \in ClientRec
  BY <1>1, ForgottenFacts DEF TypeInv
<1>5. slot' \in [Ifaces -> [Places -> ClientRec]] /\ (\A j \in Ifaces : j # i => slot'[j] = slot[j])
      /\ \A k \in 1 .. num[i] : slot'[i][k] = ForgottenV6(slot[i][k])
  <2>1. \A k \in 1 .. num[i] : k \in Places /\ k <= num[i]
    BY <1>1 DEF TypeInv, Places, ClientsAssumption
  <2> QED BY <1>1, <1>3, <1>4, <2>1 DEF TypeInv
<1>6. TypeInv'
  BY <1>1, <1>5 DEF TypeInv
<1>7. Held' = Held
  BY <1>1 DEF Held
<1>8. mine \in SUBSET Held
  BY <1>1, HeldFacts
<1>9. \A k \in 1 .. num[i] : Cl[<<i, k>>] = slot[i][k] /\ <<i, k>> \in Held
  BY <1>1, HeldFacts
<1>10. hs = UNION {V6Handles(Cl[p]) : p \in mine}
  <2> HIDE DEF Cl
  <2>1. {V6Handles(Cl[p]) : p \in mine} = {V6Handles(slot[i][k]) : k \in 1 .. num[i]}
    <3>1. ASSUME NEW p \in mine PROVE \E k \in 1 .. num[i] : V6Handles(Cl[p]) = V6Handles(slot[i][k])
      <4>1. PICK k \in 1 .. num[i] : p = <<i, k>>
        OBVIOUS
      <4>2. Cl[p] = slot[i][k]
        BY <1>9, <4>1
      <4> QED BY <4>2
    <3>2. ASSUME NEW k \in 1 .. num[i] PROVE \E p \in mine : V6Handles(Cl[p]) = V6Handles(slot[i][k])
      <4>1. <<i, k>> \in mine /\ Cl[<<i, k>>] = slot[i][k]
        BY <1>9
      <4> QED BY <4>1
    <3> HIDE DEF mine
    <3> QED BY <3>1, <3>2
  <2> HIDE DEF mine
  <2> QED BY <2>1
<1>11. \A p \in mine : Cl'[p] = ForgottenV6(Cl[p])
  <2>1. Cl' = [p \in Held |-> slot'[p[1]][p[2]]]
    BY <1>7 DEF Cl
  <2> QED BY <1>5, <1>9, <2>1
<1>12. ASSUME NEW p \in Held \ mine PROVE Cl'[p] = Cl[p]
  <2>1. PICK j \in Ifaces : \E x \in 1 .. num[j] : p = <<j, x>>
    BY <1>1, HeldFacts
  <2>2. PICK x \in 1 .. num[j] : p = <<j, x>>
    BY <2>1
  <2>3. j # i
    BY <2>2
  <2> QED BY <1>5, <1>7, <2>2, <2>3 DEF Cl
<1>13. Table(Held, Cl', routes')
  <2> HIDE DEF hs, mine, Cl
  <2> QED BY <1>2, <1>8, <1>10, <1>11, <1>12, TableResetV6 DEF IInv
<1> QED BY <1>6, <1>7, <1>13 DEF IInv

LEMMA NothingMoved ==
  ASSUME IInv, UNCHANGED <<up, num, slot, asleep, headers, routes>>
  PROVE  IInv'
<1>1. TypeInv'
  BY DEF IInv, TypeInv
<1>2. Held' = Held /\ Cl' = Cl /\ routes' = routes
  BY DEF Held, Cl
<1> QED BY <1>1, <1>2 DEF IInv

---------------------------------------------------------------------------
(* The theorem                                                             *)

LEMMA IInvInit ==
  ASSUME Init, ClientsAssumption
  PROVE  IInv
<1>1. Empty \in ClientRec
  BY NoRoutesFacts DEF Empty, ClientRec
<1>2. TypeInv
  BY <1>1, FS_EmptySet DEF Init, TypeInv, ClientsAssumption
<1>3. Held = {}
  BY DEF Init, Held
<1>4. DOMAIN routes = {}
  BY DEF Init
<1> QED BY <1>2, <1>3, <1>4, FS_EmptySet DEF IInv, Table

LEMMA IInvNext ==
  ASSUME IInv, [Next]_vars, ClientsAssumption
  PROVE  IInv'
<1>1. ASSUME NEW i \in Ifaces, NEW m \in Macs, Join(i, m) PROVE IInv'
  BY <1>1, ClientAddStep DEF Join
<1>2. ASSUME NEW i \in Ifaces, NEW m \in Macs, Leave(i, m) PROVE IInv'
  <2>1. CASE IndexOf(i, m) = 0
    BY <1>2, <2>1, NothingMoved DEF Leave, hw
  <2>2. CASE IndexOf(i, m) # 0
    <3>1. IndexOf(i, m) \in 1 .. num[i]
      BY <2>2, IndexFacts DEF IInv
    <3>2. i \in up
      BY <3>1 DEF IInv, TypeInv
    <3> QED BY <1>2, <2>2, <3>1, <3>2, ClientDelStep DEF Leave
  <2> QED BY <2>1, <2>2
<1>3. ASSUME NEW i \in Ifaces, NEW m \in Macs, Sleep(i, m) \/ Wake(i, m) PROVE IInv'
  <2>1. CASE IndexOf(i, m) = 0
    <3>1. UNCHANGED <<up, num, slot, asleep, headers, routes>>
      BY <1>3, <2>1 DEF Sleep, Wake
    <3> QED BY <3>1, NothingMoved
  <2>2. CASE IndexOf(i, m) # 0
    <3>1. IndexOf(i, m) \in 1 .. num[i]
      BY <2>2, IndexFacts DEF IInv
    <3>2. (PowerSave(i, IndexOf(i, m)) \/ Recover(i, IndexOf(i, m))) /\ UNCHANGED <<up, num, headers>>
      BY <1>3, <2>2 DEF Sleep, Wake
    <3> QED BY <3>1, <3>2, PowerSaveStep
  <2> QED BY <2>1, <2>2
<1>4. ASSUME NEW i \in Ifaces, NEW m \in Macs, NEW a \in V4Addrs \cup V6Addrs, Address(i, m, a) PROVE IInv'
  <2>1. CASE UNCHANGED <<slot, routes>>
    BY <1>4, <2>1, NothingMoved DEF Address
  <2>2. CASE IndexOf(i, m) # 0
    <3>1. IndexOf(i, m) \in 1 .. num[i]
      BY <2>2, IndexFacts DEF IInv
    <3>2. UNCHANGED <<up, num, headers, asleep>>
      BY <1>4 DEF Address
    <3>3. CASE a \in V4Addrs /\ AddressV4(i, IndexOf(i, m), a)
      BY <3>1, <3>2, <3>3, AddressV4Step
    <3>4. CASE a \in V6Addrs /\ AddressV6(i, IndexOf(i, m), a)
      BY <3>1, <3>2, <3>4, AddressV6Step
    <3> QED BY <1>4, <2>2, <3>3, <3>4 DEF Address
  <2> QED BY <1>4, <2>1, <2>2 DEF Address
<1>5. CASE UNCHANGED vars
  <2>1. UNCHANGED <<up, num, slot, asleep, headers, routes>>
    BY <1>5 DEF vars
  <2> QED BY <2>1, NothingMoved
<1> QED BY <1>1, <1>2, <1>3, <1>4, <1>5, LinkUpStep, LinkDownStep, PrefixGoneStep DEF Next

LEMMA IInvOwned ==
  ASSUME IInv, ClientsAssumption
  PROVE  RoutesOwned
<1>1. \A p \in Held : Cl[p] = slot[p[1]][p[2]]
  BY DEF Cl
<1> HIDE DEF Cl
<1>2. DOMAIN routes = UNION {RouteHandles(slot[p[1]][p[2]]) : p \in Held}
  BY <1>1 DEF IInv, Table
<1>3. \A p, q \in Held : p # q => RouteHandles(slot[p[1]][p[2]]) \cap RouteHandles(slot[q[1]][q[2]]) = {}
  BY <1>1 DEF IInv, Table
<1>4. \A p \in Held : Right(slot[p[1]][p[2]], routes)
  BY <1>1 DEF IInv, Table
<1> QED BY <1>2, <1>3, <1>4 DEF RoutesOwned, Right

\* The types, and that the rules and the table agree, hold in every state.
THEOREM InvariantHolds == Spec => []IInv
<1>1. Init => IInv
  BY IInvInit, ClientsAssumption
<1>2. IInv /\ [Next]_vars => IInv'
  BY IInvNext, ClientsAssumption
<1> QED BY <1>1, <1>2, PTL DEF Spec

\* The IPA holds the rules the clients in the arrays hold and no others, each
\* of one client and leading to it: in every environment, also in those where
\* clients leave while others sleep, rejoin, or have a header refused.
THEOREM RoutesAreOwned == Spec => []RoutesOwned
<1>1. IInv => RoutesOwned
  BY IInvOwned, ClientsAssumption
<1> QED BY <1>1, InvariantHolds, PTL

---------------------------------------------------------------------------
(***************************************************************************)
(* What the daemon keeps of the Wi-Fi clients is what the driver and the   *)
(* kernel announced, for any number of access points, clients and          *)
(* addresses.  Each theorem names the events it has to exclude: a client   *)
(* that joins while it is known ("rejoin"), one that leaves while another  *)
(* sleeps ("restless"), and a header the IPA refuses ("refuse").           *)
(*                                                                         *)
(* A handler changes one access point: its places, their flags, and what   *)
(* was announced of it.  Two predicates relate these, Seats and Rests;     *)
(* each is kept by the ways in which a handler changes them.               *)
(***************************************************************************)

\* The first n places of cl hold the clients of w, each once, with the
\* addresses it has.
Seats(n, cl, w) ==
    /\ \A k \in 1 .. n :
          /\ cl[k].mac \in DOMAIN w
          /\ w[cl[k].mac].v4 = cl[k].v4 /\ w[cl[k].mac].v6 = cl[k].v6
    /\ \A j, k \in 1 .. n : cl[j].mac = cl[k].mac => j = k
    /\ \A m \in DOMAIN w : \E k \in 1 .. n : cl[k].mac = m

\* A place's flag says whether its client sleeps; a client that is awake has
\* a rule for each address, one that sleeps has none.
Rest(c, sleeping, client) ==
    /\ sleeping <=> ~ client.awake
    /\ c.rt_v4 # NoHandle <=> ~ sleeping /\ c.v4 # NoAddr
    /\ DOMAIN c.rt_v6 = IF sleeping THEN {} ELSE c.v6
Rests(n, cl, flag, w) == \A k \in 1 .. n : Rest(cl[k], flag[k], w[cl[k].mac])

---------------------------------------------------------------------------
(* What keeps Seats                                                        *)

\* w2 differs from w at m only, and knows it.
Announces(w, w2, m) ==
    /\ DOMAIN w2 = DOMAIN w \cup {m}
    /\ \A x \in DOMAIN w \ {m} : w2[x] = w[x]

LEMMA SeatsStore ==
  ASSUME NEW n \in Nat, NEW cl, NEW cl2, NEW w, NEW w2, Seats(n, cl, w), NEW k \in 1 .. n,
         cl2[k].mac = cl[k].mac, \A x \in 1 .. n : x # k => cl2[x] = cl[x],
         Announces(w, w2, cl[k].mac),
         w2[cl[k].mac].v4 = cl2[k].v4, w2[cl[k].mac].v6 = cl2[k].v6
  PROVE  Seats(n, cl2, w2)
<1>1. DOMAIN w2 = DOMAIN w
  BY DEF Announces, Seats
<1>2. \A x \in 1 .. n : cl2[x].mac = cl[x].mac
  OBVIOUS
<1>3. ASSUME NEW x \in 1 .. n
      PROVE  w2[cl2[x].mac].v4 = cl2[x].v4 /\ w2[cl2[x].mac].v6 = cl2[x].v6
  <2>1. CASE x = k
    BY <2>1
  <2>2. CASE x # k
    <3>1. cl[x].mac \in DOMAIN w \ {cl[k].mac}
      BY <2>2 DEF Seats
    <3> QED BY <2>2, <3>1 DEF Announces, Seats
  <2> QED BY <2>1, <2>2
<1> QED BY <1>1, <1>2, <1>3 DEF Seats

LEMMA SeatsAdd ==
  ASSUME NEW n \in Nat, NEW cl, NEW cl2, NEW w, NEW w2, Seats(n, cl, w),
         \A x \in 1 .. n : cl2[x] = cl[x],
         cl2[n + 1].mac \notin DOMAIN w, Announces(w, w2, cl2[n + 1].mac),
         w2[cl2[n + 1].mac].v4 = cl2[n + 1].v4, w2[cl2[n + 1].mac].v6 = cl2[n + 1].v6
  PROVE  Seats(n + 1, cl2, w2)
<1> DEFINE m == cl2[n + 1].mac
<1>1. \A x \in 1 .. n + 1 : x \in 1 .. n \/ x = n + 1
  OBVIOUS
<1>2. \A x \in 1 .. n : cl2[x].mac \in DOMAIN w \ {m} /\ x \in 1 .. n + 1
  BY DEF Seats
<1>3. \A x \in 1 .. n : w2[cl2[x].mac] = w[cl[x].mac]
  BY <1>2 DEF Announces
<1>4. \A x \in 1 .. n + 1 : /\ cl2[x].mac \in DOMAIN w2
                           /\ w2[cl2[x].mac].v4 = cl2[x].v4 /\ w2[cl2[x].mac].v6 = cl2[x].v6
  BY <1>1, <1>2, <1>3 DEF Announces, Seats
<1>5. \A x, y \in 1 .. n + 1 : cl2[x].mac = cl2[y].mac => x = y
  BY <1>1, <1>2 DEF Seats
<1>6. ASSUME NEW y \in DOMAIN w2 PROVE \E x \in 1 .. n + 1 : cl2[x].mac = y
  <2>1. CASE y = m
    BY <2>1
  <2>2. CASE y # m
    BY <2>2, <1>2 DEF Announces, Seats
  <2> QED BY <2>1, <2>2
<1> QED BY <1>4, <1>5, <1>6 DEF Seats

\* Where the client came from that is in place x after that of place k left.
From(k, x) == IF x < k THEN x ELSE x + 1

LEMMA FromFacts ==
  ASSUME NEW n \in Nat, NEW k \in 1 .. n
  PROVE  /\ \A x \in 1 .. n - 1 : From(k, x) \in 1 .. n /\ From(k, x) # k
         /\ \A x, y \in 1 .. n - 1 : From(k, x) = From(k, y) => x = y
         /\ \A y \in 1 .. n : y # k => \E x \in 1 .. n - 1 : From(k, x) = y
<1>1. \A x \in 1 .. n - 1 : From(k, x) \in 1 .. n /\ From(k, x) # k
  BY DEF From
<1>2. \A x, y \in 1 .. n - 1 : From(k, x) = From(k, y) => x = y
  BY DEF From
<1>3. ASSUME NEW y \in 1 .. n, y # k PROVE \E x \in 1 .. n - 1 : From(k, x) = y
  <2>1. CASE y < k
    <3>1. y \in 1 .. n - 1 /\ From(k, y) = y
      BY <2>1 DEF From
    <3> QED BY <3>1
  <2>2. CASE y > k
    <3>1. y - 1 \in 1 .. n - 1 /\ From(k, y - 1) = y
      BY <2>2 DEF From
    <3> QED BY <3>1
  <2> QED BY <2>1, <2>2, <1>3
<1> QED BY <1>1, <1>2, <1>3

\* The client of place k, of n, leaves: those behind it move down.
Removes(n, k, cl, cl2, w, w2) ==
    /\ \A x \in 1 .. n - 1 : cl2[x] = cl[From(k, x)]
    /\ DOMAIN w2 = DOMAIN w \ {cl[k].mac}
    /\ \A x \in DOMAIN w2 : w2[x] = w[x]

LEMMA SeatsRemove ==
  ASSUME NEW n \in Nat, NEW n2, n2 = n - 1, NEW cl, NEW cl2, NEW w, NEW w2,
         Seats(n, cl, w), NEW k \in 1 .. n, Removes(n, k, cl, cl2, w, w2)
  PROVE  Seats(n2, cl2, w2)
<1>1. /\ \A x \in 1 .. n - 1 : cl2[x] = cl[From(k, x)]
      /\ DOMAIN w2 = DOMAIN w \ {cl[k].mac} /\ \A x \in DOMAIN w2 : w2[x] = w[x]
  BY DEF Removes
<1>2. /\ \A x \in 1 .. n - 1 : From(k, x) \in 1 .. n /\ From(k, x) # k
      /\ \A x, y \in 1 .. n - 1 : From(k, x) = From(k, y) => x = y
      /\ \A y \in 1 .. n : y # k => \E x \in 1 .. n - 1 : From(k, x) = y
  BY FromFacts
<1>3. \A x \in 1 .. n - 1 : cl2[x].mac \in DOMAIN w2
  BY <1>1, <1>2 DEF Seats
<1>4. \A x \in 1 .. n - 1 : w2[cl2[x].mac].v4 = cl2[x].v4 /\ w2[cl2[x].mac].v6 = cl2[x].v6
  BY <1>1, <1>2, <1>3 DEF Seats
<1>5. \A x, y \in 1 .. n - 1 : cl2[x].mac = cl2[y].mac => x = y
  BY <1>1, <1>2 DEF Seats
<1>6. ASSUME NEW m \in DOMAIN w2 PROVE \E x \in 1 .. n - 1 : cl2[x].mac = m
  <2>1. PICK y \in 1 .. n : cl[y].mac = m
    BY <1>1 DEF Seats
  <2>2. y # k
    BY <1>1, <2>1
  <2>3. PICK x \in 1 .. n - 1 : From(k, x) = y
    BY <1>2, <2>2
  <2> QED BY <1>1, <2>1, <2>3
<1> QED BY <1>3, <1>4, <1>5, <1>6 DEF Seats

LEMMA SeatsForget ==
  ASSUME NEW n \in Nat, NEW cl, NEW cl2, NEW w, NEW w2, Seats(n, cl, w),
         \A x \in 1 .. n : cl2[x].mac = cl[x].mac /\ cl2[x].v4 = cl[x].v4 /\ cl2[x].v6 = {},
         DOMAIN w2 = DOMAIN w, \A x \in DOMAIN w : w2[x].v4 = w[x].v4 /\ w2[x].v6 = {}
  PROVE  Seats(n, cl2, w2)
<1>1. \A x \in 1 .. n : cl[x].mac \in DOMAIN w
  BY DEF Seats
<1>2. \A x \in 1 .. n : w2[cl2[x].mac].v4 = cl2[x].v4
  BY <1>1 DEF Seats
<1>3. \A x \in 1 .. n : w2[cl2[x].mac].v6 = cl2[x].v6
  BY <1>1
<1>4. \A x \in 1 .. n : cl2[x].mac \in DOMAIN w2
  BY <1>1
<1>5. \A j, k \in 1 .. n : cl2[j].mac = cl2[k].mac => j = k
  BY DEF Seats
<1>6. \A m \in DOMAIN w2 : \E k \in 1 .. n : cl2[k].mac = m
  BY DEF Seats
<1> QED BY <1>2, <1>3, <1>4, <1>5, <1>6 DEF Seats

---------------------------------------------------------------------------
(* What keeps Rests                                                        *)

LEMMA RestsStore ==
  ASSUME NEW n \in Nat, NEW cl, NEW cl2, NEW flag, NEW flag2, NEW w, NEW w2,
         Seats(n, cl, w), Rests(n, cl, flag, w), NEW k \in 1 .. n,
         cl2[k].mac = cl[k].mac, \A x \in 1 .. n : x # k => cl2[x] = cl[x] /\ flag2[x] = flag[x],
         Announces(w, w2, cl[k].mac), Rest(cl2[k], flag2[k], w2[cl[k].mac])
  PROVE  Rests(n, cl2, flag2, w2)
<1> SUFFICES ASSUME NEW x \in 1 .. n, x # k PROVE Rest(cl2[x], flag2[x], w2[cl2[x].mac])
  BY DEF Rests
<1>1. cl2[x].mac \in DOMAIN w \ {cl[k].mac}
  BY DEF Seats
<1>2. w2[cl2[x].mac] = w[cl[x].mac]
  BY <1>1 DEF Announces
<1>3. Rest(cl[x], flag[x], w[cl[x].mac])
  BY DEF Rests
<1> QED BY <1>2, <1>3

LEMMA RestsAdd ==
  ASSUME NEW n \in Nat, NEW cl, NEW cl2, NEW flag, NEW flag2, NEW w, NEW w2,
         Seats(n, cl, w), Rests(n, cl, flag, w),
         \A x \in 1 .. n : cl2[x] = cl[x] /\ flag2[x] = flag[x],
         cl2[n + 1].mac \notin DOMAIN w, Announces(w, w2, cl2[n + 1].mac),
         Rest(cl2[n + 1], flag2[n + 1], w2[cl2[n + 1].mac])
  PROVE  Rests(n + 1, cl2, flag2, w2)
<1> SUFFICES ASSUME NEW x \in 1 .. n PROVE Rest(cl2[x], flag2[x], w2[cl2[x].mac])
  <2>1. \A x \in 1 .. n + 1 : x \in 1 .. n \/ x = n + 1
    OBVIOUS
  <2> QED BY <2>1 DEF Rests
<1>1. cl2[x].mac \in DOMAIN w \ {cl2[n + 1].mac}
  BY DEF Seats
<1>2. w2[cl2[x].mac] = w[cl[x].mac]
  BY <1>1 DEF Announces
<1>3. Rest(cl[x], flag[x], w[cl[x].mac])
  BY DEF Rests
<1> QED BY <1>2, <1>3

\* The flags stay with the places: it takes that every client is awake.
LEMMA RestsRemove ==
  ASSUME NEW n \in Nat, NEW n2, n2 = n - 1, NEW cl, NEW cl2, NEW flag, NEW w, NEW w2,
         Seats(n, cl, w), Rests(n, cl, flag, w), NEW k \in 1 .. n,
         \A m \in DOMAIN w : w[m].awake,
         Removes(n, k, cl, cl2, w, w2)
  PROVE  Rests(n2, cl2, flag, w2)
<1> SUFFICES ASSUME NEW x \in 1 .. n2 PROVE Rest(cl2[x], flag[x], w2[cl2[x].mac])
  BY DEF Rests
<1> DEFINE y == From(k, x)
<1>1. y \in 1 .. n /\ y # k /\ x \in 1 .. n
  BY FromFacts
<1> HIDE DEF y
<1>2. cl2[x] = cl[y]
  BY DEF Removes, y
<1>3. cl[y].mac \in DOMAIN w2 /\ cl[x].mac \in DOMAIN w /\ w2[cl[y].mac] = w[cl[y].mac]
  BY <1>1 DEF Removes, Seats
<1>4. ~ flag[x] /\ ~ flag[y]
  <2>1. ASSUME NEW z \in 1 .. n PROVE ~ flag[z]
    <3>1. Rest(cl[z], flag[z], w[cl[z].mac]) /\ cl[z].mac \in DOMAIN w
      BY DEF Rests, Seats
    <3> QED BY <3>1 DEF Rest
  <2> QED BY <1>1, <2>1
<1>5. Rest(cl[y], flag[y], w[cl[y].mac])
  BY <1>1 DEF Rests
<1> QED BY <1>2, <1>3, <1>4, <1>5 DEF Rest

LEMMA RestsForget ==
  ASSUME NEW n \in Nat, NEW cl, NEW cl2, NEW flag, NEW w, NEW w2,
         Seats(n, cl, w), Rests(n, cl, flag, w),
         \A x \in 1 .. n : /\ cl2[x].mac = cl[x].mac /\ cl2[x].v4 = cl[x].v4 /\ cl2[x].rt_v4 = cl[x].rt_v4
                           /\ cl2[x].v6 = {} /\ DOMAIN cl2[x].rt_v6 = {},
         \A x \in DOMAIN w : w2[x].awake = w[x].awake
  PROVE  Rests(n, cl2, flag, w2)
<1> SUFFICES ASSUME NEW x \in 1 .. n PROVE Rest(cl2[x], flag[x], w2[cl2[x].mac])
  BY DEF Rests
<1>1. cl[x].mac \in DOMAIN w
  BY DEF Seats
<1>2. Rest(cl[x], flag[x], w[cl[x].mac])
  BY DEF Rests
<1> QED BY <1>1, <1>2 DEF Rest

---------------------------------------------------------------------------
(* What the operations on rules make of a client                           *)

LEMMA RouteV4Client ==
  ASSUME NEW s, s.c \in ClientRec, NEW sleeping \in BOOLEAN
  PROVE  LET d == RouteV4(s, sleeping).c IN
         /\ d.mac = s.c.mac /\ d.hdr_v4 = s.c.hdr_v4 /\ d.hdr_v6 = s.c.hdr_v6
         /\ d.v4 = s.c.v4 /\ d.v6 = s.c.v6 /\ d.rt_v6 = s.c.rt_v6
         /\ sleeping => d.rt_v4 = s.c.rt_v4
         /\ ~ sleeping /\ s.c.v4 # NoAddr => d.rt_v4 # NoHandle
         /\ s.c.v4 = NoAddr => d.rt_v4 = s.c.rt_v4
<1> DEFINE h == Fresh(s.c.v4, DOMAIN s.r)
           c == s.c
           e == [c EXCEPT !.rt_v4 = h]
<1>1. h # NoHandle
  BY NoHandleIsNone DEF Fresh
<1> HIDE DEF h
<1>2. /\ e.mac = c.mac /\ e.hdr_v4 = c.hdr_v4 /\ e.hdr_v6 = c.hdr_v6
      /\ e.v4 = c.v4 /\ e.v6 = c.v6 /\ e.rt_v6 = c.rt_v6 /\ e.rt_v4 = h
  BY DEF ClientRec
<1> HIDE DEF e
<1>3. CASE sleeping \/ s.c.rt_v4 # NoHandle \/ s.c.v4 = NoAddr
  BY <1>3 DEF RouteV4
<1>4. CASE ~ (sleeping \/ s.c.rt_v4 # NoHandle \/ s.c.v4 = NoAddr)
  <2>1. RouteV4(s, sleeping).c = e
    BY <1>4 DEF RouteV4, e, h
  <2> QED BY <1>1, <1>2, <1>4, <2>1
<1> QED BY <1>3, <1>4

LEMMA RouteV6Client ==
  ASSUME NEW s, s.c \in ClientRec, NEW sleeping \in BOOLEAN, DOMAIN s.c.rt_v6 \subseteq s.c.v6
  PROVE  LET d == RouteV6(s, sleeping).c IN
         /\ d.mac = s.c.mac /\ d.hdr_v4 = s.c.hdr_v4 /\ d.hdr_v6 = s.c.hdr_v6
         /\ d.v4 = s.c.v4 /\ d.v6 = s.c.v6 /\ d.rt_v4 = s.c.rt_v4
         /\ DOMAIN d.rt_v6 = IF sleeping THEN DOMAIN s.c.rt_v6 ELSE s.c.v6
<1> DEFINE c == s.c
           new == c.v6 \ DOMAIN c.rt_v6
           hdl == [a \in new |-> Fresh(a, DOMAIN s.r)]
           q == With(c.rt_v6, hdl)
           e == [c EXCEPT !.rt_v6 = With(@, hdl)]
<1>1. DOMAIN q = c.v6
  <2>1. DOMAIN hdl = new
    OBVIOUS
  <2> HIDE DEF hdl
  <2>2. DOMAIN q = DOMAIN c.rt_v6 \cup DOMAIN hdl
    BY WithFacts
  <2> QED BY <2>1, <2>2
<1>2. /\ e.mac = c.mac /\ e.hdr_v4 = c.hdr_v4 /\ e.hdr_v6 = c.hdr_v6
      /\ e.v4 = c.v4 /\ e.v6 = c.v6 /\ e.rt_v4 = c.rt_v4 /\ e.rt_v6 = q
  <2> HIDE DEF hdl
  <2> QED BY DEF ClientRec
<1> HIDE DEF e
<1>3. CASE sleeping \/ s.c.v6 \subseteq DOMAIN s.c.rt_v6
  BY <1>3 DEF RouteV6
<1>4. CASE ~ (sleeping \/ s.c.v6 \subseteq DOMAIN s.c.rt_v6)
  <2>1. RouteV6(s, sleeping).c = e
    BY <1>4 DEF RouteV6, e, hdl, new
  <2> QED BY <1>1, <1>2, <1>4, <2>1
<1> QED BY <1>3, <1>4

---------------------------------------------------------------------------
(* What the steps make of the places                                       *)

\* One place of access point i changes; its client and headers do not.
Changes(i, k) ==
    /\ \A j \in Ifaces : j # i => slot'[j] = slot[j] /\ asleep'[j] = asleep[j]
    /\ \A x \in 1 .. num[i] : x # k => slot'[i][x] = slot[i][x] /\ asleep'[i][x] = asleep[i][x]
    /\ slot'[i][k].mac = slot[i][k].mac
    /\ slot'[i][k].hdr_v4 = slot[i][k].hdr_v4 /\ slot'[i][k].hdr_v6 = slot[i][k].hdr_v6

LEMMA PutEffect ==
  ASSUME TypeInv, ClientsAssumption, NEW i \in Ifaces, NEW k \in 1 .. num[i],
         NEW d, slot' = [slot EXCEPT ![i][k] = d],
         d.mac = slot[i][k].mac, d.hdr_v4 = slot[i][k].hdr_v4, d.hdr_v6 = slot[i][k].hdr_v6,
         NEW b \in BOOLEAN, asleep' = [asleep EXCEPT ![i][k] = b]
  PROVE  Changes(i, k) /\ slot'[i][k] = d /\ asleep'[i][k] = b
<1>1. \A x \in 1 .. num[i] : x \in Places
  BY DEF TypeInv, Places, ClientsAssumption
<1>2. slot'[i][k] = d /\ asleep'[i][k] = b
  BY <1>1 DEF TypeInv
<1>3. \A j \in Ifaces : j # i => slot'[j] = slot[j] /\ asleep'[j] = asleep[j]
  BY DEF TypeInv
<1>4. \A x \in 1 .. num[i] : x # k => slot'[i][x] = slot[i][x] /\ asleep'[i][x] = asleep[i][x]
  BY <1>1 DEF TypeInv
<1> QED BY <1>2, <1>3, <1>4 DEF Changes

LEMMA SameEffect ==
  ASSUME NEW i \in Ifaces, NEW k \in 1 .. num[i], UNCHANGED <<slot, asleep>>
  PROVE  Changes(i, k)
BY DEF Changes

\* asleep itself, as an update of a place that does not change.
LEMMA FlagKept ==
  ASSUME TypeInv, ClientsAssumption, NEW i \in Ifaces, NEW k \in 1 .. num[i]
  PROVE  asleep = [asleep EXCEPT ![i][k] = asleep[i][k]] /\ asleep[i][k] \in BOOLEAN
<1>1. k \in Places
  BY DEF TypeInv, Places, ClientsAssumption
<1> QED BY <1>1 DEF TypeInv

LEMMA SleepEffect ==
  ASSUME IInv, ClientsAssumption, NEW i \in Ifaces, NEW k \in 1 .. num[i], PowerSave(i, k)
  PROVE  LET c == slot[i][k]  d == slot'[i][k] IN
         /\ Changes(i, k)
         /\ d.v4 = c.v4 /\ d.v6 = c.v6 /\ asleep'[i][k] = TRUE
         /\ asleep[i][k] => d = c
         /\ ~ asleep[i][k] => d.rt_v4 = NoHandle /\ DOMAIN d.rt_v6 = {}
<1>1. CASE asleep[i][k]
  <2>1. UNCHANGED <<slot, asleep>>
    BY <1>1 DEF PowerSave
  <2>2. asleep[i][k] = TRUE
    BY <1>1, FlagKept DEF IInv
  <2> QED BY <1>1, <2>1, <2>2, SameEffect
<1>2. CASE ~ asleep[i][k]
  <2> DEFINE s == At(i, k)
             others == DOMAIN routes \ RouteHandles(slot[i][k])
             t == UnrouteV4(s)
             u == UnrouteV6(t)
  <2>1. Keeps(s, routes, others) /\ s.c = slot[i][k]
    BY AtKeeps
  <2>2. Keeps(t, routes, others) /\ t.c.rt_v4 = NoHandle /\ t.c.v6 = s.c.v6 /\ t.c.v4 = s.c.v4
        /\ t.c.hdr_v4 = s.c.hdr_v4 /\ t.c.hdr_v6 = s.c.hdr_v6 /\ t.c.mac = s.c.mac
    <3> HIDE DEF s
    <3> QED BY <2>1, UnrouteV4Keeps
  <2>3. u.c.rt_v6 = NoRoutes /\ u.c.rt_v4 = t.c.rt_v4 /\ u.c.v6 = t.c.v6 /\ u.c.v4 = t.c.v4
        /\ u.c.hdr_v4 = t.c.hdr_v4 /\ u.c.hdr_v6 = t.c.hdr_v6 /\ u.c.mac = t.c.mac
    <3> HIDE DEF t
    <3> QED BY <2>2, UnrouteV6Keeps
  <2>4. Put(i, k, u) /\ asleep' = [asleep EXCEPT ![i][k] = TRUE]
    BY <1>2 DEF PowerSave
  <2> HIDE DEF u, t, s
  <2>5. u.c.mac = slot[i][k].mac /\ u.c.hdr_v4 = slot[i][k].hdr_v4 /\ u.c.hdr_v6 = slot[i][k].hdr_v6
    BY <2>1, <2>2, <2>3
  <2>6. Changes(i, k) /\ slot'[i][k] = u.c /\ asleep'[i][k] = TRUE
    BY ONLY IInv, ClientsAssumption, i \in Ifaces, k \in 1 .. num[i], <2>4, <2>5, PutEffect DEF IInv, Put
  <2> QED BY <1>2, <2>1, <2>2, <2>3, <2>6, NoRoutesFacts
<1> QED BY <1>1, <1>2

LEMMA WakeEffect ==
  ASSUME IInv, ClientsAssumption, NEW i \in Ifaces, NEW k \in 1 .. num[i], Recover(i, k)
  PROVE  LET c == slot[i][k]  d == slot'[i][k] IN
         /\ Changes(i, k)
         /\ d.v4 = c.v4 /\ d.v6 = c.v6 /\ asleep'[i][k] = FALSE
         /\ ~ asleep[i][k] => d = c
         /\ asleep[i][k] => /\ c.v4 # NoAddr => d.rt_v4 # NoHandle
                            /\ c.v4 = NoAddr => d.rt_v4 = c.rt_v4
                            /\ DOMAIN d.rt_v6 = d.v6
<1>1. CASE ~ asleep[i][k]
  <2>1. UNCHANGED <<slot, asleep>>
    BY <1>1 DEF Recover
  <2>2. asleep[i][k] = FALSE
    BY <1>1, FlagKept DEF IInv
  <2> QED BY <1>1, <2>1, <2>2, SameEffect
<1>2. CASE asleep[i][k]
  <2> DEFINE s == At(i, k)
             others == DOMAIN routes \ RouteHandles(slot[i][k])
             t == RouteV4(s, FALSE)
             u == RouteV6(t, FALSE)
  <2>1. Keeps(s, routes, others) /\ s.c = slot[i][k] /\ s.c \in ClientRec
    BY AtKeeps
  <2>2. Keeps(t, routes, others)
    BY <2>1, RouteV4Keeps
  <2>3. /\ t.c.v6 = s.c.v6 /\ t.c.v4 = s.c.v4 /\ t.c.rt_v6 = s.c.rt_v6
        /\ t.c.hdr_v4 = s.c.hdr_v4 /\ t.c.hdr_v6 = s.c.hdr_v6 /\ t.c.mac = s.c.mac
        /\ s.c.v4 # NoAddr => t.c.rt_v4 # NoHandle
        /\ s.c.v4 = NoAddr => t.c.rt_v4 = s.c.rt_v4
    <3> HIDE DEF s
    <3> QED BY <2>1, RouteV4Client
  <2>4. t.c \in ClientRec /\ DOMAIN t.c.rt_v6 \subseteq t.c.v6
    BY <2>2 DEF Keeps
  <2>5. /\ u.c.mac = t.c.mac /\ u.c.hdr_v4 = t.c.hdr_v4 /\ u.c.hdr_v6 = t.c.hdr_v6
        /\ u.c.v4 = t.c.v4 /\ u.c.v6 = t.c.v6 /\ u.c.rt_v4 = t.c.rt_v4 /\ DOMAIN u.c.rt_v6 = t.c.v6
    <3> HIDE DEF t
    <3> QED BY <2>4, RouteV6Client
  <2>6. Put(i, k, u) /\ asleep' = [asleep EXCEPT ![i][k] = FALSE]
    BY <1>2 DEF Recover
  <2> HIDE DEF u, t, s
  <2>7. u.c.mac = slot[i][k].mac /\ u.c.hdr_v4 = slot[i][k].hdr_v4 /\ u.c.hdr_v6 = slot[i][k].hdr_v6
    BY <2>1, <2>3, <2>5
  <2>8. Changes(i, k) /\ slot'[i][k] = u.c /\ asleep'[i][k] = FALSE
    BY ONLY IInv, ClientsAssumption, i \in Ifaces, k \in 1 .. num[i], <2>6, <2>7, PutEffect DEF IInv, Put
  <2> QED BY <1>2, <2>1, <2>3, <2>5, <2>8
<1> QED BY <1>1, <1>2

LEMMA AddressV4Effect ==
  ASSUME IInv, ClientsAssumption, NEW i \in Ifaces, NEW k \in 1 .. num[i], NEW a \in V4Addrs,
         AddressV4(i, k, a), asleep' = asleep, a # slot[i][k].v4
  PROVE  LET c == slot[i][k]  d == slot'[i][k] IN
         /\ Changes(i, k)
         /\ d.v4 = a /\ d.v6 = c.v6 /\ d.rt_v6 = c.rt_v6
         /\ d.rt_v4 # NoHandle <=> ~ asleep[i][k]
<1> DEFINE s == At(i, k)
           others == DOMAIN routes \ RouteHandles(slot[i][k])
           was == IF s.c.v4 = NoAddr THEN s ELSE UnrouteV4(s)
           now == [was EXCEPT !.c.v4 = a]
           u == RouteV4(now, asleep[i][k])
<1>1. Keeps(s, routes, others) /\ s.c = slot[i][k] /\ s.c \in ClientRec
  BY AtKeeps
<1>2. /\ Keeps(was, routes, others) /\ was.c.rt_v4 = NoHandle
      /\ was.c.v6 = s.c.v6 /\ was.c.rt_v6 = s.c.rt_v6
      /\ was.c.hdr_v4 = s.c.hdr_v4 /\ was.c.hdr_v6 = s.c.hdr_v6 /\ was.c.mac = s.c.mac
  <2>1. CASE s.c.v4 = NoAddr
    BY <2>1, <1>1 DEF Keeps
  <2>2. CASE s.c.v4 # NoAddr
    BY <2>2, <1>1, UnrouteV4Keeps
  <2> QED BY <2>1, <2>2
<1>3. was = [c |-> was.c, r |-> was.r]
  BY DEF At, UnrouteV4
<1>4. Put(i, k, u)
  BY <1>1 DEF AddressV4
<1> HIDE DEF was, s
<1>5. now.c = [was.c EXCEPT !.v4 = a]
  BY <1>3
<1>6. was.c \in ClientRec
  BY <1>2 DEF Keeps
<1> HIDE DEF now
<1>7. /\ now.c \in ClientRec /\ now.c.v4 = a /\ now.c.rt_v4 = NoHandle
      /\ now.c.v6 = was.c.v6 /\ now.c.rt_v6 = was.c.rt_v6
      /\ now.c.hdr_v4 = was.c.hdr_v4 /\ now.c.hdr_v6 = was.c.hdr_v6 /\ now.c.mac = was.c.mac
  BY <1>2, <1>5, <1>6 DEF ClientRec
<1>8. asleep[i][k] \in BOOLEAN /\ asleep' = [asleep EXCEPT ![i][k] = asleep[i][k]]
  BY FlagKept DEF IInv
<1>9. a # NoAddr
  BY DEF ClientsAssumption
<1>10. /\ u.c.v4 = a /\ u.c.v6 = now.c.v6 /\ u.c.rt_v6 = now.c.rt_v6
       /\ u.c.hdr_v4 = now.c.hdr_v4 /\ u.c.hdr_v6 = now.c.hdr_v6 /\ u.c.mac = now.c.mac
       /\ u.c.rt_v4 # NoHandle <=> ~ asleep[i][k]
  BY <1>7, <1>8, <1>9, RouteV4Client
<1> HIDE DEF u
<1>11. u.c.mac = slot[i][k].mac /\ u.c.hdr_v4 = slot[i][k].hdr_v4 /\ u.c.hdr_v6 = slot[i][k].hdr_v6
  BY <1>1, <1>2, <1>7, <1>10
<1>12. Changes(i, k) /\ slot'[i][k] = u.c
  BY ONLY IInv, ClientsAssumption, i \in Ifaces, k \in 1 .. num[i], <1>4, <1>8, <1>11, PutEffect DEF IInv, Put
<1> QED BY <1>1, <1>2, <1>7, <1>10, <1>12

LEMMA AddressV6Effect ==
  ASSUME IInv, ClientsAssumption, NEW i \in Ifaces, NEW k \in 1 .. num[i], NEW a \in V6Addrs,
         AddressV6(i, k, a), asleep' = asleep, a \notin slot[i][k].v6
  PROVE  LET c == slot[i][k]  d == slot'[i][k] IN
         /\ Changes(i, k)
         /\ Cardinality(c.v6) >= V6Num => d = c
         /\ ~ (Cardinality(c.v6) >= V6Num) =>
              /\ d.v4 = c.v4 /\ d.v6 = c.v6 \cup {a} /\ d.rt_v4 = c.rt_v4
              /\ DOMAIN d.rt_v6 = IF asleep[i][k] THEN DOMAIN c.rt_v6 ELSE d.v6
<1> DEFINE s == At(i, k)
           others == DOMAIN routes \ RouteHandles(slot[i][k])
           now == [s EXCEPT !.c.v6 = @ \cup {a}]
           u == RouteV6(now, asleep[i][k])
<1>1. Keeps(s, routes, others) /\ s.c = slot[i][k] /\ s.c \in ClientRec
  BY AtKeeps
<1>2. CASE Cardinality(slot[i][k].v6) >= V6Num
  <2>1. UNCHANGED <<slot, asleep>>
    BY <1>1, <1>2 DEF AddressV6
  <2> QED BY <1>2, <2>1, SameEffect
<1>3. CASE ~ (Cardinality(slot[i][k].v6) >= V6Num)
  <2>1. Put(i, k, u)
    BY <1>1, <1>3 DEF AddressV6
  <2>2. now.c = [s.c EXCEPT !.v6 = @ \cup {a}]
    BY DEF At
  <2> HIDE DEF now, s
  <2>3. /\ now.c \in ClientRec /\ now.c.v6 = s.c.v6 \cup {a} /\ now.c.rt_v4 = s.c.rt_v4
        /\ now.c.v4 = s.c.v4 /\ now.c.rt_v6 = s.c.rt_v6
        /\ now.c.hdr_v4 = s.c.hdr_v4 /\ now.c.hdr_v6 = s.c.hdr_v6 /\ now.c.mac = s.c.mac
    BY <1>1, <2>2 DEF ClientRec
  <2>4. DOMAIN now.c.rt_v6 \subseteq now.c.v6
    BY <1>1, <2>3 DEF Keeps
  <2>5. asleep[i][k] \in BOOLEAN /\ asleep' = [asleep EXCEPT ![i][k] = asleep[i][k]]
    BY FlagKept DEF IInv
  <2>6. /\ u.c.mac = now.c.mac /\ u.c.hdr_v4 = now.c.hdr_v4 /\ u.c.hdr_v6 = now.c.hdr_v6
        /\ u.c.v4 = now.c.v4 /\ u.c.v6 = now.c.v6 /\ u.c.rt_v4 = now.c.rt_v4
        /\ DOMAIN u.c.rt_v6 = IF asleep[i][k] THEN DOMAIN now.c.rt_v6 ELSE now.c.v6
    BY <2>3, <2>4, <2>5, RouteV6Client
  <2> HIDE DEF u
  <2>7. u.c.mac = slot[i][k].mac /\ u.c.hdr_v4 = slot[i][k].hdr_v4 /\ u.c.hdr_v6 = slot[i][k].hdr_v6
    BY <1>1, <2>3, <2>6
  <2>8. Changes(i, k) /\ slot'[i][k] = u.c
    BY ONLY IInv, ClientsAssumption, i \in Ifaces, k \in 1 .. num[i], <2>1, <2>5, <2>7, PutEffect DEF IInv, Put
  <2> QED BY <1>1, <1>3, <2>3, <2>6, <2>8
<1> QED BY <1>2, <1>3

---------------------------------------------------------------------------
(* The world, and the invariant                                            *)

WorldRec == [awake : BOOLEAN, v4 : V4Addrs \cup {NoAddr}, v6 : SUBSET V6Addrs]
WorldType == world \in [Ifaces -> UNION {[D -> WorldRec] : D \in SUBSET Macs}]

Associated == UNION {{<<i, m>> : m \in Known(i)} : i \in Ifaces}

SeatsInv == \A i \in Ifaces : Seats(num[i], slot[i], world[i])
RestsInv == \A i \in Ifaces : Rests(num[i], slot[i], asleep[i], world[i])
TotalInv == IsFiniteSet(Associated) /\ total = Cardinality(Associated)

LEMMA RewriteFacts ==
  ASSUME WorldType, NEW i \in Ifaces, NEW m \in Macs, NEW c \in WorldRec, Rewrite(i, m, c)
  PROVE  /\ WorldType'
         /\ Announces(world[i], world'[i], m) /\ world'[i][m] = c
         /\ \A j \in Ifaces : j # i => world'[j] = world[j]
<1> DEFINE w == Give(world[i], {m}, c)
<1>1. DOMAIN w = DOMAIN world[i] \cup {m} /\ w[m] = c /\ \A x \in DOMAIN world[i] \ {m} : w[x] = world[i][x]
  <2> DEFINE new == [h \in {m} |-> c]
  <2>1. w = With(world[i], new)
    BY DEF Give
  <2>2. DOMAIN new = {m} /\ new[m] = c
    OBVIOUS
  <2> HIDE DEF w, new
  <2>3. /\ DOMAIN w = DOMAIN world[i] \cup DOMAIN new
        /\ \A h \in DOMAIN new : w[h] = new[h]
        /\ \A h \in DOMAIN world[i] \ DOMAIN new : w[h] = world[i][h]
    <3>1. \A r, s : /\ DOMAIN With(r, s) = DOMAIN r \cup DOMAIN s
                    /\ \A h \in DOMAIN s : With(r, s)[h] = s[h]
                    /\ \A h \in DOMAIN r \ DOMAIN s : With(r, s)[h] = r[h]
      BY DEF With
    <3> QED BY <2>1, <3>1
  <2> QED BY <2>2, <2>3
<1>2. w \in [DOMAIN world[i] \cup {m} -> WorldRec] /\ DOMAIN world[i] \cup {m} \in SUBSET Macs
  <2>1. w = [x \in DOMAIN world[i] \cup {m} |-> w[x]]
    BY DEF Give, With
  <2>2. \A x \in DOMAIN world[i] : world[i][x] \in WorldRec /\ x \in Macs
    BY DEF WorldType
  <2> HIDE DEF w
  <2> QED BY <1>1, <2>1, <2>2
<1>3. world' = [world EXCEPT ![i] = w]
  BY DEF Rewrite
<1> HIDE DEF w
<1>4. WorldType'
  BY <1>2, <1>3 DEF WorldType
<1>5. world'[i] = w /\ \A j \in Ifaces : j # i => world'[j] = world[j]
  BY <1>3 DEF WorldType
<1> QED BY <1>1, <1>4, <1>5 DEF Announces

LEMMA AssociatedFacts ==
  \A p : p \in Associated <=> \E i \in Ifaces : \E m \in Known(i) : p = <<i, m>>
BY DEF Associated

LEMMA AssociatedKept ==
  ASSUME \A i \in Ifaces : DOMAIN world'[i] = DOMAIN world[i]
  PROVE  Associated' = Associated
BY DEF Associated, Known

\* A client that is known has a place, and is found there.
LEMMA KnownHasPlace ==
  ASSUME TypeInv, ClientsAssumption, SeatsInv, NEW i \in Ifaces, NEW m \in Known(i)
  PROVE  /\ IndexOf(i, m) \in 1 .. num[i] /\ IndexOf(i, m) # 0
         /\ slot[i][IndexOf(i, m)].mac = m
<1> DEFINE hits == {k \in 1 .. num[i] : slot[i][k].mac = m}
<1>1. hits # {}
  BY DEF SeatsInv, Seats, Known
<1>2. hits \subseteq Nat
  BY DEF TypeInv
<1>3. \E k \in hits : \A j \in hits : k <= j
  BY <1>1, <1>2, LeastNumber
<1>4. IndexOf(i, m) = CHOOSE k \in hits : \A j \in hits : k <= j
  BY <1>1 DEF IndexOf
<1>5. IndexOf(i, m) \in hits
  BY <1>3, <1>4
<1>6. 0 \notin 1 .. num[i]
  BY DEF TypeInv
<1> QED BY <1>5, <1>6

\* A handler that changes the place of a client of which the driver or the
\* kernel announced something.
LEMMA StoredKeeps ==
  ASSUME TypeInv, WorldType, SeatsInv, NEW i \in Ifaces, NEW m \in Macs, NEW k \in 1 .. num[i],
         slot[i][k].mac = m, Changes(i, k), num' = num,
         NEW c \in WorldRec, Rewrite(i, m, c), c.v4 = slot'[i][k].v4, c.v6 = slot'[i][k].v6
  PROVE  /\ SeatsInv' /\ Associated' = Associated
         /\ RestsInv /\ Rest(slot'[i][k], asleep'[i][k], c) => RestsInv'
<1>1. /\ Announces(world[i], world'[i], m) /\ world'[i][m] = c
      /\ \A j \in Ifaces : j # i => world'[j] = world[j]
  BY RewriteFacts
<1>2. num[i] \in Nat /\ Seats(num[i], slot[i], world[i])
  BY DEF TypeInv, SeatsInv
<1>3. slot'[i][k].mac = slot[i][k].mac
      /\ \A x \in 1 .. num[i] : x # k => slot'[i][x] = slot[i][x] /\ asleep'[i][x] = asleep[i][x]
  BY DEF Changes
<1>4. Seats(num[i], slot'[i], world'[i])
  BY <1>1, <1>2, <1>3, SeatsStore
<1>5. \A j \in Ifaces : j # i => slot'[j] = slot[j] /\ asleep'[j] = asleep[j] /\ world'[j] = world[j]
  BY <1>1 DEF Changes
<1>6. SeatsInv'
  BY <1>4, <1>5 DEF SeatsInv
<1>7. Associated' = Associated
  <2>1. DOMAIN world'[i] = DOMAIN world[i]
    BY <1>1, <1>2 DEF Announces, Seats
  <2> QED BY <1>5, <2>1, AssociatedKept
<1>8. ASSUME RestsInv, Rest(slot'[i][k], asleep'[i][k], c) PROVE RestsInv'
  <2>1. Rests(num[i], slot[i], asleep[i], world[i])
    BY <1>8 DEF RestsInv
  <2>2. Rest(slot'[i][k], asleep'[i][k], world'[i][slot[i][k].mac])
    BY <1>1, <1>8
  <2>3. Rests(num[i], slot'[i], asleep'[i], world'[i])
    BY <1>1, <1>2, <1>3, <2>1, <2>2, RestsStore
  <2> QED BY <1>5, <1>8, <2>3 DEF RestsInv
<1> QED BY <1>6, <1>7, <1>8

---------------------------------------------------------------------------
(* The steps                                                               *)

Carried ==
    /\ SeatsInv' /\ TotalInv'
    /\ RestsInv /\ "restless" \notin env => RestsInv'

\* A record of the world with one field changed.
LEMMA WorldRecFacts ==
  ASSUME NEW c \in WorldRec
  PROVE  /\ \A b \in BOOLEAN : LET d == [c EXCEPT !.awake = b] IN
              d \in WorldRec /\ d.awake = b /\ d.v4 = c.v4 /\ d.v6 = c.v6
         /\ \A a \in V4Addrs : LET d == [c EXCEPT !.v4 = a] IN
              d \in WorldRec /\ d.awake = c.awake /\ d.v4 = a /\ d.v6 = c.v6
         /\ \A a \in V6Addrs : LET d == [c EXCEPT !.v6 = @ \cup {a}] IN
              d \in WorldRec /\ d.awake = c.awake /\ d.v4 = c.v4 /\ d.v6 = c.v6 \cup {a}
<1>1. c = [awake |-> c.awake, v4 |-> c.v4, v6 |-> c.v6]
      /\ c.awake \in BOOLEAN /\ c.v4 \in V4Addrs \cup {NoAddr} /\ c.v6 \in SUBSET V6Addrs
  BY DEF WorldRec
<1>2. ASSUME NEW b \in BOOLEAN PROVE LET d == [c EXCEPT !.awake = b] IN
              d \in WorldRec /\ d.awake = b /\ d.v4 = c.v4 /\ d.v6 = c.v6
  BY DEF WorldRec
<1>3. ASSUME NEW a \in V4Addrs PROVE LET d == [c EXCEPT !.v4 = a] IN
              d \in WorldRec /\ d.awake = c.awake /\ d.v4 = a /\ d.v6 = c.v6
  BY DEF WorldRec
<1>4. ASSUME NEW a \in V6Addrs PROVE LET d == [c EXCEPT !.v6 = @ \cup {a}] IN
              d \in WorldRec /\ d.awake = c.awake /\ d.v4 = c.v4 /\ d.v6 = c.v6 \cup {a}
  BY <1>1 DEF WorldRec
<1> QED BY <1>2, <1>3, <1>4

\* The place of a known client, and what is known of it there.
LEMMA PlaceFacts ==
  ASSUME TypeInv, WorldType, SeatsInv, NEW i \in Ifaces, NEW k \in 1 .. num[i]
  PROVE  LET w == world[i][slot[i][k].mac] IN
         /\ w \in WorldRec /\ slot[i][k].mac \in Known(i)
         /\ w.v4 = slot[i][k].v4 /\ w.v6 = slot[i][k].v6
         /\ RestsInv => Rest(slot[i][k], asleep[i][k], w)
<1>1. slot[i][k].mac \in Known(i)
  BY DEF SeatsInv, Seats, Known
<1>2. world[i][slot[i][k].mac] \in WorldRec
  BY <1>1 DEF WorldType, Known
<1> QED BY <1>1, <1>2 DEF SeatsInv, Seats, RestsInv, Rests

LEMMA SleepWorld ==
  ASSUME IInv, WorldType, ClientsAssumption, SeatsInv, TotalInv,
         NEW i \in Ifaces, NEW m \in Macs, Sleep(i, m)
  PROVE  Carried
<1> DEFINE k == IndexOf(i, m)
           c == [world[i][m] EXCEPT !.awake = FALSE]
<1>1. k \in 1 .. num[i] /\ slot[i][k].mac = m /\ PowerSave(i, k)
  BY KnownHasPlace DEF Sleep, IInv
<1>2. num' = num /\ total' = total /\ Rewrite(i, m, c)
  BY DEF Sleep
<1> HIDE DEF k
<1>3. /\ world[i][m] \in WorldRec /\ world[i][m].v4 = slot[i][k].v4 /\ world[i][m].v6 = slot[i][k].v6
      /\ RestsInv => Rest(slot[i][k], asleep[i][k], world[i][m])
  BY <1>1, PlaceFacts DEF IInv
<1>4. c \in WorldRec /\ c.awake = FALSE /\ c.v4 = world[i][m].v4 /\ c.v6 = world[i][m].v6
  BY <1>3, WorldRecFacts
<1> HIDE DEF c
<1>5. /\ Changes(i, k)
      /\ slot'[i][k].v4 = slot[i][k].v4 /\ slot'[i][k].v6 = slot[i][k].v6 /\ asleep'[i][k] = TRUE
      /\ asleep[i][k] => slot'[i][k] = slot[i][k]
      /\ ~ asleep[i][k] => slot'[i][k].rt_v4 = NoHandle /\ DOMAIN slot'[i][k].rt_v6 = {}
  BY <1>1, SleepEffect
<1>6. RestsInv => Rest(slot'[i][k], asleep'[i][k], c)
  BY <1>3, <1>4, <1>5 DEF Rest
<1>7. SeatsInv' /\ Associated' = Associated /\ (RestsInv => RestsInv')
  BY <1>1, <1>2, <1>3, <1>4, <1>5, <1>6, StoredKeeps DEF IInv
<1> QED BY <1>2, <1>7 DEF Carried, TotalInv

LEMMA WakeWorld ==
  ASSUME IInv, WorldType, ClientsAssumption, SeatsInv, TotalInv,
         NEW i \in Ifaces, NEW m \in Macs, Wake(i, m)
  PROVE  Carried
<1> DEFINE k == IndexOf(i, m)
           c == [world[i][m] EXCEPT !.awake = TRUE]
<1>1. k \in 1 .. num[i] /\ slot[i][k].mac = m /\ Recover(i, k)
  BY KnownHasPlace DEF Wake, IInv
<1>2. num' = num /\ total' = total /\ Rewrite(i, m, c)
  BY DEF Wake
<1> HIDE DEF k
<1>3. /\ world[i][m] \in WorldRec /\ world[i][m].v4 = slot[i][k].v4 /\ world[i][m].v6 = slot[i][k].v6
      /\ RestsInv => Rest(slot[i][k], asleep[i][k], world[i][m])
  BY <1>1, PlaceFacts DEF IInv
<1>4. c \in WorldRec /\ c.awake = TRUE /\ c.v4 = world[i][m].v4 /\ c.v6 = world[i][m].v6
  BY <1>3, WorldRecFacts
<1> HIDE DEF c
<1>5. /\ Changes(i, k)
      /\ slot'[i][k].v4 = slot[i][k].v4 /\ slot'[i][k].v6 = slot[i][k].v6 /\ asleep'[i][k] = FALSE
      /\ ~ asleep[i][k] => slot'[i][k] = slot[i][k]
      /\ asleep[i][k] => /\ slot[i][k].v4 # NoAddr => slot'[i][k].rt_v4 # NoHandle
                         /\ slot[i][k].v4 = NoAddr => slot'[i][k].rt_v4 = slot[i][k].rt_v4
                         /\ DOMAIN slot'[i][k].rt_v6 = slot'[i][k].v6
  BY <1>1, WakeEffect
<1>6. RestsInv => Rest(slot'[i][k], asleep'[i][k], c)
  BY <1>3, <1>4, <1>5 DEF Rest
<1>7. SeatsInv' /\ Associated' = Associated /\ (RestsInv => RestsInv')
  BY <1>1, <1>2, <1>3, <1>4, <1>5, <1>6, StoredKeeps DEF IInv
<1> QED BY <1>2, <1>7 DEF Carried, TotalInv

LEMMA AddressWorld ==
  ASSUME IInv, WorldType, ClientsAssumption, SeatsInv, TotalInv,
         NEW i \in Ifaces, NEW m \in Macs, NEW a \in V4Addrs \cup V6Addrs, Address(i, m, a)
  PROVE  Carried
<1> DEFINE k == IndexOf(i, m)
           w == world[i][m]
<1>1. m \in Known(i) /\ a \notin Taken /\ num' = num /\ total' = total /\ asleep' = asleep
  BY DEF Address
<1>2. k \in 1 .. num[i] /\ slot[i][k].mac = m /\ k # 0
  BY <1>1, KnownHasPlace DEF IInv
<1>3. /\ w \in WorldRec /\ w.v4 = slot[i][k].v4 /\ w.v6 = slot[i][k].v6
      /\ RestsInv => Rest(slot[i][k], asleep[i][k], w)
  <2> HIDE DEF k
  <2> QED BY <1>2, PlaceFacts DEF IInv
<1>4. a # w.v4 /\ a \notin w.v6
  BY <1>1 DEF Taken
<1>5. \/ a \in V4Addrs /\ AddressV4(i, k, a) /\ Rewrite(i, m, [w EXCEPT !.v4 = a])
      \/ /\ a \in V6Addrs /\ AddressV6(i, k, a)
         /\ Rewrite(i, m, IF Cardinality(w.v6) < V6Num THEN [w EXCEPT !.v6 = @ \cup {a}] ELSE w)
  BY <1>2 DEF Address
<1> HIDE DEF k, w
<1>6. SUFFICES SeatsInv' /\ Associated' = Associated /\ (RestsInv => RestsInv')
  BY <1>1 DEF Carried, TotalInv
<1>7. CASE a \in V4Addrs /\ AddressV4(i, k, a) /\ Rewrite(i, m, [w EXCEPT !.v4 = a])
  <2> DEFINE c == [w EXCEPT !.v4 = a]
  <2>1. c \in WorldRec /\ c.awake = w.awake /\ c.v4 = a /\ c.v6 = w.v6 /\ Rewrite(i, m, c)
    BY <1>3, <1>7, WorldRecFacts
  <2> HIDE DEF c
  <2>2. /\ Changes(i, k) /\ slot'[i][k].v4 = a /\ slot'[i][k].v6 = slot[i][k].v6
        /\ slot'[i][k].rt_v6 = slot[i][k].rt_v6 /\ (slot'[i][k].rt_v4 # NoHandle <=> ~ asleep[i][k])
    BY <1>1, <1>2, <1>3, <1>4, <1>7, AddressV4Effect
  <2>3. a # NoAddr
    BY <1>7 DEF ClientsAssumption
  <2>4. RestsInv => Rest(slot'[i][k], asleep'[i][k], c)
    BY <1>1, <1>3, <2>1, <2>2, <2>3 DEF Rest
  <2> QED BY <1>1, <1>2, <1>3, <2>1, <2>2, <2>4, StoredKeeps DEF IInv
<1>8. CASE /\ a \in V6Addrs /\ AddressV6(i, k, a)
           /\ Rewrite(i, m, IF Cardinality(w.v6) < V6Num THEN [w EXCEPT !.v6 = @ \cup {a}] ELSE w)
  <2> DEFINE full == Cardinality(slot[i][k].v6) >= V6Num
             c == IF full THEN w ELSE [w EXCEPT !.v6 = @ \cup {a}]
  <2>1. Cardinality(slot[i][k].v6) \in Nat /\ V6Num \in Nat
    <3>1. slot[i][k].v6 \in SUBSET V6Addrs
      BY <1>3 DEF WorldRec
    <3> QED BY <3>1, FS_Subset, FS_CardinalityType DEF ClientsAssumption
  <2>2. Rewrite(i, m, c)
    BY <1>3, <1>8, <2>1
  <2>3. c \in WorldRec /\ c.awake = w.awake /\ c.v4 = w.v4 /\ c.v6 = IF full THEN w.v6 ELSE w.v6 \cup {a}
    BY <1>3, <1>8, WorldRecFacts
  <2>4. /\ Changes(i, k)
        /\ full => slot'[i][k] = slot[i][k]
        /\ ~ full => /\ slot'[i][k].v4 = slot[i][k].v4 /\ slot'[i][k].v6 = slot[i][k].v6 \cup {a}
                     /\ slot'[i][k].rt_v4 = slot[i][k].rt_v4
                     /\ DOMAIN slot'[i][k].rt_v6 = IF asleep[i][k] THEN DOMAIN slot[i][k].rt_v6 ELSE slot'[i][k].v6
    BY <1>1, <1>2, <1>3, <1>4, <1>8, AddressV6Effect
  <2> HIDE DEF c, full
  <2>5. RestsInv => Rest(slot'[i][k], asleep'[i][k], c)
    BY <1>1, <1>3, <2>3, <2>4 DEF Rest
  <2> QED BY <1>1, <1>2, <1>3, <2>2, <2>3, <2>4, <2>5, StoredKeeps DEF IInv
<1> QED BY <1>5, <1>7, <1>8

\* The place and the headers a new client gets, or none: the array is full,
\* or the IPA refused the second header and the first stays.
AddHandles(m) == {Fresh(<<m, "v4">>, DOMAIN headers), Fresh(<<m, "v6">>, DOMAIN headers)}

NotAdded(m, refused) ==
    /\ UNCHANGED <<num, slot, asleep, total>>
    /\ \/ headers' = headers
       \/ refused /\ headers' = Give(headers, {Fresh(<<m, "v4">>, DOMAIN headers)}, m)

Added(i, m) ==
    LET n == num[i] + 1
        d == slot'[i][n] IN
    /\ num'[i] = n /\ num' # num /\ total' = total + 1
    /\ \A j \in Ifaces : j # i => num'[j] = num[j] /\ slot'[j] = slot[j] /\ asleep'[j] = asleep[j]
    /\ \A x \in 1 .. num[i] : slot'[i][x] = slot[i][x] /\ asleep'[i][x] = asleep[i][x]
    /\ d.mac = m /\ d.v4 = NoAddr /\ d.v6 = {} /\ d.rt_v4 = NoHandle /\ DOMAIN d.rt_v6 = {}
    /\ {d.hdr_v4, d.hdr_v6} = AddHandles(m)
    /\ asleep'[i][n] = FALSE
    /\ headers' = Give(headers, AddHandles(m), m)

LEMMA AddEffect ==
  ASSUME TypeInv, ClientsAssumption, NEW i \in up, NEW m \in Macs, NEW refused, ClientAdd(i, m, refused)
  PROVE  NotAdded(m, refused) \/ Added(i, m)
<1> DEFINE n == num[i] + 1
           h4 == Fresh(<<m, "v4">>, DOMAIN headers)
           h6 == Fresh(<<m, "v6">>, DOMAIN headers)
           new == [Empty EXCEPT !.mac = m, !.hdr_v4 = h4, !.hdr_v6 = h6]
<1>1. CASE num[i] >= MaxClients \/ total >= MaxClients
  BY <1>1 DEF ClientAdd, NotAdded, hw
<1>2. CASE ~ (num[i] >= MaxClients \/ total >= MaxClients) /\ refused
  BY <1>2 DEF ClientAdd, NotAdded
<1>3. CASE ~ (num[i] >= MaxClients \/ total >= MaxClients) /\ ~ refused
  <2>1. num[i] < MaxClients
    BY <1>3 DEF TypeInv, ClientsAssumption
  <2>2. i \in Ifaces /\ num[i] \in Nat /\ n \in Places /\ \A x \in 1 .. num[i] : x \in Places /\ x # n
    BY <2>1 DEF TypeInv, Places, ClientsAssumption
  <2>3. /\ num' = [num EXCEPT ![i] = n] /\ total' = total + 1
        /\ slot' = [slot EXCEPT ![i][n] = new] /\ asleep' = [asleep EXCEPT ![i][n] = FALSE]
        /\ headers' = Give(headers, AddHandles(m), m)
    BY <1>3 DEF ClientAdd, AddHandles
  <2>4. /\ new.mac = m /\ new.v4 = NoAddr /\ new.v6 = {} /\ new.rt_v4 = NoHandle /\ DOMAIN new.rt_v6 = {}
        /\ {new.hdr_v4, new.hdr_v6} = AddHandles(m)
    BY NoRoutesFacts DEF Empty, AddHandles
  <2> HIDE DEF new
  <2>5. num'[i] = n /\ num' # num
    BY <2>2, <2>3 DEF TypeInv
  <2>6. slot'[i][n] = new /\ asleep'[i][n] = FALSE
        /\ \A x \in 1 .. num[i] : slot'[i][x] = slot[i][x] /\ asleep'[i][x] = asleep[i][x]
    BY <2>2, <2>3 DEF TypeInv
  <2>7. \A j \in Ifaces : j # i => num'[j] = num[j] /\ slot'[j] = slot[j] /\ asleep'[j] = asleep[j]
    BY <2>3 DEF TypeInv
  <2> QED BY <2>3, <2>4, <2>5, <2>6, <2>7 DEF Added
<1> QED BY <1>1, <1>2, <1>3

LEMMA JoinWorld ==
  ASSUME IInv, WorldType, ClientsAssumption, SeatsInv, TotalInv, "rejoin" \notin env,
         NEW i \in Ifaces, NEW m \in Macs, Join(i, m)
  PROVE  Carried
<1> DEFINE n == num[i] + 1
           c == [awake |-> TRUE, v4 |-> NoAddr, v6 |-> {}]
<1>1. i \in up /\ m \notin Known(i) /\ TypeInv
  BY DEF Join, IInv
<1>2. PICK refused : ClientAdd(i, m, refused)
  BY DEF Join
<1>3. CASE NotAdded(m, refused)
  <2>1. world' = world
    BY <1>3 DEF Join, NotAdded
  <2>2. Associated' = Associated
    BY <2>1, AssociatedKept
  <2> QED BY <1>3, <2>1, <2>2 DEF Carried, SeatsInv, RestsInv, TotalInv, NotAdded
<1>4. CASE Added(i, m)
  <2>1. c \in WorldRec /\ c.awake = TRUE /\ c.v4 = NoAddr /\ c.v6 = {}
    BY DEF WorldRec
  <2>2. /\ num'[i] = n /\ num' # num /\ total' = total + 1
        /\ \A j \in Ifaces : j # i => num'[j] = num[j] /\ slot'[j] = slot[j] /\ asleep'[j] = asleep[j]
        /\ \A x \in 1 .. num[i] : slot'[i][x] = slot[i][x] /\ asleep'[i][x] = asleep[i][x]
    BY <1>4 DEF Added
  <2>3. Rewrite(i, m, c)
    BY <2>2 DEF Join
  <2> HIDE DEF c
  <2>4. /\ Announces(world[i], world'[i], m) /\ world'[i][m] = c
        /\ \A j \in Ifaces : j # i => world'[j] = world[j]
    BY <2>1, <2>3, RewriteFacts
  <2>5. num[i] \in Nat /\ Seats(num[i], slot[i], world[i]) /\ m \notin DOMAIN world[i]
    BY <1>1 DEF TypeInv, SeatsInv, Known
  <2>6. /\ slot'[i][num[i] + 1].mac = m /\ asleep'[i][num[i] + 1] = FALSE
        /\ slot'[i][num[i] + 1].v4 = NoAddr /\ slot'[i][num[i] + 1].v6 = {}
        /\ slot'[i][num[i] + 1].rt_v4 = NoHandle /\ DOMAIN slot'[i][num[i] + 1].rt_v6 = {}
    BY <1>4 DEF Added
  <2>7. Seats(num[i] + 1, slot'[i], world'[i])
    BY <2>2, <2>1, <2>4, <2>5, <2>6, SeatsAdd
  <2>8. SeatsInv'
    BY <2>2, <2>4, <2>7 DEF SeatsInv
  <2>9. ASSUME RestsInv PROVE RestsInv'
    <3>1. Rest(slot'[i][num[i] + 1], asleep'[i][num[i] + 1], world'[i][slot'[i][num[i] + 1].mac])
      BY <2>1, <2>4, <2>6 DEF Rest
    <3>2. Rests(num[i], slot[i], asleep[i], world[i])
      BY <2>9 DEF RestsInv
    <3>3. Rests(num[i] + 1, slot'[i], asleep'[i], world'[i])
      BY <2>2, <2>4, <2>5, <2>6, <3>1, <3>2, RestsAdd
    <3> QED BY <2>2, <2>4, <2>9, <3>3 DEF RestsInv
  <2>10. Associated' = Associated \cup {<<i, m>>} /\ <<i, m>> \notin Associated
    <3>1. \A p : p \in Associated' <=> \E j \in Ifaces : \E x \in DOMAIN world'[j] : p = <<j, x>>
      BY DEF Associated, Known
    <3>2. \A p : p \in Associated <=> \E j \in Ifaces : \E x \in DOMAIN world[j] : p = <<j, x>>
      BY DEF Associated, Known
    <3>3. <<i, m>> \notin Associated
      BY <2>5, <3>2
    <3>4. \A p : p \in Associated' <=> p \in Associated \/ p = <<i, m>>
      BY <2>4, <3>1, <3>2 DEF Announces
    <3> QED BY <3>3, <3>4
  <2>11. TotalInv'
    BY <2>2, <2>10, FS_AddElement DEF TotalInv
  <2> QED BY <2>8, <2>9, <2>11 DEF Carried
<1> HIDE DEF c
<1> QED BY <1>1, <1>2, <1>3, <1>4, AddEffect

LEMMA DelEffect ==
  ASSUME TypeInv, ClientsAssumption, NEW i \in Ifaces, NEW k \in 1 .. num[i], ClientDel(i, k)
  PROVE  /\ num'[i] = num[i] - 1
         /\ \A j \in Ifaces : j # i => num'[j] = num[j] /\ slot'[j] = slot[j]
         /\ \A x \in 1 .. num'[i] : slot'[i][x] = slot[i][From(k, x)]
<1>1. num[i] \in Nat /\ num[i] <= MaxClients /\ slot[i] \in [Places -> ClientRec]
  BY DEF TypeInv, ClientsAssumption
<1>2. num'[i] = num[i] - 1 /\ \A j \in Ifaces : j # i => num'[j] = num[j] /\ slot'[j] = slot[j]
  BY DEF ClientDel, TypeInv
<1>3. slot'[i] = MovedDown(i, k)
  BY DEF ClientDel, TypeInv
<1>4. ASSUME NEW x \in 1 .. num[i] - 1 PROVE MovedDown(i, k)[x] = slot[i][From(k, x)]
  <2>1. x \in Places /\ x # num[i]
    BY <1>1 DEF Places, ClientsAssumption
  <2>2. CASE x < k
    BY <2>1, <2>2 DEF MovedDown, From
  <2>3. CASE ~ (x < k)
    <3>1. x \in k .. (num[i] - 1)
      BY <1>1, <2>3
    <3> QED BY <2>1, <2>3, <3>1 DEF MovedDown, From
  <2> QED BY <2>2, <2>3
<1> QED BY <1>2, <1>3, <1>4

LEMMA LeaveWorld ==
  ASSUME IInv, WorldType, ClientsAssumption, SeatsInv, TotalInv,
         NEW i \in Ifaces, NEW m \in Macs, Leave(i, m)
  PROVE  Carried
<1> DEFINE k == IndexOf(i, m)
<1>1. m \in Known(i) /\ TypeInv /\ num[i] \in Nat
  BY DEF Leave, IInv, TypeInv
<1>2. k \in 1 .. num[i] /\ slot[i][k].mac = m /\ ClientDel(i, k)
  BY <1>1, KnownHasPlace DEF Leave
<1>3. world' = [world EXCEPT ![i] = [x \in Known(i) \ {m} |-> world[i][x]]]
  BY DEF Leave
<1> HIDE DEF k
<1>4. /\ DOMAIN world'[i] = DOMAIN world[i] \ {m} /\ \A x \in DOMAIN world'[i] : world'[i][x] = world[i][x]
      /\ \A j \in Ifaces : j # i => world'[j] = world[j]
  BY <1>3 DEF WorldType, Known
<1>5. /\ num'[i] = num[i] - 1
      /\ \A j \in Ifaces : j # i => num'[j] = num[j] /\ slot'[j] = slot[j]
      /\ \A x \in 1 .. num'[i] : slot'[i][x] = slot[i][From(k, x)]
  BY <1>1, <1>2, DelEffect
<1>6. asleep' = asleep /\ total' = total - 1
  BY <1>2 DEF ClientDel
<1>7. Seats(num[i], slot[i], world[i])
  BY DEF SeatsInv
<1>8. Removes(num[i], k, slot[i], slot'[i], world[i], world'[i])
  BY <1>2, <1>4, <1>5 DEF Removes
<1>9. num[i] \in Nat /\ k \in 1 .. num[i] /\ num'[i] = num[i] - 1
  BY <1>1, <1>2, <1>5
<1>10. Seats(num'[i], slot'[i], world'[i])
  BY <1>7, <1>8, <1>9, SeatsRemove
<1>11. SeatsInv'
  BY <1>4, <1>5, <1>10 DEF SeatsInv
<1>12. ASSUME RestsInv, "restless" \notin env PROVE RestsInv'
  <2>1. \A x \in DOMAIN world[i] : world[i][x].awake
    BY <1>12 DEF Leave, Known
  <2>2. Rests(num[i], slot[i], asleep[i], world[i])
    BY <1>12 DEF RestsInv
  <2>3. Rests(num'[i], slot'[i], asleep[i], world'[i])
    BY <1>7, <1>8, <1>9, <2>1, <2>2, RestsRemove
  <2> QED BY <1>4, <1>5, <1>6, <1>12, <2>3 DEF RestsInv
<1>13. Associated' = Associated \ {<<i, m>>} /\ <<i, m>> \in Associated
  <2>1. \A p : p \in Associated' <=> \E j \in Ifaces : \E x \in DOMAIN world'[j] : p = <<j, x>>
    BY DEF Associated, Known
  <2>2. \A p : p \in Associated <=> \E j \in Ifaces : \E x \in DOMAIN world[j] : p = <<j, x>>
    BY DEF Associated, Known
  <2>3. <<i, m>> \in Associated
    BY <1>1, <2>2 DEF Known
  <2>4. \A p : p \in Associated' <=> p \in Associated /\ p # <<i, m>>
    BY <1>4, <2>1, <2>2
  <2> QED BY <2>3, <2>4
<1>14. TotalInv'
  BY <1>6, <1>13, FS_RemoveElement, FS_CardinalityType DEF TotalInv
<1> QED BY <1>11, <1>12, <1>14 DEF Carried

LEMMA LinkUpWorld ==
  ASSUME IInv, SeatsInv, TotalInv, NEW i \in Ifaces, LinkUp(i)
  PROVE  Carried
<1>1. num[i] = 0 /\ num' = num /\ world' = world /\ total' = total /\ TypeInv
  BY DEF LinkUp, IInv, TypeInv, hw
<1>2. \A j \in Ifaces : j # i => slot'[j] = slot[j] /\ asleep'[j] = asleep[j]
  BY <1>1 DEF LinkUp, TypeInv
<1>3. Seats(0, slot[i], world[i])
  BY <1>1 DEF SeatsInv
<1>4. Seats(num'[i], slot'[i], world'[i]) /\ Rests(num'[i], slot'[i], asleep'[i], world'[i])
  BY <1>1, <1>3 DEF Seats, Rests
<1>5. SeatsInv' /\ (RestsInv => RestsInv')
  BY <1>1, <1>2, <1>4 DEF SeatsInv, RestsInv
<1>6. Associated' = Associated
  BY <1>1, AssociatedKept
<1> QED BY <1>1, <1>5, <1>6 DEF Carried, TotalInv

\* As many clients are known of an access point as it has places.
LEMMA KnownCount ==
  ASSUME NEW i, NEW n \in Nat, NEW cl, NEW w, Seats(n, cl, w)
  PROVE  LET D == {<<i, m>> : m \in DOMAIN w} IN IsFiniteSet(D) /\ Cardinality(D) = n
<1> DEFINE D == {<<i, m>> : m \in DOMAIN w}
           f == [k \in 1 .. n |-> <<i, cl[k].mac>>]
<1>1. f \in Bijection(1 .. n, D)
  <2>1. \A k \in 1 .. n : f[k] \in D
    BY DEF Seats
  <2>2. \A j, k \in 1 .. n : f[j] = f[k] => j = k
    BY DEF Seats
  <2>3. ASSUME NEW p \in D PROVE \E k \in 1 .. n : f[k] = p
    <3>1. PICK m \in DOMAIN w : p = <<i, m>>
      OBVIOUS
    <3>2. PICK k \in 1 .. n : cl[k].mac = m
      BY DEF Seats
    <3> QED BY <3>1, <3>2
  <2>4. f \in [1 .. n -> D]
    BY <2>1
  <2> HIDE DEF f, D
  <2> QED BY <2>2, <2>3, <2>4 DEF Bijection, Injection, IsInjective, Surjection
<1>2. IsFiniteSet(1 .. n) /\ Cardinality(1 .. n) = n
  BY FS_Interval
<1>3. ExistsBijection(1 .. n, D)
  <2> HIDE DEF f, D
  <2> QED BY <1>1 DEF ExistsBijection
<1> HIDE DEF D
<1>4. IsFiniteSet(D) /\ Cardinality(D) = n
  BY <1>2, <1>3, FS_Bijection
<1> QED BY <1>4 DEF D

LEMMA LinkDownWorld ==
  ASSUME IInv, WorldType, SeatsInv, TotalInv, NEW i \in Ifaces, LinkDown(i)
  PROVE  Carried
<1> DEFINE D == {<<i, m>> : m \in DOMAIN world[i]}
<1>1. TypeInv /\ asleep' = asleep /\ total' = total - num[i] /\ num[i] \in Nat
  BY DEF LinkDown, HandleDown, IInv, TypeInv
<1>2. num'[i] = 0 /\ \A j \in Ifaces : j # i => num'[j] = num[j] /\ slot'[j] = slot[j]
  BY <1>1 DEF LinkDown, HandleDown, TypeInv
<1>3. DOMAIN world'[i] = {} /\ \A j \in Ifaces : j # i => world'[j] = world[j]
  <2>1. world' = [world EXCEPT ![i] = [m \in {} |-> NoAddr]]
    BY DEF LinkDown, HandleDown
  <2> QED BY <2>1 DEF WorldType
<1>4. Seats(num'[i], slot'[i], world'[i]) /\ Rests(num'[i], slot'[i], asleep'[i], world'[i])
  BY <1>2, <1>3 DEF Seats, Rests
<1>5. SeatsInv' /\ (RestsInv => RestsInv')
  BY <1>1, <1>2, <1>3, <1>4 DEF SeatsInv, RestsInv
<1>6. Associated' = Associated \ D /\ D \in SUBSET Associated
  <2>1. \A p : p \in Associated' <=> \E j \in Ifaces : \E x \in DOMAIN world'[j] : p = <<j, x>>
    BY DEF Associated, Known
  <2>2. \A p : p \in Associated <=> \E j \in Ifaces : \E x \in DOMAIN world[j] : p = <<j, x>>
    BY DEF Associated, Known
  <2>3. \A p : p \in Associated' <=> p \in Associated /\ p \notin D
    BY <1>3, <2>1, <2>2
  <2>4. \A p \in D : p \in Associated
    BY <2>2
  <2> HIDE DEF D
  <2> QED BY <2>3, <2>4
<1>7. IsFiniteSet(D) /\ Cardinality(D) = num[i]
  <2>1. Seats(num[i], slot[i], world[i]) /\ num[i] \in Nat
    BY <1>1 DEF SeatsInv
  <2> QED BY <2>1, KnownCount
<1>8. IsFiniteSet(Associated') /\ Cardinality(Associated') = Cardinality(Associated) - num[i]
  <2> HIDE DEF D
  <2>1. Associated \cap D = D
    BY <1>6
  <2> QED BY <1>6, <1>7, <2>1, FS_Difference DEF TotalInv
<1>9. TotalInv'
  BY <1>1, <1>8 DEF TotalInv
<1> QED BY <1>5, <1>9 DEF Carried

LEMMA PrefixGoneWorld ==
  ASSUME IInv, WorldType, ClientsAssumption, SeatsInv, TotalInv, NEW i \in Ifaces, PrefixGone(i)
  PROVE  Carried
<1>1. TypeInv /\ num' = num /\ asleep' = asleep /\ total' = total /\ num[i] \in Nat
  BY DEF PrefixGone, IInv, TypeInv
<1>2. slot' = [slot EXCEPT ![i] = [k \in Places |-> IF k <= num[i] THEN ForgottenV6(slot[i][k]) ELSE slot[i][k]]]
  BY DEF PrefixGone, ResetRtV6
<1>3. ASSUME NEW x \in 1 .. num[i] PROVE slot'[i][x] = ForgottenV6(slot[i][x]) /\ slot[i][x] \in ClientRec
  <2>1. x \in Places /\ x <= num[i]
    BY <1>1 DEF TypeInv, Places, ClientsAssumption
  <2> QED BY <1>1, <1>2, <2>1 DEF TypeInv
<1>4. ASSUME NEW x \in 1 .. num[i]
      PROVE  LET c == slot[i][x]  d == slot'[i][x] IN
             /\ d.mac = c.mac /\ d.v4 = c.v4 /\ d.rt_v4 = c.rt_v4 /\ d.v6 = {} /\ DOMAIN d.rt_v6 = {}
  <2> DEFINE c == slot[i][x]
             d == [c EXCEPT !.rt_v6 = NoRoutes, !.v6 = {}]
  <2>1. c \in ClientRec /\ slot'[i][x] = d
    BY <1>3 DEF ForgottenV6
  <2>2. d.mac = c.mac /\ d.v4 = c.v4 /\ d.rt_v4 = c.rt_v4 /\ d.v6 = {} /\ d.rt_v6 = NoRoutes
    <3> HIDE DEF c
    <3> QED BY <2>1 DEF ClientRec
  <2> HIDE DEF d
  <2> QED BY <2>1, <2>2, NoRoutesFacts
<1>5. world' = [world EXCEPT ![i] = [m \in Known(i) |-> [world[i][m] EXCEPT !.v6 = {}]]]
  BY DEF PrefixGone
<1>6. /\ DOMAIN world'[i] = DOMAIN world[i]
      /\ \A x \in DOMAIN world[i] : /\ world'[i][x].awake = world[i][x].awake
                                    /\ world'[i][x].v4 = world[i][x].v4 /\ world'[i][x].v6 = {}
  <2>1. world'[i] = [m \in DOMAIN world[i] |-> [world[i][m] EXCEPT !.v6 = {}]]
    BY <1>5 DEF WorldType, Known
  <2>2. \A x \in DOMAIN world[i] : world[i][x] \in WorldRec
    BY DEF WorldType
  <2> QED BY <2>1, <2>2 DEF WorldRec
<1>7. \A j \in Ifaces : j # i => slot'[j] = slot[j] /\ world'[j] = world[j]
  BY <1>1, <1>2, <1>5 DEF TypeInv, WorldType
<1>8. Seats(num[i], slot[i], world[i])
  BY DEF SeatsInv
<1>9. Seats(num[i], slot'[i], world'[i])
  BY <1>1, <1>4, <1>6, <1>8, SeatsForget
<1>10. SeatsInv'
  BY <1>1, <1>7, <1>9 DEF SeatsInv
<1>11. ASSUME RestsInv PROVE RestsInv'
  <2>1. Rests(num[i], slot[i], asleep[i], world[i])
    BY <1>11 DEF RestsInv
  <2>2. Rests(num[i], slot'[i], asleep[i], world'[i])
    BY <1>1, <1>4, <1>6, <1>8, <2>1, RestsForget
  <2> QED BY <1>1, <1>7, <1>11, <2>2 DEF RestsInv
<1>12. Associated' = Associated
  <2>1. \A j \in Ifaces : DOMAIN world'[j] = DOMAIN world[j]
    BY <1>6, <1>7
  <2> QED BY <2>1, AssociatedKept
<1> QED BY <1>1, <1>10, <1>11, <1>12 DEF Carried, TotalInv

---------------------------------------------------------------------------
(* The headers: in every environment each client's exist, lead to it and   *)
(* are its own; there is no other unless the IPA refuses one.              *)

Heads(c) == {c.hdr_v4, c.hdr_v6}

HeadersInv ==
    /\ NoHandle \notin DOMAIN headers
    /\ \A i \in Ifaces : \A k \in 1 .. num[i] : \A h \in Heads(slot[i][k]) :
          h \in DOMAIN headers /\ headers[h] = slot[i][k].mac
    /\ \A i, j \in Ifaces : \A k \in 1 .. num[i] : \A l \in 1 .. num[j] :
          (\E h \in Heads(slot[i][k]) : h \in Heads(slot[j][l])) => i = j /\ k = l

NoOrphan == \A h \in DOMAIN headers : \E i \in Ifaces : \E k \in 1 .. num[i] : h \in Heads(slot[i][k])

HeadersCarried == HeadersInv' /\ (NoOrphan /\ "refuse" \notin env => NoOrphan')

\* No client is added, removed or given another header.
LEMMA HeadersKept ==
  ASSUME HeadersInv, headers' = headers, num' = num,
         \A i \in Ifaces : \A k \in 1 .. num[i] :
             Heads(slot'[i][k]) = Heads(slot[i][k]) /\ slot'[i][k].mac = slot[i][k].mac
  PROVE  HeadersCarried
<1>1. HeadersInv'
  BY DEF HeadersInv
<1>2. NoOrphan => NoOrphan'
  BY DEF NoOrphan
<1> QED BY <1>1, <1>2 DEF HeadersCarried

LEMMA ChangesHeaders ==
  ASSUME HeadersInv, headers' = headers, num' = num, NEW i \in Ifaces, NEW k \in 1 .. num[i], Changes(i, k)
  PROVE  HeadersCarried
<1>1. ASSUME NEW j \in Ifaces, NEW x \in 1 .. num[j]
      PROVE  Heads(slot'[j][x]) = Heads(slot[j][x]) /\ slot'[j][x].mac = slot[j][x].mac
  <2>1. CASE j = i /\ x = k
    BY <2>1 DEF Changes, Heads
  <2>2. CASE j = i /\ x # k
    BY <2>2 DEF Changes
  <2>3. CASE j # i
    BY <2>3 DEF Changes
  <2> QED BY <2>1, <2>2, <2>3
<1> QED BY <1>1, HeadersKept

\* Clients leave, and take the headers hs along.  Each place, after that, has
\* the client of one before, which "at" names.
Survivors(hs, at) ==
    /\ headers' = Without(headers, hs)
    /\ \A j \in Ifaces : \A x \in 1 .. num'[j] :
          /\ at[<<j, x>>] \in 1 .. num[j] /\ slot'[j][x] = slot[j][at[<<j, x>>]]
          /\ Heads(slot'[j][x]) \cap hs = {}
    /\ \A j \in Ifaces : \A x, y \in 1 .. num'[j] : at[<<j, x>>] = at[<<j, y>>] => x = y
    /\ \A j \in Ifaces : \A y \in 1 .. num[j] :
          Heads(slot[j][y]) \subseteq hs \/ \E x \in 1 .. num'[j] : at[<<j, x>>] = y

LEMMA HeadersTaken ==
  ASSUME HeadersInv, NEW hs, NEW at, Survivors(hs, at)
  PROVE  HeadersCarried
<1>1. DOMAIN headers' = DOMAIN headers \ hs /\ \A h \in DOMAIN headers \ hs : headers'[h] = headers[h]
  BY DEF Survivors, Without
<1>2. ASSUME NEW j \in Ifaces, NEW x \in 1 .. num'[j], NEW h \in Heads(slot'[j][x])
      PROVE  h \in DOMAIN headers' /\ headers'[h] = slot'[j][x].mac
  <2>1. at[<<j, x>>] \in 1 .. num[j] /\ slot'[j][x] = slot[j][at[<<j, x>>]] /\ h \notin hs
    BY DEF Survivors
  <2>2. h \in DOMAIN headers /\ headers[h] = slot[j][at[<<j, x>>]].mac
    BY <2>1 DEF HeadersInv
  <2> QED BY <1>1, <2>1, <2>2
<1>3. ASSUME NEW i \in Ifaces, NEW j \in Ifaces, NEW k \in 1 .. num'[i], NEW l \in 1 .. num'[j],
             NEW h \in Heads(slot'[i][k]), h \in Heads(slot'[j][l])
      PROVE  i = j /\ k = l
  <2>1. /\ at[<<i, k>>] \in 1 .. num[i] /\ slot'[i][k] = slot[i][at[<<i, k>>]]
        /\ at[<<j, l>>] \in 1 .. num[j] /\ slot'[j][l] = slot[j][at[<<j, l>>]]
    BY DEF Survivors
  <2>2. \E g \in Heads(slot[i][at[<<i, k>>]]) : g \in Heads(slot[j][at[<<j, l>>]])
    BY <1>3, <2>1
  <2>3. i = j /\ at[<<i, k>>] = at[<<j, l>>]
    BY <2>1, <2>2 DEF HeadersInv
  <2> QED BY <2>3 DEF Survivors
<1>4. ASSUME NoOrphan, NEW h \in DOMAIN headers'
      PROVE  \E j \in Ifaces : \E x \in 1 .. num'[j] : h \in Heads(slot'[j][x])
  <2>1. h \in DOMAIN headers /\ h \notin hs
    BY <1>1
  <2>2. PICK j \in Ifaces : \E y \in 1 .. num[j] : h \in Heads(slot[j][y])
    BY <1>4, <2>1 DEF NoOrphan
  <2>3. PICK y \in 1 .. num[j] : h \in Heads(slot[j][y])
    BY <2>2
  <2>4. PICK x \in 1 .. num'[j] : at[<<j, x>>] = y
    BY <2>1, <2>3 DEF Survivors
  <2>5. slot'[j][x] = slot[j][y]
    BY <2>4 DEF Survivors
  <2> QED BY <2>3, <2>5
<1>5. HeadersInv'
  BY <1>1, <1>2, <1>3 DEF HeadersInv
<1>6. NoOrphan => NoOrphan'
  BY <1>4 DEF NoOrphan
<1> QED BY <1>5, <1>6 DEF HeadersCarried

LEMMA LeaveHeaders ==
  ASSUME TypeInv, ClientsAssumption, HeadersInv, NEW i \in Ifaces, NEW k \in 1 .. num[i], ClientDel(i, k)
  PROVE  HeadersCarried
<1> DEFINE hs == HeaderHandles(slot[i][k])
           at == [p \in Ifaces \X Nat |-> IF p[1] = i THEN From(k, p[2]) ELSE p[2]]
<1>1. headers' = Without(headers, hs)
  BY DEF ClientDel
<1>2. /\ num'[i] = num[i] - 1
      /\ \A j \in Ifaces : j # i => num'[j] = num[j] /\ slot'[j] = slot[j]
      /\ \A x \in 1 .. num'[i] : slot'[i][x] = slot[i][From(k, x)]
  BY DelEffect
<1>3. \A j \in Ifaces : num[j] \in Nat
  BY DEF TypeInv
<1>4. hs = Heads(slot[i][k])
  BY DEF HeadersInv, Heads, HeaderHandles
<1>5. /\ \A x \in 1 .. num[i] - 1 : From(k, x) \in 1 .. num[i] /\ From(k, x) # k
      /\ \A x, y \in 1 .. num[i] - 1 : From(k, x) = From(k, y) => x = y
      /\ \A y \in 1 .. num[i] : y # k => \E x \in 1 .. num[i] - 1 : From(k, x) = y
  BY <1>3, FromFacts
<1>6. \A j \in Ifaces : \A x \in 1 .. num'[j] : at[<<j, x>>] = IF j = i THEN From(k, x) ELSE x
  BY <1>2, <1>3
<1> HIDE DEF at, hs
<1>7. ASSUME NEW j \in Ifaces, NEW x \in 1 .. num'[j]
      PROVE  /\ at[<<j, x>>] \in 1 .. num[j] /\ slot'[j][x] = slot[j][at[<<j, x>>]]
             /\ Heads(slot'[j][x]) \cap hs = {}
  <2>1. /\ at[<<j, x>>] \in 1 .. num[j] /\ slot'[j][x] = slot[j][at[<<j, x>>]]
        /\ j # i \/ at[<<j, x>>] # k
    <3>1. CASE j = i
      BY <1>2, <1>5, <1>6, <3>1
    <3>2. CASE j # i
      BY <1>2, <1>6, <3>2
    <3> QED BY <3>1, <3>2
  <2>2. ~ \E h \in Heads(slot[j][at[<<j, x>>]]) : h \in Heads(slot[i][k])
    BY <2>1 DEF HeadersInv
  <2> QED BY <1>4, <2>1, <2>2
<1>8. \A j \in Ifaces : \A x, y \in 1 .. num'[j] : at[<<j, x>>] = at[<<j, y>>] => x = y
  BY <1>2, <1>5, <1>6
<1>9. ASSUME NEW j \in Ifaces, NEW y \in 1 .. num[j]
      PROVE  Heads(slot[j][y]) \subseteq hs \/ \E x \in 1 .. num'[j] : at[<<j, x>>] = y
  <2>1. CASE j = i /\ y = k
    BY <1>4, <2>1
  <2>2. CASE j = i /\ y # k
    BY <1>2, <1>5, <1>6, <2>2
  <2>3. CASE j # i
    BY <1>2, <1>6, <2>3
  <2> QED BY <2>1, <2>2, <2>3
<1>10. Survivors(hs, at)
  BY <1>1, <1>7, <1>8, <1>9 DEF Survivors
<1> QED BY <1>10, HeadersTaken

LEMMA LinkDownHeaders ==
  ASSUME TypeInv, HeadersInv, NEW i \in Ifaces, LinkDown(i)
  PROVE  HeadersCarried
<1> DEFINE hs == UNION {HeaderHandles(slot[i][k]) : k \in 1 .. num[i]}
           at == [p \in Ifaces \X Nat |-> p[2]]
<1>1. headers' = Without(headers, hs)
  BY DEF LinkDown, HandleDown
<1>2. num'[i] = 0 /\ \A j \in Ifaces : num[j] \in Nat /\ (j # i => num'[j] = num[j] /\ slot'[j] = slot[j])
  BY DEF LinkDown, HandleDown, TypeInv
<1>3. \A k \in 1 .. num[i] : HeaderHandles(slot[i][k]) = Heads(slot[i][k])
  BY DEF HeadersInv, Heads, HeaderHandles
<1>4. \A h : h \in hs <=> \E k \in 1 .. num[i] : h \in Heads(slot[i][k])
  BY <1>3
<1>5. \A j \in Ifaces : \A x \in 1 .. num'[j] : at[<<j, x>>] = x /\ j # i
  BY <1>2
<1> HIDE DEF at, hs
<1>6. ASSUME NEW j \in Ifaces, NEW x \in 1 .. num'[j]
      PROVE  /\ at[<<j, x>>] \in 1 .. num[j] /\ slot'[j][x] = slot[j][at[<<j, x>>]]
             /\ Heads(slot'[j][x]) \cap hs = {}
  <2>1. j # i /\ at[<<j, x>>] = x /\ slot'[j][x] = slot[j][x] /\ x \in 1 .. num[j]
    BY <1>2, <1>5
  <2>2. \A k \in 1 .. num[i] : ~ \E h \in Heads(slot[j][x]) : h \in Heads(slot[i][k])
    BY <2>1 DEF HeadersInv
  <2> QED BY <1>4, <2>1, <2>2
<1>7. \A j \in Ifaces : \A x, y \in 1 .. num'[j] : at[<<j, x>>] = at[<<j, y>>] => x = y
  BY <1>5
<1>8. ASSUME NEW j \in Ifaces, NEW y \in 1 .. num[j]
      PROVE  Heads(slot[j][y]) \subseteq hs \/ \E x \in 1 .. num'[j] : at[<<j, x>>] = y
  <2>1. CASE j = i
    BY <1>4, <2>1
  <2>2. CASE j # i
    BY <1>2, <1>5, <2>2
  <2> QED BY <2>1, <2>2
<1>9. Survivors(hs, at)
  BY <1>1, <1>6, <1>7, <1>8 DEF Survivors
<1> QED BY <1>9, HeadersTaken

LEMMA LinkUpHeaders ==
  ASSUME TypeInv, HeadersInv, NEW i \in Ifaces, LinkUp(i)
  PROVE  HeadersCarried
<1>1. num' = num /\ headers' = headers /\ num[i] = 0 /\ \A j \in Ifaces : j # i => slot'[j] = slot[j]
  BY DEF LinkUp, TypeInv, hw
<1>2. ASSUME NEW j \in Ifaces, NEW k \in 1 .. num[j]
      PROVE  Heads(slot'[j][k]) = Heads(slot[j][k]) /\ slot'[j][k].mac = slot[j][k].mac
  BY <1>1
<1> QED BY <1>1, <1>2, HeadersKept

LEMMA PrefixGoneHeaders ==
  ASSUME TypeInv, ClientsAssumption, HeadersInv, NEW i \in Ifaces, PrefixGone(i)
  PROVE  HeadersCarried
<1>1. num' = num /\ headers' = headers
      /\ slot' = [slot EXCEPT ![i] = [k \in Places |-> IF k <= num[i] THEN ForgottenV6(slot[i][k]) ELSE slot[i][k]]]
  BY DEF PrefixGone, ResetRtV6
<1>2. ASSUME NEW c \in ClientRec PROVE Heads(ForgottenV6(c)) = Heads(c) /\ ForgottenV6(c).mac = c.mac
  BY DEF ForgottenV6, ClientRec, Heads
<1>3. ASSUME NEW j \in Ifaces, NEW k \in 1 .. num[j]
      PROVE  Heads(slot'[j][k]) = Heads(slot[j][k]) /\ slot'[j][k].mac = slot[j][k].mac
  <2>1. k \in Places /\ slot[j][k] \in ClientRec
    BY DEF TypeInv, Places, ClientsAssumption
  <2>2. slot'[j][k] = ForgottenV6(slot[j][k]) \/ slot'[j][k] = slot[j][k]
    BY <1>1, <2>1 DEF TypeInv
  <2> QED BY <1>2, <2>1, <2>2
<1> QED BY <1>1, <1>3, HeadersKept

LEMMA JoinHeaders ==
  ASSUME TypeInv, ClientsAssumption, HeadersInv, NEW i \in Ifaces, NEW m \in Macs, Join(i, m)
  PROVE  HeadersCarried
<1> DEFINE h4 == Fresh(<<m, "v4">>, DOMAIN headers)
           h6 == Fresh(<<m, "v6">>, DOMAIN headers)
           n == num[i] + 1
<1>1. h4 \notin DOMAIN headers /\ h4 # NoHandle
  <2>1. h4 \notin DOMAIN headers
    BY FreshIsNew DEF TypeInv
  <2>2. h4 # NoHandle
    BY NoHandleIsNone DEF Fresh
  <2> QED BY <2>1, <2>2
<1>2. h6 \notin DOMAIN headers /\ h6 # NoHandle
  <2>1. h6 \notin DOMAIN headers
    BY FreshIsNew DEF TypeInv
  <2>2. h6 # NoHandle
    BY NoHandleIsNone DEF Fresh
  <2> QED BY <2>1, <2>2
<1> HIDE DEF h4, h6
<1>3. i \in up
  BY DEF Join
<1>4. PICK refused : ClientAdd(i, m, refused) /\ (refused => "refuse" \in env)
  BY DEF Join
<1>5. CASE NotAdded(m, refused)
  <2>1. num' = num /\ slot' = slot
    BY <1>5 DEF NotAdded
  <2>2. CASE headers' = headers
    BY <2>1, <2>2, HeadersKept
  <2>3. CASE refused /\ headers' = Give(headers, {h4}, m)
    <3>1. DOMAIN headers' = DOMAIN headers \cup {h4} /\ \A h \in DOMAIN headers : headers'[h] = headers[h]
      BY <1>1, <2>3, WithFacts DEF Give
    <3>2. HeadersInv'
      BY <1>1, <2>1, <3>1 DEF HeadersInv
    <3> QED BY <1>4, <2>3, <3>2 DEF HeadersCarried
  <2> QED BY <1>5, <2>2, <2>3 DEF NotAdded, h4
<1>6. CASE Added(i, m)
  <2>1. /\ num'[i] = n /\ \A j \in Ifaces : j # i => num'[j] = num[j] /\ slot'[j] = slot[j]
        /\ \A x \in 1 .. num[i] : slot'[i][x] = slot[i][x]
        /\ slot'[i][n].mac = m /\ Heads(slot'[i][n]) = {h4, h6}
        /\ headers' = Give(headers, {h4, h6}, m) /\ num[i] \in Nat
    <3>1. AddHandles(m) = {h4, h6}
      BY DEF AddHandles, h4, h6
    <3>2. num[i] \in Nat
      BY DEF TypeInv
    <3> QED BY <1>6, <3>1, <3>2 DEF Added, Heads
  <2>2. /\ DOMAIN headers' = DOMAIN headers \cup {h4, h6} /\ headers'[h4] = m /\ headers'[h6] = m
        /\ \A h \in DOMAIN headers : headers'[h] = headers[h]
    BY <1>1, <1>2, <2>1 DEF Give, With
  <2>3. ASSUME NEW j \in Ifaces, NEW x \in 1 .. num'[j]
        PROVE  \/ j = i /\ x = n
               \/ x \in 1 .. num[j] /\ slot'[j][x] = slot[j][x] /\ ~ (j = i /\ x = n)
    <3>1. CASE j = i
      BY <2>1, <3>1
    <3>2. CASE j # i
      BY <2>1, <3>2
    <3> QED BY <3>1, <3>2
  <2>4. ASSUME NEW j \in Ifaces, NEW x \in 1 .. num[j]
        PROVE  x \in 1 .. num'[j] /\ slot'[j][x] = slot[j][x] /\ ~ (j = i /\ x = n)
               /\ Heads(slot[j][x]) \cap {h4, h6} = {}
    BY <1>1, <1>2, <2>1 DEF HeadersInv
  <2>5. ASSUME NEW j \in Ifaces, NEW x \in 1 .. num'[j], NEW h \in Heads(slot'[j][x])
        PROVE  h \in DOMAIN headers' /\ headers'[h] = slot'[j][x].mac
    <3>1. CASE j = i /\ x = n
      <4>1. h \in {h4, h6} /\ slot'[j][x].mac = m
        BY <2>1, <2>5, <3>1
      <4> QED BY <2>2, <4>1
    <3>2. CASE ~ (j = i /\ x = n)
      <4>1. x \in 1 .. num[j] /\ slot'[j][x] = slot[j][x] /\ h \in Heads(slot[j][x])
        BY <2>3, <2>5, <3>2
      <4>2. h \in DOMAIN headers /\ headers[h] = slot[j][x].mac
        BY <4>1 DEF HeadersInv
      <4> QED BY <2>2, <4>1, <4>2
    <3> QED BY <3>1, <3>2
  <2>6. ASSUME NEW j \in Ifaces, NEW l \in Ifaces, NEW x \in 1 .. num'[j], NEW y \in 1 .. num'[l],
               NEW h \in Heads(slot'[j][x]), h \in Heads(slot'[l][y])
        PROVE  j = l /\ x = y
    <3>1. CASE j = i /\ x = n
      BY <2>1, <2>3, <2>4, <2>6, <3>1
    <3>2. CASE l = i /\ y = n
      BY <2>1, <2>3, <2>4, <2>6, <3>2
    <3>3. CASE ~ (j = i /\ x = n) /\ ~ (l = i /\ y = n)
      <4>1. \E g \in Heads(slot[j][x]) : g \in Heads(slot[l][y])
        BY <2>3, <2>6, <3>3
      <4> QED BY <2>3, <3>3, <4>1 DEF HeadersInv
    <3> QED BY <3>1, <3>2, <3>3
  <2>7. ASSUME NoOrphan, NEW h \in DOMAIN headers'
        PROVE  \E j \in Ifaces : \E x \in 1 .. num'[j] : h \in Heads(slot'[j][x])
    <3>1. CASE h \in {h4, h6}
      <4>1. n \in 1 .. num'[i]
        BY <2>1
      <4> QED BY <2>1, <3>1, <4>1
    <3>2. CASE h \in DOMAIN headers
      <4>1. PICK j \in Ifaces : \E x \in 1 .. num[j] : h \in Heads(slot[j][x])
        BY <2>7, <3>2 DEF NoOrphan
      <4>2. PICK x \in 1 .. num[j] : h \in Heads(slot[j][x])
        BY <4>1
      <4> QED BY <2>4, <4>2
    <3> QED BY <2>2, <3>1, <3>2
  <2>8. NoHandle \notin DOMAIN headers'
    BY <1>1, <1>2, <2>2 DEF HeadersInv
  <2>9. HeadersInv'
    BY <2>5, <2>6, <2>8 DEF HeadersInv
  <2>10. NoOrphan => NoOrphan'
    BY <2>7 DEF NoOrphan
  <2> QED BY <2>9, <2>10 DEF HeadersCarried
<1> QED BY <1>3, <1>4, <1>5, <1>6, AddEffect

---------------------------------------------------------------------------
(* The invariant                                                           *)

WInv ==
    /\ IInv /\ WorldType /\ HeadersInv
    /\ "refuse" \notin env => NoOrphan
    /\ "rejoin" \notin env => SeatsInv /\ TotalInv
    /\ "rejoin" \notin env /\ "restless" \notin env => RestsInv

LEMMA WInvInit ==
  ASSUME Init, ClientsAssumption
  PROVE  WInv
<1>1. IInv
  BY IInvInit
<1>2. WorldType /\ \A i \in Ifaces : DOMAIN world[i] = {} /\ num[i] = 0
  <2> DEFINE none == [m \in {} |-> NoAddr]
  <2>1. none \in [{} -> WorldRec] /\ {} \in SUBSET Macs /\ DOMAIN none = {}
    OBVIOUS
  <2>2. world = [i \in Ifaces |-> none] /\ num = [i \in Ifaces |-> 0]
    BY DEF Init
  <2> HIDE DEF none
  <2>3. \E D \in SUBSET Macs : none \in [D -> WorldRec]
    <3> WITNESS {} \in SUBSET Macs
    <3> QED BY <2>1
  <2>4. none \in UNION {[D -> WorldRec] : D \in SUBSET Macs}
    BY <2>3
  <2> QED BY <2>1, <2>2, <2>4 DEF WorldType
<1>3. HeadersInv /\ NoOrphan
  BY <1>2 DEF Init, HeadersInv, NoOrphan
<1>4. SeatsInv /\ RestsInv
  BY <1>2 DEF SeatsInv, Seats, RestsInv, Rests
<1>5. TotalInv
  <2>1. Associated = {}
    BY <1>2 DEF Associated, Known
  <2> QED BY <2>1, FS_EmptySet DEF Init, TotalInv
<1> QED BY <1>1, <1>2, <1>3, <1>4, <1>5 DEF WInv

LEMMA WorldTypeNext ==
  ASSUME WorldType, [Next]_vars
  PROVE  WorldType'
<1>1. ASSUME NEW i \in Ifaces, NEW D \in SUBSET Macs, NEW w \in [D -> WorldRec], world' = [world EXCEPT ![i] = w]
      PROVE  WorldType'
  BY <1>1 DEF WorldType
<1>2. ASSUME NEW i \in Ifaces, NEW m \in Known(i) PROVE world[i][m] \in WorldRec /\ Known(i) \in SUBSET Macs
  BY <1>2 DEF WorldType, Known
<1>3. \A i \in Ifaces : Known(i) \in SUBSET Macs
  BY DEF WorldType, Known
<1>4. ASSUME NEW i \in Ifaces, LinkUp(i) \/ LinkDown(i) \/ PrefixGone(i) PROVE WorldType'
  <2>1. CASE LinkUp(i)
    BY <2>1 DEF LinkUp, WorldType
  <2>2. CASE LinkDown(i)
    <3>1. [m \in {} |-> NoAddr] \in [{} -> WorldRec] /\ {} \in SUBSET Macs
      OBVIOUS
    <3> QED BY <1>1, <2>2, <3>1 DEF LinkDown, HandleDown
  <2>3. CASE PrefixGone(i)
    <3> DEFINE w == [m \in Known(i) |-> [world[i][m] EXCEPT !.v6 = {}]]
    <3>1. w \in [Known(i) -> WorldRec]
      BY <1>2 DEF WorldRec
    <3>2. world' = [world EXCEPT ![i] = w]
      BY <2>3 DEF PrefixGone
    <3> HIDE DEF w
    <3> QED BY <1>1, <1>3, <3>1, <3>2
  <2> QED BY <1>4, <2>1, <2>2, <2>3
<1>5. ASSUME NEW i \in Ifaces, NEW m \in Macs, Join(i, m) PROVE WorldType'
  <2> DEFINE c == [awake |-> TRUE, v4 |-> NoAddr, v6 |-> {}]
  <2>1. CASE world' = world
    BY <2>1 DEF WorldType
  <2>2. CASE Rewrite(i, m, c)
    <3>1. c \in WorldRec
      BY DEF WorldRec
    <3> HIDE DEF c
    <3> QED BY <2>2, <3>1, RewriteFacts
  <2> QED BY <1>5, <2>1, <2>2 DEF Join
<1>6. ASSUME NEW i \in Ifaces, NEW m \in Macs, Leave(i, m) PROVE WorldType'
  <2> DEFINE w == [x \in Known(i) \ {m} |-> world[i][x]]
  <2>1. w \in [Known(i) \ {m} -> WorldRec] /\ Known(i) \ {m} \in SUBSET Macs
    BY <1>2, <1>3
  <2>2. world' = [world EXCEPT ![i] = w]
    BY <1>6 DEF Leave
  <2> HIDE DEF w
  <2> QED BY <1>1, <2>1, <2>2
<1>7. ASSUME NEW i \in Ifaces, NEW m \in Macs, Sleep(i, m) \/ Wake(i, m) PROVE WorldType'
  <2>1. PICK b \in BOOLEAN : Rewrite(i, m, [world[i][m] EXCEPT !.awake = b]) /\ m \in Known(i)
    BY <1>7 DEF Sleep, Wake
  <2>2. [world[i][m] EXCEPT !.awake = b] \in WorldRec
    BY <1>2, <2>1, WorldRecFacts
  <2> QED BY <2>1, <2>2, RewriteFacts
<1>8. ASSUME NEW i \in Ifaces, NEW m \in Macs, NEW a \in V4Addrs \cup V6Addrs, Address(i, m, a) PROVE WorldType'
  <2> DEFINE c == world[i][m]
  <2>1. c \in WorldRec
    BY <1>2, <1>8 DEF Address
  <2>2. PICK d : Rewrite(i, m, d) /\ (\/ a \in V4Addrs /\ d = [c EXCEPT !.v4 = a]
                                      \/ a \in V6Addrs /\ d = [c EXCEPT !.v6 = @ \cup {a}]
                                      \/ d = c)
    BY <1>8 DEF Address
  <2>3. d \in WorldRec
    <3> HIDE DEF c
    <3> QED BY <2>1, <2>2, WorldRecFacts
  <2> QED BY <2>2, <2>3, RewriteFacts
<1>9. CASE UNCHANGED vars
  BY <1>9 DEF WorldType, vars
<1> QED BY <1>4, <1>5, <1>6, <1>7, <1>8, <1>9 DEF Next

LEMMA HeadersNext ==
  ASSUME IInv, HeadersInv, [Next]_vars, ClientsAssumption
  PROVE  HeadersCarried
<1>a. TypeInv
  BY DEF IInv
<1>1. ASSUME UNCHANGED <<num, slot, headers>> PROVE HeadersCarried
  BY <1>1, HeadersKept
<1>2. ASSUME NEW i \in Ifaces, NEW m \in Macs, Leave(i, m) PROVE HeadersCarried
  <2>1. CASE IndexOf(i, m) = 0
    BY <1>1, <1>2, <2>1 DEF Leave, hw
  <2>2. CASE IndexOf(i, m) # 0
    <3>1. IndexOf(i, m) \in 1 .. num[i] /\ ClientDel(i, IndexOf(i, m))
      BY <1>a, <1>2, <2>2, IndexFacts DEF Leave
    <3> QED BY <1>a, <3>1, LeaveHeaders
  <2> QED BY <2>1, <2>2
<1>3. ASSUME NEW i \in Ifaces, NEW m \in Macs, Sleep(i, m) \/ Wake(i, m) PROVE HeadersCarried
  <2>1. num' = num /\ headers' = headers
    BY <1>3 DEF Sleep, Wake
  <2>2. CASE IndexOf(i, m) = 0
    BY <1>1, <1>3, <2>1, <2>2 DEF Sleep, Wake
  <2>3. CASE IndexOf(i, m) # 0
    <3>1. IndexOf(i, m) \in 1 .. num[i]
      BY <1>a, <2>3, IndexFacts
    <3>2. PowerSave(i, IndexOf(i, m)) \/ Recover(i, IndexOf(i, m))
      BY <1>3, <2>3 DEF Sleep, Wake
    <3>3. Changes(i, IndexOf(i, m))
      BY <3>1, <3>2, SleepEffect, WakeEffect
    <3> QED BY <2>1, <3>1, <3>3, ChangesHeaders
  <2> QED BY <2>2, <2>3
<1>4. ASSUME NEW i \in Ifaces, NEW m \in Macs, NEW a \in V4Addrs \cup V6Addrs, Address(i, m, a)
      PROVE  HeadersCarried
  <2>1. num' = num /\ headers' = headers /\ asleep' = asleep
    BY <1>4 DEF Address
  <2>2. CASE UNCHANGED <<slot, routes>>
    BY <1>1, <2>1, <2>2
  <2>3. CASE IndexOf(i, m) # 0
    <3> DEFINE k == IndexOf(i, m)
    <3>1. k \in 1 .. num[i]
      BY <1>a, <2>3, IndexFacts
    <3>2. (a \in V4Addrs /\ AddressV4(i, k, a)) \/ (a \in V6Addrs /\ AddressV6(i, k, a))
      BY <1>4, <2>3 DEF Address
    <3> HIDE DEF k
    <3>3. CASE a \in V4Addrs /\ AddressV4(i, k, a)
      <4>1. CASE a = slot[i][k].v4
        BY <1>1, <2>1, <3>3, <4>1 DEF AddressV4, At
      <4>2. CASE a # slot[i][k].v4
        BY <2>1, <3>1, <3>3, <4>2, AddressV4Effect, ChangesHeaders
      <4> QED BY <4>1, <4>2
    <3>4. CASE a \in V6Addrs /\ AddressV6(i, k, a)
      <4>1. CASE a \in slot[i][k].v6
        BY <1>1, <2>1, <3>4, <4>1 DEF AddressV6, At
      <4>2. CASE a \notin slot[i][k].v6
        BY <2>1, <3>1, <3>4, <4>2, AddressV6Effect, ChangesHeaders
      <4> QED BY <4>1, <4>2
    <3> QED BY <3>2, <3>3, <3>4
  <2> QED BY <1>4, <2>2, <2>3 DEF Address
<1>5. CASE UNCHANGED vars
  BY <1>1, <1>5 DEF vars
<1> QED BY <1>a, <1>2, <1>3, <1>4, <1>5, JoinHeaders, LinkUpHeaders, LinkDownHeaders, PrefixGoneHeaders DEF Next

LEMMA WorldNext ==
  ASSUME IInv, WorldType, SeatsInv, TotalInv, "rejoin" \notin env, [Next]_vars, ClientsAssumption
  PROVE  Carried
<1>1. CASE UNCHANGED vars
  <2>1. UNCHANGED <<num, slot, asleep, total, world>>
    BY <1>1 DEF vars
  <2>2. Associated' = Associated
    BY <2>1, AssociatedKept
  <2> QED BY <2>1, <2>2 DEF Carried, SeatsInv, RestsInv, TotalInv
<1> QED BY <1>1, JoinWorld, LeaveWorld, SleepWorld, WakeWorld, AddressWorld, LinkUpWorld, LinkDownWorld,
           PrefixGoneWorld DEF Next

LEMMA WInvNext ==
  ASSUME WInv, [Next]_vars, ClientsAssumption
  PROVE  WInv'
<1>1. IInv' /\ WorldType'
  BY IInvNext, WorldTypeNext DEF WInv
<1>2. env' = env
  <2>1. ASSUME NEW i \in Ifaces, LinkUp(i) \/ LinkDown(i) \/ PrefixGone(i) PROVE env' = env
    BY <2>1 DEF LinkUp, LinkDown, HandleDown, PrefixGone
  <2>2. ASSUME NEW i \in Ifaces, NEW m \in Macs, Join(i, m) \/ Leave(i, m) PROVE env' = env
    BY <2>2 DEF Join, Leave
  <2>3. ASSUME NEW i \in Ifaces, NEW m \in Macs, Sleep(i, m) \/ Wake(i, m) PROVE env' = env
    BY <2>3 DEF Sleep, Wake
  <2>4. ASSUME NEW i \in Ifaces, NEW m \in Macs, NEW a \in V4Addrs \cup V6Addrs, Address(i, m, a)
        PROVE  env' = env
    BY <2>4 DEF Address
  <2> QED BY <2>1, <2>2, <2>3, <2>4 DEF Next, vars
<1>3. HeadersCarried
  BY HeadersNext DEF WInv
<1>4. "rejoin" \notin env => Carried
  BY WorldNext DEF WInv
<1> QED BY <1>1, <1>2, <1>3, <1>4 DEF WInv, HeadersCarried, Carried

LEMMA WInvServed ==
  ASSUME WInv, "rejoin" \notin env, "restless" \notin env, ClientsAssumption
  PROVE  Served
<1> SUFFICES ASSUME NEW i \in Ifaces, NEW m \in Known(i), world[i][m].awake,
                    NEW a \in ({world[i][m].v4} \ {NoAddr}) \cup world[i][m].v6
             PROVE  Reached(m, a)
  BY DEF Served
<1>1. TypeInv /\ WorldType /\ SeatsInv /\ RestsInv /\ HeadersInv
  BY DEF WInv, IInv
<1>2. PICK k \in 1 .. num[i] : slot[i][k].mac = m
  BY <1>1 DEF SeatsInv, Seats, Known
<1> DEFINE c == slot[i][k]
<1>3. world[i][m].v4 = c.v4 /\ world[i][m].v6 = c.v6 /\ Rest(c, asleep[i][k], world[i][m])
  BY <1>1, <1>2, PlaceFacts
<1>4. Keeps(At(i, k), routes, DOMAIN routes \ RouteHandles(c)) /\ At(i, k).c = c
  BY AtKeeps DEF WInv
<1>5. RouteHandles(c) \subseteq DOMAIN routes /\ Right(c, routes)
  BY <1>4 DEF Keeps, At
<1>6. /\ c.hdr_v4 \in DOMAIN headers /\ headers[c.hdr_v4] = m
      /\ c.hdr_v6 \in DOMAIN headers /\ headers[c.hdr_v6] = m
  BY <1>1, <1>2 DEF HeadersInv, Heads
<1> HIDE DEF c
<1>7. CASE a = c.v4 /\ a # NoAddr
  <2>1. c.rt_v4 # NoHandle
    BY <1>3, <1>7 DEF Rest
  <2>2. c.rt_v4 \in DOMAIN routes /\ routes[c.rt_v4].addr = a /\ routes[c.rt_v4].hdr = c.hdr_v4
    BY <1>5, <1>7, <2>1 DEF RouteHandles, Right
  <2> QED BY <1>6, <2>2 DEF Reached
<1>8. CASE a \in c.v6
  <2>1. a \in DOMAIN c.rt_v6
    BY <1>3, <1>8 DEF Rest
  <2>2. /\ c.rt_v6[a] \in DOMAIN routes
        /\ routes[c.rt_v6[a]].addr = a /\ routes[c.rt_v6[a]].hdr = c.hdr_v6
    BY <1>5, <2>1 DEF RouteHandles, Right
  <2> QED BY <1>6, <2>2 DEF Reached
<1> QED BY <1>3, <1>7, <1>8

LEMMA WInvNothingLeaks ==
  ASSUME WInv, env \cap {"rejoin", "restless", "refuse"} = {}, ClientsAssumption
  PROVE  NothingLeaks
<1>1. TypeInv /\ WorldType /\ SeatsInv /\ RestsInv /\ HeadersInv /\ NoOrphan
  BY DEF WInv, IInv
<1>2. ASSUME NEW h \in DOMAIN routes
      PROVE  \E i \in Ifaces : \E m \in Known(i) :
                world[i][m].awake /\ routes[h].addr \in {world[i][m].v4} \cup world[i][m].v6
  <2>1. PICK p \in Held : h \in RouteHandles(Cl[p])
    <3> HIDE DEF Cl
    <3> QED BY DEF WInv, IInv, Table
  <2>2. PICK i \in Ifaces : \E k \in 1 .. num[i] : p = <<i, k>>
    BY <1>1, HeldFacts
  <2>3. PICK k \in 1 .. num[i] : p = <<i, k>>
    BY <2>2
  <2> DEFINE c == slot[i][k]
  <2>4. h \in RouteHandles(c)
    BY <1>1, <2>1, <2>3, HeldFacts
  <2>5. c.mac \in Known(i) /\ world[i][c.mac].v4 = c.v4 /\ world[i][c.mac].v6 = c.v6
        /\ Rest(c, asleep[i][k], world[i][c.mac])
    BY <1>1, PlaceFacts
  <2>6. Right(c, routes)
    BY AtKeeps DEF WInv, Keeps, At
  <2> HIDE DEF c
  <2>7. CASE h = c.rt_v4 /\ h # NoHandle
    BY <2>5, <2>6, <2>7 DEF Right, Rest
  <2>8. CASE \E a \in DOMAIN c.rt_v6 : h = c.rt_v6[a]
    BY <2>5, <2>6, <2>8 DEF Right, Rest
  <2> QED BY <2>4, <2>7, <2>8 DEF RouteHandles
<1>3. ASSUME NEW h \in DOMAIN headers PROVE \E i \in Ifaces : headers[h] \in Known(i)
  <2>1. PICK i \in Ifaces : \E k \in 1 .. num[i] : h \in Heads(slot[i][k])
    BY <1>1 DEF NoOrphan
  <2>2. PICK k \in 1 .. num[i] : h \in Heads(slot[i][k])
    BY <2>1
  <2>3. headers[h] = slot[i][k].mac
    BY <1>1, <2>2 DEF HeadersInv
  <2>4. slot[i][k].mac \in Known(i)
    BY <1>1, PlaceFacts
  <2> QED BY <2>3, <2>4
<1> QED BY <1>2, <1>3 DEF NothingLeaks

\* What the daemon keeps of clients, flags, rules and headers agrees with what
\* was announced, as far as the environment's events allow.
THEOREM WorldIsKept == Spec => []WInv
<1>1. Init => WInv
  BY WInvInit, ClientsAssumption
<1>2. WInv /\ [Next]_vars => WInv'
  BY WInvNext, ClientsAssumption
<1> QED BY <1>1, <1>2, PTL DEF Spec

\* The count of the clients of all access points is exact, also where clients
\* leave while others sleep and where the IPA refuses headers.
THEOREM TotalIsExact == Spec => []("rejoin" \notin env => TotalAgrees)
<1>1. WInv => ("rejoin" \notin env => TotalAgrees)
  BY DEF WInv, TotalInv, TotalAgrees, Associated
<1> QED BY <1>1, WorldIsKept, PTL

\* Every client that is awake can be reached at each of its addresses, unless
\* clients leave while others sleep, or join twice.
THEOREM AwakeAreServed == Spec => [](env \cap {"rejoin", "restless"} = {} => Served)
<1>1. WInv => (env \cap {"rejoin", "restless"} = {} => Served)
  BY WInvServed, ClientsAssumption
<1> QED BY <1>1, WorldIsKept, PTL

\* Nothing is left in the IPA of clients that left or sleep, unless one of the
\* three things happens that leave something behind.
THEOREM NoneLeaks == Spec => [](env \cap {"rejoin", "restless", "refuse"} = {} => NothingLeaks)
<1>1. WInv => (env \cap {"rejoin", "restless", "refuse"} = {} => NothingLeaks)
  BY WInvNothingLeaks, ClientsAssumption
<1> QED BY <1>1, WorldIsKept, PTL
=============================================================================
