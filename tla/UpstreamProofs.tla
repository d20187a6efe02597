---------------------------- MODULE UpstreamProofs ----------------------------
(* Proofs about the tethering offload: its types, that the uplink the          *)
(* framework chose serves what it asked for, that no other carries traffic,    *)
(* that the wan_up flags and the firewall's rules agree with the uplinks, and  *)
(* that the access point follows them.                                         *)
(*                                                                             *)
(* The HAL decides from what it has asked for, the uplinks follow it through   *)
(* a queue of events.  So the invariant looks ahead: it says which states the  *)
(* uplinks go through as the pending events are handled, and what holds of the *)
(* last of them.                                                               *)
EXTENDS Upstream, FunctionTheorems, FiniteSetTheorems, WellFoundedInduction, TLAPS

-----------------------------------------------------------------------------
(* What the uplinks look like from outside, and what each event makes of it.   *)

(* What the routes of an uplink depend on: all but the firewall's rules.       *)
Seen(w) == [ip |-> w.ip, gw |-> w.gw, neigh |-> w.neigh, header |-> w.header,
            partial |-> w.partial, active |-> w.active, isGw |-> w.isGw]
View(s) == [inst |-> ToSet(s.wans), wan |-> [i \in Uplinks |-> Seen(s.wan[i])]]
SeenSet == [ip : SUBSET Families, gw : SUBSET Families, neigh : SUBSET Families,
            header : BOOLEAN, partial : SUBSET Families, active : SUBSET Families,
            isGw : BOOLEAN]
Views == [inst : SUBSET Uplinks, wan : [Uplinks -> SeenSet]]

UpW(w, i, f) ==
  IF i \in Stas /\ ~w.header THEN [w EXCEPT !.isGw = TRUE, !.partial = @ \cup {f}]
  ELSE [w EXCEPT !.isGw = TRUE, !.active = @ \cup {f}]
HdrW(w, i) ==
  LET unknown == w.gw \ w.neigh IN
  IF w.header \/ "v4" \in unknown THEN w
  ELSE IF "v6" \in unknown THEN [w EXCEPT !.header = "v4" \in w.gw]
  ELSE ForEach(w.partial, [w EXCEPT !.header = w.gw # {}], LAMBDA acc, f : UpW(acc, i, f))
AddW(w, i, f) ==
  LET h == HdrW([w EXCEPT !.gw = @ \cup {f}], i)
  IN  IF f \notin w.ip \/ f \in w.active THEN w
      ELSE IF f \in h.active THEN h ELSE UpW(h, i, f)
DelW(w, f) ==
  IF f \in w.active
  THEN [w EXCEPT !.active = @ \ {f}, !.isGw = FALSE, !.gw = @ \ ({f} \cap {"v4"})]
  ELSE w
NeighW(w, i, f) == IF f \in w.neigh THEN w ELSE HdrW([w EXCEPT !.neigh = @ \cup {f}], i)

Step(a, ev) ==
  LET i == ev.iface f == ev.fam IN
  CASE ev.what = "linkUp" /\ i \in Uplinks -> [a EXCEPT !.inst = @ \cup {i}]
    [] ev.what = "address" /\ i \in a.inst -> [a EXCEPT !.wan[i].ip = @ \cup {f}]
    [] ev.what = "neighbour" /\ i \in a.inst -> [a EXCEPT !.wan[i] = NeighW(@, i, f)]
    [] ev.what = "linkDown" /\ i \in a.inst ->
         [a EXCEPT !.inst = @ \ {i}, !.wan[i] = Seen(NoWan)]
    [] ev.what = "routeAdd" /\ i \in a.inst -> [a EXCEPT !.wan[i] = AddW(@, i, f)]
    [] ev.what = "routeDel" /\ i \in a.inst -> [a EXCEPT !.wan[i] = DelW(@, f)]
    [] OTHER -> a

(* The routes that wait for the link-layer header, and all that were added.    *)
Wait(w) == IF w.header THEN {} ELSE w.partial
Held(w) == w.active \cup Wait(w)
(* The modem's is_default_gateway says whether it carries something.           *)
Gate(a) == \A m \in Modems : a.wan[m].isGw = (a.wan[m].active # {})

WanOK(w, i) ==
  /\ Held(w) \subseteq w.ip
  /\ i \in Modems => ~w.header /\ w.partial = {} /\ w.neigh = {}
  /\ i \in Stas /\ ~w.header =>
       /\ w.active = {} /\ w.gw = w.partial
       /\ "v4" \in w.gw => "v4" \notin w.neigh
       /\ w.gw = {"v6"} => "v6" \notin w.neigh
ViewOK(e, a) ==
  /\ \A i \in Uplinks : WanOK(a.wan[i], i)
  /\ \A i \in Uplinks : i \notin a.inst => a.wan[i] = Seen(NoWan)
  /\ \A i, j \in Uplinks : i # j => Held(a.wan[i]) = {} \/ Held(a.wan[j]) = {}
  /\ ~MayWait(e) => \A i \in Uplinks : Wait(a.wan[i]) = {}

(* When an event may be pending.                                               *)
RouteGuard(e, a, i, f) ==
  /\ i \in Uplinks
  /\ \A j \in Uplinks : j # i => Held(a.wan[j]) = {}
  /\ f \notin Held(a.wan[i])
  /\ i \in Stas /\ i \in a.inst /\ f \in a.wan[i].ip /\ ~MayWait(e) => f \in a.wan[i].neigh
Guard(e, a, ev) ==
  /\ ev.what = "routeAdd" => RouteGuard(e, a, ev.iface, ev.fam)
  /\ ev.what = "routeDel" => ev.iface \in Uplinks /\ ev.fam \notin Wait(a.wan[ev.iface])
  /\ ev.what = "neighbour" => ev.iface \in Stas
  /\ Steady(e) /\ ((ev.what = "linkDown" /\ ev.iface \in Modems) \/ ev.what = "firewall")
       => Gate(a)

ExtEvents ==
  {ev \in [what : {"linkUp", "address", "neighbour", "linkDown", "routeAdd", "routeDel",
                   "downAdd", "downDel", "firewall"},
           iface : Ifaces \cup {NoIface}, fam : Families] :
     ev.iface = NoIface => ev.what = "firewall"}
IntEvents == [what : {"wanUp", "wanDown", "ssr"}, iface : Ifaces \cup {NoIface}, fam : Families]

(* The events q lead from a to b.                                              *)
Leads(e, a, q, b) ==
  \E v \in [0 .. Len(q) -> Views] :
    /\ v[0] = a /\ v[Len(q)] = b
    /\ \A n \in 0 .. Len(q) : ViewOK(e, v[n])
    /\ \A n \in 1 .. Len(q) : Guard(e, v[n - 1], q[n]) /\ v[n] = Step(v[n - 1], q[n])

-----------------------------------------------------------------------------
(* What the events make of one uplink. *)

(* The modem has no header to wait for, a station keeps only its rules apart.  *)
LEMMA UplinkKinds ==
  /\ \A i \in Stas : i \in Uplinks /\ i \notin Modems
  /\ \A i \in Modems : i \in Uplinks /\ i \notin Stas
  /\ \A i \in Uplinks : i \in Stas \/ i \in Modems
  /\ \A i \in Uplinks : i \in Ifaces /\ i # Ap /\ i # NoIface
  /\ Ap \in Ifaces /\ Ap # NoIface /\ NoIface \notin Ifaces
  /\ \A i \in Ifaces : i \in Uplinks \/ i = Ap
  BY UpstreamAssumption DEF Uplinks, Ifaces

(* Uplinks that look the same field by field are the same.                    *)
LEMMA SeenEqual ==
  ASSUME NEW w \in SeenSet, NEW x \in SeenSet, w.ip = x.ip, w.gw = x.gw, w.neigh = x.neigh,
         w.header = x.header, w.partial = x.partial, w.active = x.active, w.isGw = x.isGw
  PROVE  w = x
  BY DEF SeenSet

(* The header is all that changes. *)
LEMMA HeaderSet ==
  ASSUME NEW w \in SeenSet, NEW x \in BOOLEAN
  PROVE  LET y == [w EXCEPT !.header = x]
         IN  /\ y \in SeenSet /\ y.ip = w.ip /\ y.gw = w.gw /\ y.neigh = w.neigh
             /\ y.partial = w.partial /\ y.active = w.active /\ y.isGw = w.isGw /\ y.header = x
  BY DEF SeenSet

(* A route that is up waits in a station without header and is carried else.   *)
LEMMA UpWFacts ==
  ASSUME NEW w \in SeenSet, NEW i \in Uplinks, NEW f \in Families
  PROVE  /\ UpW(w, i, f) \in SeenSet
         /\ UpW(w, i, f).ip = w.ip /\ UpW(w, i, f).gw = w.gw
         /\ UpW(w, i, f).neigh = w.neigh /\ UpW(w, i, f).header = w.header
         /\ UpW(w, i, f).isGw = TRUE
         /\ i \in Stas /\ ~w.header => /\ UpW(w, i, f).partial = w.partial \cup {f}
                                       /\ UpW(w, i, f).active = w.active
         /\ i \notin Stas \/ w.header = TRUE => /\ UpW(w, i, f).partial = w.partial
                                                /\ UpW(w, i, f).active = w.active \cup {f}
  BY DEF UpW, SeenSet

(* The empty uplink.                                                           *)
LEMMA NoWanFacts ==
  /\ Seen(NoWan) \in SeenSet
  /\ Seen(NoWan).ip = {} /\ Seen(NoWan).gw = {} /\ Seen(NoWan).neigh = {}
  /\ Seen(NoWan).header = FALSE /\ Seen(NoWan).partial = {} /\ Seen(NoWan).active = {}
  /\ Seen(NoWan).isGw = FALSE /\ Held(Seen(NoWan)) = {} /\ Wait(Seen(NoWan)) = {}
  /\ \A i \in Uplinks : WanOK(Seen(NoWan), i)
  BY DEF Seen, NoWan, SeenSet, Held, Wait, WanOK

(* The families are two.                                                     *)
LEMMA FamilyNames == "v4" \in Families /\ "v6" \in Families /\ "v4" # "v6"
  BY DEF Families

(* Building the header: nothing for the modem, nor for a station that has it   *)
(* or that does not know its gateway; else the routes that waited are carried. *)
LEMMA HdrWFacts ==
  ASSUME NEW w \in SeenSet, NEW i \in Uplinks, 
         i \in Modems => ~w.header /\ w.partial = {} /\ w.neigh = {},
         ~w.header => w.partial \subseteq w.gw
  PROVE  /\ HdrW(w, i) \in SeenSet
         /\ HdrW(w, i).ip = w.ip /\ HdrW(w, i).gw = w.gw /\ HdrW(w, i).neigh = w.neigh
         /\ HdrW(w, i).partial = w.partial
         /\ (i \in Modems \/ w.header \/ (w.gw = {} /\ w.partial = {})
             \/ ("v4" \in w.gw /\ "v4" \notin w.neigh))
              => HdrW(w, i) = w
         /\ i \in Stas /\ ~w.header /\ ("v4" \in w.gw => "v4" \in w.neigh)
            /\ "v6" \in w.gw /\ "v6" \notin w.neigh =>
              /\ "v4" \in w.gw => HdrW(w, i).header = TRUE
              /\ "v4" \notin w.gw => HdrW(w, i).header = FALSE
              /\ HdrW(w, i).active = w.active /\ HdrW(w, i).isGw = w.isGw
         /\ i \in Stas /\ ~w.header /\ w.gw \subseteq w.neigh /\ w.gw # {} =>
              /\ HdrW(w, i).header = TRUE
              /\ \A f \in Families : f \in HdrW(w, i).active <=> f \in w.active \/ f \in w.partial
              /\ w.partial = {} => HdrW(w, i).isGw = w.isGw
              /\ w.partial # {} => HdrW(w, i).isGw = TRUE
<1> DEFINE u == w.gw \ w.neigh
           h == [w EXCEPT !.header = w.gw # {}]
<1>1. i \in Modems => i \notin Stas
  BY UplinkKinds
<1>2. i \in Stas \/ i \in Modems
  BY UplinkKinds
<1>3. w.gw \in SUBSET Families /\ w.neigh \in SUBSET Families /\ w.partial \in SUBSET Families
      /\ w.header \in BOOLEAN /\ w.active \in SUBSET Families /\ w.isGw \in BOOLEAN
  BY DEF SeenSet
<1>4. h \in SeenSet /\ h.ip = w.ip /\ h.gw = w.gw /\ h.neigh = w.neigh /\ h.partial = w.partial
      /\ h.active = w.active /\ h.isGw = w.isGw /\ h.header = (w.gw # {})
  BY DEF SeenSet
<1>5. CASE w.header \/ "v4" \in u
  <2>1. HdrW(w, i) = w
    BY <1>5 DEF HdrW
  <2> QED
    BY <2>1, <1>5
<1>6. CASE ~w.header /\ "v4" \notin u /\ "v6" \in u
  <2>1. HdrW(w, i) = [w EXCEPT !.header = "v4" \in w.gw]
    BY <1>6 DEF HdrW
  <2>5. HdrW(w, i) \in SeenSet /\ HdrW(w, i).ip = w.ip /\ HdrW(w, i).gw = w.gw
        /\ HdrW(w, i).neigh = w.neigh /\ HdrW(w, i).partial = w.partial
        /\ HdrW(w, i).header = ("v4" \in w.gw)
        /\ HdrW(w, i).active = w.active /\ HdrW(w, i).isGw = w.isGw
    <3> DEFINE x == "v4" \in w.gw
    <3>1. x \in BOOLEAN
      OBVIOUS
    <3> HIDE DEF x
    <3>2. LET y == [w EXCEPT !.header = x]
          IN  /\ y \in SeenSet /\ y.ip = w.ip /\ y.gw = w.gw /\ y.neigh = w.neigh
              /\ y.partial = w.partial /\ y.active = w.active /\ y.isGw = w.isGw /\ y.header = x
      BY <3>1, HeaderSet
    <3> QED
      BY <2>1, <3>2 DEF x
  <2>6. ASSUME i \in Modems PROVE HdrW(w, i) = w
    <3>1. HdrW(w, i).header = FALSE /\ w.header = FALSE
      BY <2>5, <2>6, <1>6, <1>3
    <3> QED
      BY <2>5, <3>1, SeenEqual
  <2>7. ("v4" \in w.gw => HdrW(w, i).header = TRUE) /\ ("v4" \notin w.gw => HdrW(w, i).header = FALSE)
    <3>1. HdrW(w, i).header \in BOOLEAN
      BY <2>5 DEF SeenSet
    <3>2. HdrW(w, i).header = ("v4" \in w.gw)
      BY <2>5
    <3> QED
      BY <3>1, <3>2
  <2>8. ~(w.gw \subseteq w.neigh)
    BY <1>6
  <2> QED
    BY <2>5, <2>6, <2>7, <2>8, <1>6
<1>7. CASE ~w.header /\ u = {}
  <2> DEFINE h4 == IF "v4" \in w.partial THEN UpW(h, i, "v4") ELSE h
             h6 == IF "v6" \in w.partial THEN UpW(h4, i, "v6") ELSE h4
  <2>1. HdrW(w, i) = h6
    BY <1>7, Zenon DEF HdrW, ForEach
  <2>2. CASE w.partial = {}
    <3>1. HdrW(w, i) = h
      BY <2>1, <2>2
    <3>2. ASSUME w.gw = {} PROVE h = w
      <4>1. h.header = FALSE /\ w.header = FALSE
        BY <3>2, <1>4, <1>7, <1>3
      <4> QED
        BY <4>1, <1>4, SeenEqual
    <3>3. i \in Modems => w.gw = {}
      BY <1>7
    <3> QED
      BY <3>1, <3>2, <3>3, <2>2, <1>4, <1>7, <1>3, <1>1
  <2>3. CASE w.partial # {}
    <3>1. i \in Stas
      BY <2>3, <1>2
    <3> DEFINE Ok(x, S) == /\ x \in SeenSet /\ x.ip = w.ip /\ x.gw = w.gw /\ x.neigh = w.neigh
                           /\ x.partial = w.partial /\ x.header = TRUE
                           /\ x.active = w.active \cup S
                           /\ S = {} => x.isGw = w.isGw
                           /\ S # {} => x.isGw = TRUE
    <3>2. Ok(h, {})
      BY <1>4, <1>7, <2>3
    <3> HIDE DEF h
    <3>3. Ok(UpW(h, i, "v4"), {"v4"})
      <4>1. h \in SeenSet /\ h.header = TRUE
        BY <3>2
      <4> DEFINE u4 == UpW(h, i, "v4")
      <4>2. u4 \in SeenSet /\ u4.ip = h.ip /\ u4.gw = h.gw /\ u4.neigh = h.neigh
            /\ u4.header = h.header /\ u4.isGw = TRUE /\ u4.partial = h.partial
            /\ u4.active = h.active \cup {"v4"}
        BY <4>1, FamilyNames DEF UpW, SeenSet
      <4> HIDE DEF u4
      <4>3. Ok(u4, {"v4"})
        BY <4>2, <3>2
      <4> QED
        BY <4>3 DEF u4
    <3>4. Ok(h4, w.partial \cap {"v4"})
      BY <3>2, <3>3
    <3>5. h4 \in SeenSet
      BY <3>4
    <3> HIDE DEF h4
    <3>6. Ok(UpW(h4, i, "v6"), (w.partial \cap {"v4"}) \cup {"v6"})
      <4>1. h4 \in SeenSet /\ h4.header = TRUE
        BY <3>4
      <4> DEFINE u4 == UpW(h4, i, "v6")
      <4>2. u4 \in SeenSet /\ u4.ip = h4.ip /\ u4.gw = h4.gw /\ u4.neigh = h4.neigh
            /\ u4.header = h4.header /\ u4.isGw = TRUE /\ u4.partial = h4.partial
            /\ u4.active = h4.active \cup {"v6"}
        BY <4>1, FamilyNames DEF UpW, SeenSet
      <4> HIDE DEF u4
      <4>3. Ok(u4, (w.partial \cap {"v4"}) \cup {"v6"})
        BY <4>2, <3>4
      <4> QED
        BY <4>3 DEF u4
    <3>7. Ok(h6, w.partial)
      BY <3>4, <3>6, <1>3 DEF Families
    <3> QED
      BY <3>7, <2>1, <2>3, <1>7, <1>3, <3>1, <1>1
  <2> QED
    BY <2>2, <2>3
<1>8. u = {} \/ "v4" \in u \/ "v6" \in u
  BY <1>3 DEF Families
<1> QED
  BY <1>5, <1>6, <1>7, <1>8

(* A route added to an uplink that has not got it is carried or waits, if the  *)
(* family has an address; only an IPv6 route that waited may be forgotten.     *)
LEMMA AddWFacts ==
  ASSUME NEW w \in SeenSet, NEW i \in Uplinks, NEW f \in Families,
         WanOK(w, i), f \notin Held(w)
  PROVE  /\ AddW(w, i, f) \in SeenSet
         /\ AddW(w, i, f).ip = w.ip /\ AddW(w, i, f).neigh = w.neigh
         /\ WanOK(AddW(w, i, f), i)
         /\ i \in Modems /\ w.isGw = (w.active # {}) =>
              AddW(w, i, f).isGw = (AddW(w, i, f).active # {})
         /\ f \notin w.ip => AddW(w, i, f) = w
         /\ f \in w.ip => f \in Held(AddW(w, i, f))
         /\ \A g \in Families : g \in Held(AddW(w, i, f)) => g = f \/ g \in Held(w)
         /\ \A g \in Families :
              g \in Held(w) => g \in Held(AddW(w, i, f)) \/ (f = "v4" /\ g \in Wait(w))
         /\ Wait(w) = {} /\ (i \in Stas /\ f \in w.ip => f \in w.neigh)
              => Wait(AddW(w, i, f)) = {}
<1> DEFINE h0 == [w EXCEPT !.gw = @ \cup {f}]
           h == HdrW(h0, i)
<1>1. CASE f \notin w.ip
  <2>1. AddW(w, i, f) = w
    BY <1>1 DEF AddW
  <2> QED
    BY <2>1, <1>1
<1>2. CASE f \in w.ip
  <2>1. h0 \in SeenSet /\ h0.ip = w.ip /\ h0.neigh = w.neigh /\ h0.header = w.header
        /\ h0.partial = w.partial /\ h0.active = w.active /\ h0.isGw = w.isGw
        /\ h0.gw = w.gw \cup {f}
    BY DEF SeenSet
  <2>2. f \notin w.active /\ ~(~w.header /\ f \in w.partial)
    BY DEF Held, Wait
  <2>3. AddW(w, i, f) = IF f \in h.active THEN h ELSE UpW(h, i, f)
    BY <1>2, <2>2 DEF AddW
  <2>4. /\ w.ip \in SUBSET Families /\ w.gw \in SUBSET Families /\ w.neigh \in SUBSET Families
        /\ w.header \in BOOLEAN /\ w.partial \in SUBSET Families
        /\ w.active \in SUBSET Families /\ w.isGw \in BOOLEAN
    BY DEF SeenSet
  <2>5. i \in Modems => i \notin Stas
    BY UplinkKinds
  <2>6. i \in Stas \/ i \in Modems
    BY UplinkKinds
  <2>7. i \in Modems => ~h0.header /\ h0.partial = {} /\ h0.neigh = {}
    BY <2>1 DEF WanOK
  <2>8. ~h0.header => h0.partial \subseteq h0.gw
    BY <2>1, <2>7, <2>6 DEF WanOK
  <2> HIDE DEF h0
  <2>9. CASE i \in Modems \/ w.header
    <3>0. i \in Modems \/ h0.header
      BY <2>9, <2>1
    <3>1. h = h0
      BY <3>0, <2>1, <2>7, <2>8, HdrWFacts
    <3>2. AddW(w, i, f) = UpW(h0, i, f)
      BY <3>1, <2>3, <2>2, <2>1
    <3>3. AddW(w, i, f) = [h0 EXCEPT !.isGw = TRUE, !.active = @ \cup {f}]
      BY <3>2, <2>9, <2>1, <2>5 DEF UpW
    <3> DEFINE x == AddW(w, i, f)
    <3>4. x \in SeenSet /\ x.ip = w.ip /\ x.neigh = w.neigh /\ x.header = w.header
          /\ x.partial = w.partial /\ x.active = w.active \cup {f} /\ x.isGw = TRUE
          /\ x.gw = w.gw \cup {f}
      BY <3>3, <2>1 DEF SeenSet
    <3> HIDE DEF x
    <3>5. Wait(x) = Wait(w) /\ Held(x) = Held(w) \cup {f}
      BY <3>4 DEF Held, Wait
    <3>6. x.active # {}
      BY <3>4
    <3>7. WanOK(x, i)
      <4>1. Held(x) \subseteq x.ip
        BY <3>5, <3>4, <1>2 DEF WanOK
      <4>2. i \in Modems => ~x.header /\ x.partial = {} /\ x.neigh = {}
        BY <3>4 DEF WanOK
      <4>3. ~(i \in Stas /\ ~x.header)
        BY <3>4, <2>9, <2>5
      <4> QED
        BY <4>1, <4>2, <4>3 DEF WanOK
    <3> QED
      BY <3>4, <3>5, <3>6, <3>7, <1>2 DEF x
  <2>10. CASE i \in Stas /\ ~w.header
    <3>1. w.active = {} /\ w.gw = w.partial /\ ("v4" \in w.gw => "v4" \notin w.neigh)
          /\ (w.gw = {"v6"} => "v6" \notin w.neigh) /\ w.partial \subseteq w.ip
          /\ Wait(w) = w.partial /\ Held(w) = w.partial /\ f \notin w.partial
      BY <2>10, <2>2 DEF WanOK, Held, Wait
    <3>2. h \in SeenSet /\ h.ip = w.ip /\ h.gw = w.gw \cup {f} /\ h.neigh = w.neigh
          /\ h.partial = w.partial
      BY <2>1, <2>7, <2>8, HdrWFacts
    <3> HIDE DEF h
    <3>3. CASE "v4" \in h0.gw \ h0.neigh
      <4>1. h = h0
        BY <3>3, <2>1, <2>7, <2>8, HdrWFacts DEF h
      <4>2. AddW(w, i, f) = UpW(h0, i, f)
        BY <4>1, <2>3, <2>2, <2>1
      <4>3. AddW(w, i, f) = [h0 EXCEPT !.isGw = TRUE, !.partial = @ \cup {f}]
        BY <4>2, <2>10, <2>1 DEF UpW
      <4> DEFINE x == AddW(w, i, f)
      <4>4. x \in SeenSet /\ x.ip = w.ip /\ x.neigh = w.neigh /\ x.header = w.header
            /\ x.partial = w.partial \cup {f} /\ x.active = {} /\ x.isGw = TRUE
            /\ x.gw = w.gw \cup {f}
        BY <4>3, <2>1, <3>1 DEF SeenSet
      <4> HIDE DEF x
      <4>5. Wait(x) = w.partial \cup {f} /\ Held(x) = w.partial \cup {f}
        BY <4>4, <2>10 DEF Held, Wait
      <4>6. WanOK(x, i)
        BY <4>4, <4>5, <3>1, <3>3, <2>1, <1>2, <2>10, <2>5 DEF WanOK
      <4>7. f \in w.neigh => w.partial # {}
        BY <3>3, <2>1, <3>1
      <4> QED
        BY <4>4, <4>5, <4>6, <4>7, <1>2, <3>1, <2>10, <2>5 DEF x
    <3>4. CASE "v4" \notin h0.gw \ h0.neigh /\ "v6" \in h0.gw \ h0.neigh
      <4>0. ~h0.header
        BY <2>10, <2>1
      <4>1. ("v4" \in h0.gw => h.header = TRUE) /\ ("v4" \notin h0.gw => h.header = FALSE)
            /\ h.active = {} /\ h.isGw = w.isGw
        BY <3>4, <4>0, <2>1, <2>7, <2>8, <2>10, <3>1, HdrWFacts DEF h
      <4>2. AddW(w, i, f) = UpW(h, i, f)
        BY <4>1, <2>3, <2>2, <2>1
      <4> DEFINE x == AddW(w, i, f)
      <4>3. CASE "v4" \in h0.gw
        <5>1. "v4" \notin w.gw /\ f = "v4" /\ "v4" \in w.neigh
          BY <4>3, <3>4, <3>1, <2>1
        <5>2. h.header = TRUE
          BY <4>1, <4>3
        <5>3. x = [h EXCEPT !.isGw = TRUE, !.active = @ \cup {f}]
          BY <4>2, <5>2 DEF UpW
        <5>4. x \in SeenSet /\ x.ip = w.ip /\ x.neigh = w.neigh /\ x.header = TRUE
              /\ x.active = {f} /\ x.partial = w.partial
          BY <5>3, <3>2, <4>1, <5>2 DEF SeenSet
        <5> HIDE DEF x
        <5>5. Wait(x) = {} /\ Held(x) = {f}
          BY <5>4 DEF Held, Wait
        <5>6. WanOK(x, i)
          BY <5>4, <5>5, <1>2, <2>10, <2>5 DEF WanOK
        <5> QED
          BY <5>4, <5>5, <5>6, <5>1, <1>2, <3>1, <2>10, <2>5 DEF x
      <4>4. CASE "v4" \notin h0.gw
        <5>1. f = "v6" /\ w.gw = {} /\ "v6" \notin w.neigh /\ h0.gw = {"v6"}
          <6>1. f \in h0.gw
            BY <2>1
          <6>2. f = "v6"
            BY <6>1, <4>4 DEF Families
          <6>3. w.gw = {}
            BY <6>2, <4>4, <2>1, <2>4, <3>1 DEF Families
          <6> QED
            BY <6>2, <6>3, <2>1, <3>4
        <5>2. h.header = FALSE
          BY <4>1, <4>4
        <5>3. x = [h EXCEPT !.isGw = TRUE, !.partial = @ \cup {f}]
          BY <4>2, <5>2, <2>10 DEF UpW
        <5>4. x \in SeenSet /\ x.ip = w.ip /\ x.neigh = w.neigh /\ x.header = FALSE
              /\ x.active = {} /\ x.partial = {"v6"} /\ x.gw = {"v6"}
          <6>1. h.partial = {} /\ h.gw = {"v6"} /\ h.active = {} /\ h.ip = w.ip
                /\ h.neigh = w.neigh /\ h \in SeenSet
            BY <3>2, <4>1, <3>1, <5>1
          <6> QED
            BY <5>3, <6>1, <5>1, <5>2 DEF SeenSet
        <5> HIDE DEF x
        <5>5. Wait(x) = {"v6"} /\ Held(x) = {"v6"}
          BY <5>4 DEF Held, Wait
        <5>6. WanOK(x, i)
          BY <5>4, <5>5, <5>1, <1>2, <2>10, <2>5 DEF WanOK
        <5> QED
          BY <5>4, <5>5, <5>6, <5>1, <1>2, <3>1, <2>10, <2>5 DEF x
      <4> QED
        BY <4>3, <4>4
    <3>5. CASE h0.gw \subseteq h0.neigh
      <4>1. w.gw = {} /\ f \in w.neigh
        BY <3>5, <2>1, <3>1, <2>4 DEF Families
      <4>2. h0.gw # {} /\ h0.partial = {}
        BY <2>1, <4>1, <3>1
      <4>3. h.header = TRUE /\ \A g \in Families : g \in h.active <=> g \in h0.active \/ g \in h0.partial
        BY <4>2, <3>5, <2>1, <2>7, <2>8, <2>10, HdrWFacts DEF h
      <4>4. h.active = {}
        BY <4>3, <4>2, <2>1, <3>1, <3>2 DEF SeenSet
      <4> DEFINE x == AddW(w, i, f)
      <4>5. x = UpW(h, i, f)
        BY <2>3, <4>4
      <4>6. x = [h EXCEPT !.isGw = TRUE, !.active = @ \cup {f}]
        BY <4>5, <4>3 DEF UpW
      <4>7. x \in SeenSet /\ x.ip = w.ip /\ x.neigh = w.neigh /\ x.header = TRUE
            /\ x.active = {f} /\ x.partial = {}
        BY <4>6, <3>2, <4>1, <4>3, <4>4, <3>1 DEF SeenSet
      <4> HIDE DEF x
      <4>8. Wait(x) = {} /\ Held(x) = {f}
        BY <4>7 DEF Held, Wait
      <4>9. WanOK(x, i)
        BY <4>7, <4>8, <1>2, <2>10, <2>5 DEF WanOK
      <4> QED
        BY <4>7, <4>8, <4>9, <4>1, <1>2, <3>1, <2>10, <2>5 DEF x
    <3>6. h0.gw \in SUBSET Families
      BY <2>1 DEF SeenSet
    <3> QED
      BY <3>3, <3>4, <3>5, <3>6 DEF Families
  <2> QED
    BY <2>9, <2>10, <2>6
<1> QED
  BY <1>1, <1>2

(* A route that is deleted was carried: one that waits is never deleted.       *)
LEMMA DelWFacts ==
  ASSUME NEW w \in SeenSet, NEW i \in Uplinks, NEW f \in Families,
         WanOK(w, i), f \notin Wait(w)
  PROVE  /\ DelW(w, f) \in SeenSet
         /\ DelW(w, f).ip = w.ip /\ DelW(w, f).neigh = w.neigh
         /\ WanOK(DelW(w, f), i)
         /\ \A g \in Families : g \in Held(DelW(w, f)) <=> g \in Held(w) /\ g # f
         /\ Wait(DelW(w, f)) = Wait(w)
         /\ f \in w.active => DelW(w, f).isGw = FALSE
         /\ f \notin w.active => DelW(w, f) = w
<1>1. CASE f \notin w.active
  <2>1. DelW(w, f) = w
    BY <1>1 DEF DelW
  <2>2. f \notin Held(w)
    BY <1>1 DEF Held
  <2> QED
    BY <2>1, <2>2, <1>1
<1>2. CASE f \in w.active
  <2> DEFINE x == DelW(w, f)
  <2>1. x = [w EXCEPT !.active = @ \ {f}, !.isGw = FALSE, !.gw = @ \ ({f} \cap {"v4"})]
    BY <1>2 DEF DelW
  <2>2. x \in SeenSet /\ x.ip = w.ip /\ x.neigh = w.neigh /\ x.header = w.header
        /\ x.partial = w.partial /\ x.active = w.active \ {f} /\ x.isGw = FALSE
    BY <2>1 DEF SeenSet
  <2> HIDE DEF x
  <2>3. Wait(x) = Wait(w)
    BY <2>2 DEF Wait
  <2>4. \A g \in Families : g \in Held(x) <=> g \in Held(w) /\ g # f
    BY <2>2, <2>3 DEF Held
  <2>5. ~(i \in Stas /\ ~w.header)
    BY <1>2 DEF WanOK
  <2>6. Held(x) \subseteq x.ip
    BY <2>2, <2>3 DEF Held, WanOK
  <2>7. i \in Modems => ~x.header /\ x.partial = {} /\ x.neigh = {}
    BY <2>2 DEF WanOK
  <2>8. ~(i \in Stas /\ ~x.header)
    BY <2>5, <2>2
  <2>9. WanOK(x, i)
    BY <2>6, <2>7, <2>8 DEF WanOK
  <2> QED
    BY <2>2, <2>3, <2>4, <2>9, <1>2 DEF x
<1> QED
  BY <1>1, <1>2

(* A neighbour may complete the header of a station: what waited is carried,   *)
(* or forgotten if there are routes of both families.                          *)
LEMMA NeighWFacts ==
  ASSUME NEW w \in SeenSet, NEW i \in Stas, NEW f \in Families, WanOK(w, i)
  PROVE  /\ NeighW(w, i, f) \in SeenSet
         /\ NeighW(w, i, f).ip = w.ip
         /\ \A g \in Families : g \in NeighW(w, i, f).neigh <=> g \in w.neigh \/ g = f
         /\ WanOK(NeighW(w, i, f), i)
         /\ \A g \in Families : g \in Held(NeighW(w, i, f)) => g \in Held(w)
         /\ \A g \in Families : g \in Wait(NeighW(w, i, f)) => g \in Wait(w)
         /\ \A g \in Families :
              g \in Held(w) /\ (Wait(w) = {} \/ "v6" \notin w.ip) => g \in Held(NeighW(w, i, f))
<1>1. CASE f \in w.neigh
  <2>1. NeighW(w, i, f) = w
    BY <1>1 DEF NeighW
  <2> QED
    BY <2>1, <1>1
<1>2. CASE f \notin w.neigh
  <2> DEFINE n == [w EXCEPT !.neigh = @ \cup {f}]
             x == NeighW(w, i, f)
  <2>1. x = HdrW(n, i)
    BY <1>2 DEF NeighW
  <2>2. n \in SeenSet /\ n.ip = w.ip /\ n.gw = w.gw /\ n.neigh = w.neigh \cup {f}
        /\ n.header = w.header /\ n.partial = w.partial /\ n.active = w.active
        /\ n.isGw = w.isGw
    BY DEF SeenSet
  <2> HIDE DEF n, x
  <2>3. i \in Uplinks /\ i \notin Modems
    BY UplinkKinds
  <2>4. ~n.header => n.partial \subseteq n.gw
    BY <2>2 DEF WanOK
  <2>5. /\ w.ip \in SUBSET Families /\ w.gw \in SUBSET Families /\ w.neigh \in SUBSET Families
        /\ w.header \in BOOLEAN /\ w.partial \in SUBSET Families
        /\ w.active \in SUBSET Families
    BY DEF SeenSet
  <2>6. x \in SeenSet /\ x.ip = w.ip /\ x.gw = w.gw /\ x.neigh = w.neigh \cup {f}
        /\ x.partial = w.partial
    BY <2>1, <2>2, <2>3, <2>4, HdrWFacts
  <2>7. CASE n.header
    <3>1. x = n
      BY <2>7, <2>1, <2>2, <2>3, <2>4, HdrWFacts
    <3>2. Wait(x) = {} /\ Wait(w) = {} /\ Held(x) = Held(w)
      BY <3>1, <2>2, <2>7 DEF Wait, Held
    <3>3. WanOK(x, i)
      BY <3>1, <3>2, <2>2, <2>7, <2>3 DEF WanOK
    <3> QED
      BY <3>2, <3>3, <2>6 DEF x
  <2>8. CASE ~n.header
    <3>1. w.active = {} /\ w.gw = w.partial /\ ("v4" \in w.gw => "v4" \notin w.neigh)
          /\ (w.gw = {"v6"} => "v6" \notin w.neigh) /\ w.partial \subseteq w.ip
          /\ Wait(w) = w.partial /\ Held(w) = w.partial /\ ~w.header
      BY <2>8, <2>2 DEF WanOK, Held, Wait
    <3>2. CASE (n.gw = {} /\ n.partial = {}) \/ "v4" \in n.gw \ n.neigh
      <4>1. x = n
        BY <3>2, <2>1, <2>2, <2>3, <2>4, HdrWFacts
      <4>2. Wait(x) = w.partial /\ Held(x) = w.partial
        BY <4>1, <2>2, <2>8, <3>1 DEF Wait, Held
      <4>3. WanOK(x, i)
        BY <4>1, <4>2, <3>1, <3>2, <2>2, <2>8, <2>3 DEF WanOK
      <4> QED
        BY <4>2, <4>3, <3>1, <2>6 DEF x
    <3>3. CASE "v4" \notin n.gw \ n.neigh /\ "v6" \in n.gw \ n.neigh
      <4>1. ("v4" \in n.gw => x.header = TRUE) /\ ("v4" \notin n.gw => x.header = FALSE)
            /\ x.active = n.active
        <5>1. ("v4" \in n.gw => "v4" \in n.neigh) /\ "v6" \in n.gw /\ "v6" \notin n.neigh
          BY <3>3
        <5>2. n \in SeenSet /\ i \notin Modems
          BY <2>2, <2>3
        <5> QED
          BY <5>1, <5>2, <2>8, <2>1, <2>3, <2>4, HdrWFacts
      <4>2. x.active = {} /\ "v6" \in w.ip /\ "v6" \in w.partial
        BY <4>1, <3>1, <3>3, <2>2
      <4>3. CASE "v4" \in n.gw
        <5>1. x.header = TRUE
          BY <4>1, <4>3
        <5>2. Wait(x) = {} /\ Held(x) = {}
          BY <5>1, <4>2 DEF Wait, Held
        <5>3. WanOK(x, i)
          BY <5>1, <5>2, <2>3 DEF WanOK
        <5> QED
          BY <5>2, <5>3, <4>2, <3>1, <2>6 DEF x
      <4>4. CASE "v4" \notin n.gw
        <5>1. x.header = FALSE
          BY <4>1, <4>4
        <5>2. Wait(x) = w.partial /\ Held(x) = w.partial
          BY <5>1, <4>2, <2>6 DEF Wait, Held
        <5>3. "v6" \notin x.neigh /\ "v4" \notin x.gw
          BY <4>4, <3>3, <2>2, <2>6
        <5>4. WanOK(x, i)
          BY <5>1, <5>2, <5>3, <4>2, <3>1, <2>6, <2>3 DEF WanOK
        <5> QED
          BY <5>2, <5>4, <3>1, <2>6 DEF x
      <4> QED
        BY <4>3, <4>4
    <3>4. CASE n.gw \subseteq n.neigh /\ n.gw # {}
      <4>1. x.header = TRUE
            /\ \A g \in Families : g \in x.active <=> g \in n.active \/ g \in n.partial
        BY <3>4, <2>8, <2>1, <2>2, <2>3, <2>4, HdrWFacts
      <4>2. Wait(x) = {}
        BY <4>1 DEF Wait
      <4>3. \A g \in Families : g \in Held(x) <=> g \in w.partial
        BY <4>1, <4>2, <3>1, <2>2 DEF Held
      <4>4. Held(x) \subseteq x.ip
        BY <4>1, <4>2, <3>1, <2>2, <2>6 DEF Held, SeenSet
      <4>5. WanOK(x, i)
        BY <4>1, <4>4, <2>3 DEF WanOK
      <4> QED
        BY <4>2, <4>3, <4>5, <3>1, <2>6 DEF x
    <3>5. n.gw \in SUBSET Families /\ (n.gw = {} => n.partial = {})
      BY <2>2, <3>1, <2>5
    <3> QED
      BY <3>2, <3>3, <3>4, <3>5 DEF Families
  <2> QED
    BY <2>7, <2>8
<1> QED
  BY <1>1, <1>2

-----------------------------------------------------------------------------
(* What the events make of all uplinks. *)

(* One uplink changes.                                                         *)
LEMMA ViewChange ==
  ASSUME NEW a \in Views, NEW i \in Uplinks, NEW x \in SeenSet
  PROVE  LET b == [a EXCEPT !.wan[i] = x]
         IN  /\ b \in Views /\ b.inst = a.inst /\ b.wan[i] = x
             /\ \A j \in Uplinks : j # i => b.wan[j] = a.wan[j]
  BY DEF Views

(* An uplink that is an instance may change to whatever is right by itself, if *)
(* it gets no route while another has one.                                     *)
LEMMA ViewOKChange ==
  ASSUME NEW e, NEW a \in Views, NEW b \in Views, NEW i \in Uplinks, ViewOK(e, a),
         i \in a.inst, b.inst = a.inst,
         \A j \in Uplinks : j # i => b.wan[j] = a.wan[j],
         WanOK(b.wan[i], i),
         (Held(a.wan[i]) = {} => Held(b.wan[i]) = {})
           \/ \A j \in Uplinks : j # i => Held(a.wan[j]) = {},
         ~MayWait(e) => Wait(b.wan[i]) = {}
  PROVE  ViewOK(e, b)
<1>1. \A j \in Uplinks : WanOK(b.wan[j], j)
  BY DEF ViewOK
<1>2. \A j \in Uplinks : j \notin b.inst => b.wan[j] = Seen(NoWan)
  BY DEF ViewOK
<1>3. \A j, k \in Uplinks : j # k => Held(b.wan[j]) = {} \/ Held(b.wan[k]) = {}
  BY DEF ViewOK
<1>4. ~MayWait(e) => \A j \in Uplinks : Wait(b.wan[j]) = {}
  BY DEF ViewOK
<1> QED
  BY <1>1, <1>2, <1>3, <1>4 DEF ViewOK

(* An address takes nothing from an uplink.                                    *)
LEMMA AddressFacts ==
  ASSUME NEW w \in SeenSet, NEW i \in Uplinks, NEW f \in Families, WanOK(w, i)
  PROVE  LET x == [w EXCEPT !.ip = @ \cup {f}]
         IN  /\ x \in SeenSet /\ x.ip = w.ip \cup {f} /\ x.neigh = w.neigh /\ x.isGw = w.isGw
             /\ x.active = w.active /\ Held(x) = Held(w) /\ Wait(x) = Wait(w) /\ WanOK(x, i)
<1> DEFINE x == [w EXCEPT !.ip = @ \cup {f}]
<1>1. x \in SeenSet /\ x.ip = w.ip \cup {f} /\ x.neigh = w.neigh /\ x.isGw = w.isGw
      /\ x.active = w.active /\ x.partial = w.partial /\ x.header = w.header /\ x.gw = w.gw
  BY DEF SeenSet
<1> HIDE DEF x
<1>2. Held(x) = Held(w) /\ Wait(x) = Wait(w)
  BY <1>1 DEF Held, Wait
<1>3. WanOK(x, i)
  BY <1>1, <1>2 DEF WanOK
<1> QED
  BY <1>1, <1>2, <1>3 DEF x

(* Each event that may be pending leaves the uplinks in order.                 *)
LEMMA StepOK ==
  ASSUME NEW e, NEW a \in Views, NEW ev \in ExtEvents, ViewOK(e, a), Guard(e, a, ev)
  PROVE  Step(a, ev) \in Views /\ ViewOK(e, Step(a, ev))
<1> DEFINE i == ev.iface
           f == ev.fam
           b == Step(a, ev)
<1>1. f \in Families
  BY DEF ExtEvents
<1>2. a.inst \subseteq Uplinks /\ \A j \in Uplinks : a.wan[j] \in SeenSet
  BY DEF Views
<1>3. \A j \in Uplinks : WanOK(a.wan[j], j) /\ (~MayWait(e) => Wait(a.wan[j]) = {})
  BY DEF ViewOK
<1>4. CASE ev.what = "linkUp" /\ i \in Uplinks
  <2>1. b = [a EXCEPT !.inst = @ \cup {i}]
    BY <1>4 DEF Step
  <2>2. b \in Views /\ b.inst = a.inst \cup {i} /\ b.wan = a.wan
    BY <2>1, <1>4 DEF Views
  <2> QED
    BY <2>2 DEF ViewOK
<1>5. CASE ev.what = "address" /\ i \in a.inst
  <2> DEFINE x == [a.wan[i] EXCEPT !.ip = @ \cup {f}]
  <2>1. b = [a EXCEPT !.wan[i] = x]
    BY <1>5 DEF Step
  <2>2. x \in SeenSet /\ Held(x) = Held(a.wan[i]) /\ Wait(x) = Wait(a.wan[i]) /\ WanOK(x, i)
    BY <1>1, <1>2, <1>3, <1>5, AddressFacts
  <2> HIDE DEF x, b
  <2>3. b \in Views /\ b.inst = a.inst /\ b.wan[i] = x
        /\ \A j \in Uplinks : j # i => b.wan[j] = a.wan[j]
    BY <2>1, <2>2, <1>2, <1>5, ViewChange
  <2>4. ViewOK(e, b)
    BY <2>2, <2>3, <1>2, <1>3, <1>5, ViewOKChange
  <2> QED
    BY <2>3, <2>4 DEF b
<1>6. CASE ev.what = "neighbour" /\ i \in a.inst
  <2> DEFINE x == NeighW(a.wan[i], i, f)
  <2>1. b = [a EXCEPT !.wan[i] = x]
    BY <1>6 DEF Step
  <2>2. i \in Stas
    BY <1>6 DEF Guard
  <2>3. x \in SeenSet /\ WanOK(x, i)
        /\ (\A g \in Families : g \in Held(x) => g \in Held(a.wan[i]))
        /\ (\A g \in Families : g \in Wait(x) => g \in Wait(a.wan[i]))
    BY <1>1, <1>2, <1>3, <1>6, <2>2, NeighWFacts
  <2> HIDE DEF x, b
  <2>4. b \in Views /\ b.inst = a.inst /\ b.wan[i] = x
        /\ \A j \in Uplinks : j # i => b.wan[j] = a.wan[j]
    BY <2>1, <2>3, <1>2, <1>6, ViewChange
  <2>5. Held(x) \subseteq Families /\ Wait(x) \subseteq Families
    BY <2>3 DEF Held, Wait, SeenSet
  <2>6. (Held(a.wan[i]) = {} => Held(x) = {}) /\ (~MayWait(e) => Wait(x) = {})
    BY <2>3, <2>5, <1>3, <1>2, <1>6
  <2>7. ViewOK(e, b)
    BY <2>3, <2>4, <2>6, <1>2, <1>6, ViewOKChange
  <2> QED
    BY <2>4, <2>7 DEF b
<1>7. CASE ev.what = "linkDown" /\ i \in a.inst
  <2>1. b = [a EXCEPT !.inst = @ \ {i}, !.wan[i] = Seen(NoWan)]
    BY <1>7 DEF Step
  <2>2. b \in Views /\ b.inst = a.inst \ {i} /\ b.wan[i] = Seen(NoWan)
        /\ \A j \in Uplinks : j # i => b.wan[j] = a.wan[j]
    <3>1. Seen(NoWan) \in SeenSet /\ i \in Uplinks
      BY <1>2, <1>7, NoWanFacts
    <3>2. a.wan \in [Uplinks -> SeenSet] /\ a.inst \in SUBSET Uplinks
      BY DEF Views
    <3>3. b = [inst |-> a.inst \ {i}, wan |-> [a.wan EXCEPT ![i] = Seen(NoWan)]]
      BY <2>1 DEF Views
    <3> HIDE DEF b
    <3> QED
      BY <3>1, <3>2, <3>3 DEF Views
  <2> HIDE DEF b
  <2>3. WanOK(b.wan[i], i) /\ Held(b.wan[i]) = {} /\ Wait(b.wan[i]) = {}
    BY <2>2, <1>2, <1>7, NoWanFacts
  <2>4. \A j \in Uplinks : WanOK(b.wan[j], j)
    BY <2>2, <2>3, <1>3
  <2>5. \A j \in Uplinks : j \notin b.inst => b.wan[j] = Seen(NoWan)
    BY <2>2 DEF ViewOK
  <2>6. \A j, k \in Uplinks : j # k => Held(b.wan[j]) = {} \/ Held(b.wan[k]) = {}
    BY <2>2, <2>3 DEF ViewOK
  <2>7. ~MayWait(e) => \A j \in Uplinks : Wait(b.wan[j]) = {}
    BY <2>2, <2>3 DEF ViewOK
  <2>8. ViewOK(e, b)
    BY <2>4, <2>5, <2>6, <2>7 DEF ViewOK
  <2> QED
    BY <2>2, <2>8 DEF b
<1>8. CASE ev.what = "routeAdd" /\ i \in a.inst
  <2> DEFINE x == AddW(a.wan[i], i, f)
  <2>1. b = [a EXCEPT !.wan[i] = x]
    BY <1>8 DEF Step
  <2>2. RouteGuard(e, a, i, f)
    BY <1>8 DEF Guard
  <2>3. i \in Uplinks /\ f \notin Held(a.wan[i])
        /\ (\A j \in Uplinks : j # i => Held(a.wan[j]) = {})
        /\ (i \in Stas /\ f \in a.wan[i].ip /\ ~MayWait(e) => f \in a.wan[i].neigh)
    BY <2>2, <1>8 DEF RouteGuard
  <2> DEFINE w == a.wan[i]
  <2>4. w \in SeenSet /\ WanOK(w, i) /\ (~MayWait(e) => Wait(w) = {})
    BY <2>3, <1>2, <1>3
  <2> HIDE DEF w
  <2>5. AddW(w, i, f) \in SeenSet /\ WanOK(AddW(w, i, f), i)
    BY <2>3, <2>4, <1>1, AddWFacts DEF w
  <2>6. ~MayWait(e) => Wait(AddW(w, i, f)) = {}
    BY <2>3, <2>4, <1>1, AddWFacts DEF w
  <2>7. x \in SeenSet /\ WanOK(x, i) /\ (~MayWait(e) => Wait(x) = {})
    BY <2>5, <2>6 DEF w
  <2> HIDE DEF x, b
  <2>8. b \in Views /\ b.inst = a.inst /\ b.wan[i] = x
        /\ \A j \in Uplinks : j # i => b.wan[j] = a.wan[j]
    BY <2>1, <2>3, <2>7, ViewChange
  <2>9. ViewOK(e, b)
    BY <2>3, <2>7, <2>8, <1>8, ViewOKChange
  <2> QED
    BY <2>8, <2>9 DEF b
<1>9. CASE ev.what = "routeDel" /\ i \in a.inst
  <2> DEFINE x == DelW(a.wan[i], f)
  <2>1. b = [a EXCEPT !.wan[i] = x]
    BY <1>9 DEF Step
  <2>2. i \in Uplinks /\ f \notin Wait(a.wan[i])
    BY <1>9 DEF Guard
  <2>3. x \in SeenSet /\ WanOK(x, i) /\ Wait(x) = Wait(a.wan[i])
        /\ \A g \in Families : g \in Held(x) <=> g \in Held(a.wan[i]) /\ g # f
    <3>1. a.wan[i] \in SeenSet /\ WanOK(a.wan[i], i)
      BY <2>2, <1>2, <1>3
    <3> QED
      BY <3>1, <2>2, <1>1, DelWFacts
  <2> HIDE DEF x, b
  <2>4. b \in Views /\ b.inst = a.inst /\ b.wan[i] = x
        /\ \A j \in Uplinks : j # i => b.wan[j] = a.wan[j]
    BY <2>1, <2>2, <2>3, ViewChange
  <2>5. Held(x) \subseteq Families
    BY <2>3 DEF Held, Wait, SeenSet
  <2>6. (Held(a.wan[i]) = {} => Held(x) = {}) /\ (~MayWait(e) => Wait(x) = {})
    BY <2>2, <2>3, <2>5, <1>3
  <2>7. ViewOK(e, b)
    BY <2>2, <2>3, <2>4, <2>6, <1>9, ViewOKChange
  <2> QED
    BY <2>4, <2>7 DEF b
<1>10. CASE \/ ev.what \notin {"linkUp", "address", "neighbour", "linkDown", "routeAdd", "routeDel"}
            \/ ev.what = "linkUp" /\ i \notin Uplinks
            \/ ev.what # "linkUp" /\ i \notin a.inst
  <2>1. b = a
    BY <1>10 DEF Step
  <2> QED
    BY <2>1
<1> QED
  BY <1>4, <1>5, <1>6, <1>7, <1>8, <1>9, <1>10

-----------------------------------------------------------------------------
(* What the pending events lead to. *)

(* Elements and length of an appended queue, and of the tail of a queue.       *)
LEMMA AppendElems ==
  ASSUME NEW S, NEW q \in Seq(S), NEW m \in S
  PROVE  /\ Append(q, m) \in Seq(S) /\ Len(Append(q, m)) = Len(q) + 1 /\ Len(q) \in Nat
         /\ \A n \in 1 .. Len(q) : Append(q, m)[n] = q[n]
         /\ Append(q, m)[Len(q) + 1] = m
  OBVIOUS

(* The elements of a sequence without its first.                             *)
LEMMA TailElems ==
  ASSUME NEW S, NEW q \in Seq(S), q # <<>>
  PROVE  /\ Tail(q) \in Seq(S) /\ Len(Tail(q)) = Len(q) - 1
         /\ Len(q) \in Nat /\ Len(q) >= 1 /\ Head(q) = q[1] /\ q[1] \in S
         /\ \A n \in 1 .. Len(Tail(q)) : n + 1 \in 1 .. Len(q) /\ Tail(q)[n] = q[n + 1]
  OBVIOUS

(* No event changes nothing.                                                   *)
LEMMA LeadsNil ==
  ASSUME NEW e, NEW a \in Views, ViewOK(e, a)
  PROVE  Leads(e, a, <<>>, a)
<1> DEFINE v == [n \in 0 .. 0 |-> a]
<1>1. Len(<<>>) = 0 /\ v \in [0 .. Len(<<>>) -> Views] /\ v[0] = a
  OBVIOUS
<1>2. \A n \in 0 .. Len(<<>>) : n = 0
  BY <1>1
<1>3. \A n \in 1 .. Len(<<>>) : FALSE
  BY <1>1
<1> HIDE DEF v
<1> QED
  BY <1>1, <1>2, <1>3 DEF Leads

(* The views at both ends are right.                                           *)
LEMMA LeadsEnds ==
  ASSUME NEW e, NEW a, NEW b, NEW q \in Seq(ExtEvents), Leads(e, a, q, b)
  PROVE  a \in Views /\ b \in Views /\ ViewOK(e, a) /\ ViewOK(e, b)
<1>1. PICK v \in [0 .. Len(q) -> Views] :
        /\ v[0] = a /\ v[Len(q)] = b
        /\ \A n \in 0 .. Len(q) : ViewOK(e, v[n])
  BY DEF Leads
<1>2. Len(q) \in Nat /\ 0 \in 0 .. Len(q) /\ Len(q) \in 0 .. Len(q)
  OBVIOUS
<1> QED
  BY <1>1, <1>2

(* One more event at the end.                                                  *)
LEMMA LeadsAppend ==
  ASSUME NEW e, NEW a, NEW b, NEW q \in Seq(ExtEvents), NEW ev \in ExtEvents,
         Leads(e, a, q, b), Guard(e, b, ev)
  PROVE  Leads(e, a, Append(q, ev), Step(b, ev))
<1>1. PICK v \in [0 .. Len(q) -> Views] :
        /\ v[0] = a /\ v[Len(q)] = b
        /\ \A n \in 0 .. Len(q) : ViewOK(e, v[n])
        /\ \A n \in 1 .. Len(q) : Guard(e, v[n - 1], q[n]) /\ v[n] = Step(v[n - 1], q[n])
  BY DEF Leads
<1> DEFINE r == Append(q, ev)
           c == Step(b, ev)
           u == [n \in 0 .. Len(q) + 1 |-> IF n = Len(q) + 1 THEN c ELSE v[n]]
<1>2. r \in Seq(ExtEvents) /\ Len(r) = Len(q) + 1 /\ Len(q) \in Nat
      /\ r[Len(q) + 1] = ev /\ \A n \in 1 .. Len(q) : r[n] = q[n]
  BY AppendElems
<1>3. b \in Views /\ ViewOK(e, b)
  BY LeadsEnds
<1>4. c \in Views /\ ViewOK(e, c)
  BY <1>3, StepOK
<1> HIDE DEF r, c
<1>5. u \in [0 .. Len(r) -> Views]
  BY <1>1, <1>2, <1>4
<1>6. u[Len(q) + 1] = c /\ \A n \in 0 .. Len(q) : u[n] = v[n]
  BY <1>2
<1> HIDE DEF u
<1>7. u[0] = a /\ u[Len(r)] = c
  BY <1>1, <1>2, <1>6
<1>8. ASSUME NEW n \in 0 .. Len(r) PROVE ViewOK(e, u[n])
  BY <1>1, <1>2, <1>4, <1>6
<1>9. ASSUME NEW n \in 1 .. Len(r) PROVE Guard(e, u[n - 1], r[n]) /\ u[n] = Step(u[n - 1], r[n])
  <2>1. CASE n = Len(q) + 1
    <3>1. u[n - 1] = b /\ r[n] = ev /\ u[n] = c
      BY <2>1, <1>1, <1>2, <1>6
    <3> QED
      BY <3>1 DEF c
  <2>2. CASE n # Len(q) + 1
    <3>1. n \in 1 .. Len(q) /\ n - 1 \in 0 .. Len(q) /\ n \in 0 .. Len(q)
      BY <2>2, <1>2
    <3> QED
      BY <3>1, <1>1, <1>2, <1>6
  <2> QED
    BY <2>1, <2>2
<1>10. Leads(e, a, r, c)
  BY <1>5, <1>7, <1>8, <1>9 DEF Leads
<1> QED
  BY <1>10 DEF r, c

(* The first event is handled.                                                 *)
LEMMA LeadsTail ==
  ASSUME NEW e, NEW a, NEW b, NEW q \in Seq(ExtEvents), q # <<>>, Leads(e, a, q, b)
  PROVE  Guard(e, a, Head(q)) /\ Leads(e, Step(a, Head(q)), Tail(q), b)
<1>1. PICK v \in [0 .. Len(q) -> Views] :
        /\ v[0] = a /\ v[Len(q)] = b
        /\ \A n \in 0 .. Len(q) : ViewOK(e, v[n])
        /\ \A n \in 1 .. Len(q) : Guard(e, v[n - 1], q[n]) /\ v[n] = Step(v[n - 1], q[n])
  BY DEF Leads
<1> DEFINE r == Tail(q)
           u == [n \in 0 .. Len(q) - 1 |-> v[n + 1]]
<1>2. r \in Seq(ExtEvents) /\ Len(r) = Len(q) - 1 /\ Len(q) \in Nat /\ Len(q) >= 1
      /\ Head(q) = q[1] /\ \A n \in 1 .. Len(r) : n + 1 \in 1 .. Len(q) /\ r[n] = q[n + 1]
  BY TailElems
<1> HIDE DEF r
<1>3. \A n \in 0 .. Len(q) - 1 : n + 1 \in 0 .. Len(q)
  BY <1>2
<1>4. u \in [0 .. Len(r) -> Views] /\ \A n \in 0 .. Len(r) : u[n] = v[n + 1]
  BY <1>1, <1>2, <1>3
<1> HIDE DEF u
<1>5. Guard(e, a, q[1]) /\ v[1] = Step(a, q[1])
  <2>1. 1 \in 1 .. Len(q) /\ 1 - 1 = 0
    BY <1>2
  <2> QED
    BY <2>1, <1>1
<1>6. u[0] = v[1] /\ u[Len(r)] = b
  <2>1. 0 \in 0 .. Len(r) /\ Len(r) \in 0 .. Len(r) /\ Len(r) + 1 = Len(q) /\ 0 + 1 = 1
    BY <1>2
  <2> QED
    BY <2>1, <1>1, <1>4
<1>7. ASSUME NEW n \in 0 .. Len(r) PROVE ViewOK(e, u[n])
  BY <1>1, <1>2, <1>3, <1>4
<1>8. ASSUME NEW n \in 1 .. Len(r) PROVE Guard(e, u[n - 1], r[n]) /\ u[n] = Step(u[n - 1], r[n])
  <2>1. n + 1 \in 1 .. Len(q) /\ r[n] = q[n + 1] /\ n \in 0 .. Len(r) /\ n - 1 \in 0 .. Len(r)
        /\ (n + 1) - 1 = n /\ (n - 1) + 1 = n
    BY <1>2
  <2>2. u[n] = v[n + 1] /\ u[n - 1] = v[n]
    BY <2>1, <1>4
  <2>3. Guard(e, v[(n + 1) - 1], q[n + 1]) /\ v[n + 1] = Step(v[(n + 1) - 1], q[n + 1])
    BY <2>1, <1>1
  <2> QED
    BY <2>1, <2>2, <2>3
<1>9. Leads(e, v[1], r, b)
  BY <1>4, <1>6, <1>7, <1>8 DEF Leads
<1> QED
  BY <1>2, <1>5, <1>9 DEF r

-----------------------------------------------------------------------------
(* Types. *)

EntrySet ==
  {x \in [what : {"none", "upstream", "downstream"}, iface : Ifaces \cup {NoIface},
          fams : SUBSET Families] :
     /\ x.what = "upstream" => x.iface \in Uplinks /\ x.fams # {}
     /\ x.what = "downstream" => x.iface = Ap
     /\ x.what = "none" => x = NoEntry}
Places == 0 .. CacheSize - 1
WanSet == [ip : SUBSET Families, gw : SUBSET Families, neigh : SUBSET Families,
           header : BOOLEAN, partial : SUBSET Families, active : SUBSET Families,
           isGw : BOOLEAN, rules : [Families -> Nat]]
ApSet == [on : BOOLEAN, ip : SUBSET Families, up : SUBSET Families, down : SUBSET Families,
          ul : [Families -> SUBSET {"none", "sta", "q6"}]]
IpacmSet == [gw : Uplinks \cup {NoIface}, up : SUBSET Families, latest : Places,
             valid : BOOLEAN, cache : [Places -> EntrySet], nat : [Ifaces -> SUBSET Families],
             wans : Seq(Uplinks), wan : [Uplinks -> WanSet], wanUp : SUBSET Families,
             mode : {"none", "sta", "q6"}, ap : ApSet,
             int : Seq(IntEvents), ext : Seq(ExtEvents)]
(* An interface has one instance. *)
Distinct(q) == \A k, l \in 1 .. Len(q) : q[k] = q[l] => k = l

(* All but the uplinks and the events they post is the same.                   *)
Rest(s) == <<s.gw, s.up, s.latest, s.valid, s.cache, s.nat, s.wans, s.ap, s.ext>>

(* The wan_up flags and the rules follow what the uplink i gets.               *)
Grows(s, t, i) ==
  /\ \A j \in Uplinks : j # i => t.wan[j] = s.wan[j]
  /\ \A f \in Families :
       /\ f \in s.wan[i].active => f \in t.wan[i].active
       /\ f \in s.wanUp => f \in t.wanUp
       /\ f \in t.wanUp => f \in s.wanUp \/ f \in t.wan[i].active
       /\ f \in t.wan[i].active =>
            \/ t.wan[i].rules[f] = file /\ f \in t.wanUp
            \/ t.wan[i].rules[f] = s.wan[i].rules[f] /\ f \in s.wan[i].active
Own(s, t, i) == t \in IpacmSet /\ Rest(t) = Rest(s) /\ Grows(s, t, i)

(* Own steps compose.                                                          *)
LEMMA OwnTrans ==
  ASSUME NEW s, NEW t, NEW u, NEW i \in Uplinks, Own(s, t, i), Own(t, u, i)
  PROVE  Own(s, u, i)
<1>1. Rest(u) = Rest(s) /\ u \in IpacmSet
  BY DEF Own
<1>2. \A j \in Uplinks : j # i => u.wan[j] = s.wan[j]
  BY DEF Own, Grows
<1>3. ASSUME NEW f \in Families
      PROVE  /\ f \in s.wan[i].active => f \in u.wan[i].active
             /\ f \in s.wanUp => f \in u.wanUp
             /\ f \in u.wanUp => f \in s.wanUp \/ f \in u.wan[i].active
             /\ f \in u.wan[i].active =>
                  \/ u.wan[i].rules[f] = file /\ f \in u.wanUp
                  \/ u.wan[i].rules[f] = s.wan[i].rules[f] /\ f \in s.wan[i].active
  BY DEF Own, Grows
<1> QED
  BY <1>1, <1>2, <1>3 DEF Own, Grows

(* What is seen of an uplink.                                                  *)
LEMMA SeenFacts ==
  ASSUME NEW w \in WanSet
  PROVE  /\ Seen(w) \in SeenSet
         /\ Seen(w).ip = w.ip /\ Seen(w).gw = w.gw /\ Seen(w).neigh = w.neigh
         /\ Seen(w).header = w.header /\ Seen(w).partial = w.partial
         /\ Seen(w).active = w.active /\ Seen(w).isGw = w.isGw
  BY DEF Seen, SeenSet, WanSet

(* A change of one uplink only.                                                *)
LEMMA WanChange ==
  ASSUME NEW s \in IpacmSet, NEW i \in Uplinks, NEW w \in WanSet
  PROVE  LET t == [s EXCEPT !.wan[i] = w]
         IN  /\ t \in IpacmSet /\ Rest(t) = Rest(s) /\ t.wan[i] = w
             /\ \A j \in Uplinks : j # i => t.wan[j] = s.wan[j]
             /\ t.wanUp = s.wanUp /\ t.mode = s.mode /\ t.int = s.int
             /\ s.wan[i] \in WanSet
  BY DEF IpacmSet, Rest

(* RouteUp does to an uplink what UpW says, and Own.                           *)
LEMMA RouteUpFacts ==
  ASSUME NEW s \in IpacmSet, NEW i \in Uplinks, NEW f \in Families, file \in Nat
  PROVE  /\ Own(s, RouteUp(s, i, f), i)
         /\ Seen(RouteUp(s, i, f).wan[i]) = UpW(Seen(s.wan[i]), i, f)
<1> DEFINE w == s.wan[i]
           t == RouteUp(s, i, f)
<1>1. w \in WanSet /\ Seen(w) \in SeenSet /\ Seen(w).header = w.header
  BY SeenFacts DEF IpacmSet
<1>2. Kind(i) \in {"sta", "q6"} /\ (Kind(i) = "sta" <=> i \in Stas)
  BY DEF Kind
<1>3. CASE i \in Stas /\ ~w.header
  <2> DEFINE x == [w EXCEPT !.isGw = TRUE, !.partial = @ \cup {f}]
  <2>1. t = [[s EXCEPT !.wan[i] = x] EXCEPT !.mode = Kind(i)]
    BY <1>2, <1>3, <1>1 DEF RouteUp, IpacmSet, WanSet
  <2>2. x \in WanSet /\ x.active = w.active /\ x.rules = w.rules
    BY <1>1 DEF WanSet
  <2>3. Seen(x) = UpW(Seen(w), i, f)
    BY <1>1, <1>3 DEF Seen, UpW, WanSet
  <2> HIDE DEF x
  <2>4. t \in IpacmSet /\ Rest(t) = Rest(s) /\ t.wan[i] = x /\ t.wanUp = s.wanUp
        /\ \A j \in Uplinks : j # i => t.wan[j] = s.wan[j]
    <3> DEFINE y == [s EXCEPT !.wan[i] = x]
    <3>1. y \in IpacmSet /\ Rest(y) = Rest(s) /\ y.wan[i] = x /\ y.wanUp = s.wanUp
          /\ \A j \in Uplinks : j # i => y.wan[j] = s.wan[j]
      BY <2>2, WanChange
    <3> HIDE DEF y
    <3>2. t = [y EXCEPT !.mode = Kind(i)]
      BY <2>1 DEF y
    <3> HIDE DEF t
    <3>3. t \in IpacmSet /\ Rest(t) = Rest(y) /\ t.wan = y.wan /\ t.wanUp = y.wanUp
      BY <3>1, <3>2, <1>2 DEF IpacmSet, Rest
    <3> QED
      BY <3>1, <3>3
  <2> QED
    BY <2>2, <2>3, <2>4 DEF Own, Grows
<1>4. CASE ~(i \in Stas /\ ~w.header)
  <2> DEFINE g == [s EXCEPT !.wan[i].isGw = TRUE, !.mode = Kind(i)]
             n == InstallRules(g, i, f)
             m == [n EXCEPT !.wan[i].active = @ \cup {f}, !.wanUp = @ \cup {f}]
             ev == Ev("wanUp", i, f)
  <2>1. t = Internal(m, ev)
    BY <1>2, <1>4, <1>1 DEF RouteUp
  <2>2. /\ g \in IpacmSet /\ Rest(g) = Rest(s) /\ g.wanUp = s.wanUp
        /\ g.wan[i] = [w EXCEPT !.isGw = TRUE]
        /\ \A j \in Uplinks : j # i => g.wan[j] = s.wan[j]
    BY <1>1, <1>2 DEF IpacmSet, Rest, WanSet
  <2> HIDE DEF g
  <2>3. /\ n \in IpacmSet /\ Rest(n) = Rest(s) /\ n.wanUp = s.wanUp
        /\ n.wan[i] = [g.wan[i] EXCEPT !.rules[f] = file]
        /\ \A j \in Uplinks : j # i => n.wan[j] = s.wan[j]
    <3>1. [g.wan[i] EXCEPT !.rules[f] = file] \in WanSet
      BY <2>2, <1>1 DEF WanSet
    <3>2. n = [g EXCEPT !.wan[i] = [g.wan[i] EXCEPT !.rules[f] = file]]
      BY <2>2 DEF InstallRules, IpacmSet, WanSet
    <3> QED
      BY <2>2, <3>1, <3>2, WanChange
  <2> HIDE DEF n
  <2>4. /\ m \in IpacmSet /\ Rest(m) = Rest(s) /\ m.wanUp = s.wanUp \cup {f}
        /\ m.wan[i] = [n.wan[i] EXCEPT !.active = @ \cup {f}]
        /\ \A j \in Uplinks : j # i => m.wan[j] = s.wan[j]
    <3> DEFINE x == [n.wan[i] EXCEPT !.active = @ \cup {f}]
               y == [n EXCEPT !.wan[i] = x]
    <3>0. n.wan[i] \in WanSet
      BY <2>3 DEF IpacmSet
    <3>1. x \in WanSet
      BY <3>0 DEF WanSet
    <3>2. m = [y EXCEPT !.wanUp = @ \cup {f}]
      BY <2>3, <3>0 DEF IpacmSet, WanSet
    <3> HIDE DEF x
    <3>3. y \in IpacmSet /\ Rest(y) = Rest(s) /\ y.wan[i] = x /\ y.wanUp = s.wanUp
          /\ \A j \in Uplinks : j # i => y.wan[j] = s.wan[j]
      BY <2>3, <3>1, WanChange
    <3> HIDE DEF y, m
    <3> DEFINE z == y.wanUp \cup {f}
    <3>5. z \in SUBSET Families
      BY <3>3 DEF IpacmSet
    <3>6. m = [y EXCEPT !.wanUp = z]
      BY <3>2
    <3> HIDE DEF z
    <3>7. m \in IpacmSet /\ Rest(m) = Rest(y) /\ m.wan = y.wan /\ m.wanUp = z
      BY <3>6, <3>3, <3>5 DEF IpacmSet, Rest
    <3>4. m \in IpacmSet /\ Rest(m) = Rest(y) /\ m.wan = y.wan /\ m.wanUp = y.wanUp \cup {f}
      BY <3>7 DEF z
    <3> QED
      BY <3>3, <3>4 DEF x
  <2> HIDE DEF m
  <2>5. /\ t \in IpacmSet /\ Rest(t) = Rest(s) /\ t.wanUp = s.wanUp \cup {f}
        /\ t.wan = m.wan
    <3>1. ev \in IntEvents
      BY UplinkKinds DEF Ev, IntEvents
    <3> HIDE DEF ev
    <3>2. Append(m.int, ev) \in Seq(IntEvents)
      BY <3>1, <2>4 DEF IpacmSet
    <3> QED
      BY <2>1, <2>4, <3>2 DEF Internal, IpacmSet, Rest
  <2> HIDE DEF t
  <2>6. t.wan[i] = [w EXCEPT !.isGw = TRUE, !.rules[f] = file, !.active = @ \cup {f}]
    BY <2>2, <2>3, <2>4, <2>5, <1>1 DEF WanSet
  <2>7. t.wan[i].active = w.active \cup {f} /\ t.wan[i].rules[f] = file
        /\ \A h \in Families : h # f => t.wan[i].rules[h] = w.rules[h]
    BY <2>6, <1>1 DEF WanSet
  <2>8. Seen(t.wan[i]) = UpW(Seen(w), i, f)
    BY <2>6, <1>1, <1>4 DEF Seen, UpW, WanSet
  <2> QED
    BY <2>4, <2>5, <2>7, <2>8 DEF Own, Grows, t
<1> QED
  BY <1>3, <1>4

(* Own steps that change neither the routes carried nor the rules.             *)
LEMMA OwnSame ==
  ASSUME NEW s \in IpacmSet, NEW i \in Uplinks, NEW w \in WanSet,
         w.active = s.wan[i].active, w.rules = s.wan[i].rules
  PROVE  Own(s, [s EXCEPT !.wan[i] = w], i) /\ [s EXCEPT !.wan[i] = w].wan[i] = w
<1> DEFINE t == [s EXCEPT !.wan[i] = w]
<1>1. t \in IpacmSet /\ Rest(t) = Rest(s) /\ t.wan[i] = w /\ t.wanUp = s.wanUp
      /\ \A j \in Uplinks : j # i => t.wan[j] = s.wan[j]
  BY WanChange
<1> HIDE DEF t
<1>2. Own(s, t, i)
  BY <1>1 DEF Own, Grows
<1> QED
  BY <1>1, <1>2 DEF t

(* StaHeader does to an uplink what HdrW says, and Own.                        *)
LEMMA StaHeaderFacts ==
  ASSUME NEW s \in IpacmSet, NEW i \in Uplinks, file \in Nat
  PROVE  /\ Own(s, StaHeader(s, i), i)
         /\ Seen(StaHeader(s, i).wan[i]) = HdrW(Seen(s.wan[i]), i)
<1> DEFINE w == s.wan[i]
           r == Seen(w)
           t == StaHeader(s, i)
           known == w.gw \ w.neigh = {}
           Hdr(x) == [s EXCEPT !.wan[i].header = x]
<1>1. w \in WanSet
  BY DEF IpacmSet
<1>2. r \in SeenSet /\ r.gw = w.gw /\ r.neigh = w.neigh /\ r.header = w.header
      /\ r.partial = w.partial
  BY <1>1, SeenFacts
<1>3. ASSUME NEW x \in BOOLEAN
      PROVE  Own(s, Hdr(x), i) /\ Seen(Hdr(x).wan[i]) = [r EXCEPT !.header = x]
  <2> DEFINE y == [w EXCEPT !.header = x]
  <2>1. y \in WanSet /\ y.active = w.active /\ y.rules = w.rules
    BY <1>1 DEF WanSet
  <2>2. Seen(y) = [r EXCEPT !.header = x]
    BY <1>1 DEF Seen, WanSet
  <2>3. Hdr(x) = [s EXCEPT !.wan[i] = y]
    BY DEF IpacmSet
  <2> HIDE DEF y, Hdr
  <2>4. Own(s, [s EXCEPT !.wan[i] = y], i) /\ [s EXCEPT !.wan[i] = y].wan[i] = y
    BY <2>1, OwnSame
  <2> QED
    BY <2>2, <2>3, <2>4
<1> HIDE DEF Hdr
<1>4. CASE w.header \/ "v4" \in w.gw \ w.neigh
  <2>1. t = s
    BY <1>4 DEF StaHeader
  <2>2. HdrW(r, i) = r
    BY <1>4, <1>2 DEF HdrW
  <2>3. Own(s, s, i)
    BY DEF Own, Grows, IpacmSet
  <2> QED
    BY <2>1, <2>2, <2>3
<1>5. CASE ~(w.header \/ "v4" \in w.gw \ w.neigh) /\ "v6" \in w.gw \ w.neigh
  <2> DEFINE x == "v4" \in w.gw
  <2>1. t = Hdr(x)
    BY <1>5 DEF StaHeader, Hdr
  <2>2. HdrW(r, i) = [r EXCEPT !.header = x]
    BY <1>5, <1>2 DEF HdrW
  <2>3. x \in BOOLEAN
    OBVIOUS
  <2> HIDE DEF x
  <2> QED
    BY <2>1, <2>2, <2>3, <1>3
<1>6. CASE ~(w.header \/ "v4" \in w.gw \ w.neigh) /\ "v6" \notin w.gw \ w.neigh
  <2> DEFINE x == w.gw # {}
             t0 == Hdr(x)
             r0 == [r EXCEPT !.header = x]
             t4 == IF "v4" \in w.partial THEN RouteUp(t0, i, "v4") ELSE t0
             r4 == IF "v4" \in w.partial THEN UpW(r0, i, "v4") ELSE r0
             t6 == IF "v6" \in w.partial THEN RouteUp(t4, i, "v6") ELSE t4
             r6 == IF "v6" \in w.partial THEN UpW(r4, i, "v6") ELSE r4
  <2>1. t = t6
    BY <1>6 DEF StaHeader, ForEach, Hdr
  <2>2. HdrW(r, i) = r6
    BY <1>6, <1>2 DEF HdrW, ForEach
  <2>3. x \in BOOLEAN
    OBVIOUS
  <2> HIDE DEF x
  <2>4. Own(s, t0, i) /\ Seen(t0.wan[i]) = r0
    BY <2>3, <1>3
  <2> HIDE DEF t0, r0
  <2>5. Own(s, t4, i) /\ Seen(t4.wan[i]) = r4
    <3>1. CASE "v4" \in w.partial
      <4>1. Own(t0, RouteUp(t0, i, "v4"), i)
            /\ Seen(RouteUp(t0, i, "v4").wan[i]) = UpW(Seen(t0.wan[i]), i, "v4")
        <5>1. t0 \in IpacmSet /\ "v4" \in Families
          BY <2>4, FamilyNames DEF Own
        <5> QED
          BY <5>1, RouteUpFacts
      <4> HIDE DEF t
      <4> QED
        BY <3>1, <4>1, <2>4, OwnTrans
    <3> QED
      BY <3>1, <2>4
  <2> HIDE DEF t4, r4
  <2>6. Own(s, t6, i) /\ Seen(t6.wan[i]) = r6
    <3>1. CASE "v6" \in w.partial
      <4>1. Own(t4, RouteUp(t4, i, "v6"), i)
            /\ Seen(RouteUp(t4, i, "v6").wan[i]) = UpW(Seen(t4.wan[i]), i, "v6")
        <5>1. t4 \in IpacmSet /\ "v6" \in Families
          BY <2>5, FamilyNames DEF Own
        <5> QED
          BY <5>1, RouteUpFacts
      <4> QED
        BY <3>1, <4>1, <2>5, OwnTrans
    <3> QED
      BY <3>1, <2>5
  <2> QED
    BY <2>1, <2>2, <2>6
<1> QED
  BY <1>4, <1>5, <1>6

(* A route added to the instance itself.                                       *)
LEMMA OwnRouteAddFacts ==
  ASSUME NEW s \in IpacmSet, NEW i \in Uplinks, NEW f \in Families, file \in Nat
  PROVE  /\ Own(s, OwnRouteAdd(s, i, f), i)
         /\ Seen(OwnRouteAdd(s, i, f).wan[i]) = AddW(Seen(s.wan[i]), i, f)
<1> DEFINE w == s.wan[i]
           r == Seen(w)
           w0 == [w EXCEPT !.gw = @ \cup {f}]
           s0 == [s EXCEPT !.wan[i].gw = @ \cup {f}]
           r0 == [r EXCEPT !.gw = @ \cup {f}]
           h == StaHeader(s0, i)
           t == OwnRouteAdd(s, i, f)
<1>1. w \in WanSet
  BY DEF IpacmSet
<1>2. r \in SeenSet /\ r.ip = w.ip /\ r.active = w.active
  BY <1>1, SeenFacts
<1>3. w0 \in WanSet /\ w0.active = w.active /\ w0.rules = w.rules
  BY <1>1 DEF WanSet
<1>4. Seen(w0) = r0
  BY <1>1 DEF Seen, WanSet
<1>5. s0 = [s EXCEPT !.wan[i] = w0]
  BY DEF IpacmSet
<1> HIDE DEF w0
<1>6. Own(s, s0, i) /\ Seen(s0.wan[i]) = r0 /\ s0 \in IpacmSet
  <2>1. Own(s, [s EXCEPT !.wan[i] = w0], i) /\ [s EXCEPT !.wan[i] = w0].wan[i] = w0
    BY <1>3, OwnSame
  <2> QED
    BY <2>1, <1>4, <1>5 DEF Own
<1>7. t = IF f \notin w.ip \/ f \in w.active THEN s
          ELSE IF f \in h.wan[i].active THEN h ELSE RouteUp(h, i, f)
  BY DEF OwnRouteAdd
<1>8. AddW(r, i, f) = IF f \notin r.ip \/ f \in r.active THEN r
                      ELSE IF f \in HdrW(r0, i).active THEN HdrW(r0, i)
                           ELSE UpW(HdrW(r0, i), i, f)
  BY DEF AddW
<1> HIDE DEF s0, r0
<1>9. Own(s0, h, i) /\ Seen(h.wan[i]) = HdrW(r0, i)
  BY <1>6, StaHeaderFacts
<1>10. h \in IpacmSet /\ h.wan[i] \in WanSet
  BY <1>9 DEF Own, IpacmSet
<1> HIDE DEF h
<1>11. Own(s, h, i) /\ HdrW(r0, i).active = h.wan[i].active
  BY <1>6, <1>9, <1>10, OwnTrans, SeenFacts
<1>12. Own(h, RouteUp(h, i, f), i) /\ Seen(RouteUp(h, i, f).wan[i]) = UpW(HdrW(r0, i), i, f)
  BY <1>9, <1>10, RouteUpFacts
<1>13. Own(s, RouteUp(h, i, f), i)
  BY <1>11, <1>12, OwnTrans
<1>14. Own(s, s, i)
  BY DEF Own, Grows, IpacmSet
<1> HIDE DEF t
<1> QED
  BY <1>2, <1>7, <1>8, <1>9, <1>11, <1>12, <1>13, <1>14 DEF t

-----------------------------------------------------------------------------
(* The handlers of the uplinks' events.  Each does to the view what Step says, *)
(* keeps the wan_up flags right and leaves no rules but those there were or    *)
(* those of the file.                                                          *)

FlagsOK(s) == \A f \in Families : f \in s.wanUp <=> \E i \in Uplinks : f \in s.wan[i].active
RulesFrom(s, t) ==
  \A i \in Uplinks : \A f \in t.wan[i].active :
    t.wan[i].rules[f] = file \/ (f \in s.wan[i].active /\ t.wan[i].rules[f] = s.wan[i].rules[f])
Current(s) == \A i \in Uplinks : \A f \in s.wan[i].active : s.wan[i].rules[f] = file
Handled(s, t, ev) ==
  /\ t \in IpacmSet /\ Distinct(t.wans) /\ View(t) = Step(View(s), ev)
  /\ Steady(env) /\ FlagsOK(s) => FlagsOK(t)
  /\ RulesFrom(s, t)
  /\ Steady(env) /\ ev.what = "firewall" => Current(t)
(* What the HAL knows is the same, but interfaces may be configured no more.   *)
HalKept(s, t) ==
  /\ t.gw = s.gw /\ t.up = s.up /\ t.cache = s.cache /\ t.latest = s.latest
  /\ \A i \in Ifaces : t.nat[i] \subseteq s.nat[i]

(* What the view shows of a state of the daemon.                             *)
LEMMA ViewFacts ==
  ASSUME NEW s \in IpacmSet
  PROVE  /\ View(s) \in Views /\ View(s).inst = ToSet(s.wans)
         /\ \A i \in Uplinks : View(s).wan[i] = Seen(s.wan[i]) /\ s.wan[i] \in WanSet
         /\ \A i \in Uplinks : View(s).wan[i].active = s.wan[i].active
         /\ \A i : i \in View(s).inst <=> Instance(s, i)
<1>1. \A i \in Uplinks : s.wan[i] \in WanSet
  BY DEF IpacmSet
<1>2. \A i \in Uplinks : Seen(s.wan[i]) \in SeenSet /\ Seen(s.wan[i]).active = s.wan[i].active
  BY <1>1, SeenFacts
<1>3. ToSet(s.wans) \subseteq Uplinks
  BY DEF ToSet, IpacmSet
<1> QED
  BY <1>1, <1>2, <1>3 DEF View, Views, Instance

(* The same instance in every field but the rules is the same to see.          *)
LEMMA ViewsEqual ==
  ASSUME NEW a \in Views, NEW b \in Views, a.inst = b.inst,
         \A i \in Uplinks : a.wan[i] = b.wan[i]
  PROVE  a = b
<1>1. a.wan = b.wan
  BY DEF Views
<1> QED
  BY <1>1 DEF Views

(* An uplink set to what it is already.                                      *)
LEMMA ViewSame ==
  ASSUME NEW a \in Views, NEW i \in Uplinks, NEW x, x = a.wan[i]
  PROVE  [a EXCEPT !.wan[i] = x] = a
<1>1. x \in SeenSet
  BY DEF Views
<1>2. [a EXCEPT !.wan[i] = x] \in Views /\ [a EXCEPT !.wan[i] = x].inst = a.inst
      /\ \A j \in Uplinks : [a EXCEPT !.wan[i] = x].wan[j] = a.wan[j]
  BY <1>1, ViewChange
<1> QED
  BY <1>2, ViewsEqual

(* What an own step does to the view, the flags and the rules.                 *)
LEMMA OwnHandled ==
  ASSUME NEW s \in IpacmSet, NEW t, NEW i \in Uplinks, Own(s, t, i)
  PROVE  /\ t \in IpacmSet /\ t.wans = s.wans
         /\ View(t) = [View(s) EXCEPT !.wan[i] = Seen(t.wan[i])]
         /\ FlagsOK(s) => FlagsOK(t)
         /\ RulesFrom(s, t)
         /\ HalKept(s, t) /\ t.ext = s.ext /\ t.nat = s.nat /\ t.valid = s.valid
<1>1. t \in IpacmSet /\ Grows(s, t, i)
  BY DEF Own
<1>2. t.wans = s.wans /\ t.ext = s.ext /\ t.nat = s.nat /\ t.gw = s.gw /\ t.up = s.up
      /\ t.cache = s.cache /\ t.latest = s.latest /\ t.valid = s.valid
  BY DEF Own, Rest
<1>3. HalKept(s, t)
  BY <1>2 DEF HalKept
<1>4. View(t) = [View(s) EXCEPT !.wan[i] = Seen(t.wan[i])]
  <2> DEFINE x == Seen(t.wan[i])
  <2>1. x \in SeenSet
    BY <1>1, ViewFacts, SeenFacts
  <2> HIDE DEF x
  <2> DEFINE b == [View(s) EXCEPT !.wan[i] = x]
  <2>2. View(s) \in Views /\ View(t) \in Views /\ View(t).inst = View(s).inst
    BY <1>1, <1>2, ViewFacts
  <2>3. b \in Views /\ b.inst = View(s).inst /\ b.wan[i] = x
        /\ \A j \in Uplinks : j # i => b.wan[j] = View(s).wan[j]
    BY <2>1, <2>2, ViewChange
  <2> HIDE DEF b
  <2>4. ASSUME NEW j \in Uplinks PROVE View(t).wan[j] = b.wan[j]
    <3>1. View(t).wan[j] = Seen(t.wan[j]) /\ View(s).wan[j] = Seen(s.wan[j])
      BY <1>1, ViewFacts
    <3> QED
      BY <3>1, <2>3, <1>1 DEF x, Grows
  <2>5. View(t) = b
    BY <2>2, <2>3, <2>4, ViewsEqual
  <2> QED
    BY <2>5 DEF b, x
<1>5. FlagsOK(s) => FlagsOK(t)
  <2> SUFFICES ASSUME FlagsOK(s), NEW f \in Families
               PROVE  f \in t.wanUp <=> \E j \in Uplinks : f \in t.wan[j].active
    BY DEF FlagsOK
  <2>1. ASSUME f \in t.wanUp PROVE \E j \in Uplinks : f \in t.wan[j].active
    <3>1. f \in s.wanUp \/ f \in t.wan[i].active
      BY <2>1, <1>1 DEF Grows
    <3>2. CASE f \in s.wanUp
      <4>1. PICK j \in Uplinks : f \in s.wan[j].active
        BY <3>2 DEF FlagsOK
      <4> QED
        BY <4>1, <1>1 DEF Grows
    <3> QED
      BY <3>1, <3>2
  <2>2. ASSUME NEW j \in Uplinks, f \in t.wan[j].active PROVE f \in t.wanUp
    <3>1. CASE j = i
      BY <3>1, <2>2, <1>1 DEF Grows, FlagsOK
    <3>2. CASE j # i
      <4>1. f \in s.wan[j].active
        BY <3>2, <2>2, <1>1 DEF Grows
      <4>2. f \in s.wanUp
        BY <4>1 DEF FlagsOK
      <4> QED
        BY <4>2, <1>1 DEF Grows
    <3> QED
      BY <3>1, <3>2
  <2> QED
    BY <2>1, <2>2
<1>6. RulesFrom(s, t)
  <2> SUFFICES ASSUME NEW j \in Uplinks, NEW f \in t.wan[j].active
               PROVE  t.wan[j].rules[f] = file
                        \/ (f \in s.wan[j].active /\ t.wan[j].rules[f] = s.wan[j].rules[f])
    BY DEF RulesFrom
  <2>1. f \in Families
    <3>1. t.wan[j].active \in SUBSET Families
      BY <1>1 DEF IpacmSet, WanSet
    <3> QED
      BY <3>1
  <2>2. CASE j = i
    BY <2>1, <2>2, <1>1 DEF Grows
  <2>3. CASE j # i
    BY <2>3, <1>1 DEF Grows
  <2> QED
    BY <2>2, <2>3
<1> QED
  BY <1>1, <1>2, <1>3, <1>4, <1>5, <1>6

(* Nothing happens: the event finds no instance or nothing to do.              *)
LEMMA NothingHandled ==
  ASSUME NEW s \in IpacmSet, NEW ev, Distinct(s.wans), Step(View(s), ev) = View(s),
         ev.what # "firewall"
  PROVE  Handled(s, s, ev) /\ HalKept(s, s)
  BY DEF Handled, RulesFrom, HalKept

(* An own step that does to the view what Step says.                           *)
LEMMA OwnHandles ==
  ASSUME NEW s \in IpacmSet, NEW t, NEW i \in Uplinks, NEW ev, Own(s, t, i), Distinct(s.wans),
         ev.what # "firewall", Step(View(s), ev) = [View(s) EXCEPT !.wan[i] = Seen(t.wan[i])]
  PROVE  Handled(s, t, ev) /\ HalKept(s, t) /\ t.ext = s.ext
<1>1. /\ t \in IpacmSet /\ t.wans = s.wans
      /\ View(t) = [View(s) EXCEPT !.wan[i] = Seen(t.wan[i])]
      /\ FlagsOK(s) => FlagsOK(t)
      /\ RulesFrom(s, t)
      /\ HalKept(s, t) /\ t.ext = s.ext
  BY OwnHandled
<1> QED
  BY <1>1 DEF Handled

(* The other instances carry nothing when a route is added: they do nothing.   *)
LEMMA NoOther ==
  ASSUME NEW s \in IpacmSet, NEW others, NEW f,
         \A j \in Uplinks : j \in others => f \notin s.wan[j].active, others \subseteq Uplinks
  PROVE  OtherRouteAdd(s, others, f) = s
<1>1. {j \in others : f \in s.wan[j].active} = {}
  OBVIOUS
<1>2. OtherRouteAdd(s, others, f) = [s EXCEPT !.wan = [j \in Uplinks |-> s.wan[j]], !.wanUp = @]
  BY <1>1 DEF OtherRouteAdd
<1>3. [j \in Uplinks |-> s.wan[j]] = s.wan
  BY DEF IpacmSet
<1>4. [s EXCEPT !.wan = s.wan, !.wanUp = s.wanUp] = s
  BY DEF IpacmSet
<1> QED
  BY <1>2, <1>3, <1>4

(* Only the interface the route is for takes it: the others carry nothing.     *)
LEMMA RouteAddOwn ==
  ASSUME NEW s \in IpacmSet, NEW i \in Uplinks, NEW f \in Families, file \in Nat,
         RouteGuard(env, View(s), i, f)
  PROVE  RouteAdd(s, i, f) = IF Instance(s, i) THEN OwnRouteAdd(s, i, f) ELSE s
<1> DEFINE t == RouteAdd(s, i, f)
           place(j) == CHOOSE k \in DOMAIN s.wans : s.wans[k] = j
           older == {j \in ToSet(s.wans) : Instance(s, i) => place(j) < place(i)}
           told == OtherRouteAdd(s, older, f)
           younger == ToSet(s.wans) \ (older \cup {i})
           own == IF Instance(s, i) THEN OwnRouteAdd(told, i, f) ELSE told
<1>1. t = OtherRouteAdd(own, younger, f)
  BY DEF RouteAdd
<1>2. i \notin older /\ older \subseteq Uplinks /\ younger \subseteq Uplinks /\ i \notin younger
  <2>1. ToSet(s.wans) \subseteq Uplinks
    BY DEF ToSet, IpacmSet
  <2>2. i \notin older
    <3>1. CASE Instance(s, i)
      <4>1. DOMAIN s.wans \subseteq Nat
        BY DEF IpacmSet
      <4>2. \E k \in DOMAIN s.wans : s.wans[k] = i
        BY <3>1 DEF Instance, ToSet
      <4>3. place(i) \in Nat
        BY <4>1, <4>2
      <4> HIDE DEF place
      <4> QED
        BY <4>3, <3>1
    <3>2. CASE ~Instance(s, i)
      BY <3>2 DEF Instance
    <3> QED
      BY <3>1, <3>2
  <2> QED
    BY <2>1, <2>2
<1> HIDE DEF older
<1>3. ASSUME NEW j \in Uplinks, j # i PROVE f \notin s.wan[j].active
  <2>1. Held(View(s).wan[j]) = {} /\ View(s).wan[j].active = s.wan[j].active
    BY <1>3, ViewFacts DEF RouteGuard
  <2> QED
    BY <2>1 DEF Held
<1>4. told = s
  <2>1. \A j \in Uplinks : j \in older => f \notin s.wan[j].active
    BY <1>2, <1>3
  <2> QED
    BY <2>1, <1>2, NoOther
<1> HIDE DEF told
<1>5. own \in IpacmSet /\ \A j \in Uplinks : j # i => own.wan[j] = s.wan[j]
  <2>1. Own(s, OwnRouteAdd(s, i, f), i)
    BY OwnRouteAddFacts
  <2> QED
    BY <1>4, <2>1 DEF Own, Grows
<1>6. \A j \in Uplinks : j \in younger => f \notin own.wan[j].active
  BY <1>2, <1>3, <1>5
<1>7. own = IF Instance(s, i) THEN OwnRouteAdd(s, i, f) ELSE s
  BY <1>4
<1> HIDE DEF own, younger, t
<1>8. OtherRouteAdd(own, younger, f) = own
  BY <1>2, <1>5, <1>6, NoOther
<1> QED
  BY <1>1, <1>7, <1>8 DEF t

(* A route is added: every instance takes the event, as its view does.       *)
LEMMA RouteAddHandled ==
  ASSUME NEW s \in IpacmSet, NEW i \in Uplinks, NEW f \in Families, NEW ev, file \in Nat,
         Distinct(s.wans), ev.what = "routeAdd", ev.iface = i, ev.fam = f,
         ViewOK(env, View(s)), Guard(env, View(s), ev)
  PROVE  LET t == RouteAdd(s, i, f) IN Handled(s, t, ev) /\ HalKept(s, t) /\ t.ext = s.ext
<1> DEFINE t == RouteAdd(s, i, f)
<1>1. RouteGuard(env, View(s), i, f)
  BY DEF Guard
<1>2. t = IF Instance(s, i) THEN OwnRouteAdd(s, i, f) ELSE s
  BY <1>1, RouteAddOwn
<1> HIDE DEF t
<1>3. CASE Instance(s, i)
  <2> DEFINE u == OwnRouteAdd(s, i, f)
  <2>1. Own(s, u, i) /\ Seen(u.wan[i]) = AddW(Seen(s.wan[i]), i, f)
    BY OwnRouteAddFacts
  <2>2. t = u
    BY <1>2, <1>3
  <2> HIDE DEF u
  <2>3. Step(View(s), ev) = [View(s) EXCEPT !.wan[i] = Seen(u.wan[i])]
    <3>1. i \in View(s).inst /\ View(s).wan[i] = Seen(s.wan[i])
      BY <1>3, ViewFacts
    <3> QED
      BY <3>1, <2>1 DEF Step
  <2>4. Handled(s, u, ev) /\ HalKept(s, u) /\ u.ext = s.ext
    BY <2>1, <2>3, OwnHandles
  <2> QED
    BY <2>2, <2>4 DEF t
<1>4. CASE ~Instance(s, i)
  <2>1. t = s
    BY <1>2, <1>4
  <2>2. i \notin View(s).inst
    BY <1>4, ViewFacts
  <2>3. Step(View(s), ev) = View(s)
    BY <2>2 DEF Step
  <2>4. Handled(s, s, ev) /\ HalKept(s, s)
    BY <2>3, NothingHandled
  <2> QED
    BY <2>1, <2>4 DEF t
<1> QED
  BY <1>3, <1>4

(* A neighbour is seen when it is known.                                     *)
LEMMA SeenNeigh ==
  ASSUME NEW w \in WanSet, NEW f \in Families
  PROVE  Seen([w EXCEPT !.neigh = @ \cup {f}]) = [Seen(w) EXCEPT !.neigh = @ \cup {f}]
  BY DEF Seen, WanSet

(* A gateway becomes a known neighbour: the header may be complete.          *)
LEMMA NeighbourHandled ==
  ASSUME NEW s \in IpacmSet, NEW i \in Stas, NEW f \in Families, NEW ev, file \in Nat,
         Distinct(s.wans), ev.what = "neighbour", ev.iface = i, ev.fam = f
  PROVE  LET t == Neighbour(s, i, f) IN Handled(s, t, ev) /\ HalKept(s, t) /\ t.ext = s.ext
<1> DEFINE w == s.wan[i]
           w0 == [w EXCEPT !.neigh = @ \cup {f}]
           s0 == [s EXCEPT !.wan[i].neigh = @ \cup {f}]
           t == Neighbour(s, i, f)
<1>1. i \in Uplinks
  BY UplinkKinds
<1>2. w \in WanSet /\ View(s).wan[i] = Seen(w) /\ Seen(w).neigh = w.neigh /\ View(s) \in Views
      /\ (i \in View(s).inst <=> Instance(s, i))
  BY <1>1, ViewFacts, SeenFacts
<1>3. CASE ~Instance(s, i) \/ f \in w.neigh
  <2>1. t = s
    BY <1>3 DEF Neighbour
  <2>2. Step(View(s), ev) = View(s)
    <3>1. CASE ~Instance(s, i)
      BY <3>1, <1>2 DEF Step
    <3>2. CASE Instance(s, i) /\ f \in w.neigh
      <4>1. NeighW(View(s).wan[i], i, f) = View(s).wan[i]
        BY <3>2, <1>2 DEF NeighW
      <4>2. Step(View(s), ev) = [View(s) EXCEPT !.wan[i] = NeighW(View(s).wan[i], i, f)]
        BY <3>2, <1>2 DEF Step
      <4> HIDE DEF w
      <4> QED
        BY <4>1, <4>2, <1>1, <1>2, ViewSame
    <3> QED
      BY <3>1, <3>2, <1>3
  <2> HIDE DEF t
  <2>3. Handled(s, s, ev) /\ HalKept(s, s)
    BY <2>2, NothingHandled
  <2> QED
    BY <2>1, <2>3 DEF t
<1>4. CASE ~(~Instance(s, i) \/ f \in w.neigh)
  <2>1. t = StaHeader(s0, i)
    BY <1>4 DEF Neighbour
  <2>2. w0 \in WanSet /\ w0.active = w.active /\ w0.rules = w.rules
    BY <1>2 DEF WanSet
  <2>3. Seen(w0) = [Seen(w) EXCEPT !.neigh = @ \cup {f}]
    BY <1>2, SeenNeigh
  <2>4. s0 = [s EXCEPT !.wan[i] = w0]
    BY DEF IpacmSet
  <2> HIDE DEF w0
  <2>5. Own(s, s0, i) /\ s0.wan[i] = w0 /\ s0 \in IpacmSet
    <3>1. Own(s, [s EXCEPT !.wan[i] = w0], i) /\ [s EXCEPT !.wan[i] = w0].wan[i] = w0
      BY <2>2, <1>1, OwnSame
    <3> QED
      BY <3>1, <2>4 DEF Own
  <2> HIDE DEF s0
  <2>6. Own(s0, t, i) /\ Seen(t.wan[i]) = HdrW(Seen(w0), i)
    BY <2>1, <2>5, <1>1, StaHeaderFacts
  <2>7. Own(s, t, i)
    BY <2>5, <2>6, <1>1, OwnTrans
  <2>8. Step(View(s), ev) = [View(s) EXCEPT !.wan[i] = Seen(t.wan[i])]
    <3>1. NeighW(View(s).wan[i], i, f) = Seen(t.wan[i])
      BY <2>3, <2>6, <1>2, <1>4 DEF NeighW
    <3>2. Step(View(s), ev) = [View(s) EXCEPT !.wan[i] = NeighW(View(s).wan[i], i, f)]
      BY <1>4, <1>2 DEF Step
    <3> QED
      BY <3>1, <3>2
  <2> HIDE DEF t
  <2>9. Handled(s, t, ev) /\ HalKept(s, t) /\ t.ext = s.ext
    BY <2>7, <2>8, <1>1, OwnHandles
  <2> QED
    BY <2>9 DEF t
<1> QED
  BY <1>3, <1>4

(* Taking down a route.                                                        *)
LEMMA LoweredFacts ==
  ASSUME NEW w \in WanSet, NEW f \in Families
  PROVE  /\ Lowered(w, f) \in WanSet
         /\ Lowered(w, f).active = w.active \ {f}
         /\ \A g \in Families : g # f => Lowered(w, f).rules[g] = w.rules[g]
         /\ f \in w.active => Seen(Lowered(w, f)) = DelW(Seen(w), f)
<1>1. Lowered(w, f) \in WanSet /\ Lowered(w, f).active = w.active \ {f}
      /\ \A g \in Families : g # f => Lowered(w, f).rules[g] = w.rules[g]
  BY DEF Lowered, WanSet
<1>2. ASSUME f \in w.active PROVE Seen(Lowered(w, f)) = DelW(Seen(w), f)
  BY <1>2 DEF Lowered, Seen, DelW, WanSet
<1> QED
  BY <1>1, <1>2

(* A route goes down: its uplink is lowered, the others stay.                *)
LEMMA RouteDownFacts ==
  ASSUME NEW s \in IpacmSet, NEW i \in Uplinks, NEW f \in Families
  PROVE  LET t == RouteDown(s, i, f)
         IN  /\ t \in IpacmSet /\ Rest(t) = Rest(s) /\ t.wan[i] = Lowered(s.wan[i], f)
             /\ \A j \in Uplinks : j # i => t.wan[j] = s.wan[j]
             /\ t.wanUp = s.wanUp \ {f}
<1> DEFINE x == Lowered(s.wan[i], f)
           y == [s EXCEPT !.wan[i] = x]
           z == s.wanUp \ {f}
           t == RouteDown(s, i, f)
<1>1. x \in WanSet
  BY LoweredFacts DEF IpacmSet
<1>2. t = [y EXCEPT !.wanUp = z]
  BY DEF RouteDown
<1>3. z \in SUBSET Families
  BY DEF IpacmSet
<1> HIDE DEF x, z
<1>4. y \in IpacmSet /\ Rest(y) = Rest(s) /\ y.wan[i] = x
      /\ \A j \in Uplinks : j # i => y.wan[j] = s.wan[j]
  BY <1>1, WanChange
<1> HIDE DEF y, t
<1>5. t \in IpacmSet /\ Rest(t) = Rest(y) /\ t.wan = y.wan /\ t.wanUp = z
  BY <1>2, <1>3, <1>4 DEF IpacmSet, Rest
<1> QED
  BY <1>4, <1>5 DEF t, x, z

(* An event of the daemon's own leaves the uplinks alone.                    *)
LEMMA InternalFacts ==
  ASSUME NEW s \in IpacmSet, NEW i \in Uplinks, NEW f \in Families, NEW what \in {"wanUp", "wanDown"}
  PROVE  LET t == Internal(s, Ev(what, i, f))
         IN  t \in IpacmSet /\ Rest(t) = Rest(s) /\ t.wan = s.wan /\ t.wanUp = s.wanUp
<1> DEFINE ev == Ev(what, i, f)
           q == Append(s.int, ev)
<1>1. ev \in IntEvents
  BY UplinkKinds DEF Ev, IntEvents
<1> HIDE DEF ev
<1>2. q \in Seq(IntEvents)
  BY <1>1 DEF IpacmSet
<1>3. Internal(s, ev) = [s EXCEPT !.int = q]
  BY DEF Internal
<1> HIDE DEF q
<1>4. [s EXCEPT !.int = q] \in IpacmSet /\ Rest([s EXCEPT !.int = q]) = Rest(s)
      /\ [s EXCEPT !.int = q].wan = s.wan /\ [s EXCEPT !.int = q].wanUp = s.wanUp
  BY <1>2 DEF IpacmSet, Rest
<1> QED
  BY <1>3, <1>4 DEF ev

(* A route is deleted, as its view is.                                       *)
LEMMA RouteDelHandled ==
  ASSUME NEW s \in IpacmSet, NEW i \in Uplinks, NEW f \in Families, NEW ev,
         Distinct(s.wans), ev.what = "routeDel", ev.iface = i, ev.fam = f,
         ViewOK(env, View(s))
  PROVE  LET t == RouteDel(s, i, f) IN Handled(s, t, ev) /\ HalKept(s, t) /\ t.ext = s.ext
<1> DEFINE w == s.wan[i]
           t == RouteDel(s, i, f)
<1>1. w \in WanSet /\ View(s).wan[i] = Seen(w) /\ Seen(w).active = w.active /\ View(s) \in Views
      /\ (i \in View(s).inst <=> Instance(s, i))
  BY ViewFacts, SeenFacts
<1>2. CASE ~(Instance(s, i) /\ f \in w.active)
  <2>1. t = s
    BY <1>2 DEF RouteDel
  <2>2. Step(View(s), ev) = View(s)
    <3>1. CASE ~Instance(s, i)
      BY <3>1, <1>1 DEF Step
    <3>2. CASE Instance(s, i) /\ f \notin w.active
      <4>1. DelW(View(s).wan[i], f) = View(s).wan[i]
        BY <3>2, <1>1 DEF DelW
      <4>2. Step(View(s), ev) = [View(s) EXCEPT !.wan[i] = DelW(View(s).wan[i], f)]
        BY <3>2, <1>1 DEF Step
      <4> HIDE DEF w
      <4> QED
        BY <4>1, <4>2, <1>1, ViewSame
    <3> QED
      BY <3>1, <3>2, <1>2
  <2> HIDE DEF t
  <2>3. Handled(s, s, ev) /\ HalKept(s, s)
    BY <2>2, NothingHandled
  <2> QED
    BY <2>1, <2>3 DEF t
<1>3. CASE Instance(s, i) /\ f \in w.active
  <2> DEFINE u == Internal(s, Ev("wanDown", i, f))
  <2>1. t = RouteDown(u, i, f)
    BY <1>3 DEF RouteDel
  <2>2. u \in IpacmSet /\ Rest(u) = Rest(s) /\ u.wan = s.wan /\ u.wanUp = s.wanUp
    BY InternalFacts
  <2> HIDE DEF u
  <2>3. t \in IpacmSet /\ Rest(t) = Rest(s) /\ t.wan[i] = Lowered(w, f)
        /\ (\A j \in Uplinks : j # i => t.wan[j] = s.wan[j])
        /\ t.wanUp = s.wanUp \ {f}
    BY <2>1, <2>2, RouteDownFacts
  <2> HIDE DEF t
  <2>4. Lowered(w, f) \in WanSet /\ Lowered(w, f).active = w.active \ {f}
        /\ (\A g \in Families : g # f => Lowered(w, f).rules[g] = w.rules[g])
        /\ Seen(Lowered(w, f)) = DelW(Seen(w), f)
    BY <1>1, <1>3, LoweredFacts
  <2>5. t.wans = s.wans /\ t.ext = s.ext /\ HalKept(s, t)
    BY <2>3 DEF Rest, HalKept
  <2>6. View(t) = Step(View(s), ev)
    <3> DEFINE x == DelW(View(s).wan[i], f)
               b == [View(s) EXCEPT !.wan[i] = x]
    <3>1. Step(View(s), ev) = b
      BY <1>1, <1>3 DEF Step
    <3>2. x = Seen(t.wan[i]) /\ x \in SeenSet
      BY <2>3, <2>4, <1>1, SeenFacts
    <3> HIDE DEF x
    <3>3. b \in Views /\ b.inst = View(s).inst /\ b.wan[i] = x
          /\ \A j \in Uplinks : j # i => b.wan[j] = View(s).wan[j]
      BY <3>2, <1>1, ViewChange
    <3> HIDE DEF b
    <3>4. View(t) \in Views /\ View(t).inst = View(s).inst
          /\ \A j \in Uplinks : View(t).wan[j] = Seen(t.wan[j]) /\ View(s).wan[j] = Seen(s.wan[j])
      BY <2>3, <2>5, ViewFacts
    <3>5. \A j \in Uplinks : View(t).wan[j] = b.wan[j]
      BY <3>2, <3>3, <3>4, <2>3
    <3> QED
      BY <3>1, <3>3, <3>4, <3>5, ViewsEqual
  <2>7. ASSUME NEW j \in Uplinks, j # i PROVE s.wan[j].active = {}
    <3>1. Held(View(s).wan[i]) = {} \/ Held(View(s).wan[j]) = {}
      BY <2>7 DEF ViewOK
    <3>2. View(s).wan[j].active = s.wan[j].active /\ f \in View(s).wan[i].active
      BY <1>1, <1>3, <2>7, ViewFacts
    <3> QED
      BY <3>1, <3>2 DEF Held
  <2>8. ASSUME FlagsOK(s) PROVE FlagsOK(t)
    <3> SUFFICES ASSUME NEW g \in Families
                 PROVE  g \in t.wanUp <=> \E j \in Uplinks : g \in t.wan[j].active
      BY DEF FlagsOK
    <3>1. g \in s.wanUp <=> \E j \in Uplinks : g \in s.wan[j].active
      BY <2>8 DEF FlagsOK
    <3>2. (\E j \in Uplinks : g \in s.wan[j].active) <=> g \in w.active
      BY <2>7
    <3>3. (\E j \in Uplinks : g \in t.wan[j].active) <=> g \in Lowered(w, f).active
      BY <2>3, <2>7
    <3> QED
      BY <3>1, <3>2, <3>3, <2>3, <2>4
  <2>9. RulesFrom(s, t)
    <3> SUFFICES ASSUME NEW j \in Uplinks, NEW g \in t.wan[j].active
                 PROVE  g \in s.wan[j].active /\ t.wan[j].rules[g] = s.wan[j].rules[g]
      BY DEF RulesFrom
    <3>1. CASE j # i
      BY <3>1, <2>3
    <3>2. CASE j = i
      <4>1. g \in w.active /\ g # f /\ g \in Families
        BY <3>2, <2>3, <2>4, <1>1 DEF WanSet
      <4> QED
        BY <4>1, <3>2, <2>3, <2>4
    <3> QED
      BY <3>1, <3>2
  <2> QED
    BY <2>3, <2>5, <2>6, <2>8, <2>9 DEF Handled, t
<1> QED
  BY <1>2, <1>3

(* The elements of a concatenation.                                            *)
LEMMA ConcatElems ==
  ASSUME NEW S, NEW u \in Seq(S), NEW v \in Seq(S)
  PROVE  /\ u \o v \in Seq(S) /\ Len(u \o v) = Len(u) + Len(v)
         /\ \A n \in 1 .. Len(u) + Len(v) :
              (u \o v)[n] = IF n <= Len(u) THEN u[n] ELSE v[n - Len(u)]
OBVIOUS

(* An instance that is removed: the others stay, in their order.               *)
LEMMA RemoveFacts ==
  ASSUME NEW S, NEW q \in Seq(S), NEW k \in 1 .. Len(q), Distinct(q)
  PROVE  /\ RemoveAt(q, k) \in Seq(S) /\ Distinct(RemoveAt(q, k))
         /\ \A x : x \in ToSet(RemoveAt(q, k)) <=> x \in ToSet(q) /\ x # q[k]
<1> DEFINE r == RemoveAt(q, k)
<1>1. Len(q) \in Nat /\ k \in Nat /\ k >= 1 /\ k <= Len(q)
  OBVIOUS
<1>2. /\ SubSeq(q, 1, k - 1) \in Seq(S) /\ Len(SubSeq(q, 1, k - 1)) = k - 1
      /\ \A n \in 1 .. k - 1 : SubSeq(q, 1, k - 1)[n] = q[n]
  BY <1>1
<1>3. /\ SubSeq(q, k + 1, Len(q)) \in Seq(S) /\ Len(SubSeq(q, k + 1, Len(q))) = Len(q) - k
      /\ \A n \in 1 .. Len(q) - k : SubSeq(q, k + 1, Len(q))[n] = q[n + k]
  BY <1>1
<1> DEFINE u == SubSeq(q, 1, k - 1)
           v == SubSeq(q, k + 1, Len(q))
<1>4. r = u \o v
  BY DEF RemoveAt
<1>9. u \in Seq(S) /\ v \in Seq(S) /\ Len(u) = k - 1 /\ Len(v) = Len(q) - k
  BY <1>2, <1>3
<1> HIDE DEF u, v
<1>5. r \in Seq(S) /\ Len(r) = Len(q) - 1
      /\ \A n \in 1 .. Len(q) - 1 : r[n] = IF n <= k - 1 THEN u[n] ELSE v[n - (k - 1)]
  <2>1. (u \o v) \in Seq(S) /\ Len(u \o v) = Len(u) + Len(v)
        /\ \A n \in 1 .. Len(u) + Len(v) :
             (u \o v)[n] = IF n <= Len(u) THEN u[n] ELSE v[n - Len(u)]
    BY <1>9, ConcatElems
  <2> QED
    BY <2>1, <1>1, <1>4, <1>9
<1> HIDE DEF r
<1>6. ASSUME NEW n \in 1 .. Len(q) - 1
      PROVE  r[n] = IF n < k THEN q[n] ELSE q[n + 1]
  <2>1. CASE n < k
    <3>1. n \in 1 .. k - 1 /\ n <= k - 1
      BY <2>1, <1>1
    <3> QED
      BY <3>1, <2>1, <1>5, <1>2 DEF u
  <2>2. CASE ~(n < k)
    <3>1. n - (k - 1) \in 1 .. Len(q) - k /\ ~(n <= k - 1) /\ (n - (k - 1)) + k = n + 1
      BY <2>2, <1>1
    <3> QED
      BY <3>1, <2>2, <1>5, <1>3 DEF v
  <2> QED
    BY <2>1, <2>2
<1>7. Distinct(r)
  <2> SUFFICES ASSUME NEW m \in 1 .. Len(r), NEW n \in 1 .. Len(r), r[m] = r[n] PROVE m = n
    BY DEF Distinct
  <2> DEFINE up(x) == IF x < k THEN x ELSE x + 1
  <2>1. up(m) \in 1 .. Len(q) /\ up(n) \in 1 .. Len(q)
    BY <1>1, <1>5
  <2>2. r[m] = q[up(m)] /\ r[n] = q[up(n)]
    BY <1>5, <1>6
  <2>3. up(m) = up(n)
    BY <2>1, <2>2 DEF Distinct
  <2> QED
    BY <2>3, <1>1, <1>5
<1>8. ASSUME NEW x PROVE x \in ToSet(r) <=> x \in ToSet(q) /\ x # q[k]
  <2>1. DOMAIN r = 1 .. Len(r) /\ DOMAIN q = 1 .. Len(q)
    BY <1>5
  <2>2. ASSUME x \in ToSet(r) PROVE x \in ToSet(q) /\ x # q[k]
    <3>1. PICK n \in 1 .. Len(q) - 1 : x = r[n]
      BY <2>1, <2>2, <1>5 DEF ToSet
    <3> DEFINE m == IF n < k THEN n ELSE n + 1
    <3>2. m \in 1 .. Len(q) /\ m # k /\ x = q[m]
      BY <3>1, <1>1, <1>6
    <3> HIDE DEF m
    <3> QED
      BY <3>2, <2>1 DEF ToSet, Distinct
  <2>3. ASSUME x \in ToSet(q), x # q[k] PROVE x \in ToSet(r)
    <3>1. PICK m \in 1 .. Len(q) : x = q[m]
      BY <2>1, <2>3 DEF ToSet
    <3> DEFINE n == IF m < k THEN m ELSE m - 1
    <3>2. m # k
      BY <3>1, <2>3
    <3>3. n \in 1 .. Len(q) - 1 /\ (n < k => n = m) /\ (~(n < k) => n + 1 = m)
      BY <3>1, <3>2, <1>1
    <3> HIDE DEF n
    <3>4. r[n] = q[m]
      BY <3>3, <1>6
    <3> QED
      BY <3>1, <3>3, <3>4, <2>1, <1>5 DEF ToSet
  <2> QED
    BY <2>2, <2>3
<1> QED
  BY <1>5, <1>7, <1>8 DEF r

(* Which families the uplink takes from the wan_up flags when it goes.         *)
Falls(s, i) == IF Kind(i) = "sta" THEN s.wan[i].active
               ELSE IF s.wan[i].isGw THEN s.wan[i].ip ELSE {}
(* The uplink is gone, the others are as they were.                            *)
WanGone(s, t, i) ==
  /\ t \in IpacmSet /\ Distinct(t.wans)
  /\ \A x : x \in ToSet(t.wans) <=> x \in ToSet(s.wans) /\ x # i
  /\ t.wan[i] = NoWan /\ \A j \in Uplinks : j # i => t.wan[j] = s.wan[j]
  /\ t.wanUp = s.wanUp \ Falls(s, i)
  /\ t.gw = s.gw /\ t.up = s.up /\ t.cache = s.cache /\ t.latest = s.latest
  /\ t.ext = s.ext /\ t.nat = [s.nat EXCEPT ![i] = {}]

(* The link of an uplink goes down: its instance is gone.                    *)
LEMMA WanDownFacts ==
  ASSUME NEW s \in IpacmSet, NEW i \in Uplinks, Distinct(s.wans), Instance(s, i)
  PROVE  WanGone(s, WanDown(s, i), i)
<1> DEFINE place == CHOOSE k \in DOMAIN s.wans : s.wans[k] = i
           which == Falls(s, i)
           down(acc, f) == Internal([RouteDown(acc, i, f) EXCEPT !.wanUp = @ \ {f}],
                                    Ev("wanDown", i, f))
           d4 == IF "v4" \in which THEN down(s, "v4") ELSE s
           d6 == IF "v6" \in which THEN down(d4, "v6") ELSE d4
           t == WanDown(s, i)
           OK(u, S) == /\ u \in IpacmSet /\ Rest(u) = Rest(s)
                       /\ \A j \in Uplinks : j # i => u.wan[j] = s.wan[j]
                       /\ u.wanUp = s.wanUp \ S
<1>1. place \in 1 .. Len(s.wans) /\ s.wans[place] = i
  <2>1. DOMAIN s.wans = 1 .. Len(s.wans)
    BY DEF IpacmSet
  <2>2. \E k \in DOMAIN s.wans : s.wans[k] = i
    BY DEF Instance, ToSet
  <2> QED
    BY <2>1, <2>2
<1>2. t = [d6 EXCEPT !.wan[i] = NoWan, !.nat[i] = {}, !.wans = RemoveAt(@, place)]
  BY DEF WanDown, ForEach, Falls
<1> HIDE DEF place
<1>3. ASSUME NEW u, NEW f \in Families, NEW S, OK(u, S)
      PROVE  OK(down(u, f), S \cup {f})
  <2> DEFINE r == RouteDown(u, i, f)
             z == r.wanUp \ {f}
             m == [r EXCEPT !.wanUp = z]
  <2>1. r \in IpacmSet /\ Rest(r) = Rest(u) /\ r.wanUp = u.wanUp \ {f}
        /\ \A j \in Uplinks : j # i => r.wan[j] = u.wan[j]
    BY <1>3, RouteDownFacts
  <2> HIDE DEF r
  <2>2. z \in SUBSET Families /\ z = s.wanUp \ (S \cup {f})
    BY <2>1, <1>3 DEF IpacmSet
  <2> HIDE DEF z
  <2>3. m \in IpacmSet /\ Rest(m) = Rest(r) /\ m.wan = r.wan /\ m.wanUp = z
    BY <2>1, <2>2 DEF IpacmSet, Rest
  <2>4. down(u, f) = Internal(m, Ev("wanDown", i, f))
    BY DEF r, z
  <2> HIDE DEF m, down
  <2>5. down(u, f) \in IpacmSet /\ Rest(down(u, f)) = Rest(m) /\ down(u, f).wan = m.wan
        /\ down(u, f).wanUp = m.wanUp
    BY <2>3, <2>4, InternalFacts
  <2> QED
    BY <2>1, <2>2, <2>3, <2>5, <1>3
<1> HIDE DEF down
<1>4. OK(s, {})
  OBVIOUS
<1>5. which \in SUBSET Families
  BY DEF Falls, IpacmSet, WanSet
<1> HIDE DEF which
<1>6. OK(d4, which \cap {"v4"})
  <2>1. CASE "v4" \in which
    <3>1. OK(down(s, "v4"), {} \cup {"v4"})
      BY <1>3, <1>4, FamilyNames
    <3>2. {} \cup {"v4"} = which \cap {"v4"}
      BY <2>1
    <3> QED
      BY <2>1, <3>1, <3>2
  <2>2. CASE "v4" \notin which
    BY <2>2, <1>4
  <2> QED
    BY <2>1, <2>2
<1> HIDE DEF d4
<1>7. OK(d6, which)
  <2>1. CASE "v6" \in which
    <3> DEFINE S4 == which \cap {"v4"}
    <3>2. S4 \cup {"v6"} = which
      BY <2>1, <1>5 DEF Families
    <3>3. OK(d4, S4)
      BY <1>6
    <3> HIDE DEF S4, OK
    <3>1. OK(down(d4, "v6"), S4 \cup {"v6"})
      BY <1>3, <3>3, FamilyNames
    <3> QED
      BY <2>1, <3>1, <3>2
  <2>2. CASE "v6" \notin which
    <3>1. which \cap {"v4"} = which
      BY <2>2, <1>5 DEF Families
    <3> QED
      BY <2>2, <3>1, <1>6
  <2> QED
    BY <2>1, <2>2
<1> HIDE DEF d6
<1>8. d6 \in IpacmSet /\ d6.wans = s.wans /\ d6.nat = s.nat /\ d6.gw = s.gw /\ d6.up = s.up
      /\ d6.cache = s.cache /\ d6.latest = s.latest /\ d6.ext = s.ext
      /\ d6.wanUp = s.wanUp \ which
      /\ \A j \in Uplinks : j # i => d6.wan[j] = s.wan[j]
  BY <1>7 DEF Rest
<1> DEFINE q == RemoveAt(s.wans, place)
<1>9. q \in Seq(Uplinks) /\ Distinct(q) /\ \A x : x \in ToSet(q) <=> x \in ToSet(s.wans) /\ x # i
  BY <1>1, RemoveFacts DEF IpacmSet
<1> HIDE DEF q
<1> DEFINE y == [d6 EXCEPT !.wan[i] = NoWan]
<1>10. y \in IpacmSet /\ Rest(y) = Rest(d6) /\ y.wan[i] = NoWan
       /\ (\A j \in Uplinks : j # i => y.wan[j] = d6.wan[j]) /\ y.wanUp = d6.wanUp
  <2>1. NoWan \in WanSet
    BY DEF NoWan, WanSet
  <2> QED
    BY <2>1, <1>8, WanChange
<1>11. t = [y EXCEPT !.nat[i] = {}, !.wans = q]
  BY <1>2, <1>8 DEF q
<1> HIDE DEF y, t
<1>12. t \in IpacmSet /\ t.wans = q /\ t.wan = y.wan /\ t.wanUp = y.wanUp /\ t.gw = y.gw
       /\ t.up = y.up /\ t.cache = y.cache /\ t.latest = y.latest /\ t.ext = y.ext
       /\ t.nat = [y.nat EXCEPT ![i] = {}]
  <2>1. i \in Ifaces
    BY UplinkKinds
  <2> QED
    BY <1>9, <1>10, <1>11, <2>1 DEF IpacmSet
<1>13. y.gw = s.gw /\ y.up = s.up /\ y.cache = s.cache /\ y.latest = s.latest /\ y.ext = s.ext
       /\ y.nat = s.nat
  BY <1>10, <1>8 DEF Rest
<1>14. WanGone(s, t, i)
  BY <1>8, <1>9, <1>10, <1>12, <1>13 DEF which, WanGone
<1> QED
  BY <1>14 DEF t

(* Handle asks first whether there is an instance.                             *)
LEMMA WanDownHandled ==
  ASSUME NEW s \in IpacmSet, NEW i \in Uplinks, NEW ev, Distinct(s.wans),
         ev.what = "linkDown", ev.iface = i, Instance(s, i),
         ViewOK(env, View(s)), Guard(env, View(s), ev)
  PROVE  LET t == WanDown(s, i) IN Handled(s, t, ev) /\ HalKept(s, t) /\ t.ext = s.ext
<1> DEFINE w == s.wan[i]
           t == WanDown(s, i)
<1>1. /\ t \in IpacmSet /\ Distinct(t.wans)
      /\ \A x : x \in ToSet(t.wans) <=> x \in ToSet(s.wans) /\ x # i
      /\ t.wan[i] = NoWan /\ \A j \in Uplinks : j # i => t.wan[j] = s.wan[j]
      /\ t.wanUp = s.wanUp \ Falls(s, i)
      /\ t.gw = s.gw /\ t.up = s.up /\ t.cache = s.cache /\ t.latest = s.latest
      /\ t.ext = s.ext /\ t.nat = [s.nat EXCEPT ![i] = {}]
  <2>1. WanGone(s, t, i)
    BY WanDownFacts
  <2> HIDE DEF t
  <2> QED
    BY <2>1 DEF WanGone
<1> HIDE DEF t
<1>2. /\ w \in WanSet /\ View(s).wan[i] = Seen(w) /\ Seen(w).active = w.active
      /\ Seen(w).isGw = w.isGw /\ Seen(w).ip = w.ip /\ View(s) \in Views /\ View(t) \in Views
      /\ i \in View(s).inst /\ View(s).inst = ToSet(s.wans) /\ View(t).inst = ToSet(t.wans)
  BY <1>1, ViewFacts, SeenFacts
<1>3. HalKept(s, t)
  <2>1. s.nat \in [Ifaces -> SUBSET Families]
    BY DEF IpacmSet
  <2> QED
    BY <2>1, <1>1 DEF HalKept
<1>4. View(t) = Step(View(s), ev)
  <2> DEFINE b == Step(View(s), ev)
  <2>1. b = [View(s) EXCEPT !.inst = @ \ {i}, !.wan[i] = Seen(NoWan)]
    BY <1>2 DEF Step
  <2>2. b \in Views /\ b.inst = View(s).inst \ {i} /\ b.wan[i] = Seen(NoWan)
        /\ \A j \in Uplinks : j # i => b.wan[j] = View(s).wan[j]
    <3>1. View(s).wan \in [Uplinks -> SeenSet] /\ View(s).inst \in SUBSET Uplinks
      BY <1>2 DEF Views
    <3>2. b = [inst |-> View(s).inst \ {i}, wan |-> [View(s).wan EXCEPT ![i] = Seen(NoWan)]]
      BY <1>2, <2>1 DEF Views
    <3>3. Seen(NoWan) \in SeenSet
      BY NoWanFacts
    <3> HIDE DEF b
    <3> QED
      BY <3>1, <3>2, <3>3 DEF Views
  <2> HIDE DEF b
  <2>3. b.inst = View(t).inst
    BY <2>2, <1>1, <1>2
  <2>4. ASSUME NEW j \in Uplinks PROVE View(t).wan[j] = b.wan[j]
    <3>1. View(t).wan[j] = Seen(t.wan[j]) /\ View(s).wan[j] = Seen(s.wan[j])
      BY <1>1, ViewFacts
    <3> QED
      BY <3>1, <2>2, <1>1
  <2>5. View(t) = b
    BY <1>2, <2>2, <2>3, <2>4, ViewsEqual
  <2> QED
    BY <2>5 DEF b
<1>5. NoWan.active = {}
  BY DEF NoWan
<1>6. ASSUME NEW j \in Uplinks, j # i PROVE s.wan[j].active = {} \/ w.active = {}
  <2>1. Held(View(s).wan[i]) = {} \/ Held(View(s).wan[j]) = {}
    BY <1>6 DEF ViewOK
  <2>2. View(s).wan[j].active = s.wan[j].active /\ View(s).wan[i].active = w.active
    BY <1>6, ViewFacts
  <2> QED
    BY <2>1, <2>2 DEF Held
<1>7. ASSUME Steady(env) PROVE (w.active = {} => Falls(s, i) = {}) /\ w.active \subseteq Falls(s, i)
  <2>1. CASE i \in Stas
    BY <2>1 DEF Falls, Kind
  <2>2. CASE i \notin Stas
    <3>1. i \in Modems
      BY <2>2, UplinkKinds
    <3>2. Gate(View(s))
      BY <3>1, <1>7 DEF Guard
    <3>3. w.isGw = (w.active # {})
      BY <3>1, <3>2, <1>2 DEF Gate
    <3>4. Held(View(s).wan[i]) \subseteq View(s).wan[i].ip
      BY DEF ViewOK, WanOK
    <3>5. w.active \subseteq w.ip
      BY <3>4, <1>2 DEF Held
    <3>6. Falls(s, i) = IF w.isGw THEN w.ip ELSE {}
      BY <2>2 DEF Falls, Kind
    <3>7. w.isGw \in BOOLEAN
      BY <1>2 DEF WanSet
    <3> QED
      BY <3>3, <3>5, <3>6, <3>7
  <2> QED
    BY <2>1, <2>2
<1>8. ASSUME Steady(env), FlagsOK(s) PROVE FlagsOK(t)
  <2> SUFFICES ASSUME NEW g \in Families
               PROVE  g \in t.wanUp <=> \E j \in Uplinks : g \in t.wan[j].active
    BY DEF FlagsOK
  <2>1. g \in s.wanUp <=> \E j \in Uplinks : g \in s.wan[j].active
    BY <1>8 DEF FlagsOK
  <2>2. CASE w.active = {}
    <3>1. Falls(s, i) = {}
      BY <2>2, <1>7, <1>8
    <3>2. t.wanUp = s.wanUp
      BY <3>1, <1>1
    <3>3. \A j \in Uplinks : t.wan[j].active = s.wan[j].active
      BY <2>2, <1>1, <1>5
    <3> QED
      BY <2>1, <3>2, <3>3
  <2>3. CASE w.active # {}
    <3>1. \A j \in Uplinks : j # i => s.wan[j].active = {}
      BY <2>3, <1>6
    <3>2. \A j \in Uplinks : t.wan[j].active = {}
      BY <3>1, <1>1, <1>5
    <3>3. g \in s.wanUp => g \in w.active
      BY <2>1, <3>1
    <3>4. w.active \subseteq Falls(s, i)
      BY <1>7, <1>8
    <3>5. g \notin t.wanUp
      BY <3>3, <3>4, <1>1
    <3> QED
      BY <3>2, <3>5
  <2> QED
    BY <2>2, <2>3
<1>9. RulesFrom(s, t)
  <2> SUFFICES ASSUME NEW j \in Uplinks, NEW g \in t.wan[j].active
               PROVE  g \in s.wan[j].active /\ t.wan[j].rules[g] = s.wan[j].rules[g]
    BY DEF RulesFrom
  <2> QED
    BY <1>1, <1>5
<1> QED
  BY <1>1, <1>3, <1>4, <1>8, <1>9 DEF Handled, t

(* The firewall is read again for every route that is carried.                 *)
LEMMA FirewallHandled ==
  ASSUME NEW s \in IpacmSet, NEW ev, Distinct(s.wans), ev.what = "firewall", file \in Nat,
         ViewOK(env, View(s)), Guard(env, View(s), ev)
  PROVE  LET t == FirewallChange(s) IN Handled(s, t, ev) /\ HalKept(s, t) /\ t.ext = s.ext
<1> DEFINE t == FirewallChange(s)
           new(i) == IF Instance(s, i) THEN Reread(s.wan[i], Redone(s.wan[i], i)) ELSE s.wan[i]
           z == [i \in Uplinks |-> new(i)]
<1>1. ASSUME NEW i \in Uplinks
      PROVE  /\ new(i) \in WanSet /\ Seen(new(i)) = Seen(s.wan[i])
             /\ new(i).active = s.wan[i].active
             /\ Instance(s, i) => \A f \in Families :
                  new(i).rules[f] = IF f \in Redone(s.wan[i], i) THEN file ELSE s.wan[i].rules[f]
             /\ ~Instance(s, i) => new(i) = s.wan[i]
  <2> DEFINE w == s.wan[i]
             S == Redone(w, i)
             r == [f \in Families |-> IF f \in S THEN file ELSE w.rules[f]]
             x == [w EXCEPT !.rules = r]
  <2>1. w \in WanSet
    BY DEF IpacmSet
  <2>2. Reread(w, S) = x
    BY DEF Reread
  <2> HIDE DEF S
  <2>3. r \in [Families -> Nat] /\ \A f \in Families : r[f] = IF f \in S THEN file ELSE w.rules[f]
    BY <2>1 DEF WanSet
  <2> HIDE DEF r, w
  <2>4. x \in WanSet /\ x.rules = r /\ x.active = w.active
    BY <2>1, <2>3 DEF WanSet
  <2>5. Seen(x) = Seen(w)
    BY <2>1 DEF Seen, WanSet
  <2> HIDE DEF x
  <2>6. CASE Instance(s, i)
    <3>1. new(i) = x
      BY <2>2, <2>6 DEF S, w
    <3> HIDE DEF new
    <3> QED
      BY <3>1, <2>6, <2>3, <2>4, <2>5 DEF S, w
  <2>7. CASE ~Instance(s, i)
    <3>1. new(i) = w
      BY <2>7 DEF w
    <3> HIDE DEF new
    <3> QED
      BY <3>1, <2>1, <2>7 DEF w
  <2> QED
    BY <2>6, <2>7
<1>2. t = [s EXCEPT !.wan = z]
  BY DEF FirewallChange
<1> HIDE DEF new
<1>3. z \in [Uplinks -> WanSet] /\ \A i \in Uplinks : z[i] = new(i)
  BY <1>1
<1> HIDE DEF z, t
<1>4. t \in IpacmSet /\ Rest(t) = Rest(s) /\ t.wan = z /\ t.wanUp = s.wanUp
  BY <1>2, <1>3 DEF IpacmSet, Rest
<1>5. t.wans = s.wans /\ t.ext = s.ext /\ HalKept(s, t)
  BY <1>4 DEF Rest, HalKept
<1>6. View(t) = View(s)
  <2>1. View(t) \in Views /\ View(s) \in Views /\ View(t).inst = View(s).inst
    BY <1>4, <1>5, ViewFacts
  <2>2. ASSUME NEW j \in Uplinks PROVE View(t).wan[j] = View(s).wan[j]
    <3>1. View(t).wan[j] = Seen(t.wan[j]) /\ View(s).wan[j] = Seen(s.wan[j])
      BY <1>4, ViewFacts
    <3> QED
      BY <3>1, <1>1, <1>3, <1>4
  <2> QED
    BY <2>1, <2>2, ViewsEqual
<1>7. Step(View(s), ev) = View(s)
  BY DEF Step
<1>8. \A j \in Uplinks : t.wan[j].active = s.wan[j].active
  BY <1>1, <1>3, <1>4
<1>9. FlagsOK(s) => FlagsOK(t)
  BY <1>4, <1>8 DEF FlagsOK
<1>10. \A j \in Uplinks : s.wan[j].active \subseteq Families
  BY DEF IpacmSet, WanSet
<1>11. RulesFrom(s, t)
  <2> SUFFICES ASSUME NEW j \in Uplinks, NEW g \in t.wan[j].active
               PROVE  t.wan[j].rules[g] = file
                        \/ (g \in s.wan[j].active /\ t.wan[j].rules[g] = s.wan[j].rules[g])
    BY DEF RulesFrom
  <2>1. g \in s.wan[j].active /\ g \in Families /\ t.wan[j] = new(j)
    BY <1>3, <1>4, <1>8, <1>10
  <2>2. Instance(s, j) => new(j).rules[g] = IF g \in Redone(s.wan[j], j) THEN file ELSE s.wan[j].rules[g]
    BY <2>1, <1>1
  <2>3. ~Instance(s, j) => new(j) = s.wan[j]
    BY <1>1
  <2> QED
    BY <2>1, <2>2, <2>3
<1>12. ASSUME Steady(env) PROVE Current(t)
  <2> SUFFICES ASSUME NEW j \in Uplinks, NEW g \in t.wan[j].active
               PROVE  t.wan[j].rules[g] = file
    BY DEF Current
  <2>1. g \in s.wan[j].active /\ g \in Families /\ t.wan[j] = new(j)
    BY <1>3, <1>4, <1>8, <1>10
  <2>2. View(s).wan[j].active = s.wan[j].active /\ View(s).wan[j] = Seen(s.wan[j])
        /\ s.wan[j] \in WanSet /\ (j \in View(s).inst <=> Instance(s, j))
    BY ViewFacts
  <2>3. Instance(s, j)
    <3>1. j \notin View(s).inst => View(s).wan[j] = Seen(NoWan)
      BY DEF ViewOK
    <3> QED
      BY <3>1, <2>1, <2>2, NoWanFacts
  <2>4. g \in Redone(s.wan[j], j)
    <3>1. CASE j \in Stas
      BY <3>1, <2>1 DEF Redone, Kind
    <3>2. CASE j \notin Stas
      <4>1. j \in Modems
        BY <3>2, UplinkKinds
      <4>2. Gate(View(s))
        BY <1>12 DEF Guard
      <4>3. Seen(s.wan[j]).isGw = s.wan[j].isGw /\ Seen(s.wan[j]).ip = s.wan[j].ip
            /\ Seen(s.wan[j]).active = s.wan[j].active /\ s.wan[j].isGw \in BOOLEAN
        BY <2>2, SeenFacts DEF WanSet
      <4>4. s.wan[j].isGw = TRUE
        BY <4>1, <4>2, <4>3, <2>1, <2>2 DEF Gate
      <4>5. Held(View(s).wan[j]) \subseteq View(s).wan[j].ip
        BY DEF ViewOK, WanOK
      <4>6. g \in s.wan[j].ip
        BY <4>3, <4>5, <2>1, <2>2 DEF Held
      <4> QED
        BY <4>4, <4>6, <3>2 DEF Redone, Kind
    <3> QED
      BY <3>1, <3>2
  <2> QED
    BY <2>1, <2>3, <2>4, <1>1
<1> QED
  BY <1>4, <1>5, <1>6, <1>7, <1>9, <1>11, <1>12 DEF Handled, t

-----------------------------------------------------------------------------
(* The handlers of the access point's events: they leave the uplinks alone.    *)

Apart(s) == <<s.gw, s.up, s.latest, s.valid, s.cache, s.nat, s.wans, s.wan, s.wanUp, s.mode,
              s.int, s.ext>>
ApOnly(s, t) == t \in IpacmSet /\ Apart(t) = Apart(s)

(* A change of the access point only. *)
LEMMA ApChange ==
  ASSUME NEW s \in IpacmSet, NEW x \in ApSet
  PROVE  ApOnly(s, [s EXCEPT !.ap = x]) /\ [s EXCEPT !.ap = x].ap = x /\ s.ap \in ApSet
  BY DEF IpacmSet, ApOnly, Apart

(* Its steps compose. *)
LEMMA ApTrans ==
  ASSUME NEW s, NEW t, NEW u, ApOnly(s, t), ApOnly(t, u)
  PROVE  ApOnly(s, u)
  BY DEF ApOnly

(* The uplink rules of the access point come and go by kind.                   *)
LEMMA UplinkRulesFacts ==
  ASSUME NEW s \in IpacmSet, NEW f \in Families, NEW kind \in {"none", "sta", "q6"}
  PROVE  ApOnly(s, UplinkRules(s, f, kind)) /\ ApOnly(s, NoUplinkRules(s, f, kind))
<1> DEFINE z == s.ap.ul[f] \cup {kind}
           y == s.ap.ul[f] \ {IF kind = "q6" /\ "q6" \in s.ap.ul[f] THEN "q6" ELSE "sta"}
           ap(v) == [s.ap EXCEPT !.ul[f] = v]
<1>1. s.ap \in ApSet /\ s.ap.ul[f] \in SUBSET {"none", "sta", "q6"}
  BY DEF IpacmSet, ApSet
<1>2. z \in SUBSET {"none", "sta", "q6"} /\ y \in SUBSET {"none", "sta", "q6"}
  BY <1>1
<1>3. UplinkRules(s, f, kind) = [s EXCEPT !.ap = ap(z)]
  BY DEF UplinkRules, IpacmSet, ApSet
<1>4. NoUplinkRules(s, f, kind) = [s EXCEPT !.ap = ap(y)]
  BY DEF NoUplinkRules, IpacmSet, ApSet
<1> HIDE DEF y, z
<1>5. ap(z) \in ApSet /\ ap(y) \in ApSet
  BY <1>1, <1>2 DEF ApSet
<1> HIDE DEF ap
<1> QED
  BY <1>3, <1>4, <1>5, ApChange

(* What the access point's step means for the view and the rest.               *)
LEMMA ApHandled ==
  ASSUME NEW s \in IpacmSet, NEW t, NEW ev, ApOnly(s, t), Distinct(s.wans),
         Step(View(s), ev) = View(s), ev.what # "firewall"
  PROVE  Handled(s, t, ev) /\ HalKept(s, t) /\ t.ext = s.ext
<1>1. t \in IpacmSet /\ t.wans = s.wans /\ t.wan = s.wan /\ t.wanUp = s.wanUp /\ t.ext = s.ext
      /\ t.gw = s.gw /\ t.up = s.up /\ t.cache = s.cache /\ t.latest = s.latest /\ t.nat = s.nat
  BY DEF ApOnly, Apart
<1>2. View(t) = View(s)
  BY <1>1 DEF View
<1> QED
  BY <1>1, <1>2 DEF Handled, HalKept, FlagsOK, RulesFrom

(* An uplink that comes or goes, a downstream that comes or goes.              *)
LEMMA TetherFacts ==
  ASSUME NEW s \in IpacmSet, NEW i, NEW f \in Families
  PROVE  /\ ApOnly(s, WanUpTether(s, i, f)) /\ ApOnly(s, WanDownTether(s, i, f))
         /\ ApOnly(s, DownstreamAdd(s, f)) /\ ApOnly(s, DownstreamDel(s, f))
<1> DEFINE m == s.mode
           k == Kind(i)
           more == [s EXCEPT !.ap = [@ EXCEPT !.up = s.ap.up \cup {f}]]
           less == [s EXCEPT !.ap = [@ EXCEPT !.up = s.ap.up \ {f}]]
           down == [s EXCEPT !.ap = [@ EXCEPT !.down = s.ap.down \cup {f}]]
           none == [s EXCEPT !.ap = [@ EXCEPT !.down = s.ap.down \ {f}]]
<1>1. m \in {"none", "sta", "q6"} /\ k \in {"none", "sta", "q6"} /\ s.ap \in ApSet
  BY DEF IpacmSet, Kind
<1>2. ApOnly(s, s)
  BY DEF ApOnly
<1>3. ApOnly(s, more) /\ ApOnly(s, less) /\ ApOnly(s, down) /\ ApOnly(s, none)
  <2>1. ASSUME NEW S \in SUBSET Families
        PROVE  [s.ap EXCEPT !.up = S] \in ApSet /\ [s.ap EXCEPT !.down = S] \in ApSet
    BY <1>1 DEF ApSet
  <2>2. s.ap.up \in SUBSET Families /\ s.ap.down \in SUBSET Families
    BY <1>1 DEF ApSet
  <2>3. /\ [s.ap EXCEPT !.up = s.ap.up \cup {f}] \in ApSet /\ [s.ap EXCEPT !.up = s.ap.up \ {f}] \in ApSet
        /\ [s.ap EXCEPT !.down = s.ap.down \cup {f}] \in ApSet
        /\ [s.ap EXCEPT !.down = s.ap.down \ {f}] \in ApSet
    BY <2>1, <2>2
  <2> QED
    BY <2>3, ApChange
<1>4. m = s.mode /\ more.mode = m /\ less.mode = m /\ down.mode = m /\ none.mode = m
  BY <1>3 DEF ApOnly, Apart
<1>5. [s EXCEPT !.ap.up = @ \cup {f}] = more /\ [s EXCEPT !.ap.up = @ \ {f}] = less
      /\ [s EXCEPT !.ap.down = @ \cup {f}] = down /\ [s EXCEPT !.ap.down = @ \ {f}] = none
  BY DEF IpacmSet, ApSet
<1> HIDE DEF m, k
<1>6. ApOnly(s, WanUpTether(s, i, f))
  <2>1. WanUpTether(s, i, f) \in {s, more, UplinkRules(more, f, k)}
    BY <1>5 DEF WanUpTether, k
  <2> HIDE DEF more
  <2>2. ApOnly(more, UplinkRules(more, f, k))
    BY <1>1, <1>3, UplinkRulesFacts DEF ApOnly
  <2> QED
    BY <2>1, <2>2, <1>2, <1>3, ApTrans
<1>7. ApOnly(s, WanDownTether(s, i, f))
  <2>1. WanDownTether(s, i, f) \in {s, less, NoUplinkRules(less, f, k)}
    BY <1>5 DEF WanDownTether, k
  <2> HIDE DEF less
  <2>2. ApOnly(less, NoUplinkRules(less, f, k))
    BY <1>1, <1>3, UplinkRulesFacts DEF ApOnly
  <2> QED
    BY <2>1, <2>2, <1>2, <1>3, ApTrans
<1>8. ApOnly(s, DownstreamAdd(s, f))
  <2>1. DownstreamAdd(s, f) \in {s, down, UplinkRules(down, f, m)}
    BY <1>5 DEF DownstreamAdd, m
  <2> HIDE DEF down
  <2>2. ApOnly(down, UplinkRules(down, f, m))
    BY <1>1, <1>3, UplinkRulesFacts DEF ApOnly
  <2> QED
    BY <2>1, <2>2, <1>2, <1>3, ApTrans
<1>9. ApOnly(s, DownstreamDel(s, f))
  <2>1. DownstreamDel(s, f) \in {s, none, NoUplinkRules(none, f, m)}
    BY <1>5 DEF DownstreamDel, m
  <2> HIDE DEF none
  <2>2. ApOnly(none, NoUplinkRules(none, f, m))
    BY <1>1, <1>3, UplinkRulesFacts DEF ApOnly
  <2> QED
    BY <2>1, <2>2, <1>2, <1>3, ApTrans
<1> QED
  BY <1>6, <1>7, <1>8, <1>9

(* The access point goes. *)
LEMMA ApDownHandled ==
  ASSUME NEW s \in IpacmSet, NEW ev, Distinct(s.wans),
         Step(View(s), ev) = View(s), ev.what # "firewall"
  PROVE  LET t == ApDown(s) IN Handled(s, t, ev) /\ HalKept(s, t) /\ t.ext = s.ext
<1> DEFINE d4 == IF "v4" \in s.wanUp THEN NoUplinkRules(s, "v4", s.mode) ELSE s
           d6 == IF "v6" \in s.wanUp THEN NoUplinkRules(d4, "v6", d4.mode) ELSE d4
           n == [s.nat EXCEPT ![Ap] = {}]
           c == [d6 EXCEPT !.ap = NoAp]
           t == ApDown(s)
<1>1. t = [d6 EXCEPT !.ap = NoAp, !.nat[Ap] = {}]
  BY DEF ApDown, ForEach
<1>2. ApOnly(s, d4)
  <2>1. s.mode \in {"none", "sta", "q6"} /\ ApOnly(s, s)
    BY DEF IpacmSet, ApOnly
  <2> QED
    BY <2>1, FamilyNames, UplinkRulesFacts
<1> HIDE DEF d4
<1>3. ApOnly(s, d6)
  <2>1. d4 \in IpacmSet
    BY <1>2 DEF ApOnly
  <2>2. d4.mode \in {"none", "sta", "q6"}
    BY <2>1 DEF IpacmSet
  <2>3. ApOnly(d4, NoUplinkRules(d4, "v6", d4.mode))
    BY <2>1, <2>2, FamilyNames, UplinkRulesFacts
  <2> QED
    BY <2>3, <1>2, ApTrans
<1> HIDE DEF d6
<1>4. ApOnly(s, c)
  <2>1. NoAp \in ApSet
    BY DEF NoAp, ApSet
  <2>2. d6 \in IpacmSet
    BY <1>3 DEF ApOnly
  <2>3. ApOnly(d6, c)
    BY <2>1, <2>2, ApChange
  <2> QED
    BY <2>3, <1>3, ApTrans
<1>5. c.nat = s.nat /\ d6.nat = s.nat /\ d6 \in IpacmSet /\ c \in IpacmSet
  BY <1>3, <1>4 DEF ApOnly, Apart
<1>6. t = [c EXCEPT !.nat = n]
  BY <1>1, <1>5 DEF IpacmSet
<1> HIDE DEF c
<1>7. n \in [Ifaces -> SUBSET Families] /\ \A i \in Ifaces : n[i] \subseteq s.nat[i]
  BY UplinkKinds DEF IpacmSet
<1> HIDE DEF n
<1>8. /\ [c EXCEPT !.nat = n] \in IpacmSet
      /\ [c EXCEPT !.nat = n].nat = n /\ [c EXCEPT !.nat = n].cache = c.cache
      /\ [c EXCEPT !.nat = n].gw = c.gw /\ [c EXCEPT !.nat = n].up = c.up
      /\ [c EXCEPT !.nat = n].latest = c.latest /\ [c EXCEPT !.nat = n].wan = c.wan
      /\ [c EXCEPT !.nat = n].wans = c.wans /\ [c EXCEPT !.nat = n].wanUp = c.wanUp
      /\ [c EXCEPT !.nat = n].ext = c.ext
  BY <1>5, <1>7 DEF IpacmSet
<1> HIDE DEF t
<1>9. /\ t \in IpacmSet /\ t.nat = n /\ t.cache = s.cache /\ t.gw = s.gw /\ t.up = s.up
      /\ t.latest = s.latest /\ t.wan = s.wan /\ t.wans = s.wans /\ t.wanUp = s.wanUp
      /\ t.ext = s.ext
  BY <1>4, <1>6, <1>8 DEF ApOnly, Apart
<1>10. View(t) = View(s)
  BY <1>9 DEF View
<1> QED
  BY <1>7, <1>9, <1>10 DEF Handled, HalKept, FlagsOK, RulesFrom, t

-----------------------------------------------------------------------------
(* The cache of the framework's calls.                                         *)

(* A set of natural numbers has a least element.                               *)
LEMMA LeastNumber ==
  ASSUME NEW T \in SUBSET Nat, T # {}
  PROVE  \E x \in T : \A y \in T : x <= y
<1> DEFINE R == {p \in Nat \X Nat : p[1] < p[2]}
<1>1. IsWellFoundedOn(R, Nat)
  BY NatLessThanWellFounded DEF OpToRel
<1>2. \A x, y \in Nat : y < x => <<y, x>> \in R
  OBVIOUS
<1> HIDE DEF R
<1>3. PICK x \in T : \A y \in T : ~(<<y, x>> \in R)
  BY <1>1, WFMin
<1>4. \A y \in T : ~(y < x)
  BY <1>2, <1>3
<1> QED
  BY <1>4

(* Induction over the natural numbers, as a fact about a set.                  *)
LEMMA NaturalSet ==
  ASSUME NEW S, 0 \in S, \A n \in Nat : n \in S => n + 1 \in S
  PROVE  Nat \subseteq S
<1> SUFFICES ASSUME Nat \ S # {} PROVE FALSE
  OBVIOUS
<1>1. PICK n \in Nat \ S : \A k \in Nat \ S : n <= k
  BY LeastNumber
<1>2. n # 0 /\ n - 1 \in Nat
  BY <1>1
<1>3. n - 1 \in S
  BY <1>1, <1>2
<1> QED
  BY <1>1, <1>2, <1>3

Beside(s) == <<s.gw, s.up, s.valid, s.nat, s.wans, s.wan, s.wanUp, s.mode, s.ap, s.int, s.ext>>
(* The cached calls for an upstream are the same.                              *)
UpSame(c, d) ==
  \A k \in Places : d[k] = c[k] \/ (c[k].what # "upstream" /\ d[k].what # "upstream")

(* A call is cached in a free place, or nowhere; in an empty cache somewhere.  *)
LEMMA CachedFacts ==
  ASSUME NEW s \in IpacmSet, NEW x \in EntrySet
  PROVE  LET t == Cached(s, x)
             put == \E p \in Places : s.cache[p] = NoEntry /\ t.cache = [s.cache EXCEPT ![p] = x]
         IN  /\ t \in IpacmSet /\ Beside(t) = Beside(s)
             /\ put \/ t.cache = s.cache
             /\ (\A p \in Places : s.cache[p] = NoEntry) => put
<1> DEFINE at(k) == (s.latest + k) % CacheSize
           free == {k \in 0 .. CacheSize - 1 : s.cache[at(k)] = NoEntry}
           k0 == CHOOSE k \in free : \A j \in free : k <= j
           p == at(k0)
           l == (p + 1) % CacheSize
           c == [s.cache EXCEPT ![p] = x]
           t == Cached(s, x)
<1>1. CacheSize \in Nat /\ CacheSize > 0 /\ s.latest \in 0 .. CacheSize - 1
      /\ s.cache \in [Places -> EntrySet]
  BY UpstreamAssumption DEF IpacmSet, Places
<1>2. ASSUME NEW n \in Nat PROVE n % CacheSize \in 0 .. CacheSize - 1
  BY <1>1
<1>3. ASSUME NEW k \in 0 .. CacheSize - 1 PROVE at(k) \in Places
  <2>1. s.latest + k \in Nat
    BY <1>1
  <2> QED
    BY <2>1, <1>2 DEF Places
<1>4. t = IF free = {} THEN s ELSE [s EXCEPT !.cache = c, !.latest = l]
  BY DEF Cached, IpacmSet
<1>5. free # {} => p \in Places /\ s.cache[p] = NoEntry
  <2> SUFFICES ASSUME free # {} PROVE k0 \in free
    BY <1>3
  <2>1. free \in SUBSET Nat
    BY <1>1
  <2> HIDE DEF free
  <2>2. \E k \in free : \A j \in free : k <= j
    BY <2>1, LeastNumber
  <2> QED
    BY <2>2
<1>6. (\A q \in Places : s.cache[q] = NoEntry) => free # {}
  <2> SUFFICES ASSUME \A q \in Places : s.cache[q] = NoEntry PROVE 0 \in free
    OBVIOUS
  <2>1. 0 \in 0 .. CacheSize - 1
    BY <1>1
  <2> QED
    BY <2>1, <1>3
<1>7. CASE free = {}
  <2>1. t = s
    BY <1>4, <1>7
  <2> QED
    BY <2>1, <1>6, <1>7
<1>8. CASE free # {}
  <2>1. t = [s EXCEPT !.cache = c, !.latest = l]
    BY <1>4, <1>8
  <2>2. c \in [Places -> EntrySet]
    BY <1>1
  <2>3. l \in Places
    <3>1. p \in Places
      BY <1>5, <1>8
    <3> HIDE DEF p
    <3>2. p + 1 \in Nat
      BY <3>1, <1>1 DEF Places
    <3> QED
      BY <3>2, <1>2 DEF Places
  <2>4. p \in Places /\ s.cache[p] = NoEntry /\ c = [s.cache EXCEPT ![p] = x]
    BY <1>5, <1>8
  <2> HIDE DEF c, l, p, t
  <2>5. t \in IpacmSet /\ Beside(t) = Beside(s) /\ t.cache = c
    BY <2>1, <2>2, <2>3 DEF IpacmSet, Beside
  <2> QED
    BY <2>4, <2>5 DEF t
<1> QED
  BY <1>7, <1>8

(* The calls for a downstream leave those for an upstream alone.               *)
LEMMA CachedDown ==
  ASSUME NEW s \in IpacmSet, NEW f \in Families
  PROVE  LET t == Cached(s, Entry("downstream", Ap, {f}))
         IN  t \in IpacmSet /\ Beside(t) = Beside(s) /\ UpSame(s.cache, t.cache)
<1> DEFINE x == Entry("downstream", Ap, {f})
           t == Cached(s, x)
<1>1. x \in EntrySet /\ x.what # "upstream"
  BY UplinkKinds DEF Entry, EntrySet
<1>2. NoEntry.what # "upstream"
  BY DEF NoEntry
<1> HIDE DEF x
<1>3. t \in IpacmSet /\ Beside(t) = Beside(s)
      /\ ((\E p \in Places : s.cache[p] = NoEntry /\ t.cache = [s.cache EXCEPT ![p] = x])
          \/ t.cache = s.cache)
  BY <1>1, CachedFacts
<1>4. s.cache \in [Places -> EntrySet]
  BY DEF IpacmSet
<1> HIDE DEF t
<1>5. UpSame(s.cache, t.cache)
  BY <1>1, <1>2, <1>3, <1>4 DEF UpSame
<1> QED
  BY <1>3, <1>5 DEF t, x

(* What the HAL asked for is the same, uplinks may be configured no more, and  *)
(* the cached calls for an upstream stay.                                      *)
HalSame(s, t) ==
  /\ t.gw = s.gw /\ t.up = s.up /\ UpSame(s.cache, t.cache)
  /\ \A i \in Uplinks : t.nat[i] \subseteq s.nat[i]

(* A cache that stays keeps the cached calls for an upstream.                *)
LEMMA HalKeptSame ==
  ASSUME NEW s, NEW t, HalKept(s, t)
  PROVE  HalSame(s, t)
  BY UplinkKinds DEF HalKept, HalSame, UpSame

(* The calls of one step and those of the next.                                *)
LEMMA UpSameTrans ==
  ASSUME NEW c, NEW d, NEW e, UpSame(c, d), UpSame(d, e)
  PROVE  UpSame(c, e)
  BY DEF UpSame

(* The Wi-Fi firmware is about to restart.                                     *)
LEMMA SsrHandled ==
  ASSUME NEW s \in IpacmSet, NEW ev, Distinct(s.wans),
         Step(View(s), ev) = View(s), ev.what # "firewall"
  PROVE  LET t == Ssr(s) IN Handled(s, t, ev) /\ HalSame(s, t) /\ t.ext = s.ext
<1> DEFINE first == IF "v4" \in s.ap.ip THEN {"v4"} ELSE s.ap.ip
           put(u, f) == Cached(u, Entry("downstream", Ap, {f}))
           d4 == IF "v4" \in first THEN put(s, "v4") ELSE s
           d6 == IF "v6" \in first THEN put(d4, "v6") ELSE d4
           n == [d6.nat EXCEPT ![Ap] = IF s.ap.on THEN {} ELSE d6.nat[Ap]]
           OK(u) == u \in IpacmSet /\ Beside(u) = Beside(s) /\ UpSame(s.cache, u.cache)
           t == Ssr(s)
<1>1. t = [d6 EXCEPT !.nat = n]
  BY DEF Ssr, ForEach
<1>2. OK(s)
  BY DEF UpSame
<1>3. ASSUME NEW u, NEW f \in Families, OK(u) PROVE OK(put(u, f))
  <2>1. u \in IpacmSet /\ put(u, f) \in IpacmSet /\ Beside(put(u, f)) = Beside(u)
        /\ UpSame(u.cache, put(u, f).cache)
    BY <1>3, CachedDown
  <2> HIDE DEF put
  <2> QED
    BY <2>1, <1>3, UpSameTrans
<1> HIDE DEF OK, put, first
<1>4. OK(d4)
  BY <1>2, <1>3, FamilyNames
<1> HIDE DEF d4
<1>5. OK(d6)
  BY <1>3, <1>4, FamilyNames
<1> HIDE DEF d6
<1>6. d6 \in IpacmSet /\ Beside(d6) = Beside(s) /\ UpSame(s.cache, d6.cache)
  BY <1>5 DEF OK
<1>7. n \in [Ifaces -> SUBSET Families] /\ \A i \in Ifaces : n[i] \subseteq d6.nat[i]
  BY <1>6 DEF IpacmSet
<1> HIDE DEF n, t
<1>8. t \in IpacmSet /\ t.nat = n /\ t.cache = d6.cache /\ t.gw = d6.gw /\ t.up = d6.up
      /\ t.wan = d6.wan /\ t.wans = d6.wans /\ t.wanUp = d6.wanUp /\ t.ext = d6.ext
  BY <1>1, <1>6, <1>7 DEF IpacmSet
<1>9. d6.nat = s.nat /\ d6.gw = s.gw /\ d6.up = s.up
      /\ d6.wan = s.wan /\ d6.wans = s.wans /\ d6.wanUp = s.wanUp /\ d6.ext = s.ext
  BY <1>6 DEF Beside, IpacmSet
<1>10. View(t) = View(s)
  BY <1>8, <1>9 DEF View
<1>11. FlagsOK(s) => FlagsOK(t)
  BY <1>8, <1>9 DEF FlagsOK
<1>12. RulesFrom(s, t)
  BY <1>8, <1>9 DEF RulesFrom
<1>13. HalSame(s, t)
  <2>1. \A i \in Uplinks : t.nat[i] \subseteq s.nat[i]
    BY <1>7, <1>8, <1>9, UplinkKinds
  <2> QED
    BY <2>1, <1>6, <1>8, <1>9 DEF HalSame
<1> QED
  BY <1>8, <1>9, <1>10, <1>11, <1>12, <1>13 DEF Handled, t

-----------------------------------------------------------------------------
(* Events that are appended. *)

Inner(s) == <<s.gw, s.up, s.latest, s.valid, s.cache, s.nat, s.wans, s.wan, s.wanUp, s.mode,
              s.ap, s.int>>
Firewalls(q) == \E p \in 1 .. Len(q) : q[p].what = "firewall"
(* From s to t only such events were appended as change nothing in the view b. *)
Trails(s, t, b) ==
  /\ \A a : Leads(env, a, s.ext, b) => Leads(env, a, t.ext, b)
  /\ Firewalls(s.ext) => Firewalls(t.ext)

(* An event that is posted changes nothing but the queue.                    *)
LEMMA ExternalFacts ==
  ASSUME NEW s \in IpacmSet, NEW ev \in ExtEvents
  PROVE  LET t == External(s, ev)
         IN  /\ t \in IpacmSet /\ Inner(t) = Inner(s) /\ t.ext = Append(s.ext, ev)
             /\ Firewalls(s.ext) => Firewalls(t.ext)
             /\ ev.what = "firewall" => Firewalls(t.ext)
             /\ s.ext \in Seq(ExtEvents)
<1> DEFINE q == Append(s.ext, ev)
           t == External(s, ev)
<1>1. s.ext \in Seq(ExtEvents) /\ t = [s EXCEPT !.ext = q]
  BY DEF IpacmSet, External
<1>2. /\ q \in Seq(ExtEvents) /\ Len(q) = Len(s.ext) + 1 /\ Len(s.ext) \in Nat
      /\ \A n \in 1 .. Len(s.ext) : q[n] = s.ext[n]
      /\ q[Len(s.ext) + 1] = ev
  BY <1>1, AppendElems
<1> HIDE DEF q, t
<1>3. t \in IpacmSet /\ Inner(t) = Inner(s) /\ t.ext = q
  BY <1>1, <1>2 DEF IpacmSet, Inner
<1>4. Firewalls(s.ext) => Firewalls(t.ext)
  BY <1>2, <1>3 DEF Firewalls
<1>5. ev.what = "firewall" => Firewalls(t.ext)
  BY <1>2, <1>3 DEF Firewalls
<1> QED
  BY <1>1, <1>3, <1>4, <1>5 DEF t, q

(* One more such event.                                                        *)
LEMMA TrailsOne ==
  ASSUME NEW s \in IpacmSet, NEW ev \in ExtEvents, NEW b, Guard(env, b, ev), Step(b, ev) = b
  PROVE  LET t == External(s, ev)
         IN  t \in IpacmSet /\ Inner(t) = Inner(s) /\ Trails(s, t, b)
<1> DEFINE t == External(s, ev)
<1>1. /\ t \in IpacmSet /\ Inner(t) = Inner(s) /\ t.ext = Append(s.ext, ev)
      /\ Firewalls(s.ext) => Firewalls(t.ext)
      /\ s.ext \in Seq(ExtEvents)
  BY ExternalFacts
<1> HIDE DEF t
<1>2. ASSUME NEW a, Leads(env, a, s.ext, b) PROVE Leads(env, a, t.ext, b)
  <2>1. Leads(env, a, Append(s.ext, ev), Step(b, ev))
    BY <1>1, <1>2, LeadsAppend
  <2> QED
    BY <2>1, <1>1
<1> QED
  BY <1>1, <1>2 DEF Trails, t

(* Appending composes. *)
LEMMA TrailsTrans ==
  ASSUME NEW s, NEW t, NEW u, NEW b, Trails(s, t, b), Trails(t, u, b)
  PROVE  Trails(s, u, b)
  BY DEF Trails

(* Nothing was appended.                                                     *)
LEMMA TrailsSame ==
  ASSUME NEW s, NEW t, NEW b, t.ext = s.ext
  PROVE  Trails(s, t, b)
  BY DEF Trails

(* The uplinks do not look at the access point's events.                       *)
LEMMA IdleEvents ==
  ASSUME NEW b \in Views, NEW f \in Families,
         NEW what \in {"linkUp", "address", "linkDown", "downAdd", "downDel"}
  PROVE  /\ Ev(what, Ap, f) \in ExtEvents /\ Guard(env, b, Ev(what, Ap, f))
         /\ Step(b, Ev(what, Ap, f)) = b
<1> DEFINE ev == Ev(what, Ap, f)
<1>1. ev.what = what /\ ev.iface = Ap /\ ev.fam = f
  BY DEF Ev
<1>2. ev \in ExtEvents
  BY UplinkKinds DEF Ev, ExtEvents
<1>3. Ap \notin Uplinks /\ Ap \notin Modems /\ Ap \notin b.inst
  BY UplinkKinds DEF Views
<1> HIDE DEF ev
<1>4. Guard(env, b, ev)
  BY <1>1, <1>3 DEF Guard
<1>5. Step(b, ev) = b
  BY <1>1, <1>3 DEF Step
<1> QED
  BY <1>2, <1>4, <1>5 DEF ev

(* An uplink's address that is known, or an uplink that is not there.          *)
LEMMA KnownAddress ==
  ASSUME NEW b \in Views, NEW i \in Uplinks, NEW f \in Families,
         i \in b.inst => f \in b.wan[i].ip
  PROVE  /\ Ev("address", i, f) \in ExtEvents /\ Guard(env, b, Ev("address", i, f))
         /\ Step(b, Ev("address", i, f)) = b
<1> DEFINE ev == Ev("address", i, f)
           w == b.wan[i]
           x == [w EXCEPT !.ip = @ \cup {f}]
<1>1. ev.what = "address" /\ ev.iface = i /\ ev.fam = f
  BY DEF Ev
<1>2. ev \in ExtEvents
  BY UplinkKinds DEF Ev, ExtEvents
<1> HIDE DEF ev
<1>3. Guard(env, b, ev)
  BY <1>1 DEF Guard
<1>4. Step(b, ev) = b
  <2>1. CASE i \notin b.inst
    BY <2>1, <1>1 DEF Step
  <2>2. CASE i \in b.inst
    <3>1. w \in SeenSet /\ f \in w.ip
      BY <2>2 DEF Views
    <3>2. w.ip \cup {f} = w.ip
      BY <3>1
    <3>3. x = w
      BY <3>1, <3>2 DEF SeenSet
    <3>4. Step(b, ev) = [b EXCEPT !.wan[i] = x]
      BY <2>2, <1>1 DEF Step
    <3> HIDE DEF w, x
    <3>5. Step(b, ev) = [b EXCEPT !.wan[i] = w]
      BY <3>3, <3>4
    <3> QED
      BY <3>5, ViewSame DEF w
  <2> QED
    BY <2>1, <2>2
<1> QED
  BY <1>2, <1>3, <1>4 DEF ev

(* The addresses that the kernel already has are announced again.              *)
Announced(s, i, S) ==
  LET first == IF "v4" \in S THEN External(s, Ev("address", i, "v4")) ELSE s
  IN  IF "v6" \in S THEN External(first, Ev("address", i, "v6")) ELSE first

(* What is announced again changes nothing in the view.                      *)
LEMMA KnownTrails ==
  ASSUME NEW s \in IpacmSet, NEW i \in Ifaces, NEW b \in Views, NEW S \in SUBSET Families,
         i \in b.inst => S \subseteq b.wan[i].ip
  PROVE  LET t == Announced(s, i, S)
         IN  t \in IpacmSet /\ Inner(t) = Inner(s) /\ Trails(s, t, b)
<1> DEFINE put(u, f) == External(u, Ev("address", i, f))
           OK(u) == u \in IpacmSet /\ Inner(u) = Inner(s) /\ Trails(s, u, b)
           t4 == IF "v4" \in S THEN put(s, "v4") ELSE s
           t6 == IF "v6" \in S THEN put(t4, "v6") ELSE t4
<1>1. OK(s)
  BY TrailsSame
<1>2. ASSUME NEW f \in S, NEW u, OK(u) PROVE OK(put(u, f))
  <2> DEFINE ev == Ev("address", i, f)
  <2>1. ev \in ExtEvents /\ Guard(env, b, ev) /\ Step(b, ev) = b
    <3>1. CASE i = Ap
      <4>1. "address" \in {"linkUp", "address", "linkDown", "downAdd", "downDel"}
        OBVIOUS
      <4> QED
        BY <3>1, <4>1, IdleEvents
    <3>2. CASE i \in Uplinks
      BY <3>2, KnownAddress
    <3> QED
      BY <3>1, <3>2, UplinkKinds
  <2> HIDE DEF ev
  <2>2. External(u, ev) \in IpacmSet /\ Inner(External(u, ev)) = Inner(u)
        /\ Trails(u, External(u, ev), b)
    BY <1>2, <2>1, TrailsOne
  <2>3. OK(External(u, ev))
    BY <2>2, <1>2, TrailsTrans
  <2> QED
    BY <2>3 DEF ev
<1> HIDE DEF OK, put
<1>3. OK(t4)
  BY <1>1, <1>2
<1> HIDE DEF t4
<1>4. OK(t6)
  BY <1>2, <1>3
<1>5. Announced(s, i, S) = t6
  BY DEF Announced, t4, put
<1> HIDE DEF t6
<1> QED
  BY <1>4, <1>5 DEF OK

(* An interface comes up: it gets an instance, once.                           *)
LEMMA LinkUpHandled ==
  ASSUME NEW s \in IpacmSet, NEW i \in Ifaces, NEW ev, NEW b \in Views, Distinct(s.wans),
         ev.what = "linkUp", ev.iface = i,
         net[i].addrs \in SUBSET Families,
         i \in b.inst => net[i].addrs \subseteq b.wan[i].ip
  PROVE  LET t == LinkUp(s, i) IN Handled(s, t, ev) /\ HalKept(s, t) /\ Trails(s, t, b)
<1> DEFINE k == Announced(s, i, net[i].addrs)
           t == LinkUp(s, i)
<1>1. t = IF i = Ap THEN IF s.ap.on THEN s ELSE [k EXCEPT !.ap.on = TRUE]
          ELSE IF Instance(s, i) THEN s ELSE [k EXCEPT !.wans = Append(@, i)]
  BY DEF LinkUp, ForEach, Announced
<1>2. k \in IpacmSet /\ Inner(k) = Inner(s) /\ Trails(s, k, b)
  BY KnownTrails
<1> HIDE DEF k
<1>3. k.gw = s.gw /\ k.up = s.up /\ k.latest = s.latest /\ k.cache = s.cache /\ k.nat = s.nat
      /\ k.wans = s.wans /\ k.wan = s.wan /\ k.wanUp = s.wanUp /\ k.ap = s.ap
  BY <1>2 DEF Inner
<1>4. /\ View(s) \in Views /\ View(s).inst = ToSet(s.wans)
      /\ \A j : j \in View(s).inst <=> Instance(s, j)
  BY ViewFacts
<1>5. CASE t = s
  <2>1. Step(View(s), ev) = View(s)
    <3>1. CASE i = Ap
      BY <3>1, UplinkKinds DEF Step
    <3>2. CASE i # Ap
      <4>1. i \in Uplinks
        BY <3>2, UplinkKinds
      <4>2. i \in View(s).inst
        <5>1. CASE Instance(s, i)
          BY <5>1, <1>4
        <5>2. CASE ~Instance(s, i)
          <6>1. s = [k EXCEPT !.wans = Append(@, i)]
            BY <1>1, <1>5, <5>2, <3>2
          <6>2. s.wans = Append(s.wans, i)
            BY <6>1, <1>2, <1>3 DEF IpacmSet
          <6>3. Len(Append(s.wans, i)) = Len(s.wans) + 1 /\ Len(s.wans) \in Nat
            BY <4>1 DEF IpacmSet
          <6> QED
            BY <6>2, <6>3
        <5> QED
          BY <5>1, <5>2
      <4>3. Step(View(s), ev) = [View(s) EXCEPT !.inst = @ \cup {i}]
        BY <4>1 DEF Step
      <4>4. View(s).inst \cup {i} = View(s).inst
        BY <4>2
      <4> QED
        BY <4>3, <4>4, <1>4 DEF Views
    <3> QED
      BY <3>1, <3>2
  <2>2. Trails(s, s, b)
    BY TrailsSame
  <2>3. Handled(s, s, ev) /\ HalKept(s, s)
    BY <2>1, NothingHandled
  <2> QED
    BY <2>2, <2>3, <1>5
<1>6. CASE t # s /\ i = Ap
  <2> DEFINE x == [k.ap EXCEPT !.on = TRUE]
  <2>1. t = [k EXCEPT !.ap.on = TRUE]
    BY <1>1, <1>6
  <2>2. k.ap \in ApSet
    BY <1>2 DEF IpacmSet
  <2>3. x \in ApSet /\ t = [k EXCEPT !.ap = x]
    BY <2>1, <2>2, <1>2 DEF ApSet, IpacmSet
  <2> HIDE DEF x, t
  <2>4. ApOnly(k, t)
    BY <2>3, <1>2, ApChange
  <2>5. t \in IpacmSet /\ t.gw = s.gw /\ t.up = s.up /\ t.latest = s.latest /\ t.cache = s.cache
        /\ t.nat = s.nat /\ t.wans = s.wans /\ t.wan = s.wan /\ t.wanUp = s.wanUp /\ t.ext = k.ext
    BY <2>4, <1>3 DEF ApOnly, Apart
  <2>6. View(t) = View(s)
    BY <2>5 DEF View
  <2>7. Step(View(s), ev) = View(s)
    BY <1>6, UplinkKinds DEF Step
  <2>8. Trails(s, t, b)
    BY <2>5, <1>2 DEF Trails
  <2> QED
    BY <2>5, <2>6, <2>7, <2>8 DEF Handled, HalKept, FlagsOK, RulesFrom, t
<1>7. CASE t # s /\ i # Ap
  <2> DEFINE q == Append(k.wans, i)
  <2>1. i \in Uplinks
    BY <1>7, UplinkKinds
  <2>2. t = [k EXCEPT !.wans = q] /\ ~Instance(s, i)
    BY <1>1, <1>7
  <2>3. k.wans \in Seq(Uplinks)
    BY <1>2 DEF IpacmSet
  <2>4. q \in Seq(Uplinks) /\ Distinct(q) /\ ToSet(q) = ToSet(k.wans) \cup {i}
    <3>1. /\ q \in Seq(Uplinks) /\ Len(q) = Len(k.wans) + 1 /\ Len(k.wans) \in Nat
          /\ \A n \in 1 .. Len(k.wans) : q[n] = k.wans[n]
          /\ q[Len(k.wans) + 1] = i
      BY <2>1, <2>3, AppendElems
    <3>2. \A n \in 1 .. Len(k.wans) : k.wans[n] # i
      BY <2>2, <2>3, <1>3 DEF Instance, ToSet
    <3>3. Distinct(k.wans)
      BY <1>3
    <3> HIDE DEF q
    <3>4. Distinct(q)
      BY <3>1, <3>2, <3>3 DEF Distinct
    <3>5. ToSet(q) = ToSet(k.wans) \cup {i}
      <4>1. DOMAIN q = 1 .. Len(q) /\ DOMAIN k.wans = 1 .. Len(k.wans)
        BY <2>3, <3>1
      <4>2. \A z : z \in ToSet(q) <=> \E n \in 1 .. Len(q) : q[n] = z
        BY <4>1 DEF ToSet
      <4>3. \A z : z \in ToSet(k.wans) <=> \E n \in 1 .. Len(k.wans) : k.wans[n] = z
        BY <4>1 DEF ToSet
      <4>4. ASSUME NEW z PROVE z \in ToSet(q) <=> z \in ToSet(k.wans) \/ z = i
        BY <4>2, <4>3, <3>1
      <4> QED
        BY <4>4
    <3> QED
      BY <3>1, <3>4, <3>5
  <2> HIDE DEF q, t
  <2>5. t \in IpacmSet /\ t.gw = s.gw /\ t.up = s.up /\ t.latest = s.latest /\ t.cache = s.cache
        /\ t.nat = s.nat /\ t.wans = q /\ t.wan = s.wan /\ t.wanUp = s.wanUp /\ t.ext = k.ext
    BY <2>2, <2>4, <1>2, <1>3 DEF IpacmSet
  <2>6. View(t) = Step(View(s), ev)
    <3> DEFINE I == View(s).inst \cup {i}
               c == [View(s) EXCEPT !.inst = I]
    <3>1. Step(View(s), ev) = c
      BY <2>1 DEF Step
    <3>2. I \in SUBSET Uplinks /\ I = ToSet(q)
      BY <2>1, <2>4, <1>3, <1>4 DEF Views
    <3> HIDE DEF I
    <3>3. c \in Views /\ c.inst = I /\ c.wan = View(s).wan
      BY <3>2, <1>4 DEF Views
    <3> HIDE DEF c
    <3>4. View(t) \in Views /\ View(t).inst = ToSet(q)
      BY <2>5, ViewFacts
    <3>5. View(t).wan = View(s).wan
      BY <2>5 DEF View
    <3>6. View(t) = c
      BY <3>2, <3>3, <3>4, <3>5, ViewsEqual
    <3> QED
      BY <3>1, <3>6
  <2>7. Trails(s, t, b)
    BY <2>5, <1>2 DEF Trails
  <2> QED
    BY <2>4, <2>5, <2>6, <2>7 DEF Handled, HalKept, FlagsOK, RulesFrom, t
<1> QED
  BY <1>5, <1>6, <1>7

-----------------------------------------------------------------------------
(* What the HAL posts, and what it makes of the last view. *)

(* From s to t only events were appended, and they lead from b to c.           *)
Reaches(s, t, b, c) ==
  /\ t \in IpacmSet /\ Inner(t) = Inner(s) /\ c \in Views /\ ViewOK(env, c)
  /\ Firewalls(s.ext) => Firewalls(t.ext)
  /\ \A a : Leads(env, a, s.ext, b) => Leads(env, a, t.ext, c)

(* One event is appended.                                                    *)
LEMMA ReachesOne ==
  ASSUME NEW s \in IpacmSet, NEW ev \in ExtEvents, NEW b \in Views, ViewOK(env, b),
         Guard(env, b, ev)
  PROVE  Reaches(s, External(s, ev), b, Step(b, ev))
<1> DEFINE t == External(s, ev)
<1>1. /\ t \in IpacmSet /\ Inner(t) = Inner(s) /\ t.ext = Append(s.ext, ev)
      /\ Firewalls(s.ext) => Firewalls(t.ext)
      /\ s.ext \in Seq(ExtEvents)
  BY ExternalFacts
<1> HIDE DEF t
<1>2. Step(b, ev) \in Views /\ ViewOK(env, Step(b, ev))
  BY StepOK
<1>3. ASSUME NEW a, Leads(env, a, s.ext, b) PROVE Leads(env, a, t.ext, Step(b, ev))
  BY <1>1, <1>3, LeadsAppend
<1>4. Reaches(s, t, b, Step(b, ev))
  BY <1>1, <1>2, <1>3 DEF Reaches
<1> QED
  BY <1>4 DEF t

(* Posting composes. *)
LEMMA ReachesTrans ==
  ASSUME NEW s, NEW t, NEW u, NEW b, NEW c, NEW d, Reaches(s, t, b, c), Reaches(t, u, c, d)
  PROVE  Reaches(s, u, b, d)
  BY DEF Reaches

(* One uplink's routes change. *)
OnlyWan(b, c, i) ==
  /\ b \in Views /\ c \in Views /\ c.inst = b.inst
  /\ \A j \in Uplinks : j # i => c.wan[j] = b.wan[j]
  /\ c.wan[i].ip = b.wan[i].ip /\ c.wan[i].neigh = b.wan[i].neigh
(* The families S were taken from it. *)
Dels(b, c, i, S) ==
  /\ OnlyWan(b, c, i)
  /\ \A g \in Families : g \in Held(c.wan[i]) <=> g \in Held(b.wan[i]) /\ g \notin S
  /\ Wait(c.wan[i]) = Wait(b.wan[i])
  /\ (b.wan[i].isGw = TRUE => b.wan[i].active # {})
       => (c.wan[i].isGw = TRUE => c.wan[i].active # {})

(* Nothing to take away. *)
LEMMA DelsNone ==
  ASSUME NEW b \in Views, NEW i \in Uplinks, NEW S,
         \A f \in Families : f \in Held(b.wan[i]) => f \notin S
  PROVE  Dels(b, b, i, S)
  BY DEF Dels, OnlyWan

(* One route is taken away.                                                  *)
LEMMA DelOne ==
  ASSUME NEW b \in Views, ViewOK(env, b), NEW i \in Uplinks, NEW f \in Families,
         f \notin Wait(b.wan[i])
  PROVE  LET ev == Ev("routeDel", i, f)
         IN  ev \in ExtEvents /\ Guard(env, b, ev) /\ Dels(b, Step(b, ev), i, {f})
<1> DEFINE ev == Ev("routeDel", i, f)
           w == b.wan[i]
           x == DelW(w, f)
           c == [b EXCEPT !.wan[i] = x]
<1>1. ev.what = "routeDel" /\ ev.iface = i /\ ev.fam = f
  BY DEF Ev
<1>2. ev \in ExtEvents
  BY UplinkKinds DEF Ev, ExtEvents
<1> HIDE DEF ev
<1>3. Guard(env, b, ev)
  BY <1>1 DEF Guard
<1>4. w \in SeenSet /\ WanOK(w, i) /\ f \notin Wait(w)
  BY DEF Views, ViewOK
<1>5. CASE i \in b.inst
  <2>1. Step(b, ev) = c
    BY <1>1, <1>5 DEF Step
  <2>2. /\ x \in SeenSet
        /\ x.ip = w.ip /\ x.neigh = w.neigh
        /\ \A g \in Families : g \in Held(x) <=> g \in Held(w) /\ g # f
        /\ Wait(x) = Wait(w)
        /\ f \in w.active => x.isGw = FALSE
        /\ f \notin w.active => x = w
    <3> HIDE DEF w
    <3>1. x \in SeenSet /\ x.ip = w.ip /\ x.neigh = w.neigh /\ Wait(x) = Wait(w)
      BY <1>4, DelWFacts
    <3>2. \A g \in Families : g \in Held(x) <=> g \in Held(w) /\ g # f
      BY <1>4, DelWFacts
    <3>3. (f \in w.active => x.isGw = FALSE) /\ (f \notin w.active => x = w)
      BY DEF DelW, SeenSet
    <3> QED
      BY <3>1, <3>2, <3>3
  <2> HIDE DEF x
  <2>3. c \in Views /\ c.inst = b.inst /\ c.wan[i] = x
        /\ \A j \in Uplinks : j # i => c.wan[j] = b.wan[j]
    BY <2>2, ViewChange
  <2> HIDE DEF c
  <2>4. Dels(b, c, i, {f})
    BY <2>2, <2>3 DEF Dels, OnlyWan
  <2> QED
    BY <2>1, <2>4, <1>2, <1>3 DEF ev
<1>6. CASE i \notin b.inst
  <2>1. Step(b, ev) = b
    BY <1>1, <1>6 DEF Step
  <2>2. Held(w) = {}
    BY <1>6, NoWanFacts DEF ViewOK
  <2>3. Dels(b, b, i, {f})
    BY <2>2, DelsNone
  <2> QED
    BY <2>1, <2>3, <1>2, <1>3 DEF ev
<1> QED
  BY <1>5, <1>6

(* The two families one after the other. *)
Posted(s, what, i, S) ==
  LET first == IF "v4" \in S THEN External(s, Ev(what, i, "v4")) ELSE s
  IN  IF "v6" \in S THEN External(first, Ev(what, i, "v6")) ELSE first

(* PostRoutes is Posted.                                                     *)
LEMMA PostRoutesPosted ==
  ASSUME NEW s, NEW what, NEW i, NEW S
  PROVE  PostRoutes(s, what, i, S) = Posted(s, what, i, S)
  BY DEF PostRoutes, ForEach, Posted

(* The routes of several families are taken away.                            *)
LEMMA DelMany ==
  ASSUME NEW s \in IpacmSet, NEW b \in Views, ViewOK(env, b), NEW i \in Uplinks,
         NEW S \in SUBSET Families, Wait(b.wan[i]) = {}
  PROVE  \E c : Reaches(s, PostRoutes(s, "routeDel", i, S), b, c) /\ Dels(b, c, i, S)
<1> DEFINE ev(f) == Ev("routeDel", i, f)
           t4 == IF "v4" \in S THEN External(s, ev("v4")) ELSE s
           c4 == IF "v4" \in S THEN Step(b, ev("v4")) ELSE b
           t6 == IF "v6" \in S THEN External(t4, ev("v6")) ELSE t4
           c6 == IF "v6" \in S THEN Step(c4, ev("v6")) ELSE c4
<1>1. PostRoutes(s, "routeDel", i, S) = t6
  BY PostRoutesPosted DEF Posted
<1>2. ASSUME NEW u \in IpacmSet, NEW d \in Views, ViewOK(env, d), NEW f \in Families,
             Wait(d.wan[i]) = {}
      PROVE  Reaches(u, External(u, ev(f)), d, Step(d, ev(f))) /\ Dels(d, Step(d, ev(f)), i, {f})
  <2>1. ev(f) \in ExtEvents /\ Guard(env, d, ev(f)) /\ Dels(d, Step(d, ev(f)), i, {f})
    BY <1>2, DelOne
  <2> HIDE DEF ev
  <2> QED
    BY <1>2, <2>1, ReachesOne
<1> HIDE DEF ev
<1>3. Reaches(s, s, b, b)
  BY DEF Reaches
<1>4. Reaches(s, t4, b, c4) /\ Dels(b, c4, i, S \cap {"v4"})
  <2>1. CASE "v4" \in S
    <3>1. S \cap {"v4"} = {"v4"}
      BY <2>1
    <3> QED
      BY <3>1, <2>1, <1>2, FamilyNames
  <2>2. CASE "v4" \notin S
    <3>1. Dels(b, b, i, S \cap {"v4"})
      BY <2>2, DelsNone
    <3> QED
      BY <3>1, <2>2, <1>3
  <2> QED
    BY <2>1, <2>2
<1> HIDE DEF t4, c4
<1>5. t4 \in IpacmSet /\ c4 \in Views /\ ViewOK(env, c4) /\ Wait(c4.wan[i]) = {}
  BY <1>4 DEF Reaches, Dels
<1>6. CASE "v6" \in S
  <2>1. Reaches(t4, t6, c4, c6) /\ Dels(c4, c6, i, {"v6"})
    BY <1>2, <1>5, <1>6, FamilyNames
  <2> HIDE DEF t6, c6
  <2>2. Reaches(s, t6, b, c6)
    BY <2>1, <1>4, ReachesTrans
  <2>3. ASSUME NEW g \in Families
        PROVE  g \in Held(c6.wan[i]) <=> g \in Held(b.wan[i]) /\ g \notin S
    <3>1. g \in Held(c6.wan[i]) <=> g \in Held(c4.wan[i]) /\ g # "v6"
      BY <2>1 DEF Dels
    <3>2. g \in Held(c4.wan[i]) <=> g \in Held(b.wan[i]) /\ g \notin S \cap {"v4"}
      BY <1>4 DEF Dels
    <3>3. g \in S <=> g \in S \cap {"v4"} \/ g = "v6"
      BY <1>6 DEF Families
    <3> QED
      BY <3>1, <3>2, <3>3
  <2>4. Dels(b, c6, i, S)
    BY <2>1, <2>3, <1>4 DEF Dels, OnlyWan
  <2> QED
    BY <1>1, <2>2, <2>4
<1>7. CASE "v6" \notin S
  <2>1. t6 = t4 /\ c6 = c4 /\ S \cap {"v4"} = S
    BY <1>7 DEF Families
  <2> QED
    BY <1>1, <1>4, <2>1
<1> QED
  BY <1>6, <1>7

(* The families S were given to it, one after the other.                       *)
AddFree(b, i, S) ==
  /\ \A j \in Uplinks : j # i => Held(b.wan[j]) = {}
  /\ \A f \in S : f \notin Held(b.wan[i])
  /\ i \in Stas /\ i \in b.inst /\ ~MayWait(env)
       => \A f \in S : f \in b.wan[i].ip => f \in b.wan[i].neigh
Adds(b, c, i, S) ==
  /\ OnlyWan(b, c, i)
  /\ \A g \in Families : g \in Held(c.wan[i]) => g \in S \/ g \in Held(b.wan[i])
  /\ \A g \in Families :
       g \in Held(b.wan[i]) => g \in Held(c.wan[i]) \/ ("v4" \in S /\ g \in Wait(b.wan[i]))
  /\ \A g \in S : i \in b.inst /\ g \in b.wan[i].ip
                    => g \in Held(c.wan[i])
  /\ Wait(b.wan[i]) = {} /\ (i \in Stas => \A g \in S : g \in b.wan[i].ip => g \in b.wan[i].neigh)
       => Wait(c.wan[i]) = {}
  /\ i \in Modems /\ b.wan[i].isGw = (b.wan[i].active # {})
       => c.wan[i].isGw = (c.wan[i].active # {})

(* One route is given.                                                       *)
LEMMA AddOne ==
  ASSUME NEW b \in Views, ViewOK(env, b), NEW i \in Uplinks, NEW f \in Families,
         AddFree(b, i, {f})
  PROVE  LET ev == Ev("routeAdd", i, f)
         IN  ev \in ExtEvents /\ Guard(env, b, ev) /\ Adds(b, Step(b, ev), i, {f})
<1> DEFINE ev == Ev("routeAdd", i, f)
           w == b.wan[i]
           x == AddW(w, i, f)
           c == [b EXCEPT !.wan[i] = x]
<1>1. ev.what = "routeAdd" /\ ev.iface = i /\ ev.fam = f
  BY DEF Ev
<1>2. ev \in ExtEvents
  BY UplinkKinds DEF Ev, ExtEvents
<1> HIDE DEF ev
<1>3. Guard(env, b, ev)
  BY <1>1 DEF Guard, RouteGuard, AddFree
<1>4. w \in SeenSet /\ WanOK(w, i) /\ f \notin Held(w)
  BY DEF Views, ViewOK, AddFree
<1>5. CASE i \in b.inst
  <2>1. Step(b, ev) = c
    BY <1>1, <1>5 DEF Step
  <2>2. /\ x \in SeenSet
        /\ x.ip = w.ip /\ x.neigh = w.neigh
        /\ i \in Modems /\ w.isGw = (w.active # {}) => x.isGw = (x.active # {})
        /\ f \in w.ip => f \in Held(x)
        /\ \A g \in Families : g \in Held(x) => g = f \/ g \in Held(w)
        /\ \A g \in Families : g \in Held(w) => g \in Held(x) \/ (f = "v4" /\ g \in Wait(w))
        /\ Wait(w) = {} /\ (i \in Stas /\ f \in w.ip => f \in w.neigh) => Wait(x) = {}
    <3> HIDE DEF w
    <3>1. x \in SeenSet /\ x.ip = w.ip /\ x.neigh = w.neigh
      BY <1>4, AddWFacts
    <3>2. i \in Modems /\ w.isGw = (w.active # {}) => x.isGw = (x.active # {})
      BY <1>4, AddWFacts
    <3>3. (f \in w.ip => f \in Held(x))
          /\ \A g \in Families : g \in Held(x) => g = f \/ g \in Held(w)
      BY <1>4, AddWFacts
    <3>4. \A g \in Families : g \in Held(w) => g \in Held(x) \/ (f = "v4" /\ g \in Wait(w))
      BY <1>4, AddWFacts
    <3>5. Wait(w) = {} /\ (i \in Stas /\ f \in w.ip => f \in w.neigh) => Wait(x) = {}
      BY <1>4, AddWFacts
    <3> QED
      BY <3>1, <3>2, <3>3, <3>4, <3>5
  <2> HIDE DEF x
  <2>3. c \in Views /\ c.inst = b.inst /\ c.wan[i] = x
        /\ \A j \in Uplinks : j # i => c.wan[j] = b.wan[j]
    BY <2>2, ViewChange
  <2> HIDE DEF c
  <2>4. Adds(b, c, i, {f})
    BY <2>2, <2>3 DEF Adds, OnlyWan
  <2> QED
    BY <2>1, <2>4, <1>2, <1>3 DEF ev
<1>6. CASE i \notin b.inst
  <2>1. Step(b, ev) = b
    BY <1>1, <1>6 DEF Step
  <2>2. Adds(b, b, i, {f})
    BY <1>6 DEF Adds, OnlyWan
  <2> QED
    BY <2>1, <2>2, <1>2, <1>3 DEF ev
<1> QED
  BY <1>5, <1>6

(* The routes of several families are given.                                 *)
LEMMA AddMany ==
  ASSUME NEW s \in IpacmSet, NEW b \in Views, ViewOK(env, b), NEW i \in Uplinks,
         NEW S \in SUBSET Families, Wait(b.wan[i]) = {}, AddFree(b, i, S)
  PROVE  \E c : Reaches(s, PostRoutes(s, "routeAdd", i, S), b, c) /\ Adds(b, c, i, S)
<1> DEFINE ev(f) == Ev("routeAdd", i, f)
           t4 == IF "v4" \in S THEN External(s, ev("v4")) ELSE s
           c4 == IF "v4" \in S THEN Step(b, ev("v4")) ELSE b
           t6 == IF "v6" \in S THEN External(t4, ev("v6")) ELSE t4
           c6 == IF "v6" \in S THEN Step(c4, ev("v6")) ELSE c4
           S4 == S \cap {"v4"}
<1>1. PostRoutes(s, "routeAdd", i, S) = t6
  BY PostRoutesPosted DEF Posted
<1>2. ASSUME NEW u \in IpacmSet, NEW d \in Views, ViewOK(env, d), NEW f \in Families,
             AddFree(d, i, {f})
      PROVE  Reaches(u, External(u, ev(f)), d, Step(d, ev(f))) /\ Adds(d, Step(d, ev(f)), i, {f})
  <2>1. ev(f) \in ExtEvents /\ Guard(env, d, ev(f)) /\ Adds(d, Step(d, ev(f)), i, {f})
    BY <1>2, AddOne
  <2> HIDE DEF ev
  <2> QED
    BY <1>2, <2>1, ReachesOne
<1> HIDE DEF ev
<1>3. Reaches(s, s, b, b)
  BY DEF Reaches
<1>4. Reaches(s, t4, b, c4) /\ Adds(b, c4, i, S4)
  <2>1. CASE "v4" \in S
    <3>1. S4 = {"v4"}
      BY <2>1
    <3>2. AddFree(b, i, {"v4"})
      BY <2>1 DEF AddFree
    <3> QED
      BY <3>1, <3>2, <2>1, <1>2, FamilyNames
  <2>2. CASE "v4" \notin S
    <3>1. Adds(b, b, i, S4)
      BY <2>2 DEF Adds, OnlyWan
    <3> QED
      BY <3>1, <2>2, <1>3
  <2> QED
    BY <2>1, <2>2
<1> HIDE DEF t4, c4
<1>5. t4 \in IpacmSet /\ c4 \in Views /\ ViewOK(env, c4) /\ OnlyWan(b, c4, i)
  BY <1>4 DEF Reaches, Adds
<1>6. CASE "v6" \in S
  <2>1. AddFree(c4, i, {"v6"})
    <3>1. \A j \in Uplinks : j # i => Held(c4.wan[j]) = {}
      BY <1>5 DEF OnlyWan, AddFree
    <3>2. "v6" \notin Held(c4.wan[i])
      BY <1>4, <1>6, FamilyNames DEF Adds, AddFree
    <3> QED
      BY <3>1, <3>2, <1>5, <1>6 DEF OnlyWan, AddFree
  <2>2. Reaches(t4, t6, c4, c6) /\ Adds(c4, c6, i, {"v6"})
    BY <1>2, <1>5, <1>6, <2>1, FamilyNames
  <2> HIDE DEF t6, c6
  <2>3. Reaches(s, t6, b, c6)
    BY <2>2, <1>4, ReachesTrans
  <2>4. OnlyWan(b, c6, i)
    BY <2>2, <1>5 DEF Adds, OnlyWan
  <2>5. \A g \in Families : g \in Held(c4.wan[i]) => g \in Held(c6.wan[i])
    BY <2>2, FamilyNames DEF Adds
  <2>6. ASSUME NEW g \in Families
        PROVE  /\ g \in Held(c6.wan[i]) => g \in S \/ g \in Held(b.wan[i])
               /\ g \in Held(b.wan[i]) => g \in Held(c6.wan[i])
               /\ g \in S /\ i \in b.inst /\ g \in b.wan[i].ip => g \in Held(c6.wan[i])
    <3>1. /\ g \in Held(c6.wan[i]) => g = "v6" \/ g \in Held(c4.wan[i])
          /\ g = "v6" /\ i \in c4.inst /\ g \in c4.wan[i].ip => g \in Held(c6.wan[i])
      BY <2>2, FamilyNames DEF Adds
    <3>2. /\ g \in Held(c4.wan[i]) => g \in S \/ g \in Held(b.wan[i])
          /\ g \in Held(b.wan[i]) => g \in Held(c4.wan[i])
          /\ g = "v4" /\ g \in S /\ i \in b.inst /\ g \in b.wan[i].ip => g \in Held(c4.wan[i])
      BY <1>4, FamilyNames DEF Adds
    <3>3. c4.inst = b.inst /\ c4.wan[i].ip = b.wan[i].ip
      BY <1>5 DEF OnlyWan
    <3>4. g = "v4" \/ g = "v6"
      BY DEF Families
    <3> QED
      BY <3>1, <3>2, <3>3, <3>4, <2>5, <1>6
  <2>7. ASSUME i \in Stas => \A g \in S : g \in b.wan[i].ip => g \in b.wan[i].neigh
        PROVE  Wait(c6.wan[i]) = {}
    <3>1. Wait(c4.wan[i]) = {}
      BY <2>7, <1>4 DEF Adds
    <3> QED
      BY <3>1, <2>7, <2>2, <1>5, <1>6 DEF Adds, OnlyWan
  <2>8. ASSUME i \in Modems, b.wan[i].isGw = (b.wan[i].active # {})
        PROVE  c6.wan[i].isGw = (c6.wan[i].active # {})
    <3>1. c4.wan[i].isGw = (c4.wan[i].active # {})
      BY <2>8, <1>4 DEF Adds
    <3> QED
      BY <3>1, <2>8, <2>2 DEF Adds
  <2>9. Adds(b, c6, i, S)
    BY <2>4, <2>6, <2>7, <2>8 DEF Adds
  <2> QED
    BY <1>1, <2>3, <2>9
<1>7. CASE "v6" \notin S
  <2>1. t6 = t4 /\ c6 = c4 /\ S4 = S
    BY <1>7 DEF Families
  <2> QED
    BY <1>1, <1>4, <2>1
<1> QED
  BY <1>6, <1>7

-----------------------------------------------------------------------------
(* The HAL's calls. *)

NoWait(b) == \A j \in Uplinks : Wait(b.wan[j]) = {}
(* No uplink but i holds routes, and i only those of S.                        *)
HeldBy(b, i, S) ==
  \A j \in Uplinks : \A g \in Families : g \in Held(b.wan[j]) => j = i /\ g \in S
SameNet(b, c) ==
  /\ c \in Views /\ c.inst = b.inst
  /\ \A j \in Uplinks : c.wan[j].ip = b.wan[j].ip /\ c.wan[j].neigh = b.wan[j].neigh
GateOK(b) == "narrow" \notin env => Gate(b)
(* What the HAL has asked for aside, only events were appended.                *)
Outer(s) == <<s.latest, s.valid, s.cache, s.nat, s.wans, s.wan, s.wanUp, s.mode, s.ap, s.int>>
LeadsOn(s, t, b, c) ==
  /\ Firewalls(s.ext) => Firewalls(t.ext)
  /\ \A a : Leads(env, a, s.ext, b) => Leads(env, a, t.ext, c)

(* What an uplink holds is what it carries and what waits.                     *)
LEMMA HeldFacts ==
  ASSUME NEW b \in Views, NEW i \in Uplinks
  PROVE  /\ Held(b.wan[i]) \in SUBSET Families /\ Wait(b.wan[i]) \subseteq Held(b.wan[i])
         /\ b.wan[i].active \subseteq Held(b.wan[i]) /\ b.wan[i].isGw \in BOOLEAN
         /\ Held(b.wan[i]) = b.wan[i].active \cup Wait(b.wan[i])
<1>1. b.wan[i] \in SeenSet
  BY DEF Views
<1> QED
  BY <1>1 DEF Held, Wait, SeenSet

(* Routes are taken from the upstream: all of them, or some when the framework *)
(* narrows it.                                                                 *)
LEMMA TakeAway ==
  ASSUME NEW s \in IpacmSet, NEW b \in Views, ViewOK(env, b), NEW gone \in SUBSET Families,
         s.gw = NoIface => gone = {}, gone \subseteq s.up,
         NoWait(b), HeldBy(b, s.gw, s.up), GateOK(b),
         "narrow" \notin env => gone = {} \/ gone = s.up
  PROVE  \E c : /\ Reaches(s, PostRoutes(s, "routeDel", s.gw, gone), b, c)
                /\ SameNet(b, c) /\ NoWait(c) /\ GateOK(c)
                /\ HeldBy(c, s.gw, s.up \ gone)
                /\ \A j \in Uplinks : \A g \in Families :
                     g \in Held(b.wan[j]) /\ g \notin gone => g \in Held(c.wan[j])
<1>1. CASE gone = {}
  <2>1. PostRoutes(s, "routeDel", s.gw, gone) = s
    BY <1>1, PostRoutesPosted DEF Posted
  <2>2. Reaches(s, s, b, b)
    BY DEF Reaches
  <2>3. SameNet(b, b) /\ HeldBy(b, s.gw, s.up \ gone)
    BY <1>1 DEF SameNet, HeldBy
  <2> QED
    BY <2>1, <2>2, <2>3
<1>2. CASE gone # {}
  <2>1. s.gw \in Uplinks
    BY <1>2 DEF IpacmSet
  <2> DEFINE i == s.gw
             t == PostRoutes(s, "routeDel", i, gone)
  <2>2. Wait(b.wan[i]) = {}
    BY <2>1 DEF NoWait
  <2>3. PICK c : Reaches(s, t, b, c) /\ Dels(b, c, i, gone)
    BY <2>1, <2>2, DelMany
  <2> HIDE DEF t
  <2>4. c \in Views /\ OnlyWan(b, c, i)
    BY <2>3 DEF Reaches, Dels
  <2>5. SameNet(b, c)
    BY <2>4 DEF SameNet, OnlyWan
  <2>6. NoWait(c)
    BY <2>2, <2>3, <2>4 DEF NoWait, OnlyWan, Dels
  <2>7. \A g \in Families : g \in Held(c.wan[i]) <=> g \in Held(b.wan[i]) /\ g \notin gone
    BY <2>3 DEF Dels
  <2>8. HeldBy(c, i, s.up \ gone)
    BY <2>4, <2>7 DEF HeldBy, OnlyWan
  <2>9. ASSUME "narrow" \notin env PROVE Gate(c)
    <3>1. gone = s.up
      BY <1>2, <2>9
    <3>2. \A g \in Families : g \notin Held(c.wan[i])
      BY <3>1, <2>1, <2>8 DEF HeldBy
    <3>3. c.wan[i].active = {}
      BY <3>2, <2>1, <2>4, HeldFacts
    <3>4. Gate(b)
      BY <2>9 DEF GateOK
    <3>5. SUFFICES ASSUME NEW m \in Modems PROVE c.wan[m].isGw = (c.wan[m].active # {})
      BY DEF Gate
    <3>6. CASE m # i
      BY <3>6, <3>4, <2>4, UplinkKinds DEF Gate, OnlyWan
    <3>7. CASE m = i
      <4>1. b.wan[i].isGw = (b.wan[i].active # {})
        BY <3>4, <3>7 DEF Gate
      <4>2. c.wan[i].isGw = TRUE => c.wan[i].active # {}
        BY <4>1, <2>3 DEF Dels
      <4>3. c.wan[i].isGw \in BOOLEAN
        BY <2>1, <2>4, HeldFacts
      <4> QED
        BY <3>3, <3>7, <4>2, <4>3
    <3> QED
      BY <3>6, <3>7
  <2>10. ASSUME NEW j \in Uplinks, NEW g \in Families, g \in Held(b.wan[j]), g \notin gone
         PROVE  g \in Held(c.wan[j])
    BY <2>4, <2>7, <2>10 DEF OnlyWan
  <2> QED
    BY <2>3, <2>5, <2>6, <2>8, <2>9, <2>10 DEF GateOK, t
<1> QED
  BY <1>1, <1>2

(* The framework's upstream gets its routes. *)
LEMMA GiveRoutes ==
  ASSUME NEW s \in IpacmSet, NEW b \in Views, ViewOK(env, b), NEW i \in Uplinks,
         NEW kept \in SUBSET Families, NEW S \in SUBSET Families, kept \subseteq S,
         NoWait(b), HeldBy(b, i, kept), GateOK(b),
         MayWait(env) \/ (i \in Stas /\ i \in b.inst =>
                            \A f \in S : f \in b.wan[i].ip => f \in b.wan[i].neigh)
  PROVE  \E c : /\ Reaches(s, PostRoutes(s, "routeAdd", i, S \ kept), b, c)
                /\ SameNet(b, c) /\ GateOK(c) /\ HeldBy(c, i, S)
                /\ (i \in Stas => \A f \in S : f \in b.wan[i].ip => f \in b.wan[i].neigh)
                     => NoWait(c)
                /\ kept \subseteq Held(b.wan[i]) /\ i \in b.inst /\ S \subseteq b.wan[i].ip
                     => S \subseteq Held(c.wan[i])
<1> DEFINE new == S \ kept
           t == PostRoutes(s, "routeAdd", i, new)
<1>1. new \in SUBSET Families
  OBVIOUS
<1>2. \A g \in S : g \in new \/ g \in kept
  OBVIOUS
<1>3. \A g \in new : g \in S /\ g \notin kept /\ g \in Families
  OBVIOUS
<1> HIDE DEF new
<1>4. AddFree(b, i, new)
  <2>1. ASSUME NEW j \in Uplinks, j # i PROVE Held(b.wan[j]) = {}
    <3>1. Held(b.wan[j]) \in SUBSET Families
      BY HeldFacts
    <3>2. \A g \in Families : g \notin Held(b.wan[j])
      BY <2>1 DEF HeldBy
    <3> QED
      BY <3>1, <3>2
  <2>2. \A f \in new : f \notin Held(b.wan[i])
    BY <1>3 DEF HeldBy
  <2> QED
    BY <2>1, <2>2, <1>3 DEF AddFree
<1>5. Wait(b.wan[i]) = {}
  BY DEF NoWait
<1>6. PICK c : Reaches(s, t, b, c) /\ Adds(b, c, i, new)
  BY <1>1, <1>4, <1>5, AddMany
<1> HIDE DEF t
<1>7. c \in Views /\ OnlyWan(b, c, i)
  BY <1>6 DEF Reaches, Adds
<1>8. SameNet(b, c)
  BY <1>7 DEF SameNet, OnlyWan
<1>9. HeldBy(c, i, S)
  <2> SUFFICES ASSUME NEW j \in Uplinks, NEW g \in Families, g \in Held(c.wan[j])
               PROVE  j = i /\ g \in S
    BY DEF HeldBy
  <2>1. CASE j # i
    BY <2>1, <1>7 DEF HeldBy, OnlyWan
  <2>2. CASE j = i
    BY <2>2, <1>3, <1>6 DEF HeldBy, Adds
  <2> QED
    BY <2>1, <2>2
<1>10. ASSUME "narrow" \notin env PROVE Gate(c)
  <2> SUFFICES ASSUME NEW m \in Modems PROVE c.wan[m].isGw = (c.wan[m].active # {})
    BY DEF Gate
  <2>1. b.wan[m].isGw = (b.wan[m].active # {})
    BY <1>10 DEF GateOK, Gate
  <2>2. CASE m # i
    BY <2>1, <2>2, <1>7, UplinkKinds DEF OnlyWan
  <2>3. CASE m = i
    BY <2>1, <2>3, <1>6 DEF Adds
  <2> QED
    BY <2>2, <2>3
<1>11. ASSUME i \in Stas => \A f \in S : f \in b.wan[i].ip => f \in b.wan[i].neigh
       PROVE  NoWait(c)
  <2>1. i \in Stas => \A f \in new : f \in b.wan[i].ip => f \in b.wan[i].neigh
    BY <1>3, <1>11
  <2>2. Wait(c.wan[i]) = {}
    BY <2>1, <1>5, <1>6 DEF Adds
  <2> QED
    BY <2>2, <1>7 DEF NoWait, OnlyWan
<1>12. ASSUME kept \subseteq Held(b.wan[i]), i \in b.inst, S \subseteq b.wan[i].ip
       PROVE  S \subseteq Held(c.wan[i])
  <2> SUFFICES ASSUME NEW g \in S PROVE g \in Held(c.wan[i])
    OBVIOUS
  <2>1. CASE g \in new
    BY <2>1, <1>6, <1>12 DEF Adds
  <2>2. CASE g \in kept
    BY <2>2, <1>5, <1>6, <1>12 DEF Adds
  <2> QED
    BY <2>1, <2>2, <1>2
<1> QED
  BY <1>6, <1>8, <1>9, <1>10, <1>11, <1>12 DEF GateOK, t, new

(* Another upstream, or the same with other families.                          *)
LEMMA SetUpstreamFacts ==
  ASSUME NEW s \in IpacmSet, NEW b \in Views, ViewOK(env, b), NEW i \in Uplinks,
         NEW S \in SUBSET Families,
         s.gw = NoIface => s.up = {},
         NoWait(b), HeldBy(b, s.gw, s.up), GateOK(b),
         s.gw = i => "narrow" \in env \/ s.up \subseteq S,
         MayWait(env) \/ (i \in Stas /\ i \in b.inst =>
                            \A f \in S : f \in b.wan[i].ip => f \in b.wan[i].neigh)
  PROVE  LET t == SetUpstream(s, i, S)
         IN  /\ t \in IpacmSet /\ t.gw = i /\ t.up = S /\ Outer(t) = Outer(s)
             /\ \E c : /\ LeadsOn(s, t, b, c) /\ ViewOK(env, c)
                       /\ SameNet(b, c) /\ GateOK(c) /\ HeldBy(c, i, S)
                       /\ (i \in Stas => \A f \in S : f \in b.wan[i].ip => f \in b.wan[i].neigh)
                            => NoWait(c)
                       /\ (s.gw = i => s.up \subseteq Held(b.wan[i]))
                          /\ i \in b.inst /\ S \subseteq b.wan[i].ip
                            => S \subseteq Held(c.wan[i])
<1> DEFINE gone == IF i # s.gw THEN s.up ELSE s.up \ S
           kept == s.up \ gone
           t1 == PostRoutes(s, "routeDel", s.gw, gone)
           t2 == PostRoutes(t1, "routeAdd", i, S \ kept)
           t == SetUpstream(s, i, S)
<1>1. t = [t2 EXCEPT !.gw = i, !.up = S]
  BY DEF SetUpstream
<1>2. s.up \in SUBSET Families /\ s.gw \in Uplinks \cup {NoIface}
  BY DEF IpacmSet
<1>3. /\ gone \in SUBSET Families /\ gone \subseteq s.up /\ kept \in SUBSET Families
      /\ s.gw = NoIface => gone = {}
      /\ "narrow" \notin env => gone = {} \/ gone = s.up
      /\ s.gw = i => kept = s.up \cap S
      /\ s.gw # i => kept = {} /\ gone = s.up
      /\ kept \subseteq S /\ s.up \ gone = kept
      /\ \A g \in kept : g \in s.up /\ g \notin gone
  BY <1>2
<1> HIDE DEF gone, kept
<1>4. PICK c1 : /\ Reaches(s, t1, b, c1)
                /\ SameNet(b, c1) /\ NoWait(c1) /\ GateOK(c1)
                /\ HeldBy(c1, s.gw, kept)
                /\ \A j \in Uplinks : \A g \in Families :
                     g \in Held(b.wan[j]) /\ g \notin gone => g \in Held(c1.wan[j])
  BY <1>3, TakeAway
<1> HIDE DEF t1
<1>5. t1 \in IpacmSet /\ c1 \in Views /\ ViewOK(env, c1)
  BY <1>4 DEF Reaches
<1>6. c1.inst = b.inst /\ c1.wan[i].ip = b.wan[i].ip /\ c1.wan[i].neigh = b.wan[i].neigh
  BY <1>4 DEF SameNet
<1>7. HeldBy(c1, i, kept)
  BY <1>3, <1>4 DEF HeldBy
<1>8. PICK c : /\ Reaches(t1, t2, c1, c)
               /\ SameNet(c1, c) /\ GateOK(c) /\ HeldBy(c, i, S)
               /\ (i \in Stas => \A f \in S : f \in c1.wan[i].ip => f \in c1.wan[i].neigh)
                    => NoWait(c)
               /\ kept \subseteq Held(c1.wan[i]) /\ i \in c1.inst /\ S \subseteq c1.wan[i].ip
                    => S \subseteq Held(c.wan[i])
  <2>1. MayWait(env) \/ (i \in Stas /\ i \in c1.inst =>
                           \A f \in S : f \in c1.wan[i].ip => f \in c1.wan[i].neigh)
    BY <1>6
  <2> QED
    BY <2>1, <1>3, <1>4, <1>5, <1>7, GiveRoutes
<1> HIDE DEF t2, t
<1>9. t2 \in IpacmSet /\ Inner(t2) = Inner(s) /\ Reaches(s, t2, b, c)
  BY <1>4, <1>8, ReachesTrans DEF Reaches
<1>10. t \in IpacmSet /\ t.gw = i /\ t.up = S /\ Outer(t) = Outer(t2) /\ t.ext = t2.ext
  BY <1>1, <1>9 DEF IpacmSet, Outer
<1>11. Outer(t2) = Outer(s)
  BY <1>9 DEF Inner, Outer
<1>12. LeadsOn(s, t, b, c) /\ ViewOK(env, c)
  BY <1>9, <1>10 DEF Reaches, LeadsOn
<1>13. SameNet(b, c)
  BY <1>4, <1>8 DEF SameNet
<1>14. ASSUME s.gw = i => s.up \subseteq Held(b.wan[i]), i \in b.inst, S \subseteq b.wan[i].ip
       PROVE  S \subseteq Held(c.wan[i])
  <2>1. kept \subseteq Held(c1.wan[i])
    BY <1>3, <1>4, <1>14
  <2> QED
    BY <2>1, <1>6, <1>8, <1>14
<1> QED
  BY <1>6, <1>8, <1>10, <1>11, <1>12, <1>13, <1>14 DEF t

(* What lies below the HAL is the same.                                        *)
Below(s) == <<s.nat, s.wans, s.wan, s.wanUp, s.mode, s.ap, s.int>>

(* The upstream is taken away: no uplink holds a route at the end.             *)
LEMMA ClearUpstreamFacts ==
  ASSUME NEW s \in IpacmSet, NEW b \in Views, ViewOK(env, b),
         s.gw = NoIface => s.up = {},
         NoWait(b), HeldBy(b, s.gw, s.up), GateOK(b)
  PROVE  LET t == ClearUpstream(s)
         IN  /\ t \in IpacmSet /\ t.gw = NoIface /\ t.up = {} /\ Below(t) = Below(s)
             /\ \A k \in Places : t.cache[k] = s.cache[k] \/ t.cache[k] = NoEntry
             /\ \E c : /\ LeadsOn(s, t, b, c) /\ ViewOK(env, c)
                       /\ SameNet(b, c) /\ GateOK(c) /\ HeldBy(c, NoIface, {}) /\ NoWait(c)
<1> DEFINE t == ClearUpstream(s)
<1>1. s.cache \in [Places -> EntrySet]
  BY DEF IpacmSet
<1>2. CASE s.gw = NoIface
  <2> DEFINE d == [k \in DOMAIN s.cache |->
                     IF s.cache[k].what = "upstream" THEN NoEntry ELSE s.cache[k]]
  <2>1. t = [s EXCEPT !.cache = d]
    BY <1>2 DEF ClearUpstream
  <2>2. NoEntry \in EntrySet
    BY DEF NoEntry, EntrySet
  <2>3. /\ d \in [Places -> EntrySet]
        /\ \A k \in Places : d[k] = s.cache[k] \/ d[k] = NoEntry
    BY <1>1, <2>2
  <2> HIDE DEF d, t
  <2>4. t \in IpacmSet /\ t.gw = s.gw /\ t.up = s.up /\ t.cache = d /\ t.ext = s.ext
        /\ Below(t) = Below(s)
    BY <2>1, <2>3 DEF IpacmSet, Below
  <2>5. LeadsOn(s, t, b, b)
    BY <2>4 DEF LeadsOn
  <2>6. SameNet(b, b) /\ HeldBy(b, NoIface, {})
    BY <1>2 DEF SameNet, HeldBy
  <2> QED
    BY <1>2, <2>3, <2>4, <2>5, <2>6 DEF t
<1>3. CASE s.gw # NoIface
  <2> DEFINE u == PostRoutes(s, "routeDel", s.gw, s.up)
  <2>1. t = [u EXCEPT !.gw = NoIface, !.up = {}]
    BY <1>3 DEF ClearUpstream
  <2>2. PICK c : /\ Reaches(s, u, b, c) /\ SameNet(b, c) /\ NoWait(c) /\ GateOK(c)
                 /\ HeldBy(c, s.gw, s.up \ s.up)
    <3>1. s.up \in SUBSET Families /\ s.up \subseteq s.up
      BY DEF IpacmSet
    <3> QED
      BY <3>1, <1>3, TakeAway
  <2> HIDE DEF u, t
  <2>3. u \in IpacmSet /\ Inner(u) = Inner(s)
    BY <2>2 DEF Reaches
  <2>4. t \in IpacmSet /\ t.gw = NoIface /\ t.up = {} /\ t.cache = u.cache /\ t.ext = u.ext
        /\ Below(t) = Below(u)
    BY <2>1, <2>3, UplinkKinds DEF IpacmSet, Below
  <2>5. Below(t) = Below(s) /\ t.cache = s.cache
    BY <2>3, <2>4 DEF Inner, Below
  <2>6. LeadsOn(s, t, b, c) /\ ViewOK(env, c)
    BY <2>2, <2>4 DEF Reaches, LeadsOn
  <2>7. HeldBy(c, NoIface, {})
    BY <2>2 DEF HeldBy
  <2> QED
    BY <2>2, <2>4, <2>5, <2>6, <2>7 DEF t
<1> QED
  BY <1>2, <1>3

(* Offload stops. *)
LEMMA StopAllFacts ==
  ASSUME NEW s \in IpacmSet, NEW b \in Views, ViewOK(env, b),
         s.gw = NoIface => s.up = {},
         NoWait(b), HeldBy(b, s.gw, s.up), GateOK(b)
  PROVE  LET t == StopAll(s)
         IN  /\ t \in IpacmSet /\ t.gw = NoIface /\ t.up = {} /\ Below(t) = Below(s)
             /\ \A k \in Places : t.cache[k] = NoEntry
             /\ \E c : /\ LeadsOn(s, t, b, c) /\ ViewOK(env, c)
                       /\ SameNet(b, c) /\ GateOK(c) /\ HeldBy(c, NoIface, {}) /\ NoWait(c)
<1> DEFINE u == ClearUpstream(s)
           d == [k \in DOMAIN u.cache |-> NoEntry]
           t == StopAll(s)
<1>1. t = [u EXCEPT !.gw = NoIface, !.up = {}, !.latest = 0, !.cache = d, !.valid = FALSE]
  BY DEF StopAll
<1>2. /\ u \in IpacmSet /\ Below(u) = Below(s)
      /\ \E c : /\ LeadsOn(s, u, b, c) /\ ViewOK(env, c)
                /\ SameNet(b, c) /\ GateOK(c) /\ HeldBy(c, NoIface, {}) /\ NoWait(c)
  BY ClearUpstreamFacts
<1> HIDE DEF u
<1>3. NoEntry \in EntrySet
  BY DEF NoEntry, EntrySet
<1>4. d \in [Places -> EntrySet] /\ \A k \in Places : d[k] = NoEntry
  BY <1>2, <1>3 DEF IpacmSet
<1>5. 0 \in Places
  BY UpstreamAssumption DEF Places
<1> HIDE DEF d, t
<1>6. t \in IpacmSet /\ t.gw = NoIface /\ t.up = {} /\ t.cache = d /\ t.ext = u.ext
      /\ Below(t) = Below(u)
  BY <1>1, <1>2, <1>4, <1>5 DEF IpacmSet, Below
<1>7. PICK c : /\ LeadsOn(s, u, b, c) /\ ViewOK(env, c)
               /\ SameNet(b, c) /\ GateOK(c) /\ HeldBy(c, NoIface, {}) /\ NoWait(c)
  BY <1>2
<1>8. LeadsOn(s, t, b, c)
  BY <1>6, <1>7 DEF LeadsOn
<1> QED
  BY <1>2, <1>4, <1>6, <1>7, <1>8 DEF t

(* A call for an upstream that is not configured goes to an empty cache.       *)
LEMMA CacheUpstream ==
  ASSUME NEW s \in IpacmSet, NEW b \in Views, ViewOK(env, b), NEW i \in Uplinks, i \in b.inst,
         NEW S \in SUBSET Families, S # {}, \A k \in Places : s.cache[k] = NoEntry
  PROVE  LET t == TakeUpstream(s, i, S, FALSE)
         IN  /\ t \in IpacmSet /\ t.gw = s.gw /\ t.up = s.up /\ Below(t) = Below(s)
             /\ \E p \in Places : t.cache = [s.cache EXCEPT ![p] = Entry("upstream", i, S)]
             /\ LeadsOn(s, t, b, b)
<1> DEFINE ev == Ev("linkUp", i, "v4")
           x == Entry("upstream", i, S)
           u == External(s, ev)
           t == TakeUpstream(s, i, S, FALSE)
<1>1. t = Cached(u, x)
  BY DEF TakeUpstream
<1>2. ev \in ExtEvents /\ ev.what = "linkUp" /\ ev.iface = i
  BY UplinkKinds, FamilyNames DEF Ev, ExtEvents
<1>3. x \in EntrySet
  BY UplinkKinds DEF Entry, EntrySet
<1> HIDE DEF ev, x
<1>4. Guard(env, b, ev)
  BY <1>2 DEF Guard
<1>5. Step(b, ev) = b
  <2>1. Step(b, ev) = [b EXCEPT !.inst = @ \cup {i}]
    BY <1>2 DEF Step
  <2>2. b.inst \cup {i} = b.inst
    OBVIOUS
  <2> QED
    BY <2>1, <2>2 DEF Views
<1>6. u \in IpacmSet /\ Inner(u) = Inner(s) /\ Trails(s, u, b)
  BY <1>2, <1>4, <1>5, TrailsOne
<1> HIDE DEF u, t
<1>7. \A k \in Places : u.cache[k] = NoEntry
  BY <1>6 DEF Inner
<1>8. /\ t \in IpacmSet /\ Beside(t) = Beside(u)
      /\ \E p \in Places : u.cache[p] = NoEntry /\ t.cache = [u.cache EXCEPT ![p] = x]
  BY <1>1, <1>3, <1>6, <1>7, CachedFacts
<1>9. t.gw = s.gw /\ t.up = s.up /\ Below(t) = Below(s) /\ t.ext = u.ext /\ u.cache = s.cache
  BY <1>6, <1>8 DEF Inner, Beside, Below
<1>10. LeadsOn(s, t, b, b)
  BY <1>6, <1>9 DEF Trails, LeadsOn
<1> QED
  BY <1>8, <1>9, <1>10 DEF t, x

(* The calls for a downstream touch nothing that the uplinks depend on.        *)
Side(s, t, b) ==
  /\ t \in IpacmSet /\ t.gw = s.gw /\ t.up = s.up /\ UpSame(s.cache, t.cache)
  /\ Below(t) = Below(s) /\ LeadsOn(s, t, b, b)

(* Nothing is done.                                                          *)
LEMMA SideSame ==
  ASSUME NEW s \in IpacmSet, NEW b
  PROVE  Side(s, s, b)
  BY DEF Side, UpSame, LeadsOn

(* One after the other.                                                      *)
LEMMA SideTrans ==
  ASSUME NEW s, NEW t, NEW u, NEW b, Side(s, t, b), Side(t, u, b)
  PROVE  Side(s, u, b)
<1>1. UpSame(s.cache, u.cache)
  BY UpSameTrans DEF Side
<1>2. LeadsOn(s, u, b, b)
  BY DEF Side, LeadsOn
<1> QED
  BY <1>1, <1>2 DEF Side

(* An event of the access point is posted. *)
LEMMA SideEvent ==
  ASSUME NEW s \in IpacmSet, NEW b \in Views, NEW f \in Families,
         NEW what \in {"linkUp", "address", "linkDown", "downAdd", "downDel"}
  PROVE  Side(s, External(s, Ev(what, Ap, f)), b)
<1> DEFINE ev == Ev(what, Ap, f)
           t == External(s, ev)
<1>1. ev \in ExtEvents /\ Guard(env, b, ev) /\ Step(b, ev) = b
  BY IdleEvents
<1> HIDE DEF ev
<1>2. t \in IpacmSet /\ Inner(t) = Inner(s) /\ Trails(s, t, b)
  BY <1>1, TrailsOne
<1> HIDE DEF t
<1>3. t.gw = s.gw /\ t.up = s.up /\ t.cache = s.cache /\ Below(t) = Below(s)
  BY <1>2 DEF Inner, Below
<1>4. UpSame(s.cache, t.cache)
  BY <1>3 DEF UpSame
<1>5. LeadsOn(s, t, b, b)
  BY <1>2 DEF Trails, LeadsOn
<1> QED
  BY <1>2, <1>3, <1>4, <1>5 DEF Side, t, ev

(* A downstream is added for one family.                                     *)
LEMMA SideTake ==
  ASSUME NEW s \in IpacmSet, NEW b \in Views, NEW f \in Families, NEW ready
  PROVE  Side(s, TakeDownstream(s, f, ready), b)
<1> DEFINE v == [s EXCEPT !.valid = TRUE]
           t == Cached(v, Entry("downstream", Ap, {f}))
<1>1. Side(s, v, b)
  BY DEF Side, IpacmSet, UpSame, Below, LeadsOn
<1>2. v \in IpacmSet
  BY <1>1 DEF Side
<1> HIDE DEF v
<1>3. "downAdd" \in {"linkUp", "address", "linkDown", "downAdd", "downDel"}
  OBVIOUS
<1>4. CASE ready
  <2>1. TakeDownstream(s, f, ready) = External(v, Ev("downAdd", Ap, f))
    BY <1>4 DEF TakeDownstream, v
  <2>2. Side(v, External(v, Ev("downAdd", Ap, f)), b)
    BY <1>2, <1>3, SideEvent
  <2> QED
    BY <2>1, <2>2, <1>1, SideTrans
<1>5. CASE ~ready
  <2>1. TakeDownstream(s, f, ready) = t
    BY <1>5 DEF TakeDownstream, v
  <2>2. t \in IpacmSet /\ Beside(t) = Beside(v) /\ UpSame(v.cache, t.cache)
    BY <1>2, CachedDown
  <2> HIDE DEF t
  <2>3. t.gw = v.gw /\ t.up = v.up /\ Below(t) = Below(v) /\ t.ext = v.ext
    BY <2>2 DEF Beside, Below
  <2>4. LeadsOn(v, t, b, b)
    BY <2>3 DEF LeadsOn
  <2>5. Side(v, t, b)
    BY <2>2, <2>3, <2>4 DEF Side
  <2> QED
    BY <2>1, <2>5, <1>1, SideTrans
<1> QED
  BY <1>4, <1>5

(* For every family of the call. *)
Takes(s, S, ready) == ForEach(S, s, LAMBDA a, f : TakeDownstream(a, f, ready))

(* A downstream is added.                                                    *)
LEMMA SideTakes ==
  ASSUME NEW s \in IpacmSet, NEW b \in Views, NEW S, NEW ready
  PROVE  Side(s, Takes(s, S, ready), b)
<1> DEFINE t4 == IF "v4" \in S THEN TakeDownstream(s, "v4", ready) ELSE s
           t6 == IF "v6" \in S THEN TakeDownstream(t4, "v6", ready) ELSE t4
<1>1. Side(s, t4, b)
  BY SideSame, SideTake, FamilyNames
<1>2. t4 \in IpacmSet
  BY <1>1 DEF Side
<1> HIDE DEF t4
<1>3. Side(t4, t6, b)
  BY <1>2, SideSame, SideTake, FamilyNames
<1>4. Side(s, t6, b)
  BY <1>1, <1>3, SideTrans
<1> QED
  BY <1>4 DEF Takes, ForEach, t4

(* A downstream is removed.                                                  *)
LEMMA SideDrops ==
  ASSUME NEW s \in IpacmSet, NEW b \in Views, NEW S
  PROVE  Side(s, ForEach(S, s, DropDownstream), b)
<1> DEFINE t4 == IF "v4" \in S THEN DropDownstream(s, "v4") ELSE s
           t6 == IF "v6" \in S THEN DropDownstream(t4, "v6") ELSE t4
<1>1. ASSUME NEW u \in IpacmSet, NEW f \in Families PROVE Side(u, DropDownstream(u, f), b)
  <2>1. "downDel" \in {"linkUp", "address", "linkDown", "downAdd", "downDel"}
    OBVIOUS
  <2> QED
    BY <2>1, SideSame, SideEvent DEF DropDownstream
<1>2. Side(s, t4, b)
  BY <1>1, SideSame, FamilyNames
<1>3. t4 \in IpacmSet
  BY <1>2 DEF Side
<1> HIDE DEF t4
<1>4. Side(t4, t6, b)
  BY <1>1, <1>3, SideSame, FamilyNames
<1>5. Side(s, t6, b)
  BY <1>2, <1>4, SideTrans
<1> QED
  BY <1>5 DEF ForEach, t4

-----------------------------------------------------------------------------
(* The cached calls of an interface that gets an address.  SearchCache defines *)
(* its result by recursion over the places; Taken is one of its steps.         *)

Turn(s, i, n) ==
  LET mine == {k \in DOMAIN s.cache : s.cache[k].iface = i}
      unready == {k \in mine : ~Configured(s, i, s.cache[k].fams)}
  IN  n \in mine /\ \A k \in unready : n < k
Made(t, i, e) == IF e.what = "upstream" THEN SetUpstream(t, i, e.fams) ELSE Takes(t, e.fams, TRUE)
Taken(s, i, n, t) ==
  IF Turn(s, i, n - 1) THEN [Made(t, i, s.cache[n - 1]) EXCEPT !.cache[n - 1] = NoEntry] ELSE t
IsPast(p, s, i) ==
  p = [n \in 0 .. CacheSize |-> IF n = 0 THEN s ELSE Taken(s, i, n, p[n - 1])]

(* The search of the cache is its last step's state.                         *)
LEMMA SearchCacheIs ==
  ASSUME NEW s, NEW i
  PROVE  SearchCache(s, i) = (CHOOSE p : IsPast(p, s, i))[CacheSize]
  BY DEF SearchCache, IsPast, Taken, Turn, Made, Takes

(* The recursion has a solution. *)
LEMMA PastExists ==
  ASSUME NEW s, NEW i
  PROVE  \E p : IsPast(p, s, i)
<1> DEFINE G(n, t) == Taken(s, i, n, t)
           Upto(p, m) == p = [n \in 0 .. m |-> IF n = 0 THEN s ELSE G(n, p[n - 1])]
           S == {m \in Nat : \E p : Upto(p, m)}
<1> HIDE DEF G
<1>1. 0 \in S
  <2> DEFINE p == [n \in 0 .. 0 |-> s]
  <2>1. Upto(p, 0)
    OBVIOUS
  <2> QED
    BY <2>1
<1>2. ASSUME NEW m \in Nat, m \in S PROVE m + 1 \in S
  <2>1. PICK p : Upto(p, m)
    BY <1>2
  <2> DEFINE r == [n \in 0 .. m + 1 |-> IF n = m + 1 THEN G(m + 1, p[m]) ELSE p[n]]
             z == [n \in 0 .. m + 1 |-> IF n = 0 THEN s ELSE G(n, r[n - 1])]
  <2>2. ASSUME NEW n \in 0 .. m + 1 PROVE r[n] = z[n]
    <3>1. CASE n = m + 1
      <4>1. n - 1 = m /\ m \in 0 .. m + 1 /\ n # 0 /\ m # m + 1
        BY <3>1
      <4>2. r[m] = p[m]
        BY <4>1
      <4>3. r[n] = G(m + 1, p[m]) /\ z[n] = G(n, r[n - 1])
        BY <3>1, <4>1
      <4> QED
        BY <3>1, <4>1, <4>2, <4>3
    <3>2. CASE n # m + 1
      <4>1. n \in 0 .. m
        BY <3>2
      <4>2. r[n] = p[n]
        BY <3>2
      <4>3. CASE n = 0
        BY <2>1, <4>1, <4>2, <4>3
      <4>4. CASE n # 0
        <5>1. n - 1 \in 0 .. m + 1 /\ n - 1 # m + 1
          BY <4>1, <4>4
        <5>2. r[n - 1] = p[n - 1]
          BY <5>1
        <5>3. p[n] = G(n, p[n - 1])
          BY <2>1, <4>1, <4>4
        <5>4. z[n] = G(n, r[n - 1])
          BY <4>4
        <5> QED
          BY <4>2, <5>2, <5>3, <5>4
      <4> QED
        BY <4>3, <4>4
    <3> QED
      BY <3>1, <3>2
  <2>3. r = z
    BY <2>2
  <2> HIDE DEF r
  <2>4. Upto(r, m + 1)
    BY <2>3
  <2> HIDE DEF Upto
  <2> QED
    BY <2>4
<1>3. CacheSize \in S
  <2> HIDE DEF S
  <2>1. Nat \subseteq S
    BY <1>1, <1>2, NaturalSet
  <2> QED
    BY <2>1, UpstreamAssumption
<1>4. PICK p : Upto(p, CacheSize)
  BY <1>3
<1> QED
  BY <1>4 DEF IsPast, G

(* What holds before the first place and is kept by every step holds of the    *)
(* result; the set T is the property, of a number of places and a state.       *)
LEMMA SearchInduction ==
  ASSUME NEW s, NEW i, NEW T, <<0, s>> \in T,
         \A n \in 1 .. CacheSize : \A t : <<n - 1, t>> \in T => <<n, Taken(s, i, n, t)>> \in T
  PROVE  <<CacheSize, SearchCache(s, i)>> \in T
<1> DEFINE p == CHOOSE q : IsPast(q, s, i)
           S == {n \in Nat : n <= CacheSize => <<n, p[n]>> \in T}
<1>1. IsPast(p, s, i)
  BY PastExists
<1> HIDE DEF p
<1>2. CacheSize \in Nat
  BY UpstreamAssumption
<1>3. p[0] = s
  BY <1>1, <1>2 DEF IsPast
<1>4. ASSUME NEW n \in Nat, n \in S PROVE n + 1 \in S
  <2> SUFFICES ASSUME n + 1 <= CacheSize PROVE <<n + 1, p[n + 1]>> \in T
    OBVIOUS
  <2>1. n + 1 \in 1 .. CacheSize /\ n + 1 \in 0 .. CacheSize /\ n + 1 # 0 /\ n <= CacheSize
        /\ (n + 1) - 1 = n
    BY <1>2
  <2>2. <<n, p[n]>> \in T
    BY <2>1, <1>4
  <2>3. p[n + 1] = Taken(s, i, n + 1, p[n])
    BY <2>1, <1>1 DEF IsPast
  <2> QED
    BY <2>1, <2>2, <2>3
<1>5. 0 \in S
  BY <1>3
<1>6. CacheSize \in S
  <2> HIDE DEF S
  <2>1. Nat \subseteq S
    BY <1>4, <1>5, NaturalSet
  <2> QED
    BY <2>1, <1>2
<1>7. SearchCache(s, i) = p[CacheSize]
  BY SearchCacheIs DEF p
<1> QED
  BY <1>2, <1>6, <1>7

(* The access point's cached calls are for downstreams.                        *)
LEMMA SearchAp ==
  ASSUME NEW s \in IpacmSet, NEW b \in Views
  PROVE  Side(s, SearchCache(s, Ap), b)
<1> DEFINE T == {x \in Nat \X IpacmSet : Side(s, x[2], b)}
<1>1. <<0, s>> \in T
  BY SideSame
<1>2. ASSUME NEW n \in 1 .. CacheSize, NEW t, <<n - 1, t>> \in T
      PROVE  <<n, Taken(s, Ap, n, t)>> \in T
  <2>1. t \in IpacmSet /\ Side(s, t, b) /\ n - 1 \in Places /\ n \in Nat
    BY <1>2, UpstreamAssumption DEF Places
  <2> DEFINE e == s.cache[n - 1]
             u == Taken(s, Ap, n, t)
             made == Takes(t, e.fams, TRUE)
             d == [made.cache EXCEPT ![n - 1] = NoEntry]
             c == [made EXCEPT !.cache = d]
  <2>2. Side(s, u, b)
    <3>1. CASE u = t
      BY <3>1, <2>1
    <3>2. CASE u # t
      <4>1. e.iface = Ap /\ e \in EntrySet
        <5>1. s.cache \in [Places -> EntrySet]
          BY DEF IpacmSet
        <5>2. e.iface = Ap
          BY <3>2 DEF Taken, Turn
        <5> QED
          BY <2>1, <5>1, <5>2
      <4>2. e.what # "upstream"
        BY <4>1, UplinkKinds DEF EntrySet
      <4>3. u = [made EXCEPT !.cache[n - 1] = NoEntry]
        BY <3>2, <4>2 DEF Taken, Made
      <4>4. Side(t, made, b)
        BY <2>1, SideTakes
      <4> HIDE DEF made, u
      <4>5. Side(s, made, b)
        BY <2>1, <4>4, SideTrans
      <4>6. made \in IpacmSet /\ made.cache \in [Places -> EntrySet]
        BY <4>5 DEF Side, IpacmSet
      <4>7. u = c
        BY <4>3, <4>6 DEF IpacmSet
      <4>8. NoEntry \in EntrySet /\ NoEntry.what # "upstream"
        BY DEF NoEntry, EntrySet
      <4>9. made.cache[n - 1].what # "upstream"
        BY <2>1, <4>2, <4>5 DEF Side, UpSame
      <4>10. d \in [Places -> EntrySet] /\ UpSame(made.cache, d)
        BY <2>1, <4>6, <4>8, <4>9 DEF UpSame
      <4> HIDE DEF c, d
      <4>11. c \in IpacmSet /\ c.gw = made.gw /\ c.up = made.up /\ c.cache = d
             /\ Below(c) = Below(made) /\ c.ext = made.ext
        BY <4>6, <4>10 DEF c, IpacmSet, Below
      <4>12. LeadsOn(made, c, b, b)
        BY <4>11 DEF LeadsOn
      <4>13. Side(made, c, b)
        BY <4>10, <4>11, <4>12 DEF Side
      <4> QED
        BY <4>5, <4>7, <4>13, SideTrans
    <3> QED
      BY <3>1, <3>2
  <2> HIDE DEF u
  <2>3. u \in IpacmSet
    BY <2>2 DEF Side
  <2> QED
    BY <2>1, <2>2, <2>3 DEF u
<1>3. <<CacheSize, SearchCache(s, Ap)>> \in T
  <2> HIDE DEF T
  <2> QED
    BY <1>1, <1>2, SearchInduction
<1> QED
  BY <1>3

(* An uplink has at most one cached call, for itself as the upstream: it is    *)
(* made if the uplink is configured for it, and nothing happens else.          *)
Due(s, i, k) ==
  s.cache[k].what = "upstream" /\ s.cache[k].iface = i /\ Configured(s, i, s.cache[k].fams)
OneCall(s) ==
  \A k, l \in Places : s.cache[k].what = "upstream" /\ s.cache[l].what = "upstream" => k = l

(* The search makes the calls that are due, and no other.                    *)
LEMMA TurnDue ==
  ASSUME NEW s \in IpacmSet, NEW i \in Uplinks, OneCall(s), NEW n \in Places
  PROVE  Turn(s, i, n) <=> Due(s, i, n)
<1> DEFINE mine == {k \in DOMAIN s.cache : s.cache[k].iface = i}
           unready == {k \in mine : ~Configured(s, i, s.cache[k].fams)}
<1>1. s.cache \in [Places -> EntrySet]
  BY DEF IpacmSet
<1>2. ASSUME NEW k \in mine PROVE k \in Places /\ s.cache[k].what = "upstream"
  <2>1. k \in Places /\ s.cache[k] \in EntrySet /\ s.cache[k].iface = i
    BY <1>1
  <2>2. i # Ap /\ i # NoIface
    BY UplinkKinds
  <2> QED
    BY <2>1, <2>2 DEF EntrySet, NoEntry
<1>3. \A k \in Places : k \in mine <=> s.cache[k].iface = i
  BY <1>1
<1>4. \A k \in mine : k \in unready <=> ~Configured(s, i, s.cache[k].fams)
  OBVIOUS
<1>5. \A k \in unready : k \in mine
  OBVIOUS
<1>6. Turn(s, i, n) <=> n \in mine /\ \A k \in unready : n < k
  BY DEF Turn
<1> HIDE DEF mine, unready
<1>7. n \in Int
  BY UpstreamAssumption DEF Places
<1>8. ASSUME Turn(s, i, n) PROVE Due(s, i, n)
  <2>1. n \in mine /\ ~(n < n)
    BY <1>6, <1>7, <1>8
  <2>2. n \notin unready
    BY <2>1, <1>6, <1>8
  <2> QED
    BY <2>1, <2>2, <1>2, <1>3, <1>4 DEF Due
<1>9. ASSUME Due(s, i, n) PROVE Turn(s, i, n)
  <2>1. n \in mine /\ n \notin unready
    BY <1>3, <1>4, <1>9 DEF Due
  <2>2. ASSUME NEW k \in unready PROVE FALSE
    <3>1. k \in Places /\ s.cache[k].what = "upstream"
      BY <1>2, <1>5
    <3>2. k = n
      BY <3>1, <1>9 DEF Due, OneCall
    <3> QED
      BY <3>2, <2>1
  <2> QED
    BY <2>1, <2>2, <1>6
<1> QED
  BY <1>8, <1>9

(* The search finds nothing that is due.                                     *)
LEMMA SearchNothing ==
  ASSUME NEW s \in IpacmSet, NEW i \in Uplinks, OneCall(s), \A k \in Places : ~Due(s, i, k)
  PROVE  SearchCache(s, i) = s
<1> DEFINE T == Nat \X {s}
<1>1. <<0, s>> \in T
  OBVIOUS
<1>2. ASSUME NEW n \in 1 .. CacheSize, NEW t, <<n - 1, t>> \in T
      PROVE  <<n, Taken(s, i, n, t)>> \in T
  <2>1. t = s /\ n \in Nat /\ n - 1 \in Places
    BY <1>2, UpstreamAssumption DEF Places
  <2>2. ~Turn(s, i, n - 1)
    BY <2>1, TurnDue
  <2>3. Taken(s, i, n, t) = t
    BY <2>2 DEF Taken
  <2> QED
    BY <2>1, <2>3
<1>3. <<CacheSize, SearchCache(s, i)>> \in T
  <2> HIDE DEF T
  <2> QED
    BY <1>1, <1>2, SearchInduction
<1> QED
  BY <1>3

(* The search finds the call that is due and makes it.                       *)
LEMMA SearchDue ==
  ASSUME NEW s \in IpacmSet, NEW i \in Uplinks, OneCall(s), NEW k \in Places, Due(s, i, k)
  PROVE  SearchCache(s, i) = [SetUpstream(s, i, s.cache[k].fams) EXCEPT !.cache[k] = NoEntry]
<1> DEFINE r == [SetUpstream(s, i, s.cache[k].fams) EXCEPT !.cache[k] = NoEntry]
           T == {x \in Nat \X {s, r} : x[2] = IF x[1] <= k THEN s ELSE r}
<1>1. CacheSize \in Nat /\ k \in 0 .. CacheSize - 1
  BY UpstreamAssumption DEF Places
<1>2. <<0, s>> \in T
  BY <1>1
<1>3. r = [Made(s, i, s.cache[k]) EXCEPT !.cache[k] = NoEntry]
  BY DEF Due, Made
<1> HIDE DEF r
<1>4. ASSUME NEW n \in 1 .. CacheSize, NEW t, <<n - 1, t>> \in T
      PROVE  <<n, Taken(s, i, n, t)>> \in T
  <2>1. n \in Nat /\ n - 1 \in Places /\ t = IF n - 1 <= k THEN s ELSE r
    BY <1>1, <1>4 DEF Places
  <2>2. Turn(s, i, n - 1) <=> n - 1 = k
    <3>1. Turn(s, i, n - 1) <=> Due(s, i, n - 1)
      BY <2>1, TurnDue
    <3>2. Due(s, i, n - 1) => n - 1 = k
      BY <2>1 DEF Due, OneCall
    <3> QED
      BY <3>1, <3>2
  <2>3. CASE n - 1 = k
    <3>1. t = s /\ ~(n <= k)
      BY <2>1, <2>3, <1>1
    <3>2. Taken(s, i, n, t) = r
      BY <3>1, <2>2, <2>3, <1>3 DEF Taken
    <3> QED
      BY <2>1, <3>1, <3>2
  <2>4. CASE n - 1 # k
    <3>1. Taken(s, i, n, t) = t
      BY <2>2, <2>4 DEF Taken
    <3>2. n - 1 <= k <=> n <= k
      BY <2>1, <2>4, <1>1
    <3> QED
      BY <2>1, <3>1, <3>2
  <2> QED
    BY <2>3, <2>4
<1>5. <<CacheSize, SearchCache(s, i)>> \in T
  <2> HIDE DEF T
  <2> QED
    BY <1>2, <1>4, SearchInduction
<1>6. ~(CacheSize <= k)
  BY <1>1
<1> QED
  BY <1>5, <1>6 DEF r

-----------------------------------------------------------------------------
(* Every event of the queue.  Plain is what most do: what the view's step      *)
(* says, and nothing to what the HAL knows.                                    *)

StillWaits(s, t) ==
  \A k \in Places :
    s.cache[k].what = "upstream" /\ ~Configured(s, s.cache[k].iface, s.cache[k].fams)
      => ~Configured(t, s.cache[k].iface, s.cache[k].fams)
Plain(s, t, ev, b) ==
  /\ Handled(s, t, ev) /\ t.gw = s.gw /\ t.up = s.up /\ UpSame(s.cache, t.cache)
  /\ StillWaits(s, t) /\ Trails(s, t, b)

(* A handler that keeps what the HAL knows is plain.                         *)
LEMMA PlainHandled ==
  ASSUME NEW s \in IpacmSet, NEW t, NEW ev, NEW b, Handled(s, t, ev), HalSame(s, t),
         Trails(s, t, b)
  PROVE  Plain(s, t, ev, b)
<1>1. s.cache \in [Places -> EntrySet]
  BY DEF IpacmSet
<1>2. ASSUME NEW k \in Places, s.cache[k].what = "upstream"
      PROVE  s.cache[k].iface \in Uplinks
  BY <1>1, <1>2 DEF EntrySet
<1>3. StillWaits(s, t)
  BY <1>2 DEF StillWaits, HalSame, Configured
<1> QED
  BY <1>3 DEF Plain, HalSame

(* An uplink gets an address and is configured for its family.                 *)
Addressed(s, i, f) == [s EXCEPT !.wan[i].ip = @ \cup {f}, !.nat[i] = @ \cup {f}]
Above(s) == <<s.gw, s.up, s.latest, s.valid, s.cache, s.wans, s.wanUp, s.mode, s.ap, s.int, s.ext>>

(* An address configures its uplink and is seen; the rest stays.             *)
LEMMA AddressedFacts ==
  ASSUME NEW s \in IpacmSet, NEW i \in Uplinks, NEW f \in Families, NEW ev, Distinct(s.wans),
         ev.what = "address", ev.iface = i, ev.fam = f, Instance(s, i)
  PROVE  LET t == Addressed(s, i, f)
         IN  /\ Handled(s, t, ev) /\ Above(t) = Above(s)
             /\ \A j \in Uplinks : j # i => t.nat[j] = s.nat[j]
<1> DEFINE w == s.wan[i]
           z == w.ip \cup {f}
           x == [w EXCEPT !.ip = z]
           n == [s.nat EXCEPT ![i] = @ \cup {f}]
           y == [s EXCEPT !.wan[i] = x]
           t == Addressed(s, i, f)
<1>1. w \in WanSet /\ s.nat \in [Ifaces -> SUBSET Families] /\ i \in Ifaces
  BY UplinkKinds DEF IpacmSet
<1>2. t = [y EXCEPT !.nat = n]
  BY DEF Addressed, IpacmSet
<1>3. x \in WanSet /\ x.active = w.active /\ x.rules = w.rules
      /\ Seen(x) = [Seen(w) EXCEPT !.ip = @ \cup {f}]
  <2>1. z \in SUBSET Families
    BY <1>1 DEF WanSet
  <2>2. Seen(w).ip = w.ip
    BY <1>1, SeenFacts
  <2>3. Seen(x) = [Seen(w) EXCEPT !.ip = z]
    <3> HIDE DEF z
    <3> QED
      BY <1>1, <2>1 DEF Seen, WanSet
  <2>4. [Seen(w) EXCEPT !.ip = @ \cup {f}] = [Seen(w) EXCEPT !.ip = z]
    BY <2>2
  <2> HIDE DEF z
  <2> QED
    BY <1>1, <2>1, <2>3, <2>4 DEF WanSet
<1>4. n \in [Ifaces -> SUBSET Families] /\ \A j \in Uplinks : j # i => n[j] = s.nat[j]
  BY <1>1, UplinkKinds
<1> HIDE DEF x, n
<1>5. y \in IpacmSet /\ Rest(y) = Rest(s) /\ y.wan[i] = x
      /\ y.wanUp = s.wanUp /\ y.mode = s.mode /\ y.int = s.int
      /\ \A j \in Uplinks : j # i => y.wan[j] = s.wan[j]
  BY <1>3, WanChange
<1> HIDE DEF y, t
<1>6. t \in IpacmSet /\ t.nat = n /\ t.wan = y.wan /\ Above(t) = Above(y)
  BY <1>2, <1>4, <1>5 DEF IpacmSet, Above
<1>7. Above(t) = Above(s) /\ t.wans = s.wans /\ t.wanUp = s.wanUp
  BY <1>5, <1>6 DEF Rest, Above
<1>8. \A j \in Uplinks : t.wan[j].active = s.wan[j].active /\ t.wan[j].rules = s.wan[j].rules
  BY <1>3, <1>5, <1>6
<1>9. View(t) = Step(View(s), ev)
  <2> DEFINE v == Seen(x)
             c == [View(s) EXCEPT !.wan[i] = v]
  <2>1. View(s) \in Views /\ View(s).wan[i] = Seen(w) /\ i \in View(s).inst
        /\ View(t) \in Views /\ View(t).inst = View(s).inst
    BY <1>6, <1>7, ViewFacts
  <2>2. Step(View(s), ev) = [View(s) EXCEPT !.wan[i].ip = @ \cup {f}]
    BY <2>1 DEF Step
  <2>3. v = [Seen(w) EXCEPT !.ip = @ \cup {f}] /\ v \in SeenSet
    BY <1>3, SeenFacts
  <2>4. Step(View(s), ev) = c
    BY <2>1, <2>2, <2>3 DEF Views
  <2> HIDE DEF v
  <2>5. c \in Views /\ c.inst = View(s).inst /\ c.wan[i] = v
        /\ \A j \in Uplinks : j # i => c.wan[j] = View(s).wan[j]
    <3> DEFINE a == View(s)
    <3>1. a \in Views /\ v \in SeenSet
      BY <2>1, <2>3
    <3> HIDE DEF a
    <3>2. LET d == [a EXCEPT !.wan[i] = v]
          IN  /\ d \in Views /\ d.inst = a.inst /\ d.wan[i] = v
              /\ \A j \in Uplinks : j # i => d.wan[j] = a.wan[j]
      BY <3>1, ViewChange
    <3> QED
      BY <3>2 DEF a
  <2> HIDE DEF c
  <2>6. ASSUME NEW j \in Uplinks PROVE View(t).wan[j] = c.wan[j]
    <3>1. View(t).wan[j] = Seen(t.wan[j]) /\ View(s).wan[j] = Seen(s.wan[j])
      BY <1>6, ViewFacts
    <3> QED
      BY <3>1, <2>5, <1>5, <1>6 DEF v
  <2>7. View(t) = c
    BY <2>1, <2>5, <2>6, ViewsEqual
  <2> QED
    BY <2>4, <2>7
<1>10. FlagsOK(s) => FlagsOK(t)
  BY <1>7, <1>8 DEF FlagsOK
<1>11. RulesFrom(s, t)
  BY <1>8 DEF RulesFrom
<1>12. Handled(s, t, ev)
  BY <1>6, <1>7, <1>9, <1>10, <1>11 DEF Handled
<1> QED
  BY <1>4, <1>6, <1>7, <1>12 DEF t

(* Nothing happens. *)
LEMMA PlainNothing ==
  ASSUME NEW s \in IpacmSet, NEW ev, NEW b, Distinct(s.wans), Step(View(s), ev) = View(s),
         ev.what # "firewall"
  PROVE  Plain(s, s, ev, b)
<1>1. Handled(s, s, ev) /\ HalKept(s, s)
  BY NothingHandled
<1>2. Trails(s, s, b)
  BY TrailsSame
<1> QED
  BY <1>1, <1>2, HalKeptSame, PlainHandled

(* Either nothing was due, or the framework's cached call is made.             *)
LEMMA WanAddressHandled ==
  ASSUME NEW s \in IpacmSet, NEW i \in Uplinks, NEW f \in Families, NEW ev, NEW b \in Views,
         Distinct(s.wans), OneCall(s),
         ev.what = "address", ev.iface = i, ev.fam = f, Instance(s, i)
  PROVE  LET t == WanAddress(s, i, f)
             s1 == Addressed(s, i, f)
         IN  \/ Plain(s, t, ev, b)
             \/ \E k \in Places :
                  /\ Due(s1, i, k)
                  /\ t = [SetUpstream(s1, i, s1.cache[k].fams) EXCEPT !.cache[k] = NoEntry]
<1> DEFINE t == WanAddress(s, i, f)
           s1 == Addressed(s, i, f)
<1>1. CASE f \in s.wan[i].ip
  <2>1. t = s
    BY <1>1 DEF WanAddress
  <2>2. View(s) \in Views /\ View(s).wan[i] = Seen(s.wan[i]) /\ s.wan[i] \in WanSet
    BY ViewFacts
  <2>3. f \in View(s).wan[i].ip
    BY <2>2, <1>1, SeenFacts
  <2>4. Step(View(s), ev) = View(s)
    <3> DEFINE a == View(s)
               e == Ev("address", i, f)
    <3>1. a \in Views /\ f \in a.wan[i].ip
      BY <2>2, <2>3
    <3>2. Step(a, e) = a
      <4> HIDE DEF a, e
      <4> QED
        BY <3>1, KnownAddress DEF e
    <3>3. Step(a, ev) = Step(a, e)
      BY DEF Step, Ev
    <3> QED
      BY <3>2, <3>3
  <2>5. Plain(s, s, ev, b)
    BY <2>4, PlainNothing
  <2> QED
    BY <2>1, <2>5
<1>2. CASE f \notin s.wan[i].ip
  <2>1. t = SearchCache(s1, i)
    BY <1>2 DEF WanAddress, Addressed
  <2>2. Handled(s, s1, ev) /\ Above(s1) = Above(s)
        /\ \A j \in Uplinks : j # i => s1.nat[j] = s.nat[j]
    BY AddressedFacts
  <2> HIDE DEF t, s1
  <2>3. s1 \in IpacmSet /\ s1.cache = s.cache /\ s1.gw = s.gw /\ s1.up = s.up /\ s1.ext = s.ext
    BY <2>2 DEF Handled, Above
  <2>4. OneCall(s1)
    BY <2>3 DEF OneCall
  <2>5. CASE \E k \in Places : Due(s1, i, k)
    <3>1. PICK k \in Places : Due(s1, i, k)
      BY <2>5
    <3>2. t = [SetUpstream(s1, i, s1.cache[k].fams) EXCEPT !.cache[k] = NoEntry]
      BY <2>1, <2>3, <2>4, <3>1, SearchDue
    <3> QED
      BY <3>1, <3>2 DEF t, s1
  <2>6. CASE \A k \in Places : ~Due(s1, i, k)
    <3>1. t = s1
      BY <2>1, <2>3, <2>4, <2>6, SearchNothing
    <3>2. StillWaits(s, s1)
      <4> SUFFICES ASSUME NEW k \in Places, s.cache[k].what = "upstream",
                          ~Configured(s, s.cache[k].iface, s.cache[k].fams)
                   PROVE  ~Configured(s1, s.cache[k].iface, s.cache[k].fams)
        BY DEF StillWaits
      <4>1. s.cache[k].iface \in Uplinks
        BY DEF IpacmSet, EntrySet
      <4>2. CASE s.cache[k].iface = i
        BY <4>2, <2>3, <2>6 DEF Due
      <4>3. CASE s.cache[k].iface # i
        <5>1. s1.nat[s.cache[k].iface] = s.nat[s.cache[k].iface]
          BY <4>1, <4>3, <2>2
        <5> QED
          BY <5>1 DEF Configured
      <4> QED
        BY <4>2, <4>3
    <3>3. UpSame(s.cache, s1.cache)
      BY <2>3 DEF UpSame
    <3>4. Trails(s, s1, b)
      BY <2>3, TrailsSame
    <3>5. Plain(s, s1, ev, b)
      BY <2>2, <2>3, <3>2, <3>3, <3>4 DEF Plain
    <3> QED
      BY <3>1, <3>5 DEF t
  <2> QED
    BY <2>5, <2>6
<1> QED
  BY <1>1, <1>2

(* The access point's address: its cached downstreams are made.                *)
LEMMA ApAddressHandled ==
  ASSUME NEW s \in IpacmSet, NEW f \in Families, NEW ev, NEW b \in Views,
         Distinct(s.wans), Step(View(s), ev) = View(s), ev.what # "firewall"
  PROVE  Plain(s, ApAddress(s, f), ev, b)
<1> DEFINE t == ApAddress(s, f)
           x == [s.ap EXCEPT !.ip = @ \cup {f}, !.up = @ \cup s.wanUp]
           n == [s.nat EXCEPT ![Ap] = @ \cup {f}]
           y == [s EXCEPT !.ap = x]
           u == [y EXCEPT !.nat = n]
<1>1. CASE f \in s.ap.ip
  <2>1. t = s
    BY <1>1 DEF ApAddress
  <2> QED
    BY <2>1, PlainNothing
<1>2. CASE f \notin s.ap.ip
  <2>1. s.ap \in ApSet /\ s.nat \in [Ifaces -> SUBSET Families] /\ s.wanUp \in SUBSET Families
    BY DEF IpacmSet
  <2>2. t = SearchCache(u, Ap)
    <3>1. u = [s EXCEPT !.ap.ip = @ \cup {f}, !.nat[Ap] = @ \cup {f}, !.ap.up = @ \cup s.wanUp]
      BY <2>1 DEF IpacmSet, ApSet
    <3> QED
      BY <3>1, <1>2 DEF ApAddress
  <2>3. x \in ApSet
    BY <2>1 DEF ApSet
  <2>4. n \in [Ifaces -> SUBSET Families] /\ \A j \in Uplinks : n[j] = s.nat[j]
    BY <2>1, UplinkKinds
  <2> HIDE DEF x, n, t
  <2>5. ApOnly(s, y)
    BY <2>3, ApChange
  <2> HIDE DEF y
  <2>6. u \in IpacmSet /\ u.nat = n /\ u.gw = y.gw /\ u.up = y.up /\ u.cache = y.cache
        /\ u.wans = y.wans /\ u.wan = y.wan /\ u.wanUp = y.wanUp /\ u.ext = y.ext
    BY <2>4, <2>5 DEF IpacmSet, ApOnly
  <2> HIDE DEF u
  <2>7. u.gw = s.gw /\ u.up = s.up /\ u.cache = s.cache
        /\ u.wans = s.wans /\ u.wan = s.wan /\ u.wanUp = s.wanUp /\ u.ext = s.ext
    BY <2>5, <2>6 DEF ApOnly, Apart
  <2>8. Side(u, t, b)
    BY <2>2, <2>6, SearchAp
  <2>9. t \in IpacmSet /\ t.gw = s.gw /\ t.up = s.up /\ UpSame(s.cache, t.cache) /\ t.nat = n
        /\ t.wans = s.wans /\ t.wan = s.wan /\ t.wanUp = s.wanUp
    BY <2>6, <2>7, <2>8 DEF Side, Below
  <2>10. Trails(s, t, b)
    BY <2>7, <2>8 DEF Side, LeadsOn, Trails
  <2>11. HalSame(s, t)
    BY <2>4, <2>9 DEF HalSame
  <2>12. View(t) = View(s)
    BY <2>9 DEF View
  <2>13. Handled(s, t, ev)
    BY <2>9, <2>12 DEF Handled, FlagsOK, RulesFrom
  <2> QED
    BY <2>10, <2>11, <2>13, PlainHandled DEF t
<1> QED
  BY <1>1, <1>2

(* A cached call is made, now that its uplink has the address.                 *)
MadeAt(s, t, i, f) ==
  LET s1 == Addressed(s, i, f)
  IN  \E k \in Places :
        /\ Due(s1, i, k)
        /\ t = [SetUpstream(s1, i, s1.cache[k].fams) EXCEPT !.cache[k] = NoEntry]
MadeDue(s, t, ev) ==
  /\ ev.what = "address" /\ ev.iface \in Uplinks /\ Instance(s, ev.iface)
  /\ MadeAt(s, t, ev.iface, ev.fam)

(* An address makes the cached call that is due, or is plain.                *)
LEMMA AddressMade ==
  ASSUME NEW s \in IpacmSet, NEW i \in Uplinks, NEW f \in Families, NEW ev, NEW b \in Views,
         Distinct(s.wans), OneCall(s),
         ev.what = "address", ev.iface = i, ev.fam = f, Instance(s, i)
  PROVE  Plain(s, WanAddress(s, i, f), ev, b) \/ MadeAt(s, WanAddress(s, i, f), i, f)
BY WanAddressHandled DEF MadeAt

(* Events for the access point, and for an interface that has no instance.     *)
LEMMA IdleStep ==
  ASSUME NEW a, NEW ev,
         \/ ev.what \in {"downAdd", "downDel", "firewall", "wanUp", "wanDown", "ssr"}
         \/ ev.iface \notin a.inst /\ ev.what # "linkUp"
         \/ ev.iface \notin a.inst /\ ev.iface \notin Uplinks
  PROVE  Step(a, ev) = a
BY DEF Step

(* What a handler of the uplinks' events does is plain.                        *)
LEMMA PlainKept ==
  ASSUME NEW s \in IpacmSet, NEW t, NEW ev, NEW b, Handled(s, t, ev), HalKept(s, t), t.ext = s.ext
  PROVE  Plain(s, t, ev, b)
<1>1. HalSame(s, t)
  BY HalKeptSame
<1>2. Trails(s, t, b)
  BY TrailsSame
<1> QED
  BY <1>1, <1>2, PlainHandled

(* Handling an event of the kernel, of the HAL or of the firewall.             *)
LEMMA ExtDispatch ==
  ASSUME NEW s \in IpacmSet, NEW ev \in ExtEvents, NEW b \in Views, file \in Nat,
         Distinct(s.wans), OneCall(s), ViewOK(env, View(s)), Guard(env, View(s), ev),
         \A i \in Ifaces : net[i].addrs \in SUBSET Families,
         \A i \in b.inst : net[i].addrs \subseteq b.wan[i].ip
  PROVE  Plain(s, Handle(s, ev), ev, b) \/ MadeDue(s, Handle(s, ev), ev)
<1> DEFINE i == ev.iface
           f == ev.fam
           t == Handle(s, ev)
           a == View(s)
<1>1. f \in Families /\ i \in Ifaces \cup {NoIface} /\ (i = NoIface => ev.what = "firewall")
      /\ ev.what \in {"linkUp", "address", "neighbour", "linkDown", "routeAdd", "routeDel",
                      "downAdd", "downDel", "firewall"}
  BY DEF ExtEvents
<1>2. a \in Views /\ \A j : j \in a.inst <=> Instance(s, j)
  BY ViewFacts
<1>3. a.inst \subseteq Uplinks /\ Ap \notin a.inst
  BY <1>2, UplinkKinds DEF Views
<1>4. CASE ev.what = "linkUp"
  <2>1. t = LinkUp(s, i)
    BY <1>4 DEF Handle
  <2>2. i \in Ifaces
    BY <1>1, <1>4
  <2>3. i \in b.inst => net[i].addrs \subseteq b.wan[i].ip
    OBVIOUS
  <2>4. net[i].addrs \in SUBSET Families
    BY <2>2
  <2> HIDE DEF t
  <2>5. Handled(s, t, ev) /\ HalKept(s, t) /\ Trails(s, t, b)
    BY <1>4, <2>1, <2>2, <2>3, <2>4, LinkUpHandled
  <2>6. HalSame(s, t)
    BY <2>5, HalKeptSame
  <2>7. Plain(s, t, ev, b)
    BY <2>5, <2>6, PlainHandled
  <2> QED
    BY <2>7 DEF t
<1>5. CASE ev.what = "address"
  <2>1. CASE i = Ap
    <3>1. t = IF s.ap.on THEN ApAddress(s, f) ELSE s
      BY <1>5, <2>1 DEF Handle
    <3>2. Step(a, ev) = a
      BY <1>3, <1>5, <2>1, IdleStep
    <3> HIDE DEF t
    <3>3. Plain(s, s, ev, b)
      BY <1>5, <3>2, PlainNothing
    <3>4. Plain(s, ApAddress(s, f), ev, b)
      BY <1>1, <1>5, <3>2, ApAddressHandled
    <3>5. Plain(s, t, ev, b)
      BY <3>1, <3>3, <3>4
    <3> QED
      BY <3>5 DEF t
  <2>2. CASE i # Ap /\ ~Instance(s, i)
    <3>1. t = s
      BY <1>5, <2>2 DEF Handle
    <3>2. Step(a, ev) = a
      BY <1>2, <1>5, <2>2, IdleStep
    <3>3. Plain(s, s, ev, b)
      BY <1>5, <3>2, PlainNothing
    <3> QED
      BY <3>1, <3>3
  <2>3. CASE i # Ap /\ Instance(s, i)
    <3>1. t = WanAddress(s, i, f)
      BY <1>5, <2>3 DEF Handle
    <3>2. i \in Uplinks
      BY <1>2, <1>3, <2>3
    <3>3. Plain(s, WanAddress(s, i, f), ev, b) \/ MadeAt(s, WanAddress(s, i, f), i, f)
      BY <1>1, <1>5, <2>3, <3>2, AddressMade
    <3> HIDE DEF t
    <3>4. Plain(s, t, ev, b) \/ MadeDue(s, t, ev)
      BY <1>5, <2>3, <3>1, <3>2, <3>3 DEF MadeDue
    <3> QED
      BY <3>4 DEF t
  <2> QED
    BY <2>1, <2>2, <2>3
<1>6. CASE ev.what = "neighbour"
  <2>1. t = Neighbour(s, i, f)
    BY <1>6 DEF Handle
  <2>2. i \in Stas
    BY <1>6 DEF Guard
  <2> HIDE DEF t
  <2>3. Handled(s, t, ev) /\ HalKept(s, t) /\ t.ext = s.ext
    BY <1>1, <1>6, <2>1, <2>2, NeighbourHandled
  <2>4. Plain(s, t, ev, b)
    BY <2>3, PlainKept
  <2> QED
    BY <2>4 DEF t
<1>7. CASE ev.what = "linkDown"
  <2>1. CASE i = Ap
    <3>1. t = IF s.ap.on THEN ApDown(s) ELSE s
      BY <1>7, <2>1 DEF Handle
    <3>2. Step(a, ev) = a
      BY <1>3, <1>7, <2>1, IdleStep
    <3> HIDE DEF t
    <3>3. Plain(s, s, ev, b)
      BY <1>7, <3>2, PlainNothing
    <3>4. Handled(s, ApDown(s), ev) /\ HalKept(s, ApDown(s)) /\ ApDown(s).ext = s.ext
      BY <1>7, <3>2, ApDownHandled
    <3>5. Plain(s, ApDown(s), ev, b)
      BY <3>4, PlainKept
    <3>6. Plain(s, t, ev, b)
      BY <3>1, <3>3, <3>5
    <3> QED
      BY <3>6 DEF t
  <2>2. CASE i # Ap /\ ~Instance(s, i)
    <3>1. t = s
      BY <1>7, <2>2 DEF Handle
    <3>2. Step(a, ev) = a
      BY <1>2, <1>7, <2>2, IdleStep
    <3>3. Plain(s, s, ev, b)
      BY <1>7, <3>2, PlainNothing
    <3> QED
      BY <3>1, <3>3
  <2>3. CASE i # Ap /\ Instance(s, i)
    <3>1. t = WanDown(s, i)
      BY <1>7, <2>3 DEF Handle
    <3>2. i \in Uplinks
      BY <1>2, <1>3, <2>3
    <3> HIDE DEF t
    <3>3. Handled(s, t, ev) /\ HalKept(s, t) /\ t.ext = s.ext
      BY <1>7, <2>3, <3>1, <3>2, WanDownHandled
    <3>4. Plain(s, t, ev, b)
      BY <3>3, PlainKept
    <3> QED
      BY <3>4 DEF t
  <2> QED
    BY <2>1, <2>2, <2>3
<1>8. CASE ev.what = "routeAdd"
  <2>1. t = RouteAdd(s, i, f)
    BY <1>8 DEF Handle
  <2>2. i \in Uplinks
    BY <1>8 DEF Guard, RouteGuard
  <2> HIDE DEF t
  <2>3. Handled(s, t, ev) /\ HalKept(s, t) /\ t.ext = s.ext
    BY <1>1, <1>8, <2>1, <2>2, RouteAddHandled
  <2>4. Plain(s, t, ev, b)
    BY <2>3, PlainKept
  <2> QED
    BY <2>4 DEF t
<1>9. CASE ev.what = "routeDel"
  <2>1. t = RouteDel(s, i, f)
    BY <1>9 DEF Handle
  <2>2. i \in Uplinks
    BY <1>9 DEF Guard
  <2> HIDE DEF t
  <2>3. Handled(s, t, ev) /\ HalKept(s, t) /\ t.ext = s.ext
    BY <1>1, <1>9, <2>1, <2>2, RouteDelHandled
  <2>4. Plain(s, t, ev, b)
    BY <2>3, PlainKept
  <2> QED
    BY <2>4 DEF t
<1>10. CASE ev.what \in {"downAdd", "downDel"}
  <2>1. t = DownstreamAdd(s, f) \/ t = DownstreamDel(s, f)
    BY <1>10 DEF Handle
  <2>2. Step(a, ev) = a
    BY <1>10, IdleStep
  <2>3. ApOnly(s, DownstreamAdd(s, f)) /\ ApOnly(s, DownstreamDel(s, f))
    BY <1>1, TetherFacts
  <2> HIDE DEF t
  <2>4. Handled(s, t, ev) /\ HalKept(s, t) /\ t.ext = s.ext
    BY <1>10, <2>1, <2>2, <2>3, ApHandled
  <2>5. Plain(s, t, ev, b)
    BY <2>4, PlainKept
  <2> QED
    BY <2>5 DEF t
<1>11. CASE ev.what = "firewall"
  <2>1. t = FirewallChange(s)
    BY <1>11 DEF Handle
  <2> HIDE DEF t
  <2>2. Handled(s, t, ev) /\ HalKept(s, t) /\ t.ext = s.ext
    BY <1>11, <2>1, FirewallHandled
  <2>3. Plain(s, t, ev, b)
    BY <2>2, PlainKept
  <2> QED
    BY <2>3 DEF t
<1> QED
  BY <1>1, <1>4, <1>5, <1>6, <1>7, <1>8, <1>9, <1>10, <1>11

(* Handling an event of the daemon's own.                                      *)
LEMMA IntDispatch ==
  ASSUME NEW s \in IpacmSet, NEW ev \in IntEvents, NEW b, Distinct(s.wans)
  PROVE  Plain(s, Handle(s, ev), ev, b) /\ Step(View(s), ev) = View(s) /\ ev.what # "firewall"
<1> DEFINE t == Handle(s, ev)
<1>1. ev.fam \in Families /\ ev.what \in {"wanUp", "wanDown", "ssr"}
  BY DEF IntEvents
<1>2. Step(View(s), ev) = View(s)
  BY <1>1, IdleStep
<1>3. CASE ev.what = "ssr"
  <2>1. t = Ssr(s)
    BY <1>3 DEF Handle
  <2> HIDE DEF t
  <2>2. Handled(s, t, ev) /\ HalSame(s, t) /\ t.ext = s.ext
    BY <1>2, <1>3, <2>1, SsrHandled
  <2>3. Trails(s, t, b)
    BY <2>2, TrailsSame
  <2>4. Plain(s, t, ev, b)
    BY <2>2, <2>3, PlainHandled
  <2> QED
    BY <1>2, <1>3, <2>4 DEF t
<1>4. CASE ev.what \in {"wanUp", "wanDown"}
  <2>1. t = WanUpTether(s, ev.iface, ev.fam) \/ t = WanDownTether(s, ev.iface, ev.fam)
    BY <1>4 DEF Handle
  <2>2. ApOnly(s, WanUpTether(s, ev.iface, ev.fam)) /\ ApOnly(s, WanDownTether(s, ev.iface, ev.fam))
    BY <1>1, TetherFacts
  <2> HIDE DEF t
  <2>3. Handled(s, t, ev) /\ HalKept(s, t) /\ t.ext = s.ext
    BY <1>2, <1>4, <2>1, <2>2, ApHandled
  <2>4. Plain(s, t, ev, b)
    BY <2>3, PlainKept
  <2> QED
    BY <1>2, <1>4, <2>4 DEF t
<1> QED
  BY <1>1, <1>3, <1>4

-----------------------------------------------------------------------------
(* The inductive invariant. *)

CallSet ==
  {c \in [what : {"none", "upstream", "clear", "stop", "downstream", "noDownstream"},
          iface : Ifaces \cup {NoIface}, fams : SUBSET Families, ready : BOOLEAN] :
     c.what = "none" => c = NoCall}
WantSet == [iface : Uplinks \cup {NoIface}, fams : SUBSET Families, lost : BOOLEAN,
            down : SUBSET Families]
NetSet == [link : BOOLEAN, addrs : SUBSET Families, neigh : SUBSET Families]
TypeOK ==
  /\ net \in [Ifaces -> NetSet] /\ file \in Nat
  /\ ipacm \in IpacmSet /\ Distinct(ipacm.wans)
  /\ call \in CallSet /\ want \in WantSet
  /\ bounds \in [calls : Nat, changes : Nat] /\ env \in Environments

(* The kernel: what is down has no address, neighbours are the stations'.      *)
NetOK(e, n) ==
  /\ \A i \in Ifaces : n[i].link = FALSE => n[i].addrs = {}
  /\ \A i \in Ifaces : n[i].neigh \subseteq n[i].addrs
  /\ \A i \in Ifaces : i \notin Stas => n[i].neigh = {}
  /\ "v6" \notin e => \A i \in Ifaces : "v6" \notin n[i].addrs
(* The framework asks for what is there.                                       *)
WantOK(e, n, w) ==
  /\ w.iface \in Uplinks /\ w.lost = FALSE =>
       /\ n[w.iface].link = TRUE /\ w.fams \subseteq n[w.iface].addrs
       /\ w.iface \in Stas /\ "late" \notin e => w.fams \subseteq n[w.iface].neigh
  /\ w.iface = NoIface => w.fams = {} /\ w.lost = FALSE
  /\ w.lost = TRUE => "losses" \in e \/ "ssr" \in e
(* A call for the upstream is still to be carried out.                         *)
UpEntry(s) == \E k \in Places : s.cache[k].what = "upstream"
Busy(s, c) == UpEntry(s) \/ c.what \in {"upstream", "clear", "stop"}
(* The HAL has asked for what the framework wants, unless a call is pending.   *)
AskedOK(e, s, c, w) ==
  /\ s.gw = NoIface => s.up = {}
  /\ ~Busy(s, c) => s.gw = w.iface /\ s.up = w.fams
  /\ (UpEntry(s) \/ c.what = "upstream") /\ w.iface = s.gw => "narrow" \in e \/ s.up \subseteq w.fams
(* The cached call for the upstream is the framework's last and not yet due.   *)
EntriesOK(e, s, c, w) ==
  /\ OneCall(s)
  /\ \A k \in Places : s.cache[k].what = "upstream" =>
       /\ ~Configured(s, s.cache[k].iface, s.cache[k].fams) /\ "eager" \in e
       /\ c.what # "stop" => s.cache[k].iface = w.iface /\ s.cache[k].fams = w.fams
CallOK(e, s, c, w) ==
  /\ c.what = "upstream" =>
       /\ c.iface = w.iface /\ c.fams = w.fams /\ w.iface \in Uplinks /\ w.fams # {}
       /\ ~UpEntry(s) /\ w.lost = FALSE
       /\ c.ready = FALSE => /\ "eager" \in e /\ ~Configured(s, c.iface, c.fams)
                             /\ \A k \in Places : s.cache[k] = NoEntry
  /\ c.what \in {"clear", "stop"} => w.iface = NoIface
  /\ c.what = "clear" => ~UpEntry(s)
HalOK(e, n, s, c, w) ==
  NetOK(e, n) /\ WantOK(e, n, w) /\ AskedOK(e, s, c, w) /\ EntriesOK(e, s, c, w) /\ CallOK(e, s, c, w)

(* The uplinks as they will be: as the kernel's links are, with no routes but  *)
(* those the HAL asked for, and with all of them if their uplink stays.        *)
Final(e, n, g, u, w, b) ==
  /\ \A i \in Uplinks : i \in b.inst <=> n[i].link = TRUE
  /\ \A i \in Uplinks : b.wan[i].ip = n[i].addrs /\ b.wan[i].neigh = n[i].neigh
  /\ HeldBy(b, g, u)
  /\ g \in Uplinks /\ g = w.iface /\ w.lost = FALSE =>
       u \subseteq Held(b.wan[g]) /\ ("v6" \in e => Wait(b.wan[g]) = {})
  /\ "narrow" \notin e => Gate(b)
PathOK(e, n, s, c, w) ==
  \E b : /\ Leads(e, View(s), s.ext, b) /\ Final(e, n, s.gw, s.up, w, b)
         /\ Busy(s, c) => NoWait(b)
RulesOK == Steady(env) => FlagsOK(ipacm) /\ (Current(ipacm) \/ Firewalls(ipacm.ext))
IInv == TypeOK /\ HalOK(env, net, ipacm, call, want) /\ PathOK(env, net, ipacm, call, want)
        /\ RulesOK

(* The cached calls for the upstream are the same.                             *)
LEMMA EntriesSame ==
  ASSUME NEW s, NEW t, UpSame(s.cache, t.cache)
  PROVE  /\ UpEntry(t) <=> UpEntry(s)
         /\ OneCall(s) => OneCall(t)
         /\ \A c : Busy(t, c) <=> Busy(s, c)
         /\ \A k \in Places : t.cache[k].what = "upstream" => t.cache[k] = s.cache[k]
<1>1. \A k \in Places : t.cache[k] = s.cache[k]
                        \/ (s.cache[k].what # "upstream" /\ t.cache[k].what # "upstream")
  BY DEF UpSame
<1>2. UpEntry(t) <=> UpEntry(s)
  BY <1>1 DEF UpEntry
<1>3. OneCall(s) => OneCall(t)
  BY <1>1 DEF OneCall
<1>4. \A k \in Places : t.cache[k].what = "upstream" => t.cache[k] = s.cache[k]
  BY <1>1
<1>5. \A c : Busy(t, c) <=> Busy(s, c)
  BY <1>2 DEF Busy
<1> QED
  BY <1>2, <1>3, <1>4, <1>5

(* What the HAL knows stays right if it asked for nothing.                     *)
LEMMA HalStays ==
  ASSUME NEW e, NEW n, NEW w, NEW c, NEW d, NEW s, NEW t, HalOK(e, n, s, c, w),
         t.gw = s.gw, t.up = s.up, UpSame(s.cache, t.cache), StillWaits(s, t),
         \/ d = c /\ (c.what = "upstream" => c.ready # FALSE)
         \/ c.what \in {"none", "downstream", "noDownstream"} /\ d = NoCall
  PROVE  HalOK(e, n, t, d, w) /\ (Busy(t, d) <=> Busy(s, c))
<1>1. UpEntry(t) <=> UpEntry(s)
  BY EntriesSame
<1>2. OneCall(s) => OneCall(t)
  BY EntriesSame
<1>3. \A k \in Places : t.cache[k].what = "upstream" => t.cache[k] = s.cache[k]
  BY EntriesSame
<1>4. AskedOK(e, s, c, w) /\ EntriesOK(e, s, c, w) /\ CallOK(e, s, c, w)
  BY DEF HalOK
<1>5. CASE d = c /\ (c.what = "upstream" => c.ready # FALSE)
  <2>1. Busy(t, d) <=> Busy(s, c)
    BY <1>1, <1>5 DEF Busy
  <2>2. AskedOK(e, t, d, w)
    BY <1>1, <1>4, <1>5, <2>1 DEF AskedOK
  <2>3. EntriesOK(e, t, d, w)
    BY <1>2, <1>3, <1>4, <1>5 DEF EntriesOK, StillWaits
  <2>4. CallOK(e, t, d, w)
    BY <1>1, <1>4, <1>5 DEF CallOK
  <2> QED
    BY <2>1, <2>2, <2>3, <2>4 DEF HalOK
<1>6. CASE c.what \in {"none", "downstream", "noDownstream"} /\ d = NoCall
  <2>1. d.what = "none"
    BY <1>6 DEF NoCall
  <2>2. Busy(t, d) <=> Busy(s, c)
    BY <1>1, <1>6, <2>1 DEF Busy
  <2>3. AskedOK(e, t, d, w)
    BY <1>1, <1>4, <1>6, <2>1, <2>2 DEF AskedOK
  <2>4. EntriesOK(e, t, d, w)
    BY <1>2, <1>3, <1>4, <1>6, <2>1 DEF EntriesOK, StillWaits
  <2>5. CallOK(e, t, d, w)
    BY <2>1 DEF CallOK
  <2> QED
    BY <2>2, <2>3, <2>4, <2>5 DEF HalOK
<1> QED
  BY <1>5, <1>6

(* A call for the upstream that is made leaves the uplinks as they should be.  *)
LEMMA MakeUpstream ==
  ASSUME NEW s \in IpacmSet, NEW b \in Views, NEW n \in [Ifaces -> NetSet], NEW w \in WantSet,
         ViewOK(env, b), Copes(env), WantOK(env, n, w), w.iface \in Uplinks,
         Final(env, n, s.gw, s.up, w, b), NoWait(b),
         s.gw = NoIface => s.up = {},
         w.iface = s.gw => "narrow" \in env \/ s.up \subseteq w.fams,
         w.lost = TRUE => "eager" \in env
  PROVE  LET t == SetUpstream(s, w.iface, w.fams)
         IN  /\ t \in IpacmSet /\ t.gw = w.iface /\ t.up = w.fams /\ Outer(t) = Outer(s)
             /\ \E d : LeadsOn(s, t, b, d) /\ Final(env, n, w.iface, w.fams, w, d)
<1> DEFINE i == w.iface
           S == w.fams
           t == SetUpstream(s, i, S)
           known == \A f \in S : f \in b.wan[i].ip => f \in b.wan[i].neigh
<1>1. i \in Uplinks /\ S \in SUBSET Families /\ w.lost \in BOOLEAN
  BY DEF WantSet
<1>2. b.wan[i].ip = n[i].addrs /\ b.wan[i].neigh = n[i].neigh /\ (i \in b.inst <=> n[i].link = TRUE)
  BY <1>1 DEF Final
<1>3. w.lost = FALSE => n[i].link = TRUE /\ S \subseteq n[i].addrs
                        /\ (i \in Stas /\ "late" \notin env => S \subseteq n[i].neigh)
  BY <1>1 DEF WantOK
<1>4. w.lost = FALSE /\ i \in Stas /\ "late" \notin env => known
  BY <1>2, <1>3
<1>5. w.lost = TRUE => MayWait(env)
  BY DEF WantOK, MayWait
<1>6. "late" \in env => MayWait(env)
  BY DEF MayWait
<1>7. MayWait(env) \/ (i \in Stas /\ i \in b.inst => known)
  BY <1>1, <1>4, <1>5, <1>6
<1>8. HeldBy(b, s.gw, s.up) /\ GateOK(b)
  BY DEF Final, GateOK
<1>9. s.gw = i => "narrow" \in env \/ s.up \subseteq S
  OBVIOUS
<1> HIDE DEF i, S
<1>10. /\ t \in IpacmSet /\ t.gw = i /\ t.up = S /\ Outer(t) = Outer(s)
       /\ \E c : /\ LeadsOn(s, t, b, c) /\ ViewOK(env, c)
                 /\ SameNet(b, c) /\ GateOK(c) /\ HeldBy(c, i, S)
                 /\ (i \in Stas => known) => NoWait(c)
                 /\ (s.gw = i => s.up \subseteq Held(b.wan[i]))
                    /\ i \in b.inst /\ S \subseteq b.wan[i].ip
                      => S \subseteq Held(c.wan[i])
  BY <1>1, <1>7, <1>8, <1>9, SetUpstreamFacts
<1>11. PICK c : /\ LeadsOn(s, t, b, c) /\ ViewOK(env, c)
                /\ SameNet(b, c) /\ GateOK(c) /\ HeldBy(c, i, S)
                /\ (i \in Stas => known) => NoWait(c)
                /\ (s.gw = i => s.up \subseteq Held(b.wan[i]))
                   /\ i \in b.inst /\ S \subseteq b.wan[i].ip
                     => S \subseteq Held(c.wan[i])
  BY <1>10
<1> HIDE DEF known, t
<1>12. \A j \in Uplinks : (j \in c.inst <=> n[j].link = TRUE)
                          /\ c.wan[j].ip = n[j].addrs /\ c.wan[j].neigh = n[j].neigh
  BY <1>11 DEF SameNet, Final
<1>13. w.lost = FALSE => S \subseteq Held(c.wan[i])
  <2>1. s.gw = i /\ w.lost = FALSE => s.up \subseteq Held(b.wan[i])
    BY <1>1 DEF Final, i
  <2> QED
    BY <1>2, <1>3, <1>11, <2>1
<1>14. w.lost = FALSE /\ "v6" \in env => Wait(c.wan[i]) = {}
  <2>1. "v6" \in env => "late" \notin env
    BY DEF Copes
  <2>2. w.lost = FALSE /\ "v6" \in env => NoWait(c)
    BY <1>4, <1>11, <2>1
  <2> QED
    BY <1>1, <2>2 DEF NoWait
<1>15. "narrow" \notin env => Gate(c)
  BY <1>11 DEF GateOK
<1>16. Final(env, n, i, S, w, c)
  BY <1>11, <1>12, <1>13, <1>14, <1>15 DEF Final
<1> QED
  BY <1>10, <1>11, <1>16 DEF t, i, S

(* Nothing waits in an uplink that has all its gateways as neighbours.         *)
LEMMA WaitEmpty ==
  ASSUME NEW w \in SeenSet, NEW i \in Uplinks, WanOK(w, i), i \in Stas => Held(w) \subseteq w.neigh
  PROVE  Wait(w) = {}
<1>1. w.partial \in SUBSET Families /\ w.gw \in SUBSET Families /\ w.header \in BOOLEAN
  BY DEF SeenSet
<1>2. CASE i \notin Stas \/ w.header = TRUE
  <2>1. i \in Modems => w.partial = {}
    BY DEF WanOK
  <2> QED
    BY <1>2, <2>1, UplinkKinds DEF Wait
<1>3. CASE i \in Stas /\ w.header = FALSE
  <2>1. Wait(w) = w.partial /\ w.gw = w.partial /\ w.partial \subseteq w.neigh
    BY <1>3 DEF Wait, Held, WanOK
  <2>2. "v4" \notin w.gw /\ w.gw # {"v6"}
    BY <1>3, <2>1 DEF WanOK
  <2>3. w.gw = {}
    BY <1>1, <2>2 DEF Families
  <2> QED
    BY <2>1, <2>3
<1> QED
  BY <1>1, <1>2, <1>3

(* The flags and the rules stay right while only events are posted.            *)
LEMMA RulesKept ==
  ASSUME NEW t, RulesOK, t.wan = ipacm.wan, t.wanUp = ipacm.wanUp,
         Firewalls(ipacm.ext) => Firewalls(t.ext),
         ipacm' = t, file' = file, env' = env
  PROVE  RulesOK'
<1>1. FlagsOK(ipacm) => FlagsOK(t)
  BY DEF FlagsOK
<1>2. Current(ipacm) => Current(t)
  BY DEF Current
<1>3. Current(t) => Current(ipacm)'
  BY DEF Current
<1>4. FlagsOK(ipacm)' <=> FlagsOK(t)
  OBVIOUS
<1>5. Firewalls(ipacm.ext)' <=> Firewalls(t.ext)
  OBVIOUS
<1> QED
  BY <1>1, <1>2, <1>3, <1>4, <1>5 DEF RulesOK

(* The invariant holds at first: no link, nothing asked for, nothing pending.  *)
LEMMA InitInv == Init => IInv
<1> SUFFICES ASSUME Init
             PROVE  IInv
  OBVIOUS
<1>1. CacheSize \in Nat /\ CacheSize >= 1
  BY UpstreamAssumption
<1>2. NoWan \in WanSet /\ NoAp \in ApSet /\ NoEntry \in EntrySet
  <2>1. [f \in Families |-> 0] \in [Families -> Nat]
        /\ [f \in Families |-> {}] \in [Families -> SUBSET {"none", "sta", "q6"}]
    OBVIOUS
  <2>2. NoWan \in WanSet
    BY <2>1 DEF NoWan, WanSet
  <2>3. NoAp \in ApSet
    BY <2>1 DEF NoAp, ApSet
  <2>4. NoEntry \in EntrySet
    BY DEF NoEntry, EntrySet
  <2> QED
    BY <2>2, <2>3, <2>4
<1>3. ipacm \in IpacmSet
  <2>1. 0 \in Places
    BY <1>1 DEF Places
  <2>2. [k \in 0 .. CacheSize - 1 |-> NoEntry] \in [Places -> EntrySet]
        /\ [i \in Uplinks |-> NoWan] \in [Uplinks -> WanSet]
        /\ [i \in Ifaces |-> {}] \in [Ifaces -> SUBSET Families]
    BY <1>2 DEF Places
  <2>3. <<>> \in Seq(Uplinks) /\ <<>> \in Seq(IntEvents) /\ <<>> \in Seq(ExtEvents)
    OBVIOUS
  <2> QED
    BY <1>2, <2>1, <2>2, <2>3 DEF Init, IpacmSet
<1>4. ipacm.gw = NoIface /\ ipacm.up = {} /\ ipacm.wans = <<>> /\ ipacm.ext = <<>>
      /\ ipacm.wanUp = {} /\ ipacm.wan = [i \in Uplinks |-> NoWan]
      /\ ipacm.cache = [k \in Places |-> NoEntry]
  BY DEF Init, Places
<1>5. call.what = "none" /\ call \in CallSet
  BY DEF Init, NoCall, CallSet
<1>6. want.iface = NoIface /\ want.fams = {} /\ want.lost = FALSE /\ want \in WantSet
  BY DEF Init, WantSet
<1>7. net \in [Ifaces -> NetSet]
      /\ \A i \in Ifaces : net[i].link = FALSE /\ net[i].addrs = {} /\ net[i].neigh = {}
  BY DEF Init, NetSet
<1>8. TypeOK
  <2>1. Distinct(ipacm.wans)
    BY <1>4 DEF Distinct
  <2> QED
    BY <1>3, <1>5, <1>6, <1>7, <2>1 DEF TypeOK, Init
<1>9. ~UpEntry(ipacm) /\ ~Busy(ipacm, call)
  BY <1>4, <1>5 DEF UpEntry, Busy, NoEntry
<1>10. HalOK(env, net, ipacm, call, want)
  <2>1. NetOK(env, net)
    BY <1>7 DEF NetOK
  <2>2. WantOK(env, net, want)
    BY <1>6, UplinkKinds DEF WantOK
  <2>3. AskedOK(env, ipacm, call, want)
    BY <1>4, <1>6 DEF AskedOK
  <2>4. EntriesOK(env, ipacm, call, want)
    BY <1>9 DEF EntriesOK, OneCall, UpEntry
  <2>5. CallOK(env, ipacm, call, want)
    BY <1>5 DEF CallOK
  <2> QED
    BY <2>1, <2>2, <2>3, <2>4, <2>5 DEF HalOK
<1> DEFINE a == View(ipacm)
<1>11. a \in Views /\ \A i \in Uplinks : a.wan[i] = Seen(NoWan)
  BY <1>3, <1>4, ViewFacts
<1>12. a.inst = {}
  <2>1. a.inst = ToSet(<<>>)
    BY <1>3, <1>4, ViewFacts
  <2> QED
    BY <2>1 DEF ToSet
<1> HIDE DEF a
<1>13. ViewOK(env, a)
  BY <1>11, NoWanFacts DEF ViewOK
<1>14. Leads(env, a, <<>>, a)
  BY <1>11, <1>13, LeadsNil
<1>15. Final(env, net, NoIface, {}, want, a)
  <2>1. \A i \in Uplinks : i \in Ifaces
    BY UplinkKinds
  <2>2. HeldBy(a, NoIface, {})
    BY <1>11, NoWanFacts DEF HeldBy
  <2>3. Gate(a)
    <3>1. \A m \in Modems : m \in Uplinks
      BY UplinkKinds
    <3> QED
      BY <1>11, <3>1, NoWanFacts DEF Gate
  <2> QED
    BY <1>7, <1>11, <1>12, <2>1, <2>2, <2>3, NoWanFacts, UplinkKinds DEF Final
<1>16. PathOK(env, net, ipacm, call, want)
  BY <1>4, <1>9, <1>14, <1>15 DEF PathOK, a
<1>17. RulesOK
  <2>1. \A i \in Uplinks : ipacm.wan[i].active = {}
    BY <1>4 DEF NoWan
  <2> QED
    BY <1>4, <2>1 DEF RulesOK, FlagsOK, Current
<1> QED
  BY <1>8, <1>10, <1>16, <1>17 DEF IInv

(* An event that does plainly what its step says.  The state s is the daemon   *)
(* without the event, t the one after it was handled.                          *)
LEMMA PlainStep ==
  ASSUME NEW s \in IpacmSet, NEW t, NEW ev, NEW b, IInv, Copes(env),
         s.gw = ipacm.gw, s.up = ipacm.up, s.cache = ipacm.cache, s.nat = ipacm.nat,
         s.wan = ipacm.wan, s.wanUp = ipacm.wanUp,
         Plain(s, t, ev, b),
         Leads(env, Step(View(s), ev), s.ext, b),
         Final(env, net, ipacm.gw, ipacm.up, want, b), Busy(ipacm, call) => NoWait(b),
         Firewalls(ipacm.ext) => Firewalls(s.ext) \/ ev.what = "firewall",
         call = NoCall \/ "concurrent" \in env,
         ipacm' = t, UNCHANGED <<net, file, call, want, bounds, env>>
  PROVE  IInv'
<1>1. /\ Handled(s, t, ev) /\ t.gw = s.gw /\ t.up = s.up /\ UpSame(s.cache, t.cache)
      /\ StillWaits(s, t) /\ Trails(s, t, b)
  BY DEF Plain
<1>2. TypeOK /\ HalOK(env, net, ipacm, call, want) /\ RulesOK
  BY DEF IInv
<1>3. TypeOK'
  BY <1>1, <1>2 DEF TypeOK, Handled
<1>4. HalOK(env, net, t, call, want) /\ (Busy(t, call) <=> Busy(ipacm, call))
  <2>1. call.what = "upstream" => call.ready # FALSE
    <3>1. call.what = "upstream" => "concurrent" \in env
      BY DEF NoCall
    <3>2. call.what = "upstream" => "eager" \notin env
      BY <3>1 DEF Copes
    <3> QED
      BY <1>2, <3>2 DEF HalOK, CallOK
  <2>2. UpSame(ipacm.cache, t.cache) /\ StillWaits(ipacm, t)
    BY <1>1 DEF StillWaits, Configured
  <2>3. t.gw = ipacm.gw /\ t.up = ipacm.up
    BY <1>1
  <2> QED
    BY <1>2, <2>1, <2>2, <2>3, HalStays
<1>5. PathOK(env, net, t, call, want)
  <2>1. Leads(env, View(t), t.ext, b)
    BY <1>1 DEF Trails, Handled
  <2>2. Final(env, net, t.gw, t.up, want, b)
    BY <1>1
  <2> QED
    BY <1>4, <2>1, <2>2 DEF PathOK
<1>6. RulesOK'
  <2>1. Steady(env) => FlagsOK(s) /\ (Current(s) \/ Firewalls(ipacm.ext))
    BY <1>2 DEF RulesOK, FlagsOK, Current
  <2>2. Steady(env) => FlagsOK(t)
    BY <1>1, <2>1 DEF Handled
  <2>3. Steady(env) => Current(t) \/ Firewalls(t.ext)
    <3>1. CASE ev.what = "firewall"
      BY <1>1, <3>1 DEF Handled
    <3>2. CASE ev.what # "firewall"
      <4>1. Firewalls(ipacm.ext) => Firewalls(t.ext)
        BY <1>1, <3>2 DEF Trails
      <4>2. Current(s) => Current(t)
        BY <1>1 DEF Handled, RulesFrom, Current
      <4> QED
        BY <2>1, <4>1, <4>2
    <3> QED
      BY <3>1, <3>2
  <2>4. Current(t) => Current(ipacm)'
    BY DEF Current
  <2> QED
    BY <2>2, <2>3, <2>4 DEF RulesOK
<1> QED
  BY <1>3, <1>4, <1>5, <1>6 DEF IInv

(* An address for which a cached call waited: the call is the framework's last *)
(* and is made.                                                                *)
LEMMA DueStep ==
  ASSUME NEW s \in IpacmSet, NEW t, NEW ev \in ExtEvents, NEW b \in Views, IInv, Copes(env),
         s.gw = ipacm.gw, s.up = ipacm.up, s.cache = ipacm.cache, s.nat = ipacm.nat,
         s.wans = ipacm.wans, s.wan = ipacm.wan, s.wanUp = ipacm.wanUp,
         MadeDue(s, t, ev), ViewOK(env, b),
         Leads(env, Step(View(s), ev), s.ext, b),
         Final(env, net, ipacm.gw, ipacm.up, want, b), Busy(ipacm, call) => NoWait(b),
         Firewalls(ipacm.ext) => Firewalls(s.ext),
         call = NoCall \/ "concurrent" \in env,
         ipacm' = t, UNCHANGED <<net, file, call, want, bounds, env>>
  PROVE  IInv'
<1> DEFINE i == ev.iface
           f == ev.fam
           s1 == Addressed(s, i, f)
<1>1. TypeOK /\ HalOK(env, net, ipacm, call, want) /\ RulesOK
  BY DEF IInv
<1>2. ev.what = "address" /\ i \in Uplinks /\ Instance(s, i) /\ f \in Families
  BY DEF MadeDue, ExtEvents
<1>3. Distinct(s.wans)
  BY <1>1 DEF TypeOK
<1>4. Handled(s, s1, ev) /\ Above(s1) = Above(s)
  BY <1>2, <1>3, AddressedFacts
<1>5. PICK k \in Places :
        /\ Due(s1, i, k)
        /\ t = [SetUpstream(s1, i, s1.cache[k].fams) EXCEPT !.cache[k] = NoEntry]
  <2>1. MadeAt(s, t, i, f)
    BY DEF MadeDue
  <2> HIDE DEF i, f
  <2> QED
    BY <2>1 DEF MadeAt
<1> HIDE DEF s1
<1>6. s1 \in IpacmSet /\ Distinct(s1.wans) /\ View(s1) = Step(View(s), ev)
      /\ s1.gw = ipacm.gw /\ s1.up = ipacm.up /\ s1.cache = ipacm.cache /\ s1.ext = s.ext
      /\ s1.wans = ipacm.wans
  BY <1>4 DEF Handled, Above
<1>7. ipacm.cache[k].what = "upstream" /\ ipacm.cache[k].iface = i
  BY <1>5, <1>6 DEF Due
<1>8. UpEntry(ipacm) /\ Busy(ipacm, call) /\ NoWait(b)
  BY <1>7 DEF UpEntry, Busy
<1>9. "eager" \in env
  BY <1>1, <1>7 DEF HalOK, EntriesOK
<1>10. call = NoCall
  BY <1>9 DEF Copes
<1>11. i = want.iface /\ ipacm.cache[k].fams = want.fams
  BY <1>1, <1>7, <1>10 DEF HalOK, EntriesOK, NoCall
<1> DEFINE u == SetUpstream(s1, want.iface, want.fams)
           t1 == [u EXCEPT !.cache[k] = NoEntry]
<1>12. t = t1
  BY <1>5, <1>6, <1>11
<1>13. /\ u \in IpacmSet /\ u.gw = want.iface /\ u.up = want.fams /\ Outer(u) = Outer(s1)
       /\ \E d : LeadsOn(s1, u, b, d) /\ Final(env, net, want.iface, want.fams, want, d)
  <2>1. net \in [Ifaces -> NetSet] /\ want \in WantSet
    BY <1>1 DEF TypeOK
  <2>2. WantOK(env, net, want) /\ AskedOK(env, ipacm, call, want)
    BY <1>1 DEF HalOK
  <2>3. s1.gw = NoIface => s1.up = {}
    BY <1>6, <2>2 DEF AskedOK
  <2>4. want.iface = s1.gw => "narrow" \in env \/ s1.up \subseteq want.fams
    BY <1>6, <1>8, <2>2 DEF AskedOK
  <2>5. Final(env, net, s1.gw, s1.up, want, b)
    BY <1>6
  <2>6. want.iface \in Uplinks
    BY <1>2, <1>11
  <2> QED
    BY <1>6, <1>8, <1>9, <2>1, <2>2, <2>3, <2>4, <2>5, <2>6, MakeUpstream
<1>14. PICK d : LeadsOn(s1, u, b, d) /\ Final(env, net, want.iface, want.fams, want, d)
  BY <1>13
<1> HIDE DEF u
<1>15. u.cache = ipacm.cache /\ u.wans = s1.wans /\ u.wan = s1.wan /\ u.wanUp = s1.wanUp
       /\ u.nat = s1.nat
  BY <1>6, <1>13 DEF Outer
<1>16. NoEntry \in EntrySet /\ NoEntry.what = "none"
  BY DEF NoEntry, EntrySet
<1>17. /\ t \in IpacmSet /\ t.gw = want.iface /\ t.up = want.fams /\ t.ext = u.ext
       /\ t.wans = u.wans /\ t.wan = u.wan /\ t.wanUp = u.wanUp
       /\ t.cache[k] = NoEntry
       /\ \A l \in Places : l # k => t.cache[l] = ipacm.cache[l]
  <2>1. u.cache \in [Places -> EntrySet]
    BY <1>13 DEF IpacmSet
  <2>2. [u.cache EXCEPT ![k] = NoEntry] \in [Places -> EntrySet]
    BY <1>16, <2>1
  <2>3. t1 = [u EXCEPT !.cache = [u.cache EXCEPT ![k] = NoEntry]]
    BY <1>13 DEF IpacmSet
  <2>4. t1 \in IpacmSet /\ t1.cache = [u.cache EXCEPT ![k] = NoEntry]
        /\ t1.gw = u.gw /\ t1.up = u.up /\ t1.ext = u.ext /\ t1.wans = u.wans /\ t1.wan = u.wan
        /\ t1.wanUp = u.wanUp
    BY <1>13, <2>2, <2>3 DEF IpacmSet
  <2> QED
    BY <1>12, <1>13, <1>15, <2>1, <2>4
<1>18. ~UpEntry(t)
  BY <1>1, <1>7, <1>16, <1>17 DEF HalOK, EntriesOK, OneCall, UpEntry
<1>19. ~Busy(t, call)
  BY <1>10, <1>18 DEF Busy, NoCall
<1>20. TypeOK'
  BY <1>1, <1>6, <1>15, <1>17 DEF TypeOK
<1>21. HalOK(env, net, t, call, want)
  <2>1. NetOK(env, net) /\ WantOK(env, net, want)
    BY <1>1 DEF HalOK
  <2>2. AskedOK(env, t, call, want)
    BY <1>10, <1>17, <1>18, <2>1 DEF AskedOK, WantOK, NoCall
  <2>3. EntriesOK(env, t, call, want)
    BY <1>18 DEF EntriesOK, OneCall, UpEntry
  <2>4. CallOK(env, t, call, want)
    BY <1>10 DEF CallOK, NoCall
  <2> QED
    BY <2>1, <2>2, <2>3, <2>4 DEF HalOK
<1>22. PathOK(env, net, t, call, want)
  <2>1. View(t) = View(s1)
    BY <1>15, <1>17 DEF View
  <2>2. Leads(env, View(t), t.ext, d)
    BY <1>6, <1>14, <1>17, <2>1 DEF LeadsOn
  <2> QED
    BY <1>14, <1>17, <1>19, <2>2 DEF PathOK
<1>23. RulesOK'
  <2>1. Steady(env) => FlagsOK(s) /\ (Current(s) \/ Firewalls(ipacm.ext))
    BY <1>1 DEF RulesOK, FlagsOK, Current
  <2>2. Steady(env) => FlagsOK(t)
    <3>1. Steady(env) => FlagsOK(s1)
      BY <1>4, <2>1 DEF Handled
    <3> QED
      BY <1>15, <1>17, <3>1 DEF FlagsOK
  <2>3. Firewalls(ipacm.ext) => Firewalls(t.ext)
    BY <1>6, <1>14, <1>17 DEF LeadsOn
  <2>4. Current(s) => Current(t)
    <3>1. Current(s) => Current(s1)
      BY <1>4 DEF Handled, RulesFrom, Current
    <3> QED
      BY <1>15, <1>17, <3>1 DEF Current
  <2>5. Current(t) => Current(ipacm)'
    BY DEF Current
  <2> QED
    BY <2>1, <2>2, <2>3, <2>4, <2>5 DEF RulesOK
<1> QED
  BY <1>20, <1>21, <1>22, <1>23 DEF IInv

(* The daemon handles an event, its own first.                                 *)
LEMMA ProcessStep ==
  ASSUME IInv, Copes(env), Process
  PROVE  IInv'
<1>1. TypeOK /\ HalOK(env, net, ipacm, call, want) /\ PathOK(env, net, ipacm, call, want)
  BY DEF IInv
<1>2. ipacm \in IpacmSet /\ Distinct(ipacm.wans) /\ file \in Nat
      /\ ipacm.int \in Seq(IntEvents) /\ ipacm.ext \in Seq(ExtEvents)
  BY <1>1 DEF TypeOK, IpacmSet
<1>3. PICK b : /\ Leads(env, View(ipacm), ipacm.ext, b)
               /\ Final(env, net, ipacm.gw, ipacm.up, want, b)
               /\ Busy(ipacm, call) => NoWait(b)
  BY <1>1 DEF PathOK
<1>4. b \in Views /\ ViewOK(env, b) /\ View(ipacm) \in Views /\ ViewOK(env, View(ipacm))
  BY <1>2, <1>3, LeadsEnds
<1>5. UNCHANGED <<net, file, call, want, bounds, env>> /\ (call = NoCall \/ "concurrent" \in env)
  BY DEF Process, Undisturbed
<1>6. CASE ipacm.int # <<>>
  <2> DEFINE s == [ipacm EXCEPT !.int = Tail(@)]
             ev == Head(ipacm.int)
             t == Handle(s, ev)
  <2>1. ev \in IntEvents /\ Tail(ipacm.int) \in Seq(IntEvents)
    BY <1>2, <1>6
  <2>2. s \in IpacmSet /\ s.gw = ipacm.gw /\ s.up = ipacm.up /\ s.cache = ipacm.cache
        /\ s.nat = ipacm.nat /\ s.wans = ipacm.wans /\ s.wan = ipacm.wan /\ s.wanUp = ipacm.wanUp
        /\ s.ext = ipacm.ext
    BY <1>2, <2>1 DEF IpacmSet
  <2>3. ipacm' = t
    BY <1>6 DEF Process
  <2> HIDE DEF s, ev
  <2>4. Plain(s, t, ev, b) /\ Step(View(s), ev) = View(s) /\ ev.what # "firewall"
    BY <1>2, <2>1, <2>2, IntDispatch
  <2> HIDE DEF t
  <2>5. View(s) = View(ipacm)
    BY <2>2 DEF View
  <2>6. Leads(env, Step(View(s), ev), s.ext, b)
    BY <1>3, <2>2, <2>4, <2>5
  <2> QED
    BY <1>3, <1>5, <2>2, <2>3, <2>4, <2>6, PlainStep
<1>7. CASE ipacm.int = <<>>
  <2> DEFINE s == [ipacm EXCEPT !.ext = Tail(@)]
             ev == Head(ipacm.ext)
             t == Handle(s, ev)
  <2>1. ipacm.ext # <<>>
    BY <1>2, <1>7 DEF Process
  <2>2. ev \in ExtEvents /\ Tail(ipacm.ext) \in Seq(ExtEvents)
    BY <1>2, <2>1
  <2>3. s \in IpacmSet /\ s.gw = ipacm.gw /\ s.up = ipacm.up /\ s.cache = ipacm.cache
        /\ s.nat = ipacm.nat /\ s.wans = ipacm.wans /\ s.wan = ipacm.wan /\ s.wanUp = ipacm.wanUp
        /\ s.ext = Tail(ipacm.ext)
    BY <1>2, <2>2 DEF IpacmSet
  <2>4. ipacm' = t
    BY <1>7 DEF Process
  <2>5. Guard(env, View(ipacm), ev) /\ Leads(env, Step(View(ipacm), ev), Tail(ipacm.ext), b)
    BY <1>2, <1>3, <2>1, LeadsTail
  <2>6. Firewalls(ipacm.ext) => Firewalls(Tail(ipacm.ext)) \/ ev.what = "firewall"
    <3>1. SUFFICES ASSUME NEW p \in 1 .. Len(ipacm.ext), ipacm.ext[p].what = "firewall",
                          ev.what # "firewall"
                   PROVE  Firewalls(Tail(ipacm.ext))
      BY DEF Firewalls
    <3>2. Len(ipacm.ext) \in Nat /\ Len(Tail(ipacm.ext)) = Len(ipacm.ext) - 1 /\ ev = ipacm.ext[1]
          /\ \A n \in 1 .. Len(Tail(ipacm.ext)) : Tail(ipacm.ext)[n] = ipacm.ext[n + 1]
      BY <1>2, <2>1, TailElems
    <3>3. p # 1
      BY <3>1, <3>2
    <3>4. p - 1 \in 1 .. Len(Tail(ipacm.ext)) /\ Tail(ipacm.ext)[p - 1] = ipacm.ext[p]
      BY <3>2, <3>3
    <3> QED
      BY <3>1, <3>4 DEF Firewalls
  <2> HIDE DEF s, ev
  <2>7. View(s) = View(ipacm)
    BY <2>3 DEF View
  <2>8. \A i \in Ifaces : net[i].addrs \in SUBSET Families
    BY <1>1 DEF TypeOK, NetSet
  <2>9. \A i \in b.inst : net[i].addrs \subseteq b.wan[i].ip
    BY <1>3, <1>4 DEF Final, Views
  <2>10. OneCall(s)
    BY <1>1, <2>3 DEF HalOK, EntriesOK, OneCall
  <2>11. Plain(s, t, ev, b) \/ MadeDue(s, t, ev)
    BY <1>2, <1>4, <2>2, <2>3, <2>5, <2>7, <2>8, <2>9, <2>10, ExtDispatch
  <2> HIDE DEF t
  <2>12. Leads(env, Step(View(s), ev), s.ext, b)
    BY <2>3, <2>5, <2>7
  <2>13. CASE Plain(s, t, ev, b)
    BY <1>3, <1>5, <2>3, <2>4, <2>6, <2>12, <2>13, PlainStep
  <2>14. CASE MadeDue(s, t, ev)
    <3>1. Firewalls(ipacm.ext) => Firewalls(s.ext)
      BY <2>3, <2>6, <2>14 DEF MadeDue
    <3> QED
      BY <1>3, <1>4, <1>5, <2>2, <2>3, <2>4, <2>12, <2>14, <3>1, DueStep
  <2> QED
    BY <2>11, <2>13, <2>14
<1> QED
  BY <1>6, <1>7

(* When the framework does not wait, nothing waits for a header; if it calls   *)
(* eagerly, nothing is cached.                                                 *)
LEMMA Patience ==
  ASSUME IInv, Copes(env), call = NoCall, ~Waiting, NEW b \in Views, ViewOK(env, b),
         Final(env, net, ipacm.gw, ipacm.up, want, b)
  PROVE  /\ NoWait(b) /\ ~UpEntry(ipacm) /\ ipacm.gw = want.iface /\ ipacm.up = want.fams
         /\ "eager" \in env => \A k \in Places : ipacm.cache[k] = NoEntry
<1>1. TypeOK /\ HalOK(env, net, ipacm, call, want)
  BY DEF IInv
<1>2. DOMAIN ipacm.cache = Places
  BY <1>1 DEF TypeOK, IpacmSet
<1>3. "patient" \in env => \A k \in Places : ipacm.cache[k] = NoEntry
  BY <1>2 DEF Waiting
<1>4. "eager" \in env => \A k \in Places : ipacm.cache[k] = NoEntry
  BY <1>3 DEF Copes
<1>5. ~UpEntry(ipacm)
  <2>1. UpEntry(ipacm) => "eager" \in env
    BY <1>1 DEF HalOK, EntriesOK, UpEntry
  <2> QED
    BY <1>4, <2>1 DEF UpEntry, NoEntry
<1>6. ipacm.gw = want.iface /\ ipacm.up = want.fams
  BY <1>1, <1>5 DEF HalOK, AskedOK, Busy, NoCall
<1>7. NoWait(b)
  <2>1. CASE ~MayWait(env)
    BY <2>1 DEF ViewOK, NoWait
  <2>2. CASE MayWait(env)
    <3>1. want.iface \in Stas => want.fams \subseteq net[want.iface].neigh
      BY <2>2 DEF Copes, Waiting
    <3>2. SUFFICES ASSUME NEW j \in Uplinks
                   PROVE  Wait(b.wan[j]) = {}
      BY DEF NoWait
    <3>3. b.wan[j] \in SeenSet /\ WanOK(b.wan[j], j) /\ b.wan[j].neigh = net[j].neigh
      BY DEF Views, ViewOK, Final
    <3>4. Held(b.wan[j]) \in SUBSET Families
      BY HeldFacts
    <3>5. \A g \in Families : g \in Held(b.wan[j]) => j = want.iface /\ g \in want.fams
      BY <1>6 DEF Final, HeldBy
    <3>6. j \in Stas => Held(b.wan[j]) \subseteq b.wan[j].neigh
      BY <3>1, <3>3, <3>4, <3>5
    <3> QED
      BY <3>3, <3>6, WaitEmpty
  <2> QED
    BY <2>1, <2>2
<1> QED
  BY <1>4, <1>5, <1>6, <1>7

(* Where the pending events lead.                                              *)
LEMMA PathEnd ==
  ASSUME IInv
  PROVE  \E b \in Views : /\ ViewOK(env, b) /\ Leads(env, View(ipacm), ipacm.ext, b)
                          /\ Final(env, net, ipacm.gw, ipacm.up, want, b)
                          /\ Busy(ipacm, call) => NoWait(b)
<1>1. PICK b : /\ Leads(env, View(ipacm), ipacm.ext, b)
               /\ Final(env, net, ipacm.gw, ipacm.up, want, b)
               /\ Busy(ipacm, call) => NoWait(b)
  BY DEF IInv, PathOK
<1>2. ipacm.ext \in Seq(ExtEvents)
  BY DEF IInv, TypeOK, IpacmSet
<1>3. b \in Views /\ ViewOK(env, b)
  BY <1>1, <1>2, LeadsEnds
<1> QED
  BY <1>1, <1>3

(* A call of the framework, not yet carried out.                               *)
LEMMA CallStep ==
  ASSUME IInv, NEW b, NEW what, NEW i, NEW S, Call(what, i, S),
         what \in {"upstream", "clear", "stop", "downstream", "noDownstream"},
         i \in Ifaces \cup {NoIface}, S \in SUBSET Families, want' \in WantSet,
         WantOK(env, net, want'), AskedOK(env, ipacm, call', want'),
         EntriesOK(env, ipacm, call', want'), CallOK(env, ipacm, call', want'),
         Leads(env, View(ipacm), ipacm.ext, b),
         Final(env, net, ipacm.gw, ipacm.up, want', b), Busy(ipacm, call') => NoWait(b)
  PROVE  IInv'
<1>1. TypeOK /\ HalOK(env, net, ipacm, call, want) /\ RulesOK
  BY DEF IInv
<1>2. ipacm' = ipacm /\ net' = net /\ file' = file /\ env' = env
      /\ bounds' = [bounds EXCEPT !.calls = @ + 1]
  BY DEF Call
<1>3. call' \in CallSet
  <2>1. call'.ready \in BOOLEAN
    BY DEF Call
  <2> QED
    BY DEF Call, CallSet, Configured
<1>4. bounds' \in [calls : Nat, changes : Nat]
  BY <1>1, <1>2 DEF TypeOK
<1>5. TypeOK'
  BY <1>1, <1>2, <1>3, <1>4 DEF TypeOK
<1>6. HalOK(env, net, ipacm, call', want')
  BY <1>1 DEF HalOK
<1>7. PathOK(env, net, ipacm, call', want')
  BY DEF PathOK
<1>8. RulesOK'
  BY <1>1, <1>2, RulesKept
<1> QED
  BY <1>2, <1>5, <1>6, <1>7, <1>8 DEF IInv

(* The framework chooses an upstream.                                          *)
LEMMA SetStep ==
  ASSUME IInv, Copes(env), NEW i \in Uplinks, NEW S \in SUBSET Families,
         setUpstreamParameters(i, S)
  PROVE  IInv'
<1>1. TypeOK /\ HalOK(env, net, ipacm, call, want)
  BY DEF IInv
<1>2. PICK b \in Views : /\ ViewOK(env, b) /\ Leads(env, View(ipacm), ipacm.ext, b)
                         /\ Final(env, net, ipacm.gw, ipacm.up, want, b)
                         /\ Busy(ipacm, call) => NoWait(b)
  BY PathEnd
<1>3. /\ want.lost = FALSE /\ S # {} /\ S \subseteq net[i].addrs
      /\ want.iface = i => want.fams \subseteq S \/ "narrow" \in env
      /\ "eager" \in env \/ Configured(ipacm, i, S)
      /\ "late" \in env \/ i \in Modems \/ S \subseteq net[i].neigh
      /\ call = NoCall /\ ~Waiting
  BY <1>1 DEF setUpstreamParameters, Call, TypeOK, WantSet
<1>4. /\ NoWait(b) /\ ~UpEntry(ipacm) /\ ipacm.gw = want.iface /\ ipacm.up = want.fams
      /\ "eager" \in env => \A k \in Places : ipacm.cache[k] = NoEntry
  BY <1>2, <1>3, Patience
<1>5. want' = [want EXCEPT !.iface = i, !.fams = S] /\ want \in WantSet
  BY <1>1 DEF setUpstreamParameters, TypeOK
<1>6. want' \in WantSet /\ want'.iface = i /\ want'.fams = S /\ want'.lost = FALSE
  BY <1>3, <1>5 DEF WantSet
<1>7. Call("upstream", i, S)
  BY DEF setUpstreamParameters
<1>8. call'.what = "upstream" /\ call'.iface = i /\ call'.fams = S
      /\ (call'.ready = FALSE => ~Configured(ipacm, i, S))
  BY <1>7 DEF Call
<1>9. i \in Ifaces /\ i # NoIface
  BY UplinkKinds
<1>10. WantOK(env, net, want')
  <2>1. net[i].link = TRUE
    <3>1. net[i] \in NetSet
      BY <1>1, <1>9 DEF TypeOK
    <3> QED
      BY <1>1, <1>3, <1>9, <3>1 DEF HalOK, NetOK, NetSet
  <2>2. i \in Stas => i \notin Modems
    BY UplinkKinds
  <2> QED
    BY <1>3, <1>6, <1>9, <2>1, <2>2 DEF WantOK
<1>11. AskedOK(env, ipacm, call', want')
  <2>1. ipacm.gw = NoIface => ipacm.up = {}
    BY <1>1 DEF HalOK, AskedOK
  <2> QED
    BY <1>3, <1>4, <1>6, <1>8, <2>1 DEF AskedOK, Busy
<1>12. EntriesOK(env, ipacm, call', want')
  BY <1>1, <1>4 DEF HalOK, EntriesOK, UpEntry
<1>13. CallOK(env, ipacm, call', want')
  BY <1>3, <1>4, <1>6, <1>8 DEF CallOK
<1>14. Final(env, net, ipacm.gw, ipacm.up, want', b)
  BY <1>2, <1>3, <1>4, <1>6 DEF Final
<1> QED
  BY <1>2, <1>4, <1>6, <1>7, <1>9, <1>10, <1>11, <1>12, <1>13, <1>14, CallStep

(* The framework removes the upstream.                                         *)
LEMMA RemoveStep ==
  ASSUME IInv, Copes(env), removeUpstream
  PROVE  IInv'
<1>1. TypeOK /\ HalOK(env, net, ipacm, call, want)
  BY DEF IInv
<1>2. PICK b \in Views : /\ ViewOK(env, b) /\ Leads(env, View(ipacm), ipacm.ext, b)
                         /\ Final(env, net, ipacm.gw, ipacm.up, want, b)
                         /\ Busy(ipacm, call) => NoWait(b)
  BY PathEnd
<1>3. call = NoCall /\ ~Waiting /\ Call("clear", NoIface, {})
  BY DEF removeUpstream, Call
<1>4. NoWait(b) /\ ~UpEntry(ipacm)
  BY <1>2, <1>3, Patience
<1>5. want' = [want EXCEPT !.iface = NoIface, !.fams = {}, !.lost = FALSE] /\ want \in WantSet
  BY <1>1 DEF removeUpstream, TypeOK
<1>6. want' \in WantSet /\ want'.iface = NoIface /\ want'.fams = {} /\ want'.lost = FALSE
  BY <1>5 DEF WantSet
<1>7. call'.what = "clear"
  BY <1>3 DEF Call
<1>8. WantOK(env, net, want')
  BY <1>6, UplinkKinds DEF WantOK
<1>9. AskedOK(env, ipacm, call', want')
  BY <1>1, <1>4, <1>7 DEF HalOK, AskedOK, Busy
<1>10. EntriesOK(env, ipacm, call', want')
  BY <1>1, <1>4 DEF HalOK, EntriesOK, UpEntry
<1>11. CallOK(env, ipacm, call', want')
  BY <1>4, <1>6, <1>7 DEF CallOK
<1>12. Final(env, net, ipacm.gw, ipacm.up, want', b)
  BY <1>2, <1>6, UplinkKinds DEF Final
<1> QED
  BY <1>2, <1>3, <1>4, <1>6, <1>8, <1>9, <1>10, <1>11, <1>12, CallStep

(* Offload stops: the framework wants nothing any more.                        *)
LEMMA StopStep ==
  ASSUME IInv, Copes(env), stopOffload
  PROVE  IInv'
<1>1. TypeOK /\ HalOK(env, net, ipacm, call, want)
  BY DEF IInv
<1>2. PICK b \in Views : /\ ViewOK(env, b) /\ Leads(env, View(ipacm), ipacm.ext, b)
                         /\ Final(env, net, ipacm.gw, ipacm.up, want, b)
                         /\ Busy(ipacm, call) => NoWait(b)
  BY PathEnd
<1>3. Call("stop", NoIface, {}) /\ "stop" \in env
  BY DEF stopOffload
<1>4. NoWait(b)
  <2>1. ~MayWait(env)
    BY <1>3 DEF Copes
  <2> QED
    BY <1>2, <2>1 DEF ViewOK, NoWait
<1>5. want' = [iface |-> NoIface, fams |-> {}, lost |-> FALSE, down |-> {}]
  BY DEF stopOffload
<1>6. want' \in WantSet /\ want'.iface = NoIface /\ want'.fams = {} /\ want'.lost = FALSE
  BY <1>5 DEF WantSet
<1>7. call'.what = "stop"
  BY <1>3 DEF Call
<1>8. WantOK(env, net, want')
  BY <1>6, UplinkKinds DEF WantOK
<1>9. AskedOK(env, ipacm, call', want')
  BY <1>1, <1>6, <1>7 DEF HalOK, AskedOK, Busy
<1>10. EntriesOK(env, ipacm, call', want')
  BY <1>1, <1>7 DEF HalOK, EntriesOK
<1>11. CallOK(env, ipacm, call', want')
  BY <1>6, <1>7 DEF CallOK
<1>12. Final(env, net, ipacm.gw, ipacm.up, want', b)
  BY <1>2, <1>6, UplinkKinds DEF Final
<1> QED
  BY <1>2, <1>3, <1>4, <1>6, <1>8, <1>9, <1>10, <1>11, <1>12, CallStep

(* The framework adds or removes a downstream: nothing to the uplinks.         *)
LEMMA DownstreamStep ==
  ASSUME IInv, NEW f \in Families, addDownstream(f) \/ removeDownstream(f)
  PROVE  IInv'
<1>1. TypeOK /\ HalOK(env, net, ipacm, call, want)
  BY DEF IInv
<1>2. PICK b \in Views : /\ ViewOK(env, b) /\ Leads(env, View(ipacm), ipacm.ext, b)
                         /\ Final(env, net, ipacm.gw, ipacm.up, want, b)
                         /\ Busy(ipacm, call) => NoWait(b)
  BY PathEnd
<1>3. PICK what \in {"downstream", "noDownstream"} : Call(what, Ap, {f})
  BY DEF addDownstream, removeDownstream
<1>4. call = NoCall /\ call'.what = what
  BY <1>3 DEF Call
<1>5. want' \in WantSet /\ want'.iface = want.iface /\ want'.fams = want.fams
      /\ want'.lost = want.lost
  <2>1. want \in WantSet
    BY <1>1 DEF TypeOK
  <2>2. \E D \in SUBSET Families : want' = [want EXCEPT !.down = D]
    <3>1. want.down \cup {f} \in SUBSET Families /\ want.down \ {f} \in SUBSET Families
      BY <2>1 DEF WantSet
    <3>2. want' = [want EXCEPT !.down = want.down \cup {f}]
          \/ want' = [want EXCEPT !.down = want.down \ {f}]
      BY DEF addDownstream, removeDownstream
    <3> QED
      BY <3>1, <3>2
  <2> QED
    BY <2>1, <2>2 DEF WantSet
<1>6. Busy(ipacm, call') <=> Busy(ipacm, call)
  BY <1>4 DEF Busy, NoCall
<1>7. WantOK(env, net, want')
  BY <1>1, <1>5 DEF HalOK, WantOK
<1>8. AskedOK(env, ipacm, call', want')
  BY <1>1, <1>4, <1>5, <1>6 DEF HalOK, AskedOK, NoCall
<1>9. EntriesOK(env, ipacm, call', want')
  BY <1>1, <1>4, <1>5 DEF HalOK, EntriesOK, NoCall
<1>10. CallOK(env, ipacm, call', want')
  BY <1>4 DEF CallOK
<1>11. Final(env, net, ipacm.gw, ipacm.up, want', b)
  BY <1>2, <1>5 DEF Final
<1>12. Ap \in Ifaces \cup {NoIface}
  BY UplinkKinds
<1> QED
  BY <1>2, <1>3, <1>5, <1>6, <1>7, <1>8, <1>9, <1>10, <1>11, <1>12, CallStep

(* A call is carried out: it changes what the HAL knows and posts events.      *)
LEMMA ActDone ==
  ASSUME IInv, Act, NEW t \in IpacmSet, NEW d, ipacm' = t, Below(t) = Below(ipacm),
         HalOK(env, net, t, NoCall, want), Leads(env, View(ipacm), t.ext, d),
         Final(env, net, t.gw, t.up, want, d), Busy(t, NoCall) => NoWait(d),
         Firewalls(ipacm.ext) => Firewalls(t.ext)
  PROVE  IInv'
<1>1. TypeOK /\ RulesOK
  BY DEF IInv
<1>2. call' = NoCall /\ UNCHANGED <<net, file, want, bounds, env>>
  BY DEF Act
<1>3. t.wans = ipacm.wans /\ t.wan = ipacm.wan /\ t.wanUp = ipacm.wanUp
  BY DEF Below
<1>4. NoCall \in CallSet
  BY DEF NoCall, CallSet
<1>5. TypeOK'
  BY <1>1, <1>2, <1>3, <1>4 DEF TypeOK
<1>6. View(t) = View(ipacm)
  BY <1>3 DEF View
<1>7. PathOK(env, net, t, NoCall, want)
  BY <1>6 DEF PathOK
<1>8. RulesOK'
  BY <1>1, <1>2, <1>3, RulesKept
<1> QED
  BY <1>2, <1>5, <1>7, <1>8 DEF IInv

(* The framework's upstream is set, if it is configured.                       *)
LEMMA ActUpstream ==
  ASSUME IInv, Copes(env), Act, call.what = "upstream", call.ready = TRUE
  PROVE  IInv'
<1>1. TypeOK /\ HalOK(env, net, ipacm, call, want)
  BY DEF IInv
<1>2. PICK b \in Views : /\ ViewOK(env, b) /\ Leads(env, View(ipacm), ipacm.ext, b)
                         /\ Final(env, net, ipacm.gw, ipacm.up, want, b)
                         /\ Busy(ipacm, call) => NoWait(b)
  BY PathEnd
<1>3. call.iface = want.iface /\ call.fams = want.fams /\ want.iface \in Uplinks
      /\ ~UpEntry(ipacm) /\ want.lost = FALSE
  BY <1>1 DEF HalOK, CallOK
<1> DEFINE t == SetUpstream(ipacm, want.iface, want.fams)
<1>4. ipacm' = t
  BY <1>3 DEF Act, TakeUpstream
<1>5. NoWait(b)
  BY <1>2 DEF Busy
<1>6. /\ t \in IpacmSet /\ t.gw = want.iface /\ t.up = want.fams /\ Outer(t) = Outer(ipacm)
      /\ \E d : LeadsOn(ipacm, t, b, d) /\ Final(env, net, want.iface, want.fams, want, d)
  <2>1. ipacm \in IpacmSet /\ net \in [Ifaces -> NetSet] /\ want \in WantSet
    BY <1>1 DEF TypeOK
  <2>2. WantOK(env, net, want) /\ AskedOK(env, ipacm, call, want)
    BY <1>1 DEF HalOK
  <2>3. ipacm.gw = NoIface => ipacm.up = {}
    BY <2>2 DEF AskedOK
  <2>4. want.iface = ipacm.gw => "narrow" \in env \/ ipacm.up \subseteq want.fams
    BY <2>2 DEF AskedOK
  <2> QED
    BY <1>2, <1>3, <1>5, <2>1, <2>2, <2>3, <2>4, MakeUpstream
<1>7. PICK d : LeadsOn(ipacm, t, b, d) /\ Final(env, net, want.iface, want.fams, want, d)
  BY <1>6
<1> HIDE DEF t
<1>8. t.cache = ipacm.cache /\ Below(t) = Below(ipacm)
  BY <1>6 DEF Outer, Below
<1>9. ~UpEntry(t) /\ ~Busy(t, NoCall)
  BY <1>3, <1>8 DEF UpEntry, Busy, NoCall
<1>10. HalOK(env, net, t, NoCall, want)
  <2>1. NetOK(env, net) /\ WantOK(env, net, want)
    BY <1>1 DEF HalOK
  <2>2. AskedOK(env, t, NoCall, want)
    BY <1>6, <1>9, <2>1 DEF AskedOK, WantOK, NoCall
  <2>3. EntriesOK(env, t, NoCall, want)
    BY <1>9 DEF EntriesOK, OneCall, UpEntry
  <2>4. CallOK(env, t, NoCall, want)
    BY DEF CallOK, NoCall
  <2> QED
    BY <2>1, <2>2, <2>3, <2>4 DEF HalOK
<1>11. Leads(env, View(ipacm), t.ext, d) /\ (Firewalls(ipacm.ext) => Firewalls(t.ext))
  BY <1>2, <1>7 DEF LeadsOn
<1> QED
  BY <1>4, <1>6, <1>7, <1>8, <1>9, <1>10, <1>11, ActDone

(* The framework's upstream is not configured: the call is cached.             *)
LEMMA ActCached ==
  ASSUME IInv, Act, call.what = "upstream", call.ready = FALSE
  PROVE  IInv'
<1>1. TypeOK /\ HalOK(env, net, ipacm, call, want)
  BY DEF IInv
<1>2. PICK b \in Views : /\ ViewOK(env, b) /\ Leads(env, View(ipacm), ipacm.ext, b)
                         /\ Final(env, net, ipacm.gw, ipacm.up, want, b)
                         /\ Busy(ipacm, call) => NoWait(b)
  BY PathEnd
<1>3. /\ call.iface = want.iface /\ call.fams = want.fams /\ want.iface \in Uplinks
      /\ want.fams # {} /\ want.lost = FALSE /\ "eager" \in env
      /\ ~Configured(ipacm, want.iface, want.fams)
      /\ \A k \in Places : ipacm.cache[k] = NoEntry
  BY <1>1 DEF HalOK, CallOK
<1>4. ipacm \in IpacmSet /\ want.fams \in SUBSET Families
  BY <1>1 DEF TypeOK, WantSet
<1>5. want.iface \in b.inst
  BY <1>1, <1>2, <1>3 DEF HalOK, WantOK, Final
<1> DEFINE t == TakeUpstream(ipacm, want.iface, want.fams, FALSE)
<1>6. ipacm' = t
  BY <1>3 DEF Act
<1>7. /\ t \in IpacmSet /\ t.gw = ipacm.gw /\ t.up = ipacm.up /\ Below(t) = Below(ipacm)
      /\ \E p \in Places : t.cache = [ipacm.cache EXCEPT ![p] = Entry("upstream", want.iface, want.fams)]
      /\ LeadsOn(ipacm, t, b, b)
  BY <1>2, <1>3, <1>4, <1>5, CacheUpstream
<1> HIDE DEF t
<1>8. PICK p \in Places :
        t.cache = [ipacm.cache EXCEPT ![p] = Entry("upstream", want.iface, want.fams)]
  BY <1>7
<1>9. /\ t.cache[p].what = "upstream" /\ t.cache[p].iface = want.iface
      /\ t.cache[p].fams = want.fams
      /\ \A k \in Places : k # p => t.cache[k].what # "upstream"
  <2>1. ipacm.cache \in [Places -> EntrySet]
    BY <1>4 DEF IpacmSet
  <2>2. t.cache[p] = Entry("upstream", want.iface, want.fams)
    BY <1>8, <2>1
  <2>3. \A k \in Places : k # p => t.cache[k] = NoEntry
    BY <1>3, <1>8, <2>1
  <2> QED
    BY <2>2, <2>3 DEF Entry, NoEntry
<1>10. UpEntry(t)
  BY <1>9 DEF UpEntry
<1>11. HalOK(env, net, t, NoCall, want)
  <2>1. NetOK(env, net) /\ WantOK(env, net, want)
    BY <1>1 DEF HalOK
  <2>2. AskedOK(env, t, NoCall, want)
    BY <1>1, <1>7, <1>10 DEF HalOK, AskedOK, Busy
  <2>3. ~Configured(t, want.iface, want.fams)
    BY <1>3, <1>7 DEF Configured, Below
  <2>4. EntriesOK(env, t, NoCall, want)
    BY <1>3, <1>9, <2>3 DEF EntriesOK, OneCall
  <2>5. CallOK(env, t, NoCall, want)
    BY DEF CallOK, NoCall
  <2> QED
    BY <2>1, <2>2, <2>4, <2>5 DEF HalOK
<1>12. Leads(env, View(ipacm), t.ext, b) /\ (Firewalls(ipacm.ext) => Firewalls(t.ext))
  BY <1>2, <1>7 DEF LeadsOn
<1>13. NoWait(b)
  BY <1>2 DEF Busy
<1> QED
  BY <1>2, <1>6, <1>7, <1>11, <1>12, <1>13, ActDone

(* The upstream is removed, or offload stops.                                  *)
LEMMA ActClear ==
  ASSUME IInv, Act, call.what \in {"clear", "stop"}
  PROVE  IInv'
<1>1. TypeOK /\ HalOK(env, net, ipacm, call, want)
  BY DEF IInv
<1>2. PICK b \in Views : /\ ViewOK(env, b) /\ Leads(env, View(ipacm), ipacm.ext, b)
                         /\ Final(env, net, ipacm.gw, ipacm.up, want, b)
                         /\ Busy(ipacm, call) => NoWait(b)
  BY PathEnd
<1>3. /\ ipacm \in IpacmSet /\ NoWait(b) /\ HeldBy(b, ipacm.gw, ipacm.up) /\ GateOK(b)
      /\ ipacm.gw = NoIface => ipacm.up = {}
  BY <1>1, <1>2 DEF TypeOK, Busy, Final, GateOK, HalOK, AskedOK
<1>4. want.iface = NoIface /\ want.fams = {} /\ (call.what = "clear" => ~UpEntry(ipacm))
  BY <1>1 DEF HalOK, CallOK, WantOK
<1> DEFINE Clears(t) ==
             /\ t \in IpacmSet /\ t.gw = NoIface /\ t.up = {} /\ Below(t) = Below(ipacm)
             /\ \A k \in Places : t.cache[k].what # "upstream"
             /\ \E d : /\ LeadsOn(ipacm, t, b, d)
                       /\ SameNet(b, d) /\ GateOK(d) /\ HeldBy(d, NoIface, {})
<1>5. PICK t : ipacm' = t /\ Clears(t)
  <2>1. CASE call.what = "clear"
    <3> DEFINE t == ClearUpstream(ipacm)
    <3>1. ipacm' = t
      BY <2>1 DEF Act
    <3>2. /\ t \in IpacmSet /\ t.gw = NoIface /\ t.up = {} /\ Below(t) = Below(ipacm)
          /\ \A k \in Places : t.cache[k] = ipacm.cache[k] \/ t.cache[k] = NoEntry
          /\ \E c : /\ LeadsOn(ipacm, t, b, c) /\ ViewOK(env, c)
                    /\ SameNet(b, c) /\ GateOK(c) /\ HeldBy(c, NoIface, {}) /\ NoWait(c)
      BY <1>2, <1>3, ClearUpstreamFacts
    <3> HIDE DEF t
    <3>3. \A k \in Places : t.cache[k].what # "upstream"
      BY <1>4, <2>1, <3>2 DEF UpEntry, NoEntry
    <3> QED
      BY <3>1, <3>2, <3>3
  <2>2. CASE call.what = "stop"
    <3> DEFINE t == StopAll(ipacm)
    <3>1. ipacm' = t
      BY <2>2 DEF Act
    <3>2. /\ t \in IpacmSet /\ t.gw = NoIface /\ t.up = {} /\ Below(t) = Below(ipacm)
          /\ \A k \in Places : t.cache[k] = NoEntry
          /\ \E c : /\ LeadsOn(ipacm, t, b, c) /\ ViewOK(env, c)
                    /\ SameNet(b, c) /\ GateOK(c) /\ HeldBy(c, NoIface, {}) /\ NoWait(c)
      BY <1>2, <1>3, StopAllFacts
    <3> HIDE DEF t
    <3>3. \A k \in Places : t.cache[k].what # "upstream"
      BY <3>2 DEF NoEntry
    <3> QED
      BY <3>1, <3>2, <3>3
  <2> QED
    BY <2>1, <2>2
<1>6. PICK d : /\ LeadsOn(ipacm, t, b, d)
               /\ SameNet(b, d) /\ GateOK(d) /\ HeldBy(d, NoIface, {})
  BY <1>5
<1>7. ~UpEntry(t) /\ ~Busy(t, NoCall)
  BY <1>5 DEF UpEntry, Busy, NoCall
<1>8. HalOK(env, net, t, NoCall, want)
  <2>1. NetOK(env, net) /\ WantOK(env, net, want)
    BY <1>1 DEF HalOK
  <2>2. AskedOK(env, t, NoCall, want)
    BY <1>4, <1>5, <1>7 DEF AskedOK, NoCall
  <2>3. EntriesOK(env, t, NoCall, want)
    BY <1>5 DEF EntriesOK, OneCall
  <2>4. CallOK(env, t, NoCall, want)
    BY DEF CallOK, NoCall
  <2> QED
    BY <2>1, <2>2, <2>3, <2>4 DEF HalOK
<1>9. Leads(env, View(ipacm), t.ext, d) /\ (Firewalls(ipacm.ext) => Firewalls(t.ext))
  BY <1>2, <1>6 DEF LeadsOn
<1>10. Final(env, net, NoIface, {}, want, d)
  <2>1. \A j \in Uplinks : (j \in d.inst <=> net[j].link = TRUE)
                           /\ d.wan[j].ip = net[j].addrs /\ d.wan[j].neigh = net[j].neigh
    BY <1>2, <1>6 DEF SameNet, Final
  <2> QED
    BY <1>6, <2>1, UplinkKinds DEF Final, GateOK
<1> QED
  BY <1>5, <1>7, <1>8, <1>9, <1>10, ActDone

(* A downstream is added or removed. *)
LEMMA ActDownstream ==
  ASSUME IInv, Act, call.what \in {"downstream", "noDownstream"}
  PROVE  IInv'
<1>1. TypeOK /\ HalOK(env, net, ipacm, call, want)
  BY DEF IInv
<1>2. PICK b \in Views : /\ ViewOK(env, b) /\ Leads(env, View(ipacm), ipacm.ext, b)
                         /\ Final(env, net, ipacm.gw, ipacm.up, want, b)
                         /\ Busy(ipacm, call) => NoWait(b)
  BY PathEnd
<1>3. ipacm \in IpacmSet
  BY <1>1 DEF TypeOK
<1>4. PICK t : ipacm' = t /\ Side(ipacm, t, b)
  <2>1. CASE call.what = "downstream"
    <3>1. ipacm' = Takes(ipacm, call.fams, call.ready)
      BY <2>1 DEF Act, Takes
    <3> QED
      BY <1>2, <1>3, <3>1, SideTakes
  <2>2. CASE call.what = "noDownstream"
    <3>1. ipacm' = ForEach(call.fams, ipacm, DropDownstream)
      BY <2>2 DEF Act
    <3>2. Side(ipacm, ForEach(call.fams, ipacm, DropDownstream), b)
      BY <1>2, <1>3, SideDrops
    <3> QED
      BY <3>1, <3>2
  <2> QED
    BY <2>1, <2>2
<1>5. /\ t \in IpacmSet /\ t.gw = ipacm.gw /\ t.up = ipacm.up /\ UpSame(ipacm.cache, t.cache)
      /\ Below(t) = Below(ipacm) /\ LeadsOn(ipacm, t, b, b)
  BY <1>4 DEF Side
<1>6. StillWaits(ipacm, t)
  BY <1>5 DEF StillWaits, Below, Configured
<1>7. HalOK(env, net, t, NoCall, want) /\ (Busy(t, NoCall) <=> Busy(ipacm, call))
  BY <1>1, <1>5, <1>6, HalStays
<1>8. Leads(env, View(ipacm), t.ext, b) /\ (Firewalls(ipacm.ext) => Firewalls(t.ext))
  BY <1>2, <1>5 DEF LeadsOn
<1>9. Final(env, net, t.gw, t.up, want, b)
  BY <1>2, <1>5
<1> QED
  BY <1>2, <1>4, <1>5, <1>7, <1>8, <1>9, ActDone

(* A call of the framework is carried out.                                     *)
LEMMA ActStep ==
  ASSUME IInv, Copes(env), Act
  PROVE  IInv'
<1>1. call \in CallSet /\ call # NoCall
  BY DEF IInv, TypeOK, Act
<1>2. call.ready \in BOOLEAN
      /\ call.what \in {"upstream", "clear", "stop", "downstream", "noDownstream"}
  BY <1>1 DEF CallSet
<1> QED
  BY <1>2, ActUpstream, ActCached, ActClear, ActDownstream

(* The kernel changes something and posts events: what lies between the HAL    *)
(* and the uplinks stays, and the pending events lead to d now.                *)
LEMMA KernelDone ==
  ASSUME IInv, NEW t \in IpacmSet, NEW d, ipacm' = t, t.gw = ipacm.gw, t.up = ipacm.up,
         t.cache = ipacm.cache, t.nat = ipacm.nat, t.wans = ipacm.wans, t.wan = ipacm.wan,
         net' \in [Ifaces -> NetSet], want' \in WantSet, file' \in Nat,
         bounds' \in [calls : Nat, changes : Nat], env' = env, call' = call,
         NetOK(env, net'), WantOK(env, net', want'), want'.iface = want.iface,
         want'.fams = want.fams, call = NoCall \/ want'.lost = want.lost,
         Leads(env, View(ipacm), t.ext, d), Final(env, net', ipacm.gw, ipacm.up, want', d),
         Busy(ipacm, call) => NoWait(d), RulesOK'
  PROVE  IInv'
<1>1. TypeOK /\ HalOK(env, net, ipacm, call, want)
  BY DEF IInv
<1>2. TypeOK'
  BY <1>1 DEF TypeOK
<1>3. UpEntry(t) <=> UpEntry(ipacm)
  BY DEF UpEntry
<1>4. Busy(t, call) <=> Busy(ipacm, call)
  BY <1>3 DEF Busy
<1>5. AskedOK(env, t, call, want')
  BY <1>1, <1>3, <1>4 DEF HalOK, AskedOK
<1>6. EntriesOK(env, t, call, want')
  BY <1>1 DEF HalOK, EntriesOK, OneCall, Configured
<1>7. CallOK(env, t, call, want')
  BY <1>1, <1>3 DEF HalOK, CallOK, Configured, NoCall
<1>8. HalOK(env, net', t, call, want')
  BY <1>5, <1>6, <1>7 DEF HalOK
<1>9. View(t) = View(ipacm)
  BY DEF View
<1>10. PathOK(env, net', t, call, want')
  BY <1>4, <1>9 DEF PathOK
<1> QED
  BY <1>2, <1>8, <1>10 DEF IInv

(* One event is posted. *)
LEMMA PostStep ==
  ASSUME IInv, NEW b \in Views, ViewOK(env, b), Leads(env, View(ipacm), ipacm.ext, b),
         Busy(ipacm, call) => NoWait(b), NEW ev \in ExtEvents, Guard(env, b, ev), Post(ev),
         net' \in [Ifaces -> NetSet], want' \in WantSet,
         file' = file \/ (file' \in Nat /\ ev.what = "firewall"),
         bounds' \in [calls : Nat, changes : Nat], env' = env, call' = call,
         NetOK(env, net'), WantOK(env, net', want'), want'.iface = want.iface,
         want'.fams = want.fams, call = NoCall \/ want'.lost = want.lost,
         Final(env, net', ipacm.gw, ipacm.up, want', Step(b, ev)),
         NoWait(b) => NoWait(Step(b, ev))
  PROVE  IInv'
<1> DEFINE t == External(ipacm, ev)
           d == Step(b, ev)
<1>1. TypeOK /\ RulesOK
  BY DEF IInv
<1>2. ipacm \in IpacmSet /\ file \in Nat
  BY <1>1 DEF TypeOK
<1>3. ipacm' = t
  BY DEF Post
<1>4. /\ t \in IpacmSet /\ Inner(t) = Inner(ipacm)
      /\ Firewalls(ipacm.ext) => Firewalls(t.ext)
      /\ ev.what = "firewall" => Firewalls(t.ext)
  BY <1>2, ExternalFacts
<1>5. Reaches(ipacm, t, b, d)
  BY <1>2, ReachesOne
<1> HIDE DEF t, d
<1>6. Leads(env, View(ipacm), t.ext, d)
  BY <1>5 DEF Reaches
<1>7. t.gw = ipacm.gw /\ t.up = ipacm.up /\ t.cache = ipacm.cache /\ t.nat = ipacm.nat
      /\ t.wans = ipacm.wans /\ t.wan = ipacm.wan /\ t.wanUp = ipacm.wanUp
  BY <1>4 DEF Inner
<1>8. RulesOK'
  <2>1. CASE file' = file
    BY <1>1, <1>3, <1>4, <1>7, <2>1, RulesKept
  <2>2. CASE ev.what = "firewall"
    <3>1. Firewalls(ipacm.ext)'
      BY <1>3, <1>4, <2>2
    <3>2. FlagsOK(ipacm) => FlagsOK(ipacm)'
      BY <1>3, <1>7 DEF FlagsOK
    <3> QED
      BY <1>1, <3>1, <3>2 DEF RulesOK
  <2> QED
    BY <2>1, <2>2
<1>9. Final(env, net', ipacm.gw, ipacm.up, want', d) /\ (NoWait(b) => NoWait(d))
  BY DEF d
<1>10. file' \in Nat
  BY <1>2
<1>11. Busy(ipacm, call) => NoWait(d)
  BY <1>9
<1> QED
  BY <1>3, <1>4, <1>6, <1>7, <1>8, <1>9, <1>10, <1>11, KernelDone

(* A link comes up. *)
LEMMA RaiseStep ==
  ASSUME IInv, NEW i \in Ifaces, Raise(i)
  PROVE  IInv'
<1>1. TypeOK /\ HalOK(env, net, ipacm, call, want)
  BY DEF IInv
<1>2. PICK b \in Views : /\ ViewOK(env, b) /\ Leads(env, View(ipacm), ipacm.ext, b)
                         /\ Final(env, net, ipacm.gw, ipacm.up, want, b)
                         /\ Busy(ipacm, call) => NoWait(b)
  BY PathEnd
<1> DEFINE ev == Ev("linkUp", i, "v4")
           d == Step(b, ev)
<1>3. Post(ev) /\ UNCHANGED <<file, call, want, bounds, env>>
  BY DEF Raise
<1>4. net \in [Ifaces -> NetSet] /\ net' = [net EXCEPT ![i].link = TRUE]
  BY <1>1 DEF Raise, TypeOK
<1>5. /\ net' \in [Ifaces -> NetSet]
      /\ \A j \in Ifaces : net'[j].addrs = net[j].addrs /\ net'[j].neigh = net[j].neigh
                           /\ net'[j].link = IF j = i THEN TRUE ELSE net[j].link
  BY <1>4 DEF NetSet
<1>6. NetOK(env, net')
  BY <1>1, <1>5 DEF HalOK, NetOK
<1>7. WantOK(env, net', want)
  BY <1>1, <1>5, UplinkKinds DEF HalOK, WantOK
<1>8. ev \in ExtEvents /\ Guard(env, b, ev)
  BY UplinkKinds DEF ExtEvents, Ev, Families, Guard
<1>9. d \in Views /\ d.wan = b.wan
      /\ \A j \in Uplinks : j \in d.inst <=> j \in b.inst \/ j = i
  <2>1. CASE i \in Uplinks
    <3>1. d = [b EXCEPT !.inst = @ \cup {i}]
      BY <2>1 DEF Step, Ev
    <3> QED
      BY <2>1, <3>1 DEF Views
  <2>2. CASE i \notin Uplinks
    <3>1. d = b
      BY <2>2 DEF Step, Ev, Views
    <3> QED
      BY <2>2, <3>1
  <2> QED
    BY <2>1, <2>2
<1> HIDE DEF d
<1>10. Final(env, net', ipacm.gw, ipacm.up, want, d)
  <2>1. \A j \in Uplinks : j \in Ifaces
    BY UplinkKinds
  <2>2. \A j \in Uplinks : (j \in d.inst <=> net'[j].link = TRUE)
                           /\ d.wan[j].ip = net'[j].addrs /\ d.wan[j].neigh = net'[j].neigh
    BY <1>2, <1>5, <1>9, <2>1 DEF Final
  <2> QED
    BY <1>2, <1>9, <2>2 DEF Final, HeldBy, Gate
<1>11. NoWait(b) => NoWait(d)
  BY <1>9 DEF NoWait
<1>12. want \in WantSet /\ bounds \in [calls : Nat, changes : Nat]
  BY <1>1 DEF TypeOK
<1> HIDE DEF ev
<1> QED
  BY <1>2, <1>3, <1>5, <1>6, <1>7, <1>8, <1>10, <1>11, <1>12, PostStep DEF d

(* The firewall's file is written. *)
LEMMA RewriteStep ==
  ASSUME IInv, Rewrite
  PROVE  IInv'
<1>1. TypeOK /\ HalOK(env, net, ipacm, call, want)
  BY DEF IInv
<1>2. PICK b \in Views : /\ ViewOK(env, b) /\ Leads(env, View(ipacm), ipacm.ext, b)
                         /\ Final(env, net, ipacm.gw, ipacm.up, want, b)
                         /\ Busy(ipacm, call) => NoWait(b)
  BY PathEnd
<1> DEFINE ev == Ev("firewall", NoIface, "v4")
<1>3. /\ Post(ev) /\ UNCHANGED <<net, want, call, env>> /\ file' = file + 1 /\ "file" \in env
      /\ bounds' = [bounds EXCEPT !.changes = @ + 1]
  BY DEF Rewrite, Change
<1>4. ev \in ExtEvents /\ ev.what = "firewall"
  BY DEF ExtEvents, Ev, Families
<1>5. Step(b, ev) = b
  BY <1>4, IdleStep
<1>6. Guard(env, b, ev)
  <2>1. Steady(env) => Gate(b)
    BY <1>2, <1>3 DEF Steady, Final
  <2> QED
    BY <1>4, <2>1 DEF Guard
<1>7. file' \in Nat /\ bounds' \in [calls : Nat, changes : Nat]
      /\ want \in WantSet /\ net \in [Ifaces -> NetSet]
  BY <1>1, <1>3 DEF TypeOK
<1>8. NetOK(env, net) /\ WantOK(env, net, want)
  BY <1>1 DEF HalOK
<1> HIDE DEF ev
<1> QED
  BY <1>2, <1>3, <1>4, <1>5, <1>6, <1>7, <1>8, PostStep

(* One uplink gets an address or a neighbour, and keeps its routes.            *)
LEMMA FinalOne ==
  ASSUME NEW b \in Views, NEW d \in Views, NEW i \in Uplinks,
         Final(env, net, ipacm.gw, ipacm.up, want, b), d.inst = b.inst,
         \A j \in Uplinks : j # i => d.wan[j] = b.wan[j] /\ net'[j] = net[j],
         net'[i].link = net[i].link, d.wan[i].ip = net'[i].addrs, d.wan[i].neigh = net'[i].neigh,
         \A f \in Families : f \in Held(d.wan[i]) => f \in Held(b.wan[i]),
         \A f \in Families : f \in Wait(d.wan[i]) => f \in Wait(b.wan[i]),
         ipacm.gw = i /\ ipacm.gw = want.iface /\ want.lost = FALSE =>
           \A f \in Families : f \in Held(b.wan[i]) => f \in Held(d.wan[i]),
         i \in Modems => d.wan[i].isGw = b.wan[i].isGw /\ d.wan[i].active = b.wan[i].active
  PROVE  Final(env, net', ipacm.gw, ipacm.up, want, d) /\ (NoWait(b) => NoWait(d))
<1> DEFINE g == ipacm.gw
           u == ipacm.up
<1>1. Held(b.wan[i]) \in SUBSET Families /\ Held(d.wan[i]) \in SUBSET Families
      /\ Wait(b.wan[i]) \in SUBSET Families /\ Wait(d.wan[i]) \in SUBSET Families
  BY HeldFacts
<1>2. Held(d.wan[i]) \subseteq Held(b.wan[i]) /\ Wait(d.wan[i]) \subseteq Wait(b.wan[i])
  BY <1>1
<1>3. \A j \in Uplinks : (j \in d.inst <=> net'[j].link = TRUE)
                         /\ d.wan[j].ip = net'[j].addrs /\ d.wan[j].neigh = net'[j].neigh
  BY DEF Final
<1>4. HeldBy(d, g, u)
  BY DEF Final, HeldBy
<1>5. g \in Uplinks /\ g = want.iface /\ want.lost = FALSE =>
        u \subseteq Held(d.wan[g]) /\ ("v6" \in env => Wait(d.wan[g]) = {})
  <2>1. SUFFICES ASSUME g \in Uplinks, g = want.iface, want.lost = FALSE
                 PROVE  u \subseteq Held(d.wan[g]) /\ ("v6" \in env => Wait(d.wan[g]) = {})
    OBVIOUS
  <2>2. u \subseteq Held(b.wan[g]) /\ ("v6" \in env => Wait(b.wan[g]) = {})
    BY <2>1 DEF Final
  <2>3. CASE g # i
    BY <2>1, <2>2, <2>3
  <2>4. CASE g = i
    <3>1. Held(b.wan[i]) \subseteq Held(d.wan[i])
      BY <1>1, <2>1, <2>4
    <3> QED
      BY <1>2, <2>2, <2>4, <3>1
  <2> QED
    BY <2>3, <2>4
<1>6. "narrow" \notin env => Gate(d)
  <2>1. \A m \in Modems : m \in Uplinks
    BY UplinkKinds
  <2> QED
    BY <2>1 DEF Final, Gate
<1>7. NoWait(b) => NoWait(d)
  BY <1>2 DEF NoWait
<1> QED
  BY <1>3, <1>4, <1>5, <1>6, <1>7 DEF Final

(* An interface gets an address. *)
LEMMA AddressStep ==
  ASSUME IInv, NEW i \in Ifaces, NEW f \in Families, Address(i, f)
  PROVE  IInv'
<1>1. TypeOK /\ HalOK(env, net, ipacm, call, want)
  BY DEF IInv
<1>2. PICK b \in Views : /\ ViewOK(env, b) /\ Leads(env, View(ipacm), ipacm.ext, b)
                         /\ Final(env, net, ipacm.gw, ipacm.up, want, b)
                         /\ Busy(ipacm, call) => NoWait(b)
  BY PathEnd
<1> DEFINE ev == Ev("address", i, f)
           d == Step(b, ev)
<1>3. Post(ev) /\ UNCHANGED <<file, call, want, bounds, env>>
  BY DEF Address
<1>4. net \in [Ifaces -> NetSet] /\ net' = [net EXCEPT ![i].addrs = @ \cup {f}]
      /\ net[i].link = TRUE /\ f \in All
  BY <1>1 DEF Address, TypeOK, NetSet
<1>5. /\ net' \in [Ifaces -> NetSet]
      /\ \A j \in Ifaces : net'[j].link = net[j].link /\ net'[j].neigh = net[j].neigh
                           /\ net'[j].addrs = IF j = i THEN net[j].addrs \cup {f} ELSE net[j].addrs
  BY <1>4 DEF NetSet
<1>6. NetOK(env, net')
  <2>1. f = "v6" => "v6" \in env
    BY <1>4 DEF All
  <2> QED
    BY <1>1, <1>4, <1>5, <2>1 DEF HalOK, NetOK
<1>7. WantOK(env, net', want)
  BY <1>1, <1>5, UplinkKinds DEF HalOK, WantOK
<1>8. ev \in ExtEvents /\ Guard(env, b, ev)
  BY UplinkKinds DEF ExtEvents, Ev, Guard
<1>9. Final(env, net', ipacm.gw, ipacm.up, want, d) /\ (NoWait(b) => NoWait(d))
  <2>1. CASE i \in Uplinks
    <3> DEFINE x == [b.wan[i] EXCEPT !.ip = @ \cup {f}]
    <3>1. b.wan[i] \in SeenSet /\ WanOK(b.wan[i], i) /\ b.wan[i].ip = net[i].addrs
          /\ b.wan[i].neigh = net[i].neigh
      BY <1>2, <2>1 DEF Views, ViewOK, Final
    <3>2. /\ x \in SeenSet /\ x.ip = b.wan[i].ip \cup {f} /\ x.neigh = b.wan[i].neigh
          /\ x.isGw = b.wan[i].isGw /\ x.active = b.wan[i].active
          /\ Held(x) = Held(b.wan[i]) /\ Wait(x) = Wait(b.wan[i])
      BY <2>1, <3>1, AddressFacts
    <3>3. i \in b.inst
      BY <1>2, <1>4, <2>1 DEF Final
    <3>4. d = [b EXCEPT !.wan[i] = x]
      BY <3>3 DEF Step, Ev
    <3> HIDE DEF x, d
    <3>5. d \in Views /\ d.inst = b.inst /\ d.wan[i] = x
          /\ \A j \in Uplinks : j # i => d.wan[j] = b.wan[j]
      BY <2>1, <3>2, <3>4, ViewChange
    <3>6. i \in Ifaces /\ \A j \in Uplinks : j \in Ifaces
      BY UplinkKinds
    <3>7. \A j \in Uplinks : j # i => d.wan[j] = b.wan[j] /\ net'[j] = net[j]
      BY <1>4, <3>5, <3>6
    <3>8. net'[i].link = net[i].link /\ d.wan[i].ip = net'[i].addrs /\ d.wan[i].neigh = net'[i].neigh
      BY <1>5, <3>1, <3>2, <3>5, <3>6
    <3> QED
      BY <1>2, <2>1, <3>2, <3>5, <3>7, <3>8, FinalOne
  <2>2. CASE i \notin Uplinks
    <3>1. d = b
      <4>1. i \notin b.inst
        BY <2>2 DEF Views
      <4> QED
        BY <4>1, <2>2, IdleStep DEF Ev
    <3> HIDE DEF d
    <3>2. \A j \in Uplinks : j # i /\ j \in Ifaces
      BY <2>2, UplinkKinds
    <3>3. \A j \in Uplinks : net'[j] = net[j]
      BY <1>4, <3>2
    <3> QED
      BY <1>2, <3>1, <3>3 DEF Final
  <2> QED
    BY <2>1, <2>2
<1>10. want \in WantSet /\ bounds \in [calls : Nat, changes : Nat]
  BY <1>1 DEF TypeOK
<1> HIDE DEF ev
<1> QED
  BY <1>2, <1>3, <1>5, <1>6, <1>7, <1>8, <1>9, <1>10, PostStep DEF d

(* A gateway of a station becomes a known neighbour.                           *)
LEMMA ResolveStep ==
  ASSUME IInv, NEW i \in Stas, NEW f \in Families, Resolve(i, f)
  PROVE  IInv'
<1>1. TypeOK /\ HalOK(env, net, ipacm, call, want)
  BY DEF IInv
<1>2. PICK b \in Views : /\ ViewOK(env, b) /\ Leads(env, View(ipacm), ipacm.ext, b)
                         /\ Final(env, net, ipacm.gw, ipacm.up, want, b)
                         /\ Busy(ipacm, call) => NoWait(b)
  BY PathEnd
<1>0. i \in Uplinks /\ i \in Ifaces /\ i \notin Modems /\ \A j \in Uplinks : j \in Ifaces
  BY UplinkKinds
<1> DEFINE ev == Ev("neighbour", i, f)
           d == Step(b, ev)
           x == NeighW(b.wan[i], i, f)
<1>3. Post(ev) /\ UNCHANGED <<file, call, want, bounds, env>>
  BY DEF Resolve
<1>4. net \in [Ifaces -> NetSet] /\ net' = [net EXCEPT ![i].neigh = @ \cup {f}]
      /\ f \in net[i].addrs
  BY <1>1 DEF Resolve, TypeOK
<1>5. /\ net' \in [Ifaces -> NetSet]
      /\ \A j \in Ifaces : net'[j].link = net[j].link /\ net'[j].addrs = net[j].addrs
                           /\ net'[j].neigh = IF j = i THEN net[j].neigh \cup {f} ELSE net[j].neigh
  BY <1>0, <1>4 DEF NetSet
<1>6. NetOK(env, net')
  BY <1>1, <1>4, <1>5 DEF HalOK, NetOK
<1>7. WantOK(env, net', want)
  BY <1>0, <1>1, <1>5 DEF HalOK, WantOK
<1>8. ev \in ExtEvents /\ Guard(env, b, ev)
  BY <1>0, UplinkKinds DEF ExtEvents, Ev, Guard
<1>9. Final(env, net', ipacm.gw, ipacm.up, want, d) /\ (NoWait(b) => NoWait(d))
  <2>1. b.wan[i] \in SeenSet /\ WanOK(b.wan[i], i) /\ b.wan[i].ip = net[i].addrs
        /\ b.wan[i].neigh = net[i].neigh
    BY <1>0, <1>2 DEF Views, ViewOK, Final
  <2>2. x \in SeenSet /\ x.ip = b.wan[i].ip
    BY <2>1, NeighWFacts
  <2>3. \A h \in Families : h \in x.neigh <=> h \in b.wan[i].neigh \/ h = f
    BY <2>1, NeighWFacts
  <2>4. \A h \in Families : h \in Held(x) => h \in Held(b.wan[i])
    BY <2>1, NeighWFacts
  <2>5. \A h \in Families : h \in Wait(x) => h \in Wait(b.wan[i])
    BY <2>1, NeighWFacts
  <2>6. \A h \in Families :
          h \in Held(b.wan[i]) /\ (Wait(b.wan[i]) = {} \/ "v6" \notin b.wan[i].ip) => h \in Held(x)
    BY <2>1, NeighWFacts
  <2>7. i \in b.inst
    <3>1. net[i] \in NetSet /\ net[i].addrs # {}
      BY <1>0, <1>4
    <3>2. net[i].link = TRUE
      BY <1>0, <1>1, <3>1 DEF HalOK, NetOK, NetSet
    <3> QED
      BY <1>0, <1>2, <3>2 DEF Final
  <2>8. d = [b EXCEPT !.wan[i] = x]
    BY <2>7 DEF Step, Ev
  <2> HIDE DEF x, d
  <2>9. d \in Views /\ d.inst = b.inst /\ d.wan[i] = x
        /\ \A j \in Uplinks : j # i => d.wan[j] = b.wan[j]
    BY <1>0, <2>2, <2>8, ViewChange
  <2>10. \A j \in Uplinks : j # i => d.wan[j] = b.wan[j] /\ net'[j] = net[j]
    BY <1>0, <1>4, <2>9
  <2>11. net'[i].link = net[i].link /\ d.wan[i].ip = net'[i].addrs
    BY <1>0, <1>5, <2>1, <2>2, <2>9
  <2>12. d.wan[i].neigh = net'[i].neigh
    <3>1. x.neigh \in SUBSET Families /\ b.wan[i].neigh \in SUBSET Families
      BY <2>1, <2>2 DEF SeenSet
    <3>2. x.neigh = b.wan[i].neigh \cup {f}
      BY <2>3, <3>1
    <3> QED
      BY <1>0, <1>5, <2>1, <2>9, <3>2
  <2>13. ipacm.gw = i /\ ipacm.gw = want.iface /\ want.lost = FALSE =>
           \A h \in Families : h \in Held(b.wan[i]) => h \in Held(x)
    <3>1. "v6" \notin env => "v6" \notin b.wan[i].ip
      BY <1>0, <1>1, <2>1 DEF HalOK, NetOK
    <3>2. ipacm.gw = i /\ ipacm.gw = want.iface /\ want.lost = FALSE /\ "v6" \in env
            => Wait(b.wan[i]) = {}
      BY <1>0, <1>2 DEF Final
    <3> QED
      BY <2>6, <3>1, <3>2
  <2> QED
    BY <1>0, <1>2, <2>4, <2>5, <2>9, <2>10, <2>11, <2>12, <2>13, FinalOne
<1>10. want \in WantSet /\ bounds \in [calls : Nat, changes : Nat]
  BY <1>1 DEF TypeOK
<1> HIDE DEF ev
<1> QED
  BY <1>2, <1>3, <1>5, <1>6, <1>7, <1>8, <1>9, <1>10, PostStep DEF d

(* What lost links mean to the kernel and to the framework.                    *)
Lost(fallen, m, w) ==
  /\ m = [i \in Ifaces |-> IF i \in fallen THEN Down ELSE net[i]]
  /\ \E D \in SUBSET Families :
       w = [want EXCEPT !.lost = @ \/ want.iface \in fallen, !.down = D]

(* After a loss the kernel and the framework agree on what is there.         *)
LEMMA LostFacts ==
  ASSUME IInv, Copes(env), NEW fallen \in SUBSET Ifaces, "losses" \in env \/ "ssr" \in env,
         Undisturbed, NEW m, NEW w, Lost(fallen, m, w)
  PROVE  /\ call = NoCall /\ m \in [Ifaces -> NetSet] /\ NetOK(env, m)
         /\ w \in WantSet /\ w.iface = want.iface /\ w.fams = want.fams /\ WantOK(env, m, w)
         /\ w.lost = FALSE => want.lost = FALSE /\ want.iface \notin fallen
<1>1. TypeOK /\ HalOK(env, net, ipacm, call, want)
  BY DEF IInv
<1>2. call = NoCall
  BY DEF Undisturbed, Copes
<1>10. PICK D \in SUBSET Families :
          w = [want EXCEPT !.lost = @ \/ want.iface \in fallen, !.down = D]
  BY DEF Lost
<1>11. m = [i \in Ifaces |-> IF i \in fallen THEN Down ELSE net[i]]
  BY DEF Lost
<1>3. Down \in NetSet
  BY DEF Down, NetSet
<1>4. m \in [Ifaces -> NetSet]
  BY <1>1, <1>3, <1>11 DEF TypeOK
<1>5. NetOK(env, m)
  BY <1>1, <1>11 DEF HalOK, NetOK, Down
<1>6. want \in WantSet
  BY <1>1 DEF TypeOK
<1>7. w \in WantSet /\ w.iface = want.iface /\ w.fams = want.fams
      /\ (w.lost = TRUE <=> want.lost = TRUE \/ want.iface \in fallen)
  BY <1>6, <1>10 DEF WantSet
<1>8. w.lost = FALSE => want.lost = FALSE /\ want.iface \notin fallen
  BY <1>6, <1>7 DEF WantSet
<1>9. WantOK(env, m, w)
  BY <1>1, <1>7, <1>8, <1>11, UplinkKinds DEF HalOK, WantOK
<1> QED
  BY <1>2, <1>4, <1>5, <1>7, <1>8, <1>9

(* The links of S were lost: their uplinks are gone, the others untouched.     *)
Fell(b, c, S) ==
  /\ c \in Views
  /\ \A j \in Uplinks : j \in S => j \notin c.inst /\ c.wan[j] = Seen(NoWan)
  /\ \A j \in Uplinks : j \notin S => c.wan[j] = b.wan[j] /\ (j \in c.inst <=> j \in b.inst)

(* One link goes down.                                                       *)
LEMMA FallOne ==
  ASSUME NEW b \in Views, ViewOK(env, b), NEW i \in Ifaces
  PROVE  Fell(b, Step(b, Ev("linkDown", i, "v4")), {i}) /\ Ev("linkDown", i, "v4") \in ExtEvents
<1> DEFINE ev == Ev("linkDown", i, "v4")
           d == Step(b, ev)
<1>1. ev \in ExtEvents
  BY UplinkKinds DEF ExtEvents, Ev, Families
<1>2. CASE i \in b.inst
  <2>1. i \in Uplinks /\ b.wan \in [Uplinks -> SeenSet] /\ b.inst \in SUBSET Uplinks
    BY <1>2 DEF Views
  <2>2. d = [b EXCEPT !.inst = @ \ {i}, !.wan[i] = Seen(NoWan)]
    BY <1>2 DEF Step, Ev
  <2>3. [b.wan EXCEPT ![i] = Seen(NoWan)] \in [Uplinks -> SeenSet]
    BY <2>1, NoWanFacts
  <2>4. d.inst = b.inst \ {i} /\ d.wan = [b.wan EXCEPT ![i] = Seen(NoWan)] /\ d \in Views
    BY <2>1, <2>2, <2>3 DEF Views
  <2> HIDE DEF d
  <2>5. Fell(b, d, {i})
    BY <2>1, <2>4 DEF Fell
  <2> QED
    BY <1>1, <2>5 DEF d
<1>3. CASE i \notin b.inst
  <2>1. d = b
    BY <1>3, IdleStep DEF Ev
  <2>2. i \in Uplinks => b.wan[i] = Seen(NoWan)
    BY <1>3 DEF ViewOK
  <2> HIDE DEF d
  <2>3. Fell(b, d, {i})
    BY <1>3, <2>1, <2>2 DEF Fell
  <2> QED
    BY <1>1, <2>3 DEF d
<1> QED
  BY <1>2, <1>3

(* Only routes are lost. *)
LEMMA FellFinal ==
  ASSUME NEW b \in Views, NEW d, NEW fallen, Fell(b, d, fallen),
         Final(env, net, ipacm.gw, ipacm.up, want, b), NEW m, NEW w,
         m = [j \in Ifaces |-> IF j \in fallen THEN Down ELSE net[j]],
         w.iface = want.iface, w.lost = FALSE => want.lost = FALSE /\ want.iface \notin fallen
  PROVE  Final(env, m, ipacm.gw, ipacm.up, w, d) /\ (NoWait(b) => NoWait(d))
<1>1. \A j \in Uplinks : j \in Ifaces
  BY UplinkKinds
<1>2. \A j \in Uplinks : (j \in d.inst <=> m[j].link = TRUE)
                         /\ d.wan[j].ip = m[j].addrs /\ d.wan[j].neigh = m[j].neigh
  <2>1. SUFFICES ASSUME NEW j \in Uplinks
                 PROVE  (j \in d.inst <=> m[j].link = TRUE)
                        /\ d.wan[j].ip = m[j].addrs /\ d.wan[j].neigh = m[j].neigh
    OBVIOUS
  <2>2. CASE j \in fallen
    <3>1. m[j] = Down /\ j \notin d.inst /\ d.wan[j] = Seen(NoWan)
      BY <1>1, <2>2 DEF Fell
    <3>2. Seen(NoWan).ip = {} /\ Seen(NoWan).neigh = {}
      BY NoWanFacts
    <3>3. Down.link = FALSE /\ Down.addrs = {} /\ Down.neigh = {}
      BY DEF Down
    <3>4. m[j].link = FALSE /\ m[j].addrs = {} /\ m[j].neigh = {}
      BY <3>1, <3>3
    <3> QED
      BY <3>1, <3>2, <3>4
  <2>3. CASE j \notin fallen
    <3>1. m[j] = net[j] /\ d.wan[j] = b.wan[j] /\ (j \in d.inst <=> j \in b.inst)
      BY <1>1, <2>3 DEF Fell
    <3> QED
      BY <3>1 DEF Final
  <2> QED
    BY <2>2, <2>3
<1>3. \A j \in Uplinks : d.wan[j] = b.wan[j]
                         \/ (Held(d.wan[j]) = {} /\ Wait(d.wan[j]) = {} /\ d.wan[j].isGw = FALSE
                             /\ d.wan[j].active = {})
  BY NoWanFacts DEF Fell
<1>4. HeldBy(d, ipacm.gw, ipacm.up)
  BY <1>3 DEF Final, HeldBy
<1>5. ipacm.gw \in Uplinks /\ ipacm.gw = w.iface /\ w.lost = FALSE =>
        ipacm.up \subseteq Held(d.wan[ipacm.gw]) /\ ("v6" \in env => Wait(d.wan[ipacm.gw]) = {})
  BY DEF Final, Fell
<1>6. "narrow" \notin env => Gate(d)
  <2>1. \A j \in Modems : j \in Uplinks
    BY UplinkKinds
  <2> QED
    BY <1>3, <2>1 DEF Final, Gate
<1>7. NoWait(b) => NoWait(d)
  BY <1>3 DEF NoWait
<1> QED
  BY <1>2, <1>4, <1>5, <1>6, <1>7 DEF Final

(* A link goes down. *)
LEMMA LoseStep ==
  ASSUME IInv, Copes(env), NEW i \in Ifaces, Lose(i)
  PROVE  IInv'
<1>1. TypeOK
  BY DEF IInv
<1>2. PICK b \in Views : /\ ViewOK(env, b) /\ Leads(env, View(ipacm), ipacm.ext, b)
                         /\ Final(env, net, ipacm.gw, ipacm.up, want, b)
                         /\ Busy(ipacm, call) => NoWait(b)
  BY PathEnd
<1> DEFINE ev == Ev("linkDown", i, "v4")
           d == Step(b, ev)
           D == IF i = Ap THEN {} ELSE want.down
           m == [j \in Ifaces |-> IF j \in {i} THEN Down ELSE net[j]]
           w == [want EXCEPT !.lost = @ \/ want.iface \in {i}, !.down = D]
<1>3. /\ Post(ev) /\ UNCHANGED <<file, call, env>> /\ Undisturbed /\ "losses" \in env
      /\ bounds' = [bounds EXCEPT !.changes = @ + 1]
  BY DEF Lose, Change, Calm
<1>4. net' = m
  BY <1>1 DEF Lose, TypeOK
<1>5. want' = w
  <2>1. (i = want.iface) <=> (want.iface \in {i})
    OBVIOUS
  <2>2. want' = [want EXCEPT !.lost = @ \/ i = want.iface, !.down = IF i = Ap THEN {} ELSE @]
    BY DEF Lose
  <2>3. (want.lost \/ i = want.iface) = (want.lost \/ want.iface \in {i})
    BY <2>1
  <2> QED
    BY <2>2, <2>3
<1>6. D \in SUBSET Families
  BY <1>1 DEF TypeOK, WantSet
<1>12. m = [j \in Ifaces |-> IF j \in {i} THEN Down ELSE net[j]]
  OBVIOUS
<1>13. Lost({i}, m, w)
  BY <1>6, <1>12 DEF Lost
<1>14. {i} \in SUBSET Ifaces
  OBVIOUS
<1> HIDE DEF D, m, w
<1>7. /\ call = NoCall /\ m \in [Ifaces -> NetSet] /\ NetOK(env, m)
      /\ w \in WantSet /\ w.iface = want.iface /\ w.fams = want.fams /\ WantOK(env, m, w)
      /\ w.lost = FALSE => want.lost = FALSE /\ want.iface \notin {i}
  BY <1>3, <1>13, <1>14, LostFacts
<1>8. Fell(b, d, {i}) /\ ev \in ExtEvents
  BY <1>2, FallOne
<1>9. Guard(env, b, ev)
  <2>1. Steady(env) => Gate(b)
    BY <1>2, <1>3 DEF Steady, Final
  <2> QED
    BY <2>1 DEF Guard, Ev
<1> HIDE DEF ev, d
<1>10. Final(env, m, ipacm.gw, ipacm.up, w, d) /\ (NoWait(b) => NoWait(d))
  BY <1>2, <1>7, <1>8, <1>12, FellFinal
<1>11. bounds' \in [calls : Nat, changes : Nat]
  BY <1>1, <1>3 DEF TypeOK
<1> QED
  BY <1>2, <1>3, <1>4, <1>5, <1>7, <1>8, <1>9, <1>10, <1>11, PostStep DEF d

(* SetToSeq goes through all of a finite set.                                  *)
LEMMA SetToSeqFacts ==
  ASSUME NEW S, IsFiniteSet(S)
  PROVE  /\ Cardinality(S) \in Nat
         /\ SetToSeq(S) \in [1 .. Cardinality(S) -> S]
         /\ \A x \in S : \E n \in 1 .. Cardinality(S) : SetToSeq(S)[n] = x
<1> DEFINE N == Cardinality(S)
           sq == SetToSeq(S)
<1>1. N \in Nat /\ ExistsBijection(1 .. N, S)
  BY FS_CardinalityType
<1> HIDE DEF N
<1>2. \E g \in [1 .. N -> S] : IsInjective(g)
  BY <1>1 DEF ExistsBijection, Bijection, Injection
<1>3. sq \in [1 .. N -> S] /\ IsInjective(sq)
  BY <1>2 DEF SetToSeq, N
<1>4. sq \in Injection(1 .. N, S)
  BY <1>3 DEF Injection
<1> HIDE DEF sq
<1>5. Cardinality(1 .. N) = N
  BY <1>1, FS_Interval
<1>6. sq \in Surjection(1 .. N, S)
  BY <1>4, <1>5, FS_Injection DEF N
<1>7. \A x \in S : \E n \in 1 .. N : sq[n] = x
  BY <1>6 DEF Surjection
<1> QED
  BY <1>1, <1>3, <1>7 DEF N, sq

(* Several links go down, one event after the other.                           *)
FallEvents(sq, n) == [m \in 1 .. n |-> Ev("linkDown", sq[m], "v4")]
FallSet(sq, n) == {sq[m] : m \in 1 .. n}

(* One link more goes down.                                                  *)
LEMMA FallMore ==
  ASSUME NEW N \in Nat, NEW sq \in [1 .. N -> Ifaces], NEW n \in Nat, n + 1 \in 1 .. N,
         NEW q \in Seq(ExtEvents)
  PROVE  /\ q \o FallEvents(sq, n) \in Seq(ExtEvents)
         /\ q \o FallEvents(sq, n + 1)
              = Append(q \o FallEvents(sq, n), Ev("linkDown", sq[n + 1], "v4"))
         /\ FallSet(sq, n + 1) = FallSet(sq, n) \cup {sq[n + 1]}
<1>1. \A m \in 1 .. N : Ev("linkDown", sq[m], "v4") \in ExtEvents
  BY UplinkKinds DEF ExtEvents, Ev, Families
<1>2. FallEvents(sq, n) \in Seq(ExtEvents)
  BY <1>1 DEF FallEvents
<1>3. FallEvents(sq, n + 1) = Append(FallEvents(sq, n), Ev("linkDown", sq[n + 1], "v4"))
  BY DEF FallEvents
<1>4. FallSet(sq, n + 1) = FallSet(sq, n) \cup {sq[n + 1]}
  BY DEF FallSet
<1> HIDE DEF FallEvents
<1>5. q \o FallEvents(sq, n) \in Seq(ExtEvents)
  BY <1>2
<1>6. Ev("linkDown", sq[n + 1], "v4") \in ExtEvents
  BY <1>1
<1>7. q \o Append(FallEvents(sq, n), Ev("linkDown", sq[n + 1], "v4"))
        = Append(q \o FallEvents(sq, n), Ev("linkDown", sq[n + 1], "v4"))
  BY <1>2, <1>6
<1> QED
  BY <1>3, <1>4, <1>5, <1>7

(* Links are lost one after the other.                                       *)
LEMMA FellTrans ==
  ASSUME NEW b, NEW c, NEW d, NEW S, NEW T, Fell(b, c, S), Fell(c, d, T)
  PROVE  Fell(b, d, S \cup T)
<1>1. d \in Views
  BY DEF Fell
<1>2. ASSUME NEW j \in Uplinks, j \in S \cup T
      PROVE  j \notin d.inst /\ d.wan[j] = Seen(NoWan)
  BY <1>2 DEF Fell
<1>3. ASSUME NEW j \in Uplinks, j \notin S \cup T
      PROVE  d.wan[j] = b.wan[j] /\ (j \in d.inst <=> j \in b.inst)
  BY <1>3 DEF Fell
<1> QED
  BY <1>1, <1>2, <1>3 DEF Fell

(* Several links go down.                                                    *)
LEMMA FallMany ==
  ASSUME NEW N \in Nat, NEW sq \in [1 .. N -> Ifaces], \A m \in 1 .. N : sq[m] \notin Modems,
         NEW q \in Seq(ExtEvents), NEW a, NEW b \in Views, ViewOK(env, b), Leads(env, a, q, b)
  PROVE  \E d \in Views : Leads(env, a, q \o FallEvents(sq, N), d) /\ Fell(b, d, FallSet(sq, N))
<1> DEFINE Good(n, d) == Leads(env, a, q \o FallEvents(sq, n), d) /\ ViewOK(env, d)
                         /\ Fell(b, d, FallSet(sq, n))
           P == {n \in Nat : n <= N => \E d \in Views : Good(n, d)}
<1>1. 0 \in P
  <2>1. FallEvents(sq, 0) = <<>> /\ FallSet(sq, 0) = {}
    BY DEF FallEvents, FallSet
  <2>2. q \o FallEvents(sq, 0) = q
    BY <2>1
  <2>3. Fell(b, b, {})
    BY DEF Fell
  <2> QED
    BY <2>1, <2>2, <2>3
<1>2. ASSUME NEW n \in Nat, n \in P
      PROVE  n + 1 \in P
  <2> SUFFICES ASSUME n + 1 <= N
               PROVE  \E d \in Views : Good(n + 1, d)
    OBVIOUS
  <2>1. PICK c \in Views : Good(n, c)
    BY <1>2
  <2> DEFINE ev == Ev("linkDown", sq[n + 1], "v4")
             d == Step(c, ev)
  <2>2. n + 1 \in 1 .. N
    OBVIOUS
  <2>3. sq[n + 1] \in Ifaces /\ sq[n + 1] \notin Modems
    BY <2>2
  <2>4. Fell(c, d, {sq[n + 1]}) /\ ev \in ExtEvents
    BY <2>1, <2>3, FallOne
  <2>5. Guard(env, c, ev)
    BY <2>3 DEF Guard, Ev
  <2>6. /\ q \o FallEvents(sq, n) \in Seq(ExtEvents)
        /\ q \o FallEvents(sq, n + 1) = Append(q \o FallEvents(sq, n), ev)
        /\ FallSet(sq, n + 1) = FallSet(sq, n) \cup {sq[n + 1]}
    BY <2>2, FallMore
  <2>10. ViewOK(env, d)
    BY <2>1, <2>4, <2>5, StepOK
  <2> HIDE DEF ev
  <2>7. Leads(env, a, Append(q \o FallEvents(sq, n), ev), Step(c, ev))
    BY <2>1, <2>4, <2>5, <2>6, LeadsAppend
  <2>8. Fell(b, d, FallSet(sq, n + 1))
    BY <2>1, <2>4, <2>6, FellTrans
  <2>9. d \in Views
    BY <2>4 DEF Fell
  <2> QED
    BY <2>6, <2>7, <2>8, <2>9, <2>10
<1>3. Nat \subseteq P
  <2> HIDE DEF P
  <2> QED
    BY <1>1, <1>2, NaturalSet
<1> QED
  BY <1>3

(* Events behind others leave those where they are.                            *)
LEMMA FirewallsBehind ==
  ASSUME NEW q \in Seq(ExtEvents), NEW r \in Seq(ExtEvents), Firewalls(q)
  PROVE  Firewalls(q \o r)
<1>1. PICK p \in 1 .. Len(q) : q[p].what = "firewall"
  BY DEF Firewalls
<1>2. p \in 1 .. Len(q \o r) /\ (q \o r)[p] = q[p]
  OBVIOUS
<1> QED
  BY <1>1, <1>2 DEF Firewalls

(* What the restart of the Wi-Fi's firmware does, without its order.           *)
LEMMA RestartFacts ==
  ASSUME IInv, Restart
  PROVE  LET fallen == {i \in Stas \cup {Ap} : net[i].link}
             N == Cardinality(fallen)
             sq == SetToSeq(fallen)
         IN  /\ N \in Nat /\ sq \in [1 .. N -> Ifaces] /\ FallSet(sq, N) = fallen
             /\ fallen \in SUBSET Ifaces /\ \A m \in 1 .. N : sq[m] \notin Modems
             /\ ipacm' = [Internal(ipacm, Ev("ssr", NoIface, "v4"))
                            EXCEPT !.ext = @ \o FallEvents(sq, N)]
             /\ Lost(fallen, net', want')
<1> DEFINE fallen == {i \in Stas \cup {Ap} : net[i].link}
           N == Cardinality(fallen)
           sq == SetToSeq(fallen)
<1>1. fallen \subseteq Stas \cup {Ap} /\ IsFiniteSet(fallen)
  <2>1. IsFiniteSet(Stas \cup {Ap})
    BY UpstreamAssumption, FS_AddElement
  <2> QED
    BY <2>1, FS_Subset
<1>2. \A x \in Stas \cup {Ap} : x \in Ifaces /\ x \notin Modems
  BY UplinkKinds, UpstreamAssumption DEF Uplinks
<1>3. Lost(fallen, net', want')
  <2>1. want \in WantSet
    BY DEF IInv, TypeOK
  <2>2. want' = [want EXCEPT !.lost = @ \/ want.iface \in fallen]
    BY DEF Restart
  <2>3. want.down \in SUBSET Families
    BY <2>1 DEF WantSet
  <2>4. want' = [want EXCEPT !.lost = @ \/ want.iface \in fallen, !.down = want.down]
    BY <2>1, <2>2 DEF WantSet
  <2>5. net' = [i \in Ifaces |-> IF i \in fallen THEN Down ELSE net[i]]
    BY DEF Restart
  <2> QED
    BY <2>3, <2>4, <2>5 DEF Lost
<1>4. ipacm' = [Internal(ipacm, Ev("ssr", NoIface, "v4")) EXCEPT !.ext = @ \o FallEvents(sq, N)]
  BY DEF Restart, FallEvents
<1> HIDE DEF fallen
<1>5. N \in Nat /\ sq \in [1 .. N -> fallen] /\ \A x \in fallen : \E n \in 1 .. N : sq[n] = x
  BY <1>1, SetToSeqFacts
<1> HIDE DEF N, sq
<1>6. FallSet(sq, N) = fallen
  BY <1>5 DEF FallSet
<1>7. sq \in [1 .. N -> Ifaces] /\ \A m \in 1 .. N : sq[m] \notin Modems
  BY <1>1, <1>2, <1>5
<1>8. fallen \in SUBSET Ifaces
  BY <1>1, <1>2
<1> QED
  BY <1>3, <1>4, <1>5, <1>6, <1>7, <1>8 DEF fallen, N, sq

(* The firmware of the Wi-Fi restarts.                                         *)
LEMMA RestartStep ==
  ASSUME IInv, Copes(env), Restart
  PROVE  IInv'
<1>1. TypeOK /\ RulesOK
  BY DEF IInv
<1>2. PICK b \in Views : /\ ViewOK(env, b) /\ Leads(env, View(ipacm), ipacm.ext, b)
                         /\ Final(env, net, ipacm.gw, ipacm.up, want, b)
                         /\ Busy(ipacm, call) => NoWait(b)
  BY PathEnd
<1> DEFINE fallen == {i \in Stas \cup {Ap} : net[i].link}
           N == Cardinality(fallen)
           sq == SetToSeq(fallen)
           r == FallEvents(sq, N)
           s == Internal(ipacm, Ev("ssr", NoIface, "v4"))
           t == [s EXCEPT !.ext = @ \o r]
           m == net'
           w == want'
<1>3. /\ N \in Nat /\ sq \in [1 .. N -> Ifaces] /\ FallSet(sq, N) = fallen
      /\ fallen \in SUBSET Ifaces /\ \A k \in 1 .. N : sq[k] \notin Modems
      /\ ipacm' = t /\ Lost(fallen, net', want')
  BY RestartFacts
<1>4. /\ UNCHANGED <<file, call, env>> /\ Undisturbed /\ "ssr" \in env
      /\ bounds' = [bounds EXCEPT !.changes = @ + 1]
  BY DEF Restart, Change, Calm
<1> HIDE DEF fallen, N, sq
<1>5. r \in Seq(ExtEvents)
  <2>1. \A k \in 1 .. N : Ev("linkDown", sq[k], "v4") \in ExtEvents
    BY <1>3, UplinkKinds DEF ExtEvents, Ev, Families
  <2> QED
    BY <1>3, <2>1 DEF FallEvents
<1>6. PICK d \in Views : Leads(env, View(ipacm), ipacm.ext \o r, d) /\ Fell(b, d, fallen)
  <2>1. ipacm.ext \in Seq(ExtEvents)
    BY <1>1 DEF TypeOK, IpacmSet
  <2> QED
    BY <1>2, <1>3, <2>1, FallMany
<1> HIDE DEF r
<1>7. /\ call = NoCall /\ net' \in [Ifaces -> NetSet] /\ NetOK(env, net')
      /\ want' \in WantSet /\ want'.iface = want.iface /\ want'.fams = want.fams
      /\ WantOK(env, net', want')
      /\ want'.lost = FALSE => want.lost = FALSE /\ want.iface \notin fallen
  BY <1>3, <1>4, LostFacts
<1>8. Final(env, net', ipacm.gw, ipacm.up, want', d) /\ (NoWait(b) => NoWait(d))
  <2>1. net' = [j \in Ifaces |-> IF j \in fallen THEN Down ELSE net[j]]
    BY <1>3 DEF Lost
  <2> QED
    BY <1>2, <1>6, <1>7, <2>1, FellFinal
<1>9. /\ t \in IpacmSet /\ t.gw = ipacm.gw /\ t.up = ipacm.up /\ t.cache = ipacm.cache
      /\ t.nat = ipacm.nat /\ t.wans = ipacm.wans /\ t.wan = ipacm.wan /\ t.wanUp = ipacm.wanUp
      /\ t.ext = ipacm.ext \o r /\ ipacm.ext \in Seq(ExtEvents)
  <2>1. ipacm \in IpacmSet
    BY <1>1 DEF TypeOK
  <2>2. Ev("ssr", NoIface, "v4") \in IntEvents
    BY DEF IntEvents, Ev, Families
  <2> HIDE DEF t
  <2>3. t = [ipacm EXCEPT !.int = Append(@, Ev("ssr", NoIface, "v4")), !.ext = @ \o r]
    BY <2>1 DEF t, Internal, IpacmSet
  <2>4. Append(ipacm.int, Ev("ssr", NoIface, "v4")) \in Seq(IntEvents)
    BY <2>1, <2>2 DEF IpacmSet
  <2>5. ipacm.ext \o r \in Seq(ExtEvents) /\ ipacm.ext \in Seq(ExtEvents)
    BY <1>5, <2>1 DEF IpacmSet
  <2> QED
    BY <2>1, <2>3, <2>4, <2>5 DEF IpacmSet
<1> HIDE DEF t
<1>10. Firewalls(ipacm.ext) => Firewalls(t.ext)
  BY <1>5, <1>9, FirewallsBehind
<1>11. RulesOK'
  BY <1>1, <1>3, <1>4, <1>9, <1>10, RulesKept
<1>12. file' \in Nat /\ bounds' \in [calls : Nat, changes : Nat]
  BY <1>1, <1>4 DEF TypeOK
<1>13. Leads(env, View(ipacm), t.ext, d)
  BY <1>6, <1>9
<1>14. Busy(ipacm, call) => NoWait(d)
  BY <1>2, <1>8
<1> QED
  BY <1>3, <1>4, <1>7, <1>8, <1>9, <1>11, <1>12, <1>13, <1>14, KernelDone

-----------------------------------------------------------------------------
(* The theorems. *)

(* A step that changes nothing. *)
LEMMA StutterStep ==
  ASSUME IInv, UNCHANGED vars
  PROVE  IInv'
<1>1. /\ net' = net /\ file' = file /\ ipacm' = ipacm /\ call' = call /\ want' = want
      /\ bounds' = bounds /\ env' = env
  BY DEF vars
<1>2. TypeOK' /\ HalOK(env, net, ipacm, call, want)' /\ PathOK(env, net, ipacm, call, want)'
  BY <1>1 DEF IInv, TypeOK
<1>3. RulesOK'
  BY <1>1, RulesKept DEF IInv
<1> QED
  BY <1>2, <1>3 DEF IInv

(* Every step keeps the invariant, in every environment the code copes with.   *)
LEMMA InvStep ==
  ASSUME IInv, Copes(env), [Next]_vars
  PROVE  IInv'
<1>1. CASE Process
  BY <1>1, ProcessStep
<1>2. CASE Act
  BY <1>2, ActStep
<1>3. CASE removeUpstream
  BY <1>3, RemoveStep
<1>4. CASE stopOffload
  BY <1>4, StopStep
<1>5. CASE Restart
  BY <1>5, RestartStep
<1>6. CASE Rewrite
  BY <1>6, RewriteStep
<1>7. ASSUME NEW i \in Uplinks, NEW fams \in SUBSET Families, setUpstreamParameters(i, fams)
      PROVE  IInv'
  BY <1>7, SetStep
<1>8. ASSUME NEW f \in Families, addDownstream(f) \/ removeDownstream(f)
      PROVE  IInv'
  BY <1>8, DownstreamStep
<1>9. ASSUME NEW f \in Families, NEW i \in Ifaces, Address(i, f)
      PROVE  IInv'
  BY <1>9, AddressStep
<1>10. ASSUME NEW f \in Families, NEW i \in Stas, Resolve(i, f)
       PROVE  IInv'
  BY <1>10, ResolveStep
<1>11. ASSUME NEW i \in Ifaces, Raise(i)
       PROVE  IInv'
  BY <1>11, RaiseStep
<1>12. ASSUME NEW i \in Ifaces, Lose(i)
       PROVE  IInv'
  BY <1>12, LoseStep
<1>13. CASE UNCHANGED vars
  BY <1>13, StutterStep
<1> QED
  BY <1>1, <1>2, <1>3, <1>4, <1>5, <1>6, <1>7, <1>8, <1>9, <1>10, <1>11, <1>12, <1>13 DEF Next

(* Which environment it is does not change.                                    *)
LEMMA EnvStep ==
  ASSUME [Next]_vars
  PROVE  env' = env
BY DEF Next, vars, Process, Act, removeUpstream, stopOffload, Restart, Rewrite, Change, Call,
       setUpstreamParameters, addDownstream, removeDownstream, Address, Resolve, Raise, Lose

(* The framework's premises: it waits while a call is cached if it calls for   *)
(* interfaces not configured yet, and the like (Copes).                        *)
Cautious == \A e \in Environments : Copes(e)

(* The invariant holds in every reachable state.                               *)
THEOREM Invariance ==
  ASSUME Cautious
  PROVE  Spec => []IInv
<1>1. Init => IInv
  BY InitInv
<1>2. IInv /\ [Next]_vars => IInv'
  <2> SUFFICES ASSUME IInv, [Next]_vars
               PROVE  IInv'
    OBVIOUS
  <2>1. Copes(env)
    BY DEF Cautious, IInv, TypeOK
  <2> QED
    BY <2>1, InvStep
<1> QED
  BY <1>1, <1>2, PTL DEF Spec

(* When nothing is pending the uplinks are what the invariant looks ahead to.  *)
LEMMA QuietEnd ==
  ASSUME IInv, Quiet
  PROVE  LET b == View(ipacm)
         IN  /\ b \in Views /\ ViewOK(env, b) /\ Final(env, net, ipacm.gw, ipacm.up, want, b)
             /\ call = NoCall /\ ipacm.ext = <<>>
             /\ \A i \in Uplinks : b.wan[i] = Seen(ipacm.wan[i])
             /\ \A i \in Uplinks : b.wan[i].active = Carries(i)
<1>1. ipacm \in IpacmSet
  BY DEF IInv, TypeOK
<1>2. ipacm.int \in Seq(IntEvents) /\ ipacm.ext \in Seq(ExtEvents)
  BY <1>1 DEF IpacmSet
<1>3. ipacm.ext = <<>>
  BY <1>2 DEF Quiet
<1>4. PICK b \in Views : /\ ViewOK(env, b) /\ Leads(env, View(ipacm), ipacm.ext, b)
                         /\ Final(env, net, ipacm.gw, ipacm.up, want, b)
  BY PathEnd
<1>5. b = View(ipacm)
  <2>1. Len(ipacm.ext) = 0
    BY <1>3
  <2> QED
    BY <1>4, <2>1 DEF Leads
<1>6. \A i \in Uplinks : View(ipacm).wan[i] = Seen(ipacm.wan[i])
                         /\ View(ipacm).wan[i].active = Carries(i)
  BY DEF View, Seen, Carries
<1> QED
  BY <1>3, <1>4, <1>5, <1>6 DEF Quiet

(* The upstream the framework removed carries nothing any more.                *)
LEMMA RemovedFacts ==
  ASSUME IInv
  PROVE  NothingAfterRemoval
<1> SUFFICES ASSUME Quiet, want.iface = NoIface, NEW i \in Uplinks
             PROVE  Carries(i) = {}
  BY DEF NothingAfterRemoval
<1> DEFINE b == View(ipacm)
<1>1. /\ b \in Views /\ ViewOK(env, b) /\ Final(env, net, ipacm.gw, ipacm.up, want, b)
      /\ call = NoCall /\ b.wan[i].active = Carries(i)
  BY QuietEnd
<1> HIDE DEF b
<1>2. call.what = "none"
  BY <1>1 DEF NoCall
<1>3. AskedOK(env, ipacm, call, want) /\ EntriesOK(env, ipacm, call, want)
  BY DEF IInv, HalOK
<1>4. ~UpEntry(ipacm)
  <2> SUFFICES ASSUME NEW k \in Places, ipacm.cache[k].what = "upstream"
               PROVE  FALSE
    BY DEF UpEntry
  <2>1. ipacm.cache[k].iface = NoIface
    BY <1>2, <1>3 DEF EntriesOK
  <2>2. ipacm.cache[k] \in EntrySet
    BY DEF IInv, TypeOK, IpacmSet
  <2> QED
    BY <2>1, <2>2, UplinkKinds DEF EntrySet, NoEntry
<1>5. ipacm.gw = NoIface
  BY <1>2, <1>3, <1>4 DEF AskedOK, Busy
<1>6. i # NoIface
  BY UplinkKinds
<1>7. \A f \in Families : f \notin Held(b.wan[i])
  BY <1>1, <1>5, <1>6 DEF Final, HeldBy
<1>8. Held(b.wan[i]) \in SUBSET Families /\ b.wan[i].active \subseteq Held(b.wan[i])
  BY <1>1, HeldFacts
<1> QED
  BY <1>1, <1>7, <1>8

(* The framework's upstream carries what it asked for, the others nothing.     *)
LEMMA ServedFacts ==
  ASSUME IInv
  PROVE  Served
<1> SUFFICES ASSUME Quiet, want.iface \in Uplinks, ~want.lost, Reachable(want.iface),
                    NEW i \in Uplinks
             PROVE  Carries(i) = IF i = want.iface THEN want.fams ELSE {}
  BY DEF Served
<1> DEFINE b == View(ipacm)
           x == want.iface
<1>1. /\ b \in Views /\ ViewOK(env, b) /\ Final(env, net, ipacm.gw, ipacm.up, want, b)
      /\ call = NoCall /\ \A j \in Uplinks : b.wan[j].active = Carries(j)
  BY QuietEnd
<1> HIDE DEF b
<1>2. call.what = "none"
  BY <1>1 DEF NoCall
<1>3. AskedOK(env, ipacm, call, want) /\ EntriesOK(env, ipacm, call, want)
  BY DEF IInv, HalOK
<1>4. ~UpEntry(ipacm)
  <2> SUFFICES ASSUME NEW k \in Places, ipacm.cache[k].what = "upstream"
               PROVE  FALSE
    BY DEF UpEntry
  <2>1. /\ ipacm.cache[k].iface = want.iface /\ ipacm.cache[k].fams = want.fams
        /\ ~Configured(ipacm, ipacm.cache[k].iface, ipacm.cache[k].fams)
    BY <1>2, <1>3 DEF EntriesOK
  <2> QED
    BY <2>1 DEF Configured, Reachable
<1>5. ipacm.gw = x /\ ipacm.up = want.fams
  BY <1>2, <1>3, <1>4 DEF AskedOK, Busy
<1>6. \A f \in Families : f \in Held(b.wan[i]) => i = x /\ f \in want.fams
  BY <1>1, <1>5 DEF Final, HeldBy
<1>7. /\ Held(b.wan[i]) \in SUBSET Families /\ b.wan[i].active \subseteq Held(b.wan[i])
      /\ Held(b.wan[i]) = b.wan[i].active \cup Wait(b.wan[i])
  BY <1>1, HeldFacts
<1>8. CASE i # x
  BY <1>1, <1>6, <1>7, <1>8
<1>9. CASE i = x
  <2>1. want.lost = FALSE
    BY DEF IInv, TypeOK, WantSet
  <2>2. want.fams \subseteq Held(b.wan[i])
    BY <1>1, <1>5, <1>9, <2>1 DEF Final
  <2>3. Held(b.wan[i]) = want.fams
    BY <1>6, <1>7, <1>9, <2>2
  <2>4. i \in Stas => Held(b.wan[i]) \subseteq b.wan[i].neigh
    BY <1>1, <1>9, <2>3 DEF Final, Reachable
  <2>5. b.wan[i] \in SeenSet /\ WanOK(b.wan[i], i)
    BY <1>1 DEF Views, ViewOK
  <2>6. Wait(b.wan[i]) = {}
    BY <2>4, <2>5, WaitEmpty
  <2> QED
    BY <1>1, <1>7, <1>9, <2>3, <2>6
<1> QED
  BY <1>8, <1>9

(* The flags and the rules are those of the uplinks, once nothing is pending.  *)
LEMMA RulesFacts ==
  ASSUME IInv, Steady(env)
  PROVE  WanUpAgrees /\ FirewallCurrent
<1>1. FlagsOK(ipacm) /\ (Current(ipacm) \/ Firewalls(ipacm.ext))
  BY DEF IInv, RulesOK
<1>2. WanUpAgrees
  <2> SUFFICES ipacm.wanUp = UNION {Carries(i) : i \in Uplinks}
    BY DEF WanUpAgrees
  <2>1. ipacm.wanUp \in SUBSET Families /\ \A i \in Uplinks : Carries(i) \in SUBSET Families
    BY DEF IInv, TypeOK, IpacmSet, WanSet, Carries
  <2>2. \A f \in Families : f \in ipacm.wanUp <=> \E i \in Uplinks : f \in Carries(i)
    BY <1>1 DEF FlagsOK, Carries
  <2> QED
    BY <2>1, <2>2
<1>3. FirewallCurrent
  <2> SUFFICES ASSUME Quiet, NEW i \in Uplinks, NEW f \in Carries(i)
               PROVE  ipacm.wan[i].rules[f] = file
    BY DEF FirewallCurrent
  <2>1. ~Firewalls(ipacm.ext)
    BY QuietEnd DEF Firewalls
  <2> QED
    BY <1>1, <2>1 DEF Current, Carries
<1> QED
  BY <1>2, <1>3

(* Every variable keeps its type: the queues hold events that exist, the cache *)
(* calls for interfaces that do.                                               *)
THEOREM TypesCorrect ==
  ASSUME Cautious
  PROVE  Spec => []TypeOK
<1>1. IInv => TypeOK
  BY DEF IInv
<1> QED
  BY <1>1, Invariance, PTL

(* When nothing is left to handle, the upstream the framework chose last       *)
(* carries exactly the families it chose and no other interface carries any,   *)
(* whatever happened to links, addresses and neighbours in between.            *)
THEOREM UpstreamServed ==
  ASSUME Cautious
  PROVE  Spec => []Served
<1>1. IInv => Served
  BY ServedFacts
<1> QED
  BY <1>1, Invariance, PTL

(* When nothing is left to handle and the framework has removed the upstream,  *)
(* or stopped offload, no uplink carries traffic.                              *)
THEOREM RemovedCarryNothing ==
  ASSUME Cautious
  PROVE  Spec => []NothingAfterRemoval
<1>1. IInv => NothingAfterRemoval
  BY RemovedFacts
<1> QED
  BY <1>1, Invariance, PTL

(* wan_up and wan_up_v6 say whether some uplink carries the family.            *)
THEOREM FlagsAgree ==
  ASSUME Cautious, \A e \in Environments : Steady(e)
  PROVE  Spec => []WanUpAgrees
<1>1. IInv => WanUpAgrees
  BY RulesFacts DEF IInv, TypeOK
<1> QED
  BY <1>1, Invariance, PTL

(* An uplink that carries a family has the rules of the firewall's file.       *)
THEOREM FirewallIsCurrent ==
  ASSUME Cautious, \A e \in Environments : Steady(e)
  PROVE  Spec => []FirewallCurrent
<1>1. IInv => FirewallCurrent
  BY RulesFacts DEF IInv, TypeOK
<1> QED
  BY <1>1, Invariance, PTL

-----------------------------------------------------------------------------
(* The access point, as it is and as the pending events will leave it.         *)

ApSeen(s) == [on |-> s.ap.on, ip |-> s.ap.ip, down |-> s.ap.down]
ApViews == [on : BOOLEAN, ip : SUBSET Families, down : SUBSET Families]
ApStep(a, ev) ==
  LET f == ev.fam IN
  CASE ev.what = "linkUp" /\ ev.iface = Ap -> [a EXCEPT !.on = TRUE]
    [] ev.what = "address" /\ ev.iface = Ap /\ a.on -> [a EXCEPT !.ip = @ \cup {f}]
    [] ev.what = "linkDown" /\ ev.iface = Ap -> ApSeen([ap |-> NoAp])
    [] ev.what = "downAdd" /\ a.on -> [a EXCEPT !.down = @ \cup {f}]
    [] ev.what = "downDel" -> [a EXCEPT !.down = @ \ {f}]
    [] OTHER -> a
ApOK(a) == a.ip \subseteq All /\ a.down \subseteq a.ip /\ (a.on = FALSE => a.ip = {})
(* A downstream is for an address that is there; an uplink goes while the      *)
(* access point has all of its families or none.                               *)
Whole(S) == S = {} \/ S = All
ApGuard(a, ev) ==
  /\ ev.what = "address" => ev.fam \in All
  /\ ev.what = "downAdd" => ev.fam \in a.ip
  /\ ev.what = "routeDel" \/ (ev.what = "linkDown" /\ ev.iface \in Uplinks) => Whole(a.ip)
(* The events q lead from a to b.                                              *)
ApLeads(a, q, b) ==
  \E v \in [0 .. Len(q) -> ApViews] :
    /\ v[0] = a /\ v[Len(q)] = b
    /\ \A n \in 0 .. Len(q) : ApOK(v[n])
    /\ \A n \in 1 .. Len(q) : ApGuard(v[n - 1], q[n]) /\ v[n] = ApStep(v[n - 1], q[n])

(* Each event leaves the access point's view as it should be.                  *)
LEMMA ApStepOK ==
  ASSUME NEW a \in ApViews, NEW ev \in ExtEvents, ApOK(a), ApGuard(a, ev)
  PROVE  ApStep(a, ev) \in ApViews /\ ApOK(ApStep(a, ev))
<1>1. ev.fam \in Families /\ ev.what \in {"linkUp", "address", "neighbour", "linkDown", "routeAdd",
                                          "routeDel", "downAdd", "downDel", "firewall"}
  BY DEF ExtEvents
<1>2. ApSeen([ap |-> NoAp]) \in ApViews /\ ApOK(ApSeen([ap |-> NoAp]))
  BY DEF ApSeen, NoAp, ApViews, ApOK
<1>3. CASE ev.what = "linkUp" /\ ev.iface = Ap
  <2>1. ApStep(a, ev) = [a EXCEPT !.on = TRUE]
    BY <1>3 DEF ApStep
  <2> QED
    BY <2>1 DEF ApViews, ApOK
<1>4. CASE ev.what = "address" /\ ev.iface = Ap /\ a.on
  <2>1. ApStep(a, ev) = [a EXCEPT !.ip = @ \cup {ev.fam}]
    BY <1>4 DEF ApStep
  <2>2. ev.fam \in All
    BY <1>4 DEF ApGuard
  <2> QED
    BY <2>1, <2>2, <1>1, <1>4 DEF ApViews, ApOK
<1>5. CASE ev.what = "linkDown" /\ ev.iface = Ap
  <2>1. ApStep(a, ev) = ApSeen([ap |-> NoAp])
    BY <1>5 DEF ApStep
  <2> QED
    BY <2>1, <1>2
<1>6. CASE ev.what = "downAdd" /\ a.on
  <2>1. ApStep(a, ev) = [a EXCEPT !.down = @ \cup {ev.fam}]
    BY <1>6 DEF ApStep
  <2>2. ev.fam \in a.ip
    BY <1>6 DEF ApGuard
  <2> QED
    BY <2>1, <2>2, <1>1 DEF ApViews, ApOK
<1>7. CASE ev.what = "downDel"
  <2>1. ApStep(a, ev) = [a EXCEPT !.down = @ \ {ev.fam}]
    BY <1>7 DEF ApStep
  <2> QED
    BY <2>1, <1>1 DEF ApViews, ApOK
<1>8. CASE /\ ~(ev.what = "linkUp" /\ ev.iface = Ap)
           /\ ~(ev.what = "address" /\ ev.iface = Ap /\ a.on)
           /\ ~(ev.what = "linkDown" /\ ev.iface = Ap)
           /\ ~(ev.what = "downAdd" /\ a.on) /\ ev.what # "downDel"
  <2>1. ApStep(a, ev) = a
    BY <1>8 DEF ApStep
  <2> QED
    BY <2>1
<1> QED
  BY <1>3, <1>4, <1>5, <1>6, <1>7, <1>8

(* No event changes nothing.                                                   *)
LEMMA ApLeadsNil ==
  ASSUME NEW a \in ApViews, ApOK(a)
  PROVE  ApLeads(a, <<>>, a)
<1> DEFINE v == [n \in 0 .. 0 |-> a]
<1>1. Len(<<>>) = 0 /\ v \in [0 .. Len(<<>>) -> ApViews] /\ v[0] = a
  OBVIOUS
<1>2. \A n \in 0 .. Len(<<>>) : n = 0
  BY <1>1
<1>3. \A n \in 1 .. Len(<<>>) : FALSE
  BY <1>1
<1> HIDE DEF v
<1> QED
  BY <1>1, <1>2, <1>3 DEF ApLeads

(* The views at both ends are right.                                           *)
LEMMA ApLeadsEnds ==
  ASSUME NEW a, NEW b, NEW q \in Seq(ExtEvents), ApLeads(a, q, b)
  PROVE  a \in ApViews /\ b \in ApViews /\ ApOK(a) /\ ApOK(b)
<1>1. PICK v \in [0 .. Len(q) -> ApViews] :
        /\ v[0] = a /\ v[Len(q)] = b
        /\ \A n \in 0 .. Len(q) : ApOK(v[n])
  BY DEF ApLeads
<1>2. Len(q) \in Nat /\ 0 \in 0 .. Len(q) /\ Len(q) \in 0 .. Len(q)
  OBVIOUS
<1> QED
  BY <1>1, <1>2

(* One more event at the end.                                                  *)
LEMMA ApLeadsAppend ==
  ASSUME NEW a, NEW b, NEW q \in Seq(ExtEvents), NEW ev \in ExtEvents,
         ApLeads(a, q, b), ApGuard(b, ev)
  PROVE  ApLeads(a, Append(q, ev), ApStep(b, ev))
<1>1. PICK v \in [0 .. Len(q) -> ApViews] :
        /\ v[0] = a /\ v[Len(q)] = b
        /\ \A n \in 0 .. Len(q) : ApOK(v[n])
        /\ \A n \in 1 .. Len(q) : ApGuard(v[n - 1], q[n]) /\ v[n] = ApStep(v[n - 1], q[n])
  BY DEF ApLeads
<1> DEFINE r == Append(q, ev)
           c == ApStep(b, ev)
           u == [n \in 0 .. Len(q) + 1 |-> IF n = Len(q) + 1 THEN c ELSE v[n]]
<1>2. r \in Seq(ExtEvents) /\ Len(r) = Len(q) + 1 /\ Len(q) \in Nat
      /\ r[Len(q) + 1] = ev /\ \A n \in 1 .. Len(q) : r[n] = q[n]
  BY AppendElems
<1>3. b \in ApViews /\ ApOK(b)
  BY ApLeadsEnds
<1>4. c \in ApViews /\ ApOK(c)
  BY <1>3, ApStepOK
<1> HIDE DEF r, c
<1>5. u \in [0 .. Len(r) -> ApViews]
  BY <1>1, <1>2, <1>4
<1>6. u[Len(q) + 1] = c /\ \A n \in 0 .. Len(q) : u[n] = v[n]
  BY <1>2
<1> HIDE DEF u
<1>7. u[0] = a /\ u[Len(r)] = c
  BY <1>1, <1>2, <1>6
<1>8. ASSUME NEW n \in 0 .. Len(r) PROVE ApOK(u[n])
  BY <1>1, <1>2, <1>4, <1>6
<1>9. ASSUME NEW n \in 1 .. Len(r) PROVE ApGuard(u[n - 1], r[n]) /\ u[n] = ApStep(u[n - 1], r[n])
  <2>1. CASE n = Len(q) + 1
    <3>1. u[n - 1] = b /\ r[n] = ev /\ u[n] = c
      BY <2>1, <1>1, <1>2, <1>6
    <3> QED
      BY <3>1 DEF c
  <2>2. CASE n # Len(q) + 1
    <3>1. n \in 1 .. Len(q) /\ n - 1 \in 0 .. Len(q) /\ n \in 0 .. Len(q)
      BY <2>2, <1>2
    <3> QED
      BY <3>1, <1>1, <1>2, <1>6
  <2> QED
    BY <2>1, <2>2
<1>10. ApLeads(a, r, c)
  BY <1>5, <1>7, <1>8, <1>9 DEF ApLeads
<1> QED
  BY <1>10 DEF r, c

(* The first event is handled.                                                 *)
LEMMA ApLeadsTail ==
  ASSUME NEW a, NEW b, NEW q \in Seq(ExtEvents), q # <<>>, ApLeads(a, q, b)
  PROVE  ApGuard(a, Head(q)) /\ ApLeads(ApStep(a, Head(q)), Tail(q), b)
<1>1. PICK v \in [0 .. Len(q) -> ApViews] :
        /\ v[0] = a /\ v[Len(q)] = b
        /\ \A n \in 0 .. Len(q) : ApOK(v[n])
        /\ \A n \in 1 .. Len(q) : ApGuard(v[n - 1], q[n]) /\ v[n] = ApStep(v[n - 1], q[n])
  BY DEF ApLeads
<1> DEFINE r == Tail(q)
           u == [n \in 0 .. Len(q) - 1 |-> v[n + 1]]
<1>2. r \in Seq(ExtEvents) /\ Len(r) = Len(q) - 1 /\ Len(q) \in Nat /\ Len(q) >= 1
      /\ Head(q) = q[1] /\ \A n \in 1 .. Len(r) : n + 1 \in 1 .. Len(q) /\ r[n] = q[n + 1]
  BY TailElems
<1> HIDE DEF r
<1>3. \A n \in 0 .. Len(q) - 1 : n + 1 \in 0 .. Len(q)
  BY <1>2
<1>4. u \in [0 .. Len(r) -> ApViews] /\ \A n \in 0 .. Len(r) : u[n] = v[n + 1]
  BY <1>1, <1>2, <1>3
<1> HIDE DEF u
<1>5. ApGuard(a, q[1]) /\ v[1] = ApStep(a, q[1])
  <2>1. 1 \in 1 .. Len(q) /\ 1 - 1 = 0
    BY <1>2
  <2> QED
    BY <2>1, <1>1
<1>6. u[0] = v[1] /\ u[Len(r)] = b
  <2>1. 0 \in 0 .. Len(r) /\ Len(r) \in 0 .. Len(r) /\ Len(r) + 1 = Len(q) /\ 0 + 1 = 1
    BY <1>2
  <2> QED
    BY <2>1, <1>1, <1>4
<1>7. ASSUME NEW n \in 0 .. Len(r) PROVE ApOK(u[n])
  BY <1>1, <1>2, <1>3, <1>4
<1>8. ASSUME NEW n \in 1 .. Len(r) PROVE ApGuard(u[n - 1], r[n]) /\ u[n] = ApStep(u[n - 1], r[n])
  <2>1. n + 1 \in 1 .. Len(q) /\ r[n] = q[n + 1] /\ n \in 0 .. Len(r) /\ n - 1 \in 0 .. Len(r)
        /\ (n + 1) - 1 = n /\ (n - 1) + 1 = n
    BY <1>2
  <2>2. u[n] = v[n + 1] /\ u[n - 1] = v[n]
    BY <2>1, <1>4
  <2>3. ApGuard(v[(n + 1) - 1], q[n + 1]) /\ v[n + 1] = ApStep(v[(n + 1) - 1], q[n + 1])
    BY <2>1, <1>1
  <2> QED
    BY <2>1, <2>2, <2>3
<1>9. ApLeads(v[1], r, b)
  BY <1>4, <1>6, <1>7, <1>8 DEF ApLeads
<1> QED
  BY <1>2, <1>5, <1>9 DEF r

-----------------------------------------------------------------------------
(* What the uplinks tell the access point.                                     *)

News(s) == ToSet(s.int)
(* From s to t the uplink i announced the families that came up, and what it   *)
(* holds determines the mode.                                                  *)
Brings(s, t, i) ==
  /\ News(s) \subseteq News(t)
  /\ \A ev \in News(t) : ev \in News(s) \/ \E f \in t.wanUp : ev = Ev("wanUp", i, f)
  /\ s.wanUp \subseteq t.wanUp
  /\ \A f \in t.wanUp : f \in s.wanUp \/ Ev("wanUp", i, f) \in News(t)
  /\ \/ t.mode = Kind(i)
     \/ t.mode = s.mode /\ News(t) = News(s) /\ Held(t.wan[i]) \subseteq Held(s.wan[i])
  /\ t.wan[i].ip = s.wan[i].ip

(* What is in a queue after something was put at its end.                      *)
LEMMA AppendSet ==
  ASSUME NEW S, NEW q \in Seq(S), NEW m \in S
  PROVE  ToSet(Append(q, m)) = ToSet(q) \cup {m}
<1> DEFINE r == Append(q, m)
<1>1. r \in Seq(S) /\ Len(r) = Len(q) + 1 /\ Len(q) \in Nat
      /\ (\A n \in 1 .. Len(q) : r[n] = q[n]) /\ r[Len(q) + 1] = m
  BY AppendElems
<1> HIDE DEF r
<1>2. ToSet(q) = {q[n] : n \in 1 .. Len(q)} /\ ToSet(r) = {r[n] : n \in 1 .. Len(q) + 1}
  BY <1>1 DEF ToSet
<1>3. ASSUME NEW x PROVE x \in ToSet(r) <=> x \in ToSet(q) \cup {m}
  <2>1. ASSUME x \in ToSet(r) PROVE x \in ToSet(q) \cup {m}
    <3>1. PICK n \in 1 .. Len(q) + 1 : x = r[n]
      BY <2>1, <1>2
    <3> QED
      BY <3>1, <1>1, <1>2
  <2>2. ASSUME x \in ToSet(q) PROVE x \in ToSet(r)
    <3>1. PICK n \in 1 .. Len(q) : x = q[n]
      BY <2>2, <1>2
    <3>2. n \in 1 .. Len(q) + 1
      BY <1>1
    <3> QED
      BY <3>1, <3>2, <1>1, <1>2
  <2>3. m \in ToSet(r)
    BY <1>1, <1>2
  <2> QED
    BY <2>1, <2>2, <2>3
<1> QED
  BY <1>3 DEF r

(* A change of the uplink that gives it nothing.                               *)
LEMMA BringsNothing ==
  ASSUME NEW s \in IpacmSet, NEW i \in Uplinks, NEW w \in WanSet,
         Held(w) \subseteq Held(s.wan[i]), w.ip = s.wan[i].ip
  PROVE  LET t == [s EXCEPT !.wan[i] = w]
         IN  Brings(s, t, i) /\ t \in IpacmSet /\ t.wan[i] = w /\ t.mode = s.mode
<1> DEFINE t == [s EXCEPT !.wan[i] = w]
<1>1. t \in IpacmSet /\ t.wan[i] = w /\ t.wanUp = s.wanUp /\ t.mode = s.mode /\ t.int = s.int
  BY WanChange
<1> HIDE DEF t
<1>2. Brings(s, t, i)
  BY <1>1 DEF Brings, News
<1> QED
  BY <1>1, <1>2 DEF t

(* What is brought adds up.                                                    *)
LEMMA BringsTrans ==
  ASSUME NEW s, NEW t, NEW u, NEW i, Brings(s, t, i), Brings(t, u, i)
  PROVE  Brings(s, u, i)
<1>1. ASSUME NEW ev \in News(u) PROVE ev \in News(s) \/ \E f \in u.wanUp : ev = Ev("wanUp", i, f)
  BY DEF Brings
<1>2. News(s) \subseteq News(u) /\ s.wanUp \subseteq u.wanUp /\ u.wan[i].ip = s.wan[i].ip
  BY DEF Brings
<1>3. \A f \in u.wanUp : f \in s.wanUp \/ Ev("wanUp", i, f) \in News(u)
  BY DEF Brings
<1>4. \/ u.mode = Kind(i)
      \/ u.mode = s.mode /\ News(u) = News(s) /\ Held(u.wan[i]) \subseteq Held(s.wan[i])
  BY DEF Brings
<1> QED
  BY <1>1, <1>2, <1>3, <1>4 DEF Brings

(* A route that comes up, or waits, sets the mode.                             *)
LEMMA RouteUpBrings ==
  ASSUME NEW s \in IpacmSet, NEW i \in Uplinks, NEW f \in Families, file \in Nat
  PROVE  Brings(s, RouteUp(s, i, f), i) /\ RouteUp(s, i, f) \in IpacmSet
<1> DEFINE w == s.wan[i]
           t == RouteUp(s, i, f)
           ev == Ev("wanUp", i, f)
<1>1. /\ w \in WanSet /\ Seen(w) \in SeenSet /\ Seen(w).ip = w.ip
      /\ s.int \in Seq(IntEvents) /\ s.wanUp \in SUBSET Families
  BY SeenFacts DEF IpacmSet
<1>2. t \in IpacmSet /\ Seen(t.wan[i]) = UpW(Seen(w), i, f)
  BY RouteUpFacts DEF Own
<1>3. t.wan[i].ip = w.ip
  <2>1. Seen(t.wan[i]).ip = t.wan[i].ip
    BY <1>2, SeenFacts DEF IpacmSet
  <2>2. UpW(Seen(w), i, f).ip = Seen(w).ip
    BY <1>1 DEF UpW, SeenSet
  <2> QED
    BY <2>1, <2>2, <1>1, <1>2
<1>4. t.mode = Kind(i)
  BY DEF RouteUp, Internal, InstallRules, IpacmSet
<1>5. CASE Kind(i) = "sta" /\ ~w.header
  <2>1. t.int = s.int /\ t.wanUp = s.wanUp
    BY <1>5 DEF RouteUp, IpacmSet
  <2> HIDE DEF t
  <2> QED
    BY <2>1, <1>2, <1>3, <1>4 DEF Brings, News, t
<1>6. CASE ~(Kind(i) = "sta" /\ ~w.header)
  <2>1. t.int = Append(s.int, ev) /\ t.wanUp = s.wanUp \cup {f}
    BY <1>6 DEF RouteUp, Internal, InstallRules, IpacmSet
  <2>2. ev \in IntEvents
    BY UplinkKinds DEF Ev, IntEvents
  <2> HIDE DEF t, ev
  <2>3. News(t) = News(s) \cup {ev}
    BY <2>1, <2>2, <1>1, AppendSet DEF News
  <2>4. \A x \in News(t) : x \in News(s) \/ \E g \in t.wanUp : x = Ev("wanUp", i, g)
    BY <2>1, <2>3 DEF ev
  <2>5. \A g \in t.wanUp : g \in s.wanUp \/ Ev("wanUp", i, g) \in News(t)
    BY <2>1, <2>3 DEF ev
  <2>6. Brings(s, t, i)
    BY <2>1, <2>3, <2>4, <2>5, <1>3, <1>4 DEF Brings
  <2> QED
    BY <2>6, <1>2 DEF t
<1> QED
  BY <1>5, <1>6

(* A complete header brings the routes that waited for it.                     *)
LEMMA StaHeaderBrings ==
  ASSUME NEW s \in IpacmSet, NEW i \in Uplinks, file \in Nat
  PROVE  LET t == StaHeader(s, i)
         IN  /\ Brings(s, t, i) /\ t \in IpacmSet
             /\ Wait(s.wan[i]) = {} => t.mode = s.mode
<1> DEFINE w == s.wan[i]
           t == StaHeader(s, i)
           Hdr(x) == [s EXCEPT !.wan[i].header = x]
<1>1. w \in WanSet
  BY DEF IpacmSet
<1>2. Brings(s, s, i)
  BY DEF Brings
<1>3. ASSUME NEW x \in BOOLEAN, ~w.header
      PROVE  Brings(s, Hdr(x), i) /\ Hdr(x) \in IpacmSet /\ Hdr(x).mode = s.mode
  <2> DEFINE y == [w EXCEPT !.header = x]
  <2>1. y \in WanSet /\ y.ip = w.ip
    BY <1>1 DEF WanSet
  <2>2. Held(y) \subseteq Held(w)
    BY <1>1, <1>3 DEF Held, Wait, WanSet
  <2>3. Hdr(x) = [s EXCEPT !.wan[i] = y]
    BY DEF IpacmSet
  <2> HIDE DEF y, Hdr, w
  <2> QED
    BY <2>1, <2>2, <2>3, BringsNothing DEF w
<1> HIDE DEF Hdr
<1>4. CASE w.header \/ "v4" \in w.gw \ w.neigh
  <2>1. t = s
    BY <1>4 DEF StaHeader
  <2> QED
    BY <2>1, <1>2
<1>5. CASE ~(w.header \/ "v4" \in w.gw \ w.neigh) /\ "v6" \in w.gw \ w.neigh
  <2> DEFINE x == "v4" \in w.gw
  <2>1. t = Hdr(x)
    BY <1>5 DEF StaHeader, Hdr
  <2>2. x \in BOOLEAN
    OBVIOUS
  <2> HIDE DEF x
  <2> QED
    BY <2>1, <2>2, <1>3, <1>5
<1>6. CASE ~(w.header \/ "v4" \in w.gw \ w.neigh) /\ "v6" \notin w.gw \ w.neigh
  <2> DEFINE x == w.gw # {}
             t0 == Hdr(x)
             t4 == IF "v4" \in w.partial THEN RouteUp(t0, i, "v4") ELSE t0
             t6 == IF "v6" \in w.partial THEN RouteUp(t4, i, "v6") ELSE t4
  <2>1. t = t6
    BY <1>6 DEF StaHeader, ForEach, Hdr
  <2>2. x \in BOOLEAN
    OBVIOUS
  <2> HIDE DEF x
  <2>3. Brings(s, t0, i) /\ t0 \in IpacmSet /\ t0.mode = s.mode
    BY <2>2, <1>3, <1>6
  <2> HIDE DEF t0
  <2>4. Brings(s, t4, i) /\ t4 \in IpacmSet
    <3>1. Brings(t0, RouteUp(t0, i, "v4"), i) /\ RouteUp(t0, i, "v4") \in IpacmSet
      BY <2>3, FamilyNames, RouteUpBrings
    <3> QED
      BY <3>1, <2>3, BringsTrans
  <2>5. Wait(w) = {} => t6 = t0
    BY <1>6 DEF Wait
  <2> HIDE DEF t4
  <2>6. Brings(s, t6, i) /\ t6 \in IpacmSet
    <3>1. Brings(t4, RouteUp(t4, i, "v6"), i) /\ RouteUp(t4, i, "v6") \in IpacmSet
      BY <2>4, FamilyNames, RouteUpBrings
    <3> QED
      BY <3>1, <2>4, BringsTrans
  <2> HIDE DEF t, t6
  <2> QED
    BY <2>1, <2>3, <2>5, <2>6 DEF t
<1> QED
  BY <1>4, <1>5, <1>6

(* A route added to the instance itself.                                       *)
LEMMA OwnRouteAddBrings ==
  ASSUME NEW s \in IpacmSet, NEW i \in Uplinks, NEW f \in Families, file \in Nat
  PROVE  Brings(s, OwnRouteAdd(s, i, f), i)
<1> DEFINE w == s.wan[i]
           w0 == [w EXCEPT !.gw = @ \cup {f}]
           s0 == [s EXCEPT !.wan[i].gw = @ \cup {f}]
           h == StaHeader(s0, i)
           t == OwnRouteAdd(s, i, f)
<1>1. w \in WanSet
  BY DEF IpacmSet
<1>2. w0 \in WanSet /\ w0.ip = w.ip /\ Held(w0) \subseteq Held(w)
  BY <1>1 DEF WanSet, Held, Wait
<1>3. s0 = [s EXCEPT !.wan[i] = w0]
  BY DEF IpacmSet
<1> HIDE DEF w0
<1>4. Brings(s, s0, i) /\ s0 \in IpacmSet
  BY <1>2, <1>3, BringsNothing
<1>5. t = s \/ t = h \/ t = RouteUp(h, i, f)
  BY DEF OwnRouteAdd
<1> HIDE DEF s0, t
<1>6. Brings(s0, h, i) /\ h \in IpacmSet
  BY <1>4, StaHeaderBrings
<1> HIDE DEF h
<1>7. Brings(s, h, i)
  BY <1>4, <1>6, BringsTrans
<1>8. Brings(h, RouteUp(h, i, f), i)
  BY <1>6, RouteUpBrings
<1>9. Brings(s, RouteUp(h, i, f), i)
  BY <1>7, <1>8, BringsTrans
<1>10. Brings(s, s, i)
  BY DEF Brings
<1> QED
  BY <1>5, <1>7, <1>9, <1>10 DEF t

(* A neighbour that completes the header; nothing waits, nothing changes.      *)
LEMMA NeighbourBrings ==
  ASSUME NEW s \in IpacmSet, NEW i \in Uplinks, NEW f \in Families, file \in Nat
  PROVE  LET t == Neighbour(s, i, f)
         IN  Brings(s, t, i) /\ (Wait(s.wan[i]) = {} => t.mode = s.mode)
<1> DEFINE w == s.wan[i]
           w0 == [w EXCEPT !.neigh = @ \cup {f}]
           s0 == [s EXCEPT !.wan[i].neigh = @ \cup {f}]
           h == StaHeader(s0, i)
           t == Neighbour(s, i, f)
<1>1. w \in WanSet
  BY DEF IpacmSet
<1>2. w0 \in WanSet /\ w0.ip = w.ip /\ Held(w0) \subseteq Held(w) /\ Wait(w0) = Wait(w)
  BY <1>1 DEF WanSet, Held, Wait
<1>3. s0 = [s EXCEPT !.wan[i] = w0]
  BY DEF IpacmSet
<1>4. t = s \/ t = h
  BY DEF Neighbour
<1> HIDE DEF w0, w, s0, t
<1>5. Brings(s, s0, i) /\ s0 \in IpacmSet /\ s0.mode = s.mode /\ s0.wan[i] = w0
  BY <1>2, <1>3, BringsNothing DEF w
<1>6. Brings(s0, h, i) /\ (Wait(s0.wan[i]) = {} => h.mode = s0.mode)
  BY <1>5, StaHeaderBrings
<1> HIDE DEF h
<1>7. Brings(s, h, i)
  BY <1>5, <1>6, BringsTrans
<1>8. Brings(s, s, i)
  BY DEF Brings
<1> QED
  BY <1>2, <1>4, <1>5, <1>6, <1>7, <1>8 DEF t, w

(* From s to t the uplink i said of the families S that they went.             *)
Drops(s, t, i, S) ==
  /\ News(t) = News(s) \cup {Ev("wanDown", i, f) : f \in S}
  /\ t.wanUp = s.wanUp \ S
  /\ t.mode = s.mode
  /\ \A j \in Uplinks : Held(t.wan[j]) \subseteq Held(s.wan[j])
                        /\ t.wan[j].ip \subseteq s.wan[j].ip

(* A route that goes down.                                                     *)
LEMMA RouteDelDrops ==
  ASSUME NEW s \in IpacmSet, NEW i \in Uplinks, NEW f \in Families
  PROVE  \E S \in SUBSET s.wan[i].active : Drops(s, RouteDel(s, i, f), i, S)
<1> DEFINE w == s.wan[i]
           t == RouteDel(s, i, f)
           ev == Ev("wanDown", i, f)
           u == Internal(s, ev)
<1>1. w \in WanSet /\ s.int \in Seq(IntEvents) /\ s.wanUp \in SUBSET Families
      /\ \A j \in Uplinks : s.wan[j] \in WanSet
  BY DEF IpacmSet
<1>2. CASE ~(Instance(s, i) /\ f \in w.active)
  <2>1. t = s
    BY <1>2 DEF RouteDel
  <2>2. Drops(s, s, i, {})
    BY DEF Drops
  <2> QED
    BY <2>1, <2>2
<1>3. CASE Instance(s, i) /\ f \in w.active
  <2>1. t = RouteDown(u, i, f)
    BY <1>3 DEF RouteDel
  <2>2. ev \in IntEvents
    BY UplinkKinds DEF Ev, IntEvents
  <2>3. u \in IpacmSet /\ u.wan = s.wan /\ u.wanUp = s.wanUp
    BY InternalFacts
  <2>4. u.int = Append(s.int, ev) /\ u.mode = s.mode
    BY DEF Internal, IpacmSet
  <2> HIDE DEF u
  <2>5. /\ t.wan[i] = Lowered(w, f) /\ t.wanUp = s.wanUp \ {f}
        /\ \A j \in Uplinks : j # i => t.wan[j] = s.wan[j]
    BY <2>1, <2>3, RouteDownFacts
  <2>6. t.int = u.int /\ t.mode = u.mode
    BY <2>1, <2>3 DEF RouteDown, IpacmSet
  <2> HIDE DEF t, ev
  <2>7. News(t) = News(s) \cup {ev}
    BY <2>2, <2>4, <2>6, <1>1, AppendSet DEF News
  <2>8. Held(Lowered(w, f)) \subseteq Held(w) /\ Lowered(w, f).ip = w.ip
    BY <1>1 DEF Lowered, Held, Wait, WanSet
  <2>9. \A j \in Uplinks : Held(t.wan[j]) \subseteq Held(s.wan[j]) /\ t.wan[j].ip \subseteq s.wan[j].ip
    BY <2>5, <2>8
  <2>10. {Ev("wanDown", i, g) : g \in {f}} = {ev}
    BY DEF ev
  <2>11. Drops(s, t, i, {f})
    BY <2>4, <2>5, <2>6, <2>7, <2>9, <2>10 DEF Drops
  <2>12. {f} \in SUBSET w.active
    BY <1>3
  <2> QED
    BY <2>11, <2>12 DEF t
<1> QED
  BY <1>2, <1>3

(* An uplink that goes.                                                        *)
LEMMA WanDownDrops ==
  ASSUME NEW s \in IpacmSet, NEW i \in Uplinks, Distinct(s.wans), Instance(s, i)
  PROVE  LET t == WanDown(s, i)
         IN  Drops(s, t, i, Falls(s, i)) /\ t.ap = s.ap /\ t.valid = s.valid
<1> DEFINE place == CHOOSE k \in DOMAIN s.wans : s.wans[k] = i
           which == Falls(s, i)
           down(acc, f) == Internal([RouteDown(acc, i, f) EXCEPT !.wanUp = @ \ {f}],
                                    Ev("wanDown", i, f))
           d4 == IF "v4" \in which THEN down(s, "v4") ELSE s
           d6 == IF "v6" \in which THEN down(d4, "v6") ELSE d4
           t == WanDown(s, i)
           said(S) == {Ev("wanDown", i, f) : f \in S}
           OK(u, S) == /\ u \in IpacmSet /\ u.mode = s.mode /\ u.ap = s.ap /\ u.valid = s.valid
                       /\ News(u) = News(s) \cup said(S)
<1>1. WanGone(s, t, i)
  BY WanDownFacts
<1>2. t = [d6 EXCEPT !.wan[i] = NoWan, !.nat[i] = {}, !.wans = RemoveAt(@, place)]
  BY DEF WanDown, ForEach, Falls
<1> HIDE DEF place
<1>3. ASSUME NEW u, NEW f \in Families, NEW S, OK(u, S)
      PROVE  OK(down(u, f), S \cup {f})
  <2> DEFINE r == RouteDown(u, i, f)
             z == r.wanUp \ {f}
             m == [r EXCEPT !.wanUp = z]
             ev == Ev("wanDown", i, f)
  <2>1. r \in IpacmSet /\ r.ap = u.ap /\ r.valid = u.valid
    BY <1>3, RouteDownFacts DEF Rest
  <2>2. r.int = u.int /\ r.mode = u.mode
    BY <1>3 DEF RouteDown, IpacmSet
  <2> HIDE DEF r
  <2>3. z \in SUBSET Families
    BY <2>1 DEF IpacmSet
  <2> HIDE DEF z
  <2>4. m \in IpacmSet /\ m.ap = r.ap /\ m.valid = r.valid /\ m.int = r.int /\ m.mode = r.mode
    BY <2>1, <2>3 DEF IpacmSet
  <2>5. down(u, f) = Internal(m, ev)
    BY DEF r, z
  <2>6. ev \in IntEvents /\ m.int \in Seq(IntEvents)
    BY <2>4, UplinkKinds DEF Ev, IntEvents, IpacmSet
  <2> HIDE DEF m, down
  <2>7. Internal(m, ev) \in IpacmSet
    BY <2>4, InternalFacts
  <2>8. Internal(m, ev).ap = m.ap /\ Internal(m, ev).valid = m.valid
        /\ Internal(m, ev).mode = m.mode /\ Internal(m, ev).int = Append(m.int, ev)
    BY <2>4 DEF Internal, IpacmSet
  <2>9. said(S \cup {f}) = said(S) \cup {ev}
    OBVIOUS
  <2> HIDE DEF ev, said
  <2>10. News(down(u, f)) = News(u) \cup {ev}
    BY <2>2, <2>4, <2>5, <2>6, <2>8, AppendSet DEF News
  <2>11. News(down(u, f)) = News(s) \cup said(S \cup {f})
    BY <2>9, <2>10, <1>3
  <2> QED
    BY <2>1, <2>2, <2>4, <2>5, <2>7, <2>8, <2>11, <1>3
<1> HIDE DEF down
<1>4. OK(s, {})
  OBVIOUS
<1>5. which \in SUBSET Families
  BY DEF Falls, IpacmSet, WanSet
<1> HIDE DEF which
<1>6. OK(d4, which \cap {"v4"})
  <2>1. CASE "v4" \in which
    <3>1. OK(down(s, "v4"), {} \cup {"v4"})
      BY <1>3, <1>4, FamilyNames
    <3>2. {} \cup {"v4"} = which \cap {"v4"}
      BY <2>1
    <3> HIDE DEF OK
    <3> QED
      BY <2>1, <3>1, <3>2
  <2>2. CASE "v4" \notin which
    <3>1. {} = which \cap {"v4"}
      BY <2>2
    <3> HIDE DEF OK
    <3> QED
      BY <2>2, <3>1, <1>4
  <2> QED
    BY <2>1, <2>2
<1> HIDE DEF d4
<1>7. OK(d6, which)
  <2>1. CASE "v6" \in which
    <3> DEFINE S4 == which \cap {"v4"}
    <3>2. S4 \cup {"v6"} = which
      BY <2>1, <1>5 DEF Families
    <3>3. OK(d4, S4)
      BY <1>6
    <3> HIDE DEF S4, OK
    <3>1. OK(down(d4, "v6"), S4 \cup {"v6"})
      BY <1>3, <3>3, FamilyNames
    <3> QED
      BY <2>1, <3>1, <3>2
  <2>2. CASE "v6" \notin which
    <3>1. which \cap {"v4"} = which
      BY <2>2, <1>5 DEF Families
    <3> QED
      BY <2>2, <3>1, <1>6
  <2> QED
    BY <2>1, <2>2
<1> HIDE DEF d6
<1>8. t.int = d6.int /\ t.mode = d6.mode /\ t.ap = d6.ap /\ t.valid = d6.valid
  BY <1>2, <1>7 DEF IpacmSet
<1> HIDE DEF t
<1>9. News(t) = News(s) \cup said(which) /\ t.mode = s.mode /\ t.ap = s.ap /\ t.valid = s.valid
  BY <1>7, <1>8 DEF News
<1>10. \A j \in Uplinks : Held(t.wan[j]) \subseteq Held(s.wan[j]) /\ t.wan[j].ip \subseteq s.wan[j].ip
  <2>1. Held(NoWan) = {} /\ NoWan.ip = {}
    BY DEF NoWan, Held, Wait
  <2>2. t.wan[i] = NoWan /\ \A j \in Uplinks : j # i => t.wan[j] = s.wan[j]
    BY <1>1 DEF WanGone
  <2> QED
    BY <2>1, <2>2
<1>11. t.wanUp = s.wanUp \ which
  BY <1>1 DEF WanGone, which
<1>12. Drops(s, t, i, which)
  BY <1>9, <1>10, <1>11 DEF Drops
<1> QED
  BY <1>9, <1>12 DEF t, which

-----------------------------------------------------------------------------
(* What holds of the access point at any time.                                 *)

(* The news are of the kind of uplink that is in use, and still true; a loss   *)
(* concerns an access point with all families or none.                         *)
NewsOK(s) ==
  \A ev \in News(s) :
    /\ ev.what \in {"wanUp", "wanDown"} /\ ev.iface \in Uplinks /\ Kind(ev.iface) = s.mode
    /\ ev.what = "wanUp" <=> ev.fam \in s.wanUp
    /\ ev.what = "wanDown" => Whole(s.ap.ip)
(* The access point knows what is up unless it has still to be told.           *)
Told(s, f) == \E ev \in News(s) : ev.fam = f
Knows(s, f) == f \in s.ap.ip => Told(s, f) \/ (f \in s.ap.up <=> f \in s.wanUp)
RulesNow(s) ==
  /\ s.ap.on = FALSE => s.ap = NoAp
  /\ \A f \in s.ap.up \ s.ap.ip : f \in s.wanUp
  /\ s.ap.ip = {} => s.ap.up = {}
  /\ \A f \in Families : s.ap.ul[f] = IF f \in s.ap.down \cap s.ap.up THEN {s.mode} ELSE {}
ModeOK(s) == \A i \in Uplinks : s.wan[i].ip \subseteq All /\ (Held(s.wan[i]) # {} => s.mode = Kind(i))
NoCache(s) == \A k \in Places : s.cache[k] = NoEntry
LanOK(s) ==
  NewsOK(s) /\ (\A f \in Families : Knows(s, f)) /\ RulesNow(s) /\ ModeOK(s) /\ NoCache(s)

(* An uplink brings news: the access point has to be told.                     *)
LEMMA BringsLan ==
  ASSUME NEW s \in IpacmSet, NEW t \in IpacmSet, NEW i \in Uplinks, Brings(s, t, i),
         t.ap = s.ap, t.cache = s.cache, News(s) = {}, LanOK(s), FlagsOK(s), ApOK(ApSeen(s)),
         \A j \in Uplinks : j # i => t.wan[j] = s.wan[j],
         t.mode = s.mode \/ \A j \in Uplinks : j # i => Held(s.wan[j]) = {}
  PROVE  LanOK(t)
<1>1. s.ap \in ApSet /\ s.wanUp \in SUBSET Families /\ s.ap.down \subseteq s.ap.ip
  BY DEF IpacmSet, ApOK, ApSeen
<1>2. \A ev \in News(t) : \E f \in t.wanUp : ev = Ev("wanUp", i, f)
  BY DEF Brings
<1>3. News(t) = {} \/ t.mode = Kind(i)
  BY DEF Brings
<1>4. NewsOK(t)
  <2> SUFFICES ASSUME NEW ev \in News(t)
               PROVE  /\ ev.what = "wanUp" /\ ev.iface = i /\ Kind(i) = t.mode /\ ev.fam \in t.wanUp
    BY DEF NewsOK
  <2> QED
    BY <1>2, <1>3 DEF Ev
<1>5. ASSUME NEW f \in Families PROVE Knows(t, f)
  <2>1. f \in t.wanUp => f \in s.wanUp \/ Told(t, f)
    BY DEF Brings, Told, Ev
  <2>2. f \in s.wanUp => f \in t.wanUp
    BY DEF Brings
  <2>3. Knows(s, f) /\ ~Told(s, f)
    BY DEF LanOK, Told
  <2> QED
    BY <2>1, <2>2, <2>3 DEF Knows
<1>6. ModeOK(t)
  <2> SUFFICES ASSUME NEW j \in Uplinks
               PROVE  t.wan[j].ip \subseteq All /\ (Held(t.wan[j]) # {} => t.mode = Kind(j))
    BY DEF ModeOK
  <2>1. s.wan[j].ip \subseteq All /\ (Held(s.wan[j]) # {} => s.mode = Kind(j))
    BY DEF LanOK, ModeOK
  <2>2. CASE j = i
    BY <2>1, <2>2 DEF Brings
  <2>3. CASE j # i
    BY <2>1, <2>3
  <2> QED
    BY <2>2, <2>3
<1>7. ASSUME NEW f \in s.ap.down \cap s.ap.up PROVE t.mode = s.mode
  <2>1. f \in Families /\ f \in s.ap.ip
    BY <1>1 DEF ApSet
  <2>2. Knows(s, f) /\ ~Told(s, f)
    BY <2>1 DEF LanOK, Told
  <2>3. f \in s.wanUp
    BY <2>1, <2>2 DEF Knows
  <2>4. PICK j \in Uplinks : f \in s.wan[j].active
    BY <2>1, <2>3 DEF FlagsOK
  <2>5. Held(s.wan[j]) # {}
    BY <2>4 DEF Held
  <2>6. s.mode = Kind(j)
    BY <2>5 DEF LanOK, ModeOK
  <2> QED
    BY <2>5, <2>6 DEF Brings
<1>8. RulesNow(t)
  <2>1. RulesNow(s)
    BY DEF LanOK
  <2>2. \A f \in t.ap.up \ t.ap.ip : f \in t.wanUp
    BY <2>1 DEF RulesNow, Brings
  <2>3. \A f \in Families : t.ap.ul[f] = IF f \in t.ap.down \cap t.ap.up THEN {t.mode} ELSE {}
    BY <2>1, <1>7 DEF RulesNow
  <2> QED
    BY <2>1, <2>2, <2>3 DEF RulesNow
<1> QED
  BY <1>4, <1>5, <1>6, <1>8 DEF LanOK, NoCache

(* An uplink is lost: the access point has to be told.                         *)
LEMMA DropsLan ==
  ASSUME NEW s \in IpacmSet, NEW t \in IpacmSet, NEW i \in Uplinks, NEW S \in SUBSET Families,
         Drops(s, t, i, S), t.ap = s.ap, t.cache = s.cache, News(s) = {}, LanOK(s), FlagsOK(s),
         Whole(s.ap.ip), S # {} => s.mode = Kind(i),
         \A j \in Uplinks : s.wan[j].active \subseteq s.wan[j].ip
  PROVE  LanOK(t)
<1>1. s.ap \in ApSet /\ s.wanUp \in SUBSET Families
  BY DEF IpacmSet
<1>2. News(t) = {Ev("wanDown", i, f) : f \in S} /\ t.wanUp = s.wanUp \ S /\ t.mode = s.mode
  BY DEF Drops
<1>3. NewsOK(t)
  <2> SUFFICES ASSUME NEW ev \in News(t)
               PROVE  /\ ev.what = "wanDown" /\ ev.iface = i /\ Kind(i) = t.mode
                      /\ ev.fam \notin t.wanUp
    BY DEF NewsOK
  <2> QED
    BY <1>2 DEF Ev
<1>4. ASSUME NEW f \in Families PROVE Knows(t, f)
  <2>1. ASSUME f \in S PROVE Told(t, f)
    <3>1. Ev("wanDown", i, f) \in News(t)
      BY <1>2, <2>1
    <3>2. Ev("wanDown", i, f).fam = f
      BY DEF Ev
    <3> QED
      BY <3>1, <3>2 DEF Told
  <2>2. Knows(s, f) /\ ~Told(s, f)
    BY DEF LanOK, Told
  <2> QED
    BY <2>1, <2>2, <1>2 DEF Knows
<1>5. ModeOK(t)
  <2> SUFFICES ASSUME NEW j \in Uplinks
               PROVE  t.wan[j].ip \subseteq All /\ (Held(t.wan[j]) # {} => t.mode = Kind(j))
    BY DEF ModeOK
  <2>1. s.wan[j].ip \subseteq All /\ (Held(s.wan[j]) # {} => s.mode = Kind(j))
    BY DEF LanOK, ModeOK
  <2>2. Held(t.wan[j]) \subseteq Held(s.wan[j]) /\ t.wan[j].ip \subseteq s.wan[j].ip
    BY DEF Drops
  <2> QED
    BY <2>1, <2>2, <1>2
<1>6. s.wanUp \subseteq All
  <2> SUFFICES ASSUME NEW f \in s.wanUp PROVE f \in All
    OBVIOUS
  <2>1. PICK j \in Uplinks : f \in s.wan[j].active
    BY <1>1 DEF FlagsOK
  <2> QED
    BY <2>1 DEF LanOK, ModeOK
<1>7. RulesNow(t)
  <2>1. RulesNow(s)
    BY DEF LanOK
  <2>2. s.ap.up \subseteq s.ap.ip
    BY <1>6, <2>1 DEF RulesNow, Whole
  <2> QED
    BY <2>1, <2>2, <1>2 DEF RulesNow
<1> QED
  BY <1>3, <1>4, <1>5, <1>7 DEF LanOK, NoCache

(* The access point's part of the state changes, the uplinks' does not.        *)
LEMMA ApartFacts ==
  ASSUME NEW s, NEW t, Apart(t) = Apart(s)
  PROVE  /\ News(t) = News(s) /\ t.wanUp = s.wanUp /\ t.mode = s.mode /\ t.wan = s.wan
         /\ ModeOK(s) => ModeOK(t)
         /\ NoCache(s) => NoCache(t)
         /\ \A f : Told(t, f) <=> Told(s, f)
<1>1. t.int = s.int /\ t.wanUp = s.wanUp /\ t.mode = s.mode /\ t.wan = s.wan /\ t.cache = s.cache
  BY DEF Apart
<1> QED
  BY <1>1 DEF News, ModeOK, NoCache, Told

(* The access point hears of an uplink.                                        *)
LEMMA TetherUpLan ==
  ASSUME NEW s \in IpacmSet, NEW i, NEW f \in Families, Kind(i) = s.mode, f \in s.wanUp,
         \A g \in Families : g # f => Knows(s, g), RulesNow(s)
  PROVE  LET t == WanUpTether(s, i, f)
         IN  ApSeen(t) = ApSeen(s) /\ RulesNow(t) /\ \A g \in Families : Knows(t, g)
<1> DEFINE t == WanUpTether(s, i, f)
           a == s.ap
<1>1. a \in ApSet
  BY DEF IpacmSet
<1>2. Apart(t) = Apart(s)
  BY TetherFacts DEF ApOnly
<1>3. t.wanUp = s.wanUp /\ t.mode = s.mode /\ \A g : Told(t, g) <=> Told(s, g)
  BY <1>2, ApartFacts
<1>4. CASE ~a.on \/ f \notin a.ip \/ f \in a.up
  <2>1. t = s
    BY <1>4 DEF WanUpTether
  <2>2. f \in a.ip => f \in a.up
    BY <1>1, <1>4 DEF RulesNow, NoAp, ApSet
  <2>3. Knows(s, f)
    BY <2>2 DEF Knows
  <2> HIDE DEF t
  <2> QED
    BY <2>1, <2>3 DEF t
<1>5. CASE ~(~a.on \/ f \notin a.ip \/ f \in a.up)
  <2>1. /\ t.ap.on = a.on /\ t.ap.ip = a.ip /\ t.ap.down = a.down /\ t.ap.up = a.up \cup {f}
        /\ t.ap.ul = IF f \in a.down THEN [a.ul EXCEPT ![f] = @ \cup {Kind(i)}] ELSE a.ul
    BY <1>5, <1>1 DEF WanUpTether, UplinkRules, IpacmSet, ApSet
  <2> HIDE DEF t
  <2>2. ApSeen(t) = ApSeen(s)
    BY <2>1 DEF ApSeen
  <2>3. ASSUME NEW g \in Families PROVE Knows(t, g)
    BY <2>1, <1>3 DEF Knows
  <2>4. a.ul[f] = {} /\ a.on = TRUE
    BY <1>1, <1>5 DEF RulesNow, ApSet
  <2>5. RulesNow(t)
    <3>1. \A g \in Families : t.ap.ul[g] = IF g \in t.ap.down \cap t.ap.up THEN {t.mode} ELSE {}
      <4> SUFFICES ASSUME NEW g \in Families
                   PROVE  t.ap.ul[g] = IF g \in t.ap.down \cap t.ap.up THEN {t.mode} ELSE {}
        OBVIOUS
      <4>1. a.ul[g] = IF g \in a.down \cap a.up THEN {s.mode} ELSE {}
        BY DEF RulesNow
      <4>2. g # f => t.ap.ul[g] = a.ul[g]
        BY <2>1, <1>1 DEF ApSet
      <4>3. t.ap.ul[f] = IF f \in a.down THEN {s.mode} ELSE {}
        <5>1. CASE f \in a.down
          <6>1. t.ap.ul[f] = a.ul[f] \cup {Kind(i)}
            BY <2>1, <1>1, <5>1 DEF ApSet
          <6> QED
            BY <6>1, <2>4, <5>1
        <5>2. CASE f \notin a.down
          BY <2>1, <2>4, <5>2
        <5> QED
          BY <5>1, <5>2
      <4> QED
        BY <4>1, <4>2, <4>3, <2>1, <1>3
    <3>2. t.ap.ip # {}
      BY <1>5, <2>1
    <3>3. \A g \in t.ap.up \ t.ap.ip : g \in t.wanUp
      BY <2>1, <1>3 DEF RulesNow
    <3> QED
      BY <3>1, <3>2, <3>3, <2>1, <2>4 DEF RulesNow
  <2> QED
    BY <2>2, <2>3, <2>5 DEF t
<1> QED
  BY <1>4, <1>5

(* The access point hears that an uplink is gone.                              *)
LEMMA TetherDownLan ==
  ASSUME NEW s \in IpacmSet, NEW i, NEW f \in Families, Kind(i) = s.mode, f \notin s.wanUp,
         Whole(s.ap.ip), \A g \in Families : g # f => Knows(s, g), RulesNow(s)
  PROVE  LET t == WanDownTether(s, i, f)
         IN  ApSeen(t) = ApSeen(s) /\ RulesNow(t) /\ \A g \in Families : Knows(t, g)
<1> DEFINE t == WanDownTether(s, i, f)
           a == s.ap
           k == IF Kind(i) = "q6" /\ "q6" \in a.ul[f] THEN "q6" ELSE "sta"
<1>1. a \in ApSet
  BY DEF IpacmSet
<1>2. Apart(t) = Apart(s)
  BY TetherFacts DEF ApOnly
<1>3. t.wanUp = s.wanUp /\ t.mode = s.mode /\ \A g : Told(t, g) <=> Told(s, g)
  BY <1>2, ApartFacts
<1>4. CASE ~a.on \/ f \notin a.ip \/ f \notin a.up
  <2>1. t = s
    BY <1>4 DEF WanDownTether
  <2>2. f \in a.ip => f \notin a.up
    BY <1>1, <1>4 DEF RulesNow, NoAp, ApSet
  <2>3. Knows(s, f)
    BY <2>2 DEF Knows
  <2> HIDE DEF t
  <2> QED
    BY <2>1, <2>3 DEF t
<1>5. CASE ~(~a.on \/ f \notin a.ip \/ f \notin a.up)
  <2>1. /\ t.ap.on = a.on /\ t.ap.ip = a.ip /\ t.ap.down = a.down /\ t.ap.up = a.up \ {f}
        /\ t.ap.ul = IF f \in a.down THEN [a.ul EXCEPT ![f] = @ \ {k}] ELSE a.ul
    BY <1>5, <1>1 DEF WanDownTether, NoUplinkRules, IpacmSet, ApSet
  <2>2. a.ul[f] = (IF f \in a.down THEN {s.mode} ELSE {}) /\ a.on = TRUE
    BY <1>1, <1>5 DEF RulesNow, ApSet
  <2>3. f \in a.down => k = s.mode
    BY <2>2 DEF Kind
  <2> HIDE DEF t, k
  <2>4. ApSeen(t) = ApSeen(s)
    BY <2>1 DEF ApSeen
  <2>5. ASSUME NEW g \in Families PROVE Knows(t, g)
    BY <2>1, <1>3 DEF Knows
  <2>6. RulesNow(t)
    <3>1. \A g \in Families : t.ap.ul[g] = IF g \in t.ap.down \cap t.ap.up THEN {t.mode} ELSE {}
      <4> SUFFICES ASSUME NEW g \in Families
                   PROVE  t.ap.ul[g] = IF g \in t.ap.down \cap t.ap.up THEN {t.mode} ELSE {}
        OBVIOUS
      <4>1. a.ul[g] = IF g \in a.down \cap a.up THEN {s.mode} ELSE {}
        BY DEF RulesNow
      <4>2. g # f => t.ap.ul[g] = a.ul[g]
        BY <2>1, <1>1 DEF ApSet
      <4>3. g = f => t.ap.ul[g] = {}
        BY <2>1, <2>2, <2>3, <1>1 DEF ApSet
      <4> QED
        BY <4>1, <4>2, <4>3, <2>1, <1>3
    <3>2. t.ap.ip # {}
      BY <1>5, <2>1
    <3>3. \A g \in t.ap.up \ t.ap.ip : g \in t.wanUp
      BY <2>1, <1>3 DEF RulesNow
    <3> QED
      BY <3>1, <3>2, <3>3, <2>1, <2>2 DEF RulesNow
  <2> QED
    BY <2>4, <2>5, <2>6 DEF t
<1> QED
  BY <1>4, <1>5

-----------------------------------------------------------------------------
(* The events of the queue: the daemon has none of its own left when it takes  *)
(* one, so the access point knows what is up.                                  *)
Heard(s) == News(s) = {} /\ LanOK(s) /\ FlagsOK(s) /\ ApOK(ApSeen(s))
LanStep(s, t, ev) == LanOK(t) /\ ApSeen(t) = ApStep(ApSeen(s), ev) /\ t.valid = s.valid

(* What it knows. *)
LEMMA HeardFacts ==
  ASSUME NEW s \in IpacmSet, Heard(s)
  PROVE  /\ \A f \in Families : f \in s.ap.ip => (f \in s.ap.up <=> f \in s.wanUp)
         /\ s.wanUp # {} => s.mode \in {"sta", "q6"}
         /\ s.ap.down \subseteq s.ap.ip /\ s.ap.ip \subseteq All
         /\ s.ap \in ApSet /\ s.wanUp \in SUBSET Families /\ RulesNow(s)
<1>1. s.ap \in ApSet /\ s.wanUp \in SUBSET Families
  BY DEF IpacmSet
<1>2. ASSUME NEW f \in Families, f \in s.ap.ip PROVE f \in s.ap.up <=> f \in s.wanUp
  <2>1. Knows(s, f) /\ ~Told(s, f)
    BY DEF Heard, LanOK, Told
  <2> QED
    BY <2>1, <1>2 DEF Knows
<1>3. ASSUME NEW f \in s.wanUp PROVE s.mode \in {"sta", "q6"}
  <2>1. PICK j \in Uplinks : f \in s.wan[j].active
    BY <1>1 DEF Heard, FlagsOK
  <2>2. Held(s.wan[j]) # {}
    BY <2>1 DEF Held
  <2>3. s.mode = Kind(j)
    BY <2>2 DEF Heard, LanOK, ModeOK
  <2> QED
    BY <2>3 DEF Kind
<1> QED
  BY <1>1, <1>2, <1>3 DEF Heard, LanOK, ApOK, ApSeen

(* The access point is the same, the uplinks lose at most routes.              *)
LEMMA SameLan ==
  ASSUME NEW s, NEW t, LanOK(s), t.int = s.int, t.wanUp = s.wanUp, t.mode = s.mode,
         t.ap = s.ap, t.cache = s.cache,
         \A i \in Uplinks : t.wan[i].ip \subseteq All /\ Held(t.wan[i]) \subseteq Held(s.wan[i])
  PROVE  LanOK(t) /\ ApSeen(t) = ApSeen(s)
<1>1. News(t) = News(s) /\ \A f : Told(t, f) <=> Told(s, f)
  BY DEF News, Told
<1>2. NewsOK(t) /\ (\A f \in Families : Knows(t, f)) /\ RulesNow(t) /\ NoCache(t)
  BY <1>1 DEF LanOK, NewsOK, Knows, RulesNow, NoCache
<1>3. ModeOK(t)
  BY DEF LanOK, ModeOK
<1> QED
  BY <1>2, <1>3 DEF LanOK, ApSeen

(* Only the access point changes, and it knows what is up.                     *)
LEMMA ApLan ==
  ASSUME NEW s \in IpacmSet, NEW t, Heard(s), t.int = s.int, t.wanUp = s.wanUp, t.mode = s.mode,
         t.wan = s.wan, t.cache = s.cache, RulesNow(t),
         \A f \in Families : f \in t.ap.ip => (f \in t.ap.up <=> f \in t.wanUp)
  PROVE  LanOK(t)
<1>1. News(t) = {}
  BY DEF Heard, News
<1>2. NewsOK(t)
  BY <1>1 DEF NewsOK
<1>3. ModeOK(t) /\ NoCache(t)
  BY DEF Heard, LanOK, ModeOK, NoCache
<1>4. \A f \in Families : Knows(t, f)
  BY DEF Knows
<1> QED
  BY <1>2, <1>3, <1>4 DEF LanOK

(* A downstream is added: if there is an uplink, with its rules.               *)
LEMMA DownAddLan ==
  ASSUME NEW s \in IpacmSet, NEW f \in Families, NEW ev, Heard(s), ApGuard(ApSeen(s), ev),
         ev.what = "downAdd", ev.fam = f
  PROVE  LanStep(s, DownstreamAdd(s, f), ev)
<1> DEFINE t == DownstreamAdd(s, f)
           a == s.ap
<1>1. /\ \A g \in Families : g \in a.ip => (g \in a.up <=> g \in s.wanUp)
      /\ a.down \subseteq a.ip /\ a \in ApSet /\ RulesNow(s)
  BY HeardFacts
<1>2. f \in a.ip
  BY DEF ApGuard, ApSeen
<1>3. a.on = TRUE
  BY <1>1, <1>2 DEF RulesNow, NoAp, ApSet
<1>4. ApStep(ApSeen(s), ev) = [on |-> a.on, ip |-> a.ip, down |-> a.down \cup {f}]
  BY <1>3 DEF ApStep, ApSeen
<1>5. CASE f \in a.down
  <2>1. t = s
    BY <1>5 DEF DownstreamAdd
  <2>2. a.down \cup {f} = a.down
    BY <1>5
  <2> HIDE DEF t
  <2>3. ApSeen(t) = ApStep(ApSeen(s), ev)
    BY <2>1, <2>2, <1>4 DEF ApSeen
  <2> QED
    BY <2>1, <2>3 DEF Heard, LanStep, t
<1>6. CASE f \notin a.down
  <2>1. /\ t.ap.on = a.on /\ t.ap.ip = a.ip /\ t.ap.up = a.up /\ t.ap.down = a.down \cup {f}
        /\ t.ap.ul = IF f \in a.up THEN [a.ul EXCEPT ![f] = @ \cup {s.mode}] ELSE a.ul
    BY <1>1, <1>2, <1>3, <1>6 DEF DownstreamAdd, UplinkRules, IpacmSet, ApSet
  <2>2. Apart(t) = Apart(s)
    BY TetherFacts DEF ApOnly
  <2> HIDE DEF t
  <2>3. /\ t.int = s.int /\ t.wanUp = s.wanUp /\ t.mode = s.mode /\ t.wan = s.wan
        /\ t.cache = s.cache /\ t.valid = s.valid
    BY <2>2 DEF Apart
  <2>4. \A g \in Families : t.ap.ul[g] = IF g \in t.ap.down \cap t.ap.up THEN {t.mode} ELSE {}
    <3> SUFFICES ASSUME NEW g \in Families
                 PROVE  t.ap.ul[g] = IF g \in t.ap.down \cap t.ap.up THEN {t.mode} ELSE {}
      OBVIOUS
    <3>1. a.ul[g] = IF g \in a.down \cap a.up THEN {s.mode} ELSE {}
      BY <1>1 DEF RulesNow
    <3>2. CASE g = f
      <4>1. a.ul[f] = {}
        BY <3>1, <3>2, <1>6
      <4>2. f \in a.up => t.ap.ul[f] = {s.mode}
        BY <4>1, <2>1, <1>1 DEF ApSet
      <4>3. f \notin a.up => t.ap.ul[f] = {}
        BY <4>1, <2>1
      <4> QED
        BY <4>2, <4>3, <3>2, <2>1, <2>3
    <3>3. CASE g # f
      BY <3>1, <3>3, <2>1, <2>3, <1>1 DEF ApSet
    <3> QED
      BY <3>2, <3>3
  <2>5. RulesNow(t)
    BY <2>1, <2>3, <2>4, <1>1, <1>2, <1>3 DEF RulesNow
  <2>6. LanOK(t)
    BY <2>1, <2>3, <2>5, <1>1, ApLan
  <2>7. ApSeen(t) = ApStep(ApSeen(s), ev)
    BY <2>1, <1>4 DEF ApSeen
  <2> QED
    BY <2>3, <2>6, <2>7 DEF LanStep, t
<1> QED
  BY <1>5, <1>6

(* A downstream is removed, with the rules of the uplink that is in use.       *)
LEMMA DownDelLan ==
  ASSUME NEW s \in IpacmSet, NEW f \in Families, NEW ev, Heard(s),
         ev.what = "downDel", ev.fam = f
  PROVE  LanStep(s, DownstreamDel(s, f), ev)
<1> DEFINE t == DownstreamDel(s, f)
           a == s.ap
           k == IF s.mode = "q6" /\ "q6" \in a.ul[f] THEN "q6" ELSE "sta"
<1>1. /\ \A g \in Families : g \in a.ip => (g \in a.up <=> g \in s.wanUp)
      /\ a.down \subseteq a.ip /\ a \in ApSet /\ RulesNow(s)
      /\ s.wanUp # {} => s.mode \in {"sta", "q6"}
  BY HeardFacts
<1>2. ApStep(ApSeen(s), ev) = [on |-> a.on, ip |-> a.ip, down |-> a.down \ {f}]
  BY DEF ApStep, ApSeen
<1>3. f \in a.down => a.on = TRUE
  BY <1>1 DEF RulesNow, NoAp, ApSet
<1>4. CASE f \notin a.down
  <2>1. t = s
    BY <1>4 DEF DownstreamDel
  <2>2. a.down \ {f} = a.down
    BY <1>4
  <2> HIDE DEF t
  <2>3. ApSeen(t) = ApStep(ApSeen(s), ev)
    BY <2>1, <2>2, <1>2 DEF ApSeen
  <2> QED
    BY <2>1, <2>3 DEF Heard, LanStep, t
<1>5. CASE f \in a.down
  <2>1. /\ t.ap.on = a.on /\ t.ap.ip = a.ip /\ t.ap.up = a.up /\ t.ap.down = a.down \ {f}
        /\ t.ap.ul = IF f \in a.up THEN [a.ul EXCEPT ![f] = @ \ {k}] ELSE a.ul
    BY <1>1, <1>3, <1>5 DEF DownstreamDel, NoUplinkRules, IpacmSet, ApSet
  <2>2. Apart(t) = Apart(s)
    BY TetherFacts DEF ApOnly
  <2>3. a.ul[f] = IF f \in a.up THEN {s.mode} ELSE {}
    BY <1>1, <1>5 DEF RulesNow
  <2>4. f \in a.up => k = s.mode
    BY <2>3, <1>1, <1>5
  <2> HIDE DEF t, k
  <2>5. /\ t.int = s.int /\ t.wanUp = s.wanUp /\ t.mode = s.mode /\ t.wan = s.wan
        /\ t.cache = s.cache /\ t.valid = s.valid
    BY <2>2 DEF Apart
  <2>6. \A g \in Families : t.ap.ul[g] = IF g \in t.ap.down \cap t.ap.up THEN {t.mode} ELSE {}
    <3> SUFFICES ASSUME NEW g \in Families
                 PROVE  t.ap.ul[g] = IF g \in t.ap.down \cap t.ap.up THEN {t.mode} ELSE {}
      OBVIOUS
    <3>1. a.ul[g] = IF g \in a.down \cap a.up THEN {s.mode} ELSE {}
      BY <1>1 DEF RulesNow
    <3>2. CASE g = f
      <4>1. f \in a.up => t.ap.ul[f] = {}
        BY <2>1, <2>3, <2>4, <1>1 DEF ApSet
      <4>2. f \notin a.up => t.ap.ul[f] = {}
        BY <2>1, <2>3
      <4> QED
        BY <4>1, <4>2, <3>2, <2>1
    <3>3. CASE g # f
      BY <3>1, <3>3, <2>1, <2>5, <1>1 DEF ApSet
    <3> QED
      BY <3>2, <3>3
  <2>7. RulesNow(t)
    BY <2>1, <2>5, <2>6, <1>1, <1>3, <1>5 DEF RulesNow
  <2>8. LanOK(t)
    BY <2>1, <2>5, <2>7, <1>1, ApLan
  <2>9. ApSeen(t) = ApStep(ApSeen(s), ev)
    BY <2>1, <1>2 DEF ApSeen
  <2> QED
    BY <2>5, <2>8, <2>9 DEF LanStep, t
<1> QED
  BY <1>4, <1>5

(* Nothing is cached: nothing is found.                                        *)
LEMMA SearchEmpty ==
  ASSUME NEW s \in IpacmSet, NEW i, i # NoIface, NoCache(s)
  PROVE  SearchCache(s, i) = s
<1> DEFINE T == Nat \X {s}
<1>1. <<0, s>> \in T
  OBVIOUS
<1>2. CacheSize \in Nat
  BY UpstreamAssumption
<1>3. ASSUME NEW n \in 1 .. CacheSize, NEW t, <<n - 1, t>> \in T
      PROVE  <<n, Taken(s, i, n, t)>> \in T
  <2>1. t = s /\ n \in Nat /\ n - 1 \in Places
    BY <1>2, <1>3 DEF Places
  <2>2. s.cache[n - 1].iface = NoIface
    BY <2>1 DEF NoCache, NoEntry
  <2>3. ~Turn(s, i, n - 1)
    BY <2>2 DEF Turn
  <2>4. Taken(s, i, n, t) = s
    BY <2>1, <2>3 DEF Taken
  <2> QED
    BY <2>1, <2>4
<1> HIDE DEF T
<1>4. <<CacheSize, SearchCache(s, i)>> \in T
  BY <1>1, <1>3, SearchInduction
<1> QED
  BY <1>4 DEF T

(* An address of the access point: it learns what is up.                       *)
LEMMA ApAddressLan ==
  ASSUME NEW s \in IpacmSet, NEW f \in Families, NEW ev, Heard(s), ApGuard(ApSeen(s), ev),
         s.ap.on = TRUE, ev.what = "address", ev.iface = Ap, ev.fam = f
  PROVE  LanStep(s, ApAddress(s, f), ev) /\ ApAddress(s, f).ext = s.ext
<1> DEFINE t == ApAddress(s, f)
           a == s.ap
           x == [a EXCEPT !.ip = @ \cup {f}, !.up = @ \cup s.wanUp]
           y == [s.nat EXCEPT ![Ap] = @ \cup {f}]
           u == [s EXCEPT !.ap = x, !.nat = y]
<1>1. /\ \A g \in Families : g \in a.ip => (g \in a.up <=> g \in s.wanUp)
      /\ a.down \subseteq a.ip /\ a \in ApSet /\ s.wanUp \in SUBSET Families /\ RulesNow(s)
  BY HeardFacts
<1>2. ApStep(ApSeen(s), ev) = [on |-> a.on, ip |-> a.ip \cup {f}, down |-> a.down]
  BY DEF ApStep, ApSeen
<1>3. CASE f \in a.ip
  <2>1. t = s
    BY <1>3 DEF ApAddress
  <2>2. a.ip \cup {f} = a.ip
    BY <1>3
  <2> HIDE DEF t
  <2>3. ApSeen(t) = ApStep(ApSeen(s), ev)
    BY <2>1, <2>2, <1>2 DEF ApSeen
  <2> QED
    BY <2>1, <2>3 DEF Heard, LanStep, t
<1>4. CASE f \notin a.ip
  <2>1. x \in ApSet /\ x.on = a.on /\ x.down = a.down /\ x.ul = a.ul
        /\ x.ip = a.ip \cup {f} /\ x.up = a.up \cup s.wanUp
    BY <1>1 DEF ApSet
  <2>2. [s EXCEPT !.ap.ip = @ \cup {f}, !.nat[Ap] = @ \cup {f}, !.ap.up = @ \cup s.wanUp] = u
    BY DEF IpacmSet, ApSet
  <2>3. t = SearchCache(u, Ap)
    BY <2>2, <1>4 DEF ApAddress
  <2>4. y \in [Ifaces -> SUBSET Families]
    BY UplinkKinds DEF IpacmSet
  <2> HIDE DEF x, y
  <2>5. u \in IpacmSet
    BY <2>1, <2>4 DEF IpacmSet
  <2>6. /\ u.int = s.int /\ u.wanUp = s.wanUp /\ u.mode = s.mode /\ u.wan = s.wan
        /\ u.cache = s.cache /\ u.valid = s.valid /\ u.ap = x /\ u.ext = s.ext
    BY DEF IpacmSet
  <2> HIDE DEF u, t
  <2>7. NoCache(u)
    BY <2>6 DEF Heard, LanOK, NoCache
  <2>8. t = u
    BY <2>3, <2>5, <2>7, SearchEmpty, UplinkKinds
  <2>9. \A g \in Families : g \in x.ip => (g \in x.up <=> g \in s.wanUp)
    BY <2>1, <1>1 DEF RulesNow
  <2>10. RulesNow(u)
    <3>1. \A g \in x.up \ x.ip : g \in s.wanUp
      BY <2>1, <1>1 DEF RulesNow
    <3>2. \A g \in Families : x.ul[g] = IF g \in x.down \cap x.up THEN {s.mode} ELSE {}
      BY <2>1, <1>1 DEF RulesNow
    <3> QED
      BY <3>1, <3>2, <2>1, <2>6 DEF RulesNow
  <2>11. LanOK(u)
    BY <2>6, <2>9, <2>10, ApLan
  <2>12. ApSeen(u) = ApStep(ApSeen(s), ev)
    BY <2>1, <2>6, <1>2 DEF ApSeen
  <2> QED
    BY <2>6, <2>8, <2>11, <2>12 DEF LanStep, t
<1> QED
  BY <1>3, <1>4

(* The access point goes. *)
LEMMA ApDownLan ==
  ASSUME NEW s \in IpacmSet, NEW ev, Heard(s), ev.what = "linkDown", ev.iface = Ap
  PROVE  LanStep(s, ApDown(s), ev)
<1> DEFINE t == ApDown(s)
           r4 == IF "v4" \in s.wanUp THEN NoUplinkRules(s, "v4", s.mode) ELSE s
           r6 == IF "v6" \in s.wanUp THEN NoUplinkRules(r4, "v6", r4.mode) ELSE r4
<1>1. t = [r6 EXCEPT !.ap = NoAp, !.nat[Ap] = {}]
  BY DEF ApDown, ForEach
<1>2. s.mode \in {"none", "sta", "q6"}
  BY DEF IpacmSet
<1>3. ApOnly(s, s)
  BY DEF ApOnly
<1>4. ApOnly(s, r4) /\ r4 \in IpacmSet
  BY <1>2, <1>3, UplinkRulesFacts, FamilyNames DEF ApOnly
<1> HIDE DEF r4
<1>5. ApOnly(s, r6)
  <2>1. r4.mode \in {"none", "sta", "q6"}
    BY <1>4 DEF IpacmSet
  <2>2. ApOnly(r4, NoUplinkRules(r4, "v6", r4.mode))
    BY <2>1, <1>4, UplinkRulesFacts, FamilyNames
  <2> QED
    BY <2>2, <1>4, ApTrans
<1> HIDE DEF r6
<1>6. r6 \in IpacmSet /\ Apart(r6) = Apart(s)
  BY <1>5 DEF ApOnly
<1>7. /\ t.int = r6.int /\ t.wanUp = r6.wanUp /\ t.mode = r6.mode /\ t.wan = r6.wan
      /\ t.cache = r6.cache /\ t.valid = r6.valid /\ t.ap = NoAp
  BY <1>1, <1>6 DEF IpacmSet
<1> HIDE DEF t
<1>8. /\ t.int = s.int /\ t.wanUp = s.wanUp /\ t.mode = s.mode /\ t.wan = s.wan
      /\ t.cache = s.cache /\ t.valid = s.valid
  BY <1>6, <1>7 DEF Apart
<1>9. RulesNow(t)
  BY <1>7 DEF RulesNow, NoAp
<1>10. t.ap.ip = {}
  BY <1>7 DEF NoAp
<1>11. LanOK(t)
  BY <1>8, <1>9, <1>10, ApLan
<1>12. ApSeen(t) = ApStep(ApSeen(s), ev)
  BY <1>7 DEF ApSeen, ApStep
<1> QED
  BY <1>8, <1>11, <1>12 DEF LanStep, t

(* Events at the end that change nothing of the access point's view b.         *)
ApTrails(s, t, b) == \A a : ApLeads(a, s.ext, b) => ApLeads(a, t.ext, b)

(* Events that are not the access point's.                                     *)
LEMMA ApIdle ==
  ASSUME NEW a, NEW ev,
         \/ ev.what \in {"neighbour", "routeAdd", "routeDel", "firewall"}
         \/ ev.what \in {"linkUp", "address", "linkDown"} /\ ev.iface # Ap
  PROVE  ApStep(a, ev) = a
BY DEF ApStep

(* Nothing happens. *)
LEMMA NothingLan ==
  ASSUME NEW s, NEW ev, Heard(s), ApStep(ApSeen(s), ev) = ApSeen(s)
  PROVE  LanStep(s, s, ev)
BY DEF LanStep, Heard

(* One event more. *)
LEMMA ApTrailsOne ==
  ASSUME NEW s \in IpacmSet, NEW ev \in ExtEvents, NEW b, ApGuard(b, ev), ApStep(b, ev) = b
  PROVE  ApTrails(s, External(s, ev), b)
<1>1. External(s, ev).ext = Append(s.ext, ev) /\ s.ext \in Seq(ExtEvents)
  BY ExternalFacts
<1>2. ASSUME NEW a, ApLeads(a, s.ext, b) PROVE ApLeads(a, Append(s.ext, ev), b)
  BY <1>1, <1>2, ApLeadsAppend
<1> QED
  BY <1>1, <1>2 DEF ApTrails

(* Addresses that are announced again change nothing in the view.              *)
LEMMA ApKnownTrails ==
  ASSUME NEW s \in IpacmSet, NEW i \in Ifaces, NEW b \in ApViews, NEW S \in SUBSET All,
         i = Ap => S \subseteq b.ip
  PROVE  LET t == Announced(s, i, S)
         IN  t \in IpacmSet /\ Inner(t) = Inner(s) /\ ApTrails(s, t, b)
<1> DEFINE put(u, f) == External(u, Ev("address", i, f))
           OK(u) == u \in IpacmSet /\ Inner(u) = Inner(s) /\ ApTrails(s, u, b)
           t4 == IF "v4" \in S THEN put(s, "v4") ELSE s
           t6 == IF "v6" \in S THEN put(t4, "v6") ELSE t4
<1>1. OK(s)
  BY DEF ApTrails
<1>2. ASSUME NEW f \in S, NEW u, OK(u) PROVE OK(put(u, f))
  <2> DEFINE ev == Ev("address", i, f)
  <2>1. f \in All /\ f \in Families
    BY DEF All
  <2>2. ev \in ExtEvents
    BY <2>1, UplinkKinds DEF Ev, ExtEvents
  <2>3. ev.what = "address" /\ ev.iface = i /\ ev.fam = f
    BY DEF Ev
  <2> HIDE DEF ev
  <2>4. ApGuard(b, ev)
    BY <2>1, <2>3 DEF ApGuard
  <2>5. ApStep(b, ev) = b
    <3>1. CASE i # Ap
      BY <3>1, <2>3, ApIdle
    <3>2. CASE i = Ap /\ b.on
      <4>1. ApStep(b, ev) = [b EXCEPT !.ip = @ \cup {f}]
        BY <3>2, <2>3 DEF ApStep
      <4>2. b.ip \cup {f} = b.ip
        BY <3>2
      <4> QED
        BY <4>1, <4>2 DEF ApViews
    <3>3. CASE i = Ap /\ ~b.on
      BY <3>3, <2>3 DEF ApStep
    <3> QED
      BY <3>1, <3>2, <3>3
  <2>6. External(u, ev) \in IpacmSet /\ Inner(External(u, ev)) = Inner(u)
    BY <1>2, <2>2, ExternalFacts
  <2>7. ApTrails(u, External(u, ev), b)
    BY <1>2, <2>2, <2>4, <2>5, ApTrailsOne
  <2>8. OK(External(u, ev))
    BY <2>6, <2>7, <1>2 DEF ApTrails
  <2> QED
    BY <2>8 DEF ev
<1> HIDE DEF OK, put
<1>3. OK(t4)
  BY <1>1, <1>2
<1> HIDE DEF t4
<1>4. OK(t6)
  BY <1>2, <1>3
<1>5. Announced(s, i, S) = t6
  BY DEF Announced, t4, put
<1> HIDE DEF t6
<1> QED
  BY <1>4, <1>5 DEF OK

(* An interface comes up. *)
LEMMA LinkUpLan ==
  ASSUME NEW s \in IpacmSet, NEW i \in Ifaces, NEW ev, NEW b \in ApViews, Heard(s),
         ev.what = "linkUp", ev.iface = i, net[i].addrs \in SUBSET All,
         i = Ap => net[i].addrs \subseteq b.ip
  PROVE  LanStep(s, LinkUp(s, i), ev) /\ ApTrails(s, LinkUp(s, i), b)
<1> DEFINE k == Announced(s, i, net[i].addrs)
           t == LinkUp(s, i)
           up == [k EXCEPT !.ap.on = TRUE]
           more == [k EXCEPT !.wans = Append(@, i)]
<1>1. t = IF i = Ap THEN IF s.ap.on THEN s ELSE up ELSE IF Instance(s, i) THEN s ELSE more
  BY DEF LinkUp, ForEach, Announced
<1>2. k \in IpacmSet /\ Inner(k) = Inner(s) /\ ApTrails(s, k, b)
  BY ApKnownTrails
<1> HIDE DEF k
<1>3. k.cache = s.cache /\ k.wan = s.wan /\ k.wanUp = s.wanUp /\ k.ap = s.ap /\ k.int = s.int
      /\ k.mode = s.mode /\ k.valid = s.valid
  BY <1>2 DEF Inner
<1>4. s.ap \in ApSet /\ RulesNow(s)
      /\ \A g \in Families : g \in s.ap.ip => (g \in s.ap.up <=> g \in s.wanUp)
  BY HeardFacts
<1>5. ApTrails(s, s, b)
  BY DEF ApTrails
<1> HIDE DEF t
<1>6. CASE i = Ap /\ s.ap.on
  <2>1. ApStep(ApSeen(s), ev) = ApSeen(s)
    BY <1>4, <1>6 DEF ApStep, ApSeen, ApSet
  <2>2. t = s
    BY <1>1, <1>6
  <2> QED
    BY <2>1, <2>2, <1>5, NothingLan DEF t
<1>7. CASE i = Ap /\ ~s.ap.on
  <2>1. t = up
    BY <1>1, <1>7
  <2>2. /\ t.int = s.int /\ t.wanUp = s.wanUp /\ t.mode = s.mode /\ t.wan = s.wan
        /\ t.cache = s.cache /\ t.valid = s.valid /\ t.ext = k.ext
        /\ t.ap.on = TRUE /\ t.ap.ip = s.ap.ip /\ t.ap.down = s.ap.down
        /\ t.ap.up = s.ap.up /\ t.ap.ul = s.ap.ul
    BY <2>1, <1>2, <1>3, <1>4 DEF IpacmSet, ApSet
  <2>3. RulesNow(t)
    BY <2>2, <1>4 DEF RulesNow
  <2>4. LanOK(t)
    BY <2>2, <2>3, <1>4, ApLan
  <2>5. ApSeen(t) = ApStep(ApSeen(s), ev)
    BY <2>2, <1>7 DEF ApStep, ApSeen
  <2>6. ApTrails(s, t, b)
    BY <2>2, <1>2 DEF ApTrails
  <2> QED
    BY <2>2, <2>4, <2>5, <2>6 DEF LanStep, t
<1>8. CASE i # Ap
  <2>1. ApStep(ApSeen(s), ev) = ApSeen(s)
    BY <1>8, ApIdle
  <2>2. CASE t = s
    BY <2>1, <2>2, <1>5, NothingLan DEF t
  <2>3. CASE t = more
    <3>1. /\ t.int = s.int /\ t.wanUp = s.wanUp /\ t.mode = s.mode /\ t.wan = s.wan
          /\ t.cache = s.cache /\ t.valid = s.valid /\ t.ext = k.ext /\ t.ap = s.ap
      BY <2>3, <1>2, <1>3 DEF IpacmSet
    <3>2. LanOK(s) /\ \A j \in Uplinks : s.wan[j].ip \subseteq All
      BY DEF Heard, LanOK, ModeOK
    <3>3. LanOK(t) /\ ApSeen(t) = ApSeen(s)
      BY <3>1, <3>2, SameLan
    <3>4. ApTrails(s, t, b)
      BY <3>1, <1>2 DEF ApTrails
    <3> QED
      BY <3>1, <3>3, <3>4, <2>1 DEF LanStep, t
  <2> QED
    BY <1>1, <1>8, <2>2, <2>3
<1> QED
  BY <1>6, <1>7, <1>8

(* An uplink gets an address. *)
LEMMA WanAddressLan ==
  ASSUME NEW s \in IpacmSet, NEW i \in Uplinks, NEW f \in Families, NEW ev, Heard(s),
         ApGuard(ApSeen(s), ev), ev.what = "address", ev.iface = i, ev.fam = f
  PROVE  LanStep(s, WanAddress(s, i, f), ev) /\ WanAddress(s, i, f).ext = s.ext
<1> DEFINE t == WanAddress(s, i, f)
           u == Addressed(s, i, f)
           w == s.wan[i]
           x == [w EXCEPT !.ip = @ \cup {f}]
           y == [s.nat EXCEPT ![i] = @ \cup {f}]
<1>1. ApStep(ApSeen(s), ev) = ApSeen(s)
  BY UplinkKinds, ApIdle
<1>2. f \in All /\ LanOK(s) /\ NoCache(s) /\ ModeOK(s)
  BY DEF ApGuard, Heard, LanOK
<1>3. CASE f \in w.ip
  <2>1. t = s
    BY <1>3 DEF WanAddress
  <2> QED
    BY <2>1, <1>1, NothingLan
<1>4. CASE f \notin w.ip
  <2>1. t = SearchCache(u, i)
    BY <1>4 DEF WanAddress, Addressed
  <2>2. w \in WanSet /\ s.nat \in [Ifaces -> SUBSET Families]
    BY DEF IpacmSet
  <2>3. x \in WanSet /\ x.ip = w.ip \cup {f} /\ Held(x) = Held(w)
    BY <2>2 DEF WanSet, Held, Wait
  <2>4. y \in [Ifaces -> SUBSET Families]
    BY <2>2, UplinkKinds
  <2>5. u = [s EXCEPT !.wan[i] = x, !.nat = y]
    BY DEF Addressed, IpacmSet
  <2> HIDE DEF x, y, u
  <2>6. /\ u \in IpacmSet /\ u.wan[i] = x /\ \A j \in Uplinks : j # i => u.wan[j] = s.wan[j]
        /\ u.int = s.int /\ u.wanUp = s.wanUp /\ u.mode = s.mode /\ u.ap = s.ap
        /\ u.cache = s.cache /\ u.valid = s.valid /\ u.ext = s.ext
    BY <2>3, <2>4, <2>5 DEF IpacmSet
  <2>7. \A j \in Uplinks : u.wan[j].ip \subseteq All /\ Held(u.wan[j]) \subseteq Held(s.wan[j])
    BY <2>3, <2>6, <1>2 DEF ModeOK
  <2>8. LanOK(u) /\ ApSeen(u) = ApSeen(s)
    BY <2>6, <2>7, <1>2, SameLan
  <2>9. NoCache(u)
    BY <2>8 DEF LanOK
  <2>10. t = u
    BY <2>1, <2>6, <2>9, UplinkKinds, SearchEmpty
  <2> QED
    BY <2>6, <2>8, <2>10, <1>1 DEF LanStep
<1> QED
  BY <1>3, <1>4

(* The firewall is read again. *)
LEMMA FirewallLan ==
  ASSUME NEW s \in IpacmSet, NEW ev, Heard(s), ev.what = "firewall"
  PROVE  LanStep(s, FirewallChange(s), ev)
<1> DEFINE t == FirewallChange(s)
           new(i) == IF Instance(s, i) THEN Reread(s.wan[i], Redone(s.wan[i], i)) ELSE s.wan[i]
           z == [i \in Uplinks |-> new(i)]
<1>1. ASSUME NEW i \in Uplinks
      PROVE  new(i).ip = s.wan[i].ip /\ Held(new(i)) = Held(s.wan[i])
  <2>1. s.wan[i] \in WanSet
    BY DEF IpacmSet
  <2> QED
    BY <2>1 DEF Reread, WanSet, Held, Wait
<1>2. t = [s EXCEPT !.wan = z]
  BY DEF FirewallChange
<1> HIDE DEF new
<1>3. \A i \in Uplinks : z[i] = new(i)
  OBVIOUS
<1> HIDE DEF z, t
<1>4. /\ t.int = s.int /\ t.wanUp = s.wanUp /\ t.mode = s.mode /\ t.ap = s.ap
      /\ t.cache = s.cache /\ t.valid = s.valid /\ t.wan = z
  BY <1>2 DEF IpacmSet
<1>5. \A i \in Uplinks : t.wan[i].ip \subseteq All /\ Held(t.wan[i]) \subseteq Held(s.wan[i])
  BY <1>1, <1>3, <1>4 DEF Heard, LanOK, ModeOK
<1>6. LanOK(t) /\ ApSeen(t) = ApSeen(s)
  BY <1>4, <1>5, SameLan DEF Heard
<1>7. ApStep(ApSeen(s), ev) = ApSeen(s)
  BY ApIdle
<1> QED
  BY <1>4, <1>6, <1>7 DEF LanStep, t

(* What the view shows of an uplink's routes.                                  *)
LEMMA ViewHeld ==
  ASSUME NEW s \in IpacmSet, NEW j \in Uplinks
  PROVE  /\ Held(View(s).wan[j]) = Held(s.wan[j]) /\ Wait(View(s).wan[j]) = Wait(s.wan[j])
         /\ View(s).wan[j].active = s.wan[j].active /\ View(s).wan[j].ip = s.wan[j].ip
         /\ View(s).wan[j].isGw = s.wan[j].isGw
<1>1. View(s).wan[j] = Seen(s.wan[j]) /\ s.wan[j] \in WanSet
  BY ViewFacts
<1> QED
  BY <1>1, SeenFacts DEF Held, Wait

(* A route is added. *)
LEMMA RouteAddLan ==
  ASSUME NEW s \in IpacmSet, NEW i \in Uplinks, NEW f \in Families, NEW ev, file \in Nat,
         Heard(s), ev.what = "routeAdd", RouteGuard(env, View(s), i, f)
  PROVE  LanStep(s, RouteAdd(s, i, f), ev)
<1> DEFINE t == RouteAdd(s, i, f)
<1>1. t = IF Instance(s, i) THEN OwnRouteAdd(s, i, f) ELSE s
  BY RouteAddOwn
<1>2. ApStep(ApSeen(s), ev) = ApSeen(s)
  BY ApIdle
<1> HIDE DEF t
<1>3. CASE ~Instance(s, i)
  BY <1>1, <1>2, <1>3, NothingLan DEF t
<1>4. CASE Instance(s, i)
  <2>1. t = OwnRouteAdd(s, i, f)
    BY <1>1, <1>4
  <2>2. Own(s, t, i) /\ Brings(s, t, i)
    BY <2>1, OwnRouteAddFacts, OwnRouteAddBrings
  <2>3. t \in IpacmSet /\ t.ap = s.ap /\ t.cache = s.cache /\ t.valid = s.valid
        /\ \A j \in Uplinks : j # i => t.wan[j] = s.wan[j]
    BY <2>2 DEF Own, Rest, Grows
  <2>4. \A j \in Uplinks : j # i => Held(s.wan[j]) = {}
    BY ViewHeld DEF RouteGuard
  <2>5. LanOK(t)
    BY <2>2, <2>3, <2>4, BringsLan DEF Heard
  <2>6. ApSeen(t) = ApSeen(s)
    BY <2>3 DEF ApSeen
  <2> QED
    BY <2>3, <2>5, <2>6, <1>2 DEF LanStep, t
<1> QED
  BY <1>3, <1>4

(* A neighbour becomes known. *)
LEMMA NeighbourLan ==
  ASSUME NEW s \in IpacmSet, NEW i \in Uplinks, NEW f \in Families, NEW ev, file \in Nat,
         Heard(s), ev.what = "neighbour", ViewOK(env, View(s))
  PROVE  LanStep(s, Neighbour(s, i, f), ev)
<1> DEFINE t == Neighbour(s, i, f)
           w == s.wan[i]
           w0 == [w EXCEPT !.neigh = @ \cup {f}]
           s0 == [s EXCEPT !.wan[i].neigh = @ \cup {f}]
           h == StaHeader(s0, i)
<1>1. w \in WanSet
  BY DEF IpacmSet
<1>2. w0 \in WanSet /\ w0.active = w.active /\ w0.rules = w.rules
  BY <1>1 DEF WanSet
<1>3. s0 = [s EXCEPT !.wan[i] = w0]
  BY DEF IpacmSet
<1>4. t = s \/ t = h
  BY DEF Neighbour
<1>5. Brings(s, t, i) /\ (Wait(s.wan[i]) = {} => t.mode = s.mode)
  BY NeighbourBrings
<1> HIDE DEF w0, w, s0, t
<1>6. Own(s, s0, i) /\ s0 \in IpacmSet
  BY <1>2, <1>3, OwnSame DEF Own, w
<1>7. Own(s, h, i)
  BY <1>6, StaHeaderFacts, OwnTrans
<1>8. Own(s, s, i)
  BY DEF Own, Grows
<1> HIDE DEF h
<1>9. t \in IpacmSet /\ t.ap = s.ap /\ t.cache = s.cache /\ t.valid = s.valid
      /\ \A j \in Uplinks : j # i => t.wan[j] = s.wan[j]
  BY <1>4, <1>7, <1>8 DEF Own, Rest, Grows
<1>10. t.mode = s.mode \/ \A j \in Uplinks : j # i => Held(s.wan[j]) = {}
  <2> SUFFICES ASSUME Wait(s.wan[i]) # {}, NEW j \in Uplinks, j # i PROVE Held(s.wan[j]) = {}
    BY <1>5
  <2>1. Held(s.wan[i]) # {}
    BY DEF Held
  <2> QED
    BY <2>1, ViewHeld DEF ViewOK
<1>11. LanOK(t)
  BY <1>5, <1>9, <1>10, BringsLan DEF Heard
<1>12. ApSeen(t) = ApSeen(s) /\ ApStep(ApSeen(s), ev) = ApSeen(s)
  BY <1>9, ApIdle DEF ApSeen
<1> QED
  BY <1>9, <1>11, <1>12 DEF LanStep, t

(* A route is deleted. *)
LEMMA RouteDelLan ==
  ASSUME NEW s \in IpacmSet, NEW i \in Uplinks, NEW f \in Families, NEW ev,
         Heard(s), Distinct(s.wans), ev.what = "routeDel", ev.iface = i, ev.fam = f,
         ViewOK(env, View(s)), Guard(env, View(s), ev), ApGuard(ApSeen(s), ev)
  PROVE  LanStep(s, RouteDel(s, i, f), ev)
<1> DEFINE t == RouteDel(s, i, f)
           u == Internal(s, Ev("wanDown", i, f))
<1>1. PICK S \in SUBSET s.wan[i].active : Drops(s, t, i, S)
  BY RouteDelDrops
<1>2. t = s \/ t = RouteDown(u, i, f)
  BY DEF RouteDel
<1>3. Handled(s, t, ev) /\ HalKept(s, t)
  BY RouteDelHandled
<1>4. "wanDown" \in {"wanUp", "wanDown"}
  OBVIOUS
<1>5. u \in IpacmSet /\ Rest(u) = Rest(s)
  BY <1>4, InternalFacts
<1> HIDE DEF t, u
<1>6. Rest(RouteDown(u, i, f)) = Rest(u)
  BY <1>5, RouteDownFacts
<1>7. t \in IpacmSet /\ t.ap = s.ap /\ t.cache = s.cache /\ t.valid = s.valid
  BY <1>2, <1>3, <1>5, <1>6 DEF Rest, Handled, HalKept
<1>8. S # {} => s.mode = Kind(i)
  <2>1. S # {} => Held(s.wan[i]) # {}
    BY DEF Held
  <2> QED
    BY <2>1 DEF Heard, LanOK, ModeOK
<1>9. \A j \in Uplinks : s.wan[j].active \subseteq s.wan[j].ip
  <2> SUFFICES ASSUME NEW j \in Uplinks PROVE s.wan[j].active \subseteq s.wan[j].ip
    OBVIOUS
  <2>1. Held(View(s).wan[j]) \subseteq View(s).wan[j].ip
    BY DEF ViewOK, WanOK
  <2> QED
    BY <2>1, ViewHeld DEF Held
<1>10. Whole(s.ap.ip)
  BY DEF ApGuard, ApSeen
<1>11. S \in SUBSET Families
  BY DEF IpacmSet, WanSet
<1>12. LanOK(t)
  BY <1>1, <1>7, <1>8, <1>9, <1>10, <1>11, DropsLan DEF Heard
<1>13. ApSeen(t) = ApSeen(s) /\ ApStep(ApSeen(s), ev) = ApSeen(s)
  BY <1>7, ApIdle DEF ApSeen
<1> QED
  BY <1>7, <1>12, <1>13 DEF LanStep, t

(* An uplink goes. *)
LEMMA WanDownLan ==
  ASSUME NEW s \in IpacmSet, NEW i \in Uplinks, NEW ev, Steady(env),
         Heard(s), Distinct(s.wans), Instance(s, i), ev.what = "linkDown", ev.iface = i,
         ViewOK(env, View(s)), Guard(env, View(s), ev), ApGuard(ApSeen(s), ev)
  PROVE  LanStep(s, WanDown(s, i), ev)
<1> DEFINE t == WanDown(s, i)
           S == Falls(s, i)
<1>1. Drops(s, t, i, S) /\ t.ap = s.ap /\ t.valid = s.valid
  BY WanDownDrops
<1>2. WanGone(s, t, i)
  BY WanDownFacts
<1> HIDE DEF t
<1>3. t \in IpacmSet /\ t.cache = s.cache
  BY <1>2 DEF WanGone
<1>4. s.wan[i] \in WanSet
  BY DEF IpacmSet
<1>5. S \in SUBSET Families
  BY <1>4 DEF Falls, WanSet
<1>6. S # {} => s.mode = Kind(i)
  <2> SUFFICES ASSUME S # {} PROVE s.wan[i].active # {}
    BY DEF Heard, LanOK, ModeOK, Held
  <2>1. CASE i \in Stas
    BY <2>1 DEF Falls, Kind
  <2>2. CASE i \notin Stas
    <3>1. i \in Modems
      BY <2>2, UplinkKinds
    <3>2. Gate(View(s))
      BY <3>1 DEF Guard
    <3>3. s.wan[i].isGw = (s.wan[i].active # {})
      BY <3>1, <3>2, ViewHeld DEF Gate
    <3>4. s.wan[i].isGw
      BY <2>2 DEF Falls, Kind
    <3> QED
      BY <3>3, <3>4
  <2> QED
    BY <2>1, <2>2
<1>7. \A j \in Uplinks : s.wan[j].active \subseteq s.wan[j].ip
  <2> SUFFICES ASSUME NEW j \in Uplinks PROVE s.wan[j].active \subseteq s.wan[j].ip
    OBVIOUS
  <2>1. Held(View(s).wan[j]) \subseteq View(s).wan[j].ip
    BY DEF ViewOK, WanOK
  <2> QED
    BY <2>1, ViewHeld DEF Held
<1>8. Whole(s.ap.ip)
  BY DEF ApGuard, ApSeen
<1> HIDE DEF S
<1>9. LanOK(t)
  BY <1>1, <1>3, <1>5, <1>6, <1>7, <1>8, DropsLan DEF Heard
<1>10. ApSeen(t) = ApSeen(s) /\ ApStep(ApSeen(s), ev) = ApSeen(s)
  BY <1>1, UplinkKinds, ApIdle DEF ApSeen
<1> QED
  BY <1>1, <1>9, <1>10 DEF LanStep, t

(* Every event of the queue. *)
LEMMA ExtLan ==
  ASSUME NEW s \in IpacmSet, NEW ev \in ExtEvents, NEW b \in ApViews, file \in Nat, Steady(env),
         Distinct(s.wans), Heard(s), ViewOK(env, View(s)), Guard(env, View(s), ev),
         ApGuard(ApSeen(s), ev), \A i \in Ifaces : net[i].addrs \in SUBSET All,
         net[Ap].addrs \subseteq b.ip
  PROVE  LanStep(s, Handle(s, ev), ev) /\ ApTrails(s, Handle(s, ev), b)
<1> DEFINE i == ev.iface
           f == ev.fam
           t == Handle(s, ev)
<1>1. f \in Families /\ i \in Ifaces \cup {NoIface} /\ (i = NoIface => ev.what = "firewall")
      /\ ev.what \in {"linkUp", "address", "neighbour", "linkDown", "routeAdd", "routeDel",
                      "downAdd", "downDel", "firewall"}
  BY DEF ExtEvents
<1>2. \A u : u.ext = s.ext => ApTrails(s, u, b)
  BY DEF ApTrails
<1>3. i \in Ifaces /\ i # Ap => i \in Uplinks
  BY UplinkKinds
<1>4. CASE ev.what = "linkUp"
  <2>1. t = LinkUp(s, i)
    BY <1>4 DEF Handle
  <2> HIDE DEF t
  <2> QED
    BY <2>1, <1>1, <1>4, LinkUpLan DEF t
<1>5. CASE ev.what = "address" /\ i = Ap
  <2>1. t = IF s.ap.on THEN ApAddress(s, f) ELSE s
    BY <1>5 DEF Handle
  <2>2. s.ap.on \in BOOLEAN
    BY DEF IpacmSet, ApSet
  <2> HIDE DEF t
  <2>3. CASE s.ap.on = TRUE
    <3>1. LanStep(s, t, ev) /\ t.ext = s.ext
      BY <2>1, <2>3, <1>1, <1>5, ApAddressLan
    <3> QED
      BY <3>1, <1>2 DEF t
  <2>4. CASE s.ap.on = FALSE
    <3>1. ApStep(ApSeen(s), ev) = ApSeen(s)
      BY <1>5, <2>4 DEF ApStep, ApSeen
    <3> QED
      BY <2>1, <2>4, <3>1, <1>2, NothingLan DEF t
  <2> QED
    BY <2>2, <2>3, <2>4
<1>6. CASE ev.what \in {"address", "linkDown"} /\ i # Ap /\ ~Instance(s, i)
  <2>1. t = s
    BY <1>6 DEF Handle
  <2>2. ApStep(ApSeen(s), ev) = ApSeen(s)
    BY <1>6, ApIdle
  <2> HIDE DEF t
  <2> QED
    BY <2>1, <2>2, <1>2, NothingLan DEF t
<1>7. CASE ev.what = "address" /\ i # Ap /\ Instance(s, i)
  <2>1. t = WanAddress(s, i, f)
    BY <1>7 DEF Handle
  <2>2. i \in Uplinks
    BY <1>1, <1>3, <1>7
  <2> HIDE DEF t
  <2>3. LanStep(s, t, ev) /\ t.ext = s.ext
    BY <2>1, <2>2, <1>1, <1>7, WanAddressLan
  <2> QED
    BY <2>3, <1>2 DEF t
<1>8. CASE ev.what = "linkDown" /\ i = Ap
  <2>1. t = IF s.ap.on THEN ApDown(s) ELSE s
    BY <1>8 DEF Handle
  <2>2. s.ap.on \in BOOLEAN
    BY DEF IpacmSet, ApSet
  <2> HIDE DEF t
  <2>3. CASE s.ap.on = TRUE
    <3>1. LanStep(s, t, ev)
      BY <2>1, <2>3, <1>8, ApDownLan
    <3>2. Ap \notin View(s).inst
      BY ViewFacts, UplinkKinds DEF Views
    <3>3. Step(View(s), ev) = View(s)
      BY <3>2, <1>8, IdleStep
    <3>4. t.ext = s.ext
      BY <2>1, <2>3, <3>3, <1>8, ApDownHandled
    <3> QED
      BY <3>1, <3>4, <1>2 DEF t
  <2>4. CASE s.ap.on = FALSE
    <3>1. s.ap = NoAp
      BY <2>4, HeardFacts DEF RulesNow
    <3>2. ApSeen([ap |-> NoAp]) = ApSeen(s)
      BY <3>1 DEF ApSeen
    <3>3. ApStep(ApSeen(s), ev) = ApSeen(s)
      BY <1>8, <3>2 DEF ApStep
    <3> QED
      BY <2>1, <2>4, <3>3, <1>2, NothingLan DEF t
  <2> QED
    BY <2>2, <2>3, <2>4
<1>9. CASE ev.what = "linkDown" /\ i # Ap /\ Instance(s, i)
  <2>1. t = WanDown(s, i)
    BY <1>9 DEF Handle
  <2>2. i \in Uplinks
    BY <1>1, <1>3, <1>9
  <2> HIDE DEF t
  <2>3. LanStep(s, t, ev)
    BY <2>1, <2>2, <1>9, WanDownLan
  <2>4. t.ext = s.ext
    BY <2>1, <2>2, <1>9, WanDownFacts DEF WanGone
  <2> QED
    BY <2>3, <2>4, <1>2 DEF t
<1>10. CASE ev.what = "neighbour"
  <2>1. t = Neighbour(s, i, f)
    BY <1>10 DEF Handle
  <2>2. i \in Stas /\ i \in Uplinks
    BY <1>10, UplinkKinds DEF Guard
  <2> HIDE DEF t
  <2>3. LanStep(s, t, ev)
    BY <2>1, <2>2, <1>1, <1>10, NeighbourLan
  <2>4. t.ext = s.ext
    BY <2>1, <2>2, <1>1, <1>10, NeighbourHandled
  <2> QED
    BY <2>3, <2>4, <1>2 DEF t
<1>11. CASE ev.what = "routeAdd"
  <2>1. t = RouteAdd(s, i, f)
    BY <1>11 DEF Handle
  <2>2. RouteGuard(env, View(s), i, f) /\ i \in Uplinks
    BY <1>11 DEF Guard, RouteGuard
  <2> HIDE DEF t
  <2>3. LanStep(s, t, ev)
    BY <2>1, <2>2, <1>1, <1>11, RouteAddLan
  <2>4. t.ext = s.ext
    BY <2>1, <2>2, <1>1, <1>11, RouteAddHandled
  <2> QED
    BY <2>3, <2>4, <1>2 DEF t
<1>12. CASE ev.what = "routeDel"
  <2>1. t = RouteDel(s, i, f)
    BY <1>12 DEF Handle
  <2>2. i \in Uplinks
    BY <1>12 DEF Guard
  <2> HIDE DEF t
  <2>3. LanStep(s, t, ev)
    BY <2>1, <2>2, <1>1, <1>12, RouteDelLan
  <2>4. t.ext = s.ext
    BY <2>1, <2>2, <1>1, <1>12, RouteDelHandled
  <2> QED
    BY <2>3, <2>4, <1>2 DEF t
<1>13. CASE ev.what = "downAdd"
  <2>1. t = DownstreamAdd(s, f)
    BY <1>13 DEF Handle
  <2> HIDE DEF t
  <2>2. t.ext = s.ext
    BY <2>1, <1>1, TetherFacts DEF ApOnly, Apart
  <2>3. LanStep(s, t, ev)
    BY <2>1, <1>1, <1>13, DownAddLan
  <2> QED
    BY <2>2, <2>3, <1>2 DEF t
<1>14. CASE ev.what = "downDel"
  <2>1. t = DownstreamDel(s, f)
    BY <1>14 DEF Handle
  <2> HIDE DEF t
  <2>2. t.ext = s.ext
    BY <2>1, <1>1, TetherFacts DEF ApOnly, Apart
  <2>3. LanStep(s, t, ev)
    BY <2>1, <1>1, <1>14, DownDelLan
  <2> QED
    BY <2>2, <2>3, <1>2 DEF t
<1>15. CASE ev.what = "firewall"
  <2>1. t = FirewallChange(s)
    BY <1>15 DEF Handle
  <2> HIDE DEF t
  <2>2. t.ext = s.ext
    BY <2>1, <1>15, FirewallHandled
  <2>3. LanStep(s, t, ev)
    BY <2>1, <1>15, FirewallLan
  <2> QED
    BY <2>2, <2>3, <1>2 DEF t
<1> QED
  BY <1>1, <1>4, <1>5, <1>6, <1>7, <1>8, <1>9, <1>10, <1>11, <1>12, <1>13, <1>14, <1>15

(* The daemon's own events: the access point is told.                          *)
LEMMA IntLan ==
  ASSUME NEW s \in IpacmSet, s.int # <<>>, LanOK(s)
  PROVE  LET t == Handle([s EXCEPT !.int = Tail(@)], Head(s.int))
         IN  LanOK(t) /\ ApSeen(t) = ApSeen(s) /\ t.valid = s.valid /\ t.ext = s.ext
<1> DEFINE ev == Head(s.int)
           r == Tail(s.int)
           u == [s EXCEPT !.int = Tail(@)]
           i == ev.iface
           f == ev.fam
           t == Handle(u, ev)
<1>1. s.int \in Seq(IntEvents)
  BY DEF IpacmSet
<1>2. /\ r \in Seq(IntEvents) /\ Len(r) = Len(s.int) - 1 /\ Len(s.int) \in Nat /\ Len(s.int) >= 1
      /\ ev = s.int[1] /\ ev \in IntEvents
      /\ \A n \in 1 .. Len(r) : n + 1 \in 1 .. Len(s.int) /\ r[n] = s.int[n + 1]
  BY <1>1, TailElems
<1>3. u = [s EXCEPT !.int = r]
  OBVIOUS
<1> HIDE DEF r
<1>4. /\ u \in IpacmSet /\ u.int = r /\ u.wanUp = s.wanUp /\ u.mode = s.mode /\ u.ap = s.ap
      /\ u.cache = s.cache /\ u.wan = s.wan /\ u.valid = s.valid /\ u.ext = s.ext
  BY <1>2, <1>3 DEF IpacmSet
<1> HIDE DEF u, ev
<1>5. ev \in News(s) /\ News(u) \subseteq News(s) /\ \A x \in News(s) : x = ev \/ x \in News(u)
  <2>1. News(s) = {s.int[n] : n \in 1 .. Len(s.int)} /\ News(u) = {r[n] : n \in 1 .. Len(r)}
    BY <1>1, <1>2, <1>4 DEF News, ToSet
  <2>2. 1 \in 1 .. Len(s.int)
    BY <1>2
  <2>3. ASSUME NEW x \in News(u) PROVE x \in News(s)
    <3>1. PICK n \in 1 .. Len(r) : x = r[n]
      BY <2>1, <2>3
    <3> QED
      BY <3>1, <2>1, <1>2
  <2>4. ASSUME NEW x \in News(s), x # ev PROVE x \in News(u)
    <3>1. PICK n \in 1 .. Len(s.int) : x = s.int[n]
      BY <2>1, <2>4
    <3>2. n # 1
      BY <3>1, <2>4, <1>2
    <3>3. n - 1 \in 1 .. Len(r) /\ (n - 1) + 1 = n
      BY <3>2, <1>2
    <3>4. r[n - 1] = s.int[n]
      BY <3>3, <1>2
    <3> QED
      BY <3>1, <3>3, <3>4, <2>1
  <2> QED
    BY <2>1, <2>2, <2>3, <2>4, <1>2
<1>6. /\ f \in Families /\ Kind(i) = u.mode /\ ev.what \in {"wanUp", "wanDown"}
      /\ (ev.what = "wanUp" <=> f \in u.wanUp) /\ (ev.what = "wanDown" => Whole(u.ap.ip))
  BY <1>2, <1>4, <1>5 DEF LanOK, NewsOK, IntEvents
<1>7. ASSUME NEW g \in Families, g # f PROVE Knows(u, g)
  <2>1. Told(s, g) => Told(u, g)
    BY <1>5, <1>7 DEF Told
  <2>2. Knows(s, g)
    BY DEF LanOK
  <2> QED
    BY <2>1, <2>2, <1>4 DEF Knows
<1>8. NewsOK(u) /\ RulesNow(u) /\ ModeOK(u) /\ NoCache(u)
  BY <1>4, <1>5 DEF LanOK, NewsOK, RulesNow, ModeOK, NoCache
<1>9. Apart(t) = Apart(u) /\ ApSeen(t) = ApSeen(u) /\ RulesNow(t) /\ \A g \in Families : Knows(t, g)
  <2>1. CASE ev.what = "wanUp"
    <3>1. t = WanUpTether(u, i, f)
      BY <2>1 DEF Handle
    <3> HIDE DEF t
    <3>2. ApOnly(u, t)
      BY <3>1, <1>4, <1>6, TetherFacts
    <3>3. ApSeen(t) = ApSeen(u) /\ RulesNow(t) /\ \A g \in Families : Knows(t, g)
      BY <2>1, <3>1, <1>4, <1>6, <1>7, <1>8, TetherUpLan
    <3> QED
      BY <3>2, <3>3 DEF ApOnly
  <2>2. CASE ev.what = "wanDown"
    <3>1. t = WanDownTether(u, i, f)
      BY <2>2 DEF Handle
    <3> HIDE DEF t
    <3>2. ApOnly(u, t)
      BY <3>1, <1>4, <1>6, TetherFacts
    <3>3. f \notin u.wanUp
      BY <2>2, <1>6
    <3>4. ApSeen(t) = ApSeen(u) /\ RulesNow(t) /\ \A g \in Families : Knows(t, g)
      BY <2>2, <3>1, <3>3, <1>4, <1>6, <1>7, <1>8, TetherDownLan
    <3> QED
      BY <3>2, <3>4 DEF ApOnly
  <2> QED
    BY <1>6, <2>1, <2>2
<1> HIDE DEF t
<1>10. t.valid = u.valid /\ t.ext = u.ext
  BY <1>9 DEF Apart
<1>11. /\ News(t) = News(u) /\ t.wanUp = u.wanUp /\ t.mode = u.mode
       /\ ModeOK(t) /\ NoCache(t)
  BY <1>8, <1>9, ApartFacts
<1>12. NewsOK(t)
  BY <1>8, <1>9, <1>11 DEF NewsOK, ApSeen
<1>13. LanOK(t)
  BY <1>9, <1>11, <1>12 DEF LanOK
<1>14. ApSeen(t) = ApSeen(s)
  BY <1>4, <1>9 DEF ApSeen
<1> QED
  BY <1>4, <1>10, <1>13, <1>14 DEF t, u, ev

-----------------------------------------------------------------------------
(* The invariant of the access point. *)

(* Calls look at the access point before they act: its addresses are still     *)
(* there, offload was started for its downstreams, and it is whole when the    *)
(* upstream changes.                                                           *)
ApCall(s, n, c, w) ==
  /\ c.what # "stop" /\ (c.what \in {"upstream", "downstream"} => c.ready = TRUE)
  /\ c.what = "downstream" => c.fams # {} /\ c.fams \subseteq n[Ap].addrs \cap w.down
  /\ c.what = "noDownstream" => s.valid = TRUE /\ c.fams \cap w.down = {}
  /\ c.what \in {"upstream", "clear"} => Whole(n[Ap].addrs)
  /\ w.down # {} => s.valid = TRUE \/ c.what = "downstream"
(* In the end the access point is as the kernel has it, with the downstreams   *)
(* the framework asked for.                                                    *)
ApFinal(n, c, w, b) ==
  /\ b.on = n[Ap].link /\ b.ip = n[Ap].addrs
  /\ b.down = (w.down \ (IF c.what = "downstream" THEN c.fams ELSE {}))
                \cup (IF c.what = "noDownstream" THEN c.fams ELSE {})
LanPath(s, n, c, w) == \E b : ApLeads(ApSeen(s), s.ext, b) /\ ApFinal(n, c, w, b)
LInv == Shares(env) => LanOK(ipacm) /\ ApCall(ipacm, net, call, want)
                       /\ LanPath(ipacm, net, call, want)

(* What is shown of a state holds of it when it is the next.                   *)
LEMMA LanDone ==
  ASSUME NEW t, NEW b, ipacm' = t, env' = env, LanOK(t), ApCall(t, net', call', want'),
         ApLeads(ApSeen(t), t.ext, b), ApFinal(net', call', want', b)
  PROVE  LInv'
<1>1. All' = All
  BY DEF All
<1>2. \A S : Whole(S)' <=> Whole(S)
  BY <1>1 DEF Whole
<1>3. LanOK(ipacm)'
  BY <1>1, <1>2 DEF LanOK, NewsOK, News, Knows, Told, RulesNow, ModeOK, NoCache
<1>4. ApCall(ipacm, net, call, want)'
  BY <1>2 DEF ApCall
<1>5. LanPath(ipacm, net, call, want)'
  <2>1. \A a : ApOK(a)' <=> ApOK(a)
    BY <1>1 DEF ApOK
  <2>2. \A a, ev : ApGuard(a, ev)' <=> ApGuard(a, ev)
    BY <1>1, <1>2 DEF ApGuard
  <2>3. ApLeads(ApSeen(ipacm), ipacm.ext, b)'
    BY <2>1, <2>2 DEF ApLeads, ApSeen
  <2>4. ApFinal(net, call, want, b)'
    BY DEF ApFinal
  <2> QED
    BY <2>3, <2>4 DEF LanPath
<1> QED
  BY <1>3, <1>4, <1>5 DEF LInv

(* At first there is no access point and nothing is asked for.                 *)
LEMMA InitLan == Init => LInv
<1> SUFFICES ASSUME Init
             PROVE  LInv
  OBVIOUS
<1>1. IInv
  BY InitInv
<1>2. ipacm \in IpacmSet
  BY <1>1 DEF IInv, TypeOK
<1>3. /\ ipacm.ap = NoAp /\ ipacm.int = <<>> /\ ipacm.ext = <<>> /\ ipacm.wanUp = {}
      /\ \A k \in Places : ipacm.cache[k] = NoEntry
      /\ \A i \in Uplinks : ipacm.wan[i] = NoWan
  BY DEF Init, Places
<1>4. News(ipacm) = {}
  BY <1>3 DEF News, ToSet
<1>5. NewsOK(ipacm)
  BY <1>4 DEF NewsOK
<1>6. NoAp.ip = {} /\ NoAp.up = {} /\ NoAp.down = {} /\ \A f \in Families : NoAp.ul[f] = {}
  BY DEF NoAp
<1>7. (\A f \in Families : Knows(ipacm, f)) /\ RulesNow(ipacm)
  BY <1>3, <1>6 DEF Knows, RulesNow
<1>8. ModeOK(ipacm) /\ NoCache(ipacm)
  <2>1. NoWan.ip = {} /\ Held(NoWan) = {}
    BY DEF NoWan, Held, Wait
  <2> QED
    BY <2>1, <1>3 DEF ModeOK, NoCache
<1>9. LanOK(ipacm)
  BY <1>5, <1>7, <1>8 DEF LanOK
<1>10. call.what = "none" /\ want.down = {}
  BY DEF Init, NoCall
<1>11. ApCall(ipacm, net, call, want)
  BY <1>10 DEF ApCall
<1>12. ApSeen(ipacm) = [on |-> FALSE, ip |-> {}, down |-> {}]
  BY <1>3 DEF ApSeen, NoAp
<1>13. ApSeen(ipacm) \in ApViews /\ ApOK(ApSeen(ipacm))
  BY <1>12 DEF ApViews, ApOK
<1>14. ApLeads(ApSeen(ipacm), ipacm.ext, ApSeen(ipacm))
  BY <1>3, <1>13, ApLeadsNil
<1>15. net[Ap].link = FALSE /\ net[Ap].addrs = {}
  BY UplinkKinds DEF Init
<1>16. ApFinal(net, call, want, ApSeen(ipacm))
  <2>1. /\ (IF call.what = "downstream" THEN call.fams ELSE {}) = {}
        /\ (IF call.what = "noDownstream" THEN call.fams ELSE {}) = {}
    BY <1>10
  <2>2. ApSeen(ipacm).down = {} /\ ({} \ {}) \cup {} = {}
    BY <1>12
  <2>3. ApSeen(ipacm).on = FALSE /\ ApSeen(ipacm).ip = {}
    BY <1>12
  <2> QED
    BY <2>1, <2>2, <2>3, <1>10, <1>15 DEF ApFinal
<1> QED
  BY <1>9, <1>11, <1>14, <1>16 DEF LInv, LanPath

(* Addresses are of families there are. *)
LEMMA AddressesAll ==
  ASSUME IInv
  PROVE  \A i \in Ifaces : net[i].addrs \in SUBSET All /\ net[i].addrs \in SUBSET Families
<1>1. \A i \in Ifaces : net[i].addrs \in SUBSET Families
  BY DEF IInv, TypeOK, NetSet
<1>2. "v6" \notin env => \A i \in Ifaces : "v6" \notin net[i].addrs
  BY DEF IInv, HalOK, NetOK
<1> QED
  BY <1>1, <1>2 DEF All

(* In environments where the access point may be halfway, and while a call is  *)
(* interrupted, there is one family.                                           *)
LEMMA WholeAddresses ==
  ASSUME IInv, NEW S \in SUBSET All, Shares(env),
         S \in {{}, All} \/ env \cap {"halfway", "concurrent"} # {}
  PROVE  Whole(S)
<1>1. CASE S \in {{}, All}
  BY <1>1 DEF Whole
<1>2. CASE env \cap {"halfway", "concurrent"} # {}
  <2>1. "v6" \notin env
    BY <1>2 DEF Shares
  <2>2. All = {"v4"}
    BY <2>1 DEF All, Families
  <2> QED
    BY <2>2 DEF Whole
<1> QED
  BY <1>1, <1>2

(* The daemon handles an event. *)
LEMMA ProcessLan ==
  ASSUME IInv, LInv, Steady(env), Shares(env), Process
  PROVE  LInv'
<1>1. TypeOK /\ LanOK(ipacm) /\ ApCall(ipacm, net, call, want)
  BY DEF IInv, LInv
<1>2. ipacm \in IpacmSet /\ Distinct(ipacm.wans) /\ file \in Nat
      /\ ipacm.int \in Seq(IntEvents) /\ ipacm.ext \in Seq(ExtEvents)
  BY <1>1 DEF TypeOK, IpacmSet
<1>3. PICK b : ApLeads(ApSeen(ipacm), ipacm.ext, b) /\ ApFinal(net, call, want, b)
  BY DEF LInv, LanPath
<1>4. UNCHANGED <<net, file, call, want, bounds, env>>
  BY DEF Process
<1>5. CASE ipacm.int # <<>>
  <2> DEFINE t == Handle([ipacm EXCEPT !.int = Tail(@)], Head(ipacm.int))
  <2>1. ipacm' = t
    BY <1>5 DEF Process
  <2>2. LanOK(t) /\ ApSeen(t) = ApSeen(ipacm) /\ t.valid = ipacm.valid /\ t.ext = ipacm.ext
    BY <1>1, <1>2, <1>5, IntLan
  <2> HIDE DEF t
  <2>3. ApCall(t, net', call', want') /\ ApFinal(net', call', want', b)
    BY <1>1, <1>3, <1>4, <2>2 DEF ApCall
  <2>4. ApLeads(ApSeen(t), t.ext, b)
    BY <1>3, <2>2
  <2> QED
    BY <1>4, <2>1, <2>2, <2>3, <2>4, LanDone
<1>6. CASE ipacm.int = <<>>
  <2> DEFINE s == [ipacm EXCEPT !.ext = Tail(@)]
             ev == Head(ipacm.ext)
             t == Handle(s, ev)
  <2>1. ipacm.ext # <<>>
    BY <1>2, <1>6 DEF Process
  <2>2. ev \in ExtEvents /\ Tail(ipacm.ext) \in Seq(ExtEvents)
    BY <1>2, <2>1
  <2>3. /\ s \in IpacmSet /\ s.wans = ipacm.wans /\ s.wan = ipacm.wan /\ s.wanUp = ipacm.wanUp
        /\ s.ext = Tail(ipacm.ext) /\ s.int = ipacm.int /\ s.mode = ipacm.mode
        /\ s.ap = ipacm.ap /\ s.cache = ipacm.cache /\ s.valid = ipacm.valid
    BY <1>2, <2>2 DEF IpacmSet
  <2>4. ipacm' = t
    BY <1>6 DEF Process
  <2>5. ApGuard(ApSeen(ipacm), ev) /\ ApLeads(ApStep(ApSeen(ipacm), ev), Tail(ipacm.ext), b)
        /\ b \in ApViews /\ ApOK(ApSeen(ipacm))
    BY <1>2, <1>3, <2>1, ApLeadsTail, ApLeadsEnds
  <2>6. PICK c \in Views : Leads(env, View(ipacm), ipacm.ext, c)
    BY PathEnd
  <2>7. Guard(env, View(ipacm), ev) /\ ViewOK(env, View(ipacm))
    BY <1>2, <2>1, <2>6, LeadsTail, LeadsEnds
  <2> HIDE DEF s, ev
  <2>8. View(s) = View(ipacm) /\ Distinct(s.wans)
    BY <1>2, <2>3 DEF View
  <2>9. \A i \in Uplinks : s.wan[i].ip \subseteq All
    BY <1>1, <2>3 DEF LanOK, ModeOK
  <2>10. LanOK(s) /\ ApSeen(s) = ApSeen(ipacm)
    BY <1>1, <2>3, <2>9, SameLan
  <2>11. News(s) = {}
    BY <1>6, <2>3 DEF News, ToSet
  <2>12. FlagsOK(s)
    BY <2>3 DEF IInv, RulesOK, FlagsOK
  <2>13. Heard(s)
    BY <2>5, <2>10, <2>11, <2>12 DEF Heard
  <2>14. net[Ap].addrs \subseteq b.ip
    BY <1>3 DEF ApFinal
  <2>15. LanStep(s, t, ev) /\ ApTrails(s, t, b)
    BY <1>2, <2>2, <2>3, <2>5, <2>7, <2>8, <2>10, <2>13, <2>14, AddressesAll, ExtLan
  <2> HIDE DEF t
  <2>16. LanOK(t) /\ t.valid = ipacm.valid /\ ApSeen(t) = ApStep(ApSeen(ipacm), ev)
    BY <2>3, <2>10, <2>15 DEF LanStep
  <2>17. ApLeads(ApSeen(t), t.ext, b)
    BY <2>3, <2>5, <2>15, <2>16 DEF ApTrails
  <2>18. ApCall(t, net', call', want') /\ ApFinal(net', call', want', b)
    BY <1>1, <1>3, <1>4, <2>16 DEF ApCall
  <2> QED
    BY <1>4, <2>4, <2>16, <2>17, <2>18, LanDone
<1> QED
  BY <1>5, <1>6

(* The kernel or the framework's thread posts one event; calls are prepared.   *)
LEMMA PostLan ==
  ASSUME IInv, LInv, Shares(env), NEW b, ApLeads(ApSeen(ipacm), ipacm.ext, b),
         NEW ev \in ExtEvents, ApGuard(b, ev), Post(ev), env' = env,
         ApCall(ipacm, net', call', want'), ApFinal(net', call', want', ApStep(b, ev))
  PROVE  LInv'
<1> DEFINE t == External(ipacm, ev)
<1>1. ipacm \in IpacmSet /\ LanOK(ipacm)
  BY DEF IInv, TypeOK, LInv
<1>2. t \in IpacmSet /\ Inner(t) = Inner(ipacm) /\ t.ext = Append(ipacm.ext, ev)
      /\ ipacm.ext \in Seq(ExtEvents)
  BY <1>1, ExternalFacts
<1>3. ipacm' = t
  BY DEF Post
<1> HIDE DEF t
<1>4. /\ t.int = ipacm.int /\ t.wanUp = ipacm.wanUp /\ t.mode = ipacm.mode /\ t.ap = ipacm.ap
      /\ t.cache = ipacm.cache /\ t.wan = ipacm.wan /\ t.valid = ipacm.valid
  BY <1>2 DEF Inner
<1>5. LanOK(t) /\ ApSeen(t) = ApSeen(ipacm)
  <2>1. \A i \in Uplinks : t.wan[i].ip \subseteq All
    BY <1>1, <1>4 DEF LanOK, ModeOK
  <2> QED
    BY <1>1, <1>4, <2>1, SameLan
<1>6. ApLeads(ApSeen(t), t.ext, ApStep(b, ev))
  BY <1>2, <1>5, ApLeadsAppend
<1>7. ApCall(t, net', call', want')
  BY <1>4 DEF ApCall
<1> QED
  BY <1>3, <1>5, <1>6, <1>7, LanDone

(* A call of the framework, not yet carried out.                               *)
LEMMA CallLan ==
  ASSUME LInv, Shares(env), NEW b, ApLeads(ApSeen(ipacm), ipacm.ext, b),
         ipacm' = ipacm, env' = env,
         ApCall(ipacm, net', call', want'), ApFinal(net', call', want', b)
  PROVE  LInv'
BY LanDone DEF LInv

(* What the pending events make of the access point.                           *)
LEMMA LanEnd ==
  ASSUME IInv, LInv, Shares(env)
  PROVE  \E b \in ApViews : /\ ApOK(b) /\ ApLeads(ApSeen(ipacm), ipacm.ext, b)
                            /\ ApFinal(net, call, want, b) /\ ApCall(ipacm, net, call, want)
<1>1. PICK b : ApLeads(ApSeen(ipacm), ipacm.ext, b) /\ ApFinal(net, call, want, b)
  BY DEF LInv, LanPath
<1>2. ipacm.ext \in Seq(ExtEvents)
  BY DEF IInv, TypeOK, IpacmSet
<1>3. b \in ApViews /\ ApOK(b)
  BY <1>1, <1>2, ApLeadsEnds
<1> QED
  BY <1>1, <1>3 DEF LInv

(* The access point's family is there when the framework changes the upstream. *)
LEMMA SettledWhole ==
  ASSUME IInv, Shares(env), Settled
  PROVE  Whole(net[Ap].addrs)
<1>1. net[Ap].addrs \in SUBSET All
  BY AddressesAll, UplinkKinds
<1> QED
  BY <1>1, WholeAddresses DEF Settled

(* The framework chooses an upstream. *)
LEMMA SetLan ==
  ASSUME IInv, LInv, Shares(env), NEW i \in Uplinks, NEW S \in SUBSET Families,
         setUpstreamParameters(i, S)
  PROVE  LInv'
<1>1. PICK b : /\ ApLeads(ApSeen(ipacm), ipacm.ext, b)
               /\ ApFinal(net, call, want, b) /\ ApCall(ipacm, net, call, want)
  BY LanEnd
<1>2. call.what = "none" /\ UNCHANGED <<net, file, ipacm, env>>
  BY DEF setUpstreamParameters, Call, NoCall
<1>3. call' = [what |-> "upstream", iface |-> i, fams |-> S,
               ready |-> i = NoIface \/ Configured(ipacm, i, S)]
  BY DEF setUpstreamParameters, Call
<1>4. Configured(ipacm, i, S)
  BY DEF setUpstreamParameters, Shares
<1>5. call'.what = "upstream" /\ call'.ready = TRUE
  BY <1>3, <1>4
<1>6. want'.down = want.down
  <2>1. want \in WantSet
    BY DEF IInv, TypeOK
  <2> QED
    BY <2>1 DEF setUpstreamParameters, WantSet
<1>7. Whole(net[Ap].addrs)
  BY SettledWhole DEF setUpstreamParameters
<1>8. ApCall(ipacm, net', call', want')
  BY <1>1, <1>2, <1>5, <1>6, <1>7 DEF ApCall
<1>9. ApFinal(net', call', want', b)
  BY <1>1, <1>2, <1>5, <1>6 DEF ApFinal
<1> QED
  BY <1>1, <1>2, <1>8, <1>9, CallLan

(* The framework removes the upstream. *)
LEMMA RemoveLan ==
  ASSUME IInv, LInv, Shares(env), removeUpstream
  PROVE  LInv'
<1>1. PICK b : /\ ApLeads(ApSeen(ipacm), ipacm.ext, b)
               /\ ApFinal(net, call, want, b) /\ ApCall(ipacm, net, call, want)
  BY LanEnd
<1>2. call.what = "none" /\ UNCHANGED <<net, file, ipacm, env>> /\ call'.what = "clear"
  BY DEF removeUpstream, Call, NoCall
<1>3. want'.down = want.down
  <2>1. want \in WantSet
    BY DEF IInv, TypeOK
  <2> QED
    BY <2>1 DEF removeUpstream, WantSet
<1>4. Whole(net[Ap].addrs)
  BY SettledWhole DEF removeUpstream
<1>5. ApCall(ipacm, net', call', want')
  BY <1>1, <1>2, <1>3, <1>4 DEF ApCall
<1>6. ApFinal(net', call', want', b)
  BY <1>1, <1>2, <1>3 DEF ApFinal
<1> QED
  BY <1>1, <1>2, <1>5, <1>6, CallLan

(* The framework adds a downstream, for an address the access point has.       *)
LEMMA AddDownLan ==
  ASSUME IInv, LInv, Shares(env), NEW f \in Families, addDownstream(f)
  PROVE  LInv'
<1>1. PICK b : /\ ApLeads(ApSeen(ipacm), ipacm.ext, b)
               /\ ApFinal(net, call, want, b) /\ ApCall(ipacm, net, call, want)
  BY LanEnd
<1>2. call.what = "none" /\ UNCHANGED <<net, file, ipacm, env>>
  BY DEF addDownstream, Call, NoCall
<1>3. call' = [what |-> "downstream", iface |-> Ap, fams |-> {f},
               ready |-> Ap = NoIface \/ Configured(ipacm, Ap, {f})]
  BY DEF addDownstream, Call
<1>4. Configured(ipacm, Ap, {f}) /\ f \in net[Ap].addrs /\ f \notin want.down
  BY DEF addDownstream, Shares
<1>5. call'.what = "downstream" /\ call'.ready = TRUE /\ call'.fams = {f}
  BY <1>3, <1>4
<1>6. want'.down = want.down \cup {f}
  <2>1. want \in WantSet
    BY DEF IInv, TypeOK
  <2> QED
    BY <2>1 DEF addDownstream, WantSet
<1>7. ApCall(ipacm, net', call', want')
  BY <1>1, <1>2, <1>4, <1>5, <1>6 DEF ApCall
<1>8. ApFinal(net', call', want', b)
  <2>1. b.down = want.down
    BY <1>1, <1>2 DEF ApFinal
  <2>2. b.down = ((want.down \cup {f}) \ {f}) \cup {}
    BY <2>1, <1>4
  <2> QED
    BY <1>1, <1>2, <1>5, <1>6, <2>2 DEF ApFinal
<1> QED
  BY <1>1, <1>2, <1>7, <1>8, CallLan

(* The framework removes a downstream. *)
LEMMA RemoveDownLan ==
  ASSUME IInv, LInv, Shares(env), NEW f \in Families, removeDownstream(f)
  PROVE  LInv'
<1>1. PICK b : /\ ApLeads(ApSeen(ipacm), ipacm.ext, b)
               /\ ApFinal(net, call, want, b) /\ ApCall(ipacm, net, call, want)
  BY LanEnd
<1>2. call.what = "none" /\ UNCHANGED <<net, file, ipacm, env>>
  BY DEF removeDownstream, Call, NoCall
<1>3. call'.what = "noDownstream" /\ call'.fams = {f}
  BY DEF removeDownstream, Call
<1>4. f \in want.down
  BY DEF removeDownstream
<1>5. want'.down = want.down \ {f}
  <2>1. want \in WantSet
    BY DEF IInv, TypeOK
  <2> QED
    BY <2>1 DEF removeDownstream, WantSet
<1>6. ipacm.valid = TRUE
  BY <1>1, <1>2, <1>4 DEF ApCall
<1>7. ApCall(ipacm, net', call', want')
  BY <1>2, <1>3, <1>5, <1>6 DEF ApCall
<1>8. ApFinal(net', call', want', b)
  <2>1. b.down = want.down
    BY <1>1, <1>2 DEF ApFinal
  <2>2. b.down = ((want.down \ {f}) \ {}) \cup {f}
    BY <2>1, <1>4
  <2> QED
    BY <1>1, <1>2, <1>3, <1>5, <2>2 DEF ApFinal
<1> QED
  BY <1>1, <1>2, <1>7, <1>8, CallLan

(* A link comes up. *)
LEMMA RaiseLan ==
  ASSUME IInv, LInv, Shares(env), NEW i \in Ifaces, Raise(i)
  PROVE  LInv'
<1>1. PICK b \in ApViews : /\ ApLeads(ApSeen(ipacm), ipacm.ext, b)
                           /\ ApFinal(net, call, want, b) /\ ApCall(ipacm, net, call, want)
  BY LanEnd
<1> DEFINE ev == Ev("linkUp", i, "v4")
<1>2. Post(ev) /\ UNCHANGED <<file, call, want, bounds, env>>
  BY DEF Raise
<1>3. net \in [Ifaces -> NetSet] /\ net' = [net EXCEPT ![i].link = TRUE]
  BY DEF Raise, IInv, TypeOK
<1>4. net'[Ap].addrs = net[Ap].addrs /\ net'[Ap].link = IF i = Ap THEN TRUE ELSE net[Ap].link
  BY <1>3, UplinkKinds DEF NetSet
<1>5. ev \in ExtEvents /\ ev.what = "linkUp" /\ ev.iface = i
  BY UplinkKinds DEF Ev, ExtEvents, Families
<1> HIDE DEF ev
<1>6. ApGuard(b, ev)
  BY <1>5 DEF ApGuard
<1>7. ApCall(ipacm, net', call', want')
  BY <1>1, <1>2, <1>4 DEF ApCall
<1>8. ApFinal(net', call', want', ApStep(b, ev))
  <2>1. CASE i = Ap
    <3>1. ApStep(b, ev) = [b EXCEPT !.on = TRUE]
      BY <2>1, <1>5 DEF ApStep
    <3>2. ApStep(b, ev).on = TRUE /\ ApStep(b, ev).ip = b.ip /\ ApStep(b, ev).down = b.down
      BY <3>1 DEF ApViews
    <3> QED
      BY <1>1, <1>2, <1>4, <2>1, <3>2 DEF ApFinal
  <2>2. CASE i # Ap
    <3>1. ApStep(b, ev) = b
      BY <2>2, <1>5, ApIdle
    <3> QED
      BY <1>1, <1>2, <1>4, <2>2, <3>1 DEF ApFinal
  <2> QED
    BY <2>1, <2>2
<1> QED
  BY <1>1, <1>2, <1>5, <1>6, <1>7, <1>8, PostLan

(* An interface gets an address. *)
LEMMA AddressLan ==
  ASSUME IInv, LInv, Shares(env), NEW i \in Ifaces, NEW f \in Families, Address(i, f)
  PROVE  LInv'
<1>1. PICK b \in ApViews : /\ ApLeads(ApSeen(ipacm), ipacm.ext, b)
                           /\ ApFinal(net, call, want, b) /\ ApCall(ipacm, net, call, want)
  BY LanEnd
<1> DEFINE ev == Ev("address", i, f)
<1>2. Post(ev) /\ UNCHANGED <<file, call, want, bounds, env>>
  BY DEF Address
<1>3. /\ net \in [Ifaces -> NetSet] /\ net' = [net EXCEPT ![i].addrs = @ \cup {f}]
      /\ net[i].link = TRUE /\ f \in All
  BY DEF Address, IInv, TypeOK, NetSet
<1>4. /\ net'[Ap].link = net[Ap].link
      /\ net'[Ap].addrs = IF i = Ap THEN net[Ap].addrs \cup {f} ELSE net[Ap].addrs
  BY <1>3, UplinkKinds DEF NetSet
<1>5. ev \in ExtEvents /\ ev.what = "address" /\ ev.iface = i /\ ev.fam = f
  BY UplinkKinds DEF Ev, ExtEvents
<1> HIDE DEF ev
<1>6. ApGuard(b, ev)
  BY <1>3, <1>5 DEF ApGuard
<1>7. ApCall(ipacm, net', call', want')
  <2>1. call # NoCall => "concurrent" \in env
    BY DEF Address, Calm, Undisturbed
  <2>2. net'[Ap].addrs \in SUBSET All
    BY <1>3, <1>4, AddressesAll, UplinkKinds
  <2>3. call.what \in {"upstream", "clear"} => Whole(net'[Ap].addrs)
    <3> SUFFICES ASSUME call.what \in {"upstream", "clear"}
                 PROVE  Whole(net'[Ap].addrs)
      OBVIOUS
    <3>1. env \cap {"halfway", "concurrent"} # {}
      BY <2>1 DEF NoCall
    <3> QED
      BY <3>1, <2>2, WholeAddresses
  <2>4. net[Ap].addrs \subseteq net'[Ap].addrs
    BY <1>4
  <2> QED
    BY <1>1, <1>2, <2>3, <2>4 DEF ApCall
<1>8. ApFinal(net', call', want', ApStep(b, ev))
  <2>1. CASE i = Ap
    <3>1. b.on
      BY <2>1, <1>1, <1>3 DEF ApFinal
    <3>2. ApStep(b, ev) = [b EXCEPT !.ip = @ \cup {f}]
      BY <2>1, <3>1, <1>5 DEF ApStep
    <3>3. /\ ApStep(b, ev).on = b.on /\ ApStep(b, ev).ip = b.ip \cup {f}
          /\ ApStep(b, ev).down = b.down
      BY <3>2 DEF ApViews
    <3> QED
      BY <1>1, <1>2, <1>4, <2>1, <3>3 DEF ApFinal
  <2>2. CASE i # Ap
    <3>1. ApStep(b, ev) = b
      BY <2>2, <1>5, ApIdle
    <3> QED
      BY <1>1, <1>2, <1>4, <2>2, <3>1 DEF ApFinal
  <2> QED
    BY <2>1, <2>2
<1> QED
  BY <1>1, <1>2, <1>5, <1>6, <1>7, <1>8, PostLan

(* A gateway becomes a known neighbour, or the firewall's file is written.     *)
LEMMA ResolveLan ==
  ASSUME IInv, LInv, Shares(env), NEW i \in Stas, NEW f \in Families, Resolve(i, f)
  PROVE  LInv'
<1>1. PICK b \in ApViews : /\ ApLeads(ApSeen(ipacm), ipacm.ext, b)
                           /\ ApFinal(net, call, want, b) /\ ApCall(ipacm, net, call, want)
  BY LanEnd
<1> DEFINE ev == Ev("neighbour", i, f)
<1>2. Post(ev) /\ UNCHANGED <<file, call, want, bounds, env>>
  BY DEF Resolve
<1>3. net' = [net EXCEPT ![i].neigh = @ \cup {f}] /\ net \in [Ifaces -> NetSet]
  BY DEF Resolve, IInv, TypeOK
<1>4. net'[Ap] = net[Ap]
  BY <1>3, UplinkKinds
<1>5. ev \in ExtEvents /\ ev.what = "neighbour"
  BY UplinkKinds DEF Ev, ExtEvents
<1> HIDE DEF ev
<1>6. ApGuard(b, ev) /\ ApStep(b, ev) = b
  BY <1>5, ApIdle DEF ApGuard
<1>7. ApCall(ipacm, net', call', want') /\ ApFinal(net', call', want', b)
  BY <1>1, <1>2, <1>4 DEF ApCall, ApFinal
<1> QED
  BY <1>1, <1>2, <1>5, <1>6, <1>7, PostLan

(* The firewall's file is written. *)
LEMMA RewriteLan ==
  ASSUME IInv, LInv, Shares(env), Rewrite
  PROVE  LInv'
<1>1. PICK b \in ApViews : /\ ApLeads(ApSeen(ipacm), ipacm.ext, b)
                           /\ ApFinal(net, call, want, b) /\ ApCall(ipacm, net, call, want)
  BY LanEnd
<1> DEFINE ev == Ev("firewall", NoIface, "v4")
<1>2. Post(ev) /\ UNCHANGED <<net, call, want, env>>
  BY DEF Rewrite, Change
<1>3. ev \in ExtEvents /\ ev.what = "firewall"
  BY DEF Ev, ExtEvents, Families
<1> HIDE DEF ev
<1>4. ApGuard(b, ev) /\ ApStep(b, ev) = b
  BY <1>3, ApIdle DEF ApGuard
<1>5. ApCall(ipacm, net', call', want') /\ ApFinal(net', call', want', b)
  BY <1>1, <1>2 DEF ApCall, ApFinal
<1> QED
  BY <1>1, <1>2, <1>3, <1>4, <1>5, PostLan

(* A link goes down. *)
LEMMA LoseLan ==
  ASSUME IInv, LInv, Shares(env), Copes(env), NEW i \in Ifaces, Lose(i)
  PROVE  LInv'
<1>1. PICK b \in ApViews : /\ ApLeads(ApSeen(ipacm), ipacm.ext, b)
                           /\ ApFinal(net, call, want, b) /\ ApCall(ipacm, net, call, want)
  BY LanEnd
<1> DEFINE ev == Ev("linkDown", i, "v4")
<1>2. Post(ev) /\ UNCHANGED <<call, env>>
  BY DEF Lose, Change
<1>3. net' = [net EXCEPT ![i] = Down] /\ net \in [Ifaces -> NetSet] /\ want \in WantSet
  BY DEF Lose, IInv, TypeOK
<1>4. net'[Ap] = IF i = Ap THEN Down ELSE net[Ap]
  BY <1>3, UplinkKinds
<1>5. want'.down = IF i = Ap THEN {} ELSE want.down
  BY <1>3 DEF Lose, WantSet
<1>6. call = NoCall
  BY DEF Lose, Change, Calm, Undisturbed, Copes
<1>7. call.what = "none" /\ call'.what = "none"
  BY <1>2, <1>6 DEF NoCall
<1>8. ev \in ExtEvents /\ ev.what = "linkDown" /\ ev.iface = i
  BY UplinkKinds DEF Ev, ExtEvents, Families
<1> HIDE DEF ev
<1>9. ApGuard(b, ev)
  <2>1. i # Ap => Whole(b.ip)
    BY <1>1, SettledWhole DEF Lose, ApFinal
  <2> QED
    BY <2>1, <1>8, UplinkKinds DEF ApGuard
<1>10. ApCall(ipacm, net', call', want')
  BY <1>1, <1>5, <1>7 DEF ApCall
<1>11. ApFinal(net', call', want', ApStep(b, ev))
  <2>1. CASE i = Ap
    <3>1. ApStep(b, ev) = ApSeen([ap |-> NoAp])
      BY <2>1, <1>8 DEF ApStep
    <3>2. /\ ApStep(b, ev).on = FALSE /\ ApStep(b, ev).ip = {} /\ ApStep(b, ev).down = {}
      BY <3>1 DEF ApSeen, NoAp
    <3>3. ({} \ {}) \cup {} = {}
      OBVIOUS
    <3>4. /\ (IF call'.what = "downstream" THEN call'.fams ELSE {}) = {}
          /\ (IF call'.what = "noDownstream" THEN call'.fams ELSE {}) = {}
      BY <1>7
    <3>5. net'[Ap].link = FALSE /\ net'[Ap].addrs = {} /\ want'.down = {}
      BY <1>4, <1>5, <2>1 DEF Down
    <3> QED
      BY <3>2, <3>3, <3>4, <3>5 DEF ApFinal
  <2>2. CASE i # Ap
    <3>1. ApStep(b, ev) = b
      BY <2>2, <1>8, ApIdle
    <3> QED
      BY <1>1, <1>4, <1>5, <1>7, <2>2, <3>1 DEF ApFinal
  <2> QED
    BY <2>1, <2>2
<1> QED
  BY <1>1, <1>2, <1>8, <1>9, <1>10, <1>11, PostLan

-----------------------------------------------------------------------------
(* The calls of the framework are carried out. *)

(* Nothing the access point sees changed, and the events posted from s to t    *)
(* change its view from b to d.                                                *)
Tells(s, t, b, d) ==
  /\ t \in IpacmSet /\ t.int = s.int /\ t.wanUp = s.wanUp /\ t.mode = s.mode /\ t.ap = s.ap
  /\ t.cache = s.cache /\ t.wan = s.wan
  /\ \A a : ApLeads(a, s.ext, b) => ApLeads(a, t.ext, d)

(* What is told adds up.                                                       *)
LEMMA TellsTrans ==
  ASSUME NEW s, NEW t, NEW u, NEW b, NEW c, NEW d, Tells(s, t, b, c), Tells(t, u, c, d)
  PROVE  Tells(s, u, b, d)
BY DEF Tells

(* Nothing is told.                                                            *)
LEMMA TellsNothing ==
  ASSUME NEW s \in IpacmSet, NEW b
  PROVE  Tells(s, s, b, b)
BY DEF Tells

(* One event.                                                                  *)
LEMMA TellsOne ==
  ASSUME NEW s \in IpacmSet, NEW ev \in ExtEvents, NEW b, ApGuard(b, ev)
  PROVE  LET t == External(s, ev)
         IN  Tells(s, t, b, ApStep(b, ev)) /\ t.valid = s.valid
<1> DEFINE t == External(s, ev)
<1>1. /\ t \in IpacmSet /\ Inner(t) = Inner(s) /\ t.ext = Append(s.ext, ev)
      /\ s.ext \in Seq(ExtEvents)
  BY ExternalFacts
<1> HIDE DEF t
<1>2. ASSUME NEW a, ApLeads(a, s.ext, b) PROVE ApLeads(a, t.ext, ApStep(b, ev))
  BY <1>1, <1>2, ApLeadsAppend
<1>3. /\ t.int = s.int /\ t.wanUp = s.wanUp /\ t.mode = s.mode /\ t.ap = s.ap
      /\ t.cache = s.cache /\ t.wan = s.wan /\ t.valid = s.valid
  BY <1>1 DEF Inner
<1> QED
  BY <1>1, <1>2, <1>3 DEF Tells, t

(* Routes are not the access point's. *)
LEMMA RoutesTell ==
  ASSUME NEW s \in IpacmSet, NEW what \in {"routeDel", "routeAdd"},
         NEW i \in Uplinks \cup {NoIface}, NEW S \in SUBSET Families, i = NoIface => S = {},
         NEW b, Whole(b.ip)
  PROVE  LET t == PostRoutes(s, what, i, S)
         IN  Tells(s, t, b, b) /\ t.valid = s.valid
<1> DEFINE put(u, f) == External(u, Ev(what, i, f))
           OK(u) == u \in IpacmSet /\ Tells(s, u, b, b) /\ u.valid = s.valid
           t4 == IF "v4" \in S THEN put(s, "v4") ELSE s
           t6 == IF "v6" \in S THEN put(t4, "v6") ELSE t4
<1>1. OK(s)
  BY TellsNothing
<1>2. ASSUME NEW f \in S, NEW u, OK(u) PROVE OK(put(u, f))
  <2> DEFINE ev == Ev(what, i, f)
  <2>1. f \in Families /\ i \in Uplinks
    BY DEF Families
  <2>2. ev \in ExtEvents
    BY <2>1, UplinkKinds DEF Ev, ExtEvents
  <2>3. ev.what \in {"routeDel", "routeAdd"}
    BY DEF Ev
  <2> HIDE DEF ev
  <2>4. ApGuard(b, ev) /\ ApStep(b, ev) = b
    BY <2>3, ApIdle DEF ApGuard
  <2> DEFINE v == External(u, ev)
  <2>5. Tells(u, v, b, b) /\ v.valid = u.valid
    BY <1>2, <2>2, <2>4, TellsOne
  <2> HIDE DEF v
  <2>6. Tells(s, v, b, b) /\ v \in IpacmSet /\ v.valid = s.valid
    <3>1. Tells(s, u, b, b) /\ u.valid = s.valid
      BY <1>2
    <3>2. Tells(s, v, b, b)
      BY <2>5, <3>1, TellsTrans
    <3> QED
      BY <2>5, <3>1, <3>2 DEF Tells
  <2> QED
    BY <2>6 DEF v, ev
<1> HIDE DEF put, OK
<1>3. OK(t4)
  BY <1>1, <1>2
<1> HIDE DEF t4
<1>4. OK(t6)
  BY <1>2, <1>3
<1>5. PostRoutes(s, what, i, S) = t6
  BY PostRoutesPosted DEF Posted, put, t4
<1> QED
  BY <1>4, <1>5 DEF OK

(* Another upstream, or other families.                                        *)
LEMMA SetUpstreamTells ==
  ASSUME NEW s \in IpacmSet, NEW i \in Uplinks, NEW S \in SUBSET Families,
         s.gw = NoIface => s.up = {}, NEW b, Whole(b.ip)
  PROVE  Tells(s, SetUpstream(s, i, S), b, b) /\ SetUpstream(s, i, S).valid = s.valid
<1> DEFINE gone == IF i # s.gw THEN s.up ELSE s.up \ S
           kept == s.up \ gone
           t == PostRoutes(s, "routeDel", s.gw, gone)
           u == PostRoutes(t, "routeAdd", i, S \ kept)
<1>1. gone \in SUBSET Families /\ s.gw \in Uplinks \cup {NoIface} /\ (s.gw = NoIface => gone = {})
  BY DEF IpacmSet
<1>2. S \ kept \in SUBSET Families
  OBVIOUS
<1>3. SetUpstream(s, i, S) = [u EXCEPT !.gw = i, !.up = S]
  BY DEF SetUpstream
<1> HIDE DEF gone, kept
<1>4. Tells(s, t, b, b) /\ t.valid = s.valid
  BY <1>1, RoutesTell
<1>5. t \in IpacmSet
  BY <1>4 DEF Tells
<1> HIDE DEF t
<1>6. Tells(t, u, b, b) /\ u.valid = t.valid
  BY <1>2, <1>5, UplinkKinds, RoutesTell
<1> HIDE DEF u
<1>7. Tells(s, u, b, b)
  BY <1>4, <1>6, TellsTrans
<1> DEFINE v == [u EXCEPT !.gw = i, !.up = S]
<1>8. SetUpstream(s, i, S) = v /\ v = [u EXCEPT !.gw = i, !.up = S]
  BY <1>3
<1> HIDE DEF v
<1>9. Tells(s, v, b, b) /\ v.valid = u.valid
  BY <1>7, <1>8 DEF Tells, IpacmSet
<1> QED
  BY <1>4, <1>6, <1>8, <1>9

(* No upstream; nothing is cached that could be dropped.                       *)
LEMMA ClearUpstreamTells ==
  ASSUME NEW s \in IpacmSet, NoCache(s), NEW b, Whole(b.ip)
  PROVE  Tells(s, ClearUpstream(s), b, b) /\ ClearUpstream(s).valid = s.valid
<1>1. CASE s.gw = NoIface
  <2> DEFINE c == [k \in DOMAIN s.cache |-> IF s.cache[k].what = "upstream" THEN NoEntry
                                                                           ELSE s.cache[k]]
  <2>1. s.cache \in [Places -> EntrySet]
    BY DEF IpacmSet
  <2>2. c = s.cache
    BY <2>1 DEF NoCache
  <2>3. ClearUpstream(s) = [s EXCEPT !.cache = c]
    BY <1>1 DEF ClearUpstream
  <2> HIDE DEF c
  <2>4. [s EXCEPT !.cache = c] = s
    BY <2>2 DEF IpacmSet
  <2> QED
    BY <2>3, <2>4, TellsNothing
<1>2. CASE s.gw # NoIface
  <2> DEFINE t == PostRoutes(s, "routeDel", s.gw, s.up)
  <2>1. s.gw \in Uplinks \cup {NoIface} /\ s.up \in SUBSET Families
    BY DEF IpacmSet
  <2>2. Tells(s, t, b, b) /\ t.valid = s.valid
    BY <1>2, <2>1, RoutesTell
  <2> DEFINE u == [t EXCEPT !.gw = NoIface, !.up = {}]
  <2>3. ClearUpstream(s) = u /\ u = [t EXCEPT !.gw = NoIface, !.up = {}]
    BY <1>2 DEF ClearUpstream
  <2> HIDE DEF t, u
  <2>4. Tells(s, u, b, b) /\ u.valid = t.valid
    BY <2>2, <2>3, UplinkKinds DEF Tells, IpacmSet
  <2> QED
    BY <2>2, <2>3, <2>4
<1> QED
  BY <1>1, <1>2

(* Downstreams are added for addresses that will be there.                     *)
LEMMA TakesTell ==
  ASSUME NEW s \in IpacmSet, NEW S \in SUBSET Families, S # {},
         NEW b \in ApViews, b.on = TRUE, S \subseteq b.ip
  PROVE  LET t == Takes(s, S, TRUE)
         IN  Tells(s, t, b, [b EXCEPT !.down = @ \cup S]) /\ t.valid = TRUE
<1> DEFINE with(R) == [b EXCEPT !.down = @ \cup R]
           OK(u, R) == u \in IpacmSet /\ Tells(s, u, b, with(R)) /\ (R # {} => u.valid = TRUE)
           put(u, f) == TakeDownstream(u, f, TRUE)
           t4 == IF "v4" \in S THEN put(s, "v4") ELSE s
           t6 == IF "v6" \in S THEN put(t4, "v6") ELSE t4
<1>1. OK(s, {})
  <2>1. with({}) = b
    BY DEF ApViews
  <2> QED
    BY <2>1, TellsNothing
<1>2. ASSUME NEW f \in S, NEW R \in SUBSET Families, NEW u, OK(u, R)
      PROVE  OK(put(u, f), R \cup {f})
  <2> DEFINE ev == Ev("downAdd", Ap, f)
             v == [u EXCEPT !.valid = TRUE]
             w == External(v, ev)
  <2>1. ev \in ExtEvents
    BY UplinkKinds DEF Ev, ExtEvents, Families
  <2>2. ev.what = "downAdd" /\ ev.fam = f
    BY DEF Ev
  <2>3. v \in IpacmSet /\ v.valid = TRUE
    BY <1>2 DEF IpacmSet
  <2>4. Tells(u, v, with(R), with(R))
    BY <1>2 DEF Tells, IpacmSet
  <2>5. put(u, f) = w
    BY DEF TakeDownstream
  <2> HIDE DEF ev, v
  <2>6. ApGuard(with(R), ev)
    BY <2>2 DEF ApGuard, ApViews
  <2>7. ApStep(with(R), ev) = with(R \cup {f})
    <3>1. with(R).on = TRUE /\ with(R).down = b.down \cup R
      BY DEF ApViews
    <3>2. ApStep(with(R), ev) = [with(R) EXCEPT !.down = @ \cup {f}]
      BY <2>2, <3>1 DEF ApStep
    <3>3. (b.down \cup R) \cup {f} = b.down \cup (R \cup {f})
      OBVIOUS
    <3> QED
      BY <3>1, <3>2, <3>3 DEF ApViews
  <2> HIDE DEF with
  <2>8. Tells(v, w, with(R), with(R \cup {f})) /\ w.valid = v.valid
    BY <2>1, <2>3, <2>6, <2>7, TellsOne
  <2> HIDE DEF w
  <2>9. Tells(s, v, b, with(R))
    BY <1>2, <2>4, TellsTrans
  <2>10. Tells(s, w, b, with(R \cup {f}))
    BY <2>8, <2>9, TellsTrans
  <2>11. w \in IpacmSet /\ w.valid = TRUE
    BY <2>3, <2>8 DEF Tells
  <2> QED
    BY <2>5, <2>10, <2>11
<1> HIDE DEF with, OK, put
<1>3. OK(t4, {} \cup (S \cap {"v4"}))
  <2>1. "v4" \in S => {} \cup (S \cap {"v4"}) = {} \cup {"v4"}
    OBVIOUS
  <2>2. "v4" \notin S => {} \cup (S \cap {"v4"}) = {}
    OBVIOUS
  <2>3. "v4" \in S => OK(put(s, "v4"), {} \cup {"v4"})
    BY <1>1, <1>2
  <2> QED
    BY <1>1, <2>1, <2>2, <2>3
<1> DEFINE R == {} \cup (S \cap {"v4"})
<1>4. R \in SUBSET Families
  OBVIOUS
<1> HIDE DEF t4
<1>5. OK(t6, S)
  <2>1. "v6" \in S => S = R \cup {"v6"}
    BY DEF Families
  <2>2. "v6" \notin S => S = R
    BY DEF Families
  <2> HIDE DEF R
  <2>3. "v6" \in S => OK(put(t4, "v6"), R \cup {"v6"})
    BY <1>2, <1>3, <1>4 DEF R
  <2>4. OK(t4, R)
    BY <1>3 DEF R
  <2> QED
    BY <2>1, <2>2, <2>3, <2>4
<1>6. Takes(s, S, TRUE) = t6
  BY DEF Takes, ForEach, put, t4
<1> QED
  BY <1>5, <1>6 DEF OK, with

(* Downstreams are removed. *)
LEMMA DropsTell ==
  ASSUME NEW s \in IpacmSet, s.valid = TRUE, NEW S \in SUBSET Families, NEW b \in ApViews
  PROVE  LET t == ForEach(S, s, DropDownstream)
         IN  Tells(s, t, b, [b EXCEPT !.down = @ \ S]) /\ t.valid = TRUE
<1> DEFINE without(R) == [b EXCEPT !.down = @ \ R]
           OK(u, R) == u \in IpacmSet /\ Tells(s, u, b, without(R)) /\ u.valid = TRUE
           put(u, f) == DropDownstream(u, f)
           t4 == IF "v4" \in S THEN put(s, "v4") ELSE s
           t6 == IF "v6" \in S THEN put(t4, "v6") ELSE t4
<1>1. OK(s, {})
  <2>1. without({}) = b
    BY DEF ApViews
  <2> QED
    BY <2>1, TellsNothing
<1>2. ASSUME NEW f \in S, NEW R \in SUBSET Families, NEW u, OK(u, R)
      PROVE  OK(put(u, f), R \cup {f})
  <2> DEFINE ev == Ev("downDel", Ap, f)
             w == External(u, ev)
  <2>1. ev \in ExtEvents
    BY UplinkKinds DEF Ev, ExtEvents, Families
  <2>2. ev.what = "downDel" /\ ev.fam = f
    BY DEF Ev
  <2>3. u \in IpacmSet /\ u.valid = TRUE /\ Tells(s, u, b, without(R))
    BY <1>2
  <2>4. put(u, f) = w
    BY <2>3 DEF DropDownstream
  <2> HIDE DEF ev
  <2>5. ApGuard(without(R), ev)
    BY <2>2 DEF ApGuard
  <2>6. ApStep(without(R), ev) = without(R \cup {f})
    <3>1. without(R).down = b.down \ R
      BY DEF ApViews
    <3>2. ApStep(without(R), ev) = [without(R) EXCEPT !.down = @ \ {f}]
      BY <2>2 DEF ApStep
    <3>3. (b.down \ R) \ {f} = b.down \ (R \cup {f})
      OBVIOUS
    <3> QED
      BY <3>1, <3>2, <3>3 DEF ApViews
  <2> HIDE DEF without
  <2>7. Tells(u, w, without(R), without(R \cup {f})) /\ w.valid = u.valid
    BY <2>1, <2>3, <2>5, <2>6, TellsOne
  <2> HIDE DEF w
  <2>8. Tells(s, w, b, without(R \cup {f}))
    BY <2>3, <2>7, TellsTrans
  <2>9. w \in IpacmSet
    BY <2>7 DEF Tells
  <2> QED
    BY <2>3, <2>4, <2>7, <2>8, <2>9
<1> HIDE DEF without, OK, put
<1> DEFINE R == S \cap {"v4"}
<1>3. OK(t4, R)
  <2>1. "v4" \in S => R = {} \cup {"v4"}
    OBVIOUS
  <2>2. "v4" \notin S => R = {}
    OBVIOUS
  <2>3. "v4" \in S => OK(put(s, "v4"), {} \cup {"v4"})
    BY <1>1, <1>2
  <2> HIDE DEF R
  <2> QED
    BY <1>1, <2>1, <2>2, <2>3
<1>4. R \in SUBSET Families
  OBVIOUS
<1> HIDE DEF t4
<1>5. OK(t6, S)
  <2>1. "v6" \in S => S = R \cup {"v6"}
    BY DEF Families
  <2>2. "v6" \notin S => S = R
    BY DEF Families
  <2> HIDE DEF R
  <2>3. "v6" \in S => OK(put(t4, "v6"), R \cup {"v6"})
    BY <1>2, <1>3, <1>4
  <2> QED
    BY <1>3, <2>1, <2>2, <2>3
<1>6. ForEach(S, s, DropDownstream) = t6
  BY DEF ForEach, put, t4
<1> QED
  BY <1>5, <1>6 DEF OK, without

(* A call that is carried out told what it had to.                             *)
LEMMA ActLan ==
  ASSUME IInv, LInv, Shares(env), Act, NEW t, NEW b, NEW d, ipacm' = t,
         Tells(ipacm, t, b, d), ApLeads(ApSeen(ipacm), ipacm.ext, b),
         ApFinal(net, NoCall, want, d), want.down # {} => t.valid = TRUE
  PROVE  LInv'
<1>1. ipacm \in IpacmSet /\ LanOK(ipacm)
  BY DEF IInv, TypeOK, LInv
<1>2. call' = NoCall /\ UNCHANGED <<net, want, env>>
  BY DEF Act
<1>3. LanOK(t) /\ ApSeen(t) = ApSeen(ipacm)
  <2>1. \A i \in Uplinks : t.wan[i].ip \subseteq All
    BY <1>1 DEF LanOK, ModeOK, Tells
  <2> QED
    BY <1>1, <2>1, SameLan DEF Tells
<1>4. ApLeads(ApSeen(t), t.ext, d)
  BY <1>3 DEF Tells
<1>5. ApCall(t, net', call', want')
  BY <1>2 DEF ApCall, NoCall
<1>6. ApFinal(net', call', want', d)
  BY <1>2
<1> QED
  BY <1>2, <1>3, <1>4, <1>5, <1>6, LanDone

(* No call, or one for the upstream: the downstreams are those wanted.         *)
LEMMA FinalNone ==
  ASSUME NEW n, NEW w, NEW c, NEW b, ApFinal(n, c, w, b),
         c.what \notin {"downstream", "noDownstream"}
  PROVE  b.down = w.down /\ ApFinal(n, NoCall, w, b)
<1>1. /\ (IF c.what = "downstream" THEN c.fams ELSE {}) = {}
      /\ (IF c.what = "noDownstream" THEN c.fams ELSE {}) = {}
  OBVIOUS
<1>2. /\ (IF NoCall.what = "downstream" THEN NoCall.fams ELSE {}) = {}
      /\ (IF NoCall.what = "noDownstream" THEN NoCall.fams ELSE {}) = {}
  BY DEF NoCall
<1>3. b.down = (w.down \ {}) \cup {}
  BY <1>1 DEF ApFinal
<1>4. ApFinal(n, NoCall, w, b)
  BY <1>2, <1>3 DEF ApFinal
<1>5. b.down \subseteq w.down /\ w.down \subseteq b.down
  BY <1>3
<1> QED
  BY <1>3, <1>4

(* A call of the framework is carried out.                                     *)
LEMMA ActStepLan ==
  ASSUME IInv, LInv, Shares(env), Act
  PROVE  LInv'
<1>1. PICK b \in ApViews : /\ ApOK(b) /\ ApLeads(ApSeen(ipacm), ipacm.ext, b)
                           /\ ApFinal(net, call, want, b) /\ ApCall(ipacm, net, call, want)
  BY LanEnd
<1>2. /\ TypeOK /\ HalOK(env, net, ipacm, call, want) /\ LanOK(ipacm)
      /\ ipacm \in IpacmSet /\ want \in WantSet /\ call \in CallSet /\ call # NoCall
  BY DEF IInv, TypeOK, LInv, Act
<1>3. /\ call.what \in {"upstream", "clear", "stop", "downstream", "noDownstream"}
      /\ call.fams \in SUBSET Families /\ want.down \in SUBSET Families
  BY <1>2 DEF CallSet, WantSet
<1>4. CASE call.what = "upstream"
  <2> DEFINE t == SetUpstream(ipacm, call.iface, call.fams)
  <2>1. call.ready = TRUE /\ Whole(b.ip) /\ (want.down # {} => ipacm.valid = TRUE)
    BY <1>1, <1>4 DEF ApCall, ApFinal
  <2>2. ipacm' = t
    BY <1>4, <2>1 DEF Act, TakeUpstream
  <2>3. call.iface \in Uplinks /\ (ipacm.gw = NoIface => ipacm.up = {})
    BY <1>2, <1>4 DEF HalOK, CallOK, AskedOK
  <2>4. Tells(ipacm, t, b, b) /\ t.valid = ipacm.valid
    BY <1>2, <1>3, <2>1, <2>3, SetUpstreamTells
  <2> HIDE DEF t
  <2>5. ApFinal(net, NoCall, want, b)
    BY <1>1, <1>4, FinalNone
  <2> QED
    BY <1>1, <2>1, <2>2, <2>4, <2>5, ActLan
<1>5. CASE call.what = "clear"
  <2> DEFINE t == ClearUpstream(ipacm)
  <2>1. Whole(b.ip) /\ (want.down # {} => ipacm.valid = TRUE)
    BY <1>1, <1>5 DEF ApCall, ApFinal
  <2>2. ipacm' = t
    BY <1>5 DEF Act
  <2>3. Tells(ipacm, t, b, b) /\ t.valid = ipacm.valid
    BY <1>2, <2>1, ClearUpstreamTells DEF LanOK
  <2> HIDE DEF t
  <2>4. ApFinal(net, NoCall, want, b)
    BY <1>1, <1>5, FinalNone
  <2> QED
    BY <1>1, <2>1, <2>2, <2>3, <2>4, ActLan
<1>6. CASE call.what = "downstream"
  <2> DEFINE t == Takes(ipacm, call.fams, TRUE)
             d == [b EXCEPT !.down = @ \cup call.fams]
  <2>1. /\ call.ready = TRUE /\ call.fams # {} /\ call.fams \subseteq want.down
        /\ call.fams \subseteq net[Ap].addrs /\ net[Ap].addrs = b.ip /\ b.on = net[Ap].link
    BY <1>1, <1>6 DEF ApCall, ApFinal
  <2>2. ipacm' = t
    <3>1. ipacm' = Takes(ipacm, call.fams, call.ready)
      BY <1>6 DEF Act, Takes
    <3> QED
      BY <2>1, <3>1
  <2>3. b.on = TRUE
    BY <1>1, <2>1 DEF ApViews, ApOK
  <2>4. Tells(ipacm, t, b, d) /\ t.valid = TRUE
    BY <1>2, <1>3, <2>1, <2>3, TakesTell
  <2> HIDE DEF t
  <2>5. ApFinal(net, NoCall, want, d)
    <3>1. b.down = (want.down \ call.fams) \cup {}
      <4>1. (IF call.what = "downstream" THEN call.fams ELSE {}) = call.fams
            /\ (IF call.what = "noDownstream" THEN call.fams ELSE {}) = {}
        BY <1>6
      <4> QED
        BY <1>1, <4>1 DEF ApFinal
    <3>2. d.on = b.on /\ d.ip = b.ip /\ d.down = b.down \cup call.fams
      BY DEF ApViews
    <3> HIDE DEF d
    <3>3. d.down = (want.down \ {}) \cup {}
      BY <3>1, <3>2, <2>1
    <3>4. /\ (IF NoCall.what = "downstream" THEN NoCall.fams ELSE {}) = {}
          /\ (IF NoCall.what = "noDownstream" THEN NoCall.fams ELSE {}) = {}
      BY DEF NoCall
    <3> QED
      BY <2>1, <3>2, <3>3, <3>4 DEF ApFinal
  <2> HIDE DEF d
  <2> QED
    BY <1>1, <2>2, <2>4, <2>5, ActLan
<1>7. CASE call.what = "noDownstream"
  <2> DEFINE t == ForEach(call.fams, ipacm, DropDownstream)
             d == [b EXCEPT !.down = @ \ call.fams]
  <2>1. ipacm.valid = TRUE /\ call.fams \cap want.down = {}
    BY <1>1, <1>7 DEF ApCall
  <2>2. ipacm' = t
    BY <1>7 DEF Act
  <2>3. Tells(ipacm, t, b, d) /\ t.valid = TRUE
    BY <1>2, <1>3, <2>1, DropsTell
  <2> HIDE DEF t
  <2>4. ApFinal(net, NoCall, want, d)
    <3>1. b.down = (want.down \ {}) \cup call.fams
      <4>1. (IF call.what = "downstream" THEN call.fams ELSE {}) = {}
            /\ (IF call.what = "noDownstream" THEN call.fams ELSE {}) = call.fams
        BY <1>7
      <4> QED
        BY <1>1, <4>1 DEF ApFinal
    <3>2. d.on = b.on /\ d.ip = b.ip /\ d.down = b.down \ call.fams
      BY DEF ApViews
    <3> HIDE DEF d
    <3>3. d.down = (want.down \ {}) \cup {}
      BY <3>1, <3>2, <2>1
    <3>4. /\ (IF NoCall.what = "downstream" THEN NoCall.fams ELSE {}) = {}
          /\ (IF NoCall.what = "noDownstream" THEN NoCall.fams ELSE {}) = {}
      BY DEF NoCall
    <3> QED
      BY <1>1, <3>2, <3>3, <3>4 DEF ApFinal
  <2> HIDE DEF d
  <2> QED
    BY <1>1, <2>2, <2>3, <2>4, ActLan
<1> QED
  BY <1>1, <1>3, <1>4, <1>5, <1>6, <1>7 DEF ApCall

(* The access point's part of the invariant is kept by every step.             *)
LEMMA LanStepAll ==
  ASSUME IInv, LInv, Copes(env), Steady(env), [Next]_vars
  PROVE  LInv'
<1>1. env' = env
  BY EnvStep
<1>2. CASE ~Shares(env)
  BY <1>1, <1>2 DEF LInv, Shares
<1>3. CASE Shares(env)
  <2>1. CASE Process
    BY <1>3, <2>1, ProcessLan
  <2>2. CASE Act
    BY <1>3, <2>2, ActStepLan
  <2>3. CASE removeUpstream
    BY <1>3, <2>3, RemoveLan
  <2>4. CASE stopOffload
    BY <1>3, <2>4 DEF stopOffload, Shares
  <2>5. CASE Restart
    BY <1>3, <2>5 DEF Restart, Change, Shares
  <2>6. CASE Rewrite
    BY <1>3, <2>6, RewriteLan
  <2>7. ASSUME NEW i \in Uplinks, NEW fams \in SUBSET Families, setUpstreamParameters(i, fams)
        PROVE  LInv'
    BY <1>3, <2>7, SetLan
  <2>8. ASSUME NEW f \in Families, addDownstream(f) \/ removeDownstream(f)
        PROVE  LInv'
    BY <1>3, <2>8, AddDownLan, RemoveDownLan
  <2>9. ASSUME NEW f \in Families, NEW i \in Ifaces, Address(i, f)
        PROVE  LInv'
    BY <1>3, <2>9, AddressLan
  <2>10. ASSUME NEW f \in Families, NEW i \in Stas, Resolve(i, f)
         PROVE  LInv'
    BY <1>3, <2>10, ResolveLan
  <2>11. ASSUME NEW i \in Ifaces, Raise(i)
         PROVE  LInv'
    BY <1>3, <2>11, RaiseLan
  <2>12. ASSUME NEW i \in Ifaces, Lose(i)
         PROVE  LInv'
    BY <1>3, <2>12, LoseLan
  <2>13. CASE UNCHANGED vars
    <3>1. PICK b : /\ ApLeads(ApSeen(ipacm), ipacm.ext, b)
                   /\ ApFinal(net, call, want, b) /\ ApCall(ipacm, net, call, want)
      BY <1>3, LanEnd
    <3>2. UNCHANGED <<net, ipacm, call, want, env>>
      BY <2>13 DEF vars
    <3>3. ApCall(ipacm, net', call', want') /\ ApFinal(net', call', want', b)
      BY <3>1, <3>2
    <3> QED
      BY <1>3, <3>1, <3>2, <3>3, CallLan
  <2> QED
    BY <2>1, <2>2, <2>3, <2>4, <2>5, <2>6, <2>7, <2>8, <2>9, <2>10, <2>11, <2>12, <2>13 DEF Next
<1> QED
  BY <1>2, <1>3

(* When nothing is pending the access point is what the invariant says.        *)
LEMMA LanFacts ==
  ASSUME IInv, LInv, Steady(env)
  PROVE  LanAgrees
<1> SUFFICES ASSUME Quiet, Shares(env), NEW f \in Families
             PROVE  ipacm.ap.ul[f] = IF f \in want.down /\ ipacm.ap.on /\ f \in ipacm.ap.ip
                                     THEN {Kind(i) : i \in {j \in Uplinks : f \in Carries(j)}}
                                     ELSE {}
  BY DEF LanAgrees
<1> DEFINE s == ipacm
           carriers == {j \in Uplinks : f \in Carries(j)}
<1>1. s \in IpacmSet /\ s.int \in Seq(IntEvents) /\ s.ext \in Seq(ExtEvents)
  BY DEF IInv, TypeOK, IpacmSet
<1>2. s.int = <<>> /\ s.ext = <<>> /\ call = NoCall
  BY <1>1 DEF Quiet
<1>3. PICK b \in ApViews : /\ ApOK(b) /\ ApLeads(ApSeen(s), s.ext, b)
                           /\ ApFinal(net, call, want, b)
  BY LanEnd
<1>4. ApSeen(s) = b
  BY <1>1, <1>2, <1>3 DEF ApLeads
<1>5. b.down = want.down
  <2>1. call.what = "none"
    BY <1>2 DEF NoCall
  <2> QED
    BY <1>3, <2>1, FinalNone
<1>6. LanOK(s) /\ FlagsOK(s) /\ News(s) = {}
  BY <1>2 DEF LInv, IInv, RulesOK, FlagsOK, News, ToSet
<1>7. Heard(s)
  BY <1>3, <1>4, <1>6 DEF Heard
<1>8. s.ap.down = want.down
  BY <1>4, <1>5 DEF ApSeen
<1>9. /\ \A g \in Families : g \in s.ap.ip => (g \in s.ap.up <=> g \in s.wanUp)
      /\ s.ap.down \subseteq s.ap.ip /\ s.ap.ip \subseteq All /\ RulesNow(s)
  BY <1>1, <1>7, HeardFacts
<1>10. s.ap.ul[f] = IF f \in s.ap.down \cap s.ap.up THEN {s.mode} ELSE {}
  BY <1>9 DEF RulesNow
<1>11. f \in s.wanUp <=> carriers # {}
  BY <1>6 DEF FlagsOK, Carries
<1>12. \A j \in carriers : Kind(j) = s.mode
  <2>1. \A j \in carriers : Held(s.wan[j]) # {}
    BY DEF Held, Carries
  <2> QED
    BY <1>6, <2>1 DEF LanOK, ModeOK
<1>13. CASE f \in want.down
  <2>1. f \in s.ap.ip /\ s.ap.on = TRUE
    <3>1. f \in s.ap.ip
      BY <1>8, <1>9, <1>13
    <3>2. s.ap.on \in BOOLEAN
      BY <1>1 DEF IpacmSet, ApSet
    <3>3. s.ap.on = FALSE => s.ap.ip = {}
      BY <1>9 DEF RulesNow, NoAp
    <3> QED
      BY <3>1, <3>2, <3>3
  <2>2. CASE carriers = {}
    <3>1. {Kind(i) : i \in carriers} = {}
      BY <2>2
    <3>2. s.ap.ul[f] = {}
      BY <1>9, <1>10, <1>11, <2>1, <2>2
    <3> QED
      BY <1>13, <2>1, <3>1, <3>2
  <2>3. CASE carriers # {}
    <3>1. {Kind(i) : i \in carriers} = {s.mode}
      BY <1>12, <2>3
    <3>2. s.ap.ul[f] = {s.mode}
      BY <1>8, <1>9, <1>10, <1>11, <1>13, <2>1, <2>3
    <3> QED
      BY <1>13, <2>1, <3>1, <3>2
  <2> QED
    BY <2>2, <2>3
<1>14. CASE f \notin want.down
  BY <1>8, <1>10, <1>14
<1> QED
  BY <1>13, <1>14

(* The access point sends up exactly the families that are tethered and that   *)
(* an uplink carries, with the rules for that uplink's kind, in the            *)
(* environments that Shares.                                                   *)
THEOREM AccessPointFollows ==
  ASSUME Cautious, \A e \in Environments : Steady(e)
  PROVE  Spec => []LanAgrees
<1> DEFINE Inv == IInv /\ LInv
<1>1. Init => Inv
  BY InitInv, InitLan
<1>2. Inv /\ [Next]_vars => Inv'
  <2> SUFFICES ASSUME IInv, LInv, [Next]_vars
               PROVE  IInv' /\ LInv'
    BY DEF Inv
  <2>1. Copes(env) /\ Steady(env)
    BY DEF Cautious, IInv, TypeOK
  <2> QED
    BY <2>1, InvStep, LanStepAll
<1>3. Inv => LanAgrees
  <2> SUFFICES ASSUME IInv, LInv
               PROVE  LanAgrees
    BY DEF Inv
  <2>1. Steady(env)
    BY DEF IInv, TypeOK
  <2> QED
    BY <2>1, LanFacts
<1> QED
  BY <1>1, <1>2, <1>3, PTL DEF Spec
=============================================================================
