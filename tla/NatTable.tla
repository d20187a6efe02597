------------------------------- MODULE NatTable -------------------------------
(* The NAT table of ipanat (ipa_nat_drvi.c): hash chains in memory that the    *)
(* IPA hardware reads while this code changes it.  A rule lies in the entry of *)
(* the base table its target hashes to, or in the expansion table, linked from *)
(* the entry it collided with.  A second pair of tables, hashed by the source, *)
(* holds the indices of the rules.  Base entries are 1 .. T-1, expansion       *)
(* entries T+1 .. T+E-1; entry 0 means none.                                   *)
(*   An operation is a list of writes (todo), computed when it is called, as   *)
(* one thread calls this library and the hardware writes none of the fields    *)
(* here; the hardware may look up a packet between any two of them.            *)
EXTENDS Integers, Sequences, FiniteSets, FiniteSetsExt, SequencesExt
CONSTANTS Rules,           \* the connections' rules
          NoRule,
          T, E,            \* table_entries, expn_table_entries
          DstHash, SrcHash, \* dst_hash and src_hash of each rule
          Faults           \* the ioctls of an addition that may fail
VARIABLES table,           \* ip4_tbl[0].valid
          mem,             \* the four tables, index_expn_table_meta, rule_id_array
          todo             \* the writes the running operation has still to do
vars == <<table, mem, todo>>

FaultKinds == {"link", "indexlink", "enable"}
Base == 1 .. T - 1
Expn == T + 1 .. T + E - 1
Entries == Base \cup Expn
Handles == 1 .. T + E

ASSUME TableAssumption == /\ T \in Nat \ {0, 1} /\ E \in Nat \ {0}
                          /\ DstHash \in [Rules -> Base] /\ SrcHash \in [Rules -> Base]
                          /\ NoRule \notin Rules /\ Faults \subseteq FaultKinds

(* An entry of each kind, as memset or calloc leaves it. *)
EmptyRule == [rule |-> NoRule, enable |-> FALSE, invalid |-> FALSE, next |-> 0, prev |-> 0, indx |-> 0]
EmptyIndex == [tbl |-> 0, next |-> 0]
Empty == [c \in ({"rule", "indx"} \X Entries) \cup ({"meta"} \X Expn) \cup ({"id"} \X Handles) |->
            CASE c[1] = "rule" -> EmptyRule
              [] c[1] = "indx" -> EmptyIndex
              [] c[1] = "meta" -> [prev |-> 0]
              [] c[1] = "id"   -> [entry |-> 0, rule |-> NoRule]]

Rule(m, e) == m[<<"rule", e>>]
Index(m, i) == m[<<"indx", i>>]
NextOf(m, t, e) == m[<<t, e>>].next

(* One write: the fields of a cell that change. *)
W(t, e, fields) == [cell |-> <<t, e>>, fields |-> fields]
Write(m, w) == [m EXCEPT ![w.cell] = [f \in DOMAIN @ |-> IF f \in DOMAIN w.fields THEN w.fields[f] ELSE @[f]]]
After(m, writes) ==
  LET upto[k \in 0 .. Len(writes)] == IF k = 0 THEN m ELSE Write(upto[k - 1], writes[k])
  IN  upto[Len(writes)]

(* The entries of the chain of kind t that starts at e. *)
Chain(m, t, e) ==
  LET within[n \in 0 .. E] ==
        IF n = 0 THEN {e}
        ELSE LET s == within[n-1] IN s \cup ({NextOf(m, t, x) : x \in s} \ {0})
  IN  within[E]

(******************************* adding a rule *******************************)
Lasts(m, t, e) == {x \in Chain(m, t, e) : NextOf(m, t, x) = 0}
Taken(m, t, e) == IF t = "rule" THEN Rule(m, e).enable ELSE Index(m, e).tbl # 0
Free(m, t) == {e \in Expn : ~Taken(m, t, e)}

(* generate_tbl_rule and generate_index_rule: the entry for a rule that hashes *)
(* to b and the one it is linked from; none when the walk meets an entry that  *)
(* follows itself, when the expansion table is full, or (index only) when the  *)
(* free entry is the last of the chain.                                        *)
Place(m, t, b) ==
  IF ~Taken(m, t, b) THEN {[entry |-> b, prev |-> 0]}
  ELSE {p \in {[entry |-> Min(Free(m, t) \cup {T + E}), prev |-> l] : l \in Lasts(m, t, b)} :
          p.entry # T + E /\ (t = "indx" => p.entry # p.prev)}

Link(t, p, lost) == IF p.prev = 0 \/ lost THEN <<>> ELSE <<W(t, p.prev, [next |-> p.entry])>>

(* make_rule_hdl *)
FreeHandle(m) == Min({h \in Handles : m[<<"id", h>>].entry = 0})

(* ipa_nati_add_ipv4_rule: the back link of the index entry, the rule, not     *)
(* enabled, and the link to it, then the index entry and the link to it, then  *)
(* the enable flag, then the handle.                                           *)
AddWrites(m, r, p, q, fault) ==
     (IF q.entry \in Expn THEN <<W("meta", q.entry, [prev |-> q.prev])>> ELSE <<>>)
  \o <<W("rule", p.entry, [EmptyRule EXCEPT !.rule = r, !.prev = p.prev, !.indx = q.entry])>>
  \o Link("rule", p, fault = "link")
  \o <<W("indx", q.entry, [tbl |-> p.entry, next |-> 0])>>
  \o Link("indx", q, fault = "indexlink")
  \o IF fault = "enable" THEN <<>>
     ELSE << W("rule", p.entry, [enable |-> TRUE]),
             W("id", FreeHandle(m), [entry |-> p.entry, rule |-> r]) >>

AddRule(r) ==
  /\ table /\ todo = <<>>
  /\ \A h \in Handles : mem[<<"id", h>>].rule # r
  /\ \E p \in Place(mem, "rule", DstHash[r]), q \in Place(mem, "indx", SrcHash[r]),
        fault \in Faults \cup {"none"} :
       todo' = AddWrites(mem, r, p, q, fault)
  /\ UNCHANGED <<table, mem>>

(****************************** deleting a rule ******************************)
(* find_rule_pos and find_index_rule_pos *)
Pos(m, t, e) == IF e \in Base THEN IF NextOf(m, t, e) = 0 THEN "only_one" ELSE "head"
                              ELSE IF NextOf(m, t, e) = 0 THEN "last" ELSE "middle"

(* post_del_dma_cmd: the DMA commands for the rule at e ... *)
RuleCmds_CutChain(m, e) ==
  << IF e \in Expn THEN W("rule", Rule(m, e).prev, [next |-> 0]) ELSE W("rule", e, [enable |-> FALSE]) >>
RuleCmds(m, e) ==
  LET pos == Pos(m, "rule", e)
  IN  << CASE pos = "only_one" -> W("rule", e, [enable |-> FALSE])
           [] pos = "head"     -> W("rule", e, [invalid |-> TRUE])
           [] OTHER            -> W("rule", Rule(m, e).prev, [next |-> Rule(m, e).next]) >>

(* ... for its index entry i: a head takes over the entry that follows it ... *)
IndexCmds(m, i) ==
  LET pos == Pos(m, "indx", i)
      n == Index(m, i).next
  IN  CASE pos = "only_one" -> << W("indx", i, [tbl |-> 0]) >>
        [] pos = "head"     -> << W("indx", i, [tbl |-> Index(m, n).tbl]),
                                  W("indx", i, [next |-> Index(m, n).next]) >>
        [] OTHER            -> << W("indx", m[<<"meta", i>>].prev, [next |-> n]) >>

(* ... the commands for the index go first (ReorderCmds) ... *)
DmaCmds_NotReordered(m, e) == RuleCmds(m, e) \o IndexCmds(m, Rule(m, e).indx)
DmaCmds(m, e) == IndexCmds(m, Rule(m, e).indx) \o RuleCmds(m, e)

(* ... and what the CPU then writes to both tables itself. *)
RuleCleanup(m, e) ==
  LET pos == Pos(m, "rule", e)
  IN  (IF pos = "middle" THEN <<W("rule", Rule(m, e).next, [prev |-> Rule(m, e).prev])>> ELSE <<>>)
      \o (IF pos = "head" THEN <<>> ELSE <<W("rule", e, EmptyRule)>>)

IndexCleanup_KeepBackLink(m, i) ==
  LET n == Index(m, i).next
  IN  IF Pos(m, "indx", i) = "head" THEN << W("indx", n, EmptyIndex), W("rule", Index(m, n).tbl, [indx |-> i]) >>
      ELSE << W("indx", i, EmptyIndex) >>
IndexCleanup(m, i) ==
  LET pos == Pos(m, "indx", i)
      n == Index(m, i).next
      moved == Index(m, n)
  IN  CASE pos = "head" ->
             (IF moved.next = 0 THEN <<>> ELSE <<W("meta", moved.next, [prev |-> i])>>)
             \o << W("indx", n, EmptyIndex), W("rule", moved.tbl, [indx |-> i]) >>
        [] pos = "middle" -> << W("meta", n, [prev |-> m[<<"meta", i>>].prev]),
                                W("meta", i, [prev |-> 0]), W("indx", i, EmptyIndex) >>
        [] OTHER -> << W("indx", i, EmptyIndex) >>

(* del_dead_ipv4_head_nodes: the deleted heads that have nothing left to lead to. *)
DeadHeads_Kept(m) == {}
DeadHeads(m) == {e \in Base : Rule(m, e).invalid /\ Rule(m, e).next = 0}
Wipe(es) == LET es_ == SetToSeq(es) IN [k \in 1 .. Len(es_) |-> W("rule", es_[k], EmptyRule)]

DelWrites(m, h) ==
  LET e == m[<<"id", h>>].entry
      done == DmaCmds(m, e) \o RuleCleanup(m, e) \o IndexCleanup(m, Rule(m, e).indx)
  IN  done \o Wipe(DeadHeads(After(m, done))) \o <<W("id", h, [entry |-> 0, rule |-> NoRule])>>

(* ipa_nati_parse_ipv4_rule_hdl *)
Parse(m, h) == IF h >= T + E THEN 0 ELSE m[<<"id", h>>].entry

(* ipa_nati_del_ipv4_rule; the caller has the handle from an AddRule.  When    *)
(* the ioctl refuses the commands nothing is written and the call fails.       *)
DelRule(h) ==
  /\ table /\ todo = <<>>
  /\ Parse(mem, h) # 0 /\ Rule(mem, Parse(mem, h)).enable
  /\ todo' = DelWrites(mem, h)
  /\ UNCHANGED <<table, mem>>

(******************************** the table **********************************)
Init == table = FALSE /\ mem = Empty /\ todo = <<>>

(* ipa_nati_add_ipv4_tbl and ipa_nati_reset_tbl *)
AddTable == ~table /\ table' = TRUE /\ mem' = Empty /\ UNCHANGED todo

(* ipa_nati_del_ipv4_table *)
DelTable == table /\ todo = <<>> /\ table' = FALSE /\ mem' = Empty /\ UNCHANGED todo

Step == /\ todo # <<>>
        /\ mem' = Write(mem, Head(todo))
        /\ todo' = Tail(todo)
        /\ UNCHANGED table

Next == \/ AddTable \/ DelTable \/ Step
        \/ \E r \in Rules : AddRule(r)
        \/ \E h \in Handles : DelRule(h)

Spec == Init /\ [][Next]_vars

(******************************** properties *********************************)
Live == {h \in Handles : mem[<<"id", h>>].entry # 0}

(* What the hardware finds: from the target's hash the enabled rule of the     *)
(* packet, and from the source's hash an index of it.                          *)
Found(r) == \E e \in Chain(mem, "rule", DstHash[r]) :
              /\ Rule(mem, e).rule = r /\ Rule(mem, e).enable /\ ~Rule(mem, e).invalid
              /\ \E i \in Chain(mem, "indx", SrcHash[r]) : Index(mem, i).tbl = e

Promise == INSTANCE RuleSet WITH
             installed <- {r \in Rules : Found(r)},
             given <- [h \in Live |-> mem[<<"id", h>>].rule]

(* Between any two writes the table is the set of rules RuleSet promises: no   *)
(* packet of a connection misses its rule while others' are added or deleted,  *)
(* and deleting a handle stops that rule and no other (ipa_nati_add_ipv4_rule, *)
(* ipa_nati_del_ipv4_rule).                                                    *)
IsRuleSet == Promise!RuleSetSpec

(* The hardware never follows an index to an entry that no longer holds an     *)
(* enabled rule; it may meet one not yet enabled (the order of ReorderCmds).   *)
Adding == {w.cell[2] : w \in {todo[k] : k \in 1 .. Len(todo)} \cap
                              [cell : {"rule"} \X Entries, fields : {[enable |-> TRUE]}]}
IndexNeverDangles ==
  \A b \in Base : \A i \in Chain(mem, "indx", b) :
    Index(mem, i).tbl # 0 => \/ Rule(mem, Index(mem, i).tbl).enable
                             \/ Index(mem, i).tbl \in Adding

(* The back links a later deletion trusts are those of the links the hardware  *)
(* follows, in both tables, after any order of additions and deletions         *)
(* (UpdateSwSpecParams, index_expn_table_meta).                                *)
BackLinksAgree ==
  todo = <<>> =>
    /\ \A e, f \in Entries : (Rule(mem, e).next = f => Rule(mem, f).prev = e)
    /\ \A i, j \in Entries : (Index(mem, i).next = j => mem[<<"meta", j>>].prev = i)
    /\ \A h \in Live : Index(mem, Rule(mem, mem[<<"id", h>>].entry).indx).tbl = mem[<<"id", h>>].entry

(* Nothing leaks: an entry is in use only while a live rule's chain needs it,  *)
(* so the table is empty again once every rule is deleted (deleted heads       *)
(* included, del_dead_ipv4_head_nodes).                                        *)
NothingLeaks ==
  todo = <<>> =>
    /\ \A e \in Expn : Rule(mem, e).enable => \E h \in Live : mem[<<"id", h>>].entry = e
    /\ \A e \in Base : Rule(mem, e).enable =>
         \E h \in Live : mem[<<"id", h>>].entry \in Chain(mem, "rule", e)
    /\ Cardinality({i \in Entries : Index(mem, i).tbl # 0}) = Cardinality(Live)

(* The walk of generate_tbl_rule: "Prev index and next index should not be     *)
(* same".                                                                      *)
NoSelfLink == \A e \in Entries : Rule(mem, e).next # e
==============================================================================
