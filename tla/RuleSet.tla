------------------------------- MODULE RuleSet -------------------------------
(* What ipanat promises IPACM of its table: a set of rules the hardware       *)
(* applies, and handles for them.  Rules come and go one at a time, and a     *)
(* rule that has a handle goes only through that handle or with the table.    *)
CONSTANTS Rules, Handles
VARIABLES installed,   \* the rules the hardware applies in both directions
          given        \* handle |-> the rule it was given for

RuleSetInit == installed = {} /\ given = << >>

(* ipa_nat_add_ipv4_rule: first the hardware has the rule ... *)
Install(r) == /\ r \notin installed
              /\ installed' = installed \cup {r}
              /\ UNCHANGED given

(* ... then the caller its handle. *)
Give(h, r) == /\ h \notin DOMAIN given
              /\ r \in installed
              /\ \A g \in DOMAIN given : given[g] # r
              /\ given' = [g \in DOMAIN given \cup {h} |-> IF g = h THEN r ELSE given[g]]
              /\ UNCHANGED installed

(* ipa_nat_del_ipv4_rule: the hardware loses the rule, then the handle ends. *)
Remove(h) == /\ h \in DOMAIN given
             /\ given[h] \in installed
             /\ installed' = installed \ {given[h]}
             /\ UNCHANGED given

Forget(h) == /\ h \in DOMAIN given
             /\ given[h] \notin installed
             /\ given' = [g \in DOMAIN given \ {h} |-> given[g]]
             /\ UNCHANGED installed

(* ipa_nat_del_ipv4_tbl *)
Clear == installed' = {} /\ given' = << >>

RuleSetNext == \/ \E r \in Rules : Install(r)
               \/ \E h \in Handles : Remove(h) \/ Forget(h) \/ \E r \in Rules : Give(h, r)
               \/ Clear

RuleSetSpec == RuleSetInit /\ [][RuleSetNext]_<<installed, given>>
==============================================================================
