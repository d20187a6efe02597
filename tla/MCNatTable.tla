------------------------------ MODULE MCNatTable ------------------------------
(* Five connections: four share a target hash and, not the same ones, four a   *)
(* source hash, with two free expansion entries in each table: every chain     *)
(* gets a first, a middle and a last entry, two chains compete for the free    *)
(* entries, and either table may be the one that is full.                      *)
EXTENDS NatTable, TLC
CONSTANTS r1, r2, r3, r4, r5

MCRules == {r1, r2, r3, r4, r5}
MCDst == [r \in MCRules |-> IF r = r5 THEN 2 ELSE 1]
MCSrc == [r \in MCRules |-> IF r = r1 THEN 3 ELSE 1]
MCSymmetry == Permutations({r2, r3, r4})
==============================================================================
