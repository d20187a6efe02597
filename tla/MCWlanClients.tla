---------------------------- MODULE MCWlanClients ----------------------------
(* The environments in which the runs check WlanClients.                   *)
EXTENDS WlanClients, TLC

\* Those the daemon copes with: clients leave while every one is awake.
Cooperative == {{"leave", "sleep", "v6", "wide"}}

\* Clients leave while others sleep.
Sleepers == {{"leave", "sleep", "restless"}}

Symmetry == Permutations(Macs) \cup Permutations(V4Addrs) \cup Permutations(V6Addrs)
=============================================================================
