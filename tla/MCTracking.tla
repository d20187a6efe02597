------------------------------ MODULE MCTracking ------------------------------
(* Two clients; options that ask for more in one respect and less in another.  *)
EXTENDS Tracking, TLC
CONSTANTS c1, c2
MCOptions == {[interval |-> 1, power |-> 2, distance |-> FALSE],
              [interval |-> 2, power |-> 1, distance |-> FALSE],
              [interval |-> 1, power |-> 2, distance |-> TRUE],
              [interval |-> 2, power |-> 2, distance |-> TRUE]}
(* What the adapter copes with: restarts of the engine while calls come at any *)
(* time, also before it is up, and sessions with a distance on an engine that  *)
(* stays up; rejected calls with each.                                         *)
MCEnvironments == {{"early", "restart", "config", "rejection"},
                   {"distance", "rejection"}, {"distance", "basic"},
                   {"early", "distance", "updates", "patient", "rejection"},
                   {"refusal", "restart", "early", "patient"},
                   {"refusal", "early", "distance", "updates", "patient"}}
MCImpatient == {{"distance", "updates"}}
MCRejecting == {{"rejection"}}
MCBasic == {{"distance", "basic", "updates"}}
MCSymmetry == Permutations(Clients)
==============================================================================
