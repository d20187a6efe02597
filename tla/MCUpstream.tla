------------------------------ MODULE MCUpstream ------------------------------
(* One station, one interface of the modem, one access point.                  *)
EXTENDS Upstream, TLC
CONSTANTS s1, q1
(* What the daemon copes with. *)
MCEnvironments == {
  {"sta", "q6", "v6", "switch", "losses", "file"},
  {"sta", "q6", "v6", "switch", "stop"},
  {"sta", "q6", "ap", "switch", "concurrent"},
  {"sta", "q6", "ap", "late", "losses", "eager", "patient"},
  {"sta", "ap", "v6", "file", "losses", "eager", "patient"},
  {"sta", "ap", "ssr", "late", "losses", "eager", "patient"},
  {"q6", "ap", "v6", "narrow"},
  {"sta", "q6", "ap", "switch", "late", "losses", "patient"},
  {"sta", "ap", "v6", "losses", "file"}}
ASSUME MCEnvironmentsAssumption == \A e \in MCEnvironments : Copes(e) /\ Steady(e)
MCDualStack == {{"sta", "v6", "late", "patient"}}
==============================================================================
