------------------------ MODULE MCInteractionHandler ------------------------
EXTENDS InteractionHandler

(* A negative request, the shortest, two that differ after clamping, and    *)
(* INT32_MAX, whose sum with the slack overflows.                            *)
MCDurations == {-1, 0, 2, 3, 9}
=============================================================================
