---------------------------- MODULE LocTimerService ----------------------------
(* What LocTimer.h promises the clients of the timer service: start() arms a  *)
(* timer, stop() says true only when it disarmed it, and a timer that nobody  *)
(* stops calls its client back, once.                                         *)
CONSTANT Clients

VARIABLES
  ticking,   \* the clients whose timer runs
  called     \* the clients being called back

svcVars == <<ticking, called>>

Init == ticking = {} /\ called = {}

(* start() and stop(), when they return true. *)
Start(c) ==
  c \notin ticking /\ ticking' = ticking \cup {c} /\ UNCHANGED called
Stop(c) ==
  c \in ticking /\ ticking' = ticking \ {c} /\ UNCHANGED called

(* An expiry uses the timer up; one thread makes all the callbacks. *)
Fire(c) ==
  /\ called = {} /\ c \in ticking
  /\ ticking' = ticking \ {c} /\ called' = {c}

CallbackReturns ==
  called # {} /\ called' = {} /\ UNCHANGED ticking

Next == CallbackReturns \/ \E c \in Clients : Start(c) \/ Stop(c) \/ Fire(c)

SafeSpec == Init /\ [][Next]_svcVars

(* Callbacks return, and a timer does not run for ever. *)
Spec == /\ SafeSpec
        /\ WF_svcVars(CallbackReturns)
        /\ \A c \in Clients : []<>(c \notin ticking)
=============================================================================
