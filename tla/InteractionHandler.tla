------------------------- MODULE InteractionHandler -------------------------
(* The interaction boost of the power HAL, power-libperfmgr/disp-power/     *)
(* InteractionHandler.cpp: binder calls (Acquire, Init, Exit) under mLock,   *)
(* one Routine thread that waits for the display to go idle, and the eventfd *)
(* that makes the thread abandon a wait.  Time is relative: `age` is the     *)
(* time since mLastTimespec, `left` what remains of the thread's poll.       *)
EXTENDS Integers

CONSTANTS
  WaitMs,        \* mWaitMs: first poll, on the eventfd alone
  MinDuration,   \* mMinDurationMs
  MaxDuration,   \* mMaxDurationMs
  Slack,         \* the 650 ms added to every request
  IntMax,        \* INT32_MAX of the model
  Durations      \* the durations setBoost(INTERACTION, d) is called with

ASSUME BoundsAssumption ==
  /\ WaitMs \in Nat /\ Slack \in Nat /\ IntMax \in Nat
  /\ MinDuration \in Nat \ {0} /\ MaxDuration \in Nat
  /\ MinDuration <= MaxDuration
  /\ Durations \subseteq Int

VARIABLES
  mState,        \* the state of the handler, guarded by mLock
  mDurationMs,   \* the duration of the last request that was not covered
  age,           \* time since mLastTimespec, saturating at MaxDuration
  efd,           \* counter of mEventFd: aborts written and not yet read
  fds,           \* TRUE while mEventFd and mIdleFd are open
  hint,          \* TRUE from DoHint("INTERACTION") to EndHint
  pc,            \* where the Routine thread is ("none": no thread)
  limit,         \* timeout_ms, read from mDurationMs without the lock
  left,          \* time before the current poll may time out
  why,           \* how WaitForIdle returned
  caller,        \* where the owner is inside Exit
  owed           \* history: time the requests made so far still ask for

vars == <<mState, mDurationMs, age, efd, fds, hint, pc, limit, left, why,
          caller, owed>>
lockedVars == <<mState, mDurationMs, age, hint, owed>>

Larger(a, b) == IF a > b THEN a ELSE b
Less1(n) == Larger(n - 1, 0)

InWait == {"read", "poll1", "pread", "poll2", "release"}

Init ==
  /\ mState = "UNINITIALIZED" /\ mDurationMs = 0 /\ age = MaxDuration
  /\ efd = 0 /\ fds = FALSE /\ hint = FALSE
  /\ pc = "none" /\ limit = 0 /\ left = 0 /\ why = "none"
  /\ caller = "ready" /\ owed = 0

-----------------------------------------------------------------------------
(* The owner's calls. *)

(* InteractionHandler::Init; a failed open leaves everything as it was. *)
InitHandler ==
  /\ caller = "ready" /\ mState = "UNINITIALIZED"
  /\ mState' = "IDLE" /\ efd' = 0 /\ fds' = TRUE /\ pc' = "top"
  /\ UNCHANGED <<mDurationMs, age, hint, limit, left, why, caller, owed>>

AbortWaitLocked == efd' = efd + 1

(* A notification reaches the thread only while it is inside mCond.wait. *)
Notify_Lost == pc' = pc
Notify == pc' = IF pc = "cond" THEN "top" ELSE pc

ExitBegin ==
  /\ caller = "ready" /\ mState # "UNINITIALIZED"
  /\ AbortWaitLocked
  /\ mState' = "UNINITIALIZED" /\ caller' = "notify" /\ owed' = 0
  /\ UNCHANGED <<mDurationMs, age, fds, hint, pc, limit, left, why>>

ExitNotify ==
  /\ caller = "notify" /\ Notify /\ caller' = "join"
  /\ UNCHANGED <<lockedVars, efd, fds, limit, left, why>>

ThreadEnded == pc = "done"

(* join, then close both descriptors. *)
ExitJoin ==
  /\ caller = "join" /\ ThreadEnded
  /\ caller' = "ready" /\ fds' = FALSE /\ efd' = 0
  /\ pc' = IF pc = "done" THEN "none" ELSE pc
  /\ UNCHANGED <<lockedVars, limit, left, why>>

Clamp(x) == IF x > MaxDuration THEN MaxDuration
            ELSE IF x > MinDuration THEN x ELSE MinDuration

(* duration + 650 in an int: past INT32_MAX the sum is undefined, and the   *)
(* build may wrap it or compare it as if it had not overflowed.              *)
FinalDurations(d) ==
  {Clamp(d + Slack)} \cup
  (IF d + Slack > IntMax THEN {Clamp(d + Slack - 2 * (IntMax + 1))} ELSE {})

(* The hint already held lasts at least as long as the new request asks.    *)
Covered_IgnoresElapsed(f) ==
  mState # "IDLE" /\ f <= mDurationMs
Covered(f) ==
  mState # "IDLE" /\ f <= mDurationMs /\ age <= mDurationMs - f

AcquireAborts_Always == IF mState # "IDLE" THEN AbortWaitLocked ELSE efd' = efd
AcquireAborts == IF mState = "WAITING" THEN AbortWaitLocked ELSE efd' = efd

AcquireState == mState' = "INTERACTION"

Acquire(d) ==
  /\ mState # "UNINITIALIZED"
  /\ \E f \in FinalDurations(d) :
       /\ owed' = Larger(owed, f)
       /\ IF Covered(f)
          THEN UNCHANGED <<mState, mDurationMs, age, efd, hint, pc>>
          ELSE /\ age' = 0 /\ mDurationMs' = f
               /\ AcquireAborts
               /\ hint' = (hint \/ mState = "IDLE")
               /\ AcquireState
               /\ Notify
  /\ UNCHANGED <<fds, limit, left, why, caller>>

-----------------------------------------------------------------------------
(* The Routine thread. *)

RoutineTop ==
  /\ pc = "top"
  /\ CASE mState = "IDLE"          -> pc' = "cond" /\ mState' = mState
       [] mState = "UNINITIALIZED" -> pc' = "done" /\ mState' = mState
       [] OTHER                    -> pc' = "read" /\ mState' = "WAITING"
  /\ UNCHANGED <<mDurationMs, age, efd, fds, hint, limit, left, why, caller,
                 owed>>

SpuriousWake ==
  /\ pc = "cond" /\ pc' = "top"
  /\ UNCHANGED <<lockedVars, efd, fds, limit, left, why, caller>>

(* WaitForIdle(mWaitMs, mDurationMs): the argument is read after unlock. *)
ReadDuration ==
  /\ pc = "read" /\ pc' = "poll1" /\ limit' = mDurationMs /\ left' = WaitMs
  /\ UNCHANGED <<lockedVars, efd, fds, why, caller>>

WaitReturns(reason) ==
  /\ pc' = "release" /\ why' = reason
  /\ UNCHANGED <<lockedVars, efd, fds, limit, left, caller>>

PollAborted == pc \in {"poll1", "poll2"} /\ efd > 0 /\ WaitReturns("abort")
PollError   == pc \in {"poll1", "poll2"} /\ WaitReturns("error")

Poll1TimesOut ==
  /\ pc = "poll1" /\ efd = 0 /\ left = 0 /\ pc' = "pread"
  /\ UNCHANGED <<lockedVars, efd, fds, limit, left, why, caller>>

(* The idle node answers EOF, "idle" or anything else. *)
PreadReturns == pc = "pread" /\ \E r \in {"eof", "idle"} : WaitReturns(r)

PreadBusy ==
  /\ pc = "pread" /\ pc' = "poll2" /\ left' = limit
  /\ UNCHANGED <<lockedVars, efd, fds, limit, why, caller>>

PollIdle     == pc = "poll2" /\ efd = 0 /\ WaitReturns("idle")
PollTimesOut == pc = "poll2" /\ efd = 0 /\ left = 0 /\ WaitReturns("timeout")

(* Release: end the hint unless a request or Exit came in meanwhile; then   *)
(* read the eventfd so that its abort cannot cut the next wait short.        *)
ReleaseHint_Always == hint' = FALSE
ReleaseHint == hint' = IF mState = "WAITING" THEN FALSE ELSE hint

Release ==
  /\ pc = "release" /\ pc' = "top"
  /\ ReleaseHint
  /\ IF mState = "WAITING"
     THEN mState' = "IDLE" /\ owed' = 0 /\ efd' = efd
     ELSE efd' = 0 /\ UNCHANGED <<mState, owed>>
  /\ UNCHANGED <<mDurationMs, age, fds, limit, left, why, caller>>

(* One unit of time; a poll may return later than its timeout, never sooner.*)
Tick ==
  /\ age < MaxDuration \/ left > 0 \/ owed > 0
  /\ age' = IF age < MaxDuration THEN age + 1 ELSE age
  /\ left' = Less1(left) /\ owed' = Less1(owed)
  /\ UNCHANGED <<mState, mDurationMs, efd, fds, hint, pc, limit, why, caller>>

Thread ==
  \/ RoutineTop \/ ReadDuration \/ PollAborted \/ Poll1TimesOut
  \/ PreadReturns \/ PreadBusy \/ PollTimesOut \/ Release

AcquireAny == \E d \in Durations : Acquire(d)

Next ==
  \/ InitHandler \/ ExitBegin \/ ExitNotify \/ ExitJoin \/ AcquireAny
  \/ Thread \/ PollError \/ PollIdle \/ SpuriousWake \/ Tick

Spec == Init /\ [][Next]_vars

(* The scheduler runs a ready thread, time passes, and a caller of Exit     *)
(* gets through it.  Requests, idle events, poll errors and spurious wakes   *)
(* need not happen.                                                          *)
Fairness ==
  /\ WF_vars(Thread) /\ WF_vars(Tick)
  /\ WF_vars(ExitNotify) /\ WF_vars(ExitJoin)

FairSpec == Spec /\ Fairness

-----------------------------------------------------------------------------
TypeOK ==
  /\ mState \in {"UNINITIALIZED", "IDLE", "INTERACTION", "WAITING"}
  /\ mDurationMs \in 0..MaxDuration /\ age \in 0..MaxDuration
  /\ efd \in Nat /\ fds \in BOOLEAN /\ hint \in BOOLEAN
  /\ pc \in InWait \cup {"none", "top", "cond", "done"}
  /\ limit \in 0..MaxDuration /\ left \in Nat
  /\ why \in {"none", "abort", "error", "eof", "idle", "timeout"}
  /\ caller \in {"ready", "notify", "join"} /\ owed \in 0..MaxDuration

(* An abort never outlives the wait it was written for: no wait starts with *)
(* one pending, a wait overtaken by a request or by Exit has one to read     *)
(* (Release, "clear any wait aborts pending in event fd"), and the counter   *)
(* never exceeds one request's and one Exit's abort.                         *)
NoStaleAbort ==
  /\ mState = "WAITING" => efd = 0
  /\ mState = "INTERACTION" /\ pc \in InWait => efd = 1
  /\ mState = "UNINITIALIZED" /\ pc \in InWait => efd \in 1..2

(* While the thread owes a release, the hint is really held: a request that *)
(* arrives between the wait and Release is never left without its boost.     *)
HintHeld == mState \in {"INTERACTION", "WAITING"} => hint

(* The thread never sleeps on mCond with a request or an exit to serve,     *)
(* except in the window of Exit between its unlock and its notify_all.       *)
NoLostWakeup == pc = "cond" => mState = "IDLE" \/ caller = "notify"

(* Exit closes the descriptors only once the thread is gone, so the thread  *)
(* polls and reads open descriptors in every interleaving.                   *)
FdsOutliveThread == pc # "none" => fds

(* A wait that times out ends the hint only when every request made so far, *)
(* those dropped as covered included, has had its whole duration: although   *)
(* the thread reads mDurationMs without the lock.                            *)
TimeoutHonoursRequests ==
  pc = "release" /\ mState = "WAITING" /\ why = "timeout" => owed = 0

(* An aborted wait never ends the hint: whoever wrote the abort also moved  *)
(* the state away from WAITING before the thread can take the lock.          *)
AbortNeverReleases == [][why = "abort" /\ Release => hint' = hint]_vars

(* A boost ends unless requests keep coming, as long as nobody calls Exit:  *)
(* Exit in the middle of a boost leaves the hint to the dying process.       *)
HintEventuallyReleased ==
  []<>(~hint) \/ []<><<AcquireAny>>_vars \/ <>(caller # "ready")

(* Exit never hangs in join, wherever the thread was when it was called.    *)
ExitReturns == caller # "ready" ~> caller = "ready"
=============================================================================
