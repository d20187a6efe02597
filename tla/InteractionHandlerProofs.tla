---------------------- MODULE InteractionHandlerProofs ----------------------
(* The safety properties of InteractionHandler for every value of the        *)
(* timing constants, from one inductive invariant.                           *)
EXTENDS InteractionHandler, TLAPS

(* Who may be where: the thread exists exactly while the handler is          *)
(* initialized or Exit is under way, and sleeps only with nothing to do.     *)
Lifecycle ==
  /\ mState # "UNINITIALIZED" =>
       caller = "ready" /\ pc \in InWait \cup {"top", "cond"}
  /\ mState = "UNINITIALIZED" /\ caller = "ready" => pc = "none"
  /\ mState = "WAITING" => pc \in InWait
  /\ mState = "IDLE" => pc \in {"top", "cond"}

(* NoStaleAbort with what makes it inductive: outside a wait the eventfd is  *)
(* clear, so the next wait starts with nothing pending.                      *)
Aborts ==
  /\ NoStaleAbort
  /\ mState # "UNINITIALIZED" /\ pc \in {"top", "cond"} => efd = 0

(* The remaining promise is bounded by the current duration, and the wait of *)
(* the thread by what it read of it, as long as the state is still WAITING.  *)
Deadlines ==
  /\ mState \in {"UNINITIALIZED", "IDLE"} => owed = 0
  /\ owed = 0 \/ owed + age <= mDurationMs
  /\ mState = "WAITING" /\ pc \in {"poll1", "pread", "poll2"}
       => limit = mDurationMs
  /\ mState = "WAITING" /\ pc = "poll2" => mDurationMs <= left + age
  /\ mState = "WAITING" /\ pc = "release" /\ why = "timeout"
       => mDurationMs <= age

IInv ==
  /\ TypeOK /\ Lifecycle /\ Aborts /\ HintHeld /\ NoLostWakeup
  /\ FdsOutliveThread /\ Deadlines

-----------------------------------------------------------------------------
(* The clamped duration of a request is a positive duration of the handler,  *)
(* overflow or not.                                                          *)
LEMMA FinalDurationsRange ==
  ASSUME NEW d \in Durations, NEW f \in FinalDurations(d)
  PROVE  f \in 1..MaxDuration
<1>1. d \in Int /\ d + Slack \in Int /\ d + Slack - 2 * (IntMax + 1) \in Int
  BY BoundsAssumption
<1>2. ASSUME NEW x \in Int PROVE Clamp(x) \in 1..MaxDuration
  BY BoundsAssumption DEF Clamp
<1> QED  BY <1>1, <1>2 DEF FinalDurations

(* The initial state satisfies the invariant.                                *)
LEMMA InitIInv == Init => IInv
<1> SUFFICES ASSUME Init PROVE IInv
  OBVIOUS
<1>1. /\ mState = "UNINITIALIZED" /\ pc = "none" /\ caller = "ready"
      /\ why = "none" /\ age = MaxDuration
      /\ mDurationMs = 0 /\ efd = 0 /\ limit = 0 /\ left = 0 /\ owed = 0
  BY DEF Init
<1>2. fds \in BOOLEAN /\ hint \in BOOLEAN
  BY Zenon DEF Init
<1>3. TypeOK
  BY <1>1, <1>2, BoundsAssumption DEF TypeOK
<1>4. Lifecycle /\ Aborts /\ HintHeld /\ NoLostWakeup
        /\ FdsOutliveThread /\ Deadlines
  BY <1>1 DEF Lifecycle, Aborts, NoStaleAbort, HintHeld, NoLostWakeup,
              FdsOutliveThread, Deadlines, InWait
<1> QED  BY <1>3, <1>4 DEF IInv

(* A request keeps the invariant: it extends the promise only together with  *)
(* the duration, and writes an abort only for a wait that is still on.       *)
LEMMA AcquireIInv ==
  ASSUME IInv, NEW d \in Durations, Acquire(d)
  PROVE  IInv'
<1>1. PICK f \in FinalDurations(d) :
        /\ owed' = Larger(owed, f)
        /\ IF Covered(f)
           THEN UNCHANGED <<mState, mDurationMs, age, efd, hint, pc>>
           ELSE /\ age' = 0 /\ mDurationMs' = f
                /\ AcquireAborts
                /\ hint' = (hint \/ mState = "IDLE")
                /\ AcquireState
                /\ Notify
  BY DEF Acquire
<1>2. /\ mState # "UNINITIALIZED"
      /\ UNCHANGED <<fds, limit, left, why, caller>>
  BY DEF Acquire
<1>3. f \in 1..MaxDuration
  BY FinalDurationsRange
<1> USE <1>1, <1>2, <1>3, BoundsAssumption
        DEF IInv, TypeOK, Lifecycle, Aborts, NoStaleAbort, HintHeld,
            NoLostWakeup, FdsOutliveThread, Deadlines, InWait, Larger
<1>4. CASE Covered(f)
  BY <1>4 DEF Covered
<1>5. CASE ~Covered(f)
  <2>1. age' = 0 /\ mDurationMs' = f /\ mState' = "INTERACTION" /\ hint'
    BY <1>5 DEF AcquireState
  <2>2. owed' \in 0..f
    BY <1>5 DEF Covered
  <2>3. efd' \in Nat /\ (pc \in InWait => efd' = 1) /\ (pc \notin InWait => efd' = 0)
    BY <1>5 DEF AcquireAborts, AbortWaitLocked
  <2>4. pc' = IF pc = "cond" THEN "top" ELSE pc
    BY <1>5 DEF Notify
  <2> QED  BY <2>1, <2>2, <2>3, <2>4
<1> QED  BY <1>4, <1>5

(* Every step keeps the invariant.                                           *)
LEMMA StepIInv == IInv /\ [Next]_vars => IInv'
<1> SUFFICES ASSUME IInv, [Next]_vars PROVE IInv'
  OBVIOUS
<1>0. CASE AcquireAny
  BY <1>0, AcquireIInv DEF AcquireAny
<1> USE BoundsAssumption
        DEF IInv, TypeOK, Lifecycle, Aborts, NoStaleAbort, HintHeld,
            NoLostWakeup, FdsOutliveThread, Deadlines, InWait
<1>1. CASE InitHandler
  BY <1>1 DEF InitHandler
<1>2. CASE ExitBegin
  BY <1>2 DEF ExitBegin, AbortWaitLocked
<1>3. CASE ExitNotify
  BY <1>3 DEF ExitNotify, Notify, lockedVars
<1>4. CASE ExitJoin
  BY <1>4 DEF ExitJoin, ThreadEnded, lockedVars
<1>5. CASE RoutineTop
  BY <1>5 DEF RoutineTop
<1>6. CASE ReadDuration
  BY <1>6 DEF ReadDuration, lockedVars
<1>7. CASE PollAborted
  BY <1>7 DEF PollAborted, WaitReturns, lockedVars
<1>8. CASE Poll1TimesOut
  BY <1>8 DEF Poll1TimesOut, lockedVars
<1>9. CASE PreadReturns
  BY <1>9 DEF PreadReturns, WaitReturns, lockedVars
<1>10. CASE PreadBusy
  BY <1>10 DEF PreadBusy, lockedVars
<1>11. CASE PollTimesOut
  BY <1>11 DEF PollTimesOut, WaitReturns, lockedVars
<1>12. CASE Release
  <2>1. hint' \in BOOLEAN
    BY <1>12, Zenon DEF Release, ReleaseHint
  <2>2. CASE mState = "WAITING"
    <3>1. pc' = "top" /\ mState' = "IDLE" /\ owed' = 0 /\ efd' = efd
      BY <1>12, <2>2 DEF Release
    <3> QED  BY <2>1, <2>2, <3>1, <1>12 DEF Release
  <2>3. CASE mState # "WAITING"
    BY <1>12, <2>3 DEF Release, ReleaseHint
  <2> QED  BY <2>2, <2>3
<1>13. CASE PollError
  BY <1>13 DEF PollError, WaitReturns, lockedVars
<1>14. CASE PollIdle
  BY <1>14 DEF PollIdle, WaitReturns, lockedVars
<1>15. CASE SpuriousWake
  BY <1>15 DEF SpuriousWake, lockedVars
<1>16. CASE Tick
  BY <1>16 DEF Tick, Less1, Larger
<1>17. CASE UNCHANGED vars
  BY <1>17 DEF vars
<1> HIDE DEF IInv, TypeOK, Lifecycle, Aborts, NoStaleAbort, HintHeld,
             NoLostWakeup, FdsOutliveThread, Deadlines, InWait
<1> QED
  BY <1>0, <1>1, <1>2, <1>3, <1>4, <1>5, <1>6, <1>7, <1>8, <1>9,
     <1>10, <1>11, <1>12, <1>13, <1>14, <1>15, <1>16, <1>17
     DEF Next, Thread

(* The handler's state is well-formed and every safety property of the       *)
(* checked run holds, whatever the timing constants and the requests.        *)
THEOREM HandlerInvariant == Spec => []IInv
<1> QED  BY InitIInv, StepIInv, PTL DEF Spec

(* Type correctness of the handler.                                          *)
THEOREM HandlerTypeOK == Spec => []TypeOK
<1>1. IInv => TypeOK  BY DEF IInv
<1> QED  BY <1>1, HandlerInvariant, PTL

(* An abort written to the eventfd is consumed by the wait it was written    *)
(* for, and by no other.                                                     *)
THEOREM AbortsNeverStale == Spec => []NoStaleAbort
<1>1. IInv => NoStaleAbort  BY DEF IInv, Aborts
<1> QED  BY <1>1, HandlerInvariant, PTL

(* The hint is held while the thread owes its release, the thread never      *)
(* sleeps through work, and never uses a closed descriptor.                  *)
THEOREM HandlerSafety == Spec => [](HintHeld /\ NoLostWakeup /\ FdsOutliveThread)
<1>1. IInv => HintHeld /\ NoLostWakeup /\ FdsOutliveThread  BY DEF IInv
<1> QED  BY <1>1, HandlerInvariant, PTL

(* A timeout never cuts short a request, for all timing constants.           *)
THEOREM TimeoutsHonourRequests == Spec => []TimeoutHonoursRequests
<1>1. IInv => TimeoutHonoursRequests
  BY DEF IInv, TypeOK, Deadlines, TimeoutHonoursRequests
<1> QED  BY <1>1, HandlerInvariant, PTL

(* An aborted wait never ends the hint, because every writer of an abort     *)
(* leaves WAITING under the same lock.                                       *)
THEOREM AbortedWaitsKeepHint == Spec => AbortNeverReleases
<1> DEFINE AbortMeansOvertaken ==
      pc = "release" /\ why = "abort" => mState # "WAITING"
<1>1. Init => AbortMeansOvertaken
  BY DEF Init
<1>2. IInv /\ AbortMeansOvertaken /\ [Next]_vars => AbortMeansOvertaken'
  <2> SUFFICES ASSUME IInv, AbortMeansOvertaken, [Next]_vars
               PROVE  AbortMeansOvertaken'
    OBVIOUS
  <2>1. CASE UNCHANGED vars
    BY <2>1 DEF vars
  <2>2. CASE PollAborted
    BY <2>2 DEF PollAborted, WaitReturns, lockedVars, IInv, TypeOK, Aborts,
                NoStaleAbort
  <2>3. CASE AcquireAny
    BY <2>3 DEF AcquireAny, Acquire, AcquireState, Notify, IInv, TypeOK, InWait
  <2>4. CASE Next /\ ~PollAborted /\ ~AcquireAny
    BY <2>4 DEF Next, Thread, InitHandler, ExitBegin, ExitNotify, ExitJoin,
         ThreadEnded, Notify, RoutineTop, ReadDuration, Poll1TimesOut, PreadReturns,
         PreadBusy, PollTimesOut, PollIdle, PollError, Release, SpuriousWake,
         Tick, WaitReturns, lockedVars
  <2> QED  BY <2>1, <2>2, <2>3, <2>4
<1>3. AbortMeansOvertaken /\ [Next]_vars
        => [why = "abort" /\ Release => hint' = hint]_vars
  BY DEF Release, ReleaseHint
<1> QED  BY <1>1, <1>2, <1>3, HandlerInvariant, PTL DEF Spec, AbortNeverReleases
=============================================================================
