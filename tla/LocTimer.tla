------------------------------- MODULE LocTimer -------------------------------
(* The timer service of the location stack, gps/utils/LocTimer.cpp: clients   *)
(* start and stop timers on their own threads; one LocTimerContainer keeps    *)
(* the running LocTimerDelegates in a heap that only the MsgTask thread       *)
(* touches, and arms a timerfd for the soonest; a third thread waits in       *)
(* epoll_wait for that timerfd and posts an expiry message to the MsgTask.    *)
EXTENDS Integers, Sequences

CONSTANTS
  Clients,      \* LocTimer objects
  Delegates,    \* addresses of LocTimerDelegates, reused once deleted
  None,         \* the NULL pointer
  Delays,       \* timeouts given to start()
  Destroys,     \* clients may be destroyed
  MaxTime       \* bound on the clock

ASSUME LocTimerAssumption ==
  /\ None \notin Clients /\ None \notin Delegates
  /\ Delays \subseteq Nat /\ MaxTime \in Nat /\ Destroys \in BOOLEAN

VARIABLES
  now,       \* CLOCK_BOOTTIME
  mTimer,    \* each client's running delegate, or None
  mClient,   \* each delegate's client, or None once stopped
  due,       \* mFutureTime of each delegate
  alive,     \* the delegates that exist
  heap,      \* the delegates in the container
  queue,     \* the MsgTask's messages
  task,      \* where the MsgTask thread is, with its locals
  armed,     \* the timerfd: {} when disarmed, else {the time it is set to}
  polled,    \* is the timerfd registered with epoll?
  poller,    \* where the poll thread is
  dead       \* destroyed clients

clientVars == <<mTimer, mClient, due, alive, dead>>
fdVars == <<armed, polled>>
vars == <<now, mTimer, mClient, due, alive, heap, queue, task, armed, polled,
          poller, dead>>

Idle == [pc |-> "idle", client |-> None, timer |-> None, since |-> 0]

Init ==
  /\ now = 0 /\ mTimer = [c \in Clients |-> None]
  /\ mClient = [d \in Delegates |-> None] /\ due = [d \in Delegates |-> 0]
  /\ alive = {} /\ heap = {} /\ queue = <<>> /\ task = Idle
  /\ armed = {} /\ polled = FALSE /\ poller = "wait" /\ dead = {}

PushMsg(d) == [kind |-> "push", timer |-> d]
RemoveMsg(d) == [kind |-> "remove", timer |-> d]
ExpireMsg == [kind |-> "expire", timer |-> None]

-----------------------------------------------------------------------------
(* The clients.  start() and stop() hold the client's mLock from end to end. *)

Start(c) ==
  /\ c \notin dead /\ mTimer[c] = None
  /\ \E d \in Delegates \ alive, delay \in Delays :
       /\ now + delay <= MaxTime
       /\ mTimer' = [mTimer EXCEPT ![c] = d]
       /\ mClient' = [mClient EXCEPT ![d] = c]
       /\ due' = [due EXCEPT ![d] = now + delay]
       /\ alive' = alive \cup {d}
       /\ queue' = Append(queue, PushMsg(d))
  /\ UNCHANGED <<now, heap, task, fdVars, poller, dead>>

(* stop() when there is something to stop: destroyLocked forgets the client  *)
(* and leaves the deletion of the delegate to the MsgTask.                    *)
StopTimer_DeletesAtOnce(c) ==
  /\ mTimer' = [mTimer EXCEPT ![c] = None]
  /\ mClient' = [mClient EXCEPT ![mTimer[c]] = None]
  /\ alive' = alive \ {mTimer[c]}
  /\ queue' = Append(queue, RemoveMsg(mTimer[c])) /\ UNCHANGED due
StopTimer(c) ==
  /\ mTimer' = [mTimer EXCEPT ![c] = None]
  /\ mClient' = [mClient EXCEPT ![mTimer[c]] = None]
  /\ queue' = Append(queue, RemoveMsg(mTimer[c])) /\ UNCHANGED <<due, alive>>

Stop(c) ==
  /\ mTimer[c] # None /\ StopTimer(c)
  /\ UNCHANGED <<now, heap, task, fdVars, poller, dead>>

(* ~LocTimer stops the timer; a client does not go while it is called back.  *)
Destroy(c) ==
  /\ Destroys /\ c \notin dead /\ ~(task.pc = "callback" /\ task.client = c)
  /\ dead' = dead \cup {c}
  /\ IF mTimer[c] # None THEN StopTimer(c)
     ELSE UNCHANGED <<mTimer, mClient, due, alive, queue>>
  /\ UNCHANGED <<now, heap, task, fdVars, poller>>

-----------------------------------------------------------------------------
(* The MsgTask thread. *)

(* The tops the heap may show: it does not say which of equals comes first.  *)
Tops == {d \in heap : \A e \in heap : due[d] <= due[e]}

Receive(kind) ==
  /\ task.pc = "idle" /\ queue # <<>> /\ Head(queue).kind = kind
  /\ queue' = Tail(queue)

(* updateSoonestTime for a heap that is not empty: register the timerfd with *)
(* epoll, then set it (in Arm).                                               *)
Rearm == polled' = TRUE /\ task' = [Idle EXCEPT !.pc = "arm"]
NoRearm == task' = Idle /\ UNCHANGED polled

Push_NeverSooner(d) == heap' = heap \cup {d} /\ IF heap = {} THEN Rearm ELSE NoRearm
Push(d) ==
  /\ heap' = heap \cup {d}
  /\ IF \A e \in heap : due[d] < due[e] THEN Rearm ELSE NoRearm

ProcPush ==
  /\ Receive("push") /\ Push(Head(queue).timer)
  /\ UNCHANGED <<now, clientVars, armed, poller>>

(* The top was taken away: the next one is armed.  When it was the last, the *)
(* old and the new top are both NULL and nothing is disarmed.                 *)
ProcRemove ==
  /\ Receive("remove")
  /\ LET d == Head(queue).timer IN
       /\ heap' = heap \ {d} /\ alive' = alive \ {d}
       /\ due' = [due EXCEPT ![d] = 0]
       /\ \/ d \in Tops /\ heap # {d} /\ Rearm
          \/ (d \notin Tops \/ Tops # {d} \/ heap = {d}) /\ NoRearm
  /\ UNCHANGED <<now, mTimer, mClient, dead, armed, poller>>

Arm == armed' = {due[d] : d \in Tops}

SetTime ==
  /\ task.pc = "arm" /\ Arm /\ task' = Idle
  /\ UNCHANGED <<now, clientVars, heap, queue, polled, poller>>

Looping(since) == [Idle EXCEPT !.pc = "loop", !.since = since]

(* Pops d and enters its expire(), which copies mClient without the lock.    *)
Pop(d, since) ==
  /\ heap' = heap \ {d}
  /\ task' = IF mClient[d] = None THEN Looping(since)
             ELSE [pc |-> "stop", client |-> mClient[d], timer |-> d, since |-> since]

(* The expiry message: the first pop is made whatever the time is.           *)
ProcExpire ==
  /\ Receive("expire")
  /\ IF heap = {} THEN UNCHANGED <<heap, task>> ELSE \E d \in Tops : Pop(d, now)
  /\ UNCHANGED <<now, clientVars, fdVars, poller>>

(* expire() forces a stop of whatever the client runs by now, and calls the  *)
(* client back when that said true.                                           *)
ExpireStops(c) ==
  IF mTimer[c] # None
  THEN StopTimer(c) /\ task' = [task EXCEPT !.pc = "callback", !.timer = mTimer[c]]
  ELSE /\ task' = Looping(task.since)
       /\ UNCHANGED <<mTimer, mClient, due, alive, queue>>

ForceStop ==
  /\ task.pc = "stop" /\ ExpireStops(task.client)
  /\ UNCHANGED <<now, heap, fdVars, poller, dead>>

TimeOutCallback ==
  /\ task.pc = "callback" /\ task' = Looping(task.since)
  /\ UNCHANGED <<now, clientVars, heap, queue, fdVars, poller>>

(* popIfOutRanks pops on while the top is due; then the next one is armed.   *)
DoneExpiring_NoRearm == NoRearm
DoneExpiring == IF heap # {} THEN Rearm ELSE NoRearm
ExpireLoop ==
  /\ task.pc = "loop"
  /\ \/ \E d \in Tops : due[d] <= task.since /\ Pop(d, task.since) /\ UNCHANGED polled
     \/ /\ \A d \in Tops : due[d] > task.since
        /\ DoneExpiring /\ UNCHANGED heap
  /\ UNCHANGED <<now, clientVars, queue, armed, poller>>

-----------------------------------------------------------------------------
(* The poll thread. *)

EpollReturns ==
  /\ poller = "wait" /\ polled /\ \E t \in armed : t <= now
  /\ poller' = "disarm"
  /\ UNCHANGED <<now, clientVars, heap, queue, task, fdVars>>

Disarm ==
  /\ poller = "disarm" /\ armed' = {} /\ poller' = "unpoll"
  /\ UNCHANGED <<now, clientVars, heap, queue, task, polled>>

RemovePoll ==
  /\ poller = "unpoll" /\ polled' = FALSE /\ poller' = "send"
  /\ UNCHANGED <<now, clientVars, heap, queue, task, armed>>

SendExpire ==
  /\ poller = "send" /\ queue' = Append(queue, ExpireMsg) /\ poller' = "wait"
  /\ UNCHANGED <<now, clientVars, heap, task, fdVars>>

Tick ==
  /\ now < MaxTime /\ now' = now + 1
  /\ UNCHANGED <<clientVars, heap, queue, task, fdVars, poller>>

MsgTask == \/ ProcPush \/ ProcRemove \/ SetTime \/ ProcExpire
           \/ ForceStop \/ TimeOutCallback \/ ExpireLoop
PollTask == EpollReturns \/ Disarm \/ RemovePoll \/ SendExpire

Next == \/ MsgTask \/ PollTask \/ Tick
        \/ \E c \in Clients : Start(c) \/ Stop(c) \/ Destroy(c)

Spec == Init /\ [][Next]_vars

(* The two threads run and time passes; clients need not act.                *)
FairSpec ==
  Spec /\ WF_vars(MsgTask) /\ WF_vars(PollTask) /\ WF_vars(Tick)

-----------------------------------------------------------------------------
Msgs == {PushMsg(d) : d \in Delegates} \cup {RemoveMsg(d) : d \in Delegates}
        \cup {ExpireMsg}

TypeOK ==
  /\ now \in Nat /\ mTimer \in [Clients -> Delegates \cup {None}]
  /\ mClient \in [Delegates -> Clients \cup {None}]
  /\ due \in [Delegates -> Nat] /\ alive \subseteq Delegates
  /\ heap \subseteq Delegates /\ queue \in Seq(Msgs)
  /\ task \in [pc : {"idle", "arm", "stop", "callback", "loop"},
               client : Clients \cup {None}, timer : Delegates \cup {None},
               since : Nat]
  /\ armed \in SUBSET Nat /\ polled \in BOOLEAN
  /\ poller \in {"wait", "disarm", "unpoll", "send"} /\ dead \subseteq Clients

(* "all timers are deleted here, and only here": whatever stops and expiries *)
(* race, the heap, the queue and the clients hold delegates that exist, a     *)
(* delegate is removed once and not pushed after that, and a delegate that is *)
(* no client's is about to be deleted.                                        *)
DelegatesLive ==
  /\ heap \subseteq alive
  /\ \A c \in Clients : mTimer[c] \in alive \cup {None}
  /\ \A i \in 1..Len(queue) : queue[i].kind # "expire" => queue[i].timer \in alive
  /\ \A i, j \in 1..Len(queue) :
       queue[i].kind = "remove" /\ queue[i].timer = queue[j].timer => j <= i
  /\ \A d \in alive :
       \/ \E c \in Clients : mTimer[c] = d
       \/ \E i \in 1..Len(queue) : queue[i] = RemoveMsg(d)

(* While timers wait in the heap, the timerfd will wake the poll thread for  *)
(* the soonest, or an expiry that will set it again is under way.             *)
SoonestIsArmed ==
  heap # {} =>
    \/ polled /\ \E t \in armed : \A d \in heap : t <= due[d]
    \/ poller # "wait" \/ task.pc # "idle"
    \/ \E i \in 1..Len(queue) : queue[i] = ExpireMsg

(* What a client sees is LocTimerService: one callback for a start, none for *)
(* a timer that stop() said it stopped, and every timer that is not stopped   *)
(* ends in a callback.                                                        *)
Service == INSTANCE LocTimerService WITH
  ticking <- {c \in Clients : mTimer[c] # None},
  called <- IF task.pc = "callback" THEN {task.client} ELSE {}
IsTimerService == Service!Spec

(* "pop everything in the heap that outRanks now, i.e. has time older than   *)
(* now": the expiry message expires no timer whose time is to come.           *)
ExpiresOnlyDue == task.pc = "stop" => due[task.timer] <= now

(* "Nulling this handle so that expire() won't call the callback on the dead *)
(* handle any more" (destroyLocked): expire() uses no client that is gone.    *)
NoDeadClient == task.pc = "stop" => task.client \notin dead
=============================================================================
