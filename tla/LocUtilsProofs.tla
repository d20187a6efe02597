---------------------------- MODULE LocUtilsProofs ----------------------------
(* Proofs about the location utilities.  LocTimer: its types, the life of the *)
(* delegates, the arming of the timerfd, and that clients see the safety part *)
(* of LocTimerService.  MsgQ, the queue its messages pass through: what holds *)
(* for every set of messages and every interleaving of senders, the thread    *)
(* and the one who stops it.                                                  *)
EXTENDS LocTimer, MsgQ, WellFoundedInduction, TLAPS

-----------------------------------------------------------------------------
(* What Append and Tail do to the elements of a queue. *)

(* An appended queue keeps its elements and ends in the new one: every        *)
(* sendMsg of the service.                                                     *)
LEMMA AppendElems ==
  ASSUME NEW S, NEW q \in Seq(S), NEW m \in S
  PROVE  /\ Append(q, m) \in Seq(S) /\ Len(Append(q, m)) = Len(q) + 1
         /\ \A i \in 1..Len(q) : Append(q, m)[i] = q[i]
         /\ Append(q, m)[Len(q) + 1] = m
  OBVIOUS

(* The tail of a queue holds the same elements, one place earlier: every      *)
(* receive of the MsgTask.                                                     *)
LEMMA TailElems ==
  ASSUME NEW S, NEW q \in Seq(S), q # <<>>
  PROVE  /\ Tail(q) \in Seq(S) /\ Len(Tail(q)) = Len(q) - 1
         /\ Len(q) \in Nat /\ Len(q) >= 1 /\ Head(q) = q[1] /\ q[1] \in S
         /\ \A i \in 1..Len(Tail(q)) : i + 1 \in 1..Len(q) /\ Tail(q)[i] = q[i + 1]
  OBVIOUS

-----------------------------------------------------------------------------
(* Type correctness. *)

(* A thread that is about to use a client has one. *)
HasClient == task.pc \in {"stop", "callback"} => task.client \in Clients

Types == TypeOK /\ HasClient

(* Stopping a timer keeps the client, delegate and queue types.               *)
LEMMA StopTimerType ==
  ASSUME Types, NEW c \in Clients, mTimer[c] # None, StopTimer(c)
  PROVE  /\ mTimer' \in [Clients -> Delegates \cup {None}]
         /\ mClient' \in [Delegates -> Clients \cup {None}]
         /\ queue' \in Seq(Msgs) /\ due' = due /\ alive' = alive
         /\ mTimer[c] \in Delegates
<1>1. mTimer[c] \in Delegates
  BY DEF Types, TypeOK
<1>2. RemoveMsg(mTimer[c]) \in Msgs
  BY <1>1 DEF Msgs
<1>3. queue' \in Seq(Msgs)
  BY <1>2, AppendElems DEF Types, TypeOK, StopTimer
<1> QED
  BY <1>1, <1>3 DEF Types, TypeOK, StopTimer

(* Every step keeps every variable in its domain.                             *)
LEMMA TypesStep == Types /\ [Next]_vars => Types'
<1> SUFFICES ASSUME Types, [Next]_vars PROVE Types'
  OBVIOUS
<1> USE LocTimerAssumption
<1>1. ASSUME NEW c \in Clients, Start(c) PROVE Types'
  <2>1. PICK d \in Delegates \ alive, delay \in Delays :
          /\ mTimer' = [mTimer EXCEPT ![c] = d]
          /\ mClient' = [mClient EXCEPT ![d] = c]
          /\ due' = [due EXCEPT ![d] = now + delay]
          /\ alive' = alive \cup {d}
          /\ queue' = Append(queue, PushMsg(d))
    BY <1>1 DEF Start
  <2>2. PushMsg(d) \in Msgs
    BY DEF Msgs
  <2>3. queue' \in Seq(Msgs)
    BY <2>1, <2>2, AppendElems DEF Types, TypeOK
  <2>4. now + delay \in Nat
    BY DEF Types, TypeOK
  <2> QED
    BY <1>1, <2>1, <2>3, <2>4
    DEF Types, TypeOK, HasClient, Start, fdVars
<1>2. ASSUME NEW c \in Clients, Stop(c) PROVE Types'
  BY <1>2, StopTimerType DEF Types, TypeOK, HasClient, Stop, fdVars
<1>3. ASSUME NEW c \in Clients, Destroy(c) PROVE Types'
  <2>1. CASE mTimer[c] # None
    BY <1>3, <2>1, StopTimerType DEF Types, TypeOK, HasClient, Destroy, fdVars
  <2>2. CASE mTimer[c] = None
    BY <1>3, <2>2 DEF Types, TypeOK, HasClient, Destroy, fdVars
  <2> QED
    BY <2>1, <2>2
<1>4. ASSUME NEW kind, Receive(kind)
      PROVE queue' \in Seq(Msgs) /\ (kind # "expire" => Head(queue).timer \in Delegates)
  <2>1. queue' \in Seq(Msgs) /\ Head(queue) \in Msgs
    BY <1>4, TailElems DEF Receive, Types, TypeOK
  <2> QED
    BY <1>4, <2>1 DEF Receive, Msgs, PushMsg, RemoveMsg, ExpireMsg
<1>5. Idle \in [pc : {"idle", "arm", "stop", "callback", "loop"},
                client : Clients \cup {None}, timer : Delegates \cup {None},
                since : Nat] /\ Idle.pc = "idle"
  BY DEF Idle
<1>6. CASE ProcPush
  <2>1. queue' \in Seq(Msgs) /\ Head(queue).timer \in Delegates
    BY <1>4, <1>6 DEF ProcPush
  <2> QED
    BY <1>5, <1>6, <2>1
    DEF ProcPush, Push, Rearm, NoRearm, Types, TypeOK, HasClient, clientVars, Idle
<1>7. CASE ProcRemove
  <2>1. queue' \in Seq(Msgs) /\ Head(queue).timer \in Delegates
    BY <1>4, <1>7 DEF ProcRemove
  <2>2. polled' \in BOOLEAN
    BY <1>7, Zenon DEF ProcRemove, Rearm, NoRearm, Types, TypeOK
  <2> QED
    BY <1>5, <1>7, <2>1, <2>2
    DEF ProcRemove, Rearm, NoRearm, Types, TypeOK, HasClient, Idle
<1>8. CASE SetTime
  <2>1. {due[d] : d \in Tops} \subseteq Nat
    BY DEF Tops, Types, TypeOK
  <2> QED
    BY <1>5, <1>8, <2>1 DEF SetTime, Arm, Types, TypeOK, HasClient, clientVars
<1>9. ASSUME NEW d \in Tops, NEW since \in Nat, Pop(d, since)
      PROVE heap' \subseteq Delegates /\ HasClient'
            /\ task' \in [pc : {"idle", "arm", "stop", "callback", "loop"},
                 client : Clients \cup {None}, timer : Delegates \cup {None},
                 since : Nat]
  BY <1>9 DEF Pop, Looping, Idle, Tops, Types, TypeOK, HasClient
<1>10. CASE ProcExpire
  <2>1. queue' \in Seq(Msgs)
    BY <1>4, <1>10 DEF ProcExpire
  <2>2. now \in Nat
    BY DEF Types, TypeOK
  <2>3. heap' \subseteq Delegates /\ HasClient'
            /\ task' \in [pc : {"idle", "arm", "stop", "callback", "loop"},
                 client : Clients \cup {None}, timer : Delegates \cup {None},
                 since : Nat]
    BY <1>9, <1>10, <2>2 DEF ProcExpire, Types, TypeOK, HasClient
  <2> QED
    BY <1>10, <2>1, <2>3 DEF ProcExpire, Types, TypeOK, clientVars, fdVars
<1>11. CASE ForceStop
  <2>1. task.client \in Clients
    BY <1>11 DEF ForceStop, Types, HasClient
  <2>2. CASE mTimer[task.client] # None
    <3>1. StopTimer(task.client)
          /\ task' = [task EXCEPT !.pc = "callback", !.timer = mTimer[task.client]]
      BY <1>11, <2>2 DEF ForceStop, ExpireStops
    <3> QED
      BY <1>11, <2>1, <2>2, <3>1, StopTimerType
      DEF ForceStop, Types, TypeOK, HasClient, fdVars
  <2>3. CASE mTimer[task.client] = None
    BY <1>11, <2>1, <2>3
    DEF ForceStop, ExpireStops, Looping, Idle, Types, TypeOK, HasClient, fdVars
  <2> QED
    BY <2>2, <2>3
<1>12. CASE TimeOutCallback
  BY <1>12 DEF TimeOutCallback, Looping, Idle, Types, TypeOK, HasClient, clientVars, fdVars
<1>13. CASE ExpireLoop
  <2>1. task.since \in Nat
    BY DEF Types, TypeOK
  <2>2. CASE \E d \in Tops : due[d] <= task.since /\ Pop(d, task.since) /\ UNCHANGED polled
    BY <1>9, <1>13, <2>1, <2>2 DEF ExpireLoop, Types, TypeOK, clientVars
  <2>3. CASE DoneExpiring /\ UNCHANGED heap
    <3>1. polled' \in BOOLEAN
      BY <2>3, Zenon DEF DoneExpiring, Rearm, NoRearm, Types, TypeOK
    <3> QED
      BY <1>5, <1>13, <2>3, <3>1
      DEF ExpireLoop, DoneExpiring, Rearm, NoRearm, Idle, Types, TypeOK, HasClient,
          clientVars
  <2> QED
    BY <1>13, <2>2, <2>3 DEF ExpireLoop
<1>14. CASE PollTask
  <2>1. ExpireMsg \in Msgs
    BY DEF Msgs
  <2>2. CASE SendExpire
    <3>1. queue' \in Seq(Msgs)
      BY <2>1, <2>2, AppendElems DEF SendExpire, Types, TypeOK
    <3> QED
      BY <2>2, <3>1 DEF SendExpire, Types, TypeOK, HasClient, clientVars, fdVars
  <2>3. CASE RemovePoll
    <3>1. polled' \in BOOLEAN
      BY <2>3, Zenon DEF RemovePoll
    <3> QED
      BY <2>3, <3>1 DEF RemovePoll, Types, TypeOK, HasClient, clientVars
  <2>4. CASE Disarm
    BY <2>4 DEF Disarm, Types, TypeOK, HasClient, clientVars
  <2>5. CASE EpollReturns
    BY <2>5 DEF EpollReturns, Types, TypeOK, HasClient, clientVars, fdVars
  <2> QED
    BY <1>14, <2>2, <2>3, <2>4, <2>5 DEF PollTask
<1>15. CASE Tick
  BY <1>15 DEF Tick, Types, TypeOK, HasClient, clientVars, fdVars
<1>16. CASE UNCHANGED vars
  BY <1>16 DEF vars, Types, TypeOK, HasClient
<1> QED
  BY <1>1, <1>2, <1>3, <1>6, <1>7, <1>8, <1>10, <1>11, <1>12, <1>13, <1>14, <1>15,
     <1>16
  DEF Next, MsgTask

(* Every variable of the timer service stays in its domain.                   *)
THEOREM TimerTypeOK == Spec => []TypeOK
<1>1. Init => Types
  <2> SUFFICES ASSUME Init PROVE Types
    OBVIOUS
  <2>1. polled \in BOOLEAN
    BY Zenon DEF Init
  <2>2. queue \in Seq(Msgs)
    BY DEF Init
  <2>3. task \in [pc : {"idle", "arm", "stop", "callback", "loop"},
                 client : Clients \cup {None}, timer : Delegates \cup {None},
                 since : Nat] /\ HasClient
    BY DEF Init, Idle, HasClient
  <2> QED
    BY <2>1, <2>2, <2>3 DEF Init, Types, TypeOK
<1>2. Types => TypeOK
  BY DEF Types
<1> QED
  BY <1>1, <1>2, TypesStep, PTL DEF Spec
-----------------------------------------------------------------------------
(* The life of a delegate: it is its client's while it runs, then exactly one *)
(* Remove message, the last message about it, is queued to delete it.         *)

Running == \A c \in Clients : mTimer[c] # None =>
             mTimer[c] \in alive /\ mClient[mTimer[c]] = c
Owned == \A d \in Delegates : mClient[d] # None =>
             d \in alive /\ mTimer[mClient[d]] = d
QueueLive == \A i \in 1..Len(queue) :
               queue[i].kind # "expire" => queue[i].timer \in alive
LastMsg == \A i \in 1..Len(queue) : queue[i].kind = "remove" =>
             /\ mClient[queue[i].timer] = None
             /\ \A j \in 1..Len(queue) : queue[j].timer = queue[i].timer => j <= i
WillBeDeleted == \A d \in alive : mClient[d] = None =>
                   \E i \in 1..Len(queue) : queue[i] = RemoveMsg(d)

Life == Running /\ Owned /\ QueueLive /\ LastMsg /\ WillBeDeleted /\ heap \subseteq alive

(* Stopping a timer hands its delegate over to a Remove message.              *)
LEMMA StopTimerLife ==
  ASSUME Types, Life, NEW c \in Clients, mTimer[c] # None, StopTimer(c), heap' = heap
  PROVE  Life'
<1> DEFINE d == mTimer[c]
<1>1. d \in alive /\ d \in Delegates /\ mClient[d] = c /\ d # None /\ c # None
  BY LocTimerAssumption DEF Types, TypeOK, Life, Running
<1>2. /\ mTimer' = [mTimer EXCEPT ![c] = None] /\ mClient' = [mClient EXCEPT ![d] = None]
      /\ queue' = Append(queue, RemoveMsg(d)) /\ alive' = alive
  BY DEF StopTimer
<1>3. queue \in Seq(Msgs) /\ RemoveMsg(d) \in Msgs
  BY <1>1 DEF Types, TypeOK, Msgs
<1>4. /\ Len(queue') = Len(queue) + 1 /\ queue'[Len(queue) + 1] = RemoveMsg(d)
      /\ \A i \in 1..Len(queue) : queue'[i] = queue[i]
      /\ Len(queue) \in Nat
  BY <1>2, <1>3, AppendElems
<1>5. \A i \in 1..Len(queue) : queue[i].kind = "remove" => queue[i].timer # d
  BY <1>1 DEF Life, LastMsg
<1> HIDE DEF d
<1>6. Running'
  BY <1>1, <1>2 DEF Types, TypeOK, Life, Running, Owned
<1>7. Owned'
  BY <1>1, <1>2 DEF Types, TypeOK, Life, Running, Owned
<1>8. QueueLive'
  BY <1>1, <1>2, <1>4 DEF Life, QueueLive, RemoveMsg
<1>9. LastMsg'
  <2> SUFFICES ASSUME NEW i \in 1..Len(queue'), queue'[i].kind = "remove"
               PROVE  /\ mClient'[queue'[i].timer] = None
                      /\ \A j \in 1..Len(queue') :
                           queue'[j].timer = queue'[i].timer => j <= i
    BY DEF LastMsg
  <2>1. CASE i = Len(queue) + 1
    BY <1>1, <1>2, <1>4, <2>1 DEF RemoveMsg, Types, TypeOK
  <2>2. CASE i \in 1..Len(queue)
    <3>1. /\ queue'[i] = queue[i] /\ queue[i].timer # d /\ queue[i].timer \in alive
          /\ mClient[queue[i].timer] = None
          /\ \A j \in 1..Len(queue) : queue[j].timer = queue[i].timer => j <= i
      BY <1>4, <1>5, <2>2 DEF Life, LastMsg, QueueLive
    <3>2. mClient'[queue[i].timer] = None
      BY <1>1, <1>2, <3>1 DEF Types, TypeOK
    <3>3. \A j \in 1..Len(queue') : queue'[j].timer = queue'[i].timer => j <= i
      BY <1>4, <3>1 DEF RemoveMsg
    <3> QED
      BY <3>1, <3>2, <3>3
  <2> QED
    BY <1>4, <2>1, <2>2
<1>10. WillBeDeleted'
  <2> SUFFICES ASSUME NEW e \in alive, mClient'[e] = None
               PROVE  \E i \in 1..Len(queue') : queue'[i] = RemoveMsg(e)
    BY <1>2 DEF WillBeDeleted
  <2>1. CASE e = d
    BY <1>4, <2>1
  <2>2. CASE e # d
    <3>1. mClient[e] = None
      BY <1>2, <2>2 DEF Types, TypeOK
    <3>2. PICK i \in 1..Len(queue) : queue[i] = RemoveMsg(e)
      BY <3>1 DEF Life, WillBeDeleted
    <3> QED
      BY <1>4, <3>2
  <2> QED
    BY <2>1, <2>2
<1> QED
  BY <1>2, <1>6, <1>7, <1>8, <1>9, <1>10 DEF Life

(* A step that touches neither clients nor queue, and adds nothing to the     *)
(* heap, changes no delegate's life.                                          *)
LEMMA UntouchedLife ==
  ASSUME Life, UNCHANGED clientVars, queue' = queue, heap' \subseteq heap
  PROVE  Life'
  BY DEF Life, Running, Owned, QueueLive, LastMsg, WillBeDeleted, clientVars

(* Taking a message that is no Remove out of the queue changes nothing but    *)
(* the queue, when what enters the heap is a live delegate.                   *)
LEMMA ReceiveLife ==
  ASSUME Types, Life, UNCHANGED clientVars, queue # <<>>, queue' = Tail(queue),
         Head(queue).kind # "remove", heap' \subseteq alive
  PROVE  Life'
<1>1. /\ Len(queue') = Len(queue) - 1 /\ Len(queue) \in Nat /\ Head(queue) = queue[1]
      /\ \A i \in 1..Len(queue') : i + 1 \in 1..Len(queue) /\ queue'[i] = queue[i + 1]
  BY TailElems DEF Types, TypeOK
<1>2. QueueLive' /\ LastMsg'
  BY <1>1 DEF Life, QueueLive, LastMsg, clientVars
<1>3. WillBeDeleted'
  <2> SUFFICES ASSUME NEW d \in alive, mClient[d] = None
               PROVE  \E i \in 1..Len(queue') : queue'[i] = RemoveMsg(d)
    BY DEF WillBeDeleted, clientVars
  <2>1. PICK i \in 1..Len(queue) : queue[i] = RemoveMsg(d)
    BY DEF Life, WillBeDeleted
  <2>2. i # 1
    BY <1>1, <2>1 DEF RemoveMsg
  <2>3. i - 1 \in 1..Len(queue') /\ queue'[i - 1] = queue[i]
    BY <1>1, <2>2
  <2> QED
    BY <2>1, <2>3
<1> QED
  BY <1>2, <1>3 DEF Life, Running, Owned, clientVars

(* Every step keeps the life of every delegate in order.                      *)
LEMMA LifeStep == Types /\ Life /\ [Next]_vars => Life'
<1> SUFFICES ASSUME Types, Life, [Next]_vars PROVE Life'
  OBVIOUS
<1>1. ASSUME NEW c \in Clients, Start(c) PROVE Life'
  <2>1. PICK d \in Delegates \ alive :
          /\ mTimer' = [mTimer EXCEPT ![c] = d] /\ mClient' = [mClient EXCEPT ![d] = c]
          /\ alive' = alive \cup {d} /\ queue' = Append(queue, PushMsg(d))
    BY <1>1 DEF Start
  <2>2. mTimer[c] = None /\ heap' = heap /\ c # None /\ d # None
    BY <1>1, LocTimerAssumption DEF Start
  <2>3. mClient[d] = None
    BY DEF Life, Owned
  <2>4. queue \in Seq(Msgs) /\ PushMsg(d) \in Msgs
    BY DEF Types, TypeOK, Msgs
  <2>5. /\ Len(queue') = Len(queue) + 1 /\ queue'[Len(queue) + 1] = PushMsg(d)
        /\ \A i \in 1..Len(queue) : queue'[i] = queue[i]
        /\ Len(queue) \in Nat
    BY <2>1, <2>4, AppendElems
  <2>6. Running'
    BY <2>1, <2>2, <2>3 DEF Types, TypeOK, Life, Running, Owned
  <2>61. Owned'
    <3> SUFFICES ASSUME NEW e \in Delegates, mClient'[e] # None
                 PROVE  e \in alive' /\ mTimer'[mClient'[e]] = e
      BY DEF Owned
    <3>1. CASE e = d
      BY <2>1, <3>1 DEF Types, TypeOK
    <3>2. CASE e # d
      <4>1. mClient'[e] = mClient[e] /\ e \in alive /\ mTimer[mClient[e]] = e
        BY <2>1, <3>2 DEF Types, TypeOK, Life, Owned
      <4>2. mClient[e] # c
        BY <2>2, <4>1, LocTimerAssumption
      <4> QED
        BY <2>1, <4>1, <4>2 DEF Types, TypeOK
    <3> QED
      BY <3>1, <3>2
  <2>7. QueueLive'
    BY <2>1, <2>5 DEF Life, QueueLive, PushMsg
  <2>8. LastMsg'
    <3> SUFFICES ASSUME NEW i \in 1..Len(queue'), queue'[i].kind = "remove"
                 PROVE  /\ mClient'[queue'[i].timer] = None
                        /\ \A j \in 1..Len(queue') :
                             queue'[j].timer = queue'[i].timer => j <= i
      BY DEF LastMsg
    <3>1. i \in 1..Len(queue) /\ queue'[i] = queue[i]
      BY <2>5 DEF PushMsg
    <3>2. /\ queue[i].timer \in alive /\ mClient[queue[i].timer] = None
          /\ \A j \in 1..Len(queue) : queue[j].timer = queue[i].timer => j <= i
      BY <3>1 DEF Life, LastMsg, QueueLive
    <3>3. mClient'[queue[i].timer] = None
      BY <2>1, <3>2 DEF Types, TypeOK
    <3> QED
      BY <2>5, <3>1, <3>2, <3>3 DEF PushMsg
  <2>9. WillBeDeleted'
    <3> SUFFICES ASSUME NEW e \in alive', mClient'[e] = None
                 PROVE  \E i \in 1..Len(queue') : queue'[i] = RemoveMsg(e)
      BY DEF WillBeDeleted
    <3>1. e \in alive /\ mClient[e] = None
      BY <2>1, <2>2 DEF Types, TypeOK
    <3>2. PICK i \in 1..Len(queue) : queue[i] = RemoveMsg(e)
      BY <3>1 DEF Life, WillBeDeleted
    <3> QED
      BY <2>5, <3>2
  <2> QED
    BY <2>1, <2>2, <2>6, <2>61, <2>7, <2>8, <2>9 DEF Life
<1>2. ASSUME NEW c \in Clients, Stop(c) PROVE Life'
  BY <1>2, StopTimerLife DEF Stop
<1>3. ASSUME NEW c \in Clients, Destroy(c) PROVE Life'
  <2>1. CASE mTimer[c] # None
    BY <1>3, <2>1, StopTimerLife DEF Destroy
  <2>2. CASE mTimer[c] = None
    BY <1>3, <2>2
    DEF Destroy, Life, Running, Owned, QueueLive, LastMsg, WillBeDeleted
  <2> QED
    BY <2>1, <2>2
<1>4. CASE ProcPush
  <2>1. Head(queue).timer \in alive /\ Head(queue).kind = "push" /\ queue # <<>>
    BY <1>4, TailElems DEF ProcPush, Receive, Types, TypeOK, Life, QueueLive
  <2>2. heap' \subseteq alive
    BY <1>4, <2>1 DEF ProcPush, Push, Life
  <2> QED
    BY <1>4, <2>1, <2>2, ReceiveLife DEF ProcPush, Receive
<1>5. CASE ProcRemove
  <2> DEFINE d == Head(queue).timer
  <2>1. /\ queue # <<>> /\ queue' = Tail(queue) /\ Head(queue).kind = "remove"
        /\ heap' = heap \ {d} /\ alive' = alive \ {d}
        /\ mTimer' = mTimer /\ mClient' = mClient
    BY <1>5 DEF ProcRemove, Receive
  <2>2. /\ Len(queue') = Len(queue) - 1 /\ Len(queue) \in Nat /\ Len(queue) >= 1
        /\ Head(queue) = queue[1]
        /\ \A i \in 1..Len(queue') : i + 1 \in 1..Len(queue) /\ queue'[i] = queue[i + 1]
    BY <2>1, TailElems DEF Types, TypeOK
  <2>3. d \in alive /\ d \in Delegates /\ mClient[d] = None
        /\ \A j \in 1..Len(queue) : queue[j].timer = d => j <= 1
    BY <2>1, <2>2 DEF Life, QueueLive, LastMsg, Types, TypeOK
  <2> HIDE DEF d
  <2>4. Running' /\ Owned'
    BY <2>1, <2>3, LocTimerAssumption DEF Life, Running, Owned, Types, TypeOK
  <2>5. QueueLive'
    BY <2>1, <2>2, <2>3 DEF Life, QueueLive
  <2>6. LastMsg'
    BY <2>1, <2>2 DEF Life, LastMsg
  <2>7. WillBeDeleted'
    <3> SUFFICES ASSUME NEW e \in alive \ {d}, mClient[e] = None
                 PROVE  \E i \in 1..Len(queue') : queue'[i] = RemoveMsg(e)
      BY <2>1 DEF WillBeDeleted
    <3>1. PICK i \in 1..Len(queue) : queue[i] = RemoveMsg(e)
      BY DEF Life, WillBeDeleted
    <3>2. i # 1
      BY <2>2, <3>1 DEF RemoveMsg, d
    <3>3. i - 1 \in 1..Len(queue') /\ queue'[i - 1] = queue[i]
      BY <2>2, <3>2
    <3> QED
      BY <3>1, <3>3
  <2> QED
    BY <2>1, <2>4, <2>5, <2>6, <2>7 DEF Life
<1>6. CASE SetTime
  BY <1>6, UntouchedLife DEF SetTime
<1>7. CASE ProcExpire
  <2>1. queue # <<>> /\ queue' = Tail(queue) /\ Head(queue).kind # "remove"
        /\ UNCHANGED clientVars
    BY <1>7 DEF ProcExpire, Receive
  <2>2. heap' \subseteq alive
    BY <1>7 DEF ProcExpire, Pop, Life
  <2> QED
    BY <2>1, <2>2, ReceiveLife
<1>8. CASE ForceStop
  <2>1. task.client \in Clients /\ heap' = heap
    BY <1>8 DEF ForceStop, Types, HasClient
  <2>2. CASE mTimer[task.client] # None
    BY <1>8, <2>1, <2>2, StopTimerLife DEF ForceStop, ExpireStops
  <2>3. CASE mTimer[task.client] = None
    BY <1>8, <2>1, <2>3, UntouchedLife DEF ForceStop, ExpireStops, clientVars
  <2> QED
    BY <2>2, <2>3
<1>9. CASE TimeOutCallback
  BY <1>9, UntouchedLife DEF TimeOutCallback
<1>10. CASE ExpireLoop
  BY <1>10, UntouchedLife DEF ExpireLoop, Pop
<1>11. CASE PollTask
  <2>1. CASE SendExpire
    <3>1. queue \in Seq(Msgs) /\ ExpireMsg \in Msgs
      BY DEF Types, TypeOK, Msgs
    <3>2. /\ Len(queue') = Len(queue) + 1 /\ queue'[Len(queue) + 1] = ExpireMsg
          /\ \A i \in 1..Len(queue) : queue'[i] = queue[i]
          /\ Len(queue) \in Nat /\ UNCHANGED clientVars /\ heap' = heap
      BY <2>1, <3>1, AppendElems DEF SendExpire
    <3>3. QueueLive'
      BY <3>2 DEF Life, QueueLive, clientVars, ExpireMsg
    <3>4. None \notin alive
      BY LocTimerAssumption DEF Types, TypeOK
    <3>5. LastMsg'
      BY <3>2, <3>4 DEF Life, LastMsg, QueueLive, clientVars, ExpireMsg
    <3>6. WillBeDeleted'
      BY <3>2 DEF Life, WillBeDeleted, clientVars
    <3> QED
      BY <3>2, <3>3, <3>5, <3>6 DEF Life, Running, Owned, clientVars
  <2>2. CASE EpollReturns \/ Disarm \/ RemovePoll
    BY <2>2, UntouchedLife DEF EpollReturns, Disarm, RemovePoll
  <2> QED
    BY <1>11, <2>1, <2>2 DEF PollTask
<1>12. CASE Tick
  BY <1>12, UntouchedLife DEF Tick
<1>13. CASE UNCHANGED vars
  BY <1>13, UntouchedLife DEF vars, clientVars
<1> QED
  BY <1>1, <1>2, <1>3, <1>4, <1>5, <1>6, <1>7, <1>8, <1>9, <1>10, <1>11, <1>12, <1>13
  DEF Next, MsgTask

(* Nothing is running, queued or in the heap when the service starts.         *)
LEMMA LifeInit == Init => Types /\ Life
<1> SUFFICES ASSUME Init PROVE Types /\ Life
  OBVIOUS
<1>1. polled \in BOOLEAN
  BY Zenon DEF Init
<1>2. queue \in Seq(Msgs) /\ Len(queue) = 0
  BY DEF Init
<1>3. task \in [pc : {"idle", "arm", "stop", "callback", "loop"},
               client : Clients \cup {None}, timer : Delegates \cup {None},
               since : Nat] /\ HasClient
  BY DEF Init, Idle, HasClient
<1>4. Types
  BY <1>1, <1>2, <1>3 DEF Init, Types, TypeOK
<1>5. Life
  BY <1>2 DEF Init, Life, Running, Owned, QueueLive, LastMsg, WillBeDeleted
<1> QED
  BY <1>4, <1>5

(* No stop, restart, expiry or destruction leaves a dangling delegate in the  *)
(* heap or the queue, deletes one twice or forgets to delete one.             *)
THEOREM DelegatesStayLive == Spec => []DelegatesLive
<1>1. Types /\ Life => DelegatesLive
  <2> SUFFICES ASSUME Types, Life PROVE DelegatesLive
    OBVIOUS
  <2>1. ASSUME NEW d \in alive
        PROVE  \/ \E c \in Clients : mTimer[c] = d
               \/ \E i \in 1..Len(queue) : queue[i] = RemoveMsg(d)
    <3>1. d \in Delegates /\ mClient[d] \in Clients \cup {None}
      BY DEF Types, TypeOK
    <3>2. CASE mClient[d] = None
      BY <3>2 DEF Life, WillBeDeleted
    <3>3. CASE mClient[d] # None
      BY <3>1, <3>3 DEF Life, Owned
    <3> QED
      BY <3>2, <3>3
  <2>2. \A c \in Clients : mTimer[c] \in alive \cup {None}
    BY DEF Life, Running
  <2>3. \A i, j \in 1..Len(queue) :
          queue[i].kind = "remove" /\ queue[i].timer = queue[j].timer => j <= i
    BY DEF Life, LastMsg
  <2> QED
    BY <2>1, <2>2, <2>3 DEF DelegatesLive, Life, QueueLive
<1> QED
  BY <1>1, LifeInit, TypesStep, LifeStep, PTL DEF Spec

-----------------------------------------------------------------------------
(* The arming of the timerfd.                                                 *)

(* Between registering the timerfd and setting it, the poll thread may take   *)
(* the registration away, but only on its way to send another expiry.         *)
ArmIsPolled == task.pc = "arm" => polled \/ poller = "send"
                                  \/ \E i \in 1..Len(queue) : queue[i] = ExpireMsg

Arming == SoonestIsArmed /\ ArmIsPolled

(* A set of numbers that is not empty has a least one.                        *)
LEMMA LeastNumber ==
  ASSUME NEW T \in SUBSET Nat, T # {}
  PROVE  \E x \in T : \A y \in T : x <= y
<1> DEFINE R == {ss \in Nat \X Nat : ss[1] < ss[2]}
<1>1. IsWellFoundedOn(R, Nat)
  BY NatLessThanWellFounded DEF OpToRel
<1>2. \A x, y \in Nat : y < x => <<y, x>> \in R
  OBVIOUS
<1> HIDE DEF R
<1>3. PICK x \in T : \A y \in T : ~(<<y, x>> \in R)
  BY <1>1, WFMin
<1>4. \A y \in T : ~(y < x)
  BY <1>2, <1>3
<1> QED
  BY <1>4

(* A heap that is not empty has a top.                                        *)
LEMMA TopExists ==
  ASSUME Types, heap # {}
  PROVE  Tops # {}
<1> DEFINE T == {due[d] : d \in heap}
<1>1. T \in SUBSET Nat /\ T # {}
  BY DEF Types, TypeOK
<1> HIDE DEF T
<1>2. PICK x \in T : \A y \in T : x <= y
  BY <1>1, LeastNumber
<1> QED
  BY <1>2 DEF Tops, T

(* Every message but an expiry leaves the expiries that are queued.           *)
LEMMA ExpiryStays ==
  ASSUME Types, queue # <<>>, queue' = Tail(queue), Head(queue).kind # "expire",
         \E i \in 1..Len(queue) : queue[i] = ExpireMsg
  PROVE  \E i \in 1..Len(queue') : queue'[i] = ExpireMsg
<1>1. /\ Len(queue') = Len(queue) - 1 /\ Len(queue) \in Nat /\ Head(queue) = queue[1]
      /\ \A i \in 1..Len(queue') : i + 1 \in 1..Len(queue) /\ queue'[i] = queue[i + 1]
  BY TailElems DEF Types, TypeOK
<1>2. PICK i \in 1..Len(queue) : queue[i] = ExpireMsg
  OBVIOUS
<1>3. i # 1
  BY <1>1, <1>2 DEF ExpireMsg
<1>4. i - 1 \in 1..Len(queue') /\ queue'[i - 1] = queue[i]
  BY <1>1, <1>3
<1> QED
  BY <1>2, <1>4

(* Appending to the queue leaves the expiries that are queued.                *)
LEMMA ExpiryKept ==
  ASSUME Types, NEW m \in Msgs, queue' = Append(queue, m),
         \E i \in 1..Len(queue) : queue[i] = ExpireMsg
  PROVE  \E i \in 1..Len(queue') : queue'[i] = ExpireMsg
<1>1. /\ Len(queue') = Len(queue) + 1 /\ Len(queue) \in Nat
      /\ \A i \in 1..Len(queue) : queue'[i] = queue[i]
  BY AppendElems DEF Types, TypeOK
<1> QED
  BY <1>1

(* Popping a delegate leads to a client's stop() or to the next round.        *)
LEMMA PopsTo ==
  ASSUME NEW d, NEW since, Pop(d, since)
  PROVE  task'.pc \in {"stop", "loop"}
<1>1. CASE mClient[d] = None
  BY <1>1 DEF Pop, Looping, Idle
<1>2. CASE mClient[d] # None
  BY <1>2 DEF Pop
<1> QED
  BY <1>1, <1>2

(* Every step keeps the soonest timer armed, or an expiry on its way.         *)
LEMMA ArmingStep == Types /\ Life /\ Arming /\ [Next]_vars => Arming'
<1> SUFFICES ASSUME Types, Life, Arming, [Next]_vars PROVE Arming'
  OBVIOUS
<1>1. ASSUME NEW c \in Clients, Start(c) PROVE Arming'
  <2>1. PICK d \in Delegates \ alive, delay \in Delays :
          due' = [due EXCEPT ![d] = now + delay] /\ queue' = Append(queue, PushMsg(d))
    BY <1>1 DEF Start
  <2>2. PushMsg(d) \in Msgs
    BY DEF Msgs
  <2>3. \A e \in heap : due'[e] = due[e]
    BY <2>1 DEF Life, Types, TypeOK
  <2>4. UNCHANGED <<heap, task, armed, polled, poller>>
    BY <1>1 DEF Start, fdVars
  <2> QED
    BY <2>1, <2>2, <2>3, <2>4, ExpiryKept DEF Arming, SoonestIsArmed, ArmIsPolled
<1>2. ASSUME NEW c \in Clients, mTimer[c] # None, StopTimer(c),
             UNCHANGED <<heap, task, armed, polled, poller>>
      PROVE  Arming'
  <2>1. queue' = Append(queue, RemoveMsg(mTimer[c])) /\ RemoveMsg(mTimer[c]) \in Msgs
        /\ due' = due
    BY <1>2 DEF StopTimer, Types, TypeOK, Msgs
  <2> QED
    BY <1>2, <2>1, ExpiryKept DEF Arming, SoonestIsArmed, ArmIsPolled
<1>3. ASSUME NEW c \in Clients, Stop(c) PROVE Arming'
  BY <1>2, <1>3 DEF Stop, fdVars
<1>4. ASSUME NEW c \in Clients, Destroy(c) PROVE Arming'
  <2>1. CASE mTimer[c] # None
    BY <1>2, <1>4, <2>1 DEF Destroy, fdVars
  <2>2. CASE mTimer[c] = None
    BY <1>4, <2>2 DEF Destroy, fdVars, Arming, SoonestIsArmed, ArmIsPolled
  <2> QED
    BY <2>1, <2>2
<1>5. Rearm => task'.pc = "arm" /\ polled'
  BY DEF Rearm, Idle
<1>6. NoRearm => task'.pc = "idle" /\ polled' = polled
  BY DEF NoRearm, Idle
<1>7. CASE ProcPush
  <2>1. queue # <<>> /\ queue' = Tail(queue) /\ Head(queue).kind # "expire"
        /\ UNCHANGED <<due, armed, poller>> /\ task.pc = "idle"
    BY <1>7 DEF ProcPush, Receive, clientVars
  <2>2. heap' = heap \cup {Head(queue).timer}
    BY <1>7 DEF ProcPush, Push
  <2>3. CASE Rearm
    BY <1>5, <2>3 DEF Arming, SoonestIsArmed, ArmIsPolled
  <2>4. CASE NoRearm /\ \E e \in heap : ~(due[Head(queue).timer] < due[e])
    <3>1. PICK e \in heap : ~(due[Head(queue).timer] < due[e])
      BY <2>4
    <3>2. Head(queue).timer \in Delegates
      BY <2>1, <1>7, TailElems DEF ProcPush, Receive, Types, TypeOK, Msgs, PushMsg, RemoveMsg, ExpireMsg
    <3>3. due[e] <= due[Head(queue).timer]
      BY <3>1, <3>2 DEF Types, TypeOK
    <3>4. ASSUME NEW t \in armed, \A d \in heap : t <= due[d], NEW d \in heap'
          PROVE  t <= due[d]
      <4>1. d \in heap \/ d = Head(queue).timer
        BY <2>2
      <4>2. t <= due[e]
        BY <3>4
      <4>3. t \in Int /\ due[e] \in Int /\ due[Head(queue).timer] \in Int
        <5>1. armed \subseteq Nat /\ due \in [Delegates -> Nat] /\ heap \subseteq Delegates
          BY Zenon DEF Types, TypeOK
        <5> QED
          BY <3>1, <3>2, <3>4, <5>1
      <4>4. t <= due[Head(queue).timer]
        BY <3>3, <4>2, <4>3
      <4> QED
        BY <3>4, <4>1, <4>4
    <3> QED
      BY <1>6, <2>1, <2>4, <3>1, <3>4, ExpiryStays
      DEF Arming, SoonestIsArmed, ArmIsPolled
  <2> QED
    BY <1>7, <2>3, <2>4 DEF ProcPush, Push
<1>8. CASE ProcRemove
  <2> DEFINE d == Head(queue).timer
  <2>1. queue # <<>> /\ queue' = Tail(queue) /\ Head(queue).kind # "expire"
        /\ UNCHANGED <<armed, poller>> /\ heap' = heap \ {d} /\ task.pc = "idle"
        /\ due' = [due EXCEPT ![d] = 0]
    BY <1>8 DEF ProcRemove, Receive
  <2>2. \A e \in heap' : due'[e] = due[e]
    BY <2>1 DEF Types, TypeOK
  <2>3. CASE Rearm
    BY <1>5, <2>3 DEF Arming, SoonestIsArmed, ArmIsPolled
  <2>4. CASE NoRearm
    <3>1. heap' # {} => heap # {}
      BY <2>1
    <3>2. \A t \in armed : (\A e \in heap : t <= due[e]) => \A e \in heap' : t <= due'[e]
      BY <2>1, <2>2
    <3> QED
      BY <1>6, <2>1, <2>4, <3>1, <3>2, ExpiryStays
      DEF Arming, SoonestIsArmed, ArmIsPolled
  <2> QED
    BY <1>8, <2>3, <2>4 DEF ProcRemove
<1>9. CASE SetTime
  <2>1. /\ armed' = {due[d] : d \in Tops} /\ task'.pc = "idle" /\ task.pc = "arm"
        /\ UNCHANGED <<due, heap, queue, polled, poller>>
    BY <1>9 DEF SetTime, Arm, Idle, clientVars
  <2>2. CASE heap = {} \/ poller = "send" \/ \E i \in 1..Len(queue) : queue[i] = ExpireMsg
    BY <2>1, <2>2 DEF Arming, SoonestIsArmed, ArmIsPolled
  <2>3. CASE heap # {} /\ polled
    BY <2>1, <2>3, TopExists DEF Arming, SoonestIsArmed, ArmIsPolled, Tops
  <2> QED
    BY <2>1, <2>2, <2>3 DEF Arming, ArmIsPolled
<1>10. CASE ProcExpire
  <2>1. CASE heap = {}
    BY <1>10, <2>1 DEF ProcExpire, Receive, Arming, SoonestIsArmed, ArmIsPolled
  <2>2. CASE heap # {}
    <3>1. PICK d \in Tops : Pop(d, now)
      BY <1>10, <2>2 DEF ProcExpire
    <3>2. task'.pc \in {"stop", "loop"}
      BY <3>1, PopsTo
    <3> QED
      BY <3>2 DEF Arming, SoonestIsArmed, ArmIsPolled
  <2> QED
    BY <2>1, <2>2
<1>11. CASE ForceStop \/ TimeOutCallback
  <2>1. task'.pc \in {"callback", "loop"}
    BY <1>11
    DEF ForceStop, ExpireStops, TimeOutCallback, Looping, Idle, Types, TypeOK
  <2> QED
    BY <2>1 DEF Arming, SoonestIsArmed, ArmIsPolled
<1>12. CASE ExpireLoop
  <2>1. CASE \E d \in Tops : Pop(d, task.since)
    <3>1. PICK d \in Tops : Pop(d, task.since)
      BY <2>1
    <3>2. task'.pc \in {"stop", "loop"}
      BY <3>1, PopsTo
    <3> QED
      BY <3>2 DEF Arming, SoonestIsArmed, ArmIsPolled
  <2>2. CASE DoneExpiring /\ UNCHANGED heap
    BY <1>5, <1>6, <2>2 DEF DoneExpiring, Arming, SoonestIsArmed, ArmIsPolled
  <2> QED
    BY <1>12, <2>1, <2>2 DEF ExpireLoop
<1>13. CASE PollTask
  <2>1. CASE SendExpire
    <3>1. queue \in Seq(Msgs) /\ ExpireMsg \in Msgs
      BY DEF Types, TypeOK, Msgs
    <3>2. Len(queue') = Len(queue) + 1 /\ queue'[Len(queue) + 1] = ExpireMsg
          /\ Len(queue) \in Nat
      BY <2>1, <3>1, AppendElems DEF SendExpire
    <3>3. \E i \in 1..Len(queue') : queue'[i] = ExpireMsg
      BY <3>2
    <3> QED
      BY <3>3 DEF Arming, SoonestIsArmed, ArmIsPolled
  <2>2. CASE EpollReturns \/ Disarm
    BY <2>2
    DEF EpollReturns, Disarm, Arming, SoonestIsArmed, ArmIsPolled, fdVars, clientVars
  <2>3. CASE RemovePoll
    BY <2>3 DEF RemovePoll, Arming, SoonestIsArmed, ArmIsPolled
  <2> QED
    BY <1>13, <2>1, <2>2, <2>3 DEF PollTask
<1>14. CASE Tick
  BY <1>14 DEF Tick, Arming, SoonestIsArmed, ArmIsPolled, clientVars, fdVars
<1>15. CASE UNCHANGED vars
  BY <1>15 DEF vars, Arming, SoonestIsArmed, ArmIsPolled
<1> QED
  BY <1>1, <1>3, <1>4, <1>7, <1>8, <1>9, <1>10, <1>11, <1>12, <1>13, <1>14, <1>15
  DEF Next, MsgTask

(* A timer in the heap is never slept through: the timerfd is set for the     *)
(* soonest, or an expiry that will set it is on its way.                      *)
THEOREM SoonestStaysArmed == Spec => []SoonestIsArmed
<1>1. Init => Arming
  BY DEF Init, Idle, Arming, SoonestIsArmed, ArmIsPolled
<1>2. Arming => SoonestIsArmed
  BY DEF Arming
<1> QED
  BY <1>1, <1>2, LifeInit, TypesStep, LifeStep, ArmingStep, PTL DEF Spec

-----------------------------------------------------------------------------
(* Every step of the service is one a client of LocTimerService may see, or   *)
(* changes nothing it sees: callbacks come one for one with the timers used   *)
(* up, and a stopped timer has none.                                          *)
THEOREM ImplementsService == Spec => Service!SafeSpec
<1>1. Init => Service!Init
  BY DEF Init, Idle, Service!Init
<1>2. Types /\ [Next]_vars => [Service!Next]_(Service!svcVars)
  <2> SUFFICES ASSUME Types, [Next]_vars PROVE [Service!Next]_(Service!svcVars)
    OBVIOUS
  <2> USE DEF Service!svcVars
  <2>1. ASSUME UNCHANGED mTimer, task'.pc # "callback", task.pc # "callback"
        PROVE  UNCHANGED Service!svcVars
    BY <2>1
  <2>2. ASSUME NEW c \in Clients, Start(c) PROVE Service!Start(c)
    BY <2>2, LocTimerAssumption DEF Start, Service!Start, Types, TypeOK
  <2>3. ASSUME NEW c \in Clients, mTimer[c] # None, StopTimer(c), task' = task
        PROVE  Service!Stop(c)
    BY <2>3 DEF StopTimer, Service!Stop, Types, TypeOK
  <2>4. ASSUME NEW c \in Clients, Destroy(c) PROVE Service!Stop(c) \/ UNCHANGED Service!svcVars
    <3>1. CASE mTimer[c] # None
      BY <2>3, <2>4, <3>1 DEF Destroy
    <3>2. CASE mTimer[c] = None
      BY <2>4, <3>2 DEF Destroy
    <3> QED
      BY <3>1, <3>2
  <2>5. CASE ForceStop
    <3>1. task.client \in Clients /\ task.pc = "stop"
      BY <2>5 DEF ForceStop, Types, HasClient
    <3>2. CASE mTimer[task.client] # None
      <4>1. StopTimer(task.client) /\ task'.pc = "callback" /\ task'.client = task.client
        BY <2>5, <3>2 DEF ForceStop, ExpireStops, Types, TypeOK
      <4> QED
        BY <3>1, <3>2, <4>1 DEF StopTimer, Service!Fire, Service!Next, Types, TypeOK
    <3>3. CASE mTimer[task.client] = None
      BY <2>1, <2>5, <3>1, <3>3 DEF ForceStop, ExpireStops, Looping, Idle
    <3> QED
      BY <3>2, <3>3
  <2>6. CASE TimeOutCallback
    BY <2>6
    DEF TimeOutCallback, Looping, Idle, clientVars, Service!CallbackReturns, Service!Next
  <2>7. CASE ProcPush
    BY <2>1, <2>7 DEF ProcPush, Receive, Push, Rearm, NoRearm, Idle, clientVars
  <2>8. CASE ProcRemove
    BY <2>1, <2>8 DEF ProcRemove, Receive, Rearm, NoRearm, Idle
  <2>9. CASE SetTime
    BY <2>1, <2>9 DEF SetTime, Idle, clientVars
  <2>10. CASE ProcExpire
    <3>1. task'.pc # "callback"
      BY <2>10, PopsTo DEF ProcExpire, Receive
    <3> QED
      BY <2>1, <2>10, <3>1 DEF ProcExpire, Receive, clientVars
  <2>11. CASE ExpireLoop
    <3>1. task'.pc # "callback"
      BY <2>11, PopsTo DEF ExpireLoop, DoneExpiring, Rearm, NoRearm, Idle
    <3> QED
      BY <2>1, <2>11, <3>1 DEF ExpireLoop, clientVars
  <2>12. CASE PollTask \/ Tick
    BY <2>12
    DEF PollTask, EpollReturns, Disarm, RemovePoll, SendExpire, Tick, clientVars
  <2>13. CASE UNCHANGED vars
    BY <2>13 DEF vars
  <2>14. ASSUME NEW c \in Clients, Stop(c) PROVE Service!Stop(c)
    BY <2>3, <2>14 DEF Stop
  <2> HIDE DEF Service!svcVars
  <2> QED
    BY <2>2, <2>4, <2>5, <2>6, <2>7, <2>8, <2>9, <2>10, <2>11, <2>12, <2>13, <2>14
    DEF Next, MsgTask, Service!Next
<1>3. Init => Types
  BY LifeInit
<1> QED
  BY <1>1, <1>2, <1>3, TypesStep, PTL DEF Spec, Service!SafeSpec

-----------------------------------------------------------------------------
(* Sequences. *)

LEMMA TakeFacts ==
  ASSUME NEW S, NEW s \in Seq(S), s # <<>>
  PROVE  /\ Head(s) \in S /\ Tail(s) \in Seq(S) /\ <<Head(s)>> \o Tail(s) = s
         /\ <<Head(s)>> \in Seq(S) /\ Len(<<Head(s)>>) = 1
OBVIOUS

LEMMA ConcatFacts ==
  ASSUME NEW S, NEW a \in Seq(S), NEW b \in Seq(S), NEW c \in Seq(S)
  PROVE  /\ a \o (b \o c) = (a \o b) \o c
         /\ a \o <<>> = a /\ <<>> \o a = a /\ a \o b \in Seq(S)
OBVIOUS

LEMMA AppendFacts ==
  ASSUME NEW S, NEW a \in Seq(S), NEW b \in Seq(S), NEW m \in S
  PROVE  a \o Append(b, m) = Append(a \o b, m) /\ Append(b, m) \in Seq(S)
OBVIOUS

LEMMA RangeFacts ==
  ASSUME NEW S, NEW a \in Seq(S), NEW b \in Seq(S)
  PROVE  Range(a) \subseteq S /\ Range(a \o b) = Range(a) \cup Range(b)
<1>1. Range(a) \subseteq S
  BY DEF Range
<1>2. Range(a \o b) \subseteq Range(a) \cup Range(b)
  <2> SUFFICES ASSUME NEW i \in 1..Len(a \o b)
               PROVE  (a \o b)[i] \in Range(a) \cup Range(b)
    BY DEF Range
  <2>1. CASE i \in 1..Len(a)
    BY <2>1 DEF Range
  <2>2. CASE i - Len(a) \in 1..Len(b)
    BY <2>2 DEF Range
  <2> QED BY <2>1, <2>2
<1>3. Range(a) \subseteq Range(a \o b)
  <2> SUFFICES ASSUME NEW i \in 1..Len(a) PROVE a[i] \in Range(a \o b)
    BY DEF Range
  <2> QED BY i \in 1..Len(a \o b), (a \o b)[i] = a[i] DEF Range
<1>4. Range(b) \subseteq Range(a \o b)
  <2> SUFFICES ASSUME NEW i \in 1..Len(b) PROVE b[i] \in Range(a \o b)
    BY DEF Range
  <2> QED BY i + Len(a) \in 1..Len(a \o b), (a \o b)[i + Len(a)] = b[i] DEF Range
<1> QED BY <1>1, <1>2, <1>3, <1>4

(* A sequence without repetitions stays one when something new is appended;   *)
(* its parts have none either, and share nothing.                             *)
LEMMA InjectiveAppend ==
  ASSUME NEW S, NEW s \in Seq(S), NEW m \in S, IsInjective(s), m \notin Range(s)
  PROVE  IsInjective(Append(s, m)) /\ Range(Append(s, m)) = Range(s) \cup {m}
<1>1. /\ Len(Append(s, m)) = Len(s) + 1 /\ Append(s, m)[Len(s) + 1] = m
      /\ \A i \in 1..Len(s) : Append(s, m)[i] = s[i]
  OBVIOUS
<1>2. \A i \in 1..Len(s) : s[i] # m
  BY DEF Range
<1>3. \A i, j \in 1..Len(s) : s[i] = s[j] => i = j
  BY DEF IsInjective
<1>4. IsInjective(Append(s, m))
  <2> SUFFICES ASSUME NEW i \in 1..(Len(s) + 1), NEW j \in 1..(Len(s) + 1),
                      Append(s, m)[i] = Append(s, m)[j]
               PROVE  i = j
    BY <1>1 DEF IsInjective
  <2> QED BY <1>1, <1>2, <1>3
<1>5. Range(Append(s, m)) = Range(s) \cup {m}
  BY <1>1 DEF Range
<1> QED BY <1>4, <1>5

LEMMA InjectiveParts ==
  ASSUME NEW S, NEW a \in Seq(S), NEW b \in Seq(S), IsInjective(a \o b)
  PROVE  IsInjective(a) /\ Range(a) \cap Range(b) = {}
<1>1. /\ Len(a \o b) = Len(a) + Len(b)
      /\ \A i \in 1..Len(a) : (a \o b)[i] = a[i]
      /\ \A i \in 1..Len(b) : (a \o b)[i + Len(a)] = b[i]
  OBVIOUS
<1>2. \A i, j \in 1..Len(a \o b) : (a \o b)[i] = (a \o b)[j] => i = j
  BY DEF IsInjective
<1>3. IsInjective(a)
  BY <1>1, <1>2 DEF IsInjective
<1>4. ASSUME NEW i \in 1..Len(a), NEW j \in 1..Len(b), a[i] = b[j] PROVE FALSE
  <2>1. i \in 1..Len(a \o b) /\ j + Len(a) \in 1..Len(a \o b) /\ i # j + Len(a)
    BY <1>1
  <2> QED BY <1>1, <1>2, <1>4, <2>1
<1>5. Range(a) \cap Range(b) = {}
  BY <1>4 DEF Range
<1> QED BY <1>3, <1>5

-----------------------------------------------------------------------------
LEMMA TypeInit == QueueInit => QueueTypes
<1> SUFFICES ASSUME QueueInit PROVE QueueTypes
  OBVIOUS
<1>1. unblocked \in BOOLEAN /\ signalled \in BOOLEAN /\ freed \in BOOLEAN
  BY Zenon DEF QueueInit
<1>2. /\ list \in Seq(Messages) /\ current \in Seq(Messages) /\ done \in Seq(Messages)
      /\ Len(current) = 0 /\ receiver = "rcv" /\ stopper = "idle"
      /\ refs = {"thread"} /\ deleted = {}
  BY DEF QueueInit
<1> QED BY <1>1, <1>2 DEF QueueTypes

(* The last holder frees: what Release leaves behind. *)
LEMMA ReleaseTypes ==
  ASSUME QueueTypes, NEW who, Release(who)
  PROVE  /\ refs' \subseteq {"thread", "stopper"} /\ freed' \in BOOLEAN
         /\ list' \in Seq(Messages) /\ deleted' \subseteq Messages
<1>1. Range(list) \subseteq Messages
  BY DEF Range, QueueTypes
<1>2. freed' \in BOOLEAN
  <2>1. CASE refs = {who}
    BY <2>1 DEF Release
  <2>2. CASE refs # {who}
    BY <2>2, Zenon DEF Release, QueueTypes
  <2> QED BY <2>1, <2>2
<1>3. refs' = refs \ {who}
  BY DEF Release
<1>4. list' \in Seq(Messages) /\ deleted' \subseteq Messages
  <2>1. CASE refs = {who}
    BY <1>1, <2>1 DEF Release, QueueTypes
  <2>2. CASE refs # {who}
    BY <2>2 DEF Release, QueueTypes
  <2> QED BY <2>1, <2>2
<1> QED BY <1>2, <1>3, <1>4 DEF QueueTypes

LEMMA TypeStep == QueueTypes /\ [QueueNext]_queueVars => QueueTypes'
<1> SUFFICES ASSUME QueueTypes, [QueueNext]_queueVars PROVE QueueTypes'
  OBVIOUS
<1>1. CASE RcvBegin
  <2>1. CASE ~unblocked /\ Take
    BY <1>1, <2>1, TakeFacts DEF RcvBegin, Take, QueueTypes
  <2>2. CASE UNCHANGED <<list, current>> /\ receiver' \in {"waiting", "ending"}
    BY <1>1, <2>2 DEF RcvBegin, QueueTypes
  <2> QED BY <1>1, <2>1, <2>2 DEF RcvBegin
<1>2. CASE WakeUp \/ SpuriousWakeUp
  <2>1. signalled' \in BOOLEAN
    BY <1>2, Zenon DEF WakeUp, SpuriousWakeUp, QueueTypes
  <2>2. CASE Take
    BY <1>2, <2>1, <2>2, TakeFacts DEF WakeUp, SpuriousWakeUp, Take, QueueTypes
  <2>3. CASE UNCHANGED <<list, current>> /\ receiver' \in {"waiting", "ending"}
    BY <1>2, <2>1, <2>3 DEF WakeUp, SpuriousWakeUp, QueueTypes
  <2> QED BY <1>2, <2>2, <2>3 DEF WakeUp, SpuriousWakeUp, Look
<1>3. CASE Proc
  BY <1>3 DEF Proc, Process, QueueTypes
<1>4. CASE ThreadEnds
  BY <1>4, ReleaseTypes DEF ThreadEnds, QueueTypes
<1>5. CASE StopTask
  BY <1>5 DEF StopTask, QueueTypes
<1>6. CASE Unblock
  <2>1. unblocked' \in BOOLEAN /\ signalled' \in BOOLEAN
    BY <1>6, Zenon DEF Unblock, Signal, QueueTypes
  <2> QED BY <1>6, <2>1 DEF Unblock, QueueTypes
<1>7. CASE StopReturns
  BY <1>7, ReleaseTypes DEF StopReturns, QueueTypes
<1>8. ASSUME NEW m \in Messages, Send(m) PROVE QueueTypes'
  <2>1. signalled' \in BOOLEAN
    BY <1>8, Zenon DEF Send, Signal, QueueTypes
  <2> QED BY <1>8, <2>1 DEF Send, QueueTypes
<1>9. CASE UNCHANGED queueVars
  BY <1>9 DEF queueVars, QueueTypes
<1> QED
  BY <1>1, <1>2, <1>3, <1>4, <1>5, <1>6, <1>7, <1>8, <1>9
  DEF QueueNext, Receiver, Stopper

(* Every variable stays in its domain, and a message is current exactly while *)
(* the thread processes it (MTRunnable::run).                                 *)
THEOREM QueueTypeOK == QueueSpec => []QueueTypes
BY TypeInit, TypeStep, PTL DEF QueueSpec

-----------------------------------------------------------------------------
(* Who holds the runnable follows from where the thread and the stopper are,  *)
(* and the thread ends only in an unblocked queue: this is what makes the     *)
(* last holder the last user.                                                 *)
Held ==
  /\ "thread" \in refs <=> receiver # "ended"
  /\ "stopper" \in refs <=> stopper \in {"interrupt", "release"}
  /\ unblocked => stopper \in {"release", "done"}
  /\ receiver \in {"ending", "ended"} => unblocked
  /\ freed => refs = {} /\ list = <<>>

Inv == QueueTypes /\ NoLostWakeUp /\ Held

LEMMA InvInit == QueueInit => Inv
<1> SUFFICES ASSUME QueueInit PROVE Inv
  OBVIOUS
<1>1. QueueTypes
  BY TypeInit
<1>2. ~unblocked /\ ~freed /\ receiver = "rcv" /\ stopper = "idle" /\ refs = {"thread"}
  BY DEF QueueInit
<1> QED BY <1>1, <1>2 DEF Inv, NoLostWakeUp, Held

LEMMA InvStep == Inv /\ [QueueNext]_queueVars => Inv'
<1> SUFFICES ASSUME Inv, [QueueNext]_queueVars PROVE Inv'
  OBVIOUS
<1>0. QueueTypes /\ QueueTypes' /\ NoLostWakeUp /\ Held
  BY TypeStep DEF Inv
<1> SUFFICES NoLostWakeUp' /\ Held'
  BY <1>0 DEF Inv
<1>1. CASE RcvBegin
  BY <1>0, <1>1 DEF RcvBegin, Take, NoLostWakeUp, Held
<1>2. CASE WakeUp \/ SpuriousWakeUp
  BY <1>0, <1>2 DEF WakeUp, SpuriousWakeUp, Look, Take, NoLostWakeUp, Held
<1>3. CASE Proc
  BY <1>0, <1>3 DEF Proc, NoLostWakeUp, Held
<1>4. CASE ThreadEnds
  BY <1>0, <1>4 DEF ThreadEnds, Release, NoLostWakeUp, Held, QueueTypes
<1>5. CASE StopTask
  BY <1>0, <1>5 DEF StopTask, NoLostWakeUp, Held, QueueTypes
<1>6. CASE Unblock
  BY <1>0, <1>6 DEF Unblock, Signal, NoLostWakeUp, Held
<1>7. CASE StopReturns
  BY <1>0, <1>7 DEF StopReturns, Release, NoLostWakeUp, Held, QueueTypes
<1>8. ASSUME NEW m \in Messages, Send(m) PROVE NoLostWakeUp' /\ Held'
  BY <1>0, <1>8 DEF Send, Signal, NoLostWakeUp, Held
<1>9. CASE UNCHANGED queueVars
  BY <1>0, <1>9 DEF queueVars, NoLostWakeUp, Held
<1> QED
  BY <1>1, <1>2, <1>3, <1>4, <1>5, <1>6, <1>7, <1>8, <1>9
  DEF QueueNext, Receiver, Stopper

(* Whatever a send, a spurious wake-up or a stop does between the receiver's  *)
(* look at the list and its wait, it does not sleep through it.               *)
THEOREM WakeUpsReach == QueueSpec => []NoLostWakeUp
BY InvInit, InvStep, PTL DEF QueueSpec, Inv

LEMMA HeldFrees == QueueTypes /\ Held => FreedUnused
BY DEF QueueTypes, Held, FreedUnused

(* The queue is freed when both the thread and the stopper are through.       *)
THEOREM FreedQueueUnused == QueueSpec => []FreedUnused
<1>1. Inv => FreedUnused
  BY HeldFrees DEF Inv
<1> QED BY InvInit, InvStep, <1>1, PTL DEF QueueSpec

-----------------------------------------------------------------------------
(* A step leaves the order of the messages alone, appends one that was never  *)
(* sent, or frees the queue and deletes what was left of the list.            *)
Frees ==
  /\ freed' = TRUE /\ current = <<>>
  /\ Order' = done /\ deleted' = deleted \cup Range(list)

OrderMoves ==
  \/ Order' = Order /\ deleted' = deleted
  \/ \E m \in Messages : Fresh(m) /\ Order' = Append(Order, m) /\ deleted' = deleted
  \/ Frees

LEMMA OrderTypes ==
  ASSUME QueueTypes
  PROVE  /\ Order \in Seq(Messages)
         /\ receiver # "proc" => current = <<>> /\ Order = done \o list
         /\ Range(Order) = Range(done) \cup Range(current) \cup Range(list)
<1> USE DEF QueueTypes
<1>1. done \o current \in Seq(Messages) /\ Order \in Seq(Messages)
  BY ConcatFacts DEF Order
<1>2. receiver # "proc" => current = <<>>
  OBVIOUS
<1>3. Range(Order) = Range(done) \cup Range(current) \cup Range(list)
  <2>1. Range(Order) = Range(done \o current) \cup Range(list)
    <3> DEFINE p == done \o current
    <3>1. p \in Seq(Messages) /\ list \in Seq(Messages) /\ Order = p \o list
      BY <1>1 DEF Order
    <3> HIDE DEF p, QueueTypes
    <3>2. Range(p \o list) = Range(p) \cup Range(list)
      BY <3>1, RangeFacts
    <3> QED BY <3>1, <3>2 DEF p
  <2>2. Range(done \o current) = Range(done) \cup Range(current)
    BY RangeFacts
  <2> QED BY <2>1, <2>2
<1> QED BY <1>1, <1>2, <1>3, ConcatFacts DEF Order

LEMMA TakeKeepsOrder ==
  ASSUME QueueTypes, current = <<>>, Take, done' = done
  PROVE  Order' = Order
<1>1. list = <<Head(list)>> \o Tail(list) /\ Tail(list) \in Seq(Messages)
      /\ <<Head(list)>> \in Seq(Messages)
  BY TakeFacts DEF Take, QueueTypes
<1>2. Order = done \o list
  BY ConcatFacts DEF Order, QueueTypes
<1>3. Order' = (done \o <<Head(list)>>) \o Tail(list)
  BY DEF Order, Take
<1> QED BY <1>1, <1>2, <1>3, ConcatFacts DEF QueueTypes

LEMMA ReleaseMoves ==
  ASSUME QueueTypes, NEW who, Release(who), receiver # "proc",
         UNCHANGED <<current, done>>
  PROVE  OrderMoves
<1>1. CASE refs = {who}
  <2>1. current = <<>> /\ Order' = done
    BY <1>1, OrderTypes, ConcatFacts DEF Release, Order, QueueTypes
  <2> QED BY <1>1, <2>1 DEF Release, OrderMoves, Frees
<1>2. CASE refs # {who}
  BY <1>2 DEF Release, OrderMoves, Order
<1> QED BY <1>1, <1>2

LEMMA StepMoves == QueueTypes /\ Held /\ [QueueNext]_queueVars => OrderMoves
<1> SUFFICES ASSUME QueueTypes, Held, [QueueNext]_queueVars PROVE OrderMoves
  OBVIOUS
<1>1. CASE RcvBegin
  <2>1. CASE Take
    BY <1>1, <2>1, OrderTypes, TakeKeepsOrder DEF RcvBegin, OrderMoves
  <2>2. CASE UNCHANGED <<list, current>>
    BY <1>1, <2>2 DEF RcvBegin, OrderMoves, Order
  <2> QED BY <1>1, <2>1, <2>2 DEF RcvBegin
<1>2. CASE WakeUp \/ SpuriousWakeUp
  <2>1. receiver = "waiting" /\ UNCHANGED <<done, deleted>> /\ Look
    BY <1>2 DEF WakeUp, SpuriousWakeUp
  <2>2. CASE Take
    BY <2>1, <2>2, OrderTypes, TakeKeepsOrder DEF OrderMoves
  <2>3. CASE UNCHANGED <<list, current>>
    BY <2>1, <2>3 DEF OrderMoves, Order
  <2> QED BY <2>1, <2>2, <2>3 DEF Look
<1>3. CASE Proc
  <2>1. Order' = (done \o current) \o <<>> \o list
    BY <1>3 DEF Proc, Process, Order
  <2>2. Order' = Order
    BY <2>1, ConcatFacts DEF Order, QueueTypes
  <2> QED BY <1>3, <2>2 DEF Proc, OrderMoves
<1>4. CASE ThreadEnds
  <2>1. receiver # "proc" /\ UNCHANGED <<current, done>> /\ Release("thread")
    BY <1>4 DEF ThreadEnds
  <2> QED BY <2>1, ReleaseMoves
<1>5. CASE StopTask \/ Unblock
  BY <1>5 DEF StopTask, Unblock, OrderMoves, Order
<1>6. CASE StopReturns
  <2>1. CASE refs = {"stopper"}
    <3>1. receiver # "proc" /\ UNCHANGED <<current, done>> /\ Release("stopper")
      BY <1>6, <2>1 DEF StopReturns, Held
    <3> QED BY <3>1, ReleaseMoves
  <2>2. CASE refs # {"stopper"}
    BY <1>6, <2>2 DEF StopReturns, Release, OrderMoves, Order
  <2> QED BY <2>1, <2>2
<1>7. ASSUME NEW m \in Messages, Send(m) PROVE OrderMoves
  <2>1. Fresh(m) /\ UNCHANGED deleted /\ Order' = (done \o current) \o Append(list, m)
    BY <1>7 DEF Send, Order
  <2>2. Order' = Append(Order, m)
    BY <2>1, ConcatFacts, AppendFacts DEF Order, QueueTypes
  <2> QED BY <2>1, <2>2 DEF OrderMoves
<1>8. CASE UNCHANGED queueVars
  BY <1>8 DEF queueVars, OrderMoves, Order
<1> QED
  BY <1>1, <1>2, <1>3, <1>4, <1>5, <1>6, <1>7, <1>8 DEF QueueNext, Receiver, Stopper

LEMMA HandledOnceStep == QueueTypes /\ HandledOnce /\ OrderMoves => HandledOnce'
<1> SUFFICES ASSUME QueueTypes, HandledOnce, OrderMoves PROVE HandledOnce'
  OBVIOUS
<1>1. CASE Order' = Order /\ deleted' = deleted
  BY <1>1 DEF HandledOnce
<1>2. ASSUME NEW m \in Messages, Fresh(m), Order' = Append(Order, m), deleted' = deleted
      PROVE  HandledOnce'
  <2>1. m \notin Range(Order) /\ m \notin deleted /\ Order \in Seq(Messages)
    BY <1>2, OrderTypes DEF Fresh
  <2>2. IsInjective(Append(Order, m)) /\ Range(Append(Order, m)) = Range(Order) \cup {m}
    BY <2>1, InjectiveAppend DEF HandledOnce
  <2> QED BY <1>2, <2>1, <2>2 DEF HandledOnce
<1>3. CASE Frees
  <2>1. Order = done \o list /\ done \in Seq(Messages) /\ list \in Seq(Messages)
    BY <1>3, ConcatFacts DEF Frees, Order, QueueTypes
  <2>2. IsInjective(done) /\ Range(done) \cap Range(list) = {}
    BY <2>1, InjectiveParts DEF HandledOnce
  <2>3. Range(done) \subseteq Range(Order)
    BY <2>1, RangeFacts
  <2> QED BY <1>3, <2>2, <2>3 DEF Frees, HandledOnce
<1> QED BY <1>1, <1>2, <1>3 DEF OrderMoves

(* No message is processed twice, or processed and deleted.                   *)
THEOREM MessagesHandledOnce == QueueSpec => []HandledOnce
<1>1. QueueInit => HandledOnce
  <2> SUFFICES ASSUME QueueInit PROVE HandledOnce
    OBVIOUS
  <2>1. Order = <<>> /\ deleted = {}
    BY DEF QueueInit, Order
  <2> QED BY <2>1 DEF HandledOnce, IsInjective
<1>2. Inv /\ HandledOnce /\ [QueueNext]_queueVars => HandledOnce'
  BY StepMoves, HandledOnceStep DEF Inv
<1> QED BY InvInit, InvStep, <1>1, <1>2, PTL DEF QueueSpec

(* Messages are processed in the order they were sent: a step of the program  *)
(* moves them along, adds one behind all others, or ends the queue.           *)
THEOREM MessagesInOrder == QueueSpec => InOrder
<1>1. Inv /\ [QueueNext]_queueVars
      => [\/ Order' = Order
          \/ \E m \in Messages : Order' = Append(Order, m)
          \/ freed' /\ Order' = done]_queueVars
  BY StepMoves, Zenon DEF Inv, OrderMoves, Frees
<1> QED BY InvInit, InvStep, <1>1, PTL DEF QueueSpec, InOrder

=============================================================================
