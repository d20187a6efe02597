--------------------------------- MODULE MsgQ ---------------------------------
(* The message queue behind every adapter of the location stack: msg_q.c with *)
(* its mutex and condition variable, the MsgTask thread that receives from it *)
(* (MTRunnable), and LocThread::stop, which unblocks the queue.  The runnable *)
(* that owns the queue is shared by the thread and by the one who stops it;   *)
(* the last to let go of it flushes and frees the queue.  Its names say Queue *)
(* so that it can stand in one module with the services built on it.          *)
EXTENDS Integers, Sequences, Functions

CONSTANT Messages   \* LocMsg objects, each sent at most once

VARIABLES
  list,       \* the linked list, oldest first
  unblocked,  \* the flag of the queue
  receiver,   \* where the MsgTask thread is
  signalled,  \* has the waiting thread been woken?
  current,    \* the message being processed, in a sequence of at most one
  stopper,    \* where LocThread::stop is
  refs,       \* who holds the MTRunnable
  freed,      \* has the queue been freed?
  done,       \* messages processed, in order
  deleted     \* messages deleted unprocessed

queueVars == <<list, unblocked, receiver, signalled, current, stopper, refs,
               freed, done, deleted>>

QueueInit ==
  /\ list = <<>> /\ unblocked = FALSE /\ receiver = "rcv" /\ signalled = FALSE
  /\ current = <<>> /\ stopper = "idle" /\ refs = {"thread"} /\ freed = FALSE
  /\ done = <<>> /\ deleted = {}

-----------------------------------------------------------------------------
(* msg_q_snd: the message is the list's, and whoever waits is woken.  A queue *)
(* that is unblocked refuses.  MsgTasks are not sent to once they are gone.   *)
Fresh(m) == m \notin Range(list) \cup Range(current) \cup Range(done) \cup deleted

Signal == signalled' = (signalled \/ receiver = "waiting")

Send(m) ==
  /\ ~unblocked /\ Fresh(m)
  /\ list' = Append(list, m) /\ Signal
  /\ UNCHANGED <<unblocked, receiver, current, stopper, refs, freed, done, deleted>>

-----------------------------------------------------------------------------
(* MTRunnable::run and msg_q_rcv. *)

Take_Newest == list # <<>> /\ current' = <<list[Len(list)]>>
               /\ list' = SubSeq(list, 1, Len(list) - 1) /\ receiver' = "proc"
Take_Peek == list # <<>> /\ current' = <<Head(list)>> /\ receiver' = "proc"
             /\ UNCHANGED list
Take == list # <<>> /\ current' = <<Head(list)>> /\ list' = Tail(list)
        /\ receiver' = "proc"

(* A thread that finds nothing waits, with the mutex given up at that moment.*)
RcvBegin ==
  /\ receiver = "rcv"
  /\ \/ ~unblocked /\ Take
     \/ /\ ~unblocked /\ list = <<>>
        /\ receiver' = "waiting" /\ UNCHANGED <<list, current>>
     \/ unblocked /\ receiver' = "ending" /\ UNCHANGED <<list, current>>
  /\ UNCHANGED <<unblocked, signalled, stopper, refs, freed, done, deleted>>

(* Woken, it looks again; an unblocked queue that is empty gives nothing.    *)
Look_IgnoresUnblock ==
  \/ Take
  \/ list = <<>> /\ UNCHANGED <<receiver, list, current>>
Look == \/ Take
        \/ list = <<>> /\ unblocked /\ receiver' = "ending" /\ UNCHANGED <<list, current>>
        \/ list = <<>> /\ ~unblocked /\ UNCHANGED <<receiver, list, current>>

WakeUp ==
  /\ receiver = "waiting" /\ signalled /\ signalled' = FALSE /\ Look
  /\ UNCHANGED <<unblocked, stopper, refs, freed, done, deleted>>

(* pthread_cond_wait may return with nobody having signalled. *)
SpuriousWakeUp ==
  /\ receiver = "waiting" /\ ~signalled /\ Look
  /\ UNCHANGED <<unblocked, signalled, stopper, refs, freed, done, deleted>>

Process == done' = done \o current /\ current' = <<>>

Proc ==
  /\ receiver = "proc" /\ Process
  /\ receiver' = "rcv"
  /\ UNCHANGED <<list, unblocked, signalled, stopper, refs, freed, deleted>>

-----------------------------------------------------------------------------
(* ~MTRunnable, by the last holder: msg_q_flush and msg_q_destroy. *)

Release_Unshared(who) ==
  /\ refs' = refs \ {who} /\ freed' = TRUE
  /\ list' = <<>> /\ deleted' = deleted \cup Range(list)
Release_NoFlush(who) ==
  /\ refs' = refs \ {who}
  /\ IF refs = {who} THEN freed' = TRUE /\ list' = <<>> /\ UNCHANGED deleted
     ELSE UNCHANGED <<freed, list, deleted>>
Release(who) ==
  /\ refs' = refs \ {who}
  /\ IF refs = {who}
     THEN freed' = TRUE /\ list' = <<>> /\ deleted' = deleted \cup Range(list)
     ELSE UNCHANGED <<freed, list, deleted>>

ThreadEnds ==
  /\ receiver = "ending" /\ receiver' = "ended" /\ Release("thread")
  /\ UNCHANGED <<unblocked, signalled, current, stopper, done>>

(* LocThread::stop: ~LocThreadDelegate takes hold of the runnable ...        *)
StopTask ==
  /\ stopper = "idle" /\ stopper' = "interrupt"
  /\ refs' = refs \cup {"stopper"}
  /\ UNCHANGED <<list, unblocked, receiver, signalled, current, freed, done, deleted>>

(* ... interrupts it: msg_q_unblock wakes all waiters ...                    *)
Unblock ==
  /\ stopper = "interrupt" /\ stopper' = "release"
  /\ unblocked' = TRUE /\ Signal
  /\ UNCHANGED <<list, receiver, current, refs, freed, done, deleted>>

(* ... and lets go of it. *)
StopReturns ==
  /\ stopper = "release" /\ stopper' = "done" /\ Release("stopper")
  /\ UNCHANGED <<unblocked, receiver, signalled, current, done>>

Receiver == RcvBegin \/ WakeUp \/ Proc \/ ThreadEnds
Stopper == Unblock \/ StopReturns

QueueNext == \/ Receiver \/ SpuriousWakeUp \/ StopTask \/ Stopper
        \/ \E m \in Messages : Send(m)

QueueSpec == QueueInit /\ [][QueueNext]_queueVars

(* The thread runs when it can, and a stop that began goes on. *)
QueueFairSpec == QueueSpec /\ WF_queueVars(Receiver) /\ WF_queueVars(Stopper)

-----------------------------------------------------------------------------
QueueTypes ==
  /\ list \in Seq(Messages) /\ unblocked \in BOOLEAN /\ signalled \in BOOLEAN
  /\ receiver \in {"rcv", "waiting", "proc", "ending", "ended"}
  /\ current \in Seq(Messages)
  /\ Len(current) = (IF receiver = "proc" THEN 1 ELSE 0)
  /\ stopper \in {"idle", "interrupt", "release", "done"}
  /\ refs \subseteq {"thread", "stopper"} /\ freed \in BOOLEAN
  /\ done \in Seq(Messages) /\ deleted \subseteq Messages

(* A thread that waits although there is a message, or although the queue was *)
(* unblocked, has been woken: no send and no stop is slept through.           *)
NoLostWakeUp ==
  receiver = "waiting" /\ (list # <<>> \/ unblocked) => signalled

(* The queue is freed once, when neither the thread nor a stop in progress    *)
(* uses it any more, and with nothing left in it.                             *)
FreedUnused ==
  freed => receiver = "ended" /\ stopper = "done" /\ list = <<>>

(* What was processed, is being processed and is still to come, in the order   *)
(* of the sends.                                                              *)
Order == done \o current \o list

(* A message in the list has not been processed, is not being processed and   *)
(* has not been deleted: none is handled twice.                               *)
HandledOnce == IsInjective(Order) /\ deleted \cap Range(Order) = {}

(* "msg_obj is the oldest message received" (msg_q.h): messages are taken in  *)
(* the order of the sends, none is overtaken and, while the queue exists,     *)
(* none disappears.                                                           *)
InOrder == [][\/ Order' = Order
              \/ \E m \in Messages : Order' = Append(Order, m)
              \/ freed' /\ Order' = done]_queueVars

(* Every message sent is processed, or deleted with the queue. *)
Handled ==
  \A m \in Messages :
    m \in Range(list) ~> m \in Range(done) \cup deleted

(* A stop ends the thread and frees the queue. *)
StopFrees == stopper = "interrupt" ~> freed
=============================================================================
