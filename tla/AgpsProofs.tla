----------------------------- MODULE AgpsProofs -----------------------------
(* What holds of the AGPS state machines for any set of handles, any of the   *)
(* environment's liberties (restarts, bad APNs, freed memory, subscribers that *)
(* wait for the close) and any number of messages in flight.                  *)
EXTENDS Agps, SequenceTheorems, TLAPS

Open(n) == [kind |-> "open", nif |-> n]
Closed(n) == [kind |-> "closed", nif |-> n]

(* Every queued report of an open connection is still true, or a report of   *)
(* its end is queued behind it.                                               *)
OpensAreCurrent ==
  \A n \in Nifs : \A i \in 1..Len(queue) :
    queue[i] = Open(n) =>
      conn[n] \/ \E j \in (i + 1)..Len(queue) : queue[j] = Closed(n)

SMInv == TypeOK /\ ReleasedIsEmpty
IInv == SMInv /\ OpensAreCurrent /\ AcquiredMeansConnected

-----------------------------------------------------------------------------
(* The state machine of one NIF keeps the type and the empty released list,  *)
(* whatever event it is given.                                                *)

smInv == /\ state \in [Nifs -> States] /\ subs \in [Nifs -> SUBSET Handles]
         /\ behind \in [Nifs -> SUBSET (Handles \X Handles)]
         /\ inactive \in [Nifs -> SUBSET Handles]
         /\ \A n \in Nifs : inactive[n] \subseteq subs[n]
         /\ fwIn \in [Nifs -> Seq({"REQUEST", "RELEASE"})]
         /\ modem \in [Handles -> {"idle", "opening", "open", "closing"}]
         /\ ReleasedIsEmpty

(* Telling the framework and the modem keeps their types.                    *)
LEMMA TellType ==
  ASSUME smInv, NEW n \in Nifs, NEW what \in {"REQUEST", "RELEASE"},
         Tell(n, what)
  PROVE  fwIn' \in [Nifs -> Seq({"REQUEST", "RELEASE"})]
BY DEF Tell, smInv

LEMMA StatusType ==
  ASSUME smInv, NEW hs, NEW ok \in BOOLEAN,
         OpenStatus(hs, ok) \/ CloseStatus(hs) \/ UNCHANGED modem
  PROVE  modem' \in [Handles -> {"idle", "opening", "open", "closing"}]
BY DEF OpenStatus, CloseStatus, smInv

(* A request, also one of a handle that is already on the list.              *)
LEMMA SubscribeInv ==
  ASSUME smInv, NEW n \in Nifs, NEW h \in Handles, Subscribe(n, h)
  PROVE  smInv'
<1>1. /\ subs' \in [Nifs -> SUBSET Handles] /\ h \in subs'[n]
      /\ behind' \in [Nifs -> SUBSET (Handles \X Handles)]
      /\ inactive' \in [Nifs -> SUBSET Handles]
      /\ \A m \in Nifs : inactive'[m] \subseteq subs'[m]
      /\ \A m \in Nifs : m # n => subs'[m] = subs[m]
  <2>1. CASE h \in subs[n]
    BY <2>1 DEF Subscribe, AddSubscriber, smInv
  <2>2. CASE h \notin subs[n]
    <3>1. /\ subs' = [subs EXCEPT ![n] = @ \cup {h}]
          /\ inactive' = [inactive EXCEPT ![n] = @ \ {h}]
          /\ behind' = [behind EXCEPT ![n] = (@ \ ({h} \X Handles))
                                               \cup (subs[n] \X {h})]
      BY <2>2 DEF Subscribe, AddSubscriber
    <3>2. behind' \in [Nifs -> SUBSET (Handles \X Handles)]
      BY <3>1 DEF smInv
    <3> QED  BY <3>1, <3>2 DEF smInv
  <2> QED  BY <2>1, <2>2
<1>2. /\ state' \in [Nifs -> States] /\ state'[n] # "RELEASED"
      /\ \A m \in Nifs : m # n => state'[m] = state[m]
  BY DEF Subscribe, Goto, smInv, States
<1>3. fwIn' \in [Nifs -> Seq({"REQUEST", "RELEASE"})]
  <2>1. Tell(n, "REQUEST") \/ UNCHANGED fwIn  BY DEF Subscribe
  <2> QED  BY <2>1, TellType DEF smInv
<1>4. modem' \in [Handles -> {"idle", "opening", "open", "closing"}]
  <2>1. OpenStatus({h}, TRUE) \/ UNCHANGED modem  BY DEF Subscribe
  <2> QED  BY <2>1, StatusType
<1> QED  BY <1>1, <1>2, <1>3, <1>4 DEF smInv, ReleasedIsEmpty

(* Dropping subscribers keeps the lists well formed.                         *)
LEMMA DropLists ==
  ASSUME smInv, NEW n \in Nifs, NEW hs, Drop(n, hs)
  PROVE  /\ subs' = [subs EXCEPT ![n] = @ \ hs]
         /\ subs' \in [Nifs -> SUBSET Handles]
         /\ behind' \in [Nifs -> SUBSET (Handles \X Handles)]
         /\ inactive' \in [Nifs -> SUBSET Handles]
         /\ \A m \in Nifs : inactive'[m] \subseteq subs'[m]
BY DEF Drop, smInv

(* A close by the modem, also one that deletes a second subscriber because   *)
(* of what the freed memory shows.                                           *)
LEMMA UnsubscribeInv ==
  ASSUME smInv, NEW n \in Nifs, NEW h \in subs[n], Unsubscribe(n, h)
  PROVE  smInv'
<1>0. h \in Handles  BY DEF smInv
<1>1. state[n] # "RELEASED"  BY DEF smInv, ReleasedIsEmpty
<1>2. CASE Retire(n, h)
  <2>1. /\ subs' = subs /\ behind' = behind /\ modem' = modem
        /\ inactive' \in [Nifs -> SUBSET Handles]
        /\ \A m \in Nifs : inactive'[m] \subseteq subs'[m]
    BY <1>0, <1>2 DEF Retire, smInv
  <2>2. state' \in [Nifs -> States] /\ \A m \in Nifs : state'[m] = "RELEASED" => state[m] = "RELEASED"
    BY <1>2 DEF Retire, Goto, smInv, States
  <2>3. fwIn' \in [Nifs -> Seq({"REQUEST", "RELEASE"})]
    <3>1. Tell(n, "RELEASE") \/ UNCHANGED fwIn  BY <1>2 DEF Retire
    <3> QED  BY <3>1, TellType DEF smInv
  <2> QED  BY <2>1, <2>2, <2>3 DEF smInv, ReleasedIsEmpty
<1>3. CASE \E gone \in Deleted(n, h) :
             NotifyAndDelete(n, h, gone) /\ AfterRemoval(n, gone)
  <2>1. PICK gone \in Deleted(n, h) :
               NotifyAndDelete(n, h, gone) /\ AfterRemoval(n, gone)
    BY <1>3
  <2>2. Drop(n, gone) /\ CloseStatus({h})  BY <2>1 DEF NotifyAndDelete
  <2>3. /\ state' \in [Nifs -> States]
        /\ state'[n] = "RELEASED" => subs[n] \ gone = {}
        /\ \A m \in Nifs : m # n => state'[m] = state[m]
    BY <2>1, <1>1 DEF AfterRemoval, Goto, smInv, States
  <2>4. fwIn' \in [Nifs -> Seq({"REQUEST", "RELEASE"})]
    <3>1. Tell(n, "RELEASE") \/ UNCHANGED fwIn  BY <2>1 DEF AfterRemoval
    <3> QED  BY <3>1, TellType DEF smInv
  <2>5. modem' \in [Handles -> {"idle", "opening", "open", "closing"}]
    BY <2>2, StatusType
  <2>6. /\ subs' = [subs EXCEPT ![n] = @ \ gone]
        /\ behind' \in [Nifs -> SUBSET (Handles \X Handles)]
        /\ inactive' \in [Nifs -> SUBSET Handles]
        /\ subs' \in [Nifs -> SUBSET Handles]
        /\ \A m \in Nifs : inactive'[m] \subseteq subs'[m]
    BY <2>2, DropLists
  <2> QED  BY <2>3, <2>4, <2>5, <2>6 DEF smInv, ReleasedIsEmpty
<1> QED  BY <1>1, <1>2, <1>3 DEF Unsubscribe

(* The connection came up.                                                   *)
LEMMA GrantedInv ==
  ASSUME smInv, NEW n \in Nifs, Granted(n)
  PROVE  smInv'
<1>1. CASE state[n] = "PENDING"
  <2>1. modem' \in [Handles -> {"idle", "opening", "open", "closing"}]
    BY <1>1, StatusType DEF Granted
  <2>2. /\ state' = [state EXCEPT ![n] = "ACQUIRED"]
        /\ UNCHANGED <<subs, behind, inactive, fwIn>>
    BY <1>1 DEF Granted, Goto
  <2> QED  BY <2>1, <2>2 DEF smInv, States, ReleasedIsEmpty
<1>2. CASE state[n] # "PENDING"
  BY <1>2 DEF Granted, smVars, smInv, ReleasedIsEmpty
<1> QED  BY <1>1, <1>2

(* Leaving RELEASING, whichever answer ended it.                             *)
LEMMA ReopenInv ==
  ASSUME smInv, NEW n \in Nifs, Reopen(n)
  PROVE  smInv'
<1>1. Drop(n, inactive[n]) /\ CloseStatus(subs[n] \cap inactive[n])
  BY DEF Reopen
<1>2. modem' \in [Handles -> {"idle", "opening", "open", "closing"}]
  BY <1>1, StatusType
<1>3. fwIn' \in [Nifs -> Seq({"REQUEST", "RELEASE"})]
  <2>1. Tell(n, "REQUEST") \/ UNCHANGED fwIn  BY DEF Reopen
  <2> QED  BY <2>1, TellType DEF smInv
<1>4. /\ state' \in [Nifs -> States]
      /\ state'[n] = "RELEASED" => subs[n] \ inactive[n] = {}
      /\ \A m \in Nifs : m # n => state'[m] = state[m]
  BY DEF Reopen, Goto, ActiveAfter, smInv, States
<1>5. /\ subs' = [subs EXCEPT ![n] = @ \ inactive[n]]
      /\ behind' \in [Nifs -> SUBSET (Handles \X Handles)]
      /\ inactive' \in [Nifs -> SUBSET Handles]
      /\ subs' \in [Nifs -> SUBSET Handles]
      /\ \A m \in Nifs : inactive'[m] \subseteq subs'[m]
  BY <1>1, DropLists
<1> QED  BY <1>2, <1>3, <1>4, <1>5 DEF smInv, ReleasedIsEmpty

(* The connection is gone, or could not be made: every subscriber is told    *)
(* and deleted when the machine goes to RELEASED.                             *)
LEMMA EndInv ==
  ASSUME smInv, NEW n \in Nifs, Released(n) \/ Denied(n)
  PROVE  smInv'
<1>1. CASE /\ Goto(n, "RELEASED") /\ Drop(n, subs[n]) /\ UNCHANGED fwIn
           /\ CloseStatus(subs[n]) \/ OpenStatus(subs[n], FALSE)
  <2>1. modem' \in [Handles -> {"idle", "opening", "open", "closing"}]
    BY <1>1, StatusType
  <2>2. state' = [state EXCEPT ![n] = "RELEASED"] /\ subs'[n] = {}
    BY <1>1, DropLists DEF Goto, smInv
  <2>3. \A m \in Nifs : m # n => subs'[m] = subs[m]
    BY <1>1, DropLists DEF smInv
  <2> QED  BY <1>1, <2>1, <2>2, <2>3, DropLists DEF smInv, States, ReleasedIsEmpty
<1>2. CASE Reopen(n)  BY <1>2, ReopenInv
<1>3. CASE UNCHANGED <<smVars, fwIn, modem>>
  BY <1>3 DEF smVars, smInv, ReleasedIsEmpty
<1> QED  BY <1>1, <1>2, <1>3 DEF Released, Denied

(* Every message, whatever it is, keeps the state machines well formed.      *)
LEMMA DispatchInv ==
  ASSUME smInv, NEW m \in Msg, Dispatch(m)
  PROVE  smInv'
<1>1. CASE m.kind = "request"
  <2>1. m.nif \in Nifs /\ m.handle \in Handles  BY <1>1 DEF Msg
  <2>2. CASE m.nif \in Created
    BY <1>1, <2>1, <2>2, SubscribeInv DEF Dispatch, RequestATL
  <2>3. CASE m.nif \notin Created
    <3>1. OpenStatus({m.handle}, FALSE) /\ UNCHANGED <<smVars, fwIn>>
      BY <1>1, <2>3 DEF Dispatch, RequestATL
    <3>2. modem' \in [Handles -> {"idle", "opening", "open", "closing"}]
      BY <3>1, StatusType
    <3> QED  BY <3>1, <3>2 DEF smInv, smVars, ReleasedIsEmpty
  <2> QED  BY <2>2, <2>3
<1>2. CASE m.kind = "release"
  <2>1. ReleaseATL(m.handle)  BY <1>2 DEF Dispatch
  <2>2. CASE UNCHANGED <<smVars, fwIn, modem>>
    BY <2>2 DEF smInv, smVars, ReleasedIsEmpty
  <2> QED  BY <2>1, <2>2, UnsubscribeInv DEF ReleaseATL, Nifs
<1>3. CASE m.kind = "open"
  BY <1>3, GrantedInv DEF Dispatch, Msg
<1>4. CASE m.kind = "failed" \/ m.kind = "closed"
  BY <1>4, EndInv DEF Dispatch, Msg
<1> QED  BY <1>1, <1>2, <1>3, <1>4 DEF Msg

(* Messages taken from or added to the queue are messages.                   *)
LEMMA QueueType ==
  ASSUME TypeOK
  PROVE  /\ queue # <<>> => Head(queue) \in Msg /\ Tail(queue) \in Seq(Msg)
         /\ \A m \in Msg : Append(queue, m) \in Seq(Msg)
BY DEF TypeOK

LEMMA InitSM == Init => SMInv
BY DEF Init, SMInv, TypeOK, ReleasedIsEmpty, States, Nifs

(* The whole system keeps its type and its released lists empty.             *)
LEMMA StepSM == SMInv /\ [Next]_vars => SMInv'
<1> SUFFICES ASSUME SMInv, [Next]_vars PROVE SMInv'
  OBVIOUS
<1>0. smInv
  BY DEF SMInv, TypeOK, smInv
<1>1. CASE ProcessMsg
  <2>1. Head(queue) \in Msg /\ Tail(queue) \in Seq(Msg)
    BY <1>1, QueueType DEF SMInv, ProcessMsg
  <2>2. smInv'
    BY <1>0, <1>1, <2>1, DispatchInv DEF ProcessMsg
  <2> QED  BY <1>1, <2>1, <2>2 DEF ProcessMsg, SMInv, TypeOK, smInv
<1>2. ASSUME NEW h \in Handles, NEW n \in Nifs, ModemOpens(h, n) PROVE SMInv'
  <2>1. [kind |-> "request", nif |-> n, handle |-> h] \in Msg  BY DEF Msg
  <2>2. queue' \in Seq(Msg)
    BY <1>2, <2>1, QueueType DEF ModemOpens, Post, SMInv
  <2> QED  BY <1>2, <2>2 DEF ModemOpens, SMInv, TypeOK, ReleasedIsEmpty, smVars
<1>3. ASSUME NEW h \in Handles, ModemCloses(h) PROVE SMInv'
  <2>1. [kind |-> "release", handle |-> h] \in Msg  BY DEF Msg
  <2>2. queue' \in Seq(Msg)
    BY <1>3, <2>1, QueueType DEF ModemCloses, Post, SMInv
  <2> QED  BY <1>3, <2>2 DEF ModemCloses, SMInv, TypeOK, ReleasedIsEmpty, smVars
<1>4. CASE ModemRestarts
  BY <1>4 DEF ModemRestarts, SMInv, TypeOK, ReleasedIsEmpty, smVars
<1>5. ASSUME NEW n \in Nifs,
             FrameworkOpens(n) \/ FrameworkFails(n) \/ FrameworkCloses(n)
               \/ ConnectionLost(n)
      PROVE  SMInv'
  <2>1. \A k \in {"open", "failed", "closed"} : [kind |-> k, nif |-> n] \in Msg
    BY DEF Msg
  <2>2. queue' \in Seq(Msg)
    BY <1>5, <2>1, QueueType DEF SMInv, FrameworkOpens, FrameworkFails,
       FrameworkCloses, ConnectionLost, Answer, Post
  <2>3. fwIn' \in [Nifs -> Seq({"REQUEST", "RELEASE"})]
    <3>1. Serve(n, "REQUEST") \/ Serve(n, "RELEASE") \/ UNCHANGED fwIn
      BY <1>5 DEF FrameworkOpens, FrameworkFails, FrameworkCloses, ConnectionLost
    <3>2. fwIn[n] # <<>> => Tail(fwIn[n]) \in Seq({"REQUEST", "RELEASE"})
      BY DEF SMInv, TypeOK
    <3>3. UNCHANGED fwIn \/ (fwIn[n] # <<>> /\ fwIn' = [fwIn EXCEPT ![n] = Tail(@)])
      BY <3>1 DEF Serve
    <3> QED  BY <3>2, <3>3 DEF SMInv, TypeOK
  <2>4. /\ UNCHANGED <<smVars, modem, badApn>>
        /\ \/ UNCHANGED conn
           \/ conn' = [conn EXCEPT ![n] = TRUE]
           \/ conn' = [conn EXCEPT ![n] = FALSE]
    BY <1>5 DEF FrameworkOpens, FrameworkFails, FrameworkCloses, ConnectionLost
  <2>5. conn' \in [Nifs -> BOOLEAN]
    BY <2>4 DEF SMInv, TypeOK
  <2> QED  BY <2>2, <2>3, <2>4, <2>5 DEF SMInv, TypeOK, ReleasedIsEmpty, smVars
<1>6. ASSUME NEW n \in Nifs, FrameworkOpensBadApn(n) PROVE SMInv'
  BY <1>6 DEF FrameworkOpensBadApn, Serve, SMInv, TypeOK, ReleasedIsEmpty, smVars
<1>7. ASSUME NEW n \in Nifs, ReportBadApn(n) PROVE SMInv'
  <2>1. smInv'
    BY <1>0, <1>7, EndInv DEF ReportBadApn
  <2> QED  BY <1>7, <2>1 DEF ReportBadApn, SMInv, TypeOK, smInv
<1>8. CASE UNCHANGED vars
  BY <1>8 DEF vars, SMInv, TypeOK, ReleasedIsEmpty
<1> QED
  BY <1>1, <1>2, <1>3, <1>4, <1>5, <1>6, <1>7, <1>8 DEF Next, Framework

-----------------------------------------------------------------------------
(* Reports of the framework, in the order of the queue.                      *)

LEMMA InitCurrent == Init => OpensAreCurrent /\ AcquiredMeansConnected
BY DEF Init, OpensAreCurrent, AcquiredMeansConnected, Nifs

(* Who goes to ACQUIRED: only a machine that is given an open report; who    *)
(* stays there: one that is not given a closed report.                        *)
LEMMA DispatchAcquired ==
  ASSUME smInv, NEW m \in Msg, Dispatch(m), NEW n \in Nifs,
         state'[n] = "ACQUIRED"
  PROVE  /\ m # Closed(n)
         /\ state[n] = "ACQUIRED" \/ m = Open(n)
<1> USE DEF smInv, Goto, States
<1>1. CASE m.kind = "request"
  <2>1. RequestATL(m.nif, m.handle) /\ m.nif \in Nifs
    BY <1>1 DEF Dispatch, Msg
  <2>2. state[n] = "ACQUIRED"
    BY <2>1 DEF RequestATL, Subscribe, smVars
  <2> QED  BY <1>1, <2>2 DEF Closed
<1>2. CASE m.kind = "release"
  <2>1. ASSUME NEW k \in Nifs, Unsubscribe(k, m.handle)
        PROVE  state[n] = "ACQUIRED"
    BY <2>1 DEF Unsubscribe, Retire, AfterRemoval, smVars
  <2> QED  BY <1>2, <2>1 DEF Dispatch, ReleaseATL, Nifs, smVars, Closed
<1>3. CASE m.kind = "open"
  <2>1. m = Open(m.nif) /\ m.nif \in Nifs  BY <1>3 DEF Msg, Open
  <2>2. Granted(m.nif)  BY <1>3 DEF Dispatch
  <2>3. state[n] = "ACQUIRED" \/ n = m.nif
    BY <2>1, <2>2 DEF Granted, smVars
  <2> QED  BY <1>3, <2>1, <2>3 DEF Closed
<1>4. CASE m.kind = "failed"
  <2>1. m.nif \in Nifs  BY <1>4 DEF Msg
  <2>2. Denied(m.nif)  BY <1>4 DEF Dispatch
  <2>3. state[n] = "ACQUIRED"
    BY <2>1, <2>2 DEF Denied, Reopen, smVars
  <2> QED  BY <1>4, <2>3 DEF Closed
<1>5. CASE m.kind = "closed"
  <2>1. m.nif \in Nifs  BY <1>5 DEF Msg
  <2>2. Released(m.nif)  BY <1>5 DEF Dispatch
  <2>3. state[n] = "ACQUIRED" /\ n # m.nif
    BY <2>1, <2>2 DEF Released, Reopen, smVars
  <2> QED  BY <2>3 DEF Closed
<1> QED  BY <1>1, <1>2, <1>3, <1>4, <1>5 DEF Msg

(* Adding a report at the end of the queue, with the connection up, or with  *)
(* the report saying that it went down.                                       *)
LEMMA PostCurrent ==
  ASSUME IInv, NEW m \in Msg, Post(m), UNCHANGED state,
         conn' \in [Nifs -> BOOLEAN],
         \A n \in Nifs : /\ m = Open(n) => conn'[n]
                         /\ conn[n] => conn'[n] \/ m = Closed(n)
  PROVE  OpensAreCurrent' /\ AcquiredMeansConnected'
<1>1. /\ queue \in Seq(Msg) /\ queue' \in Seq(Msg)
      /\ Len(queue') = Len(queue) + 1 /\ queue'[Len(queue) + 1] = m
      /\ \A i \in 1..Len(queue) : queue'[i] = queue[i]
  BY DEF IInv, SMInv, TypeOK, Post
<1>2. OpensAreCurrent'
  <2> SUFFICES ASSUME NEW n \in Nifs, NEW i \in 1..(Len(queue) + 1),
                      queue'[i] = Open(n), ~conn'[n]
               PROVE  \E j \in (i + 1)..(Len(queue) + 1) : queue'[j] = Closed(n)
    BY <1>1 DEF OpensAreCurrent, Open, Closed
  <2>1. i \in 1..Len(queue) /\ queue[i] = Open(n)
    BY <1>1
  <2>2. conn[n] \/ \E j \in (i + 1)..Len(queue) : queue[j] = Closed(n)
    BY <2>1 DEF IInv, OpensAreCurrent
  <2>3. CASE conn[n]
    BY <1>1, <2>1, <2>3
  <2>4. CASE \E j \in (i + 1)..Len(queue) : queue[j] = Closed(n)
    BY <1>1, <2>1, <2>4
  <2> QED  BY <2>2, <2>3, <2>4
<1>3. AcquiredMeansConnected'
  <2> SUFFICES ASSUME NEW n \in Nifs, state[n] = "ACQUIRED", ~conn'[n]
               PROVE  \E i \in 1..(Len(queue) + 1) : queue'[i] = Closed(n)
    BY <1>1 DEF AcquiredMeansConnected, Queued, Closed
  <2>1. conn[n] \/ \E i \in 1..Len(queue) : queue[i] = Closed(n)
    BY DEF IInv, AcquiredMeansConnected, Queued, Closed
  <2> QED  BY <1>1, <2>1
<1> QED  BY <1>2, <1>3

(* Taking the head of the queue.                                             *)
LEMMA ProcessCurrent ==
  ASSUME IInv, ProcessMsg
  PROVE  OpensAreCurrent' /\ AcquiredMeansConnected'
<1>1. /\ queue \in Seq(Msg) /\ queue # <<>> /\ queue' = Tail(queue)
      /\ Len(queue') = Len(queue) - 1 /\ Len(queue) \in Nat
      /\ \A i \in 1..(Len(queue) - 1) : queue'[i] = queue[i + 1]
      /\ Head(queue) = queue[1] /\ queue[1] \in Msg /\ conn' = conn
  BY DEF IInv, SMInv, TypeOK, ProcessMsg
<1>2. OpensAreCurrent'
  <2> SUFFICES ASSUME NEW n \in Nifs, NEW i \in 1..(Len(queue) - 1),
                      queue'[i] = Open(n), ~conn[n]
               PROVE  \E j \in (i + 1)..(Len(queue) - 1) : queue'[j] = Closed(n)
    BY <1>1 DEF OpensAreCurrent, Open, Closed
  <2>1. i + 1 \in 1..Len(queue) /\ queue[i + 1] = Open(n)
    BY <1>1
  <2>2. PICK j \in (i + 2)..Len(queue) : queue[j] = Closed(n)
    BY <1>1, <2>1 DEF IInv, OpensAreCurrent
  <2>3. j - 1 \in (i + 1)..(Len(queue) - 1) /\ queue'[j - 1] = Closed(n)
    BY <1>1, <2>2
  <2> QED  BY <2>3
<1>3. AcquiredMeansConnected'
  <2> SUFFICES ASSUME NEW n \in Nifs, state'[n] = "ACQUIRED", ~conn[n]
               PROVE  \E i \in 1..(Len(queue) - 1) : queue'[i] = Closed(n)
    BY <1>1 DEF AcquiredMeansConnected, Queued, Closed
  <2>1. smInv  BY DEF IInv, SMInv, TypeOK, smInv
  <2>2. queue[1] # Closed(n) /\ (state[n] = "ACQUIRED" \/ queue[1] = Open(n))
    BY <1>1, <2>1, DispatchAcquired DEF ProcessMsg
  <2>3. PICK j \in 1..Len(queue) : j # 1 /\ queue[j] = Closed(n)
    <3>1. CASE state[n] = "ACQUIRED"
      BY <1>1, <2>2, <3>1 DEF IInv, AcquiredMeansConnected, Queued, Closed
    <3>2. CASE queue[1] = Open(n)
      <4>1. 1 \in 1..Len(queue)  BY <1>1
      <4> QED  BY <1>1, <3>2, <4>1 DEF IInv, OpensAreCurrent
    <3> QED  BY <2>2, <3>1, <3>2
  <2>4. j - 1 \in 1..(Len(queue) - 1) /\ queue'[j - 1] = Closed(n)
    BY <1>1, <2>3
  <2> QED  BY <2>4
<1> QED  BY <1>2, <1>3

LEMMA StepIInv == IInv /\ [Next]_vars => IInv'
<1> SUFFICES ASSUME IInv, [Next]_vars PROVE OpensAreCurrent' /\ AcquiredMeansConnected'
  BY StepSM DEF IInv
<1>0. SMInv /\ SMInv'  BY StepSM DEF IInv
<1>1. CASE ProcessMsg  BY <1>1, ProcessCurrent
<1>2. ASSUME NEW h \in Handles, NEW n \in Nifs, ModemOpens(h, n)
      PROVE  OpensAreCurrent' /\ AcquiredMeansConnected'
  <2>1. [kind |-> "request", nif |-> n, handle |-> h] \in Msg  BY DEF Msg
  <2> QED  BY <1>0, <1>2, <2>1, PostCurrent
           DEF ModemOpens, smVars, SMInv, TypeOK, Open, Closed
<1>3. ASSUME NEW h \in Handles, ModemCloses(h)
      PROVE  OpensAreCurrent' /\ AcquiredMeansConnected'
  <2>1. [kind |-> "release", handle |-> h] \in Msg  BY DEF Msg
  <2> QED  BY <1>0, <1>3, <2>1, PostCurrent
           DEF ModemCloses, smVars, SMInv, TypeOK, Open, Closed
<1>4. ASSUME NEW n \in Nifs, FrameworkOpens(n)
      PROVE  OpensAreCurrent' /\ AcquiredMeansConnected'
  <2>1. Open(n) \in Msg  BY DEF Msg, Open
  <2>2. Post(Open(n)) /\ conn' = [conn EXCEPT ![n] = TRUE] /\ UNCHANGED state
    BY <1>4 DEF FrameworkOpens, Answer, Open, smVars
  <2>3. \A m \in Nifs : (Open(n) = Open(m) => conn'[m]) /\ (conn[m] => conn'[m])
    BY <1>0, <2>2 DEF Open, SMInv, TypeOK
  <2> QED  BY <1>0, <2>1, <2>2, <2>3, PostCurrent DEF SMInv, TypeOK
<1>5. ASSUME NEW n \in Nifs, FrameworkFails(n)
      PROVE  OpensAreCurrent' /\ AcquiredMeansConnected'
  <2>1. [kind |-> "failed", nif |-> n] \in Msg  BY DEF Msg
  <2> QED  BY <1>0, <1>5, <2>1, PostCurrent
           DEF FrameworkFails, Answer, smVars, SMInv, TypeOK, Open, Closed
<1>6. ASSUME NEW n \in Nifs, FrameworkCloses(n) \/ ConnectionLost(n)
      PROVE  OpensAreCurrent' /\ AcquiredMeansConnected'
  <2>1. Closed(n) \in Msg  BY DEF Msg, Closed
  <2>2. Post(Closed(n)) /\ conn' = [conn EXCEPT ![n] = FALSE] /\ UNCHANGED state
    BY <1>6 DEF FrameworkCloses, ConnectionLost, Answer, Closed, smVars
  <2>3. \A m \in Nifs : /\ Closed(n) # Open(m)
                        /\ conn[m] => conn'[m] \/ Closed(n) = Closed(m)
    BY <1>0, <2>2 DEF Open, Closed, SMInv, TypeOK
  <2> QED  BY <1>0, <2>1, <2>2, <2>3, PostCurrent DEF SMInv, TypeOK
<1>7. ASSUME NEW n \in Nifs, FrameworkOpensBadApn(n)
      PROVE  OpensAreCurrent' /\ AcquiredMeansConnected'
  <2>1. queue' = queue /\ state' = state /\ \A m \in Nifs : conn[m] => conn'[m]
    BY <1>0, <1>7 DEF FrameworkOpensBadApn, smVars, SMInv, TypeOK
  <2> QED  BY <2>1 DEF IInv, OpensAreCurrent, AcquiredMeansConnected, Queued
<1>8. ASSUME NEW n \in Nifs, ReportBadApn(n)
      PROVE  OpensAreCurrent' /\ AcquiredMeansConnected'
  <2>1. /\ queue' = queue /\ conn' = conn
        /\ \A m \in Nifs : state'[m] = "ACQUIRED" => state[m] = "ACQUIRED"
    BY <1>0, <1>8 DEF ReportBadApn, Released, Reopen, Goto, smVars, SMInv,
       TypeOK, States
  <2> QED  BY <2>1 DEF IInv, OpensAreCurrent, AcquiredMeansConnected, Queued
<1>9. CASE ModemRestarts \/ UNCHANGED vars
  BY <1>9 DEF ModemRestarts, vars, smVars, IInv, OpensAreCurrent,
     AcquiredMeansConnected, Queued
<1> QED
  BY <1>1, <1>2, <1>3, <1>4, <1>5, <1>6, <1>7, <1>8, <1>9 DEF Next, Framework

(* Type correctness of the AGPS state machines and their environment.        *)
THEOREM AgpsTypeOK == Spec => []TypeOK
<1>1. SMInv => TypeOK  BY DEF SMInv
<1> QED  BY <1>1, InitSM, StepSM, PTL DEF Spec

(* A released machine has no subscribers, for any handles, with subscribers  *)
(* that wait for the close, late answers, restarts and freed memory.          *)
THEOREM ReleasedListsEmpty == Spec => []ReleasedIsEmpty
<1>1. SMInv => ReleasedIsEmpty  BY DEF SMInv
<1> QED  BY <1>1, InitSM, StepSM, PTL DEF Spec

(* Late answers never leave a machine ACQUIRED without a connection, unless  *)
(* the report that ends it is already queued.                                 *)
THEOREM AcquiredIsConnected == Spec => []AcquiredMeansConnected
<1>1. Init => IInv  BY InitSM, InitCurrent DEF IInv
<1>2. IInv => AcquiredMeansConnected  BY DEF IInv
<1> QED  BY <1>1, <1>2, StepIInv, PTL DEF Spec

-----------------------------------------------------------------------------
(* What a request of the framework, asked for or not, is answered with.      *)

Failed(n) == [kind |-> "failed", nif |-> n]
Asked(n) == \E i \in 1..Len(fwIn[n]) : fwIn[n][i] = "REQUEST"

(* The adapter asks again whenever it goes to PENDING, and leaves it with the *)
(* first answer.                                                              *)
PendingInv ==
  /\ \A n \in Nifs : ~badApn[n]
  /\ \A n \in Nifs : state[n] = "PENDING" =>
       Asked(n) \/ Queued(Open(n)) \/ Queued(Failed(n))

LEMMA TellAsks ==
  ASSUME smInv, NEW n \in Nifs, NEW what \in {"REQUEST", "RELEASE"}, Tell(n, what)
  PROVE  /\ what = "REQUEST" => Asked(n)'
         /\ \A k \in Nifs : Asked(k) => Asked(k)'
<1>1. /\ fwIn[n] \in Seq({"REQUEST", "RELEASE"})
      /\ fwIn'[n] = Append(fwIn[n], what)
      /\ \A k \in Nifs : k # n => fwIn'[k] = fwIn[k]
  BY DEF smInv, Tell
<1>2. /\ Len(fwIn[n]) \in Nat /\ Len(fwIn'[n]) = Len(fwIn[n]) + 1
      /\ fwIn'[n][Len(fwIn[n]) + 1] = what
      /\ \A i \in 1..Len(fwIn[n]) : fwIn'[n][i] = fwIn[n][i]
  BY <1>1
<1>3. what = "REQUEST" => Asked(n)'  BY <1>2 DEF Asked
<1>4. ASSUME NEW k \in Nifs, Asked(k) PROVE Asked(k)'
  <2>1. CASE k = n  BY <1>2, <1>4, <2>1 DEF Asked
  <2>2. CASE k # n  BY <1>1, <1>4, <2>2 DEF Asked
  <2> QED  BY <2>1, <2>2
<1> QED  BY <1>3, <1>4

(* A machine that is PENDING after an event has asked during it, or was      *)
(* PENDING before and the event was no answer.                                *)
Waits(n, answered) ==
  state'[n] = "PENDING" =>
    Asked(n)' \/ (state[n] = "PENDING" /\ ~answered /\ (Asked(n) => Asked(n)'))

LEMMA ReopenWaits ==
  ASSUME smInv, NEW k \in Nifs, NEW n \in Nifs, state[k] # "PENDING", Reopen(k)
  PROVE  Waits(n, n = k)
<1>1. CASE Goto(k, "PENDING") /\ Tell(k, "REQUEST")
  BY <1>1, TellAsks DEF Waits, Goto, smInv
<1>2. CASE Goto(k, "RELEASED") /\ UNCHANGED fwIn
  BY <1>2 DEF Waits, Goto, smInv, Asked
<1> QED  BY <1>1, <1>2 DEF Reopen

LEMMA EndWaits ==
  ASSUME smInv, NEW k \in Nifs, NEW n \in Nifs
  PROVE  /\ Denied(k) => Waits(n, n = k)
         /\ Released(k) => Waits(n, FALSE)
<1>1. CASE state[k] = "RELEASING"
  BY <1>1, ReopenWaits DEF Denied, Released, Waits
<1>2. CASE state[k] # "RELEASING"
  BY <1>2 DEF Denied, Released, Waits, Goto, smInv, smVars, Asked
<1> QED  BY <1>1, <1>2

LEMMA DispatchWaits ==
  ASSUME smInv, NEW m \in Msg, Dispatch(m), NEW n \in Nifs
  PROVE  Waits(n, m = Open(n) \/ m = Failed(n))
<1>1. CASE m.kind = "request"
  <2>0. RequestATL(m.nif, m.handle) /\ m.nif \in Nifs  BY <1>1 DEF Dispatch, Msg
  <2>1. CASE UNCHANGED <<state, fwIn>>
    BY <1>1, <2>1 DEF Waits, Asked, Open, Failed
  <2>2. CASE Goto(m.nif, "PENDING") /\ Tell(m.nif, "REQUEST")
    BY <1>1, <2>0, <2>2, TellAsks DEF Waits, Goto, smInv, Open, Failed
  <2> QED  BY <2>0, <2>1, <2>2 DEF RequestATL, Subscribe, smVars
<1>2. CASE m.kind = "release"
  <2>1. ASSUME NEW k \in Nifs, Unsubscribe(k, m.handle)
        PROVE  Waits(n, FALSE)
    <3>1. \/ UNCHANGED <<state, fwIn>>
          \/ /\ Goto(k, "RELEASED") \/ Goto(k, "RELEASING")
             /\ UNCHANGED fwIn \/ Tell(k, "RELEASE")
      BY <2>1 DEF Unsubscribe, Retire, AfterRemoval, smVars
    <3>2. Asked(n) => Asked(n)'
      BY <3>1, TellAsks DEF Asked
    <3> QED  BY <3>1, <3>2 DEF Waits, Goto, smInv
  <2>2. CASE UNCHANGED <<smVars, fwIn, modem>>
    BY <1>2, <2>2 DEF Waits, Asked, smVars, Open, Failed
  <2> QED  BY <1>2, <2>1, <2>2 DEF Dispatch, ReleaseATL, Nifs, Waits, Open, Failed
<1>3. CASE m.kind = "open"
  <2>1. m.nif \in Nifs /\ Granted(m.nif) /\ (m = Open(n) <=> n = m.nif)
    BY <1>3 DEF Dispatch, Msg, Open
  <2>2. state'[n] = "PENDING" => state[n] = "PENDING" /\ n # m.nif /\ fwIn' = fwIn
    BY <2>1 DEF Granted, Goto, smInv, smVars
  <2> QED  BY <1>3, <2>1, <2>2 DEF Waits, Asked, Failed
<1>4. CASE m.kind = "failed"
  <2>1. m.nif \in Nifs /\ Denied(m.nif) /\ (m = Failed(n) <=> n = m.nif) /\ m # Open(n)
    BY <1>4 DEF Dispatch, Msg, Open, Failed
  <2> QED  BY <2>1, EndWaits DEF Waits
<1>5. CASE m.kind = "closed"
  <2>1. m.nif \in Nifs /\ Released(m.nif) /\ m # Failed(n) /\ m # Open(n)
    BY <1>5 DEF Dispatch, Msg, Open, Failed
  <2> QED  BY <2>1, EndWaits DEF Waits
<1> QED  BY <1>1, <1>2, <1>3, <1>4, <1>5 DEF Msg

(* What the queue holds after a message was added to it or taken from it.    *)
LEMMA QueuedPost ==
  ASSUME TypeOK, NEW m \in Msg, Post(m), NEW x
  PROVE  Queued(x)' <=> Queued(x) \/ x = m
<1>1. /\ Len(queue') = Len(queue) + 1 /\ queue'[Len(queue) + 1] = m
      /\ Len(queue) \in Nat /\ \A i \in 1..Len(queue) : queue'[i] = queue[i]
  BY DEF TypeOK, Post
<1> QED  BY <1>1 DEF Queued

LEMMA QueuedTail ==
  ASSUME TypeOK, queue # <<>>, queue' = Tail(queue), NEW x
  PROVE  Queued(x) => Queued(x)' \/ x = Head(queue)
<1>1. /\ Len(queue') = Len(queue) - 1 /\ Len(queue) \in Nat /\ Head(queue) = queue[1]
      /\ \A i \in 1..(Len(queue) - 1) : queue'[i] = queue[i + 1]
  BY DEF TypeOK
<1>2. ASSUME NEW i \in 1..Len(queue), queue[i] = x, i # 1 PROVE Queued(x)'
  <2>1. i - 1 \in 1..Len(queue') /\ queue'[i - 1] = queue[i]  BY <1>1, <1>2
  <2> QED  BY <1>2, <2>1 DEF Queued
<1> QED  BY <1>1, <1>2 DEF Queued

LEMMA StepPending ==
  ASSUME ~BadApns, SMInv, PendingInv, [Next]_vars
  PROVE  PendingInv'
<1>0. smInv /\ TypeOK  BY DEF SMInv, TypeOK, smInv
<1>1. CASE ProcessMsg
  <2>1. Head(queue) \in Msg  BY <1>1, QueueType DEF SMInv, ProcessMsg
  <2>2. ASSUME NEW n \in Nifs, state'[n] = "PENDING"
        PROVE  Asked(n)' \/ Queued(Open(n))' \/ Queued(Failed(n))'
    <3>1. Waits(n, Head(queue) = Open(n) \/ Head(queue) = Failed(n))
      BY <1>0, <1>1, <2>1, DispatchWaits DEF ProcessMsg
    <3>2. CASE Asked(n)'  BY <3>2
    <3>3. CASE /\ state[n] = "PENDING" /\ (Asked(n) => Asked(n)')
               /\ Head(queue) # Open(n) /\ Head(queue) # Failed(n)
      BY <1>0, <1>1, <3>3, QueuedTail DEF ProcessMsg, PendingInv
    <3> QED  BY <2>2, <3>1, <3>2, <3>3 DEF Waits
  <2> QED  BY <1>1, <2>2 DEF ProcessMsg, PendingInv, Queued, Asked, Open, Failed
<1>2. ASSUME NEW m \in Msg, Post(m), UNCHANGED <<smVars, badApn>>,
             \A n \in Nifs : Asked(n) => Asked(n)' \/ m \in {Open(n), Failed(n)}
      PROVE  PendingInv'
  <2>1. \A n \in Nifs : /\ Queued(Open(n))' <=> Queued(Open(n)) \/ Open(n) = m
                        /\ Queued(Failed(n))' <=> Queued(Failed(n)) \/ Failed(n) = m
    BY <1>0, <1>2, QueuedPost
  <2>2. ASSUME NEW n \in Nifs, state'[n] = "PENDING"
        PROVE  Asked(n)' \/ Queued(Open(n))' \/ Queued(Failed(n))'
    BY <1>2, <2>1, <2>2 DEF PendingInv, smVars
  <2> QED  BY <1>2, <2>2 DEF PendingInv, Queued, Asked, Open, Failed
<1>3. ASSUME NEW h \in Handles, NEW n \in Nifs, ModemOpens(h, n) PROVE PendingInv'
  <2>1. [kind |-> "request", nif |-> n, handle |-> h] \in Msg  BY DEF Msg
  <2> QED  BY <1>2, <1>3, <2>1 DEF ModemOpens, Asked
<1>4. ASSUME NEW h \in Handles, ModemCloses(h) PROVE PendingInv'
  <2>1. [kind |-> "release", handle |-> h] \in Msg  BY DEF Msg
  <2> QED  BY <1>2, <1>4, <2>1 DEF ModemCloses, Asked
<1>5. ASSUME NEW n \in Nifs, FrameworkOpens(n) \/ FrameworkFails(n) \/ FrameworkCloses(n)
      PROVE  PendingInv'
  <2>1. /\ Open(n) \in Msg /\ Failed(n) \in Msg /\ Closed(n) \in Msg
    BY DEF Msg, Open, Failed, Closed
  <2>2. /\ fwIn[n] # <<>> /\ fwIn' = [fwIn EXCEPT ![n] = Tail(@)]
        /\ \/ Post(Open(n)) \/ Post(Failed(n))
           \/ Post(Closed(n)) /\ Head(fwIn[n]) = "RELEASE"
        /\ UNCHANGED <<smVars, badApn>>
    BY <1>5 DEF FrameworkOpens, FrameworkFails, FrameworkCloses, Serve, Answer, Open, Failed, Closed
  <2>3. ASSUME NEW k \in Nifs, Asked(k)
        PROVE  Asked(k)' \/ (k = n /\ (Post(Open(n)) \/ Post(Failed(n))))
    <3>1. CASE k # n
      BY <1>0, <2>2, <2>3, <3>1 DEF Asked, TypeOK
    <3>2. CASE k = n
      <4>1. /\ Len(fwIn'[n]) = Len(fwIn[n]) - 1 /\ Len(fwIn[n]) \in Nat
            /\ Head(fwIn[n]) = fwIn[n][1]
            /\ \A i \in 1..(Len(fwIn[n]) - 1) : fwIn'[n][i] = fwIn[n][i + 1]
        BY <1>0, <2>2 DEF TypeOK
      <4>2. PICK i \in 1..Len(fwIn[n]) : fwIn[n][i] = "REQUEST"  BY <2>3, <3>2 DEF Asked
      <4>3. CASE i = 1  BY <2>2, <3>2, <4>1, <4>2, <4>3
      <4>4. CASE i # 1
        <5>1. i - 1 \in 1..Len(fwIn'[n]) /\ fwIn'[n][i - 1] = "REQUEST"
          BY <4>1, <4>2, <4>4
        <5> QED  BY <3>2, <5>1 DEF Asked
      <4> QED  BY <4>3, <4>4
    <3> QED  BY <3>1, <3>2
  <2>4. PICK m \in {Open(n), Failed(n), Closed(n)} :
          Post(m) /\ (m = Closed(n) => ~ Post(Open(n)) /\ ~ Post(Failed(n)))
    <3>1. CASE Post(Open(n))  BY <3>1 DEF Open, Closed
    <3>2. CASE Post(Failed(n))  BY <3>2 DEF Failed, Closed
    <3> QED  BY <2>2, <3>1, <3>2
  <2> QED  BY <1>2, <2>1, <2>2, <2>3, <2>4
<1>6. ASSUME NEW n \in Nifs, ConnectionLost(n) PROVE PendingInv'
  <2>1. [kind |-> "closed", nif |-> n] \in Msg  BY DEF Msg
  <2> QED  BY <1>2, <1>6, <2>1 DEF ConnectionLost, Answer, Asked
<1>7. CASE ModemRestarts \/ UNCHANGED vars
  BY <1>7 DEF ModemRestarts, vars, smVars, PendingInv, Asked, Queued
<1>8. ASSUME NEW n \in Nifs, FrameworkOpensBadApn(n) \/ ReportBadApn(n) PROVE FALSE
  BY <1>8 DEF FrameworkOpensBadApn, ReportBadApn, PendingInv
<1> QED
  BY <1>1, <1>3, <1>4, <1>5, <1>6, <1>7, <1>8 DEF Next, Framework

(* No subscriber waits for ever: whatever calls are abandoned and made again,*)
(* with restarts and freed memory, a PENDING machine has its answer coming.   *)
(* The bad-APN report is the exception (GnssAdapter.cpp:5067).                *)
THEOREM PendingIsAnswered == ~BadApns => (Spec => []PendingWillBeAnswered)
<1> SUFFICES ASSUME ~BadApns PROVE Spec => []PendingWillBeAnswered
  OBVIOUS
<1>1. Init => SMInv /\ PendingInv
  BY InitSM DEF Init, PendingInv
<1>2. SMInv /\ PendingInv /\ [Next]_vars => SMInv' /\ PendingInv'
  BY StepSM, StepPending
<1>3. PendingInv => PendingWillBeAnswered
  BY DEF PendingInv, PendingWillBeAnswered, Asked, Open, Failed
<1> QED  BY <1>1, <1>2, <1>3, PTL DEF Spec

-----------------------------------------------------------------------------
(* What an event does to one handle: req is the set of interfaces on which   *)
(* it asks for the handle, rel whether it releases it.                        *)

Event(h, req, rel) ==
  /\ \/ modem'[h] \in {modem[h], "idle"}
     \/ modem[h] = "opening" /\ modem'[h] = "open"
  /\ \A n \in Nifs : h \in subs'[n] => h \in subs[n] \/ n \in req
  /\ \A n \in req : modem'[h] = "idle" \/ h \in subs'[n]
  /\ FreedReads = {} =>
       \A n \in Nifs : h \in subs[n] /\ h \notin subs'[n] => modem'[h] = "idle"
  /\ modem[h] # "idle" /\ modem'[h] = "idle" =>
       \/ \E n \in Nifs : h \in subs[n] /\ h \notin subs'[n]
       \/ \E n \in req : h \in subs'[n] => h \in subs[n]
  /\ \A n \in Nifs : h \in inactive'[n] => h \in inactive[n] \/ rel
  /\ \A n \in Nifs :
       state[n] = "ACQUIRED" /\ state'[n] # "ACQUIRED" /\ h \in subs[n] \ inactive[n] =>
         modem'[h] = "idle" \/ h \notin subs'[n] \/ (rel /\ h \in WaitsForClose)
  /\ modem[h] # "open" /\ modem'[h] = "open" =>
       \E n \in Nifs : h \in subs'[n] /\ state'[n] = "ACQUIRED"

LEMMA NoEvent ==
  ASSUME NEW h \in Handles, UNCHANGED <<smVars, modem>>
  PROVE  Event(h, {}, FALSE) /\ Event(h, {}, TRUE)
BY DEF Event, smVars

LEMMA SubscribeEvent ==
  ASSUME smInv, NEW n \in Nifs, NEW x \in Handles, NEW h \in Handles, Subscribe(n, x)
  PROVE  Event(h, IF h = x THEN {n} ELSE {}, FALSE)
<1>1. /\ \A k \in Nifs : subs'[k] = IF k = n THEN subs[n] \cup {x} ELSE subs[k]
      /\ \A k \in Nifs : inactive'[k] \subseteq inactive[k]
  <2>1. CASE x \in subs[n]
    BY <2>1 DEF Subscribe, AddSubscriber, smInv
  <2>2. CASE x \notin subs[n]
    BY <2>2 DEF Subscribe, AddSubscriber, smInv
  <2> QED  BY <2>1, <2>2
<1>2. /\ \A k \in Nifs : state[k] = "ACQUIRED" => state'[k] = "ACQUIRED"
      /\ \/ UNCHANGED modem
         \/ OpenStatus({x}, TRUE) /\ state'[n] = "ACQUIRED"
  BY DEF Subscribe, Goto, smInv
<1>3. CASE UNCHANGED modem  BY <1>1, <1>2, <1>3 DEF Event
<1>4. CASE OpenStatus({x}, TRUE) /\ state'[n] = "ACQUIRED"
  <2>1. /\ h # x => modem'[h] = modem[h]
        /\ h = x => modem'[h] = IF modem[h] = "opening" THEN "open" ELSE modem[h]
    BY <1>4 DEF OpenStatus
  <2> QED  BY <1>1, <1>2, <1>4, <2>1 DEF Event
<1> QED  BY <1>2, <1>3, <1>4

LEMMA UnsubscribeEvent ==
  ASSUME smInv, NEW n \in Nifs, NEW x \in subs[n], NEW h \in Handles, Unsubscribe(n, x)
  PROVE  Event(h, {}, h = x)
<1>0. state[n] # "RELEASED" /\ x \in Handles  BY DEF smInv, ReleasedIsEmpty
<1>1. CASE x \in WaitsForClose /\ Retire(n, x)
  <2>1. /\ subs' = subs /\ modem' = modem
        /\ \A k \in Nifs : inactive'[k] = IF k = n THEN inactive[n] \cup {x} ELSE inactive[k]
    BY <1>1 DEF Retire, smInv
  <2>2. \A k \in Nifs : state'[k] # state[k] => k = n /\ subs[n] \ (inactive[n] \cup {x}) = {}
    BY <1>1 DEF Retire, Goto, smInv
  <2>3. ASSUME NEW k \in Nifs, state'[k] # state[k], h \in subs[k] \ inactive[k]
        PROVE  h = x /\ h \in WaitsForClose
    BY <1>1, <2>2, <2>3
  <2> QED  BY <2>1, <2>3 DEF Event
<1>2. CASE \E gone \in Deleted(n, x) :
             NotifyAndDelete(n, x, gone) /\ AfterRemoval(n, gone)
  <2>1. PICK gone \in Deleted(n, x) : NotifyAndDelete(n, x, gone) /\ AfterRemoval(n, gone)
    BY <1>2
  <2>2. /\ \A k \in Nifs : subs'[k] = IF k = n THEN subs[n] \ gone ELSE subs[k]
        /\ \A k \in Nifs : inactive'[k] = IF k = n THEN inactive[n] \ gone ELSE inactive[k]
        /\ modem'[h] = IF h = x THEN "idle" ELSE modem[h]
    BY <2>1 DEF NotifyAndDelete, Drop, CloseStatus, smInv
  <2>3. x \in gone /\ (FreedReads = {} => gone = {x})
    BY <2>1 DEF Deleted
  <2>4. \A k \in Nifs : state'[k] # state[k] => k = n /\ (subs[n] \ gone) \ inactive[n] = {}
    <3>1. CASE subs[n] \ gone = {}  BY <2>1, <3>1 DEF AfterRemoval, Goto, smInv
    <3>2. CASE subs[n] \ gone # {}
      BY <2>1, <3>2 DEF AfterRemoval, ActiveAfter, Goto, smInv
    <3> QED  BY <3>1, <3>2
  <2>5. ASSUME NEW k \in Nifs, state'[k] # state[k], h \in subs[k] \ inactive[k]
        PROVE  h \notin subs'[k]
    BY <2>2, <2>4, <2>5
  <2> QED  BY <2>2, <2>3, <2>5 DEF Event
<1> QED  BY <1>0, <1>1, <1>2 DEF Unsubscribe

LEMMA GrantedEvent ==
  ASSUME smInv, NEW n \in Nifs, NEW h \in Handles, Granted(n)
  PROVE  Event(h, {}, FALSE)
<1>1. CASE state[n] = "PENDING"
  <2>1. /\ subs' = subs /\ inactive' = inactive
        /\ \A k \in Nifs : state'[k] = IF k = n THEN "ACQUIRED" ELSE state[k]
        /\ modem'[h] = IF h \in subs[n] \ inactive[n] /\ modem[h] = "opening"
                       THEN "open" ELSE modem[h]
    BY <1>1 DEF Granted, Goto, OpenStatus, smInv
  <2> QED  BY <2>1 DEF Event
<1>2. CASE state[n] # "PENDING"  BY <1>2, NoEvent DEF Granted
<1> QED  BY <1>1, <1>2

LEMMA ReopenEvent ==
  ASSUME smInv, NEW n \in Nifs, NEW h \in Handles, state[n] = "RELEASING", Reopen(n)
  PROVE  Event(h, {}, FALSE)
<1>1. /\ \A k \in Nifs : subs'[k] = IF k = n THEN subs[n] \ inactive[n] ELSE subs[k]
      /\ \A k \in Nifs : inactive'[k] = IF k = n THEN {} ELSE inactive[k]
      /\ modem'[h] = IF h \in subs[n] \cap inactive[n] THEN "idle" ELSE modem[h]
  BY DEF Reopen, Drop, CloseStatus, smInv
<1>2. \A k \in Nifs : state[k] = "ACQUIRED" => state'[k] = "ACQUIRED"
  BY DEF Reopen, Goto, smInv
<1> QED  BY <1>1, <1>2 DEF Event

LEMMA EndEvent ==
  ASSUME smInv, NEW n \in Nifs, NEW h \in Handles, Released(n) \/ Denied(n)
  PROVE  Event(h, {}, FALSE)
<1>1. CASE /\ Goto(n, "RELEASED") /\ Drop(n, subs[n])
           /\ CloseStatus(subs[n]) \/ OpenStatus(subs[n], FALSE)
  <2>1. /\ \A k \in Nifs : subs'[k] = IF k = n THEN {} ELSE subs[k]
        /\ \A k \in Nifs : inactive'[k] \subseteq inactive[k]
        /\ \A k \in Nifs : k # n => state'[k] = state[k]
        /\ modem'[h] = IF h \in subs[n] THEN "idle" ELSE modem[h]
    BY <1>1 DEF Goto, Drop, CloseStatus, OpenStatus, smInv
  <2> QED  BY <2>1 DEF Event
<1>2. CASE state[n] = "RELEASING" /\ Reopen(n)  BY <1>2, ReopenEvent
<1>3. CASE UNCHANGED <<smVars, fwIn, modem>>  BY <1>3, NoEvent
<1> QED  BY <1>1, <1>2, <1>3 DEF Released, Denied

RequestOf(m, h) == m.kind = "request" /\ m.handle = h
ReleaseOf(m, h) == m.kind = "release" /\ m.handle = h

LEMMA DispatchEvent ==
  ASSUME smInv, NEW m \in Msg, Dispatch(m), NEW h \in Handles
  PROVE  Event(h, IF RequestOf(m, h) THEN {m.nif} ELSE {}, ReleaseOf(m, h))
<1> USE DEF RequestOf, ReleaseOf
<1>1. CASE m.kind = "request"
  <2>1. m.nif \in Nifs /\ m.handle \in Handles /\ RequestATL(m.nif, m.handle)
    BY <1>1 DEF Msg, Dispatch
  <2>2. CASE m.nif \in Created
    BY <1>1, <2>1, <2>2, SubscribeEvent DEF RequestATL
  <2>3. CASE m.nif \notin Created
    <3>1. UNCHANGED smVars /\ modem'[h] = IF h = m.handle THEN "idle" ELSE modem[h]
      BY <2>1, <2>3 DEF RequestATL, OpenStatus
    <3>2. h = m.handle /\ h \in subs[m.nif] => h \in subs'[m.nif]  BY <3>1 DEF smVars
    <3>3. CASE h # m.handle  BY <1>1, <3>1, <3>3 DEF Event, smVars
    <3>4. CASE h = m.handle /\ h \notin subs[m.nif]
      BY <1>1, <2>1, <3>1, <3>4 DEF Event, smVars
    <3>5. CASE h = m.handle /\ h \in subs[m.nif]
      BY <1>1, <2>1, <3>1, <3>5 DEF Event, smVars
    <3> QED  BY <3>3, <3>4, <3>5
  <2> QED  BY <2>2, <2>3
<1>2. CASE m.kind = "release"
  <2>1. ASSUME NEW k \in Nifs, m.handle \in subs[k], Unsubscribe(k, m.handle)
        PROVE  Event(h, {}, h = m.handle)
    BY <2>1, UnsubscribeEvent
  <2>2. UNCHANGED <<smVars, fwIn, modem>> => Event(h, {}, FALSE) /\ Event(h, {}, TRUE)
    BY NoEvent
  <2>3. Event(h, {}, h = m.handle)
    BY <1>2, <2>1, <2>2 DEF Dispatch, ReleaseATL, Nifs
  <2> QED  BY <1>2, <2>3
<1>3. CASE m.kind = "open"  BY <1>3, GrantedEvent DEF Dispatch, Msg
<1>4. CASE m.kind = "failed" \/ m.kind = "closed"
  BY <1>4, EndEvent DEF Dispatch, Msg
<1> QED  BY <1>1, <1>2, <1>3, <1>4 DEF Msg

-----------------------------------------------------------------------------
(* A handle's messages in the queue.                                         *)

Requests(h) == {i \in 1..Len(queue) : RequestOf(queue[i], h)}
Releases(h) == {i \in 1..Len(queue) : ReleaseOf(queue[i], h)}

LEMMA PositionsPost ==
  ASSUME TypeOK, NEW m \in Msg, Post(m), NEW h
  PROVE  /\ Len(queue) \in Nat
         /\ Requests(h)' = Requests(h) \cup (IF RequestOf(m, h) THEN {Len(queue) + 1} ELSE {})
         /\ Releases(h)' = Releases(h) \cup (IF ReleaseOf(m, h) THEN {Len(queue) + 1} ELSE {})
<1>1. /\ Len(queue') = Len(queue) + 1 /\ queue'[Len(queue) + 1] = m
      /\ Len(queue) \in Nat /\ \A i \in 1..Len(queue) : queue'[i] = queue[i]
  BY DEF TypeOK, Post
<1>2. ASSUME NEW i \in Nat
      PROVE  /\ i \in Requests(h)' <=>
                  i \in Requests(h) \/ (i = Len(queue) + 1 /\ RequestOf(m, h))
             /\ i \in Releases(h)' <=>
                  i \in Releases(h) \/ (i = Len(queue) + 1 /\ ReleaseOf(m, h))
  BY <1>1 DEF Requests, Releases, RequestOf, ReleaseOf
<1>3. /\ Requests(h) \subseteq Nat /\ Requests(h)' \subseteq Nat
      /\ Releases(h) \subseteq Nat /\ Releases(h)' \subseteq Nat
      /\ Len(queue) + 1 \in Nat
  BY <1>1 DEF Requests, Releases
<1> QED  BY <1>1, <1>2, <1>3

LEMMA PositionsTail ==
  ASSUME TypeOK, queue # <<>>, queue' = Tail(queue), NEW h
  PROVE  /\ \A i \in Requests(h)' : i \in Nat /\ i + 1 \in Requests(h)
         /\ \A i \in Releases(h)' : i \in Nat /\ i + 1 \in Releases(h)
         /\ \A i \in Requests(h) : i = 1 \/ i - 1 \in Requests(h)'
         /\ 1 \in Requests(h) <=> RequestOf(Head(queue), h)
         /\ 1 \in Releases(h) <=> ReleaseOf(Head(queue), h)
         /\ Requests(h) \subseteq Nat \ {0} /\ Releases(h) \subseteq Nat \ {0}
<1>1. /\ Len(queue') = Len(queue) - 1 /\ Len(queue) \in Nat \ {0} /\ Head(queue) = queue[1]
      /\ \A i \in 1..(Len(queue) - 1) : queue'[i] = queue[i + 1]
  BY DEF TypeOK
<1>2. ASSUME NEW i \in Requests(h), i # 1 PROVE i - 1 \in Requests(h)'
  <2>1. i - 1 \in 1..Len(queue') /\ queue'[i - 1] = queue[i]  BY <1>1, <1>2 DEF Requests
  <2> QED  BY <1>2, <2>1 DEF Requests, RequestOf
<1> QED  BY <1>1, <1>2 DEF Requests, Releases, RequestOf, ReleaseOf

(* A handle is on a list unless its request has still to be processed.       *)
TrackedInv ==
  \A h \in Handles : modem[h] # "idle" => Requests(h) # {} \/ \E n \in Nifs : h \in subs[n]

(* The life of a handle as long as the modem stays up: it asks, is on at most *)
(* one list, closes, and asks again only after the list has lost it; what is  *)
(* queued of earlier lives are releases before its request.                   *)
Life(h) ==
  /\ \A n, k \in Nifs : h \in subs[n] /\ h \in subs[k] => n = k
  /\ \A i, j \in Requests(h) : i = j
  /\ Requests(h) # {} => modem[h] # "idle" /\ \A n \in Nifs : h \notin subs[n]
  /\ \A n \in Nifs : h \in subs[n] =>
       modem[h] # "idle" /\ (Releases(h) # {} => modem[h] = "closing")
  /\ \A i \in Requests(h), j \in Releases(h) : i < j => modem[h] = "closing"
  /\ \A n \in Nifs : h \in inactive[n] => modem[h] = "closing"
LifeInv == \A h \in Handles : Life(h)

(* An open handle is active on the list of an acquired machine.              *)
BackedInv ==
  \A h \in Handles : modem[h] = "open" =>
    \E n \in Nifs : h \in subs[n] \ inactive[n] /\ state[n] = "ACQUIRED"
NoInactive == WaitsForClose = {} => \A n \in Nifs : inactive[n] = {}

(* What a step does to a handle: an event, whose request or release it takes *)
(* from the head of the queue, or a message of the modem.                     *)
LEMMA TrackedEvent ==
  ASSUME FreedReads = {}, NEW h \in Handles, NEW req \in SUBSET Nifs, NEW rel, Event(h, req, rel),
         modem[h] # "idle" => Requests(h) # {} \/ \E n \in Nifs : h \in subs[n],
         Requests(h) # {} => Requests(h)' # {} \/ req # {}
  PROVE  modem'[h] # "idle" => Requests(h)' # {} \/ \E n \in Nifs : h \in subs'[n]
<1> SUFFICES ASSUME modem'[h] # "idle" PROVE Requests(h)' # {} \/ \E n \in Nifs : h \in subs'[n]
  OBVIOUS
<1>1. modem[h] # "idle"  BY DEF Event
<1>2. CASE \E n \in Nifs : h \in subs[n]  BY <1>2 DEF Event
<1>3. CASE req # {}  BY <1>3 DEF Event
<1> QED  BY <1>1, <1>2, <1>3

LEMMA LifeEvent ==
  ASSUME smInv, smInv', NEW h \in Handles, Life(h),
         NEW req \in SUBSET Nifs, NEW rel \in BOOLEAN, Event(h, req, rel),
         \A n, k \in req : n = k, rel => req = {}, NEW d \in {0, 1},
         Requests(h)' \subseteq Nat \ {0}, Releases(h)' \subseteq Nat \ {0},
         \A i \in Requests(h)' : i + d \in Requests(h),
         \A j \in Releases(h)' : j + d \in Releases(h),
         req # {} => d \in Requests(h), rel => d \in Releases(h)
  PROVE  Life(h)'
<1>1. req # {} => modem[h] # "idle" /\ \A n \in Nifs : h \notin subs[n]
  BY DEF Life
<1>2. modem[h] = "closing" => modem'[h] \in {"closing", "idle"}
  BY DEF Event
<1>3. \A n, k \in Nifs : h \in subs'[n] /\ h \in subs'[k] => n = k
  BY <1>1 DEF Event, Life
<1>4. \A i, j \in Requests(h)' : i = j
  <2> SUFFICES ASSUME NEW i \in Requests(h)', NEW j \in Requests(h)' PROVE i = j
    OBVIOUS
  <2>1. i + d = j + d  BY DEF Life
  <2> QED  BY <2>1
<1>5. Requests(h)' # {} => modem'[h] # "idle" /\ \A n \in Nifs : h \notin subs'[n]
  <2> SUFFICES ASSUME NEW i \in Requests(h)'
               PROVE  modem'[h] # "idle" /\ \A n \in Nifs : h \notin subs'[n]
    OBVIOUS
  <2>1. req = {}
    <3>1. i + d # d  OBVIOUS
    <3> QED  BY <3>1 DEF Life
  <2>2. modem[h] # "idle" /\ \A n \in Nifs : h \notin subs[n]  BY DEF Life
  <2> QED  BY <2>1, <2>2 DEF Event
<1>6. ASSUME NEW n \in Nifs, h \in subs'[n]
      PROVE  modem'[h] # "idle" /\ (Releases(h)' # {} => modem[h] = "closing")
  <2>1. CASE req = {}
    <3>1. h \in subs[n]  BY <1>6, <2>1 DEF Event
    <3>2. modem[h] # "idle" /\ \A k \in Nifs : h \in subs[k] => k = n  BY <3>1 DEF Life
    <3>3. Releases(h)' # {} => modem[h] = "closing"  BY <3>1 DEF Life
    <3> QED  BY <1>6, <2>1, <3>2, <3>3 DEF Event
  <2>2. CASE req # {}
    <3>1. n \in req /\ req = {n}  BY <1>1, <1>6, <2>2 DEF Event
    <3>2. modem'[h] # "idle"  BY <1>1, <1>6, <2>2, <3>1 DEF Event
    <3>3. ASSUME NEW j \in Releases(h)' PROVE modem[h] = "closing"
      <4>1. d \in Requests(h) /\ j + d \in Releases(h) /\ d < j + d  BY <2>2
      <4> QED  BY <4>1 DEF Life
    <3> QED  BY <3>2, <3>3
  <2> QED  BY <2>1, <2>2
<1>7. ASSUME NEW i \in Requests(h)', NEW j \in Releases(h)', i < j
      PROVE  modem'[h] = "closing"
  <2>1. i + d \in Requests(h) /\ j + d \in Releases(h) /\ i + d < j + d  BY <1>7
  <2>2. modem[h] = "closing"  BY <2>1 DEF Life
  <2> QED  BY <1>2, <1>5, <2>2
<1>8. ASSUME NEW n \in Nifs, h \in inactive'[n] PROVE modem'[h] = "closing"
  <2>1. h \in subs'[n]  BY <1>8 DEF smInv
  <2>2. CASE h \in inactive[n]
    BY <1>2, <1>6, <2>1, <2>2 DEF Life
  <2>3. CASE rel
    <3>1. h \in subs[n] /\ Releases(h) # {}  BY <2>1, <2>3 DEF Event
    <3> QED  BY <1>2, <1>6, <2>1, <3>1 DEF Life
  <2> QED  BY <1>8, <2>2, <2>3 DEF Event
<1> QED  BY <1>2, <1>3, <1>4, <1>5, <1>6, <1>7, <1>8 DEF Life

(* An open handle stays backed, unless its own release retires it, which     *)
(* only a handle that is not closing could survive.                           *)
LEMMA BackedEvent ==
  ASSUME smInv, NEW h \in Handles, NEW req \in SUBSET Nifs, NEW rel \in BOOLEAN,
         Event(h, req, rel), FreedReads = {},
         rel /\ h \in WaitsForClose => modem[h] # "open",
         \A n \in Nifs : h \in inactive'[n] => modem'[h] # "open",
         modem[h] = "open" =>
           \E n \in Nifs : h \in subs[n] \ inactive[n] /\ state[n] = "ACQUIRED",
         modem'[h] = "open"
  PROVE  \E n \in Nifs : h \in subs'[n] \ inactive'[n] /\ state'[n] = "ACQUIRED"
<1>1. CASE modem[h] # "open"
  <2>1. PICK n \in Nifs : h \in subs'[n] /\ state'[n] = "ACQUIRED"
    BY <1>1 DEF Event
  <2> QED  BY <2>1
<1>2. CASE modem[h] = "open"
  <2>1. PICK n \in Nifs : h \in subs[n] \ inactive[n] /\ state[n] = "ACQUIRED"
    BY <1>2
  <2>2. h \in subs'[n]  BY <2>1 DEF Event
  <2>3. state'[n] = "ACQUIRED"  BY <1>2, <2>1, <2>2 DEF Event
  <2> QED  BY <2>2, <2>3
<1> QED  BY <1>1, <1>2

(* One step of the whole system, as a handle sees it: an event, or a message *)
(* of the modem about some handle, or nothing.                                *)
HandleEvent(h) ==
  \E req \in SUBSET Nifs, rel \in BOOLEAN, d \in {0, 1} :
    /\ Event(h, req, rel)
    /\ (\A n, k \in req : n = k) /\ (rel => req = {})
    /\ Requests(h)' \subseteq Nat \ {0} /\ Releases(h)' \subseteq Nat \ {0}
    /\ \A i \in Requests(h)' : i + d \in Requests(h)
    /\ \A j \in Releases(h)' : j + d \in Releases(h)
    /\ (req # {} => d \in Requests(h)) /\ (rel => d \in Releases(h))
    /\ Requests(h) # {} => Requests(h)' # {} \/ req # {}

ModemPosts ==
  \E x \in Handles, m \in Msg :
    /\ Post(m) /\ UNCHANGED smVars
    /\ \/ /\ RequestOf(m, x) /\ modem[x] = "idle"
          /\ modem' = [modem EXCEPT ![x] = "opening"]
       \/ /\ ReleaseOf(m, x) /\ modem[x] \in {"opening", "open"}
          /\ modem' = [modem EXCEPT ![x] = "closing"]

LEMMA StillEvent ==
  ASSUME NEW h, Event(h, {}, FALSE), Requests(h)' = Requests(h), Releases(h)' = Releases(h),
         Requests(h) \subseteq Nat \ {0}, Releases(h) \subseteq Nat \ {0}
  PROVE  HandleEvent(h)
<1>1. /\ \A i \in Requests(h)' : i + 0 \in Requests(h)
      /\ \A j \in Releases(h)' : j + 0 \in Releases(h)
  OBVIOUS
<1>2. {} \in SUBSET Nifs /\ FALSE \in BOOLEAN /\ 0 \in {0, 1}  OBVIOUS
<1>3. Requests(h)' \subseteq Nat \ {0} /\ Releases(h)' \subseteq Nat \ {0}  OBVIOUS
<1> QED  BY <1>1, <1>2, <1>3, Zenon DEF HandleEvent

LEMMA StepKinds ==
  ASSUME SMInv, [Next]_vars
  PROVE  \/ ModemPosts
         \/ ModemRestarts
         \/ \A h \in Handles : HandleEvent(h)
<1>0. smInv /\ TypeOK  BY DEF SMInv, TypeOK, smInv
<1>1. CASE ProcessMsg
  <2>1. Head(queue) \in Msg /\ Dispatch(Head(queue)) /\ queue # <<>> /\ queue' = Tail(queue)
    BY <1>1, QueueType DEF SMInv, ProcessMsg
  <2>2. ASSUME NEW h \in Handles PROVE HandleEvent(h)
    <3> DEFINE req == IF RequestOf(Head(queue), h) THEN {Head(queue).nif} ELSE {}
               rel == ReleaseOf(Head(queue), h)
    <3>1. Event(h, req, rel)  BY <1>0, <2>1, DispatchEvent
    <3>2. /\ \A i \in Requests(h)' : i \in Nat /\ i + 1 \in Requests(h)
          /\ \A i \in Releases(h)' : i \in Nat /\ i + 1 \in Releases(h)
          /\ \A i \in Requests(h) : i = 1 \/ i - 1 \in Requests(h)'
          /\ 1 \in Requests(h) <=> RequestOf(Head(queue), h)
          /\ 1 \in Releases(h) <=> ReleaseOf(Head(queue), h)
      BY <1>0, <2>1, PositionsTail
    <3>3. Requests(h)' \subseteq Nat \ {0} /\ Releases(h)' \subseteq Nat \ {0}
      BY <2>1 DEF Requests, Releases
    <3>4. req \in SUBSET Nifs /\ rel \in BOOLEAN /\ (rel => req = {}) /\ \A n, k \in req : n = k
      BY <2>1 DEF RequestOf, ReleaseOf, Msg
    <3>5. Requests(h) # {} => Requests(h)' # {} \/ req # {}  BY <3>2
    <3>6. (req # {} => 1 \in Requests(h)) /\ (rel => 1 \in Releases(h))  BY <3>2
    <3> HIDE DEF req, rel
    <3> QED  BY <3>1, <3>2, <3>3, <3>4, <3>5, <3>6 DEF HandleEvent
  <2> QED  BY <2>2
<1>2. ASSUME UNCHANGED queue, \A h \in Handles : Event(h, {}, FALSE)
      PROVE  \A h \in Handles : HandleEvent(h)
  <2> SUFFICES ASSUME NEW h \in Handles PROVE HandleEvent(h)
    OBVIOUS
  <2>1. Requests(h)' = Requests(h) /\ Releases(h)' = Releases(h)
    BY <1>2 DEF Requests, Releases
  <2>2. Requests(h) \subseteq Nat \ {0} /\ Releases(h) \subseteq Nat \ {0}
    BY <1>0 DEF Requests, Releases, TypeOK
  <2> QED  BY <1>2, <2>1, <2>2, StillEvent
<1>3. ASSUME NEW h \in Handles, NEW n \in Nifs, ModemOpens(h, n) PROVE ModemPosts
  <2>1. LET m == [kind |-> "request", nif |-> n, handle |-> h]
        IN  m \in Msg /\ RequestOf(m, h)
    BY DEF Msg, RequestOf
  <2> QED  BY <1>3, <2>1 DEF ModemOpens, ModemPosts
<1>4. ASSUME NEW h \in Handles, ModemCloses(h) PROVE ModemPosts
  <2>1. LET m == [kind |-> "release", handle |-> h] IN m \in Msg /\ ReleaseOf(m, h)
    BY DEF Msg, ReleaseOf
  <2> QED  BY <1>4, <2>1 DEF ModemCloses, ModemPosts
<1>5. ASSUME NEW n \in Nifs,
             FrameworkOpens(n) \/ FrameworkFails(n) \/ FrameworkCloses(n) \/ ConnectionLost(n)
      PROVE  \A h \in Handles : HandleEvent(h)
  <2>1. PICK m \in {Open(n), Failed(n), Closed(n)} : Post(m) /\ UNCHANGED <<smVars, modem>>
    BY <1>5 DEF FrameworkOpens, FrameworkFails, FrameworkCloses, ConnectionLost, Answer,
       Open, Failed, Closed
  <2>2. m \in Msg  BY DEF Msg, Open, Failed, Closed
  <2> SUFFICES ASSUME NEW h \in Handles PROVE HandleEvent(h)
    OBVIOUS
  <2>3. Requests(h)' = Requests(h) /\ Releases(h)' = Releases(h)
    <3>1. ~ RequestOf(m, h) /\ ~ ReleaseOf(m, h)
      BY DEF RequestOf, ReleaseOf, Open, Failed, Closed
    <3> QED  BY <1>0, <2>1, <2>2, <3>1, PositionsPost
  <2>4. Requests(h) \subseteq Nat \ {0} /\ Releases(h) \subseteq Nat \ {0}
    BY <1>0 DEF Requests, Releases, TypeOK
  <2>5. Event(h, {}, FALSE)  BY <2>1, NoEvent
  <2> QED  BY <2>3, <2>4, <2>5, StillEvent
<1>6. ASSUME NEW n \in Nifs, FrameworkOpensBadApn(n)
      PROVE  \A h \in Handles : HandleEvent(h)
  BY <1>2, <1>6, NoEvent DEF FrameworkOpensBadApn
<1>7. ASSUME NEW n \in Nifs, ReportBadApn(n)
      PROVE  \A h \in Handles : HandleEvent(h)
  BY <1>0, <1>2, <1>7, EndEvent DEF ReportBadApn
<1>8. CASE UNCHANGED vars
  BY <1>2, <1>8, NoEvent DEF vars, smVars
<1> QED
  BY <1>1, <1>3, <1>4, <1>5, <1>6, <1>7, <1>8 DEF Next, Framework

LEMMA StepTracked ==
  ASSUME FreedReads = {}, SMInv, TrackedInv, [Next]_vars
  PROVE  TrackedInv'
<1> SUFFICES ASSUME NEW h \in Handles, modem'[h] # "idle"
             PROVE  Requests(h)' # {} \/ \E n \in Nifs : h \in subs'[n]
  BY DEF TrackedInv
<1>1. CASE ModemRestarts  BY <1>1 DEF ModemRestarts
<1>2. CASE HandleEvent(h)
  BY <1>2, TrackedEvent DEF HandleEvent, TrackedInv
<1>3. CASE ModemPosts
  <2>1. PICK x \in Handles, m \in Msg :
          /\ Post(m) /\ UNCHANGED smVars
          /\ \/ RequestOf(m, x) /\ modem' = [modem EXCEPT ![x] = "opening"]
             \/ modem[x] # "idle" /\ modem' = [modem EXCEPT ![x] = "closing"]
    BY <1>3 DEF ModemPosts
  <2>2. /\ Requests(h) \subseteq Requests(h)'
        /\ RequestOf(m, h) => Requests(h)' # {}
    BY <2>1, PositionsPost DEF SMInv
  <2>3. modem[h] # "idle" \/ RequestOf(m, h)
    BY <2>1 DEF SMInv, TypeOK
  <2> QED  BY <2>1, <2>2, <2>3 DEF TrackedInv, smVars
<1> QED  BY <1>1, <1>2, <1>3, StepKinds

LEMMA StepLife ==
  ASSUME ~Restarts, SMInv, LifeInv, [Next]_vars
  PROVE  LifeInv'
<1>0. smInv /\ smInv' /\ TypeOK  BY StepSM DEF SMInv, TypeOK, smInv
<1> SUFFICES ASSUME NEW h \in Handles PROVE Life(h)'
  BY DEF LifeInv
<1>1. Life(h)  BY DEF LifeInv
<1>2. CASE HandleEvent(h)
  BY <1>0, <1>1, <1>2, LifeEvent DEF HandleEvent
<1>3. CASE ModemPosts
  <2>1. PICK x \in Handles, m \in Msg :
          /\ Post(m) /\ UNCHANGED smVars
          /\ \/ /\ RequestOf(m, x) /\ modem[x] = "idle"
                /\ modem' = [modem EXCEPT ![x] = "opening"]
             \/ /\ ReleaseOf(m, x) /\ modem[x] \in {"opening", "open"}
                /\ modem' = [modem EXCEPT ![x] = "closing"]
    BY <1>3 DEF ModemPosts
  <2>2. /\ Len(queue) \in Nat
        /\ Requests(h)' = Requests(h) \cup (IF RequestOf(m, h) THEN {Len(queue) + 1} ELSE {})
        /\ Releases(h)' = Releases(h) \cup (IF ReleaseOf(m, h) THEN {Len(queue) + 1} ELSE {})
    BY <1>0, <2>1, PositionsPost
  <2>3. CASE h # x
    <3>1. ~ RequestOf(m, h) /\ ~ ReleaseOf(m, h) /\ modem'[h] = modem[h]
      BY <1>0, <2>1, <2>3 DEF RequestOf, ReleaseOf, TypeOK
    <3>2. Requests(h)' = Requests(h) /\ Releases(h)' = Releases(h)  BY <2>2, <3>1
    <3> QED  BY <1>1, <2>1, <3>1, <3>2 DEF Life, smVars
  <2>4. CASE h = x /\ RequestOf(m, h)
    <3>1. /\ modem[h] = "idle" /\ modem'[h] = "opening"
          /\ Requests(h)' = Requests(h) \cup {Len(queue) + 1} /\ Releases(h)' = Releases(h)
      BY <1>0, <2>1, <2>2, <2>4 DEF RequestOf, ReleaseOf, TypeOK
    <3>2. Requests(h) = {} /\ \A n \in Nifs : h \notin subs[n] /\ h \notin inactive[n]
      BY <1>1, <3>1 DEF Life
    <3>3. \A j \in Releases(h) : ~ (Len(queue) + 1 < j)  BY <2>2 DEF Releases
    <3> QED  BY <2>1, <3>1, <3>2, <3>3 DEF Life, smVars
  <2>5. CASE h = x /\ ReleaseOf(m, h)
    <3>1. /\ modem[h] # "idle" /\ modem'[h] = "closing" /\ Requests(h)' = Requests(h)
      BY <1>0, <2>1, <2>2, <2>5 DEF RequestOf, ReleaseOf, TypeOK
    <3> QED  BY <1>1, <2>1, <3>1 DEF Life, smVars
  <2> QED  BY <2>1, <2>3, <2>4, <2>5
<1> QED  BY <1>2, <1>3, StepKinds DEF ModemRestarts

LEMMA StepNoInactive ==
  ASSUME SMInv, NoInactive, [Next]_vars
  PROVE  NoInactive'
<1> SUFFICES ASSUME WaitsForClose = {}, NEW n \in Nifs PROVE inactive'[n] = {}
  BY DEF NoInactive
<1>0. smInv /\ inactive[n] = {} /\ inactive \in [Nifs -> SUBSET Handles]
  BY DEF SMInv, TypeOK, smInv, NoInactive
<1>1. ASSUME NEW k \in Nifs, Drop(k, inactive[k]) \/ Drop(k, subs[k]) PROVE inactive'[n] = {}
  BY <1>0, <1>1 DEF Drop
<1>2. ASSUME NEW m \in Msg, Dispatch(m) PROVE inactive'[n] = {}
  <2>1. ASSUME NEW k \in Nifs, NEW x \in Handles, Subscribe(k, x) PROVE inactive'[n] = {}
    BY <1>0, <2>1 DEF Subscribe, AddSubscriber
  <2>2. ASSUME NEW k \in Nifs, NEW x \in Handles, Unsubscribe(k, x) PROVE inactive'[n] = {}
    BY <1>0, <2>2 DEF Unsubscribe, NotifyAndDelete, Drop, smVars
  <2>3. ASSUME NEW k \in Nifs, Granted(k) \/ Denied(k) \/ Released(k) PROVE inactive'[n] = {}
    BY <1>0, <1>1, <2>3 DEF Granted, Denied, Released, Reopen, smVars
  <2>4. m.kind = "request" => m.nif \in Nifs /\ m.handle \in Handles  BY DEF Msg
  <2>5. m.kind = "release" => m.handle \in Handles  BY DEF Msg
  <2>6. m.kind \in {"open", "failed", "closed"} => m.nif \in Nifs  BY DEF Msg
  <2>7. m.kind \in {"request", "release", "open", "failed", "closed"}  BY DEF Msg
  <2>8. UNCHANGED smVars => inactive'[n] = {}  BY <1>0 DEF smVars
  <2>9. CASE m.kind = "request"
    BY <1>2, <2>1, <2>4, <2>8, <2>9 DEF Dispatch, RequestATL
  <2>10. CASE m.kind = "release"
    BY <1>2, <2>2, <2>5, <2>8, <2>10 DEF Dispatch, ReleaseATL, Nifs, smVars
  <2>11. CASE m.kind \in {"open", "failed", "closed"}
    BY <1>2, <2>3, <2>6, <2>11 DEF Dispatch
  <2> QED  BY <2>7, <2>9, <2>10, <2>11
<1>3. CASE ProcessMsg
  BY <1>2, <1>3, QueueType DEF ProcessMsg, SMInv
<1>4. ASSUME NEW k \in Nifs, ReportBadApn(k) PROVE inactive'[n] = {}
  BY <1>0, <1>1, <1>4 DEF ReportBadApn, Released, Reopen, smVars
<1>5. CASE inactive' = inactive  BY <1>0, <1>5
<1> QED
  BY <1>3, <1>4, <1>5 DEF Next, Framework, ModemRestarts, ModemOpens, ModemCloses,
     FrameworkOpens, FrameworkFails, FrameworkCloses, FrameworkOpensBadApn,
     ConnectionLost, smVars, vars

LEMMA StepBacked ==
  ASSUME FreedReads = {}, WaitsForClose = {} \/ ~Restarts, SMInv, NoInactive,
         ~Restarts => LifeInv, BackedInv, [Next]_vars
  PROVE  BackedInv'
<1>0. smInv /\ TypeOK /\ NoInactive' /\ (~Restarts => LifeInv')
  BY StepNoInactive, StepLife DEF SMInv, TypeOK, smInv
<1> SUFFICES ASSUME NEW h \in Handles, modem'[h] = "open"
             PROVE  \E n \in Nifs : h \in subs'[n] \ inactive'[n] /\ state'[n] = "ACQUIRED"
  BY DEF BackedInv
<1>1. CASE ModemRestarts  BY <1>1 DEF ModemRestarts
<1>2. CASE ModemPosts
  <2>1. modem[h] = "open" /\ UNCHANGED smVars
    BY <1>0, <1>2 DEF ModemPosts, TypeOK
  <2> QED  BY <2>1 DEF BackedInv, smVars
<1>3. CASE HandleEvent(h)
  <2>1. PICK req \in SUBSET Nifs, rel \in BOOLEAN, d \in {0, 1} :
          Event(h, req, rel) /\ (rel => d \in Releases(h))
    BY <1>3 DEF HandleEvent
  <2>2. rel /\ h \in WaitsForClose => modem[h] # "open"
    <3> SUFFICES ASSUME rel, h \in WaitsForClose, modem[h] = "open" PROVE FALSE
      OBVIOUS
    <3>1. Releases(h) # {} /\ Life(h)  BY <2>1 DEF LifeInv
    <3>2. PICK n \in Nifs : h \in subs[n]  BY DEF BackedInv
    <3> QED  BY <3>1, <3>2 DEF Life
  <2>3. \A n \in Nifs : h \in inactive'[n] => modem'[h] # "open"
    BY <1>0 DEF NoInactive, LifeInv, Life
  <2> QED  BY <1>0, <2>1, <2>2, <2>3, BackedEvent DEF BackedInv
<1> QED  BY <1>1, <1>2, <1>3, StepKinds

LEMMA InitHandles == Init => TrackedInv /\ LifeInv /\ NoInactive /\ BackedInv
BY DEF Init, TrackedInv, LifeInv, Life, NoInactive, BackedInv, Requests, Releases

(* Every call the modem asked for or holds open is on a list or on its way,  *)
(* also across restarts and bad APNs; only the comparison with a deleted      *)
(* subscriber (Agps.cpp:421) can lose one.                                    *)
THEOREM HandlesAreTracked == FreedReads = {} => (Spec => []EveryHandleTracked)
<1> SUFFICES ASSUME FreedReads = {} PROVE Spec => []EveryHandleTracked
  OBVIOUS
<1>1. Init => SMInv /\ TrackedInv  BY InitSM, InitHandles
<1>2. SMInv /\ TrackedInv /\ [Next]_vars => SMInv' /\ TrackedInv'
  BY StepSM, StepTracked
<1>3. TrackedInv => EveryHandleTracked
  BY DEF TrackedInv, EveryHandleTracked, Requests, RequestOf
<1> QED  BY <1>1, <1>2, <1>3, PTL DEF Spec

(* As long as the modem does not restart, no list holds a call it has given  *)
(* up, and none is on the lists of both interfaces, even if deletions hit the *)
(* wrong subscriber.                                                          *)
THEOREM SubscribersAreKnown == ~Restarts => (Spec => []SubscribersKnownToModem)
<1> SUFFICES ASSUME ~Restarts PROVE Spec => []SubscribersKnownToModem
  OBVIOUS
<1>1. Init => SMInv /\ LifeInv  BY InitSM, InitHandles
<1>2. SMInv /\ LifeInv /\ [Next]_vars => SMInv' /\ LifeInv'
  BY StepSM, StepLife
<1>3. SMInv /\ LifeInv => SubscribersKnownToModem
  <2> SUFFICES ASSUME SMInv, LifeInv PROVE SubscribersKnownToModem
    OBVIOUS
  <2>1. \A n \in Nifs : subs[n] \subseteq Handles  BY DEF SMInv, TypeOK
  <2>2. \A h \in Handles : Life(h)  BY DEF LifeInv
  <2> QED  BY <2>1, <2>2 DEF SubscribersKnownToModem, Life, Nifs
<1> QED  BY <1>1, <1>2, <1>3, PTL DEF Spec

(* A call the modem believes open has a connection, if the modem does not    *)
(* restart or no subscriber waits for the close: a restart in between makes   *)
(* a retired subscriber look like a new one.                                  *)
THEOREM OpenCallsAreBacked ==
  FreedReads = {} /\ (WaitsForClose = {} \/ ~Restarts) => (Spec => []OpenIsBacked)
<1> SUFFICES ASSUME FreedReads = {}, WaitsForClose = {} \/ ~Restarts
             PROVE  Spec => []OpenIsBacked
  OBVIOUS
<1> DEFINE Inv == SMInv /\ NoInactive /\ (~Restarts => LifeInv) /\ BackedInv
<1>1. Init => Inv  BY InitSM, InitHandles
<1>2. Inv /\ [Next]_vars => Inv'
  <2> SUFFICES ASSUME Inv, [Next]_vars PROVE Inv'
    OBVIOUS
  <2>1. SMInv' /\ NoInactive'  BY StepSM, StepNoInactive
  <2>2. ~Restarts => LifeInv'  BY StepLife
  <2>3. BackedInv'  BY StepBacked
  <2> QED  BY <2>1, <2>2, <2>3
<1>3. Inv => OpenIsBacked  BY DEF BackedInv, OpenIsBacked
<1> HIDE DEF Inv
<1> QED  BY <1>1, <1>2, <1>3, PTL DEF Spec
=============================================================================
