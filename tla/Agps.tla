-------------------------------- MODULE Agps --------------------------------
(* Data calls for assisted GPS, gps/gnss/Agps.cpp: AgpsManager and one        *)
(* AgpsStateMachine per network interface (NIF), run by the MsgTask thread of *)
(* GnssAdapter.  The modem opens and closes data calls by connection handle   *)
(* (QMI thread), the framework brings the connection up and down and answers  *)
(* when it likes; both reach the state machines through the adapter's queue.  *)
EXTENDS Integers, Sequences

CONSTANTS
  Handles,        \* connection handles of the modem
  Created,        \* the NIFs createAgpsStateMachines made
  WaitsForClose,  \* handles whose subscriber has mWaitForCloseComplete
  FreedReads,     \* handles that the memory of a deleted subscriber may show
  Restarts,       \* the modem may restart
  BadApns,        \* the framework may report an open connection with a bad APN
  MaxInFlight     \* bound: messages in flight when the environment adds one

Nifs == {"AGNSS", "INTERNET"}

ASSUME AgpsAssumption ==
  /\ Created \subseteq Nifs /\ WaitsForClose \subseteq Handles
  /\ FreedReads \subseteq Handles
  /\ Restarts \in BOOLEAN /\ BadApns \in BOOLEAN /\ MaxInFlight \in Nat

VARIABLES
  state,     \* mState of each NIF
  subs,      \* mSubscriberList of each NIF, as a set ...
  behind,    \* ... and its order: <<a, b>> when b was added after a
  inactive,  \* the subscribers with mIsInactive
  queue,     \* the adapter's message queue
  fwIn,      \* requests sent to the framework and not yet served
  conn,      \* is the framework's connection up?
  badApn,    \* the framework is about to report it open with a bad APN
  modem      \* each handle as the modem sees it

smVars == <<state, subs, behind, inactive>>
vars == <<state, subs, behind, inactive, queue, fwIn, conn, badApn, modem>>

Msg == [kind : {"request"}, nif : Nifs, handle : Handles]
       \cup [kind : {"release"}, handle : Handles]
       \cup [kind : {"open", "failed", "closed"}, nif : Nifs]

Init ==
  /\ state = [n \in Nifs |-> "RELEASED"]
  /\ subs = [n \in Nifs |-> {}] /\ behind = [n \in Nifs |-> {}]
  /\ inactive = [n \in Nifs |-> {}]
  /\ queue = <<>> /\ fwIn = [n \in Nifs |-> <<>>]
  /\ conn = [n \in Nifs |-> FALSE] /\ badApn = [n \in Nifs |-> FALSE]
  /\ modem = [h \in Handles |-> "idle"]

-----------------------------------------------------------------------------
(* What the state machine tells the outside. *)

Goto(n, s) == state' = [state EXCEPT ![n] = s]

(* requestOrReleaseDataConn, the framework status callback. *)
Tell(n, what) == fwIn' = [fwIn EXCEPT ![n] = Append(@, what)]

(* mAtlOpenStatusCb and mAtlCloseStatusCb of the modem, for a set of handles.*)
OpenStatus(hs, ok) ==
  modem' = [h \in Handles |->
              IF h \notin hs THEN modem[h]
              ELSE IF ~ok THEN "idle"
              ELSE IF modem[h] = "opening" THEN "open" ELSE modem[h]]
CloseStatus(hs) ==
  modem' = [h \in Handles |-> IF h \in hs THEN "idle" ELSE modem[h]]

-----------------------------------------------------------------------------
(* The subscriber list. *)

AddSubscriber(n, h) ==
  IF h \in subs[n] THEN UNCHANGED <<subs, behind, inactive>>
  ELSE /\ subs' = [subs EXCEPT ![n] = @ \cup {h}]
       /\ behind' = [behind EXCEPT ![n] = (@ \ ({h} \X Handles))
                                            \cup (subs[n] \X {h})]
       /\ inactive' = [inactive EXCEPT ![n] = @ \ {h}]

Drop(n, hs) ==
  /\ subs' = [subs EXCEPT ![n] = @ \ hs]
  /\ inactive' = [inactive EXCEPT ![n] = @ \ hs]
  /\ UNCHANGED behind

(* deleteSubscriber is passed the list's own element: after deleting it, the *)
(* loop goes on comparing the elements behind it with the freed object, whose *)
(* handle may by then read as any of FreedReads.                              *)
Deleted(n, h) ==
  {{h}} \cup {{h, v} : v \in {w \in FreedReads : <<h, w>> \in behind[n]}}

ActiveAfter(n, hs) == (subs[n] \ hs) \ inactive[n]

-----------------------------------------------------------------------------
(* processAgpsEvent, one operator per event. *)

Subscribe_NoRequest(n, h) ==
  /\ AddSubscriber(n, h) /\ UNCHANGED fwIn
  /\ CASE state[n] = "RELEASED" -> Goto(n, "PENDING") /\ UNCHANGED modem
       [] state[n] = "ACQUIRED" -> OpenStatus({h}, TRUE) /\ UNCHANGED state
       [] OTHER -> UNCHANGED <<state, modem>>
Subscribe(n, h) ==
  /\ AddSubscriber(n, h)
  /\ CASE state[n] = "RELEASED" ->
            Goto(n, "PENDING") /\ Tell(n, "REQUEST") /\ UNCHANGED modem
       [] state[n] = "ACQUIRED" ->
            OpenStatus({h}, TRUE) /\ UNCHANGED <<state, fwIn>>
       [] OTHER -> UNCHANGED <<state, fwIn, modem>>

(* The subscriber waits for the close, and is only marked.                   *)
Retire(n, h) ==
  /\ inactive' = [inactive EXCEPT ![n] = @ \cup {h}]
  /\ UNCHANGED <<subs, behind, modem>>
  /\ IF subs[n] \ (inactive[n] \cup {h}) = {} /\ state[n] # "RELEASING"
     THEN Goto(n, "RELEASING") /\ Tell(n, "RELEASE")
     ELSE UNCHANGED <<state, fwIn>>

(* When no subscriber is left, or none active, the connection is given back. *)
AfterRemoval(n, gone) ==
  CASE subs[n] \ gone = {} ->
         /\ Goto(n, "RELEASED")
         /\ IF state[n] = "RELEASING" THEN UNCHANGED fwIn ELSE Tell(n, "RELEASE")
    [] subs[n] \ gone # {} /\ ActiveAfter(n, gone) = {}
         /\ state[n] # "RELEASING" -> Goto(n, "RELEASING") /\ Tell(n, "RELEASE")
    [] OTHER -> UNCHANGED <<state, fwIn>>

NotifyAndDelete(n, h, gone) == CloseStatus({h}) /\ Drop(n, gone)

Unsubscribe(n, h) ==
  CASE state[n] = "RELEASED" -> CloseStatus({h}) /\ UNCHANGED <<smVars, fwIn>>
    [] state[n] # "RELEASED" /\ h \in WaitsForClose -> Retire(n, h)
    [] OTHER -> \E gone \in Deleted(n, h) :
                  NotifyAndDelete(n, h, gone) /\ AfterRemoval(n, gone)

Granted_Silent(n) ==
  IF state[n] = "PENDING"
  THEN Goto(n, "ACQUIRED") /\ UNCHANGED <<subs, behind, inactive, fwIn, modem>>
  ELSE UNCHANGED <<smVars, fwIn, modem>>
Granted(n) ==
  IF state[n] = "PENDING"
  THEN /\ Goto(n, "ACQUIRED") /\ OpenStatus(subs[n] \ inactive[n], TRUE)
       /\ UNCHANGED <<subs, behind, inactive, fwIn>>
  ELSE UNCHANGED <<smVars, fwIn, modem>>

(* RELEASING ended: the inactive subscribers go; the active ones, who came   *)
(* while the connection was being closed, want it opened again.              *)
Reopen(n) ==
  /\ Drop(n, inactive[n]) /\ CloseStatus(subs[n] \cap inactive[n])
  /\ IF ActiveAfter(n, {}) # {}
     THEN Goto(n, "PENDING") /\ Tell(n, "REQUEST")
     ELSE Goto(n, "RELEASED") /\ UNCHANGED fwIn

Released_IgnoredWhenAcquired(n) ==
  IF state[n] = "RELEASING" THEN Reopen(n) ELSE UNCHANGED <<smVars, fwIn, modem>>
Released_Silent(n) ==
  CASE state[n] = "ACQUIRED" ->
         Goto(n, "RELEASED") /\ Drop(n, subs[n]) /\ UNCHANGED <<fwIn, modem>>
    [] state[n] = "RELEASING" -> Reopen(n)
    [] OTHER -> UNCHANGED <<smVars, fwIn, modem>>
Released(n) ==
  CASE state[n] = "ACQUIRED" ->
         /\ Goto(n, "RELEASED") /\ Drop(n, subs[n]) /\ CloseStatus(subs[n])
         /\ UNCHANGED fwIn
    [] state[n] = "RELEASING" -> Reopen(n)
    [] OTHER -> UNCHANGED <<smVars, fwIn, modem>>

Denied_Keeps(n) ==
  CASE state[n] = "PENDING" ->
         /\ Goto(n, "RELEASED") /\ OpenStatus(subs[n], FALSE)
         /\ UNCHANGED <<subs, behind, inactive, fwIn>>
    [] state[n] = "RELEASING" -> Reopen(n)
    [] OTHER -> UNCHANGED <<smVars, fwIn, modem>>
Denied_Silent(n) ==
  CASE state[n] = "PENDING" ->
         Goto(n, "RELEASED") /\ Drop(n, subs[n]) /\ UNCHANGED <<fwIn, modem>>
    [] state[n] = "RELEASING" -> Reopen(n)
    [] OTHER -> UNCHANGED <<smVars, fwIn, modem>>
Denied(n) ==
  CASE state[n] = "PENDING" ->
         /\ Goto(n, "RELEASED") /\ Drop(n, subs[n]) /\ OpenStatus(subs[n], FALSE)
         /\ UNCHANGED fwIn
    [] state[n] = "RELEASING" -> Reopen(n)
    [] OTHER -> UNCHANGED <<smVars, fwIn, modem>>

-----------------------------------------------------------------------------
(* The messages of the adapter's queue, each processed whole. *)

RequestATL(n, h) ==
  IF n \in Created THEN Subscribe(n, h)
  ELSE OpenStatus({h}, FALSE) /\ UNCHANGED <<smVars, fwIn>>

(* releaseATL looks the handle up, in the AGNSS machine first.               *)
ReleaseATL(h) ==
  IF h \in subs["AGNSS"] THEN Unsubscribe("AGNSS", h)
  ELSE IF h \in subs["INTERNET"] THEN Unsubscribe("INTERNET", h)
  ELSE UNCHANGED <<smVars, fwIn, modem>>

Dispatch(m) ==
  CASE m.kind = "request" -> RequestATL(m.nif, m.handle)
    [] m.kind = "release" -> ReleaseATL(m.handle)
    [] m.kind = "open"    -> Granted(m.nif)
    [] m.kind = "failed"  -> Denied(m.nif)
    [] m.kind = "closed"  -> Released(m.nif)

ProcessMsg ==
  /\ queue # <<>> /\ Dispatch(Head(queue)) /\ queue' = Tail(queue)
  /\ UNCHANGED <<conn, badApn>>

-----------------------------------------------------------------------------
(* The modem, GnssAdapter::requestATL and releaseATL on its QMI thread. *)

InFlight == Len(queue) + Len(fwIn["AGNSS"]) + Len(fwIn["INTERNET"])
Room == InFlight < MaxInFlight

Post(m) == queue' = Append(queue, m)

ModemOpens(h, n) ==
  /\ Room /\ modem[h] = "idle"
  /\ modem' = [modem EXCEPT ![h] = "opening"]
  /\ Post([kind |-> "request", nif |-> n, handle |-> h])
  /\ UNCHANGED <<smVars, fwIn, conn, badApn>>

ModemCloses(h) ==
  /\ Room /\ modem[h] \in {"opening", "open"}
  /\ modem' = [modem EXCEPT ![h] = "closing"]
  /\ Post([kind |-> "release", handle |-> h])
  /\ UNCHANGED <<smVars, fwIn, conn, badApn>>

(* A modem restart forgets every handle; nothing calls handleModemSSR.       *)
ModemRestarts ==
  /\ Restarts /\ modem' = [h \in Handles |-> "idle"]
  /\ UNCHANGED <<smVars, queue, fwIn, conn, badApn>>

-----------------------------------------------------------------------------
(* The framework (external): it serves a NIF's requests in order and answers *)
(* each one through dataConnOpen/Failed/ClosedCommand.                       *)

Serve(n, what) == fwIn[n] # <<>> /\ Head(fwIn[n]) = what
                  /\ fwIn' = [fwIn EXCEPT ![n] = Tail(@)]
Answer(n, kind) == Post([kind |-> kind, nif |-> n])

FrameworkOpens(n) ==
  /\ Serve(n, "REQUEST") /\ Answer(n, "open")
  /\ conn' = [conn EXCEPT ![n] = TRUE] /\ UNCHANGED <<smVars, modem, badApn>>

FrameworkFails(n) ==
  /\ Serve(n, "REQUEST") /\ ~conn[n] /\ Answer(n, "failed")
  /\ UNCHANGED <<smVars, modem, conn, badApn>>

FrameworkOpensBadApn(n) ==
  /\ BadApns /\ ~badApn[n] /\ Serve(n, "REQUEST")
  /\ conn' = [conn EXCEPT ![n] = TRUE] /\ badApn' = [badApn EXCEPT ![n] = TRUE]
  /\ UNCHANGED <<smVars, modem, queue>>

(* dataConnOpenCommand with an unusable APN name reports the connection      *)
(* closed at once, on the caller's thread.                                   *)
ReportBadApn(n) ==
  /\ badApn[n] /\ badApn' = [badApn EXCEPT ![n] = FALSE]
  /\ Released(n) /\ UNCHANGED <<queue, conn>>

FrameworkCloses(n) ==
  /\ Serve(n, "RELEASE") /\ Answer(n, "closed")
  /\ conn' = [conn EXCEPT ![n] = FALSE] /\ UNCHANGED <<smVars, modem, badApn>>

(* The network goes away on its own. *)
ConnectionLost(n) ==
  /\ Room /\ conn[n] /\ conn' = [conn EXCEPT ![n] = FALSE]
  /\ Answer(n, "closed") /\ UNCHANGED <<smVars, fwIn, modem, badApn>>

Framework(n) ==
  FrameworkOpens(n) \/ FrameworkFails(n) \/ FrameworkCloses(n)

Next ==
  \/ ProcessMsg \/ ModemRestarts
  \/ \E h \in Handles : ModemCloses(h) \/ \E n \in Nifs : ModemOpens(h, n)
  \/ \E n \in Nifs : \/ Framework(n) \/ ConnectionLost(n)
                      \/ FrameworkOpensBadApn(n) \/ ReportBadApn(n)

Spec == Init /\ [][Next]_vars

(* The message thread runs and the framework answers; the modem need not act.*)
Fairness == WF_vars(ProcessMsg) /\ \A n \in Nifs : WF_vars(Framework(n))
FairSpec == Spec /\ Fairness

-----------------------------------------------------------------------------
States == {"RELEASED", "PENDING", "ACQUIRED", "RELEASING"}

TypeOK ==
  /\ state \in [Nifs -> States] /\ subs \in [Nifs -> SUBSET Handles]
  /\ behind \in [Nifs -> SUBSET (Handles \X Handles)]
  /\ inactive \in [Nifs -> SUBSET Handles]
  /\ \A n \in Nifs : inactive[n] \subseteq subs[n]
  /\ queue \in Seq(Msg) /\ fwIn \in [Nifs -> Seq({"REQUEST", "RELEASE"})]
  /\ conn \in [Nifs -> BOOLEAN] /\ badApn \in [Nifs -> BOOLEAN]
  /\ modem \in [Handles -> {"idle", "opening", "open", "closing"}]

Queued(m) == \E i \in 1..Len(queue) : queue[i] = m

(* "Subscriber list should be empty if we are in released state"             *)
(* (Agps.cpp, processAgpsEventReleased): no order of modem requests, late     *)
(* answers and restarts leaves a subscriber behind in a released machine.     *)
ReleasedIsEmpty == \A n \in Nifs : state[n] = "RELEASED" => subs[n] = {}

(* A machine that is PENDING has a request the framework has still to serve, *)
(* or an answer of it on its way: its subscribers are not forgotten.  (Not so *)
(* with unusable APNs: such a connection is reported closed, which a PENDING  *)
(* machine ignores.)                                                          *)
PendingWillBeAnswered ==
  \A n \in Nifs : state[n] = "PENDING" =>
    \/ badApn[n]
    \/ \E i \in 1..Len(fwIn[n]) : fwIn[n][i] = "REQUEST"
    \/ Queued([kind |-> "open", nif |-> n])
    \/ Queued([kind |-> "failed", nif |-> n])

(* ACQUIRED, in which new subscribers are granted at once ("We already have  *)
(* the data connection setup"), means the connection is up, or that the news  *)
(* of its end is already in the queue: even when the answer that led there    *)
(* belonged to an earlier, abandoned request.                                 *)
AcquiredMeansConnected ==
  \A n \in Nifs : state[n] = "ACQUIRED" =>
    conn[n] \/ Queued([kind |-> "closed", nif |-> n])

(* A call the modem holds open or has asked for is on a list or on its way:  *)
(* it will hear of what becomes of the connection.                            *)
EveryHandleTracked ==
  \A h \in Handles : modem[h] # "idle" =>
    \/ \E n \in Nifs : h \in subs[n]
    \/ \E i \in 1..Len(queue) : queue[i].kind \in {"request", "release"}
                                  /\ queue[i].handle = h

(* A call the modem believes open is backed by an acquired connection.       *)
OpenIsBacked ==
  \A h \in Handles : modem[h] = "open" =>
    \E n \in Nifs : h \in subs[n] /\ state[n] = "ACQUIRED"

(* No list holds a call the modem no longer knows ("Drop all subscribers, in *)
(* case of Modem SSR", Agps.h), and none is on the lists of both interfaces.  *)
SubscribersKnownToModem ==
  /\ \A n \in Nifs : \A h \in subs[n] : modem[h] # "idle"
  /\ subs["AGNSS"] \cap subs["INTERNET"] = {}

(* "If no subscribers in list, release data connection": once nothing is in  *)
(* flight, a connection nobody subscribes to is down.                         *)
QuiescentMeansReleased ==
  \A n \in Nifs : InFlight = 0 /\ subs[n] = {} => ~conn[n]

(* Every open request is answered, in whatever order answers and closes run. *)
OpeningIsAnswered ==
  \A h \in Handles : modem[h] = "opening" ~> modem[h] # "opening"
=============================================================================
