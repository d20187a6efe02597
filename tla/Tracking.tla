------------------------------- MODULE Tracking -------------------------------
(* Tracking sessions: the clients' side (LocationAPIClientBase), the GNSS      *)
(* adapter that multiplexes every time-based session on the one session the    *)
(* engine has (GnssAdapter), and the engine behind LocApiBase, which is not in *)
(* the repository.  Two threads: the MsgTask runs the adapter's commands and   *)
(* the engine's answers in the order they were posted (msgQ), the LocApi's     *)
(* task sends the engine's requests in theirs (apiQ).                          *)
EXTENDS Integers, Sequences, FiniteSets, FiniteSetsExt, SequencesExt, Functions
CONSTANTS Clients, NoClient,
          Options,     \* TrackingOptions: [interval, power, distance]
          Environments, \* what may happen besides calls, one of these sets
          MaxCalls, MaxRestarts \* bounds
VARIABLES client,      \* LocationAPIClientBase: mTracking and the tracking RequestQueue; of
                       \* its calls, opts is what it asked for and dropped a count of those
                       \* the adapter has left without an answer (both for the properties)
          time, dist,  \* mTimeBasedTrackingSessions, mDistanceBasedTrackingSessions
          known,       \* mIsEngineCapabilitiesKnown
          pending,     \* mPendingMsgs
          msgQ, apiQ,  \* the queues of the two threads
          engine,      \* what the engine runs
          bounds,      \* session ids, calls and restarts so far
          env          \* the environment of this behaviour
vars == <<client, time, dist, known, pending, msgQ, apiQ, engine, bounds, env>>
adapter == <<time, dist, known, pending>>

(* restart: the engine restarts.  refusal: it refuses requests, or to open.    *)
(* early: calls come before it is up.  distance: sessions may have a distance. *)
(* basic: the engine has no distance-based sessions.  updates: sessions with a *)
(* distance may be updated and the kinds exchanged.  rejection: calls without  *)
(* the callbacks or parameters they need.  config: a configuration call        *)
(* suspends and restarts the sessions.  patient: a client waits for the answer *)
(* to one call before it makes the next.                                       *)
EnvironmentKinds == {"restart", "refusal", "early", "distance", "basic", "updates",
                     "rejection", "config", "patient"}
ASSUME TrackingAssumption ==
  /\ Options \subseteq [interval : Nat \ {0}, power : 1 .. 5, distance : BOOLEAN]
  /\ Environments \subseteq SUBSET EnvironmentKinds /\ NoClient \notin Clients
  /\ MaxCalls \in Nat /\ MaxRestarts \in Nat

NoOptions == [interval |-> 0, power |-> 0, distance |-> FALSE]
NoFix == [interval |-> 0, power |-> 0]
Off == [fix |-> NoFix, dist |-> {}]
Session(c, o) == [client |-> c, opts |-> o]

(* A message of the MsgTask: a command, or the answer to a request of the      *)
(* engine (what the LocApiResponse's callback does, with its captures).        *)
Msg(what, c, id, o) == [what |-> what, client |-> c, id |-> id, opts |-> o, err |-> FALSE]
Silent == Msg("silent", NoClient, 0, NoOptions)
Request(op, id, o, then) == [op |-> op, id |-> id, opts |-> o, then |-> then]
Ssr == Request("ssr", 0, NoOptions, Silent)

Save(sessions, id, s) == [i \in DOMAIN sessions \cup {id} |-> IF i = id THEN s ELSE sessions[i]]
Erase(sessions, ids) == Restrict(sessions, DOMAIN sessions \ ids)

(******************************** multiplexing *******************************)
(* The session with the smallest interval, the first of them in the map's      *)
(* order, and the strongest (lowest) power mode.                               *)
Smallest(sessions) ==
  LET least == {i \in DOMAIN sessions : \A j \in DOMAIN sessions :
                  sessions[i].opts.interval <= sessions[j].opts.interval}
  IN  sessions[Min(least)].opts
Strongest(sessions) == Min({sessions[i].opts.power : i \in DOMAIN sessions})

(* What a session that starts or changes makes of the others' options; none if *)
(* it asks for no more than they do.  The power mode is the one of the session *)
(* with the smallest interval unless the new one is stronger than all.         *)
Combined(others, o) ==
  LET m == Smallest(others)
      more == o.interval < m.interval
      stronger == o.power < Strongest(others)
  IN  IF more \/ stronger
      THEN {[m EXCEPT !.interval = IF more THEN o.interval ELSE @,
                      !.power = IF stronger THEN o.power ELSE @]}
      ELSE {}

(* The fix is one request.  The case that an engine plugin needs positions at  *)
(* a fixed rate (mNHzNeeded, checkAndSetSPEToRunforNHz) is left out: there is  *)
(* no such plugin in the repository.                                           *)
StartFix(o, then) == <<Request("start", 0, o, then)>>
StartFixes(os, then) == IF os = {} THEN <<>> ELSE StartFix(CHOOSE o \in os : TRUE, then)

StartMultiplex(sessions, c, id, o) ==
  StartFixes(IF sessions = <<>> THEN {o} ELSE Combined(sessions, o), Msg("started", c, id, o))

UpdateMultiplex(sessions, c, id, o) ==
  LET old == sessions[id].opts
      others == Erase(sessions, {id})
  IN  IF old.interval = o.interval /\ old.power = o.power THEN <<>>
      ELSE StartFixes(IF others = <<>> THEN {o} ELSE Combined(others, o), Msg("updated", c, id, old))

(* Drops the session's demand: the fix is stopped with the last session, or    *)
(* started anew when no other asked as much.                                   *)
StopMultiplex_ErasedFirst(sessions, c, id) ==
  LET others == Erase(sessions, {id})
      old == sessions[id].opts
      m == Smallest(others)
  IN  IF Cardinality(DOMAIN others) <= 1 THEN <<Request("stop", 0, NoOptions, Msg("stopped", c, id, NoOptions))>>
      ELSE IF old.interval < m.interval \/ old.power < Strongest(others)
           THEN StartFix([m EXCEPT !.power = Strongest(others)], Msg("started", c, id, NoOptions))
           ELSE <<>>
StopMultiplex(sessions, c, id) ==
  LET others == Erase(sessions, {id})
      old == sessions[id].opts
      m == Smallest(others)
  IN  IF Cardinality(DOMAIN sessions) = 1 THEN <<Request("stop", 0, NoOptions, Msg("stopped", c, id, NoOptions))>>
      ELSE IF old.interval < m.interval \/ old.power < Strongest(others)
           THEN StartFix([m EXCEPT !.power = Strongest(others)], Msg("started", c, id, NoOptions))
           ELSE <<>>

RestartTimeBased(sessions) ==
  IF sessions = <<>> THEN <<>>
  ELSE StartFix([Smallest(sessions) EXCEPT !.power = Strongest(sessions)], Silent)

InOrder(ids) ==
  LET n == Cardinality(ids)
  IN  CHOOSE s \in [1 .. n -> ids] : \A j, k \in 1 .. n : j < k => s[j] < s[k]
StartDistance(id, o, then) == <<Request("startDist", id, o, then)>>
StopDistance(id, then) == <<Request("stopDist", id, NoOptions, then)>>

RestartSessions ==
  LET ids == InOrder(DOMAIN dist)
  IN  RestartTimeBased(time)
        \o FlattenSeq([i \in DOMAIN ids |-> StartDistance(ids[i], dist[ids[i]].opts, Silent)])

SuspendSessions == IF time = <<>> THEN <<>> ELSE <<Request("stop", 0, NoOptions, Silent)>>

(******************************** the clients ********************************)
CanCall(c) == /\ client[c].alive /\ bounds.calls < MaxCalls
              /\ "patient" \in env => client[c].queue = <<>>
Called(f) == bounds' = [bounds EXCEPT !.calls = @ + 1, !.ids = @ + f]
Post(m) == msgQ' = Append(msgQ, m)

(* A call that is rejected has options without an interval: their size is 0,   *)
(* or no callback of the client's serves a tracking session.                   *)
Rejected(o) == o.interval = 0
Rejects == IF "rejection" \in env THEN {[NoOptions EXCEPT !.distance = d] : d \in BOOLEAN} ELSE {}
StartOptions == {o \in Options \cup Rejects : o.distance => "distance" \in env}
UpdateOptions(c) ==
  {o \in StartOptions : "updates" \in env \/ ~(o.distance \/ client[c].opts.distance)}

StartTracking(c, o) ==
  LET id == bounds.ids + 1
  IN  /\ CanCall(c) /\ ~client[c].tracking
      /\ client' = [client EXCEPT ![c] = [@ EXCEPT !.tracking = TRUE, !.session = id, !.opts = o,
                                                    !.queue = <<"start">>, !.dropped = 0]]
      /\ Post(Msg("start", c, id, o))
      /\ Called(1)
      /\ UNCHANGED <<adapter, apiQ, engine, env>>

StopTracking(c) ==
  /\ CanCall(c) /\ client[c].session > 0
  /\ client' = [client EXCEPT ![c] = [@ EXCEPT !.tracking = FALSE, !.queue = Append(client[c].queue, "stop")]]
  /\ Post(Msg("stop", c, client[c].session, NoOptions))
  /\ Called(0)
  /\ UNCHANGED <<adapter, apiQ, engine, env>>

UpdateTracking(c, o) ==
  /\ CanCall(c) /\ client[c].session > 0
  /\ client' = [client EXCEPT ![c] =
       [@ EXCEPT !.queue = Append(client[c].queue, "update"),
                 !.opts = IF Rejected(client[c].opts) \/ Rejected(o) THEN client[c].opts ELSE o]]
  /\ Post(Msg("update", c, client[c].session, o))
  /\ Called(0)
  /\ UNCHANGED <<adapter, apiQ, engine, env>>

(* destroy: the queue forgets its session and its requests, the LocationAPI    *)
(* asks the adapter to remove the client.                                      *)
Destroy(c) ==
  /\ CanCall(c)
  /\ client' = [client EXCEPT ![c] = [@ EXCEPT !.alive = FALSE, !.tracking = FALSE, !.session = 0,
                                                !.queue = <<>>, !.dropped = 0]]
  /\ Post(Msg("remove", c, 0, NoOptions))
  /\ Called(0)
  /\ UNCHANGED <<adapter, apiQ, engine, env>>

UpdateConfig ==
  /\ "config" \in env /\ bounds.calls < MaxCalls
  /\ Post(Msg("config", NoClient, 0, NoOptions))
  /\ Called(0)
  /\ UNCHANGED <<client, adapter, apiQ, engine, env>>

(* onResponseCb: an answer goes to the oldest request, if the queue's session  *)
(* is the answer's.                                                            *)
Report(c, id) ==
  client' = IF client[c].session = id /\ client[c].queue # <<>>
            THEN [client EXCEPT ![c].queue = Tail(@)] ELSE client
(* The handler ends without an answer to the call it handles. *)
Drop(c, id) ==
  client' = IF client[c].session = id THEN [client EXCEPT ![c].dropped = @ + 1] ELSE client
ReportNow(reqs, c, id) == IF reqs = <<>> THEN Report(c, id) ELSE UNCHANGED client
Ask(reqs) == apiQ' = apiQ \o reqs

(******************************** the MsgTask ********************************)
(* The engine decides whether a distance makes a session distance-based        *)
(* (isMessageSupported).                                                       *)
ByDistance(o) == o.distance /\ "basic" \notin env
SaveSession(c, id, o) ==
  IF ByDistance(o) THEN dist' = Save(dist, id, Session(c, o)) /\ UNCHANGED time
                ELSE time' = Save(time, id, Session(c, o)) /\ UNCHANGED dist
EraseSession(id) ==
  IF id \in DOMAIN time THEN time' = Erase(time, {id}) /\ UNCHANGED dist
                        ELSE dist' = Erase(dist, {id}) /\ UNCHANGED time

Defer(m) == /\ pending' = Append(pending, m)
            /\ UNCHANGED <<client, time, dist, known, apiQ>>
Late(m) == ~known /\ m.opts.distance

(* A rejected start saves nothing and is not answered. *)
HandleStart(m) ==
  IF Late(m) THEN Defer(m)
  ELSE IF Rejected(m.opts) THEN Drop(m.client, m.id) /\ UNCHANGED <<adapter, apiQ>>
  ELSE LET reqs == IF ByDistance(m.opts)
                   THEN StartDistance(m.id, m.opts, Msg("distStarted", m.client, m.id, m.opts))
                   ELSE StartMultiplex(time, m.client, m.id, m.opts)
       IN  /\ SaveSession(m.client, m.id, m.opts)
           /\ Ask(reqs) /\ ReportNow(reqs, m.client, m.id)
           /\ UNCHANGED <<known, pending>>

HandleUpdate(m) ==
  LET c == m.client
      id == m.id
      o == m.opts
      isTime == id \in DOMAIN time
      isDist == id \in DOMAIN dist
      stop == StopMultiplex(time, c, id)
      update == UpdateMultiplex(time, c, id, o)
  IN  IF Late(m) THEN Defer(m)
      ELSE /\ CASE (~isTime /\ ~isDist) \/ Rejected(o) -> Report(c, id) /\ UNCHANGED <<time, dist, apiQ>>
                [] isTime /\ ~Rejected(o) /\ o.distance ->
                     /\ IF ByDistance(o)
                        THEN time' = Erase(time, {id}) /\ dist' = Save(dist, id, Session(c, o))
                        ELSE SaveSession(c, id, o)
                     /\ Ask(stop \o StartDistance(id, o, Silent)) /\ ReportNow(stop, c, id)
                [] isTime /\ ~Rejected(o) /\ ~o.distance ->
                     /\ SaveSession(c, id, o)
                     /\ Ask(update) /\ ReportNow(update, c, id)
                [] isDist /\ ~isTime /\ ~Rejected(o) /\ ~o.distance ->
                     /\ EraseSession(id)
                     /\ Ask(StopDistance(id, Msg("toTime", c, id, o))) /\ UNCHANGED client
                [] isDist /\ ~isTime /\ ~Rejected(o) /\ o.distance ->
                     /\ Ask(StopDistance(id, Msg("redo", c, id, o)))
                     /\ UNCHANGED <<client, time, dist>>
           /\ UNCHANGED <<known, pending>>

HandleStop(m) ==
  LET stop == StopMultiplex(time, m.client, m.id)
  IN  /\ CASE m.id \in DOMAIN time ->
                /\ time' = Erase(time, {m.id})
                /\ Ask(stop) /\ ReportNow(stop, m.client, m.id) /\ UNCHANGED dist
           [] m.id \notin DOMAIN time /\ m.id \in DOMAIN dist ->
                /\ Ask(StopDistance(m.id, Msg("distStopped", m.client, m.id, NoOptions)))
                /\ UNCHANGED <<client, time, dist>>
           [] OTHER -> Report(m.client, m.id) /\ UNCHANGED <<time, dist, apiQ>>
      /\ UNCHANGED <<known, pending>>

HandleRemove_DistanceOnly(m) ==
  LET dids == InOrder({i \in DOMAIN dist : dist[i].client = m.client})
  IN  /\ Ask(FlattenSeq([i \in DOMAIN dids |->
                StopDistance(dids[i], Msg("removed", m.client, dids[i], NoOptions))]))
      /\ UNCHANGED <<client, time, dist, known, pending>>
(* stopClientSessions: each time-based session of the client in turn; the      *)
(* distance-based ones stay until the engine has stopped them.                 *)
HandleRemove(m) ==
  LET mine(s) == {i \in DOMAIN s : s[i].client = m.client}
      ids == InOrder(mine(time))
      before(i) == Erase(time, {ids[j] : j \in 1 .. i - 1})
      dids == InOrder(mine(dist))
  IN  /\ Ask(FlattenSeq([i \in DOMAIN ids |-> StopMultiplex(before(i), m.client, ids[i])])
               \o FlattenSeq([i \in DOMAIN dids |->
                    StopDistance(dids[i], Msg("removed", m.client, dids[i], NoOptions))]))
      /\ time' = Erase(time, mine(time))
      /\ UNCHANGED <<client, dist, known, pending>>

HandleConfig(m) ==
  IF ~known THEN Defer(m)
  ELSE Ask(SuspendSessions \o RestartSessions) /\ UNCHANGED <<client, adapter>>

(* Restarts the sessions and posts again what waited for the capabilities. *)
HandleEngineUp(m) ==
  /\ known' = TRUE
  /\ Ask(RestartSessions)
  /\ pending' = <<>>
  /\ UNCHANGED <<client, time, dist>>

(* The answers. *)
AnswerStarted(m) ==
  /\ IF m.err THEN EraseSession(m.id) ELSE UNCHANGED <<time, dist>>
  /\ Report(m.client, m.id) /\ UNCHANGED <<known, pending, apiQ>>
AnswerUpdated(m) ==
  /\ IF m.err THEN SaveSession(m.client, m.id, m.opts) ELSE UNCHANGED <<time, dist>>
  /\ Report(m.client, m.id) /\ UNCHANGED <<known, pending, apiQ>>
AnswerStopped(m) == Report(m.client, m.id) /\ UNCHANGED <<adapter, apiQ>>
AnswerDistStopped(m) ==
  /\ IF m.err THEN UNCHANGED <<time, dist>> ELSE EraseSession(m.id)
  /\ Report(m.client, m.id) /\ UNCHANGED <<known, pending, apiQ>>
AnswerRemoved(m) ==
  /\ IF m.err THEN UNCHANGED <<time, dist>> ELSE EraseSession(m.id)
  /\ UNCHANGED <<client, known, pending, apiQ>>
(* The second half of an update from distance-based to time-based. *)
AnswerToTime(m) ==
  LET reqs == StartMultiplex(time, m.client, m.id, m.opts)
  IN  /\ SaveSession(m.client, m.id, m.opts)
      /\ Ask(reqs) /\ ReportNow(reqs, m.client, m.id) /\ UNCHANGED <<known, pending>>
(* A refusal to stop the session is passed on to nobody. *)
AnswerRedo(m) ==
  /\ IF m.err THEN Drop(m.client, m.id) /\ UNCHANGED apiQ
     ELSE /\ Ask(StartDistance(m.id, m.opts, Msg("redone", m.client, m.id, m.opts)))
          /\ UNCHANGED client
  /\ UNCHANGED adapter
AnswerRedone_NoReport(m) ==
  /\ IF m.err THEN UNCHANGED <<time, dist>> ELSE SaveSession(m.client, m.id, m.opts)
  /\ UNCHANGED <<client, known, pending, apiQ>>
AnswerRedone_KeepOptions(m) ==
  /\ UNCHANGED <<time, dist, known, pending, apiQ>>
  /\ Report(m.client, m.id)
AnswerRedone(m) ==
  /\ IF m.err THEN UNCHANGED <<time, dist>> ELSE SaveSession(m.client, m.id, m.opts)
  /\ Report(m.client, m.id) /\ UNCHANGED <<known, pending, apiQ>>

Proc ==
  /\ msgQ # <<>>
  /\ LET m == Head(msgQ)
     IN  /\ \/ m.what = "start" /\ HandleStart(m)
            \/ m.what = "update" /\ HandleUpdate(m)
            \/ m.what = "stop" /\ HandleStop(m)
            \/ m.what = "remove" /\ HandleRemove(m)
            \/ m.what = "config" /\ HandleConfig(m)
            \/ m.what = "engineUp" /\ HandleEngineUp(m)
            \/ m.what \in {"started", "distStarted"} /\ AnswerStarted(m)
            \/ m.what = "updated" /\ AnswerUpdated(m)
            \/ m.what = "stopped" /\ AnswerStopped(m)
            \/ m.what = "distStopped" /\ AnswerDistStopped(m)
            \/ m.what = "removed" /\ AnswerRemoved(m)
            \/ m.what = "toTime" /\ AnswerToTime(m)
            \/ m.what = "redo" /\ AnswerRedo(m)
            \/ m.what = "redone" /\ AnswerRedone(m)
         /\ msgQ' = Tail(msgQ) \o (IF m.what = "engineUp" THEN pending ELSE <<>>)
  /\ UNCHANGED <<engine, bounds, env>>

(******************************* the LocApi task *****************************)
Done(r) ==
  CASE r.op = "start" -> [engine EXCEPT !.fix = [interval |-> r.opts.interval, power |-> r.opts.power]]
    [] r.op = "stop" -> [engine EXCEPT !.fix = NoFix]
    [] r.op = "startDist" -> [engine EXCEPT !.dist = @ \cup {r.id}]
    [] r.op = "stopDist" -> [engine EXCEPT !.dist = @ \ {r.id}]

(* The engine carries out a request or refuses it; the answer is posted to the *)
(* MsgTask.                                                                    *)
EngineAnswers(refused) ==
  /\ apiQ # <<>> /\ Head(apiQ) # Ssr
  /\ refused => "refusal" \in env
  /\ LET r == Head(apiQ)
     IN  /\ engine' = IF refused THEN engine ELSE Done(r)
         /\ msgQ' = IF r.then = Silent THEN msgQ ELSE Append(msgQ, [r.then EXCEPT !.err = refused])
  /\ apiQ' = Tail(apiQ)
  /\ UNCHANGED <<client, adapter, bounds, env>>

(* The engine forgets its sessions; LocSsrMsg opens it again behind what is    *)
(* queued.  Unless it may refuse requests, it restarts with none queued.       *)
EngineRestarts ==
  /\ "restart" \in env /\ bounds.restarts < MaxRestarts
  /\ "refusal" \in env \/ apiQ = <<>>
  /\ engine' = Off
  /\ apiQ' = Append(apiQ, Ssr)
  /\ bounds' = [bounds EXCEPT !.restarts = @ + 1]
  /\ UNCHANGED <<client, adapter, msgQ, env>>

(* LocOpenMsg or LocSsrMsg: the adapter is told if the engine could be opened, *)
(* and nobody tries again if not.                                              *)
EngineOpened(opened) ==
  /\ apiQ # <<>> /\ Head(apiQ) = Ssr
  /\ ~opened => "refusal" \in env
  /\ apiQ' = Tail(apiQ)
  /\ IF opened THEN Post(Msg("engineUp", NoClient, 0, NoOptions)) ELSE UNCHANGED msgQ
  /\ UNCHANGED <<client, adapter, engine, bounds, env>>

Idle == [alive |-> TRUE, tracking |-> FALSE, session |-> 0, opts |-> NoOptions, queue |-> <<>>,
         dropped |-> 0]
Init ==
  /\ client = [c \in Clients |-> Idle]
  /\ time = <<>> /\ dist = <<>> /\ pending = <<>> /\ msgQ = <<>>
  /\ engine = Off
  /\ bounds = [ids |-> 0, calls |-> 0, restarts |-> 0]
  /\ env \in Environments
  /\ known = ("early" \notin env)
  /\ apiQ = IF known THEN <<>> ELSE <<Ssr>>

Api == \E ok \in BOOLEAN : EngineAnswers(~ok) \/ EngineOpened(ok)
Next ==
  \/ \E c \in Clients :
       \/ \E o \in StartOptions : StartTracking(c, o)
       \/ \E o \in UpdateOptions(c) : UpdateTracking(c, o)
       \/ StopTracking(c)
       \/ Destroy(c)
  \/ UpdateConfig
  \/ Proc
  \/ Api
  \/ EngineRestarts

(* Both tasks are threads that run while their queue is not empty. *)
Spec == Init /\ [][Next]_vars /\ WF_vars(Proc) /\ WF_vars(Api)

(********************************* properties ********************************)
Quiet == msgQ = <<>> /\ apiQ = <<>>

(* When nothing is on its way the engine has a fix exactly while there are     *)
(* time-based sessions, at least as often as each of them asked for, and       *)
(* exactly the distance-based sessions (GnssAdapter.cpp:2927 to 3348, after    *)
(* any number of starts, updates, stops, removals and restarts), unless it has *)
(* refused a request.                                                          *)
Served ==
  Quiet /\ "refusal" \notin env =>
           /\ time = <<>> <=> engine.fix = NoFix
           /\ \A i \in DOMAIN time : engine.fix.interval <= time[i].opts.interval
           /\ engine.dist = DOMAIN dist

(* When nothing is on its way every session is one its client has not stopped: *)
(* "stopTracking stops a tracking session" (LocationAPI.h:75).  The case in    *)
(* which the engine refuses to stop a distance-based session is set aside.     *)
NoGhost ==
  Quiet /\ ~({"refusal", "distance"} \subseteq env) =>
    \A i \in DOMAIN time \cup DOMAIN dist :
      \E c \in Clients : client[c].tracking /\ client[c].session = i

(* When nothing is on its way a client that tracks has the session it asked    *)
(* for, with the options it gave last (LocationAPIClientBase.cpp:354 to 410),  *)
(* unless the engine has refused a request or the adapter rejected its start.  *)
HasWhatItAsked ==
  Quiet /\ "refusal" \notin env =>
           \A c \in Clients : client[c].tracking /\ ~Rejected(client[c].opts) =>
             \E sessions \in {time, dist} :
               /\ client[c].session \in DOMAIN sessions
               /\ sessions[client[c].session] = Session(c, client[c].opts)

(* When nothing is on its way and nothing waits for the engine to open, the    *)
(* answers still missing are those of the two calls the adapter drops: a start *)
(* it rejects (GnssAdapter.cpp:2881) and the update of a distance-based        *)
(* session that the engine refuses to stop (3149).  Every other call has been  *)
(* answered, once, or forgotten by a newer start.  An engine that refuses      *)
(* nothing leaves nothing waiting.                                             *)
Answered ==
  /\ Quiet /\ pending = <<>> => \A c \in Clients : Len(client[c].queue) = client[c].dropped
  /\ Quiet /\ "refusal" \notin env => pending = <<>>

(* Each call gets the answer LocationAPI.h:68 promises, CALLBACK_MISSING and   *)
(* INVALID_PARAMETER among them: not so, a rejected start never does.          *)
AnswersEveryCall == Quiet /\ pending = <<>> => \A c \in Clients : client[c].queue = <<>>
==============================================================================
