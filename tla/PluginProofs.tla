------------------------------ MODULE PluginProofs ------------------------------
(***************************************************************************)
(* Proofs about Plugin: types, the order of requests and handlers for any  *)
(* number of clients, requests and torrents, what a handler is told, and,  *)
(* while clients take alerts in time, the map of torrent plugins and the   *)
(* service that submitted requests are promised.                           *)
(***************************************************************************)
EXTENDS Plugin, NaturalLemmas, TLAPS

-----------------------------------------------------------------------------
(* Alerts.                                                                 *)

\* The queue of alerts holds at most twice its limit, and emplace_alert adds at
\* most one alert to its end.
LEMMA EmplacedType ==
  ASSUME NEW queue \in Seq(Alert), Len(queue) <= 2 * AlertLimit,
         NEW alert \in Alert, NEW priority \in {0, 1}
  PROVE  /\ Emplaced(queue, alert, priority) \in Seq(Alert)
         /\ Len(Emplaced(queue, alert, priority)) <= 2 * AlertLimit
<1>1. Fits(queue, priority) => Len(queue) < 2 * AlertLimit
  <2>1. CASE priority = 0
    BY <2>1, AlertLimitAssumption DEF Fits
  <2>2. CASE priority = 1
    BY <2>2, AlertLimitAssumption DEF Fits
  <2> QED BY <2>1, <2>2
<1> QED BY <1>1, AlertLimitAssumption DEF Emplaced

\* A result is no other alert, and the request of a result is a request.
LEMMA ResultFacts ==
  /\ OtherAlert \in Alert /\ OtherAlert \notin RequestResult
  /\ \A a \in Alert : a # OtherAlert => a \in RequestResult
  /\ \A a \in RequestResult : a.request \in Request
  /\ \A r \in Request, x \in Answers : [request |-> r, answer |-> x] \in RequestResult
BY DEF Alert, OtherAlert, RequestResult, Answers

\* A request on a torrent plugin is done, or fails with an exception.
LEMMA OutcomesAnswer ==
  ASSUME NEW kind, NEW s, NEW o \in Outcomes(kind, s)
  PROVE  o[1] \in {"done", "exception"}
<1>1. CASE kind = "start"
  BY <1>1 DEF Outcomes
<1>2. CASE kind = "stop"
  BY <1>2 DEF Outcomes
<1>3. CASE kind = "pause"
  BY <1>3 DEF Outcomes
<1>4. CASE kind = "to mode"
  <2>1. \E t : Outcomes(kind, s) = {<<"done", t>>, <<"exception", s>>}
    BY <1>4, Zenon DEF Outcomes
  <2> QED BY <2>1
<1>5. CASE kind \notin {"start", "stop", "pause", "to mode"}
  <2>1. Outcomes(kind, s) = {<<"done", s>>, <<"exception", s>>}
    BY <1>5, Zenon DEF Outcomes
  <2> QED BY <2>1
<1> QED BY <1>1, <1>2, <1>3, <1>4, <1>5

\* The results a request may have, and what processing it does to the alerts.
ResultsOf(request) == {[request |-> request, answer |-> x] : x \in Answers}

AlertsAfterRequest ==
  \/ alerts' = alerts
  \/ \E a \in {OtherAlert} \cup ResultsOf(current) : alerts' = Emplaced(alerts, a, 0)
  \/ \E a \in ResultsOf(current) :
       alerts' = Emplaced(Emplaced(alerts, OtherAlert, 1), a, 0)

LEMMA ResultIsSent ==
  ASSUME NEW x \in Answers, SendRequestResult(x)
  PROVE  AlertsAfterRequest
<1> DEFINE a == [request |-> current, answer |-> x]
<1>1. a \in ResultsOf(current)
  BY DEF ResultsOf
<1>2. alerts' = Emplaced(alerts, a, 0)
  BY DEF SendRequestResult, Emplace
<1> QED BY <1>1, <1>2 DEF AlertsAfterRequest

LEMMA RequestAlerts ==
  ASSUME ProcessRequest
  PROVE  AlertsAfterRequest
<1>1. {"done", "exception", "missing torrent"} \subseteq Answers
  BY DEF Answers
<1>2. CASE RunTorrentPluginRequest
  <2>1. CASE SendRequestResult("missing torrent")
    BY <1>1, <2>1, ResultIsSent
  <2>2. CASE \E o \in Outcomes(current.kind, session[current.infoHash]) :
               SendRequestResult(o[1])
    <3>1. ASSUME NEW o \in Outcomes(current.kind, session[current.infoHash])
          PROVE  o[1] \in {"done", "exception"}
      BY <3>1, OutcomesAnswer
    <3> QED BY <1>1, <2>2, <3>1, ResultIsSent
  <2> QED BY <1>2, <2>1, <2>2 DEF RunTorrentPluginRequest
<1>3. CASE PostTorrentPluginStatusUpdates \/ PostPeerPluginStatusUpdates
  <2>1. alerts' \in {alerts, Emplaced(alerts, OtherAlert, 0)}
    BY <1>3 DEF PostTorrentPluginStatusUpdates, PostPeerPluginStatusUpdates, Emplace
  <2> QED BY <2>1 DEF AlertsAfterRequest
<1>4. CASE StopAllTorrentPlugins \/ PauseLibtorrent \/ AddTorrent
  <2>1. SendRequestResult("done") \/ SendRequestResult("exception")
    BY <1>4 DEF StopAllTorrentPlugins, PauseLibtorrent, AddTorrent
  <2> QED BY <1>1, <2>1, ResultIsSent
<1>5. CASE PauseTorrent
  <2>1. SendRequestResult("done") \/ SendRequestResult("missing torrent")
    BY <1>5 DEF PauseTorrent
  <2> QED BY <1>1, <2>1, ResultIsSent
<1>6. CASE RemoveTorrent
  <2> DEFINE a == [request |-> current, answer |-> "done"]
  <2>1. CASE SendRequestResult("missing torrent")
    BY <1>1, <2>1, ResultIsSent
  <2>2. CASE alerts' = Emplaced(RemovedAlert, a, 0)
    <3>1. a \in ResultsOf(current)
      BY <1>1 DEF ResultsOf
    <3> QED BY <2>2, <3>1 DEF AlertsAfterRequest, RemovedAlert
  <2> QED BY <1>6, <2>1, <2>2 DEF RemoveTorrent
<1> QED BY <1>2, <1>3, <1>4, <1>5, <1>6 DEF ProcessRequest

LEMMA ProcessRequestEffect ==
  ASSUME TypeOK, ProcessRequest
  PROVE  /\ current \in Request
         /\ current' = NoRequest
         /\ UNCHANGED <<queueVars, addedToSession, ticking, dispatchVars, aborted>>
         /\ AlertsAfterRequest
<1>1. \E kinds : Processing(kinds)
  BY DEF ProcessRequest, RunTorrentPluginRequest, PostTorrentPluginStatusUpdates,
         PostPeerPluginStatusUpdates, StopAllTorrentPlugins, PauseLibtorrent,
         AddTorrent, RemoveTorrent, PauseTorrent
<1>2. /\ current \in Request
      /\ current' = NoRequest
      /\ UNCHANGED <<queueVars, addedToSession, ticking, dispatchVars, aborted>>
  BY <1>1 DEF Processing, Running, TypeOK
<1> QED BY <1>2, RequestAlerts

\* What libtorrent does between ticks leaves the requests alone.
LEMMA LibtorrentEffect ==
  ASSUME Libtorrent
  PROVE  /\ UNCHANGED <<queueVars, addedToSession, ticking, current, dispatchVars, aborted>>
         /\ alerts' = alerts \/ alerts' = Emplaced(alerts, OtherAlert, 1)
BY DEF Libtorrent, AddedByClient, RemovedByClient, TorrentDestroyed, ReadPieceAlert,
       NetworkThreadFree, Running, RemovedAlert

-----------------------------------------------------------------------------
(* Types.                                                                  *)

\* The alerts stay alerts, and no more than the queue holds.
LEMMA AlertsType ==
  ASSUME TypeOK,
         \/ AlertsAfterRequest /\ current \in Request
         \/ alerts' = Emplaced(alerts, OtherAlert, 1)
  PROVE  alerts' \in Seq(Alert) /\ Len(alerts') <= 2 * AlertLimit
<1>1. OtherAlert \in Alert
  BY ResultFacts
<1>2. alerts \in Seq(Alert) /\ Len(alerts) <= 2 * AlertLimit
  BY DEF TypeOK
<1>3. current \in Request => ResultsOf(current) \subseteq Alert
  BY ResultFacts DEF ResultsOf, Alert
<1>4. /\ Emplaced(alerts, OtherAlert, 1) \in Seq(Alert)
      /\ Len(Emplaced(alerts, OtherAlert, 1)) <= 2 * AlertLimit
  BY <1>1, <1>2, EmplacedType
<1> QED BY <1>1, <1>2, <1>3, <1>4, EmplacedType DEF AlertsAfterRequest

\* What processing a request does to the torrents and their sessions.
TorrentType ==
  /\ torrents \subseteq InfoHashes
  /\ torrentPlugins \in [InfoHashes -> {"none", "live", "expired"}]
  /\ session \in [InfoHashes -> SessionStates]

LEMMA OutcomesState ==
  ASSUME NEW kind, NEW s \in SessionStates, NEW o \in Outcomes(kind, s)
  PROVE  o[2] \in SessionStates
<1> USE DEF SessionStates
<1>1. CASE kind = "start"
  BY <1>1 DEF Outcomes
<1>2. CASE kind = "stop"
  BY <1>2 DEF Outcomes
<1>3. CASE kind = "pause"
  BY <1>3 DEF Outcomes
<1>4. CASE kind = "to mode"
  <2>1. \E t \in {"stopped", s} : Outcomes(kind, s) = {<<"done", t>>, <<"exception", s>>}
    <3> DEFINE t == IF s = "unset" THEN "stopped" ELSE s
    <3>1. Outcomes(kind, s) = {<<"done", t>>, <<"exception", s>>}
      BY <1>4, Zenon DEF Outcomes
    <3>2. t \in {"stopped", s}
      OBVIOUS
    <3> QED BY <3>1, <3>2
  <2> QED BY <2>1
<1>5. CASE kind \notin {"start", "stop", "pause", "to mode"}
  <2>1. Outcomes(kind, s) = {<<"done", s>>, <<"exception", s>>}
    BY <1>5, Zenon DEF Outcomes
  <2> QED BY <2>1
<1> QED BY <1>1, <1>2, <1>3, <1>4, <1>5

LEMMA NewTorrentType ==
  ASSUME TorrentType, NEW t \in InfoHashes, NewTorrent(t) \/ TorrentRemoved(t)
  PROVE  TorrentType'
BY DEF TorrentType, NewTorrent, TorrentRemoved, SessionStates

LEMMA TorrentTypeStep ==
  ASSUME TypeOK, ProcessRequest \/ Libtorrent
  PROVE  TorrentType'
<1>1. TorrentType
  BY DEF TypeOK, TorrentType
<1>2. current # NoRequest => current.infoHash \in InfoHashes
  BY DEF TypeOK, Request
<1>3. CASE RunTorrentPluginRequest
  <2> DEFINE t == current.infoHash
  <2>1. t \in InfoHashes /\ session[t] \in SessionStates
    BY <1>2, <1>3 DEF RunTorrentPluginRequest, Processing, TypeOK
  <2>2. \/ UNCHANGED session
        \/ \E o \in Outcomes(current.kind, session[t]) :
             session' = [session EXCEPT ![t] = o[2]]
    BY <1>3 DEF RunTorrentPluginRequest
  <2>3. session' \in [InfoHashes -> SessionStates]
    BY <1>1, <2>1, <2>2, OutcomesState DEF TorrentType
  <2> QED BY <1>1, <1>3, <2>3 DEF RunTorrentPluginRequest, TorrentType
<1>4. CASE \/ PostTorrentPluginStatusUpdates \/ PostPeerPluginStatusUpdates
           \/ PauseLibtorrent \/ PauseTorrent
  BY <1>1, <1>4
     DEF PostTorrentPluginStatusUpdates, PostPeerPluginStatusUpdates, PauseLibtorrent,
         PauseTorrent, TorrentType, torrentVars
<1>5. CASE StopAllTorrentPlugins
  BY <1>1, <1>5 DEF StopAllTorrentPlugins, TorrentType, SessionStates
<1>6. CASE AddTorrent
  <2>1. NewTorrent(current.infoHash) \/ UNCHANGED torrentVars
    BY <1>6 DEF AddTorrent
  <2> QED BY <1>1, <1>2, <1>6, <2>1, NewTorrentType
          DEF AddTorrent, Processing, TorrentType, torrentVars
<1>7. CASE RemoveTorrent
  <2>1. TorrentRemoved(current.infoHash) \/ UNCHANGED torrentVars
    BY <1>7 DEF RemoveTorrent
  <2> QED BY <1>1, <1>2, <1>7, <2>1, NewTorrentType
          DEF RemoveTorrent, Processing, TorrentType, torrentVars
<1>8. CASE Libtorrent
  <2>1. PICK t \in InfoHashes : \/ AddedByClient(t) \/ RemovedByClient(t)
                                \/ TorrentDestroyed(t) \/ ReadPieceAlert(t)
    BY <1>8 DEF Libtorrent
  <2>2. CASE AddedByClient(t) \/ RemovedByClient(t)
    BY <1>1, <2>2, NewTorrentType DEF AddedByClient, RemovedByClient
  <2>3. CASE TorrentDestroyed(t) \/ ReadPieceAlert(t)
    BY <1>1, <2>3 DEF TorrentDestroyed, ReadPieceAlert, TorrentType, SessionStates,
                      torrentVars
  <2> QED BY <2>1, <2>2, <2>3
<1> QED
  BY <1>3, <1>4, <1>5, <1>6, <1>7, <1>8 DEF ProcessRequest

\* Everything else a step may do.
Aborts == NewTorrentAborts \/ OnAlertAborts \/ VisitorAborts

LEMMA TypeStep ==
  ASSUME TypeOK, Next
  PROVE  TypeOK'
<1> USE DEF queueVars, dispatchVars, torrentVars
<1>1. CASE Clients
  <2>1. PICK kind \in Kinds, t \in InfoHashes : Submit(kind, t)
    BY <1>1 DEF Clients
  <2> DEFINE r == [id |-> submitted + 1, kind |-> kind, infoHash |-> t]
  <2>2. submitted + 1 \in 1 .. MaxSubmits
    BY <2>1, MaxSubmitsAssumption DEF Submit, TypeOK
  <2>3. r \in Request
    BY <2>2 DEF Request
  <2>4. requestQueue' = Append(requestQueue, r)
    BY <2>1 DEF Submit
  <2> HIDE DEF r
  <2>5. requestQueue' \in Seq(Request)
    BY <2>3, <2>4 DEF TypeOK
  <2> QED BY <2>1, <2>2, <2>5, MaxSubmitsAssumption DEF Submit, TypeOK, Running
<1>2. CASE Added \/ OnTick \/ QueueIsEmpty
  BY <1>2 DEF Added, OnTick, QueueIsEmpty, NetworkThreadFree, Running, TypeOK
<1>3. CASE PopRequest
  <2>1. Head(requestQueue) \in Request /\ Tail(requestQueue) \in Seq(Request)
    BY <1>3 DEF PopRequest, TypeOK
  <2> QED BY <1>3, <2>1 DEF PopRequest, Running, TypeOK
<1>4. CASE ProcessRequest
  <2>1. alerts' \in Seq(Alert) /\ Len(alerts') <= 2 * AlertLimit
    BY <1>4, ProcessRequestEffect, AlertsType
  <2>2. TorrentType'
    BY <1>4, TorrentTypeStep
  <2> QED BY <1>4, <2>1, <2>2, ProcessRequestEffect DEF TypeOK, TorrentType
<1>5. CASE Libtorrent
  <2>1. alerts' \in Seq(Alert) /\ Len(alerts') <= 2 * AlertLimit
    BY <1>5, LibtorrentEffect, AlertsType DEF TypeOK
  <2>2. TorrentType'
    BY <1>5, TorrentTypeStep
  <2> QED BY <1>5, <2>1, <2>2, LibtorrentEffect DEF TypeOK, TorrentType
<1>6. CASE PopAlerts
  <2>1. <<>> \in Seq(Alert) /\ Len(<<>>) <= 2 * AlertLimit
    BY AlertLimitAssumption
  <2> QED BY <1>6, <2>1 DEF PopAlerts, Running, TypeOK
<1>7. CASE DispatchAlert
  <2>1. Head(popped) \in Alert /\ Tail(popped) \in Seq(Alert)
    BY <1>7 DEF DispatchAlert, TypeOK
  <2>2. answered' \in Seq(RequestResult)
    BY <1>7, <2>1, ResultFacts DEF DispatchAlert, TypeOK
  <2> QED BY <1>7, <2>1, <2>2 DEF DispatchAlert, Running, TypeOK
<1>8. CASE Aborts
  <2>1. /\ aborted' \in {"none", "new_torrent", "on_alert", "visitor"}
        /\ UNCHANGED <<queueVars, addedToSession, ticking, current, torrentVars, alerts,
                       dispatchVars>>
    BY <1>8 DEF Aborts, NewTorrentAborts, OnAlertAborts, VisitorAborts, Abort
  <2> QED BY <2>1 DEF TypeOK
<1> QED
  BY <1>1, <1>2, <1>3, <1>4, <1>5, <1>6, <1>7, <1>8
     DEF Next, ProcessesRequestQueue, Aborts

\* Every variable keeps its type: requests and results stay what they are on
\* their way, and libtorrent's queue holds at most twice its limit.
THEOREM TypeCorrect == Spec => []TypeOK
<1>1. Init => TypeOK
  <2> SUFFICES ASSUME Init
               PROVE  TypeOK
    OBVIOUS
  <2>1. /\ <<>> \in Seq(Alert) /\ Len(<<>>) <= 2 * AlertLimit
        /\ <<>> \in Seq(Request) /\ <<>> \in Seq(RequestResult)
    BY AlertLimitAssumption
  <2>2. submitted \in 0 .. MaxSubmits
    BY MaxSubmitsAssumption DEF Init
  <2>3. /\ torrentPlugins \in [InfoHashes -> {"none", "live", "expired"}]
        /\ session \in [InfoHashes -> SessionStates]
    BY DEF Init, SessionStates
  <2> QED BY <2>1, <2>2, <2>3 DEF Init, TypeOK
<1>2. TypeOK /\ [Next]_vars => TypeOK'
  <2>1. ASSUME TypeOK, UNCHANGED vars
        PROVE  TypeOK'
    BY <2>1 DEF TypeOK, vars, queueVars, torrentVars, dispatchVars
  <2> QED BY <2>1, TypeStep
<1> QED BY <1>1, <1>2, PTL DEF Spec

-----------------------------------------------------------------------------
(* The order of requests.                                                  *)

\* The results among these alerts, and their order.
Results(queue) == {queue[i] : i \in DOMAIN queue} \ {OtherAlert}

Sorted(queue) ==
  \A i, j \in DOMAIN queue :
    i < j /\ queue[i] # OtherAlert /\ queue[j] # OtherAlert =>
      queue[i].request.id < queue[j].request.id

\* Every result of R is of an earlier request than every one of S.
Before(R, S) == \A a \in R, b \in S : a.request.id < b.request.id

\* Every result of R is of an earlier request than those not processed.
Processed(R) ==
  \A a \in R : /\ a.request.id <= submitted
               /\ current # NoRequest => a.request.id < current.id
               /\ \A j \in DOMAIN requestQueue : a.request.id < requestQueue[j].id

QueueSorted ==
  /\ \A i, j \in DOMAIN requestQueue : i < j => requestQueue[i].id < requestQueue[j].id
  /\ \A i \in DOMAIN requestQueue : requestQueue[i].id <= submitted
  /\ current # NoRequest =>
       /\ current.id <= submitted
       /\ \A j \in DOMAIN requestQueue : current.id < requestQueue[j].id

\* Everything is in its place: the parts of the way a request takes, one by one.
OrderInv ==
  /\ Sorted(answered) /\ Sorted(popped) /\ Sorted(alerts)
  /\ Before(Results(answered), Results(popped))
  /\ Before(Results(answered), Results(alerts))
  /\ Before(Results(popped), Results(alerts))
  /\ Processed(Results(answered)) /\ Processed(Results(popped))
  /\ Processed(Results(alerts))
  /\ QueueSorted

\* An alert at the end of a queue is the last in its order.
LEMMA AppendSorted ==
  ASSUME NEW queue \in Seq(Alert), NEW a \in Alert, Sorted(queue),
         \A b \in Results(queue) : a # OtherAlert => b.request.id < a.request.id
  PROVE  /\ Sorted(Append(queue, a))
         /\ Results(Append(queue, a)) = Results(queue) \cup ({a} \ {OtherAlert})
<1> DEFINE q == Append(queue, a)
<1>1. /\ DOMAIN queue = 1 .. Len(queue) /\ Len(queue) \in Nat
      /\ DOMAIN q = 1 .. Len(queue) + 1
      /\ \A i \in DOMAIN queue : q[i] = queue[i]
      /\ q[Len(queue) + 1] = a
  OBVIOUS
<1>2. DOMAIN q = DOMAIN queue \cup {Len(queue) + 1}
  BY <1>1
<1> HIDE DEF q
<1>3. Results(q) = Results(queue) \cup ({a} \ {OtherAlert})
  BY <1>1, <1>2 DEF Results
<1>4. ASSUME NEW i \in DOMAIN q, NEW j \in DOMAIN q, i < j,
             q[i] # OtherAlert, q[j] # OtherAlert
      PROVE  q[i].request.id < q[j].request.id
  <2>1. i \in DOMAIN queue
    BY <1>1, <1>4
  <2>2. CASE j \in DOMAIN queue
    BY <1>1, <1>4, <2>1, <2>2 DEF Sorted
  <2>3. CASE j = Len(queue) + 1
    <3>1. q[i] \in Results(queue)
      BY <1>1, <1>4, <2>1 DEF Results
    <3> QED BY <1>1, <1>4, <2>3, <3>1
  <2> QED BY <1>2, <2>2, <2>3
<1> QED BY <1>3, <1>4 DEF Sorted, q

\* So is one that emplace_alert adds, or drops.
LEMMA EmplacedSorted ==
  ASSUME NEW queue \in Seq(Alert), NEW a \in Alert, NEW priority, Sorted(queue),
         \A b \in Results(queue) : a # OtherAlert => b.request.id < a.request.id
  PROVE  /\ Sorted(Emplaced(queue, a, priority))
         /\ Results(queue) \subseteq Results(Emplaced(queue, a, priority))
         /\ Results(Emplaced(queue, a, priority)) \subseteq
              Results(queue) \cup ({a} \ {OtherAlert})
BY AppendSorted DEF Emplaced

\* What is taken from the front of a queue is before all that stays.
LEMMA TailSorted ==
  ASSUME NEW queue \in Seq(Alert), queue # <<>>, Sorted(queue)
  PROVE  /\ Sorted(Tail(queue))
         /\ Results(Tail(queue)) \subseteq Results(queue)
         /\ Head(queue) # OtherAlert =>
              Head(queue) \in Results(queue)
                /\ Before({Head(queue)}, Results(Tail(queue)))
<1>1. /\ DOMAIN queue = 1 .. Len(queue) /\ Len(queue) \in Nat \ {0}
      /\ DOMAIN Tail(queue) = 1 .. Len(queue) - 1
      /\ \A i \in DOMAIN Tail(queue) : i + 1 \in DOMAIN queue /\ Tail(queue)[i] = queue[i + 1]
      /\ Head(queue) = queue[1] /\ 1 \in DOMAIN queue
  OBVIOUS
<1>2. Results(Tail(queue)) \subseteq Results(queue)
  BY <1>1 DEF Results
<1>3. Sorted(Tail(queue))
  BY <1>1 DEF Sorted
<1>4. ASSUME Head(queue) # OtherAlert, NEW b \in Results(Tail(queue))
      PROVE  Head(queue).request.id < b.request.id
  <2>1. PICK i \in DOMAIN Tail(queue) : b = Tail(queue)[i] /\ b # OtherAlert
    BY DEF Results
  <2> QED BY <1>1, <1>4, <2>1 DEF Sorted
<1> QED BY <1>1, <1>2, <1>3, <1>4 DEF Results, Before

\* The results a processed request may leave come after all that are there.
LEMMA RequestKeepsOrder ==
  ASSUME OrderInv, TypeOK, ProcessRequest
  PROVE  OrderInv'
<1> DEFINE N == ResultsOf(current)
<1>1. /\ current \in Request /\ current # NoRequest /\ current' = NoRequest
      /\ UNCHANGED <<submitted, requestQueue, popped, answered>>
      /\ AlertsAfterRequest
  BY ProcessRequestEffect, NoRequestAssumption DEF queueVars, dispatchVars
<1>2. \A a \in N : /\ a \in Alert /\ a # OtherAlert
                   /\ a.request = current
  BY <1>1, ResultFacts DEF ResultsOf, Alert
<1>3. /\ Before(Results(answered), N) /\ Before(Results(popped), N)
      /\ Before(Results(alerts), N)
  BY <1>1, <1>2 DEF OrderInv, Processed, Before
<1>4. /\ alerts \in Seq(Alert) /\ Sorted(alerts) /\ OtherAlert \in Alert
  BY ResultFacts DEF TypeOK, OrderInv
<1> HIDE DEF N
<1>5. Sorted(alerts') /\ Results(alerts') \subseteq Results(alerts) \cup N
  <2>1. CASE alerts' = alerts
    BY <1>4, <2>1
  <2>2. ASSUME NEW a \in {OtherAlert} \cup N, alerts' = Emplaced(alerts, a, 0)
        PROVE  Sorted(alerts') /\ Results(alerts') \subseteq Results(alerts) \cup N
    <3>1. a \in Alert
      BY <1>2, <1>4, <2>2
    <3>2. \A b \in Results(alerts) : a # OtherAlert => b.request.id < a.request.id
      BY <1>3, <2>2 DEF Before
    <3>3. /\ Sorted(Emplaced(alerts, a, 0))
          /\ Results(Emplaced(alerts, a, 0)) \subseteq Results(alerts) \cup ({a} \ {OtherAlert})
      BY <1>4, <3>1, <3>2, EmplacedSorted
    <3> QED BY <2>2, <3>3
  <2>3. ASSUME NEW a \in N, alerts' = Emplaced(Emplaced(alerts, OtherAlert, 1), a, 0)
        PROVE  Sorted(alerts') /\ Results(alerts') \subseteq Results(alerts) \cup N
    <3> DEFINE q == Emplaced(alerts, OtherAlert, 1)
    <3>1. Sorted(q) /\ Results(q) \subseteq Results(alerts)
      <4>1. /\ Sorted(q)
            /\ Results(q) \subseteq Results(alerts) \cup ({OtherAlert} \ {OtherAlert})
        BY <1>4, EmplacedSorted
      <4> QED BY <4>1
    <3>2. q \in Seq(Alert)
      BY <1>4 DEF Emplaced
    <3>3. a \in Alert /\ \A b \in Results(q) : a # OtherAlert => b.request.id < a.request.id
      BY <1>2, <1>3, <3>1 DEF Before
    <3> HIDE DEF q
    <3>4. /\ Sorted(Emplaced(q, a, 0))
          /\ Results(Emplaced(q, a, 0)) \subseteq Results(q) \cup ({a} \ {OtherAlert})
      BY <3>1, <3>2, <3>3, EmplacedSorted
    <3> QED BY <2>3, <3>1, <3>4 DEF q
  <2> QED BY <1>1, <2>1, <2>2, <2>3 DEF AlertsAfterRequest, N
<1>6. /\ Before(Results(answered), Results(alerts'))
      /\ Before(Results(popped), Results(alerts'))
  BY <1>3, <1>5 DEF OrderInv, Before
<1>7. Processed(Results(alerts))'
  <2>1. \A a \in N : /\ a.request.id <= submitted
                     /\ \A j \in DOMAIN requestQueue : a.request.id < requestQueue[j].id
    BY <1>1, <1>2 DEF OrderInv, QueueSorted
  <2>2. \A a \in Results(alerts) :
          /\ a.request.id <= submitted
          /\ \A j \in DOMAIN requestQueue : a.request.id < requestQueue[j].id
    BY DEF OrderInv, Processed
  <2>3. ASSUME NEW a \in Results(alerts')
        PROVE  /\ a.request.id <= submitted
               /\ \A j \in DOMAIN requestQueue : a.request.id < requestQueue[j].id
    BY <1>5, <2>1, <2>2
  <2> QED BY <1>1, <2>3 DEF Processed
<1>8. /\ Processed(Results(answered))' /\ Processed(Results(popped))' /\ QueueSorted'
  BY <1>1 DEF OrderInv, Processed, QueueSorted, Results
<1>9. /\ Sorted(answered)' /\ Sorted(popped)'
      /\ Before(Results(answered), Results(popped))'
  BY <1>1 DEF OrderInv
<1>10. Sorted(alerts)' /\ Before(Results(answered), Results(alerts))'
       /\ Before(Results(popped), Results(alerts))'
  BY <1>1, <1>5, <1>6
<1> QED BY <1>7, <1>8, <1>9, <1>10 DEF OrderInv

\* A queue without alerts has no results.
LEMMA EmptyQueue ==
  Sorted(<<>>) /\ Results(<<>>) = {}
BY DEF Sorted, Results

\* Every step keeps the order.
LEMMA OrderStep ==
  ASSUME OrderInv, TypeOK, Next
  PROVE  OrderInv'
<1> USE DEF queueVars, dispatchVars, torrentVars
<1>1. CASE Clients
  <2>1. PICK kind \in Kinds, t \in InfoHashes : Submit(kind, t)
    BY <1>1 DEF Clients
  <2> DEFINE r == [id |-> submitted + 1, kind |-> kind, infoHash |-> t]
  <2>2. /\ submitted \in Nat /\ submitted' = submitted + 1 /\ r.id = submitted + 1
        /\ requestQueue' = Append(requestQueue, r)
        /\ UNCHANGED <<current, alerts, popped, answered>>
    <3>1. submitted \in Nat
      BY MaxSubmitsAssumption DEF TypeOK
    <3>2. /\ submitted' = submitted + 1
          /\ requestQueue' = Append(requestQueue, r)
          /\ UNCHANGED <<current, alerts, popped, answered>>
      BY <2>1 DEF Submit
    <3> QED BY <3>1, <3>2
  <2> HIDE DEF r
  <2>3. /\ requestQueue \in Seq(Request)
        /\ current # NoRequest => current.id \in Nat
        /\ \A i \in DOMAIN requestQueue : requestQueue[i].id \in Nat
    <3>1. \A s \in Request : s.id \in Nat
      BY MaxSubmitsAssumption DEF Request
    <3>2. requestQueue \in Seq(Request) /\ current \in Request \cup {NoRequest}
      BY DEF TypeOK
    <3>3. \A i \in DOMAIN requestQueue : requestQueue[i] \in Request
      BY <3>2
    <3> QED BY <3>1, <3>2, <3>3
  <2>4. /\ DOMAIN requestQueue' = DOMAIN requestQueue \cup {Len(requestQueue) + 1}
        /\ \A i \in DOMAIN requestQueue : i < Len(requestQueue) + 1
                                            /\ requestQueue'[i] = requestQueue[i]
        /\ requestQueue'[Len(requestQueue) + 1] = r
        /\ Len(requestQueue) + 1 \notin DOMAIN requestQueue
    BY <2>2, <2>3
  <2>5. ASSUME NEW q \in Seq(Alert), Processed(Results(q))
        PROVE  \A a \in Results(q) :
                 /\ a.request.id <= submitted'
                 /\ current' # NoRequest => a.request.id < current'.id
                 /\ \A j \in DOMAIN requestQueue' : a.request.id < requestQueue'[j].id
    <3> SUFFICES ASSUME NEW a \in Results(q)
                 PROVE  /\ a.request.id <= submitted'
                        /\ current' # NoRequest => a.request.id < current'.id
                        /\ \A j \in DOMAIN requestQueue' :
                             a.request.id < requestQueue'[j].id
      OBVIOUS
    <3>1. a \in RequestResult /\ a.request.id \in Nat
      BY ResultFacts DEF Results, Request
    <3> QED BY <2>2, <2>4, <2>5, <3>1 DEF Processed
  <2>6. /\ answered \in Seq(Alert) /\ popped \in Seq(Alert) /\ alerts \in Seq(Alert)
    BY DEF TypeOK, Alert
  <2>7. /\ Processed(Results(answered))' /\ Processed(Results(popped))'
        /\ Processed(Results(alerts))'
    BY <2>2, <2>5, <2>6 DEF OrderInv, Processed
  <2>8. QueueSorted'
    <3>1. \A i \in DOMAIN requestQueue' : requestQueue'[i].id <= submitted'
      BY <2>2, <2>3, <2>4 DEF OrderInv, QueueSorted
    <3>2. \A i, j \in DOMAIN requestQueue' : i < j => requestQueue'[i].id < requestQueue'[j].id
      BY <2>2, <2>3, <2>4 DEF OrderInv, QueueSorted
    <3>3. current' # NoRequest =>
            /\ current'.id <= submitted'
            /\ \A j \in DOMAIN requestQueue' : current'.id < requestQueue'[j].id
      <4> SUFFICES ASSUME current # NoRequest
                   PROVE  /\ current.id <= submitted'
                          /\ \A j \in DOMAIN requestQueue' : current.id < requestQueue'[j].id
        BY <2>2
      <4>1. /\ current.id \in Nat /\ current.id <= submitted
            /\ \A j \in DOMAIN requestQueue : current.id < requestQueue[j].id
        BY <2>3 DEF OrderInv, QueueSorted
      <4>2. current.id <= submitted' /\ current.id < r.id
        BY <2>2, <4>1
      <4> QED BY <2>4, <4>1, <4>2
    <3> QED BY <3>1, <3>2, <3>3 DEF QueueSorted
  <2> QED BY <2>2, <2>7, <2>8 DEF OrderInv
<1>2. CASE Added \/ OnTick \/ QueueIsEmpty \/ Aborts
  <2>1. UNCHANGED <<submitted, requestQueue, current, alerts, popped, answered>>
    BY <1>2 DEF Added, OnTick, QueueIsEmpty, Aborts, NewTorrentAborts, OnAlertAborts,
                VisitorAborts, Abort
  <2> QED BY <2>1 DEF OrderInv, Processed, QueueSorted
<1>3. CASE PopRequest
  <2>1. /\ requestQueue \in Seq(Request) /\ requestQueue # <<>>
        /\ current = NoRequest /\ current' = Head(requestQueue)
        /\ requestQueue' = Tail(requestQueue)
        /\ UNCHANGED <<submitted, alerts, popped, answered>>
    BY <1>3 DEF PopRequest, TypeOK
  <2>2. /\ 1 \in DOMAIN requestQueue /\ current' = requestQueue[1]
        /\ \A i \in DOMAIN requestQueue' : /\ i \in Nat \ {0} /\ i + 1 \in DOMAIN requestQueue
                                           /\ requestQueue'[i] = requestQueue[i + 1]
    BY <2>1
  <2>3. QueueSorted'
    BY <2>1, <2>2 DEF OrderInv, QueueSorted
  <2>4. /\ Processed(Results(answered))' /\ Processed(Results(popped))'
        /\ Processed(Results(alerts))'
    BY <2>1, <2>2 DEF OrderInv, Processed
  <2> QED BY <2>1, <2>3, <2>4 DEF OrderInv
<1>4. CASE ProcessRequest
  BY <1>4, RequestKeepsOrder
<1>5. CASE Libtorrent
  <2>1. /\ UNCHANGED <<submitted, requestQueue, current, popped, answered>>
        /\ alerts' \in {alerts, Emplaced(alerts, OtherAlert, 1)}
    BY <1>5, LibtorrentEffect
  <2>2. Sorted(alerts)' /\ Results(alerts') \subseteq Results(alerts)
    <3>1. /\ Sorted(Emplaced(alerts, OtherAlert, 1))
          /\ Results(Emplaced(alerts, OtherAlert, 1)) \subseteq
               Results(alerts) \cup ({OtherAlert} \ {OtherAlert})
      BY EmplacedSorted, ResultFacts DEF OrderInv, TypeOK
    <3> QED BY <2>1, <3>1 DEF OrderInv
  <2>3. /\ Before(Results(answered), Results(alerts))'
        /\ Before(Results(popped), Results(alerts))'
    BY <2>1, <2>2 DEF OrderInv, Before
  <2>4. /\ Processed(Results(answered))' /\ Processed(Results(popped))'
        /\ Processed(Results(alerts))'
    BY <2>1, <2>2 DEF OrderInv, Processed
  <2>5. QueueSorted'
    BY <2>1 DEF OrderInv, QueueSorted
  <2> QED BY <2>1, <2>2, <2>3, <2>4, <2>5 DEF OrderInv
<1>6. CASE PopAlerts
  <2>1. /\ UNCHANGED <<submitted, requestQueue, current, answered>>
        /\ popped = <<>> /\ popped' = alerts /\ alerts' = <<>>
    BY <1>6 DEF PopAlerts
  <2>2. Before(Results(answered), Results(popped))' /\ Sorted(popped)' /\ Sorted(alerts)'
    BY <2>1, EmptyQueue DEF OrderInv
  <2>3. /\ Before(Results(answered), Results(alerts))'
        /\ Before(Results(popped), Results(alerts))'
    BY <2>1, EmptyQueue DEF Before
  <2>4. /\ Processed(Results(answered))' /\ Processed(Results(popped))'
        /\ Processed(Results(alerts))' /\ QueueSorted'
    BY <2>1, EmptyQueue DEF OrderInv, Processed, QueueSorted
  <2> QED BY <2>1, <2>2, <2>3, <2>4 DEF OrderInv
<1>7. CASE DispatchAlert
  <2>1. /\ UNCHANGED <<submitted, requestQueue, current, alerts>>
        /\ popped \in Seq(Alert) /\ popped # <<>> /\ popped' = Tail(popped)
        /\ answered' = IF Head(popped) # OtherAlert THEN Append(answered, Head(popped))
                       ELSE answered
        /\ answered \in Seq(Alert) /\ Head(popped) \in Alert
    BY <1>7 DEF DispatchAlert, TypeOK, Alert
  <2>2. /\ Sorted(popped)' /\ Results(popped') \subseteq Results(popped)
        /\ Head(popped) # OtherAlert =>
             Head(popped) \in Results(popped)
               /\ Before({Head(popped)}, Results(popped'))
    BY <2>1, TailSorted DEF OrderInv
  <2>3. /\ Sorted(answered)'
        /\ Results(answered') = Results(answered) \cup ({Head(popped)} \ {OtherAlert})
    <3>1. CASE Head(popped) = OtherAlert
      BY <2>1, <3>1 DEF OrderInv
    <3>2. CASE Head(popped) # OtherAlert
      <4>1. \A b \in Results(answered) : b.request.id < Head(popped).request.id
        BY <2>2, <3>2 DEF OrderInv, Before
      <4> QED BY <2>1, <3>2, <4>1, AppendSorted DEF OrderInv
    <3> QED BY <3>1, <3>2
  <2>4. /\ Before(Results(answered), Results(popped))'
        /\ Before(Results(answered), Results(alerts))'
        /\ Before(Results(popped), Results(alerts))'
    BY <2>1, <2>2, <2>3 DEF OrderInv, Before
  <2>5. /\ Processed(Results(answered))' /\ Processed(Results(popped))'
        /\ Processed(Results(alerts))' /\ QueueSorted'
    BY <2>1, <2>2, <2>3 DEF OrderInv, Processed, QueueSorted
  <2> QED BY <2>1, <2>2, <2>3, <2>4, <2>5 DEF OrderInv
<1> QED
  BY <1>1, <1>2, <1>3, <1>4, <1>5, <1>6, <1>7
     DEF Next, ProcessesRequestQueue, Aborts

\* Everything stays in its place.
THEOREM OrderKept == Spec => []OrderInv
<1>1. Init => OrderInv
  BY EmptyQueue DEF Init, OrderInv, Before, Processed, QueueSorted
<1>2. OrderInv /\ TypeOK /\ [Next]_vars => OrderInv'
  <2>1. ASSUME OrderInv, UNCHANGED vars
        PROVE  OrderInv'
    BY <2>1 DEF OrderInv, Processed, QueueSorted, vars, queueVars, torrentVars,
                dispatchVars
  <2> QED BY <2>1, OrderStep
<1> QED BY <1>1, <1>2, TypeCorrect, PTL DEF Spec

\* Two queues, one before the other, are in order when each is.
LEMMA ConcatenationSorted ==
  ASSUME NEW s \in Seq(Alert), NEW q \in Seq(Alert), Sorted(s), Sorted(q),
         Before(Results(s), Results(q))
  PROVE  /\ s \o q \in Seq(Alert)
         /\ Sorted(s \o q)
         /\ Results(s \o q) \subseteq Results(s) \cup Results(q)
<1> DEFINE w == s \o q
<1>1. /\ w \in Seq(Alert) /\ DOMAIN w = 1 .. Len(s) + Len(q)
      /\ Len(s) \in Nat /\ Len(q) \in Nat
      /\ DOMAIN s = 1 .. Len(s) /\ DOMAIN q = 1 .. Len(q)
  OBVIOUS
<1>2. \A i \in DOMAIN w :
        \/ i \in DOMAIN s /\ w[i] = s[i]
        \/ i > Len(s) /\ i - Len(s) \in DOMAIN q /\ w[i] = q[i - Len(s)]
  BY <1>1
<1> HIDE DEF w
<1>3. ASSUME NEW i \in DOMAIN w, NEW j \in DOMAIN w, i < j,
             w[i] # OtherAlert, w[j] # OtherAlert
      PROVE  w[i].request.id < w[j].request.id
  <2>1. i \in Nat /\ j \in Nat
    BY <1>1
  <2>2. CASE j \in DOMAIN s /\ w[j] = s[j]
    <3>1. i \in DOMAIN s /\ w[i] = s[i]
      BY <1>1, <1>2, <1>3, <2>1, <2>2
    <3> QED BY <1>3, <2>2, <3>1 DEF Sorted
  <2>3. CASE j > Len(s) /\ j - Len(s) \in DOMAIN q /\ w[j] = q[j - Len(s)]
    <3>1. CASE i \in DOMAIN s /\ w[i] = s[i]
      <4>1. w[i] \in Results(s) /\ w[j] \in Results(q)
        BY <1>3, <2>3, <3>1 DEF Results
      <4> QED BY <4>1 DEF Before
    <3>2. CASE i > Len(s) /\ i - Len(s) \in DOMAIN q /\ w[i] = q[i - Len(s)]
      <4>1. i - Len(s) < j - Len(s)
        BY <1>1, <1>3, <2>1
      <4> QED BY <1>3, <2>3, <3>2, <4>1 DEF Sorted
    <3> QED BY <1>2, <3>1, <3>2
  <2> QED BY <1>2, <2>2, <2>3
<1>4. Results(w) \subseteq Results(s) \cup Results(q)
  BY <1>2 DEF Results
<1> QED BY <1>1, <1>3, <1>4 DEF Sorted, w

\* The requests that are not processed are in order, too.
LEMMA UnprocessedSorted ==
  ASSUME OrderInv, TypeOK
  PROVE  /\ Unprocessed \in Seq(Request)
         /\ \A i, j \in DOMAIN Unprocessed :
              i < j => Unprocessed[i].id < Unprocessed[j].id
         /\ \A i \in DOMAIN Unprocessed :
              \/ current # NoRequest /\ Unprocessed[i] = current
              \/ \E j \in DOMAIN requestQueue : Unprocessed[i] = requestQueue[j]
<1>1. requestQueue \in Seq(Request) /\ current \in Request \cup {NoRequest}
  BY DEF TypeOK
<1>2. CASE current = NoRequest
  <2>1. Unprocessed = requestQueue
    BY <1>1, <1>2 DEF Unprocessed
  <2> QED BY <1>1, <2>1 DEF OrderInv, QueueSorted
<1>3. CASE current # NoRequest
  <2>1. Unprocessed = <<current>> \o requestQueue
    BY <1>3 DEF Unprocessed
  <2>2. /\ Unprocessed \in Seq(Request)
        /\ DOMAIN Unprocessed = 1 .. Len(requestQueue) + 1
        /\ DOMAIN requestQueue = 1 .. Len(requestQueue) /\ Len(requestQueue) \in Nat
        /\ Unprocessed[1] = current
        /\ \A i \in 1 .. Len(requestQueue) : Unprocessed[i + 1] = requestQueue[i]
    BY <1>1, <1>3, <2>1
  <2>3. \A i \in DOMAIN Unprocessed :
          \/ i = 1 /\ Unprocessed[i] = current
          \/ i > 1 /\ i - 1 \in DOMAIN requestQueue /\ Unprocessed[i] = requestQueue[i - 1]
    <3>1. ASSUME NEW i \in DOMAIN Unprocessed, i # 1
          PROVE  i > 1 /\ i - 1 \in DOMAIN requestQueue /\ Unprocessed[i] = requestQueue[i - 1]
      <4>1. i - 1 \in 1 .. Len(requestQueue) /\ (i - 1) + 1 = i /\ i > 1
        BY <2>2, <3>1
      <4> QED BY <2>2, <4>1
    <3> QED BY <2>2, <3>1
  <2>4. ASSUME NEW i \in DOMAIN Unprocessed, NEW j \in DOMAIN Unprocessed, i < j
        PROVE  Unprocessed[i].id < Unprocessed[j].id
    <3>0. i \in Nat \ {0} /\ j \in Nat
      BY <2>2
    <3>1. j > 1 /\ j - 1 \in DOMAIN requestQueue /\ Unprocessed[j] = requestQueue[j - 1]
      BY <2>3, <2>4, <3>0
    <3>2. CASE i = 1
      BY <1>3, <2>2, <3>1, <3>2 DEF OrderInv, QueueSorted
    <3>3. CASE i # 1
      <4>1. i - 1 \in DOMAIN requestQueue /\ Unprocessed[i] = requestQueue[i - 1]
        BY <2>3, <3>3
      <4>2. i - 1 < j - 1
        BY <2>4, <3>0
      <4> QED BY <3>1, <4>1, <4>2 DEF OrderInv, QueueSorted
    <3> QED BY <3>2, <3>3
  <2> QED BY <1>3, <2>2, <2>3, <2>4
<1> QED BY <1>2, <1>3

\* So no request overtakes another, on the whole way.
LEMMA OrderOfTheWay ==
  ASSUME OrderInv, TypeOK
  PROVE  InOrderOfSubmission
<1> DEFINE q == answered \o popped \o alerts
           n == Len(q)
           way == RequestsOf(q) \o Unprocessed
<1>1. /\ q \in Seq(Alert) /\ Sorted(q)
      /\ Results(q) \subseteq Results(answered) \cup Results(popped) \cup Results(alerts)
  <2>1. answered \in Seq(Alert) /\ popped \in Seq(Alert) /\ alerts \in Seq(Alert)
    BY DEF TypeOK, Alert
  <2>2. /\ answered \o popped \in Seq(Alert) /\ Sorted(answered \o popped)
        /\ Results(answered \o popped) \subseteq Results(answered) \cup Results(popped)
    BY <2>1, ConcatenationSorted DEF OrderInv
  <2>3. Before(Results(answered \o popped), Results(alerts))
    BY <2>2 DEF OrderInv, Before
  <2>4. /\ (answered \o popped) \o alerts \in Seq(Alert)
        /\ Sorted((answered \o popped) \o alerts)
        /\ Results((answered \o popped) \o alerts) \subseteq
             Results(answered \o popped) \cup Results(alerts)
    BY <2>1, <2>2, <2>3, ConcatenationSorted DEF OrderInv
  <2> QED BY <2>2, <2>4
<1>2. Processed(Results(q))
  BY <1>1 DEF OrderInv, Processed
<1> HIDE DEF q
<1>3. /\ n \in Nat /\ DOMAIN q = 1 .. n
      /\ RequestsOf(q) \in Seq({q[i].request : i \in DOMAIN q}) /\ Len(RequestsOf(q)) = n
      /\ \A i \in 1 .. n : RequestsOf(q)[i] = q[i].request
  BY <1>1 DEF RequestsOf
<1>4. Unprocessed \in Seq(Request)
  BY UnprocessedSorted
<1>5. /\ DOMAIN way = 1 .. n + Len(Unprocessed) /\ Len(Unprocessed) \in Nat
      /\ DOMAIN Unprocessed = 1 .. Len(Unprocessed)
      /\ \A i \in 1 .. n : way[i] = q[i].request
      /\ \A i \in DOMAIN way : i > n => way[i] = Unprocessed[i - n]
  <2> DEFINE s == RequestsOf(q)
             u == Unprocessed
             S == {q[i].request : i \in DOMAIN q}
  <2>1. s \in Seq(S) /\ u \in Seq(Request) /\ Len(s) = n
        /\ \A i \in 1 .. n : s[i] = q[i].request
    BY <1>3, <1>4
  <2>2. Len(u) \in Nat /\ DOMAIN u = 1 .. Len(u)
    BY <2>1
  <2> HIDE DEF s, u, S
  <2>3. /\ DOMAIN (s \o u) = 1 .. Len(s) + Len(u)
        /\ \A i \in 1 .. Len(s) : (s \o u)[i] = s[i]
        /\ \A i \in DOMAIN (s \o u) : i > Len(s) => (s \o u)[i] = u[i - Len(s)]
    <3>1. s \in Seq(S \cup Request) /\ u \in Seq(S \cup Request)
      BY <2>1
    <3> QED BY <3>1
  <2>4. way = s \o u
    BY DEF s, u
  <2>5. /\ DOMAIN way = 1 .. n + Len(u)
        /\ \A i \in 1 .. n : way[i] = q[i].request
        /\ \A i \in DOMAIN way : i > n => way[i] = u[i - n]
    BY <2>1, <2>3, <2>4
  <2> QED BY <2>2, <2>5 DEF u
<1> HIDE DEF way
<1>6. ASSUME NEW i \in DOMAIN way, i <= n, way[i] # NoRequest
      PROVE  q[i] # OtherAlert /\ i \in DOMAIN q /\ q[i] \in Results(q)
  <2>1. i \in 1 .. n
    BY <1>3, <1>5, <1>6
  <2>2. q[i] # OtherAlert
    BY <1>5, <1>6, <2>1 DEF OtherAlert
  <2> QED BY <1>3, <2>1, <2>2 DEF Results
<1>7. ASSUME NEW i \in DOMAIN way, i > n
      PROVE  i - n \in DOMAIN Unprocessed
  BY <1>3, <1>5, <1>7
<1>8. ASSUME NEW i \in DOMAIN way, NEW j \in DOMAIN way, i < j,
             way[i] # NoRequest, way[j] # NoRequest
      PROVE  way[i].id < way[j].id
  <2>0. i \in Nat \ {0} /\ j \in Nat \ {0}
    BY <1>3, <1>5
  <2>1. CASE j <= n
    <3>1. /\ i <= n /\ i \in 1 .. n /\ j \in 1 .. n
      BY <1>3, <1>8, <2>0, <2>1
    <3>2. q[i].request.id < q[j].request.id
      BY <1>1, <1>6, <1>8, <2>1, <3>1 DEF Sorted
    <3> QED BY <1>5, <3>1, <3>2
  <2>2. CASE i <= n /\ j > n
    <3>1. q[i] \in Results(q) /\ way[i] = q[i].request
      BY <1>5, <1>6, <1>8, <2>0, <2>2, <1>3
    <3>2. j - n \in DOMAIN Unprocessed /\ way[j] = Unprocessed[j - n]
      BY <1>5, <1>7, <2>2
    <3>3. \/ current # NoRequest /\ way[j] = current
          \/ \E k \in DOMAIN requestQueue : way[j] = requestQueue[k]
      BY <3>2, UnprocessedSorted
    <3> QED BY <1>2, <3>1, <3>3 DEF Processed
  <2>3. CASE i > n /\ j > n
    <3>1. /\ i - n \in DOMAIN Unprocessed /\ way[i] = Unprocessed[i - n]
          /\ j - n \in DOMAIN Unprocessed /\ way[j] = Unprocessed[j - n]
      BY <1>5, <1>7, <2>3
    <3>2. i - n < j - n
      BY <1>3, <1>8, <2>0
    <3> QED BY <3>1, <3>2, UnprocessedSorted
  <2> QED BY <1>3, <1>8, <2>0, <2>1, <2>2, <2>3
<1> QED BY <1>8 DEF InOrderOfSubmission, way, q

\* However many clients submit however many requests, before, between and during
\* ticks, and whatever alerts are dropped: every request is processed once, its
\* handler called at most once, and all of it in the order of submission.
THEOREM InOrder == Spec => []InOrderOfSubmission
<1>1. OrderInv /\ TypeOK => InOrderOfSubmission
  BY OrderOfTheWay
<1> QED BY <1>1, TypeCorrect, OrderKept, PTL

-----------------------------------------------------------------------------
(* What a handler is told.                                                 *)

\* A torrent without a live plugin has no session, and every result on its way
\* or delivered says what is so, unless a request was submitted after its own.
CurrentInv ==
  /\ \A t \in InfoHashes : torrentPlugins[t] # "live" => session[t] = "unset"
  /\ \A a \in Results(answered) \cup Results(popped) \cup Results(alerts) :
       a.request.id = submitted /\ a.answer = "done" => StillSo(a.request, session)

\* The session a request leaves behind when it is done.
LEMMA OutcomesSession ==
  ASSUME NEW kind, NEW s, NEW o \in Outcomes(kind, s), o[1] = "done"
  PROVE  /\ kind = "start" => o[2] = "started"
         /\ kind = "stop" => o[2] = "stopped"
         /\ kind = "pause" => o[2] = "paused"
<1>1. CASE kind = "start"
  BY <1>1 DEF Outcomes
<1>2. CASE kind = "stop"
  BY <1>2 DEF Outcomes
<1>3. CASE kind = "pause"
  BY <1>3 DEF Outcomes
<1> QED BY <1>1, <1>2, <1>3

\* emplace_alert adds no result but the one it is given.
LEMMA EmplacedResults ==
  ASSUME NEW queue \in Seq(Alert), NEW a \in Alert, NEW priority
  PROVE  Results(Emplaced(queue, a, priority)) \subseteq
           Results(queue) \cup ({a} \ {OtherAlert})
<1> DEFINE q == Append(queue, a)
<1>1. /\ DOMAIN queue = 1 .. Len(queue) /\ Len(queue) \in Nat
      /\ DOMAIN q = 1 .. Len(queue) + 1
      /\ \A i \in DOMAIN queue : q[i] = queue[i]
      /\ q[Len(queue) + 1] = a
  OBVIOUS
<1>2. DOMAIN q = DOMAIN queue \cup {Len(queue) + 1}
  BY <1>1
<1> HIDE DEF q
<1>3. Results(q) \subseteq Results(queue) \cup ({a} \ {OtherAlert})
  BY <1>1, <1>2 DEF Results
<1> QED BY <1>3 DEF Emplaced, q

\* A torrent that is new, removed or destroyed has no session, and the others
\* keep theirs.
LEMMA TorrentEffect ==
  ASSUME TypeOK, NEW t \in InfoHashes,
         NewTorrent(t) \/ TorrentRemoved(t) \/ TorrentDestroyed(t),
         \A u \in InfoHashes : torrentPlugins[u] # "live" => session[u] = "unset"
  PROVE  /\ \A u \in InfoHashes : torrentPlugins'[u] # "live" => session'[u] = "unset"
         /\ \A u \in InfoHashes : session'[u] \in {session[u], "unset"}
<1>1. DOMAIN torrentPlugins = InfoHashes /\ DOMAIN session = InfoHashes
  BY DEF TypeOK
<1>2. CASE NewTorrent(t)
  BY <1>1, <1>2 DEF NewTorrent
<1>3. CASE TorrentRemoved(t)
  <2>1. CASE Fits(alerts, 1)
    BY <1>1, <1>3, <2>1 DEF TorrentRemoved
  <2>2. CASE ~Fits(alerts, 1)
    BY <1>1, <1>3, <2>2 DEF TorrentRemoved
  <2> QED BY <2>1, <2>2
<1>4. CASE TorrentDestroyed(t)
  BY <1>1, <1>4 DEF TorrentDestroyed
<1> QED BY <1>2, <1>3, <1>4

\* Processing a request keeps the sessions of live plugins only, and its result,
\* when it is done, is true.
LEMMA RequestAnswers ==
  ASSUME TypeOK, CurrentInv, ProcessRequest
  PROVE  /\ \A t \in InfoHashes : torrentPlugins'[t] # "live" => session'[t] = "unset"
         /\ \A a \in Results(alerts') \ Results(alerts) :
              a.request = current /\ (a.answer = "done" => StillSo(current, session'))
<1> USE DEF queueVars, dispatchVars, torrentVars
<1>1. /\ current \in Request /\ alerts \in Seq(Alert)
      /\ DOMAIN torrentPlugins = InfoHashes /\ session \in [InfoHashes -> SessionStates]
  BY NoRequestAssumption, ProcessRequestEffect DEF TypeOK
<1>2. current.infoHash \in InfoHashes
  BY <1>1 DEF Request
<1>3. \A t \in InfoHashes : torrentPlugins[t] # "live" => session[t] = "unset"
  BY DEF CurrentInv
<1>4. ASSUME NEW x \in Answers, SendRequestResult(x),
             x = "done" => StillSo(current, session')
      PROVE  \A a \in Results(alerts') \ Results(alerts) :
               a.request = current /\ (a.answer = "done" => StillSo(current, session'))
  <2> DEFINE b == [request |-> current, answer |-> x]
  <2>1. b \in Alert
    BY <1>1, ResultFacts DEF Alert
  <2>2. b.request = current /\ b.answer = x
    OBVIOUS
  <2>3. alerts' = Emplaced(alerts, b, 0)
    BY <1>4 DEF SendRequestResult, Emplace
  <2> HIDE DEF b
  <2>4. Results(alerts') \subseteq Results(alerts) \cup ({b} \ {OtherAlert})
    BY <1>1, <2>1, <2>3, EmplacedResults
  <2> QED BY <1>4, <2>2, <2>4
<1>5. ASSUME Emplace(OtherAlert)
      PROVE  Results(alerts') \subseteq Results(alerts)
  <2>1. Results(alerts') \subseteq Results(alerts) \cup ({OtherAlert} \ {OtherAlert})
    BY <1>1, <1>5, EmplacedResults, ResultFacts DEF Emplace
  <2> QED BY <2>1
<1>6. CASE RunTorrentPluginRequest
  <2> DEFINE t == current.infoHash
  <2>1. UNCHANGED torrentPlugins /\ current.kind \in PluginRequests
    BY <1>6 DEF RunTorrentPluginRequest, Processing
  <2>2. CASE torrentPlugins[t] = "none" /\ SendRequestResult("missing torrent")
               /\ UNCHANGED session
    BY <1>3, <1>4, <2>1, <2>2 DEF Answers
  <2>3. ASSUME torrentPlugins[t] = "live",
               NEW o \in Outcomes(current.kind, session[t]),
               SendRequestResult(o[1]), session' = [session EXCEPT ![t] = o[2]]
        PROVE  /\ \A u \in InfoHashes : torrentPlugins'[u] # "live" => session'[u] = "unset"
               /\ \A a \in Results(alerts') \ Results(alerts) :
                    a.request = current /\ (a.answer = "done" => StillSo(current, session'))
    <3>1. \A u \in InfoHashes : torrentPlugins'[u] # "live" => session'[u] = "unset"
      BY <1>1, <1>2, <1>3, <2>1, <2>3
    <3>2. o[1] \in Answers
      BY OutcomesAnswer DEF Answers
    <3>3. o[1] = "done" => /\ current.kind = "start" => session'[t] = "started"
                           /\ current.kind = "stop" => session'[t] = "stopped"
                           /\ current.kind = "pause" => session'[t] = "paused"
      BY <1>1, <1>2, <2>3, OutcomesSession
    <3>4. o[1] = "done" => StillSo(current, session')
      <4>1. current.kind # "stop all"
        BY <2>1 DEF PluginRequests
      <4> QED BY <3>3, <4>1 DEF StillSo
    <3> QED BY <1>4, <2>3, <3>1, <3>2, <3>4
  <2> QED BY <1>6, <2>2, <2>3 DEF RunTorrentPluginRequest
<1>7. CASE PostTorrentPluginStatusUpdates
  BY <1>3, <1>5, <1>7 DEF PostTorrentPluginStatusUpdates
<1>8. CASE PostPeerPluginStatusUpdates
  <2>1. UNCHANGED <<torrentPlugins, session>> /\ (Emplace(OtherAlert) \/ UNCHANGED alerts)
    BY <1>8 DEF PostPeerPluginStatusUpdates
  <2> QED BY <1>3, <1>5, <2>1
<1>9. CASE StopAllTorrentPlugins
  <2>1. UNCHANGED torrentPlugins /\ current.kind = "stop all" /\ SendRequestResult("done")
    BY <1>9 DEF StopAllTorrentPlugins, Processing
  <2>2. \A t \in InfoHashes : /\ session'[t] \in {session[t], "stopped"}
                              /\ torrentPlugins[t] # "live" => session'[t] = "unset"
                              /\ session'[t] \in {"stopped", "unset"}
    BY <1>1, <1>3, <1>9 DEF StopAllTorrentPlugins, SessionStates
  <2>3. StillSo(current, session')
    BY <2>1, <2>2 DEF StillSo
  <2> QED BY <1>4, <2>1, <2>2, <2>3 DEF Answers
<1>10. CASE PauseLibtorrent \/ PauseTorrent
  <2>1. /\ UNCHANGED <<torrentPlugins, session>>
        /\ current.kind \in {"pause libtorrent", "pause torrent"}
        /\ \E x \in Answers : SendRequestResult(x)
    BY <1>10 DEF PauseLibtorrent, PauseTorrent, Processing, Answers
  <2>2. StillSo(current, session')
    BY <2>1 DEF StillSo
  <2> QED BY <1>3, <1>4, <2>1, <2>2
<1>11. CASE AddTorrent
  <2>1. current.kind = "add torrent" /\ \E x \in Answers : SendRequestResult(x)
    BY <1>11 DEF AddTorrent, Processing, Answers
  <2>2. UNCHANGED torrentVars \/ NewTorrent(current.infoHash)
    BY <1>11 DEF AddTorrent
  <2>3. \A t \in InfoHashes : torrentPlugins'[t] # "live" => session'[t] = "unset"
    BY <1>2, <1>3, <2>2, TorrentEffect
  <2>4. StillSo(current, session')
    BY <2>1 DEF StillSo
  <2> QED BY <1>4, <2>1, <2>3, <2>4
<1>12. CASE RemoveTorrent
  <2>1. current.kind = "remove torrent"
    BY <1>12 DEF RemoveTorrent, Processing
  <2>2. StillSo(current, session')
    BY <2>1 DEF StillSo
  <2>3. CASE SendRequestResult("missing torrent") /\ UNCHANGED torrentVars
    BY <1>3, <1>4, <2>2, <2>3 DEF Answers
  <2>4. CASE /\ TorrentRemoved(current.infoHash)
             /\ alerts' = Emplaced(RemovedAlert, [request |-> current, answer |-> "done"], 0)
    <3> DEFINE a == [request |-> current, answer |-> "done"]
    <3>1. \A t \in InfoHashes : torrentPlugins'[t] # "live" => session'[t] = "unset"
      BY <1>2, <1>3, <2>4, TorrentEffect
    <3>2. a \in Alert
      BY <1>1, ResultFacts DEF Alert, Answers
    <3>3. RemovedAlert \in Seq(Alert)
      BY <1>1, ResultFacts DEF RemovedAlert, Emplaced
    <3>4. Results(RemovedAlert) \subseteq Results(alerts) \cup ({OtherAlert} \ {OtherAlert})
      BY <1>1, ResultFacts, EmplacedResults DEF RemovedAlert
    <3> HIDE DEF a
    <3>5. alerts' = Emplaced(RemovedAlert, a, 0)
      BY <2>4 DEF a
    <3>6. Results(alerts') \subseteq Results(RemovedAlert) \cup ({a} \ {OtherAlert})
      BY <3>2, <3>3, <3>5, EmplacedResults
    <3>7. a.request = current
      BY DEF a
    <3> QED BY <2>2, <3>1, <3>4, <3>6, <3>7
  <2> QED BY <1>12, <2>3, <2>4 DEF RemoveTorrent
<1> QED BY <1>6, <1>7, <1>8, <1>9, <1>10, <1>11, <1>12 DEF ProcessRequest

\* libtorrent queues no result.
LEMMA LibtorrentSessions ==
  ASSUME TypeOK, CurrentInv, Libtorrent
  PROVE  /\ \A t \in InfoHashes : torrentPlugins'[t] # "live" => session'[t] = "unset"
         /\ \A t \in InfoHashes : session'[t] \in {session[t], "unset"}
<1>1. PICK t \in InfoHashes : \/ AddedByClient(t) \/ RemovedByClient(t)
                              \/ TorrentDestroyed(t) \/ ReadPieceAlert(t)
  BY DEF Libtorrent
<1>2. \A u \in InfoHashes : torrentPlugins[u] # "live" => session[u] = "unset"
  BY DEF CurrentInv
<1>3. CASE ReadPieceAlert(t)
  BY <1>2, <1>3 DEF ReadPieceAlert, torrentVars
<1>4. CASE AddedByClient(t) \/ RemovedByClient(t) \/ TorrentDestroyed(t)
  <2>1. NewTorrent(t) \/ TorrentRemoved(t) \/ TorrentDestroyed(t)
    BY <1>4 DEF AddedByClient, RemovedByClient
  <2> QED BY <1>2, <2>1, TorrentEffect
<1> QED BY <1>1, <1>3, <1>4

\* Every step keeps the results true that are of the last request.
LEMMA CurrentStep ==
  ASSUME CurrentInv, OrderInv, TypeOK, Next
  PROVE  CurrentInv'
<1> DEFINE Told == Results(answered) \cup Results(popped) \cup Results(alerts)
           Pluginless == \A t \in InfoHashes : torrentPlugins[t] # "live" => session[t] = "unset"
<1>1. /\ Pluginless
      /\ \A a \in Told : a.request.id = submitted /\ a.answer = "done" =>
                           StillSo(a.request, session)
  BY DEF CurrentInv
<1>2. \A a \in Told : /\ a.request.id <= submitted
                      /\ current # NoRequest => a.request.id < current.id
  BY DEF OrderInv, Processed
<1>3. \A a \in Told : a.request \in Request
  BY ResultFacts DEF Results, TypeOK, Alert
<1>4. submitted \in Nat /\ \A a \in Told : a.request.id \in Nat
  BY <1>3, MaxSubmitsAssumption DEF TypeOK, Request
<1>5. ASSUME UNCHANGED submitted, Pluginless', Told' \subseteq Told,
             \A t \in InfoHashes : session'[t] \in {session[t], "unset"}
      PROVE  CurrentInv'
  <2>1. ASSUME NEW a \in Told', a.request.id = submitted', a.answer = "done"
        PROVE  StillSo(a.request, session')
    <3>1. a.request \in Request /\ StillSo(a.request, session)
      BY <1>1, <1>3, <1>5, <2>1
    <3> QED BY <1>5, <3>1 DEF StillSo, Request
  <2> QED BY <1>5, <2>1 DEF CurrentInv
<1> USE DEF queueVars, dispatchVars, torrentVars
<1>6. CASE Clients
  <2>1. /\ submitted' = submitted + 1
        /\ UNCHANGED <<torrentPlugins, session, answered, popped, alerts>>
    BY <1>6 DEF Clients, Submit
  <2>2. \A a \in Told' : a.request.id # submitted'
    BY <1>2, <1>4, <2>1
  <2> QED BY <1>1, <2>1, <2>2 DEF CurrentInv
<1>7. CASE Added \/ OnTick \/ QueueIsEmpty \/ PopRequest \/ Aborts
  <2>1. UNCHANGED <<submitted, torrentPlugins, session, answered, popped, alerts>>
    BY <1>7 DEF Added, OnTick, QueueIsEmpty, PopRequest, Aborts, NewTorrentAborts,
                OnAlertAborts, VisitorAborts, Abort
  <2> QED BY <1>1, <2>1 DEF CurrentInv
<1>8. CASE ProcessRequest
  <2>1. /\ current \in Request /\ current # NoRequest
        /\ UNCHANGED <<submitted, answered, popped>>
    BY <1>8, NoRequestAssumption, ProcessRequestEffect
  <2>2. /\ Pluginless'
        /\ \A a \in Results(alerts') \ Results(alerts) :
             a.request = current /\ (a.answer = "done" => StillSo(current, session'))
    BY <1>8, RequestAnswers
  <2>3. current.id \in Nat /\ current.id <= submitted
    BY <2>1, MaxSubmitsAssumption DEF OrderInv, QueueSorted, Request
  <2>4. \A a \in Told : a.request.id # submitted
    BY <1>2, <1>4, <2>1, <2>3
  <2>5. ASSUME NEW a \in Told', a.request.id = submitted', a.answer = "done"
        PROVE  StillSo(a.request, session')
    <3>1. a \in Results(alerts') \ Results(alerts)
      BY <2>1, <2>4, <2>5
    <3> QED BY <2>2, <2>5, <3>1
  <2> QED BY <2>2, <2>5 DEF CurrentInv
<1>9. CASE Libtorrent
  <2>1. /\ Pluginless' /\ \A t \in InfoHashes : session'[t] \in {session[t], "unset"}
    BY <1>9, LibtorrentSessions
  <2>2. /\ UNCHANGED <<submitted, popped, answered>>
        /\ alerts' \in {alerts, Emplaced(alerts, OtherAlert, 1)}
    BY <1>9, LibtorrentEffect
  <2>3. Results(Emplaced(alerts, OtherAlert, 1)) \subseteq
          Results(alerts) \cup ({OtherAlert} \ {OtherAlert})
    BY EmplacedResults, ResultFacts DEF TypeOK
  <2>4. Told' \subseteq Told
    BY <2>2, <2>3
  <2> QED BY <1>5, <2>1, <2>2, <2>4
<1>10. CASE PopAlerts
  <2>1. /\ UNCHANGED <<submitted, torrentPlugins, session, answered>>
        /\ popped' = alerts /\ alerts' = <<>>
    BY <1>10 DEF PopAlerts
  <2>2. Told' \subseteq Told
    BY <2>1, EmptyQueue
  <2> QED BY <1>1, <1>5, <2>1, <2>2
<1>11. CASE DispatchAlert
  <2>1. /\ UNCHANGED <<submitted, torrentPlugins, session, alerts>>
        /\ popped \in Seq(Alert) /\ popped # <<>> /\ popped' = Tail(popped)
        /\ answered' = IF Head(popped) # OtherAlert THEN Append(answered, Head(popped))
                       ELSE answered
        /\ answered \in Seq(Alert) /\ Head(popped) \in Alert
    BY <1>11 DEF DispatchAlert, TypeOK, Alert
  <2>2. /\ Results(popped') \subseteq Results(popped)
        /\ Head(popped) # OtherAlert => Head(popped) \in Results(popped)
    BY <2>1, TailSorted DEF OrderInv
  <2>3. Results(answered') \subseteq Results(answered) \cup Results(popped)
    <3>1. CASE Head(popped) # OtherAlert
      <4>1. answered' = Append(answered, Head(popped))
        BY <2>1, <3>1
      <4>2. /\ DOMAIN answered' = 1 .. Len(answered) + 1
            /\ DOMAIN answered = 1 .. Len(answered) /\ Len(answered) \in Nat
            /\ \A i \in 1 .. Len(answered) : answered'[i] = answered[i]
            /\ answered'[Len(answered) + 1] = Head(popped)
        BY <2>1, <4>1
      <4>3. \A i \in DOMAIN answered' : i \in DOMAIN answered \/ i = Len(answered) + 1
        BY <4>2
      <4> QED BY <2>2, <3>1, <4>2, <4>3 DEF Results
    <3> QED BY <2>1, <3>1
  <2>4. Told' \subseteq Told
    BY <2>1, <2>2, <2>3
  <2> QED BY <1>1, <1>5, <2>1, <2>4
<1> QED
  BY <1>6, <1>7, <1>8, <1>9, <1>10, <1>11 DEF Next, ProcessesRequestQueue, Aborts

\* Whatever clients and libtorrent do meanwhile, dropped alerts included: what a
\* handler is told of a session is still so if no request was submitted since.
THEOREM ToldWhatIsSo == Spec => []AnswersAreCurrent
<1>1. Init => CurrentInv
  BY EmptyQueue DEF Init, CurrentInv
<1>2. CurrentInv /\ OrderInv /\ TypeOK /\ [Next]_vars => CurrentInv'
  <2>1. ASSUME CurrentInv, UNCHANGED vars
        PROVE  CurrentInv'
    BY <2>1 DEF CurrentInv, vars, queueVars, torrentVars, dispatchVars
  <2> QED BY <2>1, CurrentStep
<1>3. CurrentInv /\ TypeOK => AnswersAreCurrent
  <2> SUFFICES ASSUME CurrentInv, TypeOK, NEW i \in DOMAIN answered
               PROVE  answered[i].request.id = submitted /\ answered[i].answer = "done" =>
                        StillSo(answered[i].request, session)
    BY DEF AnswersAreCurrent
  <2>1. answered[i] \in RequestResult
    BY DEF TypeOK
  <2>2. answered[i] \in Results(answered)
    BY <2>1, ResultFacts DEF Results
  <2> QED BY <2>2 DEF CurrentInv
<1> QED BY <1>1, <1>2, <1>3, TypeCorrect, OrderKept, PTL DEF Spec

-----------------------------------------------------------------------------
(* The torrent plugins.                                                    *)

MatchInv == PluginsMatchTorrents /\ NoAssertionFails

\* A torrent that is added gets the one plugin of its info hash.
LEMMA NewTorrentMatches ==
  ASSUME TypeOK, PluginsMatchTorrents, NEW t \in InfoHashes, NewTorrent(t)
  PROVE  PluginsMatchTorrents'
BY DEF TypeOK, PluginsMatchTorrents, NewTorrent

\* A torrent that is removed loses it, as its alert is queued.
LEMMA TorrentRemovedMatches ==
  ASSUME TypeOK, PluginsMatchTorrents, Fits(alerts, 1), NEW t \in InfoHashes,
         TorrentRemoved(t)
  PROVE  PluginsMatchTorrents'
<1>1. /\ torrents' = torrents \ {t}
      /\ torrentPlugins' = [torrentPlugins EXCEPT ![t] = "none"]
  BY DEF TorrentRemoved
<1> QED BY <1>1 DEF TypeOK, PluginsMatchTorrents

\* A torrent that is removed while its alert is dropped.
LEMMA RemovalIsDropped ==
  ASSUME NEW t \in torrents, TorrentRemoved(t), ~Fits(alerts, 1)
  PROVE  Lossy /\ RemovalDropped
<1>1. Lossy /\ t \in torrents \ torrents'
  BY DEF TorrentRemoved
<1> QED BY <1>1 DEF RemovalDropped

\* Every step keeps the plugins in step with the torrents, or drops the alert of a
\* torrent that is removed; and it fails no assertion.
LEMMA MatchStep ==
  ASSUME PluginsMatchTorrents, TypeOK, Next
  PROVE  UNCHANGED aborted /\ (PluginsMatchTorrents' \/ (Lossy /\ RemovalDropped))
<1> USE DEF queueVars, dispatchVars, torrentVars
<1>1. \A t \in InfoHashes : /\ torrentPlugins[t] # "expired"
                            /\ torrentPlugins[t] = "live" <=> t \in torrents
  BY DEF PluginsMatchTorrents
<1>2. ~NewTorrentAborts
  BY <1>1 DEF NewTorrentAborts, NewTorrentAsserts, PluginsMatchTorrents
<1>3. ~OnAlertAborts
  BY <1>1 DEF OnAlertAborts
<1>4. ASSUME VisitorAborts
      PROVE  FALSE
  <2>1. current \in Request
    BY <1>4 DEF VisitorAborts, TypeOK
  <2> QED BY <1>1, <1>4, <2>1 DEF VisitorAborts, Request
<1>5. ASSUME UNCHANGED <<torrents, torrentPlugins>>
      PROVE  PluginsMatchTorrents'
  BY <1>5 DEF PluginsMatchTorrents
<1>6. CASE Clients \/ Added \/ OnTick \/ PopRequest \/ QueueIsEmpty \/ PopAlerts
             \/ DispatchAlert
  BY <1>5, <1>6 DEF Clients, Submit, Added, OnTick, PopRequest, QueueIsEmpty, PopAlerts,
                    DispatchAlert, Running, NetworkThreadFree
<1>7. CASE ProcessRequest
  <2>1. UNCHANGED aborted /\ current \in Request
    BY <1>7, NoRequestAssumption
       DEF ProcessRequest, RunTorrentPluginRequest, PostTorrentPluginStatusUpdates,
           PostPeerPluginStatusUpdates, StopAllTorrentPlugins, PauseLibtorrent, AddTorrent,
           RemoveTorrent, PauseTorrent, Processing, Running, TypeOK
  <2>2. \/ UNCHANGED <<torrents, torrentPlugins>>
        \/ NewTorrent(current.infoHash)
        \/ current.infoHash \in torrents /\ TorrentRemoved(current.infoHash)
    BY <1>7
       DEF ProcessRequest, RunTorrentPluginRequest, PostTorrentPluginStatusUpdates,
           PostPeerPluginStatusUpdates, StopAllTorrentPlugins, PauseLibtorrent, AddTorrent,
           RemoveTorrent, PauseTorrent
  <2>3. current.infoHash \in InfoHashes
    BY <2>1 DEF Request
  <2>4. PluginsMatchTorrents' \/ (Lossy /\ RemovalDropped)
    BY <1>5, <2>2, <2>3, NewTorrentMatches, TorrentRemovedMatches, RemovalIsDropped
  <2> QED BY <2>1, <2>4
<1>8. CASE Libtorrent
  <2>1. PICK t \in InfoHashes : \/ AddedByClient(t) \/ RemovedByClient(t)
                                \/ TorrentDestroyed(t) \/ ReadPieceAlert(t)
    BY <1>8 DEF Libtorrent
  <2>2. ~TorrentDestroyed(t)
    BY <1>1 DEF TorrentDestroyed
  <2>3. UNCHANGED aborted
    BY <2>1, <2>2 DEF AddedByClient, RemovedByClient, ReadPieceAlert, NetworkThreadFree,
                      Running
  <2>4. \/ UNCHANGED <<torrents, torrentPlugins>>
        \/ NewTorrent(t)
        \/ t \in torrents /\ TorrentRemoved(t)
    BY <2>1, <2>2 DEF AddedByClient, RemovedByClient, ReadPieceAlert
  <2>5. PluginsMatchTorrents' \/ (Lossy /\ RemovalDropped)
    BY <1>5, <2>4, NewTorrentMatches, TorrentRemovedMatches, RemovalIsDropped
  <2> QED BY <2>3, <2>5
<1> QED
  BY <1>2, <1>3, <1>4, <1>6, <1>7, <1>8 DEF Next, ProcessesRequestQueue

\* Whatever alerts are dropped, only that of a removed torrent ends the agreement of
\* the map with the torrents, and only after it an assertion on the map fails.
THEOREM OnlyDroppedRemovalsMatter == Spec => MatchedUntilRemovalDropped
<1>1. TypeOK /\ [Next]_vars =>
        [PluginsMatchTorrents =>
           UNCHANGED aborted /\ (PluginsMatchTorrents' \/ RemovalDropped)]_vars
  BY MatchStep
<1> QED BY <1>1, TypeCorrect, PTL DEF Spec, MatchedUntilRemovalDropped

\* While no alert is dropped there is one live plugin per torrent and no other
\* entry, and the assertions of new_torrent, on_alert and the visitor hold.
THEOREM MatchKept == ASSUME ~Lossy PROVE Spec => []MatchInv
<1>1. Init => MatchInv
  BY DEF Init, MatchInv, PluginsMatchTorrents, NoAssertionFails
<1>2. MatchInv /\ TypeOK /\ [Next]_vars => MatchInv'
  <2>1. ASSUME MatchInv, UNCHANGED vars
        PROVE  MatchInv'
    BY <2>1 DEF MatchInv, PluginsMatchTorrents, NoAssertionFails, vars, torrentVars
  <2> QED BY <2>1, MatchStep DEF MatchInv, NoAssertionFails
<1> QED BY <1>1, <1>2, TypeCorrect, PTL DEF Spec

\* So the plugins match the torrents, however often torrents are added and removed.
THEOREM PluginsMatch == ASSUME ~Lossy PROVE Spec => []PluginsMatchTorrents
<1>1. MatchInv => PluginsMatchTorrents
  BY DEF MatchInv
<1> QED BY <1>1, MatchKept, PTL

\* And no assertion on a torrent plugin fails, in the visitor or elsewhere.
THEOREM AssertionsHold == ASSUME ~Lossy PROVE Spec => []NoAssertionFails
<1>1. MatchInv => NoAssertionFails
  BY DEF MatchInv
<1> QED BY <1>1, MatchKept, PTL

-----------------------------------------------------------------------------
(* Sequences.                                                              *)

\* What is added to the end of a sequence is added to the end of what it ends.
LEMMA AppendToConcatenation ==
  ASSUME NEW s \in Seq(Request \cup Alert), NEW t \in Seq(Request \cup Alert),
         NEW x \in Request \cup Alert
  PROVE  Append(s \o t, x) = s \o Append(t, x)
<1> DEFINE S == Request \cup Alert
           l == Append(s \o t, x)
           r == s \o Append(t, x)
<1>1. s \o t \in Seq(S) /\ Append(t, x) \in Seq(S)
  OBVIOUS
<1>2. l \in Seq(S) /\ r \in Seq(S) /\ Len(l) = Len(r)
  BY <1>1
<1>3. \A i \in 1 .. Len(l) : l[i] = r[i]
  BY <1>1
<1> HIDE DEF l, r
<1>4. l = r
  BY <1>2, <1>3
<1> QED BY <1>4 DEF l, r

-----------------------------------------------------------------------------
(* The requests whose results are among some alerts, in their order.       *)

\* What the n-th alert adds to them.
ResultStep(queue, n, requests) ==
  IF queue[n] # OtherAlert THEN Append(requests, queue[n].request) ELSE requests

\* The equation ResultsUpTo solves.
AreResultsUpTo(queue, f, N) ==
  f = [n \in 0 .. N |-> IF n = 0 THEN <<>> ELSE ResultStep(queue, n, f[n - 1])]

\* There is a function that collects the requests alert by alert.
LEMMA ResultsExist ==
  ASSUME NEW queue, NEW N \in Nat
  PROVE  \E f : AreResultsUpTo(queue, f, N)
<1> DEFINE P == {n \in 0 .. N : \E f : AreResultsUpTo(queue, f, n)}
<1>1. 0 \in P
  <2>1. AreResultsUpTo(queue, [n \in 0 .. 0 |-> <<>>], 0)
    BY DEF AreResultsUpTo
  <2> QED BY <2>1
<1>2. ASSUME NEW n \in 1 .. N, n - 1 \in P
      PROVE  n \in P
  <2>1. PICK f : AreResultsUpTo(queue, f, n - 1)
    BY <1>2
  <2> DEFINE g == [k \in 0 .. n |-> IF k = n THEN ResultStep(queue, n, f[n - 1])
                                    ELSE f[k]]
  <2>2. \A k \in 0 .. n - 1 : g[k] = f[k]
    OBVIOUS
  <2>3. ASSUME NEW k \in 0 .. n
        PROVE  g[k] = IF k = 0 THEN <<>> ELSE ResultStep(queue, k, g[k - 1])
    <3>1. CASE k = n
      <4>1. g[n - 1] = f[n - 1]
        BY <2>2
      <4> QED BY <3>1, <4>1
    <3>2. CASE k # n
      <4>1. k \in 0 .. n - 1 /\ g[k] = f[k]
        BY <3>2
      <4>2. f[k] = IF k = 0 THEN <<>> ELSE ResultStep(queue, k, f[k - 1])
        BY <2>1, <4>1 DEF AreResultsUpTo
      <4>3. k # 0 => g[k - 1] = f[k - 1]
        BY <4>1, <2>2
      <4> QED BY <4>1, <4>2, <4>3
    <3> QED BY <3>1, <3>2
  <2>4. AreResultsUpTo(queue, g, n)
    <3>1. g = [k \in 0 .. n |-> g[k]]
      OBVIOUS
    <3> HIDE DEF g
    <3> QED BY <2>3, <3>1 DEF AreResultsUpTo
  <2> QED BY <2>4
<1>3. N \in P
  <2> HIDE DEF P
  <2> QED BY <1>1, <1>2, InductionUpTo
<1> QED BY <1>3

\* So ResultsUpTo does: none at first, then those of one alert more.
LEMMA ResultsDefinition ==
  ASSUME NEW queue \in Seq(Alert)
  PROVE  /\ ResultsUpTo(queue)[0] = <<>>
         /\ \A n \in 1 .. Len(queue) :
              ResultsUpTo(queue)[n] = ResultStep(queue, n, ResultsUpTo(queue)[n - 1])
<1> DEFINE N == Len(queue)
<1>1. N \in Nat
  OBVIOUS
<1>2. ResultsUpTo(queue) = CHOOSE f : AreResultsUpTo(queue, f, N)
  BY DEF ResultsUpTo, AreResultsUpTo, ResultStep
<1>3. AreResultsUpTo(queue, ResultsUpTo(queue), N)
  BY <1>1, <1>2, ResultsExist
<1> HIDE DEF N
<1>4. ASSUME NEW n \in 0 .. N
      PROVE  ResultsUpTo(queue)[n] =
               IF n = 0 THEN <<>> ELSE ResultStep(queue, n, ResultsUpTo(queue)[n - 1])
  BY <1>3 DEF AreResultsUpTo
<1>5. 0 \in 0 .. N /\ \A n \in 1 .. N : n \in 0 .. N /\ n # 0
  BY <1>1
<1> QED BY <1>4, <1>5 DEF N

\* They are requests.
LEMMA ResultsType ==
  ASSUME NEW queue \in Seq(Alert)
  PROVE  /\ \A n \in 0 .. Len(queue) : ResultsUpTo(queue)[n] \in Seq(Request)
         /\ ResultsIn(queue) \in Seq(Request)
<1> DEFINE N == Len(queue)
           P == {n \in 0 .. N : ResultsUpTo(queue)[n] \in Seq(Request)}
<1>1. N \in Nat /\ \A n \in 1 .. N : queue[n] \in Alert
  OBVIOUS
<1>2. 0 \in P
  <2>1. <<>> \in Seq(Request) /\ 0 \in 0 .. N
    BY <1>1
  <2> QED BY <2>1, ResultsDefinition
<1>3. ASSUME NEW n \in 1 .. N, n - 1 \in P
      PROVE  n \in P
  <2>1. ResultsUpTo(queue)[n - 1] \in Seq(Request)
    BY <1>3
  <2>2. queue[n] # OtherAlert => queue[n].request \in Request
    BY <1>1, ResultFacts
  <2>3. ResultStep(queue, n, ResultsUpTo(queue)[n - 1]) \in Seq(Request)
    BY <2>1, <2>2 DEF ResultStep
  <2> QED BY <2>3, ResultsDefinition
<1>4. \A n \in 0 .. N : n \in P
  <2> HIDE DEF N, P
  <2> QED BY <1>1, <1>2, <1>3, InductionUpTo
<1> QED BY <1>1, <1>4 DEF ResultsIn

\* No alert, no result.
LEMMA ResultsOfNone ==
  ResultsIn(<<>>) = <<>>
<1>1. <<>> \in Seq(Alert) /\ Len(<<>>) = 0
  OBVIOUS
<1> QED BY <1>1, ResultsDefinition DEF ResultsIn

\* An alert at the end of the queue: its request, if it is a result, is the last.
LEMMA ResultsOfAppend ==
  ASSUME NEW queue \in Seq(Alert), NEW a \in Alert
  PROVE  ResultsIn(Append(queue, a)) =
           IF a # OtherAlert THEN Append(ResultsIn(queue), a.request) ELSE ResultsIn(queue)
<1> DEFINE N == Len(queue)
           q == Append(queue, a)
           P == {n \in 0 .. N : ResultsUpTo(q)[n] = ResultsUpTo(queue)[n]}
<1>1. /\ N \in Nat /\ q \in Seq(Alert) /\ Len(q) = N + 1 /\ q[N + 1] = a
      /\ \A n \in 1 .. N : q[n] = queue[n]
  OBVIOUS
<1> HIDE DEF q
<1>2. 0 \in P
  BY <1>1, ResultsDefinition
<1>3. ASSUME NEW n \in 1 .. N, n - 1 \in P
      PROVE  n \in P
  <2>1. /\ ResultsUpTo(q)[n] = ResultStep(q, n, ResultsUpTo(q)[n - 1])
        /\ ResultsUpTo(queue)[n] = ResultStep(queue, n, ResultsUpTo(queue)[n - 1])
    BY <1>1, ResultsDefinition
  <2>2. ResultsUpTo(q)[n - 1] = ResultsUpTo(queue)[n - 1] /\ q[n] = queue[n]
    BY <1>1, <1>3
  <2> QED BY <2>1, <2>2 DEF ResultStep
<1>4. \A n \in 0 .. N : n \in P
  <2> HIDE DEF N, P
  <2> QED BY <1>1, <1>2, <1>3, InductionUpTo
<1>5. ResultsUpTo(q)[N] = ResultsUpTo(queue)[N]
  BY <1>1, <1>4
<1>6. ResultsUpTo(q)[N + 1] = ResultStep(q, N + 1, ResultsUpTo(q)[N])
  <2>1. N + 1 \in 1 .. Len(q) /\ (N + 1) - 1 = N
    BY <1>1
  <2> QED BY <1>1, <2>1, ResultsDefinition
<1> QED BY <1>1, <1>5, <1>6 DEF ResultsIn, ResultStep, q

\* An alert at the front: its request, if it is a result, is the first.
LEMMA ResultsOfTail ==
  ASSUME NEW queue \in Seq(Alert), queue # <<>>
  PROVE  IF Head(queue) # OtherAlert
         THEN /\ ResultsIn(queue) # <<>>
              /\ Head(ResultsIn(queue)) = Head(queue).request
              /\ Tail(ResultsIn(queue)) = ResultsIn(Tail(queue))
         ELSE ResultsIn(queue) = ResultsIn(Tail(queue))
<1> DEFINE N == Len(queue) - 1
           q == Tail(queue)
           first == IF Head(queue) # OtherAlert THEN <<Head(queue).request>> ELSE <<>>
           P == {n \in 0 .. N : ResultsUpTo(queue)[n + 1] = first \o ResultsUpTo(q)[n]}
<1>1. /\ N \in Nat /\ q \in Seq(Alert) /\ Len(q) = N /\ Len(queue) = N + 1
      /\ \A n \in 1 .. N : q[n] = queue[n + 1]
      /\ queue[1] = Head(queue) /\ Head(queue) \in Alert
  OBVIOUS
<1> HIDE DEF q
<1>2. first \in Seq(Request)
  BY <1>1, ResultFacts
<1>3. 0 \in P
  <2>1. ResultsUpTo(queue)[1] = ResultStep(queue, 1, <<>>)
    <3>1. 1 \in 1 .. Len(queue) /\ 1 - 1 = 0
      BY <1>1
    <3> QED BY <3>1, ResultsDefinition
  <2>2. ResultsUpTo(q)[0] = <<>>
    BY <1>1, ResultsDefinition
  <2>3. ResultStep(queue, 1, <<>>) = first
    BY <1>1, <1>2 DEF ResultStep
  <2>4. first \o <<>> = first
    <3> HIDE DEF first
    <3> QED BY <1>2
  <2> HIDE DEF first
  <2>5. ResultsUpTo(queue)[0 + 1] = first \o ResultsUpTo(q)[0]
    <3>1. 0 + 1 = 1
      OBVIOUS
    <3> QED BY <2>1, <2>2, <2>3, <2>4, <3>1
  <2>6. 0 \in 0 .. N
    BY <1>1
  <2> QED BY <2>5, <2>6
<1> HIDE DEF first
<1>4. ASSUME NEW n \in 1 .. N, n - 1 \in P
      PROVE  n \in P
  <2>1. ResultsUpTo(queue)[n + 1] = ResultStep(queue, n + 1, ResultsUpTo(queue)[n])
    <3>1. n + 1 \in 1 .. Len(queue) /\ (n + 1) - 1 = n
      BY <1>1
    <3> QED BY <3>1, ResultsDefinition
  <2>2. ResultsUpTo(q)[n] = ResultStep(q, n, ResultsUpTo(q)[n - 1])
    BY <1>1, ResultsDefinition
  <2>3. ResultsUpTo(queue)[n] = first \o ResultsUpTo(q)[n - 1]
    <3>1. (n - 1) + 1 = n
      OBVIOUS
    <3> QED BY <1>4, <3>1
  <2>4. q[n] = queue[n + 1] /\ q[n] \in Alert
    BY <1>1
  <2> DEFINE before == ResultsUpTo(q)[n - 1]
  <2>5. before \in Seq(Request)
    <3>1. n - 1 \in 0 .. Len(q)
      BY <1>1
    <3> QED BY <1>1, <3>1, ResultsType
  <2> HIDE DEF before
  <2>6. ASSUME NEW r \in Request
        PROVE  Append(first \o before, r) = first \o Append(before, r)
    <3>1. /\ first \in Seq(Request \cup Alert) /\ before \in Seq(Request \cup Alert)
          /\ r \in Request \cup Alert
      BY <1>2, <2>5
    <3> QED BY <3>1, AppendToConcatenation
  <2>7. q[n] # OtherAlert => q[n].request \in Request
    BY <2>4, ResultFacts
  <2>8. ResultStep(queue, n + 1, first \o before) = first \o ResultStep(q, n, before)
    BY <2>4, <2>6, <2>7 DEF ResultStep
  <2> QED BY <2>1, <2>2, <2>3, <2>8 DEF before
<1>5. \A n \in 0 .. N : n \in P
  <2> HIDE DEF N, P
  <2> QED BY <1>1, <1>3, <1>4, InductionUpTo
<1>6. ResultsIn(queue) = first \o ResultsIn(q)
  BY <1>1, <1>5 DEF ResultsIn
<1>7. ResultsIn(q) \in Seq(Request)
  BY <1>1, ResultsType
<1>8. CASE Head(queue) # OtherAlert
  <2>1. first = <<Head(queue).request>> /\ Head(queue).request \in Request
    BY <1>1, <1>8, ResultFacts DEF first
  <2> QED BY <1>6, <1>7, <1>8, <2>1 DEF q
<1>9. CASE Head(queue) = OtherAlert
  BY <1>6, <1>7, <1>9 DEF first, q
<1> QED BY <1>8, <1>9
-----------------------------------------------------------------------------
(* What the service is promised about them.                                *)

\* What the service is told of one request.
PromisedOne(r) == [id |-> r.id, hasHandler |-> HasHandler(r)]

\* One promise for each, in the same order.
LEMMA PromisedEach ==
  ASSUME NEW rs \in Seq(Request)
  PROVE  /\ Promised(rs) \in Seq({PromisedOne(r) : r \in Request})
         /\ Len(Promised(rs)) = Len(rs)
         /\ \A i \in 1 .. Len(rs) : Promised(rs)[i] = PromisedOne(rs[i])
<1> DEFINE S == {PromisedOne(r) : r \in Request}
           N == Len(rs)
           p == [i \in 1 .. N |-> PromisedOne(rs[i])]
<1>1. N \in Nat /\ DOMAIN rs = 1 .. N /\ \A i \in 1 .. N : rs[i] \in Request
  OBVIOUS
<1>2. Promised(rs) = p
  BY <1>1 DEF Promised, PromisedOne
<1>3. \A i \in 1 .. N : PromisedOne(rs[i]) \in S
  BY <1>1
<1> HIDE DEF N, S
<1>4. p \in Seq(S) /\ Len(p) = N
  BY <1>1, <1>3
<1>5. \A i \in 1 .. N : p[i] = PromisedOne(rs[i])
  OBVIOUS
<1> HIDE DEF p
<1> QED BY <1>2, <1>4, <1>5 DEF N, S

\* Promises end with what the requests end with.
LEMMA PromisedOfAppend ==
  ASSUME NEW rs \in Seq(Request), NEW r \in Request
  PROVE  Promised(Append(rs, r)) = Append(Promised(rs), PromisedOne(r))
<1> DEFINE S == {PromisedOne(x) : x \in Request}
           a == Append(rs, r)
           l == Promised(a)
           p == Promised(rs)
           e == Append(p, PromisedOne(r))
<1>1. /\ a \in Seq(Request) /\ Len(a) = Len(rs) + 1 /\ Len(rs) \in Nat
      /\ \A i \in 1 .. Len(rs) : a[i] = rs[i]
      /\ a[Len(rs) + 1] = r
  OBVIOUS
<1>2. /\ l \in Seq(S) /\ Len(l) = Len(rs) + 1
      /\ \A i \in 1 .. Len(rs) + 1 : l[i] = PromisedOne(a[i])
  <2> HIDE DEF a
  <2> QED BY <1>1, PromisedEach
<1>3. /\ p \in Seq(S) /\ Len(p) = Len(rs)
      /\ \A i \in 1 .. Len(rs) : p[i] = PromisedOne(rs[i])
  BY PromisedEach
<1>4. PromisedOne(r) \in S
  OBVIOUS
<1> HIDE DEF S, l, p, a
<1>5. /\ e \in Seq(S) /\ Len(e) = Len(rs) + 1
      /\ \A i \in 1 .. Len(rs) : e[i] = p[i]
      /\ e[Len(rs) + 1] = PromisedOne(r)
  BY <1>1, <1>3, <1>4
<1> HIDE DEF e
<1>6. \A i \in 1 .. Len(rs) + 1 : l[i] = e[i]
  <2>1. \A i \in 1 .. Len(rs) : l[i] = e[i]
    BY <1>1, <1>2, <1>3, <1>5
  <2>2. l[Len(rs) + 1] = e[Len(rs) + 1]
    BY <1>1, <1>2, <1>5
  <2> QED BY <1>1, <2>1, <2>2
<1>7. l = e
  BY <1>2, <1>5, <1>6
<1> QED BY <1>7 DEF l, e, p, a

\* And begin with what the requests begin with.
LEMMA PromisedOfTail ==
  ASSUME NEW rs \in Seq(Request), rs # <<>>
  PROVE  /\ Promised(rs) # <<>>
         /\ Head(Promised(rs)) = PromisedOne(Head(rs))
         /\ Tail(Promised(rs)) = Promised(Tail(rs))
<1> DEFINE S == {PromisedOne(x) : x \in Request}
           t == Tail(rs)
           p == Promised(rs)
           l == Promised(t)
           e == Tail(p)
<1>1. /\ t \in Seq(Request) /\ Len(t) = Len(rs) - 1 /\ Len(rs) \in Nat \ {0}
      /\ \A i \in 1 .. Len(rs) - 1 : t[i] = rs[i + 1]
      /\ Head(rs) = rs[1]
  OBVIOUS
<1>2. /\ l \in Seq(S) /\ Len(l) = Len(rs) - 1
      /\ \A i \in 1 .. Len(rs) - 1 : l[i] = PromisedOne(t[i])
  <2> HIDE DEF t
  <2> QED BY <1>1, PromisedEach
<1>3. /\ p \in Seq(S) /\ Len(p) = Len(rs)
      /\ \A i \in 1 .. Len(rs) : p[i] = PromisedOne(rs[i])
  BY PromisedEach
<1> HIDE DEF S, l, p, t
<1>4. /\ e \in Seq(S) /\ Len(e) = Len(rs) - 1 /\ p # <<>> /\ Head(p) = p[1]
      /\ \A i \in 1 .. Len(rs) - 1 : e[i] = p[i + 1]
  BY <1>1, <1>3
<1> HIDE DEF e
<1>5. ASSUME NEW i \in 1 .. Len(rs) - 1
      PROVE  l[i] = e[i]
  <2>1. i + 1 \in 1 .. Len(rs)
    BY <1>1
  <2>2. e[i] = p[i + 1] /\ p[i + 1] = PromisedOne(rs[i + 1])
    BY <1>3, <1>4, <2>1
  <2>3. l[i] = PromisedOne(t[i]) /\ t[i] = rs[i + 1]
    BY <1>1, <1>2
  <2> QED BY <2>2, <2>3
<1>6. l = e
  BY <1>2, <1>4, <1>5
<1>7. Head(p) = PromisedOne(Head(rs))
  BY <1>1, <1>3, <1>4
<1> QED BY <1>4, <1>6, <1>7 DEF l, e, p, t

-----------------------------------------------------------------------------
(* The steps of the plugin, as steps of the service.                       *)

\* The requests whose handlers are still to be called.
Owed == ResultsIn(popped \o alerts)

\* The alerts on their way, after one more was queued.
LEMMA OneMoreAlert ==
  ASSUME TypeOK, NEW queue \in Seq(Alert), NEW a \in Alert
  PROVE  ResultsIn(popped \o Append(queue, a)) =
           IF a # OtherAlert THEN Append(ResultsIn(popped \o queue), a.request)
           ELSE ResultsIn(popped \o queue)
<1>1. popped \in Seq(Alert) /\ popped \o queue \in Seq(Alert)
  BY DEF TypeOK
<1>2. popped \o Append(queue, a) = Append(popped \o queue, a)
  <2>1. /\ popped \in Seq(Request \cup Alert) /\ queue \in Seq(Request \cup Alert)
        /\ a \in Request \cup Alert
    BY <1>1
  <2> QED BY <2>1, AppendToConcatenation
<1> QED BY <1>1, <1>2, ResultsOfAppend

\* A request that has a handler leaves one result, behind all that is queued; one
\* that has none leaves no result.
AnsweredOnce ==
  IF HasHandler(current)
  THEN \E queue \in {alerts, Append(alerts, OtherAlert)}, a \in ResultsOf(current) :
         alerts' = Append(queue, a)
  ELSE alerts' \in {alerts, Append(alerts, OtherAlert)}

\* While no alert is dropped a result that is sent is queued.
LEMMA ResultIsQueued ==
  ASSUME ~Lossy, NEW x \in Answers, SendRequestResult(x), HasHandler(current)
  PROVE  AnsweredOnce
<1> DEFINE a == [request |-> current, answer |-> x]
<1>1. a \in ResultsOf(current)
  BY DEF ResultsOf
<1>2. alerts' = Append(alerts, a)
  BY DEF SendRequestResult, Emplace, Emplaced
<1> QED BY <1>1, <1>2 DEF AnsweredOnce

\* Every function of the visitor sends one result, those for statuses none.
LEMMA RequestAnsweredOnce ==
  ASSUME ~Lossy, ProcessRequest
  PROVE  AnsweredOnce
<1>1. {"done", "exception", "missing torrent"} \subseteq Answers
  BY DEF Answers
<1>2. CASE RunTorrentPluginRequest
  <2>1. HasHandler(current)
    BY <1>2 DEF RunTorrentPluginRequest, Processing, HasHandler, StatusRequests,
                PluginRequests
  <2>2. CASE SendRequestResult("missing torrent")
    BY <1>1, <2>1, <2>2, ResultIsQueued
  <2>3. CASE \E o \in Outcomes(current.kind, session[current.infoHash]) :
               SendRequestResult(o[1])
    <3>1. ASSUME NEW o \in Outcomes(current.kind, session[current.infoHash])
          PROVE  o[1] \in {"done", "exception"}
      BY <3>1, OutcomesAnswer
    <3> QED BY <1>1, <2>1, <2>3, <3>1, ResultIsQueued
  <2> QED BY <1>2, <2>2, <2>3 DEF RunTorrentPluginRequest
<1>3. CASE PostTorrentPluginStatusUpdates \/ PostPeerPluginStatusUpdates
  <2>1. ~HasHandler(current)
    BY <1>3 DEF PostTorrentPluginStatusUpdates, PostPeerPluginStatusUpdates, Processing,
                HasHandler, StatusRequests
  <2>2. alerts' \in {alerts, Append(alerts, OtherAlert)}
    BY <1>3 DEF PostTorrentPluginStatusUpdates, PostPeerPluginStatusUpdates, Emplace,
                Emplaced
  <2> QED BY <2>1, <2>2 DEF AnsweredOnce
<1>4. CASE StopAllTorrentPlugins \/ PauseLibtorrent \/ AddTorrent \/ PauseTorrent
  <2>1. HasHandler(current)
    BY <1>4 DEF StopAllTorrentPlugins, PauseLibtorrent, AddTorrent, PauseTorrent,
                Processing, HasHandler, StatusRequests
  <2>2. \/ SendRequestResult("done") \/ SendRequestResult("exception")
        \/ SendRequestResult("missing torrent")
    BY <1>4 DEF StopAllTorrentPlugins, PauseLibtorrent, AddTorrent, PauseTorrent
  <2> QED BY <1>1, <2>1, <2>2, ResultIsQueued
<1>5. CASE RemoveTorrent
  <2> DEFINE a == [request |-> current, answer |-> "done"]
  <2>1. HasHandler(current)
    BY <1>5 DEF RemoveTorrent, Processing, HasHandler, StatusRequests
  <2>2. CASE SendRequestResult("missing torrent")
    BY <1>1, <2>1, <2>2, ResultIsQueued
  <2>3. CASE /\ Fits(alerts, 1) /\ Fits(RemovedAlert, 0)
             /\ alerts' = Emplaced(RemovedAlert, a, 0)
    <3>1. a \in ResultsOf(current)
      BY <1>1 DEF ResultsOf
    <3>2. alerts' = Append(Append(alerts, OtherAlert), a)
      BY <2>3 DEF RemovedAlert, Emplaced
    <3> QED BY <2>1, <3>1, <3>2 DEF AnsweredOnce
  <2> QED BY <1>5, <2>2, <2>3 DEF RemoveTorrent, TorrentRemoved
<1> QED BY <1>2, <1>3, <1>4, <1>5 DEF ProcessRequest

\* So processing it is what carries it out, for the service.
LEMMA RequestOwed ==
  ASSUME ~Lossy, TypeOK, ProcessRequest
  PROVE  Owed' = IF HasHandler(current) THEN Append(Owed, current) ELSE Owed
<1>1. current \in Request /\ popped' = popped
  BY ProcessRequestEffect DEF dispatchVars
<1>2. alerts \in Seq(Alert) /\ OtherAlert \in Alert
  BY ResultFacts DEF TypeOK
<1>3. ASSUME NEW queue \in {alerts, Append(alerts, OtherAlert)}
      PROVE  queue \in Seq(Alert) /\ ResultsIn(popped \o queue) = Owed
  <2>1. CASE queue = alerts
    BY <1>2, <2>1 DEF Owed
  <2>2. CASE queue = Append(alerts, OtherAlert)
    <3>1. ResultsIn(popped \o Append(alerts, OtherAlert)) = ResultsIn(popped \o alerts)
      BY <1>2, OneMoreAlert
    <3>2. Append(alerts, OtherAlert) \in Seq(Alert)
      BY <1>2
    <3> QED BY <2>2, <3>1, <3>2 DEF Owed
  <2> QED BY <2>1, <2>2
<1>4. CASE HasHandler(current)
  <2>1. PICK queue \in {alerts, Append(alerts, OtherAlert)}, a \in ResultsOf(current) :
               alerts' = Append(queue, a)
    BY <1>4, RequestAnsweredOnce DEF AnsweredOnce
  <2>2. a \in Alert /\ a # OtherAlert /\ a.request = current
    BY <1>1, ResultFacts DEF ResultsOf, Alert
  <2>3. queue \in Seq(Alert) /\ ResultsIn(popped \o queue) = Owed
    BY <1>3
  <2>4. ResultsIn(popped \o Append(queue, a)) = Append(Owed, current)
    BY <2>2, <2>3, OneMoreAlert
  <2> QED BY <1>1, <1>4, <2>1, <2>4 DEF Owed
<1>5. CASE ~HasHandler(current)
  <2>1. alerts' \in {alerts, Append(alerts, OtherAlert)}
    BY <1>5, RequestAnsweredOnce DEF AnsweredOnce
  <2>2. ResultsIn(popped \o alerts') = Owed
    BY <1>3, <2>1
  <2> QED BY <1>1, <1>5, <2>2 DEF Owed
<1> QED BY <1>4, <1>5

\* At first nothing was submitted.
LEMMA InitImplementsService ==
  ASSUME Init
  PROVE  Service!ServiceInit
<1>1. Promised(<<>>) = <<>>
  BY DEF Promised
<1>2. Unprocessed = <<>> /\ popped \o alerts = <<>>
  BY DEF Init, Unprocessed
<1> QED BY <1>1, <1>2, ResultsOfNone DEF Init, Service!ServiceInit

\* A request that is submitted is the last of those not carried out.
LEMMA SubmitImplementsService ==
  ASSUME TypeOK, Clients
  PROVE  Service!SubmitRequest
<1> USE DEF queueVars, dispatchVars, torrentVars
<1>1. PICK kind \in Kinds, t \in InfoHashes : Submit(kind, t)
  BY DEF Clients
<1> DEFINE r == [id |-> submitted + 1, kind |-> kind, infoHash |-> t]
           front == IF current = NoRequest THEN <<>> ELSE <<current>>
<1>2. /\ submitted' = submitted + 1
      /\ requestQueue' = Append(requestQueue, r)
      /\ UNCHANGED <<current, popped, alerts, answered>>
      /\ submitted < MaxSubmits
  BY <1>1 DEF Submit
<1>3. r \in Request /\ r.id = submitted + 1
  <2>1. submitted + 1 \in 1 .. MaxSubmits
    BY <1>2, MaxSubmitsAssumption DEF TypeOK
  <2> QED BY <2>1 DEF Request
<1> HIDE DEF r
<1>4. requestQueue \in Seq(Request) /\ front \in Seq(Request)
  BY DEF TypeOK
<1>5. Unprocessed \in Seq(Request)
  BY <1>4 DEF Unprocessed
<1>6. Unprocessed' = Append(Unprocessed, r)
  <2> HIDE DEF front
  <2>1. /\ front \in Seq(Request \cup Alert) /\ requestQueue \in Seq(Request \cup Alert)
        /\ r \in Request \cup Alert
    BY <1>3, <1>4
  <2>2. Append(front \o requestQueue, r) = front \o Append(requestQueue, r)
    BY <2>1, AppendToConcatenation
  <2> QED BY <1>2, <2>2 DEF Unprocessed, front
<1>7. Promised(Unprocessed)' = Append(Promised(Unprocessed), PromisedOne(r))
  BY <1>3, <1>5, <1>6, PromisedOfAppend
<1>8. PromisedOne(r) = [id |-> submitted + 1, hasHandler |-> HasHandler(r)]
  BY <1>3 DEF PromisedOne
<1>9. HasHandler(r) \in BOOLEAN
  BY DEF HasHandler
<1>10. UNCHANGED <<Promised(ResultsIn(popped \o alerts)), Promised(ResultsIn(answered))>>
  BY <1>2
<1> QED BY <1>2, <1>7, <1>8, <1>9, <1>10 DEF Service!SubmitRequest

\* To process a request is to carry it out.
LEMMA ProcessImplementsService ==
  ASSUME ~Lossy, TypeOK, ProcessRequest
  PROVE  Service!CarryOut
<1>1. /\ current \in Request /\ current # NoRequest /\ current' = NoRequest
      /\ UNCHANGED <<submitted, requestQueue, answered>>
  BY ProcessRequestEffect, NoRequestAssumption DEF queueVars, dispatchVars
<1>2. /\ Unprocessed \in Seq(Request) /\ Unprocessed # <<>>
      /\ Head(Unprocessed) = current /\ Tail(Unprocessed) = Unprocessed'
  <2>1. requestQueue \in Seq(Request)
    BY DEF TypeOK
  <2>2. Unprocessed = <<current>> \o requestQueue /\ Unprocessed' = requestQueue
    BY <1>1, <2>1 DEF Unprocessed
  <2> QED BY <1>1, <2>1, <2>2
<1>3. /\ Promised(Unprocessed) # <<>>
      /\ Head(Promised(Unprocessed)) = PromisedOne(current)
      /\ Tail(Promised(Unprocessed)) = Promised(Unprocessed)'
  BY <1>2, PromisedOfTail
<1>4. Owed \in Seq(Request)
  <2>1. popped \o alerts \in Seq(Alert)
    BY DEF TypeOK
  <2> QED BY <2>1, ResultsType DEF Owed
<1>5. Promised(Owed)' = IF HasHandler(current)
                        THEN Append(Promised(Owed), PromisedOne(current))
                        ELSE Promised(Owed)
  BY <1>1, <1>4, RequestOwed, PromisedOfAppend
<1>6. PromisedOne(current).hasHandler = HasHandler(current)
  BY DEF PromisedOne
<1>7. UNCHANGED <<submitted, Promised(ResultsIn(answered))>>
  BY <1>1
<1> QED BY <1>3, <1>5, <1>6, <1>7 DEF Service!CarryOut, Owed

\* To dispatch a result is to call its handler.
LEMMA DispatchImplementsService ==
  ASSUME TypeOK, DispatchAlert
  PROVE  Service!CallHandler \/ UNCHANGED Service!serviceVars
<1> DEFINE way == popped \o alerts
           a == Head(popped)
<1>1. /\ popped \in Seq(Alert) /\ popped # <<>> /\ popped' = Tail(popped)
      /\ alerts \in Seq(Alert) /\ answered \in Seq(Alert)
      /\ answered' = IF a # OtherAlert THEN Append(answered, a) ELSE answered
      /\ UNCHANGED <<submitted, current, requestQueue, alerts>>
  BY DEF DispatchAlert, TypeOK, queueVars, Alert
<1>2. /\ way \in Seq(Alert) /\ way # <<>> /\ Head(way) = a /\ a \in Alert
      /\ Tail(way) = way'
  <2>1. way \in Seq(Alert) /\ way # <<>> /\ Head(way) = a /\ a \in Alert
    BY <1>1
  <2>2. Tail(popped) \o alerts = Tail(popped \o alerts)
    <3> DEFINE l == Tail(popped) \o alerts
               r == Tail(popped \o alerts)
    <3>1. /\ l \in Seq(Alert) /\ r \in Seq(Alert) /\ Len(l) = Len(r)
      BY <1>1, <2>1
    <3>2. \A i \in 1 .. Len(l) : l[i] = r[i]
      BY <1>1, <2>1
    <3> HIDE DEF l, r
    <3>3. l = r
      BY <3>1, <3>2
    <3> QED BY <3>3 DEF l, r
  <2> QED BY <1>1, <2>1, <2>2
<1> HIDE DEF way
<1>3. ResultsIn(way) \in Seq(Request) /\ ResultsIn(answered) \in Seq(Request)
  BY <1>1, <1>2, ResultsType
<1>4. UNCHANGED <<submitted, Promised(Unprocessed)>>
  BY <1>1 DEF Unprocessed
<1>5. CASE a # OtherAlert
  <2>1. /\ ResultsIn(way) # <<>> /\ Head(ResultsIn(way)) = a.request
        /\ Tail(ResultsIn(way)) = ResultsIn(way)'
    BY <1>2, <1>5, ResultsOfTail
  <2>2. /\ Promised(ResultsIn(way)) # <<>>
        /\ Head(Promised(ResultsIn(way))) = PromisedOne(a.request)
        /\ Tail(Promised(ResultsIn(way))) = Promised(ResultsIn(way))'
    BY <1>3, <2>1, PromisedOfTail
  <2>3. ResultsIn(answered)' = Append(ResultsIn(answered), a.request)
    BY <1>1, <1>2, <1>5, ResultsOfAppend
  <2>4. a.request \in Request
    BY <1>2, <1>5, ResultFacts
  <2>5. Promised(ResultsIn(answered))' =
          Append(Promised(ResultsIn(answered)), PromisedOne(a.request))
    BY <1>3, <2>3, <2>4, PromisedOfAppend
  <2>6. Service!CallHandler
    BY <1>4, <2>2, <2>5 DEF Service!CallHandler, way
  <2> QED BY <2>6
<1>6. CASE a = OtherAlert
  <2>1. ResultsIn(way)' = ResultsIn(way)
    BY <1>2, <1>6, ResultsOfTail
  <2>2. answered' = answered
    BY <1>1, <1>6
  <2> QED BY <1>4, <2>1, <2>2 DEF Service!serviceVars, way
<1> QED BY <1>5, <1>6

\* Whatever else happens, the service does not see: requests and alerts that move
\* from one queue to the next, alerts that are no results, failed assertions.
LEMMA OthersStutterForService ==
  ASSUME TypeOK,
         \/ Added \/ OnTick \/ QueueIsEmpty \/ PopRequest \/ PopAlerts \/ Libtorrent \/ Aborts
         \/ UNCHANGED vars
  PROVE  UNCHANGED Service!serviceVars
<1> USE DEF queueVars, dispatchVars, torrentVars
<1>1. ASSUME UNCHANGED <<submitted, answered>>, Unprocessed' = Unprocessed,
             Owed' = Owed
      PROVE  UNCHANGED Service!serviceVars
  BY <1>1 DEF Service!serviceVars, Owed
<1>2. CASE Added \/ OnTick \/ QueueIsEmpty \/ Aborts \/ UNCHANGED vars
  <2>1. UNCHANGED <<submitted, answered, requestQueue, current, popped, alerts>>
    BY <1>2 DEF Added, OnTick, QueueIsEmpty, Aborts, NewTorrentAborts, OnAlertAborts,
                VisitorAborts, Abort, vars
  <2>2. Unprocessed' = Unprocessed /\ Owed' = Owed
    BY <2>1 DEF Unprocessed, Owed
  <2> QED BY <1>1, <2>1, <2>2
<1>3. CASE PopRequest
  <2>1. /\ requestQueue \in Seq(Request) /\ requestQueue # <<>> /\ current = NoRequest
        /\ current' = Head(requestQueue) /\ requestQueue' = Tail(requestQueue)
        /\ UNCHANGED <<submitted, popped, answered, alerts>>
    BY <1>3 DEF PopRequest, TypeOK
  <2>2. current' # NoRequest
    BY <2>1, NoRequestAssumption
  <2>3. Unprocessed = requestQueue /\ Unprocessed' = <<Head(requestQueue)>> \o Tail(requestQueue)
    BY <2>1, <2>2 DEF Unprocessed
  <2>4. <<Head(requestQueue)>> \o Tail(requestQueue) = requestQueue
    BY <2>1
  <2>5. Owed' = Owed
    BY <2>1 DEF Owed
  <2> QED BY <1>1, <2>1, <2>3, <2>4, <2>5
<1>4. CASE PopAlerts
  <2>1. /\ popped = <<>> /\ popped' = alerts /\ alerts' = <<>> /\ alerts \in Seq(Alert)
        /\ UNCHANGED <<submitted, requestQueue, current, answered>>
    BY <1>4 DEF PopAlerts, TypeOK
  <2>2. popped \o alerts = alerts /\ popped' \o alerts' = alerts
    BY <2>1
  <2>3. Unprocessed' = Unprocessed /\ Owed' = Owed
    BY <2>1, <2>2 DEF Unprocessed, Owed
  <2> QED BY <1>1, <2>1, <2>3
<1>5. CASE Libtorrent
  <2>1. /\ UNCHANGED <<submitted, answered, requestQueue, current, popped>>
        /\ alerts' = alerts \/ alerts' = Emplaced(alerts, OtherAlert, 1)
    BY <1>5, LibtorrentEffect
  <2>2. alerts' = alerts \/ alerts' = Append(alerts, OtherAlert)
    BY <2>1 DEF Emplaced
  <2>3. ResultsIn(popped \o Append(alerts, OtherAlert)) = ResultsIn(popped \o alerts)
    BY OneMoreAlert, ResultFacts DEF TypeOK
  <2>4. Unprocessed' = Unprocessed /\ Owed' = Owed
    BY <2>1, <2>2, <2>3 DEF Unprocessed, Owed
  <2> QED BY <1>1, <2>1, <2>4
<1> QED BY <1>2, <1>3, <1>4, <1>5

\* While clients take alerts in time, the queue, the ticks and the alerts do what
\* the service promises, and nothing else: each request is carried out once, in
\* the order of submission, and the handler of each that has one is called once,
\* in that order, for any number of requests, torrents and clients.
THEOREM PluginImplementsService ==
  ASSUME ~Lossy
  PROVE  Spec => Service!ServiceSafety
<1>1. Init => Service!ServiceInit
  BY InitImplementsService
<1>2. TypeOK /\ [Next]_vars => [Service!ServiceNext]_(Service!serviceVars)
  <2> SUFFICES ASSUME TypeOK, [Next]_vars
               PROVE  Service!ServiceNext \/ UNCHANGED Service!serviceVars
    OBVIOUS
  <2>1. CASE Clients
    BY <2>1, SubmitImplementsService DEF Service!ServiceNext
  <2>2. CASE ProcessRequest
    BY <2>2, ProcessImplementsService DEF Service!ServiceNext
  <2>3. CASE DispatchAlert
    BY <2>3, DispatchImplementsService DEF Service!ServiceNext
  <2>4. CASE \/ Added \/ OnTick \/ QueueIsEmpty \/ PopRequest \/ PopAlerts \/ Libtorrent
             \/ Aborts \/ UNCHANGED vars
    BY <2>4, OthersStutterForService
  <2> QED BY <2>1, <2>2, <2>3, <2>4 DEF Next, ProcessesRequestQueue, Aborts
<1> QED BY <1>1, <1>2, TypeCorrect, PTL DEF Spec, Service!ServiceSafety

=================================================================================
