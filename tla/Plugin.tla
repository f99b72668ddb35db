-------------------------------- MODULE Plugin --------------------------------
(***************************************************************************)
(* Class Plugin and detail::RequestVariantVisitor: the queue requests are  *)
(* submitted to, the map of torrent plugins, and the alerts that carry the *)
(* results back.                                                           *)
(*                                                                         *)
(* Three parties run concurrently.  Client threads submit.  The network    *)
(* thread of libtorrent ticks, and calls every other function of Plugin.   *)
(* The thread that dispatches alerts takes all that are queued and calls   *)
(* the handlers in them.  The mutex is held for one queue operation, so    *)
(* an operation on the queue is a step, and whatever happens while it is   *)
(* released, the whole processing of a request included, is another.       *)
(*                                                                         *)
(* Of libtorrent: add_torrent makes one torrent per info hash and calls    *)
(* new_torrent for it; emplace_alert calls on_alert at once, in the calling*)
(* thread; it drops, without that call, an alert that finds the queue at   *)
(* its limit, which is twice as high for alerts of priority 1.             *)
(***************************************************************************)
EXTENDS Naturals, Sequences

CONSTANTS
  InfoHashes,    \* torrents
  NoRequest,     \* no request is being processed
  Kinds,         \* kinds of requests the clients submit
  MaxSubmits,    \* bound on the requests submitted
  AlertLimit,    \* limit of libtorrent's alert queue
  Lossy          \* FALSE bounds the model to clients that take alerts in time

ASSUME MaxSubmitsAssumption == MaxSubmits \in Nat
ASSUME AlertLimitAssumption == AlertLimit \in Nat \ {0}
ASSUME LossyAssumption == Lossy \in BOOLEAN

VARIABLES
  submitted,        \* number of requests submitted
  requestQueue,     \* _requestQueue
  addedToSession,   \* _addedToSession
  ticking,          \* the network thread is in processesRequestQueue
  current,          \* the request popped and not processed, or NoRequest
  torrents,         \* torrents in the libtorrent session
  torrentPlugins,   \* _torrentPlugins: the state of each weak_ptr
  session,          \* mode and state of the protocol session of each torrent
  alerts,           \* alerts queued
  popped,           \* alerts the dispatching thread has taken
  answered,         \* results whose handler was called, in that order
  aborted           \* the function whose assertion failed, or "none"

queueVars == <<submitted, requestQueue>>
dispatchVars == <<popped, answered>>
torrentVars == <<torrents, torrentPlugins, session>>
vars == <<queueVars, addedToSession, ticking, current, torrentVars, alerts,
          dispatchVars, aborted>>

\* Requests on one torrent plugin, by runTorrentPluginRequest.  "to mode" stands
\* for the three mode changes, "other" for those that leave mode and state alone:
\* the terms, startDownloading, startUploading, the interaction and dropPeer.
PluginRequests == {"start", "stop", "pause", "to mode", "other"}

\* Requests on a torrent in libtorrent.  PauseTorrent and ResumeTorrent differ in
\* nothing that is visible here.
LibtorrentRequests == {"add torrent", "remove torrent", "pause torrent"}

\* Requests that answer with alerts of their own, and have no handler.
StatusRequests == {"torrent status", "peer status"}

\* Requests that name no torrent and cannot fail.
GlobalRequests == {"stop all", "pause libtorrent"}

ASSUME KindsAssumption ==
  Kinds \subseteq PluginRequests \cup LibtorrentRequests \cup StatusRequests
                    \cup GlobalRequests

\* "unset" is a session without a mode, which is also stopped.
SessionStates == {"unset", "stopped", "started", "paused"}

Request == [id : 1..MaxSubmits, kind : Kinds, infoHash : InfoHashes]

ASSUME NoRequestAssumption == NoRequest \notin Request

HasHandler(r) == r.kind \notin StatusRequests

Answers == {"done", "exception", "missing torrent"}

\* The alerts the dispatching thread tells apart: a result has a handler to call,
\* with an answer; of any other alert only its place in the queue matters.
RequestResult == [request : Request, answer : Answers]
OtherAlert == [request |-> NoRequest, answer |-> "none"]

Alert == RequestResult \cup {OtherAlert}

TypeOK ==
  /\ submitted \in 0..MaxSubmits
  /\ requestQueue \in Seq(Request)
  /\ addedToSession \in BOOLEAN
  /\ ticking \in BOOLEAN /\ (ticking => addedToSession)
  /\ current \in Request \cup {NoRequest}
  /\ torrents \subseteq InfoHashes
  /\ torrentPlugins \in [InfoHashes -> {"none", "live", "expired"}]
  /\ session \in [InfoHashes -> SessionStates]
  /\ alerts \in Seq(Alert) /\ Len(alerts) <= 2 * AlertLimit
  /\ popped \in Seq(Alert)
  /\ answered \in Seq(RequestResult)
  /\ aborted \in {"none", "new_torrent", "on_alert", "visitor"}

Init ==
  /\ submitted = 0
  /\ requestQueue = <<>>
  /\ addedToSession = FALSE
  /\ ticking = FALSE
  /\ current = NoRequest
  /\ torrents = {}
  /\ torrentPlugins = [t \in InfoHashes |-> "none"]
  /\ session = [t \in InfoHashes |-> "unset"]
  /\ alerts = <<>>
  /\ popped = <<>>
  /\ answered = <<>>
  /\ aborted = "none"

-----------------------------------------------------------------------------
\* A step begins, and ends, in a process no assertion has stopped.
Running == aborted = "none" /\ UNCHANGED aborted

\* The network thread is free to do what is not a tick of this plugin.
NetworkThreadFree == Running /\ ~ticking

Fits(queue, priority) == Len(queue) < AlertLimit * (1 + priority)

\* The queue after emplace_alert of an alert with this priority.
Emplaced(queue, alert, priority) ==
  IF Fits(queue, priority) THEN Append(queue, alert) ELSE queue

\* emplace_alert of a result or a status, both of priority 0.  on_alert ignores
\* these types.
Emplace(alert) ==
  /\ Lossy \/ Fits(alerts, 0)
  /\ alerts' = Emplaced(alerts, alert, 0)

-----------------------------------------------------------------------------
(* Client threads.                                                         *)

\* A submit that puts the request at the front of the queue.
MutantSubmit(kind, t) ==
  /\ Running
  /\ submitted < MaxSubmits
  /\ submitted' = submitted + 1
  /\ requestQueue' = <<[id |-> submitted + 1, kind |-> kind, infoHash |-> t]>>
                       \o requestQueue
  /\ UNCHANGED <<addedToSession, ticking, current, torrentVars, alerts, dispatchVars>>

Submit(kind, t) ==
  /\ Running
  /\ submitted < MaxSubmits
  /\ submitted' = submitted + 1
  /\ requestQueue' =
       Append(requestQueue, [id |-> submitted + 1, kind |-> kind, infoHash |-> t])
  /\ UNCHANGED <<addedToSession, ticking, current, torrentVars, alerts, dispatchVars>>

-----------------------------------------------------------------------------
(* The request queue, in the network thread.                               *)

Added ==
  /\ NetworkThreadFree
  /\ ~addedToSession
  /\ addedToSession' = TRUE
  /\ UNCHANGED <<queueVars, ticking, current, torrentVars, alerts, dispatchVars>>

\* An on_tick that does not look at _addedToSession.
MutantOnTick ==
  /\ NetworkThreadFree
  /\ ticking' = TRUE
  /\ UNCHANGED <<queueVars, addedToSession, current, torrentVars, alerts, dispatchVars>>

\* on_tick enters processesRequestQueue once the plugin is added.
OnTick ==
  /\ NetworkThreadFree
  /\ addedToSession
  /\ ticking' = TRUE
  /\ UNCHANGED <<queueVars, addedToSession, current, torrentVars, alerts, dispatchVars>>

\* A loop that leaves the request in the queue while it is processed.
MutantPopRequest ==
  /\ Running
  /\ ticking /\ current = NoRequest
  /\ requestQueue # <<>>
  /\ current' = Head(requestQueue)
  /\ UNCHANGED <<queueVars, addedToSession, ticking, torrentVars, alerts, dispatchVars>>

\* One lock of the mutex: the loop condition, front and pop_front.
PopRequest ==
  /\ Running
  /\ ticking /\ current = NoRequest
  /\ requestQueue # <<>>
  /\ current' = Head(requestQueue)
  /\ requestQueue' = Tail(requestQueue)
  /\ UNCHANGED <<submitted, addedToSession, ticking, torrentVars, alerts, dispatchVars>>

\* A processesRequestQueue that clears the queue when it is done with the
\* requests that were there when it started.
MutantQueueIsEmpty ==
  /\ Running
  /\ ticking /\ current = NoRequest
  /\ ticking' = FALSE
  /\ requestQueue' = <<>>
  /\ UNCHANGED <<submitted, addedToSession, current, torrentVars, alerts, dispatchVars>>

\* The loop ends when it finds the queue empty.
QueueIsEmpty ==
  /\ Running
  /\ ticking /\ current = NoRequest
  /\ requestQueue = <<>>
  /\ ticking' = FALSE
  /\ UNCHANGED <<queueVars, addedToSession, current, torrentVars, alerts, dispatchVars>>

-----------------------------------------------------------------------------
(* The torrent plugins.                                                    *)

\* libtorrent adds a torrent, and new_torrent makes its plugin.
NewTorrent(t) ==
  /\ torrents' = torrents \cup {t}
  /\ torrentPlugins' = [torrentPlugins EXCEPT ![t] = "live"]
  /\ session' = [session EXCEPT ![t] = "unset"]

\* The assertion in new_torrent.
NewTorrentAsserts(t) == torrentPlugins[t] = "none"

\* An on_alert that keeps the entry of a removed torrent.
MutantTorrentRemoved(t) ==
  /\ Lossy \/ Fits(alerts, 1)
  /\ torrents' = torrents \ {t}
  /\ UNCHANGED <<torrentPlugins, session>>

\* libtorrent removes a torrent, and on_alert erases its entry if the alert is
\* queued.  The torrent, and with it the plugin, is destroyed some time later.
TorrentRemoved(t) ==
  /\ Lossy \/ Fits(alerts, 1)
  /\ torrents' = torrents \ {t}
  /\ torrentPlugins' = IF Fits(alerts, 1)
                       THEN [torrentPlugins EXCEPT ![t] = "none"]
                       ELSE torrentPlugins
  /\ session' = IF Fits(alerts, 1) THEN [session EXCEPT ![t] = "unset"] ELSE session

RemovedAlert == Emplaced(alerts, OtherAlert, 1)

\* The client adds and removes torrents without a request, too.
AddedByClient(t) ==
  /\ NetworkThreadFree
  /\ addedToSession
  /\ t \notin torrents /\ NewTorrentAsserts(t)
  /\ NewTorrent(t)
  /\ UNCHANGED <<queueVars, addedToSession, ticking, current, alerts, dispatchVars>>

RemovedByClient(t) ==
  /\ NetworkThreadFree
  /\ t \in torrents
  /\ TorrentRemoved(t)
  /\ alerts' = RemovedAlert
  /\ UNCHANGED <<queueVars, addedToSession, ticking, current, dispatchVars>>

\* The last reference libtorrent holds to a removed torrent goes, and with it the
\* plugin and its session.
TorrentDestroyed(t) ==
  /\ NetworkThreadFree
  /\ t \notin torrents
  /\ torrentPlugins[t] = "live"
  /\ torrentPlugins' = [torrentPlugins EXCEPT ![t] = "expired"]
  /\ session' = [session EXCEPT ![t] = "unset"]
  /\ UNCHANGED <<queueVars, addedToSession, ticking, current, torrents, alerts,
                 dispatchVars>>

\* on_alert with a piece that was read: TorrentPlugin has the piece, see there.
ReadPieceAlert(t) ==
  /\ NetworkThreadFree
  /\ Lossy \/ Fits(alerts, 1)
  /\ Fits(alerts, 1) => torrentPlugins[t] # "expired"
  /\ alerts' = Emplaced(alerts, OtherAlert, 1)
  /\ UNCHANGED <<queueVars, addedToSession, ticking, current, torrentVars, dispatchVars>>

-----------------------------------------------------------------------------
(* RequestVariantVisitor, one operator per group of requests.  Exceptions  *)
(* do not leave it: they are the answer.                                   *)

Processing(kinds) ==
  /\ Running
  /\ ticking /\ current # NoRequest
  /\ current.kind \in kinds
  /\ current' = NoRequest
  /\ UNCHANGED <<queueVars, addedToSession, ticking, dispatchVars>>

SendRequestResult(answer) == Emplace([request |-> current, answer |-> answer])

\* What a request on a torrent plugin answers, and the session it leaves behind,
\* when it finds the session in s.
Outcomes(kind, s) ==
  CASE kind = "start" ->
         IF s \in {"stopped", "paused"} THEN {<<"done", "started">>}
         ELSE {<<"exception", s>>}
    [] kind = "stop" ->
         IF s \in {"started", "paused"} THEN {<<"done", "stopped">>}
         ELSE {<<"exception", s>>}
    [] kind = "pause" ->
         IF s = "started" THEN {<<"done", "paused">>} ELSE {<<"exception", s>>}
    [] kind = "to mode" ->
         {<<"done", IF s = "unset" THEN "stopped" ELSE s>>, <<"exception", s>>}
    [] OTHER -> {<<"done", s>>, <<"exception", s>>}

RunTorrentPluginRequest ==
  /\ Processing(PluginRequests)
  /\ LET t == current.infoHash IN
     \/ /\ torrentPlugins[t] = "none"
        /\ SendRequestResult("missing torrent")
        /\ UNCHANGED session
     \/ /\ torrentPlugins[t] = "live"
        /\ \E o \in Outcomes(current.kind, session[t]) :
             SendRequestResult(o[1]) /\ session' = [session EXCEPT ![t] = o[2]]
  /\ UNCHANGED <<torrents, torrentPlugins>>

\* A status of every torrent plugin is posted; a status of the peers only for a
\* torrent plugin whose session has a mode.
PostTorrentPluginStatusUpdates ==
  /\ Processing({"torrent status"})
  /\ \A t \in InfoHashes : torrentPlugins[t] # "expired"
  /\ Emplace(OtherAlert)
  /\ UNCHANGED torrentVars

PostPeerPluginStatusUpdates ==
  /\ Processing({"peer status"})
  /\ LET t == current.infoHash IN
     /\ torrentPlugins[t] # "expired"
     /\ IF torrentPlugins[t] = "live" /\ session[t] # "unset"
        THEN Emplace(OtherAlert)
        ELSE UNCHANGED alerts
  /\ UNCHANGED torrentVars

StopAllTorrentPlugins ==
  /\ Processing({"stop all"})
  /\ session' = [t \in InfoHashes |->
       IF torrentPlugins[t] = "live" /\ session[t] \in {"started", "paused"}
       THEN "stopped" ELSE session[t]]
  /\ SendRequestResult("done")
  /\ UNCHANGED <<torrents, torrentPlugins>>

PauseLibtorrent ==
  /\ Processing({"pause libtorrent"})
  /\ SendRequestResult("done")
  /\ UNCHANGED torrentVars

\* add_torrent finds the torrent there, adds it, or fails.  For a torrent that is
\* there it fails only with flag_duplicate_is_error, which the client sets or not.
AddTorrent ==
  /\ Processing({"add torrent"})
  /\ LET t == current.infoHash IN
     \/ SendRequestResult("exception") /\ UNCHANGED torrentVars
     \/ t \in torrents /\ SendRequestResult("done") /\ UNCHANGED torrentVars
     \/ /\ t \notin torrents /\ NewTorrentAsserts(t)
        /\ NewTorrent(t)
        /\ SendRequestResult("done")

\* remove_torrent queues its alert before the result is queued.
RemoveTorrent ==
  /\ Processing({"remove torrent"})
  /\ LET t == current.infoHash IN
     IF t \in torrents
     THEN /\ TorrentRemoved(t)
          /\ Lossy \/ Fits(RemovedAlert, 0)
          /\ alerts' = Emplaced(RemovedAlert, [request |-> current, answer |-> "done"], 0)
     ELSE SendRequestResult("missing torrent") /\ UNCHANGED torrentVars

PauseTorrent ==
  /\ Processing({"pause torrent"})
  /\ SendRequestResult(IF current.infoHash \in torrents THEN "done"
                       ELSE "missing torrent")
  /\ UNCHANGED torrentVars

ProcessRequest ==
  \/ RunTorrentPluginRequest
  \/ PostTorrentPluginStatusUpdates \/ PostPeerPluginStatusUpdates
  \/ StopAllTorrentPlugins \/ PauseLibtorrent
  \/ AddTorrent \/ RemoveTorrent \/ PauseTorrent

-----------------------------------------------------------------------------
(* The thread that dispatches alerts takes all that are queued, and calls  *)
(* the handlers.                                                           *)

PopAlerts ==
  /\ Running
  /\ popped = <<>> /\ alerts # <<>>
  /\ popped' = alerts
  /\ alerts' = <<>>
  /\ UNCHANGED <<queueVars, addedToSession, ticking, current, torrentVars, answered>>

DispatchAlert ==
  /\ Running
  /\ popped # <<>>
  /\ popped' = Tail(popped)
  /\ answered' = IF Head(popped) # OtherAlert THEN Append(answered, Head(popped))
                 ELSE answered
  /\ UNCHANGED <<queueVars, addedToSession, ticking, current, torrentVars, alerts>>

-----------------------------------------------------------------------------
(* Assertions that fail.  A build without them dereferences a null pointer *)
(* there, or replaces the plugin of a torrent.                             *)

Abort(site) ==
  /\ aborted = "none"
  /\ aborted' = site
  /\ UNCHANGED <<queueVars, addedToSession, ticking, current, torrentVars, alerts,
                 dispatchVars>>

NewTorrentAborts ==
  /\ \E t \in InfoHashes \ torrents :
       /\ ~NewTorrentAsserts(t)
       /\ \/ ~ticking
          \/ ticking /\ current # NoRequest
               /\ current.kind = "add torrent" /\ current.infoHash = t
  /\ Abort("new_torrent")

OnAlertAborts ==
  /\ ~ticking
  /\ Fits(alerts, 1)
  /\ \E t \in InfoHashes : torrentPlugins[t] = "expired"
  /\ Abort("on_alert")

VisitorAborts ==
  /\ ticking /\ current # NoRequest
  /\ \/ current.kind \in PluginRequests \cup {"peer status"}
          /\ torrentPlugins[current.infoHash] = "expired"
     \/ current.kind = "torrent status"
          /\ \E t \in InfoHashes : torrentPlugins[t] = "expired"
  /\ Abort("visitor")

-----------------------------------------------------------------------------
Clients == \E kind \in Kinds, t \in InfoHashes : Submit(kind, t)

ProcessesRequestQueue == PopRequest \/ ProcessRequest \/ QueueIsEmpty

Libtorrent ==
  \E t \in InfoHashes :
    AddedByClient(t) \/ RemovedByClient(t) \/ TorrentDestroyed(t) \/ ReadPieceAlert(t)

Next ==
  \/ Clients
  \/ Added \/ OnTick \/ ProcessesRequestQueue
  \/ Libtorrent
  \/ PopAlerts \/ DispatchAlert
  \/ NewTorrentAborts \/ OnAlertAborts \/ VisitorAborts

Spec == Init /\ [][Next]_vars

\* libtorrent adds the plugin, ticks again and again, and returns from the calls
\* a request makes; the client dispatches alerts again and again.  Nobody has to
\* submit anything.
FairSpec ==
  /\ Spec
  /\ WF_vars(Added)
  /\ WF_vars(OnTick \/ ProcessesRequestQueue)
  /\ WF_vars(PopAlerts)
  /\ WF_vars(DispatchAlert)

-----------------------------------------------------------------------------
(* Properties.                                                             *)

\* The requests whose results are among the first n of these alerts, for each n.
ResultsUpTo(queue) ==
  LET upTo[n \in 0 .. Len(queue)] ==
        IF n = 0 THEN <<>>
        ELSE IF queue[n] # OtherAlert THEN Append(upTo[n - 1], queue[n].request)
        ELSE upTo[n - 1]
  IN  upTo

ResultsIn(queue) == ResultsUpTo(queue)[Len(queue)]

Unprocessed == (IF current = NoRequest THEN <<>> ELSE <<current>>) \o requestQueue

\* The request of each of these alerts, NoRequest if it is not a result.
RequestsOf(queue) == [i \in DOMAIN queue |-> queue[i].request]

\* Every request is somewhere on its way, once, and none overtakes another: the
\* handlers are called in the order of submission, whichever threads submit, and
\* whether a request is submitted before, between or during ticks.
InOrderOfSubmission ==
  LET way == RequestsOf(answered \o popped \o alerts) \o Unprocessed
  IN  \A i, j \in DOMAIN way :
        i < j /\ way[i] # NoRequest /\ way[j] # NoRequest => way[i].id < way[j].id

\* The map has one live plugin per torrent of libtorrent, and no other entry: so
\* the assertions on weak_ptrs hold, and a torrent that is removed and added
\* again gets a new plugin.
PluginsMatchTorrents ==
  \A t \in InfoHashes :
    torrentPlugins[t] = IF t \in torrents THEN "live" ELSE "none"

RemovalDropped == \E t \in torrents \ torrents' : ~Fits(alerts, 1)

\* Of all the alerts that may be dropped only that of a removed torrent does harm.
\* Until one is, the map stays right and no assertion on it fails, whatever else is
\* dropped and whoever adds and removes torrents.
MatchedUntilRemovalDropped ==
  [][PluginsMatchTorrents =>
       UNCHANGED aborted /\ (PluginsMatchTorrents' \/ RemovalDropped)]_vars

\* While clients take alerts in time no assertion of new_torrent, on_alert or the
\* visitor fails: the weak_ptrs they lock are valid, and the torrents they add new.
NoAssertionFails == aborted = "none"

\* What the answer "done" to a request says of the sessions.
StillSo(r, sessions) ==
  /\ r.kind = "start" => sessions[r.infoHash] \in {"started", "unset"}
  /\ r.kind = "stop" => sessions[r.infoHash] \in {"stopped", "unset"}
  /\ r.kind = "pause" => sessions[r.infoHash] \in {"paused", "unset"}
  /\ r.kind = "stop all" => \A t \in InfoHashes : sessions[t] \in {"stopped", "unset"}

\* What a handler is told is still so when it is called, if nothing was submitted
\* since: a session whose start was done is started, and so on, unless its torrent
\* was removed; and no session runs after StopAllTorrentPlugins.
AnswersAreCurrent ==
  \A i \in DOMAIN answered :
    answered[i].request.id = submitted /\ answered[i].answer = "done" =>
      StillSo(answered[i].request, session)

\* The queue, the ticks and the alerts implement the service.
Promised(requests) ==
  [i \in DOMAIN requests |->
     [id |-> requests[i].id, hasHandler |-> HasHandler(requests[i])]]

Service ==
  INSTANCE RequestService WITH
    pending <- Promised(Unprocessed),
    owed <- Promised(ResultsIn(popped \o alerts)),
    answered <- Promised(ResultsIn(answered))

ImplementsService == Service!ServiceSpec

=============================================================================
