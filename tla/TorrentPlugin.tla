----------------------------- MODULE TorrentPlugin -----------------------------
(***************************************************************************)
(* Class TorrentPlugin: the peers of one torrent, the protocol session     *)
(* they take part in, the pieces being read for buyers and the requests of *)
(* the client.  All of it runs on libtorrent's network thread, one handler *)
(* at a time; an action is one whole handler, the callbacks the session    *)
(* and libtorrent make from inside it included.                            *)
(*                                                                         *)
(* protocol_session::Session is a library; what is modelled of it is how   *)
(* this code uses it:                                                      *)
(*   - mode, state and connections; a mode change keeps state and          *)
(*     connections; start() needs a mode and a session that is not         *)
(*     started, stop() one that is not stopped, pause() a started one, a   *)
(*     mode change another mode; each throws otherwise;                    *)
(*   - while it processes a message, a tick or a loaded piece it may remove*)
(*     one of its connections and then call removeConnection with the      *)
(*     cause, ask for a piece, or throw.  When it does several of these,   *)
(*     they are successive steps here.                                     *)
(***************************************************************************)
EXTENDS PeerPlugin, FiniteSets

CONSTANTS
  Pieces,           \* indices of the pieces buyers ask for
  MaxReads,         \* bound on the reads of one piece in flight
  PeerHandshakes,   \* the extended handshakes the peers send
  ReadsMayFail,     \* whether libtorrent may report a read error
  ReadsMayBeLost,   \* whether an answer may be lost to a full alert queue
  NDEBUG            \* built without assertions (a Release build)

ASSUME MaxReadsAssumption == MaxReads \in Nat
ASSUME PeerHandshakesAssumption == PeerHandshakes \subseteq ExtendedHandshakes
ASSUME BooleanAssumption ==
  ReadsMayFail \in BOOLEAN /\ ReadsMayBeLost \in BOOLEAN /\ NDEBUG \in BOOLEAN

VARIABLES
  connected,      \* endpoints libtorrent has an open connection with
  awaiting,       \* _peersAwaitingHandshake
  completed,      \* _peersCompletedHandshake: peer id -> plugin
  mode,           \* _session.mode()
  state,          \* _session.state()
  members,        \* peer ids with a connection in _session
  awaited,        \* <<peer id, piece>>: buyers the session has waiting
  torrentState,   \* _torrent.status().state
  outstanding,    \* _outstandingLoadPieceForBuyers
  reads,          \* reads of each piece libtorrent has in flight
  misbehaved,     \* _misbehavedPeers
  sentMalformed,  \* _sentMalformedExtendedMessage
  aborted         \* the function whose assertion failed, or "none"

indexVars == <<connected, awaiting, completed>>
sessionVars == <<mode, state, members, awaited>>
loadVars == <<outstanding, reads>>
banVars == <<misbehaved, sentMalformed>>
vars == <<peerVars, indexVars, sessionVars, torrentState, loadVars, banVars, aborted>>

SessionMode == {"not_set", "observing", "selling", "buying"}
SessionState == {"stopped", "started", "paused"}
Causes == {"severe", "mild"}
AssertionSites ==
  {"add_handshake", "on_extended", "addToSession", "start", "toSellMode", "pieceRead"}

TypeOK ==
  /\ PeerTypeOK
  /\ connected \subseteq EndPoints
  /\ awaiting \subseteq EndPoints
  /\ completed \in [PeerIds -> EndPoints \cup {NoEndPoint}]
  /\ mode \in SessionMode
  /\ state \in SessionState
  /\ members \subseteq PeerIds
  /\ awaited \subseteq PeerIds \X Pieces
  /\ torrentState \in {"downloading", "seeding"}
  /\ outstanding \subseteq Pieces
  /\ reads \in [Pieces -> Nat]
  /\ misbehaved \subseteq EndPoints
  /\ sentMalformed \subseteq EndPoints
  /\ aborted \in AssertionSites \cup {"none"}

Init ==
  /\ PeerInit
  /\ connected = {}
  /\ awaiting = {}
  /\ completed = [p \in PeerIds |-> NoEndPoint]
  /\ mode = "not_set"
  /\ state = "stopped"
  /\ members = {}
  /\ awaited = {}
  /\ torrentState \in {"downloading", "seeding"}
  /\ outstanding = {}
  /\ reads = [i \in Pieces |-> 0]
  /\ misbehaved = {}
  /\ sentMalformed = {}
  /\ aborted = "none"

-----------------------------------------------------------------------------
(* The peer maps and membership of the session.                            *)

CompletedPeers == {completed[p] : p \in PeerIds} \ {NoEndPoint}

PeerHasCompletedHandshake(e) ==
  /\ e \notin awaiting
  /\ pid[e] \in PeerIds
  /\ completed[pid[e]] = e

PeerInSession(e) == PeerHasCompletedHandshake(e) /\ pid[e] \in members

\* A plugin whose handlers libtorrent may call with extended messages.
Open(e) == e \in connected /\ e \notin awaiting

\* Session::removeConnection: the buyer's requests go with its connection.
LeaveSession(p) ==
  /\ members' = members \ {p}
  /\ awaited' = {a \in awaited : a[1] # p}

\* A removeFromSession that does nothing while the session is paused.
MutantRemoveFromSession(e) ==
  IF state = "started" /\ PeerInSession(e)
  THEN LeaveSession(pid[e])
  ELSE UNCHANGED <<members, awaited>>

\* removeFromSession.  The callback that Session::removeConnection makes has
\* the cause client and changes nothing.
RemoveFromSession(e) ==
  IF mode # "not_set" /\ PeerInSession(e)
  THEN LeaveSession(pid[e])
  ELSE UNCHANGED <<members, awaited>>

\* A peerDisconnected that forgets to erase the completed peer.
MutantPeerDisconnected(e) ==
  /\ connected' = connected \ {e}
  /\ awaiting' = awaiting \ {e}
  /\ RemoveFromSession(e)
  /\ UNCHANGED completed
  /\ Constructed(e)

\* on_disconnect, that is peerDisconnected.
PeerDisconnected(e) ==
  /\ connected' = connected \ {e}
  /\ IF e \in awaiting
     THEN /\ awaiting' = awaiting \ {e}
          /\ UNCHANGED <<completed, members, awaited>>
     ELSE /\ RemoveFromSession(e)
          /\ completed' = [completed EXCEPT ![pid[e]] = NoEndPoint]
          /\ UNCHANGED awaiting
  /\ Constructed(e)

\* PeerPlugin::drop on a plugin that is not dropped already: disconnect, which
\* calls on_disconnect.  Every caller passes an empty error code, for which
\* drop notes nothing about the peer.
Drop(e) == PeerDisconnected(e)

IsPeerBanned(e) == e \in sentMalformed \/ e \in misbehaved

\* A handler begins, and ends, in a process that no assertion has stopped.
Running == aborted = "none" /\ UNCHANGED aborted

\* An assertion fails in the function site, and the process ends.
Abort(site) ==
  /\ aborted = "none"
  /\ aborted' = site
  /\ UNCHANGED <<peerVars, indexVars, sessionVars, torrentState, loadVars, banVars>>

-----------------------------------------------------------------------------
(* Connections and the BitTorrent handshake.                               *)

\* new_connection for a BitTorrent connection; it gives any other connection
\* no plugin and changes nothing.
NewConnection(e) ==
  /\ Running
  /\ e \notin connected
  /\ connected' = connected \cup {e}
  /\ awaiting' = awaiting \cup {e}
  /\ Constructed(e)
  /\ UNCHANGED <<completed, sessionVars, torrentState, loadVars, banVars>>

\* on_handshake of a peer peerStartedHandshake drops.
BannedPeerStartsHandshake(e) ==
  /\ Running
  /\ e \in awaiting
  /\ IsPeerBanned(e)
  /\ Drop(e)
  /\ UNCHANGED <<mode, state, torrentState, loadVars, banVars>>

\* The rest of on_handshake for a peer that is let in, after which libtorrent
\* writes its extended handshake if the peer supports BEP10.  libtorrent has
\* disconnected another connection with the same peer id before
\* (TorrentPlugin.hpp), which is an OnDisconnect here.
CompleteHandshake(e, p, supportsBEP10) ==
  /\ Running
  /\ e \in awaiting
  /\ completed[p] = NoEndPoint
  /\ awaiting' = awaiting \ {e}
  /\ completed' = [completed EXCEPT ![p] = e]
  /\ pid' = [pid EXCEPT ![e] = p]
  /\ bep10' = [bep10 EXCEPT ![e] =
                 IF supportsBEP10 THEN "supported" ELSE "not_supported"]
  /\ payment' = IF supportsBEP10 THEN payment
                ELSE [payment EXCEPT ![e] = "not_supported"]
  /\ AddHandshake({x \in {e} : supportsBEP10}, sendUninstall, state)
  /\ UNCHANGED <<connected, hasMapping, sessionVars, torrentState, loadVars, banVars>>

\* A peerStartedHandshake that looks at no ban list.
MutantOnHandshake(e, p, supportsBEP10) == CompleteHandshake(e, p, supportsBEP10)

\* on_handshake of any other peer.
OnHandshake(e, p, supportsBEP10) ==
  ~IsPeerBanned(e) /\ CompleteHandshake(e, p, supportsBEP10)

\* The peer, or libtorrent, closes the connection.
OnDisconnect(e) ==
  /\ Running
  /\ e \in connected
  /\ PeerDisconnected(e)
  /\ UNCHANGED <<mode, state, torrentState, loadVars, banVars>>

-----------------------------------------------------------------------------
(* on_extension_handshake, by what the peer sent.                          *)

\* The peer did not announce BEP10, or sent what is malformed, or announced no
\* extension or a mapping while it has one installed, or an uninstall mapping
\* while it has none: it is dropped.
ViolatesHandshakeProtocol(e, h) ==
  \/ bep10[e] # "supported"
  \/ h = "malformed"
  \/ h \in {"no extension", "mapping"} /\ hasMapping[e]
  \/ h = "uninstall" /\ ~hasMapping[e]

DropOnExtensionHandshake(e, h) ==
  /\ Running
  /\ Open(e)
  /\ ViolatesHandshakeProtocol(e, h)
  /\ Drop(e)
  /\ UNCHANGED <<mode, state, torrentState, loadVars, banVars>>

\* The peer does not announce the extension, and never did.
PeerWithoutExtension(e) ==
  /\ Running
  /\ Open(e)
  /\ ~ViolatesHandshakeProtocol(e, "no extension")
  /\ payment' = [payment EXCEPT ![e] = "not_supported"]
  /\ UNCHANGED <<pid, bep10, hasMapping, sendUninstall, announced, indexVars,
                 sessionVars, torrentState, loadVars, banVars>>

\* The assertions of addToSession; peerInSession is asserted last.
AddToSessionAsserts(e) ==
  mode # "not_set" /\ PeerHasCompletedHandshake(e) /\ ~PeerInSession(e)

\* A full mapping arrives from a peer that had none.
InstallMappingAndJoin(e, joins) ==
  /\ Running
  /\ Open(e)
  /\ ~ViolatesHandshakeProtocol(e, "mapping")
  /\ joins => AddToSessionAsserts(e)
  /\ hasMapping' = [hasMapping EXCEPT ![e] = TRUE]
  /\ payment' = [payment EXCEPT ![e] = "supported"]
  /\ members' = IF joins THEN members \cup {pid[e]} ELSE members
  /\ UNCHANGED <<pid, bep10, sendUninstall, announced, indexVars, mode, state,
                 awaited, torrentState, loadVars, banVars>>

\* A handler that adds the peer only to a started session.
MutantInstallPeerMapping(e) == InstallMappingAndJoin(e, state = "started")

\* The peer joins the session unless that is stopped.
InstallPeerMapping(e) == InstallMappingAndJoin(e, state # "stopped")

\* Without assertions Session::addConnection refuses a peer it already has; the
\* exception leaves the handler and libtorrent closes the connection.
InstallPeerMappingAgain(e) ==
  /\ Running
  /\ NDEBUG
  /\ Open(e)
  /\ ~ViolatesHandshakeProtocol(e, "mapping")
  /\ state # "stopped"
  /\ ~AddToSessionAsserts(e)
  /\ PeerDisconnected(e)
  /\ UNCHANGED <<mode, state, torrentState, loadVars, banVars>>

\* A handler that keeps the peer in the session.
MutantUninstallPeerMapping(e) ==
  /\ Running
  /\ Open(e)
  /\ ~ViolatesHandshakeProtocol(e, "uninstall")
  /\ hasMapping' = [hasMapping EXCEPT ![e] = FALSE]
  /\ payment' = [payment EXCEPT ![e] = "not_supported"]
  /\ UNCHANGED <<pid, bep10, sendUninstall, announced, indexVars, sessionVars,
                 torrentState, loadVars, banVars>>

\* An uninstall mapping from a peer that has a mapping installed.
UninstallPeerMapping(e) ==
  /\ Running
  /\ Open(e)
  /\ ~ViolatesHandshakeProtocol(e, "uninstall")
  /\ hasMapping' = [hasMapping EXCEPT ![e] = FALSE]
  /\ payment' = [payment EXCEPT ![e] = "not_supported"]
  /\ RemoveFromSession(e)
  /\ UNCHANGED <<pid, bep10, sendUninstall, announced, indexVars, mode, state,
                 torrentState, loadVars, banVars>>

\* A handler that forgets to discard the mapping a peer had.
MutantDiscardPeerMapping(e) ==
  /\ Running
  /\ Open(e)
  /\ bep10[e] = "supported"
  /\ payment' = [payment EXCEPT ![e] = "not_supported"]
  /\ UNCHANGED <<pid, bep10, hasMapping, sendUninstall, announced, indexVars,
                 sessionVars, torrentState, loadVars, banVars>>

\* Any other mapping fromMDictionary refuses.  The old mapping is discarded, the
\* peer is neither dropped nor removed from the session.
DiscardPeerMapping(e) ==
  /\ Running
  /\ Open(e)
  /\ bep10[e] = "supported"
  /\ hasMapping' = [hasMapping EXCEPT ![e] = FALSE]
  /\ payment' = [payment EXCEPT ![e] = "not_supported"]
  /\ UNCHANGED <<pid, bep10, sendUninstall, announced, indexVars, sessionVars,
                 torrentState, loadVars, banVars>>

OnExtensionHandshake(e, h) ==
  \/ DropOnExtensionHandshake(e, h)
  \/ h = "no extension" /\ PeerWithoutExtension(e)
  \/ h = "mapping" /\ (InstallPeerMapping(e) \/ InstallPeerMappingAgain(e))
  \/ h = "uninstall" /\ UninstallPeerMapping(e)
  \/ h = "invalid mapping" /\ DiscardPeerMapping(e)

-----------------------------------------------------------------------------
(* Requests of the client.                                                 *)

\* The completed peers on which writeExtensions has libtorrent send an extended
\* handshake.
BEP10Peers == {e \in CompletedPeers : bep10[e] = "supported"}

StartAsserts ==
  /\ AddHandshakeAsserts(BEP10Peers, sendUninstall)
  /\ \A p \in PeerIds : completed[p] # NoEndPoint => p \notin members

\* start() of a stopped session: every peer is sent the full mapping, and those
\* in joining are added to the session.
StartStopped(joining) ==
  /\ Running
  /\ mode # "not_set" /\ state = "stopped"
  /\ StartAsserts \/ NDEBUG
  /\ state' = "started"
  /\ AddHandshake(BEP10Peers, sendUninstall, "started")
  /\ members' = members \cup joining
  /\ UNCHANGED <<pid, bep10, payment, hasMapping, indexVars, mode, awaited,
                 torrentState, loadVars, banVars>>

\* A start that lets every peer join.
MutantStart == StartStopped({p \in PeerIds : completed[p] # NoEndPoint})

\* The peers that have announced a mapping while the session was stopped join.
Start ==
  StartStopped({p \in PeerIds : completed[p] # NoEndPoint
                                  /\ payment[completed[p]] = "supported"})

\* A resume that announces the extension again.
MutantStartPaused ==
  /\ Running
  /\ state = "paused"
  /\ state' = "started"
  /\ AddHandshake(BEP10Peers, sendUninstall, "started")
  /\ UNCHANGED <<pid, bep10, payment, hasMapping, indexVars, mode, members, awaited,
                 torrentState, loadVars, banVars>>

\* start() of a paused session.
StartPaused ==
  /\ Running
  /\ state = "paused"
  /\ state' = "started"
  /\ UNCHANGED <<peerVars, indexVars, mode, members, awaited, torrentState,
                 loadVars, banVars>>

\* setSendUninstallMappingOnNextExtendedHandshake(true) on every completed peer.
UninstallDue == [e \in EndPoints |-> sendUninstall[e] \/ e \in CompletedPeers]

\* stop(): the session drops its connections, every peer is sent the uninstall
\* mapping.
Stop ==
  /\ Running
  /\ state # "stopped"
  /\ state' = "stopped"
  /\ members' = {}
  /\ awaited' = {}
  /\ AddHandshake(BEP10Peers, UninstallDue, "stopped")
  /\ UNCHANGED <<pid, bep10, payment, hasMapping, indexVars, mode, torrentState,
                 loadVars, banVars>>

\* stop() of a session that is stopped already: Session::stop throws after the
\* flags were set.
StopRefused ==
  /\ Running
  /\ state = "stopped"
  /\ sendUninstall' = UninstallDue
  /\ UNCHANGED <<pid, bep10, payment, hasMapping, announced, indexVars, sessionVars,
                 torrentState, loadVars, banVars>>

\* pause().
Pause ==
  /\ Running
  /\ state = "started"
  /\ state' = "paused"
  /\ UNCHANGED <<peerVars, indexVars, mode, members, awaited, torrentState,
                 loadVars, banVars>>

\* The pieces toObserveMode and toBuyMode leave outstanding.
OutstandingAfterLeaving == IF mode = "selling" THEN {} ELSE outstanding

\* A toObserveMode that does not clear the pieces being read.
MutantToObserveMode ==
  /\ Running
  /\ mode # "observing"
  /\ mode' = "observing"
  /\ awaited' = {}
  /\ UNCHANGED <<peerVars, indexVars, state, members, torrentState, loadVars,
                 banVars>>

\* toObserveMode(); Session::toObserveMode throws if that is its mode.
ToObserveMode ==
  /\ Running
  /\ mode # "observing"
  /\ mode' = "observing"
  /\ awaited' = {}
  /\ outstanding' = OutstandingAfterLeaving
  /\ UNCHANGED <<peerVars, indexVars, state, members, torrentState, reads,
                 banVars>>

ToSellModeAsserts == outstanding = {}

\* toSellMode(terms) of a seeding torrent; it throws for any other torrent, and
\* Session::toSellMode throws if the session is selling.
ToSellMode ==
  /\ Running
  /\ ToSellModeAsserts \/ NDEBUG
  /\ torrentState = "seeding"
  /\ mode # "selling"
  /\ mode' = "selling"
  /\ awaited' = {}
  /\ UNCHANGED <<peerVars, indexVars, state, members, torrentState, loadVars,
                 banVars>>

\* toBuyMode(terms) of a downloading torrent.  libtorrent is in that state only
\* when it has the metadata, without which torrentPieceInformation would throw.
ToBuyMode ==
  /\ Running
  /\ torrentState = "downloading"
  /\ mode # "buying"
  /\ mode' = "buying"
  /\ awaited' = {}
  /\ outstanding' = OutstandingAfterLeaving
  /\ UNCHANGED <<peerVars, indexVars, state, members, torrentState, reads,
                 banVars>>

\* toBuyMode(terms) of a torrent that is not downloading throws
\* InvalidModeTransition after the pieces being read were cleared.
ToBuyModeRefused ==
  /\ Running
  /\ torrentState # "downloading"
  /\ outstanding' = OutstandingAfterLeaving
  /\ UNCHANGED <<peerVars, indexVars, sessionVars, torrentState, reads, banVars>>

\* dropPeer(peerId).
DropPeer(p) ==
  /\ Running
  /\ completed[p] # NoEndPoint
  /\ Drop(completed[p])
  /\ UNCHANGED <<mode, state, torrentState, loadVars, banVars>>

-----------------------------------------------------------------------------
(* Messages of the extension, ticks, and the callbacks of the session.     *)

\* removeConnection with a cause other than client, after the session removed
\* the connection of p: severe causes ban the endpoint; the peer is dropped.
RemoveConnection(p, cause) ==
  /\ Running
  /\ p \in members
  /\ misbehaved' = IF cause = "severe" THEN misbehaved \cup {completed[p]}
                   ELSE misbehaved
  /\ Drop(completed[p])
  /\ UNCHANGED <<mode, state, torrentState, loadVars, sentMalformed>>

\* A loadPieceForBuyer that never registers the piece.
MutantLoadPieceForBuyer(p, i) ==
  /\ Running
  /\ mode = "selling" /\ p \in members
  /\ awaited' = awaited \cup {<<p, i>>}
  /\ reads[i] < MaxReads
  /\ reads' = [reads EXCEPT ![i] = @ + 1]
  /\ UNCHANGED <<peerVars, indexVars, mode, state, members, torrentState, outstanding,
                 banVars>>

\* loadPieceForBuyer when libtorrent reads the piece later: a piece that is
\* being read already is not read again.
LoadPieceForBuyer(p, i) ==
  /\ Running
  /\ mode = "selling" /\ p \in members
  /\ awaited' = awaited \cup {<<p, i>>}
  /\ IF i \in outstanding THEN UNCHANGED loadVars
     ELSE /\ reads[i] < MaxReads
          /\ outstanding' = outstanding \cup {i}
          /\ reads' = [reads EXCEPT ![i] = @ + 1]
  /\ UNCHANGED <<peerVars, indexVars, mode, state, members, torrentState, banVars>>

\* A loadPieceForBuyer that registers the piece after read_piece returns.
MutantLoadPieceAtOnce(p, i) ==
  /\ Running
  /\ mode = "selling" /\ p \in members
  /\ i \notin outstanding
  /\ outstanding' = outstanding \cup {i}
  /\ awaited' = awaited \cup {<<p, i>>}
  /\ UNCHANGED <<peerVars, indexVars, mode, state, members, torrentState, reads,
                 banVars>>

\* loadPieceForBuyer when libtorrent reads the piece inside read_piece: the
\* registration is there before the call, pieceRead finds and removes it and
\* hands the piece to every buyer waiting for it before the call returns.
LoadPieceAtOnce(p, i) ==
  /\ Running
  /\ mode = "selling" /\ p \in members
  /\ i \notin outstanding
  /\ awaited' = {a \in awaited : a[2] # i}
  /\ UNCHANGED <<peerVars, indexVars, mode, state, members, torrentState, loadVars,
                 banVars>>

\* loadPieceForBuyer when libtorrent reports an error inside read_piece, in a
\* build without assertions: pieceRead removes the registration and says nothing.
LoadPieceFailsAtOnce(p, i) ==
  /\ Running
  /\ ReadsMayFail /\ NDEBUG
  /\ mode = "selling" /\ p \in members
  /\ i \notin outstanding
  /\ awaited' = awaited \cup {<<p, i>>}
  /\ UNCHANGED <<peerVars, indexVars, mode, state, members, torrentState, loadVars,
                 banVars>>

\* The guards of on_extended for a complete message with an id in the peer's
\* mapping; without assertions a peer that is not supported is ignored.
InSessionWithMapping(e) ==
  /\ Open(e)
  /\ mode # "not_set"
  /\ PeerInSession(e)
  /\ payment[e] = "supported"
  /\ hasMapping[e]

\* The message does not parse, or the session throws while it processes it.
OnMalformedExtended(e) ==
  /\ Running
  /\ InSessionWithMapping(e)
  /\ Drop(e)
  /\ UNCHANGED <<mode, state, torrentState, loadVars, banVars>>

\* processExtendedMessage; the session keeps the message to itself, ends the
\* connection, or needs a piece.
OnExtended(e) ==
  /\ InSessionWithMapping(e)
  /\ \/ \E cause \in Causes : RemoveConnection(pid[e], cause)
     \/ \E i \in Pieces : LoadPieceForBuyer(pid[e], i)
     \/ \E i \in Pieces : LoadPieceAtOnce(pid[e], i)
     \/ \E i \in Pieces : LoadPieceFailsAtOnce(pid[e], i)

\* tick(): the session ends a connection, after a timeout for instance.
Tick(p, cause) ==
  /\ mode # "not_set"
  /\ RemoveConnection(p, cause)

\* A step that takes more answers than there are reads.
MutantPieceReadIgnored(i) ==
  /\ Running
  /\ i \notin outstanding
  /\ reads' = [reads EXCEPT ![i] = @ - 1]
  /\ UNCHANGED <<peerVars, indexVars, sessionVars, torrentState, outstanding, banVars>>

\* pieceRead for a piece without registration.
PieceReadIgnored(i) ==
  /\ Running
  /\ reads[i] > 0 /\ i \notin outstanding
  /\ reads' = [reads EXCEPT ![i] = @ - 1]
  /\ UNCHANGED <<peerVars, indexVars, sessionVars, torrentState, outstanding, banVars>>

\* A pieceRead that keeps the registration.
MutantPieceRead(i) ==
  /\ Running
  /\ reads[i] > 0 /\ i \in outstanding
  /\ reads' = [reads EXCEPT ![i] = @ - 1]
  /\ awaited' = {a \in awaited : a[2] # i}
  /\ UNCHANGED <<peerVars, indexVars, mode, state, members, torrentState, outstanding,
                 banVars>>

\* pieceRead: Session::pieceLoaded gives the piece to the buyers waiting for it.
PieceRead(i) ==
  /\ Running
  /\ reads[i] > 0 /\ i \in outstanding
  /\ reads' = [reads EXCEPT ![i] = @ - 1]
  /\ outstanding' = outstanding \ {i}
  /\ awaited' = {a \in awaited : a[2] # i}
  /\ UNCHANGED <<peerVars, indexVars, mode, state, members, torrentState, banVars>>

\* pieceRead of an alert with an error, in a build without assertions.
PieceReadFailed(i) ==
  /\ Running
  /\ ReadsMayFail /\ NDEBUG
  /\ reads[i] > 0 /\ i \in outstanding
  /\ reads' = [reads EXCEPT ![i] = @ - 1]
  /\ outstanding' = outstanding \ {i}
  /\ UNCHANGED <<peerVars, indexVars, sessionVars, torrentState, banVars>>

\* libtorrent drops the read_piece_alert, because the queue of alerts is full: it
\* does not call on_alert for it, and pieceRead never hears of the read.
PieceReadLost(i) ==
  /\ Running
  /\ ReadsMayBeLost
  /\ reads[i] > 0
  /\ reads' = [reads EXCEPT ![i] = @ - 1]
  /\ UNCHANGED <<peerVars, indexVars, sessionVars, torrentState, outstanding, banVars>>

\* libtorrent: someone else has the piece read, for instance the client.
ReadForOthers(i) ==
  /\ Running
  /\ reads[i] < MaxReads
  /\ reads' = [reads EXCEPT ![i] = @ + 1]
  /\ UNCHANGED <<peerVars, indexVars, sessionVars, torrentState, outstanding, banVars>>

\* libtorrent: the download finishes, or the files fail a check.
TorrentStateChanges ==
  /\ Running
  /\ torrentState' = IF torrentState = "seeding" THEN "downloading" ELSE "seeding"
  /\ UNCHANGED <<peerVars, indexVars, sessionVars, loadVars, banVars>>

-----------------------------------------------------------------------------
(* Assertions that fail, in a build that has them.  The process ends.      *)

StartAborts ==
  /\ mode # "not_set" /\ state = "stopped"
  /\ \/ ~AddHandshakeAsserts(BEP10Peers, sendUninstall) /\ Abort("add_handshake")
     \/ (\E p \in members : completed[p] # NoEndPoint) /\ Abort("start")

ToSellModeAborts == ~ToSellModeAsserts /\ Abort("toSellMode")

OnExtendedAborts(e) ==
  /\ Open(e)
  /\ mode # "not_set"
  /\ PeerInSession(e)
  /\ payment[e] # "supported"
  /\ Abort("on_extended")

InstallPeerMappingAborts(e) ==
  /\ Open(e)
  /\ ~ViolatesHandshakeProtocol(e, "mapping")
  /\ state # "stopped"
  /\ ~AddToSessionAsserts(e)
  /\ Abort("addToSession")

\* An error reported later, or inside read_piece.
PieceReadAborts(i) ==
  /\ ReadsMayFail
  /\ \/ reads[i] > 0 /\ i \in outstanding
     \/ mode = "selling" /\ i \notin outstanding
          /\ \E e \in EndPoints : InSessionWithMapping(e)
  /\ Abort("pieceRead")

AssertionFails ==
  /\ ~NDEBUG
  /\ \/ StartAborts
     \/ ToSellModeAborts
     \/ \E e \in EndPoints : OnExtendedAborts(e)
     \/ "mapping" \in PeerHandshakes /\ \E e \in EndPoints : InstallPeerMappingAborts(e)
     \/ \E i \in Pieces : PieceReadAborts(i)

-----------------------------------------------------------------------------
PeerStep ==
  \E e \in EndPoints :
    \/ NewConnection(e)
    \/ BannedPeerStartsHandshake(e)
    \/ \E p \in PeerIds, b \in BOOLEAN : OnHandshake(e, p, b)
    \/ OnDisconnect(e)
    \/ \E h \in PeerHandshakes : OnExtensionHandshake(e, h)
    \/ OnMalformedExtended(e)
    \/ OnExtended(e)

Request ==
  \/ Start \/ StartPaused \/ Stop \/ StopRefused \/ Pause
  \/ ToObserveMode \/ ToSellMode \/ ToBuyMode \/ ToBuyModeRefused
  \/ \E p \in PeerIds : DropPeer(p)

PieceStep(i) == PieceRead(i) \/ PieceReadIgnored(i) \/ PieceReadFailed(i)

Next ==
  \/ PeerStep
  \/ Request
  \/ \E p \in PeerIds, cause \in Causes : Tick(p, cause)
  \/ \E i \in Pieces : PieceStep(i)
  \/ \E i \in Pieces : ReadForOthers(i) \/ PieceReadLost(i)
  \/ TorrentStateChanges
  \/ AssertionFails

Spec == Init /\ [][Next]_vars

\* libtorrent completes every read it has begun: its disk thread answers each
\* read_piece with an alert, and an alert calls on_alert before it is queued.
FairSpec == Spec /\ \A i \in Pieces : WF_vars(PieceStep(i))

-----------------------------------------------------------------------------
(* Safety properties.                                                      *)

\* The two peer maps and libtorrent agree: every open connection is in exactly
\* one of them, and a completed peer is filed under its own id.  A raw pointer
\* or a weak_ptr to a plugin that is gone would break it.
PeersIndexed ==
  /\ awaiting \subseteq connected
  /\ \A e \in connected \ awaiting :
       pid[e] \in PeerIds /\ completed[pid[e]] = e
  /\ \A p \in PeerIds : completed[p] # NoEndPoint =>
       completed[p] \in connected \ awaiting /\ pid[completed[p]] = p

\* The session knows no peer that is not in _peersCompletedHandshake, so that
\* peer(), which every session callback calls, finds its plugin; and a stopped
\* session, or one without a mode, has no connections.
MembersHaveCompletedHandshake ==
  /\ \A p \in members : completed[p] # NoEndPoint
  /\ state = "stopped" => members = {}
  /\ mode = "not_set" => state = "stopped"

\* No peer is left out: while the session is not stopped, every peer with an
\* installed mapping takes part in it, in whatever order the two sides started,
\* stopped and shook hands.
SupportedPeersInSession ==
  state # "stopped" =>
    \A p \in PeerIds :
      completed[p] # NoEndPoint /\ payment[completed[p]] = "supported" => p \in members

\* A peer counts as supporting the extension exactly while its mapping is held:
\* send() to a supported peer never meets an empty mapping.
SupportedIffMapped ==
  \A e \in connected \ awaiting : payment[e] = "supported" <=> hasMapping[e]

\* The session can send to each of its connections: its peer has a mapping.
MembersHaveMapping == \A p \in members : hasMapping[completed[p]]

\* What the peer was told matches the session: a peer with BEP10 holds one full
\* mapping while the session is started or paused and none while it is stopped,
\* however often the session was started, stopped and refused to stop.  A second
\* full mapping, or an uninstall mapping without one to uninstall, makes the
\* peer (the same program) drop the connection.
AnnouncedMatchesSession ==
  \A e \in connected \ awaiting :
    bep10[e] = "supported" => announced[e] = IF state = "stopped" THEN 0 ELSE 1

\* A banned endpoint is never among the completed peers, nor in the session.
BannedPeersAreOut ==
  \A p \in PeerIds : completed[p] \notin misbehaved

\* A registered piece has a read in flight that will answer it, and pieces are
\* registered only while selling: a registration that outlived its mode or its
\* read would swallow every later request for the piece.
ResponseWillCome == \A i \in outstanding : reads[i] > 0

OutstandingWillBeRead ==
  /\ ResponseWillCome
  /\ outstanding # {} => mode = "selling"

-----------------------------------------------------------------------------
(* Action properties and liveness.                                         *)

AwaitedIsRegistered == \A a \in awaited : a[2] \in outstanding

\* Only a refused toBuyMode and a failed read leave a buyer waiting for a piece
\* nobody is reading for it; no interleaving of mode changes, late reads, reads
\* for others and departing peers does.
OnlyRefusalsStarve ==
  [][AwaitedIsRegistered /\ ~AwaitedIsRegistered' =>
       \/ ToBuyModeRefused
       \/ \E i \in Pieces :
            PieceReadFailed(i) \/ \E p \in PeerIds : LoadPieceFailsAtOnce(p, i)]_vars

\* A peer joins the session only with its mapping installed, and only a session
\* that is not stopped.
JoinsWithMapping ==
  [][\A p \in members' \ members :
       state' # "stopped" /\ completed'[p] # NoEndPoint /\ hasMapping'[completed'[p]]]_vars

\* A registered piece does not stay registered: the read is answered, or the
\* session leaves selling mode.
RegistrationsEnd ==
  \A i \in Pieces : i \in outstanding ~> (i \notin outstanding \/ aborted # "none")

-----------------------------------------------------------------------------
(* What comments and assertions of the code say.                           *)

\* PeerPlugin.hpp:253: the flag implies that the session is stopped.
SendUninstallImpliesStopped ==
  \A e \in connected : sendUninstall[e] => state = "stopped"

\* PeerPlugin.cpp:482: a peer in the session supports the extension.
OnExtendedAssertionHolds == aborted # "on_extended"

\* TorrentPlugin.cpp:525: a peer that is added is not in the session.
AddToSessionAssertionHolds == aborted # "addToSession"

=============================================================================
