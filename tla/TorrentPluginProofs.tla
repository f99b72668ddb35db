-------------------------- MODULE TorrentPluginProofs --------------------------
(***************************************************************************)
(* Proofs about TorrentPlugin, for any endpoints, peer ids and pieces, any *)
(* peers, with and without assertions.                                     *)
(*                                                                         *)
(* None of the properties is inductive alone.  They all rest on where the  *)
(* plugins are filed (PeersIndexed), and that rests on the fields of a     *)
(* plugin that is not filed under a peer id (FreshPlugins): a new plugin   *)
(* has announced nothing and owes no uninstall mapping.                    *)
(***************************************************************************)
EXTENDS TorrentPlugin, TLAPS

\* A plugin that has not completed the BitTorrent handshake is as constructed.
FreshPlugins ==
  \A e \in EndPoints : e \notin connected \/ e \in awaiting =>
    /\ pid[e] = NoPeerId
    /\ bep10[e] = "unknown"
    /\ payment[e] = "unknown"
    /\ hasMapping[e] = FALSE
    /\ sendUninstall[e] = FALSE
    /\ announced[e] = 0

IndexInv == TypeOK /\ PeersIndexed /\ FreshPlugins

\* What drop and on_disconnect do to a plugin of an open connection, whichever
\* handler it happens in; the session may have banned the endpoint just before.
Disconnecting(e) ==
  /\ Running
  /\ e \in connected
  /\ PeerDisconnected(e)
  /\ misbehaved' \in {misbehaved, misbehaved \cup {e}}
  /\ UNCHANGED <<mode, state, torrentState, loadVars, sentMalformed>>

\* The steps that concern pieces only.
PieceAction(i) ==
  \/ \E p \in PeerIds : \/ LoadPieceForBuyer(p, i)
                        \/ LoadPieceAtOnce(p, i)
                        \/ LoadPieceFailsAtOnce(p, i)
  \/ PieceStep(i)
  \/ ReadForOthers(i)
  \/ PieceReadLost(i)

\* A step of the specification, by what it does.
Step ==
  \/ \E e \in EndPoints : Disconnecting(e)
  \/ \E e \in EndPoints : NewConnection(e)
  \/ \E e \in EndPoints, p \in PeerIds, b \in BOOLEAN : OnHandshake(e, p, b)
  \/ \E e \in EndPoints : PeerWithoutExtension(e)
  \/ \E e \in EndPoints : InstallPeerMapping(e)
  \/ \E e \in EndPoints : UninstallPeerMapping(e)
  \/ /\ "invalid mapping" \in PeerHandshakes
     /\ \E e \in EndPoints : DiscardPeerMapping(e)
  \/ Start \/ StartPaused \/ Stop \/ StopRefused \/ Pause
  \/ ToObserveMode \/ ToSellMode \/ ToBuyMode \/ ToBuyModeRefused
  \/ \E i \in Pieces : PieceAction(i)
  \/ TorrentStateChanges
  \/ AssertionFails

-----------------------------------------------------------------------------
\* Every handler that ends a connection ends one that is open, and nothing
\* else: drop is never called on a plugin that is gone.
LEMMA RemoveConnectionDisconnects ==
  ASSUME IndexInv, MembersHaveCompletedHandshake,
         NEW p \in PeerIds, NEW cause \in Causes, RemoveConnection(p, cause)
  PROVE  \E e \in EndPoints : Disconnecting(e)
<1>1. completed[p] \in EndPoints /\ completed[p] \in connected
  BY DEF IndexInv, TypeOK, PeersIndexed, MembersHaveCompletedHandshake,
         RemoveConnection
<1>2. Disconnecting(completed[p])
  BY <1>1 DEF RemoveConnection, Running, Drop, Disconnecting
<1> QED BY <1>1, <1>2

\* Every step of the specification is one of the grouped steps the proofs go by.
LEMMA NextIsStep ==
  ASSUME IndexInv, MembersHaveCompletedHandshake, Next
  PROVE  Step
<1>1. ASSUME NEW e \in EndPoints,
             \/ BannedPeerStartsHandshake(e)
             \/ OnDisconnect(e)
             \/ OnMalformedExtended(e)
             \/ InstallPeerMappingAgain(e)
             \/ \E h \in PeerHandshakes : DropOnExtensionHandshake(e, h)
      PROVE  Step
  <2>1. e \in connected
    BY <1>1 DEF IndexInv, PeersIndexed, BannedPeerStartsHandshake, OnDisconnect,
                OnMalformedExtended, InSessionWithMapping, InstallPeerMappingAgain,
                DropOnExtensionHandshake, Open
  <2>2. Disconnecting(e)
    BY <1>1, <2>1
       DEF BannedPeerStartsHandshake, OnDisconnect, OnMalformedExtended,
           InstallPeerMappingAgain, DropOnExtensionHandshake, Drop, Disconnecting,
           banVars, Running
  <2> QED BY <2>2 DEF Step
<1>2. ASSUME NEW e \in EndPoints, NEW h \in PeerHandshakes, OnExtensionHandshake(e, h)
      PROVE  Step
  BY <1>1, <1>2 DEF OnExtensionHandshake, Step
<1>3. ASSUME NEW e \in EndPoints, OnExtended(e)
      PROVE  Step
  <2>1. pid[e] \in PeerIds
    BY <1>3 DEF OnExtended, InSessionWithMapping, PeerInSession,
                PeerHasCompletedHandshake
  <2>2. CASE \E cause \in Causes : RemoveConnection(pid[e], cause)
    BY <2>1, <2>2, RemoveConnectionDisconnects DEF Step
  <2>3. CASE \E i \in Pieces : \/ LoadPieceForBuyer(pid[e], i)
                               \/ LoadPieceAtOnce(pid[e], i)
                               \/ LoadPieceFailsAtOnce(pid[e], i)
    BY <2>1, <2>3 DEF Step, PieceAction
  <2> QED BY <1>3, <2>2, <2>3 DEF OnExtended
<1>4. CASE PeerStep
  BY <1>1, <1>2, <1>3, <1>4 DEF PeerStep, Step
<1>5. ASSUME NEW p \in PeerIds, DropPeer(p)
      PROVE  Step
  <2>1. completed[p] \in EndPoints /\ completed[p] \in connected
    BY <1>5 DEF IndexInv, TypeOK, PeersIndexed, DropPeer
  <2>2. Disconnecting(completed[p])
    BY <1>5, <2>1 DEF DropPeer, Drop, Disconnecting, banVars, Running
  <2> QED BY <2>1, <2>2 DEF Step
<1>6. CASE Request
  BY <1>5, <1>6 DEF Request, Step
<1>7. CASE \E p \in PeerIds, cause \in Causes : Tick(p, cause)
  BY <1>7, RemoveConnectionDisconnects DEF Tick, Step
<1>8. CASE \E i \in Pieces : PieceStep(i) \/ ReadForOthers(i) \/ PieceReadLost(i)
  BY <1>8 DEF PieceAction, Step
<1>9. CASE TorrentStateChanges \/ AssertionFails
  BY <1>9 DEF Step
<1> QED BY <1>4, <1>6, <1>7, <1>8, <1>9 DEF Next

-----------------------------------------------------------------------------
(* Types.                                                                  *)

\* Writing extended handshakes keeps the flags and the announcements typed.
LEMMA AddHandshakeType ==
  ASSUME PeerTypeOK,
         NEW plugins \in SUBSET EndPoints,
         NEW flags \in [EndPoints -> BOOLEAN],
         NEW s \in SessionState,
         AddHandshake(plugins, flags, s)
  PROVE  /\ announced' \in [EndPoints -> Int]
         /\ sendUninstall' \in [EndPoints -> BOOLEAN]
<1>1. CASE s = "stopped"
  <2>1. announced' \in [EndPoints -> Int]
    BY <1>1, SMT DEF PeerTypeOK, AddHandshake
  <2>2. sendUninstall' \in [EndPoints -> BOOLEAN]
    <3>1. sendUninstall' = [e \in EndPoints |-> flags[e] /\ e \notin plugins]
      BY <1>1 DEF AddHandshake
    <3> QED BY <3>1, Zenon
  <2> QED BY <2>1, <2>2
<1>2. CASE s # "stopped"
  BY <1>2 DEF PeerTypeOK, AddHandshake
<1> QED BY <1>1, <1>2

\* A constructed plugin has fields of their types.
LEMMA ConstructedType ==
  ASSUME PeerTypeOK, NEW e \in EndPoints, Constructed(e)
  PROVE  PeerTypeOK'
BY DEF PeerTypeOK, Constructed, BEPSupportStatus

\* Ending a connection keeps every variable typed.
LEMMA DisconnectingType ==
  ASSUME IndexInv, NEW e \in EndPoints, Disconnecting(e)
  PROVE  TypeOK'
<1>1. PeerTypeOK'
  BY ConstructedType DEF IndexInv, TypeOK, Disconnecting, PeerDisconnected
<1>2. members' \subseteq PeerIds /\ awaited' \subseteq PeerIds \X Pieces
  BY DEF IndexInv, TypeOK, Disconnecting, PeerDisconnected, RemoveFromSession,
         LeaveSession
<1>3. completed' \in [PeerIds -> EndPoints \cup {NoEndPoint}]
  BY DEF IndexInv, TypeOK, Disconnecting, PeerDisconnected
<1>4. connected' \subseteq EndPoints /\ awaiting' \subseteq EndPoints
  BY DEF IndexInv, TypeOK, Disconnecting, PeerDisconnected
<1> QED
  BY <1>1, <1>2, <1>3, <1>4
     DEF IndexInv, TypeOK, Disconnecting, Running, loadVars

\* Every handler keeps every variable typed.
LEMMA TypeStep ==
  ASSUME IndexInv, Step
  PROVE  TypeOK'
<1> USE DEF IndexInv, TypeOK
<1>1. ASSUME NEW e \in EndPoints, Disconnecting(e)
      PROVE  TypeOK'
  BY <1>1, DisconnectingType
<1>2. ASSUME NEW e \in EndPoints, NewConnection(e)
      PROVE  TypeOK'
  <2>1. PeerTypeOK'
    BY <1>2, ConstructedType DEF NewConnection
  <2> QED
    BY <1>2, <2>1 DEF NewConnection, Running, sessionVars, loadVars, banVars
<1>3. ASSUME NEW e \in EndPoints, NEW p \in PeerIds, NEW b \in BOOLEAN,
             OnHandshake(e, p, b)
      PROVE  TypeOK'
  <2>1. announced' \in [EndPoints -> Int] /\ sendUninstall' \in [EndPoints -> BOOLEAN]
    BY <1>3, AddHandshakeType DEF OnHandshake, CompleteHandshake, PeerTypeOK
  <2>2. PeerTypeOK'
    BY <1>3, <2>1 DEF OnHandshake, CompleteHandshake, PeerTypeOK, BEPSupportStatus
  <2> QED
    BY <1>3, <2>2
       DEF OnHandshake, CompleteHandshake, Running, sessionVars, loadVars, banVars
<1>4. ASSUME NEW e \in EndPoints,
             PeerWithoutExtension(e) \/ DiscardPeerMapping(e)
      PROVE  TypeOK'
  BY <1>4 DEF PeerWithoutExtension, DiscardPeerMapping, PeerTypeOK, BEPSupportStatus,
              Running, indexVars, sessionVars, loadVars, banVars
<1>5. ASSUME NEW e \in EndPoints, InstallPeerMapping(e)
      PROVE  TypeOK'
  <2>1. members' \subseteq PeerIds
    BY <1>5 DEF InstallPeerMapping, InstallMappingAndJoin, AddToSessionAsserts,
                PeerHasCompletedHandshake
  <2>2. PeerTypeOK'
    BY <1>5 DEF InstallPeerMapping, InstallMappingAndJoin, PeerTypeOK, BEPSupportStatus
  <2> QED
    BY <1>5, <2>1, <2>2 DEF InstallPeerMapping, InstallMappingAndJoin, Running,
                            indexVars, loadVars, banVars
<1>6. ASSUME NEW e \in EndPoints, UninstallPeerMapping(e)
      PROVE  TypeOK'
  <2>1. PeerTypeOK'
    BY <1>6 DEF UninstallPeerMapping, PeerTypeOK, BEPSupportStatus
  <2>2. members' \subseteq PeerIds /\ awaited' \subseteq PeerIds \X Pieces
    BY <1>6 DEF UninstallPeerMapping, RemoveFromSession, LeaveSession
  <2> QED
    BY <1>6, <2>1, <2>2 DEF UninstallPeerMapping, Running, indexVars, loadVars, banVars
<1>7. BEP10Peers \in SUBSET EndPoints /\ UninstallDue \in [EndPoints -> BOOLEAN]
  BY DEF BEP10Peers, CompletedPeers, UninstallDue, PeerTypeOK
<1>8. CASE Start
  <2>1. announced' \in [EndPoints -> Int] /\ sendUninstall' \in [EndPoints -> BOOLEAN]
    BY <1>7, <1>8, AddHandshakeType DEF Start, StartStopped, PeerTypeOK, SessionState
  <2> QED
    BY <1>8, <2>1 DEF Start, StartStopped, PeerTypeOK, SessionState, Running,
                      indexVars, loadVars, banVars
<1>9. CASE Stop
  <2>1. announced' \in [EndPoints -> Int] /\ sendUninstall' \in [EndPoints -> BOOLEAN]
    BY <1>7, <1>9, AddHandshakeType DEF Stop, PeerTypeOK, SessionState
  <2> QED
    BY <1>9, <2>1 DEF Stop, PeerTypeOK, SessionState, Running, indexVars, loadVars,
                      banVars
<1>10. CASE StopRefused
  BY <1>7, <1>10 DEF StopRefused, PeerTypeOK, Running, indexVars, sessionVars, loadVars,
                     banVars
<1>11. CASE StartPaused \/ Pause
  BY <1>11 DEF StartPaused, Pause, PeerTypeOK, SessionState, Running, peerVars,
               indexVars, loadVars, banVars
<1>12. CASE ToObserveMode \/ ToSellMode \/ ToBuyMode \/ ToBuyModeRefused
  BY <1>12 DEF ToObserveMode, ToSellMode, ToBuyMode, ToBuyModeRefused,
               OutstandingAfterLeaving, PeerTypeOK, SessionMode, Running, peerVars,
               indexVars, sessionVars, loadVars, banVars
<1>13. ASSUME NEW i \in Pieces, PieceAction(i)
       PROVE  TypeOK'
  <2>1. /\ awaited' \subseteq PeerIds \X Pieces
        /\ outstanding' \subseteq Pieces
        /\ reads' \in [Pieces -> Nat]
    BY <1>13 DEF PieceAction, LoadPieceForBuyer, LoadPieceAtOnce, LoadPieceFailsAtOnce,
                 PieceStep, PieceRead, PieceReadIgnored, PieceReadFailed,
                 ReadForOthers, PieceReadLost,
                 sessionVars, loadVars
  <2> QED
    BY <1>13, <2>1
       DEF PieceAction, LoadPieceForBuyer, LoadPieceAtOnce, LoadPieceFailsAtOnce,
           PieceStep, PieceRead, PieceReadIgnored, PieceReadFailed,
           ReadForOthers, PieceReadLost,
           PeerTypeOK, Running, peerVars, indexVars, sessionVars, banVars
<1>14. CASE TorrentStateChanges
  BY <1>14 DEF TorrentStateChanges, PeerTypeOK, Running, peerVars, indexVars,
               sessionVars, loadVars, banVars
<1>15. CASE AssertionFails
  BY <1>15 DEF AssertionFails, StartAborts, ToSellModeAborts, OnExtendedAborts,
               InstallPeerMappingAborts, PieceReadAborts, Abort, AssertionSites,
               PeerTypeOK, peerVars, indexVars, sessionVars, loadVars, banVars
<1> QED
  BY <1>1, <1>2, <1>3, <1>4, <1>5, <1>6, <1>8, <1>9, <1>10, <1>11, <1>12, <1>13,
     <1>14, <1>15 DEF Step

-----------------------------------------------------------------------------
(* Where the plugins are filed.                                            *)

\* Only three steps open, close or file a connection.
IndexChange ==
  \E e \in EndPoints : \/ Disconnecting(e)
                       \/ NewConnection(e)
                       \/ \E p \in PeerIds, b \in BOOLEAN : OnHandshake(e, p, b)

\* Every other step leaves the maps, the peer ids and BEP10 support alone.
LEMMA OtherStepsKeepIndex ==
  ASSUME Step, ~IndexChange
  PROVE  UNCHANGED <<indexVars, pid, bep10>>
<1>1. CASE \E e \in EndPoints : \/ PeerWithoutExtension(e)
                                \/ InstallPeerMapping(e)
                                \/ UninstallPeerMapping(e)
                                \/ DiscardPeerMapping(e)
  BY <1>1 DEF PeerWithoutExtension, InstallPeerMapping, InstallMappingAndJoin,
              UninstallPeerMapping, DiscardPeerMapping, indexVars
<1>2. CASE Start \/ StartPaused \/ Stop \/ StopRefused \/ Pause
  BY <1>2 DEF Start, StartStopped, StartPaused, Stop, StopRefused, Pause,
              indexVars, peerVars
<1>3. CASE ToObserveMode \/ ToSellMode \/ ToBuyMode \/ ToBuyModeRefused
  BY <1>3 DEF ToObserveMode, ToSellMode, ToBuyMode, ToBuyModeRefused,
              indexVars, peerVars
<1>4. CASE \E i \in Pieces : PieceAction(i)
  BY <1>4 DEF PieceAction, LoadPieceForBuyer, LoadPieceAtOnce, LoadPieceFailsAtOnce,
              PieceStep, PieceRead, PieceReadIgnored, PieceReadFailed,
              ReadForOthers, PieceReadLost,
              indexVars, peerVars
<1>5. CASE TorrentStateChanges \/ AssertionFails
  BY <1>5 DEF TorrentStateChanges, AssertionFails, StartAborts, ToSellModeAborts,
              OnExtendedAborts, InstallPeerMappingAborts, PieceReadAborts, Abort,
              indexVars, peerVars
<1> QED BY <1>1, <1>2, <1>3, <1>4, <1>5 DEF Step, IndexChange

\* A plugin whose connection ends leaves the map it is in, and no other does.
LEMMA DisconnectingIndex ==
  ASSUME IndexInv, NEW e \in EndPoints, Disconnecting(e)
  PROVE  PeersIndexed'
<1> USE DEF IndexInv, TypeOK, PeerTypeOK, PeersIndexed
<1>1. CASE e \in awaiting
  BY <1>1, NoEndPointAssumption
     DEF Disconnecting, PeerDisconnected, Constructed
<1>2. CASE e \notin awaiting
  <2>1. pid[e] \in PeerIds /\ completed[pid[e]] = e
    BY <1>2 DEF Disconnecting
  <2>2. /\ awaiting' = awaiting
        /\ connected' = connected \ {e}
        /\ completed' = [completed EXCEPT ![pid[e]] = NoEndPoint]
        /\ pid' = [pid EXCEPT ![e] = NoPeerId]
    BY <1>2 DEF Disconnecting, PeerDisconnected, Constructed
  <2>3. awaiting' \subseteq connected'
    BY <1>2, <2>2
  <2>4. ASSUME NEW x \in connected' \ awaiting'
        PROVE  pid'[x] \in PeerIds /\ completed'[pid'[x]] = x
    BY <2>1, <2>2
  <2>5. ASSUME NEW p \in PeerIds, completed'[p] # NoEndPoint
        PROVE  completed'[p] \in connected' \ awaiting' /\ pid'[completed'[p]] = p
    BY <2>1, <2>2, <2>5
  <2> QED BY <2>3, <2>4, <2>5
<1> QED BY <1>1, <1>2

\* A new connection awaits its handshake and is in no other map.
LEMMA NewConnectionIndex ==
  ASSUME IndexInv, NEW e \in EndPoints, NewConnection(e)
  PROVE  PeersIndexed'
BY NoEndPointAssumption
   DEF IndexInv, TypeOK, PeerTypeOK, PeersIndexed, NewConnection, Constructed

\* A peer that completes its handshake moves from one map to the other, filed
\* under the id it sent.
LEMMA OnHandshakeIndex ==
  ASSUME IndexInv, NEW e \in EndPoints, NEW p \in PeerIds, NEW b \in BOOLEAN,
         OnHandshake(e, p, b)
  PROVE  PeersIndexed'
<1> USE DEF IndexInv, TypeOK, PeerTypeOK, PeersIndexed
<1>1. /\ e \in awaiting /\ completed[p] = NoEndPoint
      /\ connected' = connected
      /\ awaiting' = awaiting \ {e}
      /\ completed' = [completed EXCEPT ![p] = e]
      /\ pid' = [pid EXCEPT ![e] = p]
  BY DEF OnHandshake, CompleteHandshake
<1>2. awaiting' \subseteq connected'
  BY <1>1
<1>3. ASSUME NEW x \in connected' \ awaiting'
      PROVE  pid'[x] \in PeerIds /\ completed'[pid'[x]] = x
  BY <1>1, NoEndPointAssumption
<1>4. ASSUME NEW q \in PeerIds, completed'[q] # NoEndPoint
      PROVE  completed'[q] \in connected' \ awaiting' /\ pid'[completed'[q]] = q
  BY <1>1, <1>4
<1> QED BY <1>2, <1>3, <1>4

\* Every handler keeps the peer maps and the open connections in agreement.
LEMMA IndexStep ==
  ASSUME IndexInv, Step
  PROVE  PeersIndexed'
<1>1. CASE IndexChange
  BY <1>1, DisconnectingIndex, NewConnectionIndex, OnHandshakeIndex DEF IndexChange
<1>2. CASE ~IndexChange
  BY <1>2, OtherStepsKeepIndex DEF IndexInv, PeersIndexed, indexVars
<1> QED BY <1>1, <1>2

-----------------------------------------------------------------------------
(* The plugins that are not filed under a peer id are as constructed.      *)

\* What add_handshake leaves alone: the plugins it is not called on.
LEMMA AddHandshakeElsewhere ==
  ASSUME PeerTypeOK,
         NEW plugins, NEW flags \in [EndPoints -> BOOLEAN], NEW s \in SessionState,
         AddHandshake(plugins, flags, s),
         NEW e \in EndPoints, e \notin plugins
  PROVE  announced'[e] = announced[e] /\ sendUninstall'[e] = flags[e]
<1>1. CASE s = "stopped"
  <2>1. announced' = [x \in EndPoints |->
            IF x \in plugins /\ flags[x] THEN announced[x] - 1 ELSE announced[x]]
    BY <1>1 DEF AddHandshake
  <2>2. sendUninstall' = [x \in EndPoints |-> flags[x] /\ x \notin plugins]
    BY <1>1 DEF AddHandshake
  <2>3. announced'[e] = announced[e]
    BY <2>1
  <2>4. sendUninstall'[e] = (flags[e] /\ e \notin plugins)
    BY <2>2, Zenon
  <2>5. (flags[e] /\ e \notin plugins) = flags[e]
    OBVIOUS
  <2> QED BY <2>3, <2>4, <2>5
<1>2. CASE s # "stopped"
  BY <1>2 DEF AddHandshake
<1> QED BY <1>1, <1>2

\* The plugins handshakes are written on, and those the uninstall mapping is due
\* for, are filed under a peer id.
LEMMA CompletedArePastHandshake ==
  ASSUME IndexInv
  PROVE  /\ CompletedPeers \subseteq connected \ awaiting
         /\ BEP10Peers \subseteq CompletedPeers
         /\ \A e \in EndPoints : e \in connected \ awaiting => e \in CompletedPeers
BY NoEndPointAssumption DEF IndexInv, TypeOK, PeersIndexed, CompletedPeers, BEP10Peers

Fresh(e) ==
  /\ pid[e] = NoPeerId
  /\ bep10[e] = "unknown"
  /\ payment[e] = "unknown"
  /\ hasMapping[e] = FALSE
  /\ sendUninstall[e] = FALSE
  /\ announced[e] = 0

\* A constructed plugin is fresh, and no other plugin ceases to be.
LEMMA ConstructedIsFresh ==
  ASSUME PeerTypeOK, NEW e \in EndPoints, Constructed(e)
  PROVE  /\ Fresh(e)'
         /\ \A x \in EndPoints : x # e /\ Fresh(x) => Fresh(x)'
BY DEF PeerTypeOK, Constructed, Fresh

\* A plugin that has not completed its handshake, or is gone, is as constructed.
LEMMA FreshStep ==
  ASSUME IndexInv, Step
  PROVE  FreshPlugins'
<1> USE DEF IndexInv, TypeOK
<1> SUFFICES ASSUME NEW x \in EndPoints, x \notin connected' \/ x \in awaiting'
             PROVE  Fresh(x)'
  BY DEF FreshPlugins, Fresh
<1>a. x \notin connected \/ x \in awaiting => Fresh(x)
  BY DEF FreshPlugins, Fresh
<1>b. CASE ~IndexChange
  <2>1. Fresh(x) /\ ~(x \in connected \ awaiting)
    BY <1>a, <1>b, OtherStepsKeepIndex DEF indexVars
  <2>2. x \notin CompletedPeers /\ x \notin BEP10Peers
    BY <2>1, CompletedArePastHandshake
  <2>3. UNCHANGED peerVars => Fresh(x)'
    BY <2>1 DEF peerVars, Fresh
  <2>4. ASSUME NEW e \in EndPoints,
               \/ PeerWithoutExtension(e)
               \/ InstallPeerMapping(e)
               \/ UninstallPeerMapping(e)
               \/ DiscardPeerMapping(e)
        PROVE  Fresh(x)'
    <3>1. x # e
      BY <2>1, <2>4 DEF PeerWithoutExtension, InstallPeerMapping,
              InstallMappingAndJoin, UninstallPeerMapping, DiscardPeerMapping, Open
    <3> QED
      BY <2>1, <2>4, <3>1
         DEF PeerWithoutExtension, InstallPeerMapping, InstallMappingAndJoin,
             UninstallPeerMapping, DiscardPeerMapping, Fresh, PeerTypeOK
  <2>5. UninstallDue \in [EndPoints -> BOOLEAN] /\ UninstallDue[x] = sendUninstall[x]
    BY <2>2 DEF UninstallDue, PeerTypeOK
  <2>6. CASE Start
    BY <2>1, <2>2, <2>6, AddHandshakeElsewhere
       DEF Start, StartStopped, PeerTypeOK, SessionState, Fresh
  <2>7. CASE Stop
    BY <2>1, <2>2, <2>5, <2>7, AddHandshakeElsewhere DEF Stop, SessionState, Fresh
  <2>8. CASE StopRefused
    BY <2>1, <2>5, <2>8 DEF StopRefused, Fresh
  <2>9. CASE StartPaused \/ Pause \/ TorrentStateChanges \/ AssertionFails
    BY <2>3, <2>9
       DEF StartPaused, Pause, TorrentStateChanges, AssertionFails, StartAborts,
           ToSellModeAborts, OnExtendedAborts, InstallPeerMappingAborts,
           PieceReadAborts, Abort
  <2>10. CASE ToObserveMode \/ ToSellMode \/ ToBuyMode \/ ToBuyModeRefused
    BY <2>3, <2>10 DEF ToObserveMode, ToSellMode, ToBuyMode, ToBuyModeRefused
  <2>11. CASE \E i \in Pieces : PieceAction(i)
    BY <2>3, <2>11
       DEF PieceAction, LoadPieceForBuyer, LoadPieceAtOnce, LoadPieceFailsAtOnce,
           PieceStep, PieceRead, PieceReadIgnored, PieceReadFailed,
           ReadForOthers, PieceReadLost
  <2> QED
    BY <1>b, <2>4, <2>6, <2>7, <2>8, <2>9, <2>10, <2>11 DEF Step, IndexChange
<1>c. ASSUME NEW e \in EndPoints, Disconnecting(e) \/ NewConnection(e)
      PROVE  Fresh(x)'
  <2>1. Constructed(e)
    BY <1>c DEF Disconnecting, PeerDisconnected, NewConnection
  <2>2. x = e \/ x \notin connected \/ x \in awaiting
    BY <1>c DEF Disconnecting, PeerDisconnected, NewConnection
  <2> QED BY <1>a, <2>1, <2>2, ConstructedIsFresh
<1>d. ASSUME NEW e \in EndPoints, NEW p \in PeerIds, NEW b \in BOOLEAN,
             OnHandshake(e, p, b)
      PROVE  Fresh(x)'
  <2>1. x # e /\ Fresh(x)
    BY <1>a, <1>d DEF OnHandshake, CompleteHandshake, PeersIndexed
  <2>2. announced'[x] = announced[x] /\ sendUninstall'[x] = sendUninstall[x]
    <3>1. AddHandshake({y \in {e} : b}, sendUninstall, state)
      BY <1>d DEF OnHandshake, CompleteHandshake
    <3>2. x \notin {y \in {e} : b}
      BY <2>1
    <3> HIDE DEF IndexInv, TypeOK
    <3>3. PeerTypeOK /\ sendUninstall \in [EndPoints -> BOOLEAN] /\ state \in SessionState
      BY DEF IndexInv, TypeOK, PeerTypeOK
    <3> QED BY <3>1, <3>2, <3>3, AddHandshakeElsewhere
  <2> QED
    BY <1>d, <2>1, <2>2 DEF OnHandshake, CompleteHandshake, Fresh, PeerTypeOK
<1> QED
  BY <1>b, <1>c, <1>d DEF IndexChange

-----------------------------------------------------------------------------
(* The connections of the session.                                         *)

Core == IndexInv /\ MembersHaveCompletedHandshake

\* The inductive invariant holds of a torrent plugin just made.
LEMMA InitCore == Init => Core
BY DEF Init, PeerInit, Core, IndexInv, TypeOK, PeerTypeOK, BEPSupportStatus,
       SessionMode, SessionState, PeersIndexed, FreshPlugins,
       MembersHaveCompletedHandshake

\* A peer that disconnects is in the session no more.
LEMMA DisconnectingMembers ==
  ASSUME Core, NEW e \in EndPoints, Disconnecting(e)
  PROVE  MembersHaveCompletedHandshake'
<1> USE DEF Core, IndexInv, TypeOK, MembersHaveCompletedHandshake
<1>1. CASE e \in awaiting
  BY <1>1 DEF Disconnecting, PeerDisconnected
<1>2. CASE e \notin awaiting
  <2>1. PeerHasCompletedHandshake(e)
    BY <1>2 DEF Disconnecting, PeersIndexed, PeerHasCompletedHandshake
  <2>2. members' = members \ {pid[e]}
    BY <1>2, <2>1
       DEF Disconnecting, PeerDisconnected, RemoveFromSession, LeaveSession,
           PeerInSession
  <2>3. completed' = [completed EXCEPT ![pid[e]] = NoEndPoint]
    BY <1>2 DEF Disconnecting, PeerDisconnected
  <2> QED BY <2>2, <2>3 DEF Disconnecting
<1> QED BY <1>1, <1>2

\* Every handler keeps the session's connections among the completed peers.
LEMMA MembersStep ==
  ASSUME Core, Step
  PROVE  MembersHaveCompletedHandshake'
<1> USE DEF Core, IndexInv, TypeOK, MembersHaveCompletedHandshake
<1>1. ASSUME NEW e \in EndPoints, Disconnecting(e)
      PROVE  MembersHaveCompletedHandshake'
  BY <1>1, DisconnectingMembers
<1>2. ASSUME NEW e \in EndPoints,
             \/ NewConnection(e)
             \/ PeerWithoutExtension(e)
             \/ DiscardPeerMapping(e)
      PROVE  MembersHaveCompletedHandshake'
  BY <1>2 DEF NewConnection, PeerWithoutExtension, DiscardPeerMapping, sessionVars,
              indexVars
<1>3. ASSUME NEW e \in EndPoints, NEW p \in PeerIds, NEW b \in BOOLEAN,
             OnHandshake(e, p, b)
      PROVE  MembersHaveCompletedHandshake'
  BY <1>3, NoEndPointAssumption DEF OnHandshake, CompleteHandshake, sessionVars
<1>4. ASSUME NEW e \in EndPoints, InstallPeerMapping(e)
      PROVE  MembersHaveCompletedHandshake'
  BY <1>4, NoEndPointAssumption
     DEF InstallPeerMapping, InstallMappingAndJoin, AddToSessionAsserts,
         PeerHasCompletedHandshake, indexVars
<1>5. ASSUME NEW e \in EndPoints, UninstallPeerMapping(e)
      PROVE  MembersHaveCompletedHandshake'
  BY <1>5 DEF UninstallPeerMapping, RemoveFromSession, LeaveSession, indexVars
<1>6. CASE Start \/ StartPaused \/ Stop \/ StopRefused \/ Pause
  BY <1>6 DEF Start, StartStopped, StartPaused, Stop, StopRefused, Pause,
              SessionState, SessionMode, sessionVars, indexVars
<1>7. CASE ToObserveMode \/ ToSellMode \/ ToBuyMode \/ ToBuyModeRefused
  BY <1>7 DEF ToObserveMode, ToSellMode, ToBuyMode, ToBuyModeRefused, sessionVars,
              indexVars
<1>8. CASE \E i \in Pieces : PieceAction(i)
  BY <1>8 DEF PieceAction, LoadPieceForBuyer, LoadPieceAtOnce, LoadPieceFailsAtOnce,
              PieceStep, PieceRead, PieceReadIgnored, PieceReadFailed,
              ReadForOthers, PieceReadLost,
              sessionVars, indexVars
<1>9. CASE TorrentStateChanges \/ AssertionFails
  BY <1>9 DEF TorrentStateChanges, AssertionFails, StartAborts, ToSellModeAborts,
              OnExtendedAborts, InstallPeerMappingAborts, PieceReadAborts, Abort,
              sessionVars, indexVars
<1> QED
  BY <1>1, <1>2, <1>3, <1>4, <1>5, <1>6, <1>7, <1>8, <1>9 DEF Step

\* The inductive invariant is preserved by every step.
LEMMA CoreStep ==
  ASSUME Core, [Next]_vars
  PROVE  Core'
<1>1. CASE Next
  <2>1. Step
    BY <1>1, NextIsStep DEF Core
  <2> QED BY <2>1, TypeStep, IndexStep, FreshStep, MembersStep DEF Core, IndexInv
<1>2. CASE UNCHANGED vars
  BY <1>2 DEF Core, IndexInv, TypeOK, PeerTypeOK, PeersIndexed, FreshPlugins,
              MembersHaveCompletedHandshake, vars, peerVars, indexVars, sessionVars,
              loadVars, banVars
<1> QED BY <1>1, <1>2

\* The inductive invariant the safety theorems rest on: types, agreement of the
\* peer maps with the open connections, fresh plugins, and a session that knows
\* only completed peers.
THEOREM CoreHolds == Spec => []Core
<1>1. Core /\ [Next]_vars => Core'
  BY CoreStep
<1> QED BY <1>1, InitCore, PTL DEF Spec

\* Every variable keeps its type: no handler leaves a plugin, a map, the session
\* or the reads in a state the code has no name for.
THEOREM TypeCorrect == Spec => []TypeOK
<1>1. Core => TypeOK
  BY DEF Core, IndexInv
<1> QED BY <1>1, CoreHolds, PTL

\* The peer maps of TorrentPlugin and the open connections of libtorrent agree.
THEOREM PeersStayIndexed == Spec => []PeersIndexed
<1>1. Core => PeersIndexed
  BY DEF Core, IndexInv
<1> QED BY <1>1, CoreHolds, PTL

\* peer() finds the plugin of every connection of the session, and a stopped
\* session has none.
THEOREM SessionKnowsItsPeers == Spec => []MembersHaveCompletedHandshake
<1>1. Core => MembersHaveCompletedHandshake
  BY DEF Core
<1> QED BY <1>1, CoreHolds, PTL

=============================================================================
