-------------------------- MODULE TorrentSafetyProofs --------------------------
(***************************************************************************)
(* Safety of TorrentPlugin, from the invariant Core of TorrentPluginProofs.*)
(* Each property below is inductive relative to Core, except that joining  *)
(* the session with a mapping rests on SupportedIffMapped.                 *)
(***************************************************************************)
EXTENDS TorrentPluginProofs

\* The steps that leave the peers, and their part in the session, alone.
Quiet == UNCHANGED <<peerVars, indexVars, state, members, misbehaved>>

\* The steps, with all that disturb no safety property about peers taken as Quiet.
LEMMA StepCases ==
  ASSUME Step
  PROVE  \/ Quiet
         \/ \E e \in EndPoints : Disconnecting(e)
         \/ \E e \in EndPoints : NewConnection(e)
         \/ \E e \in EndPoints, p \in PeerIds, b \in BOOLEAN : OnHandshake(e, p, b)
         \/ \E e \in EndPoints : PeerWithoutExtension(e)
         \/ \E e \in EndPoints : InstallPeerMapping(e)
         \/ \E e \in EndPoints : UninstallPeerMapping(e)
         \/ /\ "invalid mapping" \in PeerHandshakes
            /\ \E e \in EndPoints : DiscardPeerMapping(e)
         \/ Start \/ StartPaused \/ Stop \/ StopRefused \/ Pause
<1>1. CASE ToObserveMode \/ ToSellMode \/ ToBuyMode \/ ToBuyModeRefused
  BY <1>1 DEF ToObserveMode, ToSellMode, ToBuyMode, ToBuyModeRefused, sessionVars,
              banVars, Quiet
<1>2. CASE \E i \in Pieces : PieceAction(i)
  BY <1>2 DEF PieceAction, LoadPieceForBuyer, LoadPieceAtOnce, LoadPieceFailsAtOnce,
              PieceStep, PieceRead, PieceReadIgnored, PieceReadFailed,
              ReadForOthers, PieceReadLost,
              sessionVars, banVars, Quiet
<1>3. CASE TorrentStateChanges \/ AssertionFails
  BY <1>3 DEF TorrentStateChanges, AssertionFails, StartAborts, ToSellModeAborts,
              OnExtendedAborts, InstallPeerMappingAborts, PieceReadAborts, Abort,
              sessionVars, banVars, Quiet
<1> QED BY <1>1, <1>2, <1>3 DEF Step

\* A plugin of an open connection that disconnects leaves the maps, and nothing
\* else leaves or enters them.
LEMMA DisconnectingEffect ==
  ASSUME Core, NEW e \in EndPoints, Disconnecting(e)
  PROVE  /\ \A p \in PeerIds : completed'[p] # NoEndPoint =>
              completed'[p] = completed[p] /\ completed[p] # e
         /\ \A p \in members : completed'[p] # NoEndPoint => p \in members'
         /\ members' \subseteq members
         /\ connected' \ awaiting' \subseteq (connected \ awaiting) \ {e}
<1> USE DEF Core, IndexInv, TypeOK, PeersIndexed
<1>1. CASE e \in awaiting
  BY <1>1 DEF Disconnecting, PeerDisconnected
<1>2. CASE e \notin awaiting
  <2>1. /\ pid[e] \in PeerIds /\ completed[pid[e]] = e
        /\ completed' = [completed EXCEPT ![pid[e]] = NoEndPoint]
    BY <1>2 DEF Disconnecting, PeerDisconnected
  <2>2. members' = members \ {pid[e]} \/ members' = members
    BY <1>2 DEF Disconnecting, PeerDisconnected, RemoveFromSession, LeaveSession
  <2>3. \A p \in PeerIds : completed'[p] # NoEndPoint =>
           completed'[p] = completed[p] /\ completed[p] # e
    BY <2>1
  <2>4. connected' \ awaiting' \subseteq (connected \ awaiting) \ {e}
    BY <1>2 DEF Disconnecting, PeerDisconnected
  <2> QED BY <2>1, <2>2, <2>3, <2>4
<1> QED BY <1>1, <1>2

-----------------------------------------------------------------------------
\* The full mapping is held exactly while the peer counts as supporting the
\* extension.
LEMMA SupportedIffMappedStep ==
  ASSUME Core, SupportedIffMapped, Step
  PROVE  SupportedIffMapped'
<1> USE DEF Core, IndexInv, TypeOK, PeerTypeOK, SupportedIffMapped
<1>1. CASE Quiet \/ StartPaused \/ Pause
  BY <1>1 DEF Quiet, StartPaused, Pause, peerVars, indexVars
<1>2. ASSUME NEW e \in EndPoints, Disconnecting(e) \/ NewConnection(e)
      PROVE  SupportedIffMapped'
  <2>1. /\ payment' = [payment EXCEPT ![e] = "unknown"]
        /\ hasMapping' = [hasMapping EXCEPT ![e] = FALSE]
    BY <1>2 DEF Disconnecting, PeerDisconnected, NewConnection, Constructed
  <2>2. connected' \ awaiting' \subseteq connected \ awaiting
    BY <1>2, DisconnectingEffect DEF NewConnection
  <2> QED BY <2>1, <2>2
<1>3. ASSUME NEW e \in EndPoints, NEW p \in PeerIds, NEW b \in BOOLEAN,
             OnHandshake(e, p, b)
      PROVE  SupportedIffMapped'
  <2>1. payment[e] = "unknown" /\ hasMapping[e] = FALSE
    BY <1>3 DEF OnHandshake, CompleteHandshake, FreshPlugins, PeersIndexed
  <2> QED
    BY <1>3, <2>1 DEF OnHandshake, CompleteHandshake
<1>4. ASSUME NEW e \in EndPoints,
             \/ PeerWithoutExtension(e)
             \/ InstallPeerMapping(e)
             \/ UninstallPeerMapping(e)
             \/ DiscardPeerMapping(e)
      PROVE  SupportedIffMapped'
  BY <1>4 DEF PeerWithoutExtension, InstallPeerMapping, InstallMappingAndJoin,
              UninstallPeerMapping, DiscardPeerMapping, ViolatesHandshakeProtocol,
              indexVars
<1>5. CASE Start \/ Stop \/ StopRefused
  BY <1>5 DEF Start, StartStopped, Stop, StopRefused, indexVars
<1> QED BY <1>1, <1>2, <1>3, <1>4, <1>5, StepCases

\* send() to a peer that supports the extension never meets an empty mapping, and
\* no mapping is kept for a peer that does not.
THEOREM MappedWhileSupported == Spec => []SupportedIffMapped
<1>1. Init => SupportedIffMapped
  BY DEF Init, SupportedIffMapped
<1>2. Core /\ SupportedIffMapped /\ [Next]_vars => SupportedIffMapped'
  <2>1. ASSUME Core, SupportedIffMapped, Next
        PROVE  SupportedIffMapped'
    BY <2>1, NextIsStep, SupportedIffMappedStep DEF Core
  <2> QED
    BY <2>1 DEF SupportedIffMapped, vars, peerVars, indexVars
<1> QED BY <1>1, <1>2, CoreHolds, PTL DEF Spec

-----------------------------------------------------------------------------
\* A step that is not Quiet keeps a peer with a mapping in the session, unless it
\* stops the session.
LEMMA SupportedPeersStep ==
  ASSUME Core, SupportedPeersInSession, Step
  PROVE  SupportedPeersInSession'
<1> USE DEF Core, IndexInv, TypeOK, PeerTypeOK, SupportedPeersInSession
<1>1. CASE Quiet \/ StartPaused \/ Pause
  BY <1>1 DEF Quiet, StartPaused, Pause, peerVars, indexVars
<1>2. ASSUME NEW e \in EndPoints, Disconnecting(e)
      PROVE  SupportedPeersInSession'
  <2>1. /\ payment' = [payment EXCEPT ![e] = "unknown"]
        /\ state' = state
    BY <1>2 DEF Disconnecting, PeerDisconnected, Constructed
  <2>2. ASSUME NEW p \in PeerIds, state # "stopped", completed'[p] # NoEndPoint,
               payment'[completed'[p]] = "supported"
        PROVE  p \in members'
    <3>1. completed'[p] = completed[p] /\ completed[p] # e
      BY <1>2, <2>2, DisconnectingEffect
    <3>2. p \in members
      BY <2>1, <2>2, <3>1
    <3> QED BY <1>2, <2>2, <3>2, DisconnectingEffect
  <2> QED BY <2>1, <2>2
<1>3. ASSUME NEW e \in EndPoints, NewConnection(e)
      PROVE  SupportedPeersInSession'
  BY <1>3 DEF NewConnection, Constructed, sessionVars
<1>4. ASSUME NEW e \in EndPoints, NEW p \in PeerIds, NEW b \in BOOLEAN,
             OnHandshake(e, p, b)
      PROVE  SupportedPeersInSession'
  <2>1. payment[e] = "unknown"
    BY <1>4 DEF OnHandshake, CompleteHandshake, FreshPlugins, PeersIndexed
  <2>2. \A q \in PeerIds : completed'[q] # NoEndPoint
                             /\ payment'[completed'[q]] = "supported" =>
           completed[q] # NoEndPoint /\ payment[completed[q]] = "supported"
    BY <1>4, <2>1 DEF OnHandshake, CompleteHandshake
  <2> QED
    BY <1>4, <2>2 DEF OnHandshake, CompleteHandshake, sessionVars
<1>5. ASSUME NEW e \in EndPoints, PeerWithoutExtension(e) \/ DiscardPeerMapping(e)
      PROVE  SupportedPeersInSession'
  BY <1>5 DEF PeerWithoutExtension, DiscardPeerMapping, indexVars, sessionVars
<1>6. ASSUME NEW e \in EndPoints, InstallPeerMapping(e)
      PROVE  SupportedPeersInSession'
  BY <1>6 DEF InstallPeerMapping, InstallMappingAndJoin, PeersIndexed, Open,
              indexVars
<1>7. ASSUME NEW e \in EndPoints, UninstallPeerMapping(e)
      PROVE  SupportedPeersInSession'
  <2>1. \A q \in members : q \in members' \/ q = pid[e]
    BY <1>7 DEF UninstallPeerMapping, RemoveFromSession, LeaveSession
  <2>2. completed[pid[e]] = e
    BY <1>7 DEF UninstallPeerMapping, Open, PeersIndexed
  <2> QED
    BY <1>7, <2>1, <2>2 DEF UninstallPeerMapping, indexVars
<1>8. CASE Start \/ Stop \/ StopRefused
  BY <1>8 DEF Start, StartStopped, Stop, StopRefused, indexVars, sessionVars
<1> QED BY <1>1, <1>2, <1>3, <1>4, <1>5, <1>6, <1>7, <1>8, StepCases

\* No peer with an installed mapping is left out of a session that is not
\* stopped, in whatever order the two sides started, stopped and shook hands.
THEOREM NoSupportedPeerLeftOut == Spec => []SupportedPeersInSession
<1>1. Init => SupportedPeersInSession
  BY DEF Init, SupportedPeersInSession
<1>2. Core /\ SupportedPeersInSession /\ [Next]_vars => SupportedPeersInSession'
  <2>1. ASSUME Core, SupportedPeersInSession, Next
        PROVE  SupportedPeersInSession'
    BY <2>1, NextIsStep, SupportedPeersStep DEF Core
  <2> QED
    BY <2>1
       DEF SupportedPeersInSession, vars, peerVars, indexVars, sessionVars
<1> QED BY <1>1, <1>2, CoreHolds, PTL DEF Spec

-----------------------------------------------------------------------------
\* What add_handshake does to a plugin it is called on.
LEMMA AddHandshakeHere ==
  ASSUME PeerTypeOK,
         NEW plugins, NEW flags \in [EndPoints -> BOOLEAN], NEW s \in SessionState,
         AddHandshake(plugins, flags, s),
         NEW e \in EndPoints, e \in plugins
  PROVE  announced'[e] = IF s # "stopped" THEN announced[e] + 1
                         ELSE IF flags[e] THEN announced[e] - 1
                         ELSE announced[e]
BY DEF PeerTypeOK, AddHandshake

\* Every handler keeps what a peer was told in step with the session.
LEMMA AnnouncedStep ==
  ASSUME Core, AnnouncedMatchesSession, Step
  PROVE  AnnouncedMatchesSession'
<1> USE DEF Core, IndexInv, TypeOK, PeerTypeOK, AnnouncedMatchesSession
<1>1. CASE Quiet \/ StartPaused \/ Pause
  <2>1. UNCHANGED <<peerVars, indexVars>> /\ (state' = "stopped" <=> state = "stopped")
    BY <1>1 DEF Quiet, StartPaused, Pause
  <2> QED BY <2>1 DEF peerVars, indexVars
<1>2. ASSUME NEW e \in EndPoints, Disconnecting(e) \/ NewConnection(e)
      PROVE  AnnouncedMatchesSession'
  <2>1. /\ bep10' = [bep10 EXCEPT ![e] = "unknown"]
        /\ announced' = [announced EXCEPT ![e] = 0]
        /\ state' = state
    BY <1>2 DEF Disconnecting, PeerDisconnected, NewConnection, Constructed,
                sessionVars
  <2>2. connected' \ awaiting' \subseteq connected \ awaiting
    BY <1>2, DisconnectingEffect DEF NewConnection
  <2> QED BY <2>1, <2>2
<1>3. ASSUME NEW e \in EndPoints, NEW p \in PeerIds, NEW b \in BOOLEAN,
             OnHandshake(e, p, b)
      PROVE  AnnouncedMatchesSession'
  <2>1. announced[e] = 0 /\ sendUninstall[e] = FALSE
    BY <1>3 DEF OnHandshake, CompleteHandshake, FreshPlugins, PeersIndexed
  <2>2. /\ AddHandshake({x \in {e} : b}, sendUninstall, state)
        /\ bep10' = [bep10 EXCEPT ![e] = IF b THEN "supported" ELSE "not_supported"]
        /\ connected' \ awaiting' \subseteq (connected \ awaiting) \cup {e}
        /\ state' = state
    BY <1>3 DEF OnHandshake, CompleteHandshake, sessionVars
  <2>3. ASSUME NEW x \in EndPoints, x # e
        PROVE  announced'[x] = announced[x]
    <3>1. x \notin {y \in {e} : b}
      BY <2>3
    <3> QED BY <2>2, <3>1, AddHandshakeElsewhere
  <2>4. b => announced'[e] = IF state = "stopped" THEN 0 ELSE 1
    <3>1. b => e \in {y \in {e} : b}
      OBVIOUS
    <3> QED BY <2>1, <2>2, <3>1, AddHandshakeHere
  <2> QED BY <2>2, <2>3, <2>4
<1>4. ASSUME NEW e \in EndPoints,
             \/ PeerWithoutExtension(e)
             \/ InstallPeerMapping(e)
             \/ UninstallPeerMapping(e)
             \/ DiscardPeerMapping(e)
      PROVE  AnnouncedMatchesSession'
  BY <1>4 DEF PeerWithoutExtension, InstallPeerMapping, InstallMappingAndJoin,
              UninstallPeerMapping, DiscardPeerMapping, indexVars, sessionVars
<1>5. \A e \in connected \ awaiting : bep10[e] = "supported" => e \in BEP10Peers
  BY CompletedArePastHandshake DEF BEP10Peers
<1>6. CASE Start
  <2>1. /\ AddHandshake(BEP10Peers, sendUninstall, "started")
        /\ state = "stopped" /\ state' = "started"
        /\ UNCHANGED <<bep10, connected, awaiting>>
    BY <1>6 DEF Start, StartStopped, indexVars
  <2> QED BY <1>5, <2>1, AddHandshakeHere DEF SessionState
<1>7. CASE Stop
  <2>1. /\ AddHandshake(BEP10Peers, UninstallDue, "stopped")
        /\ state # "stopped" /\ state' = "stopped"
        /\ UNCHANGED <<bep10, connected, awaiting>>
    BY <1>7 DEF Stop, indexVars
  <2>2. UninstallDue \in [EndPoints -> BOOLEAN]
    BY DEF UninstallDue
  <2>3. \A e \in EndPoints : e \in BEP10Peers => UninstallDue[e] = TRUE
    BY CompletedArePastHandshake DEF UninstallDue
  <2> QED BY <1>5, <2>1, <2>2, <2>3, AddHandshakeHere DEF SessionState
<1>8. CASE StopRefused
  BY <1>8 DEF StopRefused, indexVars, sessionVars
<1> QED BY <1>1, <1>2, <1>3, <1>4, <1>6, <1>7, <1>8, StepCases

\* A peer with BEP10 has been told one full mapping while the session is started
\* or paused, and none while it is stopped.
THEOREM PeersAreToldTheTruth == Spec => []AnnouncedMatchesSession
<1>1. Init => AnnouncedMatchesSession
  BY DEF Init, AnnouncedMatchesSession
<1>2. Core /\ AnnouncedMatchesSession /\ [Next]_vars => AnnouncedMatchesSession'
  <2>1. ASSUME Core, AnnouncedMatchesSession, Next
        PROVE  AnnouncedMatchesSession'
    BY <2>1, NextIsStep, AnnouncedStep DEF Core
  <2> QED
    BY <2>1 DEF AnnouncedMatchesSession, vars, peerVars, indexVars, sessionVars
<1> QED BY <1>1, <1>2, CoreHolds, PTL DEF Spec

-----------------------------------------------------------------------------
\* Every handler keeps banned endpoints out of the completed peers.
LEMMA BannedStep ==
  ASSUME Core, BannedPeersAreOut, Step
  PROVE  BannedPeersAreOut'
<1> USE DEF Core, IndexInv, TypeOK, BannedPeersAreOut
<1>1. CASE Quiet
  BY <1>1 DEF Quiet, indexVars
<1>2. ASSUME NEW e \in EndPoints, Disconnecting(e)
      PROVE  BannedPeersAreOut'
  <2>1. misbehaved' \subseteq misbehaved \cup {e}
    BY <1>2 DEF Disconnecting
  <2>2. NoEndPoint \notin misbehaved'
    BY <1>2, <2>1, NoEndPointAssumption
  <2> QED BY <1>2, <2>1, <2>2, DisconnectingEffect
<1>3. ASSUME NEW e \in EndPoints, NEW p \in PeerIds, NEW b \in BOOLEAN,
             OnHandshake(e, p, b)
      PROVE  BannedPeersAreOut'
  BY <1>3 DEF OnHandshake, IsPeerBanned, CompleteHandshake, banVars
<1>4. ASSUME NEW e \in EndPoints,
             \/ NewConnection(e)
             \/ PeerWithoutExtension(e)
             \/ InstallPeerMapping(e)
             \/ UninstallPeerMapping(e)
             \/ DiscardPeerMapping(e)
      PROVE  BannedPeersAreOut'
  BY <1>4 DEF NewConnection, PeerWithoutExtension, InstallPeerMapping,
              InstallMappingAndJoin, UninstallPeerMapping, DiscardPeerMapping,
              indexVars, banVars
<1>5. CASE Start \/ StartPaused \/ Stop \/ StopRefused \/ Pause
  BY <1>5 DEF Start, StartStopped, StartPaused, Stop, StopRefused, Pause,
              indexVars, banVars
<1> QED BY <1>1, <1>2, <1>3, <1>4, <1>5, StepCases

\* An endpoint the session has banned is let in never again, and is out of the
\* maps from the step that bans it on.
THEOREM BannedStayOut == Spec => []BannedPeersAreOut
<1>1. Init => BannedPeersAreOut
  BY DEF Init, BannedPeersAreOut
<1>2. Core /\ BannedPeersAreOut /\ [Next]_vars => BannedPeersAreOut'
  <2>1. ASSUME Core, BannedPeersAreOut, Next
        PROVE  BannedPeersAreOut'
    BY <2>1, NextIsStep, BannedStep DEF Core
  <2> QED
    BY <2>1 DEF BannedPeersAreOut, vars, indexVars, banVars
<1> QED BY <1>1, <1>2, CoreHolds, PTL DEF Spec

-----------------------------------------------------------------------------
\* Every handler keeps a read in flight for each registered piece.
LEMMA OutstandingStep ==
  ASSUME ~ReadsMayBeLost, Core, OutstandingWillBeRead, Step
  PROVE  OutstandingWillBeRead'
<1> USE DEF Core, IndexInv, TypeOK, OutstandingWillBeRead, ResponseWillCome
<1>1. ASSUME NEW e \in EndPoints,
             \/ Disconnecting(e)
             \/ NewConnection(e)
             \/ \E p \in PeerIds, b \in BOOLEAN : OnHandshake(e, p, b)
             \/ PeerWithoutExtension(e)
             \/ InstallPeerMapping(e)
             \/ UninstallPeerMapping(e)
             \/ DiscardPeerMapping(e)
      PROVE  OutstandingWillBeRead'
  BY <1>1 DEF Disconnecting, NewConnection, OnHandshake, CompleteHandshake,
              PeerWithoutExtension, InstallPeerMapping, InstallMappingAndJoin,
              UninstallPeerMapping, DiscardPeerMapping, loadVars, sessionVars
<1>2. CASE Start \/ StartPaused \/ Stop \/ StopRefused \/ Pause
  BY <1>2 DEF Start, StartStopped, StartPaused, Stop, StopRefused, Pause, loadVars,
              sessionVars
<1>3. CASE ToObserveMode \/ ToSellMode \/ ToBuyMode \/ ToBuyModeRefused
  BY <1>3 DEF ToObserveMode, ToSellMode, ToBuyMode, ToBuyModeRefused,
              OutstandingAfterLeaving, loadVars, sessionVars
<1>4. ASSUME NEW i \in Pieces, NEW p \in PeerIds, LoadPieceForBuyer(p, i)
      PROVE  OutstandingWillBeRead'
  BY <1>4 DEF LoadPieceForBuyer, loadVars
<1>5. ASSUME NEW i \in Pieces, NEW p \in PeerIds,
             LoadPieceAtOnce(p, i) \/ LoadPieceFailsAtOnce(p, i)
      PROVE  OutstandingWillBeRead'
  BY <1>5 DEF LoadPieceAtOnce, LoadPieceFailsAtOnce, loadVars
<1>6. ASSUME NEW i \in Pieces, PieceStep(i) \/ ReadForOthers(i) \/ PieceReadLost(i)
      PROVE  OutstandingWillBeRead'
  BY <1>6 DEF PieceStep, PieceRead, PieceReadIgnored, PieceReadFailed,
              ReadForOthers, PieceReadLost,
              loadVars, sessionVars
<1>7. CASE TorrentStateChanges \/ AssertionFails
  BY <1>7 DEF TorrentStateChanges, AssertionFails, StartAborts, ToSellModeAborts,
              OnExtendedAborts, InstallPeerMappingAborts, PieceReadAborts, Abort,
              loadVars, sessionVars
<1> QED
  BY <1>1, <1>2, <1>3, <1>4, <1>5, <1>6, <1>7 DEF Step, PieceAction

\* If no answer is lost to a full alert queue, a piece stays registered only while
\* a read of it is in flight and the session is selling: no registration is left
\* behind to swallow later requests.
THEOREM RegistrationsAreRead ==
  ASSUME ~ReadsMayBeLost
  PROVE  Spec => []OutstandingWillBeRead
<1>1. Init => OutstandingWillBeRead
  BY DEF Init, OutstandingWillBeRead, ResponseWillCome
<1>2. Core /\ OutstandingWillBeRead /\ [Next]_vars => OutstandingWillBeRead'
  <2>1. ASSUME Core, OutstandingWillBeRead, Next
        PROVE  OutstandingWillBeRead'
    BY <2>1, NextIsStep, OutstandingStep DEF Core
  <2> QED
    BY <2>1 DEF OutstandingWillBeRead, ResponseWillCome, vars, loadVars, sessionVars
<1> QED BY <1>1, <1>2, CoreHolds, PTL DEF Spec

-----------------------------------------------------------------------------
(* Assertions.                                                             *)

\* Only an assertion that fails ends the process.
LEMMA RunsOrFails ==
  ASSUME Step
  PROVE  aborted' = aborted \/ AssertionFails
<1>1. ASSUME NEW e \in EndPoints,
             \/ Disconnecting(e)
             \/ NewConnection(e)
             \/ \E p \in PeerIds, b \in BOOLEAN : OnHandshake(e, p, b)
             \/ PeerWithoutExtension(e)
             \/ InstallPeerMapping(e)
             \/ UninstallPeerMapping(e)
             \/ DiscardPeerMapping(e)
      PROVE  aborted' = aborted
  BY <1>1 DEF Disconnecting, NewConnection, OnHandshake, CompleteHandshake,
              PeerWithoutExtension, InstallPeerMapping, InstallMappingAndJoin,
              UninstallPeerMapping, DiscardPeerMapping, Running
<1>2. CASE Start \/ StartPaused \/ Stop \/ StopRefused \/ Pause
  BY <1>2 DEF Start, StartStopped, StartPaused, Stop, StopRefused, Pause, Running
<1>3. CASE ToObserveMode \/ ToSellMode \/ ToBuyMode \/ ToBuyModeRefused
  BY <1>3 DEF ToObserveMode, ToSellMode, ToBuyMode, ToBuyModeRefused, Running
<1>4. CASE \E i \in Pieces : PieceAction(i)
  BY <1>4 DEF PieceAction, LoadPieceForBuyer, LoadPieceAtOnce, LoadPieceFailsAtOnce,
              PieceStep, PieceRead, PieceReadIgnored, PieceReadFailed,
              ReadForOthers, PieceReadLost,
              Running
<1>5. CASE TorrentStateChanges
  BY <1>5 DEF TorrentStateChanges, Running
<1> QED BY <1>1, <1>2, <1>3, <1>4, <1>5 DEF Step

-----------------------------------------------------------------------------
(* Buyers that wait.                                                       *)

\* What a handler about peers or the session does leaves the registered pieces
\* alone and lets nobody wait who did not wait before.
LEMMA PeersLeaveBuyersAlone ==
  ASSUME \/ \E e \in EndPoints :
              \/ Disconnecting(e)
              \/ NewConnection(e)
              \/ \E p \in PeerIds, b \in BOOLEAN : OnHandshake(e, p, b)
              \/ PeerWithoutExtension(e)
              \/ InstallPeerMapping(e)
              \/ UninstallPeerMapping(e)
              \/ DiscardPeerMapping(e)
         \/ Start \/ StartPaused \/ Stop \/ StopRefused \/ Pause
         \/ TorrentStateChanges
         \/ AssertionFails
  PROVE  awaited' \subseteq awaited /\ outstanding' = outstanding
<1>1. ASSUME NEW e \in EndPoints, Disconnecting(e) \/ UninstallPeerMapping(e)
      PROVE  awaited' \subseteq awaited /\ outstanding' = outstanding
  BY <1>1 DEF Disconnecting, PeerDisconnected, UninstallPeerMapping,
              RemoveFromSession, LeaveSession, loadVars
<1>2. ASSUME NEW e \in EndPoints,
             \/ NewConnection(e)
             \/ \E p \in PeerIds, b \in BOOLEAN : OnHandshake(e, p, b)
             \/ PeerWithoutExtension(e)
             \/ InstallPeerMapping(e)
             \/ DiscardPeerMapping(e)
      PROVE  awaited' \subseteq awaited /\ outstanding' = outstanding
  BY <1>2 DEF NewConnection, OnHandshake, CompleteHandshake, PeerWithoutExtension,
              InstallPeerMapping, InstallMappingAndJoin, DiscardPeerMapping,
              sessionVars, loadVars
<1>3. CASE Start \/ StartPaused \/ Stop \/ StopRefused \/ Pause
  BY <1>3 DEF Start, StartStopped, StartPaused, Stop, StopRefused, Pause,
              sessionVars, loadVars
<1>4. CASE TorrentStateChanges \/ AssertionFails
  BY <1>4 DEF TorrentStateChanges, AssertionFails, StartAborts, ToSellModeAborts,
              OnExtendedAborts, InstallPeerMappingAborts, PieceReadAborts, Abort,
              sessionVars, loadVars
<1> QED BY <1>1, <1>2, <1>3, <1>4

\* What leaves a buyer waiting for a piece nobody is reading for it.
Starves ==
  \/ ToBuyModeRefused
  \/ \E i \in Pieces :
       PieceReadFailed(i) \/ \E p \in PeerIds : LoadPieceFailsAtOnce(p, i)

\* Every other step keeps the pieces buyers wait for registered.
LEMMA StarvingStep ==
  ASSUME Step, AwaitedIsRegistered, ~Starves
  PROVE  AwaitedIsRegistered'
<1>1. CASE awaited' \subseteq awaited /\ outstanding' = outstanding
  BY <1>1 DEF AwaitedIsRegistered
<1>2. CASE ToObserveMode \/ ToSellMode \/ ToBuyMode
  BY <1>2 DEF ToObserveMode, ToSellMode, ToBuyMode, AwaitedIsRegistered
<1>3. ASSUME NEW i \in Pieces, PieceAction(i)
      PROVE  AwaitedIsRegistered'
  <2>1. ASSUME NEW p \in PeerIds, LoadPieceForBuyer(p, i)
        PROVE  AwaitedIsRegistered'
    <3>1. awaited' = awaited \cup {<<p, i>>} /\ outstanding \cup {i} \subseteq outstanding'
      BY <2>1 DEF LoadPieceForBuyer, loadVars
    <3> QED BY <3>1 DEF AwaitedIsRegistered
  <2>2. ASSUME NEW p \in PeerIds, LoadPieceAtOnce(p, i)
        PROVE  AwaitedIsRegistered'
    BY <2>2 DEF LoadPieceAtOnce, loadVars, AwaitedIsRegistered
  <2>3. CASE PieceRead(i)
    BY <2>3 DEF PieceRead, AwaitedIsRegistered
  <2>4. CASE PieceReadIgnored(i) \/ ReadForOthers(i) \/ PieceReadLost(i)
    BY <1>1, <2>4 DEF PieceReadIgnored, ReadForOthers, PieceReadLost, sessionVars
  <2> QED BY <1>3, <2>1, <2>2, <2>3, <2>4 DEF PieceAction, PieceStep, Starves
<1> QED BY <1>1, <1>2, <1>3, PeersLeaveBuyersAlone DEF Step, Starves

\* Only a refused toBuyMode and a failed read leave a buyer waiting for a piece
\* nobody is reading for it; no interleaving of mode changes, late reads, reads for
\* others and departing peers does.
THEOREM OnlyRefusalsLeaveWaiting == Spec => OnlyRefusalsStarve
<1>1. Core /\ [Next]_vars =>
        [AwaitedIsRegistered /\ ~AwaitedIsRegistered' =>
           \/ ToBuyModeRefused
           \/ \E i \in Pieces :
                PieceReadFailed(i) \/ \E p \in PeerIds : LoadPieceFailsAtOnce(p, i)]_vars
  BY NextIsStep, StarvingStep DEF Core, Starves
<1> QED BY <1>1, CoreHolds, PTL DEF Spec, OnlyRefusalsStarve

-----------------------------------------------------------------------------
(* Joining the session, and what a peer that never sends a mapping that is *)
(* refused can rely on.                                                    *)

\* A peer that a step adds to the session has its mapping installed.
LEMMA JoiningStep ==
  ASSUME Core, SupportedIffMapped, Step, NEW p \in members' \ members
  PROVE  /\ state' # "stopped"
         /\ completed'[p] # NoEndPoint
         /\ hasMapping'[completed'[p]]
<1> USE DEF Core, IndexInv, TypeOK, PeerTypeOK
<1>1. CASE Start
  <2>1. /\ completed[p] # NoEndPoint
        /\ payment[completed[p]] = "supported"
        /\ state' = "started"
        /\ UNCHANGED <<completed, hasMapping>>
    BY <1>1 DEF Start, StartStopped, indexVars
  <2>2. completed[p] \in connected \ awaiting
    BY <1>1, <2>1 DEF PeersIndexed, Start, StartStopped
  <2> QED BY <2>1, <2>2 DEF SupportedIffMapped
<1>2. ASSUME NEW e \in EndPoints, InstallPeerMapping(e)
      PROVE  /\ state' # "stopped"
             /\ completed'[p] # NoEndPoint
             /\ hasMapping'[completed'[p]]
  BY <1>2, NoEndPointAssumption
     DEF InstallPeerMapping, InstallMappingAndJoin, AddToSessionAsserts,
         PeerHasCompletedHandshake, indexVars
<1>3. ASSUME NEW e \in EndPoints, Disconnecting(e)
      PROVE  FALSE
  BY <1>3, DisconnectingEffect
<1>4. ASSUME NEW e \in EndPoints,
             \/ NewConnection(e)
             \/ \E q \in PeerIds, b \in BOOLEAN : OnHandshake(e, q, b)
             \/ PeerWithoutExtension(e)
             \/ UninstallPeerMapping(e)
             \/ DiscardPeerMapping(e)
      PROVE  FALSE
  BY <1>4 DEF NewConnection, OnHandshake, CompleteHandshake, PeerWithoutExtension,
              UninstallPeerMapping, DiscardPeerMapping, RemoveFromSession,
              LeaveSession, sessionVars
<1>5. CASE Quiet \/ StartPaused \/ Stop \/ StopRefused \/ Pause
  BY <1>5 DEF Quiet, StartPaused, Stop, StopRefused, Pause, sessionVars
<1> QED BY <1>1, <1>2, <1>3, <1>4, <1>5, StepCases

\* A peer joins the session only with its mapping installed, and only a session
\* that is not stopped.
THEOREM PeersJoinWithMapping == Spec => JoinsWithMapping
<1>1. Core /\ SupportedIffMapped /\ [Next]_vars =>
        [\A p \in members' \ members :
           state' # "stopped" /\ completed'[p] # NoEndPoint
             /\ hasMapping'[completed'[p]]]_vars
  BY NextIsStep, JoiningStep DEF Core
<1> QED
  BY <1>1, CoreHolds, MappedWhileSupported, PTL DEF Spec, JoinsWithMapping

\* Without refused mappings, no handler takes the mapping of a connection away.
LEMMA MembersMappedStep ==
  ASSUME Core, SupportedIffMapped, MembersHaveMapping, Step,
         "invalid mapping" \notin PeerHandshakes
  PROVE  MembersHaveMapping'
<1> USE DEF Core, IndexInv, TypeOK, PeerTypeOK, PeersIndexed, MembersHaveMapping,
            MembersHaveCompletedHandshake
<1> SUFFICES ASSUME NEW p \in members, p \in members'
             PROVE  hasMapping'[completed'[p]]
  BY JoiningStep
<1>1. mode # "not_set" /\ p \in PeerIds /\ completed[p] # NoEndPoint
  OBVIOUS
<1>2. /\ completed[p] \in connected \ awaiting
      /\ pid[completed[p]] = p
      /\ hasMapping[completed[p]]
  BY <1>1
\* A peer that removeFromSession is called for and that stays is another one.
<1>a. ASSUME NEW e \in EndPoints, RemoveFromSession(e), e \notin awaiting
      PROVE  completed[p] # e
  <2> HIDE DEF Core, IndexInv, TypeOK, PeerTypeOK, PeersIndexed, MembersHaveMapping,
               MembersHaveCompletedHandshake
  <2>1. completed[p] = e => PeerInSession(e) /\ pid[e] = p
    BY <1>1, <1>2, <1>a DEF PeerInSession, PeerHasCompletedHandshake
  <2>2. PeerInSession(e) => members' = members \ {pid[e]}
    BY <1>1, <1>a DEF RemoveFromSession, LeaveSession
  <2> QED BY <2>1, <2>2
<1>3. ASSUME NEW e \in EndPoints, Disconnecting(e)
      PROVE  hasMapping'[completed'[p]]
  <2>1. completed[p] # e /\ completed'[p] = completed[p]
    <3>1. CASE e \in awaiting
      BY <1>2, <1>3, <3>1 DEF Disconnecting, PeerDisconnected
    <3>2. CASE e \notin awaiting
      <4>1. completed[p] # e
        BY <1>a, <1>3, <3>2 DEF Disconnecting, PeerDisconnected
      <4>2. completed[pid[e]] = e /\ pid[e] \in PeerIds
        BY <1>3, <3>2 DEF Disconnecting
      <4>3. completed' = [completed EXCEPT ![pid[e]] = NoEndPoint]
        BY <1>3, <3>2 DEF Disconnecting, PeerDisconnected
      <4> QED BY <1>1, <4>1, <4>2, <4>3
    <3> QED BY <3>1, <3>2
  <2> QED
    BY <1>2, <1>3, <2>1 DEF Disconnecting, PeerDisconnected, Constructed
<1>4. ASSUME NEW e \in EndPoints, NewConnection(e)
      PROVE  hasMapping'[completed'[p]]
  BY <1>2, <1>4 DEF NewConnection, Constructed
<1>5. ASSUME NEW e \in EndPoints, NEW q \in PeerIds, NEW b \in BOOLEAN,
             OnHandshake(e, q, b)
      PROVE  hasMapping'[completed'[p]]
  BY <1>2, <1>5 DEF OnHandshake, CompleteHandshake
<1>6. ASSUME NEW e \in EndPoints, PeerWithoutExtension(e) \/ InstallPeerMapping(e)
      PROVE  hasMapping'[completed'[p]]
  BY <1>2, <1>6 DEF PeerWithoutExtension, InstallPeerMapping, InstallMappingAndJoin,
                    indexVars
<1>7. ASSUME NEW e \in EndPoints, UninstallPeerMapping(e)
      PROVE  hasMapping'[completed'[p]]
  <2>1. completed[p] # e
    BY <1>a, <1>7 DEF UninstallPeerMapping, Open
  <2> QED BY <1>2, <1>7, <2>1 DEF UninstallPeerMapping, indexVars
<1>8. CASE Quiet \/ Start \/ StartPaused \/ Stop \/ StopRefused \/ Pause
  BY <1>2, <1>8 DEF Quiet, Start, StartStopped, StartPaused, Stop, StopRefused, Pause,
                    peerVars, indexVars
<1> HIDE DEF Core, IndexInv, TypeOK, PeerTypeOK, PeersIndexed, MembersHaveMapping,
             MembersHaveCompletedHandshake
<1> QED BY <1>3, <1>4, <1>5, <1>6, <1>7, <1>8, StepCases

\* When no peer sends a mapping that is refused, the session can send to each of
\* its connections: the mapping of the peer is installed.
THEOREM MembersKeepMapping ==
  ASSUME "invalid mapping" \notin PeerHandshakes
  PROVE  Spec => []MembersHaveMapping
<1>1. Init => MembersHaveMapping
  BY DEF Init, MembersHaveMapping
<1>2. Core /\ SupportedIffMapped /\ MembersHaveMapping /\ [Next]_vars
        => MembersHaveMapping'
  <2>1. ASSUME Core, SupportedIffMapped, MembersHaveMapping, Next
        PROVE  MembersHaveMapping'
    BY <2>1, NextIsStep, MembersMappedStep DEF Core
  <2> QED
    BY <2>1
       DEF MembersHaveMapping, vars, peerVars, indexVars, sessionVars
<1> QED BY <1>1, <1>2, CoreHolds, MappedWhileSupported, PTL DEF Spec

\* A peer that may send an extended message or announce a mapping is then what the
\* assertions of on_extended and addToSession take it for.
LEMMA CorrectPeersMeetAssertions ==
  ASSUME Core, SupportedIffMapped, MembersHaveMapping, AssertionFails
  PROVE  aborted' # "on_extended" /\ aborted' # "addToSession"
<1> USE DEF Core, IndexInv, TypeOK, PeerTypeOK, PeersIndexed,
            MembersHaveCompletedHandshake
<1>1. ASSUME NEW e \in EndPoints, OnExtendedAborts(e)
      PROVE  FALSE
  BY <1>1 DEF OnExtendedAborts, Open, PeerInSession, PeerHasCompletedHandshake,
              SupportedIffMapped, MembersHaveMapping
<1>2. ASSUME NEW e \in EndPoints, InstallPeerMappingAborts(e)
      PROVE  FALSE
  <2>1. PeerHasCompletedHandshake(e) /\ mode # "not_set"
    BY <1>2 DEF InstallPeerMappingAborts, Open, PeerHasCompletedHandshake
  <2>2. ~hasMapping[e]
    BY <1>2 DEF InstallPeerMappingAborts, ViolatesHandshakeProtocol
  <2> QED
    BY <1>2, <2>1, <2>2
       DEF InstallPeerMappingAborts, AddToSessionAsserts, PeerInSession,
           PeerHasCompletedHandshake, MembersHaveMapping
<1>3. CASE StartAborts \/ ToSellModeAborts \/ \E i \in Pieces : PieceReadAborts(i)
  BY <1>3 DEF StartAborts, ToSellModeAborts, PieceReadAborts, Abort
<1> QED BY <1>1, <1>2, <1>3 DEF AssertionFails

\* PeerPlugin.cpp:482 holds while no peer sends a mapping that is refused.
THEOREM OnExtendedAssertionMet ==
  ASSUME "invalid mapping" \notin PeerHandshakes
  PROVE  Spec => []OnExtendedAssertionHolds
<1>1. Init => OnExtendedAssertionHolds
  BY DEF Init, OnExtendedAssertionHolds
<1>2. Core /\ SupportedIffMapped /\ MembersHaveMapping /\ OnExtendedAssertionHolds
        /\ [Next]_vars => OnExtendedAssertionHolds'
  BY NextIsStep, RunsOrFails, CorrectPeersMeetAssertions
     DEF Core, OnExtendedAssertionHolds, vars
<1> QED
  BY <1>1, <1>2, CoreHolds, MappedWhileSupported, MembersKeepMapping, PTL DEF Spec

\* TorrentPlugin.cpp:525 holds while no peer sends a mapping that is refused.
THEOREM AddToSessionAssertionMet ==
  ASSUME "invalid mapping" \notin PeerHandshakes
  PROVE  Spec => []AddToSessionAssertionHolds
<1>1. Init => AddToSessionAssertionHolds
  BY DEF Init, AddToSessionAssertionHolds
<1>2. Core /\ SupportedIffMapped /\ MembersHaveMapping /\ AddToSessionAssertionHolds
        /\ [Next]_vars => AddToSessionAssertionHolds'
  BY NextIsStep, RunsOrFails, CorrectPeersMeetAssertions
     DEF Core, AddToSessionAssertionHolds, vars
<1> QED
  BY <1>1, <1>2, CoreHolds, MappedWhileSupported, MembersKeepMapping, PTL DEF Spec

=============================================================================
