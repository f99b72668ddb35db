----------------------------- MODULE ExtensionWire -----------------------------
(***************************************************************************)
(* Two clients, each with a TorrentPlugin and a PeerPlugin for the other,  *)
(* and the connection between them: BitTorrent handshakes, extended        *)
(* handshakes, messages of this extension and of other plugins are on the  *)
(* wire together while the sessions at its ends start, stop and pause.     *)
(*                                                                         *)
(* A handler is a step, as in TorrentPlugin, which each end implements     *)
(* (ImplementsTorrentPlugin).  The build is one without assertions.  The   *)
(* wire is TCP: what is written arrives in order, or the connection is     *)
(* closed first.  What a session makes of a message is its own business;   *)
(* if it ends the connection, that is a Close.                             *)
(***************************************************************************)
EXTENDS ExtendedMessageIdMapping

CONSTANTS
  Clients,             \* the two clients
  MinimumMessageIds,   \* the minimum message ids they are built with
  OtherIds,            \* ids other libtorrent plugins announce
  MaxInFlight          \* bound: a client writes nothing of its own accord to a
                       \* wire that holds as much

ASSUME TwoClientsAssumption == \E c, o \in Clients : c # o /\ Clients = {c, o}
ASSUME MinimumAssumption == MinimumMessageIds \subseteq Nat \ {0}
ASSUME OtherIdsAssumption == OtherIds \subseteq 1 .. 255
ASSUME MaxInFlightAssumption == MaxInFlight \in Nat

\* "none" stands for no client in the refinement mapping below.
ASSUME NoneAssumption == "none" \notin Clients

VARIABLES
  start,           \* _minimumMessageId of each client
  open,            \* the client has an open connection
  completed,       \* and has completed the BitTorrent handshake on it
  session,         \* mode and state: "unset" is a session without a mode
  member,          \* the peer has a connection in the session
  peerMapping,     \* _peerMapping
  payment,         \* _peerPaymentBEPSupportStatus
  sendUninstall,   \* _sendUninstallMappingOnNextExtendedHandshake
  wire             \* what is on its way to each client

peerVars == <<peerMapping, payment, sendUninstall>>
connectionVars == <<open, completed, member, peerVars>>
vars == <<start, connectionVars, session, wire>>

Other == [c \in Clients |-> CHOOSE o \in Clients : o # c]

\* _clientMapping
ClientMapping(c) == ConsecutiveIdsStartingAt(start[c])

HasMapping(c) == ~IsEmpty(peerMapping[c])

Running(c) == session[c] \in {"started", "paused"}

\* What is on the wire.
Handshake == [kind |-> "handshake"]
Closed == [kind |-> "closed"]
NoExtension == [kind |-> "no extension"]
ExtendedHandshake(m) == [kind |-> "extended handshake", m |-> m]
ExtendedMessage(id, m) == [kind |-> "message", id |-> id, sent |-> m]
OtherMessage(id) == [kind |-> "other", id |-> id]

Traffic ==
  {Handshake, Closed, NoExtension,
   ExtendedHandshake(WriteUninstallMapping(<< >>))}
    \cup {ExtendedHandshake(WriteMapping(ConsecutiveIdsStartingAt(n), << >>)) :
            n \in MinimumMessageIds}
    \cup [kind : {"message"}, id : Byte, sent : Messages]
    \cup [kind : {"other"}, id : OtherIds]

TypeOK ==
  /\ start \in [Clients -> MinimumMessageIds]
  /\ open \in [Clients -> BOOLEAN]
  /\ completed \in [Clients -> BOOLEAN]
  /\ session \in [Clients -> {"unset", "stopped", "started", "paused"}]
  /\ member \in [Clients -> BOOLEAN]
  /\ peerMapping \in [Clients -> [Messages -> Byte] \cup {EmptyMapping}]
  /\ payment \in [Clients -> {"unknown", "supported", "not_supported"}]
  /\ sendUninstall \in [Clients -> BOOLEAN]
  /\ wire \in [Clients -> Seq(Traffic)]

Init ==
  /\ start \in [Clients -> MinimumMessageIds]
  /\ open = [c \in Clients |-> FALSE]
  /\ completed = [c \in Clients |-> FALSE]
  /\ session = [c \in Clients |-> "unset"]
  /\ member = [c \in Clients |-> FALSE]
  /\ peerMapping = [c \in Clients |-> EmptyMapping]
  /\ payment = [c \in Clients |-> "unknown"]
  /\ sendUninstall = [c \in Clients |-> FALSE]
  /\ wire = [c \in Clients |-> << >>]

-----------------------------------------------------------------------------
(* The wire.                                                               *)

\* The wire after c wrote m: a peer that has closed the connection gets nothing.
Written(c, m) ==
  [wire EXCEPT ![Other[c]] = IF open[Other[c]] THEN Append(@, m) ELSE @]

\* The wire after c took the first message off it, and after it answered with m.
Taken(c) == [wire EXCEPT ![c] = Tail(@)]

TakenAndWritten(c, m) == [Written(c, m) EXCEPT ![c] = Tail(@)]

Arrived(c, kind) == open[c] /\ wire[c] # << >> /\ Head(wire[c]).kind = kind

MayWrite(c) == Len(wire[Other[c]]) < MaxInFlight

-----------------------------------------------------------------------------
(* Connecting and disconnecting.                                           *)

\* new_connection at both ends, once neither has the old connection; each
\* client writes its BitTorrent handshake.
Connect ==
  /\ \A c \in Clients : ~open[c]
  /\ open' = [c \in Clients |-> TRUE]
  /\ wire' = [c \in Clients |-> <<Handshake>>]
  /\ UNCHANGED <<start, completed, member, peerVars, session>>

\* peerDisconnected, and the plugin goes.
Disconnected(c) ==
  /\ open' = [open EXCEPT ![c] = FALSE]
  /\ completed' = [completed EXCEPT ![c] = FALSE]
  /\ member' = [member EXCEPT ![c] = FALSE]
  /\ peerMapping' = [peerMapping EXCEPT ![c] = EmptyMapping]
  /\ payment' = [payment EXCEPT ![c] = "unknown"]
  /\ sendUninstall' = [sendUninstall EXCEPT ![c] = FALSE]
  /\ UNCHANGED <<start, session>>

\* A client ends the connection: what is on its way to it is lost.
Drop(c) ==
  /\ Disconnected(c)
  /\ wire' = [Written(c, Closed) EXCEPT ![c] = << >>]

\* The session, the client or libtorrent ends it, or it breaks.
Close(c) == open[c] /\ Drop(c)

\* libtorrent notices that the other end has closed the connection.
ReceiveClosed(c) ==
  /\ Arrived(c, "closed")
  /\ Disconnected(c)
  /\ wire' = [wire EXCEPT ![c] = << >>]

-----------------------------------------------------------------------------
(* Handshakes.                                                             *)

\* What add_handshake makes of the extended handshake in a session in state s.
AddHandshake(c, s, uninstall) ==
  CASE s \in {"started", "paused"} -> ExtendedHandshake(WriteMapping(ClientMapping(c), << >>))
    [] s \notin {"started", "paused"} /\ uninstall ->
         ExtendedHandshake(WriteUninstallMapping(<< >>))
    [] OTHER -> NoExtension

\* A handler that leaves the extended handshake to the next start.
MutantReceiveHandshake(c) ==
  /\ Arrived(c, "handshake")
  /\ completed' = [completed EXCEPT ![c] = TRUE]
  /\ wire' = Taken(c)
  /\ UNCHANGED <<start, open, session, member, peerVars>>

\* on_handshake, after which libtorrent writes the extended handshake.
ReceiveHandshake(c) ==
  /\ Arrived(c, "handshake")
  /\ completed' = [completed EXCEPT ![c] = TRUE]
  /\ wire' = TakenAndWritten(c, AddHandshake(c, session[c], sendUninstall[c]))
  /\ UNCHANGED <<start, open, session, member, peerVars>>

\* on_extension_handshake: what the client makes of the first message on the
\* wire, and whether the peer violates the protocol with it.
Outcome(c) ==
  IF Head(wire[c]).kind = "no extension" THEN "no extension"
  ELSE CASE Problem(Head(wire[c]).m) = "none" -> "mapping"
         [] Problem(Head(wire[c]).m) = "UninstallMappingFound" -> "uninstall"
         [] OTHER -> "invalid mapping"

Violates(c) ==
  IF Outcome(c) = "uninstall" THEN ~HasMapping(c)
  ELSE Outcome(c) \in {"no extension", "mapping"} /\ HasMapping(c)

ExtendedHandshakeArrived(c) ==
  Arrived(c, "no extension") \/ Arrived(c, "extended handshake")

ReceiveViolation(c) ==
  /\ ExtendedHandshakeArrived(c)
  /\ Violates(c)
  /\ Drop(c)

ReceiveMapping(c) ==
  /\ ExtendedHandshakeArrived(c)
  /\ ~Violates(c) /\ Outcome(c) = "mapping"
  /\ peerMapping' = [peerMapping EXCEPT ![c] = Decoded(Head(wire[c]).m)]
  /\ payment' = [payment EXCEPT ![c] = "supported"]
  /\ member' = [member EXCEPT ![c] = Running(c)]
  /\ wire' = Taken(c)
  /\ UNCHANGED <<start, open, completed, session, sendUninstall>>

\* A peer without extension never had a mapping; an uninstall takes it and the
\* place in the session away; a refused mapping leaves the place.
ReceiveNoMapping(c) ==
  /\ ExtendedHandshakeArrived(c)
  /\ ~Violates(c) /\ Outcome(c) # "mapping"
  /\ peerMapping' = [peerMapping EXCEPT ![c] = EmptyMapping]
  /\ payment' = [payment EXCEPT ![c] = "not_supported"]
  /\ member' = [member EXCEPT ![c] = @ /\ Outcome(c) # "uninstall"]
  /\ wire' = Taken(c)
  /\ UNCHANGED <<start, open, completed, session, sendUninstall>>

-----------------------------------------------------------------------------
(* Messages.                                                               *)

\* The session sends: PeerPlugin::send.  One message at a time is on the wire.
Send(c, m) ==
  /\ member[c]
  /\ MayWrite(c)
  /\ \A i \in DOMAIN wire[Other[c]] : wire[Other[c]][i].kind \notin {"message", "other"}
  /\ wire' = Written(c, ExtendedMessage(Id(peerMapping[c], m), m))
  /\ UNCHANGED <<start, connectionVars, session>>

\* Another plugin of c sends to its like at the other end, whose id is below the
\* minimum message id of that client.
SendOther(c, id) ==
  /\ completed[c]
  /\ id < start[Other[c]]
  /\ MayWrite(c)
  /\ \A i \in DOMAIN wire[Other[c]] : wire[Other[c]][i].kind \notin {"message", "other"}
  /\ wire' = Written(c, OtherMessage(id))
  /\ UNCHANGED <<start, connectionVars, session>>

\* The message types on_extended takes a message with this id for: the session is
\* given one of them, or other plugins the message if there is none.
TakenFor(c, id) ==
  IF session[c] # "unset" /\ member[c] /\ payment[c] = "supported"
  THEN WithId(peerMapping[c], id)
  ELSE {}

\* on_extended.  The session, or another plugin, has the message.
ReceiveMessage(c) ==
  /\ Arrived(c, "message") \/ Arrived(c, "other")
  /\ wire' = Taken(c)
  /\ UNCHANGED <<start, connectionVars, session>>

-----------------------------------------------------------------------------
(* Requests.                                                               *)

ToObserveMode(c) ==
  /\ session[c] = "unset"
  /\ session' = [session EXCEPT ![c] = "stopped"]
  /\ UNCHANGED <<start, connectionVars, wire>>

\* A start that expects peers to announce themselves again.
MutantStart(c) ==
  /\ session[c] = "stopped"
  /\ MayWrite(c)
  /\ session' = [session EXCEPT ![c] = "started"]
  /\ wire' = IF completed[c] THEN Written(c, AddHandshake(c, "started", sendUninstall[c]))
             ELSE wire
  /\ UNCHANGED <<start, open, completed, member, peerVars>>

\* start() of a stopped session.
Start(c) ==
  /\ session[c] = "stopped"
  /\ MayWrite(c)
  /\ session' = [session EXCEPT ![c] = "started"]
  /\ member' = [member EXCEPT ![c] = payment[c] = "supported"]
  /\ wire' = IF completed[c] THEN Written(c, AddHandshake(c, "started", sendUninstall[c]))
             ELSE wire
  /\ UNCHANGED <<start, open, completed, peerVars>>

\* A resume that announces the extension again.
MutantResume(c) ==
  /\ session[c] = "paused"
  /\ session' = [session EXCEPT ![c] = "started"]
  /\ wire' = IF completed[c] THEN Written(c, AddHandshake(c, "started", sendUninstall[c]))
             ELSE wire
  /\ UNCHANGED <<start, connectionVars>>

\* start() of a paused session, and pause().
Resume(c) ==
  /\ session[c] = "paused"
  /\ session' = [session EXCEPT ![c] = "started"]
  /\ UNCHANGED <<start, connectionVars, wire>>

Pause(c) ==
  /\ session[c] = "started"
  /\ session' = [session EXCEPT ![c] = "paused"]
  /\ UNCHANGED <<start, connectionVars, wire>>

\* A stop that leaves it to the uninstall of the peer to end its membership.
MutantStop(c) ==
  /\ Running(c)
  /\ MayWrite(c)
  /\ session' = [session EXCEPT ![c] = "stopped"]
  /\ wire' = IF completed[c] THEN Written(c, AddHandshake(c, "stopped", TRUE)) ELSE wire
  /\ UNCHANGED <<start, connectionVars>>

\* stop(): the flag is set, and add_handshake clears it, before stop returns.
Stop(c) ==
  /\ Running(c)
  /\ MayWrite(c)
  /\ session' = [session EXCEPT ![c] = "stopped"]
  /\ member' = [member EXCEPT ![c] = FALSE]
  /\ sendUninstall' = [sendUninstall EXCEPT ![c] = @ /\ ~completed[c]]
  /\ wire' = IF completed[c] THEN Written(c, AddHandshake(c, "stopped", TRUE)) ELSE wire
  /\ UNCHANGED <<start, open, completed, peerMapping, payment>>

\* stop() of a session that does not run sets the flag and throws.
StopRefused(c) ==
  /\ ~Running(c)
  /\ sendUninstall' = [sendUninstall EXCEPT ![c] = @ \/ completed[c]]
  /\ UNCHANGED <<start, open, completed, member, peerMapping, payment, session, wire>>

-----------------------------------------------------------------------------
Receive(c) ==
  \/ ReceiveClosed(c) \/ ReceiveHandshake(c)
  \/ ReceiveViolation(c) \/ ReceiveMapping(c) \/ ReceiveNoMapping(c)
  \/ ReceiveMessage(c)

Request(c) ==
  ToObserveMode(c) \/ Start(c) \/ Resume(c) \/ Pause(c) \/ Stop(c) \/ StopRefused(c)

Next ==
  \/ Connect
  \/ \E c \in Clients :
       \/ Receive(c)
       \/ Request(c)
       \/ Close(c)
       \/ \E m \in Messages : Send(c, m)
       \/ \E id \in OtherIds : SendOther(c, id)

Spec == Init /\ [][Next]_vars

\* The wire delivers, and libtorrent calls the handlers.  Nobody has to connect,
\* to submit a request or to send anything.
FairSpec == Spec /\ \A c \in Clients : WF_vars(Receive(c))

-----------------------------------------------------------------------------
(* Properties.                                                             *)

\* No id of the client's mapping wraps around onto 0.
IdsFit(c) == \A m \in Messages : Id(ClientMapping(c), m) # 0

\* Two clients of this program never break the rules of the extended handshake
\* to each other: however the sessions start and stop while mappings, uninstall
\* mappings and reconnects are on the way, what on_extension_handshake reads
\* next is never a second mapping, nor an uninstall of none, for which it would
\* drop the peer.
NeverDroppedForHandshake ==
  \A c \in Clients :
    ExtendedHandshakeArrived(c) /\ IdsFit(Other[c]) => ~Violates(c)

\* Once nothing is on the wire the two ends agree: each holds the other's mapping
\* exactly if the other session runs, and has the other in its session exactly if
\* its own runs too, whatever the order in which starts, stops and handshakes
\* crossed.
QuietEndsAgree ==
  (\A c \in Clients : open[c] /\ wire[c] = << >>) =>
    \A c \in Clients :
      /\ HasMapping(c) <=> Running(Other[c]) /\ IdsFit(Other[c])
      /\ member[c] <=> Running(c) /\ HasMapping(c)

\* Between clients with the same minimum message id a message is decoded as what
\* was sent, or left to other plugins by an end that has left the session, even
\* if its sender's mapping, or the receiver's, was replaced while it travelled;
\* and no message of another plugin is decoded at all.
SameIds == \A c \in Clients : start[c] = start[Other[c]]

DecodedAsSent ==
  SameIds =>
    \A c \in Clients :
      /\ Arrived(c, "message") =>
           TakenFor(c, Head(wire[c]).id) = {m \in {Head(wire[c]).sent} : member[c]}
      /\ Arrived(c, "other") => TakenFor(c, Head(wire[c]).id) = {}

\* If both sessions are started for good on a connection that stays open, each
\* client is in the session of the other in the end, and stays there.
Paired(c) == open[c] /\ session[c] = "started" /\ IdsFit(c)

StartedEndsJoin ==
  <>[](\A c \in Clients : Paired(c)) => <>[](\A c \in Clients : member[c])

\* Each end c is a TorrentPlugin with one peer in every detail but the contents of
\* mappings; what it announced on the connection follows from its session.
One(c, value) == [p \in {Other[c]} |-> value]

End(c) ==
  INSTANCE TorrentPlugin WITH
    EndPoints <- {Other[c]}, PeerIds <- {Other[c]},
    NoPeerId <- "none", NoEndPoint <- "none",
    Pieces <- {}, MaxReads <- 0, ReadsMayFail <- FALSE, ReadsMayBeLost <- FALSE,
    NDEBUG <- TRUE,
    PeerHandshakes <- {"no extension", "mapping", "uninstall", "invalid mapping"},
    pid <- One(c, IF completed[c] THEN Other[c] ELSE "none"),
    bep10 <- One(c, IF completed[c] THEN "supported" ELSE "unknown"),
    payment <- One(c, payment[c]),
    hasMapping <- One(c, HasMapping(c)),
    sendUninstall <- One(c, sendUninstall[c]),
    announced <- One(c, IF completed[c] /\ Running(c) THEN 1 ELSE 0),
    connected <- {p \in {Other[c]} : open[c]},
    awaiting <- {p \in {Other[c]} : open[c] /\ ~completed[c]},
    completed <- One(c, IF completed[c] THEN Other[c] ELSE "none"),
    mode <- IF session[c] = "unset" THEN "not_set" ELSE "observing",
    state <- IF session[c] = "unset" THEN "stopped" ELSE session[c],
    members <- {p \in {Other[c]} : member[c]},
    awaited <- {}, torrentState <- "downloading", outstanding <- {}, reads <- << >>,
    misbehaved <- {}, sentMalformed <- {}, aborted <- "none"

ImplementsTorrentPlugin ==
  /\ \A c \in Clients : End(c)!Init
  /\ [][\A c \in Clients : [End(c)!Next]_(End(c)!vars)]_vars

-----------------------------------------------------------------------------
(* What a comment of the code says.                                        *)

\* PeerPlugin.hpp:223: from the minimum message id on there is no conflict with
\* other plugins of the client.
NoConflictWithOtherPlugins ==
  \A c \in Clients :
    Arrived(c, "other") => TakenFor(c, Head(wire[c]).id) = {}

================================================================================
