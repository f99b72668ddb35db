------------------------------ MODULE PeerPlugin ------------------------------
(***************************************************************************)
(* The state of class PeerPlugin, one plugin per connection libtorrent has *)
(* open, and the steps that touch nothing but that state.  TorrentPlugin   *)
(* extends this module with the maps and the session the handlers of a     *)
(* peer also change, and holds the actions.                                *)
(*                                                                         *)
(* libtorrent has at most one open connection per endpoint, so a plugin is *)
(* named by the endpoint of its connection.  drop() disconnects, and       *)
(* libtorrent answers by calling on_disconnect at once: _undead becomes    *)
(* true in the same step in which the connection closes, no handler is     *)
(* called afterwards, and the flag needs no variable beside `connected'.   *)
(* Nothing reads the fields of a plugin whose connection is closed; they   *)
(* go back to their constructed values.                                    *)
(***************************************************************************)
EXTENDS Integers

CONSTANTS
  EndPoints,    \* remote endpoints (address and port)
  PeerIds,      \* ids peers send in the BitTorrent handshake
  NoPeerId,     \* pid() before that handshake
  NoEndPoint    \* no plugin (an absent entry of _peersCompletedHandshake)

ASSUME NoPeerIdAssumption == NoPeerId \notin PeerIds
ASSUME NoEndPointAssumption == NoEndPoint \notin EndPoints

VARIABLES
  pid,             \* _connection.pid()
  bep10,           \* _peerBEP10SupportStatus
  payment,         \* _peerPaymentBEPSupportStatus
  hasMapping,      \* ~_peerMapping.empty()
  sendUninstall,   \* _sendUninstallMappingOnNextExtendedHandshake
  announced        \* full mappings sent to the peer minus uninstall mappings

peerVars == <<pid, bep10, payment, hasMapping, sendUninstall, announced>>

BEPSupportStatus == {"unknown", "supported", "not_supported"}

\* What on_extension_handshake tells apart in a peer's extended handshake:
\*   malformed     not a dictionary, a version that does not parse or has
\*                 another major number, or no dictionary under "m"
\*   no extension  no version string: the peer does not announce the extension
\*   mapping, uninstall, invalid mapping
\*                 the three outcomes of ExtendedMessageIdMapping, see there
ExtendedHandshakes ==
  {"malformed", "no extension", "mapping", "uninstall", "invalid mapping"}

PeerTypeOK ==
  /\ pid \in [EndPoints -> PeerIds \cup {NoPeerId}]
  /\ bep10 \in [EndPoints -> BEPSupportStatus]
  /\ payment \in [EndPoints -> BEPSupportStatus]
  /\ hasMapping \in [EndPoints -> BOOLEAN]
  /\ sendUninstall \in [EndPoints -> BOOLEAN]
  /\ announced \in [EndPoints -> Int]

PeerInit ==
  /\ pid = [e \in EndPoints |-> NoPeerId]
  /\ bep10 = [e \in EndPoints |-> "unknown"]
  /\ payment = [e \in EndPoints |-> "unknown"]
  /\ hasMapping = [e \in EndPoints |-> FALSE]
  /\ sendUninstall = [e \in EndPoints |-> FALSE]
  /\ announced = [e \in EndPoints |-> 0]

\* The fields as PeerPlugin's constructor sets them.
Constructed(e) ==
  /\ pid' = [pid EXCEPT ![e] = NoPeerId]
  /\ bep10' = [bep10 EXCEPT ![e] = "unknown"]
  /\ payment' = [payment EXCEPT ![e] = "unknown"]
  /\ hasMapping' = [hasMapping EXCEPT ![e] = FALSE]
  /\ sendUninstall' = [sendUninstall EXCEPT ![e] = FALSE]
  /\ announced' = [announced EXCEPT ![e] = 0]

\* add_handshake, called by libtorrent's write_extensions on each of plugins:
\* nothing is added while the session is stopped unless an uninstall mapping
\* is due; an uninstall mapping goes out once; otherwise the full mapping goes
\* out.  flags is _sendUninstallMappingOnNextExtendedHandshake on entry.
AddHandshake(plugins, flags, sessionState) ==
  IF sessionState = "stopped"
  THEN /\ announced' = [e \in EndPoints |->
            IF e \in plugins /\ flags[e] THEN announced[e] - 1 ELSE announced[e]]
       /\ sendUninstall' = [e \in EndPoints |-> flags[e] /\ e \notin plugins]
  ELSE /\ announced' = [e \in EndPoints |->
            IF e \in plugins THEN announced[e] + 1 ELSE announced[e]]
       /\ sendUninstall' = flags

\* The assertion in add_handshake that no uninstall mapping is due when the
\* session is not stopped.
AddHandshakeAsserts(plugins, flags) == \A e \in plugins : ~flags[e]

=============================================================================
