--------------------------- MODULE MappingExchange ---------------------------
(***************************************************************************)
(* One extended handshake: a client writes an "m" dictionary              *)
(* (PeerPlugin::add_handshake), the other end reads it                     *)
(* (PeerPlugin::on_extension_handshake, the part that sets _peerMapping).  *)
(* The writer is this program, with any minimum message id and with any    *)
(* entries other libtorrent plugins put into "m" before it, or a foreign   *)
(* client that writes what it likes.                                       *)
(***************************************************************************)
EXTENDS ExtendedMessageIdMapping, Functions

CONSTANTS
  MinimumMessageIds,    \* the minimum message ids clients are built with
  OtherPlugins,         \* dictionaries other plugins leave in "m"
  ForeignDictionaries   \* dictionaries foreign clients send

ASSUME MinimumMessageIdsAssumption == MinimumMessageIds \subseteq Nat
ASSUME DictionariesAssumption ==
  OtherPlugins \cup ForeignDictionaries \subseteq Seq(DictionaryEntry)

VARIABLES
  announced,    \* what the writer meant: [kind, start, others]
  dictionary,   \* the "m" dictionary on its way
  phase,        \* "idle", "sent" or "received"
  problem,      \* the outcome of fromMDictionary at the receiver
  peerMapping   \* _peerMapping of the receiver

vars == <<announced, dictionary, phase, problem, peerMapping>>

Nothing == [kind |-> "nothing", start |-> 0, others |-> << >>]

Init ==
  /\ announced = Nothing
  /\ dictionary = << >>
  /\ phase = "idle"
  /\ problem = "none"
  /\ peerMapping = EmptyMapping

Send(what, d) ==
  /\ phase = "idle"
  /\ phase' = "sent"
  /\ announced' = what
  /\ dictionary' = d
  /\ UNCHANGED <<problem, peerMapping>>

\* add_handshake while the session is not stopped.  PeerPlugin's constructor
\* refuses the minimum message id 0.
AnnounceMapping(start, others) ==
  /\ start # 0
  /\ ~HasOwnKey(others)
  /\ Send([kind |-> "mapping", start |-> start, others |-> others],
          WriteMapping(ConsecutiveIdsStartingAt(start), others))

\* add_handshake after the session was stopped.
AnnounceUninstall(others) ==
  /\ ~HasOwnKey(others)
  /\ Send([kind |-> "uninstall", start |-> 0, others |-> others],
          WriteUninstallMapping(others))

ForeignHandshake(d) ==
  Send([kind |-> "foreign", start |-> 0, others |-> << >>], d)

\* A receiver that keeps what it decoded of a mapping it rejects.
MutantReceive ==
  /\ phase = "sent"
  /\ phase' = "received"
  /\ problem' = Problem(dictionary)
  /\ peerMapping' = Decoded(dictionary)
  /\ UNCHANGED <<announced, dictionary>>

\* on_extension_handshake: _peerMapping = fromMDictionary(m), and clear() in
\* the handler of InvalidMessageMappingDictionary.
Receive ==
  /\ phase = "sent"
  /\ phase' = "received"
  /\ problem' = Problem(dictionary)
  /\ peerMapping' =
       IF Problem(dictionary) = "none" THEN Decoded(dictionary) ELSE EmptyMapping
  /\ UNCHANGED <<announced, dictionary>>

Next ==
  \/ \E start \in MinimumMessageIds, others \in OtherPlugins :
       AnnounceMapping(start, others)
  \/ \E others \in OtherPlugins : AnnounceUninstall(others)
  \/ \E d \in ForeignDictionaries : ForeignHandshake(d)
  \/ Receive

Spec == Init /\ [][Next]_vars

-----------------------------------------------------------------------------
(* Properties.                                                             *)

\* The receiver's mapping is empty or has an id for every message: the
\* invariant stated in ExtendedMessageIdMapping.hpp on _mapping.
TypeOK ==
  /\ announced.kind \in {"nothing", "mapping", "uninstall", "foreign"}
  /\ phase \in {"idle", "sent", "received"}
  /\ problem \in {"none", "MessageMapsToInvalidValueType", "MessageIdNegative",
                  "IncompleteMessageSet", "UninstallMappingFound",
                  "ZeroIdInvalidOnNonUninstallMapping"}
  /\ IsEmpty(peerMapping) \/ peerMapping \in [Messages -> Byte]

\* A minimum message id whose ids fit into a byte without wrapping.
Fits(start) == start \in 1 .. 256 - NumMessages

Received(kind) == phase = "received" /\ announced.kind = kind

\* A client whose ids fit, and which shares "m" with plugins that use none of
\* the message names, is understood: the peer stores its very mapping.
RoundTrip ==
  Received("mapping") /\ Fits(announced.start) /\ announced.others = << >> =>
    /\ problem = "none"
    /\ peerMapping = ConsecutiveIdsStartingAt(announced.start)

\* Whatever the minimum message id, wrapped or not, the full mapping of this
\* program is never taken for an uninstall mapping by a peer: only a stopping
\* client leaves the session.
NeverMistakenForUninstall ==
  Received("mapping") => problem # "UninstallMappingFound"

\* Two messages of this program never share an id, even when the ids wrap:
\* whatever a peer accepts from it, it decodes every message as itself.
LookupInvertsId ==
  Received("mapping") /\ announced.others = << >> /\ problem = "none" =>
    \A m \in Messages : MessageType(peerMapping, Id(peerMapping, m)) = m

\* A stopping client is always understood.
UninstallRecognised ==
  Received("uninstall") /\ announced.others = << >> =>
    problem = "UninstallMappingFound" /\ IsEmpty(peerMapping)

-----------------------------------------------------------------------------
(* What a comment of the code says.                                        *)

\* ExtendedMessageIdMapping.hpp:24: a mapping is empty or bijective.  A dictionary
\* that gives one id to two messages, or ids that are the same byte, is accepted.
EmptyOrBijective ==
  \/ IsEmpty(peerMapping)
  \/ DOMAIN peerMapping = Messages /\ IsInjective(peerMapping)

=============================================================================
