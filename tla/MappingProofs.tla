------------------------------ MODULE MappingProofs ------------------------------
(***************************************************************************)
(* Proofs about MappingExchange: for every number of messages a byte can   *)
(* tell apart, every minimum message id and every dictionary of a foreign  *)
(* client, what a receiver makes of it.                                    *)
(***************************************************************************)
EXTENDS MappingExchange, MappingLemmas

\* Ids that fit into a byte are the numbers from the start.
LEMMA ConsecutiveFits ==
  ASSUME NEW start, Fits(start), NEW m \in Messages
  PROVE  ConsecutiveIdsStartingAt(start)[m] = start + m
BY NumMessagesAssumption DEF Fits, ConsecutiveIdsStartingAt, Uint8, Messages

-----------------------------------------------------------------------------
(* The invariant.                                                          *)

\* What is on its way is what the writer meant, and the receiver has decided.
IInv ==
  /\ TypeOK
  /\ dictionary \in Seq(DictionaryEntry)
  /\ announced.kind = "mapping" =>
       /\ announced.start \in Nat /\ announced.others \in Seq(DictionaryEntry)
       /\ dictionary =
            WriteMapping(ConsecutiveIdsStartingAt(announced.start), announced.others)
  /\ announced.kind = "uninstall" =>
       /\ announced.others \in Seq(DictionaryEntry)
       /\ dictionary = WriteUninstallMapping(announced.others)
  /\ phase = "received" =>
       /\ problem = Problem(dictionary)
       /\ peerMapping = IF problem = "none" THEN Decoded(dictionary) ELSE EmptyMapping

\* A dictionary written by this program is one.
LEMMA SendKeepsTypes ==
  ASSUME IInv, NEW d \in Seq(DictionaryEntry), NEW what, Send(what, d),
         what.kind \in {"mapping", "uninstall", "foreign"}
  PROVE  TypeOK' /\ dictionary' = d /\ announced' = what /\ phase' = "sent"
BY DEF IInv, TypeOK, Send

LEMMA IInvStep ==
  ASSUME IInv, Next
  PROVE  IInv'
<1>1. ASSUME NEW start \in MinimumMessageIds, NEW others \in OtherPlugins,
             AnnounceMapping(start, others)
      PROVE  IInv'
  <2> DEFINE what == [kind |-> "mapping", start |-> start, others |-> others]
             d == WriteMapping(ConsecutiveIdsStartingAt(start), others)
  <2>1. start \in Nat /\ others \in Seq(DictionaryEntry)
    BY MinimumMessageIdsAssumption, DictionariesAssumption
  <2>2. d \in Seq(DictionaryEntry)
    BY <2>1, ConsecutiveType, WrittenEntries
  <2>3. Send(what, d)
    BY <1>1 DEF AnnounceMapping
  <2>4. what.kind = "mapping" /\ what.start = start /\ what.others = others
    OBVIOUS
  <2> HIDE DEF what
  <2>5. TypeOK' /\ dictionary' = d /\ announced' = what /\ phase' = "sent"
    <3> HIDE DEF d
    <3> QED BY <2>2, <2>3, <2>4, SendKeepsTypes
  <2> QED BY <2>1, <2>2, <2>4, <2>5 DEF IInv
<1>2. ASSUME NEW others \in OtherPlugins, AnnounceUninstall(others)
      PROVE  IInv'
  <2> DEFINE what == [kind |-> "uninstall", start |-> 0, others |-> others]
             d == WriteUninstallMapping(others)
  <2>1. others \in Seq(DictionaryEntry)
    BY DictionariesAssumption
  <2>2. d \in Seq(DictionaryEntry)
    <3>1. [m \in Messages |-> 0] \in [Messages -> Byte]
      BY DEF Byte
    <3> QED BY <2>1, <3>1, WrittenEntries DEF WriteUninstallMapping
  <2>3. Send(what, d)
    BY <1>2 DEF AnnounceUninstall
  <2>4. what.kind = "uninstall" /\ what.others = others
    OBVIOUS
  <2> HIDE DEF what
  <2>5. TypeOK' /\ dictionary' = d /\ announced' = what /\ phase' = "sent"
    <3> HIDE DEF d
    <3> QED BY <2>2, <2>3, <2>4, SendKeepsTypes
  <2> QED BY <2>1, <2>2, <2>4, <2>5 DEF IInv
<1>3. ASSUME NEW d \in ForeignDictionaries, ForeignHandshake(d)
      PROVE  IInv'
  <2> DEFINE what == [kind |-> "foreign", start |-> 0, others |-> << >>]
  <2>1. d \in Seq(DictionaryEntry)
    BY DictionariesAssumption
  <2>2. Send(what, d)
    BY <1>3 DEF ForeignHandshake
  <2>3. what.kind = "foreign"
    OBVIOUS
  <2> HIDE DEF what
  <2>4. TypeOK' /\ dictionary' = d /\ announced' = what /\ phase' = "sent"
    BY <2>1, <2>2, <2>3, SendKeepsTypes
  <2> QED BY <2>1, <2>3, <2>4 DEF IInv
<1>4. CASE Receive
  <2>1. /\ phase' = "received" /\ problem' = Problem(dictionary)
        /\ peerMapping' = IF problem' = "none" THEN Decoded(dictionary) ELSE EmptyMapping
        /\ UNCHANGED <<announced, dictionary>>
    BY <1>4 DEF Receive
  <2>2. dictionary \in Seq(DictionaryEntry)
    BY DEF IInv
  <2>3. IsEmpty(peerMapping') \/ peerMapping' \in [Messages -> Byte]
    <3>1. CASE problem' = "none"
      <4>1. Named(dictionary)
        BY <2>1, <2>2, <3>1, ProblemDecides
      <4> QED BY <2>1, <2>2, <3>1, <4>1, DecodedType DEF Named
    <3>2. CASE problem' # "none"
      BY <2>1, <3>2 DEF IsEmpty, EmptyMapping
    <3> QED BY <3>1, <3>2
  <2>4. TypeOK'
    <3>1. problem' \in {"none", "MessageMapsToInvalidValueType", "MessageIdNegative",
                        "IncompleteMessageSet", "UninstallMappingFound",
                        "ZeroIdInvalidOnNonUninstallMapping"}
      BY <2>1, <2>2, ProblemDecides
    <3> QED BY <2>1, <2>3, <3>1 DEF IInv, TypeOK, IsEmpty
  <2> QED BY <2>1, <2>4 DEF IInv
<1> QED BY <1>1, <1>2, <1>3, <1>4 DEF Next

\* The invariant holds of every exchange.
THEOREM IInvHolds == Spec => []IInv
<1>1. Init => IInv
  <2> SUFFICES ASSUME Init
               PROVE  IInv
    OBVIOUS
  <2>1. << >> \in Seq(DictionaryEntry)
    OBVIOUS
  <2> QED BY <2>1 DEF Init, IInv, TypeOK, Nothing, IsEmpty, EmptyMapping
<1>2. IInv /\ [Next]_vars => IInv'
  <2>1. ASSUME IInv, UNCHANGED vars
        PROVE  IInv'
    BY <2>1 DEF IInv, TypeOK, vars, IsEmpty
  <2> QED BY <2>1, IInvStep
<1> QED BY <1>1, <1>2, PTL DEF Spec

\* The mapping of a receiver is empty or has a byte for every message.
THEOREM TypeCorrect == Spec => []TypeOK
<1>1. IInv => TypeOK
  BY DEF IInv
<1> QED BY <1>1, IInvHolds, PTL

-----------------------------------------------------------------------------
(* What a receiver decides.                                                *)

\* A mapping whose ids fit, with no other plugin in "m", arrives as it was meant.
THEOREM RoundTrips == Spec => []RoundTrip
<1>1. ASSUME IInv, Received("mapping"), Fits(announced.start), announced.others = << >>
      PROVE  problem = "none" /\ peerMapping = ConsecutiveIdsStartingAt(announced.start)
  <2> DEFINE ids == ConsecutiveIdsStartingAt(announced.start)
             w == WriteMapping(ids, << >>)
  <2>1. /\ announced.start \in Nat /\ << >> \in Seq(DictionaryEntry)
        /\ dictionary = w /\ dictionary \in Seq(DictionaryEntry)
        /\ problem = Problem(w)
        /\ peerMapping = IF problem = "none" THEN Decoded(w) ELSE EmptyMapping
    BY <1>1 DEF IInv, Received
  <2>2. ids \in [Messages -> Byte]
    BY <2>1, ConsecutiveType
  <2>3. \A m \in Messages : ids[m] > 0
    <3>1. \A m \in Messages : ids[m] = announced.start + m
      BY <1>1, ConsecutiveFits
    <3>2. announced.start > 0 /\ \A m \in Messages : announced.start + m > 0
      BY <1>1, ByteFacts, NumMessagesAssumption DEF Fits
    <3> HIDE DEF ids
    <3> QED BY <3>1, <3>2
  <2> HIDE DEF ids
  <2>4. \A i \in DOMAIN w : w[i].isInt /\ w[i].value > 0
    BY <2>2, <2>3, WrittenAlone
  <2>5. Named(w) /\ Decoded(w) = ids
    BY <2>1, <2>2, DecodesWritten
  <2> HIDE DEF w
  <2>6. problem = "none"
    BY <2>1, <2>4, <2>5, ProblemDecides
  <2> QED BY <2>1, <2>5, <2>6 DEF ids
<1>2. IInv => RoundTrip
  BY <1>1 DEF RoundTrip
<1> QED BY <1>2, IInvHolds, PTL

\* With two messages or more no mapping is taken for an uninstall, wherever its
\* ids start and whatever other plugins put before it.
THEOREM NotMistaken ==
  ASSUME NumMessages >= 2
  PROVE  Spec => []NeverMistakenForUninstall
<1>1. ASSUME IInv, Received("mapping")
      PROVE  problem # "UninstallMappingFound"
  <2> DEFINE ids == ConsecutiveIdsStartingAt(announced.start)
             w == WriteMapping(ids, announced.others)
  <2>1. /\ announced.start \in Nat /\ announced.others \in Seq(DictionaryEntry)
        /\ dictionary = w /\ dictionary \in Seq(DictionaryEntry)
        /\ problem = Problem(w)
    BY <1>1 DEF IInv, Received
  <2>2. PICK m \in Messages : ids[m] # 0
    BY <2>1, NotAllZero
  <2>3. ids \in [Messages -> Byte]
    BY <2>1, ConsecutiveType
  <2> HIDE DEF ids
  <2>4. /\ Len(w) = Len(announced.others) + NumMessages
        /\ w[Len(announced.others) + m + 1] = Entry("own", m, ids[m])
    BY <2>1, <2>3, WrittenEntries
  <2>5. Len(announced.others) + m + 1 \in DOMAIN w
    <3>1. Len(announced.others) \in Nat /\ m \in 0 .. NumMessages - 1 /\ NumMessages \in Nat
      BY <2>1, ByteFacts DEF Messages
    <3>2. DOMAIN w = 1 .. Len(w)
      BY <2>1
    <3> HIDE DEF w
    <3> QED BY <2>4, <3>1, <3>2
  <2>6. w[Len(announced.others) + m + 1].value # 0
    BY <2>2, <2>4 DEF Entry
  <2> HIDE DEF w
  <2> QED BY <2>1, <2>5, <2>6, ProblemDecides
<1>2. IInv => NeverMistakenForUninstall
  BY <1>1 DEF NeverMistakenForUninstall
<1> QED BY <1>2, IInvHolds, PTL

\* Whatever a peer accepts it decodes unambiguously: ids that wrap never meet.
THEOREM LookupInverts == Spec => []LookupInvertsId
<1>1. ASSUME IInv, Received("mapping"), announced.others = << >>, problem = "none",
             NEW m \in Messages
      PROVE  MessageType(peerMapping, Id(peerMapping, m)) = m
  <2> DEFINE ids == ConsecutiveIdsStartingAt(announced.start)
  <2>1. /\ announced.start \in Nat /\ << >> \in Seq(DictionaryEntry)
        /\ peerMapping = Decoded(WriteMapping(ids, << >>))
    BY <1>1 DEF IInv, Received
  <2>2. ids \in [Messages -> Byte]
    BY <2>1, ConsecutiveType
  <2>3. peerMapping = ids
    BY <2>1, <2>2, DecodesWritten
  <2>4. WithId(ids, ids[m]) = {m}
    <3>1. \A n \in Messages : ids[n] = ids[m] => n = m
      BY <2>1, ConsecutiveInjective
    <3> HIDE DEF ids
    <3> QED BY <2>2, <3>1 DEF WithId
  <2>5. m <= m
    BY ByteFacts
  <2> HIDE DEF ids
  <2> QED BY <2>3, <2>4, <2>5 DEF MessageType, Id
<1>2. IInv => LookupInvertsId
  BY <1>1 DEF LookupInvertsId
<1> QED BY <1>2, IInvHolds, PTL

\* A client that stops is understood by every peer.
THEOREM UninstallUnderstood == Spec => []UninstallRecognised
<1>1. ASSUME IInv, Received("uninstall"), announced.others = << >>
      PROVE  problem = "UninstallMappingFound" /\ IsEmpty(peerMapping)
  <2> DEFINE zeros == [m \in Messages |-> 0]
             w == WriteMapping(zeros, << >>)
  <2>1. /\ << >> \in Seq(DictionaryEntry)
        /\ dictionary = w /\ dictionary \in Seq(DictionaryEntry)
        /\ problem = Problem(w)
        /\ peerMapping = IF problem = "none" THEN Decoded(w) ELSE EmptyMapping
    BY <1>1 DEF IInv, Received, WriteUninstallMapping
  <2>2. zeros \in [Messages -> Byte] /\ \A m \in Messages : zeros[m] = 0
    BY DEF Byte
  <2> HIDE DEF zeros
  <2>3. \A i \in DOMAIN w : w[i].isInt /\ w[i].value = 0
    BY <2>2, WrittenAlone
  <2>4. Named(w)
    BY <2>1, <2>2, DecodesWritten
  <2> HIDE DEF w
  <2>5. problem = "UninstallMappingFound"
    BY <2>1, <2>3, <2>4, ProblemDecides
  <2> QED BY <2>1, <2>5 DEF IsEmpty, EmptyMapping
<1>2. IInv => UninstallRecognised
  BY <1>1 DEF UninstallRecognised
<1> QED BY <1>2, IInvHolds, PTL

==================================================================================
