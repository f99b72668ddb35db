------------------------------ MODULE MappingLemmas ------------------------------
(***************************************************************************)
(* Lemmas about ExtendedMessageIdMapping, for every number of messages a   *)
(* byte can tell apart: what fromMDictionary decides and decodes, and what *)
(* it makes of the mappings this program writes.                           *)
(***************************************************************************)
EXTENDS ExtendedMessageIdMapping, NaturalLemmas

-----------------------------------------------------------------------------
(* Entries.                                                                *)

\* Message types and the bytes they are given.
LEMMA ByteFacts ==
  /\ Messages \subseteq Nat /\ 0 \in Messages /\ NumMessages \in Nat \ {0}
  /\ \A n \in Int : Uint8(n) \in Byte
  /\ \A n \in Byte : n \in Int /\ Uint8(n) = n
BY NumMessagesAssumption DEF Messages, Uint8, Byte

\* The entries of a dictionary.
LEMMA EntryFacts ==
  ASSUME NEW d \in Seq(DictionaryEntry), NEW i \in DOMAIN d
  PROVE  /\ d[i] \in DictionaryEntry
         /\ d[i].value \in Int /\ d[i].isInt \in BOOLEAN /\ d[i].message \in Messages
<1>1. d[i] \in DictionaryEntry
  OBVIOUS
<1> QED BY <1>1 DEF DictionaryEntry

\* The ids of a client are bytes.
LEMMA ConsecutiveType ==
  ASSUME NEW start \in Nat
  PROVE  ConsecutiveIdsStartingAt(start) \in [Messages -> Byte]
<1>1. Uint8(start) \in Nat
  BY ByteFacts DEF Byte
<1>2. \A m \in Messages : Uint8(Uint8(start) + m) \in Byte
  BY <1>1, ByteFacts
<1> QED BY <1>2 DEF ConsecutiveIdsStartingAt

\* The entries of this program follow those that were there.
LEMMA WrittenEntries ==
  ASSUME NEW mapping \in [Messages -> Byte], NEW d \in Seq(DictionaryEntry)
  PROVE  /\ WriteMapping(mapping, d) \in Seq(DictionaryEntry)
         /\ Len(WriteMapping(mapping, d)) = Len(d) + NumMessages
         /\ \A i \in 1 .. Len(d) : WriteMapping(mapping, d)[i] = d[i]
         /\ \A m \in Messages :
              WriteMapping(mapping, d)[Len(d) + m + 1] = Entry("own", m, mapping[m])
<1> DEFINE own == [i \in 1 .. NumMessages |-> Entry("own", i - 1, mapping[i - 1])]
<1>1. \A i \in 1 .. NumMessages : Entry("own", i - 1, mapping[i - 1]) \in DictionaryEntry
  <2>1. \A i \in 1 .. NumMessages : i - 1 \in Messages
    BY ByteFacts DEF Messages
  <2>2. \A m \in Messages : mapping[m] \in Int
    BY ByteFacts
  <2> QED BY <2>1, <2>2 DEF Entry, DictionaryEntry
<1>2. own \in Seq(DictionaryEntry) /\ Len(own) = NumMessages
  BY <1>1, ByteFacts
<1>3. \A m \in Messages : /\ m + 1 \in 1 .. NumMessages
                          /\ own[m + 1] = Entry("own", m, mapping[m])
  <2> SUFFICES ASSUME NEW m \in Messages
               PROVE  /\ m + 1 \in 1 .. NumMessages
                      /\ own[m + 1] = Entry("own", m, mapping[m])
    OBVIOUS
  <2>1. m + 1 \in 1 .. NumMessages /\ (m + 1) - 1 = m
    BY ByteFacts DEF Messages
  <2> QED BY <2>1
<1> HIDE DEF own
<1>4. /\ d \o own \in Seq(DictionaryEntry)
      /\ Len(d \o own) = Len(d) + NumMessages
      /\ \A i \in 1 .. Len(d) : (d \o own)[i] = d[i]
      /\ \A i \in 1 .. NumMessages : (d \o own)[Len(d) + i] = own[i]
  <2>1. /\ d \o own \in Seq(DictionaryEntry)
        /\ Len(d \o own) = Len(d) + NumMessages
    BY <1>2
  <2>2. \A i \in 1 .. Len(d) : (d \o own)[i] = d[i]
    BY <1>2
  <2>3. ASSUME NEW i \in 1 .. NumMessages
        PROVE  (d \o own)[Len(d) + i] = own[i]
    BY <1>2, ByteFacts
  <2> QED BY <2>1, <2>2, <2>3
<1>5. \A m \in Messages : Len(d) + (m + 1) = Len(d) + m + 1
  BY ByteFacts
<1> QED BY <1>3, <1>4, <1>5 DEF WriteMapping, own

\* The last entry for a message is there, and after all others.
LEMMA LastForIsLast ==
  ASSUME NEW d \in Seq(DictionaryEntry), NEW k \in DOMAIN d
  PROVE  /\ LastFor(d[k].message, d) \in DOMAIN d
         /\ d[LastFor(d[k].message, d)].message = d[k].message
         /\ \A j \in DOMAIN d : d[j].message = d[k].message => j <= LastFor(d[k].message, d)
<1> DEFINE m == d[k].message
           S == EntriesFor(m, d)
<1>1. S \in SUBSET (1 .. Len(d)) /\ S # {} /\ Len(d) \in Nat
  BY DEF EntriesFor
<1>2. \E i \in S : \A j \in S : j <= i
  <2> HIDE DEF S, m
  <2> QED BY <1>1, GreatestUpTo
<1>3. LastFor(m, d) \in S /\ \A j \in S : j <= LastFor(m, d)
  BY <1>2 DEF LastFor
<1> QED BY <1>3 DEF EntriesFor

\* What is decoded is a byte for every message that has an entry.
LEMMA DecodedType ==
  ASSUME NEW d \in Seq(DictionaryEntry)
  PROVE  Decoded(d) \in [{d[i].message : i \in DOMAIN d} -> Byte]
<1>1. \A i \in DOMAIN d : d[i].value \in Int
  BY EntryFacts
<1>2. \A k \in DOMAIN d : Uint8(d[LastFor(d[k].message, d)].value) \in Byte
  BY <1>1, LastForIsLast, ByteFacts
<1> QED BY <1>2 DEF Decoded

-----------------------------------------------------------------------------
(* What fromMDictionary decides.                                           *)

Named(d) == {d[i].message : i \in DOMAIN d} = Messages

\* A mapping is accepted iff it names every message, with positive numbers only,
\* and an uninstall is seen iff it names every message, with zeros only.
LEMMA ProblemDecides ==
  ASSUME NEW d \in Seq(DictionaryEntry)
  PROVE  /\ Problem(d) \in {"none", "MessageMapsToInvalidValueType", "MessageIdNegative",
                            "IncompleteMessageSet", "UninstallMappingFound",
                            "ZeroIdInvalidOnNonUninstallMapping"}
         /\ Problem(d) = "none" <=>
              Named(d) /\ \A i \in DOMAIN d : d[i].isInt /\ d[i].value > 0
         /\ Problem(d) = "UninstallMappingFound" <=>
              Named(d) /\ \A i \in DOMAIN d : d[i].isInt /\ d[i].value = 0
<1>1. \A i \in DOMAIN d : d[i].value \in Int /\ d[i].isInt \in BOOLEAN
  BY EntryFacts
<1>2. DOMAIN Decoded(d) = {d[i].message : i \in DOMAIN d}
  BY DEF Decoded
<1>3. Named(d) => DOMAIN d # {}
  BY ByteFacts DEF Named
<1>4. CASE Offending(d) # {}
  <2>1. Problem(d) \in {"MessageIdNegative", "MessageMapsToInvalidValueType"}
    BY <1>4 DEF Problem
  <2>2. \E i \in DOMAIN d : ~d[i].isInt \/ d[i].value < 0
    BY <1>4 DEF Offending
  <2> QED BY <1>1, <2>1, <2>2
<1>5. CASE Offending(d) = {}
  <2>1. \A i \in DOMAIN d : d[i].isInt /\ d[i].value >= 0
    BY <1>1, <1>5 DEF Offending
  <2>2. CASE ~Named(d)
    BY <1>2, <1>5, <2>2 DEF Problem, Named
  <2>3. CASE Named(d)
    <3>1. CASE \A i \in DOMAIN d : d[i].value = 0
      <4>1. Problem(d) = "UninstallMappingFound"
        BY <1>2, <1>5, <2>3, <3>1 DEF Problem, Named
      <4> QED BY <1>3, <2>1, <2>3, <3>1, <4>1
    <3>2. CASE ~(\A i \in DOMAIN d : d[i].value = 0)
      <4>1. CASE \E i \in DOMAIN d : d[i].value = 0
        <5>1. Problem(d) = "ZeroIdInvalidOnNonUninstallMapping"
          BY <1>2, <1>5, <2>3, <3>2, <4>1 DEF Problem, Named
        <5> QED BY <3>2, <4>1, <5>1
      <4>2. CASE ~(\E i \in DOMAIN d : d[i].value = 0)
        <5>1. Problem(d) = "none"
          BY <1>2, <1>5, <2>3, <3>2, <4>2 DEF Problem, Named
        <5>2. \A i \in DOMAIN d : d[i].value > 0
          BY <1>1, <2>1, <4>2
        <5> QED BY <2>1, <2>3, <3>2, <5>1, <5>2
      <4> QED BY <4>1, <4>2
    <3> QED BY <3>1, <3>2
  <2> QED BY <2>2, <2>3
<1> QED BY <1>4, <1>5

-----------------------------------------------------------------------------
(* What this program writes.                                               *)

\* Its own entries are the last, and say what its mapping says: the mapping is
\* decoded as it was written, unless an entry of another plugin offends.
LEMMA DecodesWritten ==
  ASSUME NEW mapping \in [Messages -> Byte], NEW d \in Seq(DictionaryEntry)
  PROVE  /\ Decoded(WriteMapping(mapping, d)) = mapping
         /\ Named(WriteMapping(mapping, d))
<1> DEFINE w == WriteMapping(mapping, d)
<1>1. /\ w \in Seq(DictionaryEntry) /\ Len(w) = Len(d) + NumMessages /\ Len(d) \in Nat
      /\ \A m \in Messages : w[Len(d) + m + 1] = Entry("own", m, mapping[m])
  BY WrittenEntries
<1> HIDE DEF w
<1>2. DOMAIN w = 1 .. Len(d) + NumMessages
  BY <1>1
<1>3. ASSUME NEW m \in Messages
      PROVE  /\ Len(d) + m + 1 \in DOMAIN w
             /\ w[Len(d) + m + 1].message = m
             /\ w[Len(d) + m + 1].value = mapping[m]
  <2>1. Len(d) + m + 1 \in DOMAIN w
    BY <1>1, <1>2, ByteFacts DEF Messages
  <2>2. w[Len(d) + m + 1] = Entry("own", m, mapping[m])
    BY <1>1
  <2> QED BY <2>1, <2>2 DEF Entry
<1>4. {w[i].message : i \in DOMAIN w} = Messages
  BY <1>1, <1>3, EntryFacts
<1>5. ASSUME NEW m \in Messages
      PROVE  LastFor(m, w) = Len(d) + m + 1
  <2> DEFINE k == Len(d) + m + 1
             l == LastFor(m, w)
  <2>1. /\ l \in DOMAIN w /\ w[l].message = m
        /\ \A j \in DOMAIN w : w[j].message = m => j <= l
    <3>1. k \in DOMAIN w /\ w[k].message = m
      BY <1>3
    <3> HIDE DEF k
    <3> QED BY <1>1, <3>1, LastForIsLast
  <2>2. k <= l
    BY <1>3, <2>1
  <2>0. l \in 1 .. Len(d) + NumMessages /\ k \in Nat /\ m \in Nat /\ NumMessages \in Nat
    BY <1>1, <1>2, <2>1, ByteFacts
  <2>3. ASSUME k < l
        PROVE  FALSE
    <3> DEFINE n == l - Len(d) - 1
    <3>0. l > Len(d) + m + 1
      BY <2>3
    <3> HIDE DEF l
    <3>1. n \in Messages /\ l = Len(d) + n + 1 /\ n # m
      BY <1>1, <2>0, <3>0 DEF Messages
    <3> HIDE DEF n
    <3>2. w[l].message = n
      BY <1>3, <3>1
    <3> QED BY <2>1, <3>1, <3>2
  <2>4. k = l
    <3> HIDE DEF k, l
    <3> QED BY <1>1, <2>0, <2>2, <2>3
  <2> QED BY <2>4
<1>6. ASSUME NEW m \in Messages
      PROVE  Uint8(w[LastFor(m, w)].value) = mapping[m]
  BY <1>3, <1>5, ByteFacts
<1>7. Decoded(w) = [m \in Messages |-> Uint8(w[LastFor(m, w)].value)]
  BY <1>4 DEF Decoded
<1> QED BY <1>4, <1>6, <1>7 DEF Named, w

\* Every entry of a dictionary without other plugins is its own.
LEMMA WrittenAlone ==
  ASSUME NEW mapping \in [Messages -> Byte],
         NEW i \in DOMAIN WriteMapping(mapping, << >>)
  PROVE  \E m \in Messages : /\ WriteMapping(mapping, << >>)[i].value = mapping[m]
                             /\ WriteMapping(mapping, << >>)[i].isInt
<1> DEFINE w == WriteMapping(mapping, << >>)
<1>1. << >> \in Seq(DictionaryEntry) /\ Len(<< >>) = 0
  OBVIOUS
<1>2. /\ w \in Seq(DictionaryEntry) /\ Len(w) = 0 + NumMessages
      /\ \A m \in Messages : w[0 + m + 1] = Entry("own", m, mapping[m])
  BY <1>1, WrittenEntries
<1> HIDE DEF w
<1>3. i \in 1 .. NumMessages
  BY <1>2, ByteFacts DEF w
<1>4. i - 1 \in Messages /\ 0 + (i - 1) + 1 = i
  BY <1>3, ByteFacts DEF Messages
<1>5. w[i] = Entry("own", i - 1, mapping[i - 1])
  BY <1>2, <1>4
<1> QED BY <1>4, <1>5 DEF w, Entry

\* Two messages never share an id.
LEMMA ConsecutiveInjective ==
  ASSUME NEW start \in Nat, NEW m \in Messages, NEW n \in Messages,
         ConsecutiveIdsStartingAt(start)[m] = ConsecutiveIdsStartingAt(start)[n]
  PROVE  m = n
<1> DEFINE s == start % 256
<1>1. s \in Byte
  BY DEF Byte
<1>2. (s + m) % 256 = (s + n) % 256
  BY DEF ConsecutiveIdsStartingAt, Uint8
<1> HIDE DEF s
<1>3. m \in 0 .. 254 /\ n \in 0 .. 254
  BY NumMessagesAssumption DEF Messages
<1>4. \A x \in 0 .. 509 : x % 256 = IF x < 256 THEN x ELSE x - 256
  OBVIOUS
<1>5. s + m \in 0 .. 509 /\ s + n \in 0 .. 509
  BY <1>1, <1>3 DEF Byte
<1> QED BY <1>1, <1>2, <1>3, <1>4, <1>5 DEF Byte

\* Of two messages one has an id that is not zero.
LEMMA NotAllZero ==
  ASSUME NEW start \in Nat, NumMessages >= 2
  PROVE  \E m \in Messages : ConsecutiveIdsStartingAt(start)[m] # 0
<1> DEFINE s == start % 256
<1>1. s \in Byte
  BY DEF Byte
<1>2. 0 \in Messages /\ 1 \in Messages
  BY NumMessagesAssumption DEF Messages
<1>3. /\ ConsecutiveIdsStartingAt(start)[0] = (s + 0) % 256
      /\ ConsecutiveIdsStartingAt(start)[1] = (s + 1) % 256
  BY <1>2 DEF ConsecutiveIdsStartingAt, Uint8
<1> HIDE DEF s
<1>4. (s + 0) % 256 # 0 \/ (s + 1) % 256 # 0
  BY <1>1 DEF Byte
<1> QED BY <1>2, <1>3, <1>4

==================================================================================
