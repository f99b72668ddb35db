---------------------- MODULE ExtendedMessageIdMapping ----------------------
(***************************************************************************)
(* The BEP10 message id mapping of the extension: class                    *)
(* ExtendedMessageIdMapping, which a client writes into the "m" dictionary *)
(* of its extended handshake and reads from the "m" dictionary of a peer.  *)
(*                                                                         *)
(* A message type is its position in the enumeration MessageType, which is *)
(* also the order std::set and std::map iterate in.  A RawMapping          *)
(* (std::map<MessageType, uint8_t>) is a function from message types to    *)
(* bytes; the empty function is the empty mapping.  An "m" dictionary is   *)
(* the sequence of its entries in the order dict_at(i) returns them.       *)
(***************************************************************************)
EXTENDS Integers, Sequences, FiniteSets

\* The number of message types (11 in the code).  The enumeration is not
\* empty, and its types can be told apart by a byte that is not zero.
CONSTANT NumMessages
ASSUME NumMessagesAssumption == NumMessages \in 1 .. 255

Messages == 0 .. NumMessages - 1

Byte == 0 .. 255

\* A build that keeps ids in a wider integer.
MutantUint8(n) == n

\* The conversion (uint8_t)n, and the wrap-around of start++ on a uint8_t.
Uint8(n) == n % 256

\* A mapping that was cleared, or never set.
EmptyMapping == << >>

IsEmpty(mapping) == DOMAIN mapping = {}

-----------------------------------------------------------------------------
(* Dictionaries.  The name of an entry is a prefix followed by a message   *)
(* name; fromMDictionary only looks at the length of the prefix.  An entry *)
(* whose remaining name is no message name at all is skipped by it and is  *)
(* left out.  A value is a bencoded integer or something else.             *)

Entry(prefix, message, value) ==
  [prefix |-> prefix, message |-> message, isInt |-> TRUE, value |-> value]

NonIntegerEntry(prefix, message) ==
  [prefix |-> prefix, message |-> message, isInt |-> FALSE, value |-> 0]

DictionaryEntry ==
  [prefix : {"own", "foreign"}, message : Messages, isInt : BOOLEAN, value : Int]

-----------------------------------------------------------------------------
(* Building and writing a mapping.                                         *)

\* A build that numbers the messages from start + 1.
MutantConsecutiveIdsStartingAt(start) ==
  [m \in Messages |-> Uint8(Uint8(start) + m + 1)]

\* A build that forgets to advance the id.
MutantConstantIdsStartingAt(start) == [m \in Messages |-> Uint8(start)]

\* consecutiveIdsStartingAt(uint8_t start).  PeerPlugin passes its uint
\* _minimumMessageId, so the conversion to a byte comes first.
ConsecutiveIdsStartingAt(start) ==
  [m \in Messages |-> Uint8(Uint8(start) + m)]

\* writeMappingToMDictionary throws MessageAlreadyPresentException if the
\* dictionary has a key of this extension already.
HasOwnKey(dictionary) == \E i \in DOMAIN dictionary : dictionary[i].prefix = "own"

\* writeMappingToMDictionary(mapping, m), for a dictionary without own keys.  The
\* dictionary is sorted by name when it is sent; the order only matters between
\* entries for one message, and those of other plugins are taken to come first.
WriteMapping(mapping, dictionary) ==
  dictionary \o
    [i \in 1 .. NumMessages |-> Entry("own", i - 1, mapping[i - 1])]

\* An uninstall that leaves one message installed.
MutantWriteUninstallMapping(dictionary) ==
  WriteMapping([m \in Messages |-> IF m = 0 THEN 1 ELSE 0], dictionary)

\* writeUninstallMappingToMDictionary(m): every message maps to 0.
WriteUninstallMapping(dictionary) ==
  WriteMapping([m \in Messages |-> 0], dictionary)

-----------------------------------------------------------------------------
(* Reading a mapping: fromMDictionary.                                     *)

\* The entries at which the loop of fromMDictionary throws.
Offending(dictionary) ==
  {i \in DOMAIN dictionary : ~dictionary[i].isInt \/ dictionary[i].value < 0}

FirstOffending(dictionary) ==
  CHOOSE i \in Offending(dictionary) :
    \A j \in Offending(dictionary) : i <= j

\* The entries for message m, and the last of them, whose value stays in the
\* mapping.
EntriesFor(m, dictionary) ==
  {i \in DOMAIN dictionary : dictionary[i].message = m}

LastFor(m, dictionary) ==
  CHOOSE i \in EntriesFor(m, dictionary) :
    \A j \in EntriesFor(m, dictionary) : j <= i

\* What the loop stores: mapping[message] = (uint8_t)value, entry by entry.
Decoded(dictionary) ==
  [m \in {dictionary[i].message : i \in DOMAIN dictionary} |->
     Uint8(dictionary[LastFor(m, dictionary)].value)]

\* A build that takes the zero test for the uninstall test.
MutantProblem(dictionary) ==
  IF Offending(dictionary) # {}
  THEN IF dictionary[FirstOffending(dictionary)].isInt
       THEN "MessageIdNegative" ELSE "MessageMapsToInvalidValueType"
  ELSE IF DOMAIN Decoded(dictionary) # Messages THEN "IncompleteMessageSet"
  ELSE IF \E i \in DOMAIN dictionary : dictionary[i].value = 0
       THEN "UninstallMappingFound"
  ELSE "none"

\* The Problem of the exception fromMDictionary throws, "none" if it returns.
\* The tests on zero look at the 64 bit values, not at the stored bytes.
Problem(dictionary) ==
  IF Offending(dictionary) # {}
  THEN IF dictionary[FirstOffending(dictionary)].isInt
       THEN "MessageIdNegative" ELSE "MessageMapsToInvalidValueType"
  ELSE IF DOMAIN Decoded(dictionary) # Messages THEN "IncompleteMessageSet"
  ELSE IF \A i \in DOMAIN dictionary : dictionary[i].value = 0
       THEN "UninstallMappingFound"
  ELSE IF \E i \in DOMAIN dictionary : dictionary[i].value = 0
       THEN "ZeroIdInvalidOnNonUninstallMapping"
  ELSE "none"

-----------------------------------------------------------------------------
(* Looking a message up: id(MessageType) and messageType(uint8_t).         *)

Id(mapping, m) == mapping[m]

WithId(mapping, id) == {m \in DOMAIN mapping : mapping[m] = id}

\* The first message, in the order of the map, that has the id; messageType
\* throws if there is none, which its callers test with WithId.
MessageType(mapping, id) ==
  CHOOSE m \in WithId(mapping, id) : \A k \in WithId(mapping, id) : m <= k

=============================================================================
