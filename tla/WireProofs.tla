------------------------------- MODULE WireProofs -------------------------------
(***************************************************************************)
(* Proofs about ExtensionWire: for any minimum message ids, any number of  *)
(* messages and any length of the wire, two clients never drop each other  *)
(* for an extended handshake, agree once nothing is on its way, decode     *)
(* what was sent, and are each what TorrentPlugin says of a client.        *)
(*                                                                         *)
(* The argument is about one direction of the connection at a time.  What  *)
(* is on its way to a client tells a story: applied one by one to what the *)
(* client holds now, mappings and uninstall mappings alternate and lead to *)
(* what the other end has said last.                                       *)
(***************************************************************************)
EXTENDS ExtensionWire, MappingLemmas

-----------------------------------------------------------------------------
(* The two clients and what they announce.                                 *)

\* There are two ends, and each is the other of the other.
LEMMA Ends ==
  /\ \A c \in Clients : Other[c] \in Clients /\ Other[c] # c /\ Other[Other[c]] = c
  /\ \A c, d \in Clients : d = c \/ d = Other[c]
<1>1. PICK x \in Clients, y \in Clients : x # y /\ Clients = {x, y}
  BY TwoClientsAssumption
<1>2. \A c \in Clients : \E o \in Clients : o # c
  BY <1>1
<1>3. \A c \in Clients : Other[c] \in Clients /\ Other[c] # c
  BY <1>2 DEF Other
<1> QED BY <1>1, <1>3

\* The dictionaries of this program: a full mapping, and an uninstall mapping.
Announcement(c) == WriteMapping(ClientMapping(c), << >>)

Withdrawal == WriteUninstallMapping(<< >>)

\* A mapping whose ids fit is accepted, and decoded as it was built; one whose ids
\* do not is not accepted; and an uninstall mapping is recognised.
LEMMA Understanding ==
  ASSUME start \in [Clients -> MinimumMessageIds], NEW c \in Clients
  PROVE  /\ ClientMapping(c) \in [Messages -> Byte]
         /\ Decoded(Announcement(c)) = ClientMapping(c)
         /\ IdsFit(c) <=> Problem(Announcement(c)) = "none"
         /\ Problem(Withdrawal) = "UninstallMappingFound"
<1> DEFINE ids == ClientMapping(c)
           zeros == [m \in Messages |-> 0]
<1>0. << >> \in Seq(DictionaryEntry)
  OBVIOUS
<1>1. start[c] \in Nat
  BY MinimumAssumption
<1>2. ids \in [Messages -> Byte]
  BY <1>1, ConsecutiveType DEF ClientMapping
<1>3. zeros \in [Messages -> Byte]
  BY DEF Byte
<1> HIDE DEF ids
<1>4. ASSUME NEW f \in [Messages -> Byte]
      PROVE  /\ WriteMapping(f, << >>) \in Seq(DictionaryEntry)
             /\ Decoded(WriteMapping(f, << >>)) = f /\ Named(WriteMapping(f, << >>))
             /\ \A i \in DOMAIN WriteMapping(f, << >>) :
                  /\ WriteMapping(f, << >>)[i].isInt
                  /\ \E m \in Messages : WriteMapping(f, << >>)[i].value = f[m]
             /\ \A m \in Messages : \E i \in DOMAIN WriteMapping(f, << >>) :
                  WriteMapping(f, << >>)[i].value = f[m]
  <2> DEFINE w == WriteMapping(f, << >>)
  <2>1. w \in Seq(DictionaryEntry) /\ Decoded(w) = f /\ Named(w)
    BY <1>0, WrittenEntries, DecodesWritten
  <2>2. \A i \in DOMAIN w : w[i].isInt /\ \E m \in Messages : w[i].value = f[m]
    BY WrittenAlone
  <2>3. /\ Len(w) = 0 + NumMessages
        /\ \A m \in Messages : w[0 + m + 1] = Entry("own", m, f[m])
    BY <1>0, WrittenEntries
  <2> HIDE DEF w
  <2>4. ASSUME NEW m \in Messages
        PROVE  \E i \in DOMAIN w : w[i].value = f[m]
    <3>1. m + 1 \in DOMAIN w /\ 0 + m + 1 = m + 1
      BY <2>1, <2>3, ByteFacts DEF Messages
    <3>2. w[m + 1] = Entry("own", m, f[m])
      BY <2>3, <3>1
    <3>3. w[m + 1].value = f[m]
      BY <3>2 DEF Entry
    <3> QED BY <3>1, <3>3
  <2> QED BY <2>1, <2>2, <2>4 DEF w
<1>5. IdsFit(c) <=> Problem(Announcement(c)) = "none"
  <2> DEFINE w == WriteMapping(ids, << >>)
  <2>1. /\ w \in Seq(DictionaryEntry) /\ Named(w)
        /\ \A i \in DOMAIN w : w[i].isInt /\ \E m \in Messages : w[i].value = ids[m]
        /\ \A m \in Messages : \E i \in DOMAIN w : w[i].value = ids[m]
    BY <1>2, <1>4
  <2> HIDE DEF w
  <2>2. Problem(w) = "none" <=> \A i \in DOMAIN w : w[i].value > 0
    BY <2>1, ProblemDecides
  <2>3. \A m \in Messages : ids[m] \in Nat
    BY <1>2 DEF Byte
  <2>4. Problem(w) = "none" <=> \A m \in Messages : ids[m] # 0
    BY <2>1, <2>2, <2>3
  <2> QED BY <2>4 DEF IdsFit, Id, Announcement, ids, w
<1>6. Problem(Withdrawal) = "UninstallMappingFound"
  <2> DEFINE w == WriteMapping(zeros, << >>)
  <2>1. /\ w \in Seq(DictionaryEntry) /\ Named(w)
        /\ \A i \in DOMAIN w : w[i].isInt /\ \E m \in Messages : w[i].value = zeros[m]
    BY <1>3, <1>4
  <2>2. Withdrawal = w
    BY DEF Withdrawal, WriteUninstallMapping
  <2>3. \A m \in Messages : zeros[m] = 0
    OBVIOUS
  <2> HIDE DEF w, zeros
  <2> QED BY <2>1, <2>2, <2>3, ProblemDecides
<1> QED BY <1>2, <1>4, <1>5, <1>6 DEF Announcement, ids

-----------------------------------------------------------------------------
(* Stories.                                                                *)

Announces(m) == m.kind = "extended handshake" /\ Problem(m.m) = "none"

Withdraws(m) ==
  m.kind = "extended handshake" /\ Problem(m.m) = "UninstallMappingFound"

\* Whether a client holds a mapping before and after it is told m, if m is what a
\* well-behaved peer may tell it then.
Follows(before, m, after) ==
  /\ Announces(m) => ~before /\ after
  /\ Withdraws(m) => before /\ ~after
  /\ m.kind = "no extension" => ~before /\ ~after
  /\ ~Announces(m) /\ ~Withdraws(m) /\ m.kind # "no extension" => (after <=> before)

Story(w, before, after) ==
  \E h \in [0 .. Len(w) -> BOOLEAN] :
    /\ h[0] = before
    /\ h[Len(w)] = after
    /\ \A i \in 1 .. Len(w) : Follows(h[i - 1], w[i], h[i])

\* A story without a message ends where it began.
LEMMA StoryEmpty ==
  /\ \A a \in BOOLEAN : Story(<< >>, a, a)
  /\ \A a, b \in BOOLEAN : Story(<< >>, a, b) => a = b
<1>1. ASSUME NEW a \in BOOLEAN
      PROVE  Story(<< >>, a, a)
  <2> DEFINE h == [i \in 0 .. 0 |-> a]
  <2>1. h \in [0 .. Len(<< >>) -> BOOLEAN] /\ h[0] = a /\ Len(<< >>) = 0
    OBVIOUS
  <2> HIDE DEF h
  <2> QED BY <2>1 DEF Story
<1>2. ASSUME NEW a \in BOOLEAN, NEW b \in BOOLEAN, Story(<< >>, a, b)
      PROVE  a = b
  BY <1>2 DEF Story
<1> QED BY <1>1, <1>2

\* It goes on with what is appended.
LEMMA StoryAppend ==
  ASSUME NEW S, NEW w \in Seq(S), NEW m \in S, NEW a \in BOOLEAN, NEW b \in BOOLEAN,
         NEW x \in BOOLEAN, Story(w, a, b), Follows(b, m, x)
  PROVE  Story(Append(w, m), a, x)
<1> DEFINE n == Len(w)
           v == Append(w, m)
<1>1. PICK h \in [0 .. n -> BOOLEAN] :
        h[0] = a /\ h[n] = b /\ \A i \in 1 .. n : Follows(h[i - 1], w[i], h[i])
  BY DEF Story
<1> DEFINE g == [i \in 0 .. n + 1 |-> IF i = n + 1 THEN x ELSE h[i]]
<1>2. /\ n \in Nat /\ Len(v) = n + 1 /\ v[n + 1] = m
      /\ \A i \in 1 .. n : v[i] = w[i]
  OBVIOUS
<1>3. /\ g \in [0 .. n + 1 -> BOOLEAN] /\ g[n + 1] = x
      /\ \A i \in 0 .. n : g[i] = h[i]
  BY <1>2
<1> HIDE DEF g, v, n
<1>4. ASSUME NEW i \in 1 .. n + 1
      PROVE  Follows(g[i - 1], v[i], g[i])
  <2>1. CASE i = n + 1
    <3>1. i - 1 = n /\ n \in 0 .. n
      BY <1>2, <2>1
    <3>2. g[i - 1] = b /\ v[i] = m /\ g[i] = x
      BY <1>1, <1>2, <1>3, <2>1, <3>1
    <3> QED BY <3>2
  <2>2. CASE i \in 1 .. n
    <3>1. i - 1 \in 0 .. n /\ i \in 0 .. n
      BY <1>2, <2>2
    <3>2. g[i - 1] = h[i - 1] /\ v[i] = w[i] /\ g[i] = h[i]
      BY <1>2, <1>3, <2>2, <3>1
    <3> QED BY <1>1, <2>2, <3>2
  <2> QED BY <1>2, <2>1, <2>2
<1>5. g[0] = a
  BY <1>1, <1>2, <1>3
<1> QED BY <1>2, <1>3, <1>4, <1>5 DEF Story, v

\* And without what was taken off.
LEMMA StoryTail ==
  ASSUME NEW S, NEW w \in Seq(S), w # << >>, NEW a \in BOOLEAN, NEW b \in BOOLEAN,
         Story(w, a, b)
  PROVE  \E x \in BOOLEAN : Follows(a, Head(w), x) /\ Story(Tail(w), x, b)
<1> DEFINE n == Len(w)
           v == Tail(w)
<1>1. PICK h \in [0 .. n -> BOOLEAN] :
        h[0] = a /\ h[n] = b /\ \A i \in 1 .. n : Follows(h[i - 1], w[i], h[i])
  BY DEF Story
<1> DEFINE g == [i \in 0 .. n - 1 |-> h[i + 1]]
<1>2. /\ n \in Nat \ {0} /\ Len(v) = n - 1 /\ Head(w) = w[1]
      /\ \A i \in 1 .. n - 1 : v[i] = w[i + 1]
  OBVIOUS
<1>3. /\ g \in [0 .. n - 1 -> BOOLEAN]
      /\ \A i \in 0 .. n - 1 : g[i] = h[i + 1]
  BY <1>2
<1> HIDE DEF g, v, n
<1>4. ASSUME NEW i \in 1 .. n - 1
      PROVE  Follows(g[i - 1], v[i], g[i])
  <2>1. i - 1 \in 0 .. n - 1 /\ i \in 0 .. n - 1 /\ i + 1 \in 1 .. n /\ (i - 1) + 1 = i
        /\ (i + 1) - 1 = i
    BY <1>2
  <2>2. g[i - 1] = h[i] /\ v[i] = w[i + 1] /\ g[i] = h[i + 1]
    BY <1>2, <1>3, <2>1
  <2>3. Follows(h[(i + 1) - 1], w[i + 1], h[i + 1])
    BY <1>1, <2>1
  <2> QED BY <2>1, <2>2, <2>3
<1>5. g[0] = h[1] /\ g[n - 1] = b /\ h[1] \in BOOLEAN
  <2>1. 0 \in 0 .. n - 1 /\ n - 1 \in 0 .. n - 1 /\ 0 + 1 = 1 /\ (n - 1) + 1 = n /\ 1 \in 0 .. n
    BY <1>2
  <2> QED BY <1>1, <1>3, <2>1
<1>6. Follows(a, Head(w), h[1])
  <2>1. 1 \in 1 .. n /\ 1 - 1 = 0
    BY <1>2
  <2> QED BY <1>1, <1>2, <2>1
<1>7. Story(v, h[1], b)
  BY <1>2, <1>3, <1>4, <1>5 DEF Story
<1> QED BY <1>5, <1>6, <1>7 DEF v

-----------------------------------------------------------------------------
(* The invariant.                                                          *)

\* What the program at the other end writes to c after its BitTorrent handshake,
\* and that handshake.
Sendable(c) ==
  {Handshake, Closed, NoExtension, ExtendedHandshake(Withdrawal),
   ExtendedHandshake(Announcement(Other[c]))}
    \cup {ExtendedMessage(Id(ClientMapping(c), m), m) : m \in Messages}
    \cup {OtherMessage(id) : id \in {i \in OtherIds : i < start[c]}}

\* The BitTorrent handshake is read first, and once.
HandshakeFirst(w, done) ==
  /\ \A i \in 1 .. Len(w) : w[i].kind = "handshake" <=> i = 1 /\ ~done
  /\ ~done => w # << >>

\* What an end knows of the other hangs together.
EndInv(c) ==
  /\ ~completed[c] => ~sendUninstall[c]
  /\ ~open[c] => ~completed[c] /\ ~HasMapping(c)
  /\ HasMapping(c) => IdsFit(Other[c]) /\ peerMapping[c] = ClientMapping(Other[c])
  /\ payment[c] = "supported" <=> HasMapping(c)
  /\ member[c] <=> Running(c) /\ HasMapping(c)

WireInv(c) ==
  /\ wire[c] \in Seq(Sendable(c))
  /\ open[c] => HandshakeFirst(wire[c], completed[c])

\* What is on its way to c leads to what the other end has said last.
Says(c) == completed[c] /\ Running(c)

StoryInv(c) ==
  open[c] /\ IdsFit(Other[c]) =>
    \E a \in BOOLEAN : /\ Story(wire[c], HasMapping(c), a)
                       /\ open[Other[c]] => (a <=> Says(Other[c]))

IInv ==
  /\ TypeOK
  /\ \A c \in Clients : EndInv(c) /\ WireInv(c) /\ StoryInv(c)

\* The messages of this program are told apart by their kinds.
LEMMA SendableFacts ==
  ASSUME start \in [Clients -> MinimumMessageIds], NEW c \in Clients, NEW m \in Sendable(c)
  PROVE  /\ m \in Traffic
         /\ m.kind = "extended handshake" =>
              m.m = Withdrawal \/ m.m = Announcement(Other[c])
         /\ m.kind = "message" =>
              m.sent \in Messages /\ m.id = Id(ClientMapping(c), m.sent)
         /\ m.kind = "other" => m.id \in OtherIds /\ m.id < start[c]
<1>1. CASE m \in {Handshake, Closed, NoExtension, ExtendedHandshake(Withdrawal)}
  <2>1. m \in Traffic
    BY <1>1 DEF Traffic, Withdrawal
  <2>2. /\ Handshake.kind = "handshake" /\ Closed.kind = "closed"
        /\ NoExtension.kind = "no extension"
        /\ ExtendedHandshake(Withdrawal).kind = "extended handshake"
        /\ ExtendedHandshake(Withdrawal).m = Withdrawal
    BY DEF Handshake, Closed, NoExtension, ExtendedHandshake
  <2>3. m.kind = "extended handshake" => m.m = Withdrawal
    BY <1>1, <2>2
  <2>4. m.kind # "message" /\ m.kind # "other"
    BY <1>1, <2>2
  <2> QED BY <2>1, <2>3, <2>4
<1>2. CASE m = ExtendedHandshake(Announcement(Other[c]))
  <2>1. Other[c] \in Clients /\ start[Other[c]] \in MinimumMessageIds
    BY Ends
  <2>2. m \in Traffic
    BY <1>2, <2>1 DEF Traffic, Announcement, ClientMapping
  <2>3. m.kind = "extended handshake" /\ m.m = Announcement(Other[c])
    BY <1>2 DEF ExtendedHandshake
  <2> QED BY <2>2, <2>3
<1>3. CASE m \in {ExtendedMessage(Id(ClientMapping(c), n), n) : n \in Messages}
  <2>1. PICK n \in Messages : m = ExtendedMessage(Id(ClientMapping(c), n), n)
    BY <1>3
  <2>2. Id(ClientMapping(c), n) \in Byte
    BY Understanding DEF Id
  <2>3. m \in Traffic
    BY <2>1, <2>2 DEF Traffic, ExtendedMessage
  <2>4. m.kind = "message" /\ m.sent = n /\ m.id = Id(ClientMapping(c), n)
    BY <2>1 DEF ExtendedMessage
  <2> QED BY <2>3, <2>4
<1>4. CASE m \in {OtherMessage(id) : id \in {i \in OtherIds : i < start[c]}}
  <2>1. PICK id \in OtherIds : m = OtherMessage(id) /\ id < start[c]
    BY <1>4
  <2>2. m \in Traffic
    BY <2>1 DEF Traffic, OtherMessage
  <2>3. m.kind = "other" /\ m.id = id
    BY <2>1 DEF OtherMessage
  <2> QED BY <2>1, <2>2, <2>3
<1> QED BY <1>1, <1>2, <1>3, <1>4 DEF Sendable

\* What add_handshake writes, and how it goes on.
LEMMA AddHandshakeFacts ==
  ASSUME start \in [Clients -> MinimumMessageIds], NEW c \in Clients, NEW s,
         NEW u \in BOOLEAN
  PROVE  /\ AddHandshake(c, s, u) \in Sendable(Other[c])
         /\ AddHandshake(c, s, u).kind # "handshake"
         /\ s \in {"started", "paused"} /\ IdsFit(c) => Follows(FALSE, AddHandshake(c, s, u), TRUE)
         /\ s \notin {"started", "paused"} /\ u => Follows(TRUE, AddHandshake(c, s, u), FALSE)
         /\ s \notin {"started", "paused"} /\ ~u => Follows(FALSE, AddHandshake(c, s, u), FALSE)
<1> DEFINE m == AddHandshake(c, s, u)
<1>1. /\ IdsFit(c) <=> Problem(Announcement(c)) = "none"
      /\ Problem(Withdrawal) = "UninstallMappingFound"
      /\ Other[Other[c]] = c
  BY Understanding, Ends
<1>2. CASE s \in {"started", "paused"}
  <2>1. m = ExtendedHandshake(Announcement(c))
    BY <1>2 DEF AddHandshake, Announcement
  <2> HIDE DEF m
  <2>2. m.kind = "extended handshake" /\ m.m = Announcement(c)
    BY <2>1 DEF ExtendedHandshake
  <2>3. m \in Sendable(Other[c])
    BY <1>1, <2>1 DEF Sendable
  <2>4. IdsFit(c) => Follows(FALSE, m, TRUE)
    BY <1>1, <2>2 DEF Follows, Announces, Withdraws
  <2> QED BY <1>2, <2>2, <2>3, <2>4 DEF m
<1>3. CASE s \notin {"started", "paused"} /\ u
  <2>1. m = ExtendedHandshake(Withdrawal)
    BY <1>3 DEF AddHandshake, Withdrawal
  <2> HIDE DEF m
  <2>2. m.kind = "extended handshake" /\ m.m = Withdrawal
    BY <2>1 DEF ExtendedHandshake
  <2>3. m \in Sendable(Other[c])
    BY <2>1 DEF Sendable
  <2>4. Follows(TRUE, m, FALSE)
    BY <1>1, <2>2 DEF Follows, Announces, Withdraws
  <2> QED BY <1>3, <2>2, <2>3, <2>4 DEF m
<1>4. CASE s \notin {"started", "paused"} /\ ~u
  <2>1. m = NoExtension
    BY <1>4 DEF AddHandshake
  <2> HIDE DEF m
  <2>2. m.kind = "no extension"
    BY <2>1 DEF NoExtension
  <2>3. m \in Sendable(Other[c])
    BY <2>1 DEF Sendable
  <2>4. Follows(FALSE, m, FALSE)
    BY <2>2 DEF Follows, Announces, Withdraws
  <2> QED BY <1>4, <2>2, <2>3, <2>4 DEF m
<1> QED BY <1>2, <1>3, <1>4

\* Other messages change nothing.
LEMMA OthersFollow ==
  ASSUME NEW m, m.kind \notin {"extended handshake", "no extension"}, NEW a \in BOOLEAN
  PROVE  Follows(a, m, a)
BY DEF Follows, Announces, Withdraws

\* A message keeps the BitTorrent handshake first; so does taking the first one.
LEMMA FirstAppend ==
  ASSUME NEW S, NEW w \in Seq(S), NEW m \in S, m.kind # "handshake",
         NEW done \in BOOLEAN, HandshakeFirst(w, done)
  PROVE  HandshakeFirst(Append(w, m), done)
<1> DEFINE n == Len(w)
           v == Append(w, m)
<1>1. /\ n \in Nat /\ Len(v) = n + 1 /\ v[n + 1] = m
      /\ \A i \in 1 .. n : v[i] = w[i]
      /\ v # << >> /\ (w # << >> => n > 0)
  OBVIOUS
<1>2. /\ \A i \in 1 .. n : w[i].kind = "handshake" <=> i = 1 /\ ~done
      /\ ~done => n > 0
  BY <1>1 DEF HandshakeFirst
<1> HIDE DEF n, v
<1>3. ASSUME NEW i \in 1 .. n + 1
      PROVE  v[i].kind = "handshake" <=> i = 1 /\ ~done
  <2>1. CASE i = n + 1
    BY <1>1, <1>2, <2>1
  <2>2. CASE i \in 1 .. n
    BY <1>1, <1>2, <2>2
  <2> QED BY <1>1, <2>1, <2>2
<1>4. HandshakeFirst(v, done)
  BY <1>1, <1>3 DEF HandshakeFirst
<1> QED BY <1>4 DEF v

LEMMA FirstTail ==
  ASSUME NEW S, NEW w \in Seq(S), w # << >>, NEW done \in BOOLEAN, HandshakeFirst(w, done)
  PROVE  /\ HandshakeFirst(Tail(w), TRUE)
         /\ Head(w) \in S
         /\ Head(w).kind = "handshake" <=> ~done
<1> DEFINE n == Len(w)
           v == Tail(w)
<1>1. /\ n \in Nat \ {0} /\ Len(v) = n - 1 /\ Head(w) = w[1] /\ w[1] \in S
      /\ \A i \in 1 .. n - 1 : v[i] = w[i + 1]
  OBVIOUS
<1>2. \A i \in 1 .. n : w[i].kind = "handshake" <=> i = 1 /\ ~done
  BY DEF HandshakeFirst
<1> HIDE DEF n, v
<1>3. ASSUME NEW i \in 1 .. n - 1
      PROVE  v[i].kind # "handshake"
  <2>1. i + 1 \in 1 .. n /\ i + 1 # 1
    BY <1>1
  <2> QED BY <1>1, <1>2, <2>1
<1>4. HandshakeFirst(v, TRUE)
  BY <1>1, <1>3 DEF HandshakeFirst
<1>5. w[1].kind = "handshake" <=> ~done
  <2>1. 1 \in 1 .. n
    BY <1>1
  <2> QED BY <1>2, <2>1
<1>6. Head(w).kind = "handshake" <=> ~done
  BY <1>1, <1>5
<1> QED BY <1>1, <1>4, <1>6 DEF v

-----------------------------------------------------------------------------
(* What a step does to the wire.                                           *)

\* The minimum message ids stay, and with them what depends on nothing else.
LEMMA Fixed ==
  ASSUME start' = start, NEW c \in Clients
  PROVE  /\ IdsFit(c)' <=> IdsFit(c)
         /\ ClientMapping(c)' = ClientMapping(c)
         /\ Sendable(c)' = Sendable(c)
BY DEF IdsFit, ClientMapping, Sendable, Announcement

\* Whatever an end is told, it makes one thing of it.
LEMMA FollowsOnce ==
  ASSUME NEW a \in BOOLEAN, NEW m, NEW x \in BOOLEAN, NEW y \in BOOLEAN,
         Follows(a, m, x), Follows(a, m, y)
  PROVE  x = y
<1>1. CASE Announces(m)
  BY <1>1 DEF Follows
<1>2. CASE Withdraws(m)
  BY <1>2 DEF Follows
<1>3. CASE m.kind = "no extension"
  BY <1>3 DEF Follows
<1>4. CASE ~Announces(m) /\ ~Withdraws(m) /\ m.kind # "no extension"
  <2>1. (x <=> a) /\ (y <=> a)
    BY <1>4 DEF Follows
  <2> QED BY <2>1
<1> QED BY <1>1, <1>2, <1>3, <1>4

\* The other end of a client that writes.
LEMMA WriteEffect ==
  ASSUME IInv, NEW c \in Clients, open[c], NEW said \in BOOLEAN,
         NEW m \in Sendable(Other[c]), m.kind # "handshake",
         IdsFit(c) => Follows(Says(c), m, said),
         NEW w, w = IF open[Other[c]] THEN Append(wire[Other[c]], m) ELSE wire[Other[c]]
  PROVE  /\ w \in Seq(Sendable(Other[c]))
         /\ open[Other[c]] => HandshakeFirst(w, completed[Other[c]])
         /\ open[Other[c]] /\ IdsFit(c) => Story(w, HasMapping(Other[c]), said)
<1> DEFINE o == Other[c]
<1>1. o \in Clients /\ Other[o] = c
  BY Ends
<1>2. wire[o] \in Seq(Sendable(o)) /\ (open[o] => HandshakeFirst(wire[o], completed[o]))
  BY <1>1 DEF IInv, WireInv
<1>3. completed[o] \in BOOLEAN /\ HasMapping(o) \in BOOLEAN /\ Says(c) \in BOOLEAN
  BY <1>1 DEF IInv, TypeOK, HasMapping, Says, Running
<1> HIDE DEF o
<1>4. CASE open[o]
  <2>1. w = Append(wire[o], m)
    BY <1>4 DEF o
  <2>2. w \in Seq(Sendable(o))
    <3>1. m \in Sendable(o)
      BY DEF o
    <3>2. Append(wire[o], m) \in Seq(Sendable(o))
      BY <1>2, <3>1
    <3> QED BY <2>1, <3>2
  <2>3. HandshakeFirst(w, completed[o])
    BY <1>2, <1>3, <1>4, <2>1, FirstAppend DEF o
  <2>4. ASSUME IdsFit(c)
        PROVE  Story(w, HasMapping(o), said)
    <3>1. PICK a \in BOOLEAN : Story(wire[o], HasMapping(o), a) /\ (a <=> Says(c))
      BY <1>1, <1>4, <2>4 DEF IInv, StoryInv
    <3>2. Follows(a, m, said)
      BY <1>3, <2>4, <3>1
    <3> QED BY <1>2, <1>3, <2>1, <3>1, <3>2, StoryAppend DEF o
  <2> QED BY <2>2, <2>3, <2>4 DEF o
<1>5. CASE ~open[o]
  BY <1>2, <1>5 DEF o
<1> QED BY <1>4, <1>5

\* The end that reads.
LEMMA TakeEffect ==
  ASSUME IInv, NEW c \in Clients, open[c], wire[c] # << >>
  PROVE  /\ Tail(wire[c]) \in Seq(Sendable(c))
         /\ Head(wire[c]) \in Sendable(c)
         /\ HandshakeFirst(Tail(wire[c]), TRUE)
         /\ Head(wire[c]).kind = "handshake" <=> ~completed[c]
         /\ IdsFit(Other[c]) =>
              \E x \in BOOLEAN, a \in BOOLEAN :
                /\ Follows(HasMapping(c), Head(wire[c]), x)
                /\ Story(Tail(wire[c]), x, a)
                /\ open[Other[c]] => (a <=> Says(Other[c]))
<1>1. /\ wire[c] \in Seq(Sendable(c)) /\ HandshakeFirst(wire[c], completed[c])
      /\ completed[c] \in BOOLEAN /\ HasMapping(c) \in BOOLEAN
  BY DEF IInv, WireInv, TypeOK, HasMapping
<1>2. Tail(wire[c]) \in Seq(Sendable(c))
  BY <1>1
<1>3. /\ HandshakeFirst(Tail(wire[c]), TRUE)
      /\ Head(wire[c]) \in Sendable(c)
      /\ Head(wire[c]).kind = "handshake" <=> ~completed[c]
  <2> DEFINE w == wire[c]
             done == completed[c]
             S == Sendable(c)
  <2>1. w \in Seq(S) /\ w # << >> /\ done \in BOOLEAN /\ HandshakeFirst(w, done)
    BY <1>1
  <2> HIDE DEF w, done, S
  <2>2. HandshakeFirst(Tail(w), TRUE) /\ Head(w) \in S /\ (Head(w).kind = "handshake" <=> ~done)
    BY <2>1, FirstTail
  <2> QED BY <2>2 DEF w, done, S
<1>4. ASSUME IdsFit(Other[c])
      PROVE  \E x \in BOOLEAN, a \in BOOLEAN :
               /\ Follows(HasMapping(c), Head(wire[c]), x)
               /\ Story(Tail(wire[c]), x, a)
               /\ open[Other[c]] => (a <=> Says(Other[c]))
  <2>1. PICK a \in BOOLEAN : /\ Story(wire[c], HasMapping(c), a)
                             /\ open[Other[c]] => (a <=> Says(Other[c]))
    BY <1>4 DEF IInv, StoryInv
  <2>2. \E x \in BOOLEAN : /\ Follows(HasMapping(c), Head(wire[c]), x)
                           /\ Story(Tail(wire[c]), x, a)
    BY <1>1, <2>1, StoryTail
  <2> QED BY <2>1, <2>2
<1> QED BY <1>2, <1>3, <1>4

\* What remains to be shown of a step, one end and one direction at a time.
LEMMA Assemble ==
  ASSUME IInv, start' = start,
         open' \in [Clients -> BOOLEAN], completed' \in [Clients -> BOOLEAN],
         session' \in [Clients -> {"unset", "stopped", "started", "paused"}],
         member' \in [Clients -> BOOLEAN],
         peerMapping' \in [Clients -> [Messages -> Byte] \cup {EmptyMapping}],
         payment' \in [Clients -> {"unknown", "supported", "not_supported"}],
         sendUninstall' \in [Clients -> BOOLEAN],
         wire' \in [Clients -> Seq(Traffic)],
         \A d \in Clients : EndInv(d)' /\ WireInv(d)' /\ StoryInv(d)'
  PROVE  IInv'
<1>1. start \in [Clients -> MinimumMessageIds]
  BY DEF IInv, TypeOK
<1> QED BY <1>1 DEF IInv, TypeOK, Traffic

\* What is on the wire after c wrote m, took a message, or did both.
LEMMA WireIs ==
  ASSUME IInv, NEW c \in Clients, NEW m \in Traffic
  PROVE  /\ Written(c, m) \in [Clients -> Seq(Traffic)]
         /\ Written(c, m)[c] = wire[c]
         /\ Written(c, m)[Other[c]] =
              IF open[Other[c]] THEN Append(wire[Other[c]], m) ELSE wire[Other[c]]
<1>1. wire \in [Clients -> Seq(Traffic)]
  BY DEF IInv, TypeOK
<1>2. Other[c] \in Clients /\ Other[c] # c
  BY Ends
<1>3. Append(wire[Other[c]], m) \in Seq(Traffic)
  BY <1>1, <1>2
<1> QED BY <1>1, <1>2, <1>3 DEF Written

LEMMA WireTaken ==
  ASSUME IInv, NEW c \in Clients, wire[c] # << >>
  PROVE  /\ Taken(c) \in [Clients -> Seq(Traffic)]
         /\ Taken(c)[c] = Tail(wire[c])
         /\ Taken(c)[Other[c]] = wire[Other[c]]
<1>1. wire \in [Clients -> Seq(Traffic)]
  BY DEF IInv, TypeOK
<1>2. Other[c] \in Clients /\ Other[c] # c
  BY Ends
<1>3. Tail(wire[c]) \in Seq(Traffic)
  BY <1>1
<1> QED BY <1>1, <1>2, <1>3 DEF Taken

\* A step that leaves the wire, and what each end has said, as they are.
LEMMA QuietKeeps ==
  ASSUME IInv, UNCHANGED <<start, open, completed, peerMapping, payment, wire>>,
         session' \in [Clients -> {"unset", "stopped", "started", "paused"}],
         member' \in [Clients -> BOOLEAN], sendUninstall' \in [Clients -> BOOLEAN],
         \A d \in Clients : EndInv(d)' /\ (Says(d)' <=> Says(d))
  PROVE  IInv'
<1>1. wire' \in [Clients -> Seq(Traffic)]
  BY DEF IInv, TypeOK
<1>2. ASSUME NEW d \in Clients
      PROVE  WireInv(d)' /\ StoryInv(d)'
  <2>1. WireInv(d) /\ StoryInv(d)
    BY DEF IInv
  <2>2. Other[d] \in Clients
    BY Ends
  <2>3. IdsFit(Other[d])' <=> IdsFit(Other[d])
    BY <2>2, Fixed
  <2>4. Says(Other[d])' <=> Says(Other[d])
    BY <2>2
  <2>5. HasMapping(d)' = HasMapping(d) /\ Sendable(d)' = Sendable(d)
    BY Fixed DEF HasMapping
  <2>6. WireInv(d)'
    BY <2>1, <2>5 DEF WireInv
  <2>7. StoryInv(d)'
    BY <2>1, <2>2, <2>3, <2>4, <2>5 DEF StoryInv
  <2> QED BY <2>6, <2>7
<1>3. /\ open' \in [Clients -> BOOLEAN] /\ completed' \in [Clients -> BOOLEAN]
      /\ peerMapping' \in [Clients -> [Messages -> Byte] \cup {EmptyMapping}]
      /\ payment' \in [Clients -> {"unknown", "supported", "not_supported"}]
  BY DEF IInv, TypeOK
<1> QED BY <1>1, <1>2, <1>3, Assemble

\* A step in which c writes m, with which it says what its session has become.
LEMMA WriteKeeps ==
  ASSUME IInv, UNCHANGED <<start, open, completed, peerMapping, payment>>,
         session' \in [Clients -> {"unset", "stopped", "started", "paused"}],
         member' \in [Clients -> BOOLEAN], sendUninstall' \in [Clients -> BOOLEAN],
         \A d \in Clients : EndInv(d)',
         NEW c \in Clients, session'[Other[c]] = session[Other[c]],
         NEW m \in Sendable(Other[c]), m.kind # "handshake",
         open[c], IdsFit(c) => Follows(Says(c), m, Says(c)'),
         wire' = Written(c, m)
  PROVE  IInv'
<1> DEFINE o == Other[c]
<1>1. o \in Clients /\ o # c /\ Other[o] = c /\ \A d \in Clients : d = c \/ d = o
  BY Ends
<1>2. m \in Traffic
  BY SendableFacts, <1>1 DEF IInv, TypeOK
<1>3. /\ wire' \in [Clients -> Seq(Traffic)]
      /\ wire'[c] = wire[c]
      /\ wire'[o] = IF open[o] THEN Append(wire[o], m) ELSE wire[o]
  BY <1>2, WireIs
<1>4. \A d \in Clients : /\ IdsFit(d)' <=> IdsFit(d)
                         /\ Sendable(d)' = Sendable(d)
                         /\ HasMapping(d)' = HasMapping(d)
  BY Fixed DEF HasMapping
<1>5. Says(c)' \in BOOLEAN
  BY DEF Says, Running
<1>6. /\ wire'[o] \in Seq(Sendable(o))
      /\ open[o] => HandshakeFirst(wire'[o], completed[o])
      /\ open[o] /\ IdsFit(c) => Story(wire'[o], HasMapping(o), Says(c)')
  <2> DEFINE w == wire'[o]
             said == Says(c)'
  <2>1. w = IF open[o] THEN Append(wire[o], m) ELSE wire[o]
    BY <1>3
  <2>2. said \in BOOLEAN /\ (IdsFit(c) => Follows(Says(c), m, said))
    BY <1>5
  <2> HIDE DEF w, said
  <2>3. /\ w \in Seq(Sendable(o))
        /\ open[o] => HandshakeFirst(w, completed[o])
        /\ open[o] /\ IdsFit(c) => Story(w, HasMapping(o), said)
    BY <2>1, <2>2, WriteEffect
  <2> QED BY <2>3 DEF w, said
<1>7. WireInv(c)' /\ StoryInv(c)'
  <2>1. WireInv(c) /\ StoryInv(c)
    BY DEF IInv
  <2>2. Says(o)' <=> Says(o)
    BY DEF Says, Running
  <2>3. WireInv(c)'
    BY <1>3, <1>4, <2>1 DEF WireInv
  <2>4. StoryInv(c)'
    BY <1>1, <1>3, <1>4, <2>1, <2>2 DEF StoryInv
  <2> QED BY <2>3, <2>4
<1>8. WireInv(o)' /\ StoryInv(o)'
  <2>1. WireInv(o)'
    BY <1>1, <1>4, <1>6 DEF WireInv
  <2>2. StoryInv(o)'
    BY <1>1, <1>4, <1>5, <1>6 DEF StoryInv
  <2> QED BY <2>1, <2>2
<1>9. /\ open' \in [Clients -> BOOLEAN] /\ completed' \in [Clients -> BOOLEAN]
      /\ peerMapping' \in [Clients -> [Messages -> Byte] \cup {EmptyMapping}]
      /\ payment' \in [Clients -> {"unknown", "supported", "not_supported"}]
  BY DEF IInv, TypeOK
<1> QED BY <1>1, <1>3, <1>7, <1>8, <1>9, Assemble

\* A step in which c takes a message that is not a BitTorrent handshake, and makes
\* of it what it should.
LEMMA TakeKeeps ==
  ASSUME IInv, UNCHANGED <<start, open, completed, session>>,
         member' \in [Clients -> BOOLEAN], sendUninstall' \in [Clients -> BOOLEAN],
         peerMapping' \in [Clients -> [Messages -> Byte] \cup {EmptyMapping}],
         payment' \in [Clients -> {"unknown", "supported", "not_supported"}],
         \A d \in Clients : EndInv(d)',
         NEW c \in Clients, open[c], wire[c] # << >>, Head(wire[c]).kind # "handshake",
         peerMapping'[Other[c]] = peerMapping[Other[c]],
         IdsFit(Other[c]) => Follows(HasMapping(c), Head(wire[c]), HasMapping(c)'),
         wire' = Taken(c)
  PROVE  IInv'
<1> DEFINE o == Other[c]
<1>1. o \in Clients /\ o # c /\ Other[o] = c /\ \A d \in Clients : d = c \/ d = o
  BY Ends
<1>2. /\ wire' \in [Clients -> Seq(Traffic)]
      /\ wire'[c] = Tail(wire[c])
      /\ wire'[o] = wire[o]
  BY WireTaken
<1>3. /\ Tail(wire[c]) \in Seq(Sendable(c))
      /\ HandshakeFirst(Tail(wire[c]), TRUE)
      /\ completed[c] = TRUE
  <2>1. completed[c] \in BOOLEAN
    BY DEF IInv, TypeOK
  <2> QED BY <2>1, TakeEffect
<1>4. \A d \in Clients : /\ IdsFit(d)' <=> IdsFit(d)
                         /\ Sendable(d)' = Sendable(d)
                         /\ Says(d)' <=> Says(d)
  BY Fixed DEF Says, Running
<1>5. HasMapping(c) \in BOOLEAN /\ HasMapping(c)' \in BOOLEAN
  BY DEF HasMapping
<1>6. ASSUME IdsFit(o)
      PROVE  \E a \in BOOLEAN : /\ Story(Tail(wire[c]), HasMapping(c)', a)
                                /\ open[o] => (a <=> Says(o))
  <2>1. PICK x \in BOOLEAN, a \in BOOLEAN :
          /\ Follows(HasMapping(c), Head(wire[c]), x)
          /\ Story(Tail(wire[c]), x, a)
          /\ open[o] => (a <=> Says(o))
    BY <1>6, TakeEffect
  <2> DEFINE y == HasMapping(c)'
  <2>2. y \in BOOLEAN /\ Follows(HasMapping(c), Head(wire[c]), y)
    BY <1>5, <1>6
  <2> HIDE DEF y
  <2>3. x = y
    BY <1>5, <2>1, <2>2, FollowsOnce
  <2> QED BY <2>1, <2>3 DEF y
<1> HIDE DEF o
<1>7. WireInv(c)' /\ StoryInv(c)'
  <2>1. WireInv(c)'
    BY <1>2, <1>3, <1>4 DEF WireInv
  <2>2. StoryInv(c)'
    BY <1>1, <1>2, <1>4, <1>6 DEF StoryInv, o
  <2> QED BY <2>1, <2>2
<1>8. WireInv(o)' /\ StoryInv(o)'
  <2>1. WireInv(o) /\ StoryInv(o)
    BY <1>1 DEF IInv
  <2>2. WireInv(o)'
    BY <1>1, <1>2, <1>4, <2>1 DEF WireInv
  <2>3. HasMapping(o)' = HasMapping(o)
    BY DEF HasMapping, o
  <2>4. StoryInv(o)'
    BY <1>1, <1>2, <1>4, <2>1, <2>3 DEF StoryInv
  <2> QED BY <2>2, <2>4
<1>9. /\ open' \in [Clients -> BOOLEAN] /\ completed' \in [Clients -> BOOLEAN]
      /\ session' \in [Clients -> {"unset", "stopped", "started", "paused"}]
  BY DEF IInv, TypeOK
<1> QED BY <1>1, <1>2, <1>7, <1>8, <1>9, Assemble

\* A step in which the connection of c goes.
LEMMA CloseKeeps ==
  ASSUME IInv, NEW c \in Clients, Disconnected(c),
         wire' \in [Clients -> Seq(Traffic)], wire'[c] = << >>,
         wire'[Other[c]] \in Seq(Sendable(Other[c])),
         open[Other[c]] => HandshakeFirst(wire'[Other[c]], completed[Other[c]]),
         open[Other[c]] /\ IdsFit(c) =>
           \E a \in BOOLEAN : Story(wire'[Other[c]], HasMapping(Other[c]), a)
  PROVE  IInv'
<1> DEFINE o == Other[c]
<1>1. o \in Clients /\ o # c /\ Other[o] = c /\ \A d \in Clients : d = c \/ d = o
  BY Ends
<1>2. TypeOK /\ EndInv(o)
  BY <1>1 DEF IInv
<1>3. /\ ~open'[c] /\ ~completed'[c] /\ ~member'[c] /\ ~sendUninstall'[c]
      /\ peerMapping'[c] = EmptyMapping /\ payment'[c] = "unknown"
  BY <1>2 DEF TypeOK, Disconnected
<1> HIDE DEF o
<1>4. /\ open'[o] = open[o] /\ completed'[o] = completed[o] /\ member'[o] = member[o]
      /\ sendUninstall'[o] = sendUninstall[o] /\ peerMapping'[o] = peerMapping[o]
      /\ payment'[o] = payment[o]
  BY <1>1, <1>2 DEF TypeOK, Disconnected
<1>5. start' = start /\ session' = session
  BY DEF Disconnected
<1>6. \A d \in Clients : /\ IdsFit(d)' <=> IdsFit(d)
                         /\ Sendable(d)' = Sendable(d)
                         /\ ClientMapping(d)' = ClientMapping(d)
                         /\ Running(d)' <=> Running(d)
  BY <1>5, Fixed DEF Running
<1>7. ~HasMapping(c)' /\ HasMapping(o)' = HasMapping(o)
  BY <1>3, <1>4 DEF HasMapping, IsEmpty, EmptyMapping
<1>8. EndInv(c)'
  BY <1>3, <1>7 DEF EndInv
<1>9. EndInv(o)'
  BY <1>1, <1>2, <1>4, <1>6, <1>7 DEF EndInv
<1>10. WireInv(c)' /\ StoryInv(c)'
  BY <1>3 DEF WireInv, StoryInv
<1>11. WireInv(o)' /\ StoryInv(o)'
  <2>1. WireInv(o)'
    BY <1>1, <1>4, <1>6 DEF WireInv, o
  <2>2. open[o] /\ IdsFit(c) => \E a \in BOOLEAN : Story(wire'[o], HasMapping(o), a)
    BY DEF o
  <2>3. StoryInv(o)'
    BY <1>1, <1>3, <1>4, <1>6, <1>7, <2>2 DEF StoryInv
  <2> QED BY <2>1, <2>3
<1>12. /\ open' \in [Clients -> BOOLEAN] /\ completed' \in [Clients -> BOOLEAN]
       /\ session' \in [Clients -> {"unset", "stopped", "started", "paused"}]
       /\ member' \in [Clients -> BOOLEAN] /\ sendUninstall' \in [Clients -> BOOLEAN]
       /\ peerMapping' \in [Clients -> [Messages -> Byte] \cup {EmptyMapping}]
       /\ payment' \in [Clients -> {"unknown", "supported", "not_supported"}]
  BY <1>2 DEF TypeOK, Disconnected
<1> QED BY <1>1, <1>5, <1>8, <1>9, <1>10, <1>11, <1>12, Assemble

\* An end of which nothing changes but the wire.
LEMMA EndStays ==
  ASSUME IInv, start' = start, NEW d \in Clients,
         completed'[d] = completed[d], open'[d] = open[d],
         sendUninstall'[d] = sendUninstall[d], peerMapping'[d] = peerMapping[d],
         payment'[d] = payment[d], member'[d] = member[d], Running(d)' <=> Running(d)
  PROVE  EndInv(d)'
<1>1. EndInv(d) /\ Other[d] \in Clients
  BY Ends DEF IInv
<1>2. /\ IdsFit(Other[d])' <=> IdsFit(Other[d])
      /\ ClientMapping(Other[d])' = ClientMapping(Other[d])
  BY <1>1, Fixed
<1>3. HasMapping(d)' <=> HasMapping(d)
  BY DEF HasMapping
<1> QED BY <1>1, <1>2, <1>3 DEF EndInv

-----------------------------------------------------------------------------
(* The invariant holds initially, and every step keeps it.                 *)

LEMMA InitInv == Init => IInv
<1> SUFFICES ASSUME Init PROVE IInv
  OBVIOUS
<1>1. TypeOK
  BY DEF Init, TypeOK
<1>2. ASSUME NEW c \in Clients
      PROVE  EndInv(c) /\ WireInv(c) /\ StoryInv(c)
  <2>1. /\ ~open[c] /\ ~completed[c] /\ ~member[c] /\ ~sendUninstall[c]
        /\ peerMapping[c] = EmptyMapping /\ payment[c] = "unknown" /\ session[c] = "unset"
        /\ wire[c] = << >>
    BY <1>2 DEF Init
  <2>2. ~HasMapping(c)
    BY <2>1 DEF HasMapping, IsEmpty, EmptyMapping
  <2>3. EndInv(c)
    BY <2>1, <2>2 DEF EndInv, Running
  <2> QED BY <2>1, <2>3 DEF WireInv, StoryInv
<1> QED BY <1>1, <1>2 DEF IInv

\* Both ends write their BitTorrent handshakes.
LEMMA ConnectStep ==
  ASSUME IInv, Connect
  PROVE  IInv'
<1> DEFINE w == <<Handshake>>
<1>1. /\ w \in Seq(Traffic) /\ \A c \in Clients : w \in Seq(Sendable(c))
      /\ Len(w) = 1 /\ w[1] = Handshake /\ w # << >>
  BY DEF Traffic, Sendable
<1>2. HandshakeFirst(w, FALSE) /\ Handshake.kind = "handshake"
  BY <1>1 DEF HandshakeFirst, Handshake
<1>3. Story(w, FALSE, FALSE)
  <2> DEFINE h == [i \in 0 .. 1 |-> FALSE]
  <2>1. h \in [0 .. Len(w) -> BOOLEAN] /\ h[0] = FALSE /\ h[Len(w)] = FALSE /\ h[1] = FALSE
    BY <1>1
  <2>2. Follows(FALSE, Handshake, FALSE)
    BY <1>2, OthersFollow
  <2> HIDE DEF h, w
  <2>3. ASSUME NEW i \in 1 .. Len(w)
        PROVE  Follows(h[i - 1], w[i], h[i])
    <3>1. i = 1 /\ i - 1 = 0
      BY <1>1
    <3>2. h[i - 1] = FALSE /\ w[i] = Handshake /\ h[i] = FALSE
      BY <1>1, <2>1, <3>1
    <3> QED BY <2>2, <3>2
  <2> QED BY <2>1, <2>3 DEF Story
<1> HIDE DEF w
<1>4. wire' = [c \in Clients |-> w]
  BY DEF Connect, w
<1>5. /\ \A c \in Clients : ~open[c] /\ open'[c]
      /\ UNCHANGED <<start, completed, member, peerMapping, payment, sendUninstall, session>>
      /\ open' \in [Clients -> BOOLEAN]
  BY DEF Connect, peerVars
<1>6. ASSUME NEW c \in Clients
      PROVE  EndInv(c)' /\ WireInv(c)' /\ StoryInv(c)'
  <2>1. EndInv(c) /\ Other[c] \in Clients
    BY Ends DEF IInv
  <2>2. HasMapping(c) \in BOOLEAN /\ completed[c] \in BOOLEAN /\ completed[Other[c]] \in BOOLEAN
    BY <2>1 DEF IInv, TypeOK, HasMapping
  <2>3. HasMapping(c) = FALSE /\ completed[c] = FALSE /\ completed[Other[c]] = FALSE
    BY <1>5, <2>1, <2>2 DEF IInv, EndInv
  <2>4. /\ HasMapping(c)' = HasMapping(c) /\ (Running(c)' <=> Running(c))
        /\ ~Says(Other[c])' /\ Sendable(c)' = Sendable(c)
    BY <1>5, <2>3, Fixed DEF HasMapping, Running, Says
  <2>5. EndInv(c)'
    BY <1>5, <2>1, <2>3, <2>4 DEF EndInv
  <2>6. WireInv(c)'
    BY <1>1, <1>2, <1>4, <1>5, <2>3, <2>4 DEF WireInv
  <2>7. StoryInv(c)'
    BY <1>3, <1>4, <2>3, <2>4 DEF StoryInv
  <2> QED BY <2>5, <2>6, <2>7
<1>7. wire' \in [Clients -> Seq(Traffic)]
  BY <1>1, <1>4
<1>8. /\ completed' \in [Clients -> BOOLEAN]
      /\ session' \in [Clients -> {"unset", "stopped", "started", "paused"}]
      /\ member' \in [Clients -> BOOLEAN] /\ sendUninstall' \in [Clients -> BOOLEAN]
      /\ peerMapping' \in [Clients -> [Messages -> Byte] \cup {EmptyMapping}]
      /\ payment' \in [Clients -> {"unknown", "supported", "not_supported"}]
  BY <1>5 DEF IInv, TypeOK
<1> QED BY <1>5, <1>6, <1>7, <1>8, Assemble

\* A client ends the connection.
LEMMA DropStep ==
  ASSUME IInv, NEW c \in Clients, open[c], Drop(c)
  PROVE  IInv'
<1> DEFINE o == Other[c]
           w == Written(c, Closed)[o]
<1>1. o \in Clients /\ o # c
  BY Ends
<1>2. /\ Closed \in Sendable(o) /\ Closed \in Traffic /\ Closed.kind = "closed"
      /\ Says(c) \in BOOLEAN /\ TypeOK
  BY DEF Sendable, Traffic, Closed, Says, Running, IInv, TypeOK
<1>3. /\ Written(c, Closed) \in [Clients -> Seq(Traffic)]
      /\ w = IF open[o] THEN Append(wire[o], Closed) ELSE wire[o]
  BY <1>2, WireIs
<1>4. wire' \in [Clients -> Seq(Traffic)] /\ wire'[c] = << >> /\ wire'[o] = w
  <2> DEFINE v == Written(c, Closed)
  <2>1. v \in [Clients -> Seq(Traffic)] /\ wire' = [v EXCEPT ![c] = << >>]
    BY <1>3 DEF Drop
  <2> HIDE DEF v
  <2>2. wire' \in [Clients -> Seq(Traffic)] /\ wire'[c] = << >> /\ wire'[o] = v[o]
    BY <1>1, <2>1
  <2> QED BY <2>2 DEF v
<1> HIDE DEF w
<1>5. IdsFit(c) => Follows(Says(c), Closed, Says(c))
  BY <1>2, OthersFollow
<1>6. /\ w \in Seq(Sendable(o))
      /\ open[o] => HandshakeFirst(w, completed[o])
      /\ open[o] /\ IdsFit(c) => Story(w, HasMapping(o), Says(c))
  <2> DEFINE said == Says(c)
  <2>1. said \in BOOLEAN /\ (IdsFit(c) => Follows(Says(c), Closed, said))
    BY <1>2, <1>5
  <2> HIDE DEF said
  <2> QED BY <1>2, <1>3, <2>1, WriteEffect DEF said
<1>7. Disconnected(c)
  BY DEF Drop
<1>8. open[o] /\ IdsFit(c) => \E a \in BOOLEAN : Story(wire'[o], HasMapping(o), a)
  BY <1>2, <1>4, <1>6
<1> QED BY <1>4, <1>6, <1>7, <1>8, CloseKeeps

\* Or notices that it was ended.
LEMMA ReceiveClosedStep ==
  ASSUME IInv, NEW c \in Clients, ReceiveClosed(c)
  PROVE  IInv'
<1> DEFINE o == Other[c]
<1>1. o \in Clients /\ o # c /\ Other[o] = c
  BY Ends
<1>2. WireInv(o) /\ StoryInv(o) /\ TypeOK
  BY <1>1 DEF IInv
<1>3. /\ wire' \in [Clients -> Seq(Traffic)] /\ wire'[c] = << >>
      /\ wire'[o] = wire[o]
  BY <1>1, <1>2 DEF ReceiveClosed, TypeOK
<1>4. open[o] /\ IdsFit(c) => \E a \in BOOLEAN : Story(wire'[o], HasMapping(o), a)
  <2>1. open[o] /\ IdsFit(c) => \E a \in BOOLEAN : Story(wire[o], HasMapping(o), a)
    BY <1>1, <1>2 DEF StoryInv
  <2> QED BY <1>3, <2>1
<1>5. /\ wire'[o] \in Seq(Sendable(o))
      /\ open[o] => HandshakeFirst(wire'[o], completed[o])
  BY <1>2, <1>3 DEF WireInv
<1>6. Disconnected(c)
  BY DEF ReceiveClosed
<1> QED BY <1>3, <1>4, <1>5, <1>6, CloseKeeps

\* The BitTorrent handshake is answered with the extended handshake.
LEMMA HandshakeStep ==
  ASSUME IInv, NEW c \in Clients, ReceiveHandshake(c)
  PROVE  IInv'
<1> DEFINE o == Other[c]
           m == AddHandshake(c, session[c], sendUninstall[c])
<1>1. o \in Clients /\ o # c /\ Other[o] = c /\ \A d \in Clients : d = c \/ d = o
  BY Ends
<1>2. TypeOK /\ EndInv(c) /\ EndInv(o) /\ WireInv(c)
  BY <1>1 DEF IInv
<1>3. /\ open[c] /\ wire[c] # << >> /\ Head(wire[c]).kind = "handshake"
      /\ UNCHANGED <<start, open, session, member, peerMapping, payment, sendUninstall>>
  BY DEF ReceiveHandshake, Arrived, peerVars
<1>4. completed[c] = FALSE /\ sendUninstall[c] = FALSE
  <2>1. completed[c] \in BOOLEAN /\ sendUninstall[c] \in BOOLEAN
    BY <1>2 DEF TypeOK
  <2>2. ~completed[c]
    BY <1>3, TakeEffect
  <2> QED BY <1>2, <2>1, <2>2 DEF EndInv
<1>5. completed'[c] = TRUE /\ completed'[o] = completed[o] /\ completed' \in [Clients -> BOOLEAN]
  BY <1>1, <1>2 DEF ReceiveHandshake, TypeOK
<1>6. start \in [Clients -> MinimumMessageIds] /\ sendUninstall[c] \in BOOLEAN
  BY <1>2 DEF TypeOK
<1>7. /\ m \in Sendable(o) /\ m.kind # "handshake"
      /\ IdsFit(c) => Follows(FALSE, m, Running(c))
  <2>1. /\ m \in Sendable(o) /\ m.kind # "handshake"
        /\ session[c] \in {"started", "paused"} /\ IdsFit(c) => Follows(FALSE, m, TRUE)
        /\ session[c] \notin {"started", "paused"} /\ ~sendUninstall[c] =>
             Follows(FALSE, m, FALSE)
    BY <1>6, AddHandshakeFacts
  <2> HIDE DEF m
  <2>2. CASE session[c] \in {"started", "paused"}
    <3>1. Running(c) = TRUE
      BY <2>2 DEF Running
    <3> QED BY <2>1, <2>2, <3>1
  <2>3. CASE session[c] \notin {"started", "paused"}
    <3>1. Running(c) = FALSE
      BY <2>3 DEF Running
    <3> QED BY <1>4, <2>1, <2>3, <3>1
  <2> QED BY <2>1, <2>2, <2>3
<1>8. wire' = TakenAndWritten(c, m)
  BY DEF ReceiveHandshake
<1> HIDE DEF m
<1>9. m \in Traffic
  BY <1>1, <1>6, <1>7, SendableFacts
<1>10. /\ wire' \in [Clients -> Seq(Traffic)]
       /\ wire'[c] = Tail(wire[c])
       /\ wire'[o] = IF open[o] THEN Append(wire[o], m) ELSE wire[o]
  <2> DEFINE v == Written(c, m)
  <2>1. /\ v \in [Clients -> Seq(Traffic)] /\ v[c] = wire[c]
        /\ v[o] = IF open[o] THEN Append(wire[o], m) ELSE wire[o]
    BY <1>9, WireIs
  <2>2. wire' = [v EXCEPT ![c] = Tail(v[c])]
    BY <1>8 DEF TakenAndWritten
  <2> HIDE DEF v
  <2>3. Tail(v[c]) \in Seq(Traffic)
    BY <1>3, <2>1
  <2> QED BY <1>1, <2>1, <2>2, <2>3
<1>11. \A d \in Clients : /\ IdsFit(d)' <=> IdsFit(d)
                          /\ Sendable(d)' = Sendable(d)
                          /\ HasMapping(d)' = HasMapping(d)
                          /\ ClientMapping(d)' = ClientMapping(d)
                          /\ Running(d)' <=> Running(d)
  BY <1>3, Fixed DEF HasMapping, Running
<1>12. /\ Says(o)' <=> Says(o)
       /\ Says(c)' <=> Running(c)
       /\ Says(c) = FALSE
  BY <1>1, <1>4, <1>5, <1>11 DEF Says
<1>13. /\ wire'[o] \in Seq(Sendable(o))
       /\ open[o] => HandshakeFirst(wire'[o], completed[o])
       /\ open[o] /\ IdsFit(c) => Story(wire'[o], HasMapping(o), Running(c))
  <2> DEFINE w == wire'[o]
             said == Running(c)
  <2>1. w = IF open[o] THEN Append(wire[o], m) ELSE wire[o]
    BY <1>10
  <2>2. said \in BOOLEAN /\ (IdsFit(c) => Follows(Says(c), m, said))
    <3>1. Running(c) \in BOOLEAN
      BY DEF Running
    <3> QED BY <1>7, <1>12, <3>1
  <2> HIDE DEF w, said
  <2>3. /\ w \in Seq(Sendable(o))
        /\ open[o] => HandshakeFirst(w, completed[o])
        /\ open[o] /\ IdsFit(c) => Story(w, HasMapping(o), said)
    BY <1>3, <1>7, <2>1, <2>2, WriteEffect
  <2> QED BY <2>3 DEF w, said
<1> HIDE DEF o
<1>14. EndInv(c)'
  BY <1>2, <1>3, <1>4, <1>11, <1>1 DEF EndInv, o
<1>15. EndInv(o)'
  BY <1>1, <1>3, <1>5, <1>11, EndStays
<1>16. WireInv(c)' /\ StoryInv(c)'
  <2>1. /\ Tail(wire[c]) \in Seq(Sendable(c))
        /\ HandshakeFirst(Tail(wire[c]), TRUE)
    BY <1>3, TakeEffect
  <2>2. WireInv(c)'
    BY <1>5, <1>10, <1>11, <2>1 DEF WireInv
  <2>3. ASSUME IdsFit(o)
        PROVE  \E a \in BOOLEAN : /\ Story(Tail(wire[c]), HasMapping(c), a)
                                  /\ open[o] => (a <=> Says(o))
    <3>1. PICK x \in BOOLEAN, a \in BOOLEAN :
            /\ Follows(HasMapping(c), Head(wire[c]), x)
            /\ Story(Tail(wire[c]), x, a)
            /\ open[o] => (a <=> Says(o))
      BY <1>3, <2>3, TakeEffect DEF o
    <3> DEFINE y == HasMapping(c)
               head == Head(wire[c])
    <3>2. y \in BOOLEAN /\ head.kind = "handshake" /\ Follows(y, head, x)
      BY <1>3, <3>1 DEF HasMapping
    <3> HIDE DEF y, head
    <3>3. x = y
      BY <3>1, <3>2, OthersFollow, FollowsOnce
    <3> QED BY <3>1, <3>3 DEF y
  <2>4. StoryInv(c)'
    BY <1>1, <1>3, <1>10, <1>11, <1>12, <2>3 DEF StoryInv, o
  <2> QED BY <2>2, <2>4
<1>17. WireInv(o)' /\ StoryInv(o)'
  <2>1. WireInv(o)'
    BY <1>1, <1>3, <1>5, <1>11, <1>13 DEF WireInv
  <2>2. Running(c) \in BOOLEAN
    BY DEF Running
  <2>3. StoryInv(o)'
    BY <1>1, <1>3, <1>11, <1>12, <1>13, <2>2 DEF StoryInv
  <2> QED BY <2>1, <2>3
<1>18. /\ open' \in [Clients -> BOOLEAN]
       /\ session' \in [Clients -> {"unset", "stopped", "started", "paused"}]
       /\ member' \in [Clients -> BOOLEAN] /\ sendUninstall' \in [Clients -> BOOLEAN]
       /\ peerMapping' \in [Clients -> [Messages -> Byte] \cup {EmptyMapping}]
       /\ payment' \in [Clients -> {"unknown", "supported", "not_supported"}]
  BY <1>2, <1>3 DEF TypeOK
<1> QED BY <1>1, <1>3, <1>5, <1>10, <1>14, <1>15, <1>16, <1>17, <1>18, Assemble

\* What on_extension_handshake reads was written by this program.
LEMMA WhatIsRead ==
  ASSUME IInv, NEW c \in Clients, ExtendedHandshakeArrived(c)
  PROVE  /\ open[c] /\ wire[c] # << >>
         /\ Head(wire[c]).kind \notin {"handshake", "message", "other"}
         /\ Outcome(c) = "no extension" => Head(wire[c]).kind = "no extension"
         /\ Outcome(c) = "mapping" =>
              /\ Announces(Head(wire[c])) /\ ~Withdraws(Head(wire[c]))
              /\ Head(wire[c]).kind # "no extension"
              /\ IdsFit(Other[c])
              /\ Decoded(Head(wire[c]).m) = ClientMapping(Other[c])
         /\ Outcome(c) = "uninstall" =>
              /\ Withdraws(Head(wire[c])) /\ ~Announces(Head(wire[c]))
              /\ Head(wire[c]).kind # "no extension"
         /\ Outcome(c) = "invalid mapping" => ~IdsFit(Other[c])
         /\ Outcome(c) \in {"no extension", "mapping", "uninstall", "invalid mapping"}
<1> DEFINE head == Head(wire[c])
           o == Other[c]
<1>1. /\ open[c] /\ wire[c] # << >>
      /\ head.kind = "no extension" \/ head.kind = "extended handshake"
  BY DEF ExtendedHandshakeArrived, Arrived
<1>2. start \in [Clients -> MinimumMessageIds] /\ o \in Clients
  BY Ends DEF IInv, TypeOK
<1>3. head \in Sendable(c)
  BY <1>1, TakeEffect
<1>4. head.kind = "extended handshake" => head.m = Withdrawal \/ head.m = Announcement(o)
  BY <1>2, <1>3, SendableFacts
<1>5. /\ Decoded(Announcement(o)) = ClientMapping(o)
      /\ IdsFit(o) <=> Problem(Announcement(o)) = "none"
      /\ Problem(Withdrawal) = "UninstallMappingFound"
  BY <1>2, Understanding
<1> QED BY <1>1, <1>4, <1>5 DEF Outcome, Announces, Withdraws

\* The peer's mapping is stored.
LEMMA MappingStep ==
  ASSUME IInv, NEW c \in Clients, ReceiveMapping(c)
  PROVE  IInv'
<1> DEFINE o == Other[c]
           head == Head(wire[c])
<1>1. o \in Clients /\ o # c /\ Other[o] = c /\ \A d \in Clients : d = c \/ d = o
  BY Ends
<1>2. TypeOK /\ EndInv(c)
  BY DEF IInv
<1>3. /\ open[c] /\ wire[c] # << >> /\ head.kind # "handshake"
      /\ Announces(head) /\ ~Withdraws(head) /\ head.kind # "no extension"
      /\ IdsFit(o) /\ Decoded(head.m) = ClientMapping(o)
  BY WhatIsRead DEF ReceiveMapping
<1>4. ~HasMapping(c)
  BY DEF ReceiveMapping, Violates
<1>5. /\ UNCHANGED <<start, open, completed, session, sendUninstall>>
      /\ wire' = Taken(c)
      /\ peerMapping'[c] = ClientMapping(o) /\ peerMapping'[o] = peerMapping[o]
      /\ payment'[c] = "supported" /\ payment'[o] = payment[o]
      /\ member'[c] = Running(c) /\ member'[o] = member[o]
  BY <1>1, <1>2, <1>3 DEF ReceiveMapping, TypeOK
<1>6. /\ ClientMapping(o) \in [Messages -> Byte] /\ 0 \in Messages
      /\ Running(c) \in BOOLEAN
  BY <1>1, <1>2, Understanding, ByteFacts DEF TypeOK, Running
<1>7. /\ member' \in [Clients -> BOOLEAN]
      /\ peerMapping' \in [Clients -> [Messages -> Byte] \cup {EmptyMapping}]
      /\ payment' \in [Clients -> {"unknown", "supported", "not_supported"}]
  BY <1>2, <1>3, <1>6 DEF ReceiveMapping, TypeOK
<1> HIDE DEF o, head
<1>8. HasMapping(c)'
  <2> DEFINE f == ClientMapping(o)
  <2>1. f \in [Messages -> Byte] /\ 0 \in Messages
    BY <1>6
  <2> HIDE DEF f
  <2>2. DOMAIN f # {}
    BY <2>1
  <2> QED BY <1>5, <2>2 DEF HasMapping, IsEmpty, f
<1>9. \A d \in Clients : /\ IdsFit(d)' <=> IdsFit(d)
                         /\ ClientMapping(d)' = ClientMapping(d)
                         /\ Running(d)' <=> Running(d)
  BY <1>5, Fixed DEF Running
<1>10. EndInv(c)'
  BY <1>1, <1>2, <1>3, <1>5, <1>8, <1>9 DEF EndInv, o
<1>11. EndInv(o)'
  BY <1>1, <1>5, <1>9, EndStays
<1>12. Follows(HasMapping(c), head, HasMapping(c)')
  <2> DEFINE y == HasMapping(c)'
             x == HasMapping(c)
  <2>1. y = TRUE /\ x = FALSE
    BY <1>4, <1>8 DEF HasMapping
  <2> HIDE DEF x, y
  <2>2. Follows(x, head, y)
    BY <1>3, <2>1 DEF Follows
  <2> QED BY <2>2 DEF x, y
<1>13. sendUninstall' \in [Clients -> BOOLEAN]
  BY <1>2, <1>5 DEF TypeOK
<1> QED BY <1>1, <1>3, <1>5, <1>7, <1>10, <1>11, <1>12, <1>13, TakeKeeps DEF o, head

\* Or it is not there, is taken back, or is refused.
LEMMA NoMappingStep ==
  ASSUME IInv, NEW c \in Clients, ReceiveNoMapping(c)
  PROVE  IInv'
<1> DEFINE o == Other[c]
           head == Head(wire[c])
<1>1. o \in Clients /\ o # c /\ Other[o] = c /\ \A d \in Clients : d = c \/ d = o
  BY Ends
<1>2. TypeOK /\ EndInv(c)
  BY DEF IInv
<1>3. /\ open[c] /\ wire[c] # << >> /\ head.kind # "handshake"
      /\ Outcome(c) = "no extension" => head.kind = "no extension"
      /\ Outcome(c) = "uninstall" =>
           Withdraws(head) /\ ~Announces(head) /\ head.kind # "no extension"
      /\ Outcome(c) = "invalid mapping" => ~IdsFit(o)
      /\ Outcome(c) \in {"no extension", "uninstall", "invalid mapping"}
  BY WhatIsRead DEF ReceiveNoMapping
<1>4. IF Outcome(c) = "uninstall" THEN HasMapping(c)
      ELSE Outcome(c) = "no extension" => ~HasMapping(c)
  BY DEF ReceiveNoMapping, Violates
<1>5. /\ UNCHANGED <<start, open, completed, session, sendUninstall>>
      /\ wire' = Taken(c)
      /\ peerMapping'[c] = EmptyMapping /\ peerMapping'[o] = peerMapping[o]
      /\ payment'[c] = "not_supported" /\ payment'[o] = payment[o]
      /\ member'[c] = (member[c] /\ Outcome(c) # "uninstall") /\ member'[o] = member[o]
  BY <1>1, <1>2 DEF ReceiveNoMapping, TypeOK
<1>6. /\ member' \in [Clients -> BOOLEAN]
      /\ peerMapping' \in [Clients -> [Messages -> Byte] \cup {EmptyMapping}]
      /\ payment' \in [Clients -> {"unknown", "supported", "not_supported"}]
      /\ sendUninstall' \in [Clients -> BOOLEAN]
  BY <1>2 DEF ReceiveNoMapping, TypeOK
<1> HIDE DEF o, head
<1>7. ~HasMapping(c)'
  BY <1>5 DEF HasMapping, IsEmpty, EmptyMapping
<1>8. \A d \in Clients : /\ IdsFit(d)' <=> IdsFit(d)
                         /\ Running(d)' <=> Running(d)
  BY <1>5, Fixed DEF Running
<1>9. ~member'[c]
  <2>1. member[c] => HasMapping(c) /\ IdsFit(o)
    BY <1>2 DEF EndInv, o
  <2>2. member[c] => Outcome(c) = "uninstall"
    BY <1>3, <1>4, <2>1
  <2> QED BY <1>5, <2>2
<1>10. EndInv(c)'
  BY <1>2, <1>3, <1>5, <1>7, <1>9 DEF EndInv
<1>11. EndInv(o)'
  BY <1>1, <1>5, <1>8, EndStays
<1>12. IdsFit(o) => Follows(HasMapping(c), head, HasMapping(c)')
  <2> DEFINE y == HasMapping(c)'
             x == HasMapping(c)
  <2>1. y = FALSE /\ x \in BOOLEAN /\ (IF Outcome(c) = "uninstall" THEN x
                                       ELSE Outcome(c) = "no extension" => ~x)
    BY <1>4, <1>7 DEF HasMapping
  <2>2. head.kind = "no extension" => ~Announces(head) /\ ~Withdraws(head)
    BY DEF Announces, Withdraws
  <2> HIDE DEF x, y
  <2>3. IdsFit(o) => Follows(x, head, y)
    BY <1>3, <2>1, <2>2 DEF Follows
  <2> QED BY <2>3 DEF x, y
<1> QED BY <1>1, <1>3, <1>5, <1>6, <1>10, <1>11, <1>12, TakeKeeps DEF o, head

\* A message of this extension, or of another plugin, is taken.
LEMMA MessageStep ==
  ASSUME IInv, NEW c \in Clients, ReceiveMessage(c)
  PROVE  IInv'
<1>1. /\ open[c] /\ wire[c] # << >>
      /\ Head(wire[c]).kind \notin {"handshake", "extended handshake", "no extension"}
      /\ wire' = Taken(c)
      /\ UNCHANGED <<start, open, completed, member, peerMapping, payment, sendUninstall, session>>
  BY DEF ReceiveMessage, Arrived, connectionVars, peerVars
<1>2. \A d \in Clients : EndInv(d)'
  <2>1. \A d \in Clients : Running(d)' <=> Running(d)
    BY <1>1 DEF Running
  <2> QED BY <1>1, <2>1, EndStays
<1>3. HasMapping(c) \in BOOLEAN /\ HasMapping(c)' = HasMapping(c)
  BY <1>1 DEF HasMapping
<1>4. Follows(HasMapping(c), Head(wire[c]), HasMapping(c)')
  <2>1. Follows(HasMapping(c), Head(wire[c]), HasMapping(c))
    BY <1>1, <1>3, OthersFollow
  <2> QED BY <1>3, <2>1
<1>5. /\ member' \in [Clients -> BOOLEAN] /\ sendUninstall' \in [Clients -> BOOLEAN]
      /\ peerMapping' \in [Clients -> [Messages -> Byte] \cup {EmptyMapping}]
      /\ payment' \in [Clients -> {"unknown", "supported", "not_supported"}]
      /\ peerMapping'[Other[c]] = peerMapping[Other[c]]
  BY <1>1 DEF IInv, TypeOK
<1> QED BY <1>1, <1>2, <1>4, <1>5, TakeKeeps

\* A client sends for its session, or another plugin of it sends.
LEMMA SendStep ==
  ASSUME IInv, NEW c \in Clients, NEW m \in Sendable(Other[c]),
         m.kind \in {"message", "other"}, open[c], wire' = Written(c, m),
         UNCHANGED <<start, connectionVars, session>>
  PROVE  IInv'
<1>1. UNCHANGED <<start, open, completed, member, peerMapping, payment, sendUninstall, session>>
  BY DEF connectionVars, peerVars
<1>2. \A d \in Clients : EndInv(d)'
  <2>1. \A d \in Clients : Running(d)' <=> Running(d)
    BY <1>1 DEF Running
  <2> QED BY <1>1, <2>1, EndStays
<1>3. Follows(Says(c), m, Says(c)')
  <2>1. Says(c) \in BOOLEAN /\ Says(c)' = Says(c)
    BY <1>1 DEF Says, Running
  <2>2. Follows(Says(c), m, Says(c))
    BY <2>1, OthersFollow
  <2> QED BY <2>1, <2>2
<1>4. /\ session' \in [Clients -> {"unset", "stopped", "started", "paused"}]
      /\ member' \in [Clients -> BOOLEAN] /\ sendUninstall' \in [Clients -> BOOLEAN]
      /\ session'[Other[c]] = session[Other[c]] /\ m.kind # "handshake"
  BY <1>1 DEF IInv, TypeOK
<1> QED BY <1>1, <1>2, <1>3, <1>4, WriteKeeps

\* What is sent carries the id the other end announced, or one below its ids.
LEMMA SendsStep ==
  ASSUME IInv, NEW c \in Clients
  PROVE  /\ \A m \in Messages : Send(c, m) => IInv'
         /\ \A id \in OtherIds : SendOther(c, id) => IInv'
<1>1. EndInv(c) /\ Other[c] \in Clients
  BY Ends DEF IInv
<1>2. ASSUME NEW m \in Messages, Send(c, m)
      PROVE  IInv'
  <2> DEFINE x == ExtendedMessage(Id(ClientMapping(Other[c]), m), m)
  <2>1. HasMapping(c) /\ peerMapping[c] = ClientMapping(Other[c])
    BY <1>1, <1>2 DEF Send, EndInv
  <2>2. open[c]
    BY <1>1, <2>1 DEF EndInv
  <2>3. wire' = Written(c, x) /\ UNCHANGED <<start, connectionVars, session>>
    BY <1>2, <2>1 DEF Send
  <2>4. x \in Sendable(Other[c]) /\ x.kind = "message"
    BY DEF Sendable, ExtendedMessage
  <2> HIDE DEF x
  <2> QED BY <2>2, <2>3, <2>4, SendStep
<1>3. ASSUME NEW id \in OtherIds, SendOther(c, id)
      PROVE  IInv'
  <2> DEFINE x == OtherMessage(id)
  <2>1. open[c]
    BY <1>1, <1>3 DEF SendOther, EndInv
  <2>2. wire' = Written(c, x) /\ UNCHANGED <<start, connectionVars, session>>
    BY <1>3 DEF SendOther
  <2>3. x \in Sendable(Other[c]) /\ x.kind = "other"
    BY <1>3 DEF SendOther, Sendable, OtherMessage
  <2> HIDE DEF x
  <2> QED BY <2>1, <2>2, <2>3, SendStep
<1> QED BY <1>2, <1>3

\* Requests that write nothing.
LEMMA QuietRequests ==
  ASSUME IInv, NEW c \in Clients,
         ToObserveMode(c) \/ Resume(c) \/ Pause(c) \/ StopRefused(c)
  PROVE  IInv'
<1>1. TypeOK
  BY DEF IInv
<1>2. /\ UNCHANGED <<start, open, completed, member, peerMapping, payment, wire>>
      /\ session' \in [Clients -> {"unset", "stopped", "started", "paused"}]
      /\ sendUninstall' \in [Clients -> BOOLEAN]
  BY <1>1 DEF ToObserveMode, Resume, Pause, StopRefused, connectionVars, peerVars, TypeOK
<1>3. ASSUME NEW d \in Clients
      PROVE  Running(d)' <=> Running(d)
  BY <1>1 DEF ToObserveMode, Resume, Pause, StopRefused, Running, TypeOK
<1>4. ASSUME NEW d \in Clients
      PROVE  ~completed[d] => ~sendUninstall'[d]
  <2>1. ~completed[d] => ~sendUninstall[d]
    BY DEF IInv, EndInv
  <2> QED BY <1>1, <2>1 DEF ToObserveMode, Resume, Pause, StopRefused, connectionVars,
                            peerVars, TypeOK
<1>5. ASSUME NEW d \in Clients
      PROVE  EndInv(d)' /\ (Says(d)' <=> Says(d))
  <2>1. EndInv(d) /\ Other[d] \in Clients
    BY Ends DEF IInv
  <2>2. /\ IdsFit(Other[d])' <=> IdsFit(Other[d])
        /\ ClientMapping(Other[d])' = ClientMapping(Other[d])
    BY <1>2, <2>1, Fixed
  <2>3. HasMapping(d)' <=> HasMapping(d)
    BY <1>2 DEF HasMapping
  <2>4. EndInv(d)'
    BY <1>2, <1>3, <1>4, <2>1, <2>2, <2>3 DEF EndInv
  <2> QED BY <1>2, <1>3, <2>4 DEF Says
<1>6. member' \in [Clients -> BOOLEAN]
  BY <1>1, <1>2 DEF TypeOK
<1> QED BY <1>2, <1>5, <1>6, QuietKeeps

\* start() and stop(): what the client says of itself changes with its session,
\* and is written if the BitTorrent handshake is over.
LEMMA StartStopKeeps ==
  ASSUME IInv, NEW c \in Clients, NEW u \in BOOLEAN, NEW s \in {"started", "stopped"},
         UNCHANGED <<start, open, completed, peerMapping, payment>>,
         session' = [session EXCEPT ![c] = s],
         member' \in [Clients -> BOOLEAN], sendUninstall' \in [Clients -> BOOLEAN],
         member'[Other[c]] = member[Other[c]],
         sendUninstall'[Other[c]] = sendUninstall[Other[c]],
         ~completed[c] => ~sendUninstall'[c],
         member'[c] <=> s = "started" /\ HasMapping(c),
         s = "started" => ~Running(c),
         s = "stopped" => Running(c) /\ u,
         wire' = IF completed[c] THEN Written(c, AddHandshake(c, s, u)) ELSE wire
  PROVE  IInv'
<1> DEFINE o == Other[c]
<1>1. o \in Clients /\ o # c /\ Other[o] = c /\ \A d \in Clients : d = c \/ d = o
  BY Ends
<1>2. TypeOK /\ EndInv(c)
  BY DEF IInv
<1>3. /\ session'[c] = s /\ session'[o] = session[o]
      /\ session' \in [Clients -> {"unset", "stopped", "started", "paused"}]
  BY <1>1, <1>2 DEF TypeOK
<1>4. /\ Running(c)' <=> s = "started"
      /\ Running(o)' <=> Running(o)
  BY <1>3 DEF Running
<1> HIDE DEF o
<1>5. EndInv(c)'
  <2>1. /\ IdsFit(o)' <=> IdsFit(o)
        /\ ClientMapping(o)' = ClientMapping(o)
    BY <1>1, Fixed
  <2>2. HasMapping(c)' <=> HasMapping(c)
    BY DEF HasMapping
  <2> QED BY <1>2, <1>4, <2>1, <2>2 DEF EndInv, o
<1>6. EndInv(o)'
  BY <1>1, <1>4, EndStays DEF o
<1>7. CASE ~completed[c]
  <2>1. \A d \in Clients : EndInv(d)' /\ (Says(d)' <=> Says(d))
    BY <1>1, <1>4, <1>5, <1>6, <1>7 DEF Says
  <2>2. UNCHANGED <<start, open, completed, peerMapping, payment, wire>>
    BY <1>7
  <2> QED BY <1>3, <2>1, <2>2, QuietKeeps
<1>8. CASE completed[c]
  <2> DEFINE x == AddHandshake(c, s, u)
  <2>1. open[c] /\ start \in [Clients -> MinimumMessageIds]
    BY <1>2, <1>8 DEF EndInv, TypeOK
  <2>2. wire' = Written(c, x)
    BY <1>8
  <2>3. /\ x \in Sendable(o) /\ x.kind # "handshake"
        /\ s = "started" /\ IdsFit(c) => Follows(FALSE, x, TRUE)
        /\ s = "stopped" /\ u => Follows(TRUE, x, FALSE)
    BY <2>1, AddHandshakeFacts DEF o
  <2> HIDE DEF x
  <2>4. IdsFit(c) => Follows(Says(c), x, Says(c)')
    <3> DEFINE before == Says(c)
               after == Says(c)'
    <3>1. before = (s = "stopped") /\ after = (s = "started")
      <4>1. completed[c] = TRUE /\ completed'[c] = TRUE
        BY <1>2, <1>8 DEF TypeOK
      <4> QED BY <1>4, <4>1 DEF Says
    <3> HIDE DEF before, after
    <3>2. IdsFit(c) => Follows(before, x, after)
      <4>1. CASE s = "started"
        <5>1. before = FALSE /\ after = TRUE
          BY <3>1, <4>1
        <5> QED BY <2>3, <4>1, <5>1
      <4>2. CASE s = "stopped"
        <5>1. before = TRUE /\ after = FALSE
          BY <3>1, <4>2
        <5> QED BY <2>3, <4>2, <5>1
      <4> QED BY <4>1, <4>2
    <3> QED BY <3>2 DEF before, after
  <2>5. \A d \in Clients : EndInv(d)'
    BY <1>1, <1>5, <1>6
  <2> QED BY <1>3, <2>1, <2>2, <2>3, <2>4, <2>5, WriteKeeps DEF o
<1> QED BY <1>7, <1>8

LEMMA StartStep ==
  ASSUME IInv, NEW c \in Clients, Start(c)
  PROVE  IInv'
<1>1. TypeOK /\ EndInv(c) /\ Other[c] \in Clients /\ Other[c] # c
  BY Ends DEF IInv
<1>2. /\ UNCHANGED <<start, open, completed, peerMapping, payment, sendUninstall>>
      /\ session' = [session EXCEPT ![c] = "started"]
      /\ wire' = IF completed[c] THEN Written(c, AddHandshake(c, "started", sendUninstall[c]))
                 ELSE wire
      /\ ~Running(c)
  BY DEF Start, peerVars, Running
<1>3. /\ sendUninstall[c] \in BOOLEAN /\ sendUninstall' \in [Clients -> BOOLEAN]
      /\ member' \in [Clients -> BOOLEAN] /\ member'[Other[c]] = member[Other[c]]
      /\ member'[c] <=> payment[c] = "supported"
  BY <1>1 DEF Start, peerVars, TypeOK
<1>4. /\ member'[c] <=> "started" = "started" /\ HasMapping(c)
      /\ ~completed[c] => ~sendUninstall'[c]
  BY <1>1, <1>2, <1>3 DEF EndInv
<1> QED BY <1>2, <1>3, <1>4, StartStopKeeps

LEMMA StopStep ==
  ASSUME IInv, NEW c \in Clients, Stop(c)
  PROVE  IInv'
<1>1. TypeOK /\ EndInv(c) /\ Other[c] \in Clients /\ Other[c] # c
  BY Ends DEF IInv
<1>2. /\ UNCHANGED <<start, open, completed, peerMapping, payment>>
      /\ session' = [session EXCEPT ![c] = "stopped"]
      /\ wire' = IF completed[c] THEN Written(c, AddHandshake(c, "stopped", TRUE)) ELSE wire
      /\ Running(c)
  BY DEF Stop
<1>3. /\ sendUninstall' \in [Clients -> BOOLEAN] /\ member' \in [Clients -> BOOLEAN]
      /\ member'[Other[c]] = member[Other[c]] /\ ~member'[c]
      /\ sendUninstall'[Other[c]] = sendUninstall[Other[c]]
      /\ ~completed[c] => ~sendUninstall'[c]
  BY <1>1 DEF Stop, TypeOK, EndInv
<1>4. member'[c] <=> "stopped" = "started" /\ HasMapping(c)
  BY <1>3
<1> QED BY <1>2, <1>3, <1>4, StartStopKeeps

\* Nothing happens.
LEMMA StutterStep ==
  ASSUME IInv, UNCHANGED vars
  PROVE  IInv'
<1>1. /\ UNCHANGED <<start, open, completed, member, peerMapping, payment, sendUninstall,
                     session, wire>>
  BY DEF vars, connectionVars, peerVars
<1>2. \A d \in Clients : EndInv(d)' /\ (Says(d)' <=> Says(d))
  <2>1. \A d \in Clients : Running(d)' <=> Running(d)
    BY <1>1 DEF Running
  <2> QED BY <1>1, <2>1, EndStays DEF Says
<1>3. /\ session' \in [Clients -> {"unset", "stopped", "started", "paused"}]
      /\ member' \in [Clients -> BOOLEAN] /\ sendUninstall' \in [Clients -> BOOLEAN]
  BY <1>1 DEF IInv, TypeOK
<1> QED BY <1>1, <1>2, <1>3, QuietKeeps

LEMMA NextInv ==
  ASSUME IInv, [Next]_vars
  PROVE  IInv'
<1>1. CASE Connect
  BY <1>1, ConnectStep
<1>2. ASSUME NEW c \in Clients, Receive(c)
      PROVE  IInv'
  <2>1. CASE ReceiveClosed(c)
    BY <2>1, ReceiveClosedStep
  <2>2. CASE ReceiveHandshake(c)
    BY <2>2, HandshakeStep
  <2>3. CASE ReceiveViolation(c)
    <3>1. open[c] /\ Drop(c)
      BY <2>3 DEF ReceiveViolation, ExtendedHandshakeArrived, Arrived
    <3> QED BY <3>1, DropStep
  <2>4. CASE ReceiveMapping(c)
    BY <2>4, MappingStep
  <2>5. CASE ReceiveNoMapping(c)
    BY <2>5, NoMappingStep
  <2>6. CASE ReceiveMessage(c)
    BY <2>6, MessageStep
  <2> QED BY <1>2, <2>1, <2>2, <2>3, <2>4, <2>5, <2>6 DEF Receive
<1>3. ASSUME NEW c \in Clients, Request(c)
      PROVE  IInv'
  BY <1>3, QuietRequests, StartStep, StopStep DEF Request
<1>4. ASSUME NEW c \in Clients, Close(c)
      PROVE  IInv'
  BY <1>4, DropStep DEF Close
<1>5. ASSUME NEW c \in Clients, \/ \E m \in Messages : Send(c, m)
                                \/ \E id \in OtherIds : SendOther(c, id)
      PROVE  IInv'
  BY <1>5, SendsStep
<1>6. CASE UNCHANGED vars
  BY <1>6, StutterStep
<1> QED BY <1>1, <1>2, <1>3, <1>4, <1>5, <1>6 DEF Next

-----------------------------------------------------------------------------
(* What follows from it.                                                   *)

\* The invariant holds: what is on its way to a client always leads from what it
\* holds to what the other end has said last.
THEOREM StoriesAgree == Spec => []IInv
<1>1. Init => IInv
  BY InitInv
<1>2. IInv /\ [Next]_vars => IInv'
  BY NextInv
<1> QED BY <1>1, <1>2, PTL DEF Spec

\* Type correctness: what is on the wire is what this program writes.
THEOREM TypeCorrect == Spec => []TypeOK
<1>1. IInv => TypeOK
  BY DEF IInv
<1> QED BY <1>1, StoriesAgree, PTL

\* on_extension_handshake never drops a peer that is this program and whose ids
\* fit, however starts, stops and handshakes crossed.
THEOREM NeverDropped == Spec => []NeverDroppedForHandshake
<1>1. ASSUME IInv, NEW c \in Clients, ExtendedHandshakeArrived(c), IdsFit(Other[c])
      PROVE  ~Violates(c)
  <2>1. /\ open[c] /\ wire[c] # << >>
        /\ Outcome(c) = "no extension" => Head(wire[c]).kind = "no extension"
        /\ Outcome(c) = "mapping" => Announces(Head(wire[c]))
        /\ Outcome(c) = "uninstall" => Withdraws(Head(wire[c]))
    BY <1>1, WhatIsRead
  <2>2. \E x \in BOOLEAN : Follows(HasMapping(c), Head(wire[c]), x)
    BY <1>1, <2>1, TakeEffect
  <2> QED BY <2>1, <2>2 DEF Follows, Violates
<1>2. IInv => NeverDroppedForHandshake
  BY <1>1 DEF NeverDroppedForHandshake
<1> QED BY <1>2, StoriesAgree, PTL

\* Once nothing is on its way the two ends agree who is in whose session.
THEOREM QuietAgree == Spec => []QuietEndsAgree
<1>1. ASSUME IInv, \A c \in Clients : open[c] /\ wire[c] = << >>, NEW c \in Clients
      PROVE  /\ HasMapping(c) <=> Running(Other[c]) /\ IdsFit(Other[c])
             /\ member[c] <=> Running(c) /\ HasMapping(c)
  <2> DEFINE o == Other[c]
  <2>1. o \in Clients /\ EndInv(c) /\ StoryInv(c) /\ WireInv(o)
    BY <1>1, Ends DEF IInv
  <2>2. open[c] /\ open[o] /\ wire[c] = << >> /\ wire[o] = << >>
    BY <1>1, <2>1
  <2>3. completed[o]
    BY <2>1, <2>2 DEF WireInv, HandshakeFirst
  <2>4. IdsFit(o) => (HasMapping(c) <=> Running(o))
    <3>1. SUFFICES ASSUME IdsFit(o) PROVE HasMapping(c) <=> Running(o)
      OBVIOUS
    <3>2. PICK a \in BOOLEAN : Story(<< >>, HasMapping(c), a) /\ (a <=> Says(o))
      BY <2>1, <2>2, <3>1 DEF StoryInv
    <3>3. HasMapping(c) \in BOOLEAN
      BY DEF HasMapping
    <3>4. HasMapping(c) = a
      BY <3>2, <3>3, StoryEmpty
    <3> QED BY <2>3, <3>2, <3>4 DEF Says
  <2> QED BY <2>1, <2>4 DEF EndInv
<1>2. IInv => QuietEndsAgree
  BY <1>1 DEF QuietEndsAgree
<1> QED BY <1>2, StoriesAgree, PTL

\* Ids that fit into a byte are not below the minimum message id.
LEMMA IdsAreNotBelow ==
  ASSUME start \in [Clients -> MinimumMessageIds], NEW c \in Clients,
         MinimumMessageIds \subseteq 1 .. 255, IdsFit(c), NEW m \in Messages
  PROVE  Id(ClientMapping(c), m) >= start[c]
<1> DEFINE s == start[c]
<1>1. s \in 1 .. 255 /\ m \in Nat
  BY ByteFacts
<1>2. \A n \in Messages : ClientMapping(c)[n] = Uint8(Uint8(s) + n)
  BY DEF ClientMapping, ConsecutiveIdsStartingAt
<1> HIDE DEF s
<1>3. \A n \in Messages : Uint8(Uint8(s) + n) # 0
  BY <1>2 DEF IdsFit, Id
<1>4. \A x \in 0 .. 255 : x % 256 = x
  OBVIOUS
<1>5. Uint8(s) = s
  BY <1>1, <1>4 DEF Uint8
<1>6. s + m <= 255
  <2>1. ASSUME s + m > 255
        PROVE  FALSE
    <3> DEFINE n == 256 - s
    <3>1. n \in Nat /\ n <= m
      BY <1>1, <2>1
    <3>2. n \in Messages
      <4> HIDE DEF n
      <4> QED BY <3>1, NumMessagesAssumption DEF Messages
    <3>3. s + n = 256
      BY <1>1
    <3> HIDE DEF n
    <3>4. Uint8(Uint8(s) + n) = 0
      BY <1>5, <3>3 DEF Uint8
    <3> QED BY <1>3, <3>2, <3>4
  <2> QED BY <1>1, <2>1
<1>7. (s + m) % 256 = s + m
  BY <1>1, <1>4, <1>6
<1>8. ClientMapping(c)[m] = s + m
  BY <1>2, <1>5, <1>7 DEF Uint8
<1> QED BY <1>1, <1>8 DEF Id, s

\* Between clients with the same minimum message id, which is a byte, a message is
\* decoded as what was sent, even by an end whose knowledge of the sender is newer
\* than the message; and none of another plugin is decoded.
THEOREM Decodes ==
  MinimumMessageIds \subseteq 1 .. 255 => (Spec => []DecodedAsSent)
<1> SUFFICES ASSUME MinimumMessageIds \subseteq 1 .. 255
             PROVE  Spec => []DecodedAsSent
  OBVIOUS
<1>1. ASSUME IInv, SameIds, NEW c \in Clients
      PROVE  /\ Arrived(c, "message") =>
                  TakenFor(c, Head(wire[c]).id) = {m \in {Head(wire[c]).sent} : member[c]}
             /\ Arrived(c, "other") => TakenFor(c, Head(wire[c]).id) = {}
  <2>1. TypeOK /\ EndInv(c) /\ Other[c] \in Clients
    BY <1>1, Ends DEF IInv
  <2>2. start \in [Clients -> MinimumMessageIds] /\ start[c] = start[Other[c]]
    BY <1>1, <2>1 DEF TypeOK, SameIds
  <2>3. ASSUME member[c]
        PROVE  /\ IdsFit(c) /\ peerMapping[c] = ClientMapping(c)
               /\ \A id : TakenFor(c, id) = WithId(ClientMapping(c), id)
    <3>1. Running(c) /\ HasMapping(c) /\ payment[c] = "supported"
      BY <2>1, <2>3 DEF EndInv
    <3>2. IdsFit(Other[c]) /\ peerMapping[c] = ClientMapping(Other[c])
      BY <2>1, <3>1 DEF EndInv
    <3>3. ClientMapping(Other[c]) = ClientMapping(c)
      BY <2>2 DEF ClientMapping
    <3> QED BY <2>3, <3>1, <3>2, <3>3 DEF IdsFit, TakenFor, Running
  <2>4. ~member[c] => \A id : TakenFor(c, id) = {}
    BY DEF TakenFor
  <2>5. ASSUME Arrived(c, "message")
        PROVE  TakenFor(c, Head(wire[c]).id) = {m \in {Head(wire[c]).sent} : member[c]}
    <3> DEFINE sent == Head(wire[c]).sent
               id == Head(wire[c]).id
    <3>1. sent \in Messages /\ id = Id(ClientMapping(c), sent)
      <4>1. Head(wire[c]) \in Sendable(c) /\ Head(wire[c]).kind = "message"
        BY <1>1, <2>5, TakeEffect DEF Arrived
      <4> QED BY <2>2, <4>1, SendableFacts
    <3> HIDE DEF sent, id
    <3>2. CASE member[c]
      <4>1. /\ TakenFor(c, id) = WithId(ClientMapping(c), id)
            /\ ClientMapping(c) \in [Messages -> Byte]
        BY <2>2, <2>3, <3>2, Understanding
      <4>2. \A m \in Messages : ClientMapping(c)[m] = ClientMapping(c)[sent] => m = sent
        <5>1. start[c] \in Nat
          BY <2>2, MinimumAssumption
        <5> QED BY <3>1, <5>1, ConsecutiveInjective DEF ClientMapping
      <4>3. WithId(ClientMapping(c), id) = {sent}
        BY <3>1, <4>1, <4>2 DEF WithId, Id
      <4> QED BY <3>2, <4>1, <4>3 DEF id, sent
    <3>3. CASE ~member[c]
      BY <2>4, <3>3 DEF id, sent
    <3> QED BY <3>2, <3>3
  <2>6. ASSUME Arrived(c, "other")
        PROVE  TakenFor(c, Head(wire[c]).id) = {}
    <3> DEFINE id == Head(wire[c]).id
    <3>1. id \in Int /\ start[c] \in Int /\ id < start[c]
      <4>1. Head(wire[c]) \in Sendable(c) /\ Head(wire[c]).kind = "other"
        BY <1>1, <2>6, TakeEffect DEF Arrived
      <4>2. id \in OtherIds /\ id < start[c]
        BY <2>2, <4>1, SendableFacts
      <4>3. start[c] \in 1 .. 255
        BY <2>2
      <4> HIDE DEF id
      <4> QED BY <4>2, <4>3, OtherIdsAssumption
    <3> HIDE DEF id
    <3>2. CASE member[c]
      <4>1. /\ TakenFor(c, id) = WithId(ClientMapping(c), id)
            /\ ClientMapping(c) \in [Messages -> Byte]
        BY <2>2, <2>3, <3>2, Understanding
      <4>2. \A m \in Messages : ClientMapping(c)[m] >= start[c]
        BY <2>2, <2>3, <3>2, IdsAreNotBelow DEF Id
      <4>3. \A m \in Messages : ClientMapping(c)[m] \in Int
        BY <4>1 DEF Byte
      <4>4. id \notin {ClientMapping(c)[m] : m \in Messages}
        BY <2>2, <3>1, <4>2, <4>3
      <4>5. WithId(ClientMapping(c), id) = {}
        BY <4>1, <4>4 DEF WithId
      <4> QED BY <4>1, <4>5 DEF id
    <3>3. CASE ~member[c]
      BY <2>4, <3>3 DEF id
    <3> QED BY <3>2, <3>3
  <2> QED BY <2>5, <2>6
<1>2. IInv => DecodedAsSent
  BY <1>1 DEF DecodedAsSent
<1> QED BY <1>2, StoriesAgree, PTL

-----------------------------------------------------------------------------
(* Each end t implements TorrentPlugin.  What t does is a step of its      *)
(* handlers; what the other client does, and every message, is none.       *)

\* A client has heard nothing before it has completed the BitTorrent handshake.
FreshInv == \A c \in Clients : ~completed[c] => payment[c] = "unknown"

\* An extended handshake is read only after the BitTorrent handshake, and that
\* one only once.
LEMMA HandshakesInOrder ==
  ASSUME IInv, NEW c \in Clients
  PROVE  /\ ExtendedHandshakeArrived(c) => completed[c]
         /\ Arrived(c, "handshake") => ~completed[c]
<1>1. ASSUME Arrived(c, "handshake") \/ ExtendedHandshakeArrived(c)
      PROVE  Head(wire[c]).kind = "handshake" <=> ~completed[c]
  <2>1. /\ open[c] /\ wire[c] # << >> /\ wire[c] \in Seq(Traffic)
        /\ HandshakeFirst(wire[c], completed[c])
    BY <1>1 DEF ExtendedHandshakeArrived, Arrived, IInv, WireInv, TypeOK
  <2>2. 1 \in 1 .. Len(wire[c]) /\ Head(wire[c]) = wire[c][1]
    BY <2>1
  <2> QED BY <2>1, <2>2 DEF HandshakeFirst
<1> QED BY <1>1 DEF ExtendedHandshakeArrived, Arrived

LEMMA FreshStep ==
  ASSUME IInv, FreshInv, [Next]_vars
  PROVE  FreshInv'
<1> USE DEF IInv, TypeOK, FreshInv
<1>1. ASSUME NEW c \in Clients, Disconnected(c)
      PROVE  FreshInv'
  BY <1>1 DEF Disconnected
<1>2. ASSUME NEW c \in Clients, ReceiveHandshake(c)
      PROVE  FreshInv'
  BY <1>2 DEF ReceiveHandshake, peerVars
<1>3. ASSUME NEW c \in Clients, ReceiveMapping(c) \/ ReceiveNoMapping(c)
      PROVE  FreshInv'
  <2>1. completed[c]
    BY <1>3, HandshakesInOrder DEF ReceiveMapping, ReceiveNoMapping
  <2>2. completed' = completed /\ \A d \in Clients : d # c => payment'[d] = payment[d]
    BY <1>3 DEF ReceiveMapping, ReceiveNoMapping
  <2> QED BY <2>1, <2>2
<1>4. CASE completed' = completed /\ payment' = payment
  BY <1>4
<1>5. CASE Connect \/ UNCHANGED vars
  BY <1>4, <1>5 DEF Connect, vars, connectionVars, peerVars
<1>6. ASSUME NEW c \in Clients, Request(c)
      PROVE  completed' = completed /\ payment' = payment
  BY <1>6 DEF Request, ToObserveMode, Start, Resume, Pause, Stop, StopRefused,
              connectionVars, peerVars
<1>7. ASSUME NEW c \in Clients,
             \/ ReceiveMessage(c)
             \/ \E m \in Messages : Send(c, m)
             \/ \E id \in OtherIds : SendOther(c, id)
      PROVE  completed' = completed /\ payment' = payment
  BY <1>7 DEF ReceiveMessage, Send, SendOther, connectionVars, peerVars
<1>8. ASSUME NEW c \in Clients, ReceiveClosed(c) \/ ReceiveViolation(c) \/ Close(c)
      PROVE  FreshInv'
  BY <1>1, <1>8 DEF ReceiveClosed, ReceiveViolation, Close, Drop
<1> QED BY <1>2, <1>3, <1>4, <1>5, <1>6, <1>7, <1>8 DEF Next, Receive

\* A client and its peer, which is not "none".
LEMMA ThisEnd ==
  ASSUME NEW t \in Clients
  PROVE  /\ Other[t] # t
         /\ Other[t] # "none"
         /\ \A c \in Clients : c = t \/ c = Other[t]
BY Ends, NoneAssumption

\* A function of one peer is what it is of that peer.
LEMMA OneFacts ==
  ASSUME NEW t
  PROVE  \A v : One(t, v)[Other[t]] = v
BY DEF One

\* What a TorrentPlugin sees of a client.
EndView(t) ==
  <<open[t], completed[t], session[t], member[t],
    HasMapping(t), payment[t], sendUninstall[t]>>

LEMMA SameView ==
  ASSUME NEW t \in Clients, UNCHANGED EndView(t)
  PROVE  UNCHANGED End(t)!vars
<1>1. /\ open'[t] = open[t] /\ completed'[t] = completed[t] /\ session'[t] = session[t]
      /\ member'[t] = member[t] /\ HasMapping(t)' = HasMapping(t)
      /\ payment'[t] = payment[t] /\ sendUninstall'[t] = sendUninstall[t]
  BY DEF EndView
<1> QED
  BY <1>1 DEF End!vars, End!peerVars, End!indexVars, End!sessionVars, End!loadVars,
              End!banVars, One, Running

LEMMA InitImplements ==
  ASSUME NEW t \in Clients, Init
  PROVE  End(t)!Init
<1>1. /\ ~open[t] /\ ~completed[t] /\ session[t] = "unset"
      /\ member[t] = FALSE /\ payment[t] = "unknown"
      /\ sendUninstall[t] = FALSE /\ peerMapping[t] = EmptyMapping
  BY ThisEnd DEF Init
<1>2. HasMapping(t) = FALSE
  BY <1>1 DEF HasMapping, IsEmpty, EmptyMapping
<1>3. << >> = [i \in {} |-> 0]
  OBVIOUS
<1> QED BY <1>1, <1>2, <1>3 DEF End!Init, End!PeerInit, One

\* new_connection makes a plugin as it is constructed.
LEMMA ConnectImplements ==
  ASSUME NEW t \in Clients, IInv, FreshInv, Connect
  PROVE  End(t)!NewConnection(Other[t])
<1>1. /\ open[t] = FALSE /\ open'[t] = TRUE /\ session'[t] = session[t]
      /\ UNCHANGED <<completed, member, payment, sendUninstall, peerMapping>>
  BY ThisEnd DEF Connect, peerVars, IInv, TypeOK
<1>2. /\ completed[t] = FALSE /\ member[t] = FALSE /\ HasMapping(t) = FALSE
      /\ payment[t] = "unknown" /\ sendUninstall[t] = FALSE
  BY <1>1, ThisEnd DEF IInv, TypeOK, EndInv, FreshInv, HasMapping
<1>3. HasMapping(t)' = HasMapping(t)
  BY <1>1 DEF HasMapping
<1> QED
  BY <1>1, <1>2, <1>3
     DEF End!NewConnection, End!Running, End!Constructed, End!sessionVars,
         End!loadVars, End!banVars, One, Running

\* However the connection ends, on_disconnect is called.
LEMMA DisconnectedImplements ==
  ASSUME NEW t \in Clients, IInv, FreshInv, open[t], Disconnected(t)
  PROVE  End(t)!OnDisconnect(Other[t])
<1>1. /\ open'[t] = FALSE /\ completed'[t] = FALSE /\ member'[t] = FALSE
      /\ payment'[t] = "unknown" /\ sendUninstall'[t] = FALSE
      /\ peerMapping'[t] = EmptyMapping /\ session'[t] = session[t]
  BY ThisEnd DEF Disconnected, IInv, TypeOK
<1>2. HasMapping(t)' = FALSE
  BY <1>1 DEF HasMapping, IsEmpty, EmptyMapping
<1>3. /\ ~completed[t] => member[t] = FALSE
      /\ session[t] = "unset" => member[t] = FALSE
  <2>1. TypeOK /\ EndInv(t)
    BY DEF IInv
  <2> QED BY <2>1 DEF TypeOK, EndInv, Running, FreshInv
<1>4. CASE ~completed[t]
  BY <1>1, <1>2, <1>3, <1>4, ThisEnd
     DEF End!OnDisconnect, End!PeerDisconnected, End!Running, End!Constructed,
         End!sessionVars, End!loadVars, End!banVars, One, Running
<1>5. CASE completed[t]
  BY <1>1, <1>2, <1>3, <1>5, ThisEnd
     DEF End!OnDisconnect, End!PeerDisconnected, End!Running, End!Constructed,
         End!RemoveFromSession, End!PeerInSession, End!PeerHasCompletedHandshake,
         End!LeaveSession, End!sessionVars, End!loadVars, End!banVars, One, Running
<1> QED BY <1>4, <1>5

\* The full mappings the peer was sent, less the uninstall mappings.
Told(t) == IF completed[t] /\ Running(t) THEN 1 ELSE 0

\* add_handshake, called on the plugin of the peer or on none.
LEMMA AddHandshakeImplements ==
  ASSUME NEW t \in Clients, NEW flag \in BOOLEAN, NEW s, NEW plugins,
         Told(t)' = IF Other[t] \notin plugins THEN Told(t)
                    ELSE IF s # "stopped" THEN Told(t) + 1
                    ELSE IF flag THEN Told(t) - 1 ELSE Told(t),
         sendUninstall'[t] = (flag /\ ~(s = "stopped" /\ Other[t] \in plugins))
  PROVE  End(t)!AddHandshake(plugins, One(t, flag), s)
<1> DEFINE told == One(t, Told(t))
           due == One(t, sendUninstall[t])
<1>1. /\ One(t, flag)[Other[t]] = flag /\ told[Other[t]] = Told(t)
      /\ told' = [e \in {Other[t]} |-> Told(t)']
      /\ due' = [e \in {Other[t]} |-> sendUninstall'[t]]
  BY OneFacts DEF One
<1>2. told' = [e \in {Other[t]} |->
        IF e \notin plugins THEN told[e]
        ELSE IF s # "stopped" THEN told[e] + 1
        ELSE IF One(t, flag)[e] THEN told[e] - 1 ELSE told[e]]
  BY <1>1
<1>3. due' = [e \in {Other[t]} |-> One(t, flag)[e] /\ ~(s = "stopped" /\ e \in plugins)]
  BY <1>1
<1>4. CASE s = "stopped"
  <2>1. told' = [e \in {Other[t]} |->
          IF e \in plugins /\ One(t, flag)[e] THEN told[e] - 1 ELSE told[e]]
    BY <1>2, <1>4
  <2>2. due' = [e \in {Other[t]} |-> One(t, flag)[e] /\ e \notin plugins]
    BY <1>3, <1>4
  <2> QED BY <1>4, <2>1, <2>2 DEF End!AddHandshake, Told
<1>5. CASE s # "stopped"
  <2>1. told' = [e \in {Other[t]} |-> IF e \in plugins THEN told[e] + 1 ELSE told[e]]
    BY <1>2, <1>5
  <2>2. due' = One(t, flag)
    BY <1>1, <1>3, <1>5 DEF One
  <2> QED BY <1>5, <2>1, <2>2 DEF End!AddHandshake, Told
<1> QED BY <1>4, <1>5

\* on_handshake, and the extended handshake libtorrent writes after it.
LEMMA HandshakeImplements ==
  ASSUME NEW t \in Clients, IInv, FreshInv, ReceiveHandshake(t)
  PROVE  End(t)!OnHandshake(Other[t], Other[t], TRUE)
<1>1. /\ open[t] /\ completed[t] = FALSE /\ completed'[t] = TRUE
      /\ UNCHANGED <<open, session, member, payment, sendUninstall, peerMapping>>
  BY ThisEnd, HandshakesInOrder DEF ReceiveHandshake, Arrived, peerVars, IInv, TypeOK
<1>2. sendUninstall[t] = FALSE
  BY <1>1, ThisEnd DEF IInv, TypeOK, EndInv
<1>3. HasMapping(t)' = HasMapping(t)
  BY <1>1 DEF HasMapping
<1>4. session[t] \in {"unset", "stopped", "started", "paused"}
  BY ThisEnd DEF IInv, TypeOK
<1>5. End(t)!AddHandshake({x \in {Other[t]} : TRUE}, One(t, sendUninstall[t]),
                       IF session[t] = "unset" THEN "stopped" ELSE session[t])
  <2> DEFINE s == IF session[t] = "unset" THEN "stopped" ELSE session[t]
             plugins == {x \in {Other[t]} : TRUE}
  <2>1. Told(t)' = IF s # "stopped" THEN Told(t) + 1 ELSE Told(t)
    BY <1>1, <1>4 DEF Told, Running
  <2>2. Other[t] \in plugins
    OBVIOUS
  <2>3. sendUninstall[t] \in BOOLEAN /\ ~sendUninstall[t] /\ sendUninstall'[t] = FALSE
    BY <1>1, <1>2
  <2> HIDE DEF s, plugins
  <2>4. End(t)!AddHandshake(plugins, One(t, sendUninstall[t]), s)
    BY <2>1, <2>2, <2>3, AddHandshakeImplements
  <2> QED BY <2>4 DEF s, plugins
<1> QED
  BY <1>1, <1>2, <1>3, <1>5, ThisEnd
     DEF End!OnHandshake, End!CompleteHandshake, End!IsPeerBanned,
         End!Running, End!sessionVars, End!loadVars, End!banVars, One, Running

\* A mapping is installed, and the peer joins a session that runs.
LEMMA MappingImplements ==
  ASSUME NEW t \in Clients, IInv, IInv', FreshInv, ReceiveMapping(t)
  PROVE  End(t)!InstallPeerMapping(Other[t])
<1>1. /\ open[t] /\ completed[t] /\ ~HasMapping(t)
      /\ payment'[t] = "supported" /\ member'[t] = Running(t)
      /\ UNCHANGED <<open, completed, session, sendUninstall>>
  <2>1. ExtendedHandshakeArrived(t) /\ ~HasMapping(t)
    BY DEF ReceiveMapping, Violates
  <2>2. open[t] /\ completed[t]
    BY <2>1, ThisEnd, HandshakesInOrder DEF ExtendedHandshakeArrived, Arrived
  <2>3. payment'[t] = "supported" /\ member'[t] = Running(t)
    BY ThisEnd DEF ReceiveMapping, IInv, TypeOK
  <2> QED BY <2>1, <2>2, <2>3 DEF ReceiveMapping
<1>2. HasMapping(t) = FALSE /\ HasMapping(t)' = TRUE /\ member[t] = FALSE
  BY <1>1, ThisEnd DEF IInv, TypeOK, EndInv, HasMapping
<1>3. session[t] \in {"unset", "stopped", "started", "paused"}
  BY ThisEnd DEF IInv, TypeOK
<1> QED
  BY <1>1, <1>2, <1>3, ThisEnd
     DEF End!InstallPeerMapping, End!InstallMappingAndJoin, End!Open,
         End!ViolatesHandshakeProtocol, End!AddToSessionAsserts,
         End!PeerHasCompletedHandshake, End!PeerInSession, End!Running,
         End!indexVars, End!loadVars, End!banVars, One, Running

\* No mapping is installed after anything else the peer may say.
LEMMA NoMappingImplements ==
  ASSUME NEW t \in Clients, IInv, IInv', FreshInv, ReceiveNoMapping(t)
  PROVE  \/ End(t)!PeerWithoutExtension(Other[t])
         \/ End(t)!UninstallPeerMapping(Other[t])
         \/ End(t)!DiscardPeerMapping(Other[t])
<1>1. /\ open[t] /\ completed[t]
      /\ payment'[t] = "not_supported" /\ HasMapping(t)' = FALSE
      /\ UNCHANGED <<open, completed, session, sendUninstall>>
  <2>1. open[t] /\ completed[t]
    BY ThisEnd, HandshakesInOrder
       DEF ReceiveNoMapping, ExtendedHandshakeArrived, Arrived
  <2>2. payment'[t] = "not_supported" /\ peerMapping'[t] = EmptyMapping
    BY ThisEnd DEF ReceiveNoMapping, IInv, TypeOK
  <2>3. HasMapping(t)' = FALSE
    BY <2>2 DEF HasMapping, IsEmpty, EmptyMapping
  <2> QED BY <2>1, <2>2, <2>3 DEF ReceiveNoMapping
<1>2. /\ Outcome(t) = "uninstall" => member'[t] = FALSE
      /\ Outcome(t) # "uninstall" => member'[t] = member[t]
      /\ member[t] \in BOOLEAN /\ HasMapping(t) \in BOOLEAN
      /\ member[t] => session[t] # "unset"
  <2>1. TypeOK /\ EndInv(t)
    BY DEF IInv
  <2>2. HasMapping(t) \in BOOLEAN
    BY DEF HasMapping
  <2> QED BY <2>1, <2>2 DEF ReceiveNoMapping, TypeOK, EndInv, Running
<1>3. CASE Outcome(t) = "no extension"
  <2>1. HasMapping(t) = FALSE /\ member'[t] = member[t]
    BY <1>2, <1>3 DEF ReceiveNoMapping, Violates
  <2> QED
    BY <1>1, <2>1
       DEF End!PeerWithoutExtension, End!Open, End!ViolatesHandshakeProtocol,
           End!Running, End!indexVars, End!sessionVars, End!loadVars, End!banVars,
           One, Running
<1>4. CASE Outcome(t) = "uninstall"
  <2>1. HasMapping(t) = TRUE /\ member'[t] = FALSE
    BY <1>2, <1>4 DEF ReceiveNoMapping, Violates
  <2>2. End(t)!RemoveFromSession(Other[t])
    BY <1>1, <1>2, <2>1, ThisEnd
       DEF End!RemoveFromSession, End!PeerInSession, End!PeerHasCompletedHandshake,
           End!LeaveSession, One
  <2> QED
    BY <1>1, <2>1, <2>2
       DEF End!UninstallPeerMapping, End!Open, End!ViolatesHandshakeProtocol,
           End!Running, End!indexVars, End!loadVars, End!banVars, One, Running
<1>5. CASE Outcome(t) \notin {"no extension", "uninstall"}
  <2>1. member'[t] = member[t]
    BY <1>2, <1>5
  <2> QED
    BY <1>1, <2>1
       DEF End!DiscardPeerMapping, End!Open, End!Running, End!indexVars,
           End!sessionVars, End!loadVars, End!banVars, One, Running
<1> QED BY <1>3, <1>4, <1>5

\* The completed peers on which an extended handshake is written.
LEMMA EndPeers ==
  ASSUME NEW t \in Clients
  PROVE  /\ End(t)!CompletedPeers = {p \in {Other[t]} : completed[t]}
         /\ End(t)!BEP10Peers = {p \in {Other[t]} : completed[t]}
<1>1. End(t)!CompletedPeers = {p \in {Other[t]} : completed[t]}
  BY ThisEnd DEF End!CompletedPeers, One
<1> QED BY <1>1 DEF End!BEP10Peers, One

\* start() of a stopped session.
LEMMA StartImplements ==
  ASSUME NEW t \in Clients, IInv, FreshInv, Start(t)
  PROVE  End(t)!Start
<1> DEFINE joining == {p \in {Other[t]} : completed[t] /\ payment[t] = "supported"}
<1>1. /\ session[t] = "stopped" /\ session'[t] = "started"
      /\ member'[t] = (payment[t] = "supported")
      /\ UNCHANGED <<open, completed, payment, sendUninstall, peerMapping>>
  BY ThisEnd DEF Start, peerVars, IInv, TypeOK
<1>2. /\ sendUninstall[t] \in BOOLEAN /\ member[t] = FALSE
      /\ ~completed[t] => payment[t] = "unknown"
  <2>1. TypeOK /\ EndInv(t)
    BY DEF IInv
  <2> QED BY <1>1, <2>1 DEF TypeOK, EndInv, Running, FreshInv
<1>3. HasMapping(t)' = HasMapping(t)
  BY <1>1 DEF HasMapping
<1>4. End(t)!AddHandshake(End(t)!BEP10Peers, One(t, sendUninstall[t]), "started")
  <2>1. Told(t)' = IF Other[t] \notin End(t)!BEP10Peers THEN Told(t) ELSE Told(t) + 1
    BY <1>1, EndPeers DEF Told, Running
  <2>2. sendUninstall'[t] = sendUninstall[t]
    BY <1>1
  <2> QED BY <1>2, <2>1, <2>2, AddHandshakeImplements
<1>5. {p \in {Other[t]} : member[t]}' = {p \in {Other[t]} : member[t]} \cup joining
  BY <1>1, <1>2
<1> DEFINE known == One(t, IF completed[t] THEN Other[t] ELSE "none")
<1>6. {p \in {Other[t]} : /\ known[p] # "none"
                         /\ One(t, payment[t])[known[p]] = "supported"} = joining
  BY ThisEnd DEF One
<1> HIDE DEF joining
<1>7. End(t)!StartStopped(joining)
  BY <1>1, <1>3, <1>4, <1>5
     DEF End!StartStopped, End!Running, End!indexVars, End!loadVars, End!banVars, One
<1> QED BY <1>6, <1>7 DEF End!Start

\* stop() of a session that runs.
LEMMA StopImplements ==
  ASSUME NEW t \in Clients, IInv, Stop(t)
  PROVE  End(t)!Stop
<1>1. /\ session[t] \in {"started", "paused"} /\ session'[t] = "stopped"
      /\ member'[t] = FALSE
      /\ sendUninstall'[t] = (sendUninstall[t] /\ ~completed[t])
      /\ UNCHANGED <<open, completed, payment, peerMapping>>
  BY ThisEnd DEF Stop, Running, IInv, TypeOK
<1>2. HasMapping(t)' = HasMapping(t)
  BY <1>1 DEF HasMapping
<1>3. sendUninstall[t] \in BOOLEAN /\ completed[t] \in BOOLEAN
  BY ThisEnd DEF IInv, TypeOK
<1>4. End(t)!UninstallDue = One(t, sendUninstall[t] \/ completed[t])
  <2>1. \A e \in {Other[t]} : One(t, sendUninstall[t])[e] = sendUninstall[t]
    BY OneFacts
  <2>2. \A e \in {Other[t]} : e \in End(t)!CompletedPeers <=> completed[t]
    BY EndPeers
  <2> QED BY <1>3, <2>1, <2>2 DEF End!UninstallDue, One
<1>5. End(t)!AddHandshake(End(t)!BEP10Peers, End(t)!UninstallDue, "stopped")
  <2> DEFINE due == sendUninstall[t] \/ completed[t]
  <2>1. Told(t)' = IF Other[t] \notin End(t)!BEP10Peers THEN Told(t)
                   ELSE IF due THEN Told(t) - 1 ELSE Told(t)
    BY <1>1, EndPeers DEF Told, Running
  <2>2. sendUninstall'[t] =
          (due /\ ~("stopped" = "stopped" /\ Other[t] \in End(t)!BEP10Peers))
    BY <1>1, <1>3, EndPeers
  <2>3. due \in BOOLEAN
    OBVIOUS
  <2> HIDE DEF due
  <2>4. End(t)!AddHandshake(End(t)!BEP10Peers, One(t, due), "stopped")
    BY <2>1, <2>2, <2>3, AddHandshakeImplements
  <2> QED BY <1>4, <2>4 DEF due
<1> QED
  BY <1>1, <1>2, <1>5
     DEF End!Stop, End!Running, End!indexVars, End!loadVars, End!banVars, One

\* stop() of a session that does not run.
LEMMA StopRefusedImplements ==
  ASSUME NEW t \in Clients, IInv, StopRefused(t)
  PROVE  End(t)!StopRefused
<1>1. /\ session[t] \in {"unset", "stopped"}
      /\ sendUninstall'[t] = (sendUninstall[t] \/ completed[t])
      /\ UNCHANGED <<open, completed, session, member, payment, peerMapping>>
  BY ThisEnd DEF StopRefused, Running, IInv, TypeOK
<1>2. HasMapping(t)' = HasMapping(t)
  BY <1>1 DEF HasMapping
<1>3. End(t)!UninstallDue = One(t, sendUninstall[t])'
  <2>1. \A e \in {Other[t]} : One(t, sendUninstall[t])[e] = sendUninstall[t]
    BY OneFacts
  <2>2. \A e \in {Other[t]} : e \in End(t)!CompletedPeers <=> completed[t]
    BY EndPeers
  <2> QED BY <1>1, <2>1, <2>2 DEF End!UninstallDue, One
<1> QED
  BY <1>1, <1>2, <1>3
     DEF End!StopRefused, End!Running, End!indexVars, End!sessionVars, End!loadVars,
         End!banVars, One, Running

\* The requests that leave the peers alone.
LEMMA OtherRequestsImplement ==
  ASSUME NEW t \in Clients, IInv
  PROVE  /\ ToObserveMode(t) => End(t)!ToObserveMode
         /\ Resume(t) => End(t)!StartPaused
         /\ Pause(t) => End(t)!Pause
<1>1. TypeOK
  BY DEF IInv
<1>2. ToObserveMode(t) => End(t)!ToObserveMode
  BY <1>1 DEF ToObserveMode, connectionVars, peerVars, TypeOK,
              End!ToObserveMode, End!OutstandingAfterLeaving, End!Running,
              End!peerVars, End!indexVars, End!banVars, One, HasMapping, Running
<1>3. Resume(t) => End(t)!StartPaused
  BY <1>1 DEF Resume, connectionVars, peerVars, TypeOK,
              End!StartPaused, End!Running, End!peerVars, End!indexVars, End!loadVars,
              End!banVars, One, HasMapping, Running
<1>4. Pause(t) => End(t)!Pause
  BY <1>1 DEF Pause, connectionVars, peerVars, TypeOK,
              End!Pause, End!Running, End!peerVars, End!indexVars, End!loadVars,
              End!banVars, One, HasMapping, Running
<1> QED BY <1>2, <1>3, <1>4

\* Steps of the other client, and messages, are no steps of this one's plugin.
LEMMA OthersStutter ==
  ASSUME NEW t \in Clients, IInv, NEW c \in Clients,
         \/ c # t /\ (Receive(c) \/ Request(c) \/ Close(c))
         \/ ReceiveMessage(c)
         \/ \E m \in Messages : Send(c, m)
         \/ \E id \in OtherIds : SendOther(c, id)
         \/ UNCHANGED vars
  PROVE  UNCHANGED End(t)!vars
<1>1. t \in Clients /\ TypeOK
  BY ThisEnd DEF IInv
<1>2. CASE \/ ReceiveMessage(c)
           \/ \E m \in Messages : Send(c, m)
           \/ \E id \in OtherIds : SendOther(c, id)
           \/ UNCHANGED vars
  <2>1. UNCHANGED <<open, completed, session, member, peerMapping, payment, sendUninstall>>
    BY <1>2 DEF ReceiveMessage, Send, SendOther, vars, connectionVars, peerVars
  <2> QED BY <2>1, SameView DEF EndView, HasMapping
<1>3. ASSUME c # t, Receive(c) \/ Request(c) \/ Close(c)
      PROVE  UNCHANGED End(t)!vars
  <2>1. CASE Disconnected(c)
    <3>1. /\ open'[t] = open[t] /\ completed'[t] = completed[t] /\ session'[t] = session[t]
          /\ member'[t] = member[t] /\ peerMapping'[t] = peerMapping[t]
          /\ payment'[t] = payment[t] /\ sendUninstall'[t] = sendUninstall[t]
      BY <1>1, <1>3, <2>1 DEF Disconnected, TypeOK
    <3> QED BY <3>1, SameView DEF EndView, HasMapping
  <2>2. CASE ReceiveHandshake(c) \/ ReceiveMapping(c) \/ ReceiveNoMapping(c)
    <3>1. /\ open'[t] = open[t] /\ completed'[t] = completed[t] /\ session'[t] = session[t]
          /\ member'[t] = member[t] /\ peerMapping'[t] = peerMapping[t]
          /\ payment'[t] = payment[t] /\ sendUninstall'[t] = sendUninstall[t]
      BY <1>1, <1>3, <2>2
         DEF ReceiveHandshake, ReceiveMapping, ReceiveNoMapping, peerVars, TypeOK
    <3> QED BY <3>1, SameView DEF EndView, HasMapping
  <2>3. CASE Request(c)
    <3>1. /\ open'[t] = open[t] /\ completed'[t] = completed[t] /\ session'[t] = session[t]
          /\ member'[t] = member[t] /\ peerMapping'[t] = peerMapping[t]
          /\ payment'[t] = payment[t] /\ sendUninstall'[t] = sendUninstall[t]
      BY <1>1, <1>3, <2>3
         DEF Request, ToObserveMode, Start, Resume, Pause, Stop, StopRefused,
             connectionVars, peerVars, TypeOK
    <3> QED BY <3>1, SameView DEF EndView, HasMapping
  <2>4. CASE ReceiveMessage(c)
    BY <1>2, <2>4
  <2> QED
    BY <1>3, <2>1, <2>2, <2>3, <2>4
       DEF Receive, ReceiveClosed, ReceiveViolation, Close, Drop
<1> QED BY <1>2, <1>3

\* Every step is a step of the plugin of a client t, or none.
LEMMA StepImplements ==
  ASSUME NEW t \in Clients, IInv, IInv', FreshInv, [Next]_vars
  PROVE  [End(t)!Next]_(End(t)!vars)
<1>0. t \in Clients /\ Other[t] \in {Other[t]}
  BY ThisEnd
<1>1. CASE Connect
  BY <1>0, <1>1, ConnectImplements DEF End!Next, End!PeerStep
<1>2. ASSUME open[t], Disconnected(t)
      PROVE  End(t)!Next
  BY <1>0, <1>2, DisconnectedImplements DEF End!Next, End!PeerStep
<1>3. CASE Receive(t)
  <2>1. CASE ReceiveClosed(t) \/ ReceiveViolation(t)
    BY <1>2, <2>1
       DEF ReceiveClosed, ReceiveViolation, ExtendedHandshakeArrived, Arrived, Drop
  <2>2. CASE ReceiveHandshake(t)
    BY <1>0, <2>2, HandshakeImplements DEF End!Next, End!PeerStep
  <2>3. CASE ReceiveMapping(t)
    <3>1. End(t)!OnExtensionHandshake(Other[t], "mapping")
      BY <2>3, MappingImplements DEF End!OnExtensionHandshake
    <3> QED BY <1>0, <3>1 DEF End!Next, End!PeerStep
  <2>4. CASE ReceiveNoMapping(t)
    <3>1. \E h \in {"no extension", "uninstall", "invalid mapping"} :
            End(t)!OnExtensionHandshake(Other[t], h)
      BY <2>4, NoMappingImplements DEF End!OnExtensionHandshake
    <3> QED BY <1>0, <3>1 DEF End!Next, End!PeerStep
  <2>5. CASE ReceiveMessage(t)
    BY <1>0, <2>5, OthersStutter
  <2> QED BY <1>3, <2>1, <2>2, <2>3, <2>4, <2>5 DEF Receive
<1>4. CASE Request(t)
  <2>1. End(t)!Request
    BY <1>0, <1>4, StartImplements, StopImplements, StopRefusedImplements,
       OtherRequestsImplement
       DEF Request, End!Request
  <2> QED BY <2>1 DEF End!Next
<1>5. CASE Close(t)
  BY <1>2, <1>5 DEF Close, Drop
<1>6. ASSUME NEW c \in Clients,
             \/ c # t /\ (Receive(c) \/ Request(c) \/ Close(c))
             \/ \E m \in Messages : Send(c, m)
             \/ \E id \in OtherIds : SendOther(c, id)
             \/ UNCHANGED vars
      PROVE  UNCHANGED End(t)!vars
  BY <1>6, OthersStutter
<1> QED BY <1>0, <1>1, <1>3, <1>4, <1>5, <1>6 DEF Next

\* A client, and the plugin it has for the other, go through the states and steps of
\* TorrentPlugin, whatever the other client and the wire do: what is proved of that
\* module for any peer holds at each end of a connection of this program.
THEOREM EndsImplementTorrentPlugin == Spec => ImplementsTorrentPlugin
<1>1. Init => FreshInv
  BY DEF Init, FreshInv
<1>2. IInv /\ FreshInv /\ [Next]_vars => FreshInv'
  BY FreshStep
<1>3. Spec => []FreshInv
  BY <1>1, <1>2, StoriesAgree, PTL DEF Spec
<1>4. Init => \A c \in Clients : End(c)!Init
  BY InitImplements
<1>5. IInv /\ IInv' /\ FreshInv /\ [Next]_vars =>
        \A c \in Clients : [End(c)!Next]_(End(c)!vars)
  BY StepImplements
<1> QED
  BY <1>3, <1>4, <1>5, StoriesAgree, PTL DEF Spec, ImplementsTorrentPlugin

\* The same of one end: its part of the state is a behaviour of TorrentPlugin.
THEOREM EndImplementsTorrentPlugin ==
  ASSUME NEW c \in Clients
  PROVE  Spec => End(c)!Spec
<1>1. Init => FreshInv
  BY DEF Init, FreshInv
<1>2. IInv /\ FreshInv /\ [Next]_vars => FreshInv'
  BY FreshStep
<1>3. Init => End(c)!Init
  BY InitImplements
<1>4. IInv /\ IInv' /\ FreshInv /\ [Next]_vars => [End(c)!Next]_(End(c)!vars)
  BY StepImplements
<1> QED
  BY <1>1, <1>2, <1>3, <1>4, StoriesAgree, PTL DEF Spec, End!Spec

================================================================================
