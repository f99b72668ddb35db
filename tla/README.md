# A formal model of the JoyStream libtorrent extension

`extension-cpp` is a libtorrent plugin.  It adds to every torrent a *protocol session*
in which peers sell and buy pieces, and to every peer connection a plugin that
negotiates the extension and carries the session's messages as BEP10 extended
messages.  The TLA+ modules here model the parts of that plugin that have state, the
`.cfg` files check them with TLC on small instances, and eight modules hold proofs,
checked by TLAPS, that all invariants and action properties, and the safety part of both
refinements, hold for any number of peers, pieces, requests and messages.

Paths below are relative to the repository; `X.cpp` is `sources/src/X.cpp`, `X.hpp` is
`sources/include/extension/X.hpp`.

## 1. Inventory

| Component | State | Operations | Runs in |
|---|---|---|---|
| `Plugin` (Plugin.cpp) | `_requestQueue` (mutex), `_torrentPlugins` (info hash to `weak_ptr`), `_addedToSession` | `submit`, `on_tick`/`processesRequestQueue`, `new_torrent`, `on_alert`, `added` | `submit`: any client thread; the rest: libtorrent's network thread |
| `detail::RequestVariantVisitor` (detail.cpp) | none | one `operator()` per request; results are posted as alerts | network thread, from `processesRequestQueue` |
| `TorrentPlugin` (TorrentPlugin.cpp) | `_peersAwaitingHandshake`, `_peersCompletedHandshake`, `_session`, `_outstandingLoadPieceForBuyers`, `_misbehavedPeers`, `_sentMalformedExtendedMessage`, `_libtorrentInteraction` | session requests, `new_connection`, `tick`, `pieceRead`, `on_piece_pass`, callbacks of the session (among them `pickNextPiece`, `fullPieceArrived`, `loadPieceForBuyer`, `removeConnection`) | network thread |
| `PeerPlugin` (PeerPlugin.cpp) | `_undead`, `_peerMapping`, `_clientMapping`, `_sendUninstallMappingOnNextExtendedHandshake`, the two `BEPSupportStatus` | libtorrent's peer callbacks, `send`, `drop`, `writeExtensions` | network thread |
| `ExtendedMessageIdMapping`, `MessageType` | map of message types to ids | build, write, read, look up | with `PeerPlugin` |
| `ExtendedMessage` | a buffer | frame and send one message | with `PeerPlugin` |
| Requests, alerts, statuses, exceptions | data | none | |
| `Session`, `Peer`, `Torrent`, `AlertManager`, `interface/` | none | forward to libtorrent | not used by the plugins |
| `protocol_session::Session` (external) | mode, state, connections | drives the payment protocol, calls back | network thread |
| libtorrent (external) | connections, torrents, disk reads, alert queue | calls every plugin | network, disk and client threads |

How they interact.  A client submits a request to `Plugin`; the next tick takes it from
the queue and applies the visitor, which calls the `TorrentPlugin` of the torrent or
libtorrent and posts the result as an alert; the client's own thread dispatches the alert
and calls the handler in it.  libtorrent calls `TorrentPlugin::new_connection` for every
connection and then the `PeerPlugin` it returned: `on_handshake`, `add_handshake`,
`on_extension_handshake`, `on_extended`, `on_disconnect`.  A peer whose mapping is
installed is added to the session, and the session calls back into `TorrentPlugin` to
remove connections and to load pieces.  `drop()` makes libtorrent call `on_disconnect`
from inside whichever handler dropped the peer.

What is hard here.

* The session is started, stopped and paused while peers are in any stage of two
  handshakes.  Both sides must keep an alternation of mapping and uninstall mapping over
  many starts and stops, and the session must have exactly the peers with a mapping.
* Handlers re-enter each other: dropping a peer from a session callback changes the maps
  the caller looks peers up in.
* Pieces are read asynchronously, may be answered inside the call, late, for somebody
  else, or with an error, while modes change and buyers leave.
* The queue is filled by other threads while its lock is released for the processing of
  a request; results travel through a queue that drops when it is full; and a map of
  `weak_ptr`s is cleaned up by an alert that travels the same way.
* Requests may be refused with an exception halfway through.
* Two clients start and stop at once, so that mappings, uninstall mappings and messages cross on
  the wire, and a message is decoded with a mapping that changed while it travelled.
* Pieces come from sellers and from ordinary peers, and what the session knows of them is told
  by two paths, a snapshot when buying begins and `on_piece_pass` afterwards.
* Ids are bytes, `uint`s and 64 bit integers in turn.

Correctness, per component:

* *mapping*: what one client writes another reads as meant, or refuses; what is refused
  leaves nothing behind; a running client is never taken for a stopping one;
* *peers*: the two maps agree with the open connections; the session has only completed
  peers, all of those with a mapping while it runs and none while it is stopped; a peer
  has been told exactly what is so; banned endpoints stay out;
* *the connection*: two clients of this program never break the rules of the handshake to each
  other, agree once nothing is on its way, and decode what was sent;
* *selling*: every registration of a piece has a read that will answer it, and a buyer is
  left waiting only for named reasons;
* *buying*: the piece asked for is the right one and missing, the session knows what libtorrent
  has, and the download completes;
* *requests*: each is carried out once, in order, and answered once, in order; an answer
  is still true when it is delivered.

PROJECT.json lists the hazards line by line with the properties that cover them.

## 2. Modules

| Module | What it is |
|---|---|
| `ExtendedMessageIdMapping` | operators for the class of that name; no state |
| `MappingExchange` | one handshake: a client (any minimum message id, other plugins in the same dictionary) or a foreign client writes, a client reads |
| `PeerPlugin` | the variables of the peer plugins, one function per field, and the steps that touch only them (`Constructed`, `AddHandshake`) |
| `TorrentPlugin` | extends `PeerPlugin`; the maps, the session, the reads, and every handler as an action |
| `Buying` | the buying side of `TorrentPlugin`: `pickNextPiece`, what becomes of a piece that arrives, and libtorrent's own download beside it |
| `ExtensionWire` | two clients and the connection between them; composes the operators of `ExtendedMessageIdMapping` with the handlers of `PeerPlugin` and `TorrentPlugin`, and each end implements `TorrentPlugin` |
| `RequestService` | the abstract promise to a client: requests carried out once in order, handlers called once in order |
| `Plugin` | the queue, the visitor, the map of torrent plugins, the alert queue; implements `RequestService` |
| `MCMapping`, `MCTorrentPlugin`, `MCBuying`, `MCWire`, `MCPlugin` | instances for TLC |
| `NaturalLemmas` | least and greatest elements of sets of naturals, and induction over them, for the proofs |
| `MappingLemmas` | what `fromMDictionary` decides and decodes, for any dictionary |
| `TorrentPluginProofs`, `TorrentSafetyProofs`, `BuyingProofs`, `PluginProofs`, `MappingProofs`, `WireProofs` | the theorems about the module each is named after |

### State and code

`TorrentPlugin`.  A plugin is named by the endpoint of its connection, of which libtorrent
has at most one open at a time.  `awaiting` and `completed` are the two maps; `connected` is
libtorrent's view; `members` and `awaited` are the connections of the session and the buyers
it has waiting for a piece; `outstanding` is `_outstandingLoadPieceForBuyers`, and `reads`
counts the reads libtorrent has in flight.  `hasMapping` says whether `_peerMapping` is
non-empty; which ids it holds is the business of the mapping modules.  `announced` is a
history variable, the full mappings a peer was sent minus the uninstall mappings.  `aborted`
names the function whose assertion ended the process.

Each action is a whole handler, callbacks included: `Stop` sets the flags, stops the session
and has `add_handshake` called on every peer with BEP10; `RemoveConnection` is the callback
of the session with the ban, the `drop`, the `on_disconnect` inside it and the
`removeFromSession` inside that.  Where a handler can throw, the part before the throw is
an action of its own (`StopRefused`, `ToBuyModeRefused`).  A handler that fails before it
changes anything is no action.  When an assertion would fail, the action is disabled unless
`NDEBUG`, and an action in `AssertionFails` sets `aborted` instead; with `NDEBUG` the handler
does what a Release build does (`InstallPeerMappingAgain`, `PieceReadFailed`).

`Plugin`.  A step is what happens between taking and releasing the mutex, or while it is
released: `Submit`, `PopRequest`, the processing of one request, `QueueIsEmpty`.  `torrentPlugins`
has the state of each `weak_ptr` (no entry, live, expired).  `session` abstracts mode and
state of the protocol session of each torrent to the four values requests tell apart.  `alerts` is
libtorrent's queue, `popped` what the dispatching thread has taken out of it.

`Buying`.  `pieces` is the session's state of each piece, `assigned` the piece each seller was asked
for, `has` and `checking` are libtorrent's side.  `PickNextPiece` is the loop of the code as a recursive
function over the index.  `overlooked` is a history variable: pieces bought earlier that were still being
checked when the session took its snapshot of `have_piece`.  The peers themselves are the business of
`TorrentPlugin`; here a seller is in the session or not.

`ExtensionWire`.  One function per field again, over the two clients; `wire[c]` is what is on its way to
`c`.  `session` merges mode and state.  `ReceiveViolation`, `ReceiveMapping` and `ReceiveNoMapping` are
`on_extension_handshake`, split by what the handler decides; `AddHandshake` is what `add_handshake` writes.
The contents of a mapping are real here (bytes that wrap), and a message carries its id and, for the
properties only, the type that was sent.

`MappingExchange`.  A dictionary is a sequence of entries (prefix, message, value); `Receive`
is the part of `on_extension_handshake` that calls `fromMDictionary` and handles its exception.

### What is taken of libtorrent and of the session

These are assumptions about code outside this repository, read off its use here:

* `disconnect()` calls `on_disconnect` before it returns, and no handler is called afterwards
  (PeerPlugin.hpp:206-212 leaves this open; the code relies on it);
* one open connection per endpoint; another connection with the same peer id is disconnected
  before `on_handshake` (TorrentPlugin.hpp:164-168);
* after `on_handshake` libtorrent writes its extended handshake if the peer has BEP10;
* an exception that leaves a handler closes the connection (PeerPlugin.hpp:72-73);
* `emplace_alert` calls `on_alert` at once in the calling thread (TorrentPlugin.cpp:729-732),
  or drops the alert without that call when the queue is at its limit, which is doubled for
  alerts of priority 1 (the priorities of Alert.hpp:23-34 are libtorrent's);
* `read_piece` is answered by one alert, which is dropped like any other when the queue is full
  (`ReadsMayBeLost`);
* a piece is checked after its data came, `on_piece_pass` is called in the step in which `have_piece`
  becomes true, and data that was bought passes (`BoughtMayFail`, see below);
* the wire is TCP: in order, and lost only with the connection;
* the session: a mode change keeps state and connections; `start`, `stop`, `pause` and mode
  changes throw where they would change nothing; it calls `removeConnection` after it has removed
  the connection, and asks only for pieces of buyers it is
  connected with; while it buys it asks `pickNextPiece` for each seller
  that has no piece, frees the piece of a seller that leaves, and removes a seller for whose data
  `fullPieceArrived` returns false.

`TorrentPlugin` uses the default `Policy`, which `Plugin::new_torrent` always passes.

## 3. Runs

Passing runs:

| Run | Bounds | Shows |
|---|---|---|
| `Mapping` | 2 messages; clients with minimum ids 0 to 300; foreign dictionaries of up to 3 entries over {-1, 0, 1, 2, 256, 257, not an integer} | round trip for every id that fits; wrapped and truncated ids never look like an uninstall and never make two messages share an id; what is refused leaves no mapping behind |
| `Peers` | 3 endpoints, 3 peer ids, 1 piece, up to 2 reads, all handshakes, reads may fail and may be lost, Release build | the invariants of maps, session and announcements; no buyer left waiting but for the named reasons |
| `CorrectPeers` | 2 endpoints, 2 peer ids, 2 pieces, up to 2 reads each, failing reads, none lost, assertions on, no peer sends a mapping that is refused, fair | the assertions peers can break hold otherwise; no registration without a read, no buyer left waiting but for the named reasons; registrations end |
| `Wire` | 2 clients, 2 messages, minimum ids 254 (ids 254, 255) and 255 (ids 255, 0), another plugin with id 20, 3 in flight, one message of a session or another plugin at a time in each direction, Release build, fair | two clients never drop each other for a handshake, agree when the wire is quiet, decode what was sent, join if both stay started; each end implements `TorrentPlugin` |
| `Buying` | 3 pieces, 2 sellers, 2 priorities, bought data passes, fair | which piece is picked, what the session knows, what is bought twice; the download completes |
| `Requests` | 1 torrent, every kind of request, 2 requests, alert limit 2 (4 for priority 1), no alert dropped, fair | the map of torrent plugins and its assertions; `Plugin` implements `RequestService`, liveness included |
| `Answers` | 1 torrent, 3 requests that change the session, alert limit 1, alerts may be dropped | answers are current; order survives loss; the map of torrent plugins is right until the alert of a removed torrent is dropped |

Why the bounds are enough.  Peers meet only through a peer id (two endpoints and one id, or one
endpoint with two ids in turn), through the session being started or stopped, and through a piece
two buyers wait for: two of each show every meeting, a third peer shows that the others are left
alone.  Two reads of a piece are the least that can be confused (an earlier session's read, or
somebody else's, with the current one).  Two requests show every overtaking and three the
overtaking of a request submitted while another is processed; the alert limits are the
smallest at which alerts of both priorities queue up and, with `Lossy`, are dropped.
`MaxReads` and `MaxSubmits` bound counters that only grow the state space: a step they disable is
one more of the same.  Endpoints and peer ids are
symmetric in `Peers`; runs that check liveness use no symmetry.  Three pieces are the least of which one is
neither first nor last, two priorities decide every comparison, and two sellers show a piece that goes
from one to the other.  Three messages on a wire are a handshake, its extended handshake and one answer to a
stop or start that crosses them; the proofs of `WireProofs` hold for any length.  An id that fits and one that
wraps onto 0 are the two kinds of minimum id `Wire` tells apart.  Two messages
are enough for the mapping: a dictionary is judged entry by entry, and ids meet in pairs; the eleven
of the code only make the ids wrap from 246 on instead of from 255 on.  Torrents meet only in the requests
that go over all of them, which treat each alike; so one torrent shows what the map, the
queue and the alerts can do to it.

`CHECK_DEADLOCK FALSE` appears where the system stops: a mapping exchange ends after one
handshake, and a process whose assertion failed is over.

Runs that find a disagreement.  Each `Doc...` run checks one statement of a comment or assertion
and TLC's trace shows how the code comes to contradict it; PROJECT.json quotes the lines.

| Run | Statement | What happens |
|---|---|---|
| `DocSendUninstall` | PeerPlugin.hpp:253 | stop of a stopped session sets the uninstall flags and throws; start finds them set, and then the assertion at PeerPlugin.cpp:101 fails |
| `DocOnExtended` | PeerPlugin.cpp:482 | a peer whose new mapping is refused stays in the session without a mapping, and its next message meets the assertion |
| `DocConflict` | PeerPlugin.hpp:223 | ids of received messages are looked up in the mapping of the *peer* (PeerPlugin.cpp:506); with different minimum ids at the two ends, a message of another plugin, below the minimum id of the receiver, is taken for one of this extension |
| `DocBijective` | ExtendedMessageIdMapping.hpp:24 | only the number of entries and the sign of each 64 bit id are tested: a foreign dictionary with one id for two messages, or with ids that are the same byte, is installed, and messages of one type are decoded as the other |
| `DocReadLost` | TorrentPlugin.cpp:744 | a `read_piece_alert` that is dropped leaves the registration, and later buyers of the piece wait for a response that does not come |

Noticed while modelling, kept in the models and not given runs of their own:

* a refused `toBuyMode` has cleared the registrations of a session that goes on selling
  (TorrentPlugin.cpp:398), so that pieces still being read are taken for somebody else's, against the
  comment at line 239;
* a minimum id from which the ids wrap onto 0 (246 to 255 and 256 with eleven messages) is accepted by the
  constructor and announces a mapping every peer refuses; and when such a client stops, its
  uninstall mapping finds no mapping at the peer, which drops the connection.  `IdsFit` in the properties
  of `ExtensionWire` is that condition;
* a dropped `torrent_removed_alert` leaves an expired `weak_ptr` in the map, against detail.cpp:309-312;
  `MatchedUntilRemovalDropped` says that no other dropped alert does;
* after a refused mapping and then a valid one, the peer that stayed in the session is added again
  (TorrentPlugin.cpp:525 asserts that it is not there; `InstallPeerMappingAborts`);
* toSellMode while selling with a piece outstanding fails the assertion at TorrentPlugin.cpp:369
  where the session would have thrown (`ToSellModeAborts`);
* a read error ends at `assert(false)`, TorrentPlugin.cpp:255 (`PieceReadAborts`), and without assertions the
  buyer is never answered (`PieceReadFailed`);
* nothing on the wire tells the sessions of a restarted client apart: messages sent in an earlier
  one reach the new one (`ReceiveMessage`);
* `on_piece_failed` (TorrentPlugin.cpp:176) is empty.  If bought data failed libtorrent's check after all,
  the session would go on counting the piece as arrived and never buy it again: with `BoughtMayFail = TRUE`
  `ArrivedIsChecked` and `DownloadCompletes` fail;
* `torrentPieceInformation` looks at `have_piece` only: a piece that was bought and is still being checked
  when buy mode is entered again is bought again (`overlooked`);
* `pickNextPiece` picks pieces of priority 0, which the client does not want, when no other is left;
* TorrentPlugin.hpp:244 and 250 say which peers are noted as misbehaving; `drop` (PeerPlugin.cpp:664) has
  only comments where it should note them;
* an id that is a multiple of 256 passes the test for zero (ExtendedMessageIdMapping.cpp:127, on 64 bits) and is
  stored as 0 (cpp:116), the id that uninstalls;
* the prefix of a message name is compared by length only (ExtendedMessageIdMapping.cpp:66-68);
* a result that finds libtorrent's alert queue full is dropped, and the handler Alert.hpp:85 promises
  is never called (`Emplace` with `Lossy`).

### Fairness

`TorrentPlugin`: weak fairness of the answer to each piece that is being read.  libtorrent's disk
thread answers every read, and the alert calls `on_alert` before it is queued.  Nothing is assumed of
peers, clients or the session.  `Plugin`: libtorrent adds the plugin and goes on ticking, the calls
a request makes return, and the client goes on dispatching alerts.  No client has to submit, and no
torrent has to be added or removed.  `ExtensionWire`: the wire delivers and libtorrent calls the handler,
once for each client; nobody has to connect, to start, or to send.  `Buying`: the session asks for a piece while a
seller is idle, a seller that was asked answers or leaves (the session gives up one that does neither), and
libtorrent finishes the check of each piece; ordinary peers and the client need do nothing.

## 4. Proofs

`TorrentPluginProofs` and `TorrentSafetyProofs` prove for all `EndPoints`, `PeerIds`, `Pieces`,
`MaxReads`, `PeerHandshakes`, with and without assertions, from the assumptions `PeerPlugin` and
`TorrentPlugin` state on their constants.

The inductive invariant is `Core`, the conjunction of

* `TypeOK`;
* `PeersIndexed`: every open connection is in exactly one map, and a completed plugin is filed under
  its own peer id;
* `FreshPlugins`: a plugin that has not completed its handshake, or is gone, has the fields its
  constructor gave it.  It strengthens the other two: without it a peer could enter the map of completed
  peers with an uninstall mapping due or a mapping installed;
* `MembersHaveCompletedHandshake`: the session's connections are completed peers.  It is needed for
  `PeersIndexed` itself: the callback that ends a connection of the session finds the plugin to drop
  through the map.

The handlers that end a connection (seven of them, several through session callbacks) are first shown
to be one step, `Disconnecting(e)`, by `NextIsStep`; after that every proof has one case for all
of them.

Relative to `Core` these are inductive, each with a theorem: `SupportedIffMapped`,
`SupportedPeersInSession`, `AnnouncedMatchesSession`, `BannedPeersAreOut`, `OutstandingWillBeRead`
(if no read is lost).  `JoinsWithMapping` is an action property proved from `Core`
and `SupportedIffMapped`.  `OnlyRefusalsStarve` is proved action by action: of the steps that take a
registration away, an answered read takes the buyers of that piece with it, a departing peer its own wait, a
mode change all of them; no history is needed, because the property speaks of the step that first leaves a
buyer without a registration.  `AnnouncedMatchesSession` rests on `FreshPlugins`: a plugin enters the completed
peers with nothing announced and no uninstall due.  Under the hypothesis that no peer sends a mapping that is refused,
`MembersHaveMapping` and with it the two assertions peers can break are proved too; without the
hypothesis they are false, as the `Doc...` runs show.

`BuyingProofs`, for all pieces, sellers and priorities: that the loop of `pickNextPiece` returns the first
unassigned piece of the highest priority is an induction over the index, done with the set of indices where
the claim fails and its least element (`NaturalLemmas`), since the library's induction takes an operator.
`SessionKnowsPieces`, `BuysWhatIsMissing` and `ArrivedIsChecked` are inductive together with `TypeOK`; the
last assumes that bought data passes.

`PluginProofs`, for all torrents, kinds, alert limits: `OrderInv` says that queue, request in process, alert queue,
popped alerts and answers are each sorted by submission and follow each other, which survives the loss of
an alert; `CurrentInv` that an answer with no later submission reports the session as it is.
`MatchStep` says what one step does to a map of plugins that matches the torrents: no assertion fails, and the map
goes on matching unless the step drops the alert of a removed torrent.  `OnlyDroppedRemovalsMatter` is that for
every alert limit, lossy or not; with no alert dropped `MatchInv` is inductive, and `PluginsMatchTorrents`
and `NoAssertionFails` follow.

`PluginImplementsService` is the refinement of `RequestService` for every instance without lost alerts: each
step of `Plugin` is one of the service or a stutter under the mapping of `ImplementsService`.  The promised
results are those in the alerts popped and queued, in that order; so posting an alert must append exactly one
promise, or none if it carries no result, and dispatching must take the first one off.  `ResultsIn` and the promises are recursive functions
(`ResultsUpTo`) over the length of the queue; that they exist and what they are of an appended, emptied or
shortened queue are lemmas by induction on that length (`NaturalLemmas`).  The order
invariant is not needed; that no alert is dropped is, since a dropped result is a promise broken.

`MappingProofs`, for any number of messages a byte can tell apart and any dictionaries: what `fromMDictionary`
decides and stores is characterised by the lemmas of `MappingLemmas` (it keeps the last entry for a
message, and accepts iff all are named and positive); the invariant says that what is on its way is what the
writer meant.  `NotMistaken` needs two messages: a single one whose id wraps onto 0 would read as an uninstall.

`WireProofs`, for any minimum ids, any number of messages and any length of the wire.  The invariant
looks at one direction of the connection at a time.  What is on its way to a client is a *story*: there
is a sequence of Booleans, starting with whether the client holds a mapping now, that each message continues
as a well-behaved peer may continue it (a mapping only where there is none, an uninstall mapping only
where there is one, no extension only where there is none), and that ends with what the other end has said
last (`Story`, `StoryInv`).  Writing extends a story (`StoryAppend`), reading takes off its first step
(`StoryTail`), and closing forgets where it ends.  With it go `EndInv`, which ties mapping, payment support and
membership at one end together, and `WireInv`, by which only this program's messages are on the wire and the BitTorrent
handshake is the first of them.  `NeverDropped` is the first step of a story, `QuietAgree` the empty story, and
`Decodes` follows because the mapping an end holds is always the one the other end will announce again; it
assumes minimum ids that are bytes, without which an id *below* the minimum may be one of the truncated ids.

`EndsImplementTorrentPlugin` shows that each of the two ends goes through the steps of `TorrentPlugin`, with
the other client as its only peer: the refinement mapping is the instance `End(c)` in `ExtensionWire`, and
every handler at that end has a lemma (`ConnectImplements`, `StopImplements`, ...) that makes it the handler of
the same name there; steps of the other client and messages are stutters (`OthersStutter`).  The
invariant is needed before the step, to know which branch of a handler a message takes, and after it, to know
whom the session then holds; `FreshInv` adds that an end has learned nothing
before its BitTorrent handshake.  So each end of a real connection is an instance of what
`TorrentPluginProofs` and `TorrentSafetyProofs` prove for arbitrary peers (tlapm does not cite theorems of an
instance with a parameter, so they are not repeated for each end).  The property TLC checks speaks of both ends at once;
`EndImplementsTorrentPlugin` states it of one, as `Spec => End(c)!Spec`.

Model-checked only: liveness, which is out of the prover's reach (`RegistrationsEnd`, `StartedEndsJoin`,
`DownloadCompletes`, and the fair part of `ImplementsService`, whose proof would need `ENABLED`).

## 5. Not modelled

* `LibtorrentInteraction`: `setLibtorrentInteraction` stores a setting, and `on_request`, `on_piece` and
  `write_request` compare it and keep nothing.  `Buying.PieceFromPeer` may or may not happen, which covers every
  setting.
* `updateTerms`, `startUploading` and the like, which only call the session.
* The framing of a message (`ExtendedMessage`): no state and no decision; sizes come from `protocol_wire`.
* The payment protocol: it is in `protocol_session`.
* Alerts that report session events, status snapshots, logging: no state.
* The wrappers and interfaces, which the plugins do not use, and the build files.

## 6. Plan

Done, in this order: the mapping; peers and the session; selling; the proofs about them; the request
queue and its refinement; two clients with a wire between them, and their proof; the buying side; lost reads; the
proofs about mapping, buying and requests; the proofs of the last action property and of both refinements.  Left:

1. An abstract specification of the life of a session (`unset`, `stopped`, `started`, `paused`) that
   `Plugin` assumes of it, and `TorrentPlugin` shown to implement it.
2. A seller and a buyer in one module: `Buying` and the reads of `TorrentPlugin` at the ends of
   `ExtensionWire`, which needs a model of the payment protocol.
