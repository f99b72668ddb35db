--------------------------------- MODULE Buying ---------------------------------
(***************************************************************************)
(* The buying side of class TorrentPlugin: which piece a seller is asked   *)
(* for, what becomes of a piece that arrives from one, and what the        *)
(* session is told of the pieces libtorrent has, while libtorrent goes on  *)
(* downloading from ordinary peers.                                        *)
(*                                                                         *)
(* protocol_session::Session is a library; of its buying mode is modelled  *)
(* what this code hands it and is handed: it takes the pieces that are     *)
(* there when the mode begins, asks pickNextPiece for the piece of a seller*)
(* that has none, gives a piece that arrives to fullPieceArrived and, if   *)
(* that returns false, removes the seller; the piece of a seller that      *)
(* leaves can be picked again; a piece reported by pieceDownloaded is done.*)
(* Of libtorrent: pieces are checked after their data came, and            *)
(* on_piece_pass is called in the step in which have_piece becomes true.   *)
(***************************************************************************)
EXTENDS Naturals

CONSTANTS
  NumPieces,       \* number of pieces of the torrent
  NoPiece,         \* no piece is assigned, or picked
  Sellers,         \* peers that sell
  MaxPriority,     \* greatest priority of a piece (7 in libtorrent)
  BoughtMayFail    \* whether bought data may fail libtorrent's check

ASSUME NumPiecesAssumption == NumPieces \in Nat
ASSUME MaxPriorityAssumption == MaxPriority \in Nat
ASSUME BoughtMayFailAssumption == BoughtMayFail \in BOOLEAN

Pieces == 0 .. NumPieces - 1

ASSUME NoPieceAssumption == NoPiece \notin Pieces

VARIABLES
  mode,          \* "buying", or "other"
  pieces,        \* the session's view: state of each piece while it is buying
  sellers,       \* sellers with a connection in the session
  assigned,      \* the piece each seller was asked for
  misbehaved,    \* sellers in _misbehavedPeers
  priority,      \* piece_priority of each piece
  has,           \* pieces libtorrent has: have_piece
  checking,      \* where the data of a piece being checked came from
  overlooked     \* history: bought pieces still being checked when the mode began

sessionVars == <<mode, pieces, sellers, assigned, misbehaved, overlooked>>
libtorrentVars == <<priority, has, checking>>
vars == <<sessionVars, libtorrentVars>>

PieceState == {"unassigned", "being downloaded", "arrived", "downloaded"}

TypeOK ==
  /\ mode \in {"other", "buying"}
  /\ pieces \in [Pieces -> PieceState]
  /\ sellers \subseteq Sellers \ misbehaved
  /\ assigned \in [Sellers -> Pieces \cup {NoPiece}]
  /\ \A s \in Sellers : assigned[s] # NoPiece => mode = "buying" /\ s \in sellers
  /\ misbehaved \subseteq Sellers
  /\ priority \in [Pieces -> 0 .. MaxPriority]
  /\ has \subseteq Pieces
  /\ checking \in [Pieces -> SUBSET {"seller", "peer"}]
  /\ overlooked \subseteq Pieces

Nothing == [s \in Sellers |-> NoPiece]

Init ==
  /\ mode = "other"
  /\ pieces = [i \in Pieces |-> "unassigned"]
  /\ sellers = {}
  /\ assigned = Nothing
  /\ misbehaved = {}
  /\ priority = [i \in Pieces |-> MaxPriority]
  /\ has = {}
  /\ checking = [i \in Pieces |-> {}]
  /\ overlooked = {}

-----------------------------------------------------------------------------
(* pickNextPiece.                                                          *)

\* The loop of pickNextPiece after it has seen the first n pieces.
Picked[n \in 0 .. NumPieces] ==
  IF n = 0 THEN NoPiece
  ELSE IF /\ pieces[n - 1] = "unassigned"
          /\ Picked[n - 1] = NoPiece \/ priority[n - 1] > priority[Picked[n - 1]]
       THEN n - 1
       ELSE Picked[n - 1]

\* A loop that lets a later piece of the same priority win.
MutantPickLast ==
  LET Last[n \in 0 .. NumPieces] ==
        IF n = 0 THEN NoPiece
        ELSE IF /\ pieces[n - 1] = "unassigned"
                /\ Last[n - 1] = NoPiece \/ priority[n - 1] >= priority[Last[n - 1]]
             THEN n - 1
             ELSE Last[n - 1]
  IN  Last[NumPieces]

\* A loop that ends one piece early.
MutantPickEarly == IF NumPieces = 0 THEN NoPiece ELSE Picked[NumPieces - 1]

\* NoPiece where the code throws NoPieceAvailableException.
PickNextPiece == Picked[NumPieces]

-----------------------------------------------------------------------------
(* Modes.                                                                  *)

\* libtorrent is downloading while a piece is missing that is not filtered.
Downloading == \E i \in Pieces \ has : priority[i] > 0

\* toBuyMode: torrentPieceInformation tells the session which pieces are there.
ToBuyMode ==
  /\ Downloading
  /\ mode # "buying"
  /\ mode' = "buying"
  /\ pieces' = [i \in Pieces |-> IF i \in has THEN "downloaded" ELSE "unassigned"]
  /\ overlooked' = {i \in Pieces : "seller" \in checking[i]}
  /\ UNCHANGED <<sellers, assigned, misbehaved, libtorrentVars>>

\* toObserveMode; a torrent that is not seeding has no other mode to go to.
ToObserveMode ==
  /\ mode = "buying"
  /\ mode' = "other"
  /\ pieces' = [i \in Pieces |-> "unassigned"]
  /\ assigned' = Nothing
  /\ overlooked' = {}
  /\ UNCHANGED <<sellers, misbehaved, libtorrentVars>>

-----------------------------------------------------------------------------
(* Sellers.                                                                *)

\* A session that takes any peer in.
MutantSellerJoins(s) ==
  /\ s \notin sellers
  /\ sellers' = sellers \cup {s}
  /\ UNCHANGED <<mode, pieces, assigned, misbehaved, overlooked, libtorrentVars>>

\* A seller joins the session, see TorrentPlugin, which lets no banned peer in.
SellerJoins(s) ==
  /\ s \notin sellers \cup misbehaved
  /\ sellers' = sellers \cup {s}
  /\ UNCHANGED <<mode, pieces, assigned, misbehaved, overlooked, libtorrentVars>>

\* A removal that looks at no state of the piece.
MutantUnassigned(s) ==
  IF assigned[s] # NoPiece THEN [pieces EXCEPT ![assigned[s]] = "unassigned"] ELSE pieces

\* What the session makes of the piece of a seller that is removed.
Unassigned(s) ==
  IF assigned[s] # NoPiece /\ pieces[assigned[s]] = "being downloaded"
  THEN [pieces EXCEPT ![assigned[s]] = "unassigned"]
  ELSE pieces

Removed(s) ==
  /\ s \in sellers
  /\ sellers' = sellers \ {s}
  /\ pieces' = Unassigned(s)
  /\ assigned' = [assigned EXCEPT ![s] = NoPiece]
  /\ UNCHANGED <<mode, overlooked, libtorrentVars>>

\* It disconnects, or the session removes it for a reason that is not severe.
SellerLeaves(s) == Removed(s) /\ UNCHANGED misbehaved

\* The session asks pickNextPiece for a piece for a seller that has none.
AssignPiece(s) ==
  /\ mode = "buying" /\ s \in sellers
  /\ assigned[s] = NoPiece /\ PickNextPiece # NoPiece
  /\ assigned' = [assigned EXCEPT ![s] = PickNextPiece]
  /\ pieces' = [pieces EXCEPT ![PickNextPiece] = "being downloaded"]
  /\ UNCHANGED <<mode, sellers, misbehaved, overlooked, libtorrentVars>>

\* A fullPieceArrived that takes a piece being checked for a piece that is there.
MutantFullPieceArrived(s) ==
  /\ assigned[s] # NoPiece
  /\ LET i == assigned[s] IN
     /\ checking' = [checking EXCEPT ![i] =
                       IF i \in has \/ @ # {} THEN @ ELSE @ \cup {"seller"}]
     /\ pieces' = [pieces EXCEPT ![i] = IF @ = "downloaded" THEN @ ELSE "arrived"]
  /\ assigned' = [assigned EXCEPT ![s] = NoPiece]
  /\ UNCHANGED <<mode, sellers, misbehaved, overlooked, priority, has>>

\* fullPieceArrived for data with the right hash: add_piece, unless libtorrent has
\* got the piece elsewhere.  The session pays, and counts the piece as arrived.
FullPieceArrived(s) ==
  /\ assigned[s] # NoPiece
  /\ LET i == assigned[s] IN
     /\ checking' = [checking EXCEPT ![i] = IF i \in has THEN @ ELSE @ \cup {"seller"}]
     /\ pieces' = [pieces EXCEPT ![i] = IF @ = "downloaded" THEN @ ELSE "arrived"]
  /\ assigned' = [assigned EXCEPT ![s] = NoPiece]
  /\ UNCHANGED <<mode, sellers, misbehaved, overlooked, priority, has>>

\* fullPieceArrived for any other data: it returns false, the session removes the
\* seller with the cause seller_sent_invalid_piece, and removeConnection bans it.
InvalidPieceArrived(s) ==
  /\ assigned[s] # NoPiece
  /\ Removed(s)
  /\ misbehaved' = misbehaved \cup {s}

-----------------------------------------------------------------------------
(* libtorrent.                                                             *)

\* The last block of a piece arrives from an ordinary peer.  None does while the
\* client has downloading blocked: on_piece and write_request see to that.
PieceFromPeer(i) ==
  /\ i \notin has /\ "peer" \notin checking[i]
  /\ checking' = [checking EXCEPT ![i] = @ \cup {"peer"}]
  /\ UNCHANGED <<sessionVars, priority, has>>

\* An on_piece_pass that reports only what was bought.
MutantPiecePass(i) ==
  /\ checking[i] # {}
  /\ has' = has \cup {i}
  /\ checking' = [checking EXCEPT ![i] = {}]
  /\ pieces' = IF mode = "buying" /\ pieces[i] = "arrived"
               THEN [pieces EXCEPT ![i] = "downloaded"] ELSE pieces
  /\ UNCHANGED <<mode, sellers, assigned, misbehaved, overlooked, priority>>

\* The piece passes, and on_piece_pass tells a session that is buying.
PiecePass(i) ==
  /\ checking[i] # {}
  /\ has' = has \cup {i}
  /\ checking' = [checking EXCEPT ![i] = {}]
  /\ pieces' = IF mode = "buying" THEN [pieces EXCEPT ![i] = "downloaded"] ELSE pieces
  /\ UNCHANGED <<mode, sellers, assigned, misbehaved, overlooked, priority>>

\* The piece does not; on_piece_failed is empty.  Bought data was checked before
\* add_piece, but may fail with blocks of ordinary peers, or in the disk.
PieceFailed(i) ==
  /\ checking[i] # {}
  /\ "seller" \in checking[i] => BoughtMayFail
  /\ checking' = [checking EXCEPT ![i] = {}]
  /\ UNCHANGED <<sessionVars, priority, has>>

\* The client sets a priority.
SetPriority(i, p) ==
  /\ priority[i] # p
  /\ priority' = [priority EXCEPT ![i] = p]
  /\ UNCHANGED <<sessionVars, has, checking>>

-----------------------------------------------------------------------------
PieceChecked(i) == PiecePass(i) \/ PieceFailed(i)

Answered(s) == FullPieceArrived(s) \/ InvalidPieceArrived(s) \/ SellerLeaves(s)

Next ==
  \/ ToBuyMode \/ ToObserveMode
  \/ \E s \in Sellers : SellerJoins(s) \/ AssignPiece(s) \/ Answered(s)
  \/ \E i \in Pieces : PieceFromPeer(i) \/ PieceChecked(i)
  \/ \E i \in Pieces, p \in 0 .. MaxPriority : SetPriority(i, p)

Spec == Init /\ [][Next]_vars

\* The session asks for pieces and libtorrent checks them; a seller that was asked
\* answers, or leaves, if only because the session gives it up.
FairSpec ==
  /\ Spec
  /\ \A s \in Sellers : WF_vars(AssignPiece(s)) /\ WF_vars(assigned[s] # NoPiece /\ Answered(s))
  /\ \A i \in Pieces : WF_vars(PieceChecked(i))

-----------------------------------------------------------------------------
(* Properties.                                                             *)

\* What the loop picks is what "first piece with the highest priority" means.
UnassignedPieces == {i \in Pieces : pieces[i] = "unassigned"}

PicksFirstOfHighestPriority ==
  /\ PickNextPiece = NoPiece <=> UnassignedPieces = {}
  /\ UnassignedPieces # {} =>
       /\ PickNextPiece \in UnassignedPieces
       /\ \A i \in UnassignedPieces :
            \/ priority[i] < priority[PickNextPiece]
            \/ priority[i] = priority[PickNextPiece] /\ PickNextPiece <= i

\* A session that is buying knows which pieces libtorrent has, whoever delivered
\* them, before the mode began, while it lasted, or while another mode lasted in
\* between; pieces that pass at the moment of a mode change included.
SessionKnowsPieces ==
  mode = "buying" => \A i \in Pieces : pieces[i] = "downloaded" <=> i \in has

\* A piece the session takes for arrived, and has paid for, is being checked: it
\* is not lost between session and libtorrent.
ArrivedIsChecked ==
  \A i \in Pieces : pieces[i] = "arrived" => "seller" \in checking[i]

\* The session buys a piece that libtorrent has not got; and one that was bought
\* and is still being checked only if the mode was left after that:
\* torrentPieceInformation looks at have_piece alone.
BuysWhatIsMissing ==
  [][\A s \in Sellers : assigned'[s] \notin {assigned[s], NoPiece} =>
       /\ assigned'[s] \notin has
       /\ "seller" \in checking[assigned'[s]] => assigned'[s] \in overlooked]_vars

\* A session that goes on buying from the same sellers gets the whole torrent.
DownloadCompletes ==
  \A S \in SUBSET Sellers \ {{}} :
    <>[](mode = "buying" /\ sellers = S) => <>(has = Pieces)

=================================================================================
