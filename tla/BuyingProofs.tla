------------------------------ MODULE BuyingProofs ------------------------------
(***************************************************************************)
(* Proofs about Buying.  The loop of pickNextPiece is a recursive function *)
(* on the number of pieces it has seen; the induction over that number     *)
(* rests on InductionUpTo of NaturalLemmas.                                *)
(***************************************************************************)
EXTENDS Buying, NaturalLemmas

-----------------------------------------------------------------------------
(* pickNextPiece.                                                          *)

\* What the loop makes of the piece with index n - 1 when it has picked q.
PickStep(n, q) ==
  IF pieces[n - 1] = "unassigned" /\ (q = NoPiece \/ priority[n - 1] > priority[q])
  THEN n - 1 ELSE q

\* f is what the loop has picked after each of the first N pieces.
IsPicked(f, N) ==
  f = [n \in 0 .. N |-> IF n = 0 THEN NoPiece ELSE PickStep(n, f[n - 1])]

\* The loop can be run, whatever the number of pieces.
LEMMA PickedExists ==
  \E f : IsPicked(f, NumPieces)
<1> DEFINE P == {n \in 0 .. NumPieces : \E f : IsPicked(f, n)}
<1>1. 0 \in P
  <2>1. IsPicked([n \in 0 .. 0 |-> NoPiece], 0)
    BY DEF IsPicked
  <2> QED BY <2>1, NumPiecesAssumption
<1>2. ASSUME NEW n \in 1 .. NumPieces, n - 1 \in P
      PROVE  n \in P
  <2>1. PICK f : IsPicked(f, n - 1)
    BY <1>2
  <2> DEFINE g == [k \in 0 .. n |-> IF k = n THEN PickStep(n, f[n - 1]) ELSE f[k]]
  <2>2. \A k \in 0 .. n - 1 : g[k] = f[k]
    OBVIOUS
  <2>3. \A k \in 0 .. n :
          g[k] = IF k = 0 THEN NoPiece ELSE PickStep(k, g[k - 1])
    <3> SUFFICES ASSUME NEW k \in 0 .. n
                 PROVE  g[k] = IF k = 0 THEN NoPiece ELSE PickStep(k, g[k - 1])
      OBVIOUS
    <3>1. CASE k = n
      <4>1. g[n - 1] = f[n - 1]
        BY <2>2
      <4> QED BY <3>1, <4>1
    <3>2. CASE k # n
      <4>1. k \in 0 .. n - 1 /\ g[k] = f[k]
        BY <3>2
      <4>2. f[k] = IF k = 0 THEN NoPiece ELSE PickStep(k, f[k - 1])
        BY <2>1, <4>1 DEF IsPicked
      <4>3. k # 0 => g[k - 1] = f[k - 1]
        BY <4>1, <2>2
      <4> QED BY <4>1, <4>2, <4>3
    <3> QED BY <3>1, <3>2
  <2>4. IsPicked(g, n)
    <3> g = [k \in 0 .. n |-> g[k]]
      OBVIOUS
    <3> HIDE DEF g
    <3> QED BY <2>3 DEF IsPicked
  <2> QED BY <2>4
<1>3. NumPieces \in P
  <2> HIDE DEF P
  <2> QED BY <1>1, <1>2, InductionUpTo, NumPiecesAssumption
<1> QED BY <1>3

\* What the loop has picked after n pieces, by what it had picked before.
LEMMA PickedDefinition ==
  /\ Picked[0] = NoPiece
  /\ \A n \in 1 .. NumPieces : Picked[n] = PickStep(n, Picked[n - 1])
<1>1. Picked = CHOOSE f : IsPicked(f, NumPieces)
  BY DEF Picked, IsPicked, PickStep
<1>2. IsPicked(Picked, NumPieces)
  BY <1>1, PickedExists
<1>3. ASSUME NEW n \in 0 .. NumPieces
      PROVE  Picked[n] = IF n = 0 THEN NoPiece ELSE PickStep(n, Picked[n - 1])
  BY <1>2 DEF IsPicked
<1>4. 0 \in 0 .. NumPieces
  BY NumPiecesAssumption
<1>5. Picked[0] = NoPiece
  BY <1>3, <1>4
<1>6. ASSUME NEW n \in 1 .. NumPieces
      PROVE  Picked[n] = PickStep(n, Picked[n - 1])
  <2>1. n \in 0 .. NumPieces /\ n # 0
    BY NumPiecesAssumption
  <2> QED BY <1>3, <2>1
<1> QED BY <1>5, <1>6

\* After n pieces the loop has picked the first of the highest priority among
\* those of them that are unassigned.
PickedOf(n, q) ==
  IF \A i \in 0 .. n - 1 : pieces[i] # "unassigned" THEN q = NoPiece
  ELSE /\ q \in 0 .. n - 1 /\ pieces[q] = "unassigned"
       /\ \A i \in 0 .. n - 1 : pieces[i] = "unassigned" =>
            \/ priority[i] < priority[q]
            \/ priority[i] = priority[q] /\ q <= i

LEMMA PickedIsFirst ==
  ASSUME TypeOK
  PROVE  \A n \in 0 .. NumPieces : PickedOf(n, Picked[n])
<1> DEFINE P == {n \in 0 .. NumPieces : PickedOf(n, Picked[n])}
<1>1. 0 \in P
  BY PickedDefinition, NumPiecesAssumption DEF PickedOf
<1>2. ASSUME NEW n \in 1 .. NumPieces, n - 1 \in P
      PROVE  n \in P
  <2> DEFINE q == Picked[n - 1]
  <2>1. PickedOf(n - 1, q)
    BY <1>2
  <2>2. Picked[n] = PickStep(n, q)
    BY PickedDefinition
  <2>3. /\ n - 1 \in Pieces /\ 0 .. n - 2 \subseteq Pieces
        /\ 0 .. n - 1 = (0 .. n - 2) \cup {n - 1}
        /\ \A i \in Pieces : priority[i] \in Int
    BY NumPiecesAssumption, MaxPriorityAssumption DEF TypeOK, Pieces
  <2> HIDE DEF q
  <2>4. (n - 1) - 1 = n - 2
    OBVIOUS
  <2>5. PickedOf(n, PickStep(n, q))
    <3> DEFINE Before == 0 .. n - 2
    <3>0. Before \subseteq Pieces /\ 0 .. n - 1 = Before \cup {n - 1} /\ n - 1 \in Pieces
          /\ \A i \in Before : i \in Int /\ i < n - 1
      BY <2>3
    <3>1. \/ (\A i \in Before : pieces[i] # "unassigned") /\ q = NoPiece
          \/ /\ q \in Before /\ pieces[q] = "unassigned"
             /\ \A i \in Before : pieces[i] = "unassigned" =>
                  \/ priority[i] < priority[q]
                  \/ priority[i] = priority[q] /\ q <= i
      BY <2>1, <2>4 DEF PickedOf
    <3>2. n \in Int /\ n - 1 \in Int
      BY NumPiecesAssumption
    <3> HIDE DEF Before
    <3>3. CASE pieces[n - 1] # "unassigned"
      BY <3>0, <3>1, <3>3, NoPieceAssumption DEF PickedOf, PickStep
    <3>4. CASE pieces[n - 1] = "unassigned" /\ q = NoPiece
      <4>1. \A i \in Before : pieces[i] # "unassigned"
        BY <3>0, <3>1, <3>4, NoPieceAssumption
      <4> QED BY <3>0, <3>2, <3>4, <4>1, <2>3 DEF PickedOf, PickStep
    <3>5. CASE pieces[n - 1] = "unassigned" /\ q # NoPiece
      <4>1. /\ q \in Before /\ pieces[q] = "unassigned"
            /\ \A i \in Before : pieces[i] = "unassigned" =>
                  \/ priority[i] < priority[q]
                  \/ priority[i] = priority[q] /\ q <= i
        BY <3>1, <3>5
      <4>2. priority[q] \in Int /\ priority[n - 1] \in Int /\ q \in Int /\ q < n - 1
        BY <2>3, <3>0, <4>1
      <4>3. CASE priority[n - 1] > priority[q]
        <5>1. PickStep(n, q) = n - 1
          BY <3>5, <4>3 DEF PickStep
        <5>2. \A i \in Before : pieces[i] = "unassigned" => priority[i] < priority[n - 1]
          BY <2>3, <3>0, <4>1, <4>2, <4>3
        <5> QED BY <3>0, <3>2, <3>5, <4>2, <5>1, <5>2 DEF PickedOf
      <4>4. CASE ~(priority[n - 1] > priority[q])
        <5>1. PickStep(n, q) = q
          BY <3>5, <4>4 DEF PickStep
        <5> QED BY <3>0, <3>2, <4>1, <4>2, <4>4, <5>1 DEF PickedOf
      <4> QED BY <4>3, <4>4
    <3> QED BY <3>3, <3>4, <3>5
  <2> QED BY <2>2, <2>5
<1> HIDE DEF P
<1>3. \A n \in 0 .. NumPieces : n \in P
  BY <1>1, <1>2, InductionUpTo, NumPiecesAssumption
<1> QED BY <1>3 DEF P

\* The piece that is picked is a piece, and unassigned.
LEMMA PicksUnassigned ==
  ASSUME TypeOK, PickNextPiece # NoPiece
  PROVE  PickNextPiece \in Pieces /\ pieces[PickNextPiece] = "unassigned"
<1>1. PickedOf(NumPieces, PickNextPiece)
  BY PickedIsFirst, NumPiecesAssumption DEF PickNextPiece
<1> QED BY <1>1 DEF PickedOf, Pieces

-----------------------------------------------------------------------------
(* The inductive invariant.                                                *)

\* A piece the session may still buy, and which was bought, is overlooked.
BoughtIsKnown ==
  mode = "buying" =>
    \A i \in Pieces :
      pieces[i] \in {"unassigned", "being downloaded"} /\ "seller" \in checking[i] =>
        i \in overlooked

\* While the session is not buying it takes nothing for bought.
NothingBought == mode # "buying" => \A i \in Pieces : pieces[i] = "unassigned"

KnowledgeInv == SessionKnowsPieces /\ BoughtIsKnown /\ NothingBought

IInv == TypeOK /\ KnowledgeInv

LEMMA InitIInv ==
  ASSUME Init
  PROVE  IInv
BY MaxPriorityAssumption
   DEF Init, IInv, TypeOK, Nothing, PieceState, SessionKnowsPieces, BoughtIsKnown,
       KnowledgeInv, NothingBought

\* Pieces of sellers that are removed stay pieces, and only those that were being
\* downloaded become unassigned.
LEMMA UnassignedPiecesType ==
  ASSUME TypeOK, NEW s \in Sellers
  PROVE  /\ Unassigned(s) \in [Pieces -> PieceState]
         /\ \A i \in Pieces :
              \/ Unassigned(s)[i] = pieces[i]
              \/ pieces[i] = "being downloaded" /\ Unassigned(s)[i] = "unassigned"
BY DEF TypeOK, Unassigned, PieceState

\* Every step keeps the types.
LEMMA TypeStep ==
  ASSUME TypeOK, Next
  PROVE  TypeOK'
<1> USE DEF TypeOK, sessionVars, libtorrentVars
<1>1. CASE ToBuyMode \/ ToObserveMode
  BY <1>1 DEF ToBuyMode, ToObserveMode, PieceState, Nothing
<1>2. ASSUME NEW s \in Sellers, SellerJoins(s)
      PROVE  TypeOK'
  BY <1>2 DEF SellerJoins
<1>3. ASSUME NEW s \in Sellers, AssignPiece(s)
      PROVE  TypeOK'
  <2>1. PickNextPiece \in Pieces
    BY <1>3, PicksUnassigned DEF AssignPiece
  <2> QED BY <1>3, <2>1, NoPieceAssumption DEF AssignPiece, PieceState
<1>4. ASSUME NEW s \in Sellers, SellerLeaves(s) \/ InvalidPieceArrived(s)
      PROVE  TypeOK'
  <2>1. pieces' = Unassigned(s)
    BY <1>4 DEF SellerLeaves, InvalidPieceArrived, Removed
  <2>2. pieces' \in [Pieces -> PieceState]
    BY <2>1, UnassignedPiecesType
  <2> QED BY <1>4, <2>2 DEF SellerLeaves, InvalidPieceArrived, Removed
<1>5. ASSUME NEW s \in Sellers, FullPieceArrived(s)
      PROVE  TypeOK'
  BY <1>5 DEF FullPieceArrived, PieceState
<1>6. ASSUME NEW i \in Pieces, PieceFromPeer(i) \/ PieceFailed(i)
      PROVE  TypeOK'
  BY <1>6 DEF PieceFromPeer, PieceFailed
<1>7. ASSUME NEW i \in Pieces, PiecePass(i)
      PROVE  TypeOK'
  BY <1>7 DEF PiecePass, PieceState
<1>8. ASSUME NEW i \in Pieces, NEW p \in 0 .. MaxPriority, SetPriority(i, p)
      PROVE  TypeOK'
  BY <1>8 DEF SetPriority
<1> QED
  BY <1>1, <1>2, <1>3, <1>4, <1>5, <1>6, <1>7, <1>8 DEF Next, Answered, PieceChecked

\* Every step keeps the rest of the invariant.
LEMMA KnowledgeStep ==
  ASSUME IInv, Next
  PROVE  KnowledgeInv'
<1> USE DEF IInv, KnowledgeInv, TypeOK, SessionKnowsPieces, BoughtIsKnown, NothingBought,
            sessionVars, libtorrentVars
<1>1. CASE ToBuyMode \/ ToObserveMode
  BY <1>1 DEF ToBuyMode, ToObserveMode
<1>2. ASSUME NEW s \in Sellers, SellerJoins(s)
      PROVE  KnowledgeInv'
  BY <1>2 DEF SellerJoins
<1>3. ASSUME NEW s \in Sellers, AssignPiece(s)
      PROVE  KnowledgeInv'
  <2>1. PickNextPiece \in Pieces /\ pieces[PickNextPiece] = "unassigned"
    BY <1>3, PicksUnassigned DEF AssignPiece
  <2> QED BY <1>3, <2>1 DEF AssignPiece
<1>4. ASSUME NEW s \in Sellers, SellerLeaves(s) \/ InvalidPieceArrived(s)
      PROVE  KnowledgeInv'
  <2>1. /\ pieces' = Unassigned(s)
        /\ UNCHANGED <<mode, overlooked, priority, has, checking>>
    BY <1>4 DEF SellerLeaves, InvalidPieceArrived, Removed
  <2> QED BY <2>1, UnassignedPiecesType
<1>5. ASSUME NEW s \in Sellers, FullPieceArrived(s)
      PROVE  KnowledgeInv'
  BY <1>5 DEF FullPieceArrived
<1>6. ASSUME NEW i \in Pieces, PieceFromPeer(i) \/ PieceFailed(i)
      PROVE  KnowledgeInv'
  <2>1. /\ UNCHANGED <<mode, pieces, overlooked, has>>
        /\ \E from \in {{}, checking[i] \cup {"peer"}} :
             checking' = [checking EXCEPT ![i] = from]
    BY <1>6 DEF PieceFromPeer, PieceFailed
  <2>2. ASSUME NEW j \in Pieces, "seller" \in checking'[j]
        PROVE  "seller" \in checking[j]
    <3>1. checking \in [Pieces -> SUBSET {"seller", "peer"}]
      OBVIOUS
    <3>2. PICK from \in {{}, checking[i] \cup {"peer"}} :
            checking'[j] = IF j = i THEN from ELSE checking[j]
      BY <2>1, <3>1
    <3>3. "seller" # "peer"
      OBVIOUS
    <3> QED BY <2>2, <3>2, <3>3, Zenon
  <2> QED BY <2>1, <2>2
<1>7. ASSUME NEW i \in Pieces, PiecePass(i)
      PROVE  KnowledgeInv'
  BY <1>7 DEF PiecePass
<1>8. ASSUME NEW i \in Pieces, NEW p \in 0 .. MaxPriority, SetPriority(i, p)
      PROVE  KnowledgeInv'
  BY <1>8 DEF SetPriority
<1> QED
  BY <1>1, <1>2, <1>3, <1>4, <1>5, <1>6, <1>7, <1>8 DEF Next, Answered, PieceChecked

THEOREM IInvHolds == Spec => []IInv
<1>1. IInv /\ [Next]_vars => IInv'
  <2>1. ASSUME IInv, Next
        PROVE  IInv'
    BY <2>1, TypeStep, KnowledgeStep DEF IInv
  <2>2. ASSUME IInv, UNCHANGED vars
        PROVE  IInv'
    BY <2>2 DEF IInv, TypeOK, KnowledgeInv, SessionKnowsPieces, BoughtIsKnown,
                NothingBought, vars, sessionVars, libtorrentVars
  <2> QED BY <2>1, <2>2
<1> QED BY <1>1, InitIInv, PTL DEF Spec

-----------------------------------------------------------------------------
(* Theorems.                                                               *)

\* Every variable keeps its type, and a seller is asked for a piece only while
\* it takes part in a session that buys.
THEOREM TypeCorrect == Spec => []TypeOK
<1>1. IInv => TypeOK
  BY DEF IInv
<1> QED BY <1>1, IInvHolds, PTL

\* pickNextPiece picks the first piece of the highest priority, and throws only
\* if no piece is unassigned, for torrents of every size.
THEOREM PickIsFirst == Spec => []PicksFirstOfHighestPriority
<1>1. TypeOK => PicksFirstOfHighestPriority
  <2> SUFFICES ASSUME TypeOK
               PROVE  PicksFirstOfHighestPriority
    OBVIOUS
  <2>1. PickedOf(NumPieces, PickNextPiece)
    BY PickedIsFirst, NumPiecesAssumption DEF PickNextPiece
  <2>2. Pieces = 0 .. NumPieces - 1
    BY DEF Pieces
  <2>3. CASE UnassignedPieces = {}
    <3>1. PickNextPiece = NoPiece
      BY <2>1, <2>2, <2>3 DEF PickedOf, UnassignedPieces
    <3> QED BY <2>3, <3>1 DEF PicksFirstOfHighestPriority
  <2>4. CASE UnassignedPieces # {}
    <3>1. /\ PickNextPiece \in UnassignedPieces
          /\ \A i \in UnassignedPieces :
               \/ priority[i] < priority[PickNextPiece]
               \/ priority[i] = priority[PickNextPiece] /\ PickNextPiece <= i
      BY <2>1, <2>2, <2>4 DEF PickedOf, UnassignedPieces
    <3>2. PickNextPiece # NoPiece
      BY <3>1, NoPieceAssumption DEF UnassignedPieces
    <3> QED BY <2>4, <3>1, <3>2 DEF PicksFirstOfHighestPriority
  <2> QED BY <2>3, <2>4
<1> QED BY <1>1, TypeCorrect, PTL

\* A session that buys knows exactly the pieces libtorrent has.
THEOREM KnowsPieces == Spec => []SessionKnowsPieces
<1>1. IInv => SessionKnowsPieces
  BY DEF IInv, KnowledgeInv
<1> QED BY <1>1, IInvHolds, PTL

\* No piece libtorrent has is bought, and none is bought twice within a mode.
THEOREM BuysMissing == Spec => BuysWhatIsMissing
<1> DEFINE Buys == \A s \in Sellers : assigned'[s] \notin {assigned[s], NoPiece} =>
                     /\ assigned'[s] \notin has
                     /\ "seller" \in checking[assigned'[s]] =>
                          assigned'[s] \in overlooked
<1>1. ASSUME IInv, Next
      PROVE  Buys
  <2> SUFFICES ASSUME NEW s \in Sellers, assigned'[s] \notin {assigned[s], NoPiece}
               PROVE  /\ assigned'[s] \notin has
                      /\ "seller" \in checking[assigned'[s]] =>
                           assigned'[s] \in overlooked
    OBVIOUS
  <2>1. AssignPiece(s)
    <3> USE <1>1 DEF IInv, TypeOK, sessionVars, libtorrentVars
    <3>1. CASE ToBuyMode \/ ToObserveMode
      BY <3>1 DEF ToBuyMode, ToObserveMode, Nothing
    <3>2. ASSUME NEW r \in Sellers, SellerJoins(r) \/ Answered(r)
          PROVE  FALSE
      <4>1. assigned' \in {assigned, [assigned EXCEPT ![r] = NoPiece]}
        BY <3>2 DEF SellerJoins, Answered, SellerLeaves, InvalidPieceArrived, Removed,
                    FullPieceArrived
      <4> QED BY <4>1
    <3>3. ASSUME NEW r \in Sellers, AssignPiece(r)
          PROVE  AssignPiece(s)
      BY <3>3 DEF AssignPiece
    <3>4. ASSUME NEW i \in Pieces, PieceFromPeer(i) \/ PieceChecked(i)
          PROVE  FALSE
      BY <3>4 DEF PieceFromPeer, PieceChecked, PiecePass, PieceFailed
    <3>5. ASSUME NEW i \in Pieces, NEW p \in 0 .. MaxPriority, SetPriority(i, p)
          PROVE  FALSE
      BY <3>5 DEF SetPriority
    <3> QED BY <3>1, <3>2, <3>3, <3>4, <3>5 DEF Next
  <2>2. /\ PickNextPiece \in Pieces /\ pieces[PickNextPiece] = "unassigned"
        /\ mode = "buying" /\ assigned'[s] = PickNextPiece
    BY <1>1, <2>1, PicksUnassigned DEF AssignPiece, IInv, TypeOK
  <2> QED BY <1>1, <2>2 DEF IInv, KnowledgeInv, SessionKnowsPieces, BoughtIsKnown
<1>2. IInv /\ [Next]_vars => [Buys]_vars
  BY <1>1
<1> QED BY <1>2, IInvHolds, PTL DEF Spec, BuysWhatIsMissing

\* If bought data does not fail libtorrent's check, a piece that was paid for is
\* not lost between session and libtorrent.
THEOREM ArrivedStaysChecked ==
  ASSUME ~BoughtMayFail
  PROVE  Spec => []ArrivedIsChecked
<1>1. Init => ArrivedIsChecked
  BY DEF Init, ArrivedIsChecked
<1>2. ASSUME IInv, ArrivedIsChecked, Next
      PROVE  ArrivedIsChecked'
  <2> USE DEF ArrivedIsChecked, IInv, KnowledgeInv, NothingBought, TypeOK, sessionVars,
              libtorrentVars
  <2>1. CASE ToBuyMode \/ ToObserveMode
    BY <1>2, <2>1 DEF ToBuyMode, ToObserveMode
  <2>2. ASSUME NEW s \in Sellers, SellerJoins(s)
        PROVE  ArrivedIsChecked'
    BY <1>2, <2>2 DEF SellerJoins
  <2>3. ASSUME NEW s \in Sellers, AssignPiece(s)
        PROVE  ArrivedIsChecked'
    BY <1>2, <2>3 DEF AssignPiece
  <2>4. ASSUME NEW s \in Sellers, SellerLeaves(s) \/ InvalidPieceArrived(s)
        PROVE  ArrivedIsChecked'
    <3>1. pieces' = Unassigned(s) /\ UNCHANGED checking
      BY <2>4 DEF SellerLeaves, InvalidPieceArrived, Removed
    <3> QED BY <1>2, <3>1, UnassignedPiecesType
  <2>5. ASSUME NEW s \in Sellers, FullPieceArrived(s)
        PROVE  ArrivedIsChecked'
    BY <1>2, <2>5 DEF FullPieceArrived, SessionKnowsPieces
  <2>6. ASSUME NEW i \in Pieces, PieceFromPeer(i) \/ PieceFailed(i)
        PROVE  ArrivedIsChecked'
    BY <1>2, <2>6 DEF PieceFromPeer, PieceFailed
  <2>7. ASSUME NEW i \in Pieces, PiecePass(i)
        PROVE  ArrivedIsChecked'
    BY <1>2, <2>7 DEF PiecePass
  <2>8. ASSUME NEW i \in Pieces, NEW p \in 0 .. MaxPriority, SetPriority(i, p)
        PROVE  ArrivedIsChecked'
    BY <1>2, <2>8 DEF SetPriority
  <2> QED
    BY <1>2, <2>1, <2>2, <2>3, <2>4, <2>5, <2>6, <2>7, <2>8
       DEF Next, Answered, PieceChecked
<1>3. ASSUME ArrivedIsChecked, UNCHANGED vars
      PROVE  ArrivedIsChecked'
  BY <1>3 DEF ArrivedIsChecked, vars, sessionVars, libtorrentVars
<1> QED BY <1>1, <1>2, <1>3, IInvHolds, PTL DEF Spec

=================================================================================
