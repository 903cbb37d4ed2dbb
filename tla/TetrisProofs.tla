---------------------------- MODULE TetrisProofs -----------------------------
(***************************************************************************)
(* Proofs about TetrisGame and TetrisScreen, for every size of the well,   *)
(* set of pieces, number of lines per level and bound on the dialogs: what *)
(* the engine keeps true of the board and how it clears lines, that the    *)
(* screen plays by the engine's rules and announces every end, that its    *)
(* timer agrees with the game and never ticks faster than the level asks.  *)
(***************************************************************************)
EXTENDS TetrisScreen, FiniteSetTheorems, FunctionTheorems, NaturalsInduction,
        WellFoundedInduction, TLAPS

------------------------------------------------------------------------------
(* The falling piece *)

LEMMA InitFits == Init => PieceFits
  BY RoomToEnter DEF Init, PieceFits, Fits

(* A step that moves the piece has tested its new place.                    *)
LEMMA MovedFits ==
  ASSUME Fits(piece'), OnlyPiece
  PROVE  PieceFits'
  BY DEF PieceFits, Fits, OnlyPiece, Valid, InBounds

(* Entering is the only thing that is not tested before: it ends the game.  *)
LEMMA LockFits ==
  ASSUME NEW pc, Lock(pc)
  PROVE  PieceFits'
<1>1. Valid(Entering(nextType), Cleared(Placed(pc))) \/ status' = "gameOver"
  BY DEF Lock, Spawn
<1>2. piece' = Entering(nextType) /\ board' = Cleared(Placed(pc))
  BY DEF Lock, Spawn
<1> QED
  BY <1>1, <1>2 DEF PieceFits, Fits

LEMMA NextFits == PieceFits /\ [Next]_gameVars => PieceFits'
<1> SUFFICES ASSUME PieceFits, [Next]_gameVars PROVE PieceFits'
  OBVIOUS
<1>1. ASSUME NEW dc, Move(dc) PROVE PieceFits'
  BY <1>1, MovedFits DEF Move
<1>2. CASE Rotate
  BY <1>2, MovedFits DEF Rotate
<1>3. CASE Fall
  BY <1>3, MovedFits DEF Fall, CanFall
<1>4. CASE HardDrop \/ (\E pc : Lock(pc))
  BY <1>4, LockFits DEF HardDrop
<1>5. CASE TogglePause
  BY <1>5 DEF TogglePause, PieceFits, Fits
<1>6. CASE UNCHANGED gameVars
  BY <1>6 DEF gameVars, PieceFits, Fits
<1> QED
  BY <1>1, <1>2, <1>3, <1>4, <1>5, <1>6 DEF Next, SoftDrop, Tick

(* Whatever is done to the falling piece, wall kicks included, it is on the *)
(* board and overlaps nothing until a new one finds no room                 *)
(* (tetris_game.dart:79 to 120, 185).                                       *)
THEOREM FallingPieceFits == Spec => []PieceFits
  BY InitFits, NextFits, PTL DEF Spec

------------------------------------------------------------------------------
(* The shapes *)

(* Named, so that the provers see which four are meant.                     *)
Four(a, b, c, d) == {a, b, c, d}

LEMMA FourElements ==
  ASSUME NEW a, NEW b, NEW c, NEW d,
         a # b, a # c, a # d, b # c, b # d, c # d
  PROVE  IsFiniteSet(Four(a, b, c, d)) /\ Cardinality(Four(a, b, c, d)) = 4
<1>1. IsFiniteSet({a}) /\ Cardinality({a}) = 1
  BY FS_Singleton
<1>2. {a, b} = {a} \cup {b} /\ {a, b, c} = {a, b} \cup {c}
      /\ {a, b, c, d} = {a, b, c} \cup {d}
  OBVIOUS
<1>3. IsFiniteSet({a, b}) /\ Cardinality({a, b}) = 2
  BY <1>1, <1>2, FS_AddElement, SMTT(60)
<1>4. IsFiniteSet({a, b, c}) /\ Cardinality({a, b, c}) = 3
  BY <1>2, <1>3, FS_AddElement
<1>5. IsFiniteSet({a, b, c, d}) /\ Cardinality({a, b, c, d}) = 4
  BY <1>2, <1>4, FS_AddElement
<1> QED
  BY <1>5, Zenon DEF Four

FourCells(S) ==
  \E a, b, c, d \in Int \X Int :
    /\ S = {a, b, c, d}
    /\ a # b /\ a # c /\ a # d /\ b # c /\ b # d /\ c # d

Quad(a, b, c, d, e, f, g, h) == {<<a, b>>, <<c, d>>, <<e, f>>, <<g, h>>}

LEMMA FourOffsets ==
  ASSUME NEW a \in Int, NEW b \in Int, NEW c \in Int, NEW d \in Int,
         NEW e \in Int, NEW f \in Int, NEW g \in Int, NEW h \in Int,
         a # c \/ b # d, a # e \/ b # f, a # g \/ b # h,
         c # e \/ d # f, c # g \/ d # h, e # g \/ f # h
  PROVE  FourCells(Quad(a, b, c, d, e, f, g, h))
<1>1. /\ <<a, b>> \in Int \X Int /\ <<c, d>> \in Int \X Int
      /\ <<e, f>> \in Int \X Int /\ <<g, h>> \in Int \X Int
      /\ <<a, b>> # <<c, d>> /\ <<a, b>> # <<e, f>> /\ <<a, b>> # <<g, h>>
      /\ <<c, d>> # <<e, f>> /\ <<c, d>> # <<g, h>> /\ <<e, f>> # <<g, h>>
  OBVIOUS
<1> QED
  BY <1>1, Zenon DEF FourCells, Quad

LEMMA ShapeOf ==
  ASSUME NEW t \in 1 .. 7
  PROVE  /\ Rotations(t) \in {1, 2, 4}
         /\ \A r \in 0 .. Rotations(t) - 1 : FourCells(Pieces[t][r + 1])
<1>1. CASE t = 1
  <2>1. Pieces[1] = << Quad(0, 0, 1, 0, 2, 0, 3, 0),
                    Quad(0, 0, 0, 1, 0, 2, 0, 3) >>
    BY DEF Pieces, Quad
  <2>2. /\ FourCells(Quad(0, 0, 1, 0, 2, 0, 3, 0))
        /\ FourCells(Quad(0, 0, 0, 1, 0, 2, 0, 3))
    BY FourOffsets, SMTT(60)
  <2> QED
    BY <1>1, <2>1, <2>2 DEF Rotations
<1>2. CASE t = 2
  <2>1. Pieces[2] = << Quad(0, 0, 0, 1, 1, 0, 1, 1) >>
    BY DEF Pieces, Quad
  <2>2. FourCells(Quad(0, 0, 0, 1, 1, 0, 1, 1))
    BY FourOffsets
  <2> QED
    BY <1>2, <2>1, <2>2 DEF Rotations
<1>3. CASE t = 3
  <2>1. Pieces[3] = << Quad(0, 1, 1, 0, 1, 1, 1, 2),
                    Quad(0, 0, 1, 0, 1, 1, 2, 0),
                    Quad(0, 0, 0, 1, 0, 2, 1, 1),
                    Quad(0, 1, 1, 0, 1, 1, 2, 1) >>
    BY DEF Pieces, Quad
  <2>2. /\ FourCells(Quad(0, 1, 1, 0, 1, 1, 1, 2))
        /\ FourCells(Quad(0, 0, 1, 0, 1, 1, 2, 0))
        /\ FourCells(Quad(0, 0, 0, 1, 0, 2, 1, 1))
        /\ FourCells(Quad(0, 1, 1, 0, 1, 1, 2, 1))
    BY FourOffsets
  <2> QED
    BY <1>3, <2>1, <2>2 DEF Rotations
<1>4. CASE t = 4
  <2>1. Pieces[4] = << Quad(0, 1, 0, 2, 1, 0, 1, 1),
                    Quad(0, 0, 1, 0, 1, 1, 2, 1) >>
    BY DEF Pieces, Quad
  <2>2. /\ FourCells(Quad(0, 1, 0, 2, 1, 0, 1, 1))
        /\ FourCells(Quad(0, 0, 1, 0, 1, 1, 2, 1))
    BY FourOffsets
  <2> QED
    BY <1>4, <2>1, <2>2 DEF Rotations
<1>5. CASE t = 5
  <2>1. Pieces[5] = << Quad(0, 0, 0, 1, 1, 1, 1, 2),
                    Quad(0, 1, 1, 0, 1, 1, 2, 0) >>
    BY DEF Pieces, Quad
  <2>2. /\ FourCells(Quad(0, 0, 0, 1, 1, 1, 1, 2))
        /\ FourCells(Quad(0, 1, 1, 0, 1, 1, 2, 0))
    BY FourOffsets
  <2> QED
    BY <1>5, <2>1, <2>2 DEF Rotations
<1>6. CASE t = 6
  <2>1. Pieces[6] = << Quad(0, 0, 1, 0, 1, 1, 1, 2),
                    Quad(0, 0, 0, 1, 1, 0, 2, 0),
                    Quad(0, 0, 0, 1, 0, 2, 1, 2),
                    Quad(0, 1, 1, 1, 2, 0, 2, 1) >>
    BY DEF Pieces, Quad
  <2>2. /\ FourCells(Quad(0, 0, 1, 0, 1, 1, 1, 2))
        /\ FourCells(Quad(0, 0, 0, 1, 1, 0, 2, 0))
        /\ FourCells(Quad(0, 0, 0, 1, 0, 2, 1, 2))
        /\ FourCells(Quad(0, 1, 1, 1, 2, 0, 2, 1))
    BY FourOffsets
  <2> QED
    BY <1>6, <2>1, <2>2 DEF Rotations
<1>7. CASE t = 7
  <2>1. Pieces[7] = << Quad(0, 2, 1, 0, 1, 1, 1, 2),
                    Quad(0, 0, 1, 0, 2, 0, 2, 1),
                    Quad(0, 0, 0, 1, 0, 2, 1, 0),
                    Quad(0, 0, 0, 1, 1, 1, 2, 1) >>
    BY DEF Pieces, Quad
  <2>2. /\ FourCells(Quad(0, 2, 1, 0, 1, 1, 1, 2))
        /\ FourCells(Quad(0, 0, 1, 0, 2, 0, 2, 1))
        /\ FourCells(Quad(0, 0, 0, 1, 0, 2, 1, 0))
        /\ FourCells(Quad(0, 0, 0, 1, 1, 1, 2, 1))
    BY FourOffsets
  <2> QED
    BY <1>7, <2>1, <2>2 DEF Rotations
<1> QED
  BY <1>1, <1>2, <1>3, <1>4, <1>5, <1>6, <1>7
------------------------------------------------------------------------------
(* A piece and the place where it lands *)

PieceOK(pc) ==
  /\ pc \in [type : Types, rot : Int, row : Int, col : Int]
  /\ pc.rot \in 0 .. Rotations(pc.type) - 1

LEMMA ShapeOfPiece ==
  ASSUME NEW pc, PieceOK(pc)
  PROVE  FourCells(Pieces[pc.type][pc.rot + 1])
  BY ShapeOf, BoardAssumption DEF PieceOK

LEMMA FourOfPiece ==
  ASSUME NEW pc, PieceOK(pc)
  PROVE  IsFiniteSet(Cells(pc)) /\ Cardinality(Cells(pc)) = 4 /\ Cells(pc) \subseteq Int \X Int
<1>1. PICK a, b, c, d \in Int \X Int :
        /\ Pieces[pc.type][pc.rot + 1] = {a, b, c, d}
        /\ a # b /\ a # c /\ a # d /\ b # c /\ b # d /\ c # d
  <2>1. FourCells(Pieces[pc.type][pc.rot + 1])
    BY ShapeOfPiece
  <2> QED
    BY <2>1, Zenon DEF FourCells
<1> DEFINE at(x) == << pc.row + x[1], pc.col + x[2] >>
<1>2. Cells(pc) = {at(a), at(b), at(c), at(d)}
  BY <1>1 DEF Cells
<1>3. ASSUME NEW x \in Int \X Int, NEW y \in Int \X Int, x # y
      PROVE  at(x) \in Int \X Int /\ at(x) # at(y)
  <2>1. x[1] # y[1] \/ x[2] # y[2]
    BY <1>3
  <2>2. x[1] \in Int /\ x[2] \in Int /\ y[1] \in Int /\ y[2] \in Int
    BY <1>3
  <2> QED
    BY <2>1, <2>2 DEF PieceOK
<1> HIDE DEF at
<1>4. /\ at(a) # at(b) /\ at(a) # at(c) /\ at(a) # at(d)
      /\ at(b) # at(c) /\ at(b) # at(d) /\ at(c) # at(d)
      /\ {at(a), at(b), at(c), at(d)} \subseteq Int \X Int
  BY <1>1, <1>3
<1>5. IsFiniteSet(Four(at(a), at(b), at(c), at(d)))
      /\ Cardinality(Four(at(a), at(b), at(c), at(d))) = 4
  BY <1>4, FourElements
<1>6. Cells(pc) = Four(at(a), at(b), at(c), at(d)) /\ Cells(pc) \subseteq Int \X Int
  BY <1>2, <1>4 DEF Four
<1> QED
  BY <1>5, <1>6

LEMMA ShiftedPiece ==
  ASSUME NEW pc, PieceOK(pc), NEW dr \in Int, NEW dc \in Int
  PROVE  /\ PieceOK(Shifted(pc, dr, dc))
         /\ Shifted(pc, dr, dc).row = pc.row + dr
         /\ Shifted(pc, dr, dc).col = pc.col + dc
         /\ Shifted(pc, dr, dc).type = pc.type
         /\ Shifted(pc, dr, dc).rot = pc.rot
<1>1. PICK q : q = Shifted(pc, dr, dc)
  OBVIOUS
<1>2. pc \in [type : Types, rot : Int, row : Int, col : Int]
  BY DEF PieceOK
<1>3. /\ q \in [type : Types, rot : Int, row : Int, col : Int]
      /\ q.type = pc.type /\ q.rot = pc.rot /\ q.row = pc.row + dr /\ q.col = pc.col + dc
  <2>1. pc.row + dr \in Int /\ pc.col + dc \in Int
    BY <1>2
  <2>2. q = [pc EXCEPT !.row = pc.row + dr, !.col = pc.col + dc]
    BY <1>1 DEF Shifted
  <2> QED
    BY <1>2, <2>1, <2>2
<1>4. PieceOK(q)
  BY <1>3 DEF PieceOK
<1> QED
  BY <1>1, <1>3, <1>4

LEMMA ShiftedCells ==
  ASSUME NEW pc, PieceOK(pc), NEW dr \in Int, NEW dc \in Int
  PROVE  Cells(Shifted(pc, dr, dc))
           = {<< pc.row + dr + c[1], pc.col + dc + c[2] >> : c \in Pieces[pc.type][pc.rot + 1]}
  BY ShiftedPiece DEF Cells

LEMMA LeastNat ==
  ASSUME NEW T \in SUBSET Nat, T # {}
  PROVE  \E m \in T : \A n \in T : m <= n
<1>1. PICK m \in T : \A n \in T : << n, m >> \notin OpToRel(<, Nat)
  BY WFMin, NatLessThanWellFounded, Zenon
<1>2. \A n \in T : ~(n < m)
  BY <1>1, Zenon DEF OpToRel
<1> QED
  BY <1>2

(* A piece that fits lands: it cannot fall past the bottom, so there is a   *)
(* last place on its way down where it fits, which is what the loop of      *)
(* hardDrop stops at.                                                       *)
LEMMA LandingFits ==
  ASSUME NEW pc, PieceOK(pc), Fits(pc)
  PROVE  PieceOK(Landing(pc)) /\ Fits(Landing(pc))
<1> DEFINE down(n) == Shifted(pc, n, 0)
           stuck == {n \in Nat : ~Fits(down(n))}
<1>1. Rows \in Nat /\ Rows > 0
  BY BoardAssumption
<1>2. \A n \in Nat : Fits(down(n)) <=>
        \A c \in Pieces[pc.type][pc.rot + 1] :
           LET x == << pc.row + n + c[1], pc.col + c[2] >>
           IN  InBounds(x) /\ x[2] \notin board[x[1]]
  <2> SUFFICES ASSUME NEW n \in Nat
               PROVE  Cells(down(n)) = {<< pc.row + n + c[1], pc.col + 0 + c[2] >> :
                                          c \in Pieces[pc.type][pc.rot + 1]}
    BY DEF Fits, Valid, PieceOK
  <2> QED
    BY ShiftedCells
<1>3. Fits(down(0))
  BY <1>2 DEF Fits, Valid, Cells, PieceOK
<1>4. Rows \in stuck
  <2>1. PICK c \in Pieces[pc.type][pc.rot + 1] : c \in Int \X Int
    <3>1. FourCells(Pieces[pc.type][pc.rot + 1])
      BY ShapeOfPiece
    <3> QED
      BY <3>1, Zenon DEF FourCells
  <2>2. pc.row + 0 + c[1] \in 0 .. Rows - 1
    BY <1>2, <1>3, <2>1 DEF InBounds, RowIdx
  <2>3. pc.row + Rows + c[1] \notin 0 .. Rows - 1
    BY <1>1, <2>1, <2>2 DEF PieceOK
  <2> QED
    BY <1>1, <1>2, <2>1, <2>3 DEF InBounds, RowIdx
<1>5. PICK m \in stuck : \A n \in stuck : m <= n
  BY <1>4, LeastNat
<1> DEFINE n == m - 1
<1>6. n \in 0 .. Rows - 1 /\ m \in Nat
  <2>1. m # 0
    BY <1>3, <1>5
  <2> QED
    BY <1>1, <1>4, <1>5, <2>1
<1>7. \A i \in 0 .. n : Fits(down(i))
  <2>1. \A i \in 0 .. n : i \in Nat /\ ~(m <= i)
    BY <1>6
  <2> QED
    BY <1>5, <2>1
<1>8. PieceOK(down(n)) /\ down(n).row - pc.row = n
  BY <1>6, ShiftedPiece DEF PieceOK
<1>9. ~CanFall(down(n))
  <2>1. Cells(Shifted(down(n), 1, 0)) = Cells(down(m))
    <3>1. /\ down(n).row = pc.row + n /\ down(n).col = pc.col + 0
          /\ down(n).type = pc.type /\ down(n).rot = pc.rot
      BY <1>6, ShiftedPiece
    <3>2. Cells(Shifted(down(n), 1, 0))
            = {<< pc.row + n + 1 + c[1], pc.col + 0 + 0 + c[2] >> :
                 c \in Pieces[pc.type][pc.rot + 1]}
      BY <1>8, <3>1, ShiftedCells
    <3>3. Cells(down(m)) = {<< pc.row + m + c[1], pc.col + 0 + c[2] >> :
                              c \in Pieces[pc.type][pc.rot + 1]}
      BY <1>6, ShiftedCells
    <3>4. pc.row + n + 1 = pc.row + m /\ pc.col + 0 + 0 = pc.col + 0
      BY <1>6 DEF PieceOK
    <3> QED
      BY <3>2, <3>3, <3>4
  <2>2. ~Fits(down(m))
    BY <1>5
  <2> QED
    BY <2>1, <2>2 DEF CanFall, Fits, Valid
<1> DEFINE lands(q) == /\ Fits(q) /\ ~CanFall(q)
                       /\ \A i \in 0 .. q.row - pc.row : Fits(Shifted(pc, i, 0))
           places == {Shifted(pc, i, 0) : i \in 0 .. Rows}
<1>10. down(n) \in places /\ lands(down(n))
  BY <1>1, <1>6, <1>7, <1>8, <1>9
<1>11. Landing(pc) \in places /\ lands(Landing(pc))
  <2>1. Landing(pc) = CHOOSE q \in places : lands(q)
    BY DEF Landing
  <2> HIDE DEF places, lands
  <2> QED
    BY <1>10, <2>1
<1> QED
  BY <1>11, ShiftedPiece

------------------------------------------------------------------------------
(* What is filled, before and after a piece locks *)

BoardOK(b) == b \in [RowIdx -> SUBSET ColIdx]

LEMMA Apart ==
  ASSUME NEW S, IsFiniteSet(S), NEW T, IsFiniteSet(T), S \cap T = {}
  PROVE  Cardinality(S \cup T) = Cardinality(S) + Cardinality(T)
<1>1. Cardinality(S \cup T) = Cardinality(S) + Cardinality(T) - Cardinality(S \cap T)
  BY FS_Union, Zenon
<1>2. Cardinality(S) \in Nat /\ Cardinality(T) \in Nat /\ Cardinality(S \cap T) = 0
  BY FS_CardinalityType, FS_EmptySet
<1> QED
  BY <1>1, <1>2

LEMMA Sizes ==
  /\ IsFiniteSet(RowIdx) /\ Cardinality(RowIdx) = Rows
  /\ IsFiniteSet(ColIdx) /\ Cardinality(ColIdx) = Cols
  /\ IsFiniteSet(RowIdx \X ColIdx)
<1>1. IsFiniteSet(RowIdx) /\ Cardinality(RowIdx) = Rows
  BY BoardAssumption, FS_Interval DEF RowIdx
<1>2. IsFiniteSet(ColIdx) /\ Cardinality(ColIdx) = Cols
  BY BoardAssumption, FS_Interval DEF ColIdx
<1> QED
  BY <1>1, <1>2, FS_Product

LEMMA FilledFinite ==
  ASSUME NEW b
  PROVE  IsFiniteSet(Filled(b)) /\ Cardinality(Filled(b)) \in Nat
<1>1. Filled(b) \in SUBSET (RowIdx \X ColIdx)
  BY DEF Filled
<1>2. IsFiniteSet(Filled(b))
  BY <1>1, Sizes, FS_Subset
<1> QED
  BY <1>2, FS_CardinalityType

LEMMA PlacedFills ==
  ASSUME NEW pc, PieceOK(pc), Fits(pc), BoardOK(board)
  PROVE  /\ BoardOK(Placed(pc))
         /\ Cardinality(Filled(Placed(pc))) = Cardinality(Filled(board)) + 4
<1>1. BoardOK(Placed(pc))
  BY DEF BoardOK, Placed
<1>2. \A c \in Cells(pc) : /\ c[1] \in RowIdx /\ c[2] \in ColIdx /\ c = << c[1], c[2] >>
                           /\ c[2] \notin board[c[1]]
  BY FourOfPiece DEF Fits, Valid, InBounds
<1>3. Filled(Placed(pc)) = Filled(board) \cup Cells(pc)
  BY <1>2 DEF Filled, Placed
<1>4. Filled(board) \cap Cells(pc) = {}
  BY <1>2 DEF Filled
<1>5. Cardinality(Filled(board) \cup Cells(pc)) = Cardinality(Filled(board)) + Cardinality(Cells(pc))
  BY <1>4, FilledFinite, FourOfPiece, Apart, Zenon
<1> QED
  BY <1>1, <1>3, <1>5, FourOfPiece

(* The full rows below a row; their number is by how much it sinks.         *)
FullBelow(b, r) == {q \in FullRows(b) : q > r}

LEMMA FullBelowSize ==
  ASSUME NEW b, NEW r \in RowIdx
  PROVE  /\ IsFiniteSet(FullBelow(b, r)) /\ Cardinality(FullBelow(b, r)) \in Nat
         /\ SinksTo(b, r) = r + Cardinality(FullBelow(b, r))
         /\ SinksTo(b, r) \in RowIdx
<1>1. r \in Int /\ Rows \in Int /\ 0 <= r /\ r <= Rows - 1
  BY BoardAssumption DEF RowIdx
<1>2. FullBelow(b, r) \in SUBSET ((r + 1) .. (Rows - 1))
  BY <1>1 DEF FullBelow, FullRows, RowIdx
<1>3. /\ IsFiniteSet((r + 1) .. (Rows - 1))
      /\ Cardinality((r + 1) .. (Rows - 1)) = Rows - 1 - r
  BY <1>1, FS_Interval
<1>4. /\ IsFiniteSet(FullBelow(b, r)) /\ Cardinality(FullBelow(b, r)) \in Nat
      /\ Cardinality(FullBelow(b, r)) <= Rows - 1 - r
  BY <1>2, <1>3, FS_Subset, FS_CardinalityType, ZenonT(60)
<1>5. SinksTo(b, r) = r + Cardinality(FullBelow(b, r))
  BY DEF SinksTo, FullBelow
<1> QED
  BY <1>1, <1>4, <1>5 DEF RowIdx

(* Rows that stay keep their order, and no two come to lie in one place.    *)
LEMMA SinkingKeepsOrder ==
  ASSUME NEW b, NEW q \in RowIdx, NEW r \in RowIdx \ FullRows(b), q < r
  PROVE  SinksTo(b, q) < SinksTo(b, r)
<1> DEFINE between == {k \in FullRows(b) : q < k /\ k < r}
<1>1. q \in Int /\ r \in Int
  BY DEF RowIdx
<1>2. FullBelow(b, q) = FullBelow(b, r) \cup between
  BY <1>1 DEF FullBelow, FullRows, RowIdx
<1>3. FullBelow(b, r) \cap between = {}
  BY <1>1 DEF FullBelow, FullRows, RowIdx
<1>4. between \in SUBSET ((q + 1) .. (r - 1))
  BY <1>1 DEF FullRows, RowIdx
<1> HIDE DEF between
<1>5. IsFiniteSet((q + 1) .. (r - 1)) /\ Cardinality((q + 1) .. (r - 1)) <= r - 1 - q
  <2>1. q + 1 \in Int /\ r - 1 \in Int
    BY <1>1
  <2>2. /\ IsFiniteSet((q + 1) .. (r - 1))
        /\ Cardinality((q + 1) .. (r - 1))
             = IF q + 1 > r - 1 THEN 0 ELSE r - 1 - (q + 1) + 1
    BY <2>1, FS_Interval, Zenon
  <2> QED
    BY <1>1, <2>2
<1>6. /\ IsFiniteSet(between) /\ Cardinality(between) \in Nat
      /\ Cardinality(between) <= r - 1 - q
  <2>1. /\ IsFiniteSet(between)
        /\ Cardinality(between) <= Cardinality((q + 1) .. (r - 1))
    BY <1>4, <1>5, FS_Subset, Zenon
  <2>2. Cardinality(between) \in Nat /\ Cardinality((q + 1) .. (r - 1)) \in Nat
    BY <1>5, <2>1, FS_CardinalityType, Zenon
  <2> QED
    BY <1>1, <1>5, <2>1, <2>2
<1>7. Cardinality(FullBelow(b, r) \cup between)
        = Cardinality(FullBelow(b, r)) + Cardinality(between)
  BY <1>3, <1>6, FullBelowSize, Apart
<1>8. Cardinality(FullBelow(b, q)) = Cardinality(FullBelow(b, r)) + Cardinality(between)
  BY <1>2, <1>7
<1> QED
  BY <1>1, <1>6, <1>8, FullBelowSize

LEMMA ClearedFills ==
  ASSUME NEW b, BoardOK(b)
  PROVE  /\ BoardOK(Cleared(b))
         /\ Cardinality(FullRows(b)) \in Nat
         /\ Cardinality(Filled(b))
              = Cardinality(Filled(Cleared(b))) + Cols * Cardinality(FullRows(b))
<1> DEFINE stays == {x \in Filled(b) : x[1] \notin FullRows(b)}
           goes == FullRows(b) \X ColIdx
           sunk == [x \in stays |-> << SinksTo(b, x[1]), x[2] >>]
<1>1. BoardOK(Cleared(b))
  BY DEF BoardOK, Cleared
<1>2. IsFiniteSet(FullRows(b)) /\ Cardinality(FullRows(b)) \in Nat
  <2>1. FullRows(b) \in SUBSET RowIdx
    BY DEF FullRows
  <2> QED
    BY <2>1, Sizes, FS_Subset, FS_CardinalityType
<1>3. IsFiniteSet(goes) /\ Cardinality(goes) = Cardinality(FullRows(b)) * Cols
  BY <1>2, Sizes, FS_Product
<1>4. IsFiniteSet(stays) /\ Cardinality(stays) \in Nat
  BY FilledFinite, FS_Subset, FS_CardinalityType
<1>5. Filled(b) = stays \cup goes /\ stays \cap goes = {}
  BY DEF BoardOK, Filled, FullRows
<1>6. Cardinality(Filled(b)) = Cardinality(stays) + Cardinality(goes)
  <2> HIDE DEF stays, goes
  <2>1. Cardinality(stays \cup goes) = Cardinality(stays) + Cardinality(goes)
    BY <1>3, <1>4, <1>5, Apart, Zenon
  <2> QED
    BY <1>5, <2>1
<1>7. \A x \in stays : /\ x = << x[1], x[2] >> /\ x[1] \in RowIdx \ FullRows(b)
                       /\ x[2] \in ColIdx /\ x[2] \in b[x[1]]
  BY DEF Filled
<1>8. sunk \in [stays -> Filled(Cleared(b))]
  <2> SUFFICES ASSUME NEW x \in stays
               PROVE  << SinksTo(b, x[1]), x[2] >> \in Filled(Cleared(b))
    OBVIOUS
  <2>1. SinksTo(b, x[1]) \in RowIdx /\ x[2] \in ColIdx
    BY <1>7, FullBelowSize
  <2>2. x[2] \in Cleared(b)[SinksTo(b, x[1])]
    BY <1>7, <2>1 DEF Cleared
  <2> QED
    BY <2>1, <2>2 DEF Filled
<1>9. ASSUME NEW x \in stays, NEW y \in stays, sunk[x] = sunk[y]
      PROVE  x = y
  <2>1. SinksTo(b, x[1]) = SinksTo(b, y[1]) /\ x[2] = y[2]
    BY <1>9
  <2>2. x[1] \in Int /\ y[1] \in Int
    BY <1>7 DEF RowIdx
  <2>3. SinksTo(b, x[1]) \in Int /\ SinksTo(b, y[1]) \in Int
    BY <1>7, FullBelowSize DEF RowIdx
  <2>4. ~(x[1] < y[1]) /\ ~(y[1] < x[1])
    BY <1>7, <2>1, <2>3, SinkingKeepsOrder
  <2> QED
    BY <1>7, <2>1, <2>2, <2>4
<1>10. ASSUME NEW z \in Filled(Cleared(b))
       PROVE  \E x \in stays : sunk[x] = z
  <2>1. z = << z[1], z[2] >> /\ z[1] \in RowIdx /\ z[2] \in ColIdx /\ z[2] \in Cleared(b)[z[1]]
    BY DEF Filled
  <2>2. PICK q \in RowIdx \ FullRows(b) : SinksTo(b, q) = z[1] /\ z[2] \in b[q]
    BY <2>1 DEF Cleared
  <2>3. << q, z[2] >> \in stays
    BY <2>1, <2>2 DEF Filled
  <2> QED
    BY <2>1, <2>2, <2>3
<1>11. Cardinality(Filled(Cleared(b))) = Cardinality(stays)
  <2> HIDE DEF stays, sunk
  <2>1. sunk \in Bijection(stays, Filled(Cleared(b)))
    BY <1>8, <1>9, <1>10, Fun_IsBij
  <2> QED
    BY <1>4, <2>1, FS_Bijection DEF ExistsBijection
<1> QED
  BY <1>1, <1>2, <1>3, <1>4, <1>6, <1>11, BoardAssumption

------------------------------------------------------------------------------
(* Conservation *)

Shape ==
  /\ BoardOK(board) /\ PieceOK(piece) /\ nextType \in Types
  /\ linesCleared \in Nat /\ locked \in Nat

(* The falling piece has to fit for its four cells to be new ones.          *)
Conserved == Shape /\ PieceFits /\ CellsConserved

LEMMA EnteringOK ==
  ASSUME NEW type \in Types
  PROVE  PieceOK(Entering(type))
<1>1. type \in 1 .. 7 /\ SpawnCol \in Int
  BY BoardAssumption DEF ColIdx
<1>2. 0 \in 0 .. Rotations(type) - 1
  BY <1>1, ShapeOf
<1> QED
  BY <1>1, <1>2 DEF PieceOK, Entering

LEMMA TurnedOK ==
  ASSUME NEW pc, PieceOK(pc)
  PROVE  PieceOK(Turned(pc))
<1>1. Rotations(pc.type) \in {1, 2, 4}
  BY ShapeOf, BoardAssumption DEF PieceOK
<1>2. (pc.rot + 1) % Rotations(pc.type) \in 0 .. Rotations(pc.type) - 1
  BY <1>1 DEF PieceOK
<1> QED
  BY <1>2 DEF PieceOK, Turned

LEMMA InitConserved == Init => Conserved
<1> SUFFICES ASSUME Init PROVE Conserved
  OBVIOUS
<1>1. Shape
  BY EnteringOK DEF Init, Shape, BoardOK, EmptyBoard
<1>2. Filled(board) = {}
  BY DEF Init, Filled, EmptyBoard
<1>3. CellsConserved
  BY <1>2, FS_EmptySet, BoardAssumption DEF Init, CellsConserved
<1> QED
  BY <1>1, <1>3, InitFits DEF Conserved

(* A piece that locks adds four cells, and each full row takes Cols away.   *)
LEMMA LockConserves ==
  ASSUME Shape, CellsConserved, NEW pc, PieceOK(pc), Fits(pc), Lock(pc)
  PROVE  Shape' /\ CellsConserved'
<1> DEFINE full == Cardinality(FullRows(Placed(pc)))
<1>1. /\ board' = Cleared(Placed(pc)) /\ linesCleared' = linesCleared + full
      /\ locked' = locked + 1 /\ piece' = Entering(nextType) /\ nextType' \in Types
  BY DEF Lock, Spawn
<1>2. /\ BoardOK(Placed(pc))
      /\ Cardinality(Filled(Placed(pc))) = Cardinality(Filled(board)) + 4
  BY PlacedFills DEF Shape
<1>3. /\ BoardOK(Cleared(Placed(pc))) /\ full \in Nat
      /\ Cardinality(Filled(Placed(pc)))
           = Cardinality(Filled(Cleared(Placed(pc)))) + Cols * full
  BY <1>2, ClearedFills
<1>4. Shape'
  <2>1. nextType \in Types /\ linesCleared \in Nat /\ locked \in Nat
    BY DEF Shape
  <2>2. PieceOK(Entering(nextType))
    BY <2>1, EnteringOK, Zenon
  <2>3. PieceOK(piece)'
    BY <1>1, <2>2 DEF PieceOK, Rotations
  <2>4. BoardOK(board)'
    BY <1>1, <1>3 DEF BoardOK
  <2>5. linesCleared' \in Nat /\ locked' \in Nat
    BY <1>1, <1>3, <2>1
  <2> QED
    BY <1>1, <2>3, <2>4, <2>5 DEF Shape
<1>5. Filled(board)' = Filled(Cleared(Placed(pc)))
  BY <1>1 DEF Filled
<1> DEFINE before == Cardinality(Filled(board))
           after == Cardinality(Filled(Cleared(Placed(pc))))
<1>6. before \in Nat /\ after \in Nat /\ Cols \in Nat /\ linesCleared \in Nat /\ locked \in Nat
  BY FilledFinite, BoardAssumption DEF Shape
<1>7. before + Cols * linesCleared = 4 * locked /\ before + 4 = after + Cols * full
  BY <1>2, <1>3 DEF CellsConserved
<1>8. Cols * (linesCleared + full) = Cols * linesCleared + Cols * full
  <2>1. \A x, y, z \in Nat : x * (y + z) = x * y + x * z
    OBVIOUS
  <2> QED
    BY <1>3, <1>6, <2>1, ZenonT(60)
<1>9. after + Cols * (linesCleared + full) = 4 * (locked + 1)
  <2> HIDE DEF before, after, full
  <2>1. Cols * linesCleared \in Nat /\ Cols * full \in Nat
    BY <1>3, <1>6
  <2> QED
    BY <1>3, <1>6, <1>7, <1>8, <2>1
<1>10. CellsConserved'
  BY <1>1, <1>5, <1>9 DEF CellsConserved
<1> QED
  BY <1>4, <1>10

LEMMA NextConserved == Conserved /\ [Next]_gameVars => Conserved'
<1> SUFFICES ASSUME Conserved, [Next]_gameVars PROVE Shape' /\ CellsConserved'
  BY NextFits DEF Conserved
<1>0. Shape /\ PieceFits /\ CellsConserved
  BY DEF Conserved
<1>1. ASSUME PieceOK(piece'), OnlyPiece PROVE Shape' /\ CellsConserved'
  BY <1>0, <1>1 DEF Shape, CellsConserved, OnlyPiece, BoardOK, PieceOK, Filled, Rotations
<1>2. ASSUME NEW dc \in {-1, 1}, Move(dc) PROVE Shape' /\ CellsConserved'
  BY <1>0, <1>1, <1>2, ShiftedPiece DEF Move, Shape
<1>3. CASE Rotate
  <2>1. PieceOK(Turned(piece))
    BY <1>0, TurnedOK DEF Shape
  <2> QED
    BY <1>1, <1>3, <2>1, ShiftedPiece DEF Rotate
<1>4. CASE Fall
  BY <1>0, <1>1, <1>4, ShiftedPiece DEF Fall, Shape
<1>5. CASE HardDrop
  <2>1. PieceOK(Landing(piece)) /\ Fits(Landing(piece))
    BY <1>0, <1>5, LandingFits DEF HardDrop, PieceFits, Shape
  <2> QED
    BY <1>0, <1>5, <2>1, LockConserves DEF HardDrop
<1>6. CASE status = "playing" /\ Lock(piece)
  BY <1>0, <1>6, LockConserves DEF PieceFits, Shape
<1>7. CASE TogglePause \/ UNCHANGED gameVars
  BY <1>0, <1>7 DEF TogglePause, gameVars, Shape, CellsConserved, BoardOK, PieceOK, Filled, Rotations
<1> QED
  BY <1>2, <1>3, <1>4, <1>5, <1>6, <1>7 DEF Next, SoftDrop, Tick

(* Whatever is played, the filled cells and those of the cleared lines are  *)
(* four for each piece that locked: locking overwrites no cell, and taking  *)
(* out the full rows loses no other (tetris_game.dart:122 to 176).          *)
THEOREM NothingIsLost == Spec => []CellsConserved
<1>1. Spec => []Conserved
  BY InitConserved, NextConserved, PTL DEF Spec
<1>2. Conserved => CellsConserved
  BY DEF Conserved
<1> QED
  BY <1>1, <1>2, PTL

------------------------------------------------------------------------------
(* Clearing keeps the order *)

(* A row that stays sinks to its place among those that stay, below as many *)
(* empty rows as were full.                                                 *)
LEMMA SinksBelowEmpty ==
  ASSUME NEW b, NEW r \in RowIdx \ FullRows(b)
  PROVE  /\ IsFiniteSet(StandingAbove(b, r)) /\ Cardinality(StandingAbove(b, r)) \in Nat
         /\ Cardinality(FullRows(b)) \in Nat
         /\ SinksTo(b, r) = Cardinality(FullRows(b)) + Cardinality(StandingAbove(b, r))
<1> DEFINE fullAbove == {q \in FullRows(b) : q < r}
           A == StandingAbove(b, r)
           B == FullBelow(b, r)
<1>1. r \in Nat /\ Rows \in Nat /\ r < Rows
  BY BoardAssumption DEF RowIdx
<1>2. IsFiniteSet(FullRows(b)) /\ IsFiniteSet(A) /\ IsFiniteSet(B) /\ IsFiniteSet(fullAbove)
  <2>1. FullRows(b) \in SUBSET RowIdx /\ A \in SUBSET RowIdx
    BY DEF FullRows, StandingAbove
  <2>2. IsFiniteSet(FullRows(b)) /\ IsFiniteSet(A)
    BY <2>1, Sizes, FS_Subset
  <2>3. fullAbove \in SUBSET FullRows(b) /\ B \in SUBSET FullRows(b)
    BY DEF FullBelow
  <2> HIDE DEF A, B, fullAbove
  <2> QED
    BY <2>2, <2>3, FS_Subset
<1>3. fullAbove \cup A = 0 .. (r - 1) /\ fullAbove \cap A = {}
  BY <1>1 DEF StandingAbove, FullRows, RowIdx
<1>4. FullRows(b) = fullAbove \cup B /\ fullAbove \cap B = {}
  BY <1>1 DEF FullBelow, FullRows, RowIdx
<1> HIDE DEF A, B, fullAbove
<1>5. Cardinality(A) \in Nat /\ Cardinality(B) \in Nat /\ Cardinality(fullAbove) \in Nat
  BY <1>2, FS_CardinalityType
<1>6. Cardinality(0 .. (r - 1)) = r
  <2>1. 0 \in Int /\ r - 1 \in Int
    BY <1>1
  <2>2. Cardinality(0 .. (r - 1)) = IF 0 > r - 1 THEN 0 ELSE r - 1 - 0 + 1
    BY <2>1, FS_Interval, Zenon
  <2> QED
    BY <1>1, <2>2
<1>7. Cardinality(fullAbove) + Cardinality(A) = r
  <2>1. Cardinality(fullAbove \cup A) = Cardinality(fullAbove) + Cardinality(A)
    BY <1>2, <1>3, Apart, Zenon
  <2> QED
    BY <1>3, <1>6, <2>1
<1>8. Cardinality(FullRows(b)) = Cardinality(fullAbove) + Cardinality(B)
  <2>1. Cardinality(fullAbove \cup B) = Cardinality(fullAbove) + Cardinality(B)
    BY <1>2, <1>4, Apart, Zenon
  <2> QED
    BY <1>4, <2>1
<1>9. SinksTo(b, r) = r + Cardinality(B)
  BY FullBelowSize DEF B
<1>10. /\ Cardinality(FullRows(b)) \in Nat
       /\ SinksTo(b, r) = Cardinality(FullRows(b)) + Cardinality(A)
  BY <1>1, <1>5, <1>7, <1>8, <1>9
<1> QED
  BY <1>2, <1>5, <1>10 DEF A

(* The rows of a cleared board: empty ones above, then those that stay.     *)
LEMMA ClearedRows ==
  ASSUME NEW b, BoardOK(b)
  PROVE  /\ \A r \in RowIdx : r < Cardinality(FullRows(b)) => Cleared(b)[r] = {}
         /\ \A r \in RowIdx \ FullRows(b) :
              Cleared(b)[Cardinality(FullRows(b)) + Cardinality(StandingAbove(b, r))] = b[r]
         /\ FullRows(Cleared(b)) = {}
<1> DEFINE from(r) == {k \in RowIdx \ FullRows(b) : SinksTo(b, k) = r}
<1>1. \A r \in RowIdx : Cleared(b)[r] = UNION {b[q] : q \in from(r)}
  BY DEF Cleared
<1>2. ASSUME NEW r \in RowIdx, r < Cardinality(FullRows(b)) PROVE Cleared(b)[r] = {}
  <2>1. ASSUME NEW k \in RowIdx \ FullRows(b) PROVE SinksTo(b, k) # r
    <3>1. r \in Int
      BY DEF RowIdx
    <3> QED
      BY <1>2, <3>1, SinksBelowEmpty
  <2>2. from(r) = {}
    BY <2>1
  <2> QED
    BY <1>1, <2>2
<1>3. ASSUME NEW k \in RowIdx \ FullRows(b)
      PROVE  SinksTo(b, k) \in RowIdx /\ Cleared(b)[SinksTo(b, k)] = b[k]
  <2>1. SinksTo(b, k) \in RowIdx
    BY FullBelowSize
  <2>2. ASSUME NEW q \in RowIdx \ FullRows(b), SinksTo(b, q) = SinksTo(b, k) PROVE q = k
    <3>1. q \in Int /\ k \in Int /\ SinksTo(b, k) \in Int
      BY <2>1 DEF RowIdx
    <3>2. ~(q < k) /\ ~(k < q)
      BY <2>2, <3>1, SinkingKeepsOrder
    <3> QED
      BY <3>1, <3>2
  <2>3. from(SinksTo(b, k)) = {k}
    BY <2>2
  <2>4. Cleared(b)[SinksTo(b, k)] = UNION {b[q] : q \in {k}}
    BY <1>1, <2>1, <2>3
  <2> QED
    BY <2>1, <2>4
<1>4. ASSUME NEW r \in RowIdx PROVE Cleared(b)[r] # ColIdx
  <2>1. CASE from(r) = {}
    <3>1. Cleared(b)[r] = {}
      BY <1>1, <2>1
    <3>2. 0 \in ColIdx
      BY BoardAssumption DEF ColIdx
    <3> QED
      BY <3>1, <3>2
  <2>2. CASE from(r) # {}
    <3>1. PICK k \in RowIdx \ FullRows(b) : SinksTo(b, k) = r
      BY <2>2
    <3>2. Cleared(b)[r] = b[k]
      BY <1>3, <3>1
    <3> QED
      BY <3>1, <3>2 DEF FullRows
  <2> QED
    BY <2>1, <2>2
<1>5. FullRows(Cleared(b)) = {}
  BY <1>4 DEF FullRows
<1> QED
  BY <1>2, <1>3, <1>5, SinksBelowEmpty

(* A piece completes at most as many rows as it has cells.                  *)
LEMMA FourRowsAtMost ==
  ASSUME NEW pc, PieceOK(pc), Fits(pc), BoardOK(board), FullRows(board) = {}
  PROVE  Cardinality(FullRows(Placed(pc))) \in 0 .. 4
<1> DEFINE rowOf == [c \in Cells(pc) |-> c[1]]
           rows == {rowOf[c] : c \in Cells(pc)}
<1>1. ASSUME NEW r \in FullRows(Placed(pc)) PROVE r \in rows
  <2>1. r \in RowIdx /\ Placed(pc)[r] = ColIdx /\ board[r] # ColIdx /\ board[r] \subseteq ColIdx
    BY DEF FullRows, BoardOK
  <2>2. PICK c \in ColIdx : c \notin board[r]
    BY <2>1
  <2>3. << r, c >> \in Cells(pc)
    BY <2>1, <2>2 DEF Placed
  <2>4. rowOf[<< r, c >>] = r
    BY <2>3
  <2> QED
    BY <2>3, <2>4
<1>2. IsFiniteSet(Cells(pc)) /\ Cardinality(Cells(pc)) = 4
  BY FourOfPiece
<1>3. rowOf \in [Cells(pc) -> rows] /\ \A r \in rows : \E c \in Cells(pc) : rowOf[c] = r
  OBVIOUS
<1> HIDE DEF rowOf, rows
<1>4. rowOf \in Surjection(Cells(pc), rows)
  BY <1>3, Fun_IsSurj
<1>5. IsFiniteSet(rows) /\ Cardinality(rows) <= 4
  BY <1>2, <1>4, FS_Surjection
<1>6. IsFiniteSet(FullRows(Placed(pc))) /\ Cardinality(FullRows(Placed(pc))) <= Cardinality(rows)
  BY <1>1, <1>5, FS_Subset
<1> QED
  BY <1>5, <1>6, FS_CardinalityType

(* A piece that cannot fall lands where it is.                              *)
LEMMA LandsHere ==
  ASSUME NEW pc, PieceOK(pc), Fits(pc), ~CanFall(pc)
  PROVE  Landing(pc) = pc
<1> DEFINE lands(q) == /\ Fits(q) /\ ~CanFall(q)
                       /\ \A i \in 0 .. q.row - pc.row : Fits(Shifted(pc, i, 0))
           places == {Shifted(pc, i, 0) : i \in 0 .. Rows}
<1>1. Shifted(pc, 0, 0) = pc
  <2>1. pc \in [type : Types, rot : Int, row : Int, col : Int]
    BY DEF PieceOK
  <2>2. pc.row + 0 = pc.row /\ pc.col + 0 = pc.col
    BY <2>1
  <2> QED
    BY <2>1, <2>2 DEF Shifted
<1>2. pc \in places /\ lands(pc)
  <2>1. 0 \in 0 .. Rows
    BY BoardAssumption
  <2>2. pc \in places
    BY <1>1, <2>1
  <2>3. \A i \in 0 .. pc.row - pc.row : i = 0
    BY DEF PieceOK
  <2> QED
    BY <1>1, <2>2, <2>3
<1>3. ASSUME NEW q \in places, lands(q) PROVE q = pc
  <2>1. PICK n \in 0 .. Rows : q = Shifted(pc, n, 0)
    OBVIOUS
  <2>2. q.row - pc.row = n
    BY <2>1, ShiftedPiece DEF PieceOK
  <2>3. ~Fits(Shifted(pc, 1, 0))
    BY DEF CanFall
  <2>4. n = 0
    <3>1. ~(1 \in 0 .. n)
      BY <1>3, <2>2, <2>3
    <3> QED
      BY <3>1, BoardAssumption
  <2> QED
    BY <1>1, <2>1, <2>4
<1>4. Landing(pc) = CHOOSE q \in places : lands(q)
  BY DEF Landing
<1> HIDE DEF places, lands
<1> QED
  BY <1>2, <1>3, <1>4

(* No row stays full: what a piece completes goes at once.                  *)
Ordered == Conserved /\ FullRows(board) = {}

InOrder ==
  LET b == Placed(Landing(piece))
      full == Cardinality(FullRows(b))
  IN  /\ linesCleared' - linesCleared \in 0 .. 4
      /\ \A r \in 0 .. full - 1 : board'[r] = {}
      /\ \A r \in RowIdx \ FullRows(b) :
           board'[full + Cardinality(StandingAbove(b, r))] = b[r]

LEMMA InitOrdered == Init => Ordered
<1> SUFFICES ASSUME Init PROVE FullRows(board) = {}
  BY InitConserved DEF Ordered
<1>1. 0 \in ColIdx
  BY BoardAssumption DEF ColIdx
<1> QED
  BY <1>1 DEF Init, EmptyBoard, FullRows

LEMMA LockInOrder ==
  ASSUME Ordered, NEW pc, PieceOK(pc), Fits(pc), Lock(pc)
  PROVE  /\ FullRows(board') = {}
         /\ pc = Landing(piece) => InOrder
<1> DEFINE b == Placed(pc)
           full == Cardinality(FullRows(b))
<1>1. BoardOK(board) /\ FullRows(board) = {} /\ linesCleared \in Nat
  BY DEF Ordered, Conserved, Shape
<1>2. BoardOK(b) /\ full \in 0 .. 4
  BY <1>1, PlacedFills, FourRowsAtMost
<1>3. board' = Cleared(b) /\ linesCleared' = linesCleared + full
  BY DEF Lock
<1> HIDE DEF b, full
<1>4. full = Cardinality(FullRows(b))
  BY DEF full
<1>5. /\ \A r \in RowIdx : r < full => Cleared(b)[r] = {}
      /\ \A r \in RowIdx \ FullRows(b) : Cleared(b)[full + Cardinality(StandingAbove(b, r))] = b[r]
      /\ FullRows(Cleared(b)) = {}
  BY <1>2, <1>4, ClearedRows
<1>6. \A r \in 0 .. full - 1 : r \in RowIdx /\ r < full
  <2>1. full <= Rows
    <3>1. FullRows(b) \in SUBSET RowIdx
      BY DEF FullRows
    <3>2. full <= Rows
      BY <1>4, <3>1, Sizes, FS_Subset
    <3> QED
      BY <3>2
  <2> QED
    BY <1>2, <2>1, BoardAssumption DEF RowIdx
<1>7. linesCleared' - linesCleared \in 0 .. 4
  BY <1>1, <1>2, <1>3
<1>8. \A r \in 0 .. full - 1 : board'[r] = {}
  BY <1>3, <1>5, <1>6
<1>9. \A r \in RowIdx \ FullRows(b) : board'[full + Cardinality(StandingAbove(b, r))] = b[r]
  BY <1>3, <1>5
<1>10. pc = Landing(piece) => b = Placed(Landing(piece))
  BY DEF b
<1>11. pc = Landing(piece) => InOrder
  BY <1>4, <1>7, <1>8, <1>9, <1>10 DEF InOrder
<1> QED
  BY <1>3, <1>5, <1>11

LEMMA NextOrdered ==
  ASSUME Ordered, [Next]_gameVars
  PROVE  FullRows(board') = {} /\ (locked' > locked => InOrder)
<1>1. PieceOK(piece) /\ PieceFits /\ locked \in Nat /\ FullRows(board) = {}
  BY DEF Ordered, Conserved, Shape
<1>2. ASSUME board' = board, locked' = locked PROVE FullRows(board') = {} /\ ~(locked' > locked)
  BY <1>1, <1>2
<1>3. CASE HardDrop
  <2>1. PieceOK(Landing(piece)) /\ Fits(Landing(piece))
    BY <1>1, <1>3, LandingFits DEF HardDrop, PieceFits
  <2> QED
    BY <1>3, <2>1, LockInOrder DEF HardDrop
<1>4. CASE status = "playing" /\ ~CanFall(piece) /\ Lock(piece)
  <2>1. Fits(piece) /\ Landing(piece) = piece
    BY <1>1, <1>4, LandsHere DEF PieceFits
  <2> QED
    BY <1>1, <1>4, <2>1, LockInOrder
<1> QED
  BY <1>2, <1>3, <1>4 DEF Next, SoftDrop, Tick, Move, Rotate, Fall, TogglePause, OnlyPiece, gameVars

LEMMA OrderedHolds == Spec => []Ordered
<1>1. Ordered /\ [Next]_gameVars => Ordered'
  BY NextOrdered, NextConserved DEF Ordered, FullRows
<1> QED
  BY <1>1, InitOrdered, PTL DEF Spec

(* Every piece that locks, by a tick or by a hard drop, completes at most   *)
(* four rows, which go at once, and the rows that stay keep their order     *)
(* under as many empty ones (_clearLines, tetris_game.dart:164 to 178).     *)
THEOREM RowsKeepOrder == Spec => ClearsInOrder
<1>1. Ordered /\ [Next]_gameVars => [locked' > locked => InOrder]_gameVars
  BY NextOrdered
<1>2. ClearsInOrder <=> [][locked' > locked => InOrder]_gameVars
  BY DEF ClearsInOrder, InOrder
<1> QED
  BY <1>1, <1>2, OrderedHolds, PTL DEF Spec

------------------------------------------------------------------------------
(* The level and its pace *)

LevelOf(lines) == lines \div LinesPerLevel + 1

LEMMA LevelGrows ==
  ASSUME NEW m \in Nat, NEW n \in Nat, m <= n
  PROVE  LevelOf(m) \in Nat /\ LevelOf(m) <= LevelOf(n)
<1> DEFINE k == LinesPerLevel
           p == m \div k
           q == n \div k
<1>1. k \in Nat /\ k > 0
  BY BoardAssumption
<1>2. p \in Nat /\ q \in Nat
  BY <1>1
<1>3. k * p <= m /\ n < k * (q + 1)
  BY <1>1
<1> HIDE DEF k, p, q
<1>4. p <= q
  <2> SUFFICES ASSUME q + 1 <= p PROVE FALSE
    BY <1>2
  <2>1. k * (q + 1) <= k * p
    BY <1>1, <1>2
  <2>2. k * (q + 1) \in Nat /\ k * p \in Nat
    BY <1>1, <1>2
  <2> QED
    BY <1>3, <2>1, <2>2
<1> QED
  BY <1>2, <1>4 DEF LevelOf, p, q, k

LEMMA PaceFalls ==
  ASSUME NEW l \in Nat, NEW m \in Nat, l <= m
  PROVE  TickMs(l) \in Nat \ {0} /\ TickMs(m) <= TickMs(l)
  BY DEF TickMs

------------------------------------------------------------------------------
(* The timer and the pace *)

PaceInv ==
  /\ status \in {"playing", "paused", "gameOver"}
  /\ linesCleared \in Nat /\ level = LevelOf(linesCleared)
  /\ period \in Nat
  /\ TimerIffPlaying /\ NeverTooFast

(* What a step of the engine may do to the lines, the level and the status. *)
Progress ==
  /\ linesCleared' \in Nat /\ linesCleared <= linesCleared'
  /\ level' = LevelOf(linesCleared')
  /\ status' \in {status, "gameOver"}

LEMMA LockProgress ==
  ASSUME PaceInv, NEW pc, Lock(pc)
  PROVE  Progress
<1> DEFINE full == Cardinality(FullRows(Placed(pc)))
<1>1. FullRows(Placed(pc)) \in SUBSET RowIdx
  BY DEF FullRows
<1>2. full \in Nat
  BY <1>1, Sizes, FS_Subset, FS_CardinalityType
<1>3. /\ linesCleared' = linesCleared + full
      /\ level' = linesCleared' \div LinesPerLevel + 1
      /\ status' \in {status, "gameOver"}
  BY DEF Lock, Spawn
<1> QED
  BY <1>2, <1>3 DEF PaceInv, Progress, LevelOf

LEMMA EngineProgress ==
  ASSUME PaceInv, Tick \/ HardDrop \/ UNCHANGED gameVars
  PROVE  Progress
<1>1. ASSUME UNCHANGED << linesCleared, level, status >>
      PROVE  Progress
  BY <1>1 DEF Progress, PaceInv
<1> QED
  BY <1>1, LockProgress DEF Tick, HardDrop, Fall, OnlyPiece, gameVars

LEMMA ProgressPace ==
  ASSUME PaceInv, Progress
  PROVE  /\ level \in Nat /\ level' \in Nat
         /\ TickMs(level') \in Nat \ {0} /\ TickMs(level') <= TickMs(level)
<1>1. /\ LevelOf(linesCleared) \in Nat /\ LevelOf(linesCleared') \in Nat
      /\ LevelOf(linesCleared) <= LevelOf(linesCleared')
  BY LevelGrows DEF PaceInv, Progress
<1> QED
  BY <1>1, PaceFalls DEF PaceInv, Progress

LEMMA NewGamePace ==
  ASSUME open, open' = open, StartNewGame
  PROVE  PaceInv'
<1>1. LevelOf(0) = 1
  BY BoardAssumption DEF LevelOf
<1>2. TickMs(1) \in Nat \ {0} /\ TickMs(1) <= TickMs(1)
  BY PaceFalls
<1> QED
  BY <1>1, <1>2 DEF StartNewGame, NewGame, PaceInv, TimerIffPlaying, NeverTooFast, TickMs, LevelOf

LEMMA SamePace ==
  ASSUME PaceInv, UNCHANGED << linesCleared, level, status, open, period >>
  PROVE  PaceInv'
  BY DEF PaceInv, TimerIffPlaying, NeverTooFast, LevelOf, TickMs

LEMMA DisposePace ==
  ASSUME PaceInv, UNCHANGED gameVars, Dispose
  PROVE  PaceInv'
  BY DEF PaceInv, TimerIffPlaying, NeverTooFast, LevelOf, TickMs, Dispose, gameVars

LEMMA InitPace == ScreenInit => PaceInv
<1>1. LevelOf(0) = 1
  BY BoardAssumption DEF LevelOf
<1>2. TickMs(1) \in Nat \ {0} /\ TickMs(1) <= TickMs(1)
  BY PaceFalls
<1> QED
  BY <1>1, <1>2 DEF ScreenInit, Init, PaceInv, TimerIffPlaying, NeverTooFast

(* The timer only fires while a game is played on an open screen.           *)
LEMMA TimerPace ==
  ASSUME PaceInv, TimerFires
  PROVE  PaceInv'
<1>1. open /\ period # 0 /\ status = "playing" /\ open' = open /\ Tick
  BY DEF TimerFires, PaceInv, TimerIffPlaying, Unless
<1>2. Progress
  BY <1>1, EngineProgress
<1>3. /\ level \in Nat /\ level' \in Nat
      /\ TickMs(level') \in Nat \ {0} /\ TickMs(level') <= TickMs(level)
  BY <1>2, ProgressPace
<1>4. CASE status' = "gameOver"
  BY <1>2, <1>4 DEF TimerFires, ShowGameOver, PaceInv, Progress, TimerIffPlaying, NeverTooFast, LevelOf
<1>5. CASE status' # "gameOver"
  <2>1. status' = "playing" /\ period' \in {period, TickMs(level')}
        /\ (level' = level \/ period' = TickMs(level'))
    BY <1>1, <1>2, <1>5 DEF TimerFires, Progress
  <2>2. period' \in Nat \ {0} /\ period' >= TickMs(level')
    BY <1>1, <1>3, <2>1 DEF PaceInv, NeverTooFast
  <2>3. TimerIffPlaying' /\ NeverTooFast'
    BY <1>1, <2>1, <2>2 DEF TimerIffPlaying, NeverTooFast, TickMs
  <2> QED
    BY <1>2, <2>1, <2>2, <2>3 DEF PaceInv, Progress, LevelOf
<1> QED
  BY <1>4, <1>5

(* A hard drop leaves the pace as it was, which a higher level only makes   *)
(* slower than it should be.                                                *)
LEMMA DropPace ==
  ASSUME PaceInv, open, Drop
  PROVE  PaceInv'
<1>1. HardDrop \/ UNCHANGED gameVars
  BY DEF Drop, Unless
<1>2. Progress
  BY <1>1, EngineProgress
<1>3. /\ level \in Nat /\ level' \in Nat
      /\ TickMs(level') \in Nat \ {0} /\ TickMs(level') <= TickMs(level)
      /\ TickMs(level) \in Nat
  BY <1>2, ProgressPace, PaceFalls
<1>4. CASE status' = "gameOver"
  BY <1>2, <1>4 DEF Drop, ShowGameOver, PaceInv, Progress, TimerIffPlaying, NeverTooFast, LevelOf
<1>5. CASE status' # "gameOver"
  <2>1. status' = status /\ period' = period /\ open' = open
    BY <1>2, <1>5 DEF Drop, Progress
  <2>2. TimerIffPlaying'
    BY <2>1 DEF PaceInv, TimerIffPlaying
  <2>3. period # 0 => period >= TickMs(level')
    BY <1>3 DEF PaceInv, NeverTooFast
  <2>4. NeverTooFast'
    BY <2>1, <2>3 DEF NeverTooFast, TickMs
  <2> QED
    BY <1>2, <2>1, <2>2, <2>4 DEF PaceInv, Progress, LevelOf
<1> QED
  BY <1>4, <1>5

LEMMA PausePace ==
  ASSUME PaceInv, open, Pause
  PROVE  PaceInv'
<1>1. /\ UNCHANGED << linesCleared, level, open >>
      /\ status' \in {"playing", "paused", "gameOver"}
      /\ period' = IF status' = "playing" THEN TickMs(level) ELSE 0
  BY DEF Pause, Unless, TogglePause, gameVars, PaceInv
<1>2. level \in Nat /\ TickMs(level) \in Nat \ {0} /\ TickMs(level) >= TickMs(level)
  BY LevelGrows, PaceFalls DEF PaceInv
<1> QED
  BY <1>1, <1>2 DEF PaceInv, TimerIffPlaying, NeverTooFast, LevelOf, TickMs

LEMMA NextPace == PaceInv /\ [ScreenNext]_allVars => PaceInv'
<1> SUFFICES ASSUME PaceInv, [ScreenNext]_allVars PROVE PaceInv'
  OBVIOUS
<1>1. CASE TimerFires
  BY <1>1, TimerPace
<1>2. CASE Steer
  BY <1>2, SamePace DEF Steer, Move, Rotate, SoftDrop, Fall, OnlyPiece, screenVars
<1>3. CASE KeySpace \/ DropButton
  BY <1>3, DropPace DEF KeySpace, DropButton, Touchable
<1>4. CASE PressPause
  BY <1>4, PausePace DEF PressPause
<1>5. CASE Refresh \/ PlayAgain
  BY <1>5, NewGamePace DEF Refresh, PlayAgain, Touchable
<1>6. CASE MainMenu \/ Back
  BY <1>6, DisposePace, SamePace DEF MainMenu, Back, gameVars
<1>7. CASE Frame \/ UNCHANGED allVars
  BY <1>7, SamePace DEF Frame, allVars, gameVars, screenVars
<1> QED
  BY <1>1, <1>2, <1>3, <1>4, <1>5, <1>6, <1>7 DEF ScreenNext

(* The timer lives exactly while an open screen plays, whichever of the     *)
(* ticks, keys, buttons and dialogs started or ended the game               *)
(* (tetris_screen.dart:57 to 142).                                          *)
THEOREM TimerLives == ScreenSpec => []TimerIffPlaying
<1>1. ScreenSpec => []PaceInv
  BY InitPace, NextPace, PTL DEF ScreenSpec
<1>2. PaceInv => TimerIffPlaying
  BY DEF PaceInv
<1> QED
  BY <1>1, <1>2, PTL

(* No restart, pause or hard drop leaves a pace faster than the level's.    *)
THEOREM PaceBounded == ScreenSpec => []NeverTooFast
<1>1. ScreenSpec => []PaceInv
  BY InitPace, NextPace, PTL DEF ScreenSpec
<1>2. PaceInv => NeverTooFast
  BY DEF PaceInv
<1> QED
  BY <1>1, <1>2, PTL

------------------------------------------------------------------------------
(* The screen plays the game *)

(* What the screen does to the game is a step of the game or a new game.    *)
LEMMA ScreenStep == [ScreenNext]_allVars => [Next \/ NewGame]_gameVars
<1> SUFFICES ASSUME [ScreenNext]_allVars PROVE [Next \/ NewGame]_gameVars
  OBVIOUS
<1>1. CASE TimerFires
  BY <1>1 DEF TimerFires, Unless, Next
<1>2. CASE Steer
  BY <1>2 DEF Steer, Next
<1>3. CASE KeySpace \/ DropButton
  BY <1>3 DEF KeySpace, DropButton, Drop, Unless, Next
<1>4. CASE PressPause
  BY <1>4 DEF PressPause, Pause, Unless, Next
<1>5. CASE Refresh \/ PlayAgain
  BY <1>5 DEF Refresh, PlayAgain, StartNewGame
<1>6. CASE MainMenu \/ Back \/ Frame \/ UNCHANGED allVars
  BY <1>6 DEF MainMenu, Back, Frame, allVars
<1> QED
  BY <1>1, <1>2, <1>3, <1>4, <1>5, <1>6 DEF ScreenNext

LEMMA NewGameConserved == NewGame => Conserved'
<1> SUFFICES ASSUME NewGame PROVE Conserved'
  OBVIOUS
<1>1. PieceFits'
  BY RoomToEnter DEF NewGame, PieceFits, Fits, Valid, InBounds
<1>2. Shape'
  <2>1. PICK type \in Types : piece' = Entering(type)
    BY DEF NewGame
  <2>2. PieceOK(piece')
    BY <2>1, EnteringOK
  <2>3. PieceOK(piece)'
    BY <2>2 DEF PieceOK, Rotations
  <2>4. BoardOK(board)'
    BY DEF NewGame, BoardOK, EmptyBoard
  <2> QED
    BY <2>3, <2>4 DEF NewGame, Shape
<1>3. Filled(board') = {}
  BY DEF NewGame, Filled, EmptyBoard
<1>4. CellsConserved'
  <2>1. Filled(board)' = {}
    BY <1>3 DEF Filled
  <2> QED
    BY <2>1, FS_EmptySet, BoardAssumption DEF NewGame, CellsConserved
<1> QED
  BY <1>1, <1>2, <1>4 DEF Conserved

(* Timer, keys, buttons, dialogs and restarts only ever play the game by    *)
(* its rules, and what holds of the game holds on the screen: the falling   *)
(* piece fits and no cell is lost (tetris_screen.dart:39 to 181).           *)
THEOREM ScreenPlaysTheGame ==
  ScreenSpec => /\ Init /\ [][Next \/ NewGame]_gameVars
                /\ [](PieceFits /\ CellsConserved)
<1>1. ScreenInit => Init
  BY DEF ScreenInit
<1>2. Conserved /\ [Next \/ NewGame]_gameVars => Conserved'
  BY NextConserved, NewGameConserved
<1>3. Conserved => PieceFits /\ CellsConserved
  BY DEF Conserved
<1> QED
  BY <1>1, <1>2, <1>3, InitConserved, ScreenStep, PTL DEF ScreenSpec

Dialogs == dialogs \in Nat

LEMMA InitDialogs == ScreenInit => Dialogs
  BY DEF ScreenInit, Dialogs

LEMMA NextDialogs == Dialogs /\ [ScreenNext]_allVars => Dialogs'
  BY DEF Dialogs, ScreenNext, TimerFires, Steer, KeySpace, DropButton, Drop, PressPause, Pause,
         Refresh, PlayAgain, MainMenu, Back, Frame, ShowGameOver, allVars, screenVars

(* Only a piece that locks ends a game, and whoever let it lock says so.    *)
LEMMA EndIsSaid ==
  ASSUME Dialogs, [ScreenNext]_allVars, status # "gameOver", status' = "gameOver"
  PROVE  dialogs' > dialogs
<1>1. CASE TimerFires \/ KeySpace \/ DropButton
  BY <1>1 DEF TimerFires, KeySpace, DropButton, Drop, ShowGameOver, Dialogs
<1>2. CASE Steer
  BY <1>2 DEF Steer, Move, Rotate, SoftDrop, Fall, OnlyPiece
<1>3. CASE PressPause
  BY <1>3 DEF PressPause, Pause, Unless, TogglePause, gameVars
<1>4. CASE Refresh \/ PlayAgain
  BY <1>4 DEF Refresh, PlayAgain, StartNewGame, NewGame
<1>5. CASE MainMenu \/ Back \/ Frame \/ UNCHANGED allVars
  BY <1>5 DEF MainMenu, Back, Frame, allVars, gameVars
<1> QED
  BY <1>1, <1>2, <1>3, <1>4, <1>5 DEF ScreenNext

(* A game that ends is announced, whichever of the tick, the space bar and  *)
(* the DROP button locked its last piece (tetris_screen.dart:46 to 109 and  *)
(* 286 to 306).                                                             *)
THEOREM EveryEndAnnounced == ScreenSpec => GameOverAnnounced
<1>1. Dialogs /\ [ScreenNext]_allVars
        => [status # "gameOver" /\ status' = "gameOver" => dialogs' > dialogs]_allVars
  BY EndIsSaid
<1>2. ScreenSpec => []Dialogs
  BY InitDialogs, NextDialogs, PTL DEF ScreenSpec
<1> QED
  BY <1>1, <1>2, PTL DEF ScreenSpec, GameOverAnnounced

==============================================================================
