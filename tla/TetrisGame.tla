----------------------------- MODULE TetrisGame ------------------------------
(***************************************************************************)
(* The game of Tetris (class TetrisGame in                                 *)
(* app/lib/screens/tetris/tetris_game.dart): a falling piece, the board it *)
(* locks into, the lines that are cleared, the level they raise, and the   *)
(* game that is over when a new piece finds no room.                       *)
(*                                                                         *)
(* The board gives for each row, 0 at the top, the set of filled columns:  *)
(* colours are left out, and so is the score.                              *)
(***************************************************************************)
EXTENDS Integers, Sequences, FiniteSets

CONSTANTS
  Rows, Cols,      \* 20 and 10 in the code
  SpawnCol,        \* 3 in the code
  Types,           \* the piece types in play: 1 .. 7 in the code
  LinesPerLevel,   \* 10 in the code
  MaxLines         \* bound: no piece locks that would clear more lines

VARIABLES
  board,           \* row -> set of filled columns
  piece,           \* the falling piece: type, rotation, row, column
  nextType,
  linesCleared, level,
  status,          \* TetrisStatus
  locked           \* history: number of pieces locked so far

gameVars ==
  << board, piece, nextType, linesCleared, level, status, locked >>

------------------------------------------------------------------------------

RowIdx == 0 .. Rows - 1
ColIdx == 0 .. Cols - 1

Pieces ==      \* type, then rotation: offsets from the bounding box's corner
  << << { <<0,0>>, <<1,0>>, <<2,0>>, <<3,0>> },                         \* I
        { <<0,0>>, <<0,1>>, <<0,2>>, <<0,3>> } >>,
     << { <<0,0>>, <<0,1>>, <<1,0>>, <<1,1>> } >>,                      \* O
     << { <<0,1>>, <<1,0>>, <<1,1>>, <<1,2>> },                         \* T
        { <<0,0>>, <<1,0>>, <<1,1>>, <<2,0>> },
        { <<0,0>>, <<0,1>>, <<0,2>>, <<1,1>> },
        { <<0,1>>, <<1,0>>, <<1,1>>, <<2,1>> } >>,
     << { <<0,1>>, <<0,2>>, <<1,0>>, <<1,1>> },                         \* S
        { <<0,0>>, <<1,0>>, <<1,1>>, <<2,1>> } >>,
     << { <<0,0>>, <<0,1>>, <<1,1>>, <<1,2>> },                         \* Z
        { <<0,1>>, <<1,0>>, <<1,1>>, <<2,0>> } >>,
     << { <<0,0>>, <<1,0>>, <<1,1>>, <<1,2>> },                         \* J
        { <<0,0>>, <<0,1>>, <<1,0>>, <<2,0>> },
        { <<0,0>>, <<0,1>>, <<0,2>>, <<1,2>> },
        { <<0,1>>, <<1,1>>, <<2,0>>, <<2,1>> } >>,
     << { <<0,2>>, <<1,0>>, <<1,1>>, <<1,2>> },                         \* L
        { <<0,0>>, <<1,0>>, <<2,0>>, <<2,1>> },
        { <<0,0>>, <<0,1>>, <<0,2>>, <<1,0>> },
        { <<0,0>>, <<0,1>>, <<1,1>>, <<2,1>> } >> >>

Rotations(type) == Len(Pieces[type])

Piece ==
  [type : Types, rot : 0 .. 3, row : RowIdx, col : ColIdx]

(* The piece as it enters: rotation 0 at the top.                          *)
Entering(type) == [type |-> type, rot |-> 0, row |-> 0, col |-> SpawnCol]

Cells(pc) ==
  {<< pc.row + c[1], pc.col + c[2] >> : c \in Pieces[pc.type][pc.rot + 1]}

InBounds(c) == c[1] \in RowIdx /\ c[2] \in ColIdx

Valid(pc, b) == \A c \in Cells(pc) : InBounds(c) /\ c[2] \notin b[c[1]]

EmptyBoard == [r \in RowIdx |-> {}]

ASSUME BoardAssumption ==
  /\ Rows \in Nat \ {0} /\ Cols \in Nat \ {0} /\ SpawnCol \in ColIdx
  /\ Types # {} /\ Types \subseteq 1 .. 7
  /\ LinesPerLevel \in Nat \ {0} /\ MaxLines \in Nat

ASSUME RoomToEnter == \A type \in Types : Valid(Entering(type), EmptyBoard)

------------------------------------------------------------------------------
(* Moves of the falling piece *)

Shifted(pc, dr, dc) == [pc EXCEPT !.row = @ + dr, !.col = @ + dc]

Fits(pc) == Valid(pc, board)

OnlyPiece == UNCHANGED << board, nextType, linesCleared, level, status, locked >>

Move(dc) ==                                       \* moveLeft, moveRight
  /\ status = "playing"
  /\ Fits(Shifted(piece, 0, dc))
  /\ piece' = Shifted(piece, 0, dc)
  /\ OnlyPiece

Turned(pc) == [pc EXCEPT !.rot = (@ + 1) % Rotations(pc.type)]

(* Variant: a wall kick moves the piece without testing the new place.     *)
RotateUnchecked ==
  /\ status = "playing"
  /\ piece' = IF Fits(Turned(piece)) THEN Turned(piece)
              ELSE Shifted(Turned(piece), 0, 1)
  /\ OnlyPiece

(* The first of straight, one column right, one column left that fits.     *)
Rotate ==
  /\ status = "playing"
  /\ \E kick \in {0, 1, -1} :
       /\ Fits(Shifted(Turned(piece), 0, kick))
       /\ kick # 0 => ~Fits(Turned(piece))
       /\ kick = -1 => ~Fits(Shifted(Turned(piece), 0, 1))
       /\ piece' = Shifted(Turned(piece), 0, kick)
  /\ OnlyPiece

CanFall(pc) == Fits(Shifted(pc, 1, 0))

Fall ==
  /\ CanFall(piece)
  /\ piece' = Shifted(piece, 1, 0)
  /\ OnlyPiece

------------------------------------------------------------------------------
(* Locking *)

Placed(pc) ==
  [r \in RowIdx |-> board[r] \cup {c \in ColIdx : << r, c >> \in Cells(pc)}]

FullRows(b) == {r \in RowIdx : b[r] = ColIdx}

(* Variant: stops at the topmost full row.                                 *)
ClearedOnce(b) ==
  IF FullRows(b) = {} THEN b
  ELSE LET top == CHOOSE r \in FullRows(b) : \A q \in FullRows(b) : r <= q
       IN  [r \in RowIdx |-> CASE r > top -> b[r]
                               [] r = 0   -> {}
                               [] OTHER   -> b[r - 1]]

(* _clearLines: the full rows are taken out and as many empty ones put on  *)
(* top, so a row that stays sinks by the number of full rows below it.     *)
SinksTo(b, r) == r + Cardinality({q \in FullRows(b) : q > r})

Cleared(b) ==
  [r \in RowIdx |->
     UNION {b[q] : q \in {k \in RowIdx \ FullRows(b) : SinksTo(b, k) = r}}]

Spawn(b) ==
  /\ piece' = Entering(nextType)
  /\ nextType' \in Types
  /\ status' = IF Valid(Entering(nextType), b) THEN status ELSE "gameOver"

Lock(pc) ==
  LET full == Cardinality(FullRows(Placed(pc)))
  IN  /\ linesCleared + full <= MaxLines
      /\ board' = Cleared(Placed(pc))
      /\ linesCleared' = linesCleared + full
      /\ level' = linesCleared' \div LinesPerLevel + 1
      /\ locked' = locked + 1
      /\ Spawn(Cleared(Placed(pc)))

SoftDrop == status = "playing" /\ Fall

(* Where the piece comes to rest when it falls straight down.              *)
Landing(pc) ==
  CHOOSE q \in {Shifted(pc, n, 0) : n \in 0 .. Rows} :
    /\ Fits(q) /\ ~CanFall(q)
    /\ \A n \in 0 .. q.row - pc.row : Fits(Shifted(pc, n, 0))

HardDrop == status = "playing" /\ Lock(Landing(piece))

(* Variant: a piece that cannot fall is left to the player.                *)
TickOnlyFalls == status = "playing" /\ Fall

Tick ==
  /\ status = "playing"
  /\ Fall \/ (~CanFall(piece) /\ Lock(piece))

TogglePause ==
  /\ status # "gameOver"
  /\ status' = IF status = "playing" THEN "paused" ELSE "playing"
  /\ UNCHANGED << board, piece, nextType, linesCleared, level, locked >>

------------------------------------------------------------------------------

NewGame ==                        \* the constructor
  /\ board' = EmptyBoard
  /\ \E type \in Types : piece' = Entering(type)
  /\ nextType' \in Types
  /\ linesCleared' = 0 /\ level' = 1 /\ status' = "playing" /\ locked' = 0

Init ==
  /\ board = EmptyBoard
  /\ \E type \in Types : piece = Entering(type)
  /\ nextType \in Types
  /\ linesCleared = 0 /\ level = 1 /\ status = "playing" /\ locked = 0

Next ==
  \/ \E dc \in {-1, 1} : Move(dc)
  \/ Rotate \/ SoftDrop \/ HardDrop \/ TogglePause \/ Tick

Spec == Init /\ [][Next]_gameVars

(* The screen's timer keeps ticking while the game is not paused or over.  *)
FairSpec == Spec /\ WF_gameVars(Tick)

------------------------------------------------------------------------------
(* Properties *)

(* The falling piece is on the board and overlaps nothing that is filled,  *)
(* whatever was done to it, until a new one finds no room.                 *)
PieceFits == status # "gameOver" => Fits(piece)

Filled(b) == {cell \in RowIdx \X ColIdx : cell[2] \in b[cell[1]]}

(* Nothing is lost or invented: the cells on the board and those of the    *)
(* cleared lines are four for each piece that was locked.                  *)
CellsConserved == Cardinality(Filled(board)) + Cols * linesCleared = 4 * locked

(* The rows that stay, above a row.                                        *)
StandingAbove(b, r) == {q \in RowIdx \ FullRows(b) : q < r}

(* One piece completes at most four rows, the last entry of the score      *)
(* table, and clearing keeps the other rows in order under as many empty   *)
(* ones (removeAt for each full row, then insert at 0): the first that     *)
(* stays is the first below the empty ones, the second the next.           *)
ClearsInOrder ==
  [][locked' > locked =>
       LET b == Placed(Landing(piece))
           full == Cardinality(FullRows(b))
       IN  /\ linesCleared' - linesCleared \in 0 .. 4
           /\ \A r \in 0 .. full - 1 : board'[r] = {}
           /\ \A r \in RowIdx \ FullRows(b) :
                board'[full + Cardinality(StandingAbove(b, r))] = b[r]
    ]_gameVars

AtBound == linesCleared + 4 > MaxLines

(* A piece does not hang in the air: moves and rotations never put off for *)
(* ever that it lands, unless the game is paused.                          *)
PieceLands ==
  \/ []<>(status # "playing" \/ AtBound)
  \/ []<><<locked' # locked>>_gameVars

==============================================================================
