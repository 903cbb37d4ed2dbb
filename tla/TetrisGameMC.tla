----------------------------- MODULE TetrisGameMC ----------------------------
(***************************************************************************)
(* Piece sets for model checking TetrisGame on small boards.               *)
(***************************************************************************)
EXTENDS TetrisGame

BarSquareSkew == {1, 2, 4}     \* I and O fill up to four rows at once,
                               \* S leaves holes and kicks off the walls
==============================================================================
