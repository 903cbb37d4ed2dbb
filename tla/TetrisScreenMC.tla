---------------------------- MODULE TetrisScreenMC ---------------------------
(***************************************************************************)
(* A piece set for model checking TetrisScreen on a small board.           *)
(***************************************************************************)
EXTENDS TetrisScreen

Squares == {2}     \* O only: two of them clear two rows of four columns
==============================================================================
