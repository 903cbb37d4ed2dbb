----------------------------- MODULE AtcGeometry -----------------------------
(***************************************************************************)
(* Compass arithmetic of the air traffic control game: the eight headings, *)
(* their displacements on the radar grid, and the heading that points from *)
(* one grid cell toward another (app/lib/screens/atc/scenario.dart).       *)
(***************************************************************************)
EXTENDS Integers

Dirs == 0 .. 7    \* 0 = N, 1 = NE, 2 = E, ... clockwise; y grows southward

Sign(n) == IF n > 0 THEN 1 ELSE IF n < 0 THEN -1 ELSE 0

Abs(n) == IF n < 0 THEN -n ELSE n

DirDx(dir) ==
  IF dir \in {1, 2, 3} THEN 1 ELSE IF dir \in {5, 6, 7} THEN -1 ELSE 0

DirDy(dir) ==
  IF dir \in {3, 4, 5} THEN 1 ELSE IF dir \in {7, 0, 1} THEN -1 ELSE 0

(***************************************************************************)
(* dirToward rounds atan2(dy, dx) / (pi/4) to the nearest octant.  A delta *)
(* lies in the octant of an axis when it is within pi/8 of it, that is     *)
(* when |across| * (1 + sqrt 2) < |along|; squaring keeps this exact, and  *)
(* sqrt 2 being irrational no integer delta sits on an octant's edge.      *)
(***************************************************************************)
NearAxis(along, across) ==
  /\ along > across
  /\ (along - across) * (along - across) > 2 * across * across

DirToward(fx, fy, tx, ty) ==
  LET dx == tx - fx
      dy == ty - fy
      sx == IF NearAxis(Abs(dy), Abs(dx)) THEN 0 ELSE Sign(dx)
      sy == IF NearAxis(Abs(dx), Abs(dy)) THEN 0 ELSE Sign(dy)
  IN  IF dx = 0 /\ dy = 0 THEN 0
      ELSE CHOOSE dir \in Dirs : DirDx(dir) = sx /\ DirDy(dir) = sy

==============================================================================
