------------------------------ MODULE AtcGameMC ------------------------------
(***************************************************************************)
(* Small scenarios and command sets for model checking AtcGame.            *)
(***************************************************************************)
EXTENDS AtcGame

Fix(px, py) == [x |-> px, y |-> py]
Way(px, py, d) == [x |-> px, y |-> py, dir |-> d]

None == << >>

AltitudeCmds(alts) ==
  [op : {"altitude"}, label : Labels, altitude : alts]
TurnDirCmds(ds) == [op : {"turnDir"}, label : Labels, dir : ds]
CircleCmds == [op : {"circle"}, label : Labels]
DelayCmds(inner) ==
  [op : {"withDelay"}, label : Labels, inner : inner, beaconNo : {1}]

(* Corridor: two facing exits, far enough apart for a plane to enter at    *)
(* one while another is under way from the other: traffic meets head on.   *)
CorridorExits == << Way(0, 2, 2), Way(6, 2, 6) >>
CorridorCommands == AltitudeCmds({6, 9}) \cup TurnDirCmds({1})

(* Field: a plane, every kind of command, a beacon on its way, an airport *)
(* that a plane can circle down to, and an exit it can climb up to.        *)
FieldExits == << Way(0, 1, 2) >>
FieldAirports == << Way(2, 2, 6) >>
FieldBeacons == << Fix(2, 1) >>
FieldDelayable ==
       [op : {"turnLeft"}, label : Labels, steps : {1}]
  \cup [op : {"turnRight"}, label : Labels, steps : {3}]
  \cup [op : {"turnToward"}, label : Labels, dest : {<<"airport", 1>>}]
  \cup CircleCmds
FieldCommands ==
       AltitudeCmds({0, 9})
  \cup [op : {"altitudeRelative"}, label : Labels, delta : {-7}]
  \cup [op : {"unmark"}, label : Labels]
  \cup FieldDelayable
  \cup DelayCmds(FieldDelayable)
==============================================================================
