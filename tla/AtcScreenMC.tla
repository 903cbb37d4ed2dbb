----------------------------- MODULE AtcScreenMC -----------------------------
(***************************************************************************)
(* Small scenarios, keys and buttons for model checking AtcScreen.         *)
(***************************************************************************)
EXTENDS AtcScreen

Fix(px, py) == [x |-> px, y |-> py]
Way(px, py, d) == [x |-> px, y |-> py, dir |-> d]

None == << >>
NoCommands == {}

(* A strip two exits wide: a plane that nobody steers is soon lost.        *)
StripExits == << Way(0, 1, 2), Way(4, 1, 6) >>
(* The shortest strip: two cells between the exits.                        *)
TinyExits == << Way(0, 1, 2), Way(3, 1, 6) >>
TinyBeacons == << Fix(2, 1) >>

SelectKeys == {"Enter", "Escape", "a"}
CommandKeys == {"Enter", "a", "t", "b", "1"}
TapsAll ==
       [op : {"altitude"}, label : Labels, altitude : {9}]
  \cup [op : {"circle", "ignore", "unmark"}, label : Labels]

==============================================================================
