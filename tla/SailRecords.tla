---------------------------- MODULE SailRecords ----------------------------
(***************************************************************************)
(* The records sail's processes exchange and what a process does with one  *)
(* (sync.c: sync_update and the recv_ functions).  A process' copy of the  *)
(* game is a record, the view; Apply is the whole effect of one record.    *)
(*                                                                         *)
(* Most records give one field of one ship an absolute value; Fields names *)
(* the fields a model keeps.  The others count: fouls, grapples, people.   *)
(***************************************************************************)
EXTENDS Integers

CONSTANTS Ships,    \* the vessels of the scenario
          Fields    \* the fields of a ship that are kept

(* Fields of struct File and struct shipspecs that a record assigns.  "dir"  *)
(* is the only one another record looks at.                                  *)
AllFields ==
  {"captain", "captured", "class", "crew", "drift", "explode", "gunL", "gunR",
   "hull", "movebuf", "pcrew", "points", "qual", "rig1", "rig2", "rig3", "rig4",
   "col", "dir", "row", "sink", "struck", "ta", "FS"}

ASSUME SailFieldsAssumption == Fields \subseteq AllFields /\ "dir" \in Fields

NBP == 3          \* boarding parties of each kind a ship may have
NoParty == [turnsent |-> 0, toship |-> "none", mensent |-> 0]

(* The records: send_captain ... send_ddead.  An assignment carries the     *)
(* fields it sets with their values (W_RIGG sets four, W_CREW one triple    *)
(* that is one value here).                                                 *)
Assign(s, vals) == [kind |-> "ASSIGN", ship |-> s, vals |-> vals]
Foul(s, t) == [kind |-> "FOUL", ship |-> s, other |-> t]
Grap(s, t) == [kind |-> "GRAP", ship |-> s, other |-> t]
Unfoul(s, t, all) == [kind |-> "UNFOUL", ship |-> s, other |-> t, all |-> all]
Ungrap(s, t, all) == [kind |-> "UNGRAP", ship |-> s, other |-> t, all |-> all]
Obp(s, i, party) == [kind |-> "OBP", ship |-> s, slot |-> i, party |-> party]
Dbp(s, i, party) == [kind |-> "DBP", ship |-> s, slot |-> i, party |-> party]
Turn(n) == [kind |-> "TURN", n |-> n]
Wind(d, v) == [kind |-> "WIND", d |-> d, v |-> v]
Begin(s) == [kind |-> "BEGIN", ship |-> s]
Finish(s) == [kind |-> "END", ship |-> s]
Signal(s) == [kind |-> "SIGNAL", ship |-> s]
Alive == [kind |-> "ALIVE"]
Ddead == [kind |-> "DDEAD"]

(* Text that is no record: what Sync cannot read.                           *)
Garbled == [kind |-> "GARBLED"]

(* A record is of one of these kinds and about ships of the scenario.       *)
IsRecord(r) ==
  \/ r.kind \in {"TURN", "WIND", "ALIVE", "DDEAD"}
  \/ r.kind \in {"ASSIGN", "BEGIN", "END", "SIGNAL", "OBP", "DBP"} /\ r.ship \in Ships
  \/ r.kind \in {"FOUL", "GRAP"} /\ r.ship \in Ships /\ r.other \in Ships
  \/ r.kind \in {"UNFOUL", "UNGRAP"} /\ r.ship \in Ships /\ r.other \in Ships /\ r.all \in BOOLEAN

NoSnag == [sn_count |-> 0, sn_turn |-> 0]

(* The copy a process starts from: pl_main_init and dr_main. *)
NewView ==
  [turn |-> 0, winddir |-> 0, windspeed |-> 0, alive |-> FALSE, people |-> 0,
   hasdriver |-> TRUE,
   val |-> [s \in Ships |-> [f \in Fields |-> IF f = "dir" THEN 1 ELSE 0]],
   obp |-> [s \in Ships |-> [i \in 1..NBP |-> NoParty]],
   dbp |-> [s \in Ships |-> [i \in 1..NBP |-> NoParty]],
   foul |-> [s \in Ships |-> [t \in Ships |-> NoSnag]],
   grap |-> [s \in Ships |-> [t \in Ships |-> NoSnag]],
   nfoul |-> [s \in Ships |-> 0], ngrap |-> [s \in Ships |-> 0]]

(* recv_sink and recv_explode take the ship off the map when it is gone. *)
Gone(vals) == \E f \in {"sink", "explode"} \cap DOMAIN vals : vals[f] = 2

Assigned(old, vals) ==
  [f \in Fields |-> IF f \in DOMAIN vals THEN vals[f]
                    ELSE IF f = "dir" /\ Gone(vals) THEN 0 ELSE old[f]]

(* Fouls and grapples are kept twice: in the table of each pair of ships,   *)
(* and in a number for each ship.                                           *)
IsSnag(r) == r.kind \in {"FOUL", "GRAP", "UNFOUL", "UNGRAP"}
Table(r) == IF r.kind \in {"FOUL", "UNFOUL"} THEN "foul" ELSE "grap"
Number(r) == IF r.kind \in {"FOUL", "UNFOUL"} THEN "nfoul" ELSE "ngrap"

(* The test at the head of recv_foul and recv_grap (nothing for a ship that *)
(* is off the map), and of recv_unfoul and recv_ungrap.                     *)
Heeded(v, r) ==
  IF r.kind \in {"FOUL", "GRAP"} THEN v.val[r.other]["dir"] # 0
  ELSE v[Table(r)][r.ship][r.other].sn_count > 0

(* Then two assignments.  A foul goes into the table first (the first of    *)
(* several keeps the turn), one that is cut, or all of them, out of the     *)
(* number first.                                                            *)
Caught(v, r) ==
  LET old == v[Table(r)][r.ship][r.other]
  IN  [v EXCEPT ![Table(r)][r.ship][r.other] =
                  [sn_count |-> old.sn_count + 1,
                   sn_turn |-> IF old.sn_count = 0 THEN v.turn ELSE old.sn_turn]]

(* Variant of Discounted: the ship's number goes down by one for them all. *)
DiscountedByOne(v, r) == [v EXCEPT ![Number(r)][r.ship] = @ - 1]

Discounted(v, r) ==
  [v EXCEPT ![Number(r)][r.ship] =
              @ - (IF r.all THEN v[Table(r)][r.ship][r.other].sn_count ELSE 1)]

FirstHalf(v, r) == IF r.kind \in {"FOUL", "GRAP"} THEN Caught(v, r) ELSE Discounted(v, r)

SecondHalf(v, r) ==
  IF r.kind \in {"FOUL", "GRAP"} THEN [v EXCEPT ![Number(r)][r.ship] = @ + 1]
  ELSE [v EXCEPT ![Table(r)][r.ship][r.other].sn_count = IF r.all THEN 0 ELSE @ - 1]

(* sync_update: the effect of a record on the copy of the process that      *)
(* reads it, or that has just written it.                                   *)
Apply(v, r) ==
  CASE r.kind = "ASSIGN" -> [v EXCEPT !.val[r.ship] = Assigned(@, r.vals)]
    [] IsSnag(r)         -> IF Heeded(v, r) THEN SecondHalf(FirstHalf(v, r), r) ELSE v
    [] r.kind = "OBP"    -> [v EXCEPT !.obp[r.ship][r.slot] = r.party]
    [] r.kind = "DBP"    -> [v EXCEPT !.dbp[r.ship][r.slot] = r.party]
    [] r.kind = "TURN"   -> [v EXCEPT !.turn = r.n]
    [] r.kind = "WIND"   -> [v EXCEPT !.winddir = r.d, !.windspeed = r.v]
    [] r.kind = "BEGIN"  -> [v EXCEPT !.val[r.ship] = Assigned(@, [captain |-> 1]),
                                      !.people = @ + 1]
    [] r.kind = "END"    -> [v EXCEPT !.val[r.ship] = Assigned(@, [captain |-> 0, points |-> 0]),
                                      !.people = @ - 1]
    [] r.kind = "ALIVE"  -> [v EXCEPT !.alive = TRUE]
    [] r.kind = "DDEAD"  -> [v EXCEPT !.hasdriver = FALSE]
    [] r.kind = "SIGNAL" -> v        \* shown to the player, nothing kept
    [] r.kind = "GARBLED" -> v       \* Sync stops at it
=============================================================================
