----------------------------- MODULE AtcTowerMC -----------------------------
(* A field of four by two cells with two exits, a beacon and an airport.  In *)
(* one of its two shapes a jet may fly straight from exit to exit.          *)
EXTENDS AtcTower
MCExits == <<[x |-> 0, y |-> 1, dir |-> 2], [x |-> 5, y |-> 2, dir |-> 6]>>
MCFacing == <<[x |-> 0, y |-> 1, dir |-> 2], [x |-> 5, y |-> 1, dir |-> 6]>>
MCAirports == <<[x |-> 3, y |-> 1, dir |-> 2]>>
MCBeacons == <<[x |-> 2, y |-> 1]>>
Exit0 == <<"exit", 0>>
Exit1 == <<"exit", 1>>
Airport == <<"airport", 0>>
MCArrivals == {[type |-> 1, dest |-> Airport, orig |-> Exit0],
               [type |-> 0, dest |-> Exit1, orig |-> Airport]}
MCCrossing == MCArrivals \cup {[type |-> 1, dest |-> Exit1, orig |-> Exit0]}
=============================================================================
