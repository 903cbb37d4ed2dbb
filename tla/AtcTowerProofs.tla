--------------------------- MODULE AtcTowerProofs ---------------------------
(***************************************************************************)
(* The safety properties of C atc hold for every radar, every number of    *)
(* planes and alarms, and every moment at which an alarm comes.            *)
(***************************************************************************)
EXTENDS AtcTowerUpdate

-----------------------------------------------------------------------------
(* The calls of a command *)

LEMMA DirTowardType ==
  ASSUME NEW fx \in Int, NEW fy \in Int, NEW tx \in Int, NEW ty \in Int
  PROVE  DirToward(fx, fy, tx, ty) \in Dirs
<1> DEFINE dx == tx - fx
           dy == ty - fy
           sx == IF NearAxis(Abs(dy), Abs(dx)) THEN 0 ELSE Sign(dx)
           sy == IF NearAxis(Abs(dx), Abs(dy)) THEN 0 ELSE Sign(dy)
<1>1. dx \in Int /\ dy \in Int
  OBVIOUS
<1>2. CASE dx = 0 /\ dy = 0
  BY <1>2 DEF DirToward, Dirs
<1>3. CASE ~(dx = 0 /\ dy = 0)
  <2>1. NearAxis(Abs(dy), Abs(dx)) => Abs(dy) > Abs(dx)
    BY DEF NearAxis
  <2>2. NearAxis(Abs(dx), Abs(dy)) => Abs(dx) > Abs(dy)
    BY DEF NearAxis
  <2>3. sx \in {-1, 0, 1} /\ sy \in {-1, 0, 1}
    BY <1>1 DEF Sign
  <2>4. ~(sx = 0 /\ sy = 0)
    BY <1>1, <1>3, <2>1, <2>2 DEF Sign, Abs
  <2> HIDE DEF sx, sy
  <2>5. \E dir \in Dirs : DirDx(dir) = sx /\ DirDy(dir) = sy
    BY <2>3, <2>4 DEF Dirs, DirDx, DirDy
  <2>6. DirToward(fx, fy, tx, ty)
          = CHOOSE dir \in Dirs : DirDx(dir) = sx /\ DirDy(dir) = sy
    BY <1>3, Zenon DEF DirToward, sx, sy
  <2>7. QED
    BY <2>5, <2>6, Zenon
<1>4. QED
  BY <1>2, <1>3

LEMMA HeadingType ==
  ASSUME NEW dx \in Int, NEW dy \in Int
  PROVE  DirFromDxDy(dx, dy) \in 0 .. 8
  BY DirTowardType DEF DirFromDxDy, Dirs

LEMMA KeyTypes ==
  /\ \A k \in DOMAIN Digit : Digit[k] \in 0 .. 9
  /\ \A k \in DOMAIN dir_no : dir_no[k] \in 0 .. 7
<1>1. ASSUME NEW k \in DOMAIN Digit PROVE Digit[k] \in 0 .. 9
  BY DEF Digit
<1>2. ASSUME NEW k \in DOMAIN dir_no PROVE dir_no[k] \in 0 .. 7
  BY DEF dir_no
<1>3. QED
  BY <1>1, <1>2

(* What the calls work on.                                                 *)
CopyRecord == [p : Plane, dir : {"none", "up", "down", "left", "right"},
               dest_type : {"none", "beacon", "exit", "airport"}, dest_no : 0 .. 9, ok : BOOLEAN]
CopyOK(m) == /\ m \in CopyRecord
             /\ m.p.delayd => Len(Beacons) > 0
             /\ m.p.delayd_no = 0 \/ m.p.delayd_no < Len(Beacons)
Aimed(m) == m.dest_type # "none" => m.dest_no < Known(m.dest_type)

GoodCall(c) == /\ c.func \in {"setalt", "setrelalt", "benum", "delayb"} => c.ch \in DOMAIN Digit
               /\ c.func \in {"to_dir", "rel_dir"} => c.ch \in DOMAIN dir_no

Aims == {"beacon", "ex_it", "airport"}
Steers == {"circle", "left", "right", "Left", "Right", "to_dir", "rel_dir", "benum", "delayb"}

(* What no call changes.                                                   *)
SameCopy(m, n) == /\ n.p.plane_no = m.p.plane_no /\ n.p.altitude = m.p.altitude /\ n.ok = m.ok

LEMMA SteeredType ==
  ASSUME NEW m, CopyOK(m), NEW d \in 0 .. 8
  PROVE  /\ CopyOK(Steered(m, d)) /\ SameCopy(m, Steered(m, d))
         /\ Steered(m, d).p.status = m.p.status /\ Steered(m, d).dest_type = m.dest_type
         /\ Steered(m, d).dest_no = m.dest_no /\ Steered(m, d).dir = m.dir
         /\ Steered(m, d).p.delayd = m.p.delayd
<1> DEFINE p == m.p
           q == [p EXCEPT !.new_dir = d]
           n == Steered(m, d)
<1>1. p \in Plane
  BY DEF CopyOK, CopyRecord
<1>2. /\ q \in Plane /\ q.plane_no = p.plane_no /\ q.altitude = p.altitude /\ q.status = p.status
      /\ q.delayd = p.delayd /\ q.delayd_no = p.delayd_no
  <2>1. q \in Plane
    BY <1>1 DEF Plane, MAXDIR
  <2>2. QED
    BY <1>1, <2>1 DEF Plane
<1>3. n = [m EXCEPT !.p = q]
  BY DEF Steered
<1> HIDE DEF p, q, n
<1>4. n \in CopyRecord /\ n.p = q /\ n.dir = m.dir /\ n.dest_type = m.dest_type /\ n.dest_no = m.dest_no /\ n.ok = m.ok
  BY <1>2, <1>3 DEF CopyOK, CopyRecord
<1>5. QED
  BY <1>2, <1>4 DEF CopyOK, SameCopy, p, n

(* What one call does to the copy.                                         *)
CallDoes(m, n, func) ==
  /\ CopyOK(n) /\ SameCopy(m, n)
  /\ func \notin DOMAIN Marking => n.p.status = m.p.status
  /\ func \notin Steers => n.p.new_dir = m.p.new_dir /\ n.p.delayd = m.p.delayd
  /\ func \notin Aims => n.dest_type = m.dest_type /\ (func # "benum" => n.dest_no = m.dest_no)
  /\ func = "benum" => Aimed(n)

LEMMA MarkingDomain == DOMAIN Marking = {"mark", "unmark", "ignore"}
  BY DEF Marking

LEMMA SteeringCall ==
  ASSUME NEW m, CopyOK(m), NEW d \in 0 .. 8, NEW func \in Steers \ {"benum"}
  PROVE  CallDoes(m, Steered(m, d), func)
<1>1. /\ CopyOK(Steered(m, d)) /\ SameCopy(m, Steered(m, d))
      /\ Steered(m, d).p.status = m.p.status /\ Steered(m, d).dest_type = m.dest_type
      /\ Steered(m, d).dest_no = m.dest_no
  BY SteeredType
<1>2. func \notin DOMAIN Marking /\ func \notin Aims
  BY MarkingDomain DEF Steers, Aims
<1>3. QED
  BY <1>1, <1>2 DEF CallDoes

(* A static changes with the heading, or alone.                            *)
LEMMA TurningCall ==
  ASSUME NEW m, CopyOK(m), NEW func \in Steers \ {"benum"}, NEW dir \in {"left", "right"}, NEW d \in 0 .. 8
  PROVE  CallDoes(m, [Steered(m, d) EXCEPT !.dir = dir], func)
<1> DEFINE s == Steered(m, d)
           n == [s EXCEPT !.dir = dir]
<1>1. CallDoes(m, s, func)
  BY SteeringCall
<1>2. s \in CopyRecord
  BY <1>1 DEF CallDoes, CopyOK
<1> HIDE DEF s
<1>3. /\ n \in CopyRecord /\ n.p = s.p /\ n.ok = s.ok /\ n.dest_type = s.dest_type /\ n.dest_no = s.dest_no
  BY <1>2 DEF CopyRecord
<1> HIDE DEF n
<1>4. func # "benum"
  OBVIOUS
<1>5. CallDoes(m, n, func)
  BY <1>1, <1>3, <1>4 DEF CallDoes, CopyOK, SameCopy
<1>6. QED
  BY <1>5 DEF n, s

LEMMA StaticCall ==
  ASSUME NEW m, CopyOK(m), NEW func \in {"climb", "descend"}, NEW dir \in {"up", "down"}
  PROVE  CallDoes(m, [m EXCEPT !.dir = dir], func)
<1> DEFINE n == [m EXCEPT !.dir = dir]
<1>1. /\ n \in CopyRecord /\ n.p = m.p /\ n.ok = m.ok /\ n.dest_type = m.dest_type /\ n.dest_no = m.dest_no
  BY DEF CopyOK, CopyRecord
<1> HIDE DEF n
<1>2. CallDoes(m, n, func)
  BY <1>1 DEF CallDoes, CopyOK, SameCopy
<1>3. QED
  BY <1>2 DEF n

LEMMA AimingCall ==
  ASSUME NEW m, CopyOK(m), NEW func \in Aims, NEW type \in {"beacon", "exit", "airport"}
  PROVE  CallDoes(m, [m EXCEPT !.dest_type = type], func)
<1> DEFINE n == [m EXCEPT !.dest_type = type]
<1>1. /\ n \in CopyRecord /\ n.p = m.p /\ n.ok = m.ok
  BY DEF CopyOK, CopyRecord
<1>2. func # "benum"
  BY DEF Aims
<1> HIDE DEF n
<1>3. CallDoes(m, n, func)
  BY <1>1, <1>2 DEF CallDoes, CopyOK, SameCopy
<1>4. QED
  BY <1>3 DEF n

(* The altitude and the mark.                                              *)
LEMMA AltitudeCall ==
  ASSUME NEW m, CopyOK(m), NEW func, func \notin Steers \cup Aims, func \notin DOMAIN Marking, NEW k \in 0 .. 9
  PROVE  CallDoes(m, [m EXCEPT !.p.new_altitude = k], func)
<1>0. func # "benum"
  BY DEF Steers
<1> DEFINE p == m.p
           q == [p EXCEPT !.new_altitude = k]
           n == [m EXCEPT !.p.new_altitude = k]
<1>1. p \in Plane
  BY DEF CopyOK, CopyRecord
<1>2. /\ q \in Plane /\ q.plane_no = p.plane_no /\ q.altitude = p.altitude /\ q.status = p.status
      /\ q.delayd = p.delayd /\ q.delayd_no = p.delayd_no /\ q.new_dir = p.new_dir
  <2>1. q \in Plane
    BY <1>1 DEF Plane
  <2>2. QED
    BY <1>1, <2>1 DEF Plane
<1>3. n = [m EXCEPT !.p = q]
  OBVIOUS
<1> HIDE DEF p, q, n
<1>4. n \in CopyRecord /\ n.p = q /\ n.dest_type = m.dest_type /\ n.dest_no = m.dest_no /\ n.ok = m.ok
  BY <1>2, <1>3 DEF CopyOK, CopyRecord
<1>5. CallDoes(m, n, func)
  BY <1>0, <1>2, <1>4 DEF CallDoes, CopyOK, SameCopy, p
<1>6. QED
  BY <1>5 DEF n

LEMMA MarkingCall ==
  ASSUME NEW m, CopyOK(m), NEW func, func \notin Steers \cup Aims, func \in DOMAIN Marking,
         NEW s \in {"marked", "unmarked", "ignored"}
  PROVE  CallDoes(m, [m EXCEPT !.p.status = s], func)
<1>0. func # "benum"
  BY DEF Steers
<1> DEFINE p == m.p
           q == [p EXCEPT !.status = s]
           n == [m EXCEPT !.p.status = s]
<1>1. p \in Plane
  BY DEF CopyOK, CopyRecord
<1>2. /\ q \in Plane /\ q.plane_no = p.plane_no /\ q.altitude = p.altitude
      /\ q.delayd = p.delayd /\ q.delayd_no = p.delayd_no /\ q.new_dir = p.new_dir
  <2>1. q \in Plane
    BY <1>1 DEF Plane
  <2>2. QED
    BY <1>1, <2>1 DEF Plane
<1>3. n = [m EXCEPT !.p = q]
  OBVIOUS
<1> HIDE DEF p, q, n
<1>4. n \in CopyRecord /\ n.p = q /\ n.dest_type = m.dest_type /\ n.dest_no = m.dest_no /\ n.ok = m.ok
  BY <1>2, <1>3 DEF CopyOK, CopyRecord
<1>5. CallDoes(m, n, func)
  BY <1>0, <1>2, <1>4 DEF CallDoes, CopyOK, SameCopy, p
<1>6. QED
  BY <1>5 DEF n

LEMMA Fixes ==
  ASSUME NEW type \in {"none", "beacon", "exit", "airport"}, NEW k \in 0 .. 9, k < Known(type)
  PROVE  PosOf(<<type, k>>).x \in Int /\ PosOf(<<type, k>>).y \in Int
<1>1. type # "none"
  BY DEF Known
<1>2. CASE type = "exit"
  <2>1. k + 1 \in 1 .. Len(Exits) /\ PosOf(<<type, k>>) = Exits[k + 1]
    BY <1>2, PlaceTypes, SMTT(60) DEF Known, PosOf
  <2>2. Exits[k + 1].x \in 0 .. Width - 1 /\ Exits[k + 1].y \in 0 .. Height - 1
    BY <2>1, PlaceTypes
  <2>3. QED
    BY <2>1, <2>2
<1>3. CASE type = "airport"
  <2>1. k + 1 \in 1 .. Len(Airports) /\ PosOf(<<type, k>>) = Airports[k + 1]
    BY <1>3, PlaceTypes, SMTT(60) DEF Known, PosOf
  <2>2. Airports[k + 1].x \in 1 .. Width - 2 /\ Airports[k + 1].y \in 1 .. Height - 2
    BY <2>1, PlaceTypes
  <2>3. QED
    BY <2>1, <2>2
<1>4. CASE type = "beacon"
  <2>1. k + 1 \in 1 .. Len(Beacons) /\ PosOf(<<type, k>>) = Beacons[k + 1]
    BY <1>4, PlaceTypes, SMTT(60) DEF Known, PosOf
  <2>2. Beacons[k + 1].x \in 1 .. Width - 2 /\ Beacons[k + 1].y \in 1 .. Height - 2
    BY <2>1, PlaceTypes
  <2>3. QED
    BY <2>1, <2>2
<1>5. QED
  BY <1>1, <1>2, <1>3, <1>4

LEMMA CalledDoes ==
  ASSUME NEW m, CopyOK(m), NEW func, NEW ch, GoodCall([func |-> func, ch |-> ch]), Legal(m, func, ch),
         func = "delayb" => Aimed(m)
  PROVE  CallDoes(m, Called(m, func, ch), func)
<1>1. /\ m.p \in Plane /\ m.dest_type \in {"none", "beacon", "exit", "airport"} /\ m.dest_no \in 0 .. 9
  BY DEF CopyOK, CopyRecord
<1>2. m.p.dir \in 0 .. 7 /\ m.p.xpos \in Int /\ m.p.ypos \in Int
  BY <1>1, PlaneFields, PlaceTypes
<1>3. func \in {"setalt", "setrelalt", "benum", "delayb"} => Digit[ch] \in 0 .. 9
  BY KeyTypes DEF GoodCall
<1>4. func \in {"to_dir", "rel_dir"} => dir_no[ch] \in 0 .. 7
  BY KeyTypes DEF GoodCall
<1>5. CASE func = "circle"
  <2>1. Called(m, func, ch) = Steered(m, 8)
    BY <1>5, MarkingDomain DEF Called, MAXDIR
  <2>2. QED
    BY <1>5, <2>1, SteeringCall DEF Steers
<1>6. CASE func = "left"
  <2>1. (m.p.dir - 1) % 8 \in 0 .. 8
    BY <1>2
  <2>2. Called(m, func, ch) = [Steered(m, (m.p.dir - 1) % 8) EXCEPT !.dir = "left"]
    BY <1>6, MarkingDomain DEF Called, MAXDIR
  <2>3. CallDoes(m, [Steered(m, (m.p.dir - 1) % 8) EXCEPT !.dir = "left"], func)
    BY <1>6, <2>1, TurningCall, Zenon DEF Steers
  <2>4. QED
    BY <2>2, <2>3, Zenon
<1>7. CASE func = "right"
  <2>1. (m.p.dir + 1) % 8 \in 0 .. 8
    BY <1>2
  <2>2. Called(m, func, ch) = [Steered(m, (m.p.dir + 1) % 8) EXCEPT !.dir = "right"]
    BY <1>7, MarkingDomain DEF Called, MAXDIR
  <2>3. CallDoes(m, [Steered(m, (m.p.dir + 1) % 8) EXCEPT !.dir = "right"], func)
    BY <1>7, <2>1, TurningCall, Zenon DEF Steers
  <2>4. QED
    BY <2>2, <2>3, Zenon
<1>8. CASE func = "Left"
  <2>1. (m.p.dir - 2) % 8 \in 0 .. 8
    BY <1>2
  <2>2. Called(m, func, ch) = Steered(m, (m.p.dir - 2) % 8)
    BY <1>8, MarkingDomain DEF Called, MAXDIR
  <2>3. QED
    BY <1>8, <2>1, <2>2, SteeringCall DEF Steers
<1>9. CASE func = "Right"
  <2>1. (m.p.dir + 2) % 8 \in 0 .. 8
    BY <1>2
  <2>2. Called(m, func, ch) = Steered(m, (m.p.dir + 2) % 8)
    BY <1>9, MarkingDomain DEF Called, MAXDIR
  <2>3. QED
    BY <1>9, <2>1, <2>2, SteeringCall DEF Steers
<1>10. CASE func = "to_dir"
  <2>1. Called(m, func, ch) = Steered(m, dir_no[ch]) /\ dir_no[ch] \in 0 .. 8
    BY <1>4, <1>10, MarkingDomain DEF Called
  <2>2. QED
    BY <1>10, <2>1, SteeringCall DEF Steers
<1>11. CASE func = "rel_dir"
  <2> DEFINE d == (IF m.dir = "left" THEN m.p.dir - dir_no[ch] ELSE m.p.dir + dir_no[ch]) % 8
  <2>1. d \in 0 .. 8
    BY <1>2, <1>4, <1>11
  <2>2. Called(m, func, ch) = Steered(m, d)
    BY <1>11, MarkingDomain DEF Called, MAXDIR
  <2> HIDE DEF d
  <2>3. QED
    BY <1>11, <2>1, <2>2, SteeringCall DEF Steers
<1>12. CASE func = "climb"
  <2>1. Called(m, func, ch) = [m EXCEPT !.dir = "up"]
    BY <1>12, MarkingDomain DEF Called
  <2>2. CallDoes(m, [m EXCEPT !.dir = "up"], func)
    BY <1>12, StaticCall, Zenon
  <2>3. QED
    BY <2>1, <2>2, Zenon
<1>13. CASE func = "descend"
  <2>1. Called(m, func, ch) = [m EXCEPT !.dir = "down"]
    BY <1>13, MarkingDomain DEF Called
  <2>2. CallDoes(m, [m EXCEPT !.dir = "down"], func)
    BY <1>13, StaticCall, Zenon
  <2>3. QED
    BY <2>1, <2>2, Zenon
<1>14. CASE func = "setalt"
  <2>1. Called(m, func, ch) = [m EXCEPT !.p.new_altitude = Digit[ch]] /\ Digit[ch] \in 0 .. 9
    BY <1>3, <1>14, MarkingDomain DEF Called
  <2>2. func \notin Steers \cup Aims /\ func \notin DOMAIN Marking
    BY <1>14, MarkingDomain DEF Steers, Aims
  <2>3. CallDoes(m, [m EXCEPT !.p.new_altitude = Digit[ch]], func)
    BY <2>1, <2>2, AltitudeCall, Zenon
  <2>4. QED
    BY <2>1, <2>3, Zenon
<1>15. CASE func = "setrelalt"
  <2>1. Called(m, func, ch) = [m EXCEPT !.p.new_altitude = RelAlt(m, ch)]
    BY <1>15, MarkingDomain DEF Called
  <2>2. RelAlt(m, ch) \in 0 .. 9
    BY <1>15 DEF Legal, Attainable
  <2>3. func \notin Steers \cup Aims /\ func \notin DOMAIN Marking
    BY <1>15, MarkingDomain DEF Steers, Aims
  <2>4. CallDoes(m, [m EXCEPT !.p.new_altitude = RelAlt(m, ch)], func)
    BY <2>2, <2>3, AltitudeCall, Zenon
  <2>5. QED
    BY <2>1, <2>4, Zenon
<1>16. CASE func = "beacon"
  <2>1. Called(m, func, ch) = [m EXCEPT !.dest_type = "beacon"]
    BY <1>16, MarkingDomain DEF Called
  <2>2. CallDoes(m, [m EXCEPT !.dest_type = "beacon"], func)
    BY <1>16, AimingCall, Zenon DEF Aims
  <2>3. QED
    BY <2>1, <2>2, Zenon
<1>17. CASE func = "ex_it"
  <2>1. Called(m, func, ch) = [m EXCEPT !.dest_type = "exit"]
    BY <1>17, MarkingDomain DEF Called
  <2>2. CallDoes(m, [m EXCEPT !.dest_type = "exit"], func)
    BY <1>17, AimingCall, Zenon DEF Aims
  <2>3. QED
    BY <2>1, <2>2, Zenon
<1>18. CASE func = "airport"
  <2>1. Called(m, func, ch) = [m EXCEPT !.dest_type = "airport"]
    BY <1>18, MarkingDomain DEF Called
  <2>2. CallDoes(m, [m EXCEPT !.dest_type = "airport"], func)
    BY <1>18, AimingCall, Zenon DEF Aims
  <2>3. QED
    BY <2>1, <2>2, Zenon
<1>19. CASE func = "benum"
  <2> DEFINE to == PosOf(<<m.dest_type, Digit[ch]>>)
             d == DirFromDxDy(to.x - m.p.xpos, to.y - m.p.ypos)
             s == Steered(m, d)
             n == [s EXCEPT !.dest_no = Digit[ch]]
  <2>1. Called(m, func, ch) = n
    BY <1>19, MarkingDomain DEF Called
  <2>2. Digit[ch] < Known(m.dest_type) /\ Digit[ch] \in 0 .. 9
    BY <1>3, <1>19 DEF Legal
  <2>3. to.x \in Int /\ to.y \in Int
    BY <1>1, <2>2, Fixes
  <2> HIDE DEF to
  <2>4. d \in 0 .. 8
    <3>1. to.x - m.p.xpos \in Int /\ to.y - m.p.ypos \in Int
      BY <1>2, <2>3
    <3>2. QED
      BY <3>1, HeadingType
  <2> HIDE DEF d
  <2>5. /\ CopyOK(s) /\ SameCopy(m, s) /\ s.p.status = m.p.status /\ s.dest_type = m.dest_type
    BY <2>4, SteeredType
  <2> HIDE DEF s
  <2>6. n \in CopyRecord /\ n.p = s.p /\ n.ok = s.ok /\ n.dest_type = s.dest_type /\ n.dest_no = Digit[ch]
    BY <2>2, <2>5 DEF CopyOK, CopyRecord
  <2> HIDE DEF n
  <2>7. func \in Steers /\ func \notin DOMAIN Marking
    BY <1>19, MarkingDomain DEF Steers
  <2>8. QED
    BY <1>19, <2>1, <2>2, <2>5, <2>6, <2>7 DEF CallDoes, CopyOK, SameCopy, Aimed
<1>20. CASE func = "delayb"
  <2> DEFINE b == Beacons[Digit[ch] + 1]
             to == PosOf(<<m.dest_type, m.dest_no>>)
             p == m.p
             q == [p EXCEPT !.delayd = TRUE, !.delayd_no = Digit[ch]]
             held == [m EXCEPT !.p = q]
             d == DirFromDxDy(to.x - b.x, to.y - b.y)
  <2>1. Digit[ch] < Len(Beacons) /\ Digit[ch] \in 0 .. 9 /\ Digit[ch] + 1 \in 1 .. Len(Beacons)
    BY <1>3, <1>20, PlaceTypes, SMTT(60) DEF Legal
  <2>2. b.x \in Int /\ b.y \in Int
    BY <2>1, PlaceTypes
  <2>3. held = [m EXCEPT !.p.delayd = TRUE, !.p.delayd_no = Digit[ch]]
    BY <1>1 DEF CopyOK, CopyRecord
  <2>4. Called(m, func, ch) = IF m.dest_type = "none" THEN held ELSE Steered(held, d)
    BY <1>20, <2>3, MarkingDomain DEF Called
  <2>5. /\ q \in Plane /\ q.plane_no = p.plane_no /\ q.altitude = p.altitude /\ q.status = p.status
        /\ q.delayd_no = Digit[ch]
    <3> DEFINE k == Digit[ch]
               r == [p EXCEPT !.delayd = TRUE]
    <3>1. q = [r EXCEPT !.delayd_no = k] /\ k \in Nat /\ p \in Plane
      BY <1>1, <2>1
    <3> HIDE DEF k, p, q
    <3>2. r \in Plane
      BY <3>1 DEF Plane
    <3>3. r.plane_no = p.plane_no /\ r.altitude = p.altitude /\ r.status = p.status
      BY <3>1, <3>2 DEF Plane
    <3> HIDE DEF r
    <3>4. q \in Plane
      BY <3>1, <3>2 DEF Plane
    <3>5. q.plane_no = r.plane_no /\ q.altitude = r.altitude /\ q.status = r.status /\ q.delayd_no = k
      BY <3>1, <3>2, <3>4 DEF Plane
    <3>6. QED
      BY <3>3, <3>4, <3>5 DEF k
  <2> HIDE DEF q, b, to
  <2>6. held \in CopyRecord /\ held.p = q /\ held.dest_type = m.dest_type /\ held.dest_no = m.dest_no /\ held.ok = m.ok
    BY <2>5 DEF CopyOK, CopyRecord
  <2> HIDE DEF held
  <2>7. CopyOK(held) /\ SameCopy(m, held) /\ held.p.status = m.p.status
    BY <2>1, <2>5, <2>6, PlaceTypes DEF CopyOK, SameCopy
  <2>8. func \in Steers /\ func \notin DOMAIN Marking /\ func \notin Aims /\ func # "benum"
    BY <1>20, MarkingDomain DEF Steers, Aims
  <2>9. CASE m.dest_type = "none"
    BY <2>4, <2>6, <2>7, <2>8, <2>9 DEF CallDoes
  <2>10. CASE m.dest_type # "none"
    <3>1. to.x \in Int /\ to.y \in Int
      BY <1>1, <1>20, <2>10, Fixes DEF Aimed, to
    <3>2. d \in 0 .. 8
      <4>1. to.x - b.x \in Int /\ to.y - b.y \in Int
        BY <2>2, <3>1
      <4>2. QED
        BY <4>1, HeadingType
    <3> HIDE DEF d
    <3>3. /\ CopyOK(Steered(held, d)) /\ SameCopy(held, Steered(held, d))
          /\ Steered(held, d).p.status = held.p.status /\ Steered(held, d).dest_type = held.dest_type
          /\ Steered(held, d).dest_no = held.dest_no
      BY <2>7, <3>2, SteeredType
    <3>4. QED
      BY <2>4, <2>6, <2>7, <2>8, <2>10, <3>3 DEF CallDoes, SameCopy
  <2>11. QED
    BY <2>9, <2>10
<1>21. CASE func \in DOMAIN Marking
  <2>1. func \in {"mark", "unmark", "ignore"}
    BY <1>21, MarkingDomain
  <2>2. Called(m, func, ch) = [m EXCEPT !.p.status = Marking[func]]
    BY <1>21, <2>1, MarkingDomain DEF Called
  <2>3. Marking[func] \in {"marked", "unmarked", "ignored"}
    BY <2>1 DEF Marking
  <2>4. func \notin Steers \cup Aims
    BY <2>1 DEF Steers, Aims
  <2>5. CallDoes(m, [m EXCEPT !.p.status = Marking[func]], func)
    BY <1>21, <2>3, <2>4, MarkingCall, Zenon
  <2>6. QED
    BY <2>2, <2>5, Zenon
<1>22. CASE func \notin {"circle", "left", "right", "Left", "Right", "to_dir", "rel_dir", "climb", "descend", "setalt", "setrelalt", "beacon", "ex_it", "airport", "benum", "delayb"} \cup DOMAIN Marking
  <2>1. Called(m, func, ch) = m
    BY <1>22, MarkingDomain DEF Called
  <2>2. func \notin Aims /\ func # "benum"
    BY <1>22 DEF Aims
  <2>3. QED
    BY <2>1, <2>2 DEF CallDoes, SameCopy
<1>23. QED
  BY <1>5, <1>6, <1>7, <1>8, <1>9, <1>10, <1>11, <1>12, <1>13, <1>14, <1>15, <1>16, <1>17, <1>18, <1>19, <1>20, <1>21, <1>22

(* The calls of a command, one after the other.                            *)
CallRound(calls, last, n) ==
  IF ~last.ok \/ ~Legal(last, calls[n].func, calls[n].ch) THEN [last EXCEPT !.ok = FALSE]
  ELSE Called(last, calls[n].func, calls[n].ch)

LEMMA CallRounds ==
  ASSUME NEW m, NEW calls, Len(calls) \in Nat
  PROVE  \E f : /\ f[0] = m
                /\ \A n \in 1 .. Len(calls) : f[n] = CallRound(calls, f[n - 1], n)
                /\ f[Len(calls)] = Executed(m, calls)
<1> DEFINE L == Len(calls)
           Rounds(k, f) == [n \in 0 .. k |-> IF n = 0 THEN m ELSE CallRound(calls, f[n - 1], n)]
           P == [k \in 0 .. L |-> \E f : f = Rounds(k, f)]
<1>1. P[0]
  <2> DEFINE e == [n \in 0 .. 0 |-> m]
  <2>1. e = Rounds(0, e)
    OBVIOUS
  <2> HIDE DEF e, Rounds
  <2>2. 0 \in 0 .. L
    OBVIOUS
  <2>3. QED
    BY <2>1, <2>2, Zenon
<1>2. ASSUME NEW k \in 1 .. L, P[k - 1] PROVE P[k]
  <2>1. k - 1 \in 0 .. L /\ k \in 0 .. L
    OBVIOUS
  <2>2. PICK f : f = Rounds(k - 1, f)
    <3> HIDE DEF Rounds
    <3>1. QED
      BY <1>2, <2>1, Zenon
  <2> DEFINE last == CallRound(calls, f[k - 1], k)
             e == [n \in 0 .. k |-> IF n = k THEN last ELSE f[n]]
  <2> HIDE DEF last
  <2>3. ASSUME NEW n \in 0 .. k PROVE e[n] = IF n = 0 THEN m ELSE CallRound(calls, e[n - 1], n)
    <3>1. CASE n = k
      <4>1. k # 0 /\ k - 1 \in 0 .. k /\ k - 1 # k
        OBVIOUS
      <4>2. e[k - 1] = f[k - 1] /\ e[k] = last
        BY <4>1
      <4> HIDE DEF e
      <4>3. QED
        BY <3>1, <4>1, <4>2, Zenon DEF last
    <3>2. CASE n # k
      <4>1. n \in 0 .. k - 1 /\ (n # 0 => n - 1 \in 0 .. k /\ n - 1 # k)
        BY <3>2
      <4>2. e[n] = f[n] /\ (n # 0 => e[n - 1] = f[n - 1])
        BY <3>2, <4>1
      <4> HIDE DEF e
      <4>3. f[n] = IF n = 0 THEN m ELSE CallRound(calls, f[n - 1], n)
        BY <2>2, <4>1, Zenon
      <4>4. QED
        BY <4>2, <4>3, Zenon
    <3>3. QED
      BY <3>1, <3>2
  <2>4. e = [n \in 0 .. k |-> e[n]]
    OBVIOUS
  <2> HIDE DEF e
  <2>5. e = Rounds(k, e)
    BY <2>3, <2>4, Zenon
  <2> HIDE DEF Rounds
  <2>6. QED
    BY <2>1, <2>5, Zenon
<1>3. \A k \in 0 .. L : P[k]
  <2> HIDE DEF P
  <2>1. QED
    BY <1>1, <1>2, Induction
<1>4. \E f : f = Rounds(L, f)
  <2>1. L \in 0 .. L
    OBVIOUS
  <2> HIDE DEF Rounds, L
  <2>2. QED
    BY <1>3, <2>1, Zenon
<1> DEFINE upTo == CHOOSE f : f = Rounds(L, f)
<1>5. upTo = Rounds(L, upTo)
  <2> HIDE DEF Rounds, L
  <2>1. QED
    BY <1>4, Zenon
<1>6. Executed(m, calls) = upTo[L]
  BY Zenon DEF Executed, CallRound
<1> HIDE DEF upTo
<1>7. upTo[0] = m
  BY <1>5
<1>8. ASSUME NEW n \in 1 .. L PROVE upTo[n] = CallRound(calls, upTo[n - 1], n)
  <2>1. n \in 0 .. L /\ n # 0
    OBVIOUS
  <2>2. QED
    BY <1>5, <2>1, Zenon
<1>9. QED
  BY <1>6, <1>7, <1>8, Zenon


MarkCalled(calls) == \E n \in DOMAIN calls : calls[n].func \in DOMAIN Marking

(* What the state tables promise of the calls behind setplane: a kind of   *)
(* place is followed by its number; and an order that steers begins with   *)
(* turn or circle.                                                         *)
Routed(calls) ==
  /\ Len(calls) \in Nat /\ DOMAIN calls = 1 .. Len(calls)
  /\ \A n \in 1 .. Len(calls) :
        /\ GoodCall(calls[n])
        /\ n > 1 /\ calls[n - 1].func \in Aims => calls[n].func = "benum"
  /\ \A n \in 1 .. Len(calls) : calls[n].func \in Steers => calls[1].func \in {"turn", "circle"}

(* What holds of the copy after the first n calls.                         *)
Carried(m, calls, c, n) ==
  /\ c \in CopyRecord
  /\ c.ok => /\ CopyOK(c) /\ c.p.plane_no = m.p.plane_no /\ c.p.altitude = m.p.altitude
             /\ Aimed(c) \/ (n >= 1 /\ calls[n].func \in Aims)
             /\ ~MarkCalled(calls) => c.p.status = m.p.status
             /\ m.p.altitude = 0 => /\ c.p.new_dir = m.p.new_dir /\ c.p.delayd = m.p.delayd
                                    /\ n >= 1 => calls[1].func \notin {"turn", "circle"}

LEMMA CarriedOn ==
  ASSUME NEW m, NEW calls, Routed(calls), NEW n \in 1 .. Len(calls), NEW c, Carried(m, calls, c, n - 1)
  PROVE  Carried(m, calls, CallRound(calls, c, n), n)
<1> DEFINE func == calls[n].func
           ch == calls[n].ch
           e == Called(c, func, ch)
<1>1. CASE ~c.ok \/ ~Legal(c, func, ch)
  <2>1. CallRound(calls, c, n) = [c EXCEPT !.ok = FALSE]
    BY <1>1 DEF CallRound
  <2>2. [c EXCEPT !.ok = FALSE] \in CopyRecord /\ [c EXCEPT !.ok = FALSE].ok = FALSE
    BY DEF Carried, CopyRecord
  <2>3. QED
    BY <2>1, <2>2 DEF Carried
<1>2. CASE c.ok /\ Legal(c, func, ch)
  <2>1. CallRound(calls, c, n) = e
    BY <1>2 DEF CallRound
  <2>2. /\ CopyOK(c) /\ c.p.plane_no = m.p.plane_no /\ c.p.altitude = m.p.altitude
        /\ Aimed(c) \/ (n - 1 >= 1 /\ calls[n - 1].func \in Aims)
        /\ ~MarkCalled(calls) => c.p.status = m.p.status
        /\ m.p.altitude = 0 => /\ c.p.new_dir = m.p.new_dir /\ c.p.delayd = m.p.delayd
                               /\ n - 1 >= 1 => calls[1].func \notin {"turn", "circle"}
    BY <1>2 DEF Carried
  <2>3. /\ GoodCall(calls[n])
        /\ n > 1 /\ calls[n - 1].func \in Aims => func = "benum"
        /\ func \in Steers => calls[1].func \in {"turn", "circle"}
    BY DEF Routed
  <2>4. GoodCall([func |-> func, ch |-> ch])
    BY <2>3 DEF GoodCall
  <2>5. func # "benum" => Aimed(c)
    BY <2>2, <2>3
  <2> HIDE DEF e
  <2>6. CallDoes(c, e, func)
    <3>1. func = "delayb" => Aimed(c)
      BY <2>5
    <3>2. QED
      BY <1>2, <2>2, <2>4, <3>1, CalledDoes DEF e
  <2>7. /\ CopyOK(e) /\ SameCopy(c, e) /\ e.ok = c.ok
        /\ func \notin DOMAIN Marking => e.p.status = c.p.status
        /\ func \notin Steers => e.p.new_dir = c.p.new_dir /\ e.p.delayd = c.p.delayd
    BY <2>6 DEF CallDoes, SameCopy
  <2>8. e \in CopyRecord /\ e.p.plane_no = m.p.plane_no /\ e.p.altitude = m.p.altitude
    BY <2>2, <2>7 DEF CopyOK, SameCopy
  <2>9. Aimed(e) \/ func \in Aims
    <3>1. CASE func = "benum"
      BY <2>6, <3>1 DEF CallDoes
    <3>2. CASE func # "benum" /\ func \notin Aims
      BY <2>5, <2>6, <3>2 DEF CallDoes, Aimed
    <3>3. QED
      BY <3>1, <3>2
  <2>10. ~MarkCalled(calls) => e.p.status = m.p.status
    BY <2>2, <2>7 DEF MarkCalled, Routed
  <2>11. ASSUME m.p.altitude = 0
         PROVE  e.p.new_dir = m.p.new_dir /\ e.p.delayd = m.p.delayd /\ calls[1].func \notin {"turn", "circle"}
    <3>1. OnGround(c)
      BY <2>2, <2>11 DEF OnGround
    <3>2. func \notin {"turn", "circle"}
      BY <1>2, <3>1 DEF Legal
    <3>3. calls[1].func \notin {"turn", "circle"}
      <4>1. CASE n = 1
        BY <3>2, <4>1
      <4>2. CASE n # 1
        <5>1. n - 1 >= 1
          BY <4>2
        <5>2. QED
          BY <2>2, <2>11, <5>1
      <4>3. QED
        BY <4>1, <4>2
    <3>4. func \notin Steers
      BY <2>3, <3>3
    <3>5. QED
      BY <2>2, <2>7, <2>11, <3>3, <3>4
  <2>12. n >= 1
    OBVIOUS
  <2>13. Carried(m, calls, e, n)
    BY <2>7, <2>8, <2>9, <2>10, <2>11, <2>12 DEF Carried
  <2>14. QED
    BY <2>1, <2>13
<1>3. QED
  BY <1>1, <1>2

LEMMA ExecutedDoes ==
  ASSUME NEW m, CopyOK(m), m.ok, m.dest_type = "none", NEW calls, Routed(calls)
  PROVE  Carried(m, calls, Executed(m, calls), Len(calls))
<1>0. Len(calls) \in Nat
  BY DEF Routed
<1>1. PICK f : /\ f[0] = m
               /\ \A n \in 1 .. Len(calls) : f[n] = CallRound(calls, f[n - 1], n)
               /\ f[Len(calls)] = Executed(m, calls)
  BY <1>0, CallRounds, ZenonT(60)
<1> DEFINE P == [n \in 0 .. Len(calls) |-> Carried(m, calls, f[n], n)]
<1>2. P[0]
  <2>1. Carried(m, calls, m, 0)
    BY DEF Carried, CopyOK, Aimed
  <2>2. 0 \in 0 .. Len(calls)
    BY <1>0
  <2>3. QED
    BY <1>1, <2>1, <2>2
<1>3. ASSUME NEW n \in 1 .. Len(calls), P[n - 1] PROVE P[n]
  <2>1. n - 1 \in 0 .. Len(calls) /\ n \in 0 .. Len(calls)
    BY <1>0
  <2>2. Carried(m, calls, f[n - 1], n - 1)
    BY <1>3, <2>1
  <2>3. Carried(m, calls, f[n], n)
    BY <1>1, <2>2, CarriedOn
  <2>4. QED
    BY <2>1, <2>3
<1>4. \A n \in 0 .. Len(calls) : P[n]
  <2> HIDE DEF P
  <2>1. QED
    BY <1>0, <1>2, <1>3, Induction
<1>5. Len(calls) \in 0 .. Len(calls)
  BY <1>0
<1>6. QED
  BY <1>1, <1>4, <1>5

(* The state tables: the calls behind setplane are Routed.                 *)
Funcs == {"turn", "mark", "unmark", "ignore", "setalt", "climb", "descend", "setrelalt"} \cup Steers \cup Aims
CallRecord == [func : Funcs, ch : Keys \cup Names]

(* A part of a command that may stand anywhere.                            *)
Complete(s) ==
  /\ s \in Seq(CallRecord)
  /\ \A n \in 1 .. Len(s) : /\ GoodCall(s[n])
                            /\ n > 1 /\ s[n - 1].func \in Aims => s[n].func = "benum"
  /\ s # <<>> => s[Len(s)].func \notin Aims
Level(s) == \A n \in 1 .. Len(s) : s[n].func \notin Steers
Begins(s) == s # <<>> /\ s[1].func \in {"turn", "circle"}

LEMMA CompleteCall ==
  ASSUME NEW func \in Funcs \ Aims, NEW keys, \A k \in keys : GoodCall([func |-> func, ch |-> k]),
         NEW s \in Call(func, keys)
  PROVE  /\ Complete(s)
         /\ func \notin Steers => Level(s)
         /\ func \in {"turn", "circle"} => Begins(s)
<1>1. PICK k \in keys \cap Keys : s = <<[func |-> func, ch |-> k]>>
  BY DEF Call
<1> DEFINE c == [func |-> func, ch |-> k]
<1>2. c \in CallRecord /\ GoodCall(c) /\ c.func = func
  BY DEF CallRecord
<1>3. s = <<c>>
  BY <1>1
<1> HIDE DEF c
<1>4. s \in Seq(CallRecord) /\ Len(s) = 1 /\ s[1] = c /\ s # <<>>
  BY <1>2, <1>3
<1>5. QED
  BY <1>2, <1>4 DEF Complete, Level, Begins

LEMMA CompleteThen ==
  ASSUME NEW A, NEW B, \A c \in A : Complete(c), \A d \in B : Complete(d), NEW s \in Then(A, B)
  PROVE  /\ Complete(s)
         /\ (\A c \in A : Level(c)) /\ (\A d \in B : Level(d)) => Level(s)
         /\ (\A c \in A : Begins(c)) => Begins(s)
<1>1. PICK c \in A, d \in B : s = c \o d
  BY DEF Then
<1>2. c \in Seq(CallRecord) /\ d \in Seq(CallRecord)
  BY DEF Complete
<1>3. /\ s \in Seq(CallRecord) /\ Len(s) = Len(c) + Len(d)
      /\ \A n \in 1 .. Len(s) : s[n] = IF n <= Len(c) THEN c[n] ELSE d[n - Len(c)]
  BY <1>1, <1>2
<1>4. /\ Len(c) \in Nat /\ Len(d) \in Nat /\ (c = <<>> <=> Len(c) = 0) /\ (d = <<>> <=> Len(d) = 0)
      /\ (s = <<>> <=> Len(s) = 0)
  BY <1>2, <1>3, EmptySeq
<1>5. ASSUME NEW n \in 1 .. Len(s)
      PROVE  GoodCall(s[n]) /\ (n > 1 /\ s[n - 1].func \in Aims => s[n].func = "benum")
  <2>1. CASE n <= Len(c)
    <3>1. n \in 1 .. Len(c) /\ s[n] = c[n] /\ (n > 1 => s[n - 1] = c[n - 1])
      BY <1>3, <1>4, <2>1
    <3>2. QED
      BY <3>1 DEF Complete
  <2>2. CASE n = Len(c) + 1
    <3>1. 1 \in 1 .. Len(d) /\ s[n] = d[1]
      BY <1>3, <1>4, <2>2
    <3>2. n > 1 => s[n - 1] = c[Len(c)] /\ c # <<>>
      BY <1>3, <1>4, <2>2
    <3>3. QED
      BY <3>1, <3>2 DEF Complete
  <2>3. CASE n > Len(c) + 1
    <3> DEFINE k == n - Len(c)
    <3>1. k \in 1 .. Len(d) /\ k > 1 /\ s[n] = d[k] /\ s[n - 1] = d[k - 1]
      BY <1>3, <1>4, <2>3, SMTT(60)
    <3> HIDE DEF k
    <3>2. QED
      BY <3>1 DEF Complete
  <2>4. QED
    BY <1>4, <2>1, <2>2, <2>3
<1>6. ASSUME s # <<>> PROVE s[Len(s)].func \notin Aims
  <2>1. CASE Len(d) = 0
    <3>1. s[Len(s)] = c[Len(c)] /\ c # <<>>
      BY <1>3, <1>4, <1>6, <2>1
    <3>2. QED
      BY <3>1 DEF Complete
  <2>2. CASE Len(d) # 0
    <3>1. s[Len(s)] = d[Len(d)] /\ d # <<>>
      BY <1>3, <1>4, <2>2
    <3>2. QED
      BY <3>1 DEF Complete
  <2>3. QED
    BY <2>1, <2>2
<1>7. ASSUME \A x \in A : Level(x), \A x \in B : Level(x), NEW n \in 1 .. Len(s) PROVE s[n].func \notin Steers
  <2>1. CASE n <= Len(c)
    BY <1>3, <1>4, <1>7, <2>1 DEF Level
  <2>2. CASE n > Len(c)
    <3>1. n - Len(c) \in 1 .. Len(d) /\ s[n] = d[n - Len(c)]
      BY <1>3, <1>4, <2>2
    <3>2. QED
      BY <1>7, <3>1 DEF Level
  <2>3. QED
    BY <1>4, <2>1, <2>2
<1>8. ASSUME \A x \in A : Begins(x) PROVE Begins(s)
  <2>1. c # <<>> /\ c[1].func \in {"turn", "circle"}
    BY <1>8 DEF Begins
  <2>2. s # <<>> /\ s[1] = c[1]
    BY <1>3, <1>4, <2>1
  <2>3. QED
    BY <2>1, <2>2 DEF Begins
<1>9. QED
  BY <1>3, <1>5, <1>6, <1>7, <1>8 DEF Complete, Level

LEMMA EmptyComplete == Complete(<<>>) /\ Level(<<>>)
  BY DEF Complete, Level

LEMMA DelaysComplete == ASSUME NEW s \in Delays PROVE Complete(s)
<1>1. "delayb" \in Funcs \ Aims
  BY DEF Funcs, Steers, Aims
<1>2. \A k \in DOMAIN Digit : GoodCall([func |-> "delayb", ch |-> k])
  BY DEF GoodCall
<1>3. ASSUME s \in Call("delayb", DOMAIN Digit) PROVE Complete(s)
  BY <1>1, <1>2, <1>3, CompleteCall
<1>4. QED
  BY <1>3, EmptyComplete DEF Delays

LEMMA RelativeComplete == ASSUME NEW s \in Relative PROVE Complete(s)
<1>1. "rel_dir" \in Funcs \ Aims
  BY DEF Funcs, Steers, Aims
<1>2. \A k \in DOMAIN dir_no \ {"a"} : GoodCall([func |-> "rel_dir", ch |-> k])
  BY DEF GoodCall
<1>3. ASSUME s \in Call("rel_dir", DOMAIN dir_no \ {"a"}) PROVE Complete(s)
  BY <1>1, <1>2, <1>3, CompleteCall
<1>4. QED
  BY <1>3, EmptyComplete DEF Relative

LEMMA TowardsComplete == ASSUME NEW s \in Towards PROVE Complete(s)
<1> DEFINE First == Call("beacon", {"b", "*"}) \cup Call("ex_it", {"e"}) \cup Call("airport", {"a"})
           Second == Call("benum", DOMAIN Digit)
<1>1. s \in Then(First, Second)
  BY DEF Towards
<1> HIDE DEF First, Second
<1>2. PICK x \in First, y \in Second : s = x \o y
  BY <1>1 DEF Then
<1>3. PICK func \in Aims, k \in Keys : x = <<[func |-> func, ch |-> k]>>
  BY DEF Call, Aims, First
<1>4. PICK j \in DOMAIN Digit \cap Keys : y = <<[func |-> "benum", ch |-> j]>>
  BY DEF Call, Second
<1> DEFINE c == [func |-> func, ch |-> k]
           d == [func |-> "benum", ch |-> j]
<1>5. c \in CallRecord /\ GoodCall(c) /\ c.func \in Aims
  BY DEF CallRecord, Funcs, GoodCall, Aims
<1>6. d \in CallRecord /\ GoodCall(d) /\ d.func = "benum" /\ "benum" \notin Aims
  BY DEF CallRecord, Funcs, GoodCall, Aims, Steers
<1>7. x = <<c>> /\ y = <<d>>
  BY <1>3, <1>4
<1> HIDE DEF c, d
<1>8. /\ x \in Seq(CallRecord) /\ Len(x) = 1 /\ x[1] = c
      /\ y \in Seq(CallRecord) /\ Len(y) = 1 /\ y[1] = d
  BY <1>5, <1>6, <1>7
<1>9. s \in Seq(CallRecord) /\ Len(s) = 2 /\ s[1] = c /\ s[2] = d
  BY <1>2, <1>8, ConcatProperties, SMTT(60)
<1>10. QED
  BY <1>5, <1>6, <1>9 DEF Complete

LEMMA HeadingsComplete == ASSUME NEW s \in Headings PROVE Complete(s) /\ Begins(s)
<1> DEFINE Sides == Then(Call("left", {"l"}) \cup Call("right", {"r"}), Relative)
           Ways == Sides \cup Call("Left", {"L"}) \cup Call("Right", {"R"}) \cup Towards
                     \cup Call("to_dir", DOMAIN dir_no)
           First == Call("circle", {"c"}) \cup Then(Call("turn", {"t"}), Ways)
<1>1. /\ {"left", "right", "Left", "Right", "to_dir", "turn", "circle"} \subseteq Funcs \ Aims
      /\ \A k \in DOMAIN dir_no : GoodCall([func |-> "to_dir", ch |-> k])
      /\ \A func \in {"left", "right", "Left", "Right", "turn", "circle"} : \A k \in {"l", "r", "L", "R", "t", "c"} :
            GoodCall([func |-> func, ch |-> k])
  BY DEF Funcs, Steers, Aims, GoodCall
<1>2. \A x \in Call("left", {"l"}) \cup Call("right", {"r"}) : Complete(x)
  BY <1>1, CompleteCall
<1>3. \A x \in Sides : Complete(x)
  BY <1>2, CompleteThen, RelativeComplete
<1>4. \A x \in Call("Left", {"L"}) \cup Call("Right", {"R"}) \cup Call("to_dir", DOMAIN dir_no) : Complete(x)
  BY <1>1, CompleteCall
<1>5. \A x \in Ways : Complete(x)
  BY <1>3, <1>4, TowardsComplete
<1>6. \A x \in Call("turn", {"t"}) : Complete(x) /\ Begins(x)
  BY <1>1, CompleteCall
<1>7. \A x \in Call("circle", {"c"}) : Complete(x) /\ Begins(x)
  BY <1>1, CompleteCall
<1> HIDE DEF Ways
<1>8. \A x \in Then(Call("turn", {"t"}), Ways) : Complete(x) /\ Begins(x)
  BY <1>5, <1>6, CompleteThen
<1>9. \A x \in First : Complete(x) /\ Begins(x)
  BY <1>7, <1>8
<1>10. s \in Then(First, Delays)
  BY DEF Headings, Ways
<1> HIDE DEF First
<1>11. QED
  BY <1>9, <1>10, CompleteThen, DelaysComplete

LEMMA AltitudesComplete == ASSUME NEW s \in Altitudes PROVE Complete(s) /\ Level(s)
<1>1. /\ {"setalt", "climb", "descend", "setrelalt"} \subseteq (Funcs \ Aims) \ Steers
      /\ \A func \in {"setalt", "setrelalt"} : \A k \in DOMAIN Digit : GoodCall([func |-> func, ch |-> k])
      /\ \A func \in {"climb", "descend"} : \A k \in {"+", "c", "-", "d"} : GoodCall([func |-> func, ch |-> k])
  BY DEF Funcs, Steers, Aims, GoodCall
<1>2. \A x \in Call("setalt", DOMAIN Digit) : Complete(x) /\ Level(x)
  BY <1>1, CompleteCall
<1>3. \A x \in Call("setrelalt", DOMAIN Digit) : Complete(x) /\ Level(x)
  BY <1>1, CompleteCall
<1>4. \A x \in Call("climb", {"+", "c"}) \cup Call("descend", {"-", "d"}) : Complete(x) /\ Level(x)
  BY <1>1, CompleteCall
<1>5. ASSUME s \in Then(Call("climb", {"+", "c"}) \cup Call("descend", {"-", "d"}), Call("setrelalt", DOMAIN Digit))
      PROVE  Complete(s) /\ Level(s)
  BY <1>3, <1>4, <1>5, CompleteThen
<1>6. QED
  BY <1>2, <1>5 DEF Altitudes

LEMMA MarksComplete == ASSUME NEW s \in Marks PROVE Complete(s) /\ Level(s)
<1>1. /\ {"mark", "unmark", "ignore"} \subseteq (Funcs \ Aims) \ Steers
      /\ \A func \in {"mark", "unmark", "ignore"} : \A k \in {"m", "u", "i"} : GoodCall([func |-> func, ch |-> k])
  BY DEF Funcs, Steers, Aims, GoodCall
<1>2. QED
  BY <1>1, CompleteCall DEF Marks

LEMMA CallsRouted ==
  ASSUME NEW calls \in Calls \ {<<>>}
  PROVE  Routed(Tail(calls))
<1> DEFINE Rest == Headings \cup Altitudes \cup Marks
<1> DEFINE First == {<<[func |-> "setplane", ch |-> k]>> : k \in Names}
<1>0. calls \in Then(First, Rest)
  BY DEF Calls
<1> HIDE DEF First, Rest
<1>1. PICK k \in Names, s \in Rest : calls = <<[func |-> "setplane", ch |-> k]>> \o s
  <2>1. PICK a \in First, s \in Rest : calls = a \o s
    BY <1>0 DEF Then
  <2>2. PICK k \in Names : a = <<[func |-> "setplane", ch |-> k]>>
    BY DEF First
  <2>3. QED
    BY <2>1, <2>2, Zenon
<1>2. Complete(s) /\ (Begins(s) \/ Level(s))
  BY HeadingsComplete, AltitudesComplete, MarksComplete DEF Rest
<1> DEFINE c == [func |-> "setplane", ch |-> k]
<1> HIDE DEF c
<1>3. s \in Seq(CallRecord) /\ calls = <<c>> \o s
  BY <1>1, <1>2 DEF Complete, c
<1> DEFINE All == CallRecord \cup {c}
<1>4. Tail(calls) = s
  <2>1. s \in Seq(All) /\ calls \in Seq(All) /\ Len(calls) = Len(s) + 1 /\ calls # <<>>
        /\ \A n \in 1 .. Len(s) : calls[n + 1] = s[n]
    BY <1>3
  <2>2. Tail(calls) \in Seq(All) /\ Len(Tail(calls)) = Len(s) /\ \A n \in 1 .. Len(s) : Tail(calls)[n] = s[n]
    BY <2>1
  <2>3. QED
    BY <2>1, <2>2, SeqEqual
<1>5. Len(s) \in Nat /\ DOMAIN s = 1 .. Len(s)
  BY <1>3
<1>6. ASSUME NEW n \in 1 .. Len(s), s[n].func \in Steers PROVE s[1].func \in {"turn", "circle"}
  BY <1>2, <1>6 DEF Level, Begins
<1>7. Routed(s)
  BY <1>2, <1>5, <1>6 DEF Complete, Routed
<1>8. QED
  BY <1>4, <1>7

-----------------------------------------------------------------------------
(* The search *)

(* The loop goes from y to no number above that of a plane of T it has not *)
(* passed.                                                                 *)
Upto(h, y, T) ==
  \A q \in T : h[y].plane_no < h[q].plane_no =>
     h[y].next # 0 /\ h[h[y].next].plane_no <= h[q].plane_no

(* The planes of T with number no are ahead of pp.                         *)
Awaits(h, T, no, pp) ==
  \A q \in T : h[q].plane_no = no => pp # 0 /\ h[pp].plane_no <= h[q].plane_no

(* Where a search may come: W has the planes in the lists, and those that  *)
(* left while the search went on.  From the air, and from the planes that  *)
(* left it, it does not come back to the ground.                           *)
Pool(W) ==
  /\ Listed \subseteq W /\ W \subseteq 1 .. births
  /\ main.pp \in W \cup {0}
  /\ \A y \in W \ OnRunway : heap[y].next \in (W \ OnRunway) \cup {0} /\ Upto(heap, y, stays \cap InAir)
  /\ main.pc = "search" /\ main.of \in Listed =>
       \A y \in W : heap[y].plane_no = main.no => y = main.of

SearchInv ==
  main.pc \in {"lookup", "search"} =>
    /\ stays \subseteq Listed
    /\ \E W : Pool(W)
    /\ main.in = "air" => main.pp \notin OnRunway /\ Awaits(heap, stays \cap InAir, main.no, main.pp)
    /\ main.in # "air" => /\ \A q \in stays \cap InAir : heap[q].plane_no # main.no
                          /\ Awaits(heap, stays \cap OnRunway, main.no, main.pp)
                          /\ stays \cap OnRunway # {} => main.pp \in OnRunway \cup {0}

LEMMA WholeOrder ==
  ASSUME NEW N \in Nat, NEW h, NEW l, NEW S, Whole(N, [heap |-> h, list |-> l], S)
  PROVE  /\ l.head \in S \cup {0} /\ \A no : Awaits(h, S, no, l.head)
         /\ \A y \in S : h[y].next \in S \cup {0} /\ Upto(h, y, S)
         /\ S \subseteq 1 .. N /\ 0 \notin S
<1>1. /\ h \in [1 .. N -> Plane] /\ S \subseteq 1 .. N /\ IsList(h, l, S)
  BY DEF Whole
<1>2. 0 \notin S
  BY <1>1
<1>3. l.head \in S \cup {0} /\ \A no : Awaits(h, S, no, l.head)
  BY <1>1, <1>2 DEF IsList, Least, Awaits
<1>4. ASSUME NEW y \in S PROVE h[y].next \in S \cup {0} /\ Upto(h, y, S)
  <2>1. Least(h, After(h, S, y), h[y].next)
    BY <1>1 DEF IsList
  <2>2. QED
    BY <1>2, <2>1 DEF Least, After, Upto
<1>5. QED
  BY <1>1, <1>2, <1>3, <1>4

LEMMA ListOrder ==
  ASSUME PlaneInv, ListInv
  PROVE  /\ births \in Nat /\ births \in 1 .. Births /\ DOMAIN heap = 1 .. births
         /\ air.head \in InAir \cup {0} /\ \A no : Awaits(heap, InAir, no, air.head)
         /\ ground.head \in OnRunway \cup {0} /\ \A no : Awaits(heap, OnRunway, no, ground.head)
         /\ \A y \in InAir : heap[y].next \in InAir \cup {0} /\ Upto(heap, y, InAir)
         /\ \A y \in OnRunway : heap[y].next \in OnRunway \cup {0} /\ Upto(heap, y, OnRunway)
         /\ Listed \subseteq 1 .. births /\ 0 \notin Listed /\ InAir \cap OnRunway = {}
         /\ \A y \in 1 .. births : heap[y].plane_no \in Nat
<1>1. births \in Nat /\ births \in 1 .. Births /\ heap \in [1 .. births -> Plane]
  BY AtcTowerAssumption DEF PlaneInv
<1>2. ASSUME NEW y \in 1 .. births PROVE heap[y].plane_no \in Nat
  BY <1>1, PlaneNo
<1>3. /\ air.head \in InAir \cup {0} /\ \A no : Awaits(heap, InAir, no, air.head)
      /\ \A y \in InAir : heap[y].next \in InAir \cup {0} /\ Upto(heap, y, InAir)
      /\ InAir \subseteq 1 .. births /\ 0 \notin InAir
  <2>1. Whole(births, [heap |-> heap, list |-> air], InAir)
    BY DEF ListInv
  <2>2. QED
    BY <1>1, <2>1, WholeOrder
<1>4. /\ ground.head \in OnRunway \cup {0} /\ \A no : Awaits(heap, OnRunway, no, ground.head)
      /\ \A y \in OnRunway : heap[y].next \in OnRunway \cup {0} /\ Upto(heap, y, OnRunway)
      /\ OnRunway \subseteq 1 .. births /\ 0 \notin OnRunway
  <2>1. Whole(births, [heap |-> heap, list |-> ground], OnRunway)
    BY DEF ListInv
  <2>2. QED
    BY <1>1, <2>1, WholeOrder
<1>5. InAir \cap OnRunway = {}
  BY DEF ListInv
<1>6. DOMAIN heap = 1 .. births
  BY <1>1
<1>7. QED
  BY <1>1, <1>2, <1>3, <1>4, <1>5, <1>6 DEF Listed

LEMMA SameLists ==
  ASSUME UNCHANGED lists
  PROVE  /\ InAir' = InAir /\ OnRunway' = OnRunway /\ Listed' = Listed /\ births' = births
         /\ heap' = heap /\ air' = air /\ ground' = ground
  BY DEF lists, InAir, OnRunway, Listed, births

(* A search begins.                                                        *)
LEMMA SearchStarts ==
  ASSUME PlaneInv, ListInv, UNCHANGED lists, stays' = Listed, main'.pp = air.head, main'.in = "air",
         main'.pc = "search" /\ main'.of \in Listed => main'.no = heap[main'.of].plane_no
  PROVE  SearchInv'
<1>1. /\ InAir' = InAir /\ OnRunway' = OnRunway /\ Listed' = Listed /\ births' = births /\ heap' = heap
  BY SameLists
<1>2. Listed \cap InAir = InAir
  BY DEF Listed
<1>3. Pool(Listed)'
  <2>1. main'.pp \in Listed \cup {0}
    BY ListOrder DEF Listed
  <2>2. \A y \in Listed \ OnRunway : heap[y].next \in (Listed \ OnRunway) \cup {0} /\ Upto(heap, y, Listed \cap InAir)
    BY <1>2, ListOrder DEF Listed
  <2>3. main'.pc = "search" /\ main'.of \in Listed => \A y \in Listed : heap[y].plane_no = main'.no => y = main'.of
    BY DEF ListInv, Distinct
  <2>4. Listed \subseteq 1 .. births
    BY ListOrder
  <2>5. QED
    BY <1>1, <2>1, <2>2, <2>3, <2>4 DEF Pool
<1>4. main'.pp \notin OnRunway /\ Awaits(heap, Listed \cap InAir, main'.no, main'.pp)
  BY <1>2, ListOrder DEF Listed
<1>5. \E W : Pool(W)'
  BY <1>3, <1>1, Zenon
<1>6. QED
  BY <1>1, <1>4, <1>5 DEF SearchInv

(* And goes on.                                                            *)
LEMMA SearchGoesOn ==
  ASSUME PlaneInv, ListInv, SearchInv, Searching, UNCHANGED <<lists, stays>>, main'.pc = main.pc, main'.no = main.no,
         main'.of = main.of,
         \/ main.pp = 0 /\ main.in = "air" /\ main'.pp = ground.head /\ main'.in = "ground"
         \/ /\ main.pp # 0 /\ heap[main.pp].plane_no # main.no
            /\ main'.pp = heap[main.pp].next /\ main'.in = main.in
  PROVE  SearchInv'
<1>1. /\ InAir' = InAir /\ OnRunway' = OnRunway /\ Listed' = Listed /\ births' = births /\ heap' = heap
      /\ stays' = stays
  BY SameLists
<1>2. main.pc \in {"lookup", "search"}
  BY DEF Searching
<1>3. PICK W : Pool(W)
  BY <1>2 DEF SearchInv
<1>4. /\ Listed \subseteq W /\ W \subseteq 1 .. births /\ main.pp \in W \cup {0}
      /\ \A y \in W \ OnRunway : heap[y].next \in (W \ OnRunway) \cup {0} /\ Upto(heap, y, stays \cap InAir)
      /\ main.pc = "search" /\ main.of \in Listed => \A y \in W : heap[y].plane_no = main.no => y = main.of
  BY <1>3 DEF Pool
<1>5. /\ stays \subseteq Listed
      /\ main.in = "air" => main.pp \notin OnRunway /\ Awaits(heap, stays \cap InAir, main.no, main.pp)
      /\ main.in # "air" => /\ \A q \in stays \cap InAir : heap[q].plane_no # main.no
                            /\ Awaits(heap, stays \cap OnRunway, main.no, main.pp)
                            /\ stays \cap OnRunway # {} => main.pp \in OnRunway \cup {0}
  BY <1>2 DEF SearchInv
<1>6. OnRunway \subseteq Listed /\ Listed \subseteq 1 .. births /\ births \in Nat
  BY ListOrder DEF Listed
<1>7. main'.pp \in W \cup {0}
  <2>1. CASE main.pp = 0
    BY <1>4, <2>1, ListOrder DEF Listed
  <2>2. CASE main.pp # 0 /\ main.pp \in OnRunway
    BY <1>4, <1>6, <2>2, ListOrder
  <2>3. CASE main.pp # 0 /\ main.pp \notin OnRunway
    BY <1>4, <2>3
  <2>4. QED
    BY <2>1, <2>2, <2>3
<1>8. \E V : Pool(V)'
  <2>1. Pool(W)'
    BY <1>1, <1>4, <1>7 DEF Pool
  <2>2. QED
    BY <2>1
<1>9. main'.in = "air" => main'.pp \notin OnRunway /\ Awaits(heap, stays \cap InAir, main.no, main'.pp)
  <2>1. SUFFICES ASSUME main'.in = "air"
                 PROVE  main'.pp \notin OnRunway /\ Awaits(heap, stays \cap InAir, main.no, main'.pp)
    OBVIOUS
  <2>2. /\ main.in = "air" /\ main.pp # 0 /\ heap[main.pp].plane_no # main.no /\ main'.pp = heap[main.pp].next
    BY <2>1
  <2>3. main.pp \in W \ OnRunway
    BY <1>4, <1>5, <2>2
  <2>4. main'.pp \in (W \ OnRunway) \cup {0} /\ Upto(heap, main.pp, stays \cap InAir)
    BY <1>4, <2>2, <2>3
  <2>5. 0 \notin OnRunway
    BY <1>6
  <2>6. ASSUME NEW q \in stays \cap InAir, heap[q].plane_no = main.no
        PROVE  main'.pp # 0 /\ heap[main'.pp].plane_no <= heap[q].plane_no
    <3>1. heap[main.pp].plane_no <= heap[q].plane_no
      BY <1>5, <2>2, <2>6 DEF Awaits
    <3>2. heap[main.pp].plane_no \in Nat /\ heap[q].plane_no \in Nat
      BY <1>4, <1>5, <1>6, <2>3, ListOrder
    <3>3. heap[main.pp].plane_no < heap[q].plane_no
      BY <2>2, <2>6, <3>1, <3>2
    <3>4. QED
      BY <2>2, <2>4, <3>3 DEF Upto
  <2>7. QED
    BY <2>4, <2>5, <2>6 DEF Awaits
<1>10. main'.in # "air" => /\ \A q \in stays \cap InAir : heap[q].plane_no # main.no
                           /\ Awaits(heap, stays \cap OnRunway, main.no, main'.pp)
                           /\ stays \cap OnRunway # {} => main'.pp \in OnRunway \cup {0}
  <2>1. CASE main.pp = 0 /\ main.in = "air" /\ main'.pp = ground.head
    <3>1. \A q \in stays \cap InAir : heap[q].plane_no # main.no
      BY <1>5, <2>1 DEF Awaits
    <3>2. Awaits(heap, stays \cap OnRunway, main.no, main'.pp) /\ main'.pp \in OnRunway \cup {0}
      BY <2>1, ListOrder DEF Awaits
    <3>3. QED
      BY <3>1, <3>2
  <2>2. CASE main.pp # 0 /\ heap[main.pp].plane_no # main.no /\ main.in # "air" /\ main'.pp = heap[main.pp].next
    <3>1. stays \cap OnRunway # {} => main.pp \in OnRunway
      BY <1>5, <2>2
    <3>2. stays \cap OnRunway # {} => main'.pp \in OnRunway \cup {0}
      BY <2>2, <3>1, ListOrder
    <3>3. ASSUME NEW q \in stays \cap OnRunway, heap[q].plane_no = main.no
          PROVE  main'.pp # 0 /\ heap[main'.pp].plane_no <= heap[q].plane_no
      <4>1. heap[main.pp].plane_no <= heap[q].plane_no
        BY <1>5, <2>2, <3>3 DEF Awaits
      <4>2. heap[main.pp].plane_no \in Nat /\ heap[q].plane_no \in Nat
        BY <1>6, <3>1, ListOrder
      <4>3. heap[main.pp].plane_no < heap[q].plane_no
        BY <2>2, <3>3, <4>1, <4>2
      <4>4. Upto(heap, main.pp, OnRunway)
        BY <3>1, ListOrder
      <4>5. QED
        BY <2>2, <4>3, <4>4 DEF Upto
    <3>4. QED
      BY <1>5, <2>2, <3>2, <3>3 DEF Awaits
  <2>3. QED
    BY <2>1, <2>2
<1>11. QED
  BY <1>1, <1>5, <1>8, <1>9, <1>10 DEF SearchInv

(* A tick comes between two of its steps.                                  *)
LEMMA SearchTicks ==
  ASSUME PlaneInv, ListInv, SearchInv, NEW P, NEW exit, Ticked(P, exit),
         main.pc = "search" /\ main.of \in Listed => main.no = heap[main.of].plane_no,
         main.pc = "search" => main.of \in 1 .. births,
         main'.pc = main.pc, main'.no = main.no, main'.of = main.of, main'.pp = main.pp, main'.in = main.in
  PROVE  SearchInv'
<1>1. SUFFICES ASSUME main.pc \in {"lookup", "search"} PROVE SearchInv'
  BY DEF SearchInv
<1>2. PICK W : Pool(W)
  BY <1>1 DEF SearchInv
<1>3. /\ Listed \subseteq W /\ W \subseteq 1 .. births /\ main.pp \in W \cup {0}
      /\ \A y \in W \ OnRunway : heap[y].next \in (W \ OnRunway) \cup {0} /\ Upto(heap, y, stays \cap InAir)
      /\ main.pc = "search" /\ main.of \in Listed => \A y \in W : heap[y].plane_no = main.no => y = main.of
  BY <1>2 DEF Pool
<1>4. /\ stays \subseteq Listed
      /\ main.in = "air" => main.pp \notin OnRunway /\ Awaits(heap, stays \cap InAir, main.no, main.pp)
      /\ main.in # "air" => /\ \A q \in stays \cap InAir : heap[q].plane_no # main.no
                            /\ Awaits(heap, stays \cap OnRunway, main.no, main.pp)
                            /\ stays \cap OnRunway # {} => main.pp \in OnRunway \cup {0}
  BY <1>1 DEF SearchInv
<1>5. /\ births \in Nat /\ 1 .. births \subseteq 1 .. births' /\ births' \in Nat
      /\ P \subseteq 1 .. births' /\ P \cap (1 .. births) = {}
  BY ListOrder DEF Ticked
<1>6. /\ Aloft \subseteq 1 .. births /\ Listed \subseteq 1 .. births /\ Leaving \subseteq Aloft
      /\ Aloft \subseteq Listed /\ Aloft \cap (OnRunway \ Rising) = {} /\ Rising \subseteq OnRunway
      /\ Listed = Aloft \cup (OnRunway \ Rising) /\ InAir \cap OnRunway = {} /\ Aloft = InAir \cup Rising
  BY AloftPlanes, ListOrder DEF Aloft, Listed, Rising
<1>7. ASSUME NEW x \in 1 .. births PROVE heap'[x].plane_no = heap[x].plane_no
  <2>1. SameFlight(heap'[x], Later(x))
    BY DEF Ticked
  <2>2. heap[x] \in Plane
    BY AloftPlanes
  <2>3. Later(x).plane_no = heap[x].plane_no
    BY <2>2, FlownFields DEF Later
  <2>4. QED
    BY <2>1, <2>3 DEF SameFlight
<1>8. ListInv' /\ PlaneInv'
  BY TickKeepsLists, TickKeepsPlanes
<1>9. /\ \A y \in InAir' : heap'[y].next \in InAir' \cup {0} /\ Upto(heap', y, InAir')
      /\ Listed' \subseteq 1 .. births' /\ InAir' \cap OnRunway' = {} /\ 0 \notin Listed'
      /\ Listed' = InAir' \cup OnRunway' /\ Distinct(heap', Listed')
  <2>1. /\ Whole(births', [heap |-> heap', list |-> air'], InAir')
        /\ Whole(births', [heap |-> heap', list |-> ground'], OnRunway')
        /\ InAir' \cap OnRunway' = {} /\ Distinct(heap', Listed')
    BY <1>8 DEF ListInv
  <2>2. Listed' = InAir' \cup OnRunway'
    BY DEF Listed
  <2>3. QED
    BY <1>5, <2>1, <2>2, WholeOrder
<1>10. /\ InAir' \subseteq (Aloft \ Leaving) \cup P /\ Aloft \ Leaving \subseteq InAir'
       /\ OnRunway' \subseteq (OnRunway \ Rising) \cup P /\ OnRunway \ Rising \subseteq OnRunway'
       /\ Listed' = ((Listed \ Leaving) \cup P)
       /\ stays' = stays \ (Leaving \cup IF Rising = {} THEN {} ELSE OnRunway)
  <2>1. /\ InAir' = (Aloft \ Leaving) \cup (IF exit THEN P ELSE {})
        /\ OnRunway' = (OnRunway \ Rising) \cup (IF exit THEN {} ELSE P)
        /\ stays' = stays \ (Leaving \cup IF Rising = {} THEN {} ELSE OnRunway)
    BY DEF Ticked
  <2>2. QED
    BY <1>6, <1>9, <2>1
<1>11. /\ stays' \subseteq Listed' /\ stays' \subseteq stays
       /\ stays' \cap InAir' \subseteq stays \cap InAir
       /\ stays' \cap InAir' \subseteq Aloft \ Leaving
       /\ stays' \cap OnRunway' \subseteq stays \cap OnRunway
       /\ stays' \cap OnRunway' # {} => Rising = {}
  BY <1>4, <1>5, <1>6, <1>10, ZenonT(60)
<1> DEFINE V == W \cup P
<1>12. /\ Listed' \subseteq V /\ V \subseteq 1 .. births' /\ main.pp \in V \cup {0}
  BY <1>3, <1>5, <1>10
<1>13. ASSUME NEW y \in V \ OnRunway'
       PROVE  heap'[y].next \in (V \ OnRunway') \cup {0} /\ Upto(heap', y, stays' \cap InAir')
  <2>1. CASE y \in InAir'
    <3>1. InAir' \subseteq V \ OnRunway'
      BY <1>9, <1>12
    <3>2. QED
      BY <1>9, <2>1, <3>1 DEF Upto
  <2>2. CASE y \in Leaving
    <3>1. Leads(heap', Aloft, Leaving, y)
      BY <2>2 DEF Ticked
    <3>2. Aloft \subseteq V \ OnRunway'
      BY <1>3, <1>5, <1>6, <1>10
    <3>3. QED
      BY <1>11, <3>1, <3>2 DEF Leads, Upto
  <2>3. CASE y \notin Listed' /\ y \notin Leaving
    <3>1. y \notin Listed /\ y \in W \ OnRunway /\ y \in 1 .. births
      BY <1>3, <1>6, <1>10, <2>3 DEF Listed
    <3>2. heap'[y] = heap[y]
      BY <3>1 DEF Ticked
    <3>3. heap[y].next \in (W \ OnRunway) \cup {0} /\ Upto(heap, y, stays \cap InAir)
      BY <1>3, <3>1
    <3>4. W \ OnRunway \subseteq V \ OnRunway'
      BY <1>3, <1>5, <1>10
    <3>5. ASSUME NEW q \in stays' \cap InAir', heap'[y].plane_no < heap'[q].plane_no
          PROVE  heap'[y].next # 0 /\ heap'[heap'[y].next].plane_no <= heap'[q].plane_no
      <4>1. q \in stays \cap InAir /\ q \in 1 .. births
        BY <1>6, <1>11
      <4>2. heap[y].plane_no < heap[q].plane_no
        BY <1>7, <3>1, <3>5, <4>1
      <4>3. heap[y].next # 0 /\ heap[heap[y].next].plane_no <= heap[q].plane_no
        BY <3>3, <4>1, <4>2 DEF Upto
      <4>4. heap[y].next \in 1 .. births
        BY <1>3, <3>3, <4>3
      <4>5. QED
        BY <1>7, <3>2, <4>1, <4>3, <4>4
    <3>6. QED
      BY <3>2, <3>3, <3>4, <3>5 DEF Upto
  <2>4. QED
    BY <1>9, <2>1, <2>2, <2>3
<1>14. main.pc = "search" /\ main.of \in Listed' => \A y \in V : heap'[y].plane_no = main.no => y = main.of
  <2>1. SUFFICES ASSUME main.pc = "search", main.of \in Listed', NEW y \in V, heap'[y].plane_no = main.no
                 PROVE  y = main.of
    OBVIOUS
  <2>2. main.of \in 1 .. births /\ main.of \in Listed
    BY <1>5, <1>10, <2>1
  <2>3. main.no = heap'[main.of].plane_no
    BY <1>7, <2>1, <2>2
  <2>4. CASE y \in W
    BY <1>3, <1>7, <2>1, <2>2, <2>4
  <2>5. CASE y \in P
    <3>1. y \in Listed'
      BY <1>10, <2>5
    <3>2. QED
      BY <1>9, <2>1, <2>3, <3>1 DEF Distinct
  <2>6. QED
    BY <2>4, <2>5
<1>15. \E V1 : Pool(V1)'
  <2> HIDE DEF V
  <2>1. Pool(V)'
    BY <1>12, <1>13, <1>14 DEF Pool
  <2>2. QED
    BY <2>1
<1>16. main.in = "air" => main.pp \notin OnRunway' /\ Awaits(heap', stays' \cap InAir', main.no, main.pp)
  <2>1. SUFFICES ASSUME main.in = "air"
                 PROVE  main.pp \notin OnRunway' /\ Awaits(heap', stays' \cap InAir', main.no, main.pp)
    OBVIOUS
  <2>2. main.pp \notin OnRunway'
    BY <1>3, <1>4, <1>5, <1>9, <1>10, <2>1
  <2>3. ASSUME NEW q \in stays' \cap InAir', heap'[q].plane_no = main.no
        PROVE  main.pp # 0 /\ heap'[main.pp].plane_no <= heap'[q].plane_no
    <3>1. q \in stays \cap InAir /\ q \in 1 .. births
      BY <1>6, <1>11
    <3>2. main.pp # 0 /\ heap[main.pp].plane_no <= heap[q].plane_no
      BY <1>4, <1>7, <2>1, <2>3, <3>1 DEF Awaits
    <3>3. main.pp \in 1 .. births
      BY <1>3, <3>2
    <3>4. QED
      BY <1>7, <3>1, <3>2, <3>3
  <2>4. QED
    BY <2>2, <2>3 DEF Awaits
<1>17. main.in # "air" => /\ \A q \in stays' \cap InAir' : heap'[q].plane_no # main.no
                          /\ Awaits(heap', stays' \cap OnRunway', main.no, main.pp)
                          /\ stays' \cap OnRunway' # {} => main.pp \in OnRunway' \cup {0}
  <2>1. SUFFICES ASSUME main.in # "air"
                 PROVE  /\ \A q \in stays' \cap InAir' : heap'[q].plane_no # main.no
                        /\ Awaits(heap', stays' \cap OnRunway', main.no, main.pp)
                        /\ stays' \cap OnRunway' # {} => main.pp \in OnRunway' \cup {0}
    OBVIOUS
  <2>2. \A q \in stays' \cap InAir' : heap'[q].plane_no # main.no
    BY <1>4, <1>6, <1>7, <1>11, <2>1
  <2>3. stays' \cap OnRunway' # {} => main.pp \in OnRunway' \cup {0}
    BY <1>4, <1>10, <1>11, <2>1
  <2>4. ASSUME NEW q \in stays' \cap OnRunway', heap'[q].plane_no = main.no
        PROVE  main.pp # 0 /\ heap'[main.pp].plane_no <= heap'[q].plane_no
    <3>1. q \in stays \cap OnRunway /\ q \in 1 .. births
      BY <1>4, <1>6, <1>11
    <3>2. main.pp # 0 /\ heap[main.pp].plane_no <= heap[q].plane_no
      BY <1>4, <1>7, <2>1, <2>4, <3>1 DEF Awaits
    <3>3. main.pp \in 1 .. births
      BY <1>3, <3>2
    <3>4. QED
      BY <1>7, <3>1, <3>2, <3>3
  <2>5. QED
    BY <2>2, <2>3, <2>4 DEF Awaits
<1>18. QED
  BY <1>11, <1>15, <1>16, <1>17 DEF SearchInv

-----------------------------------------------------------------------------
(* What getcommand stores                                                  *)

(* From the copy on, main.of is the plane that was copied; its mark can    *)
(* only have come from a beacon, and on the ground it is not turned.       *)
OrderInv ==
  main.pc \in {"search", "store delayd", "store delayd_no"} =>
    /\ main.of \in 1 .. births
    /\ main.p.new_altitude \in 0 .. 9 /\ main.p.status \in {"marked", "unmarked", "ignored", "gone"}
    /\ main.p.new_dir \in 0 .. 8 /\ main.p.delayd \in BOOLEAN /\ main.p.delayd_no \in Nat
    /\ main.p.delayd => Len(Beacons) > 0
    /\ main.p.delayd_no = 0 \/ main.p.delayd_no < Len(Beacons)
    /\ main.pc # "search" => main.pp \in 1 .. births
    /\ main.of \in Listed =>
         /\ main.pc = "search" => main.no = heap[main.of].plane_no
         /\ main.pc # "search" => main.pp = main.of
         /\ \/ MarkCalled(main.calls) \/ main.p.status = heap[main.of].status
            \/ main.p.status = "unmarked" /\ heap[main.of].status = "marked"
    /\ main.of \in OnRunway => main.p.new_dir = heap[main.of].new_dir /\ main.p.delayd = FALSE

LEMMA OrderTicks ==
  ASSUME PlaneInv, ListInv, OrderInv, NEW P, NEW exit, Ticked(P, exit),
         main'.pc = main.pc, main'.no = main.no, main'.of = main.of, main'.pp = main.pp, main'.p = main.p,
         main'.calls = main.calls
  PROVE  OrderInv'
<1>1. SUFFICES ASSUME main.pc \in {"search", "store delayd", "store delayd_no"} PROVE OrderInv'
  BY DEF OrderInv
<1> DEFINE of == main.of
<1>2. /\ of \in 1 .. births
      /\ main.p.new_altitude \in 0 .. 9 /\ main.p.status \in {"marked", "unmarked", "ignored", "gone"}
      /\ main.p.new_dir \in 0 .. 8 /\ main.p.delayd \in BOOLEAN /\ main.p.delayd_no \in Nat
      /\ main.p.delayd => Len(Beacons) > 0
      /\ main.p.delayd_no = 0 \/ main.p.delayd_no < Len(Beacons)
      /\ main.pc # "search" => main.pp \in 1 .. births
      /\ of \in Listed =>
         /\ main.pc = "search" => main.no = heap[of].plane_no
         /\ main.pc # "search" => main.pp = of
         /\ \/ MarkCalled(main.calls) \/ main.p.status = heap[of].status
            \/ main.p.status = "unmarked" /\ heap[of].status = "marked"
      /\ of \in OnRunway => main.p.new_dir = heap[of].new_dir /\ main.p.delayd = FALSE
  BY <1>1 DEF OrderInv
<1>3. /\ births \in Nat /\ 1 .. births \subseteq 1 .. births' /\ P \cap (1 .. births) = {}
  BY ListOrder DEF Ticked
<1>4. /\ Leaving \subseteq Aloft /\ Aloft \subseteq Listed /\ Rising \subseteq OnRunway
      /\ Listed = Aloft \cup (OnRunway \ Rising) /\ Aloft \cap (OnRunway \ Rising) = {}
  BY AloftPlanes, ListOrder DEF Aloft, Listed, Rising
<1>5. /\ Listed' \subseteq (Listed \ Leaving) \cup P
      /\ OnRunway' \subseteq (OnRunway \ Rising) \cup P
  <2>1. /\ InAir' = (Aloft \ Leaving) \cup (IF exit THEN P ELSE {})
        /\ OnRunway' = (OnRunway \ Rising) \cup (IF exit THEN {} ELSE P)
    BY DEF Ticked
  <2>2. Listed' = InAir' \cup OnRunway'
    BY DEF Listed
  <2>3. QED
    BY <1>4, <2>1, <2>2
<1>6. SameFlight(heap'[of], Later(of))
  BY <1>2 DEF Ticked
<1>7. heap[of] \in Plane
  BY <1>2, AloftPlanes
<1>8. heap'[of].plane_no = heap[of].plane_no
  <2>1. Later(of).plane_no = heap[of].plane_no
    BY <1>7, FlownFields DEF Later
  <2>2. QED
    BY <1>6, <2>1 DEF SameFlight
<1>9. of \notin Leaving => \/ heap'[of].status = heap[of].status
                           \/ heap[of].status = "unmarked" /\ heap'[of].status = "marked"
  <2>1. SUFFICES ASSUME of \notin Leaving
                 PROVE  \/ heap'[of].status = heap[of].status
                        \/ heap[of].status = "unmarked" /\ heap'[of].status = "marked"
    OBVIOUS
  <2>2. heap'[of].status = Later(of).status
    BY <1>6 DEF SameFlight
  <2>3. CASE ~Moves(of)
    BY <2>2, <2>3 DEF Later
  <2>4. CASE Moves(of)
    <3>1. of \in Aloft /\ Later(of) = Flown(heap[of])
      BY <2>4 DEF Later, Moves
    <3>2. Flown(heap[of]).status # "gone"
      BY <2>1, <3>1 DEF Leaving
    <3>3. \/ Flown(heap[of]).status = heap[of].status
          \/ heap[of].status = "unmarked" /\ Flown(heap[of]).status = "marked"
      BY <1>7, <3>2, FlownFields
    <3>4. QED
      BY <2>2, <3>1, <3>3
  <2>5. QED
    BY <2>3, <2>4
<1>10. of \in OnRunway' => of \in OnRunway /\ heap'[of].new_dir = heap[of].new_dir
  <2>1. SUFFICES ASSUME of \in OnRunway' PROVE of \in OnRunway /\ heap'[of].new_dir = heap[of].new_dir
    OBVIOUS
  <2>2. of \in OnRunway \ Rising
    BY <1>2, <1>3, <1>5, <2>1
  <2>3. Later(of) = heap[of]
    BY <1>4, <2>2 DEF Later, Moves
  <2>4. QED
    BY <1>6, <2>2, <2>3 DEF SameFlight
<1>11. of \in Listed' => of \in Listed \ Leaving
  BY <1>2, <1>3, <1>5
<1>12. of \in Listed' => /\ main.pc = "search" => main.no = heap'[of].plane_no
                         /\ main.pc # "search" => main.pp = of
                         /\ \/ MarkCalled(main.calls) \/ main.p.status = heap'[of].status
                            \/ main.p.status = "unmarked" /\ heap'[of].status = "marked"
  BY <1>2, <1>8, <1>9, <1>11
<1>13. of \in 1 .. births' /\ (main.pc # "search" => main.pp \in 1 .. births')
  BY <1>2, <1>3
<1>14. QED
  BY <1>2, <1>10, <1>12, <1>13 DEF OrderInv

-----------------------------------------------------------------------------
(* A plane that is given an order stays where it is.                       *)
SamePlace(p, q) == /\ p.plane_no = q.plane_no /\ p.next = q.next /\ p.prev = q.prev /\ p.type = q.type
                   /\ p.altitude = q.altitude /\ p.fuel = q.fuel /\ p.xpos = q.xpos /\ p.ypos = q.ypos

Stored(q, r) ==
  /\ q \in 1 .. births /\ r \in Plane /\ SamePlace(r, heap[q])
  /\ r.delayd_no = 0 \/ r.delayd_no < Len(Beacons)
  /\ r.delayd => Len(Beacons) > 0
  /\ heap' = [heap EXCEPT ![q] = r]
  /\ UNCHANGED <<air, ground, last_plane, safe_planes, status, odd>>

LEMMA StoredSame ==
  ASSUME PlaneInv, ListInv, NEW q, NEW r, Stored(q, r)
  PROVE  /\ births' = births /\ \A x \in 1 .. births : SamePlace(heap'[x], heap[x])
         /\ heap' \in [1 .. births -> Plane] /\ heap'[q] = r
         /\ \A x \in (1 .. births) \ {q} : heap'[x] = heap[x]
         /\ PlaneInv' /\ InAir' = InAir /\ OnRunway' = OnRunway /\ Listed' = Listed
         /\ Whole(births, [heap |-> heap', list |-> air], InAir)
         /\ Whole(births, [heap |-> heap', list |-> ground], OnRunway)
<1>1. births \in Nat /\ births \in 1 .. Births /\ births <= Births /\ heap \in [1 .. births -> Plane]
  BY AtcTowerAssumption DEF PlaneInv
<1>2. q \in 1 .. births /\ r \in Plane /\ SamePlace(r, heap[q]) /\ heap' = [heap EXCEPT ![q] = r]
  BY DEF Stored
<1>3. /\ heap' \in [1 .. births -> Plane] /\ heap'[q] = r
      /\ \A x \in (1 .. births) \ {q} : heap'[x] = heap[x]
  BY <1>1, <1>2
<1>4. births' = births
  <2>1. Len(heap') = births
    BY <1>1, <1>3, HeapLen
  <2>2. QED
    BY <2>1 DEF births
<1>5. ASSUME NEW x \in 1 .. births PROVE SamePlace(heap'[x], heap[x])
  <2>1. CASE x = q
    BY <1>2, <1>3, <2>1
  <2>2. CASE x # q
    BY <1>3, <2>2 DEF SamePlace
  <2>3. QED
    BY <2>1, <2>2
<1>6. PlaneInv'
  <2>1. DOMAIN heap' = 1 .. births /\ DOMAIN heap = 1 .. births
    BY <1>1, <1>3
  <2>2. ASSUME NEW x \in 1 .. births
        PROVE  /\ heap'[x].delayd_no = 0 \/ heap'[x].delayd_no < Len(Beacons)
               /\ heap'[x].delayd => Len(Beacons) > 0
    <3>1. CASE x = q
      BY <1>3, <3>1 DEF Stored
    <3>2. CASE x # q
      BY <1>3, <2>1, <3>2 DEF PlaneInv
    <3>3. QED
      BY <3>1, <3>2
  <2>3. last_plane' \in 0 .. Letters - 1
    BY DEF PlaneInv, Stored
  <2>4. QED
    BY <1>1, <1>3, <1>4, <2>1, <2>2, <2>3 DEF PlaneInv
<1>7. \A x \in 1 .. births : heap'[x].plane_no = heap[x].plane_no /\ heap'[x].next = heap[x].next /\ heap'[x].prev = heap[x].prev
  BY <1>5 DEF SamePlace
<1>8. Whole(births, [heap |-> heap', list |-> air], InAir) /\ Whole(births, [heap |-> heap', list |-> ground], OnRunway)
  <2>1. Whole(births, [heap |-> heap, list |-> air], InAir) /\ Whole(births, [heap |-> heap, list |-> ground], OnRunway)
    BY DEF ListInv
  <2> DEFINE N == births
             k == heap'
  <2>2. N \in Nat /\ N <= N /\ k \in [1 .. N -> Plane]
    BY <1>1, <1>3
  <2>3. \A x \in 1 .. N : k[x].plane_no = heap[x].plane_no /\ k[x].next = heap[x].next /\ k[x].prev = heap[x].prev
    BY <1>7
  <2> HIDE DEF N, k
  <2>4. Whole(N, [heap |-> k, list |-> air], InAir)
    <3>1. Whole(N, [heap |-> heap, list |-> air], InAir)
      BY <2>1 DEF N
    <3>2. QED
      BY <2>2, <2>3, <3>1, WholeKept
  <2>5. Whole(N, [heap |-> k, list |-> ground], OnRunway)
    <3>1. Whole(N, [heap |-> heap, list |-> ground], OnRunway)
      BY <2>1 DEF N
    <3>2. QED
      BY <2>2, <2>3, <3>1, WholeKept
  <2>6. QED
    BY <2>4, <2>5 DEF N, k
<1>9. InAir' = InAir /\ OnRunway' = OnRunway
  <2>1. Members(heap', air) = InAir
    BY <1>1, <1>8, WholeMembers
  <2>2. Members(heap', ground) = OnRunway
    BY <1>1, <1>8, WholeMembers
  <2>3. air' = air /\ ground' = ground
    BY DEF Stored
  <2>4. QED
    BY <2>1, <2>2, <2>3 DEF InAir, OnRunway
<1>10. QED
  BY <1>3, <1>4, <1>5, <1>6, <1>8, <1>9 DEF Listed

LEMMA StoreKeeps ==
  ASSUME PlaneInv, ListInv, Whereabouts, Separation, CountInv, NEW q, NEW r, Stored(q, r)
  PROVE  PlaneInv' /\ ListInv' /\ Whereabouts' /\ Separation' /\ CountInv'
<1>1. /\ births' = births /\ \A x \in 1 .. births : SamePlace(heap'[x], heap[x])
      /\ heap' \in [1 .. births -> Plane]
      /\ PlaneInv' /\ InAir' = InAir /\ OnRunway' = OnRunway /\ Listed' = Listed
      /\ Whole(births, [heap |-> heap', list |-> air], InAir)
      /\ Whole(births, [heap |-> heap', list |-> ground], OnRunway)
  BY StoredSame
<1>2. UNCHANGED <<air, ground, last_plane, safe_planes, status, odd>>
  BY DEF Stored
<1>3. births \in Nat /\ Listed \subseteq 1 .. births /\ InAir \subseteq Listed /\ OnRunway \subseteq Listed
  BY ListOrder DEF Listed
<1>4. ListInv'
  <2>1. InAir \cap OnRunway = {} /\ Distinct(heap, Listed)
    BY DEF ListInv
  <2>2. \A x \in Listed : heap'[x].plane_no = heap[x].plane_no
    BY <1>1, <1>3 DEF SamePlace
  <2>3. Distinct(heap', Listed)
    BY <2>1, <2>2 DEF Distinct
  <2>4. QED
    BY <1>1, <1>2, <2>1, <2>3 DEF ListInv
<1>5. ASSUME NEW x \in 1 .. births, NEW places
      PROVE  /\ AtStart(heap'[x], places) = AtStart(heap[x], places) /\ OnBorder(heap'[x]) = OnBorder(heap[x])
             /\ heap'[x].altitude = heap[x].altitude /\ heap'[x].type = heap[x].type
             /\ heap'[x].xpos = heap[x].xpos /\ heap'[x].ypos = heap[x].ypos
  BY <1>1 DEF SamePlace, AtStart, At, OnBorder
<1>6. Whereabouts'
  <2>1. SUFFICES ASSUME status = "on" PROVE Whereabouts'
    BY <1>2 DEF Whereabouts
  <2>2. ASSUME NEW x \in InAir
        PROVE  /\ heap'[x].altitude = 0 => heap'[x].type = 0 /\ AtStart(heap'[x], Airports)
               /\ OnBorder(heap'[x]) => AtStart(heap'[x], Exits)
    <3>1. /\ heap[x].altitude = 0 => heap[x].type = 0 /\ AtStart(heap[x], Airports)
          /\ OnBorder(heap[x]) => AtStart(heap[x], Exits)
      BY <2>1 DEF Whereabouts
    <3>2. x \in 1 .. births
      BY <1>3
    <3>3. QED
      BY <1>5, <3>1, <3>2
  <2>3. ASSUME NEW x \in OnRunway PROVE heap'[x].altitude = 0 /\ AtStart(heap'[x], Airports)
    <3>1. heap[x].altitude = 0 /\ AtStart(heap[x], Airports)
      BY <2>1 DEF Whereabouts
    <3>2. x \in 1 .. births
      BY <1>3
    <3>3. QED
      BY <1>5, <3>1, <3>2
  <2>4. QED
    BY <1>1, <2>2, <2>3 DEF Whereabouts
<1>7. Separation'
  <2>1. ASSUME NEW x \in InAir, NEW y \in InAir
        PROVE  TooClose(heap'[x], heap'[y], 1) = TooClose(heap[x], heap[y], 1)
    BY <1>3, <1>5 DEF TooClose
  <2>2. QED
    BY <1>1, <1>2, <2>1 DEF Separation
<1>8. CountInv'
  BY <1>1, <1>2 DEF CountInv
<1>9. QED
  BY <1>1, <1>4, <1>6, <1>7, <1>8

-----------------------------------------------------------------------------
(* The inductive invariant                                                 *)

Board == PlaneInv /\ ListInv /\ Whereabouts /\ Separation /\ CountInv

MainInv ==
  /\ DOMAIN main = {"pc", "calls", "p", "no", "pp", "in", "alarms", "of"}
  /\ main.pc \in {"keys", "lookup", "search", "store delayd", "store delayd_no"}
  /\ main.pc = "lookup" => Routed(main.calls)

IndInv == /\ Board
          /\ status \in {"on", "over", "segv"} /\ odd \in BOOLEAN /\ stays \subseteq 1 .. births
          /\ MainInv /\ SearchInv /\ OrderInv

LEMMA BoardSame ==
  ASSUME Board, UNCHANGED <<lists, last_plane, safe_planes>>, status' = status \/ status' # "on"
  PROVE  Board'
<1>1. /\ InAir' = InAir /\ OnRunway' = OnRunway /\ Listed' = Listed /\ births' = births
      /\ heap' = heap /\ air' = air /\ ground' = ground /\ last_plane' = last_plane /\ safe_planes' = safe_planes
  BY SameLists
<1>2. PlaneInv' /\ ListInv' /\ CountInv'
  BY <1>1 DEF Board, PlaneInv, ListInv, CountInv
<1>3. Whereabouts'
  BY <1>1 DEF Board, Whereabouts
<1>4. Separation'
  BY <1>1 DEF Board, Separation
<1>5. QED
  BY <1>2, <1>3, <1>4 DEF Board

LEMMA SearchSame ==
  ASSUME SearchInv, OrderInv, UNCHANGED <<lists, stays>>,
         main'.pc = main.pc, main'.no = main.no, main'.of = main.of, main'.pp = main.pp, main'.in = main.in,
         main'.p = main.p, main'.calls = main.calls
  PROVE  SearchInv' /\ OrderInv'
<1>1. /\ InAir' = InAir /\ OnRunway' = OnRunway /\ Listed' = Listed /\ births' = births
      /\ heap' = heap /\ stays' = stays
  BY SameLists
<1>2. ASSUME NEW W, Pool(W) PROVE Pool(W)'
  BY <1>1, <1>2 DEF Pool
<1>3. (\E W : Pool(W)) => \E W : Pool(W)'
  BY <1>2, Zenon
<1>4. SearchInv'
  BY <1>1, <1>3 DEF SearchInv
<1>5. OrderInv'
  BY <1>1 DEF OrderInv
<1>6. QED
  BY <1>4, <1>5

LEMMA IdleInv ==
  ASSUME main' = Idle
  PROVE  MainInv' /\ SearchInv' /\ OrderInv'
<1>1. main'.pc = "keys" /\ DOMAIN main' = {"pc", "calls", "p", "no", "pp", "in", "alarms", "of"}
  BY DEF Idle
<1>2. QED
  BY <1>1 DEF MainInv, SearchInv, OrderInv

LEMMA InitInv == Init => IndInv
<1>1. SUFFICES ASSUME Init PROVE IndInv
  OBVIOUS
<1>2. PICK a \in Arrivals :
         LET p == Added(a, 0)
             m == Insert([heap |-> <<p>>, list |-> NoPlanes], 1)
         IN  /\ heap = m.heap
             /\ air = IF p.altitude > 0 THEN m.list ELSE NoPlanes
             /\ ground = IF p.altitude > 0 THEN NoPlanes ELSE m.list
  BY <1>1 DEF Init
<1> DEFINE p == Added(a, 0)
           start == [heap |-> <<p>>, list |-> NoPlanes]
           m == Insert(start, 1)
           high == p.altitude > 0
<1>3. /\ heap = m.heap /\ air = IF high THEN m.list ELSE NoPlanes
      /\ ground = IF high THEN NoPlanes ELSE m.list
  BY <1>2
<1>4. /\ p \in Plane /\ p.plane_no = 0 /\ ~p.delayd /\ p.delayd_no = 0
      /\ high => p.altitude = 7 /\ AtStart(p, Exits)
      /\ ~high => p.altitude = 0 /\ AtStart(p, Airports)
  <2>1. 0 \in 0 .. Letters - 1
    BY AtcTowerAssumption
  <2>2. /\ p \in Plane /\ p.plane_no = 0 /\ ~p.delayd /\ p.delayd_no = 0
        /\ a.orig[1] = "exit" => p.altitude = 7 /\ AtStart(p, Exits)
        /\ a.orig[1] # "exit" => p.altitude = 0 /\ AtStart(p, Airports)
    BY <2>1, AddedType
  <2>3. QED
    BY <2>2
<1> HIDE DEF p
<1>5. Whole(1, start, {})
  <2>1. <<p>> \in [1 .. 1 -> Plane]
    BY <1>4
  <2>2. QED
    BY <2>1 DEF Whole, IsList, Distinct, Least, Greatest, NoPlanes
<1>6. Whole(1, m, {1}) /\ Relinked(1, <<p>>, m.heap, {1})
  <2>1. 1 <= Births /\ 1 \in Nat
    BY AtcTowerAssumption
  <2>2. Distinct(start.heap, {} \cup {1})
    BY DEF Distinct
  <2> HIDE DEF start
  <2>3. Whole(1, Insert(start, 1), {} \cup {1}) /\ Relinked(1, start.heap, Insert(start, 1).heap, {} \cup {1})
    BY <1>5, <2>1, <2>2, InsertList
  <2>4. {} \cup {1} = {1} /\ start.heap = <<p>>
    BY DEF start
  <2>5. QED
    BY <2>3, <2>4
<1>7. heap \in [1 .. 1 -> Plane] /\ SameFlight(heap[1], p) /\ births = 1
  <2>1. m.heap \in [1 .. 1 -> Plane] /\ SameFlight(m.heap[1], p)
    BY <1>6 DEF Relinked
  <2> HIDE DEF m
  <2>2. QED
    BY <1>3, <2>1, HeapLen DEF births
<1>8. Whole(1, [heap |-> heap, list |-> NoPlanes], {})
  BY <1>7 DEF Whole, IsList, Distinct, Least, Greatest, NoPlanes
<1>9. Whole(1, [heap |-> heap, list |-> m.list], {1})
  <2> HIDE DEF m
  <2>1. QED
    BY <1>3, <1>6 DEF Whole
<1> HIDE DEF m
<1> DEFINE A == IF high THEN {1} ELSE {}
           G == IF high THEN {} ELSE {1}
<1>10. Whole(1, [heap |-> heap, list |-> air], A) /\ Whole(1, [heap |-> heap, list |-> ground], G)
  BY <1>3, <1>8, <1>9
<1>11. 1 <= Births /\ 1 \in Nat
  BY AtcTowerAssumption
<1>12. InAir = A /\ OnRunway = G
  <2> HIDE DEF A, G
  <2>1. Members(heap, air) = A
    BY <1>10, <1>11, WholeMembers
  <2>2. Members(heap, ground) = G
    BY <1>10, <1>11, WholeMembers
  <2>3. QED
    BY <2>1, <2>2 DEF InAir, OnRunway
<1>13. PlaneInv
  <2>1. heap[1].delayd = p.delayd /\ heap[1].delayd_no = p.delayd_no
    BY <1>7 DEF SameFlight
  <2>2. last_plane \in 0 .. Letters - 1
    BY <1>1, AtcTowerAssumption DEF Init
  <2>3. births \in 1 .. Births
    BY <1>7, <1>11, AtcTowerAssumption
  <2>4. QED
    BY <1>4, <1>7, <2>1, <2>2, <2>3 DEF PlaneInv
<1>14. ListInv
  BY <1>7, <1>10, <1>12 DEF ListInv, Listed, Distinct
<1>15. /\ heap[1].altitude = p.altitude
       /\ AtStart(heap[1], Exits) = AtStart(p, Exits) /\ AtStart(heap[1], Airports) = AtStart(p, Airports)
  BY <1>7, AtStartSame DEF SameFlight
<1>16. Whereabouts
  BY <1>4, <1>12, <1>15 DEF Whereabouts
<1>17. Separation
  BY <1>12 DEF Separation
<1>18. CountInv
  <2>1. Cardinality({1}) = 1 /\ Cardinality({}) = 0
    BY FS_Singleton, FS_EmptySet
  <2>2. safe_planes = 0
    BY <1>1 DEF Init
  <2>3. Cardinality(A) + Cardinality(G) = 1
    BY <2>1
  <2>4. QED
    BY <1>7, <1>12, <2>2, <2>3 DEF CountInv
<1>19. MainInv /\ SearchInv /\ OrderInv
  <2>1. main.pc = "keys" /\ DOMAIN main = {"pc", "calls", "p", "no", "pp", "in", "alarms", "of"}
    BY <1>1 DEF Init, Idle
  <2>2. QED
    BY <2>1 DEF MainInv, SearchInv, OrderInv
<1>20. status = "on" /\ odd = FALSE /\ stays = {}
  BY <1>1 DEF Init
<1>21. QED
  BY <1>13, <1>14, <1>16, <1>17, <1>18, <1>19, <1>20 DEF IndInv, Board

LEMMA UpdateKeeps ==
  ASSUME IndInv, status = "on", Update,
         DOMAIN main' = DOMAIN main,
         main'.pc = main.pc, main'.no = main.no, main'.of = main.of, main'.pp = main.pp, main'.in = main.in,
         main'.p = main.p, main'.calls = main.calls
  PROVE  IndInv'
<1>1. /\ PlaneInv /\ ListInv /\ Whereabouts /\ CountInv /\ MainInv /\ SearchInv /\ OrderInv
      /\ odd \in BOOLEAN /\ stays \subseteq 1 .. births
  BY DEF IndInv, Board
<1>2. MainInv'
  BY <1>1 DEF MainInv
<1>3. CASE Ended
  <2>1. UNCHANGED <<lists, last_plane, safe_planes, stays>> /\ status' = "over" /\ odd' = ~odd
    BY <1>3 DEF Ended, lists
  <2>2. Board'
    BY <2>1, BoardSame DEF IndInv
  <2>3. SearchInv' /\ OrderInv'
    BY <1>1, <2>1, SearchSame
  <2>4. stays' \subseteq 1 .. births'
    BY <1>1, <2>1, SameLists
  <2>5. QED
    BY <1>2, <2>1, <2>2, <2>3, <2>4 DEF IndInv
<1>4. ASSUME NEW P, NEW exit, Ticked(P, exit) PROVE IndInv'
  <2>1. PlaneInv' /\ ListInv' /\ Whereabouts' /\ Separation' /\ CountInv'
    BY <1>1, <1>4, TickKeepsLists, TickKeepsPlanes, TickWhereabouts, TickSeparates, TickCounts
  <2>2. OrderInv'
    BY <1>1, <1>4, OrderTicks
  <2>3. SearchInv'
    <3>1. /\ main.pc = "search" /\ main.of \in Listed => main.no = heap[main.of].plane_no
          /\ main.pc = "search" => main.of \in 1 .. births
      BY <1>1 DEF OrderInv
    <3>2. QED
      BY <1>1, <1>4, <3>1, SearchTicks
  <2>4. stays' \subseteq 1 .. births'
    <3>1. births \in Nat /\ 1 .. births \subseteq 1 .. births'
      BY <1>1, <1>4, ListOrder DEF Ticked
    <3>2. stays' \subseteq stays
      BY <1>4 DEF Ticked
    <3>3. QED
      BY <1>1, <3>1, <3>2
  <2>5. odd' = ~odd /\ status' = status
    BY <1>4 DEF Ticked
  <2>6. QED
    BY <1>2, <2>1, <2>2, <2>3, <2>4, <2>5 DEF IndInv, Board
<1>5. QED
  BY <1>1, <1>3, <1>4, UpdateTicks, Zenon

LEMMA AlarmKeeps ==
  ASSUME IndInv, Alarm \/ ForcedUpdate
  PROVE  IndInv'
<1>1. status = "on" /\ Update
  BY DEF Alarm, ForcedUpdate
<1>2. DOMAIN main = {"pc", "calls", "p", "no", "pp", "in", "alarms", "of"}
  BY DEF IndInv, MainInv
<1>3. main' = main \/ main' = [main EXCEPT !.alarms = @ + 1]
  BY DEF Alarm, ForcedUpdate
<1>4. /\ DOMAIN main' = DOMAIN main
      /\ main'.pc = main.pc /\ main'.no = main.no /\ main'.of = main.of /\ main'.pp = main.pp
      /\ main'.in = main.in /\ main'.p = main.p /\ main'.calls = main.calls
  BY <1>2, <1>3
<1>5. QED
  BY <1>1, <1>4, UpdateKeeps

LEMMA TypeCommandKeeps ==
  ASSUME IndInv, TypeCommand
  PROVE  IndInv'
<1>1. PICK calls \in Calls \ {<<>>} :
        Search([main EXCEPT !.calls = Tail(calls)], "lookup", number(Head(calls).ch))
  BY DEF TypeCommand
<1>2. /\ UNCHANGED <<odd, lists, last_plane, safe_planes, status>> /\ status = "on"
  BY DEF TypeCommand
<1>3. DOMAIN main = {"pc", "calls", "p", "no", "pp", "in", "alarms", "of"}
  BY DEF IndInv, MainInv
<1> DEFINE m == [main EXCEPT !.calls = Tail(calls)]
<1>4. main' = [m EXCEPT !.pc = "lookup", !.no = number(Head(calls).ch), !.pp = air.head, !.in = "air"]
      /\ stays' = Listed
  BY <1>1 DEF Search, Listed
<1>5. DOMAIN m = DOMAIN main /\ m.calls = Tail(calls)
  BY <1>3
<1> HIDE DEF m
<1>6. DOMAIN main' = DOMAIN main /\ main'.pc = "lookup" /\ main'.pp = air.head /\ main'.in = "air"
      /\ main'.calls = Tail(calls)
  BY <1>3, <1>4, <1>5
<1>7. Board' /\ births' = births
  BY <1>2, BoardSame, SameLists DEF IndInv
<1>8. PlaneInv /\ ListInv
  BY DEF IndInv, Board
<1>9. SearchInv'
  BY <1>2, <1>4, <1>6, <1>8, SearchStarts
<1>10. MainInv'
  BY <1>3, <1>6, CallsRouted DEF MainInv
<1>11. OrderInv'
  BY <1>6 DEF OrderInv
<1>12. stays' \subseteq 1 .. births'
  BY <1>4, <1>7, <1>8, ListOrder
<1>13. QED
  BY <1>2, <1>7, <1>9, <1>10, <1>11, <1>12 DEF IndInv

LEMMA SearchOnKeeps ==
  ASSUME IndInv, SearchOn
  PROVE  IndInv'
<1>1. /\ Searching /\ UNCHANGED <<odd, lists, last_plane, safe_planes, status, stays>>
      /\ \/ main.pp = 0 /\ main.in = "air" /\ main' = [main EXCEPT !.pp = ground.head, !.in = "ground"]
         \/ main.pp # 0 /\ heap[main.pp].plane_no # main.no /\ main' = [main EXCEPT !.pp = heap[main.pp].next]
  BY DEF SearchOn
<1>2. /\ DOMAIN main = {"pc", "calls", "p", "no", "pp", "in", "alarms", "of"}
      /\ main.pc = "lookup" => Routed(main.calls)
      /\ main.pc \in {"keys", "lookup", "search", "store delayd", "store delayd_no"}
  BY DEF IndInv, MainInv
<1>3. /\ DOMAIN main' = DOMAIN main /\ main'.pc = main.pc /\ main'.no = main.no /\ main'.of = main.of
      /\ main'.p = main.p /\ main'.calls = main.calls
      /\ \/ main.pp = 0 /\ main.in = "air" /\ main'.pp = ground.head /\ main'.in = "ground"
         \/ /\ main.pp # 0 /\ heap[main.pp].plane_no # main.no
            /\ main'.pp = heap[main.pp].next /\ main'.in = main.in
  BY <1>1, <1>2
<1>4. Board' /\ births' = births /\ Listed' = Listed /\ OnRunway' = OnRunway /\ heap' = heap
  BY <1>1, BoardSame, SameLists DEF IndInv
<1>5. PlaneInv /\ ListInv /\ SearchInv /\ OrderInv
  BY DEF IndInv, Board
<1>6. SearchInv'
  <2>1. UNCHANGED <<lists, stays>>
    BY <1>1
  <2>2. QED
    BY <1>1, <1>3, <1>5, <2>1, SearchGoesOn
<1>7. MainInv'
  BY <1>2, <1>3 DEF MainInv
<1>8. OrderInv'
  <2>1. main.pc \notin {"store delayd", "store delayd_no"}
    BY <1>1 DEF Searching
  <2>2. QED
    BY <1>3, <1>4, <1>5, <2>1 DEF OrderInv
<1>9. QED
  BY <1>1, <1>4, <1>6, <1>7, <1>8 DEF IndInv

(* The plane a search has found, and what its number says.                 *)
LEMMA FoundPlane ==
  ASSUME IndInv, Found
  PROVE  /\ status = "on" /\ main.pp \in 1 .. births /\ heap[main.pp].plane_no = main.no
         /\ main.pc = "search" /\ main.of \in Listed => main.pp = main.of
<1>1. status = "on" /\ main.pc \in {"lookup", "search"} /\ main.pp # 0 /\ heap[main.pp].plane_no = main.no
  BY DEF Found, Searching
<1>2. PICK W : Pool(W)
  BY <1>1 DEF IndInv, SearchInv
<1>3. /\ W \subseteq 1 .. births /\ main.pp \in W
      /\ main.pc = "search" /\ main.of \in Listed => \A y \in W : heap[y].plane_no = main.no => y = main.of
  BY <1>1, <1>2 DEF Pool
<1>4. QED
  BY <1>1, <1>3

LEMMA ExecuteKeeps ==
  ASSUME IndInv, Execute
  PROVE  IndInv'
<1> DEFINE q == main.pp
           start == Start(heap[q])
           m == Executed(start, main.calls)
           p == [f \in Sent |-> m.p[f]]
<1>1. /\ Found /\ main.pc = "lookup" /\ UNCHANGED <<odd, lists, last_plane, safe_planes, status>>
      /\ IF m.ok THEN Search([main EXCEPT !.p = p, !.of = q], "search", m.p.plane_no) ELSE Forget
  BY DEF Execute
<1>2. /\ DOMAIN main = {"pc", "calls", "p", "no", "pp", "in", "alarms", "of"}
      /\ Routed(main.calls)
  BY <1>1 DEF IndInv, MainInv
<1>3. status = "on" /\ q \in 1 .. births /\ heap[q].plane_no = main.no
  BY <1>1, FoundPlane
<1>4. PlaneInv /\ ListInv /\ Whereabouts
  BY DEF IndInv, Board
<1>5. Board' /\ births' = births /\ Listed' = Listed /\ OnRunway' = OnRunway /\ heap' = heap /\ InAir' = InAir
  BY <1>1, BoardSame, SameLists DEF IndInv
<1>6. CASE ~m.ok
  <2>1. main' = Idle /\ stays' = {}
    BY <1>1, <1>6 DEF Forget
  <2>2. MainInv' /\ SearchInv' /\ OrderInv'
    BY <2>1, IdleInv
  <2>3. QED
    BY <1>1, <1>5, <2>1, <2>2 DEF IndInv
<1>7. CASE m.ok
  <2> DEFINE e == [main EXCEPT !.p = p, !.of = q]
  <2>1. main' = [e EXCEPT !.pc = "search", !.no = m.p.plane_no, !.pp = air.head, !.in = "air"] /\ stays' = Listed
    BY <1>1, <1>7 DEF Search, Listed
  <2>2. DOMAIN e = DOMAIN main /\ e.calls = main.calls /\ e.p = p /\ e.of = q
    BY <1>2
  <2> HIDE DEF e
  <2>3. /\ DOMAIN main' = DOMAIN main /\ main'.pc = "search" /\ main'.no = m.p.plane_no
        /\ main'.pp = air.head /\ main'.in = "air" /\ main'.of = q /\ main'.p = p /\ main'.calls = main.calls
    BY <1>2, <2>1, <2>2
  <2>4. heap[q] \in Plane /\ (heap[q].delayd_no = 0 \/ heap[q].delayd_no < Len(Beacons))
    BY <1>3, <1>4, ListOrder DEF PlaneInv
  <2>5. /\ CopyOK(start) /\ start.ok /\ start.dest_type = "none"
        /\ start.p.plane_no = heap[q].plane_no /\ start.p.altitude = heap[q].altitude
        /\ start.p.status = heap[q].status /\ start.p.new_dir = heap[q].new_dir /\ start.p.delayd = FALSE
    <3> DEFINE r == heap[q]
               s == [r EXCEPT !.delayd = FALSE]
    <3>1. s \in Plane
      BY <2>4 DEF Plane
    <3>2. /\ s.plane_no = r.plane_no /\ s.altitude = r.altitude /\ s.status = r.status /\ s.new_dir = r.new_dir
          /\ s.delayd = FALSE /\ s.delayd_no = r.delayd_no
      BY <2>4, <3>1 DEF Plane
    <3>3. start = [p |-> s, dir |-> "none", dest_type |-> "none", dest_no |-> 0, ok |-> TRUE]
      BY DEF Start
    <3> HIDE DEF s, start
    <3>4. start \in CopyRecord /\ start.p = s /\ start.ok /\ start.dest_type = "none"
      BY <3>1, <3>3 DEF CopyRecord
    <3>5. QED
      BY <2>4, <3>2, <3>4 DEF CopyOK
  <2> HIDE DEF start
  <2>6. Carried(start, main.calls, m, Len(main.calls))
    BY <1>2, <2>5, ExecutedDoes
  <2> HIDE DEF m
  <2>7. /\ CopyOK(m) /\ m.p \in Plane /\ m.p.plane_no = heap[q].plane_no
        /\ MarkCalled(main.calls) \/ m.p.status = heap[q].status
        /\ heap[q].altitude = 0 => m.p.new_dir = heap[q].new_dir /\ m.p.delayd = FALSE
    BY <1>7, <2>5, <2>6 DEF Carried, CopyOK, CopyRecord
  <2>8. /\ p.new_altitude = m.p.new_altitude /\ p.status = m.p.status /\ p.new_dir = m.p.new_dir
        /\ p.delayd = m.p.delayd /\ p.delayd_no = m.p.delayd_no
    BY DEF Sent
  <2> HIDE DEF p
  <2>9. SearchInv'
    <3>1. UNCHANGED lists
      BY <1>1
    <3>2. main'.no = heap[main'.of].plane_no
      BY <2>3, <2>7
    <3>3. QED
      BY <1>4, <2>1, <2>3, <3>1, <3>2, SearchStarts
  <2>10. q \in OnRunway => heap[q].altitude = 0
    BY <1>3, <1>4 DEF Whereabouts
  <2>11. OrderInv'
    <3>1. /\ p.new_altitude \in 0 .. 9 /\ p.status \in {"marked", "unmarked", "ignored", "gone"}
          /\ p.new_dir \in 0 .. 8 /\ p.delayd \in BOOLEAN /\ p.delayd_no \in Nat
      BY <2>7, <2>8, PlaneFields
    <3>2. (p.delayd => Len(Beacons) > 0) /\ (p.delayd_no = 0 \/ p.delayd_no < Len(Beacons))
      BY <2>7, <2>8 DEF CopyOK
    <3>3. MarkCalled(main.calls) \/ p.status = heap[q].status
      BY <2>7, <2>8
    <3>4. q \in OnRunway => p.new_dir = heap[q].new_dir /\ p.delayd = FALSE
      BY <2>7, <2>8, <2>10
    <3>5. QED
      BY <1>3, <1>5, <2>3, <2>7, <3>1, <3>2, <3>3, <3>4 DEF OrderInv
  <2>12. MainInv'
    BY <1>2, <2>3 DEF MainInv
  <2>13. stays' \subseteq 1 .. births'
    BY <1>4, <1>5, <2>1, ListOrder
  <2>14. QED
    BY <1>1, <1>5, <2>9, <2>11, <2>12, <2>13 DEF IndInv
<1>8. QED
  BY <1>6, <1>7

LEMMA NotFoundKeeps ==
  ASSUME IndInv, UnknownPlane \/ FollowNull
  PROVE  IndInv'
<1>1. CASE UnknownPlane
  <2>1. main' = Idle /\ stays' = {} /\ UNCHANGED <<odd, lists, last_plane, safe_planes, status>>
    BY <1>1 DEF UnknownPlane, Forget
  <2>2. Board' /\ MainInv' /\ SearchInv' /\ OrderInv'
    BY <2>1, IdleInv, BoardSame DEF IndInv
  <2>3. QED
    BY <2>1, <2>2 DEF IndInv
<1>2. CASE FollowNull
  <2>1. status' = "segv" /\ UNCHANGED <<odd, lists, last_plane, safe_planes, main, stays>>
    BY <1>2 DEF FollowNull
  <2>2. Board' /\ births' = births
    BY <2>1, BoardSame, SameLists DEF IndInv
  <2>3. SearchInv' /\ OrderInv'
    BY <2>1, SearchSame DEF IndInv
  <2>4. MainInv'
    BY <2>1 DEF IndInv, MainInv
  <2>5. QED
    BY <2>1, <2>2, <2>3, <2>4 DEF IndInv
<1>3. QED
  BY <1>1, <1>2

(* A plane with one field changed.                                          *)
LEMMA NewAltitude ==
  ASSUME NEW p \in Plane, NEW k \in 0 .. 9, NEW r, r = [p EXCEPT !.new_altitude = k]
  PROVE  /\ r \in Plane /\ SamePlace(r, p) /\ r.status = p.status /\ r.new_dir = p.new_dir
         /\ r.delayd = p.delayd /\ r.delayd_no = p.delayd_no
<1>1. r \in Plane
  BY DEF Plane
<1>2. QED
  BY <1>1 DEF Plane, SamePlace

LEMMA NewMark ==
  ASSUME NEW p \in Plane, NEW k \in {"marked", "unmarked", "ignored", "gone"}, NEW r, r = [p EXCEPT !.status = k]
  PROVE  /\ r \in Plane /\ SamePlace(r, p) /\ r.status = k /\ r.new_dir = p.new_dir
         /\ r.delayd = p.delayd /\ r.delayd_no = p.delayd_no
<1>1. r \in Plane
  BY DEF Plane
<1>2. QED
  BY <1>1 DEF Plane, SamePlace

LEMMA NewHeading ==
  ASSUME NEW p \in Plane, NEW k \in 0 .. 8, NEW r, r = [p EXCEPT !.new_dir = k]
  PROVE  /\ r \in Plane /\ SamePlace(r, p) /\ r.status = p.status /\ r.new_dir = k
         /\ r.delayd = p.delayd /\ r.delayd_no = p.delayd_no
<1>1. r \in Plane
  BY DEF Plane, MAXDIR
<1>2. QED
  BY <1>1 DEF Plane, SamePlace

LEMMA NewDelay ==
  ASSUME NEW p \in Plane, NEW k \in BOOLEAN, NEW r, r = [p EXCEPT !.delayd = k]
  PROVE  /\ r \in Plane /\ SamePlace(r, p) /\ r.status = p.status /\ r.new_dir = p.new_dir
         /\ r.delayd = k /\ r.delayd_no = p.delayd_no
<1>1. r \in Plane
  BY DEF Plane
<1>2. QED
  BY <1>1 DEF Plane, SamePlace

LEMMA NewBeacon ==
  ASSUME NEW p \in Plane, NEW k \in Nat, NEW r, r = [p EXCEPT !.delayd_no = k]
  PROVE  /\ r \in Plane /\ SamePlace(r, p) /\ r.status = p.status /\ r.new_dir = p.new_dir
         /\ r.delayd = p.delayd /\ r.delayd_no = k
<1>1. r \in Plane
  BY DEF Plane
<1>2. QED
  BY <1>1 DEF Plane, SamePlace

(* What an assignment may do to the plane that was copied.                 *)
Meant(q) ==
  /\ heap'[q].status # heap[q].status =>
       \/ \E n \in DOMAIN main.calls : main.calls[n].func \in DOMAIN Marking
       \/ main.p.status = "unmarked" /\ heap[q].status = "marked"
  /\ q \in OnRunway => /\ heap'[q].new_dir = heap[q].new_dir
                       /\ heap'[q].delayd => heap[q].delayd

LEMMA OrderStored ==
  ASSUME IndInv, StoreOrder
  PROVE  /\ IndInv'
         /\ main.of \in Listed => Meant(main.of)
<1> DEFINE q == main.pp
           of == main.of
           p == main.p
<1>1. Found /\ main.pc = "search" /\ UNCHANGED <<odd, air, ground, last_plane, safe_planes, status>>
  BY DEF StoreOrder
<1>2. /\ q \in 1 .. births /\ heap[q].plane_no = main.no
      /\ of \in Listed => q = of
  BY <1>1, FoundPlane
<1>3. Board /\ PlaneInv /\ ListInv /\ Whereabouts /\ Separation /\ CountInv
  BY DEF IndInv, Board
<1>4. DOMAIN main = {"pc", "calls", "p", "no", "pp", "in", "alarms", "of"}
  BY DEF IndInv, MainInv
<1>5. /\ of \in 1 .. births
      /\ p.new_altitude \in 0 .. 9 /\ p.status \in {"marked", "unmarked", "ignored", "gone"}
      /\ p.new_dir \in 0 .. 8 /\ p.delayd \in BOOLEAN /\ p.delayd_no \in Nat
      /\ p.delayd => Len(Beacons) > 0
      /\ p.delayd_no = 0 \/ p.delayd_no < Len(Beacons)
      /\ of \in Listed =>
           \/ MarkCalled(main.calls) \/ p.status = heap[of].status
           \/ p.status = "unmarked" /\ heap[of].status = "marked"
      /\ of \in OnRunway => p.new_dir = heap[of].new_dir /\ p.delayd = FALSE
  BY <1>1 DEF IndInv, OrderInv
<1>6. /\ heap \in [1 .. births -> Plane] /\ heap[q] \in Plane
      /\ heap[q].delayd_no = 0 \/ heap[q].delayd_no < Len(Beacons)
      /\ heap[q].delayd => Len(Beacons) > 0
  BY <1>2, <1>3 DEF PlaneInv
<1>7. ASSUME NEW r \in Plane, SamePlace(r, heap[q]), r.delayd_no = heap[q].delayd_no, r.delayd = heap[q].delayd,
             heap' = [heap EXCEPT ![q] = r]
      PROVE  /\ Stored(q, r) /\ heap'[q] = r /\ Board'
             /\ births' = births /\ OnRunway' = OnRunway /\ Listed' = Listed
             /\ \A x \in (1 .. births) \ {q} : heap'[x] = heap[x]
  <2>1. Stored(q, r)
    BY <1>1, <1>2, <1>6, <1>7 DEF Stored
  <2>2. QED
    BY <1>3, <2>1, StoredSame, StoreKeeps DEF Board
<1>8. CASE heap[q].new_altitude # p.new_altitude /\ heap' = [heap EXCEPT ![q].new_altitude = p.new_altitude] /\ Forget
  <2> DEFINE r == [heap[q] EXCEPT !.new_altitude = p.new_altitude]
  <2>0. r = [heap[q] EXCEPT !.new_altitude = p.new_altitude]
    OBVIOUS
  <2>1. heap' = [heap EXCEPT ![q] = r]
    BY <1>8
  <2> HIDE DEF r
  <2>2. /\ r \in Plane /\ SamePlace(r, heap[q]) /\ r.status = heap[q].status /\ r.new_dir = heap[q].new_dir
        /\ r.delayd = heap[q].delayd /\ r.delayd_no = heap[q].delayd_no
    BY <1>5, <1>6, <2>0, NewAltitude, SMTT(60)
  <2>3. heap'[q] = r /\ Board'
    BY <1>7, <2>1, <2>2
  <2>4. main' = Idle /\ stays' = {}
    BY <1>8 DEF Forget
  <2>5. MainInv' /\ SearchInv' /\ OrderInv'
    BY <2>4, IdleInv
  <2>6. IndInv'
    BY <1>1, <2>3, <2>4, <2>5 DEF IndInv
  <2>7. of \in Listed => Meant(of)
    BY <1>2, <2>2, <2>3 DEF Meant
  <2>8. QED
    BY <2>6, <2>7
<1>9. CASE heap[q].status # p.status /\ heap' = [heap EXCEPT ![q].status = p.status] /\ Forget
  <2> DEFINE r == [heap[q] EXCEPT !.status = p.status]
  <2>0. r = [heap[q] EXCEPT !.status = p.status]
    OBVIOUS
  <2>1. heap' = [heap EXCEPT ![q] = r]
    BY <1>9
  <2> HIDE DEF r
  <2>2. /\ r \in Plane /\ SamePlace(r, heap[q]) /\ r.status = p.status /\ r.new_dir = heap[q].new_dir
        /\ r.delayd = heap[q].delayd /\ r.delayd_no = heap[q].delayd_no
    BY <1>5, <1>6, <2>0, NewMark
  <2>3. heap'[q] = r /\ Board'
    BY <1>7, <2>1, <2>2
  <2>4. main' = Idle /\ stays' = {}
    BY <1>9 DEF Forget
  <2>5. MainInv' /\ SearchInv' /\ OrderInv'
    BY <2>4, IdleInv
  <2>6. IndInv'
    BY <1>1, <2>3, <2>4, <2>5 DEF IndInv
  <2>7. of \in Listed => Meant(of)
    BY <1>2, <1>5, <1>9, <2>2, <2>3 DEF Meant, MarkCalled
  <2>8. QED
    BY <2>6, <2>7
<1>10. CASE /\ heap' = [heap EXCEPT ![q].new_dir = p.new_dir]
            /\ main' = [main EXCEPT !.pc = "store delayd"] /\ stays' = {}
  <2> DEFINE r == [heap[q] EXCEPT !.new_dir = p.new_dir]
  <2>0. r = [heap[q] EXCEPT !.new_dir = p.new_dir]
    OBVIOUS
  <2>1. heap' = [heap EXCEPT ![q] = r]
    BY <1>10
  <2> HIDE DEF r
  <2>2. /\ r \in Plane /\ SamePlace(r, heap[q]) /\ r.status = heap[q].status /\ r.new_dir = p.new_dir
        /\ r.delayd = heap[q].delayd /\ r.delayd_no = heap[q].delayd_no
    BY <1>5, <1>6, <2>0, NewHeading
  <2>3. /\ heap'[q] = r /\ Board' /\ births' = births /\ OnRunway' = OnRunway /\ Listed' = Listed
        /\ \A x \in (1 .. births) \ {q} : heap'[x] = heap[x]
    BY <1>7, <2>1, <2>2
  <2>4. /\ DOMAIN main' = DOMAIN main /\ main'.pc = "store delayd" /\ main'.pp = q /\ main'.of = of /\ main'.p = p
        /\ main'.calls = main.calls
    BY <1>4, <1>10
  <2>5. MainInv' /\ SearchInv'
    BY <1>4, <2>4 DEF MainInv, SearchInv
  <2>6. OnRunway \subseteq Listed
    BY DEF Listed
  <2>7. OrderInv'
    <3>1. /\ heap'[of].status = heap[of].status
          /\ of \in OnRunway => heap'[of].new_dir = heap[of].new_dir
      BY <1>2, <1>5, <2>2, <2>3, <2>6
    <3>2. QED
      BY <1>2, <1>5, <2>3, <2>4, <3>1 DEF OrderInv
  <2>8. IndInv'
    BY <1>1, <1>10, <2>3, <2>5, <2>7 DEF IndInv
  <2>9. of \in Listed => Meant(of)
    BY <1>2, <1>5, <2>2, <2>3 DEF Meant
  <2>10. QED
    BY <2>8, <2>9
<1>11. QED
  BY <1>8, <1>9, <1>10 DEF StoreOrder

LEMMA DelayStored ==
  ASSUME IndInv, StoreDelay
  PROVE  /\ IndInv'
         /\ main.of \in Listed => Meant(main.of)
<1> DEFINE q == main.pp
           of == main.of
           p == main.p
<1>1. /\ main.pc \in {"store delayd", "store delayd_no"}
      /\ UNCHANGED <<odd, air, ground, last_plane, safe_planes, status, stays>>
  BY DEF StoreDelay
<1>2. Board /\ PlaneInv /\ ListInv /\ Whereabouts /\ Separation /\ CountInv /\ stays \subseteq 1 .. births
  BY DEF IndInv, Board
<1>3. DOMAIN main = {"pc", "calls", "p", "no", "pp", "in", "alarms", "of"}
  BY DEF IndInv, MainInv
<1>4. /\ of \in 1 .. births
      /\ p.new_altitude \in 0 .. 9 /\ p.status \in {"marked", "unmarked", "ignored", "gone"}
      /\ p.new_dir \in 0 .. 8 /\ p.delayd \in BOOLEAN /\ p.delayd_no \in Nat
      /\ p.delayd => Len(Beacons) > 0
      /\ p.delayd_no = 0 \/ p.delayd_no < Len(Beacons)
      /\ q \in 1 .. births
      /\ of \in Listed =>
         /\ q = of
         /\ \/ MarkCalled(main.calls) \/ p.status = heap[of].status
            \/ p.status = "unmarked" /\ heap[of].status = "marked"
      /\ of \in OnRunway => p.new_dir = heap[of].new_dir /\ p.delayd = FALSE
  BY <1>1 DEF IndInv, OrderInv
<1>5. /\ heap \in [1 .. births -> Plane] /\ heap[q] \in Plane
      /\ heap[q].delayd_no = 0 \/ heap[q].delayd_no < Len(Beacons)
      /\ heap[q].delayd => Len(Beacons) > 0
  BY <1>2, <1>4 DEF PlaneInv
<1>6. OnRunway \subseteq Listed
  BY DEF Listed
<1>7. CASE /\ heap' = [heap EXCEPT ![q].delayd = p.delayd]
           /\ main' = [main EXCEPT !.pc = "store delayd_no"]
  <2> DEFINE r == [heap[q] EXCEPT !.delayd = p.delayd]
  <2>0. r = [heap[q] EXCEPT !.delayd = p.delayd]
    OBVIOUS
  <2>1. heap' = [heap EXCEPT ![q] = r]
    BY <1>7
  <2> HIDE DEF r
  <2>2. /\ r \in Plane /\ SamePlace(r, heap[q]) /\ r.status = heap[q].status /\ r.new_dir = heap[q].new_dir
        /\ r.delayd = p.delayd /\ r.delayd_no = heap[q].delayd_no
    BY <1>4, <1>5, <2>0, NewDelay
  <2>3. Stored(q, r)
    BY <1>1, <1>4, <1>5, <2>1, <2>2 DEF Stored
  <2>4. /\ heap'[q] = r /\ Board' /\ births' = births /\ OnRunway' = OnRunway /\ Listed' = Listed
        /\ \A x \in (1 .. births) \ {q} : heap'[x] = heap[x]
    BY <1>2, <2>3, StoredSame, StoreKeeps DEF Board
  <2>5. /\ DOMAIN main' = DOMAIN main /\ main'.pc = "store delayd_no" /\ main'.pp = q /\ main'.of = of /\ main'.p = p
        /\ main'.calls = main.calls
    BY <1>3, <1>7
  <2>6. MainInv' /\ SearchInv'
    BY <1>3, <2>5 DEF MainInv, SearchInv
  <2>7. heap'[of].status = heap[of].status /\ heap'[of].new_dir = heap[of].new_dir
    BY <1>4, <2>2, <2>4
  <2>8. OrderInv'
    BY <1>4, <2>4, <2>5, <2>7 DEF OrderInv
  <2>9. IndInv'
    BY <1>1, <1>2, <2>4, <2>6, <2>8 DEF IndInv
  <2>10. of \in Listed => Meant(of)
    BY <1>4, <1>6, <2>2, <2>4 DEF Meant
  <2>11. QED
    BY <2>9, <2>10
<1>8. CASE heap' = [heap EXCEPT ![q].delayd_no = p.delayd_no] /\ main' = Idle
  <2> DEFINE r == [heap[q] EXCEPT !.delayd_no = p.delayd_no]
  <2>0. r = [heap[q] EXCEPT !.delayd_no = p.delayd_no]
    OBVIOUS
  <2>1. heap' = [heap EXCEPT ![q] = r]
    BY <1>8
  <2> HIDE DEF r
  <2>2. /\ r \in Plane /\ SamePlace(r, heap[q]) /\ r.status = heap[q].status /\ r.new_dir = heap[q].new_dir
        /\ r.delayd = heap[q].delayd /\ r.delayd_no = p.delayd_no
    BY <1>4, <1>5, <2>0, NewBeacon
  <2>3. Stored(q, r)
    BY <1>1, <1>4, <1>5, <2>1, <2>2 DEF Stored
  <2>4. heap'[q] = r /\ Board' /\ births' = births
    BY <1>2, <2>3, StoredSame, StoreKeeps DEF Board
  <2>5. MainInv' /\ SearchInv' /\ OrderInv'
    BY <1>8, IdleInv
  <2>6. IndInv'
    BY <1>1, <1>2, <2>4, <2>5 DEF IndInv
  <2>7. of \in Listed => Meant(of)
    BY <1>4, <2>2, <2>4 DEF Meant
  <2>8. QED
    BY <2>6, <2>7
<1>9. QED
  BY <1>7, <1>8 DEF StoreDelay

LEMMA NextKeeps ==
  ASSUME IndInv, [Next]_vars
  PROVE  IndInv'
<1>1. CASE Alarm \/ ForcedUpdate
  BY <1>1, AlarmKeeps
<1>2. CASE TypeCommand
  BY <1>2, TypeCommandKeeps
<1>3. CASE SearchOn
  BY <1>3, SearchOnKeeps
<1>4. CASE Execute
  BY <1>4, ExecuteKeeps
<1>5. CASE UnknownPlane \/ FollowNull
  BY <1>5, NotFoundKeeps
<1>6. CASE StoreOrder
  BY <1>6, OrderStored
<1>7. CASE StoreDelay
  BY <1>7, DelayStored
<1>8. CASE UNCHANGED vars
  <2>1. UNCHANGED <<odd, lists, last_plane, safe_planes, status, main, stays>>
    BY <1>8 DEF vars, lists
  <2>2. Board' /\ births' = births
    BY <2>1, BoardSame, SameLists DEF IndInv
  <2>3. SearchInv' /\ OrderInv'
    BY <2>1, SearchSame DEF IndInv
  <2>4. MainInv'
    BY <2>1 DEF IndInv, MainInv
  <2>5. QED
    BY <2>1, <2>2, <2>3, <2>4 DEF IndInv
<1>9. QED
  BY <1>1, <1>2, <1>3, <1>4, <1>5, <1>6, <1>7, <1>8 DEF Next, GetCommand

(* The lists, the flights, the counts and what getcommand holds of them,   *)
(* taken together, are kept by every step: the invariant that the results  *)
(* below follow from (update.c:68, input.c:272).                           *)
THEOREM Invariance == Spec => []IndInv
<1>1. Init => IndInv
  BY InitInv
<1>2. IndInv /\ [Next]_vars => IndInv'
  BY NextKeeps
<1>3. QED
  BY <1>1, <1>2, PTL DEF Spec

LEMMA Typed ==
  ASSUME IndInv
  PROVE  TypeOK
<1>1. PlaneInv /\ ListInv /\ CountInv /\ status \in {"on", "over", "segv"} /\ stays \subseteq 1 .. births
  BY DEF IndInv, Board
<1>2. /\ births \in Nat /\ births \in 1 .. Births /\ DOMAIN heap = 1 .. births
      /\ InAir \subseteq 1 .. births /\ OnRunway \subseteq 1 .. births
  BY <1>1, ListOrder DEF Listed
<1>3. Cardinality(InAir) \in Nat /\ Cardinality(OnRunway) \in Nat
  <2>1. IsFiniteSet(InAir) /\ IsFiniteSet(OnRunway)
    BY <1>2, Interval, FS_Subset
  <2>2. QED
    BY <2>1, FS_CardinalityType
<1>4. safe_planes \in 0 .. Births
  BY <1>1, <1>2, <1>3, AtcTowerAssumption DEF CountInv
<1>5. ASSUME NEW q \in DOMAIN heap, heap[q].delayd PROVE heap[q].delayd_no < Len(Beacons)
  BY <1>1, <1>5 DEF PlaneInv
<1>6. QED
  BY <1>1, <1>2, <1>4, <1>5 DEF TypeOK, PlaneInv

LEMMA WholeLinked ==
  ASSUME births \in Nat, births <= Births, heap \in [1 .. births -> Plane], NEW l, NEW S,
         Whole(births, [heap |-> heap, list |-> l], S)
  PROVE  Linked(l)
<1> DEFINE c == Chain(heap, l.head)
           N == births
<1>1. N \in Nat /\ N <= Births /\ heap \in [1 .. N -> Plane] /\ S \in SUBSET (1 .. N) /\ IsList(heap, l, S) /\ Distinct(heap, S)
      /\ 0 \notin S
  BY DEF Whole
<1> HIDE DEF N
<1>2. Path(heap, l, S, c) /\ (S # {} => heap[c[Len(c)]].next = 0)
  BY <1>1, ChainIsPath
<1>3. Lists(heap, c, S)
  BY <1>1, ChainLists
<1> HIDE DEF c
<1>4. c \in Seq(S) /\ Len(c) \in Nat /\ \A i \in 1 .. Len(c) : c[i] \in S
  BY <1>2, PathElements
<1>5. ASSUME NEW x \in S, NEW y \in S PROVE heap[x].next = y <=> heap[y].prev = x
  BY <1>1, Neighbours
<1>6. ASSUME NEW x \in S PROVE (l.head = x <=> heap[x].prev = 0) /\ (l.tail = x <=> heap[x].next = 0)
  BY <1>1, ListEnds
<1>7. ASSUME NEW n \in 1 .. Len(c) - 1
      PROVE  heap[c[n]].plane_no < heap[c[n + 1]].plane_no /\ heap[c[n + 1]].prev = c[n]
  <2>1. n \in 1 .. Len(c) /\ n + 1 \in 1 .. Len(c) /\ n < n + 1
    BY <1>4
  <2>2. heap[c[n]].plane_no < heap[c[n + 1]].plane_no
    BY <1>3, <2>1 DEF Lists
  <2>3. heap[c[n]].next = c[n + 1]
    BY <1>2 DEF Path
  <2>4. c[n] \in S /\ c[n + 1] \in S
    BY <1>4, <2>1
  <2>5. QED
    BY <1>5, <2>2, <2>3, <2>4
<1>8. /\ S = {} => l.head = 0 /\ l.tail = 0
      /\ S # {} => l.head \in S /\ l.tail \in S
  BY <1>1 DEF IsList, Least, Greatest
<1>9. CASE S = {}
  <2>1. c = <<>>
    BY <1>4, <1>9
  <2>2. Len(c) = 0
    BY <2>1
  <2>3. QED
    BY <1>8, <1>9, <2>1, <2>2 DEF Linked, c
<1>10. CASE S # {}
  <2>1. c # <<>> /\ Len(c) \in 1 .. Len(c)
    BY <1>2, <1>4, <1>10 DEF Path
  <2>2. c[Len(c)] \in S /\ heap[c[Len(c)]].next = 0
    BY <1>2, <1>4, <1>10, <2>1
  <2>3. l.tail = c[Len(c)]
    BY <1>6, <2>2
  <2>4. heap[l.head].prev = 0
    BY <1>8, <1>10, <1>6
  <2>5. QED
    BY <1>7, <2>1, <2>2, <2>3, <2>4 DEF Linked, c
<1>11. QED
  BY <1>9, <1>10

LEMMA AllLinked ==
  ASSUME IndInv
  PROVE  ListsLinked
<1>1. PlaneInv /\ ListInv
  BY DEF IndInv, Board
<1>2. births \in Nat /\ births <= Births /\ heap \in [1 .. births -> Plane]
  BY <1>1, ListOrder, AtcTowerAssumption DEF PlaneInv
<1>3. Linked(air)
  <2>1. Whole(births, [heap |-> heap, list |-> air], InAir)
    BY <1>1 DEF ListInv
  <2>2. QED
    BY <1>2, <2>1, WholeLinked
<1>4. Linked(ground)
  <2>1. Whole(births, [heap |-> heap, list |-> ground], OnRunway)
    BY <1>1 DEF ListInv
  <2>2. QED
    BY <1>2, <2>1, WholeLinked
<1>5. QED
  BY <1>1, <1>3, <1>4 DEF ListInv, Distinct, Listed, ListsLinked

LEMMA Finds ==
  ASSUME IndInv
  PROVE  SearchFinds
<1>1. ASSUME NotFound, NEW q \in stays PROVE heap[q].plane_no # main.no
  <2>1. main.pc \in {"lookup", "search"} /\ main.pp = 0 /\ main.in # "air"
    BY <1>1 DEF NotFound, Searching
  <2>2. /\ stays \subseteq Listed /\ \A x \in stays \cap InAir : heap[x].plane_no # main.no
        /\ Awaits(heap, stays \cap OnRunway, main.no, main.pp)
    BY <2>1 DEF IndInv, SearchInv
  <2>3. QED
    BY <2>1, <2>2 DEF Awaits, Listed
<1>2. ASSUME Found, main.pc = "search", main.of \in InAir \cup OnRunway PROVE main.pp = main.of
  BY <1>2, FoundPlane DEF Listed
<1>3. QED
  BY <1>1, <1>2 DEF SearchFinds

(* Whatever is ordered and however updates interrupt it, every plane has   *)
(* the type of one: no height is out of 0 .. 9 and every delay is for a    *)
(* beacon there is.                                                        *)
THEOREM Types == Spec => []TypeOK
  BY Invariance, Typed, PTL

(* However append, delete and the commands follow each other, a walk along *)
(* next meets each plane of a list once, in the order of the numbers, and  *)
(* the same planes backwards along prev; no plane is in both lists, and no *)
(* two that fly have one number (list.c:66-121).                           *)
THEOREM ProperLists == Spec => []ListsLinked
  BY Invariance, AllLinked, PTL

(* While the game is on a plane that waits stands at its airport; one that *)
(* flies is at height 0 only as a prop that has just been cleared there,   *)
(* and on the border only at the exit it came by (update.c:84, 168-197).   *)
THEOREM Places == Spec => []Whereabouts
<1>1. IndInv => Whereabouts
  BY DEF IndInv, Board
<1>2. QED
  BY <1>1, Invariance, PTL

(* While the game is on no two planes in the air are within one cell and   *)
(* 1000 feet of each other, entering planes included (update.c:212, 380).  *)
THEOREM Apart == Spec => []Separation
<1>1. IndInv => Separation
  BY DEF IndInv, Board
<1>2. QED
  BY <1>1, Invariance, PTL

(* Every plane that ever entered is in one of the lists or was counted as  *)
(* one that left safely (update.c:202, 345).                               *)
THEOREM Conserved == Spec => []Conservation
<1>1. IndInv => Conservation
  BY DEF IndInv, Board, CountInv, Conservation
<1>2. QED
  BY <1>1, Invariance, PTL

(* A search that alarms interrupt misses no plane that stayed in its list  *)
(* all the while, and the second search comes back to the plane that was   *)
(* copied, as long as that is there (update.c:417, input.c:319).           *)
THEOREM SearchesFind == Spec => []SearchFinds
  BY Invariance, Finds, PTL

(* An order changes the mark of its plane only as the command says or in   *)
(* the one known race, and never turns a plane on the ground or makes it   *)
(* wait for a beacon (input.c:322, 419).                                   *)
THEOREM OrdersMeant == Spec => OrdersAsMeant
<1> DEFINE A == odd' = odd => \A q \in (InAir \cup OnRunway) \cap {main.of} :
                  /\ heap'[q].status # heap[q].status =>
                       \/ \E n \in DOMAIN main.calls : main.calls[n].func \in DOMAIN Marking
                       \/ main.p.status = "unmarked" /\ heap[q].status = "marked"
                  /\ q \in OnRunway => /\ heap'[q].new_dir = heap[q].new_dir
                                       /\ heap'[q].delayd => heap[q].delayd
<1>1. ASSUME IndInv, [Next]_vars PROVE [A]_vars
  <2>1. SUFFICES ASSUME odd' = odd, NEW q \in (InAir \cup OnRunway) \cap {main.of} PROVE Meant(q)
    BY DEF Meant
  <2>2. CASE heap' = heap
    BY <2>2 DEF Meant
  <2>3. CASE Alarm \/ ForcedUpdate
    <3>1. odd' = ~odd /\ odd \in BOOLEAN
      BY <1>1, <2>3 DEF Alarm, ForcedUpdate, Update, IndInv
    <3>2. odd' # odd
      BY <3>1, Zenon
    <3>3. QED
      BY <2>1, <3>2
  <2>4. CASE TypeCommand \/ SearchOn \/ Execute \/ UnknownPlane \/ FollowNull \/ UNCHANGED vars
    <3>1. heap' = heap
      BY <2>4 DEF TypeCommand, SearchOn, Execute, UnknownPlane, FollowNull, lists, vars
    <3>2. QED
      BY <2>2, <3>1
  <2>5. CASE StoreOrder
    BY <1>1, <2>1, <2>5, OrderStored DEF Listed
  <2>6. CASE StoreDelay
    BY <1>1, <2>1, <2>6, DelayStored DEF Listed
  <2>7. QED
    BY <1>1, <2>3, <2>4, <2>5, <2>6 DEF Next, GetCommand
<1>2. QED
  BY <1>1, Invariance, PTL DEF Spec, OrdersAsMeant
=============================================================================
