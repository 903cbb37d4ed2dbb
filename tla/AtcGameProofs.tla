---------------------------- MODULE AtcGameProofs ----------------------------
(***************************************************************************)
(* Proofs about AtcGame, for every scenario, command set and bound: type   *)
(* correctness, the separation of planes in the air, the uniqueness of     *)
(* labels, the whereabouts of every plane and their conservation, which    *)
(* follow from the inductive invariant IndInv; and what a step may do to   *)
(* one plane: how far it moves and turns, and where it may leave.          *)
(***************************************************************************)
EXTENDS AtcGame, FiniteSetTheorems, FunctionTheorems, SequenceTheorems, TLAPS

------------------------------------------------------------------------------
(* Least elements *)

(* Every nonempty set of numbers has a least one: First and NextLabel pick *)
(* a plane and a label that exist.                                         *)
LEMMA LeastNat ==
  ASSUME NEW T \in SUBSET Nat, T # {}
  PROVE  \E m \in T : \A n \in T : m <= n
<1>1. PICK m \in T : \A n \in T : << n, m >> \notin OpToRel(<, Nat)
  BY WFMin, NatLessThanWellFounded, Zenon
<1>2. \A n \in T : ~(n < m)
  BY <1>1, Zenon DEF OpToRel
<1>3. QED
  BY <1>2

(* First finds the plane of the set that appeared first.                   *)
LEMMA FirstPlane ==
  ASSUME NEW S \in SUBSET Plane, S # {}
  PROVE  First(S) \in S /\ \A q \in S : First(S).born <= q.born
<1> DEFINE T == {p.born : p \in S}
<1>1. T \in SUBSET Nat /\ T # {}
  BY DEF Plane
<1>2. PICK m \in T : \A n \in T : m <= n
  BY <1>1, LeastNat, Zenon
<1>3. PICK p \in S : p.born = m
  BY Zenon
<1>4. \A q \in S : p.born <= q.born
  BY <1>2, <1>3
<1>5. QED
  BY <1>4, Zenon DEF First

(* The label of a new plane is one no present plane carries.               *)
LEMMA NextLabelIsFree ==
  ASSUME NEW S, FreeLabels(S) # {}
  PROVE  NextLabel(S) \in FreeLabels(S)
<1>1. FreeLabels(S) \in SUBSET Nat
  BY PlayerAssumption DEF FreeLabels, Labels
<1>2. \E l \in FreeLabels(S) : \A m \in FreeLabels(S) : l <= m
  BY <1>1, LeastNat, Zenon
<1>3. QED
  BY <1>2, Zenon DEF NextLabel

------------------------------------------------------------------------------
(* Geometry *)

(* The numbers of a plane, each in its range.                              *)
LEMMA PlaneNumbers ==
  ASSUME NEW p \in Plane
  PROVE  /\ p.x \in -1 .. Width /\ p.y \in -1 .. Height
         /\ p.altitude \in 0 .. 9 /\ p.newAltitude \in 0 .. 9
         /\ p.dir \in 0 .. 7 /\ p.newDir \in 0 .. 7
         /\ p.fuel \in -1 .. StartFuel
<1>1. p.x \in -1 .. Width /\ p.y \in -1 .. Height /\ p.fuel \in -1 .. StartFuel
  BY Zenon DEF Plane
<1>2. p.altitude \in Altitudes /\ p.newAltitude \in Altitudes
  BY Zenon DEF Plane
<1>3. p.dir \in Dirs /\ p.newDir \in Dirs
  BY Zenon DEF Plane
<1>4. QED
  BY <1>1, <1>2, <1>3, Zenon DEF Altitudes, Dirs

(* Headings are taken modulo 8.                                            *)
LEMMA Octant ==
  ASSUME NEW n \in Int
  PROVE  n % 8 \in Dirs
BY DEF Dirs

(* One step is at most one cell along each axis.                           *)
LEMMA StepLength ==
  ASSUME NEW d
  PROVE  DirDx(d) \in -1 .. 1 /\ DirDy(d) \in -1 .. 1
BY DEF DirDx, DirDy

(* dirToward yields one of the eight headings.                             *)
LEMMA DirTowardType ==
  ASSUME NEW fx \in Int, NEW fy \in Int, NEW tx \in Int, NEW ty \in Int
  PROVE  DirToward(fx, fy, tx, ty) \in Dirs
<1> DEFINE dx == tx - fx
           dy == ty - fy
           sx == IF NearAxis(Abs(dy), Abs(dx)) THEN 0 ELSE Sign(dx)
           sy == IF NearAxis(Abs(dx), Abs(dy)) THEN 0 ELSE Sign(dy)
<1>1. dx \in Int /\ dy \in Int
  OBVIOUS
<1>2. CASE dx = 0 /\ dy = 0
  BY <1>2 DEF DirToward, Dirs
<1>3. CASE ~(dx = 0 /\ dy = 0)
  <2>1. NearAxis(Abs(dy), Abs(dx)) => Abs(dy) > Abs(dx)
    BY DEF NearAxis
  <2>2. NearAxis(Abs(dx), Abs(dy)) => Abs(dx) > Abs(dy)
    BY DEF NearAxis
  <2>3. sx \in {-1, 0, 1} /\ sy \in {-1, 0, 1}
    BY <1>1 DEF Sign
  <2>4. ~(sx = 0 /\ sy = 0)
    BY <1>1, <1>3, <2>1, <2>2 DEF Sign, Abs
  <2> HIDE DEF sx, sy
  <2>5. \E dir \in Dirs : DirDx(dir) = sx /\ DirDy(dir) = sy
    BY <2>3, <2>4 DEF Dirs, DirDx, DirDy
  <2>6. DirToward(fx, fy, tx, ty)
          = CHOOSE dir \in Dirs : DirDx(dir) = sx /\ DirDy(dir) = sy
    BY <1>3, Zenon DEF DirToward, sx, sy
  <2>7. QED
    BY <2>5, <2>6, Zenon
<1>4. QED
  BY <1>2, <1>3

------------------------------------------------------------------------------
(* Commands *)

(* Every fix is a point of the radar.                                      *)
LEMMA FixesAreInArena ==
  ASSUME NEW fix \in Fixes
  PROVE  /\ PosOf(fix).x \in 0 .. Width - 1
         /\ PosOf(fix).y \in 0 .. Height - 1
         /\ fix \in Ends => PosOf(fix).dir \in Dirs
<1>1. CASE fix \in {"exit"} \X DOMAIN Exits
  <2>1. fix[1] = "exit" /\ fix[2] \in DOMAIN Exits
    BY <1>1
  <2>2. PosOf(fix) = Exits[fix[2]]
    BY <2>1, Zenon DEF PosOf
  <2>3. Exits[fix[2]] \in [x : Int, y : Int, dir : Dirs]
    <3>1. Exits \in Seq([x : Int, y : Int, dir : Dirs])
      BY ScenarioAssumption
    <3>2. fix[2] \in 1 .. Len(Exits)
      BY <2>1, <3>1, LenProperties
    <3>3. QED
      BY <3>1, <3>2, ElementOfSeq
  <2>4. QED
    BY <2>1, <2>2, <2>3, ScenarioAssumption DEF InArena
<1>2. CASE fix \in {"airport"} \X DOMAIN Airports
  <2>1. fix[1] = "airport" /\ fix[2] \in DOMAIN Airports
    BY <1>2
  <2>2. PosOf(fix) = Airports[fix[2]]
    BY <2>1 DEF PosOf
  <2>3. Airports[fix[2]] \in [x : Int, y : Int, dir : Dirs]
    <3>1. Airports \in Seq([x : Int, y : Int, dir : Dirs])
      BY ScenarioAssumption
    <3>2. fix[2] \in 1 .. Len(Airports)
      BY <2>1, <3>1, LenProperties
    <3>3. QED
      BY <3>1, <3>2, ElementOfSeq
  <2>4. QED
    BY <2>1, <2>2, <2>3, ScenarioAssumption DEF InArena
<1>3. CASE fix \in {"beacon"} \X DOMAIN Beacons
  <2>1. fix[1] = "beacon" /\ fix[2] \in DOMAIN Beacons
    BY <1>3
  <2>2. PosOf(fix) = Beacons[fix[2]]
    BY <2>1 DEF PosOf
  <2>3. fix \notin Ends
    BY <2>1 DEF Ends
  <2>4. QED
    BY <2>1, <2>2, <2>3, ScenarioAssumption DEF InArena
<1>4. QED
  BY <1>1, <1>2, <1>3 DEF Fixes, Ends

(* What no command changes, and what it leaves of a plane on the ground.   *)
SameFlight(p, q) ==
  /\ q.born = p.born /\ q.label = p.label /\ q.type = p.type
  /\ q.x = p.x /\ q.y = p.y /\ q.altitude = p.altitude /\ q.dir = p.dir
  /\ q.fuel = p.fuel /\ q.dest = p.dest /\ q.orig = p.orig
  /\ q.status = "gone" <=> p.status = "gone"
  /\ ~IsAirborne(p) => q.newDir = p.newDir
  /\ ~IsAirborne(p) =>
       q.delayedAtBeacon = p.delayedAtBeacon /\ q.circling = p.circling
  /\ q.delayedAtBeacon =>
       \/ q.delayedBeaconNo \in DOMAIN Beacons
       \/ p.delayedAtBeacon /\ q.delayedBeaconNo = p.delayedBeaconNo

(* Steering yields a plane again.                                          *)
LEMMA SteerType ==
  ASSUME NEW p \in Plane, NEW d \in Dirs, IsAirborne(p)
  PROVE  Steer(p, d) \in Plane /\ SameFlight(p, Steer(p, d))
BY DEF Steer, Plane, SameFlight

(* A command given at once yields a plane on the same flight.              *)
LEMMA UndelayedType ==
  ASSUME NEW p \in Plane, p.status # "gone", IsAirborne(p), NEW c \in Command,
         c.op # "withDelay"
  PROVE  Undelayed(p, c) \in Plane /\ SameFlight(p, Undelayed(p, c))
<1>1. CASE c \in [op : {"turnLeft", "turnRight"}, label : Labels, steps : 0 .. 7]
  <2>1. /\ (p.dir - c.steps + 8) % 8 \in Dirs
        /\ (p.dir + c.steps) % 8 \in Dirs
    <3>1. p.dir \in Int /\ c.steps \in Int
      BY <1>1 DEF Plane, Dirs
    <3>2. QED
      BY <3>1, Octant
  <2>2. CASE c.op = "turnLeft"
    <3>1. Undelayed(p, c) = Steer(p, (p.dir - c.steps + 8) % 8)
      BY <2>2 DEF Undelayed
    <3>2. QED
      BY <2>1, <3>1, SteerType
  <2>3. CASE c.op = "turnRight"
    <3>1. Undelayed(p, c) = Steer(p, (p.dir + c.steps) % 8)
      BY <2>3 DEF Undelayed
    <3>2. QED
      BY <2>1, <3>1, SteerType
  <2>4. QED
    BY <1>1, <2>2, <2>3
<1>2. CASE c \in [op : {"turnDir"}, label : Labels, dir : Dirs]
  <2>1. Undelayed(p, c) = Steer(p, c.dir)
    BY <1>2 DEF Undelayed
  <2>2. QED
    BY <1>2, <2>1, SteerType
<1>3. CASE c \in [op : {"turnToward"}, label : Labels, dest : Fixes]
  <2>1. Undelayed(p, c) = Steer(p, Toward(p, c.dest))
    BY <1>3 DEF Undelayed
  <2>2. Toward(p, c.dest) \in Dirs
    <3>1. /\ PosOf(c.dest).x \in Int /\ PosOf(c.dest).y \in Int
          /\ p.x \in Int /\ p.y \in Int
      <4>1. c.dest \in Fixes
        BY <1>3
      <4>2. QED
        BY <4>1, FixesAreInArena, PlaneNumbers, ScenarioAssumption, SMTT(60)
    <3>2. QED
      BY <3>1, DirTowardType DEF Toward
  <2>3. QED
    BY <2>1, <2>2, SteerType
<1>4. CASE c \in [op : {"circle"}, label : Labels]
  <2>1. Undelayed(p, c) =
          [p EXCEPT !.circling = TRUE, !.delayedAtBeacon = FALSE]
    BY <1>4 DEF Undelayed
  <2>2. QED
    BY <2>1, ZenonT(60) DEF Plane, SameFlight
<1>5. CASE c \in [op : {"altitude"}, label : Labels, altitude : Altitudes]
  <2>1. Undelayed(p, c) =
          [p EXCEPT !.newAltitude = c.altitude, !.circling = FALSE]
    BY <1>5 DEF Undelayed
  <2>2. QED
    BY <1>5, <2>1, ZenonT(60) DEF Plane, SameFlight
<1>6. CASE c \in [op : {"altitudeRelative"}, label : Labels, delta : -9 .. 9]
  <2>1. Undelayed(p, c) =
          [p EXCEPT !.newAltitude = Clamp(p.altitude + c.delta)]
    BY <1>6 DEF Undelayed
  <2>2. Clamp(p.altitude + c.delta) \in Altitudes
    <3>1. p.altitude \in Int /\ c.delta \in Int
      <4>1. c.delta \in Int
        BY <1>6
      <4>2. QED
        BY <4>1, PlaneNumbers
    <3>2. QED
      BY <3>1 DEF Clamp, Altitudes
  <2>3. QED
    BY <2>1, <2>2 DEF Plane, SameFlight
<1>7. CASE c \in [op : {"mark", "unmark", "ignore"}, label : Labels]
  <2>1. \E s \in PlaneStatuses \ {"gone"} :
          Undelayed(p, c) = [p EXCEPT !.status = s]
    BY <1>7 DEF Undelayed, PlaneStatuses
  <2>2. QED
    BY <2>1 DEF Plane, SameFlight
<1>8. QED
  BY <1>1, <1>2, <1>3, <1>4, <1>5, <1>6, <1>7 DEF Command, DelayableCommand

(* So does a delayed command; the beacon it holds for exists.              *)
LEMMA DelayedType ==
  ASSUME NEW p \in Plane, p.status # "gone", IsAirborne(p), NEW c \in Command,
         c.op = "withDelay"
  PROVE  Delayed(p, c) \in Plane /\ SameFlight(p, Delayed(p, c))
<1>1. /\ c.inner \in DelayableCommand
      /\ c.inner \in Command /\ c.inner.op # "withDelay"
  BY DEF Command, DelayableCommand
<1> DEFINE q == Undelayed(p, c.inner)
           d == IF c.inner.op = "turnToward"
                THEN Toward(Beacons[c.beaconNo], c.inner.dest) ELSE q.newDir
<1>2. q \in Plane /\ SameFlight(p, q)
  BY <1>1, UndelayedType
<1>3. CASE c.beaconNo \in DOMAIN Beacons /\ BeaconAhead(p, Beacons[c.beaconNo])
  <2>1. d \in Dirs
    <3>1. CASE c.inner.op = "turnToward"
      <4>1. c.inner.dest \in Fixes
        BY <1>1, <3>1 DEF DelayableCommand
      <4>2. /\ PosOf(c.inner.dest).x \in Int /\ PosOf(c.inner.dest).y \in Int
        BY <4>1, FixesAreInArena, ScenarioAssumption
      <4>3. /\ Beacons[c.beaconNo].x \in Int /\ Beacons[c.beaconNo].y \in Int
        BY <1>3, ScenarioAssumption, SMTT(60) DEF InArena
      <4>4. QED
        BY <3>1, <4>2, <4>3, DirTowardType DEF Toward
    <3>2. CASE c.inner.op # "turnToward"
      BY <1>2, <3>2 DEF Plane
    <3>3. QED
      BY <3>1, <3>2
  <2>2. Delayed(p, c) =
          [q EXCEPT !.newDir = d, !.delayedAtBeacon = TRUE,
                    !.delayedBeaconNo = c.beaconNo]
    BY <1>3, Zenon DEF Delayed
  <2>3. c.beaconNo \in 0 .. Len(Beacons)
    BY <1>3, ScenarioAssumption, LenProperties, SMTT(60)
  <2> HIDE DEF q, d
  <2>4. Delayed(p, c) \in Plane
    BY <1>2, <2>1, <2>2, <2>3, ZenonT(60) DEF Plane
  <2>5. SameFlight(p, Delayed(p, c))
    BY <1>2, <1>3, <2>2 DEF Plane, SameFlight
  <2>6. QED
    BY <2>4, <2>5
<1>4. CASE ~(c.beaconNo \in DOMAIN Beacons /\ BeaconAhead(p, Beacons[c.beaconNo]))
  <2>1. Delayed(p, c) = p
    BY <1>4, Zenon DEF Delayed
  <2>2. QED
    BY <2>1 DEF SameFlight
<1>5. QED
  BY <1>3, <1>4

(* Any command leaves the plane it is given to on its flight.              *)
LEMMA CommandedType ==
  ASSUME NEW p \in Plane, p.status # "gone", NEW c \in Command
  PROVE  Commanded(p, c) \in Plane /\ SameFlight(p, Commanded(p, c))
<1>1. CASE IsAirborne(p) /\ c.op = "withDelay"
  <2>1. Commanded(p, c) = Delayed(p, c)
    BY <1>1, Zenon DEF Commanded
  <2>2. QED
    BY <1>1, <2>1, DelayedType
<1>2. CASE IsAirborne(p) /\ c.op # "withDelay"
  <2>1. Commanded(p, c) = Undelayed(p, c)
    BY <1>2, Zenon DEF Commanded
  <2>2. QED
    BY <1>2, <2>1, UndelayedType
<1>3. CASE ~IsAirborne(p) /\ c.op = "altitude" /\ c.altitude > 0
  <2>1. Commanded(p, c) = [p EXCEPT !.newAltitude = c.altitude]
    BY <1>3, Zenon DEF Commanded
  <2>2. c.altitude \in Altitudes
    BY <1>3 DEF Command, DelayableCommand
  <2>3. QED
    BY <2>1, <2>2 DEF Plane, SameFlight
<1>4. CASE ~IsAirborne(p) /\ ~(c.op = "altitude" /\ c.altitude > 0)
  <2>1. Commanded(p, c) = p
    BY <1>4, Zenon DEF Commanded
  <2>2. QED
    BY <2>1 DEF SameFlight
<1>5. QED
  BY <1>1, <1>2, <1>3, <1>4

------------------------------------------------------------------------------
(* One tick of one plane *)

(* While the game is on a plane is on the radar with fuel left.            *)
OnRadar(p) ==
  p.x \in 0 .. Width - 1 /\ p.y \in 0 .. Height - 1 /\ p.fuel >= 0

(* A tick turns a plane by at most 90 degrees.                             *)
LEMMA TurnType ==
  ASSUME NEW p \in Plane
  PROVE  Turn(p) \in -2 .. 2
<1> DEFINE arc == (p.newDir - p.dir) % 8
           shortest == IF arc > 4 THEN arc - 8 ELSE arc
           final == IF Abs(shortest) > 2 THEN 2 * Sign(shortest) ELSE shortest
<1>1. arc \in 0 .. 7
  BY PlaneNumbers, Octant DEF Dirs
<1> HIDE DEF arc
<1>2. final \in -2 .. 2
  BY <1>1 DEF Abs, Sign
<1>3. \/ Turn(p) = 0 \/ Turn(p) = 2 \/ Turn(p) = final
  BY Zenon DEF Turn, arc
<1>4. QED
  BY <1>2, <1>3

(* A move yields a plane again, and leaves its orders alone.               *)
LEMMA MovedType ==
  ASSUME NEW p \in Plane, OnRadar(p)
  PROVE  /\ Moved(p) \in Plane
         /\ Moved(p).fuel = p.fuel - 1
         /\ Moved(p).born = p.born /\ Moved(p).label = p.label
         /\ Moved(p).dest = p.dest /\ Moved(p).orig = p.orig
         /\ Moved(p).status = p.status
         /\ Moved(p).delayedAtBeacon = p.delayedAtBeacon
         /\ Moved(p).delayedBeaconNo = p.delayedBeaconNo
<1> DEFINE dir == (p.dir + Turn(p) + 8) % 8
           alt == p.altitude + Sign(p.newAltitude - p.altitude)
<1>1. dir \in Dirs
  <2>1. p.dir \in 0 .. 7 /\ Turn(p) \in -2 .. 2
    BY PlaneNumbers, TurnType, Zenon
  <2>2. p.dir + Turn(p) + 8 \in Int
    BY <2>1
  <2>3. QED
    BY <2>2, Octant, Zenon
<1>2. alt \in Altitudes
  BY PlaneNumbers DEF Altitudes, Sign
<1>3. DirDx(dir) \in -1 .. 1 /\ DirDy(dir) \in -1 .. 1
  BY StepLength
<1>4. Moved(p) = [p EXCEPT !.fuel = p.fuel - 1, !.altitude = alt, !.dir = dir,
                           !.x = p.x + DirDx(dir), !.y = p.y + DirDy(dir)]
  BY DEF Moved, Plane
<1> HIDE DEF dir, alt
<1>5. /\ p.x + DirDx(dir) \in -1 .. Width /\ p.y + DirDy(dir) \in -1 .. Height
      /\ p.fuel - 1 \in -1 .. StartFuel
  <2>1. p.x \in 0 .. Width - 1 /\ p.y \in 0 .. Height - 1 /\ p.fuel >= 0
    BY DEF OnRadar
  <2>2. p.fuel \in -1 .. StartFuel
    BY PlaneNumbers, Zenon
  <2>3. Width \in Nat /\ Height \in Nat /\ StartFuel \in Nat
    BY ScenarioAssumption DEF StartFuel
  <2>4. QED
    BY <1>3, <2>1, <2>2, <2>3
<1>6. QED
  BY <1>1, <1>2, <1>4, <1>5, ZenonT(60) DEF Plane

(* Reaching the beacon ends the hold and marks the plane, no more.         *)
LEMMA FlownType ==
  ASSUME NEW p \in Plane, OnRadar(p)
  PROVE  /\ Flown(p) \in Plane
         /\ Flown(p).fuel = p.fuel - 1
         /\ Flown(p).born = p.born /\ Flown(p).label = p.label
         /\ Flown(p).dest = p.dest /\ Flown(p).orig = p.orig
         /\ Flown(p).status = "gone" <=> p.status = "gone"
         /\ Flown(p).delayedAtBeacon => p.delayedAtBeacon
         /\ Flown(p).delayedBeaconNo = p.delayedBeaconNo
<1> DEFINE q == Moved(p)
<1>1. CASE ReachedBeacon(q)
  <2>1. \E s \in PlaneStatuses :
          /\ Flown(p) = [q EXCEPT !.delayedAtBeacon = FALSE, !.status = s]
          /\ s = "gone" <=> q.status = "gone"
    <3>1. Flown(p) = [q EXCEPT !.delayedAtBeacon = FALSE,
                               !.status = IF q.status = "unmarked" THEN "marked"
                                                          ELSE q.status]
      BY <1>1, MovedType DEF Flown, Plane
    <3>2. QED
      BY <3>1, MovedType DEF Plane, PlaneStatuses
  <2>2. PICK s \in PlaneStatuses :
          /\ Flown(p) = [q EXCEPT !.delayedAtBeacon = FALSE, !.status = s]
          /\ s = "gone" <=> q.status = "gone"
    BY <2>1, Zenon
  <2>3. q \in Plane
    BY MovedType, Zenon
  <2>4. /\ Flown(p).fuel = q.fuel /\ Flown(p).born = q.born
        /\ Flown(p).label = q.label /\ Flown(p).dest = q.dest
        /\ Flown(p).orig = q.orig /\ Flown(p).status = s
        /\ Flown(p).delayedAtBeacon = FALSE
        /\ Flown(p).delayedBeaconNo = q.delayedBeaconNo
    BY <2>2, <2>3, Zenon DEF Plane
  <2>5. Flown(p) \in Plane
    BY <2>2, <2>3, Zenon DEF Plane
  <2> HIDE DEF q
  <2>6. QED
    BY <2>2, <2>4, <2>5, MovedType DEF q
<1>2. CASE ~ReachedBeacon(q)
  <2>1. Flown(p) = q
    BY <1>2, Zenon DEF Flown
  <2>2. QED
    BY <2>1, MovedType
<1>3. QED
  BY <1>1, <1>2

(* The verdict is a reason to lose, a safe departure, or to fly on; a      *)
(* plane flies on only in the air and inside the frame.                    *)
LEMMA VerdictType ==
  ASSUME NEW q \in Plane
  PROVE  /\ Verdict(q) \in Reasons \cup {"flying", "safe"}
         /\ Verdict(q) = "flying" => q.altitude > 0 /\ ~OutsideFrame(q)
<1>1. q.altitude \in Int
  BY DEF Plane, Altitudes
<1>2. QED
  BY <1>1 DEF Verdict, Reasons

(* What a tick makes of a plane that is still there.                       *)
LEMMA FateType ==
  ASSUME NEW p \in Plane, p.status # "gone", OnRadar(p)
  PROVE  /\ Fate(p) \in Reasons \cup {"flying", "safe"}
         /\ AfterTick(p) \in Plane
         /\ AfterTick(p).born = p.born /\ AfterTick(p).label = p.label
         /\ AfterTick(p).status = "gone" <=> Fate(p) = "safe"
         /\ AfterTick(p).delayedAtBeacon =>
              p.delayedAtBeacon /\ AfterTick(p).delayedBeaconNo = p.delayedBeaconNo
         /\ Fate(p) = "flying" =>
              \/ AfterTick(p) = p
              \/ /\ AfterTick(p).altitude > 0 /\ AfterTick(p).fuel >= 0
                 /\ ~OutsideFrame(AfterTick(p))
<1>1. CASE ~MovesNow(p)
  <2>1. Fate(p) = "flying" /\ AfterTick(p) = p
    BY <1>1, Zenon DEF Fate, AfterTick
  <2>2. QED
    BY <2>1
<1>2. CASE MovesNow(p) /\ p.fuel - 1 < 0
  <2>1. Fate(p) = "ran out of fuel"
    BY <1>2 DEF Fate
  <2>2. AfterTick(p) = [p EXCEPT !.fuel = p.fuel - 1]
    BY <1>2, Zenon DEF AfterTick
  <2>3. p.fuel - 1 \in -1 .. StartFuel
    <3>1. p.fuel >= 0 /\ StartFuel \in Nat
      BY ScenarioAssumption DEF OnRadar, StartFuel
    <3>2. p.fuel \in -1 .. StartFuel
      BY PlaneNumbers, Zenon
    <3>3. QED
      BY <3>1, <3>2
  <2>4. AfterTick(p) \in Plane
    BY <2>2, <2>3, Zenon DEF Plane
  <2>5. /\ AfterTick(p).born = p.born /\ AfterTick(p).label = p.label
        /\ AfterTick(p).status = p.status
        /\ AfterTick(p).delayedAtBeacon = p.delayedAtBeacon
        /\ AfterTick(p).delayedBeaconNo = p.delayedBeaconNo
    BY <2>2, Zenon DEF Plane
  <2>6. QED
    BY <2>1, <2>4, <2>5 DEF Reasons
<1>3. CASE MovesNow(p) /\ ~(p.fuel - 1 < 0)
  <2>1. Fate(p) = Verdict(Flown(p))
    BY <1>3, Zenon DEF Fate
  <2>2. Flown(p) \in Plane
    BY FlownType
  <2>3. Flown(p).fuel >= 0
    BY <1>3, FlownType DEF Plane, StartFuel
  <2>4. CASE Fate(p) = "safe"
    <3>1. AfterTick(p) = [Flown(p) EXCEPT !.status = "gone"]
      BY <1>3, <2>4, Zenon DEF AfterTick
    <3>2. QED
      BY <2>2, <2>4, <3>1, FlownType, SMTT(30) DEF Plane, PlaneStatuses
  <2>5. CASE Fate(p) # "safe"
    <3>1. AfterTick(p) = Flown(p)
      BY <1>3, <2>5, Zenon DEF AfterTick
    <3>2. QED
      BY <2>1, <2>2, <2>3, <2>5, <3>1, FlownType, VerdictType
  <2>6. QED
    BY <2>4, <2>5
<1>4. QED
  BY <1>1, <1>2, <1>3

------------------------------------------------------------------------------
(* The inductive invariant *)

(* Whereabouts puts every plane on the radar.                              *)
LEMMA AllOnRadar ==
  ASSUME TypeOK, Whereabouts, status = "playing", NEW p \in planes
  PROVE  OnRadar(p)
<1>1. p \in Plane /\ p.orig \in Fixes /\ StartFuel \in Nat
  BY ScenarioAssumption, SMTT(30) DEF TypeOK, Plane, Fixes, StartFuel
<1>2. /\ PosOf(p.orig).x \in 0 .. Width - 1
      /\ PosOf(p.orig).y \in 0 .. Height - 1
  BY <1>1, FixesAreInArena
<1>3. CASE InTheAir(p)
  BY <1>3, ScenarioAssumption, SMTT(60) DEF InTheAir, OnRadar
<1>4. CASE JustEntered(p) \/ WaitingAtAirport(p)
  BY <1>1, <1>2, <1>4 DEF JustEntered, WaitingAtAirport, At, OnRadar
<1>5. QED
  BY <1>3, <1>4 DEF Whereabouts

(* No plane has appeared yet.                                              *)
LEMMA InitIndInv == Init => IndInv
<1> SUFFICES ASSUME Init PROVE IndInv
  OBVIOUS
<1>1. TypeOK
  <2>1. spawned \in 0 .. MaxSpawns /\ safeExits \in Nat
    BY PlayerAssumption DEF Init
  <2>2. odd \in BOOLEAN
    BY Zenon DEF Init
  <2>3. QED
    BY <2>1, <2>2, Zenon DEF Init, TypeOK
<1>2. WellFormed /\ Whereabouts /\ Separation /\ UniqueLabels
  BY DEF Init, WellFormed, Whereabouts, Separation, UniqueLabels, Conflict, Present
<1>3. QED
  BY <1>1, <1>2 DEF IndInv

(* The invariant speaks of the planes, counters and status only.           *)
LEMMA StutterStep ==
  ASSUME IndInv,
         UNCHANGED << planes, safeExits, status, lossReason, spawned >>,
         odd' \in BOOLEAN
  PROVE  IndInv'
<1>1. TypeOK' /\ WellFormed' /\ Separation' /\ UniqueLabels'
  BY DEF IndInv, TypeOK, WellFormed, Separation, UniqueLabels, Conflict, Present
<1>2. Whereabouts'
  BY DEF IndInv, Whereabouts, InTheAir, JustEntered, WaitingAtAirport, At, PosOf
<1>3. QED
  BY <1>1, <1>2 DEF IndInv

(* A command changes the orders of one plane and nothing else.             *)
LEMMA CommandStep ==
  ASSUME IndInv, NEW c \in Command, ApplyCommand(c)
  PROVE  IndInv'
<1> DEFINE named == {p \in Present(planes) : p.label = c.label}
<1>1. CASE named = {}
  <2>1. planes' = planes
    BY <1>1, Zenon DEF ApplyCommand, PlanesAfter
  <2>2. QED
    BY <2>1, StutterStep DEF ApplyCommand, IndInv, TypeOK
<1>2. CASE named # {}
  <2> DEFINE p == First(named)
             q == Commanded(p, c)
  <2>1. p \in planes /\ p.status # "gone" /\ p \in Plane
    <3>1. named \in SUBSET Plane
      BY DEF IndInv, TypeOK, Present
    <3>2. p \in named
      BY <1>2, <3>1, FirstPlane
    <3>3. QED
      BY <3>1, <3>2 DEF Present
  <2>2. q \in Plane /\ SameFlight(p, q)
    BY <2>1, CommandedType
  <2>3. planes' = (planes \ {p}) \cup {q}
    BY <1>2, Zenon DEF ApplyCommand, PlanesAfter
  <2>4. UNCHANGED << odd, safeExits, status, lossReason, spawned >>
    BY DEF ApplyCommand
  <2> HIDE DEF named, p, q
  <2>5. TypeOK'
    BY <2>2, <2>3, <2>4 DEF IndInv, TypeOK
  <2>6. WellFormed'
    <3>1. \A r \in planes' : r.born <= spawned'
      BY <2>1, <2>2, <2>3, <2>4 DEF IndInv, WellFormed, SameFlight
    <3>2. \A r, s \in planes' : r.born = s.born => r = s
      BY <2>1, <2>2, <2>3 DEF IndInv, WellFormed, SameFlight
    <3>3. status' = "playing" => planes' = Present(planes')
      BY <2>1, <2>2, <2>3, <2>4 DEF IndInv, WellFormed, SameFlight, Present
    <3>4. \A r \in planes' :
            r.delayedAtBeacon => r.delayedBeaconNo \in DOMAIN Beacons
      BY <2>1, <2>2, <2>3 DEF IndInv, WellFormed, SameFlight
    <3>5. QED
      BY <3>1, <3>2, <3>3, <3>4 DEF WellFormed, Present
  <2>7. Whereabouts'
    <3> SUFFICES ASSUME status' = "playing", NEW r \in planes'
                 PROVE  InTheAir(r) \/ JustEntered(r) \/ WaitingAtAirport(r)
      BY DEF Whereabouts, InTheAir, JustEntered, WaitingAtAirport, At, PosOf
    <3>1. CASE r \in planes
      BY <2>4, <3>1 DEF IndInv, Whereabouts
    <3>2. CASE r = q
      BY <2>1, <2>2, <2>4, <3>2 DEF IndInv, Whereabouts, InTheAir,
        JustEntered, WaitingAtAirport, At, SameFlight, IsAirborne
    <3>3. QED
      BY <2>3, <3>1, <3>2
  <2>8. Separation'
    BY <2>1, <2>2, <2>3, <2>4 DEF IndInv, Separation, Conflict, SameFlight,
      IsAirborne, TooClose
  <2>9. UniqueLabels'
    BY <2>1, <2>2, <2>3 DEF IndInv, UniqueLabels, SameFlight, Present
  <2>10. QED
    BY <2>5, <2>6, <2>7, <2>8, <2>9 DEF IndInv
<1>3. QED
  BY <1>1, <1>2

------------------------------------------------------------------------------
(* One tick of all planes *)

(* Planes are told apart by their number of appearance.                    *)
TellsApart(S) == \A p, q \in S : p.born = q.born => p = q

(* There are finitely many planes.                                         *)
LEMMA FinitelyManyPlanes ==
  ASSUME NEW S \in SUBSET Plane, TellsApart(S)
  PROVE  IsFiniteSet(S)
<1> DEFINE f == [p \in S |-> p.born]
<1>1. f \in [S -> 1 .. MaxSpawns]
  BY DEF Plane
<1>2. \A p, q \in S : f[p] = f[q] => p = q
  BY DEF TellsApart
<1>3. f \in Injection(S, 1 .. MaxSpawns)
  BY <1>1, <1>2, Fun_IsInj
<1>4. IsFiniteSet(1 .. MaxSpawns)
  BY PlayerAssumption, FS_Interval
<1>5. QED
  BY <1>3, <1>4, FS_Injection DEF ExistsInjection

(* While the game is on, the loop meets planes that are still there.       *)
LEMMA OnTheRadar ==
  ASSUME IndInv, status = "playing", NEW p \in planes
  PROVE  p \in Plane /\ p.status # "gone" /\ OnRadar(p)
<1>1. p \in Plane /\ p.status # "gone"
  BY DEF IndInv, TypeOK, WellFormed, Present
<1>2. OnRadar(p)
  BY AllOnRadar DEF IndInv
<1>3. QED
  BY <1>1, <1>2

(* What the loop leaves when it has treated some of the planes.            *)
LEMMA AfterLoop ==
  ASSUME IndInv, status = "playing", NEW done \in SUBSET planes
  PROVE  LET T == {AfterTick(p) : p \in done} \cup (planes \ done)
         IN  /\ T \subseteq Plane
             /\ \A p \in T : \E q \in planes :
                  /\ p.born = q.born /\ p.label = q.label
                  /\ p.delayedAtBeacon =>
                       q.delayedAtBeacon /\ p.delayedBeaconNo = q.delayedBeaconNo
             /\ TellsApart(T)
             /\ \A p \in T : p.born <= spawned
             /\ \A p, q \in Present(T) : p.label = q.label => p = q
             /\ \A p \in T :
                  p.delayedAtBeacon => p.delayedBeaconNo \in DOMAIN Beacons
<1> DEFINE T == {AfterTick(p) : p \in done} \cup (planes \ done)
<1>2. \A q \in planes :
        /\ q \in Plane
        /\ AfterTick(q) \in Plane
        /\ AfterTick(q).born = q.born /\ AfterTick(q).label = q.label
        /\ AfterTick(q).delayedAtBeacon =>
             q.delayedAtBeacon /\ AfterTick(q).delayedBeaconNo = q.delayedBeaconNo
  BY OnTheRadar, FateType
<1>3. T \subseteq Plane
  BY <1>2
<1>4. \A p \in T : \E q \in planes :
        /\ p.born = q.born /\ p.label = q.label
        /\ p.delayedAtBeacon =>
             q.delayedAtBeacon /\ p.delayedBeaconNo = q.delayedBeaconNo
  BY <1>2
<1>5. TellsApart(planes) /\ \A p \in planes : p.born <= spawned
  BY DEF IndInv, WellFormed, TellsApart
<1>6. TellsApart(T)
  BY <1>2, <1>5 DEF TellsApart
<1>7. planes = Present(planes)
  BY DEF IndInv, WellFormed
<1>8. \A p, q \in planes : p.label = q.label => p = q
  BY <1>7 DEF IndInv, UniqueLabels
<1>9. \A p, q \in T : p.label = q.label => p = q
  BY <1>2, <1>8
<1>10. \A p \in T : p.delayedAtBeacon => p.delayedBeaconNo \in DOMAIN Beacons
  BY <1>4 DEF IndInv, WellFormed
<1>11. \A p \in T : p.born <= spawned
  BY <1>4, <1>5
<1>12. QED
  BY <1>3, <1>4, <1>6, <1>9, <1>10, <1>11 DEF Present

(* The number of safe departures of a tick is a number.                    *)
LEMMA SafeCountType ==
  ASSUME IndInv, NEW done \in SUBSET planes
  PROVE  SafeCount(done) \in Nat
<1> DEFINE safe == {p \in done : Fate(p) = "safe"}
<1>1. safe \in SUBSET Plane /\ TellsApart(safe)
  BY DEF IndInv, TypeOK, WellFormed, TellsApart
<1>2. IsFiniteSet(safe)
  BY <1>1, FinitelyManyPlanes
<1>3. QED
  BY <1>2, FS_CardinalityType DEF SafeCount

(* A lost game: nothing is claimed of where the planes are.                *)
LEMMA LostTick ==
  ASSUME IndInv, status = "playing", NEW done \in SUBSET planes, NEW T,
         T = {AfterTick(p) : p \in done} \cup (planes \ done),
         planes' \subseteq T, safeExits' \in Nat,
         odd' \in BOOLEAN, status' = "lost", lossReason' \in Reasons,
         spawned' = spawned
  PROVE  IndInv'
<1>1. /\ T \subseteq Plane
      /\ TellsApart(T)
      /\ \A p \in T : p.born <= spawned
      /\ \A p, q \in Present(T) : p.label = q.label => p = q
      /\ \A p \in T : p.delayedAtBeacon => p.delayedBeaconNo \in DOMAIN Beacons
  BY AfterLoop, Zenon
<1>2. TypeOK'
  <2>1. planes' \subseteq Plane /\ spawned' \in 0 .. MaxSpawns
    BY <1>1 DEF IndInv, TypeOK
  <2>2. QED
    BY <2>1, Zenon DEF TypeOK
<1>3. WellFormed'
  BY <1>1 DEF WellFormed, TellsApart
<1>4. Whereabouts' /\ Separation'
  BY DEF Whereabouts, Separation
<1>5. UniqueLabels'
  BY <1>1 DEF UniqueLabels, Present
<1>6. QED
  BY <1>2, <1>3, <1>4, <1>5 DEF IndInv

(* A plane is lost.                                                        *)
LEMMA LosesStep ==
  ASSUME IndInv, Advance, AdvanceLoses
  PROVE  IndInv'
<1> DEFINE done == {p \in planes : p.born <= First(Losers).born}
           T == {AfterTick(p) : p \in done} \cup (planes \ done)
<1>1. status = "playing"
  BY DEF Advance
<1>2. First(Losers) \in Losers
  <2>1. Losers \in SUBSET Plane /\ Losers # {}
    BY DEF AdvanceLoses, Losers, IndInv, TypeOK
  <2>2. QED
    BY <2>1, FirstPlane
<1>3. lossReason' \in Reasons
  BY <1>1, <1>2, OnTheRadar, FateType DEF AdvanceLoses, Losers
<1>4. safeExits' \in Nat
  BY SafeCountType DEF AdvanceLoses, IndInv, TypeOK
<1>5. odd' \in BOOLEAN
  BY Zenon DEF Advance, IndInv, TypeOK
<1>6. planes' = T /\ status' = "lost" /\ spawned' = spawned
  BY DEF AdvanceLoses
<1>7. QED
  BY <1>1, <1>3, <1>4, <1>5, <1>6, LostTick, Zenon

(* Two planes collide.                                                     *)
LEMMA CollidesStep ==
  ASSUME IndInv, Advance, AdvanceCollides
  PROVE  IndInv'
<1> DEFINE T == {AfterTick(p) : p \in planes} \cup (planes \ planes)
<1>1. status = "playing"
  BY DEF Advance
<1>2. planes' \subseteq T
  BY DEF AdvanceCollides, Flying, Present
<1>3. safeExits' \in Nat
  BY SafeCountType DEF AdvanceCollides, IndInv, TypeOK
<1>4. odd' \in BOOLEAN
  BY Zenon DEF Advance, IndInv, TypeOK
<1>5. status' = "lost" /\ lossReason' \in Reasons /\ spawned' = spawned
  BY DEF AdvanceCollides, Reasons
<1>6. QED
  BY <1>1, <1>2, <1>3, <1>4, <1>5, LostTick, Zenon

------------------------------------------------------------------------------
(* A tick that ends well, and the entrance of a new plane *)

(* What a tick without a loss leaves on the radar.                         *)
LEMMA FlyingPlanes ==
  ASSUME IndInv, status = "playing", Losers = {}
  PROVE  /\ Flying \subseteq Plane
         /\ TellsApart(Flying)
         /\ \A p \in Flying : p.born <= spawned
         /\ Flying = Present(Flying)
         /\ \A p, q \in Flying : p.label = q.label => p = q
         /\ \A p \in Flying :
              /\ p.delayedAtBeacon => p.delayedBeaconNo \in DOMAIN Beacons
              /\ InTheAir(p) \/ JustEntered(p) \/ WaitingAtAirport(p)
<1> DEFINE T == {AfterTick(p) : p \in planes} \cup (planes \ planes)
<1>1. Flying \subseteq T /\ Flying = Present(Flying)
  BY DEF Flying, Present
<1>2. /\ T \subseteq Plane
      /\ TellsApart(T)
      /\ \A p \in T : p.born <= spawned
      /\ \A p, q \in Present(T) : p.label = q.label => p = q
      /\ \A p \in T : p.delayedAtBeacon => p.delayedBeaconNo \in DOMAIN Beacons
  BY AfterLoop, Zenon
<1>3. ASSUME NEW p \in Flying
      PROVE  InTheAir(p) \/ JustEntered(p) \/ WaitingAtAirport(p)
  <2>1. PICK q \in planes : p = AfterTick(q) /\ AfterTick(q).status # "gone"
    BY DEF Flying, Present
  <2>2. q \in Plane /\ q.status # "gone" /\ OnRadar(q)
    BY OnTheRadar
  <2>3. Fate(q) = "flying"
    BY <2>1, <2>2, FateType DEF Losers
  <2>4. CASE p = q
    BY <2>4 DEF IndInv, Whereabouts, InTheAir
  <2>5. CASE p.altitude > 0 /\ p.fuel >= 0 /\ ~OutsideFrame(p)
    <3>1. p \in Plane
      BY <1>1, <1>2, Zenon
    <3>2. QED
      BY <2>5, <3>1, PlaneNumbers, ScenarioAssumption, SMTT(30)
        DEF InTheAir, OutsideFrame
  <2>6. QED
    BY <2>1, <2>2, <2>3, <2>4, <2>5, FateType
<1>4. QED
  BY <1>1, <1>2, <1>3 DEF TellsApart, Present

(* A new plane is well-formed, waits at its origin, carries a free label,  *)
(* and is not near any plane in the air.                                   *)
LEMMA NewPlaneType ==
  ASSUME NEW S \in SUBSET Plane, FreeLabels(S) # {}, S = Present(S),
         spawned \in Nat, spawned < MaxSpawns,
         NEW type \in PlaneTypes, NEW dest \in Ends, NEW orig \in Ends,
         Clear(orig, S)
  PROVE  LET n == NewPlane(S, type, dest, orig)
         IN  /\ n \in Plane
             /\ n.born = spawned + 1 /\ n.status # "gone" /\ ~n.delayedAtBeacon
             /\ \A p \in S : p.label # n.label
             /\ JustEntered(n) \/ WaitingAtAirport(n)
             /\ \A p \in S :
                  IsAirborne(p) /\ IsAirborne(n) => ~TooClose(p, n) /\ ~TooClose(n, p)
<1> DEFINE n == NewPlane(S, type, dest, orig)
           at == PosOf(orig)
           alt == IF orig[1] = "airport" THEN 0 ELSE EntryAltitude
<1>1. n = [born |-> spawned + 1, label |-> NextLabel(S), type |-> type,
           x |-> at.x, y |-> at.y, altitude |-> alt, newAltitude |-> alt,
           dir |-> at.dir, newDir |-> at.dir, fuel |-> StartFuel,
           status |-> "unmarked", dest |-> dest, orig |-> orig,
           circling |-> FALSE, delayedAtBeacon |-> FALSE, delayedBeaconNo |-> 0]
  BY DEF NewPlane
<1>2. at.x \in 0 .. Width - 1 /\ at.y \in 0 .. Height - 1 /\ at.dir \in Dirs
  BY FixesAreInArena DEF Fixes
<1>3. NextLabel(S) \in FreeLabels(S)
  BY NextLabelIsFree
<1>4. alt \in Altitudes /\ StartFuel \in -1 .. StartFuel
  BY ScenarioAssumption DEF EntryAltitude, Altitudes, StartFuel
<1>5. spawned + 1 \in 1 .. MaxSpawns /\ at.x \in -1 .. Width /\ at.y \in -1 .. Height
      /\ 0 \in 0 .. Len(Beacons)
  BY <1>2, PlayerAssumption, ScenarioAssumption, LenProperties
<1>6. orig[1] = "exit" \/ orig[1] = "airport"
  BY DEF Ends
<1> HIDE DEF at, n
<1>7. n \in Plane
  BY <1>1, <1>2, <1>3, <1>4, <1>5 DEF Plane, FreeLabels, PlaneStatuses
<1>8. \A p \in S : p.label # n.label
  BY <1>1, <1>3 DEF FreeLabels, Present
<1>9. JustEntered(n) \/ WaitingAtAirport(n)
  BY <1>1, <1>6 DEF JustEntered, WaitingAtAirport, At, at
<1>10. ASSUME NEW p \in S, IsAirborne(p), IsAirborne(n)
       PROVE  ~TooClose(p, n) /\ ~TooClose(n, p)
  <2>1. orig[1] = "exit" /\ n.altitude = 7
    BY <1>1, <1>6, <1>10 DEF IsAirborne, EntryAltitude
  <2>2. \/ Abs(p.altitude - 7) > 4
        \/ Abs(p.x - at.x) > 4
        \/ Abs(p.y - at.y) > 4
    BY <1>10, <2>1 DEF Clear, Present, at, EntryAltitude
  <2>3. p.altitude \in Int /\ p.x \in Int /\ p.y \in Int /\ at.x \in Int /\ at.y \in Int
    BY <1>2, PlaneNumbers
  <2>4. n.x = at.x /\ n.y = at.y
    BY <1>1
  <2>5. QED
    BY <2>1, <2>2, <2>3, <2>4 DEF TooClose, Abs
<1>11. n.born = spawned + 1 /\ n.status = "unmarked" /\ n.delayedAtBeacon = FALSE
  BY <1>1
<1>12. n.status # "gone" /\ ~n.delayedAtBeacon
  BY <1>11
<1>13. QED
  BY <1>7, <1>8, <1>9, <1>10, <1>11, <1>12, Zenon DEF n

(* A tick that ends well.                                                  *)
LEMMA FliesStep ==
  ASSUME IndInv, Advance, AdvanceFlies
  PROVE  IndInv'
<1>1. /\ status = "playing" /\ Losers = {} /\ ~Conflict(Flying)
      /\ status' = status /\ lossReason' = lossReason
  BY DEF Advance, AdvanceFlies
<1>2. odd' \in BOOLEAN /\ safeExits' \in Nat
  <2>1. safeExits' \in Nat
    BY SafeCountType DEF AdvanceFlies, IndInv, TypeOK
  <2>2. odd' \in BOOLEAN
    BY Zenon DEF Advance, IndInv, TypeOK
  <2>3. QED
    BY <2>1, <2>2
<1>3. /\ Flying \subseteq Plane
      /\ TellsApart(Flying)
      /\ \A p \in Flying : p.born <= spawned
      /\ Flying = Present(Flying)
      /\ \A p, q \in Flying : p.label = q.label => p = q
      /\ \A p \in Flying :
           /\ p.delayedAtBeacon => p.delayedBeaconNo \in DOMAIN Beacons
           /\ InTheAir(p) \/ JustEntered(p) \/ WaitingAtAirport(p)
  BY <1>1, FlyingPlanes, Zenon
<1>4. spawned \in Nat /\ spawned \in 0 .. MaxSpawns
  BY PlayerAssumption DEF IndInv, TypeOK
<1> HIDE DEF Flying
<1>5. CASE SpawnNothing(Flying)
  <2>1. planes' = Flying /\ spawned' = spawned
    BY <1>5 DEF SpawnNothing
  <2>2. TypeOK'
    BY <1>1, <1>2, <1>3, <2>1, Zenon DEF IndInv, TypeOK
  <2>3. WellFormed'
    BY <1>3, <2>1 DEF WellFormed, TellsApart
  <2>4. Whereabouts'
    BY <1>3, <2>1
      DEF Whereabouts, InTheAir, JustEntered, WaitingAtAirport, At, PosOf
  <2>5. Separation' /\ UniqueLabels'
    BY <1>1, <1>3, <2>1 DEF Separation, UniqueLabels, Conflict, Present
  <2>6. QED
    BY <2>2, <2>3, <2>4, <2>5 DEF IndInv
<1>6. CASE SpawnPlane(Flying)
  <2>1. PICK type \in PlaneTypes, dest \in Ends, orig \in Ends :
          /\ Clear(orig, Flying)
          /\ planes' = Flying \cup {NewPlane(Flying, type, dest, orig)}
    BY <1>6 DEF SpawnPlane
  <2> DEFINE n == NewPlane(Flying, type, dest, orig)
  <2>2. FreeLabels(Flying) # {} /\ spawned < MaxSpawns /\ spawned' = spawned + 1
    BY <1>6 DEF SpawnPlane
  <2>3. /\ n \in Plane
        /\ n.born = spawned + 1 /\ n.status # "gone" /\ ~n.delayedAtBeacon
        /\ \A p \in Flying : p.label # n.label
        /\ JustEntered(n) \/ WaitingAtAirport(n)
        /\ \A p \in Flying :
             IsAirborne(p) /\ IsAirborne(n) => ~TooClose(p, n) /\ ~TooClose(n, p)
    BY <1>3, <1>4, <2>1, <2>2, NewPlaneType, Zenon
  <2>4. planes' = Flying \cup {n}
    BY <2>1
  <2> HIDE DEF n
  <2>5. TypeOK'
    <3>1. planes' \subseteq Plane
      BY <1>3, <2>3, <2>4
    <3>2. spawned' \in 0 .. MaxSpawns
      BY <1>4, <2>2, PlayerAssumption
    <3>3. QED
      BY <1>1, <1>2, <3>1, <3>2, Zenon DEF IndInv, TypeOK
  <2>6. WellFormed'
    <3>1. \A p \in Flying : p.born \in Int /\ p.born < n.born
      BY <1>3, <1>4, <2>3 DEF Plane
    <3>2. \A p \in planes' : p.born <= spawned'
      BY <1>3, <1>4, <2>2, <2>3, <2>4, <3>1
    <3>3. \A p, q \in planes' : p.born = q.born => p = q
      BY <1>3, <2>4, <3>1 DEF TellsApart
    <3>4. planes' = Present(planes')
      BY <1>3, <2>3, <2>4 DEF Present
    <3>5. \A p \in planes' : p.delayedAtBeacon => p.delayedBeaconNo \in DOMAIN Beacons
      BY <1>3, <2>3, <2>4, SMTT(30)
    <3>6. QED
      BY <3>2, <3>3, <3>4, <3>5 DEF WellFormed, Present
  <2>7. Whereabouts'
    BY <1>3, <2>3, <2>4, SMTT(60)
      DEF Whereabouts, InTheAir, JustEntered, WaitingAtAirport, At, PosOf
  <2>8. Separation'
    BY <1>1, <2>3, <2>4 DEF Separation, Conflict, IsAirborne, TooClose
  <2>9. UniqueLabels'
    BY <1>3, <2>3, <2>4 DEF UniqueLabels, Present
  <2>10. QED
    BY <2>5, <2>6, <2>7, <2>8, <2>9 DEF IndInv
<1>7. QED
  BY <1>5, <1>6 DEF AdvanceFlies

(* Every step keeps the invariant.                                         *)
LEMMA NextIndInv == IndInv /\ [Next]_vars => IndInv'
<1> SUFFICES ASSUME IndInv, [Next]_vars PROVE IndInv'
  OBVIOUS
<1>1. CASE Advance
  BY <1>1, LosesStep, CollidesStep, FliesStep DEF Advance
<1>2. ASSUME NEW c \in Commands, ApplyCommand(c) PROVE IndInv'
  BY <1>2, CommandStep, PlayerAssumption
<1>3. CASE UNCHANGED vars
  BY <1>3, StutterStep DEF vars, IndInv, TypeOK
<1>4. QED
  BY <1>1, <1>2, <1>3 DEF Next

------------------------------------------------------------------------------
(* The theorems *)

(* The invariant holds in every state of every game.                       *)
THEOREM InvariantHolds == Spec => []IndInv
BY InitIndInv, NextIndInv, PTL DEF Spec

(* Every field of every plane stays in its range, whatever is commanded.   *)
THEOREM TypeCorrect == Spec => []TypeOK
<1>1. IndInv => TypeOK
  BY DEF IndInv
<1>2. QED
  BY <1>1, InvariantHolds, PTL

(* As long as the game is on no two planes in the air are adjacent; a new  *)
(* plane never enters next to the traffic.                                 *)
THEOREM PlanesSeparated == Spec => []Separation
<1>1. IndInv => Separation
  BY DEF IndInv
<1>2. QED
  BY <1>1, InvariantHolds, PTL

(* Two planes that are present never carry the same label.                 *)
THEOREM LabelsUnique == Spec => []UniqueLabels
<1>1. IndInv => UniqueLabels
  BY DEF IndInv
<1>2. QED
  BY <1>1, InvariantHolds, PTL

(* While the game is on every plane is fuelled and inside the frame, or at *)
(* the place where it came in.                                             *)
THEOREM WhereaboutsKnown == Spec => []Whereabouts
<1>1. IndInv => Whereabouts
  BY DEF IndInv
<1>2. QED
  BY <1>1, InvariantHolds, PTL

------------------------------------------------------------------------------
(* No plane is lost sight of *)

(* What the loop has treated when it stops splits the planes into those    *)
(* that left safely and those that are still present, one for one.         *)
LEMMA LoopCounts ==
  ASSUME IndInv, status = "playing", NEW done \in SUBSET planes
  PROVE  LET T == {AfterTick(p) : p \in done} \cup (planes \ done)
         IN  /\ IsFiniteSet(planes) /\ IsFiniteSet(Present(T))
             /\ Cardinality(planes) = SafeCount(done) + Cardinality(Present(T))
<1> DEFINE T    == {AfterTick(p) : p \in done} \cup (planes \ done)
           safe == {p \in done : Fate(p) = "safe"}
           rest == planes \ safe
           f    == [p \in rest |-> IF p \in done THEN AfterTick(p) ELSE p]
<1>1. \A p \in planes :
        /\ p \in Plane /\ p.status # "gone"
        /\ AfterTick(p).born = p.born
        /\ AfterTick(p).status = "gone" <=> Fate(p) = "safe"
  BY OnTheRadar, FateType
<1>2. TellsApart(planes) /\ planes \in SUBSET Plane
  BY <1>1 DEF IndInv, WellFormed, TellsApart
<1>3. IsFiniteSet(planes)
  BY <1>2, FinitelyManyPlanes
<1>4. IsFiniteSet(safe) /\ IsFiniteSet(rest)
  BY <1>3, FS_Subset
<1>5. ExistsBijection(rest, Present(T))
  <2>1. \A p \in rest : f[p] \in Present(T) /\ f[p].born = p.born
    BY <1>1 DEF Present
  <2>2. f \in [rest -> Present(T)]
    BY <2>1
  <2>3. ASSUME NEW p \in rest, NEW q \in rest, f[p] = f[q] PROVE p = q
    <3>1. p \in planes /\ q \in planes
      OBVIOUS
    <3> HIDE DEF f, rest
    <3>2. p.born = q.born
      BY <2>1, <2>3
    <3>3. QED
      BY <1>2, <3>1, <3>2 DEF TellsApart
  <2>4. \A t \in Present(T) : \E p \in rest : f[p] = t
    BY <1>1 DEF Present
  <2> HIDE DEF f, rest, T
  <2>5. f \in Bijection(rest, Present(T))
    BY <2>2, <2>3, <2>4, Fun_IsBij
  <2>6. QED
    BY <2>5 DEF ExistsBijection
<1>6. IsFiniteSet(Present(T)) /\ Cardinality(Present(T)) = Cardinality(rest)
  BY <1>4, <1>5, FS_Bijection
<1>7. Cardinality(planes) = Cardinality(safe) + Cardinality(rest)
  <2>1. planes = safe \cup rest /\ safe \cap rest = {}
    OBVIOUS
  <2> HIDE DEF safe, rest
  <2>2. Cardinality(safe \cap rest) = 0
    BY <2>1, FS_EmptySet
  <2>3. Cardinality(safe) \in Nat /\ Cardinality(rest) \in Nat
    BY <1>4, FS_CardinalityType
  <2>4. Cardinality(safe \cup rest) =
          Cardinality(safe) + Cardinality(rest) - Cardinality(safe \cap rest)
    BY <1>4, FS_Union
  <2>5. QED
    BY <2>1, <2>2, <2>3, <2>4
<1>8. SafeCount(done) = Cardinality(safe)
  BY DEF SafeCount
<1>9. QED
  BY <1>3, <1>6, <1>7, <1>8

(* A command replaces a present plane by itself under new orders.          *)
LEMMA CommandConserves ==
  ASSUME IndInv, Conservation, NEW c \in Command, ApplyCommand(c)
  PROVE  Conservation'
<1> DEFINE named == {p \in Present(planes) : p.label = c.label}
<1>1. safeExits' = safeExits /\ spawned' = spawned
  BY DEF ApplyCommand
<1>2. CASE named = {}
  <2>1. planes' = planes
    BY <1>2, Zenon DEF ApplyCommand, PlanesAfter
  <2>2. QED
    BY <1>1, <2>1 DEF Conservation, Present
<1>3. CASE named # {}
  <2> DEFINE p == First(named)
             q == Commanded(p, c)
  <2>1. p \in planes /\ p.status # "gone" /\ p \in Plane
    <3>1. named \in SUBSET Plane
      BY DEF IndInv, TypeOK, Present
    <3>2. p \in named
      BY <1>3, <3>1, FirstPlane
    <3>3. QED
      BY <3>1, <3>2 DEF Present
  <2>2. q \in Plane /\ SameFlight(p, q)
    BY <2>1, CommandedType
  <2>3. planes' = (planes \ {p}) \cup {q}
    BY <1>3, Zenon DEF ApplyCommand, PlanesAfter
  <2> HIDE DEF named, p, q
  <2> DEFINE others == Present(planes) \ {p}
  <2>4. Present(planes)' = others \cup {q}
    BY <2>1, <2>2, <2>3 DEF Present, SameFlight
  <2>5. p \in Present(planes)
    BY <2>1 DEF Present
  <2>6. q \notin others
    BY <2>1, <2>2 DEF IndInv, WellFormed, SameFlight, Present
  <2>7. IsFiniteSet(Present(planes))
    <3>1. Present(planes) \in SUBSET Plane /\ TellsApart(Present(planes))
      BY DEF IndInv, TypeOK, WellFormed, Present, TellsApart
    <3>2. QED
      BY <3>1, FinitelyManyPlanes
  <2>8. Cardinality(Present(planes)) \in Nat
    BY <2>7, FS_CardinalityType
  <2>9. IsFiniteSet(others) /\ Cardinality(others) = Cardinality(Present(planes)) - 1
    BY <2>5, <2>7, FS_RemoveElement
  <2> HIDE DEF others
  <2>10. Cardinality(others \cup {q}) = Cardinality(others) + 1
    BY <2>6, <2>9, FS_AddElement
  <2>11. Cardinality(Present(planes)') = Cardinality(Present(planes))
    BY <2>4, <2>8, <2>9, <2>10
  <2>12. QED
    BY <1>1, <2>11 DEF Conservation
<1>4. QED
  BY <1>2, <1>3

(* A tick counts every plane it takes off the radar and every plane it     *)
(* lets in.                                                                *)
LEMMA AdvanceConserves ==
  ASSUME IndInv, Conservation, Advance
  PROVE  Conservation'
<1>1. status = "playing" /\ planes = Present(planes)
  BY DEF Advance, IndInv, WellFormed
<1>2. spawned = safeExits + Cardinality(planes)
  BY <1>1 DEF Conservation
<1>3. spawned \in Nat /\ safeExits \in Nat
  BY PlayerAssumption DEF IndInv, TypeOK
<1>4. ASSUME NEW done \in SUBSET planes, spawned' = spawned,
             safeExits' = safeExits + SafeCount(done),
             Present(planes)' =
               Present({AfterTick(p) : p \in done} \cup (planes \ done))
      PROVE  Conservation'
  <2> DEFINE T == {AfterTick(p) : p \in done} \cup (planes \ done)
  <2>1. /\ IsFiniteSet(Present(T))
        /\ Cardinality(planes) = SafeCount(done) + Cardinality(Present(T))
    BY <1>1, LoopCounts
  <2>2. SafeCount(done) \in Nat /\ Cardinality(Present(T)) \in Nat
    BY <2>1, SafeCountType, FS_CardinalityType
  <2>3. Cardinality(Present(planes)') = Cardinality(Present(T))
    BY <1>4
  <2> HIDE DEF T
  <2>4. QED
    BY <1>2, <1>3, <1>4, <2>1, <2>2, <2>3 DEF Conservation
<1>5. CASE AdvanceLoses
  <2> DEFINE done == {p \in planes : p.born <= First(Losers).born}
  <2>1. /\ planes' = {AfterTick(p) : p \in done} \cup (planes \ done)
        /\ safeExits' = safeExits + SafeCount(done) /\ spawned' = spawned
    BY <1>5 DEF AdvanceLoses
  <2>2. done \in SUBSET planes
    OBVIOUS
  <2> HIDE DEF done
  <2>3. QED
    BY <1>4, <2>1, <2>2 DEF Present
<1> DEFINE All == {AfterTick(p) : p \in planes} \cup (planes \ planes)
<1>6. Flying = Present(All) /\ Present(Flying) = Flying
  BY DEF Flying, Present
<1>7. CASE AdvanceCollides
  <2>1. planes' = Flying /\ spawned' = spawned /\ safeExits' = safeExits + SafeCount(planes)
    BY <1>7 DEF AdvanceCollides
  <2>2. Present(planes)' = Present(All)
    BY <1>6, <2>1 DEF Present
  <2>3. QED
    BY <1>4, <2>1, <2>2
<1>8. CASE AdvanceFlies /\ SpawnNothing(Flying)
  <2>1. planes' = Flying /\ spawned' = spawned /\ safeExits' = safeExits + SafeCount(planes)
    BY <1>8 DEF AdvanceFlies, SpawnNothing
  <2>2. Present(planes)' = Present(All)
    BY <1>6, <2>1 DEF Present
  <2>3. QED
    BY <1>4, <2>1, <2>2
<1>9. CASE AdvanceFlies /\ SpawnPlane(Flying)
  <2>1. PICK type \in PlaneTypes, dest \in Ends, orig \in Ends :
          planes' = Flying \cup {NewPlane(Flying, type, dest, orig)}
    BY <1>9 DEF SpawnPlane
  <2> DEFINE n == NewPlane(Flying, type, dest, orig)
  <2>2. spawned' = spawned + 1 /\ safeExits' = safeExits + SafeCount(planes)
    BY <1>9 DEF AdvanceFlies, SpawnPlane
  <2>3. n.born = spawned + 1 /\ n.status = "unmarked"
    BY DEF NewPlane
  <2>4. Flying \subseteq Plane /\ \A p \in Flying : p.born <= spawned
    BY <1>1, <1>9, FlyingPlanes DEF AdvanceFlies
  <2> HIDE DEF n
  <2>5. n \notin Flying
    BY <1>3, <2>3, <2>4
  <2>6. Present(planes)' = Flying \cup {n}
    BY <1>6, <2>1, <2>3 DEF Present, n
  <2>7. /\ IsFiniteSet(Flying)
        /\ Cardinality(planes) = SafeCount(planes) + Cardinality(Flying)
    BY <1>1, <1>6, LoopCounts
  <2>8. SafeCount(planes) \in Nat /\ Cardinality(Flying) \in Nat
    BY <2>7, SafeCountType, FS_CardinalityType
  <2>9. Cardinality(Present(planes)') = Cardinality(Flying) + 1
    BY <2>5, <2>6, <2>7, FS_AddElement
  <2>10. QED
    BY <1>2, <1>3, <2>2, <2>7, <2>8, <2>9 DEF Conservation
<1>10. QED
  BY <1>5, <1>7, <1>8, <1>9 DEF Advance, AdvanceFlies

(* Every plane that ever appeared is still present or was counted, once,   *)
(* among the safe departures, also when advance() returns in mid-loop.     *)
THEOREM PlanesConserved == Spec => []Conservation
<1>1. Init => Conservation
  BY FS_EmptySet DEF Init, Conservation, Present
<1>2. IndInv /\ Conservation /\ [Next]_vars => Conservation'
  <2> SUFFICES ASSUME IndInv, Conservation, [Next]_vars PROVE Conservation'
    OBVIOUS
  <2>1. CASE Advance
    BY <2>1, AdvanceConserves
  <2>2. ASSUME NEW c \in Commands, ApplyCommand(c) PROVE Conservation'
    BY <2>2, CommandConserves, PlayerAssumption
  <2>3. CASE UNCHANGED vars
    BY <2>3 DEF vars, Conservation, Present
  <2>4. QED
    BY <2>1, <2>2, <2>3 DEF Next
<1>3. QED
  BY <1>1, <1>2, InvariantHolds, PTL DEF Spec

------------------------------------------------------------------------------
(* What a step may do to one plane *)

(* The bounds of FlightEnvelope for a plane before and after a step. *)
Within(p, q) ==
  /\ Abs(q.x - p.x) <= 1 /\ Abs(q.y - p.y) <= 1
  /\ Abs(q.altitude - p.altitude) <= 1
  /\ Arc(q.dir, p.dir) <= 2
  /\ p.circling \/ Arc(q.dir, p.newDir) <= Arc(p.dir, p.newDir)
  /\ q.fuel = p.fuel => At(q, p) /\ q.altitude = p.altitude /\ q.dir = p.dir

------------------------------------------------------------------------------
(* Headings *)

(* A turn by two octants or fewer is an arc of two octants or fewer.       *)
LEMMA TurnArc ==
  ASSUME NEW d \in 0 .. 7, NEW t \in -2 .. 2
  PROVE  Arc((d + t + 8) % 8, d) <= 2
<1>1. t = -2 \/ t = -1 \/ t = 0 \/ t = 1 \/ t = 2
  OBVIOUS
<1> QED
  BY <1>1 DEF Arc

(* Turning the shortest way brings a plane no further from its heading.    *)
LEMMA TurnNearer ==
  ASSUME NEW d \in 0 .. 7, NEW e \in 0 .. 7
  PROVE  LET arc == (e - d) % 8
             shortest == IF arc > 4 THEN arc - 8 ELSE arc
             t == IF Abs(shortest) > 2 THEN 2 * Sign(shortest) ELSE shortest
         IN  Arc((d + t + 8) % 8, e) <= Arc(d, e)
<1>1. CASE e >= d
  BY <1>1 DEF Arc, Abs, Sign
<1>2. CASE e < d
  BY <1>2 DEF Arc, Abs, Sign
<1> QED
  BY <1>1, <1>2
------------------------------------------------------------------------------
(* One plane *)

(* A plane that stays where it is, as it does under any command.           *)
LEMMA StayingWithin ==
  ASSUME NEW p \in Plane, NEW q, q.x = p.x, q.y = p.y, q.altitude = p.altitude, q.dir = p.dir
  PROVE  Within(p, q)
<1>1. /\ p.x \in Int /\ p.y \in Int /\ p.altitude \in Int /\ p.dir \in 0 .. 7
      /\ p.newDir \in 0 .. 7
  BY PlaneNumbers
<1>2. Abs(q.x - p.x) <= 1 /\ Abs(q.y - p.y) <= 1 /\ Abs(q.altitude - p.altitude) <= 1
  BY <1>1 DEF Abs
<1>3. Arc(q.dir, p.dir) <= 2
  BY <1>1 DEF Arc
<1>4. Arc(p.dir, p.newDir) \in Int
  <2>1. (p.dir - p.newDir) % 8 \in Int
    BY <1>1
  <2> QED
    BY <2>1 DEF Arc
<1>5. Arc(q.dir, p.newDir) <= Arc(p.dir, p.newDir)
  BY <1>4
<1> QED
  BY <1>2, <1>3, <1>5 DEF Within, At

(* Fuel, height, heading and cell of a plane after its move.               *)
LEMMA MovedParts ==
  ASSUME NEW p \in Plane
  PROVE  LET dir == (p.dir + Turn(p) + 8) % 8
         IN  /\ Moved(p).fuel = p.fuel - 1 /\ Moved(p).dir = dir
             /\ Moved(p).altitude = p.altitude + Sign(p.newAltitude - p.altitude)
             /\ Moved(p).x = p.x + DirDx(dir) /\ Moved(p).y = p.y + DirDy(dir)
  BY DEF Moved, Plane

(* Reaching a beacon changes none of these.                                *)
LEMMA FlownParts ==
  ASSUME NEW p \in Plane, OnRadar(p)
  PROVE  /\ Flown(p).fuel = Moved(p).fuel /\ Flown(p).dir = Moved(p).dir
         /\ Flown(p).altitude = Moved(p).altitude
         /\ Flown(p).x = Moved(p).x /\ Flown(p).y = Moved(p).y
<1>1. Moved(p) \in Plane
  BY MovedType
<1>2. CASE ~ReachedBeacon(Moved(p))
  BY <1>2 DEF Flown
<1>3. CASE ReachedBeacon(Moved(p))
  <2> DEFINE m == Moved(p)
  <2>1. Flown(p) = [m EXCEPT !.delayedAtBeacon = FALSE,
                             !.status = IF m.status = "unmarked" THEN "marked" ELSE m.status]
    BY <1>1, <1>3 DEF Flown, Plane
  <2>2. m \in Plane
    BY <1>1
  <2> HIDE DEF m
  <2>3. /\ Flown(p).fuel = m.fuel /\ Flown(p).dir = m.dir /\ Flown(p).altitude = m.altitude
        /\ Flown(p).x = m.x /\ Flown(p).y = m.y
    BY <2>1, <2>2 DEF Plane
  <2> QED
    BY <2>3 DEF m
<1> QED
  BY <1>2, <1>3

(* A plane that flies keeps within the bounds.                             *)
LEMMA FlownWithin ==
  ASSUME NEW p \in Plane, OnRadar(p)
  PROVE  Within(p, Flown(p))
<1> DEFINE dir == (p.dir + Turn(p) + 8) % 8
           arc == (p.newDir - p.dir) % 8
           shortest == IF arc > 4 THEN arc - 8 ELSE arc
           final == IF Abs(shortest) > 2 THEN 2 * Sign(shortest) ELSE shortest
<1>1. /\ p.x \in Int /\ p.y \in Int /\ p.altitude \in Int /\ p.newAltitude \in Int
      /\ p.dir \in 0 .. 7 /\ p.newDir \in 0 .. 7 /\ p.fuel \in Int
  <2>1. p.fuel \in -1 .. StartFuel
    BY PlaneNumbers
  <2> QED
    BY <2>1, PlaneNumbers
<1>2. /\ Flown(p).fuel = p.fuel - 1 /\ Flown(p).dir = dir
      /\ Flown(p).altitude = p.altitude + Sign(p.newAltitude - p.altitude)
      /\ Flown(p).x = p.x + DirDx(dir) /\ Flown(p).y = p.y + DirDy(dir)
  BY MovedParts, FlownParts
<1>3. Arc(dir, p.dir) <= 2
  BY <1>1, TurnType, TurnArc
<1>4. p.circling \/ Arc(dir, p.newDir) <= Arc(p.dir, p.newDir)
  <2>1. CASE p.delayedAtBeacon
    <3>1. Turn(p) = 0
      BY <2>1 DEF Turn
    <3>2. dir = p.dir
      BY <1>1, <3>1
    <3>3. (p.dir - p.newDir) % 8 \in Int
      BY <1>1
    <3>4. Arc(p.dir, p.newDir) \in Int
      BY <3>3 DEF Arc
    <3> QED
      BY <3>2, <3>4
  <2>2. CASE ~p.delayedAtBeacon /\ ~p.circling
    <3>1. Turn(p) = final
      BY <2>2, Zenon DEF Turn
    <3> QED
      BY <1>1, <3>1, TurnNearer
  <2> QED
    BY <2>1, <2>2
<1>5. DirDx(dir) \in -1 .. 1 /\ DirDy(dir) \in -1 .. 1
  BY StepLength
<1> HIDE DEF dir
<1>6. Abs(Flown(p).x - p.x) <= 1 /\ Abs(Flown(p).y - p.y) <= 1
  BY <1>1, <1>2, <1>5 DEF Abs
<1>7. Abs(Flown(p).altitude - p.altitude) <= 1
  BY <1>1, <1>2 DEF Abs, Sign
<1>8. Flown(p).fuel # p.fuel
  BY <1>1, <1>2
<1> QED
  BY <1>2, <1>3, <1>4, <1>6, <1>7, <1>8 DEF Within

(* A tick keeps a plane within the bounds, whatever becomes of it.         *)
LEMMA TickWithin ==
  ASSUME NEW p \in Plane, p.status # "gone", OnRadar(p)
  PROVE  Within(p, AfterTick(p)) /\ AfterTick(p).born = p.born
<1>1. AfterTick(p).born = p.born
  BY FateType
<1>2. CASE ~MovesNow(p)
  <2>1. AfterTick(p) = p
    BY <1>2, Zenon DEF AfterTick
  <2> QED
    BY <1>1, <2>1, StayingWithin
<1>3. CASE MovesNow(p) /\ p.fuel - 1 < 0
  <2>1. AfterTick(p) = [p EXCEPT !.fuel = p.fuel - 1]
    BY <1>3, Zenon DEF AfterTick
  <2>2. /\ AfterTick(p).x = p.x /\ AfterTick(p).y = p.y
        /\ AfterTick(p).altitude = p.altitude /\ AfterTick(p).dir = p.dir
    BY <2>1, Zenon DEF Plane
  <2> QED
    BY <1>1, <2>2, StayingWithin
<1>4. CASE MovesNow(p) /\ ~(p.fuel - 1 < 0)
  <2>1. Within(p, Flown(p))
    BY FlownWithin
  <2>2. Flown(p) \in Plane
    BY FlownType
  <2>3. CASE Fate(p) = "safe"
    <3> DEFINE f == Flown(p)
    <3>1. AfterTick(p) = [f EXCEPT !.status = "gone"]
      BY <1>4, <2>3, Zenon DEF AfterTick
    <3>2. f \in Plane
      BY <2>2
    <3> HIDE DEF f
    <3>3. /\ AfterTick(p).x = f.x /\ AfterTick(p).y = f.y /\ AfterTick(p).fuel = f.fuel
          /\ AfterTick(p).altitude = f.altitude /\ AfterTick(p).dir = f.dir
      BY <3>1, <3>2, Zenon DEF Plane
    <3> QED
      BY <1>1, <2>1, <3>3 DEF Within, At, f
  <2>4. CASE Fate(p) # "safe"
    <3>1. AfterTick(p) = Flown(p)
      BY <1>4, <2>4, Zenon DEF AfterTick
    <3> QED
      BY <1>1, <2>1, <3>1
  <2> QED
    BY <2>3, <2>4
<1> QED
  BY <1>2, <1>3, <1>4

(* A plane that leaves is next to its destination, at its height and, over *)
(* a runway, turned to it.                                                 *)
LEMMA SafeIsHome ==
  ASSUME NEW p \in Plane, p.status # "gone", OnRadar(p), Fate(p) = "safe"
  PROVE  LET home == PosOf(p.dest)
         IN  /\ Abs(p.x - home.x) <= 1 /\ Abs(p.y - home.y) <= 1
             /\ p.dest[1] = "exit" => p.altitude >= 8
             /\ p.dest[1] = "airport" => p.altitude <= 1 /\ Arc(p.dir, home.dir) <= 2
<1> DEFINE f == Flown(p)
           home == PosOf(p.dest)
<1>1. MovesNow(p) /\ Verdict(f) = "safe"
  BY DEF Fate
<1>2. \/ Landed(f) /\ f.dir = PosOf(f.dest).dir
      \/ Exited(f) /\ f.altitude = 9
  BY <1>1 DEF Verdict
<1>3. f.dest = p.dest /\ f \in Plane
  BY FlownType
<1>4. At(f, home)
  BY <1>2, <1>3 DEF Landed, Exited
<1>5. Within(p, f)
  BY FlownWithin
<1>6. /\ p.x \in Int /\ p.y \in Int /\ p.altitude \in Int /\ p.dir \in 0 .. 7
      /\ f.x \in Int /\ f.y \in Int /\ f.altitude \in Int /\ f.dir \in 0 .. 7
  BY <1>3, PlaneNumbers
<1>7. \/ f.dest[1] = "airport" /\ f.altitude = 0 /\ f.dir = home.dir
      \/ f.dest[1] = "exit" /\ f.altitude = 9
  BY <1>2, <1>3 DEF Landed, Exited
<1> HIDE DEF f, home
<1>8. Abs(p.x - home.x) <= 1 /\ Abs(p.y - home.y) <= 1
  BY <1>4, <1>5, <1>6 DEF Within, At, Abs
<1>9. p.dest[1] = "exit" => p.altitude >= 8
  BY <1>3, <1>5, <1>6, <1>7 DEF Within, Abs
<1>10. ASSUME p.dest[1] = "airport" PROVE p.altitude <= 1 /\ Arc(p.dir, home.dir) <= 2
  <2>1. f.altitude = 0 /\ f.dir = home.dir
    BY <1>3, <1>7, <1>10
  <2>2. p.altitude <= 1
    BY <1>5, <1>6, <2>1 DEF Within, Abs
  <2>3. Arc(p.dir, f.dir) <= 2
    BY <1>5, <1>6 DEF Within, Arc
  <2> QED
    BY <2>1, <2>2, <2>3
<1> QED
  BY <1>8, <1>9, <1>10 DEF home

------------------------------------------------------------------------------
(* All planes *)

(* What a step makes of the planes.  A command keeps each of them at its   *)
(* place; the loop of advance() treats some of them (done), all when it    *)
(* comes to its end, and a plane may appear behind it.                     *)
Ordered ==
  /\ \A q \in planes' : \E p \in planes :
       /\ q.born = p.born /\ q.x = p.x /\ q.y = p.y
       /\ q.altitude = p.altitude /\ q.dir = p.dir
  /\ \A p \in Present(planes) : \E q \in Present(planes') : q.born = p.born

Ticked(done) ==
  /\ done \subseteq planes
  /\ \A q \in planes' :
       \/ \E p \in done : q = AfterTick(p)
       \/ q \in planes
       \/ q.born = spawned + 1
  /\ Present({AfterTick(p) : p \in done} \cup (planes \ done)) \subseteq planes'
  /\ safeExits' = safeExits + SafeCount(done)

LEMMA CommandOrders ==
  ASSUME IndInv, NEW c \in Commands, ApplyCommand(c)
  PROVE  Ordered
<1> DEFINE named == {p \in Present(planes) : p.label = c.label}
<1>1. CASE named = {}
  <2>1. planes' = planes
    BY <1>1, Zenon DEF ApplyCommand, PlanesAfter
  <2> QED
    BY <2>1 DEF Ordered
<1>2. CASE named # {}
  <2> DEFINE p == First(named)
             q == Commanded(p, c)
  <2>1. p \in planes /\ p.status # "gone" /\ p \in Plane
    <3>1. named \in SUBSET Plane
      BY DEF IndInv, TypeOK, Present
    <3>2. p \in named
      BY <1>2, <3>1, FirstPlane
    <3> QED
      BY <3>1, <3>2 DEF Present
  <2>2. SameFlight(p, q)
    BY <2>1, CommandedType, PlayerAssumption
  <2>3. planes' = (planes \ {p}) \cup {q}
    BY <1>2, Zenon DEF ApplyCommand, PlanesAfter
  <2> HIDE DEF named, p, q
  <2>4. /\ q.born = p.born /\ q.x = p.x /\ q.y = p.y /\ q.altitude = p.altitude
        /\ q.dir = p.dir /\ q.status # "gone"
    BY <2>1, <2>2 DEF SameFlight
  <2> QED
    BY <2>1, <2>3, <2>4 DEF Ordered, Present
<1> QED
  BY <1>1, <1>2

LEMMA AdvanceTicks ==
  ASSUME IndInv, Advance
  PROVE  \E done : Ticked(done)
<1>1. CASE AdvanceLoses
  <2> DEFINE done == {p \in planes : p.born <= First(Losers).born}
  <2>1. /\ planes' = {AfterTick(p) : p \in done} \cup (planes \ done)
        /\ safeExits' = safeExits + SafeCount(done)
    BY <1>1 DEF AdvanceLoses
  <2>2. done \subseteq planes
    OBVIOUS
  <2> HIDE DEF done
  <2>3. Present({AfterTick(p) : p \in done} \cup (planes \ done)) \subseteq planes'
    BY <2>1 DEF Present
  <2>4. \A q \in planes' : (\E p \in done : q = AfterTick(p)) \/ q \in planes
    BY <2>1
  <2>5. Ticked(done)
    BY <2>1, <2>2, <2>3, <2>4, Zenon DEF Ticked
  <2> QED
    BY <2>5
<1>2. CASE AdvanceCollides \/ AdvanceFlies
  <2>1. safeExits' = safeExits + SafeCount(planes)
    BY <1>2 DEF AdvanceCollides, AdvanceFlies
  <2>2. Flying \subseteq planes' /\ \A q \in planes' : q \in Flying \/ q.born = spawned + 1
    BY <1>2 DEF AdvanceCollides, AdvanceFlies, SpawnNothing, SpawnPlane, NewPlane
  <2>3. Flying = Present({AfterTick(p) : p \in planes} \cup (planes \ planes))
    BY DEF Flying, Present
  <2>4. \A q \in Flying : \E p \in planes : q = AfterTick(p)
    BY DEF Flying, Present
  <2> HIDE DEF Flying
  <2>5. Present({AfterTick(p) : p \in planes} \cup (planes \ planes)) \subseteq planes'
    BY <2>2, <2>3
  <2>6. \A q \in planes' : (\E p \in planes : q = AfterTick(p)) \/ q.born = spawned + 1
    BY <2>2, <2>4
  <2>7. Ticked(planes)
    BY <2>1, <2>5, <2>6, Zenon DEF Ticked
  <2> QED
    BY <2>7
<1> QED
  BY <1>1, <1>2 DEF Advance

(* A plane after a step is within the bounds of the plane with its number. *)
LEMMA StepWithin ==
  ASSUME IndInv, [Next]_vars
  PROVE  \A p \in planes, q \in planes' : p.born = q.born => Within(p, q)
<1> SUFFICES ASSUME NEW p \in planes, NEW q \in planes', p.born = q.born
             PROVE  Within(p, q)
  OBVIOUS
<1>1. /\ p \in Plane /\ p.born <= spawned /\ spawned \in Int
      /\ \A r \in planes : r.born = p.born => r = p
  BY DEF IndInv, TypeOK, WellFormed
<1>2. CASE UNCHANGED vars
  <2>1. q = p
    BY <1>1, <1>2 DEF vars
  <2> QED
    BY <1>1, <2>1, StayingWithin
<1>3. ASSUME NEW c \in Commands, ApplyCommand(c) PROVE Within(p, q)
  <2>1. PICK r \in planes :
          /\ q.born = r.born /\ q.x = r.x /\ q.y = r.y
          /\ q.altitude = r.altitude /\ q.dir = r.dir
    BY <1>3, CommandOrders DEF Ordered
  <2> QED
    BY <1>1, <2>1, StayingWithin
<1>4. CASE Advance
  <2>1. status = "playing"
    BY <1>4 DEF Advance
  <2>2. PICK done : Ticked(done)
    BY <1>4, AdvanceTicks
  <2>3. q.born # spawned + 1
    BY <1>1
  <2>4. CASE q \in planes
    BY <1>1, <2>4, StayingWithin
  <2>5. ASSUME NEW r \in done, q = AfterTick(r) PROVE Within(p, q)
    <3>1. r \in planes
      BY <2>2 DEF Ticked
    <3>2. r \in Plane /\ r.status # "gone" /\ OnRadar(r)
      BY <2>1, <3>1, OnTheRadar
    <3>3. Within(r, q) /\ q.born = r.born
      BY <2>5, <3>2, TickWithin
    <3> QED
      BY <1>1, <3>1, <3>3
  <2> QED
    BY <2>2, <2>3, <2>4, <2>5 DEF Ticked
<1> QED
  BY <1>2, <1>3, <1>4 DEF Next

(* One tick moves a plane by at most a cell and 1000 feet and turns it by  *)
(* at most 90 degrees, towards its heading unless it circles; a plane that *)
(* burns no fuel stays (atc_game.dart:283-318): whatever is commanded.     *)
THEOREM FlightIsSmooth == Spec => FlightEnvelope
<1>1. IndInv /\ [Next]_vars =>
        [\A p \in planes, q \in planes' :
           p.born = q.born =>
             /\ Abs(q.x - p.x) <= 1 /\ Abs(q.y - p.y) <= 1
             /\ Abs(q.altitude - p.altitude) <= 1
             /\ Arc(q.dir, p.dir) <= 2
             /\ p.circling \/ Arc(q.dir, p.newDir) <= Arc(p.dir, p.newDir)
             /\ q.fuel = p.fuel =>
                  At(q, p) /\ q.altitude = p.altitude /\ q.dir = p.dir]_vars
  BY StepWithin, Zenon DEF Within
<1> QED
  BY <1>1, InvariantHolds, PTL DEF Spec, FlightEnvelope

(* The number of planes that left counts each that leaves.                 *)
LEMMA LeavingCounts ==
  ASSUME IndInv, NEW done \in SUBSET planes, NEW p \in done, Fate(p) = "safe"
  PROVE  SafeCount(done) > 0 /\ SafeCount(done) \in Nat
<1> DEFINE safe == {q \in done : Fate(q) = "safe"}
<1>1. safe \in SUBSET Plane /\ TellsApart(safe)
  BY DEF IndInv, TypeOK, WellFormed, TellsApart
<1>2. IsFiniteSet(safe)
  BY <1>1, FinitelyManyPlanes
<1>3. Cardinality(safe) \in Nat /\ (Cardinality(safe) = 0 <=> safe = {})
  BY <1>2, FS_CardinalityType, FS_EmptySet
<1> QED
  BY <1>3 DEF SafeCount

(* A plane that is there before a step and not after it. *)
LEMMA StepDeparts ==
  ASSUME IndInv, [Next]_vars, NEW p \in Present(planes),
         \A q \in Present(planes') : q.born # p.born
  PROVE  LET home == PosOf(p.dest)
         IN  /\ safeExits' > safeExits
             /\ Abs(p.x - home.x) <= 1 /\ Abs(p.y - home.y) <= 1
             /\ p.dest[1] = "exit" => p.altitude >= 8
             /\ p.dest[1] = "airport" => p.altitude <= 1 /\ Arc(p.dir, home.dir) <= 2
<1>1. ~UNCHANGED vars
  BY DEF vars
<1>2. \A c \in Commands : ~ApplyCommand(c)
  BY CommandOrders DEF Ordered
<1>3. Advance
  BY <1>1, <1>2 DEF Next
<1>4. status = "playing" /\ p \in planes
  BY <1>3 DEF Advance, Present
<1>5. PICK done : Ticked(done)
  BY <1>3, AdvanceTicks
<1>6. p \in Plane /\ p.status # "gone" /\ OnRadar(p)
  BY <1>4, OnTheRadar
<1>7. p \in done
  <2>1. CASE p \notin done
    <3>1. p \in Present({AfterTick(q) : q \in done} \cup (planes \ done))
      BY <1>4, <1>6, <2>1 DEF Present
    <3> QED
      BY <1>5, <1>6, <3>1 DEF Ticked, Present
  <2> QED
    BY <2>1
<1>8. Fate(p) = "safe"
  <2>1. CASE AfterTick(p).status # "gone"
    <3>1. AfterTick(p) \in Present({AfterTick(q) : q \in done} \cup (planes \ done))
      BY <1>7, <2>1 DEF Present
    <3>2. AfterTick(p) \in Present(planes')
      BY <1>5, <2>1, <3>1 DEF Ticked, Present
    <3> QED
      BY <1>6, <3>2, FateType
  <2> QED
    BY <1>6, <2>1, FateType
<1>9. safeExits' > safeExits
  <2>1. done \in SUBSET planes /\ safeExits' = safeExits + SafeCount(done) /\ safeExits \in Nat
    BY <1>5 DEF Ticked, IndInv, TypeOK
  <2>2. SafeCount(done) > 0 /\ SafeCount(done) \in Nat
    BY <1>7, <1>8, <2>1, LeavingCounts
  <2> QED
    BY <2>1, <2>2
<1> QED
  BY <1>6, <1>8, <1>9, SafeIsHome

(* A plane leaves only next to its own destination, an exit from 8000 feet *)
(* or higher, an airport from 1000 feet and turned to the runway, and its  *)
(* departure is counted (atc_game.dart:321-347).                           *)
THEOREM NobodyVanishes == Spec => DepartsAtDestination
<1>1. IndInv /\ [Next]_vars =>
        [\A p \in Present(planes) :
           (\A q \in Present(planes') : q.born # p.born) =>
             LET home == PosOf(p.dest)
             IN  /\ safeExits' > safeExits
                 /\ Abs(p.x - home.x) <= 1 /\ Abs(p.y - home.y) <= 1
                 /\ p.dest[1] = "exit" => p.altitude >= 8
                 /\ p.dest[1] = "airport" =>
                      p.altitude <= 1 /\ Arc(p.dir, home.dir) <= 2]_vars
  BY StepDeparts, Zenon
<1> QED
  BY <1>1, InvariantHolds, PTL DEF Spec, DepartsAtDestination

==============================================================================
