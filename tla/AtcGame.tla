------------------------------- MODULE AtcGame -------------------------------
(***************************************************************************)
(* The engine of the air traffic control game (class AtcGame in            *)
(* app/lib/screens/atc/atc_game.dart): commands change what a plane is     *)
(* asked to do, advance() moves every plane by one tick, retires the ones  *)
(* that reached their destination, decides whether the game is lost and    *)
(* lets a new plane in.                                                    *)
(*                                                                         *)
(* `planes' is a set; the order of the Dart list is the order of `born',   *)
(* the number a plane gets when it is appended.  Exits, airports and       *)
(* beacons are numbered from 1, as the player sees them.  Only the parity  *)
(* of the tick counter is kept: nothing else of it reaches a decision.     *)
(***************************************************************************)
EXTENDS AtcGeometry, Sequences, FiniteSets

CONSTANTS
  Width, Height,   \* size of the radar
  Exits,           \* sequence of [x, y, dir]
  Airports,        \* sequence of [x, y, dir]
  Beacons,         \* sequence of [x, y]
  NewplaneTime,    \* ticks between spawns, on average
  MaxPlanes,       \* number of labels: 26 in the code
  Commands,        \* the commands the player may send
  MaxSpawns        \* bound: no further plane appears after this many

VARIABLES
  odd,         \* parity of _tick
  planes,      \* set of plane records
  safeExits,   \* _safeExits
  status,      \* AtcStatus ("won" is never assigned)
  lossReason,  \* why the game was lost, "none" until then
  spawned      \* history: how many planes have been appended so far

vars == << odd, planes, safeExits, status, lossReason, spawned >>

------------------------------------------------------------------------------
(* Types *)

PlaneTypes    == {"prop", "jet"}
PlaneStatuses == {"unmarked", "marked", "ignored", "gone"}
Labels        == 1 .. MaxPlanes
Altitudes     == 0 .. 9
StartFuel     == Width + Height

Ends ==          \* where a plane may start from or be headed to
  ({"exit"} \X DOMAIN Exits) \cup ({"airport"} \X DOMAIN Airports)

Fixes == Ends \cup ({"beacon"} \X DOMAIN Beacons)   \* what a turn may aim at

DelayableCommand ==
       [op : {"turnLeft", "turnRight"}, label : Labels, steps : 0 .. 7]
  \cup [op : {"turnDir"},    label : Labels, dir : Dirs]
  \cup [op : {"turnToward"}, label : Labels, dest : Fixes]
  \cup [op : {"circle"},     label : Labels]

Command ==
       DelayableCommand
  \cup [op : {"altitude"}, label : Labels, altitude : Altitudes]
  \cup [op : {"altitudeRelative"}, label : Labels, delta : -9 .. 9]
  \cup [op : {"mark", "unmark", "ignore"}, label : Labels]
  \cup {c \in [op : {"withDelay"}, label : Labels, inner : DelayableCommand,
               beaconNo : Nat] : c.inner.label = c.label}

Plane ==
  [born : 1 .. MaxSpawns, label : Labels, type : PlaneTypes,
   x : -1 .. Width, y : -1 .. Height,
   altitude : Altitudes, newAltitude : Altitudes, dir : Dirs, newDir : Dirs,
   fuel : -1 .. StartFuel, status : PlaneStatuses, dest : Ends, orig : Ends,
   circling : BOOLEAN, delayedAtBeacon : BOOLEAN,
   delayedBeaconNo : 0 .. Len(Beacons)]

Reasons ==
  {"ran out of fuel", "landed in the wrong direction",
   "exited at the wrong altitude", "exceeded the flight ceiling",
   "landed at the wrong airport", "crashed on the ground",
   "illegally left the flight arena", "collision"}

InArena(point) == point.x \in 0 .. Width - 1 /\ point.y \in 0 .. Height - 1

(* What the shipped scenario files satisfy and the parser does not check:  *)
(* with fewer than two ends the search for an origin that differs from the *)
(* destination never returns, and a zero NewplaneTime makes nextInt throw. *)
ASSUME ScenarioAssumption ==
  /\ Width \in Nat \ {0} /\ Height \in Nat \ {0}
  /\ Exits    \in Seq([x : Int, y : Int, dir : Dirs])
  /\ Airports \in Seq([x : Int, y : Int, dir : Dirs])
  /\ Beacons  \in Seq([x : Int, y : Int])
  /\ \A n \in DOMAIN Exits : InArena(Exits[n])
  /\ \A n \in DOMAIN Airports : InArena(Airports[n])
  /\ \A n \in DOMAIN Beacons : InArena(Beacons[n])
  /\ Len(Exits) + Len(Airports) >= 2
  /\ NewplaneTime \in Nat \ {0}

ASSUME PlayerAssumption ==
  /\ MaxPlanes \in Nat \ {0}
  /\ MaxSpawns \in Nat
  /\ Commands \subseteq Command

------------------------------------------------------------------------------
(* Planes *)

IsAirborne(p) == p.altitude > 0

Present(S) == {p \in S : p.status # "gone"}

PosOf(fix) == CASE fix[1] = "exit"    -> Exits[fix[2]]
                [] fix[1] = "airport" -> Airports[fix[2]]
                [] fix[1] = "beacon"  -> Beacons[fix[2]]

At(p, point) == p.x = point.x /\ p.y = point.y

First(S) == CHOOSE p \in S : \A q \in S : p.born <= q.born

------------------------------------------------------------------------------
(* Commands: applyCommand on the plane that carries the label *)

Steer(p, d) ==
  [p EXCEPT !.newDir = d, !.circling = FALSE, !.delayedAtBeacon = FALSE]

Clamp(n) == IF n < 0 THEN 0 ELSE IF n > 9 THEN 9 ELSE n

Toward(p, fix) == DirToward(p.x, p.y, PosOf(fix).x, PosOf(fix).y)

Undelayed(p, c) ==
  CASE c.op = "altitude" ->
         [p EXCEPT !.newAltitude = c.altitude, !.circling = FALSE]
    [] c.op = "altitudeRelative" ->
         [p EXCEPT !.newAltitude = Clamp(p.altitude + c.delta)]
    [] c.op = "turnLeft"   -> Steer(p, (p.dir - c.steps + 8) % 8)
    [] c.op = "turnRight"  -> Steer(p, (p.dir + c.steps) % 8)
    [] c.op = "turnDir"    -> Steer(p, c.dir)
    [] c.op = "turnToward" -> Steer(p, Toward(p, c.dest))
    [] c.op = "circle"     ->
         [p EXCEPT !.circling = TRUE, !.delayedAtBeacon = FALSE]
    [] c.op = "mark"       -> [p EXCEPT !.status = "marked"]
    [] c.op = "unmark"     -> [p EXCEPT !.status = "unmarked"]
    [] c.op = "ignore"     -> [p EXCEPT !.status = "ignored"]

BeaconAhead(p, b) ==
  Sign(b.x - p.x) = DirDx(p.dir) /\ Sign(b.y - p.y) = DirDy(p.dir)

(* A delayed command applies its inner command at once (aiming a turn      *)
(* toward a fix from the beacon), then holds the heading until the beacon. *)
Delayed(p, c) ==
  IF c.beaconNo \in DOMAIN Beacons /\ BeaconAhead(p, Beacons[c.beaconNo])
  THEN LET q == Undelayed(p, c.inner)
           d == IF c.inner.op = "turnToward"
                THEN Toward(Beacons[c.beaconNo], c.inner.dest) ELSE q.newDir
       IN  [q EXCEPT !.newDir = d, !.delayedAtBeacon = TRUE,
                     !.delayedBeaconNo = c.beaconNo]
  ELSE p

(* Variant: planes on the ground are not told apart.                       *)
CommandedAnywhere(p, c) ==
  IF c.op = "withDelay" THEN Delayed(p, c) ELSE Undelayed(p, c)

Commanded(p, c) ==
  CASE IsAirborne(p) /\ c.op = "withDelay" -> Delayed(p, c)
    [] IsAirborne(p) /\ c.op # "withDelay" -> Undelayed(p, c)
    [] ~IsAirborne(p) /\ c.op = "altitude" /\ c.altitude > 0 ->
         [p EXCEPT !.newAltitude = c.altitude]     \* cleared for takeoff
    [] OTHER -> p

(* The planes after a command: planeByLabel finds the first plane of the   *)
(* label that is not gone, and a command for no plane is dropped.          *)
PlanesAfter(c) ==
  LET named == {p \in Present(planes) : p.label = c.label}
  IN  IF named = {} THEN planes
      ELSE (planes \ {First(named)}) \cup {Commanded(First(named), c)}

ApplyCommand(c) ==
  /\ planes' = PlanesAfter(c)
  /\ UNCHANGED << odd, safeExits, status, lossReason, spawned >>

------------------------------------------------------------------------------
(* One tick: the loop of advance() over the planes *)

ParkedPlane(p) == ~IsAirborne(p) /\ p.newAltitude <= 0

(* Variant: planes cleared for takeoff are not promoted into the air.      *)
MovesAirborne(p) ==
  p.status # "gone" /\ IsAirborne(p) /\ ~(p.type = "prop" /\ ~odd)

(* The loop runs with the counter already incremented.                     *)
MovesNow(p) ==
  /\ p.status # "gone"
  /\ ~ParkedPlane(p)
  /\ ~(p.type = "prop" /\ ~odd)

(* Variant: always clockwise to newDir.                                    *)
TurnClockwise(p) ==
  LET arc == (p.newDir - p.dir) % 8
  IN  IF p.delayedAtBeacon THEN 0
      ELSE IF p.circling \/ arc > 2 THEN 2 ELSE arc

(* Heading change of one tick: 90 degrees clockwise when circling, else    *)
(* along the shortest arc to newDir, at most 90 degrees.                   *)
Turn(p) ==
  LET arc == (p.newDir - p.dir) % 8
      shortest == IF arc > 4 THEN arc - 8 ELSE arc
  IN  CASE p.delayedAtBeacon  -> 0
        [] ~p.delayedAtBeacon /\ p.circling -> 2
        [] OTHER -> IF Abs(shortest) > 2 THEN 2 * Sign(shortest) ELSE shortest

Moved(p) ==
  LET dir == (p.dir + Turn(p) + 8) % 8
  IN  [p EXCEPT !.fuel = @ - 1,
                !.altitude = @ + Sign(p.newAltitude - p.altitude),
                !.dir = dir,
                !.x = @ + DirDx(dir),
                !.y = @ + DirDy(dir)]

ReachedBeacon(q) == q.delayedAtBeacon /\ At(q, Beacons[q.delayedBeaconNo])

Flown(p) ==
  LET q == Moved(p)
  IN  IF ~ReachedBeacon(q) THEN q
      ELSE [q EXCEPT !.delayedAtBeacon = FALSE,
                     !.status = IF @ = "unmarked" THEN "marked" ELSE @]

(* What happens to a plane that has just moved *)

OutsideFrame(q) ==
  q.x < 1 \/ q.x >= Width - 1 \/ q.y < 1 \/ q.y >= Height - 1

(* Variant: landing at any altitude.                                       *)
OverAirport(q) == q.dest[1] = "airport" /\ At(q, PosOf(q.dest))

Landed(q) == q.dest[1] = "airport" /\ At(q, PosOf(q.dest)) /\ q.altitude = 0

Exited(q) == q.dest[1] = "exit" /\ At(q, PosOf(q.dest))

Verdict(q) ==
  IF Landed(q)
    THEN IF q.dir # PosOf(q.dest).dir
           THEN "landed in the wrong direction" ELSE "safe"
  ELSE IF Exited(q)
    THEN IF q.altitude # 9 THEN "exited at the wrong altitude" ELSE "safe"
  ELSE IF q.altitude > 9 THEN "exceeded the flight ceiling"
  ELSE IF q.altitude <= 0
    THEN IF \E n \in DOMAIN Airports : At(q, Airports[n])
           THEN "landed at the wrong airport" ELSE "crashed on the ground"
  ELSE IF OutsideFrame(q) THEN "illegally left the flight arena"
  ELSE "flying"

Fate(p) ==
  IF ~MovesNow(p) THEN "flying"
  ELSE IF p.fuel - 1 < 0 THEN "ran out of fuel"
  ELSE Verdict(Flown(p))

AfterTick(p) ==
  CASE ~MovesNow(p) -> p
    [] MovesNow(p) /\ p.fuel - 1 < 0 -> [p EXCEPT !.fuel = @ - 1]
    [] OTHER -> IF Fate(p) = "safe" THEN [Flown(p) EXCEPT !.status = "gone"]
                                    ELSE Flown(p)

TooClose(p, q) ==
  Abs(p.x - q.x) <= 1 /\ Abs(p.y - q.y) <= 1 /\ Abs(p.altitude - q.altitude) < 2

Conflict(S) ==
  \E p, q \in S :
    p # q /\ IsAirborne(p) /\ IsAirborne(q) /\ TooClose(p, q)

SafeCount(S) == Cardinality({p \in S : Fate(p) = "safe"})

------------------------------------------------------------------------------
(* New planes *)

FreeLabels(S) == {l \in Labels : \A p \in S : p.status = "gone" \/ p.label # l}

(* Variant of NextLabel: the letter after as many as there are planes.      *)
NextLabelByCount(S) == Cardinality(Present(S)) + 1

NextLabel(S) == CHOOSE l \in FreeLabels(S) : \A m \in FreeLabels(S) : l <= m

EntryAltitude == 7

(* Variant: only a plane on the very cell of the exit keeps it busy.       *)
ClearCell(orig, S) ==
  orig[1] = "exit" =>
    \A q \in Present(S) : IsAirborne(q) => ~At(q, PosOf(orig))

(* An airport is always free; an exit is not while a plane flies near it.  *)
Clear(orig, S) ==
  orig[1] = "exit" =>
    \A q \in Present(S) :
      IsAirborne(q) =>
        \/ Abs(q.altitude - EntryAltitude) > 4
        \/ Abs(q.x - PosOf(orig).x) > 4
        \/ Abs(q.y - PosOf(orig).y) > 4

NewPlane(S, type, dest, orig) ==
  LET alt == IF orig[1] = "airport" THEN 0 ELSE EntryAltitude
  IN  [born |-> spawned + 1, label |-> NextLabel(S), type |-> type,
       x |-> PosOf(orig).x, y |-> PosOf(orig).y,
       altitude |-> alt, newAltitude |-> alt,
       dir |-> PosOf(orig).dir, newDir |-> PosOf(orig).dir,
       fuel |-> StartFuel, status |-> "unmarked", dest |-> dest, orig |-> orig,
       circling |-> FALSE, delayedAtBeacon |-> FALSE, delayedBeaconNo |-> 0]

(* No plane this tick: the draw said no, every label is taken, every draw  *)
(* of an origin met a busy exit, or the bound on spawns is reached.        *)
SpawnNothing(S) ==
  /\ \/ NewplaneTime > 1
     \/ FreeLabels(S) = {}
     \/ \E dest \in Ends : \E orig \in Ends \ {dest} : ~Clear(orig, S)
     \/ spawned = MaxSpawns
  /\ planes' = S
  /\ UNCHANGED spawned

SpawnPlane(S) ==
  /\ FreeLabels(S) # {}
  /\ spawned < MaxSpawns
  /\ \E type \in PlaneTypes, dest \in Ends :
       \E orig \in Ends \ {dest} :
         /\ Clear(orig, S)
         /\ planes' = S \cup {NewPlane(S, type, dest, orig)}
  /\ spawned' = spawned + 1

------------------------------------------------------------------------------
(* advance() *)

Losers == {p \in planes : Fate(p) \notin {"flying", "safe"}}

Flying == Present({AfterTick(p) : p \in planes})

(* Variant: safe exits are counted only when the loop runs to its end.     *)
AdvanceLosesCount ==
  /\ Losers # {}
  /\ LET done == {p \in planes : p.born <= First(Losers).born}
     IN  planes' = {AfterTick(p) : p \in done} \cup (planes \ done)
  /\ status' = "lost"
  /\ lossReason' = Fate(First(Losers))
  /\ UNCHANGED << safeExits, spawned >>

(* A plane is lost: the loop returns at the first one, so the planes after *)
(* it have not moved, and the ones that left are still in the list.        *)
AdvanceLoses ==
  /\ Losers # {}
  /\ LET done == {p \in planes : p.born <= First(Losers).born}
     IN  /\ planes' = {AfterTick(p) : p \in done} \cup (planes \ done)
         /\ safeExits' = safeExits + SafeCount(done)
  /\ status' = "lost"
  /\ lossReason' = Fate(First(Losers))
  /\ UNCHANGED spawned

AdvanceCollides ==
  /\ Losers = {}
  /\ Conflict(Flying)
  /\ planes' = Flying
  /\ safeExits' = safeExits + SafeCount(planes)
  /\ status' = "lost"
  /\ lossReason' = "collision"
  /\ UNCHANGED spawned

AdvanceFlies ==
  /\ Losers = {}
  /\ ~Conflict(Flying)
  /\ safeExits' = safeExits + SafeCount(planes)
  /\ SpawnNothing(Flying) \/ SpawnPlane(Flying)
  /\ UNCHANGED << status, lossReason >>

Advance ==
  /\ status = "playing"
  /\ odd' = ~odd
  /\ AdvanceLoses \/ AdvanceCollides \/ AdvanceFlies

------------------------------------------------------------------------------

Init ==
  /\ odd = FALSE
  /\ planes = {}
  /\ safeExits = 0
  /\ status = "playing"
  /\ lossReason = "none"
  /\ spawned = 0

Next == Advance \/ \E c \in Commands : ApplyCommand(c)

Spec == Init /\ [][Next]_vars

(* The screen drives advance() from a periodic timer while a game is on:   *)
(* weak fairness of Advance, which is enabled as long as status is         *)
(* "playing" (written out, because ENABLED is costly to evaluate here).    *)
FairSpec == Spec /\ ([]<>(status # "playing") \/ []<><<Advance>>_vars)

------------------------------------------------------------------------------
(* Properties *)

TypeOK ==
  /\ odd \in BOOLEAN
  /\ planes \subseteq Plane
  /\ safeExits \in Nat
  /\ status \in {"playing", "lost"}
  /\ lossReason \in Reasons \cup {"none"}
  /\ spawned \in 0 .. MaxSpawns

(* As long as the game is on, no two planes in the air are adjacent in all *)
(* three dimensions: neither a move nor the entrance of a new plane at the *)
(* end of a tick may leave such a pair behind.                             *)
Separation == status = "playing" => ~Conflict(planes)

(* No plane is lost sight of or counted twice: every plane that ever       *)
(* appeared either left safely, once, or is still there, also when         *)
(* advance() returns in the middle of its loop.                            *)
Conservation == spawned = safeExits + Cardinality(Present(planes))

(* Labels are reused when a plane leaves; two planes that are present      *)
(* never share one, so a command reaches the plane the player means.       *)
UniqueLabels ==
  \A p, q \in Present(planes) : p.label = q.label => p = q

JustEntered(p) ==
  /\ p.orig[1] = "exit" /\ At(p, PosOf(p.orig)) /\ p.dir = PosOf(p.orig).dir
  /\ p.altitude = EntryAltitude /\ p.fuel = StartFuel

WaitingAtAirport(p) ==
  /\ p.orig[1] = "airport" /\ At(p, PosOf(p.orig)) /\ p.altitude = 0
  /\ p.dir = PosOf(p.orig).dir /\ p.newDir = p.dir /\ p.fuel = StartFuel

InTheAir(p) ==
  /\ p.altitude \in 1 .. 9 /\ p.fuel >= 0
  /\ p.x \in 1 .. Width - 2 /\ p.y \in 1 .. Height - 2

(* While the game is on a plane is inside the frame of the arena with fuel *)
(* left, or has just come in through its exit, or is waiting, fuelled and  *)
(* lined up, at the airport it starts from.  A plane at altitude 0 is      *)
(* nowhere else, whatever commands it was sent.                            *)
Whereabouts ==
  status = "playing" =>
    \A p \in planes : InTheAir(p) \/ JustEntered(p) \/ WaitingAtAirport(p)

(* The list is in the order of appearance, holds no departed plane while   *)
(* the game is on, and a plane that holds for a beacon names one that      *)
(* exists.  With the parts above this is inductive.                        *)
WellFormed ==
  /\ \A p \in planes : p.born <= spawned
  /\ \A p, q \in planes : p.born = q.born => p = q
  /\ status = "playing" => planes = Present(planes)
  /\ \A p \in planes : p.delayedAtBeacon => p.delayedBeaconNo \in DOMAIN Beacons

IndInv == TypeOK /\ WellFormed /\ Whereabouts /\ Separation /\ UniqueLabels

Arc(d, e) == LET n == (d - e) % 8 IN IF n > 4 THEN 8 - n ELSE n

(* One step moves a plane by at most one cell and 1000 feet, turns it by   *)
(* at most 90 degrees and, unless it circles, never away from the heading  *)
(* it was given; a plane that burns no fuel does not move at all.          *)
FlightEnvelope ==
  [][\A p \in planes, q \in planes' :
       p.born = q.born =>
         /\ Abs(q.x - p.x) <= 1 /\ Abs(q.y - p.y) <= 1
         /\ Abs(q.altitude - p.altitude) <= 1
         /\ Arc(q.dir, p.dir) <= 2
         /\ p.circling \/ Arc(q.dir, p.newDir) <= Arc(p.dir, p.newDir)
         /\ q.fuel = p.fuel =>
              At(q, p) /\ q.altitude = p.altitude /\ q.dir = p.dir]_vars

(* A plane leaves the game only next to its own destination: an exit from  *)
(* 8000 feet or higher, an airport from 1000 feet and within 90 degrees of *)
(* its runway; and every departure is counted.                             *)
DepartsAtDestination ==
  [][\A p \in Present(planes) :
       (\A q \in Present(planes') : q.born # p.born) =>
         LET home == PosOf(p.dest)
         IN  /\ safeExits' > safeExits
             /\ Abs(p.x - home.x) <= 1 /\ Abs(p.y - home.y) <= 1
             /\ p.dest[1] = "exit" => p.altitude >= 8
             /\ p.dest[1] = "airport" =>
                  p.altitude <= 1 /\ Arc(p.dir, home.dir) <= 2]_vars

EnRoute(n) ==
  /\ status = "playing"
  /\ \E p \in planes : p.born = n /\ ~ParkedPlane(p)

(* A plane that is in the air or cleared for takeoff does not fly forever: *)
(* it leaves, or the game is lost.  Clearance is never withdrawn, and fuel *)
(* runs out.                                                               *)
NoEternalFlight ==
  \A n \in 1 .. MaxSpawns : EnRoute(n) ~> ~EnRoute(n)

==============================================================================
