------------------------------ MODULE AtcTower ------------------------------
(***************************************************************************)
(* The C program atc: main() and getcommand() read and carry out the       *)
(* player's commands, and update(), the SIGALRM handler, moves the planes  *)
(* between any two of their steps (src/atc: main.c, input.c, update.c,     *)
(* list.c).                                                                *)
(*                                                                         *)
(* The planes are in two linked lists, air and ground, that the handler    *)
(* changes while the program searches them, so the links are part of the   *)
(* state: heap[q] is the plane that was allocated as number q, 0 is NULL,  *)
(* and a plane that was deleted is not freed.  Keys are strings of one     *)
(* character; a typed command takes effect with its last key, so typing it *)
(* is one step.  The copy of a plane that setplane makes is one step too:  *)
(* the half copies an alarm in the middle of memcpy would leave are not    *)
(* modelled.                                                               *)
(***************************************************************************)
EXTENDS AtcGeometry, Sequences, FiniteSets

CONSTANTS
  Width, Height,   \* size of the radar
  Exits,           \* sequence of [x, y, dir]; number n is Exits[n + 1]
  Airports,        \* sequence of [x, y, dir]
  Beacons,         \* sequence of [x, y]
  Letters,         \* how many planes there are names for: 26
  Births,          \* bound: no plane is added after this many
  Commands,        \* bound: commands the player types
  Alarms,          \* bound: alarms while one command is carried out, which
                   \* takes far less than the second between two of them
  Names,           \* the letters the player types for a plane
  Keys,            \* the other keys the player types
  Arrivals         \* the planes that may be added: [type, dest, orig]

VARIABLES
  odd,         \* clck & 1
  heap,        \* the planes, in the order they were added
  air, ground, \* the lists: [head, tail]
  last_plane,  \* next_plane's static variable
  safe_planes,
  status,      \* "on", "over" (loser was called), "segv" (NULL was followed)
  typed,       \* commands typed so far
  main,        \* where getcommand is and what it works on; main.of, which
               \* is not in the program, is the plane it has copied
  stays        \* not in the program: the planes that were in a list when the
               \* search under way began, and have stayed there; those on the
               \* ground only as long as none of them took off

vars == <<odd, heap, air, ground, last_plane, safe_planes, status, typed, main, stays>>
lists == <<heap, air, ground>>

Ends == ({"exit"} \X (0 .. Len(Exits) - 1)) \cup ({"airport"} \X (0 .. Len(Airports) - 1))

(* What grammar.y asks of a game; that an exit on one edge is inside the    *)
(* others as well it does not check, but all games that are shipped have.   *)
ASSUME AtcTowerAssumption ==
  /\ Width \in Nat \ {0} /\ Height \in Nat \ {0}
  /\ Exits \in Seq([x : 0 .. Width - 1, y : 0 .. Height - 1, dir : Dirs])
  /\ Airports \in Seq([x : 1 .. Width - 2, y : 1 .. Height - 2, dir : Dirs])
  /\ Beacons \in Seq([x : 1 .. Width - 2, y : 1 .. Height - 2])
  /\ Letters \in Nat \ {0} /\ Births \in Nat \ {0} /\ Alarms \in Nat /\ Commands \in Nat
  /\ Arrivals \subseteq {a \in [type: {0, 1}, dest: Ends, orig: Ends] : a.dest # a.orig}

MAXDIR == 8

Plane == [plane_no : 0 .. Letters - 1, next : Nat, prev : Nat, type : {0, 1},
          status : {"marked", "unmarked", "ignored", "gone"}, dest : Ends,
          altitude : 0 .. 9, new_altitude : 0 .. 9, dir : Dirs, new_dir : 0 .. MAXDIR,
          fuel : 0 .. Width + Height, xpos : 0 .. Width - 1, ypos : 0 .. Height - 1,
          delayd : BOOLEAN, delayd_no : Nat]

PosOf(end) == IF end[1] = "exit" THEN Exits[end[2] + 1]
              ELSE IF end[1] = "airport" THEN Airports[end[2] + 1] ELSE Beacons[end[2] + 1]

At(p, place) == p.xpos = place.x /\ p.ypos = place.y

TooClose(p, q, dist) == /\ Abs(p.altitude - q.altitude) <= dist
                        /\ Abs(p.xpos - q.xpos) <= dist
                        /\ Abs(p.ypos - q.ypos) <= dist

NoPlanes == [head |-> 0, tail |-> 0]
-----------------------------------------------------------------------------
(***************************************************************************)
(* list.c                                                                  *)
(***************************************************************************)
(* The planes that a loop along next meets, from address q on. *)
Chain(h, q) ==
  LET met[n \in 0 .. Births] ==
        IF n = 0 THEN IF q = 0 THEN <<>> ELSE <<q>>
        ELSE LET c == met[n - 1]
                 next == IF c = <<>> THEN 0 ELSE h[c[Len(c)]].next
             IN  IF next = 0 THEN c ELSE Append(c, next)
  IN  met[Births]

Members(h, l) == LET c == Chain(h, l.head) IN {c[n] : n \in DOMAIN c}

InAir == Members(heap, air)
OnRunway == Members(heap, ground)

births == Len(heap)    \* planes added so far

(* Variant of Insert: a plane before all others is not made the head. *)
InsertKeepsHead(m, p) ==
  LET q == m.list.head
  IN  [heap |-> [m.heap EXCEPT ![p].next = q, ![p].prev = 0],
       list |-> IF q = 0 THEN [head |-> p, tail |-> p] ELSE m.list]

(* The planes that p goes between: r the last before it, q the next. *)
Place(h, l, p) ==
  LET chain == Chain(h, l.head)
      stop == CHOOSE n \in 0 .. Len(chain) :     \* so many have smaller numbers
                /\ \A k \in 1 .. n : h[chain[k]].plane_no < h[p].plane_no
                /\ n < Len(chain) => h[chain[n + 1]].plane_no >= h[p].plane_no
  IN  [r |-> IF stop = 0 THEN 0 ELSE chain[stop],
       q |-> IF stop = Len(chain) THEN 0 ELSE chain[stop + 1]]

(* p is given its neighbours in the list, and they are given p. *)
LinkIn(m, p, place) ==
  LET h == m.heap
      r == place.r
      q == place.q
  IN  [heap |-> [x \in DOMAIN h |->
                   [h[x] EXCEPT !.next = IF x = p THEN q ELSE IF x = r THEN p ELSE @,
                                !.prev = IF x = p THEN r ELSE IF x = q THEN p ELSE @]],
       list |-> [head |-> IF r = 0 THEN p ELSE m.list.head,
                 tail |-> IF q = 0 THEN p ELSE m.list.tail]]

(* append: into the place of its number. *)
Insert(m, p) == LinkIn(m, p, Place(m.heap, m.list, p))

(* Variants of Delete: the links of the plane are cleared; its successor    *)
(* keeps the link to it.                                                    *)
DeleteAndClear(m, p) ==
  LET h == m.heap
      prev == h[p].prev
      next == h[p].next
  IN  [heap |-> [x \in DOMAIN h |-> CASE x = p -> [h[x] EXCEPT !.next = 0, !.prev = 0]
                                 [] x = prev /\ x # p -> [h[x] EXCEPT !.next = next]
                                 [] x = next /\ x # p -> [h[x] EXCEPT !.prev = prev]
                                 [] OTHER -> h[x]],
       list |-> [head |-> IF m.list.head = p THEN next ELSE m.list.head,
                 tail |-> IF m.list.tail = p THEN prev ELSE m.list.tail]]

DeleteOneWay(m, p) ==
  LET h == m.heap
  IN  [heap |-> [x \in DOMAIN h |-> IF x = h[p].prev THEN [h[x] EXCEPT !.next = h[p].next] ELSE h[x]],
       list |-> [head |-> IF m.list.head = p THEN h[p].next ELSE m.list.head,
                 tail |-> IF m.list.tail = p THEN h[p].prev ELSE m.list.tail]]

(* delete: the plane is unlinked, and keeps its own links. *)
Delete(m, p) ==
  LET h == m.heap
      l == m.list
      prev == h[p].prev
      next == h[p].next
  IN  CASE l.head = p /\ l.tail = p -> [heap |-> h, list |-> [head |-> 0, tail |-> 0]]
        [] l.head = p /\ l.tail # p ->
             [heap |-> [h EXCEPT ![next].prev = 0], list |-> [l EXCEPT !.head = next]]
        [] l.head # p /\ l.tail = p ->
             [heap |-> [h EXCEPT ![prev].next = 0], list |-> [l EXCEPT !.tail = prev]]
        [] OTHER -> [heap |-> [h EXCEPT ![prev].next = next, ![next].prev = prev], list |-> l]

(* A plane goes from the ground to the air. *)
TakeOff(m, q) ==
  LET off == Delete([heap |-> m.heap, list |-> m.ground], q)
      up == Insert([heap |-> off.heap, list |-> m.air], q)
  IN  [heap |-> up.heap, air |-> up.list, ground |-> off.list]

(* The first loop of update: every plane on the ground that has been told   *)
(* to climb takes off.                                                      *)
TakenOff(h, a, g) ==
  LET order == Chain(h, g.head)
      upTo[n \in 0 .. Len(order)] ==
        IF n = 0 THEN [heap |-> h, air |-> a, ground |-> g]
        ELSE IF h[order[n]].new_altitude > 0 THEN TakeOff(upTo[n - 1], order[n]) ELSE upTo[n - 1]
  IN  upTo[Len(order)]

(* The third: every plane that is gone leaves the list. *)
WithoutGone(h, a) ==
  LET order == Chain(h, a.head)
      upTo[n \in 0 .. Len(order)] ==
        IF n = 0 THEN [heap |-> h, list |-> a]
        ELSE IF h[order[n]].status = "gone" THEN Delete(upTo[n - 1], order[n]) ELSE upTo[n - 1]
  IN  upTo[Len(order)]
-----------------------------------------------------------------------------
(***************************************************************************)
(* update.c: what a tick does to one plane                                 *)
(***************************************************************************)
(* By the shortest way, at most 90 degrees.  A plane told to circle has     *)
(* MAXDIR as its heading and turns right all the time.                      *)
Turn(p) ==
  LET d == p.new_dir - p.dir
      short == IF p.new_dir = MAXDIR THEN d
               ELSE IF d > 4 THEN d - MAXDIR ELSE IF d < -4 THEN d + MAXDIR ELSE d
      step == IF short > 2 THEN 2 ELSE IF short < -2 THEN -2 ELSE short
  IN  IF p.delayd THEN p.dir ELSE (p.dir + step) % MAXDIR

(* It is at its destination: in the right direction, at the right height.   *)
Arrives(p) == /\ At(p, PosOf(p.dest))
              /\ p.dest[1] = "airport" => p.altitude = 0 /\ p.dir = PosOf(p.dest).dir
              /\ p.dest[1] = "exit" => p.altitude = 9

(* Fuel, altitude, heading, position. *)
Ahead(p) ==
  LET d == Turn(p)
  IN  [p EXCEPT !.fuel = @ - 1, !.altitude = @ + Sign(p.new_altitude - @), !.dir = d,
                !.xpos = @ + DirDx(d), !.ypos = @ + DirDy(d)]

(* Variant of Flown: a plane that circles burns nothing. *)
FlownFree(p) ==
  LET q == Ahead(p)
  IN  [q EXCEPT !.fuel = IF p.new_dir = MAXDIR THEN p.fuel ELSE @,
                !.status = IF Arrives(q) THEN "gone" ELSE @]

(* A delay ends over its beacon, a flight at its destination. *)
Flown(p) ==
  LET q == Ahead(p)
      over == q.delayd /\ At(q, Beacons[q.delayd_no + 1])
  IN  [q EXCEPT !.delayd = @ /\ ~over,
                !.status = IF Arrives(q) THEN "gone"
                           ELSE IF over /\ @ = "unmarked" THEN "marked" ELSE @]

OnBorder(p) == p.xpos < 1 \/ p.xpos >= Width - 1 \/ p.ypos < 1 \/ p.ypos >= Height - 1

(* Variant of Fails: a plane on the ground is not looked at. *)
FailsAloft(p) == p.fuel < 0 \/ (~Arrives(p) /\ (p.altitude > 9 \/ OnBorder(p)))

(* Every call of loser for a plane that has moved. *)
Fails(p) == \/ p.fuel < 0
            \/ /\ ~Arrives(p)
               /\ \/ p.dest[1] = "exit" /\ At(p, PosOf(p.dest))
                  \/ p.altitude > 9 \/ p.altitude <= 0 \/ OnBorder(p)

(* next_plane: the next letter nobody has, going round. *)
Numbers(h, ids) == {h[q].plane_no : q \in ids}
NextPlane(used) ==
  LET free == {k \in 1 .. Letters : (last_plane + k) % Letters \notin used}
  IN  IF free = {} THEN -1
      ELSE (last_plane + CHOOSE k \in free : \A j \in free : k <= j) % Letters

(* addplane, from an entrance or a runway. *)
Added(a, no) ==
  LET start == PosOf(a.orig)
      high == IF a.orig[1] = "exit" THEN 7 ELSE 0
  IN  [plane_no |-> no, next |-> 0, prev |-> 0, type |-> a.type, status |-> "marked",
       dest |-> a.dest, altitude |-> high, new_altitude |-> high, dir |-> start.dir,
       new_dir |-> start.dir, fuel |-> Width + Height, xpos |-> start.x, ypos |-> start.y,
       delayd |-> FALSE, delayd_no |-> 0]

(* Variant of Clear: a plane may enter beside another. *)
ClearOfCells(p, others) == \A q \in others : ~TooClose(q, p, 0)

Clear(p, others) == \A q \in others : ~TooClose(q, p, 4)

(* The lists and the number given last after the addition of a plane, or of *)
(* none.                                                                    *)
AddPlane(h, a, g) ==
  \/ heap' = h /\ air' = a /\ ground' = g /\ UNCHANGED last_plane
  \/ /\ births < Births
     /\ \E arrival \in Arrivals :
          LET no == NextPlane(Numbers(h, Members(h, a) \cup Members(h, g)))
              new == Added(arrival, no)
              exit == arrival.orig[1] = "exit"
              more == [q \in 1 .. births + 1 |-> IF q > births THEN new ELSE h[q]]
              m == Insert([heap |-> more, list |-> IF exit THEN a ELSE g], births + 1)
          IN  /\ no >= 0
              /\ exit => Clear(new, {h[q] : q \in Members(h, a)})
              /\ heap' = m.heap
              /\ air' = IF exit THEN m.list ELSE a
              /\ ground' = IF exit THEN g ELSE m.list
              /\ last_plane' = no

(* The second loop of update.  A prop moves in every other tick; clck is    *)
(* counted first.                                                           *)
Moving(h, l) == {q \in Members(h, l) : h[q].type = 1 \/ odd}
AllFlown(h, l) == [q \in DOMAIN h |-> IF q \in Moving(h, l) THEN Flown(h[q]) ELSE h[q]]

Collision(h, l) == \E q, r \in Members(h, l) : q # r /\ TooClose(h[q], h[r], 1)

(* update.  When a plane fails the program ends there, and nothing of the   *)
(* tick is seen any more.                                                   *)
Update ==
  LET up == TakenOff(heap, air, ground)
      flown == AllFlown(up.heap, up.air)
      gone == {q \in Members(flown, up.air) : flown[q].status = "gone"}
      left == WithoutGone(flown, up.air)
      rising == {q \in OnRunway : heap[q].new_altitude > 0}
  IN  /\ odd' = ~odd
      /\ IF (\E q \in Moving(up.heap, up.air) : Fails(flown[q])) \/ Collision(left.heap, left.list)
         THEN /\ status' = "over"
              /\ UNCHANGED <<heap, air, ground, last_plane, safe_planes, stays>>
         ELSE /\ AddPlane(left.heap, left.list, up.ground)
              /\ safe_planes' = safe_planes + Cardinality(gone)
              /\ stays' = stays \ (gone \cup IF rising = {} THEN {} ELSE OnRunway)
              /\ UNCHANGED status
-----------------------------------------------------------------------------
(***************************************************************************)
(* input.c: the commands that can be typed                                 *)
(***************************************************************************)
Digit == [k \in {"0","1","2","3","4","5","6","7","8","9"} |->
            CASE k = "0" -> 0 [] k = "1" -> 1 [] k = "2" -> 2 [] k = "3" -> 3 [] k = "4" -> 4
              [] k = "5" -> 5 [] k = "6" -> 6 [] k = "7" -> 7 [] k = "8" -> 8 [] k = "9" -> 9]

dir_no == [k \in {"w", "e", "d", "c", "x", "z", "a", "q"} |->
             CASE k = "w" -> 0 [] k = "e" -> 1 [] k = "d" -> 2 [] k = "c" -> 3
               [] k = "x" -> 4 [] k = "z" -> 5 [] k = "a" -> 6 [] k = "q" -> 7]

(* The letters after c are no plane's here, and stand for z. *)
number(l) == CASE l = "a" -> 0 [] l = "b" -> 1 [] l = "c" -> 2 [] OTHER -> 25

(* The paths through the state tables from a state on to the end, as the    *)
(* calls they leave on the stack: keys that are erased again, and those     *)
(* whose rules have no function, leave nothing.                             *)
Call(func, keys) == {<<[func |-> func, ch |-> k]>> : k \in keys \cap Keys}
Then(first, rest) == {c \o d : c \in first, d \in rest}

(* States 4, 5 and 9: perhaps a delay. *)
Delays == {<<>>} \cup IF Keys \cap {"@", "a"} = {} \/ Keys \cap {"b", "*"} = {} THEN {}
                      ELSE Call("delayb", DOMAIN Digit)
(* States 6, 8 and 11: in state 6 the rule of the letter a as the key of a  *)
(* delay comes before its rule as a heading. *)
Relative == {<<>>} \cup Call("rel_dir", DOMAIN dir_no \ {"a"})
Towards == IF "t" \notin Keys THEN {}
           ELSE Then(Call("beacon", {"b", "*"}) \cup Call("ex_it", {"e"}) \cup Call("airport", {"a"}),
                     Call("benum", DOMAIN Digit))
(* State 2, and the circle of state 1. *)
Headings ==
  Then(Call("circle", {"c"})
         \cup Then(Call("turn", {"t"}),
                   Then(Call("left", {"l"}) \cup Call("right", {"r"}), Relative)
                     \cup Call("Left", {"L"}) \cup Call("Right", {"R"})
                     \cup Towards \cup Call("to_dir", DOMAIN dir_no)),
       Delays)
(* States 3 and 10. *)
Altitudes ==
  IF "a" \notin Keys THEN {}
  ELSE Call("setalt", DOMAIN Digit)
         \cup Then(Call("climb", {"+", "c"}) \cup Call("descend", {"-", "d"}),
                   Call("setrelalt", DOMAIN Digit))
Marks == Call("mark", {"m"}) \cup Call("unmark", {"u"}) \cup Call("ignore", {"i"})

(* State 0. *)
Calls == {<<>>} \cup Then({<<[func |-> "setplane", ch |-> k]>> : k \in Names},
                          Headings \cup Altitudes \cup Marks)
-----------------------------------------------------------------------------
(***************************************************************************)
(* input.c: what each call does to the copy p of the plane                 *)
(***************************************************************************)
(* m: the copy, the statics dir, dest_type and dest_no, and whether all     *)
(* calls so far returned NULL.  A call that is not Legal returns a message. *)

(* Variants of OnGround and Attainable: a plane told to climb may be turned; *)
(* any height is taken.                                                      *)
ToldToStay(m) == m.p.new_altitude = 0
AnyHeight(m, new) == m.p.new_altitude # new

OnGround(m) == m.p.altitude = 0
RelAlt(m, ch) == m.p.altitude + (IF m.dir = "up" THEN Digit[ch] ELSE - Digit[ch])
Attainable(m, new) == m.p.new_altitude # new /\ new \in 0 .. 9
Known(type) == CASE type = "beacon" -> Len(Beacons) [] type = "exit" -> Len(Exits)
                 [] type = "airport" -> Len(Airports) [] OTHER -> 0
DirFromDxDy(dx, dy) == IF dx = 0 /\ dy = 0 THEN 2 ELSE DirToward(0, 0, dx, dy)

Marking == [mark |-> "marked", unmark |-> "unmarked", ignore |-> "ignored"]

Legal(m, func, ch) ==
  CASE func \in {"turn", "circle"} -> ~OnGround(m)
    [] func \in {"mark", "unmark", "ignore"} ->
         ~OnGround(m) /\ m.p.status # Marking[func]
    [] func = "setalt" -> m.p.new_altitude # Digit[ch]
    [] func = "setrelalt" -> m.dir \in {"up", "down"} /\ Attainable(m, RelAlt(m, ch))
    [] func = "rel_dir" -> m.dir \in {"left", "right"}
    [] func = "benum" -> Digit[ch] < Known(m.dest_type)
    [] func = "delayb" ->
         /\ Digit[ch] < Len(Beacons)
         /\ LET b == Beacons[Digit[ch] + 1]
            IN  /\ Sign(b.x - m.p.xpos) = DirDx(m.p.dir) /\ Sign(b.y - m.p.ypos) = DirDy(m.p.dir)
                /\ m.dest_type # "none" =>
                     LET to == PosOf(<<m.dest_type, m.dest_no>>)
                     IN  /\ <<to.x, to.y>> # <<b.x, b.y>>
                         /\ DirFromDxDy(to.x - b.x, to.y - b.y) # m.p.dir
    [] OTHER -> TRUE

Steered(m, d) == [m EXCEPT !.p.new_dir = d]

Called(m, func, ch) ==
  CASE func = "circle" -> Steered(m, MAXDIR)
    [] func = "left"   -> [Steered(m, (m.p.dir - 1) % MAXDIR) EXCEPT !.dir = "left"]
    [] func = "right"  -> [Steered(m, (m.p.dir + 1) % MAXDIR) EXCEPT !.dir = "right"]
    [] func = "Left"   -> Steered(m, (m.p.dir - 2) % MAXDIR)
    [] func = "Right"  -> Steered(m, (m.p.dir + 2) % MAXDIR)
    [] func = "to_dir" -> Steered(m, dir_no[ch])
    [] func = "rel_dir" -> Steered(m, (IF m.dir = "left" THEN m.p.dir - dir_no[ch]
                                       ELSE m.p.dir + dir_no[ch]) % MAXDIR)
    [] func = "climb"  -> [m EXCEPT !.dir = "up"]
    [] func = "descend" -> [m EXCEPT !.dir = "down"]
    [] func = "setalt" -> [m EXCEPT !.p.new_altitude = Digit[ch]]
    [] func = "setrelalt" -> [m EXCEPT !.p.new_altitude = RelAlt(m, ch)]
    [] func = "beacon" -> [m EXCEPT !.dest_type = "beacon"]
    [] func = "ex_it"  -> [m EXCEPT !.dest_type = "exit"]
    [] func = "airport" -> [m EXCEPT !.dest_type = "airport"]
    [] func = "benum" ->
         LET to == PosOf(<<m.dest_type, Digit[ch]>>)
         IN  [Steered(m, DirFromDxDy(to.x - m.p.xpos, to.y - m.p.ypos)) EXCEPT !.dest_no = Digit[ch]]
    [] func = "delayb" ->
         LET b == Beacons[Digit[ch] + 1]
             to == PosOf(<<m.dest_type, m.dest_no>>)
             held == [m EXCEPT !.p.delayd = TRUE, !.p.delayd_no = Digit[ch]]
         IN  IF m.dest_type = "none" THEN held
             ELSE Steered(held, DirFromDxDy(to.x - b.x, to.y - b.y))
    [] func \in DOMAIN Marking -> [m EXCEPT !.p.status = Marking[func]]
    [] OTHER -> m
-----------------------------------------------------------------------------
(***************************************************************************)
(* main and getcommand                                                     *)
(*                                                                         *)
(* The calls of a command work on the copy p of a plane and on statics that *)
(* no other code uses, so they are one step with the copying; what the      *)
(* handler can come between are the steps of the two searches and the       *)
(* assignments at the end.                                                  *)
(***************************************************************************)
(* The statics p and dir are never read before a call has set them.        *)
Start(p) == [p |-> [p EXCEPT !.delayd = FALSE], dir |-> "none", dest_type |-> "none", dest_no |-> 0,
             ok |-> TRUE]

Executed(m, calls) ==
  LET after[n \in 0 .. Len(calls)] ==
        IF n = 0 THEN m
        ELSE LET last == after[n - 1]
             IN  IF ~last.ok \/ ~Legal(last, calls[n].func, calls[n].ch) THEN [last EXCEPT !.ok = FALSE]
                 ELSE Called(last, calls[n].func, calls[n].ch)
  IN  after[Len(calls)]

(* What the end of getcommand reads of the copy. *)
Sent == {"plane_no", "new_altitude", "status", "new_dir", "delayd", "delayd_no"}

(* getcommand waits for keys. *)
Idle == [pc |-> "keys", calls |-> <<>>, p |-> <<>>, no |-> -1, pp |-> 0, in |-> "none",
         alarms |-> 0, of |-> 0]

Init == /\ odd = FALSE
        /\ \E a \in Arrivals :           \* main adds a plane before the clock starts
             LET p == Added(a, 0)
                 m == Insert([heap |-> <<p>>, list |-> NoPlanes], 1)
             IN  /\ heap = m.heap
                 /\ air = IF p.altitude > 0 THEN m.list ELSE NoPlanes
                 /\ ground = IF p.altitude > 0 THEN NoPlanes ELSE m.list
        /\ last_plane = 0 /\ safe_planes = 0 /\ typed = 0
        /\ status = "on" /\ main = Idle /\ stays = {}

(* SIGALRM, anywhere. *)
Alarm ==
  /\ status = "on" /\ Update /\ UNCHANGED typed
  /\ \/ main.pc = "keys" /\ UNCHANGED main
     \/ /\ main.pc # "keys" /\ main.alarms < Alarms
        /\ main' = [main EXCEPT !.alarms = @ + 1]

(* A lone return: the timer is stopped, update called, the timer started.  *)
ForcedUpdate == status = "on" /\ main.pc = "keys" /\ <<>> \in Calls /\ Update
                /\ UNCHANGED <<typed, main>>

(* findplane begins, in setplane or at the end of getcommand. *)
Search(m, pc, no) ==
  /\ main' = [m EXCEPT !.pc = pc, !.no = no, !.pp = air.head, !.in = "air"]
  /\ stays' = InAir \cup OnRunway

(* The last key of a command; setplane is its first call. *)
TypeCommand ==
  /\ status = "on" /\ main.pc = "keys"
  /\ \E calls \in Calls \ {<<>>} :
       Search([main EXCEPT !.calls = Tail(calls)], "lookup", number(Head(calls).ch))
  /\ typed < Commands /\ typed' = typed + 1
  /\ UNCHANGED <<odd, lists, last_plane, safe_planes, status>>

Searching == status = "on" /\ main.pc \in {"lookup", "search"}

(* The two loops of findplane. *)
SearchOn ==
  /\ Searching
  /\ \/ /\ main.pp = 0 /\ main.in = "air"
        /\ main' = [main EXCEPT !.pp = ground.head, !.in = "ground"]
     \/ /\ main.pp # 0 /\ heap[main.pp].plane_no # main.no
        /\ main' = [main EXCEPT !.pp = heap[main.pp].next]
  /\ UNCHANGED <<odd, lists, last_plane, safe_planes, status, typed, stays>>

Found == Searching /\ main.pp # 0 /\ heap[main.pp].plane_no = main.no
NotFound == Searching /\ main.pp = 0 /\ main.in = "ground"

Forget == main' = Idle /\ stays' = {}

(* setplane goes on with a copy of the plane it found, the other calls with *)
(* the copy; an error in one of them ends the command.                      *)
Execute ==
  /\ Found /\ main.pc = "lookup"
  /\ LET m == Executed(Start(heap[main.pp]), main.calls)
     IN  IF m.ok THEN Search([main EXCEPT !.p = [f \in Sent |-> m.p[f]], !.of = main.pp],
                             "search", m.p.plane_no)
         ELSE Forget
  /\ UNCHANGED <<odd, lists, last_plane, safe_planes, status, typed>>

UnknownPlane ==
  /\ NotFound /\ main.pc = "lookup" /\ Forget
  /\ UNCHANGED <<odd, lists, last_plane, safe_planes, status, typed>>

(* At the end of getcommand nobody looks whether the plane was found. *)
FollowNull ==
  /\ NotFound /\ main.pc = "search"
  /\ status' = "segv"
  /\ UNCHANGED <<odd, lists, last_plane, safe_planes, typed, main, stays>>

(* What the copy has changed goes to the plane: the altitude, or the mark, *)
(* or the heading with its delay, in three assignments.                     *)
StoreOrder ==
  /\ Found /\ main.pc = "search"
  /\ LET pp == heap[main.pp]
         p == main.p
     IN  \/ /\ pp.new_altitude # p.new_altitude
            /\ heap' = [heap EXCEPT ![main.pp].new_altitude = p.new_altitude]
            /\ Forget
         \/ /\ pp.new_altitude = p.new_altitude /\ pp.status # p.status
            /\ heap' = [heap EXCEPT ![main.pp].status = p.status]
            /\ Forget
         \/ /\ pp.new_altitude = p.new_altitude /\ pp.status = p.status
            /\ heap' = [heap EXCEPT ![main.pp].new_dir = p.new_dir]
            /\ main' = [main EXCEPT !.pc = "store delayd"] /\ stays' = {}
  /\ UNCHANGED <<odd, air, ground, last_plane, safe_planes, status, typed>>

StoreDelay ==
  /\ status = "on"
  /\ \/ /\ main.pc = "store delayd"
        /\ heap' = [heap EXCEPT ![main.pp].delayd = main.p.delayd]
        /\ main' = [main EXCEPT !.pc = "store delayd_no"]
     \/ /\ main.pc = "store delayd_no"
        /\ heap' = [heap EXCEPT ![main.pp].delayd_no = main.p.delayd_no]
        /\ main' = Idle
  /\ UNCHANGED <<odd, air, ground, last_plane, safe_planes, status, typed, stays>>

GetCommand == SearchOn \/ Execute \/ UnknownPlane \/ FollowNull \/ StoreOrder \/ StoreDelay

Next == Alarm \/ ForcedUpdate \/ TypeCommand \/ GetCommand

(* The timer goes on: as long as the game is, there is another tick; and    *)
(* the program comes to its next command between two ticks, or after Alarms *)
(* of them.  (This is weak fairness of Alarm and GetCommand, stated without *)
(* ENABLED, which costs more than all the rest.)                            *)
Fairness == []<><<odd' # odd>>_vars \/ <>[](status # "on")

Spec == Init /\ [][Next]_vars /\ Fairness
-----------------------------------------------------------------------------
(***************************************************************************)
(* Properties                                                              *)
(***************************************************************************)
(* Type invariant of what a plane may be. *)
TypeOK ==
  /\ status \in {"on", "over", "segv"}
  /\ births \in 1 .. Births /\ heap \in [1 .. births -> Plane]
  /\ last_plane \in 0 .. Letters - 1
  /\ safe_planes \in 0 .. Births
  /\ stays \subseteq DOMAIN heap
  /\ \A q \in DOMAIN heap : heap[q].delayd => heap[q].delayd_no < Len(Beacons)

(* The two lists are proper lists whatever was inserted and deleted: sorted *)
(* by number, the same backwards, ended by tail, without a common plane,    *)
(* and no two planes with one letter (list.c:64, next_plane).               *)
Linked(l) ==
  LET c == Chain(heap, l.head)
  IN  /\ \A n \in 1 .. Len(c) - 1 : /\ heap[c[n]].plane_no < heap[c[n + 1]].plane_no
                                    /\ heap[c[n + 1]].prev = c[n]
      /\ l.head # 0 => heap[l.head].prev = 0
      /\ l.tail = IF c = <<>> THEN 0 ELSE c[Len(c)]
      /\ l.head # 0 => heap[l.tail].next = 0
ListsLinked ==
  /\ Linked(air) /\ Linked(ground) /\ InAir \cap OnRunway = {}
  /\ \A q, r \in InAir \cup OnRunway : heap[q].plane_no = heap[r].plane_no => q = r

(* Planes in the air are above the ground and inside the arena, whatever    *)
(* commands reached them and when, unless they have just entered or, props  *)
(* that wait for their turn, are still on the runway they were told to      *)
(* leave; planes on the ground stand at an airport (update.c:84, 168-197).  *)
AtStart(p, places) == p.fuel = Width + Height /\ \E n \in DOMAIN places : At(p, places[n])
Whereabouts ==
  status = "on" =>
    /\ \A q \in InAir : /\ heap[q].altitude = 0 => heap[q].type = 0 /\ AtStart(heap[q], Airports)
                        /\ OnBorder(heap[q]) => AtStart(heap[q], Exits)
    /\ \A q \in OnRunway : heap[q].altitude = 0 /\ AtStart(heap[q], Airports)

(* While the game is on no two planes in the air are next to each other,    *)
(* those that have just entered or taken off included.                      *)
Separation ==
  status = "on" =>
    \A q, r \in InAir : q # r => ~TooClose(heap[q], heap[r], 1)

(* Every plane that was added is in a list or was counted as safe.          *)
Conservation ==
  status = "on" => births = Cardinality(InAir) + Cardinality(OnRunway) + safe_planes

(* A search that is interrupted by updates, which delete planes under its   *)
(* feet, finds what has stayed.  A plane that takes off takes the search    *)
(* with it into the air list, so the planes behind it on the ground are     *)
(* missed: a plane that exists is unknown, or NULL is followed, only when   *)
(* it left, or it or another took off.  And an order never finds another    *)
(* plane with the name while the one it is for is there (update.c:85, 390,  *)
(* input.c:319).                                                            *)
SearchFinds ==
  /\ NotFound => \A q \in stays : heap[q].plane_no # main.no
  /\ Found /\ main.pc = "search" /\ main.of \in InAir \cup OnRunway => main.pp = main.of

(* What an order may do to the plane it was copied from.  One that does not *)
(* mark changes the mark only when the plane passed its beacon after the    *)
(* copy was made, which marks an unmarked plane: the order then takes that  *)
(* back, and its heading is lost.  On the ground no order turns a plane or  *)
(* holds it for a beacon (input.c:322, 419).  (A plane that has since got   *)
(* the name of one that left may have all this done to it.)                 *)
OrdersAsMeant ==
  [][odd' = odd =>
       \A q \in (InAir \cup OnRunway) \cap {main.of} :
          /\ heap'[q].status # heap[q].status =>
               \/ \E n \in DOMAIN main.calls : main.calls[n].func \in DOMAIN Marking
               \/ main.p.status = "unmarked" /\ heap[q].status = "marked"
          /\ q \in OnRunway => /\ heap'[q].new_dir = heap[q].new_dir
                               /\ heap'[q].delayd => heap[q].delayd]_vars

(* Every flight ends, whatever is ordered (update.c:97). *)
FlightsEnd ==
  \A q \in 1 .. Births : q \in InAir ~> q \notin InAir \/ status # "on"
=============================================================================
