# Verification of graphical-bsdgames

The repository holds two programs side by side. One is the BSD games collection:
some sixty small C programs, vendored from NetBSD and hardly changed. The other,
`app/lib/`, is the repository's own work: a Flutter application in Dart with
graphical versions of four of those games (air traffic control, Tetris, Boggle,
Hangman).

A specification has most to say where several things happen at once. In the Dart
program that is a periodic timer, callbacks that run after the next frame,
dialogs stacked over a screen and keyboard state that outlives a game, with
hardly a test (`app/test/widget_test.dart` only starts the app). Among the C
games it is the three that are not a loop of read, compute and print: `atc`,
whose signal handler moves planes between the lists the input code searches;
`sail`, whose players and driver are processes that share a file; and `hunt`,
whose server keeps parallel arrays of players that come, die and hang up.

`PROJECT.json` lists components, runs, mutants, findings, hazards and theorems,
and maps every definition to the lines it stands for.

## Inventory

| component | state | operations | hard behaviour | what makes it correct |
|---|---|---|---|---|
| ATC engine `atc/atc_game.dart`, `scenario.dart` | planes, tick, safe exits, status | `applyCommand`, `advance` (move, retire, lose, collide, spawn) | a loop that returns in its middle, label reuse, entries into traffic, modular headings, delays | separation, one label per plane, no plane lost or counted twice, departures only at the destination, no endless flight |
| ATC screen `atc/atc_screen.dart` | timer, keyboard state and pending command, selected label, panel, queued callbacks, routes | keys, taps, panel, Tick button, timer, frame, dialogs, menu, restart, dispose | events between a change and the frame that shows it, a label kept while planes change, three callers of `advance` | a game keeps its timer until it is lost, each loss announced, a kept command never outlives its delay |
| Tetris engine `tetris/tetris_game.dart` | board, piece, next piece, lines, level, score, status | moves, rotation with wall kicks, soft and hard drop, lock, clear, pause | removal by index from a shrinking list, kicks, an entry without room | pieces fit, rows cleared in order, cells conserved, every piece lands |
| Tetris screen `tetris/tetris_screen.dart` | game, timer and its period, dialogs, focus | keys, gestures, buttons, timer, dialog, restart, dispose | the game can end in three places and change level in two; a period set once | timer alive exactly while playing, never faster than the level, each end announced |
| C `atc` `atc/update.c, input.c, list.c, main.c` | lists `air` and `ground`, command stack, a copy of a plane | SIGALRM handler `update`, `getcommand`, the searches of `findplane` | the handler unlinks planes under a search, copies are stored back late | lists whole, separation, no plane lost, a search finds what stayed |
| C `sail` `sail/sync.c` | sync file, `sync_buf`, place to go on reading, each process' copy of the game | `Write`, `Sync`, `sync_update` | lock with retries, death anywhere, own records applied before others', the alarm's `Sync` inside a command's `Write` | one log, exclusive access, the copy is what the log says, what an interrupted `Write` may spoil |
| C `sail` `pl_*.c`, `dr_*.c` | files by name, players, drivers, people and life signs | start, join, take a ship, turn, leave, signals, driver's turn | look-then-open, fork, kills without farewell, two clocks (50 and 55 turns) | the count is right, those who play keep their driver, nobody stays behind |
| C `hunt` `hunt/huntd/*.c` | players in an array, poll entries beside it, shots, scores | poll, execute, move shots, `zap`, answer | the last player is moved into the slot of the dead, shots point to slots | entries follow players, a death counts once, no dead player is left |
| Boggle `boggle/*.dart` | board, path, found words, timer, scoring mode | select, submit, solve in an isolate, end | `await` on the solver, timer against submit, new game against the dialog | words are paths of neighbours, nothing after the end |
| Hangman `hangman/*.dart` | word, guesses, status | guess, new game, load | load after leaving, dialog against new game | status of the guesses |
| ATC scenario parser, painters, app shell | none that outlives a call | parse, draw, navigate | none | - |
| C `phantasia` | players in a shared file | encounters | two processes on one file without a lock | - |
| other C games | their own process only | a loop of read, compute, print | none | - |

How they meet: a Dart screen owns one engine object and calls it synchronously
from the event loop. Timers, keys, taps and frames are separate events of that
loop; each runs to its end before the next, and they come in any order. The
engine calls nothing back: a screen looks at `status` after a call. Dialogs and
menus are routes over the screen; taps reach the screen only when no route
covers it, but the ATC screen's key handler is registered with the hardware
keyboard and hears keys whatever lies above. The timer does too.

In C `atc` the handler runs between any two instructions of the input code and
shares the lists with it. The processes of `sail` share nothing but the sync
file, a pipe while a driver starts, and SIGCHLD from a driver to its parent. The
server of `hunt` is one process; its players are at the other end of
connections it polls.

## Modules

| module | models | uses |
|---|---|---|
| `AtcGeometry` | headings and displacements, `dirToward` of `scenario.dart` | - |
| `AtcGame` | class `AtcGame` | `AtcGeometry` |
| `AtcScreen` | class `_AtcScreenState` around the engine | `AtcGame` |
| `TetrisGame` | class `TetrisGame` | - |
| `TetrisScreen` | class `_TetrisScreenState` around the engine | `TetrisGame` |
| `AtcTower` | C `atc`: lists, handler, typed commands | `AtcGeometry` |
| `SailRecords` | the records of `sync.c` and the effect of each on a copy of the game | - |
| `SailLog` | abstract: one log that every process reads in order and extends after reading it | - |
| `SailSync` | `Write` and `Sync` with lock, retries, offsets, death and the alarm inside `Write`; implements `SailLog` | `SailRecords`, `SailLog` (INSTANCE) |
| `SailFleet` | the life of players and drivers around the file | - |
| `HuntGame` | the server's loop | - |
| `AtcGameMC`, `AtcScreenMC`, `TetrisGameMC`, `TetrisScreenMC`, `AtcTowerMC`, `SailSyncMC`, `HuntGameMC` | scenarios, keys, pieces, processes for TLC | the module named |
| `AtcGameProofs`, `AtcScreenProofs`, `TetrisProofs`, `AtcTowerUpdate`, `AtcTowerProofs`, `SailSyncProofs`, `SailFleetProofs`, `HuntGameProofs` | theorems | the module named; `AtcScreenProofs` goes on from `AtcGameProofs`, `AtcTowerProofs` (searches and orders) from `AtcTowerUpdate` (the lists and a tick); `TetrisProofs` is about engine and screen |

A screen module composes with its engine by extension: a handler that calls the
engine is one action that takes the engine's action and the screen's reaction
together, as the Dart handler does.

### AtcGame

`planes` is the Dart list as a set; `born`, the position a plane was appended
at, gives its order back where the code depends on it (`planeByLabel` takes the
first match, the loop of `advance` stops at the first loser). `ApplyCommand` is
`applyCommand`; a command for nobody and one that a parked plane ignores are
steps that change nothing, as in the code. `Advance` is `advance` whole:

- `AdvanceLoses`: the loop reaches a plane that is lost and returns. Planes
  before it have moved and some may have left, planes after it have not moved,
  and the list still holds those marked gone.
- `AdvanceCollides`: all have moved, the gone ones are removed, and two are too
  close.
- `AdvanceFlies`: nobody is lost; a plane may enter (`SpawnPlane`) or not
  (`SpawnNothing`: the draw, no free label, or a busy exit).

`dirToward` rounds an `atan2`; `NearAxis` decides the octant exactly with
squares, which is sound because no integer offset lies on an octant's edge. Of
the tick counter only the parity reaches a decision (`odd`). Random draws are
existential choices. `MaxSpawns` bounds the planes of a behaviour and
`MaxPlanes` the labels (26 in the code).

The scenario is a set of constants. `ScenarioAssumption` says what the seven
shipped scenario files satisfy: fixes inside the radar, at least two ends, and a
positive `newplane`. The parser does not check this; with fewer than two ends
the search for an origin (atc_game.dart:440) would not end.

A plane is told to hold for "a beacon ahead" by a test that compares signs
(atc_game.dart:244): on a diagonal heading every beacon of the quadrant passes.
The model has the test as it is.

### AtcScreen

`kbd` holds `_kbdState`, the label at the start of `_kbdBuffer` and
`_pendingCmd`; `Reaction` is `_processKbdChar`, state by state, giving the next
keyboard and the command applied at once. `queued` counts the `_showEndDialog`
calls registered with `addPostFrameCallback`; `Frame` rebuilds the screen
(`RefreshPanel`: the dismissal of a panel whose plane is gone) and opens the
queued dialogs. `tick` is the Tick button of the last frame: absent or disabled,
built for the current game, or built for one that has been replaced since. It
ticks the game it was built for, but cancels whatever timer there is
(atc_screen.dart:526-536): `TickButton` and `OldTickButton`. The replaced game
is not kept; whether a press finds it lost is a choice. `routes` is what lies
over the screen. `announced` is a history variable: the dialogs asked for in
this game. A map change restarts on the same scenario. The reset of the panel
that a build queues is run in the frame that queued it, and taps on planes and
command buttons of a game that was replaced since the last frame are left out.

Five things the code does that the model shows and no property forbids. The
Tick button tests the status when it is built (atc_screen.dart:526), so in the
wide layout a press between the losing tick of the timer and the next frame
queues a second dialog, which is why `AnnouncedOnce` is claimed for the narrow
layout only. Pressed between a restart and the next frame, it may lose the old
game and cancel the timer of the new one, which then stands still until
somebody ticks it by hand; `TimerFollowsGame` says that this is the only way a
game loses its timer. What was typed before a restart goes on in the new game. A
pending command names its plane by label (atc_screen.dart:262),
so a delay typed after that plane left reaches whoever has its label by then.
Enter in a typed turn cancels the command (atc_screen.dart:144), although the
hint offers it for 45 degrees.

### TetrisGame and TetrisScreen

The board gives for each row the set of filled columns. Colours and score are
left out. `Cleared` sinks each row that stays by the number of full rows below
it; `ClearsInOrder` says what comes of it, counted from the other end as the code
has it: the first row that stays is right below the new empty ones, the second
next to it, and so on. `locked` is a history variable. `MaxLines` bounds a behaviour: no piece
locks that would clear more, so at the bound a piece may be unable to lock
(`AtBound`), an artefact the liveness property excludes.

In the screen, `period` is the live timer's period and 0 when there is none.
`TimerFires`, `KeySpace` and `DropButton` are the three places where a piece
locks, and each reacts in its own way: a hard drop that raises the level leaves
the timer at the old pace until a tick or a pause replaces it
(tetris_screen.dart:105), so the pace may be slower than the level's, never
faster. `focused` and `dropLive` are what the last frame fixed: whether keys
reach the game below a dialog and whether the DROP button is enabled.

### AtcTower

The planes are records on a heap, linked through `next` and `prev`; `air` and
`ground` hold head and tail. `Insert` (the search for the place, then `LinkIn`)
and `Delete` are `append` and `delete` of list.c, and a deleted plane keeps its own links, which a search may still
follow. `Update` is the handler, loop by loop: `TakenOff`, `AllFlown`,
`WithoutGone` (each plane that arrives has become "gone" in the loop before),
`Collision`, `AddPlane`. Nothing is freed, so `heap` only grows, and a name may
come back on another address. `Alarm` is the handler and may come between any two steps of a command;
`ForcedUpdate` is the tick of a lone return, during which the timer is stopped.

A command is typed whole (`TypeCommand` picks a path through the state tables of
input.c and leaves the calls on the stack), then `setplane` searches its plane
(`SearchOn`, one step per list element), `Execute` runs the calls on a copy,
`getcommand` searches again and stores what changed, the heading with its delay
in three assignments (`StoreOrder`, `StoreDelay`). `main.of`, the address of
the plane that was copied, is not in the program: it lets the properties ask
whether an order reaches the plane it is for. If the second search fails
nobody tests for NULL: `FollowNull` ends in "segv". The half-copied plane an
alarm during `memcpy` would leave, the erasing keys and `?` are not modelled.

### SailRecords, SailLog, SailSync, SailFleet

`SailRecords!Apply` is `sync_update`: what one record does to a process' copy of
the game. Most records assign a field of a ship; fouls, grapples and people
count. `SailLog` is the promise: one log, every process applies it from the
first record to the last, its own records at once, and adds what it kept only
when it has read everything before it. `SailSync` is the code: `pc` goes from
idle over the tries for the lock (`TryLock`, the loop with its sleep) to reading
(`ReadRecord`, one record a step), adding the buffer and remembering the end.

A player is interrupted by itself as well. SIGALRM calls `newturn`, which runs
`Sync` and writes, and the commands call `Write` with the alarm on. So a
command's `Write` is several steps (`at`): the text behind `sync_bp` (`rest`),
the scan that moves `sync_bp` over it, and `sync_update`, for fouls and grapples
a test and two assignments; `mode` says whether `newturn` runs, before or after
its `Sync`. When that `Sync` comes between text and scan it puts `sync_bp` back,
and the scan keeps what is in the file already and adds it a second time
(sync.c:291-298). When `newturn` has written as well, the interrupted record is
lost, or, if the compiler keeps `sync_bp` in a register, the buffer holds
rubbish (`Garbled`), at which every later `Sync` fails (sync.c:402). None of
this is forbidden by a property, because it happens. What is claimed is how far
it goes: `SailLog` has a `Repeat`, by a hasty process only, of what it added
last and as a whole; `CopyIsLog` is about the copies of the processes whose own
`Write`s the alarm has not cut (`cut`), with whatever the others have put into
the log twice; `SnagsCounted` excepts an alarm between the test and the two
assignments, after which a ship's count and its table never agree again, but no
other. All other `Write`s are one step: in `initialize` and the driver there is
no alarm, and in `newturn` it is off. An alarm inside `snprintf`, the scan's
loop or one assignment is left out.

`Die` may come anywhere; the lock goes with the process. The loop's test lets a
process that gets the lock in the last round fail with the lock in its hands
(sync.c:353); every caller that looks ends then, and `leave`, which does not
look, ends anyway. `Leave` is reached from anywhere, by `choke` for one; what it
interrupts is never resumed. `LogSpec` is `SailLog!Spec` under the mapping of file, seek
and buffer to log, place and kept records.

`SailFleet` takes a call of `Sync` as one step, which `SyncIsLog` justifies, and
keeps of a file the outcome of its records; it leaves out what an alarm inside
`Write` does to them. A player asks for the game's file,
opens it, forks a driver, counts it (`hasdriver++`, a step of its own) and waits
on the pipe, or joins; takes a ship; begins;
plays turn by turn; leaves, is struck, killed, or interrupted while the guns are
loaded. A driver counts turns, looks for life signs every 55, ends without
people or in a hurricane. The periods 50 (life sign of a player), 55 (look) and
7 (wind) are constants. `Child` is the handler of SIGCHLD, which comes once. A
driver that ends between `fork` and the `++` (dr_main.c:144-157) is "missed":
the handler sets `hasdriver` to 0, the `++` makes it 1, and the player goes on
without a driver.

Not claimed, because the code does not give it: that one ship has one captain
(two players may choose it before either begins), that copies agree on fouls
when an unfoul crosses a foul, and that somebody learns of the end of a driver
whose parent died with it, or was told too early (`EndSpreads` excepts it).

### HuntGame

`Player` is the array up to `End_player`, `fdset` the poll entries beside it.
The loop of main is a phase: poll, execute one character of every player that
has one, move the shots, `zap` the dead, answer whoever calls, tell the clients,
and poll again, linger or exit. A shot keeps the slot of its owner and the
identity to credit: `Zap` clears the owner of the dead player's shots, and
those of the player who is moved into the slot go on pointing to the old one
(driver.c:810), so a later hit may credit another slot. Any number of shots may
come out of a blast before it is spent (`BlastSheds`): slime that goes on with
its owner's credit, mines that go off for nobody. Health, maze, charges
and damage are left out: who meets what, and whether it kills, is a choice.
`line`, `unread` and the end of a connection belong to the players' side and
change only where the driver could tell.

## Runs

| run | instance | shows |
|---|---|---|
| `AtcCorridor` | 7x5, facing exits, 2 labels, 3 planes | `IndInv` (the invariant of the proofs, unique labels among it), `Separation`, `Conservation` |
| `AtcField` | 5x4, exit, airport and beacon, 1 plane, every kind of command, fairness | `Whereabouts`, `FlightEnvelope`, `DepartsAtDestination`, `NoEternalFlight` |
| `AtcScreenNarrow` | 5x3 strip, narrow layout, 2 games | `AnnouncedOnce`, `LossIsShown`, `StaleSelectionDropped` |
| `AtcScreenKeys` | 4x3 strip with a beacon, wide layout, 2 games, map menu left to the narrow run | `PendingWhileDelaying`, `TimerFollowsGame` |
| `TetrisWell` | 5x4 well, pieces I, O and S, 4 lines | `PieceFits`, `CellsConserved`, `ClearsInOrder`, `PieceLands` |
| `TetrisScreenPace` | 5x4 well, piece O, a level per line, 13 levels | `TimerIffPlaying`, `NeverTooFast`, `GameOverAnnounced` |
| `AtcTower` | 6x4, two exits, a beacon, an airport, 2 letters, 3 births, 3 commands, an alarm in each | `TypeOK`, `ListsLinked`, `Separation`, `Conservation`, `SearchFinds` |
| `AtcOrders` | the same field with facing exits, 1 letter, 2 births, every command, 2 of them | `Whereabouts`, `OrdersAsMeant`, `FlightsEnd` |
| `SailSync` | a driver with one record and a player with an alarm, two records of five kinds, who may die; 2 ships, 2 tries for the lock | `TypeOK`, `Exclusive`, `CopyIsLog`, `SnagsCounted`, `LogSpec`, `SyncReturns` |
| `SailFleet` | 2 players, 2 ships, 1 file; one player and one driver may be killed | `PeopleCounted`, `NotAbandoned`, `DriverGoes`, `EndSpreads` |
| `HuntGame` | 2 slots, 3 connections of 2 people, 2 unread characters, 1 shot | `PollFollows`, `DeathsAreKills`, `TheDeadAreGone` |
| `SailTwice` | as `SailFleet`, with two drivers | `OneDriver` is violated |

The violation: the manual says that each scenario "can also only be running once
at any given time" (sail.6:101-103), but `startgame` asks `sync_exists`, then
opens the file and forks a driver (pl_7.c:1073). Two players who both ask before
either has opened it both fork one, and both drivers run the scenario through
one file.

Each property of a passing run has a mutant: a plausible bug of one mapped
definition, defined next to it as a "Variant", under which TLC reports the
property violated.

Why the bounds are enough.

- In the corridor the exits are six cells apart: an entry is refused within 4
  cells and allowed beyond, so both outcomes occur, two planes fly towards each
  other, and the third can only enter with a label that was given back. Three
  planes are the least for a loop that stops with one plane before and one after
  the loser. In the field the airport lies on a circle a plane can descend
  along, within its fuel, and a plane that takes off there can climb to 9000
  feet before it reaches the exit: landings and exits both occur (so do crashes,
  wrong altitudes and empty tanks).
- The strips of the screen runs are as short as they can be with a tick between
  entering and being lost; two games are enough for anything one game leaves to
  the next, since nothing counts games. The keys of `AtcScreenKeys` are one of
  each kind (a label, Enter, a command with an altitude, one with a turn, one
  with a beacon, a digit), the buttons of `AtcScreenNarrow` one order with an
  argument and the three without.
- The well admits four rows at once (I pieces on end), holes (S), and kicks to
  both sides. Thirteen levels pass the floor of 80 ms: without it the period of
  the thirteenth would be negative, and `TimerIffPlaying` violated.
- Three births in `AtcTower` give lists of three and reuse of a letter; searches
  over them are interrupted by an alarm after any element, while planes take
  off, leave and enter. One alarm in each command is a bound for size: a
  command is typed within a tick of the timer, and what a second alarm would do
  to a search of three elements the first does already. `AtcOrders` has one
  letter, so a second plane can only come with the letter of one that has left:
  an order still under way then reaches the wrong plane. More planes at once are
  not needed, because what an order does to a plane does not look at others.
- In `SailSync` two tries make the last round of the loop differ from the first;
  the driver's and the player's records meet in every order, and a grapple meets
  the ungrapple of it. Two records of the player are one that is added before
  the alarm and one that the alarm cuts, or one cut and one of `newturn` that
  writes over it: enough for every way a `Write` can be spoiled. A second player
  would read the repeated records as the driver does. In `SailFleet` the periods 50 and 55 become 2 and 4: what
  matters is that the driver's look is the longer one and that both fall on one
  turn at times. `MaxFiles = 1` keeps the run small: the name of a file whose
  game has ended is then not used again.
- Two slots of `HuntGame` are enough for the last player to be moved into the
  slot of the dead, to be dead himself, and for a shot to outlive either; the
  third connection is a person who comes back to an old score.

A cfg with `CHECK_DEADLOCK FALSE` belongs to a system that stops: a lost or
finished game, a screen that was left, processes that have all ended.

## Fairness

- `AtcGame!FairSpec`: the screen's `Timer.periodic` calls `advance()` as long as
  the game is played, so either the game ends for good or `Advance` happens
  again and again. Commands have no fairness: a player may never type. Since
  `Advance` is enabled exactly while `status = "playing"`, this is weak fairness
  of `Advance`, written without ENABLED.
- `AtcScreen!FairScreenSpec`: weak fairness of `Frame`. Every handler that
  changes something calls `setState`, and Flutter then produces a frame.
- `TetrisGame!FairSpec`: weak fairness of `Tick`. Weak and not strong, because
  the pause button cancels the timer and a new one starts with a full period: a
  player who keeps pausing may keep the piece in the air.
- `AtcTower!Spec`: as long as the game is on there is another tick, which
  `setitimer` sees to. Stated on the parity of the clock, without ENABLED.
- `SailSync!Spec`: weak fairness of each process' step through `Sync`, which is
  straight code around a loop that counts. Nobody has to write, call `Sync` or
  die.
- `SailFleet!Spec`: weak fairness of each process' next step: the driver wakes
  after `sleep`, an alarm rings, a signal is delivered, a fork returns. Nobody
  has to come, to choose a ship or to leave. It is written without ENABLED:
  `Due`, `Told` and `DriverDue` say when a player's process, the signal of its
  driver's end, and the driver have something to do.
- `HuntGame` has no liveness property and assumes no fairness.

## Proofs

All of these hold for every value of the constants that satisfies the named
assumptions of the module. Between them the theorems state every invariant and
every action property that a passing run checks; the runs show them on a small
instance first.

### AtcGame (`AtcGameProofs`)

From `ScenarioAssumption` and `PlayerAssumption`:

- `InvariantHolds`: `Spec => []IndInv`
- `TypeCorrect`, `PlanesSeparated`, `LabelsUnique`, `WhereaboutsKnown`,
  `PlanesConserved`: `TypeOK`, `Separation`, `UniqueLabels`, `Whereabouts` and
  `Conservation` are invariants.

The inductive invariant is
`IndInv == TypeOK /\ WellFormed /\ Whereabouts /\ Separation /\ UniqueLabels`.
None of its parts is inductive alone:

- `TypeOK` bounds coordinates to `-1 .. Width`, fuel to at least -1 and altitude
  to `0 .. 9`. A step from any typed position would leave that range; only
  `Whereabouts` says that a plane of a running game is inside the frame, on its
  exit or on its airport, hence that one step stays in range, and that a lost
  game, which may have a plane outside, is never advanced again.
- `Whereabouts` of a waiting plane needs that it was never turned: a parked plane
  ignores every command but a climb. That a plane which holds for a beacon finds
  it in the list is in `WellFormed`.
- `Separation` after a tick that goes on is the outcome of the collision test;
  what is left is the entering plane, at 7000 feet on a cell that `Clear` has
  found 5 cells or 5000 feet away from everybody, or on the ground.
- `UniqueLabels` needs `NextLabelIsFree` for the new plane, and that `born` tells
  planes apart (`WellFormed`), since a tick maps planes one by one.

The argument: `InitIndInv`; `CommandStep` for commands, resting on
`CommandedType` (what a command may do to one plane) and `DirTowardType` (the
rounded heading exists); `LosesStep`, `CollidesStep` and `FliesStep` for the
three outcomes of a tick, resting on `FateType` (where a plane is after a move,
by its fate), `AfterLoop`, `FlyingPlanes` and `NewPlaneType`; `NextIndInv` puts
them together. Least elements (`First`, `NextLabel`) come from the well-foundedness
of the naturals (`LeastNat`), finiteness of the planes from `born` being an
injection into `1 .. MaxSpawns`.

`PlanesConserved` is proved beside the invariant: `Conservation` is kept by every
step that starts in `IndInv`. `LoopCounts` is its core: whatever part of the list
the loop has treated when it stops, the planes are in bijection with the safe
departures it counted together with the planes still present, `AfterTick` being
one to one because `born` is.

Two action properties follow from `IndInv`:

- `FlightIsSmooth`: `FlightEnvelope`, what a step may do to one plane.
- `NobodyVanishes`: `DepartsAtDestination`, how a plane may leave.

A step is either a command, which keeps every plane where it is (`Ordered`,
`CommandOrders`), or a tick that has treated some of the planes (`Ticked`,
`AdvanceTicks`); that `born` tells planes apart carries what is said of one
plane over to the list. One plane that flies keeps `Within` the envelope
(`FlownWithin`): the turn is at most 90 degrees and never leads away from the
ordered heading, for all 64 pairs of headings (`TurnArc`, `TurnNearer`). A plane
that leaves safely has flown onto its destination, so before the tick it was a
cell, 1000 feet and 90 degrees from it at the most (`SafeIsHome`).

### AtcScreen (`AtcScreenProofs`)

- `TimerWhilePlaying`: `TimerFollowsGame`. That a live timer has a game on an
  open screen is not inductive alone: the dialog and the map menu start a game,
  and its timer, without looking whether the screen is still there. `TimerInv`
  adds that routes are stacked over an open screen only. That a game loses its
  timer only to the Tick button of the game it replaced is a property of each
  step (`StepKeeps`).
- `LossAnnouncedOnce`: in the narrow layout, `AnnouncedOnce`. It rests on
  `TimerInv`: a tick that loses the game finds it playing, with the timer alive,
  and there is no second caller between it and the end of the game.
- `PendingOnlyForDelay`: `PendingWhileDelaying`, by `KbdOK`, with one lemma for
  each state of the keyboard machine.
- `ScreenFliesTheGame`: the screen takes the engine through its own steps (a
  tick, a command, a new game) and no others, so `IndInv` and `Conservation`,
  which `AtcGameProofs` shows of an engine that is played freely, hold on the
  screen over any number of restarts. What has to be shown is that what the
  keyboard sends is a command of the engine: `Kept` says that the label typed
  first is that of a plane and that a command kept for its delay is one for the
  same plane that may be delayed, and `Fine` that each state's reaction keeps it
  so (`ReactionFine`). `LayoutAssumption` says the same of what a player taps.

### TetrisGame and TetrisScreen (`TetrisProofs`)

From `BoardAssumption` and `RoomToEnter`, for a well of any size:

- `FallingPieceFits`: `PieceFits`. Every move has tested its place (`MovedFits`);
  a new piece that does not fit ends the game (`LockFits`).
- `NothingIsLost`: `CellsConserved`. The invariant `Conserved` joins it with
  `PieceFits` and the shape of the variables: four cells are added only because
  the piece that locks fits. `ShapeOf` says that each of the nineteen shapes has
  four different cells, `LandingFits` that a hard drop ends in a place that fits
  (the way down is finite, so there is a last such place), `PlacedFills` that
  locking adds four cells, `ClearedFills` that clearing takes away the full rows
  and nothing else: rows that stay keep their order as they sink
  (`SinkingKeepsOrder`), so the cells that stay map one to one onto those that
  are left.
- `RowsKeepOrder`: `ClearsInOrder`. The invariant is `Conserved` with no full
  row on the board: then the full rows are among the at most four that the piece
  covers (`FourRowsAtMost`), and the full rows below a row that stays, with
  those above it, are all of them, so sinking by the former puts it at its place
  among the rows that stay, below as many empty ones (`SinksBelowEmpty`).
- `ScreenPlaysTheGame`: timer, keys, buttons and dialogs only ever take the
  engine through its own steps and new games, hence `PieceFits` and
  `CellsConserved` hold on the screen, over restarts, as well.
- `EveryEndAnnounced`: `GameOverAnnounced`. Of the events of the screen only the
  three that let a piece lock can end a game (`EndIsSaid`), and each of them
  opens the dialog; `Dialogs` says that their number is one that can grow.
- `TimerLives` and `PaceBounded`: `TimerIffPlaying` and `NeverTooFast`, from
  `PaceInv`: besides the two it says that the level is the one of the lines.
  Lines only grow within a game (`LockProgress`), hence so does the level
  (`LevelGrows`), and a higher level asks for a shorter period (`PaceFalls`),
  so a period left from a lower level is never too fast.

### AtcTower (`AtcTowerUpdate`, `AtcTowerProofs`)

From `AtcTowerAssumption` (ends and beacons on the radar, planes that do not
leave where they came from), for any radar, any number of planes, commands and
alarms, and lists of any length:

- `Types`, `ProperLists`, `Places`, `Apart`, `Conserved`: `TypeOK`,
  `ListsLinked`, `Whereabouts`, `Separation`, `Conservation`.
- `SearchesFind`: `SearchFinds`; `OrdersMeant`: `OrdersAsMeant`.

The inductive invariant (`Invariance`) is `Board /\ MainInv /\ SearchInv /\
OrderInv` with the types of what is left.

`Board` is what holds between two instructions of the program. Its heart is
`Whole`: the members of a list, as a set, are such that head and each `next` lead
to the least plane number that is left, tail and each `prev` to the greatest.
Said that way a list needs no recursion, and `append` and `delete` are proved
once for a set with one more or one less (`InsertList`, `DeleteList`). The loops
of the handler are functions on `0 .. n`; an induction over the natural numbers
(`Induction`, `Iteration`) turns each into a statement about the set of planes
it has treated: `TakenOffLists`, `WithoutGoneList`. `UpdateTicks` puts the
handler together: a tick loses the game, or every plane in the air has flown as
`Flown` says, those that are gone have left, and at most one has entered
(`Ticked`). `TickKeepsLists`, `TickWhereabouts`, `TickSeparates` and
`TickCounts` follow from that.

`SearchInv` is about a search that an alarm has interrupted. It says that there
is a set of places the search may come to (`Pool`): the planes in the lists, and
those that were deleted during the search, whose links still lead back. A
deleted plane's `next` may point to another deleted plane, but never past a
plane that stayed (`Upto`), and from the list of the air it never leads back to
the ground. So the number searched for is still ahead as long as its plane is in
the list (`Awaits`), and a plane found with that number is the plane that was
copied, as long as that is in a list. A plane that takes off carries a search of
the ground with it into the list of the air: then nothing is claimed of the
planes behind it, and `stays`, which says of whom it is, loses them all.

`OrderInv` follows the copy: for as long as its plane is in a list the copy's
mark differs from the plane's only by what the command says or by the beacon
passed in between, and on the ground the copy is not turned.
`ExecutedDoes` says what the calls of one typed command do to a copy, whatever
path through the state tables has left them on the stack.

### SailSync (`SailSyncProofs`)

From `SailSyncAssumption`, for any processes, records and number of tries:

- `InvariantHolds`: `IndInv == Shape /\ Exclusive /\ AtEnd /\ Trying /\ Bounded
  /\ Moved /\ Writing`. `Writing` is what a `Write` that was begun knows wherever
  it goes on: whether the alarm has come into it (`Resumed`), and what its scan
  will find from `sync_bp` to the next NUL (`Found`) - its own text, the text of
  the last `Sync` with its own behind it, or what `newturn` has left.
- `TypeCorrect`, `AccessExclusive`: `TypeOK`, `Exclusive`.
- `SyncIsLog`: `Spec => LogSpec`, the refinement of `SailLog`. A step of the code
  is a step of the log (a record kept, read, the buffer added, a process that
  ends) or a stutter (calls, tries, the end of the reading). A scan is an issue,
  a repetition of what was added last, with or without the record, or, when the
  record was lost, nothing (`KeepRefines`). What the abstract
  guard asks, that a process has read everything before it adds, is `AtEnd`
  together with `Exclusive`: nobody else can have added between the end of the
  reading and the writing.
- `CopyFollowsLog`: `CopyIsLog`; `CountsAddUp`: `SnagsCounted`.

The copies need more than the log's order, since a process applies its own
records when it writes them and the others' when it reads them. `CopyInv` is
`Copies` (every copy is well formed), `Foreign` (what a live process has not
read yet, others have written), `Counts` (numbers and tables agree, and what is
so between the two assignments, `HalfDone`) and `UpToDate`: the copy of a
process that was not cut is the `Same` as the replay of the log up to where it
has read, followed by what it has kept and applied. `Same` leaves out what two processes may
write, where order shows. Reading a record that others wrote puts it before the
kept ones: `ReadLate` shows, by induction over the kept records, that it may as
well come last, each exchange being `Commute`. For the counts, `TableChanges`
says that a record changes one entry of a table by as much as the number beside
it.

`SailSyncAssumption` asks that the records issued are well formed (what the
callers of `Write` pass: `IsRecord`) and that one process alone issues the turn,
which is the driver (dr_1.c:439).

### SailFleet (`SailFleetProofs`)

From `SailFleetAssumption`, for any finite number of players, any ships, files,
drivers and periods, and whoever is killed when:

- `PeopleAreCounted`: `PeopleCounted`, the number of people a driver goes by.
- `NobodyIsAbandoned`: `NotAbandoned`, provided `Pace = 1` and `AliveEvery + 2 <=
  CheckEvery`.

The two hypotheses of the second are part of what it says. `Pace = 1` is what
`NotAbandoned` means by keeping pace: a player comes to each turn before the
driver counts the next. The periods are 50 and 55 in the code, and two is the
margin: a turn for the report to wait for the next `Sync`, and one because the
driver looks in a turn it has not written yet. Both are needed: TLC finds
`NotAbandoned` violated with `Pace = 2`, and with periods one apart (4 and 5).

The argument is `LookInv`. What a driver would learn if it looked now must be
right for each player that has been at sea since its last look: either the
driver has read a report (`dalive`), or the player has since come past no turn
on which it must report, except for the last it has seen, whose report it holds
for its next `Sync` (`Unheard`). `Sole` says that a file with one driver has its
turns counted by that one only. When the driver then looks without having heard,
there would be `AliveEvery` turns in a row without a multiple of `AliveEvery`
(`ReportDue`, from `MultipleAhead`). The arithmetic of `%` that this takes is
proved from the definition of division (`Division`, `Remainder`, `Following`);
`TurnGoesOn` says that it survives the wrap of the model's turn counter, which
is at a multiple of both periods.

The inductive invariant of the count is `Shape /\ Aboard /\ PeopleCounted`. `Aboard` says
that who is past `startgame`, and a driver that runs, has the file open: a
record is then counted in the file its writer belongs to. Every step of the
fleet meets the count in one of three ways: nobody comes or goes
(`NobodyMoves`), one player does and the number follows (`OneComes`, `OneGoes`);
what `Sync` adds to the number is `SyncWords`.

### HuntGame (`HuntGameProofs`)

From `HuntAssumption`, for any number of slots and connections:
`IndInv == Shape /\ PollFollows /\ DeadSoFar`. `DeadSoFar` says how far the
round has come with the dead: in the phase of `zap` no slot before the loop's is
dead, which is only kept because the loop looks again at the slot it has filled.

- `EntriesFollowPlayers`: `PollFollows`.
- `ZapMissesNobody`: `TheDeadAreGone`.
- `EveryDeathIsOneKill`: `DeathsAreKills`, by `DeathInv`: every shot in the air,
  in the round that moves or in a blast is credited to somebody or to nobody
  (`ShotsKnown`), and the sums of kills and of deaths are those of the
  connections that are gone (`Counted`). A death adds one connection to `Gone`,
  one to the deaths of its person and one to somebody's kills, whoever has moved
  into the slot of the one who shot.

### Only model-checked

The liveness properties, which the prover does not do: `NoEternalFlight`,
`LossIsShown`, `StaleSelectionDropped`, `PieceLands`, `FlightsEnd`,
`SyncReturns`, `DriverGoes` and `EndSpreads`. And the run that looks for a
violation, `OneDriver`.

## Not modelled

- Wording, colours, layout, painting, scores of the Dart games: no property is
  about them.
- The scenario parser: a tokenizer over fixed asset files; what the engine needs
  of its result is `ScenarioAssumption`.
- Exceptions that end in the event loop: `setState` after leaving while the
  scenarios load (atc_screen.dart:69), an empty scenario list.
- C `atc`: the score file (log.c), the display, the scenario grammar.
- `sail`: combat, movement, boarding and the display. `sync_buf` has no bound in
  the model, while `Write` cuts a record that does not fit; nothing in the code
  bounds what a turn writes.
- `hunt`: the maze, charges, monitors, the server with `-s`, the client.
- C `phantasia`, whose players meet through a file without a lock; Boggle and
  Hangman, whose screens have a few races with their dialogs; the other C games,
  which are sequential programs of one process.

## Plan

What would come next, in this order:

1. `BoggleScreen` and `HangmanScreen`: the `await` on the solver, the timer, the
   load after leaving, new games against the dialog, with the solver compared
   with a reference definition on small boards.
2. An abstract game session (playing, ended, announced, left) that `AtcScreen`
   and `TetrisScreen` refine.
3. The battle of `sail` and the score file of C `atc`.
