------------------------------ MODULE SailFleet ------------------------------
(***************************************************************************)
(* The life of a game of sail: players that start a scenario or join it,   *)
(* take a ship, play, and leave or are killed; the driver one of them      *)
(* forks; the sync file they find by its name (pl_7.c startgame, pl_main.c, *)
(* pl_1.c, pl_2.c newturn, dr_main.c, dr_1.c next).                        *)
(*                                                                         *)
(* A call of Sync is one step here, as SailSync shows it may be: it knows  *)
(* what the file says and adds what the process has kept.  So a file is    *)
(* the outcome of its records (game[i]), and only what a process remembers *)
(* between two calls is its own.  What SailSync has of an alarm inside     *)
(* Write (a record lost, written twice or garbled, and the Sync that fails *)
(* on a garbled one) is left out.                                          *)
(***************************************************************************)
EXTENDS Integers, FiniteSets

CONSTANTS Players, Ships,
          AliveEvery,    \* 50: players report on turns divisible by it
          CheckEvery,    \* 55: the driver looks on turns divisible by it
          TurnCycle,     \* bound: turns are kept modulo this multiple of both
          MaxFiles,      \* bound: how often the sync file is created
          MaxLost,       \* bound: players killed at sea in one game
          MaxDrivers,    \* bound: drivers that may open one file
          Pace,          \* bound: turns of the driver between two of a player's
          WindEvery,     \* 7: the wind changes on turns divisible by it
          Mortal,        \* the players that may be killed
          MortalDriver   \* the players whose driver may be killed

ASSUME SailFleetAssumption ==
  /\ IsFiniteSet(Players)
  /\ AliveEvery \in Nat \ {0} /\ CheckEvery \in Nat \ {0}
  /\ TurnCycle \in Nat \ {0}
  /\ TurnCycle % AliveEvery = 0 /\ TurnCycle % CheckEvery = 0
  /\ MaxFiles \in Nat \ {0} /\ MaxDrivers \in Nat \ {0} /\ MaxLost \in Nat /\ Pace \in Nat \ {0}
  /\ WindEvery \in Nat \ {0}

VARIABLES
  name,    \* the file behind the name #sailsink.N, or 0
  files,   \* files created so far
  game,    \* game[i]: what the records of file i amount to
  pc,      \* where a player is
  open,    \* the file a player has open (sync_fp), or 0
  has,     \* a player's hasdriver
  caps,    \* a player's copy of who commands which ship: the ships taken
  ship,    \* a player's ship (ms), or "none"
  keeps,   \* a player's sync_buf: records not yet in the file
  behind,  \* turns of the driver since the player's last Sync (for Pace)
  veteran, \* not in the program: at sea since the driver's last look (or its first turn)
  dpc,     \* where the driver forked by a player is
  dopen,   \* the file that driver has open, or 0
  dalive   \* that driver's alive flag, counting what it has not read yet

vars == <<name, files, game, pc, open, has, caps, ship, keeps, behind, veteran,
          dpc, dopen, dalive>>
playerVars == <<pc, open, has, caps, ship, keeps, behind, veteran>>
driverVars == <<dpc, dopen, dalive>>

Files == 1..MaxFiles

(* The outcome of an empty file.  The last three are not in the program:    *)
(* drivers that opened it, players that ended without W_END, and W_END      *)
(* without W_BEGIN.                                                         *)
NewGame == [turn |-> 0, people |-> 0, taken |-> {}, dead |-> FALSE, called |-> FALSE,
            storm |-> FALSE, drivers |-> 0, lost |-> 0, unbegun |-> 0]

Init == /\ name = 0 /\ files = 0
        /\ game = [i \in Files |-> NewGame]
        /\ pc = [p \in Players |-> "ashore"]
        /\ open = [p \in Players |-> 0]
        /\ has = [p \in Players |-> FALSE]
        /\ caps = [p \in Players |-> {}]
        /\ ship = [p \in Players |-> "none"]
        /\ keeps = [p \in Players |-> {}]
        /\ behind = [p \in Players |-> 0]
        /\ veteran = [p \in Players |-> FALSE]
        /\ dpc = [p \in Players |-> "none"]
        /\ dopen = [p \in Players |-> 0]
        /\ dalive = [p \in Players |-> FALSE]
-----------------------------------------------------------------------------
(***************************************************************************)
(* The sync file                                                           *)
(***************************************************************************)
(* sync_open: the file of that name, created when there is none.  (stat and *)
(* fopen are one step.)                                                     *)
Opening(i) ==
  IF name = 0
  THEN files < MaxFiles /\ i = files + 1 /\ files' = i /\ name' = i
  ELSE i = name /\ UNCHANGED <<files, name>>

(* What the records of a set do to the outcome of a file (recv_begin,       *)
(* recv_captain, recv_end, recv_alive, recv_ddead).                         *)
Added(g, recs, s) ==
  [g EXCEPT !.people = @ + (IF "BEGIN" \in recs THEN 1 ELSE 0)
                         - (IF "END" \in recs THEN 1 ELSE 0),
            !.taken = IF "END" \in recs THEN @ \ {s}
                      ELSE IF recs \cap {"BEGIN", "CAPTAIN"} # {} THEN @ \cup {s} ELSE @,
            !.called = @ \/ "ALIVE" \in recs,
            !.dead = @ \/ "DDEAD" \in recs]

(* A player's Sync: its records go to the file, and an ALIVE to every       *)
(* driver that reads it.                                                    *)
PlayerSync(p, recs) ==
  /\ game' = [game EXCEPT ![open[p]] = Added(@, recs, ship[p])]
  /\ dalive' = [d \in Players |-> dalive[d] \/ (dopen[d] = open[p] /\ "ALIVE" \in recs)]
  /\ behind' = [behind EXCEPT ![p] = 0]

(* sync_close(doremove): the name goes, whichever file it names now. *)
Removing(doremove) == name' = IF doremove THEN 0 ELSE name

Close(p, last) ==
  /\ pc' = [pc EXCEPT ![p] = last]
  /\ open' = [open EXCEPT ![p] = 0]
  /\ caps' = [caps EXCEPT ![p] = {}]
  /\ ship' = [ship EXCEPT ![p] = "none"]
  /\ keeps' = [keeps EXCEPT ![p] = {}]
  /\ has' = [has EXCEPT ![p] = FALSE]
  /\ behind' = [behind EXCEPT ![p] = 0]
  /\ veteran' = [veteran EXCEPT ![p] = FALSE]
-----------------------------------------------------------------------------
(***************************************************************************)
(* A player comes aboard                                                   *)
(***************************************************************************)
Goto(p, from, to) == pc[p] = from /\ pc' = [pc EXCEPT ![p] = to]

(* startgame: is there a game?  Then the file is opened, which is another   *)
(* look at the name.  (A file that nobody has written to for two hours is   *)
(* unlinked at the first look: left out, a game has no clock here.)         *)
AskFile(p) ==
  /\ pc[p] = "ashore" \/ (pc[p] = "killed" /\ dpc[p] = "none")  \* somebody else comes
  /\ pc' = [pc EXCEPT ![p] = "asked"]
  /\ has' = [has EXCEPT ![p] = name # 0]
  /\ UNCHANGED <<name, files, game, open, caps, ship, keeps, behind, veteran, driverVars>>

OpenFile(p) ==
  /\ Goto(p, "asked", IF has[p] THEN "joining" ELSE "forking")
  /\ \E i \in Files : Opening(i) /\ open' = [open EXCEPT ![p] = i]
  /\ behind' = [behind EXCEPT ![p] = 0]
  /\ UNCHANGED <<game, has, caps, ship, keeps, veteran, driverVars>>

(* startdriver: the driver is there before the player counts it; then the  *)
(* player waits on the pipe until its driver has opened the file or is gone. *)
ForkDriver(p) ==
  /\ Goto(p, "forking", "forked")
  /\ dpc' = [dpc EXCEPT ![p] = "start"]
  /\ UNCHANGED <<name, files, game, open, has, caps, ship, keeps, behind, veteran, dopen, dalive>>

CountDriver(p) ==
  /\ Goto(p, "forked", "waiting")
  /\ has' = [has EXCEPT ![p] = TRUE]
  /\ UNCHANGED <<name, files, game, open, caps, ship, keeps, behind, veteran, driverVars>>

DriverReports(p) ==
  /\ dpc[p] # "start"
  /\ Goto(p, "waiting", "pick")
  /\ UNCHANGED <<name, files, game, open, has, caps, ship, keeps, behind, veteran, driverVars>>

(* "Synchronizing with the other players" *)
Join(p) ==
  /\ Goto(p, "joining", "pick")
  /\ PlayerSync(p, {})
  /\ caps' = [caps EXCEPT ![p] = game[open[p]].taken]
  /\ has' = [has EXCEPT ![p] = @ /\ ~game[open[p]].dead]
  /\ UNCHANGED <<name, files, open, ship, keeps, veteran, dpc, dopen>>

(* pickship: a ship is chosen, and after another Sync it is taken or free. *)
PickShip(p) ==
  /\ pc[p] = "pick" /\ caps[p] # Ships
  /\ PlayerSync(p, {})
  /\ has' = [has EXCEPT ![p] = @ /\ ~game[open[p]].dead]
  /\ \E s \in Ships :
       IF s \in game[open[p]].taken
       THEN /\ caps' = [caps EXCEPT ![p] = game[open[p]].taken]
            /\ UNCHANGED <<pc, ship>>
       ELSE /\ caps' = [caps EXCEPT ![p] = {}]       \* not looked at any more
            /\ ship' = [ship EXCEPT ![p] = s]
            /\ pc' = [pc EXCEPT ![p] = "load"]
  /\ UNCHANGED <<name, files, open, keeps, veteran, dpc, dopen>>

(* "All ships taken in that scenario." *)
NoShips(p) ==
  /\ pc[p] = "pick" /\ caps[p] = Ships
  /\ Close(p, "left")
  /\ UNCHANGED <<name, files, game, driverVars>>

(* pickload is over; initialize: W_BEGIN goes to the file at once, the      *)
(* captain's name with the next Sync, which newturn makes.                  *)
Begin(p) ==
  /\ Goto(p, "load", "play")
  /\ PlayerSync(p, {"BEGIN"})
  /\ has' = [has EXCEPT ![p] = @ /\ ~game[open[p]].dead]
  /\ keeps' = [keeps EXCEPT ![p] = {"CAPTAIN"}]
  /\ veteran' = [veteran EXCEPT ![p] = game[open[p]].turn % CheckEvery = 0]
  /\ UNCHANGED <<name, files, open, caps, ship, dpc, dopen>>
-----------------------------------------------------------------------------
(***************************************************************************)
(* A player plays and leaves                                               *)
(***************************************************************************)
(* Variant of NewTurn: what the others say of the driver is not heard. *)
NewTurnDeaf(p) ==
  /\ pc[p] = "play"
  /\ LET recs == keeps[p] \cup IF has[p] THEN {} ELSE {"DDEAD"}
         g == Added(game[open[p]], recs, ship[p])
     IN  /\ PlayerSync(p, recs)
         /\ keeps' = [keeps EXCEPT ![p] = IF g.turn % AliveEvery = 0 /\ has[p]
                                          THEN {"ALIVE"} ELSE {}]
         /\ pc' = [pc EXCEPT ![p] = IF ~has[p] \/ g.storm THEN "leave" ELSE "play"]
  /\ UNCHANGED <<has, name, files, open, caps, ship, veteran, dpc, dopen>>

(* Variant of NewTurn: a player does not say that somebody is there. *)
NewTurnSilent(p) ==
  /\ pc[p] = "play"
  /\ LET recs == keeps[p] \cup IF has[p] THEN {} ELSE {"DDEAD"}
         g == Added(game[open[p]], recs, ship[p])
     IN  /\ PlayerSync(p, recs)
         /\ has' = [has EXCEPT ![p] = @ /\ ~g.dead]
         /\ pc' = [pc EXCEPT ![p] = IF ~has'[p] \/ g.storm THEN "leave" ELSE "play"]
  /\ keeps' = [keeps EXCEPT ![p] = {}]
  /\ UNCHANGED <<name, files, open, caps, ship, veteran, dpc, dopen>>

(* newturn, on SIGALRM: Sync, and leave when there is no driver, or a       *)
(* hurricane; on some turns say that somebody is there, with the next Sync. *)
NewTurn(p) ==
  /\ pc[p] = "play"
  /\ LET recs == keeps[p] \cup IF has[p] THEN {} ELSE {"DDEAD"}
         g == Added(game[open[p]], recs, ship[p])
     IN  /\ PlayerSync(p, recs)
         /\ has' = [has EXCEPT ![p] = @ /\ ~g.dead]
         /\ keeps' = [keeps EXCEPT ![p] = IF g.turn % AliveEvery = 0 /\ has'[p]
                                          THEN {"ALIVE"} ELSE {}]
         /\ pc' = [pc EXCEPT ![p] = IF ~has'[p] \/ g.storm THEN "leave" ELSE "play"]
  /\ UNCHANGED <<name, files, open, caps, ship, veteran, dpc, dopen>>

(* The player quits, is struck or captured: leave is called. *)
Quit(p) ==
  /\ Goto(p, "play", "leave")
  /\ UNCHANGED <<name, files, game, open, has, caps, ship, keeps, behind, veteran, driverVars>>

(* A signal before the game has begun (choke), from pl_main_init on, where  *)
(* nobody has yet asked for a driver.  Once a ship is chosen, ms is set and *)
(* leave announces an end.                                                  *)
Choke(p) ==
  /\ pc[p] \in {"ashore", "asked", "forking", "forked", "waiting", "joining", "pick", "load"}
  /\ pc' = [pc EXCEPT ![p] = IF ship[p] = "none" THEN "close" ELSE "leave"]
  /\ game' = IF ship[p] = "none" THEN game
             ELSE [game EXCEPT ![open[p]].unbegun = @ + 1]
  /\ UNCHANGED <<name, files, open, has, caps, ship, keeps, behind, veteran, driverVars>>

(* Variant of LeaveEnd: no W_END. *)
LeaveQuietly(p) ==
  /\ Goto(p, "leave", "close")
  /\ PlayerSync(p, keeps[p])
  /\ keeps' = [keeps EXCEPT ![p] = {}]
  /\ has' = [has EXCEPT ![p] = @ /\ ~game[open[p]].dead]
  /\ UNCHANGED <<name, files, open, caps, ship, veteran, dpc, dopen>>

(* leave: W_END and a last Sync, then the file is closed, and removed by    *)
(* whoever thinks that there is no driver.                                  *)
LeaveEnd(p) ==
  /\ Goto(p, "leave", "close")
  /\ PlayerSync(p, keeps[p] \cup {"END"})
  /\ keeps' = [keeps EXCEPT ![p] = {}]
  /\ has' = [has EXCEPT ![p] = @ /\ ~game[open[p]].dead]
  /\ UNCHANGED <<name, files, open, caps, ship, veteran, dpc, dopen>>

LeaveClose(p) ==
  /\ pc[p] = "close"
  /\ Removing(~has[p])
  /\ Close(p, "left")
  /\ UNCHANGED <<files, game, driverVars>>

(* child: the end of the driver it forked is reported to a player once,     *)
(* until leave ignores it.  Who hears of it before having counted the       *)
(* driver counts it all the same ("missed").                                *)
Child(p) ==
  /\ dpc[p] = "ended"
  /\ pc[p] \in {"forked", "waiting", "pick", "load", "play"}
  /\ has' = [has EXCEPT ![p] = FALSE]
  /\ dpc' = [dpc EXCEPT ![p] = IF pc[p] = "forked" THEN "missed" ELSE "heard"]
  /\ UNCHANGED <<name, files, game, pc, open, caps, ship, keeps, behind, veteran, dopen, dalive>>

(* A player is killed, with what it kept. *)
Killed(p) ==
  /\ p \in Mortal /\ pc[p] \in {"pick", "load", "play"}
  /\ game[open[p]].lost < MaxLost
  /\ Close(p, "killed")
  /\ game' = IF pc[p] = "play" THEN [game EXCEPT ![open[p]].lost = @ + 1] ELSE game
  /\ UNCHANGED <<name, files, driverVars>>
-----------------------------------------------------------------------------
(***************************************************************************)
(* The driver a player forked                                              *)
(***************************************************************************)
AtSea(p) == pc[p] \in {"play", "leave"}
Crew(i) == {p \in Players : AtSea(p) /\ open[p] = i}

DriverOpens(d) ==
  /\ dpc[d] = "start"
  /\ \E i \in Files : /\ Opening(i)
                      /\ game[i].drivers < MaxDrivers
                      /\ dopen' = [dopen EXCEPT ![d] = i]
                      /\ dalive' = [dalive EXCEPT ![d] = game[i].called]
                      /\ game' = [game EXCEPT ![i].drivers = @ + 1]
  /\ dpc' = [dpc EXCEPT ![d] = "sleep"]
  /\ UNCHANGED playerVars

(* Variant of DriverTurn: the life signs are never looked at. *)
DriverTurnTrusts(d) ==
  /\ dpc[d] = "sleep"
  /\ \A p \in Crew(dopen[d]) : behind[p] < Pace
  /\ dpc' = [dpc EXCEPT ![d] = IF game[dopen[d]].people <= 0 \/ game[dopen[d]].storm
                               THEN "over" ELSE "move"]
  /\ UNCHANGED <<name, files, game, dopen, dalive, playerVars>>

(* sleep, Sync, next: the turn is counted; every so many turns somebody     *)
(* must have called; without people, or in a hurricane, the game is over.   *)
(* The turn itself goes to the file with the Sync at its end.               *)
DriverTurn(d) ==
  /\ dpc[d] = "sleep"
  /\ \A p \in Crew(dopen[d]) : behind[p] < Pace
  /\ LET i == dopen[d]
         turn == (game[i].turn + 1) % TurnCycle
         check == turn % CheckEvery = 0
         people == IF check /\ ~dalive[d] THEN 0 ELSE game[i].people
     IN  /\ dalive' = [dalive EXCEPT ![d] = @ /\ ~check]
         /\ dpc' = [dpc EXCEPT ![d] = IF people <= 0 \/ game[i].storm THEN "over" ELSE "move"]
         /\ veteran' = [p \in Players |-> veteran[p] \/ (check /\ p \in Crew(i))]
  /\ UNCHANGED <<name, files, game, dopen, pc, open, has, caps, ship, keeps, behind>>

(* The rest of the turn, and the Sync after it.  The wind may have become a *)
(* hurricane (nothing else of it matters here).  The turn is counted from   *)
(* what the file says, not from a number of the driver's own: two drivers   *)
(* of one file never lose a turn of each other's here.                      *)
DriverSync(d) ==
  /\ dpc[d] = "move"
  /\ LET i == dopen[d]
         turn == (game[i].turn + 1) % TurnCycle
     IN  /\ \E storm \in {FALSE, turn % WindEvery = 0} :
              game' = [game EXCEPT ![i].turn = turn, ![i].storm = @ \/ storm]
         /\ behind' = [p \in Players |->
              IF AtSea(p) /\ open[p] = i /\ behind[p] < Pace THEN behind[p] + 1 ELSE behind[p]]
  /\ dpc' = [dpc EXCEPT ![d] = "sleep"]
  /\ UNCHANGED <<name, files, pc, open, has, caps, ship, keeps, veteran, dopen, dalive>>

(* sync_close(1). *)
DriverEnds(d) ==
  /\ dpc[d] = "over"
  /\ Removing(TRUE)
  /\ dpc' = [dpc EXCEPT ![d] = "ended"]
  /\ dopen' = [dopen EXCEPT ![d] = 0]
  /\ dalive' = [dalive EXCEPT ![d] = FALSE]
  /\ UNCHANGED <<files, game, playerVars>>

(* A driver is killed: the file keeps its name, unless the signal is a      *)
(* SIGHUP, for which the driver has its player's choke, from before the     *)
(* player has counted it.                                                   *)
DriverKilled(d) ==
  /\ d \in MortalDriver /\ dpc[d] \in {"start", "sleep", "move"}
  /\ \E hangup \in BOOLEAN : Removing(hangup)
  /\ dpc' = [dpc EXCEPT ![d] = "ended"]
  /\ dopen' = [dopen EXCEPT ![d] = 0]
  /\ dalive' = [dalive EXCEPT ![d] = FALSE]
  /\ UNCHANGED <<files, game, playerVars>>
-----------------------------------------------------------------------------
(* What a player's process does next, at most one thing where it is. *)
PlayerGoesOn(p) ==
  \/ OpenFile(p) \/ ForkDriver(p) \/ CountDriver(p) \/ DriverReports(p) \/ Join(p)
  \/ NewTurn(p) \/ LeaveEnd(p) \/ LeaveClose(p)

PlayerStep(p) == PlayerGoesOn(p) \/ Child(p)

(* What a player's captain decides, or what happens to them. *)
PlayerWhim(p) ==
  AskFile(p) \/ PickShip(p) \/ NoShips(p) \/ Begin(p) \/ Quit(p) \/ Choke(p) \/ Killed(p)

DriverStep(d) == DriverOpens(d) \/ DriverTurn(d) \/ DriverSync(d) \/ DriverEnds(d)

Next == \E p \in Players : PlayerStep(p) \/ PlayerWhim(p) \/ DriverStep(p) \/ DriverKilled(p)

(* Whether a player's process, or the driver it forked, has something to do. *)
Due(p) ==
  \/ pc[p] \in {"forking", "forked", "joining", "play", "leave", "close"}
  \/ pc[p] = "asked" /\ (name # 0 \/ files < MaxFiles)
  \/ pc[p] = "waiting" /\ dpc[p] # "start"

Told(p) == dpc[p] = "ended" /\ pc[p] \in {"forked", "waiting", "pick", "load", "play"}

DriverDue(d) ==
  \/ dpc[d] \in {"move", "over"}
  \/ dpc[d] = "sleep" /\ \A p \in Crew(dopen[d]) : behind[p] < Pace
  \/ /\ dpc[d] = "start"
     /\ \E i \in Files : /\ i = IF name = 0 THEN files + 1 ELSE name
                         /\ game[i].drivers < MaxDrivers

(* Processes run: the driver wakes after its sleep, a player's alarm rings, *)
(* a signal is delivered.  Nobody has to come, to choose, or to go.  (This  *)
(* is weak fairness of the three actions, stated without ENABLED, which     *)
(* costs more than all the rest.)                                           *)
Fairness ==
  \A p \in Players : /\ []<>~DriverDue(p) \/ []<><<DriverStep(p)>>_vars
                     /\ []<>~Due(p) \/ []<><<PlayerGoesOn(p)>>_vars
                     /\ []<>~Told(p) \/ []<><<Child(p)>>_vars

Spec == Init /\ [][Next]_vars /\ Fairness
-----------------------------------------------------------------------------
(***************************************************************************)
(* Properties                                                              *)
(***************************************************************************)
(* The count of people the driver goes by (dr_1.c:411) is that of the       *)
(* players at sea, off by those who ended without a word and by those who   *)
(* said farewell without having begun (a signal while the guns are loaded,  *)
(* pl_7.c:1103).                                                            *)
PeopleCounted ==
  \A i \in Files :
    game[i].people = Cardinality(Crew(i)) + game[i].lost - game[i].unbegun

(* "Each scenario can also only be running once at any given time"          *)
(* (sail.6:103): no two drivers run it.  The code asks for the file, and    *)
(* opens it and forks a driver later.                                       *)
OneDriver == Cardinality({d \in Players : dpc[d] \in {"sleep", "move"}}) <= 1

(* A game is not taken from those who play it: whoever has been at sea      *)
(* since the driver's last look for life signs (or its first turn), and     *)
(* keeps pace, does not lose the driver to the next one.  The report of a   *)
(* 50th turn waits for a Sync and must come before the 55th, whatever their *)
(* multiples.  Nobody may have choked on his guns, and the file must have   *)
(* one driver only.                                                         *)
NotAbandoned ==
  [][\A d \in Players :
       LET i == dopen[d]
       IN  /\ dpc[d] = "sleep" /\ dpc'[d] = "over"
           /\ game[i].unbegun = 0 /\ game[i].drivers = 1
           => game[i].storm \/ \A p \in Crew(i) : ~veteran[p]]_vars

(* A driver does not run for ever for nobody: when the last player is gone, *)
(* killed or not, it ends, unless somebody comes.  (Two drivers of one file *)
(* count its turns together and can both step over every 55th.)             *)
ForNobody(d) == /\ dpc[d] \in {"sleep", "move"}
                /\ Crew(dopen[d]) = {} /\ game[dopen[d]].drivers = 1
DriverGoes == \A d \in Players : ForNobody(d) ~> ~ForNobody(d)

(* A player whose driver ended leaves, and so does everybody else of the    *)
(* game as soon as one of them has said that there is no driver: nobody     *)
(* stays on a sea where nothing moves any more.  One player does: the one   *)
(* whose driver ended so early that it heard of it before counting it       *)
(* (dr_main.c:157 after pl_1.c:138).                                        *)
EndSpreads ==
  /\ \A d \in Players : dpc[d] \in {"ended", "heard"} /\ pc[d] = "play" ~> pc[d] # "play"
  /\ \A i \in Files : game[i].dead ~> Crew(i) = {}
=============================================================================
