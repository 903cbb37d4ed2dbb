------------------------------ MODULE HuntGame ------------------------------
(***************************************************************************)
(* The server of hunt: one process that polls the players' connections,    *)
(* executes one character of each, moves what is in the air, takes the     *)
(* dead out of the array of players and lets new ones in (driver.c main    *)
(* with all it calls).  Players connect, type and hang up at any time.     *)
(*                                                                         *)
(* The maze is left out: who meets what is a choice, and so is whether a   *)
(* hit is deadly.  Charges, boots, flights, cloaks and scans only decide   *)
(* whether a command does something; monitors only watch; the -s server,   *)
(* which starts again when nobody plays, is not modelled.                  *)
(***************************************************************************)
EXTENDS Integers, FiniteSets, Sequences, SequencesExt

CONSTANTS MaxPl,     \* MAXPL: slots of the array Player
          Conns,     \* connections, each used once
          Nobody,
          Who,       \* who is at the end of a connection (its IDENT)
          Team,      \* their teams
          NoTeam,    \* the team ' '
          MaxUnread, \* bound: characters in a socket that wait to be read
          MaxShots   \* bound: bullets in the air

ASSUME HuntAssumption ==
  /\ MaxPl \in Nat \ {0}
  /\ Nobody \notin {Who[c] : c \in Conns}
  /\ MaxUnread \in Nat /\ MaxShots \in Nat
  /\ Nobody \notin Conns

Idents == {Who[c] : c \in Conns}

VARIABLES
  phase,   \* where main is in its loop
  turn,    \* its slot pp - Player + 1, in the phases that go through them
  Player,  \* the array up to End_player; what is beyond is never read
  Nplayer,
  fdset,   \* the entries of the players: descriptor and POLLIN in revents
  door,    \* POLLIN of the socket that accepts
  Bullets, \* a bag: the order of the list decides nothing here
  moving,  \* the bullets moveshots has not come to (its list blist)
  blast,   \* a set of at most one: the bullet that is exploding
  score,   \* what the IDENTs count
  line,    \* a connection: "off", "calling", "open", "over" or "refused"
  eof,     \* its player has closed it
  unread   \* characters in its socket

driverVars == <<turn, Player, Nplayer, fdset, door>>
shotVars == <<Bullets, moving, blast, score>>
lineVars == <<line, eof, unread>>
vars == <<phase, driverVars, shotVars, lineVars>>

Slots == 1..MaxPl
Active == 1..Len(Player)

NewPlayer(c) == [conn |-> c, pending |-> 0, dead |-> FALSE]

Init ==
  /\ phase = "poll" /\ turn = 1
  /\ Player = <<>> /\ Nplayer = 0
  /\ fdset = [i \in Slots |-> [fd |-> Nobody, ready |-> FALSE]]
  /\ door = FALSE
  /\ Bullets = EmptyBag /\ moving = EmptyBag /\ blast = {}
  /\ score = [p \in Idents |-> [gkills |-> 0, bkills |-> 0, deaths |-> 0]]
  /\ line = [c \in Conns |-> "off"]
  /\ eof = [c \in Conns |-> FALSE]
  /\ unread = [c \in Conns |-> 0]

------------------------------------------------------------------------------
(* The players' side (hunt.c, playit.c).  Only poll looks whether somebody   *)
(* calls or has hung up, and only poll and read at what was typed: between  *)
(* two such steps one moment is as good as another.                         *)

AtRest == phase \in {"poll", "linger", "exit"}

Call(c) ==
  /\ line[c] = "off" /\ phase \in {"poll", "linger"}
  /\ line' = [line EXCEPT ![c] = "calling"]
  /\ UNCHANGED <<phase, driverVars, shotVars, eof, unread>>

Type(c) ==
  /\ line[c] = "open" /\ ~eof[c] /\ unread[c] < MaxUnread
  /\ phase \in {"poll", "execute"}
  /\ unread' = [unread EXCEPT ![c] = @ + 1]
  /\ UNCHANGED <<phase, driverVars, shotVars, line, eof>>

HangUp(c) ==                     \* one who hangs up earlier is let in first
  /\ line[c] = "open" /\ ~eof[c] /\ AtRest
  /\ eof' = [eof EXCEPT ![c] = TRUE]
  /\ UNCHANGED <<phase, driverVars, shotVars, line, unread>>

------------------------------------------------------------------------------
(* One round of the driver *)

Calling == {c \in Conns : line[c] = "calling"}

(* poll says of every descriptor whether a read would return.  It also      *)
(* returns for a datagram or a request of the scores, which change nothing. *)
Readable(fd) == fd # Nobody /\ (unread[fd] > 0 \/ eof[fd])

Poll ==
  /\ phase = "poll"
  /\ fdset' = [i \in Slots |-> [fdset[i] EXCEPT !.ready = Readable(fdset[i].fd)]]
  /\ door' = (Calling # {})
  /\ phase' = "execute"
  /\ UNCHANGED <<turn, Player, Nplayer, shotVars, lineVars>>

------------------------------------------------------------------------------
(* Damage (driver.c checkdam) *)

(* Variant: a kill counts only while the shooter is there to be told.       *)
ScoredIfOwned(i, owner, credit) ==
  LET p == Who[Player[i].conn]
      kill == IF owner = 0 THEN score ELSE [score EXCEPT ![credit].gkills = @ + 1]
  IN  [kill EXCEPT ![p].deaths = @ + 1]

(* Counting the death of slot i as a kill of the person credit, whose slot  *)
(* the shot says is owner (0 for NULL); what that slot gains by it, more    *)
(* health, is left out.                                                     *)
Scored(i, owner, credit) ==
  LET p == Who[Player[i].conn]
      kill == IF owner # i /\ (Team[p] = NoTeam \/ Team[p] # Team[credit])
              THEN [score EXCEPT ![credit].gkills = @ + 1]
              ELSE [score EXCEPT ![credit].bkills = @ + 1]
  IN  [kill EXCEPT ![p].deaths = @ + 1]

(* The hit that kills; one that only hurts changes nothing here.            *)
Dies(players, i, owner, credit) ==
  /\ ~Player[i].dead
  /\ Player' = [players EXCEPT ![i].dead = TRUE]
  /\ score' = IF credit = Nobody THEN score ELSE Scored(i, owner, credit)

------------------------------------------------------------------------------
(* Commands (driver.c havechar, execute.c) *)

Shot(owner, credit) == [owner |-> owner, credit |-> credit]
Unowned == Shot(0, Nobody)
Aloft == BagCardinality(Bullets) + BagCardinality(moving) + Cardinality(blast)

HasChar(i) == Player[i].pending > 0 \/ fdset[i].ready

(* The player's buffer after havechar and the fetch in execute.  A read of  *)
(* nothing, from a closed connection, executes what the buffer still holds. *)
Fed(i) ==
  LET got == unread[Player[i].conn]
  IN  [Player EXCEPT
         ![i].pending = IF @ > 0 THEN @ - 1 ELSE IF got > 0 THEN got - 1 ELSE 0]

(* The loop comes to the next player who has a character.                   *)
HaveChar(i) ==
  /\ phase = "execute" /\ i \in turn..Len(Player) /\ HasChar(i)
  /\ \A j \in turn..(i - 1) : ~HasChar(j)
  /\ unread' = IF Player[i].pending > 0 THEN unread
               ELSE [unread EXCEPT ![Player[i].conn] = 0]
  /\ turn' = i + 1
  /\ UNCHANGED <<phase, Nplayer, fdset, door, moving, blast, line, eof>>

(* Moves, turns, pick-ups, scans, cloaks, and all that does not succeed.    *)
Walk(i) == HaveChar(i) /\ Player' = Fed(i) /\ UNCHANGED <<Bullets, score>>

Quit(i) ==
  /\ HaveChar(i)
  /\ Player' = [Fed(i) EXCEPT ![i].dead = TRUE]
  /\ UNCHANGED <<Bullets, score>>

Fire(i) ==
  /\ HaveChar(i) /\ Aloft < MaxShots
  /\ Player' = Fed(i)
  /\ Bullets' = Bullets (+) SetToBag({Shot(i, Who[Player[i].conn])})
  /\ UNCHANGED score

TripMine(i) ==
  /\ HaveChar(i) /\ Aloft < MaxShots
  /\ Player' = Fed(i)
  /\ Bullets' = Bullets (+) SetToBag({Unowned})
  /\ UNCHANGED score

Stab(i, j) ==                    \* a stab that only hurts is a Walk
  /\ HaveChar(i) /\ j \in Active \ {i}
  /\ Dies(Fed(i), j, i, Who[Player[i].conn])
  /\ UNCHANGED Bullets

------------------------------------------------------------------------------
(* What is in the air (shots.c moveshots) *)

StartShots ==
  /\ phase = "execute" /\ \A i \in turn..Len(Player) : ~HasChar(i)
  /\ phase' = "moveshots"
  /\ turn' = 1
  /\ moving' = Bullets /\ Bullets' = EmptyBag
  /\ UNCHANGED <<Player, Nplayer, fdset, door, blast, score, lineVars>>

NextShot(b) ==
  /\ phase = "moveshots" /\ blast = {} /\ b \in BagToSet(moving)
  /\ moving' = moving (-) SetToBag({b})
  /\ UNCHANGED <<phase, driverVars, score, lineVars>>

FliesOn(b) == NextShot(b) /\ Bullets' = Bullets (+) SetToBag({b}) /\ UNCHANGED blast

Absorbed(b) == NextShot(b) /\ UNCHANGED <<Bullets, blast>>

Explodes(b) == NextShot(b) /\ blast' = {b} /\ UNCHANGED Bullets

BlastKills(i) ==
  /\ phase = "moveshots" /\ i \in Active
  /\ \E b \in blast : Dies(Player, i, b.owner, b.credit)
  /\ UNCHANGED <<phase, turn, Nplayer, fdset, door, Bullets, moving, blast, lineVars>>

(* Slime goes on, in several directions, with its owner; the mines that are *)
(* hit explode next, as shots of nobody.                                    *)
BlastSheds ==
  /\ phase = "moveshots" /\ Aloft <= MaxShots
  /\ blast # {}
  /\ \E b \in blast \cup {Unowned} : Bullets' = Bullets (+) SetToBag({b})
  /\ UNCHANGED <<phase, driverVars, moving, blast, score, lineVars>>

BlastSpent ==
  /\ phase = "moveshots" /\ blast # {}
  /\ blast' = {}
  /\ UNCHANGED <<phase, driverVars, Bullets, moving, score, lineVars>>

Lands(i) ==                               \* a flight ends (move_flyer)
  /\ phase = "moveshots" /\ moving = EmptyBag /\ blast = {}
  /\ i \in Active /\ Dies(Player, i, 0, Nobody)
  /\ UNCHANGED <<phase, turn, Nplayer, fdset, door, Bullets, moving, blast, lineVars>>

StartZap ==
  /\ phase = "moveshots" /\ moving = EmptyBag /\ blast = {}
  /\ phase' = "zap"
  /\ UNCHANGED <<driverVars, shotVars, lineVars>>

------------------------------------------------------------------------------
(* The dead leave (driver.c zap) *)

(* His bullets lose their owner; those of the player who is moved keep      *)
(* pointing to the slot he leaves.                                          *)
Disown(bag, i) ==
  LET Disowned(b) == IF b.owner = i THEN [b EXCEPT !.owner = 0] ELSE b
  IN  BagOfAll(Disowned, bag)

Compacted(array, i) == [array EXCEPT ![i] = array[Len(Player)]]

(* Variant: the entry of the dead is cleared where it is.                   *)
EntryCleared(i) == [fdset EXCEPT ![i].fd = Nobody]

EntriesCompacted(i) == [Compacted(fdset, i) EXCEPT ![Len(Player)].fd = Nobody]

(* Variant: the loop goes on with the slot after the one it has filled.     *)
TheNextSlot(i) == i + 1

(* After zap the loop looks again at the slot, which the last player fills. *)
TheSameSlot(i) == i

(* The loop comes to the next dead player.  His message, his connection and *)
(* his part in the lists go; his charges, a volcano or a drone may come out *)
(* of it as the shot of nobody.                                             *)
Zap(i) ==
  /\ phase = "zap" /\ i \in turn..Len(Player) /\ Player[i].dead
  /\ \A j \in turn..(i - 1) : ~Player[j].dead
  /\ turn' = TheSameSlot(i)
  /\ Nplayer' = Nplayer - 1
  /\ line' = [line EXCEPT ![Player[i].conn] = "over"]
  /\ \/ Bullets' = Disown(Bullets, i)
     \/ /\ Aloft < MaxShots
        /\ Bullets' = Disown(Bullets, i) (+) SetToBag({Unowned})
  /\ Player' = Front(Compacted(Player, i))
  /\ fdset' = EntriesCompacted(i)
  /\ eof' = [eof EXCEPT ![Player[i].conn] = FALSE]       \* closed: nobody reads on
  /\ unread' = [unread EXCEPT ![Player[i].conn] = 0]
  /\ UNCHANGED <<phase, door, moving, blast, score>>

------------------------------------------------------------------------------
(* The new come in (answer.c answer, stplayer), and the clients are told *)

StartAnswer ==
  /\ phase = "zap" /\ \A i \in turn..Len(Player) : ~Player[i].dead
  /\ phase' = IF door THEN "answer" ELSE "ready"
  /\ turn' = 1
  /\ UNCHANGED <<Player, Nplayer, fdset, door, shotVars, lineVars>>

Admit(c) ==
  /\ phase = "answer" /\ c \in Calling /\ Len(Player) < MaxPl
  /\ phase' = "ready"
  /\ Nplayer' = Nplayer + 1
  /\ Player' = Append(Player, NewPlayer(c))
  /\ fdset' = [fdset EXCEPT ![Len(Player) + 1].fd = c]
  /\ line' = [line EXCEPT ![c] = "open"]
  /\ UNCHANGED <<turn, door, shotVars, eof, unread>>

Refuse(c) ==
  /\ phase = "answer" /\ c \in Calling /\ Len(Player) = MaxPl
  /\ phase' = "ready"
  /\ line' = [line EXCEPT ![c] = "refused"]
  /\ UNCHANGED <<driverVars, shotVars, eof, unread>>

(* The clients are told READY.  (What poll has said is forgotten here: the  *)
(* next poll says it anew.)                                                 *)
Ready ==
  /\ phase = "ready"
  /\ phase' = IF Nplayer > 0 THEN "poll" ELSE "linger"
  /\ fdset' = [i \in Slots |-> [fdset[i] EXCEPT !.ready = FALSE]]
  /\ door' = FALSE
  /\ UNCHANGED <<turn, Player, Nplayer, shotVars, lineVars>>

(* Without players the driver waits ninety seconds for a sign of one.       *)
Linger ==
  /\ phase = "linger" /\ phase' = "poll"
  /\ UNCHANGED <<driverVars, shotVars, lineVars>>

Cleanup ==
  /\ phase = "linger" /\ Calling = {} /\ phase' = "exit"
  /\ UNCHANGED <<driverVars, shotVars, lineVars>>

------------------------------------------------------------------------------

Round ==
  \/ \E i \in Slots :
       \/ Walk(i) \/ Quit(i) \/ Fire(i) \/ TripMine(i)
       \/ \E j \in Slots : Stab(i, j)
       \/ BlastKills(i) \/ Lands(i) \/ Zap(i)
  \/ StartShots
  \/ \E b \in BagToSet(moving) : FliesOn(b) \/ Absorbed(b) \/ Explodes(b)
  \/ BlastSheds \/ BlastSpent \/ StartZap \/ StartAnswer
  \/ \E c \in Conns : Admit(c) \/ Refuse(c)
  \/ Ready

Clients == \E c \in Conns : Call(c) \/ Type(c) \/ HangUp(c)

Next == Round \/ Poll \/ Linger \/ Cleanup \/ Clients

Spec == Init /\ [][Next]_vars

------------------------------------------------------------------------------
(* Properties *)

(* However players come, die in one round and are moved in the array: the   *)
(* poll entry of a slot is that of its player, free slots have none, every  *)
(* open connection has one slot, and Nplayer counts them.                   *)
PollFollows ==
  /\ Nplayer = Len(Player)
  /\ \A i \in Active : fdset[i].fd = Player[i].conn /\ line[Player[i].conn] = "open"
  /\ \A i \in Slots \ Active : fdset[i].fd = Nobody
  /\ \A c \in Conns : line[c] = "open" => \E i \in Active : Player[i].conn = c
  /\ \A i, j \in Active : Player[i].conn = Player[j].conn => i = j

(* As many pairs as the numbers of all together.                            *)
Tally(number) == UNION {{p} \X (1..number[p]) : p \in Idents}

(* The connections whose player has died or left.                           *)
Gone == {c \in Conns : \/ line[c] = "over"
                       \/ \E i \in Active : Player[i].conn = c /\ Player[i].dead}

(* Every death that is somebody's doing is one kill, good or bad, whether   *)
(* the shooter is still there or left with his shot in the air, and nobody  *)
(* dies twice.                                                              *)
DeathsAreKills ==
  LET kills == [p \in Idents |-> score[p].gkills + score[p].bkills]
      deaths == [p \in Idents |-> score[p].deaths]
  IN  /\ Cardinality(Tally(kills)) = Cardinality(Tally(deaths))
      /\ \A p \in Idents : deaths[p] <= Cardinality({c \in Gone : Who[c] = p})

(* While the driver waits nobody is left dead in the array, also when the   *)
(* one who is moved into the slot of a dead player, or was moved there in   *)
(* the same round, is dead as well.                                         *)
TheDeadAreGone == AtRest => \A i \in Active : ~Player[i].dead

==============================================================================
