--------------------------- MODULE HuntGameProofs ---------------------------
(***************************************************************************)
(* For any number of slots, connections and shots: the poll entries follow *)
(* the players, no dead player is left where the driver waits, and every   *)
(* death that is somebody's doing is one kill.                             *)
(***************************************************************************)
EXTENDS HuntGame, SequenceTheorems, FiniteSetTheorems, TLAPS

Players == [conn : Conns, pending : Nat, dead : BOOLEAN]
Lines == {"off", "calling", "open", "over", "refused"}

Shape ==
  /\ Player \in Seq(Players) /\ Len(Player) <= MaxPl
  /\ fdset \in [Slots -> [fd : Conns \cup {Nobody}, ready : BOOLEAN]]
  /\ line \in [Conns -> Lines]
  /\ unread \in [Conns -> Nat]
  /\ turn \in Nat \ {0}

(* How far the round has come with the dead.                                *)
DeadSoFar ==
  /\ phase \in {"poll", "answer", "ready", "linger", "exit"}
       => \A i \in Active : ~Player[i].dead
  /\ phase = "zap" => \A i \in Active : i < turn => ~Player[i].dead
  /\ phase = "moveshots" => turn = 1

IndInv == Shape /\ PollFollows /\ DeadSoFar

LEMMA InitIndInv == Init => IndInv
  BY HuntAssumption
  DEF Init, IndInv, Shape, PollFollows, DeadSoFar, Active, Slots, Players, Lines

LEMMA SlotTypes ==
  ASSUME IndInv, NEW i \in Active
  PROVE  /\ Player[i] \in Players
         /\ Player[i].conn \in Conns /\ Player[i].pending \in Nat /\ Player[i].dead \in BOOLEAN
<1>1. Player[i] \in Players
  BY DEF IndInv, Shape, Active
<1> QED
  BY <1>1 DEF Players

LEMMA ActiveSlots ==
  ASSUME IndInv
  PROVE  Active \subseteq Slots /\ Len(Player) \in Nat
  BY HuntAssumption DEF IndInv, Shape, Active, Slots

(* A step that keeps who has which slot keeps PollFollows.                  *)
LEMMA SameSlots ==
  ASSUME IndInv, Len(Player') = Len(Player),
         \A i \in Active : Player'[i].conn = Player[i].conn,
         \A i \in Slots : fdset'[i].fd = fdset[i].fd,
         UNCHANGED Nplayer,
         \A c \in Conns : line'[c] = "open" <=> line[c] = "open"
  PROVE  PollFollows'
<1>1. Active' = Active
  BY DEF Active
<1>2. \A i \in Active : Player[i].conn \in Conns
  BY SlotTypes
<1>3. Active \subseteq Slots
  BY ActiveSlots
<1> QED
  BY <1>1, <1>2, <1>3 DEF IndInv, PollFollows

(* Feeding the player of a slot a character, and killing one.               *)
LEMMA FedKeeps ==
  ASSUME IndInv, NEW i \in Active
  PROVE  /\ Fed(i) \in Seq(Players) /\ Len(Fed(i)) = Len(Player)
         /\ \A j \in Active : Fed(i)[j].conn = Player[j].conn
<1>1. unread[Player[i].conn] \in Nat /\ Player[i] \in Players
  BY SlotTypes DEF IndInv, Shape
<1> DEFINE got == unread[Player[i].conn]
           n == IF Player[i].pending > 0 THEN Player[i].pending - 1
                ELSE IF got > 0 THEN got - 1 ELSE 0
<1>2. n \in Nat /\ Fed(i) = [Player EXCEPT ![i] = [Player[i] EXCEPT !.pending = n]]
  BY <1>1, SlotTypes DEF Fed
<1> HIDE DEF n
<1>3. /\ [Player[i] EXCEPT !.pending = n] \in Players
      /\ [Player[i] EXCEPT !.pending = n].conn = Player[i].conn
  BY <1>1, <1>2, SlotTypes DEF Players
<1> QED
  BY <1>2, <1>3 DEF IndInv, Shape, Active

LEMMA KillKeeps ==
  ASSUME NEW players \in Seq(Players), NEW i \in 1..Len(players)
  PROVE  /\ [players EXCEPT ![i].dead = TRUE] \in Seq(Players)
         /\ Len([players EXCEPT ![i].dead = TRUE]) = Len(players)
         /\ \A j \in 1..Len(players) :
              [players EXCEPT ![i].dead = TRUE][j].conn = players[j].conn
<1>1. players[i] \in Players
  OBVIOUS
<1>2. /\ [players[i] EXCEPT !.dead = TRUE] \in Players
      /\ [players[i] EXCEPT !.dead = TRUE].conn = players[i].conn
  BY <1>1 DEF Players
<1> QED
  BY <1>2

(* A step of the loop over the commands or over the shots.                  *)
LEMMA HitKeeps ==
  ASSUME IndInv, phase \in {"execute", "moveshots"}, UNCHANGED <<phase, fdset, line, Nplayer>>,
         Player' \in Seq(Players), Len(Player') = Len(Player),
         \A j \in Active : Player'[j].conn = Player[j].conn,
         unread' \in [Conns -> Nat], turn' \in Nat \ {0},
         phase = "moveshots" => UNCHANGED turn
  PROVE  IndInv'
<1>1. PollFollows'
  BY SameSlots
<1> QED
  BY <1>1 DEF IndInv, Shape, DeadSoFar, Slots

LEMMA CommandKeeps ==
  ASSUME IndInv, NEW i \in Slots, HaveChar(i),
         \/ Player' = Fed(i)
         \/ \E j \in Active : Player' = [Fed(i) EXCEPT ![j].dead = TRUE]
  PROVE  IndInv'
<1>1. i \in Active /\ phase = "execute" /\ UNCHANGED <<phase, fdset, line, Nplayer>>
  BY DEF HaveChar, Active, Slots, IndInv, Shape
<1>2. unread' \in [Conns -> Nat] /\ turn' \in Nat \ {0}
  <2>1. /\ i \in Nat /\ turn' = i + 1
        /\ \/ unread' = unread \/ unread' = [unread EXCEPT ![Player[i].conn] = 0]
    BY HuntAssumption DEF HaveChar, Slots
  <2> QED
    BY <2>1 DEF IndInv, Shape
<1>3. /\ Player' \in Seq(Players) /\ Len(Player') = Len(Player)
      /\ \A j \in Active : Player'[j].conn = Player[j].conn
  <2>1. /\ Fed(i) \in Seq(Players) /\ Len(Fed(i)) = Len(Player)
        /\ \A j \in Active : Fed(i)[j].conn = Player[j].conn
    BY <1>1, FedKeeps
  <2>2. CASE Player' = Fed(i)
    BY <2>1, <2>2
  <2>3. ASSUME NEW j \in Active, Player' = [Fed(i) EXCEPT ![j].dead = TRUE]
        PROVE  /\ Player' \in Seq(Players) /\ Len(Player') = Len(Player)
               /\ \A k \in Active : Player'[k].conn = Player[k].conn
    <3>1. j \in 1..Len(Fed(i)) /\ 1..Len(Fed(i)) = Active
      BY <2>1, <2>3 DEF Active
    <3>2. /\ Player' \in Seq(Players) /\ Len(Player') = Len(Fed(i))
          /\ \A k \in 1..Len(Fed(i)) : Player'[k].conn = Fed(i)[k].conn
      BY <2>1, <2>3, <3>1, KillKeeps
    <3> QED
      BY <2>1, <3>1, <3>2
  <2> QED
    BY <2>2, <2>3
<1> QED
  BY <1>1, <1>2, <1>3, HitKeeps

LEMMA ShotKillKeeps ==
  ASSUME IndInv, NEW i \in Active, phase = "moveshots",
         Player' = [Player EXCEPT ![i].dead = TRUE],
         UNCHANGED <<phase, turn, fdset, line, unread, Nplayer>>
  PROVE  IndInv'
<1>1. /\ Player' \in Seq(Players) /\ Len(Player') = Len(Player)
      /\ \A j \in Active : Player'[j].conn = Player[j].conn
  BY KillKeeps DEF IndInv, Shape, Active
<1> QED
  BY <1>1, HitKeeps DEF IndInv, Shape

LEMMA AdmitKeeps ==
  ASSUME IndInv, NEW c \in Conns, Admit(c)
  PROVE  IndInv'
<1> DEFINE n == Len(Player)
<1>1. /\ n \in Nat /\ n < MaxPl /\ line[c] = "calling" /\ phase = "answer" /\ phase' = "ready"
      /\ NewPlayer(c) \in Players /\ n + 1 \in Slots
  BY HuntAssumption DEF Admit, Calling, IndInv, Shape, NewPlayer, Players, Slots
<1>2. /\ Player' = Append(Player, NewPlayer(c)) /\ Player' \in Seq(Players)
      /\ Len(Player') = n + 1 /\ Player'[n + 1] = NewPlayer(c)
      /\ \A i \in Active : Player'[i] = Player[i]
  BY <1>1 DEF Admit, IndInv, Shape, Active
<1>3. Shape'
  <2>1. fdset' \in [Slots -> [fd : Conns \cup {Nobody}, ready : BOOLEAN]]
    BY <1>1 DEF Admit, IndInv, Shape
  <2>2. line' \in [Conns -> Lines]
    BY DEF Admit, IndInv, Shape, Lines
  <2> QED
    BY <1>1, <1>2, <2>1, <2>2, HuntAssumption DEF Admit, IndInv, Shape
<1>4. /\ fdset'[n + 1].fd = c
      /\ \A i \in Slots \ {n + 1} : fdset'[i] = fdset[i]
      /\ line' = [line EXCEPT ![c] = "open"] /\ Nplayer' = Nplayer + 1
  BY <1>1 DEF Admit, IndInv, Shape
<1>5. Active' = Active \cup {n + 1} /\ n + 1 \notin Active /\ Player'[n + 1].conn = c
  BY <1>1, <1>2 DEF Active, NewPlayer
<1>6. \A i \in Active : Player[i].conn # c /\ Player[i].conn \in Conns
  BY <1>1, SlotTypes DEF IndInv, PollFollows
<1>7. PollFollows'
  <2>1. Nplayer' = Len(Player') /\ \A c1 \in Conns \ {c} : line'[c1] = line[c1]
    BY <1>1, <1>2, <1>4 DEF IndInv, Shape, PollFollows
  <2>2. line'[c] = "open" /\ \A i \in Active : i \in Slots \ {n + 1}
    BY <1>1, <1>4, <1>5, ActiveSlots DEF IndInv, Shape
  <2>3. \A i \in Active' : fdset'[i].fd = Player'[i].conn /\ line'[Player'[i].conn] = "open"
    <3>1. \A i \in Active : fdset[i].fd = Player[i].conn /\ line[Player[i].conn] = "open"
      BY DEF IndInv, PollFollows
    <3>2. \A i \in Active : fdset'[i].fd = Player'[i].conn /\ line'[Player'[i].conn] = "open"
      <4>1. ASSUME NEW i \in Active
            PROVE  Player'[i].conn = Player[i].conn /\ fdset'[i].fd = fdset[i].fd
        BY <1>2, <1>4, <2>2
      <4>2. ASSUME NEW i \in Active
            PROVE  line'[Player[i].conn] = line[Player[i].conn]
        BY <1>6, <2>1
      <4> QED
        BY <3>1, <4>1, <4>2
    <3> QED
      BY <1>4, <1>5, <2>2, <3>2
  <2>4. \A i \in Slots \ Active' : fdset'[i].fd = Nobody
    BY <1>4, <1>5 DEF IndInv, PollFollows
  <2>5. \A c1 \in Conns : line'[c1] = "open" => \E i \in Active' : Player'[i].conn = c1
    <3>1. \A c1 \in Conns : line[c1] = "open" => \E i \in Active : Player[i].conn = c1
      BY DEF IndInv, PollFollows
    <3>2. \A c1 \in Conns \ {c} : line'[c1] = "open" => \E i \in Active : Player'[i].conn = c1
      BY <1>2, <2>1, <3>1
    <3> QED
      BY <1>5, <3>2
  <2>6. \A i, j \in Active' : Player'[i].conn = Player'[j].conn => i = j
    <3>1. \A i, j \in Active : Player[i].conn = Player[j].conn => i = j
      BY DEF IndInv, PollFollows
    <3>2. \A i \in Active : Player'[i].conn = Player[i].conn /\ Player'[i].conn # c
      BY <1>2, <1>6
    <3> QED
      BY <1>5, <3>1, <3>2
  <2> QED
    BY <2>1, <2>3, <2>4, <2>5, <2>6 DEF PollFollows
<1>8. DeadSoFar'
  <2>1. ~NewPlayer(c).dead /\ \A i \in Active : ~Player[i].dead
    BY <1>1 DEF NewPlayer, IndInv, DeadSoFar
  <2>2. \A i \in Active' : ~Player'[i].dead
    BY <1>2, <1>5, <2>1
  <2> QED
    BY <1>1, <2>2 DEF DeadSoFar
<1> QED
  BY <1>3, <1>7, <1>8 DEF IndInv

LEMMA ZapKeeps ==
  ASSUME IndInv, NEW i \in Slots, Zap(i)
  PROVE  IndInv'
<1> DEFINE n == Len(Player)
           gone == Player[i].conn
<1>1. /\ n \in Nat /\ n <= MaxPl /\ i \in Active /\ i >= turn /\ n \in Active
      /\ phase = "zap" /\ UNCHANGED phase /\ turn' = i /\ Nplayer' = Nplayer - 1
      /\ \A j \in Active : j >= turn /\ j < i => ~Player[j].dead
  BY DEF Zap, TheSameSlot, IndInv, Shape, Active, Slots
<1>2. /\ Player' \in Seq(Players) /\ Len(Player') = n - 1
      /\ \A j \in 1..(n - 1) : Player'[j] = IF j = i THEN Player[n] ELSE Player[j]
  <2>1. /\ Compacted(Player, i) \in Seq(Players) /\ Len(Compacted(Player, i)) = n
        /\ \A j \in 1..n : Compacted(Player, i)[j] = IF j = i THEN Player[n] ELSE Player[j]
    BY <1>1 DEF Compacted, IndInv, Shape, Active
  <2>2. Player' = SubSeq(Compacted(Player, i), 1, n - 1)
    BY <2>1 DEF Zap, Front
  <2>3. \A j \in 1..(n - 1) : Compacted(Player, i)[j] \in Players
    BY <1>1, <2>1
  <2>4. /\ Player' \in Seq(Players) /\ Len(Player') = IF 1 <= n - 1 THEN n - 1 ELSE 0
        /\ \A j \in 1..(n - 1) : Player'[j] = Compacted(Player, i)[j]
    BY <1>1, <2>2, <2>3, SubSeqProperties, Z3
  <2> QED
    BY <1>1, <2>1, <2>4 DEF Active
<1>3. /\ fdset' \in [Slots -> [fd : Conns \cup {Nobody}, ready : BOOLEAN]]
      /\ fdset'[n].fd = Nobody
      /\ i # n => fdset'[i] = fdset[n]
      /\ \A j \in Slots \ {i, n} : fdset'[j] = fdset[j]
  <2>1. fdset' = [[fdset EXCEPT ![i] = fdset[n]] EXCEPT ![n].fd = Nobody]
    BY DEF Zap, EntriesCompacted, Compacted
  <2>2. i \in Slots /\ n \in Slots
    BY <1>1, ActiveSlots
  <2> DEFINE f == [fdset EXCEPT ![i] = fdset[n]]
  <2>3. f \in [Slots -> [fd : Conns \cup {Nobody}, ready : BOOLEAN]]
    BY <2>2 DEF IndInv, Shape
  <2>4. /\ [f[n] EXCEPT !.fd = Nobody] \in [fd : Conns \cup {Nobody}, ready : BOOLEAN]
        /\ [f[n] EXCEPT !.fd = Nobody].fd = Nobody
    BY <2>2, <2>3
  <2>5. i # n => f[i] = fdset[n]
    BY <2>2 DEF IndInv, Shape
  <2>6. \A j \in Slots \ {i, n} : f[j] = fdset[j]
    BY <2>2 DEF IndInv, Shape
  <2>7. fdset' = [f EXCEPT ![n] = [f[n] EXCEPT !.fd = Nobody]]
    BY <2>1
  <2> HIDE DEF f
  <2> QED
    BY <2>2, <2>3, <2>4, <2>5, <2>6, <2>7
<1>4. /\ gone \in Conns /\ line' = [line EXCEPT ![gone] = "over"]
      /\ \A j \in Active : Player[j].conn = gone => j = i
      /\ \A j \in Active : Player[j].conn \in Conns
  BY <1>1, SlotTypes DEF Zap, IndInv, PollFollows
<1>5. Shape'
  <2>1. line' \in [Conns -> Lines] /\ unread' \in [Conns -> Nat]
    BY <1>4 DEF Zap, IndInv, Shape, Lines
  <2>2. turn' \in Nat \ {0} /\ Len(Player') <= MaxPl
    BY <1>1, <1>2, HuntAssumption DEF Slots, Active
  <2> QED
    BY <1>2, <1>3, <2>1, <2>2 DEF Shape
<1>6. Active' = 1..(n - 1) /\ Active = 1..n
  BY <1>1, <1>2 DEF Active
<1>7. PollFollows'
  <2>1. Nplayer' = Len(Player)'
    BY <1>1, <1>2 DEF IndInv, PollFollows
  <2>2. \A j \in Active' : fdset'[j].fd = Player'[j].conn /\ line'[Player'[j].conn] = "open"
    <3>1. \A j \in Active : fdset[j].fd = Player[j].conn /\ line[Player[j].conn] = "open"
      BY DEF IndInv, PollFollows
    <3>2. \A j \in 1..(n - 1) : j \in Active /\ j \in Slots /\ j # n
      BY <1>1, <1>6, ActiveSlots
    <3>3. line \in [Conns -> Lines]
      BY DEF IndInv, Shape
    <3>4. \A j \in 1..(n - 1) : j # i => fdset'[j].fd = Player'[j].conn /\ line'[Player'[j].conn] = "open"
      BY <1>1, <1>2, <1>3, <1>4, <3>1, <3>2, <3>3
    <3>5. i # n => fdset'[i].fd = Player[n].conn /\ line'[Player[n].conn] = "open"
      BY <1>1, <1>3, <1>4, <3>1, <3>3
    <3> QED
      BY <1>2, <1>6, <3>2, <3>4, <3>5
  <2>3. \A j \in Slots \ Active' : fdset'[j].fd = Nobody
    BY <1>1, <1>3, <1>6 DEF IndInv, PollFollows, Slots
  <2>4. \A c \in Conns : line'[c] = "open" => \E j \in Active' : Player'[j].conn = c
    <3>1. SUFFICES ASSUME NEW c \in Conns, line'[c] = "open"
                   PROVE  \E j \in Active' : Player'[j].conn = c
      OBVIOUS
    <3>2. PICK j \in Active : Player[j].conn = c /\ j # i
      BY <3>1, <1>4 DEF IndInv, PollFollows, Shape
    <3>3. CASE j = n
      BY <3>2, <3>3, <1>1, <1>2, <1>6
    <3>4. CASE j # n
      BY <3>2, <3>4, <1>1, <1>2, <1>6
    <3> QED
      BY <3>3, <3>4
  <2>5. \A j, k \in Active' : Player'[j].conn = Player'[k].conn => j = k
    BY <1>1, <1>2, <1>6 DEF IndInv, PollFollows
  <2> QED
    BY <2>1, <2>2, <2>3, <2>4, <2>5 DEF PollFollows
<1>8. DeadSoFar'
  BY <1>1, <1>2, <1>6 DEF IndInv, DeadSoFar, Shape
<1> QED
  BY <1>5, <1>7, <1>8 DEF IndInv

LEMMA EntryTypes ==
  ASSUME NEW e \in [fd : Conns \cup {Nobody}, ready : BOOLEAN], NEW b \in BOOLEAN
  PROVE  [e EXCEPT !.ready = b] \in [fd : Conns \cup {Nobody}, ready : BOOLEAN]
  OBVIOUS

LEMMA Inductive == IndInv /\ [Next]_vars => IndInv'
<1>1. SUFFICES ASSUME IndInv, [Next]_vars PROVE IndInv'
  OBVIOUS
<1>2. CASE UNCHANGED vars
  BY <1>1, <1>2 DEF IndInv, Shape, PollFollows, DeadSoFar, Active, vars, driverVars, lineVars
<1>3. ASSUME NEW i \in Slots,
             Walk(i) \/ Quit(i) \/ Fire(i) \/ TripMine(i) \/ \E j \in Slots : Stab(i, j)
      PROVE  IndInv'
  <2>1. HaveChar(i) /\ i \in Active
    BY <1>3 DEF Walk, Quit, Fire, TripMine, Stab, HaveChar, Active, IndInv, Shape, Slots
  <2>2. \/ Player' = Fed(i)
        \/ \E j \in Active : Player' = [Fed(i) EXCEPT ![j].dead = TRUE]
    BY <1>3, <2>1 DEF Walk, Quit, Fire, TripMine, Stab, Dies
  <2> QED
    BY <1>1, <2>1, <2>2, CommandKeeps
<1>4. ASSUME NEW i \in Slots, BlastKills(i) \/ Lands(i)
      PROVE  IndInv'
  BY <1>1, <1>4, ShotKillKeeps DEF BlastKills, Lands, Dies, lineVars
<1>5. CASE StartShots
  <2>1. PollFollows'
    BY <1>1, <1>5, SameSlots DEF StartShots, lineVars
  <2> QED
    BY <1>1, <1>5, <2>1 DEF StartShots, lineVars, IndInv, Shape, DeadSoFar
<1>6. CASE \/ \E b \in BagToSet(moving) : FliesOn(b) \/ Absorbed(b) \/ Explodes(b)
           \/ BlastSheds \/ BlastSpent
  <2>1. UNCHANGED <<phase, driverVars, lineVars>>
    BY <1>6 DEF FliesOn, Absorbed, Explodes, NextShot, BlastSheds, BlastSpent
  <2> QED
    BY <1>1, <2>1
    DEF driverVars, lineVars, IndInv, Shape, PollFollows, DeadSoFar, Active
<1>7. CASE StartZap
  BY <1>1, <1>7
  DEF StartZap, driverVars, lineVars, IndInv, Shape, PollFollows, DeadSoFar, Active
<1>8. CASE StartAnswer
  BY <1>1, <1>8
  DEF StartAnswer, lineVars, IndInv, Shape, PollFollows, DeadSoFar, Active, Slots
<1>9. ASSUME NEW c \in Conns, Refuse(c) PROVE IndInv'
  <2>1. PollFollows'
    BY <1>1, <1>9, SameSlots DEF Refuse, driverVars, Calling, IndInv, Shape
  <2> QED
    BY <1>1, <1>9, <2>1 DEF Refuse, driverVars, IndInv, Shape, Lines, DeadSoFar, Active
<1>10. CASE Poll \/ Ready
  <2>1. fdset' \in [Slots -> [fd : Conns \cup {Nobody}, ready : BOOLEAN]]
    <3>1. \A fd : Readable(fd) \in BOOLEAN
      BY DEF Readable
    <3>2. \A i \in Slots, b \in BOOLEAN :
            [fdset[i] EXCEPT !.ready = b] \in [fd : Conns \cup {Nobody}, ready : BOOLEAN]
      BY <1>1, EntryTypes DEF IndInv, Shape
    <3>3. CASE Poll
      BY <3>1, <3>2, <3>3 DEF Poll
    <3>4. CASE Ready
      BY <3>2, <3>4 DEF Ready
    <3> QED
      BY <1>10, <3>3, <3>4
  <2>2. \A i \in Slots : fdset'[i].fd = fdset[i].fd
    BY <1>1, <1>10 DEF Poll, Ready, IndInv, Shape
  <2>3. PollFollows'
    BY <1>1, <1>10, <2>2, SameSlots DEF Poll, Ready, lineVars
  <2> QED
    BY <1>1, <1>10, <2>1, <2>3 DEF Poll, Ready, lineVars, IndInv, Shape, DeadSoFar, Active
<1>11. CASE Linger \/ Cleanup
  BY <1>1, <1>11
  DEF Linger, Cleanup, driverVars, lineVars, IndInv, Shape, PollFollows, DeadSoFar, Active
<1>12. ASSUME NEW c \in Conns, Call(c) \/ Type(c) \/ HangUp(c) PROVE IndInv'
  <2>1. PollFollows'
    BY <1>1, <1>12, SameSlots DEF Call, Type, HangUp, driverVars, IndInv, Shape
  <2>2. line' \in [Conns -> Lines] /\ unread' \in [Conns -> Nat]
    <3>1. CASE Call(c)
      BY <1>1, <3>1 DEF Call, IndInv, Shape, Lines
    <3>2. CASE Type(c)
      BY <1>1, <3>2 DEF Type, IndInv, Shape
    <3>3. CASE HangUp(c)
      BY <1>1, <3>3 DEF HangUp, IndInv, Shape
    <3> QED
      BY <1>12, <3>1, <3>2, <3>3
  <2>3. UNCHANGED <<phase, driverVars>>
    BY <1>12 DEF Call, Type, HangUp
  <2> QED
    BY <1>1, <2>1, <2>2, <2>3 DEF driverVars, IndInv, Shape, DeadSoFar, Active
<1> QED
  BY <1>1, <1>2, <1>3, <1>4, <1>5, <1>6, <1>7, <1>8, <1>9, <1>10, <1>11, <1>12,
     AdmitKeeps, ZapKeeps
  DEF Next, Round, Clients

(* However players come and go, the poll entry of a slot is that of its     *)
(* player (driver.c zap, answer.c answer).                                  *)
THEOREM EntriesFollowPlayers == Spec => []PollFollows
<1>1. IndInv => PollFollows
  BY DEF IndInv
<1> QED
  BY InitIndInv, Inductive, <1>1, PTL DEF Spec

(* However many die in one round and whoever is moved into their slots,     *)
(* the loop over zap takes all of them out before the driver waits again.   *)
THEOREM ZapMissesNobody == Spec => []TheDeadAreGone
<1>1. IndInv => TheDeadAreGone
  BY DEF IndInv, DeadSoFar, TheDeadAreGone, AtRest
<1> QED
  BY InitIndInv, Inductive, <1>1, PTL DEF Spec

------------------------------------------------------------------------------
(* Deaths and kills *)

Shots == [owner : Nat, credit : Idents \cup {Nobody}]
Counts == [gkills : Nat, bkills : Nat, deaths : Nat]

Kills == [p \in Idents |-> score[p].gkills + score[p].bkills]
Deaths == [p \in Idents |-> score[p].deaths]
Fallen(p) == {c \in Gone : Who[c] = p}

(* Whoever is credited with a shot is somebody.                             *)
ShotsKnown ==
  /\ BagToSet(Bullets) \subseteq Shots /\ BagToSet(moving) \subseteq Shots
  /\ blast \subseteq Shots

Counted ==
  /\ score \in [Idents -> Counts]
  /\ IsFiniteSet(Tally(Kills)) /\ IsFiniteSet(Tally(Deaths)) /\ IsFiniteSet(Gone)
  /\ DeathsAreKills

DeathInv == ShotsKnown /\ Counted

LEMMA OneMore ==
  ASSUME NEW S, IsFiniteSet(S), NEW x
  PROVE  /\ IsFiniteSet(S \cup {x})
         /\ Cardinality(S) \in Nat /\ Cardinality(S \cup {x}) \in Nat
         /\ Cardinality(S \cup {x}) = IF x \in S THEN Cardinality(S) ELSE Cardinality(S) + 1
  BY FS_AddElement, FS_CardinalityType

(* One more of somebody is one more pair.                                   *)
LEMMA TallyGrows ==
  ASSUME NEW f \in [Idents -> Nat], NEW p \in Idents, NEW g \in [Idents -> Nat],
         g[p] = f[p] + 1, \A q \in Idents : q # p => g[q] = f[q],
         IsFiniteSet(Tally(f))
  PROVE  IsFiniteSet(Tally(g)) /\ Cardinality(Tally(g)) = Cardinality(Tally(f)) + 1
<1> DEFINE t == <<p, f[p] + 1>>
<1>1. t \notin Tally(f)
  <2>1. ASSUME NEW q \in Idents, t \in {q} \X (1..f[q]) PROVE FALSE
    <3>1. q = p /\ f[p] + 1 \in 1..f[p]
      BY <2>1
    <3> QED
      BY <3>1
  <2> QED
    BY <2>1 DEF Tally
<1>2. Tally(g) = Tally(f) \cup {t}
  <2>1. ASSUME NEW q \in Idents
        PROVE  {q} \X (1..g[q]) = IF q = p THEN ({q} \X (1..f[q])) \cup {t} ELSE {q} \X (1..f[q])
    <3>1. CASE q = p
      <4>1. 1..g[p] = (1..f[p]) \cup {f[p] + 1}
        OBVIOUS
      <4> QED
        BY <3>1, <4>1
    <3>2. CASE q # p
      BY <3>2
    <3> QED
      BY <3>1, <3>2
  <2> HIDE DEF t
  <2> QED
    BY <2>1 DEF Tally
<1>3. IsFiniteSet(Tally(f) \cup {t}) /\ Cardinality(Tally(f) \cup {t}) = Cardinality(Tally(f)) + 1
  <2> HIDE DEF t
  <2>1. \A S, x : IsFiniteSet(S) /\ x \notin S =>
                    IsFiniteSet(S \cup {x}) /\ Cardinality(S \cup {x}) = Cardinality(S) + 1
    BY OneMore
  <2> QED
    BY <1>1, <2>1
<1> HIDE DEF t
<1> QED
  BY <1>2, <1>3, Zenon

LEMMA TallySame ==
  ASSUME NEW f, NEW g, \A q \in Idents : g[q] = f[q]
  PROVE  Tally(g) = Tally(f)
  BY DEF Tally

(* No step moves a connection out of Gone or adds one but by a death.       *)
LEMMA GoneSame ==
  ASSUME IndInv, Len(Player') = Len(Player),
         \A i \in Active : Player'[i].conn = Player[i].conn /\ Player'[i].dead = Player[i].dead,
         \A c \in Conns : line'[c] = "over" <=> line[c] = "over"
  PROVE  Gone' = Gone
<1>1. Active' = Active
  BY DEF Active
<1> QED
  BY <1>1 DEF Gone

LEMMA OneFalls ==
  ASSUME IndInv, NEW j \in Active, UNCHANGED line, Len(Player') = Len(Player),
         \A i \in Active : Player'[i].conn = Player[i].conn,
         \A i \in Active \ {j} : Player'[i].dead = Player[i].dead, Player'[j].dead
  PROVE  /\ Gone' = Gone \cup {Player[j].conn}
         /\ ~Player[j].dead => Player[j].conn \notin Gone
<1>1. Active' = Active /\ Player[j].conn \in Conns /\ line[Player[j].conn] = "open"
  BY SlotTypes DEF Active, IndInv, PollFollows
<1>2. \A i \in Active : Player[i].conn = Player[j].conn => i = j
  BY DEF IndInv, PollFollows
<1>3. ASSUME NEW c \in Conns
      PROVE  c \in Gone' <=> c \in Gone \/ c = Player[j].conn
  <2>1. CASE c = Player[j].conn
    BY <1>1, <2>1 DEF Gone
  <2>2. CASE c # Player[j].conn
    <3>1. (\E i \in Active : Player'[i].conn = c /\ Player'[i].dead)
            <=> \E i \in Active : Player[i].conn = c /\ Player[i].dead
      BY <2>2
    <3> QED
      BY <1>1, <2>2, <3>1 DEF Gone
  <2> QED
    BY <2>1, <2>2
<1>4. Gone' = Gone \cup {Player[j].conn}
  <2>1. Gone \subseteq Conns /\ Gone' \subseteq Conns
    BY DEF Gone
  <2> QED
    BY <1>1, <1>3, <2>1
<1>5. ~Player[j].dead => Player[j].conn \notin Gone
  BY <1>1, <1>2 DEF Gone
<1> QED
  BY <1>4, <1>5

(* A death that is credited to somebody is one kill and one death more, of  *)
(* a player who had not fallen.                                             *)
LEMMA DeathCounts ==
  ASSUME IndInv, Counted, NEW j \in Active, ~Player[j].dead,
         NEW c \in Conns, c = Player[j].conn, NEW owner, NEW credit \in Idents \cup {Nobody},
         score' = IF credit = Nobody THEN score ELSE Scored(j, owner, credit),
         Gone' = Gone \cup {c}, c \notin Gone
  PROVE  Counted'
<1> DEFINE p == Who[c]
<1>1. c \in Conns /\ p \in Idents
  BY DEF Idents
<1>2. IsFiniteSet(Gone) /\ IsFiniteSet(Gone')
  <2>1. IsFiniteSet(Gone)
    BY DEF Counted
  <2>2. IsFiniteSet(Gone \cup {c})
    BY <2>1, OneMore
  <2> QED
    BY <2>1, <2>2
<1>3. \A q \in Idents : IsFiniteSet(Fallen(q)) /\ Cardinality(Fallen(q)) \in Nat
  <2> SUFFICES ASSUME NEW q \in Idents PROVE IsFiniteSet(Fallen(q)) /\ Cardinality(Fallen(q)) \in Nat
    OBVIOUS
  <2> DEFINE F == Fallen(q)
  <2>1. F \subseteq Gone
    BY DEF Fallen
  <2> HIDE DEF F
  <2>2. IsFiniteSet(F) /\ Cardinality(F) \in Nat
    BY <1>2, <2>1, FS_Subset, FS_CardinalityType
  <2> QED
    BY <2>2 DEF F
<1>4. \A q \in Idents : q # p => Fallen(q)' = Fallen(q)
  BY <1>1 DEF Fallen
<1>5. Fallen(p)' = Fallen(p) \cup {c} /\ c \notin Fallen(p)
  BY <1>1 DEF Fallen
<1>6. Cardinality(Fallen(p)') = Cardinality(Fallen(p)) + 1
  <2> DEFINE F == Fallen(p)
             G == Fallen(p)'
  <2>1. IsFiniteSet(F) /\ G = F \cup {c} /\ c \notin F
    BY <1>1, <1>3, <1>5
  <2> HIDE DEF F, G
  <2>2. Cardinality(G) = Cardinality(F) + 1
    BY <2>1, OneMore
  <2> QED
    BY <2>2 DEF F, G
<1>7. \A q \in Idents : /\ score[q] \in Counts /\ score[q].gkills \in Nat
                        /\ score[q].bkills \in Nat /\ score[q].deaths \in Nat
  BY DEF Counted, Counts
<1>8. \A q \in Idents : Deaths[q] = score[q].deaths /\ score[q].deaths <= Cardinality(Fallen(q))
  BY DEF Counted, DeathsAreKills, Deaths, Fallen
<1>9. CASE credit = Nobody
  <2>1. score' = score
    BY <1>9
  <2>2. Kills' = Kills /\ Deaths' = Deaths
    BY <2>1 DEF Kills, Deaths
  <2>3. \A q \in Idents : score'[q].deaths <= Cardinality(Fallen(q)')
    BY <1>3, <1>4, <1>6, <1>7, <1>8, <2>1
  <2>4. DeathsAreKills'
    BY <2>2, <2>3 DEF Counted, DeathsAreKills, Kills, Deaths, Fallen
  <2> QED
    BY <1>2, <2>1, <2>2, <2>4 DEF Counted
<1>10. CASE credit # Nobody
  <2>1. credit \in Idents /\ score' = Scored(j, owner, credit)
    BY <1>10
  <2>2. PICK kill \in [Idents -> Counts] :
          /\ score' = [kill EXCEPT ![p].deaths = @ + 1]
          /\ \A q \in Idents : kill[q].deaths = score[q].deaths
          /\ \A q \in Idents : q # credit => kill[q] = score[q]
          /\ kill[credit].gkills + kill[credit].bkills = score[credit].gkills + score[credit].bkills + 1
    <3> DEFINE good == [score EXCEPT ![credit].gkills = @ + 1]
               bad == [score EXCEPT ![credit].bkills = @ + 1]
    <3>1. score' = [good EXCEPT ![p].deaths = @ + 1] \/ score' = [bad EXCEPT ![p].deaths = @ + 1]
      BY <2>1 DEF Scored
    <3>2. /\ good \in [Idents -> Counts]
          /\ \A q \in Idents : good[q].deaths = score[q].deaths
          /\ \A q \in Idents : q # credit => good[q] = score[q]
          /\ good[credit].gkills + good[credit].bkills = score[credit].gkills + score[credit].bkills + 1
      BY <1>7, <2>1 DEF Counted, Counts
    <3>3. /\ bad \in [Idents -> Counts]
          /\ \A q \in Idents : bad[q].deaths = score[q].deaths
          /\ \A q \in Idents : q # credit => bad[q] = score[q]
          /\ bad[credit].gkills + bad[credit].bkills = score[credit].gkills + score[credit].bkills + 1
      BY <1>7, <2>1 DEF Counted, Counts
    <3> HIDE DEF good, bad
    <3> QED
      BY <3>1, <3>2, <3>3
  <2>3. \A q \in Idents : kill[q] \in Counts /\ kill[q].gkills \in Nat /\ kill[q].bkills \in Nat /\ kill[q].deaths \in Nat
    BY <2>2 DEF Counts
  <2>4. /\ score' \in [Idents -> Counts]
        /\ score'[p].deaths = score[p].deaths + 1
        /\ \A q \in Idents : /\ q # p => score'[q].deaths = score[q].deaths
                             /\ score'[q].gkills = kill[q].gkills
                             /\ score'[q].bkills = kill[q].bkills
    <3>1. /\ score' = [kill EXCEPT ![p] = [kill[p] EXCEPT !.deaths = @ + 1]]
          /\ score'[p] = [kill[p] EXCEPT !.deaths = @ + 1]
          /\ \A q \in Idents : q # p => score'[q] = kill[q]
      BY <1>1, <2>2
    <3> DEFINE e == [kill[p] EXCEPT !.deaths = @ + 1]
    <3>2. /\ e \in Counts /\ e.deaths = kill[p].deaths + 1
          /\ e.gkills = kill[p].gkills /\ e.bkills = kill[p].bkills
      BY <1>1, <2>2, <2>3 DEF Counts
    <3> HIDE DEF e
    <3>3. score' \in [Idents -> Counts]
      BY <2>2, <3>1, <3>2 DEF e
    <3> QED
      BY <1>1, <2>2, <3>1, <3>2, <3>3 DEF e
  <2>15. \A q \in Idents : Kills[q] = score[q].gkills + score[q].bkills
    BY DEF Kills
  <2>16. Kills' = [q \in Idents |-> score'[q].gkills + score'[q].bkills]
    BY DEF Kills
  <2>17. \A q \in Idents : Kills'[q] = kill[q].gkills + kill[q].bkills
    BY <2>4, <2>16
  <2>5. Kills \in [Idents -> Nat] /\ Kills' \in [Idents -> Nat]
    <3>1. \A q \in Idents : score[q].gkills + score[q].bkills \in Nat
      BY <1>7
    <3>2. \A q \in Idents : score'[q].gkills + score'[q].bkills \in Nat
      BY <2>3, <2>4
    <3> QED
      BY <2>16, <3>1, <3>2 DEF Kills
  <2>6. Deaths \in [Idents -> Nat] /\ Deaths' \in [Idents -> Nat]
    BY <1>7, <2>4 DEF Deaths, Counts
  <2>7. Kills'[credit] = Kills[credit] + 1 /\ \A q \in Idents : q # credit => Kills'[q] = Kills[q]
    BY <2>1, <2>2, <2>15, <2>17
  <2>8. Deaths'[p] = Deaths[p] + 1 /\ \A q \in Idents : q # p => Deaths'[q] = Deaths[q]
    BY <1>1, <2>4 DEF Deaths
  <2>9. IsFiniteSet(Tally(Kills)) /\ IsFiniteSet(Tally(Deaths)) /\ Cardinality(Tally(Kills)) = Cardinality(Tally(Deaths))
    BY DEF Counted, DeathsAreKills, Kills, Deaths
  <2>10. IsFiniteSet(Tally(Kills')) /\ Cardinality(Tally(Kills')) = Cardinality(Tally(Kills)) + 1
    BY <2>1, <2>5, <2>7, <2>9, TallyGrows
  <2>11. IsFiniteSet(Tally(Deaths')) /\ Cardinality(Tally(Deaths')) = Cardinality(Tally(Deaths)) + 1
    BY <1>1, <2>6, <2>8, <2>9, TallyGrows
  <2>12. Tally(Kills)' = Tally(Kills') /\ Tally(Deaths)' = Tally(Deaths')
    BY DEF Tally
  <2>13. \A q \in Idents : score'[q].deaths <= Cardinality(Fallen(q)')
    BY <1>1, <1>3, <1>4, <1>6, <1>7, <1>8, <2>4
  <2>14. DeathsAreKills'
    BY <2>9, <2>10, <2>11, <2>12, <2>13 DEF DeathsAreKills, Kills, Deaths, Fallen
  <2> QED
    BY <1>2, <2>4, <2>10, <2>11, <2>12, <2>14 DEF Counted
<1> QED
  BY <1>9, <1>10

LEMMA CountsSame ==
  ASSUME Counted, UNCHANGED score, Gone' = Gone
  PROVE  Counted'
<1>1. Kills' = Kills /\ Deaths' = Deaths
  BY DEF Kills, Deaths
<1>2. DeathsAreKills'
  BY <1>1 DEF Counted, DeathsAreKills, Kills, Deaths
<1> QED
  BY <1>1, <1>2 DEF Counted

LEMMA FedLives ==
  ASSUME IndInv, NEW i \in Active
  PROVE  \A j \in Active : Fed(i)[j].dead = Player[j].dead
  BY SlotTypes DEF Fed, IndInv, Shape, Active

LEMMA KillsOne ==
  ASSUME NEW players \in Seq(Players), NEW i \in 1..Len(players),
         NEW after, after = [players EXCEPT ![i].dead = TRUE]
  PROVE  /\ after[i].dead
         /\ \A j \in 1..Len(players) : j # i => after[j] = players[j]
<1>1. players[i] \in Players
  OBVIOUS
<1> QED
  BY <1>1 DEF Players

(* One more falls, or the one who had fallen leaves.                        *)
LEMMA DeathKeeps ==
  ASSUME IndInv, Counted, NEW j \in Active,
         NEW players \in Seq(Players), Len(players) = Len(Player),
         \A k \in Active : players[k].conn = Player[k].conn /\ players[k].dead = Player[k].dead,
         Player' = [players EXCEPT ![j].dead = TRUE], UNCHANGED line,
         NEW owner, NEW credit \in Idents \cup {Nobody},
         score' = IF credit = Nobody THEN score ELSE Scored(j, owner, credit),
         ~Player[j].dead \/ credit = Nobody
  PROVE  Counted'
<1>1. j \in 1..Len(players) /\ Active = 1..Len(players)
  BY DEF Active
<1>2. /\ Len(Player') = Len(players)
      /\ \A k \in Active : Player'[k].conn = players[k].conn
  BY <1>1, KillKeeps
<1>3. Player'[j].dead /\ \A k \in Active \ {j} : Player'[k] = players[k]
  BY <1>1, KillsOne
<1>4. /\ Gone' = Gone \cup {Player[j].conn}
      /\ ~Player[j].dead => Player[j].conn \notin Gone
  BY <1>2, <1>3, OneFalls
<1>5. PICK c \in Conns : c = Player[j].conn
  BY SlotTypes
<1>6. CASE ~Player[j].dead
  BY <1>4, <1>5, <1>6, DeathCounts
<1>7. CASE Player[j].dead
  <2>1. c \in Gone
    BY <1>5, <1>7 DEF Gone
  <2>2. Gone' = Gone
    BY <1>4, <1>5, <2>1
  <2> QED
    BY <1>7, <2>2, CountsSame
<1> QED
  BY <1>6, <1>7

LEMMA OneShotMore ==
  ASSUME NEW bag, BagToSet(bag) \subseteq Shots, NEW b \in Shots
  PROVE  BagToSet(bag (+) SetToBag({b})) \subseteq Shots
  BY DEF BagToSet, SetToBag, (+)

LEMMA OneShotLess ==
  ASSUME NEW bag, BagToSet(bag) \subseteq Shots, NEW b
  PROVE  BagToSet(bag (-) SetToBag({b})) \subseteq Shots
  BY DEF BagToSet, SetToBag, (-)

LEMMA Disowned ==
  ASSUME NEW bag, BagToSet(bag) \subseteq Shots, NEW i
  PROVE  BagToSet(Disown(bag, i)) \subseteq Shots
<1> DEFINE D(b) == IF b.owner = i THEN [b EXCEPT !.owner = 0] ELSE b
<1>1. BagToSet(Disown(bag, i)) = {D(b) : b \in BagToSet(bag)}
  BY DEF Disown, BagOfAll, BagToSet
<1>2. \A b \in Shots : D(b) \in Shots
  BY DEF Shots
<1> HIDE DEF D
<1> QED
  BY <1>1, <1>2

LEMMA ShotTypes ==
  /\ Unowned \in Shots
  /\ \A i \in Nat, p \in Idents : Shot(i, p) \in Shots
  BY DEF Unowned, Shot, Shots

LEMMA InitDeathInv == Init => DeathInv
<1>1. SUFFICES ASSUME Init PROVE DeathInv
  OBVIOUS
<1>2. ShotsKnown
  BY <1>1 DEF Init, ShotsKnown, EmptyBag, BagToSet, SetToBag
<1>3. score \in [Idents -> Counts] /\ \A p \in Idents : score[p].deaths = 0 /\ score[p].gkills = 0 /\ score[p].bkills = 0
  BY <1>1 DEF Init, Counts
<1>4. Tally(Kills) = {} /\ Tally(Deaths) = {}
  BY <1>3 DEF Tally, Kills, Deaths
<1>5. Gone = {}
  BY <1>1 DEF Init, Gone, Active
<1>6. IsFiniteSet({}) /\ Cardinality({}) = 0
  BY FS_EmptySet
<1>7. DeathsAreKills
  <2>1. \A p \in Idents : {c \in Gone : Who[c] = p} = {}
    BY <1>5
  <2> QED
    BY <1>3, <1>4, <1>6, <2>1 DEF DeathsAreKills, Kills, Deaths
<1> QED
  BY <1>2, <1>3, <1>4, <1>5, <1>6, <1>7 DEF DeathInv, Counted

(* Characters change neither who has fallen nor what is counted.            *)
LEMMA CommandCounts ==
  ASSUME IndInv, DeathInv, NEW i \in Slots,
         \/ Walk(i) \/ Quit(i) \/ Fire(i) \/ TripMine(i)
         \/ \E j \in Slots : Stab(i, j)
  PROVE  DeathInv'
<1>1. /\ HaveChar(i) /\ i \in Active /\ i \in Nat
      /\ UNCHANGED <<line, moving, blast>>
  BY HuntAssumption
  DEF Walk, Quit, Fire, TripMine, Stab, HaveChar, Active, IndInv, Shape, Slots
<1>2. /\ Fed(i) \in Seq(Players) /\ Len(Fed(i)) = Len(Player)
      /\ \A j \in Active : Fed(i)[j].conn = Player[j].conn /\ Fed(i)[j].dead = Player[j].dead
  BY <1>1, FedKeeps, FedLives
<1>3. PICK p \in Idents : p = Who[Player[i].conn]
  BY <1>1, SlotTypes DEF Idents
<1>4. ASSUME NEW bag, BagToSet(bag) \subseteq Shots, Bullets' = bag PROVE ShotsKnown'
  BY <1>1, <1>4 DEF DeathInv, ShotsKnown
<1>5. BagToSet(Bullets) \subseteq Shots /\ Counted
  BY DEF DeathInv, ShotsKnown
<1>6. ASSUME Player' = Fed(i), UNCHANGED score PROVE Counted'
  <2>1. Gone' = Gone
    BY <1>1, <1>2, <1>6, GoneSame
  <2> QED
    BY <1>5, <1>6, <2>1, CountsSame
<1>7. CASE Walk(i)
  BY <1>4, <1>5, <1>6, <1>7 DEF Walk, DeathInv
<1>8. CASE Quit(i)
  <2>1. Player' = [Fed(i) EXCEPT ![i].dead = TRUE] /\ score' = score /\ Bullets' = Bullets
    BY <1>8 DEF Quit
  <2>2. Counted'
    BY <1>1, <1>2, <1>5, <2>1, DeathKeeps
  <2> QED
    BY <1>4, <1>5, <2>1, <2>2 DEF DeathInv
<1>9. CASE Fire(i)
  <2>1. Bullets' = Bullets (+) SetToBag({Shot(i, p)}) /\ Shot(i, p) \in Shots
    BY <1>1, <1>3, <1>9, ShotTypes DEF Fire
  <2>2. ShotsKnown'
    BY <1>4, <1>5, <2>1, OneShotMore
  <2> QED
    BY <1>6, <1>9, <2>2 DEF Fire, DeathInv
<1>10. CASE TripMine(i)
  <2>1. Bullets' = Bullets (+) SetToBag({Unowned}) /\ Unowned \in Shots
    BY <1>10, ShotTypes DEF TripMine
  <2>2. ShotsKnown'
    BY <1>4, <1>5, <2>1, OneShotMore
  <2> QED
    BY <1>6, <1>10, <2>2 DEF TripMine, DeathInv
<1>11. ASSUME NEW j \in Slots, Stab(i, j) PROVE DeathInv'
  <2>1. /\ j \in Active /\ ~Player[j].dead /\ Player' = [Fed(i) EXCEPT ![j].dead = TRUE]
        /\ score' = IF p = Nobody THEN score ELSE Scored(j, i, p)
        /\ Bullets' = Bullets
    BY <1>3, <1>11 DEF Stab, Dies
  <2>2. Counted'
    BY <1>1, <1>2, <1>3, <1>5, <2>1, DeathKeeps
  <2> QED
    BY <1>4, <1>5, <2>1, <2>2 DEF DeathInv
<1> QED
  BY <1>7, <1>8, <1>9, <1>10, <1>11

LEMMA ShotCounts ==
  ASSUME IndInv, DeathInv, NEW i \in Slots, BlastKills(i) \/ Lands(i)
  PROVE  DeathInv'
<1>1. PICK owner \in Nat, credit \in Idents \cup {Nobody} :
        /\ i \in Active /\ Dies(Player, i, owner, credit)
        /\ UNCHANGED <<line, Bullets, moving, blast>>
  <2>1. CASE Lands(i)
    BY <2>1 DEF Lands, lineVars
  <2>2. CASE BlastKills(i)
    <3>1. PICK b \in blast : Dies(Player, i, b.owner, b.credit)
      BY <2>2 DEF BlastKills
    <3>2. b.owner \in Nat /\ b.credit \in Idents \cup {Nobody}
      BY DEF DeathInv, ShotsKnown, Shots
    <3> QED
      BY <2>2, <3>1, <3>2 DEF BlastKills, lineVars
  <2> QED
    BY <2>1, <2>2
<1>2. ShotsKnown'
  BY <1>1 DEF DeathInv, ShotsKnown
<1>3. /\ Player \in Seq(Players) /\ ~Player[i].dead
      /\ Player' = [Player EXCEPT ![i].dead = TRUE] /\ UNCHANGED line
      /\ score' = IF credit = Nobody THEN score ELSE Scored(i, owner, credit)
  BY <1>1 DEF Dies, IndInv, Shape
<1>4. Counted'
  BY <1>1, <1>3, DeathKeeps DEF DeathInv
<1> QED
  BY <1>2, <1>4 DEF DeathInv

(* What flies, explodes and is spent is somebody's or nobody's.             *)
LEMMA FlightCounts ==
  ASSUME IndInv, DeathInv,
         \/ StartShots \/ BlastSheds \/ BlastSpent
         \/ \E b \in BagToSet(moving) : FliesOn(b) \/ Absorbed(b) \/ Explodes(b)
  PROVE  DeathInv'
<1>1. UNCHANGED <<Player, line, score>>
  BY DEF StartShots, BlastSheds, BlastSpent, FliesOn, Absorbed, Explodes, NextShot,
         driverVars, lineVars
<1>2. Gone' = Gone
  BY <1>1, GoneSame
<1>3. Counted'
  BY <1>1, <1>2, CountsSame DEF DeathInv
<1>4. /\ BagToSet(Bullets) \subseteq Shots /\ BagToSet(moving) \subseteq Shots
      /\ blast \subseteq Shots
  BY DEF DeathInv, ShotsKnown
<1>5. ASSUME StartShots PROVE ShotsKnown'
  BY <1>4, <1>5 DEF StartShots, ShotsKnown, EmptyBag, BagToSet, SetToBag
<1>6. ASSUME BlastSheds \/ BlastSpent PROVE ShotsKnown'
  <2>1. /\ blast' \subseteq blast /\ moving' = moving
        /\ \/ Bullets' = Bullets
           \/ \E b \in Shots : Bullets' = Bullets (+) SetToBag({b})
    BY <1>4, <1>6, ShotTypes DEF BlastSheds, BlastSpent
  <2>2. BagToSet(Bullets') \subseteq Shots
    BY <1>4, <2>1, OneShotMore
  <2> QED
    BY <1>4, <2>1, <2>2 DEF ShotsKnown
<1>7. ASSUME NEW b \in BagToSet(moving), FliesOn(b) \/ Absorbed(b) \/ Explodes(b)
      PROVE  ShotsKnown'
  <2>1. b \in Shots /\ moving' = moving (-) SetToBag({b})
    BY <1>4, <1>7 DEF FliesOn, Absorbed, Explodes, NextShot
  <2>2. BagToSet(moving') \subseteq Shots
    BY <1>4, <2>1, OneShotLess
  <2>3. /\ Bullets' = Bullets \/ Bullets' = Bullets (+) SetToBag({b})
        /\ blast' = blast \/ blast' = {b}
    BY <1>7 DEF FliesOn, Absorbed, Explodes
  <2>4. BagToSet(Bullets') \subseteq Shots
    BY <1>4, <2>1, <2>3, OneShotMore
  <2>5. blast' \subseteq Shots
    BY <1>4, <2>1, <2>3
  <2> QED
    BY <2>2, <2>4, <2>5 DEF ShotsKnown
<1> QED
  BY <1>3, <1>5, <1>6, <1>7 DEF DeathInv

(* Who is taken out of the array had fallen, and stays so.                  *)
LEMMA ZapCounts ==
  ASSUME IndInv, DeathInv, NEW i \in Slots, Zap(i)
  PROVE  DeathInv'
<1> DEFINE n == Len(Player)
           gone == Player[i].conn
<1>1. /\ n \in Nat /\ i \in Active /\ n \in Active /\ Player[i].dead
      /\ UNCHANGED <<score, moving, blast>>
  BY DEF Zap, TheSameSlot, IndInv, Shape, Active, Slots
<1>2. /\ Len(Player') = n - 1
      /\ \A j \in 1..(n - 1) : Player'[j] = IF j = i THEN Player[n] ELSE Player[j]
  <2>1. /\ Compacted(Player, i) \in Seq(Players) /\ Len(Compacted(Player, i)) = n
        /\ \A j \in 1..n : Compacted(Player, i)[j] = IF j = i THEN Player[n] ELSE Player[j]
    BY <1>1 DEF Compacted, IndInv, Shape, Active
  <2>2. Player' = SubSeq(Compacted(Player, i), 1, n - 1)
    BY <2>1 DEF Zap, Front
  <2>3. \A j \in 1..(n - 1) : Compacted(Player, i)[j] \in Players
    BY <1>1, <2>1
  <2>4. /\ Player' \in Seq(Players) /\ Len(Player') = IF 1 <= n - 1 THEN n - 1 ELSE 0
        /\ \A j \in 1..(n - 1) : Player'[j] = Compacted(Player, i)[j]
    BY <1>1, <2>2, <2>3, SubSeqProperties, Z3
  <2> QED
    BY <1>1, <2>1, <2>4 DEF Active
<1>3. Active = 1..n /\ Active' = 1..(n - 1)
  BY <1>2 DEF Active
<1>4. /\ gone \in Conns /\ line' = [line EXCEPT ![gone] = "over"]
      /\ \A j \in Active : Player[j].conn = gone => j = i
      /\ line \in [Conns -> Lines]
  BY <1>1, SlotTypes DEF Zap, IndInv, PollFollows, Shape
<1>5. ASSUME NEW c \in Conns PROVE c \in Gone' <=> c \in Gone
  <2>1. CASE c = gone
    BY <1>1, <1>4, <2>1 DEF Gone
  <2>2. CASE c # gone
    <3>1. line'[c] = line[c]
      BY <1>4, <2>2
    <3>2. ASSUME NEW j \in Active', Player'[j].conn = c, Player'[j].dead
          PROVE  \E k \in Active : Player[k].conn = c /\ Player[k].dead
      BY <1>1, <1>2, <1>3, <3>2
    <3>3. ASSUME NEW j \in Active, Player[j].conn = c, Player[j].dead
          PROVE  \E k \in Active' : Player'[k].conn = c /\ Player'[k].dead
      <4>1. j # i
        BY <2>2, <3>3
      <4>2. CASE j = n
        <5>1. i \in Active' /\ Player'[i] = Player[n]
          BY <1>1, <1>2, <1>3, <4>1, <4>2
        <5> QED
          BY <3>3, <4>2, <5>1
      <4>3. CASE j # n
        <5>1. j \in Active' /\ Player'[j] = Player[j]
          BY <1>1, <1>2, <1>3, <4>1, <4>3
        <5> QED
          BY <3>3, <5>1
      <4> QED
        BY <4>2, <4>3
    <3> QED
      BY <3>1, <3>2, <3>3 DEF Gone
  <2> QED
    BY <2>1, <2>2
<1>6. Gone' = Gone
  <2>1. Gone \subseteq Conns /\ Gone' \subseteq Conns
    BY DEF Gone
  <2> QED
    BY <1>5, <2>1
<1>7. Counted'
  BY <1>1, <1>6, CountsSame DEF DeathInv
<1>8. BagToSet(Bullets') \subseteq Shots
  <2>1. BagToSet(Bullets) \subseteq Shots
    BY DEF DeathInv, ShotsKnown
  <2>2. PICK bag : bag = Disown(Bullets, i)
    OBVIOUS
  <2>3. BagToSet(bag) \subseteq Shots
    BY <2>1, <2>2, Disowned
  <2>4. Bullets' = bag \/ Bullets' = bag (+) SetToBag({Unowned})
    BY <2>2 DEF Zap
  <2> QED
    BY <2>3, <2>4, OneShotMore, ShotTypes
<1>9. ShotsKnown'
  BY <1>1, <1>8 DEF DeathInv, ShotsKnown
<1> QED
  BY <1>7, <1>9 DEF DeathInv

LEMMA AdmitCounts ==
  ASSUME IndInv, DeathInv, NEW c \in Conns, Admit(c)
  PROVE  DeathInv'
<1> DEFINE n == Len(Player)
<1>1. /\ n \in Nat /\ line[c] = "calling" /\ line' = [line EXCEPT ![c] = "open"]
      /\ line \in [Conns -> Lines] /\ UNCHANGED <<score, Bullets, moving, blast>>
  BY DEF Admit, Calling, IndInv, Shape, shotVars
<1>2. /\ Active' = Active \cup {n + 1}
      /\ ~Player'[n + 1].dead /\ \A i \in Active : Player'[i] = Player[i]
  BY <1>1 DEF Admit, IndInv, Shape, Active, NewPlayer
<1>3. \A d \in Conns : line'[d] = "over" <=> line[d] = "over"
  BY <1>1
<1>4. Gone' = Gone
  BY <1>2, <1>3 DEF Gone
<1>5. ShotsKnown'
  BY <1>1 DEF DeathInv, ShotsKnown
<1> QED
  BY <1>1, <1>4, <1>5, CountsSame DEF DeathInv

LEMMA DeathsInductive == IndInv /\ DeathInv /\ [Next]_vars => DeathInv'
<1>1. SUFFICES ASSUME IndInv, DeathInv, [Next]_vars PROVE DeathInv'
  OBVIOUS
<1>2. ASSUME UNCHANGED <<Player, shotVars>>, \A c \in Conns : line'[c] = "over" <=> line[c] = "over"
      PROVE  DeathInv'
  <2>1. Gone' = Gone
    BY <1>1, <1>2, GoneSame
  <2>2. Counted'
    BY <1>1, <1>2, <2>1, CountsSame DEF DeathInv, shotVars
  <2>3. ShotsKnown'
    BY <1>1, <1>2 DEF DeathInv, ShotsKnown, shotVars
  <2> QED
    BY <2>2, <2>3 DEF DeathInv
<1>3. CASE \/ UNCHANGED vars \/ Poll \/ Linger \/ Cleanup \/ StartZap \/ StartAnswer \/ Ready
  BY <1>2, <1>3
  DEF Poll, Linger, Cleanup, StartZap, StartAnswer, Ready, vars, driverVars, lineVars
<1>4. ASSUME NEW c \in Conns, Refuse(c) \/ Call(c) \/ Type(c) \/ HangUp(c) PROVE DeathInv'
  BY <1>1, <1>2, <1>4 DEF Refuse, Call, Type, HangUp, Calling, driverVars, IndInv, Shape
<1> QED
  BY <1>1, <1>3, <1>4, CommandCounts, ShotCounts, FlightCounts, ZapCounts, AdmitCounts
  DEF Next, Round, Clients

(* Whoever shoots, stabs, leaves or is moved in the array meanwhile, all    *)
(* kills together are the deaths that somebody is told to have caused       *)
(* (driver.c checkdam), and nobody dies more often than he was connected.   *)
THEOREM EveryDeathIsOneKill == Spec => []DeathsAreKills
<1>1. DeathInv => DeathsAreKills
  BY DEF DeathInv, Counted
<1>2. IndInv /\ DeathInv /\ [Next]_vars => (IndInv /\ DeathInv)'
  BY Inductive, DeathsInductive
<1> QED
  BY InitIndInv, InitDeathInv, <1>1, <1>2, PTL DEF Spec
=============================================================================
