--------------------------- MODULE SailFleetProofs ---------------------------
(***************************************************************************)
(* For any finite number of players, any ships, files, drivers and periods *)
(* and whoever is killed: the number of people the driver goes by is right *)
(* in every file.  And, if the driver looks for those that are gone at     *)
(* least two turns less often than a player says that it is there, it does *)
(* not take for gone anyone that keeps pace with it.                       *)
(***************************************************************************)
EXTENDS SailFleet, FiniteSetTheorems, TLAPS

Outcomes == [turn : Int, people : Int, taken : SUBSET (Ships \cup {"none"}), dead : BOOLEAN,
             called : BOOLEAN, storm : BOOLEAN, drivers : Int, lost : Int, unbegun : Int]

Places == {"ashore", "asked", "forking", "forked", "waiting", "joining", "pick", "load", "play",
           "leave", "close", "left", "killed"}

DriverPlaces == {"none", "start", "sleep", "move", "over", "ended", "heard", "missed"}

(* The variables the count depends on, or that the others are made from. *)
Shape ==
  /\ game \in [Files -> Outcomes]
  /\ name \in Files \cup {0}
  /\ pc \in [Players -> Places]
  /\ open \in [Players -> Files \cup {0}]
  /\ ship \in [Players -> Ships \cup {"none"}]
  /\ keeps \in [Players -> SUBSET {"CAPTAIN", "ALIVE"}]
  /\ dpc \in [Players -> DriverPlaces]
  /\ dopen \in [Players -> Files \cup {0}]

(* A player that has come past startgame has the file open, and a ship only *)
(* from the loading of its guns on; a driver that runs has the file open.   *)
Aboard == \A p \in Players :
  /\ pc[p] \in {"forking", "forked", "waiting", "joining", "pick", "load", "play", "leave"}
       => open[p] \in Files
  /\ ship[p] # "none" => pc[p] \in {"load", "play", "leave", "close"}
  /\ dpc[p] \in {"sleep", "move", "over"} => dopen[p] \in Files

IndInv == Shape /\ Aboard /\ PeopleCounted

-----------------------------------------------------------------------------
(* What PeopleCounted says of one file, apart from who is at sea. *)
Words(g) == g.people - g.lost + g.unbegun

LEMMA OutcomeTypes ==
  ASSUME NEW g \in Outcomes
  PROVE  /\ g.people \in Int /\ g.lost \in Int /\ g.unbegun \in Int
         /\ Words(g) \in Int
  BY DEF Outcomes, Words

LEMMA CrewFinite ==
  ASSUME NEW i
  PROVE  IsFiniteSet(Crew(i)) /\ Cardinality(Crew(i)) \in Nat
<1>1. Crew(i) \in SUBSET Players
  BY DEF Crew
<1> QED
  BY <1>1, FS_Subset, FS_CardinalityType, SailFleetAssumption

LEMMA CountedByWords ==
  ASSUME Shape
  PROVE  PeopleCounted <=> \A i \in Files : Words(game[i]) = Cardinality(Crew(i))
<1>1. ASSUME NEW i \in Files
      PROVE  game[i].people = Cardinality(Crew(i)) + game[i].lost - game[i].unbegun
               <=> Words(game[i]) = Cardinality(Crew(i))
  <2>1. game[i].people \in Int /\ game[i].lost \in Int /\ game[i].unbegun \in Int
    BY OutcomeTypes DEF Shape
  <2>2. Cardinality(Crew(i)) \in Nat
    BY CrewFinite
  <2> QED
    BY <2>1, <2>2 DEF Words
<1> QED
  BY <1>1 DEF PeopleCounted

LEMMA CountedByWordsNext ==
  ASSUME Shape'
  PROVE  PeopleCounted' <=> \A i \in Files : Words(game'[i]) = Cardinality(Crew(i)')
<1>1. ASSUME NEW i \in Files
      PROVE  game'[i].people = Cardinality(Crew(i)') + game'[i].lost - game'[i].unbegun
               <=> Words(game'[i]) = Cardinality(Crew(i)')
  <2>1. game'[i].people \in Int /\ game'[i].lost \in Int /\ game'[i].unbegun \in Int
    BY OutcomeTypes DEF Shape
  <2>2. Crew(i)' \in SUBSET Players
    BY DEF Crew
  <2>3. Cardinality(Crew(i)') \in Nat
    BY <2>2, FS_Subset, FS_CardinalityType, SailFleetAssumption
  <2> QED
    BY <2>1, <2>3 DEF Words
<1> QED
  BY <1>1 DEF PeopleCounted

(* The three ways a step can meet the count: nobody comes or goes; one      *)
(* comes; one goes.                                                         *)
LEMMA NobodyMoves ==
  ASSUME IndInv, Shape',
         \A i \in Files : Words(game'[i]) = Words(game[i]),
         \A i \in Files : Crew(i)' = Crew(i)
  PROVE  PeopleCounted'
  BY CountedByWords, CountedByWordsNext DEF IndInv

LEMMA OneComes ==
  ASSUME IndInv, Shape', NEW p \in Players, NEW b \in Files,
         Words(game'[b]) = Words(game[b]) + 1, p \notin Crew(b), Crew(b)' = Crew(b) \cup {p},
         \A i \in Files \ {b} : Words(game'[i]) = Words(game[i]) /\ Crew(i)' = Crew(i)
  PROVE  PeopleCounted'
<1>1. Cardinality(Crew(b) \cup {p}) = Cardinality(Crew(b)) + 1
  BY CrewFinite, FS_AddElement
<1> QED
  BY <1>1, CountedByWords, CountedByWordsNext DEF IndInv

LEMMA OneGoes ==
  ASSUME IndInv, Shape', NEW p \in Players, NEW b \in Files,
         Words(game'[b]) = Words(game[b]) - 1, p \in Crew(b), Crew(b)' = Crew(b) \ {p},
         \A i \in Files \ {b} : Words(game'[i]) = Words(game[i]) /\ Crew(i)' = Crew(i)
  PROVE  PeopleCounted'
<1>1. Cardinality(Crew(b) \ {p}) = Cardinality(Crew(b)) - 1
  BY CrewFinite, FS_RemoveElement
<1> QED
  BY <1>1, CountedByWords, CountedByWordsNext DEF IndInv
-----------------------------------------------------------------------------
LEMMA NewGameTypes == NewGame \in Outcomes /\ Words(NewGame) = 0
  BY DEF NewGame, Outcomes, Words

LEMMA InitIndInv == Init => IndInv
<1> SUFFICES ASSUME Init PROVE IndInv
  OBVIOUS
<1>1. Shape
  BY NewGameTypes DEF Init, Shape, Files, Places, DriverPlaces
<1>2. Aboard
  BY DEF Init, Aboard
<1>3. \A i : Crew(i) = {}
  BY DEF Init, Crew, AtSea
<1>4. \A i \in Files : Words(game[i]) = Cardinality(Crew(i))
  BY <1>3, NewGameTypes, FS_EmptySet DEF Init
<1> QED
  BY <1>1, <1>2, <1>4, CountedByWords DEF IndInv

(* What a Sync does to the count: a begin more, an end less. *)
LEMMA AddedWords ==
  ASSUME NEW g \in Outcomes, NEW recs, NEW s \in Ships \cup {"none"}
  PROVE  /\ Added(g, recs, s) \in Outcomes
         /\ Words(Added(g, recs, s)) = Words(g) + (IF "BEGIN" \in recs THEN 1 ELSE 0)
                                               - (IF "END" \in recs THEN 1 ELSE 0)
<1>1. g.people \in Int /\ g.lost \in Int /\ g.unbegun \in Int
  BY OutcomeTypes
<1>2. Added(g, recs, s).people = g.people + (IF "BEGIN" \in recs THEN 1 ELSE 0)
                                          - (IF "END" \in recs THEN 1 ELSE 0)
  BY DEF Added, Outcomes
<1>3. Added(g, recs, s).lost = g.lost /\ Added(g, recs, s).unbegun = g.unbegun
  BY DEF Added, Outcomes
<1>4. g.people + (IF "BEGIN" \in recs THEN 1 ELSE 0) - (IF "END" \in recs THEN 1 ELSE 0) \in Int
  BY <1>1
<1>5. (IF "END" \in recs THEN g.taken \ {s}
       ELSE IF recs \cap {"BEGIN", "CAPTAIN"} # {} THEN g.taken \cup {s} ELSE g.taken)
        \in SUBSET (Ships \cup {"none"})
  BY DEF Outcomes
<1>6. (g.called \/ "ALIVE" \in recs) \in BOOLEAN /\ (g.dead \/ "DDEAD" \in recs) \in BOOLEAN
  OBVIOUS
<1>7. Added(g, recs, s) \in Outcomes
  BY <1>4, <1>5, <1>6 DEF Added, Outcomes
<1> QED
  BY <1>1, <1>2, <1>3, <1>7 DEF Words

LEMMA SyncWords ==
  ASSUME IndInv, NEW p \in Players, open[p] \in Files, NEW recs, PlayerSync(p, recs)
  PROVE  /\ game' \in [Files -> Outcomes]
         /\ Words(game'[open[p]]) = Words(game[open[p]]) + (IF "BEGIN" \in recs THEN 1 ELSE 0)
                                                        - (IF "END" \in recs THEN 1 ELSE 0)
         /\ \A i \in Files \ {open[p]} : game'[i] = game[i]
<1>1. game[open[p]] \in Outcomes /\ ship[p] \in Ships \cup {"none"}
  BY DEF IndInv, Shape
<1>2. game' = [game EXCEPT ![open[p]] = Added(game[open[p]], recs, ship[p])]
  BY DEF PlayerSync
<1>3. game \in [Files -> Outcomes]
  BY DEF IndInv, Shape
<1> QED
  BY <1>1, <1>2, <1>3, AddedWords

(* A Sync that neither begins nor ends leaves the count of every file.      *)
LEMMA SyncQuiet ==
  ASSUME IndInv, NEW p \in Players, open[p] \in Files, NEW recs, PlayerSync(p, recs),
         "BEGIN" \notin recs, "END" \notin recs
  PROVE  /\ game' \in [Files -> Outcomes]
         /\ \A i \in Files : Words(game'[i]) = Words(game[i])
<1>1. game[open[p]] \in Outcomes
  BY DEF IndInv, Shape
<1>2. Words(game[open[p]]) \in Int
  BY <1>1, OutcomeTypes
<1> QED
  BY <1>2, SyncWords
-----------------------------------------------------------------------------
(* The steps of a player. *)

LEMMA AskFileKeeps ==
  ASSUME IndInv, NEW p \in Players, AskFile(p)
  PROVE  IndInv'
<1>1. Shape'
  BY DEF AskFile, driverVars, IndInv, Shape, Places, DriverPlaces
<1>2. Aboard'
  BY DEF AskFile, driverVars, IndInv, Shape, Aboard
<1>3. \A i \in Files : Words(game'[i]) = Words(game[i])
  BY DEF AskFile, driverVars
<1>4. \A i \in Files : Crew(i)' = Crew(i)
  BY DEF AskFile, driverVars, IndInv, Shape, Crew, AtSea
<1> QED
  BY <1>1, <1>2, <1>3, <1>4, NobodyMoves DEF IndInv

LEMMA OpenFileKeeps ==
  ASSUME IndInv, NEW p \in Players, OpenFile(p)
  PROVE  IndInv'
<1>1. PICK i \in Files : Opening(i) /\ open' = [open EXCEPT ![p] = i]
  BY DEF OpenFile
<1>2. name' \in Files \cup {0}
  BY <1>1 DEF Opening, IndInv, Shape
<1>3. Shape'
  BY <1>1, <1>2 DEF OpenFile, Goto, driverVars, IndInv, Shape, Places, DriverPlaces
<1>4. Aboard'
  BY <1>1 DEF OpenFile, Goto, driverVars, IndInv, Shape, Aboard
<1>5. \A f \in Files : Words(game'[f]) = Words(game[f])
  BY DEF OpenFile
<1>6. \A f \in Files : Crew(f)' = Crew(f)
  BY <1>1 DEF OpenFile, Goto, IndInv, Shape, Crew, AtSea
<1> QED
  BY <1>3, <1>4, <1>5, <1>6, NobodyMoves DEF IndInv

LEMMA ForkDriverKeeps ==
  ASSUME IndInv, NEW p \in Players, ForkDriver(p) \/ CountDriver(p)
  PROVE  IndInv'
<1>1. Shape'
  BY DEF ForkDriver, CountDriver, driverVars, Goto, IndInv, Shape, Places, DriverPlaces
<1>2. Aboard'
  BY DEF ForkDriver, CountDriver, driverVars, Goto, IndInv, Shape, Aboard
<1>3. \A i \in Files : Words(game'[i]) = Words(game[i])
  BY DEF ForkDriver, CountDriver
<1>4. \A i \in Files : Crew(i)' = Crew(i)
  BY DEF ForkDriver, CountDriver, Goto, IndInv, Shape, Crew, AtSea
<1> QED
  BY <1>1, <1>2, <1>3, <1>4, NobodyMoves DEF IndInv

LEMMA DriverReportsKeeps ==
  ASSUME IndInv, NEW p \in Players, DriverReports(p)
  PROVE  IndInv'
<1>1. Shape'
  BY DEF DriverReports, Goto, driverVars, IndInv, Shape, Places, DriverPlaces
<1>2. Aboard'
  BY DEF DriverReports, Goto, driverVars, IndInv, Shape, Aboard
<1>3. \A i \in Files : Words(game'[i]) = Words(game[i])
  BY DEF DriverReports, Goto, driverVars
<1>4. \A i \in Files : Crew(i)' = Crew(i)
  BY DEF DriverReports, Goto, driverVars, IndInv, Shape, Crew, AtSea
<1> QED
  BY <1>1, <1>2, <1>3, <1>4, NobodyMoves DEF IndInv

LEMMA JoinKeeps ==
  ASSUME IndInv, NEW p \in Players, Join(p)
  PROVE  IndInv'
<1>1. open[p] \in Files
  BY DEF Join, Goto, IndInv, Aboard
<1>2. game' \in [Files -> Outcomes] /\ \A i \in Files : Words(game'[i]) = Words(game[i])
  BY <1>1, SyncQuiet DEF Join
<1>3. Shape'
  BY <1>2 DEF Join, Goto, IndInv, Shape, Places, DriverPlaces
<1>4. Aboard'
  BY DEF Join, Goto, IndInv, Shape, Aboard
<1>5. \A i \in Files : Crew(i)' = Crew(i)
  BY DEF Join, Goto, IndInv, Shape, Crew, AtSea
<1> QED
  BY <1>2, <1>3, <1>4, <1>5, NobodyMoves DEF IndInv

LEMMA PickShipKeeps ==
  ASSUME IndInv, NEW p \in Players, PickShip(p)
  PROVE  IndInv'
<1>1. open[p] \in Files
  BY DEF PickShip, IndInv, Aboard
<1>2. game' \in [Files -> Outcomes] /\ \A i \in Files : Words(game'[i]) = Words(game[i])
  BY <1>1, SyncQuiet DEF PickShip
<1>3. Shape'
  BY <1>2 DEF PickShip, IndInv, Shape, Places, DriverPlaces
<1>4. Aboard'
  BY DEF PickShip, IndInv, Shape, Aboard
<1>5. \A i \in Files : Crew(i)' = Crew(i)
  BY DEF PickShip, IndInv, Shape, Crew, AtSea
<1> QED
  BY <1>2, <1>3, <1>4, <1>5, NobodyMoves DEF IndInv

LEMMA NoShipsKeeps ==
  ASSUME IndInv, NEW p \in Players, NoShips(p)
  PROVE  IndInv'
<1>1. Shape'
  BY DEF NoShips, Close, driverVars, IndInv, Shape, Places, DriverPlaces
<1>2. Aboard'
  BY DEF NoShips, Close, driverVars, IndInv, Shape, Aboard
<1>3. \A i \in Files : Words(game'[i]) = Words(game[i])
  BY DEF NoShips, Close, driverVars
<1>4. \A i \in Files : Crew(i)' = Crew(i)
  BY DEF NoShips, Close, driverVars, IndInv, Shape, Crew, AtSea
<1> QED
  BY <1>1, <1>2, <1>3, <1>4, NobodyMoves DEF IndInv

LEMMA NewTurnKeeps ==
  ASSUME IndInv, NEW p \in Players, NewTurn(p)
  PROVE  IndInv'
<1>1. open[p] \in Files
  BY DEF NewTurn, IndInv, Aboard
<1>2. game' \in [Files -> Outcomes] /\ \A i \in Files : Words(game'[i]) = Words(game[i])
  BY <1>1, SyncQuiet DEF NewTurn, IndInv, Shape
<1>3. Shape'
  BY <1>2 DEF NewTurn, IndInv, Shape, Places, DriverPlaces
<1>4. Aboard'
  BY DEF NewTurn, IndInv, Shape, Aboard
<1>5. \A i \in Files : Crew(i)' = Crew(i)
  BY DEF NewTurn, IndInv, Shape, Crew, AtSea
<1> QED
  BY <1>2, <1>3, <1>4, <1>5, NobodyMoves DEF IndInv

LEMMA QuitKeeps ==
  ASSUME IndInv, NEW p \in Players, Quit(p)
  PROVE  IndInv'
<1>1. Shape'
  BY DEF Quit, Goto, driverVars, IndInv, Shape, Places, DriverPlaces
<1>2. Aboard'
  BY DEF Quit, Goto, driverVars, IndInv, Shape, Aboard
<1>3. \A i \in Files : Words(game'[i]) = Words(game[i])
  BY DEF Quit, Goto, driverVars
<1>4. \A i \in Files : Crew(i)' = Crew(i)
  BY DEF Quit, Goto, driverVars, IndInv, Shape, Crew, AtSea
<1> QED
  BY <1>1, <1>2, <1>3, <1>4, NobodyMoves DEF IndInv

LEMMA LeaveCloseKeeps ==
  ASSUME IndInv, NEW p \in Players, LeaveClose(p)
  PROVE  IndInv'
<1>1. Shape'
  BY DEF LeaveClose, Close, Removing, driverVars, IndInv, Shape, Places, DriverPlaces
<1>2. Aboard'
  BY DEF LeaveClose, Close, Removing, driverVars, IndInv, Shape, Aboard
<1>3. \A i \in Files : Words(game'[i]) = Words(game[i])
  BY DEF LeaveClose, Close, Removing, driverVars
<1>4. \A i \in Files : Crew(i)' = Crew(i)
  BY DEF LeaveClose, Close, Removing, driverVars, IndInv, Shape, Crew, AtSea
<1> QED
  BY <1>1, <1>2, <1>3, <1>4, NobodyMoves DEF IndInv

LEMMA ChildKeeps ==
  ASSUME IndInv, NEW p \in Players, Child(p)
  PROVE  IndInv'
<1>1. Shape'
  BY DEF Child, driverVars, IndInv, Shape, Places, DriverPlaces
<1>2. Aboard'
  BY DEF Child, driverVars, IndInv, Shape, Aboard
<1>3. \A i \in Files : Words(game'[i]) = Words(game[i])
  BY DEF Child, driverVars
<1>4. \A i \in Files : Crew(i)' = Crew(i)
  BY DEF Child, driverVars, IndInv, Shape, Crew, AtSea
<1> QED
  BY <1>1, <1>2, <1>3, <1>4, NobodyMoves DEF IndInv

(* A begin goes to the file with the player. *)
LEMMA BeginKeeps ==
  ASSUME IndInv, NEW p \in Players, Begin(p)
  PROVE  IndInv'
<1>1. open[p] \in Files /\ pc[p] = "load"
  BY DEF Begin, Goto, IndInv, Aboard
<1>2. PICK b \in Files : b = open[p]
  BY <1>1
<1>3. /\ game' \in [Files -> Outcomes]
      /\ Words(game'[b]) = Words(game[b]) + 1 - 0
      /\ \A i \in Files \ {b} : game'[i] = game[i]
  BY <1>1, <1>2, SyncWords DEF Begin
<1>4. Words(game[b]) \in Int
  BY <1>1, <1>2, OutcomeTypes DEF IndInv, Shape
<1>5. Shape'
  BY <1>3 DEF Begin, Goto, IndInv, Shape, Places, DriverPlaces
<1>6. Aboard'
  BY DEF Begin, Goto, IndInv, Shape, Aboard
<1>7. p \notin Crew(b) /\ Crew(b)' = Crew(b) \cup {p}
  BY <1>1, <1>2 DEF Begin, Goto, IndInv, Shape, Crew, AtSea
<1>8. \A i \in Files \ {b} : Crew(i)' = Crew(i)
  BY <1>1, <1>2 DEF Begin, Goto, IndInv, Shape, Crew, AtSea
<1> QED
  BY <1>1, <1>2, <1>3, <1>4, <1>5, <1>6, <1>7, <1>8, OneComes DEF IndInv

(* Who chokes over his guns is at sea without a begin, and counted so. *)
LEMMA ChokeKeeps ==
  ASSUME IndInv, NEW p \in Players, Choke(p)
  PROVE  IndInv'
<1>1. pc[p] \in Places \ {"play", "leave"}
  BY DEF Choke, Places
<1>2. ship[p] # "none" => pc[p] = "load" /\ open[p] \in Files
  BY DEF Choke, IndInv, Aboard
<1>3. Aboard'
  BY DEF Choke, driverVars, IndInv, Shape, Aboard
<1>4. CASE ship[p] = "none"
  <2>1. game' = game /\ pc' = [pc EXCEPT ![p] = "close"] /\ UNCHANGED open
    BY <1>4 DEF Choke
  <2>2. Shape'
    BY <2>1 DEF Choke, driverVars, IndInv, Shape, Places, DriverPlaces
  <2>3. \A i \in Files : Crew(i)' = Crew(i)
    BY <1>1, <2>1 DEF IndInv, Shape, Crew, AtSea
  <2> QED
    BY <1>3, <2>1, <2>2, <2>3, NobodyMoves DEF IndInv
<1>5. CASE ship[p] # "none"
  <2>1. PICK b \in Files : b = open[p]
    BY <1>2, <1>5
  <2>2. /\ game' = [game EXCEPT ![open[p]].unbegun = @ + 1]
        /\ pc' = [pc EXCEPT ![p] = "leave"] /\ UNCHANGED open
    BY <1>5 DEF Choke
  <2>3. game[b] \in Outcomes /\ [game[b] EXCEPT !.unbegun = @ + 1] \in Outcomes
    BY <1>1, <2>1 DEF IndInv, Shape, Outcomes
  <2>4. game' \in [Files -> Outcomes]
    BY <1>1, <2>1, <2>2, <2>3 DEF IndInv, Shape
  <2>5. Shape'
    BY <2>2, <2>4 DEF Choke, driverVars, IndInv, Shape, Places, DriverPlaces
  <2>6. game'[b] = [game[b] EXCEPT !.unbegun = @ + 1]
    BY <1>1, <2>1, <2>2 DEF IndInv, Shape
  <2>7. Words(game'[b]) = Words(game[b]) + 1
    BY <2>3, <2>6 DEF Words, Outcomes
  <2>8. \A i \in Files \ {b} : game'[i] = game[i] /\ Crew(i)' = Crew(i)
    BY <1>1, <2>1, <2>2 DEF IndInv, Shape, Crew, AtSea
  <2>9. p \notin Crew(b) /\ Crew(b)' = Crew(b) \cup {p}
    BY <1>1, <2>1, <2>2 DEF IndInv, Shape, Crew, AtSea
  <2> QED
    BY <1>1, <2>1, <1>3, <2>5, <2>7, <2>8, <2>9, OneComes DEF IndInv
<1> QED
  BY <1>4, <1>5

(* An end goes to the file with the last Sync. *)
LEMMA LeaveEndKeeps ==
  ASSUME IndInv, NEW p \in Players, LeaveEnd(p)
  PROVE  IndInv'
<1>1. open[p] \in Files /\ pc[p] = "leave" /\ "BEGIN" \notin keeps[p]
  BY DEF LeaveEnd, Goto, IndInv, Shape, Aboard
<1>2. PICK b \in Files : b = open[p]
  BY <1>1
<1>3. /\ game' \in [Files -> Outcomes]
      /\ Words(game'[b]) = Words(game[b]) + 0 - 1
      /\ \A i \in Files \ {b} : game'[i] = game[i]
  BY <1>1, <1>2, SyncWords DEF LeaveEnd
<1>4. Words(game[b]) \in Int
  BY <1>1, <1>2, OutcomeTypes DEF IndInv, Shape
<1>5. Shape'
  BY <1>3 DEF LeaveEnd, Goto, IndInv, Shape, Places, DriverPlaces
<1>6. Aboard'
  BY DEF LeaveEnd, Goto, IndInv, Shape, Aboard
<1>7. p \in Crew(b) /\ Crew(b)' = Crew(b) \ {p}
  BY <1>1, <1>2 DEF LeaveEnd, Goto, IndInv, Shape, Crew, AtSea
<1>8. \A i \in Files \ {b} : Crew(i)' = Crew(i)
  BY <1>1, <1>2 DEF LeaveEnd, Goto, IndInv, Shape, Crew, AtSea
<1> QED
  BY <1>1, <1>2, <1>3, <1>4, <1>5, <1>6, <1>7, <1>8, OneGoes DEF IndInv

(* Who is killed at sea is lost, without a word. *)
LEMMA KilledKeeps ==
  ASSUME IndInv, NEW p \in Players, Killed(p)
  PROVE  IndInv'
<1>1. open[p] \in Files /\ pc[p] \in {"pick", "load", "play"}
  BY DEF Killed, IndInv, Aboard
<1>2. PICK b \in Files : b = open[p]
  BY <1>1
<1>3. Aboard'
  BY DEF Killed, Close, driverVars, IndInv, Shape, Aboard
<1>4. pc' = [pc EXCEPT ![p] = "killed"] /\ open' = [open EXCEPT ![p] = 0]
  BY DEF Killed, Close
<1>5. CASE pc[p] # "play"
  <2>1. game' = game
    BY <1>5 DEF Killed
  <2>2. Shape'
    BY <2>1 DEF Killed, Close, driverVars, IndInv, Shape, Places, DriverPlaces
  <2>3. \A i \in Files : Crew(i)' = Crew(i)
    BY <1>1, <1>2, <1>4, <1>5 DEF IndInv, Shape, Crew, AtSea
  <2> QED
    BY <1>3, <2>1, <2>2, <2>3, NobodyMoves DEF IndInv
<1>6. CASE pc[p] = "play"
  <2>1. game' = [game EXCEPT ![open[p]].lost = @ + 1]
    BY <1>6 DEF Killed
  <2>2. game[b] \in Outcomes /\ [game[b] EXCEPT !.lost = @ + 1] \in Outcomes
    BY <1>1, <1>2 DEF IndInv, Shape, Outcomes
  <2>3. game' \in [Files -> Outcomes]
    BY <1>1, <1>2, <2>1, <2>2 DEF IndInv, Shape
  <2>4. Shape'
    BY <2>3 DEF Killed, Close, driverVars, IndInv, Shape, Places, DriverPlaces
  <2>5. game'[b] = [game[b] EXCEPT !.lost = @ + 1]
    BY <1>1, <1>2, <2>1 DEF IndInv, Shape
  <2>6. Words(game'[b]) = Words(game[b]) - 1
    BY <2>2, <2>5 DEF Words, Outcomes
  <2>7. \A i \in Files \ {b} : game'[i] = game[i] /\ Crew(i)' = Crew(i)
    BY <1>1, <1>2, <1>4, <2>1 DEF IndInv, Shape, Crew, AtSea
  <2>8. p \in Crew(b) /\ Crew(b)' = Crew(b) \ {p}
    BY <1>1, <1>2, <1>4, <1>6 DEF IndInv, Shape, Crew, AtSea
  <2> QED
    BY <1>1, <1>2, <1>3, <2>4, <2>6, <2>7, <2>8, OneGoes DEF IndInv
<1> QED
  BY <1>5, <1>6
-----------------------------------------------------------------------------
(* The steps of a driver: they change neither who is at sea nor the words.  *)
LEMMA DriverQuiet ==
  ASSUME IndInv, Shape', Aboard', UNCHANGED <<pc, open>>,
         \A i \in Files : Words(game'[i]) = Words(game[i])
  PROVE  IndInv'
<1>1. \A i \in Files : Crew(i)' = Crew(i)
  BY DEF Crew, AtSea
<1> QED
  BY <1>1, NobodyMoves DEF IndInv

LEMMA DriverOpensKeeps ==
  ASSUME IndInv, NEW d \in Players, DriverOpens(d)
  PROVE  IndInv'
<1>1. PICK i \in Files : /\ Opening(i) /\ dopen' = [dopen EXCEPT ![d] = i]
                         /\ game' = [game EXCEPT ![i].drivers = @ + 1]
  BY DEF DriverOpens
<1>2. name' \in Files \cup {0}
  BY <1>1 DEF Opening, IndInv, Shape
<1>3. game[i] \in Outcomes /\ [game[i] EXCEPT !.drivers = @ + 1] \in Outcomes
  BY DEF IndInv, Shape, Outcomes
<1>4. game' \in [Files -> Outcomes]
  BY <1>1, <1>3 DEF IndInv, Shape
<1>5. Shape'
  BY <1>1, <1>2, <1>4 DEF DriverOpens, playerVars, IndInv, Shape, Places, DriverPlaces
<1>6. Aboard'
  BY <1>1 DEF DriverOpens, playerVars, IndInv, Shape, Aboard
<1>7. game'[i] = [game[i] EXCEPT !.drivers = @ + 1] /\ \A f \in Files \ {i} : game'[f] = game[f]
  BY <1>1 DEF IndInv, Shape
<1>8. \A f \in Files : Words(game'[f]) = Words(game[f])
  BY <1>3, <1>7 DEF Words, Outcomes
<1>9. UNCHANGED <<pc, open>>
  BY DEF DriverOpens, playerVars
<1> QED
  BY <1>5, <1>6, <1>8, <1>9, DriverQuiet

LEMMA DriverTurnKeeps ==
  ASSUME IndInv, NEW d \in Players, DriverTurn(d)
  PROVE  IndInv'
<1>1. Shape'
  BY DEF DriverTurn, IndInv, Shape, Places, DriverPlaces
<1>2. Aboard'
  BY DEF DriverTurn, IndInv, Shape, Aboard
<1>3. UNCHANGED <<game, pc, open>>
  BY DEF DriverTurn
<1> QED
  BY <1>1, <1>2, <1>3, DriverQuiet

LEMMA DriverSyncKeeps ==
  ASSUME IndInv, NEW d \in Players, DriverSync(d)
  PROVE  IndInv'
<1>1. dpc[d] = "move" /\ dopen[d] \in Files
  BY DEF DriverSync, IndInv, Aboard
<1> DEFINE i == dopen[d]
           turn == (game[i].turn + 1) % TurnCycle
<1>2. PICK storm \in {FALSE, turn % WindEvery = 0} :
        game' = [game EXCEPT ![i].turn = turn, ![i].storm = @ \/ storm]
  BY DEF DriverSync
<1>3. game[i] \in Outcomes /\ turn \in Int
  BY <1>1, SailFleetAssumption DEF IndInv, Shape, Outcomes
<1>4. [game[i] EXCEPT !.turn = turn, !.storm = @ \/ storm] \in Outcomes
  BY <1>3 DEF Outcomes
<1>5. /\ game'[i] = [game[i] EXCEPT !.turn = turn, !.storm = @ \/ storm]
      /\ \A f \in Files \ {i} : game'[f] = game[f]
      /\ game' \in [Files -> Outcomes]
  BY <1>1, <1>2, <1>4 DEF IndInv, Shape
<1>6. Shape'
  BY <1>5 DEF DriverSync, IndInv, Shape, Places, DriverPlaces
<1>7. Aboard'
  BY <1>1 DEF DriverSync, IndInv, Shape, Aboard
<1>8. \A f \in Files : Words(game'[f]) = Words(game[f])
  BY <1>3, <1>5 DEF Words, Outcomes
<1>9. UNCHANGED <<pc, open>>
  BY DEF DriverSync
<1> QED
  BY <1>6, <1>7, <1>8, <1>9, DriverQuiet

LEMMA DriverStopsKeeps ==
  ASSUME IndInv, NEW d \in Players, DriverEnds(d) \/ DriverKilled(d)
  PROVE  IndInv'
<1>1. /\ dopen' = [dopen EXCEPT ![d] = 0] /\ dpc' = [dpc EXCEPT ![d] = "ended"]
      /\ name' \in {0, name} /\ UNCHANGED <<pc, open, ship, keeps>> /\ game' = game
  BY DEF DriverEnds, DriverKilled, Removing, playerVars
<1>2. Shape'
  BY <1>1 DEF IndInv, Shape, DriverPlaces
<1>3. Aboard'
  BY <1>1 DEF IndInv, Shape, Aboard
<1>4. \A i \in Files : Words(game'[i]) = Words(game[i])
  BY <1>1
<1> QED
  BY <1>1, <1>2, <1>3, <1>4, DriverQuiet
-----------------------------------------------------------------------------
LEMMA NextIndInv == IndInv /\ [Next]_vars => IndInv'
<1> SUFFICES ASSUME IndInv, [Next]_vars PROVE IndInv'
  OBVIOUS
<1>1. CASE UNCHANGED vars
  BY <1>1 DEF vars, IndInv, Shape, Aboard, PeopleCounted, Crew, AtSea
<1>2. ASSUME NEW p \in Players, PlayerStep(p)
      PROVE  IndInv'
  BY <1>2, OpenFileKeeps, ForkDriverKeeps, DriverReportsKeeps, JoinKeeps, NewTurnKeeps,
     LeaveEndKeeps, LeaveCloseKeeps, ChildKeeps DEF PlayerStep, PlayerGoesOn
<1>3. ASSUME NEW p \in Players, PlayerWhim(p)
      PROVE  IndInv'
  BY <1>3, AskFileKeeps, PickShipKeeps, NoShipsKeeps, BeginKeeps, QuitKeeps, ChokeKeeps,
     KilledKeeps DEF PlayerWhim
<1>4. ASSUME NEW d \in Players, DriverStep(d) \/ DriverKilled(d)
      PROVE  IndInv'
  BY <1>4, DriverOpensKeeps, DriverTurnKeeps, DriverSyncKeeps, DriverStopsKeeps DEF DriverStep
<1> QED
  BY <1>1, <1>2, <1>3, <1>4 DEF Next

(* The number of people in a file, by which the driver ends a game          *)
(* (dr_1.c:411), is that of the players at sea and of those who ended       *)
(* without a word, less those who said farewell without having begun:       *)
(* whatever the players, the ships, the files and the drivers do.           *)
THEOREM PeopleAreCounted == Spec => []PeopleCounted
<1>1. IndInv => PeopleCounted
  BY DEF IndInv
<1> QED
  BY <1>1, InitIndInv, NextIndInv, PTL DEF Spec
-----------------------------------------------------------------------------
(***************************************************************************)
(* Numbers of turns                                                        *)
(***************************************************************************)
LEMMA SmallStep ==
  ASSUME NEW c \in Nat \ {0}, NEW p \in Int, NEW q \in Int,
         NEW r \in 0 .. c - 1, NEW s \in 0 .. c - 1, c * p + r = c * q + s
  PROVE  p = q /\ r = s
<1>1. c * p \in Int /\ c * q \in Int
  OBVIOUS
<1>2. ASSUME NEW x \in Int, NEW y \in Int, x + 1 <= y
      PROVE  c * x + c <= c * y
  <2>1. c * (x + 1) <= c * y
    BY <1>2
  <2>2. c * (x + 1) = c * x + c
    OBVIOUS
  <2> QED
    BY <2>1, <2>2
<1>3. ~(p + 1 <= q)
  <2> SUFFICES ASSUME p + 1 <= q PROVE FALSE
    OBVIOUS
  <2>1. c * p + c <= c * q
    BY <1>2
  <2> QED
    BY <1>1, <2>1
<1>4. ~(q + 1 <= p)
  <2> SUFFICES ASSUME q + 1 <= p PROVE FALSE
    OBVIOUS
  <2>1. c * q + c <= c * p
    BY <1>2
  <2> QED
    BY <1>1, <2>1
<1>5. p = q
  BY <1>3, <1>4
<1> QED
  BY <1>1, <1>5

LEMMA Division ==
  ASSUME NEW c \in Nat \ {0}, NEW n \in Nat
  PROVE  n % c \in 0 .. c - 1 /\ \E q \in Nat : n = c * q + (n % c)
<1>1. n % c \in 0 .. c - 1
  OBVIOUS
<1>2. PICK q \in Nat : q = n \div c
  OBVIOUS
<1>3. n = c * (n \div c) + (n % c)
  OBVIOUS
<1>4. n = c * q + (n % c)
  BY <1>2, <1>3
<1> QED
  BY <1>1, <1>4

LEMMA Remainder ==
  ASSUME NEW c \in Nat \ {0}, NEW q \in Nat, NEW r \in 0 .. c - 1
  PROVE  (c * q + r) % c = r
<1>1. PICK n \in Nat : n = c * q + r
  OBVIOUS
<1>2. PICK p \in Nat : n = c * p + (n % c)
  BY Division
<1>3. PICK s \in 0 .. c - 1 : s = n % c
  BY Division
<1>4. c * q + r = c * p + s
  BY <1>1, <1>2, <1>3
<1>5. s = r
  BY <1>4, SmallStep
<1> QED
  BY <1>1, <1>3, <1>5

(* The turn after one that is the last before a multiple, and any other.    *)
LEMMA Following ==
  ASSUME NEW c \in Nat \ {0}, NEW n \in Nat
  PROVE  /\ n % c = c - 1 => (n + 1) % c = 0
         /\ n % c # c - 1 => (n + 1) % c = (n % c) + 1
<1>1. PICK q \in Nat : n = c * q + (n % c)
  BY Division
<1>2. PICK r \in 0 .. c - 1 : r = n % c
  BY Division
<1>3. c * q \in Nat /\ n = c * q + r
  BY <1>1, <1>2
<1>4. CASE r = c - 1
  <2>1. n + 1 = c * (q + 1) + 0
    <3>1. c * (q + 1) = c * q + c
      OBVIOUS
    <3> QED
      BY <1>3, <1>4, <3>1
  <2>2. (c * (q + 1) + 0) % c = 0
    BY Remainder
  <2> QED
    BY <1>2, <1>4, <2>1, <2>2
<1>5. CASE r # c - 1
  <2>1. r + 1 \in 0 .. c - 1
    BY <1>5
  <2>2. PICK s \in 0 .. c - 1 : s = r + 1
    BY <2>1
  <2>3. (c * q + s) % c = s
    BY Remainder
  <2>4. n + 1 = c * q + s
    BY <1>3, <2>2
  <2> QED
    BY <1>2, <1>5, <2>2, <2>3, <2>4
<1> QED
  BY <1>4, <1>5

(* Among c numbers in a row there is a multiple of c.                       *)
LEMMA MultipleAhead ==
  ASSUME NEW c \in Nat \ {0}, NEW n \in Nat
  PROVE  \E m \in n + 1 .. n + c : m % c = 0
<1>1. PICK q \in Nat : n = c * q + (n % c)
  BY Division
<1>2. n % c \in 0 .. c - 1 /\ c * q \in Nat
  BY Division
<1>3. c * (q + 1) = c * q + c
  OBVIOUS
<1>4. PICK m \in Nat : m = c * (q + 1) + 0
  BY <1>2, <1>3
<1>5. m % c = 0
  BY <1>4, Remainder
<1>6. m \in n + 1 .. n + c
  BY <1>1, <1>2, <1>3, <1>4
<1> QED
  BY <1>5, <1>6

(* The turn of the last look for life signs that is in the file.            *)
Since(t) == t - (t % CheckEvery)

Turns == 0 .. TurnCycle - 1

(* The turn after t, as the driver counts it.                               *)
LEMMA TurnGoesOn ==
  ASSUME NEW t \in Turns, NEW u, u = (t + 1) % TurnCycle
  PROVE  /\ u \in Turns
         /\ u % CheckEvery = 0 <=> (t + 1) % CheckEvery = 0
         /\ u % CheckEvery = 0 => Since(u) = u
         /\ u % CheckEvery # 0 => u = t + 1 /\ Since(u) = Since(t)
<1>1. TurnCycle \in Nat \ {0} /\ CheckEvery \in Nat \ {0} /\ TurnCycle % CheckEvery = 0
  BY SailFleetAssumption
<1>2. t \in Nat
  BY <1>1 DEF Turns
<1>3. CASE t = TurnCycle - 1
  <2>1. t = TurnCycle * 0 + t
    BY <1>1, <1>2
  <2>2. (TurnCycle * 0 + t) % TurnCycle = t
    BY <1>1, Remainder DEF Turns
  <2>3. t % TurnCycle = t
    BY <2>1, <2>2
  <2>4. u = 0
    BY <1>1, <1>2, <1>3, <2>3, Following
  <2>5. (CheckEvery * 0 + 0) % CheckEvery = 0
    BY <1>1, Remainder
  <2>6. u % CheckEvery = 0
    BY <1>1, <2>4, <2>5
  <2>7. (t + 1) % CheckEvery = 0
    BY <1>1, <1>3
  <2> QED
    BY <1>1, <2>4, <2>6, <2>7 DEF Turns, Since
<1>4. CASE t # TurnCycle - 1
  <2>1. t + 1 \in 0 .. TurnCycle - 1
    BY <1>1, <1>4 DEF Turns
  <2>2. PICK v \in 0 .. TurnCycle - 1 : v = t + 1
    BY <2>1
  <2>3. (TurnCycle * 0 + v) % TurnCycle = v
    BY <1>1, Remainder
  <2>4. TurnCycle * 0 + v = v
    BY <1>1
  <2>5. u = t + 1
    BY <2>2, <2>3, <2>4
  <2>6. PICK r \in 0 .. CheckEvery - 1 : r = t % CheckEvery
    BY <1>1, <1>2, Division
  <2>7. r = CheckEvery - 1 => u % CheckEvery = 0
    BY <1>1, <1>2, <2>5, <2>6, Following
  <2>8. r # CheckEvery - 1 => u % CheckEvery = r + 1
    BY <1>1, <1>2, <2>5, <2>6, Following
  <2> QED
    BY <1>1, <1>2, <2>1, <2>5, <2>6, <2>7, <2>8 DEF Turns, Since
<1> QED
  BY <1>3, <1>4

(* Before the next look there is a turn on which players report, early      *)
(* enough for the report to be sent.                                        *)
LEMMA ReportDue ==
  ASSUME AliveEvery + 2 <= CheckEvery, NEW t \in Turns, (t + 1) % CheckEvery = 0
  PROVE  \E m \in Since(t) + 1 .. t - 1 : m % AliveEvery = 0
<1>1. CheckEvery \in Nat \ {0} /\ AliveEvery \in Nat \ {0} /\ t \in Nat
  BY SailFleetAssumption DEF Turns
<1>2. PICK r \in 0 .. CheckEvery - 1 : r = t % CheckEvery
  BY <1>1, Division
<1>3. r = CheckEvery - 1
  <2>1. r # CheckEvery - 1 => (t + 1) % CheckEvery = r + 1
    BY <1>1, <1>2, Following
  <2> QED
    BY <1>1, <2>1
<1>4. PICK q \in Nat : t = CheckEvery * q + r
  BY <1>1, <1>2, Division
<1>5. PICK n \in Nat : n = CheckEvery * q
  BY <1>1
<1>6. Since(t) = n /\ t - 1 = n + CheckEvery - 2
  BY <1>1, <1>2, <1>3, <1>4, <1>5 DEF Since
<1>7. PICK m \in n + 1 .. n + AliveEvery : m % AliveEvery = 0
  BY <1>1, MultipleAhead
<1> QED
  BY <1>1, <1>6, <1>7
-----------------------------------------------------------------------------
(***************************************************************************)
(* Who keeps pace is heard                                                 *)
(***************************************************************************)
Ranges ==
  /\ \A i \in Files : game[i].turn \in Turns /\ game[i].drivers \in Nat /\ game[i].lost \in Nat
  /\ behind \in [Players -> {0, 1}]
  /\ veteran \in [Players -> BOOLEAN] /\ dalive \in [Players -> BOOLEAN]

(* Of a file that one driver has opened, that one alone counts the turns.   *)
Sole == \A i \in Files :
  /\ game[i].drivers = 0 => game[i].turn = 0 /\ \A d \in Players : dopen[d] # i
  /\ game[i].drivers = 1 => \A d, e \in Players : dopen[d] = i /\ dopen[e] = i => d = e

(* Who is not at sea is neither behind nor a veteran.                       *)
Recruits == \A p \in Players : ~AtSea(p) => behind[p] = 0 /\ (veteran[p] => pc[p] = "close")

(* In turn t, what there is of p's reports since the last look if the       *)
(* driver has read none: p has come past no turn on which to report, but    *)
(* for the last it has seen, whose report waits for p's next Sync.          *)
Unheard(p, t) ==
  LET seen == t - behind[p]
  IN  /\ \A m \in Since(t) + 1 .. seen - 1 : m % AliveEvery # 0
      /\ pc[p] = "play" /\ Since(t) < seen /\ seen % AliveEvery = 0 => "ALIVE" \in keeps[p]

(* d has just looked, in a turn that it has counted but not yet written.    *)
Looked(d) == dpc[d] = "move" /\ (game[dopen[d]].turn + 1) % CheckEvery = 0

Watched(d, p) ==
  dpc[d] \in {"sleep", "move"} /\ game[dopen[d]].drivers = 1 /\ p \in Crew(dopen[d])

AnswersTo(d, p) ==
  Watched(d, p) =>
    /\ dpc[d] = "move" => behind[p] = 0
    /\ veteran[p] /\ ~dalive[d] /\ ~Looked(d) => Unheard(p, game[dopen[d]].turn)

Answers == \A d, p \in Players : AnswersTo(d, p)

LookInv == Ranges /\ Sole /\ Recruits /\ Answers

LEMMA InitLookInv == Init => LookInv
<1> SUFFICES ASSUME Init PROVE LookInv
  OBVIOUS
<1>1. \A i \in Files : game[i].turn = 0 /\ game[i].drivers = 0 /\ game[i].lost = 0
  BY DEF Init, NewGame
<1>2. 0 \in Turns
  BY SailFleetAssumption DEF Turns
<1>3. Ranges
  BY <1>1, <1>2 DEF Init, Ranges
<1>4. Sole
  BY <1>1 DEF Init, Sole, Files
<1>5. Recruits
  BY DEF Init, Recruits
<1>6. Answers
  BY DEF Init, Answers, AnswersTo, Watched
<1> QED
  BY <1>3, <1>4, <1>5, <1>6 DEF LookInv

(* A Sync of a player leaves the turn, the drivers and the lost as they     *)
(* are, and only tells the drivers more.                                    *)
LEMMA SyncTurns ==
  ASSUME IndInv, LookInv, NEW p \in Players, open[p] \in Files, NEW recs, PlayerSync(p, recs)
  PROVE  /\ \A i \in Files : /\ game'[i].turn = game[i].turn
                             /\ game'[i].drivers = game[i].drivers
                             /\ game'[i].lost = game[i].lost
         /\ dalive' \in [Players -> BOOLEAN]
         /\ \A d \in Players : dalive[d] => dalive'[d]
         /\ \A d \in Players : dopen[d] = open[p] /\ "ALIVE" \in recs => dalive'[d]
         /\ behind' = [behind EXCEPT ![p] = 0]
<1>1. game' = [game EXCEPT ![open[p]] = Added(game[open[p]], recs, ship[p])]
  BY DEF PlayerSync
<1>2. game \in [Files -> Outcomes] /\ game[open[p]] \in Outcomes
  BY DEF IndInv, Shape
<1>3. /\ Added(game[open[p]], recs, ship[p]).turn = game[open[p]].turn
      /\ Added(game[open[p]], recs, ship[p]).drivers = game[open[p]].drivers
      /\ Added(game[open[p]], recs, ship[p]).lost = game[open[p]].lost
  BY <1>2 DEF Added, Outcomes
<1>4. \A i \in Files : game'[i] = IF i = open[p] THEN Added(game[open[p]], recs, ship[p]) ELSE game[i]
  BY <1>1, <1>2
<1>5. \A d \in Players : dalive'[d] = (dalive[d] \/ (dopen[d] = open[p] /\ "ALIVE" \in recs))
  BY DEF PlayerSync
<1>6. dalive' \in [Players -> BOOLEAN]
  BY DEF PlayerSync, LookInv, Ranges
<1> QED
  BY <1>3, <1>4, <1>5, <1>6 DEF PlayerSync

(* What nearly every step of a player p does, seen from the files, the      *)
(* drivers and the other players.                                           *)
StepOf(p) ==
  /\ \A i \in Files : game'[i].turn = game[i].turn /\ game'[i].drivers = game[i].drivers
  /\ dopen' = dopen
  /\ \A d \in Players : dpc'[d] \in {"sleep", "move"} => dpc'[d] = dpc[d]
  /\ \A d \in Players : dalive[d] => dalive'[d]
  /\ \A q \in Players \ {p} : /\ pc'[q] = pc[q] /\ open'[q] = open[q] /\ keeps'[q] = keeps[q]
                              /\ behind'[q] = behind[q] /\ veteran'[q] = veteran[q]

(* The answers of a player do not change unless its own state does.         *)
LEMMA SameAnswers ==
  ASSUME IndInv, LookInv, NEW p \in Players, StepOf(p), NEW q \in Players, NEW d \in Players,
         /\ pc'[q] = pc[q] /\ open'[q] = open[q] /\ keeps'[q] = keeps[q]
         /\ behind'[q] = behind[q] /\ veteran'[q] = veteran[q]
  PROVE  AnswersTo(d, q)'
<1> SUFFICES ASSUME Watched(d, q)'
             PROVE  /\ dpc'[d] = "move" => behind'[q] = 0
                    /\ veteran'[q] /\ ~dalive'[d] /\ ~Looked(d)'
                         => Unheard(q, game[dopen[d]].turn)'
  BY DEF AnswersTo
<1>1. dpc'[d] = dpc[d] /\ dpc[d] \in {"sleep", "move"} /\ dopen'[d] = dopen[d]
  BY DEF Watched, StepOf
<1>2. dopen[d] \in Files
  BY <1>1 DEF IndInv, Aboard
<1>3. game'[dopen[d]].turn = game[dopen[d]].turn /\ game'[dopen[d]].drivers = game[dopen[d]].drivers
  BY <1>2 DEF StepOf
<1>4. Watched(d, q)
  BY <1>1, <1>3 DEF Watched, Crew, AtSea
<1>5. Looked(d)' <=> Looked(d)
  BY <1>1, <1>3 DEF Looked
<1>6. Unheard(q, game[dopen[d]].turn)' <=> Unheard(q, game[dopen[d]].turn)
  BY <1>1, <1>3 DEF Unheard
<1> QED
  BY <1>1, <1>4, <1>5, <1>6 DEF LookInv, Answers, AnswersTo, StepOf

LEMMA OthersAnswer ==
  ASSUME IndInv, LookInv, NEW p \in Players, StepOf(p), \A d \in Players : AnswersTo(d, p)'
  PROVE  Answers'
<1>1. ASSUME NEW q \in Players \ {p}, NEW d \in Players
      PROVE  AnswersTo(d, q)'
  BY SameAnswers DEF StepOf
<1> QED
  BY <1>1 DEF Answers

(* Who is not at sea has nothing to answer for.                             *)
LEMMA NobodyAnswers ==
  ASSUME NEW p \in Players, ~AtSea(p)', NEW d \in Players
  PROVE  AnswersTo(d, p)'
  BY DEF AnswersTo, Watched, Crew

LEMMA SameSole ==
  ASSUME LookInv, NEW p \in Players, StepOf(p)
  PROVE  Sole'
  BY DEF LookInv, Sole, StepOf

(* What a step of p has to do for all of it to hold on.                     *)
LEMMA StepKeeps ==
  ASSUME IndInv, LookInv, NEW p \in Players, StepOf(p),
         \A i \in Files : game'[i].lost \in Nat,
         behind' \in [Players -> {0, 1}], veteran' \in [Players -> BOOLEAN],
         dalive' \in [Players -> BOOLEAN],
         ~AtSea(p)' => behind'[p] = 0 /\ (veteran'[p] => pc'[p] = "close"),
         \A d \in Players : AnswersTo(d, p)'
  PROVE  LookInv'
<1>1. Ranges'
  BY DEF LookInv, Ranges, StepOf
<1>2. Recruits'
  BY DEF LookInv, Recruits, StepOf, AtSea
<1> QED
  BY <1>1, <1>2, OthersAnswer, SameSole DEF LookInv

(* Steps before and after a player's time at sea, without a Sync.           *)
LEMMA HarbourLooks ==
  ASSUME IndInv, LookInv, NEW p \in Players,
         AskFile(p) \/ OpenFile(p) \/ ForkDriver(p) \/ CountDriver(p) \/ DriverReports(p)
           \/ NoShips(p) \/ LeaveClose(p) \/ Killed(p)
  PROVE  LookInv'
<1>1. pc \in [Players -> Places] /\ behind \in [Players -> {0, 1}] /\ veteran \in [Players -> BOOLEAN]
      /\ dalive \in [Players -> BOOLEAN] /\ open \in [Players -> Files \cup {0}]
      /\ keeps \in [Players -> SUBSET {"CAPTAIN", "ALIVE"}] /\ dpc \in [Players -> DriverPlaces]
      /\ game \in [Files -> Outcomes] /\ \A i \in Files : game[i].lost \in Nat
  BY DEF IndInv, Shape, LookInv, Ranges
<1>2. CASE AskFile(p)
  <2>1. pc[p] \in {"ashore", "killed"} /\ pc'[p] = "asked"
    BY <1>1, <1>2 DEF AskFile
  <2>2. ~veteran[p] /\ behind[p] = 0
    BY <2>1 DEF LookInv, Recruits, AtSea
  <2>3. StepOf(p)
    BY <1>1, <1>2 DEF AskFile, driverVars, StepOf
  <2> QED
    BY <1>1, <1>2, <2>1, <2>2, <2>3, StepKeeps, NobodyAnswers DEF AskFile, driverVars, AtSea
<1>3. CASE OpenFile(p)
  <2>1. pc[p] = "asked" /\ pc'[p] \in {"joining", "forking"}
    BY <1>1, <1>3 DEF OpenFile, Goto
  <2>2. ~veteran[p] /\ behind'[p] = 0 /\ behind' \in [Players -> {0, 1}]
    BY <1>1, <1>3, <2>1 DEF OpenFile, LookInv, Recruits, AtSea
  <2>3. StepOf(p)
    BY <1>1, <1>3 DEF OpenFile, Goto, driverVars, StepOf
  <2> QED
    BY <1>1, <1>3, <2>1, <2>2, <2>3, StepKeeps, NobodyAnswers DEF OpenFile, driverVars, AtSea
<1>4. CASE ForkDriver(p) \/ CountDriver(p) \/ DriverReports(p)
  <2>1. /\ pc[p] \in {"forking", "forked", "waiting"}
        /\ pc'[p] \in {"forked", "waiting", "pick"}
    BY <1>1, <1>4 DEF ForkDriver, CountDriver, DriverReports, Goto
  <2>2. ~veteran[p] /\ behind[p] = 0
    BY <2>1 DEF LookInv, Recruits, AtSea
  <2>3. StepOf(p)
    BY <1>1, <1>4 DEF ForkDriver, CountDriver, DriverReports, Goto, driverVars, StepOf
  <2> QED
    BY <1>1, <1>4, <2>1, <2>2, <2>3, StepKeeps, NobodyAnswers
    DEF ForkDriver, CountDriver, DriverReports, driverVars, AtSea
<1>5. CASE NoShips(p) \/ LeaveClose(p) \/ Killed(p)
  <2>1. PICK last \in {"left", "killed"} : Close(p, last)
    BY <1>5 DEF NoShips, LeaveClose, Killed
  <2>2. pc'[p] = last /\ ~veteran'[p] /\ behind'[p] = 0
    BY <1>1, <2>1 DEF Close
  <2>3. behind' \in [Players -> {0, 1}] /\ veteran' \in [Players -> BOOLEAN]
    BY <1>1, <2>1 DEF Close
  <2>4. UNCHANGED driverVars
    BY <1>5 DEF NoShips, LeaveClose, Killed
  <2>5. game' = game \/ game' = [game EXCEPT ![open[p]].lost = @ + 1]
    BY <1>5 DEF NoShips, LeaveClose, Killed
  <2>6. \A i \in Files : /\ game'[i].turn = game[i].turn /\ game'[i].drivers = game[i].drivers
                         /\ game'[i].lost \in Nat
    BY <1>1, <2>5 DEF Outcomes
  <2>7. StepOf(p)
    BY <1>1, <2>1, <2>4, <2>6 DEF Close, driverVars, StepOf
  <2> QED
    BY <1>1, <2>2, <2>3, <2>4, <2>6, <2>7, StepKeeps, NobodyAnswers DEF driverVars, AtSea
<1> QED
  BY <1>2, <1>3, <1>4, <1>5

(* Those with a Sync.                                                       *)
LEMMA HarbourSyncs ==
  ASSUME IndInv, LookInv, NEW p \in Players, Join(p) \/ PickShip(p) \/ LeaveEnd(p)
  PROVE  LookInv'
<1>1. pc \in [Players -> Places] /\ behind \in [Players -> {0, 1}] /\ veteran \in [Players -> BOOLEAN]
      /\ open \in [Players -> Files \cup {0}]
      /\ keeps \in [Players -> SUBSET {"CAPTAIN", "ALIVE"}] /\ \A i \in Files : game[i].lost \in Nat
  BY DEF IndInv, Shape, LookInv, Ranges
<1>2. open[p] \in Files
  BY DEF Join, PickShip, LeaveEnd, Goto, IndInv, Aboard
<1>3. PICK recs : PlayerSync(p, recs)
  BY DEF Join, PickShip, LeaveEnd
<1>4. /\ \A i \in Files : /\ game'[i].turn = game[i].turn /\ game'[i].drivers = game[i].drivers
                          /\ game'[i].lost \in Nat
      /\ dalive' \in [Players -> BOOLEAN] /\ (\A d \in Players : dalive[d] => dalive'[d])
      /\ behind' = [behind EXCEPT ![p] = 0]
  BY <1>1, <1>2, <1>3, SyncTurns
<1>5. /\ pc'[p] \in {"pick", "load", "close"} /\ veteran' = veteran
      /\ pc'[p] # "close" => pc[p] \in {"joining", "pick"}
  BY <1>1 DEF Join, PickShip, LeaveEnd, Goto
<1>6. veteran'[p] => pc'[p] = "close"
  BY <1>5 DEF LookInv, Recruits, AtSea
<1>7. StepOf(p)
  <2>1. dopen' = dopen /\ dpc' = dpc /\ open' = open
    BY DEF Join, PickShip, LeaveEnd
  <2>2. \A q \in Players \ {p} : pc'[q] = pc[q] /\ keeps'[q] = keeps[q]
    BY <1>1 DEF Join, PickShip, LeaveEnd, Goto
  <2> QED
    BY <1>1, <1>4, <1>5, <2>1, <2>2 DEF StepOf
<1> QED
  BY <1>1, <1>4, <1>5, <1>6, <1>7, StepKeeps, NobodyAnswers DEF AtSea

LEMMA BeginLooks ==
  ASSUME IndInv, LookInv, NEW p \in Players, Begin(p)
  PROVE  LookInv'
<1>1. pc \in [Players -> Places] /\ behind \in [Players -> {0, 1}] /\ veteran \in [Players -> BOOLEAN]
      /\ open \in [Players -> Files \cup {0}]
      /\ keeps \in [Players -> SUBSET {"CAPTAIN", "ALIVE"}]
      /\ \A i \in Files : game[i].lost \in Nat /\ game[i].turn \in Turns
  BY DEF IndInv, Shape, LookInv, Ranges
<1>2. open[p] \in Files
  BY DEF Begin, Goto, IndInv, Aboard
<1>3. /\ \A i \in Files : /\ game'[i].turn = game[i].turn /\ game'[i].drivers = game[i].drivers
                          /\ game'[i].lost \in Nat
      /\ dalive' \in [Players -> BOOLEAN] /\ (\A d \in Players : dalive[d] => dalive'[d])
      /\ behind' = [behind EXCEPT ![p] = 0]
  BY <1>1, <1>2, SyncTurns DEF Begin
<1>4. /\ pc' = [pc EXCEPT ![p] = "play"] /\ keeps' = [keeps EXCEPT ![p] = {"CAPTAIN"}]
      /\ veteran' = [veteran EXCEPT ![p] = game[open[p]].turn % CheckEvery = 0]
      /\ open' = open /\ dopen' = dopen /\ dpc' = dpc
  BY DEF Begin, Goto
<1>5. StepOf(p)
  BY <1>1, <1>3, <1>4 DEF StepOf
<1>6. ASSUME NEW d \in Players, Watched(d, p)', veteran'[p]
      PROVE  Unheard(p, game[dopen[d]].turn)'
  <2>1. dopen[d] = open[p]
    BY <1>4, <1>6 DEF Watched, Crew
  <2>2. PICK t \in Turns : t = game[open[p]].turn
    BY <1>1, <1>2
  <2>3. t % CheckEvery = 0
    BY <1>1, <1>4, <1>6, <2>2
  <2>4. t \in Int /\ Since(t) = t
    BY <2>3, SailFleetAssumption DEF Turns, Since
  <2>5. game'[dopen'[d]].turn = t /\ behind'[p] = 0
    BY <1>1, <1>2, <1>3, <1>4, <2>1, <2>2
  <2>6. Unheard(p, t)'
    BY <2>4, <2>5 DEF Unheard, Since
  <2> QED
    BY <2>5, <2>6 DEF Unheard
<1>7. behind'[p] = 0 /\ AtSea(p)'
  BY <1>1, <1>3, <1>4 DEF AtSea
<1>8. \A d \in Players : AnswersTo(d, p)'
  BY <1>6, <1>7 DEF AnswersTo
<1>9. behind' \in [Players -> {0, 1}] /\ veteran' \in [Players -> BOOLEAN]
  BY <1>1, <1>3, <1>4
<1> QED
  BY <1>3, <1>5, <1>7, <1>8, <1>9, StepKeeps

(* A turn of a player: what it has kept goes to the file, and it reports    *)
(* when it sees that it should.                                             *)
LEMMA NewTurnLooks ==
  ASSUME IndInv, LookInv, NEW p \in Players, NewTurn(p)
  PROVE  LookInv'
<1>1. pc \in [Players -> Places] /\ behind \in [Players -> {0, 1}] /\ veteran \in [Players -> BOOLEAN]
      /\ open \in [Players -> Files \cup {0}] /\ game \in [Files -> Outcomes]
      /\ keeps \in [Players -> SUBSET {"CAPTAIN", "ALIVE"}] /\ dopen \in [Players -> Files \cup {0}]
      /\ \A i \in Files : game[i].lost \in Nat /\ game[i].turn \in Turns
  BY DEF IndInv, Shape, LookInv, Ranges
<1>2. open[p] \in Files /\ pc[p] = "play"
  BY DEF NewTurn, IndInv, Aboard
<1>3. PICK recs : /\ recs = keeps[p] \cup IF has[p] THEN {} ELSE {"DDEAD"}
                  /\ PlayerSync(p, recs)
  BY DEF NewTurn
<1>4. PICK t \in Turns : t = game[open[p]].turn
  BY <1>1, <1>2
<1>5. /\ \A i \in Files : /\ game'[i].turn = game[i].turn /\ game'[i].drivers = game[i].drivers
                          /\ game'[i].lost \in Nat
      /\ dalive' \in [Players -> BOOLEAN] /\ (\A d \in Players : dalive[d] => dalive'[d])
      /\ (\A d \in Players : dopen[d] = open[p] /\ "ALIVE" \in recs => dalive'[d])
      /\ behind' = [behind EXCEPT ![p] = 0]
  BY <1>1, <1>2, <1>3, SyncTurns
<1>6. Added(game[open[p]], recs, ship[p]).turn = t
  <2>1. game[open[p]] \in Outcomes
    BY <1>1, <1>2
  <2> QED
    BY <1>4, <2>1 DEF Added, Outcomes
<1>7. /\ open' = open /\ veteran' = veteran /\ dopen' = dopen /\ dpc' = dpc
      /\ \A q \in Players \ {p} : pc'[q] = pc[q] /\ keeps'[q] = keeps[q]
  BY <1>1 DEF NewTurn
<1>8. PICK c \in {"play", "leave"} : pc' = [pc EXCEPT ![p] = c] /\ (c = "play" => has'[p])
  BY DEF NewTurn
<1>9. keeps'[p] = IF t % AliveEvery = 0 /\ has'[p] THEN {"ALIVE"} ELSE {}
  BY <1>1, <1>3, <1>6 DEF NewTurn
<1>10. StepOf(p)
  BY <1>1, <1>5, <1>7 DEF StepOf
<1>11. behind'[p] = 0 /\ pc'[p] = c /\ AtSea(p)'
  BY <1>1, <1>5, <1>8 DEF AtSea
<1>12. ASSUME NEW d \in Players, Watched(d, p)', veteran'[p], ~dalive'[d], ~Looked(d)'
       PROVE  Unheard(p, game[dopen[d]].turn)'
  <2>1. dopen[d] = open[p] /\ "ALIVE" \notin keeps[p]
    BY <1>3, <1>5, <1>7, <1>12 DEF Watched, Crew
  <2>2. Watched(d, p) /\ ~Looked(d) /\ ~dalive[d] /\ veteran[p]
    BY <1>2, <1>5, <1>7, <1>12, <2>1 DEF Watched, Crew, AtSea, Looked
  <2>3. Unheard(p, t)
    BY <1>4, <2>1, <2>2 DEF LookInv, Answers, AnswersTo
  <2>4. PICK b \in {0, 1} : b = behind[p]
    BY <1>1
  <2>5. /\ \A m \in Since(t) + 1 .. (t - b) - 1 : m % AliveEvery # 0
        /\ ~(Since(t) < t - b /\ (t - b) % AliveEvery = 0)
    BY <1>2, <2>1, <2>3, <2>4 DEF Unheard
  <2>6. t \in Nat /\ Since(t) \in Int
    BY SailFleetAssumption DEF Turns, Since
  <2>7. \A m \in Since(t) + 1 .. t - 1 : m % AliveEvery # 0
    <3> SUFFICES ASSUME NEW m \in Since(t) + 1 .. t - 1
                 PROVE  m % AliveEvery # 0
      OBVIOUS
    <3>1. CASE m < t - b
      <4>1. m \in Since(t) + 1 .. (t - b) - 1
        BY <2>6, <3>1
      <4> QED
        BY <4>1, <2>5
    <3>2. CASE ~(m < t - b)
      <4>1. m = t - b /\ Since(t) < t - b
        BY <2>6, <3>2
      <4> QED
        BY <4>1, <2>5
    <3> QED
      BY <3>1, <3>2
  <2>8. c = "play" /\ t % AliveEvery = 0 => "ALIVE" \in keeps'[p]
    BY <1>8, <1>9
  <2>9. game'[dopen'[d]].turn = t
    BY <1>2, <1>4, <1>5, <1>7, <2>1
  <2>10. t - behind'[p] = t
    BY <1>11, <2>6
  <2> QED
    BY <1>11, <2>7, <2>8, <2>9, <2>10 DEF Unheard, Since
<1>13. \A d \in Players : AnswersTo(d, p)'
  BY <1>11, <1>12 DEF AnswersTo
<1>14. behind' \in [Players -> {0, 1}]
  BY <1>1, <1>5
<1> QED
  BY <1>1, <1>5, <1>7, <1>10, <1>11, <1>13, <1>14, StepKeeps

(* Leaving, willingly or by a signal, and hearing of a driver's end.        *)
LEMMA QuitLooks ==
  ASSUME IndInv, LookInv, NEW p \in Players, Quit(p)
  PROVE  LookInv'
<1>1. /\ pc' = [pc EXCEPT ![p] = "leave"] /\ pc[p] = "play" /\ pc \in [Players -> Places]
      /\ UNCHANGED <<game, open, keeps, behind, veteran, dpc, dopen, dalive>>
  BY DEF Quit, Goto, driverVars, IndInv, Shape
<1>2. StepOf(p) /\ AtSea(p)'
  BY <1>1 DEF StepOf, AtSea
<1>3. ASSUME NEW d \in Players
      PROVE  AnswersTo(d, p)'
  <2> SUFFICES ASSUME Watched(d, p)'
               PROVE  /\ dpc'[d] = "move" => behind'[p] = 0
                      /\ veteran'[p] /\ ~dalive'[d] /\ ~Looked(d)'
                           => Unheard(p, game[dopen[d]].turn)'
    BY DEF AnswersTo
  <2>1. Watched(d, p) /\ (Looked(d)' <=> Looked(d))
    BY <1>1 DEF Watched, Crew, AtSea, Looked
  <2>2. Unheard(p, game[dopen[d]].turn) => Unheard(p, game[dopen[d]].turn)'
    BY <1>1 DEF Unheard
  <2> QED
    BY <1>1, <2>1, <2>2 DEF LookInv, Answers, AnswersTo
<1> QED
  BY <1>1, <1>2, <1>3, StepKeeps DEF LookInv, Ranges

LEMMA ChokeLooks ==
  ASSUME IndInv, LookInv, NEW p \in Players, Choke(p)
  PROVE  LookInv'
<1>1. pc \in [Players -> Places] /\ game \in [Files -> Outcomes] /\ \A i \in Files : game[i].lost \in Nat
  BY DEF IndInv, Shape, LookInv, Ranges
<1>2. PICK c \in {"leave", "close"} : pc' = [pc EXCEPT ![p] = c]
  BY DEF Choke
<1>3. UNCHANGED <<open, keeps, behind, veteran, dpc, dopen, dalive>>
  BY DEF Choke, driverVars
<1>4. behind[p] = 0 /\ ~veteran[p]
  BY DEF Choke, LookInv, Recruits, AtSea
<1>5. \A i \in Files : /\ game'[i].turn = game[i].turn /\ game'[i].drivers = game[i].drivers
                       /\ game'[i].lost \in Nat
  BY <1>1 DEF Choke, Outcomes
<1>6. StepOf(p)
  BY <1>1, <1>2, <1>3, <1>5 DEF StepOf
<1>7. \A d \in Players : AnswersTo(d, p)'
  BY <1>3, <1>4 DEF AnswersTo
<1> QED
  BY <1>3, <1>4, <1>5, <1>6, <1>7, StepKeeps DEF LookInv, Ranges

LEMMA ChildLooks ==
  ASSUME IndInv, LookInv, NEW p \in Players, Child(p)
  PROVE  LookInv'
<1>1. /\ UNCHANGED <<pc, game, open, keeps, behind, veteran, dopen, dalive>>
      /\ \E c \in {"heard", "missed"} : dpc' = [dpc EXCEPT ![p] = c]
      /\ dpc \in [Players -> DriverPlaces]
  BY DEF Child, IndInv, Shape
<1>2. StepOf(p)
  BY <1>1 DEF StepOf
<1>3. \A d \in Players : AnswersTo(d, p)'
  BY <1>1, <1>2, SameAnswers
<1> QED
  BY <1>1, <1>2, <1>3, StepKeeps DEF LookInv, Ranges, Recruits, AtSea

(* A driver takes up a file: the only one if nobody had, and then in its    *)
(* first turn.                                                              *)
LEMMA DriverOpensLooks ==
  ASSUME IndInv, LookInv, NEW d \in Players, DriverOpens(d)
  PROVE  LookInv'
<1>1. PICK i \in Files : /\ dopen' = [dopen EXCEPT ![d] = i]
                         /\ dalive' = [dalive EXCEPT ![d] = game[i].called]
                         /\ game' = [game EXCEPT ![i].drivers = @ + 1]
  BY DEF DriverOpens
<1>2. dpc' = [dpc EXCEPT ![d] = "sleep"] /\ dpc[d] = "start"
  BY DEF DriverOpens
<1>3. UNCHANGED <<pc, open, keeps, behind, veteran>>
  BY DEF DriverOpens, playerVars
<1>4. game \in [Files -> Outcomes] /\ dopen \in [Players -> Files \cup {0}] /\ dpc \in [Players -> DriverPlaces]
  BY DEF IndInv, Shape
<1>5. \A f \in Files : game[f].drivers \in Nat /\ game[f].lost \in Nat /\ game[f].turn \in Turns
  BY DEF LookInv, Ranges
<1>6. \A f \in Files : /\ game'[f].turn = game[f].turn /\ game'[f].lost = game[f].lost
                       /\ game'[f].drivers = IF f = i THEN game[f].drivers + 1 ELSE game[f].drivers
  BY <1>1, <1>4 DEF Outcomes
<1>7. game[i].called \in BOOLEAN
  BY <1>4 DEF Outcomes
<1>8. dalive' \in [Players -> BOOLEAN]
  BY <1>1, <1>7 DEF LookInv, Ranges
<1>9. Ranges'
  BY <1>3, <1>5, <1>6, <1>8 DEF LookInv, Ranges
<1>10. Recruits'
  BY <1>3 DEF LookInv, Recruits, AtSea
<1>11. game'[i].drivers = 1 => game[i].drivers = 0 /\ game[i].turn = 0 /\ \A e \in Players : dopen[e] # i
  BY <1>5, <1>6 DEF LookInv, Sole
<1>12. Sole'
  <2> SUFFICES ASSUME NEW f \in Files
               PROVE  /\ game'[f].drivers = 0 => game'[f].turn = 0 /\ \A e \in Players : dopen'[e] # f
                      /\ game'[f].drivers = 1 =>
                           \A x, y \in Players : dopen'[x] = f /\ dopen'[y] = f => x = y
    BY DEF Sole
  <2>1. CASE f = i
    BY <1>1, <1>4, <1>5, <1>6, <1>11, <2>1
  <2>2. CASE f # i
    BY <1>1, <1>4, <1>6, <2>2 DEF LookInv, Sole
  <2> QED
    BY <2>1, <2>2
<1>13. ASSUME NEW p \in Players
       PROVE  AnswersTo(d, p)'
  <2>1. dpc'[d] = "sleep" /\ dopen'[d] = i
    BY <1>1, <1>2, <1>4
  <2>2. ASSUME Watched(d, p)'
        PROVE  Unheard(p, game[dopen[d]].turn)'
    <3>1. game'[dopen'[d]].turn = 0
      BY <1>6, <1>11, <2>1, <2>2 DEF Watched
    <3>2. (CheckEvery * 0 + 0) % CheckEvery = 0
      BY SailFleetAssumption, Remainder
    <3>3. Since(0) = 0
      BY <3>2, SailFleetAssumption DEF Since
    <3>4. behind'[p] \in {0, 1}
      BY <1>9 DEF Ranges
    <3>5. Unheard(p, 0)'
      BY <3>3, <3>4 DEF Unheard, Since
    <3> QED
      BY <3>1, <3>5 DEF Unheard
  <2> QED
    BY <2>1, <2>2 DEF AnswersTo
<1>14. ASSUME NEW e \in Players \ {d}, NEW p \in Players
       PROVE  AnswersTo(e, p)'
  <2> SUFFICES ASSUME Watched(e, p)'
               PROVE  /\ dpc'[e] = "move" => behind'[p] = 0
                      /\ veteran'[p] /\ ~dalive'[e] /\ ~Looked(e)'
                           => Unheard(p, game[dopen[e]].turn)'
    BY DEF AnswersTo
  <2>1. dpc'[e] = dpc[e] /\ dopen'[e] = dopen[e] /\ dalive'[e] = dalive[e]
    BY <1>1, <1>2, <1>4 DEF LookInv, Ranges
  <2>2. dopen[e] \in Files
    BY <2>1 DEF Watched, IndInv, Aboard
  <2>3. dopen[e] # i
    BY <1>11, <2>1 DEF Watched
  <2>4. game'[dopen[e]].turn = game[dopen[e]].turn /\ game'[dopen[e]].drivers = game[dopen[e]].drivers
    BY <1>6, <2>2, <2>3
  <2>5. Watched(e, p) /\ (Looked(e)' <=> Looked(e))
    BY <1>3, <2>1, <2>4 DEF Watched, Crew, AtSea, Looked
  <2>6. Unheard(p, game[dopen[e]].turn)' <=> Unheard(p, game[dopen[e]].turn)
    BY <1>3, <2>1, <2>4 DEF Unheard
  <2> QED
    BY <1>3, <2>1, <2>5, <2>6 DEF LookInv, Answers, AnswersTo
<1> QED
  BY <1>9, <1>10, <1>12, <1>13, <1>14 DEF LookInv, Answers

(* The driver counts a turn.  A look takes note of who is at sea, and they  *)
(* have nothing to answer for yet.                                          *)
LEMMA DriverTurnLooks ==
  ASSUME IndInv, LookInv, Pace = 1, NEW d \in Players, DriverTurn(d)
  PROVE  LookInv'
<1>1. PICK i \in Files : i = dopen[d]
  BY DEF DriverTurn, IndInv, Aboard
<1>2. PICK t \in Turns : t = game[i].turn
  BY DEF LookInv, Ranges
<1>3. PICK u : u = (t + 1) % TurnCycle
  OBVIOUS
<1>4. u % CheckEvery = 0 <=> (t + 1) % CheckEvery = 0
  BY <1>3, TurnGoesOn
<1>5. /\ UNCHANGED <<game, dopen, pc, open, keeps, behind>>
      /\ dpc[d] = "sleep" /\ (\A p \in Crew(i) : behind[p] < Pace)
      /\ (\E c \in {"over", "move"} : dpc' = [dpc EXCEPT ![d] = c])
      /\ dalive' = [dalive EXCEPT ![d] = @ /\ ~(u % CheckEvery = 0)]
      /\ veteran' = [p \in Players |-> veteran[p] \/ (u % CheckEvery = 0 /\ p \in Crew(i))]
  BY <1>1, <1>2, <1>3, Zenon DEF DriverTurn
<1>6. dopen \in [Players -> Files \cup {0}] /\ dpc \in [Players -> DriverPlaces]
  BY DEF IndInv, Shape
<1>7. veteran \in [Players -> BOOLEAN] /\ dalive \in [Players -> BOOLEAN] /\ behind \in [Players -> {0, 1}]
  BY DEF LookInv, Ranges
<1>8. Ranges'
  BY <1>5, <1>7 DEF LookInv, Ranges
<1>9. Sole'
  BY <1>5 DEF LookInv, Sole
<1>10. Recruits'
  BY <1>5, <1>7 DEF LookInv, Recruits, Crew, AtSea
<1>11. ASSUME NEW p \in Players
       PROVE  AnswersTo(d, p)'
  <2> SUFFICES ASSUME Watched(d, p)'
               PROVE  /\ dpc'[d] = "move" => behind'[p] = 0
                      /\ veteran'[p] /\ ~dalive'[d] /\ ~Looked(d)'
                           => Unheard(p, game[dopen[d]].turn)'
    BY DEF AnswersTo
  <2>1. dpc'[d] = "move"
    BY <1>5, <1>6 DEF Watched
  <2>2. Watched(d, p) /\ ~Looked(d)
    BY <1>5 DEF Watched, Crew, AtSea, Looked
  <2>3. behind'[p] = 0
    BY <1>1, <1>5, <1>7, <2>2 DEF Watched
  <2>4. ASSUME veteran'[p], ~dalive'[d], ~Looked(d)'
        PROVE  Unheard(p, game[dopen[d]].turn)'
    <3>1. (t + 1) % CheckEvery # 0
      BY <1>1, <1>2, <1>5, <2>1, <2>4 DEF Looked
    <3>2. veteran[p] /\ ~dalive[d]
      BY <1>4, <1>5, <1>7, <2>4, <3>1
    <3>3. Unheard(p, game[dopen[d]].turn)
      BY <2>2, <3>2 DEF LookInv, Answers, AnswersTo
    <3> QED
      BY <1>5, <3>3 DEF Unheard
  <2> QED
    BY <2>3, <2>4
<1>12. ASSUME NEW e \in Players \ {d}, NEW p \in Players
       PROVE  AnswersTo(e, p)'
  <2> SUFFICES ASSUME Watched(e, p)'
               PROVE  /\ dpc'[e] = "move" => behind'[p] = 0
                      /\ veteran'[p] /\ ~dalive'[e] /\ ~Looked(e)'
                           => Unheard(p, game[dopen[e]].turn)'
    BY DEF AnswersTo
  <2>1. dpc'[e] = dpc[e] /\ dalive'[e] = dalive[e]
    BY <1>5, <1>6, <1>7
  <2>2. Watched(e, p) /\ (Looked(e)' <=> Looked(e))
    BY <1>5, <2>1 DEF Watched, Crew, AtSea, Looked
  <2>3. dopen[e] \in Files
    BY <2>2 DEF Watched, IndInv, Aboard
  <2>4. dopen[e] # i
    BY <1>1, <2>2, <2>3 DEF Watched, LookInv, Sole
  <2>5. veteran'[p] = veteran[p]
    BY <1>5, <1>7, <2>2, <2>4 DEF Watched, Crew
  <2>6. Unheard(p, game[dopen[e]].turn)' <=> Unheard(p, game[dopen[e]].turn)
    BY <1>5 DEF Unheard
  <2> QED
    BY <1>5, <2>1, <2>2, <2>5, <2>6 DEF LookInv, Answers, AnswersTo
<1> QED
  BY <1>8, <1>9, <1>10, <1>11, <1>12 DEF LookInv, Answers

(* The driver writes the turn it has counted: everybody is behind by one.   *)
LEMMA DriverSyncLooks ==
  ASSUME IndInv, LookInv, Pace = 1, NEW d \in Players, DriverSync(d)
  PROVE  LookInv'
<1>1. PICK i \in Files : i = dopen[d]
  BY DEF DriverSync, IndInv, Aboard
<1>2. PICK t \in Turns : t = game[i].turn
  BY DEF LookInv, Ranges
<1>3. PICK u \in Turns : u = (t + 1) % TurnCycle
  BY TurnGoesOn
<1>4. /\ u % CheckEvery = 0 <=> (t + 1) % CheckEvery = 0
      /\ u % CheckEvery = 0 => Since(u) = u
      /\ u % CheckEvery # 0 => u = t + 1 /\ Since(u) = Since(t)
  BY <1>3, TurnGoesOn
<1>5. /\ \E storm \in {FALSE, u % WindEvery = 0} :
           game' = [game EXCEPT ![i].turn = u, ![i].storm = @ \/ storm]
      /\ behind' = [p \in Players |->
           IF AtSea(p) /\ open[p] = i /\ behind[p] < Pace THEN behind[p] + 1 ELSE behind[p]]
      /\ dpc[d] = "move" /\ dpc' = [dpc EXCEPT ![d] = "sleep"]
      /\ UNCHANGED <<pc, open, keeps, veteran, dopen, dalive>>
  BY <1>1, <1>2, <1>3, Zenon DEF DriverSync
<1>6. /\ dopen \in [Players -> Files \cup {0}] /\ dpc \in [Players -> DriverPlaces]
      /\ game \in [Files -> Outcomes]
  BY DEF IndInv, Shape
<1>7. behind \in [Players -> {0, 1}]
  BY DEF LookInv, Ranges
<1>8. \A f \in Files : /\ game'[f].turn = IF f = i THEN u ELSE game[f].turn
                       /\ game'[f].drivers = game[f].drivers /\ game'[f].lost = game[f].lost
  BY <1>5, <1>6 DEF Outcomes
<1>9. \A p \in Players :
        behind'[p] = IF AtSea(p) /\ open[p] = i THEN 1 ELSE behind[p]
  BY <1>5, <1>7
<1>10. behind' \in [Players -> {0, 1}]
  BY <1>5, <1>7
<1>11. Ranges'
  BY <1>5, <1>8, <1>10 DEF LookInv, Ranges
<1>12. Sole'
  <2>1. game[i].drivers # 0
    BY <1>1 DEF LookInv, Sole
  <2>2. i \in Files /\ UNCHANGED dopen
    BY <1>5
  <2>3. ASSUME NEW f \in Files
        PROVE  /\ game'[f].drivers = game[f].drivers
               /\ game'[f].drivers = 0 => game'[f].turn = game[f].turn
    <3>1. CASE f = i
      BY <1>8, <2>1, <3>1, Zenon
    <3>2. CASE f # i
      BY <1>8, <3>2, Zenon
    <3> QED
      BY <3>1, <3>2
  <2>4. Sole
    BY DEF LookInv
  <2> QED
    BY <2>2, <2>3, <2>4, Zenon DEF Sole
<1>13. Recruits'
  BY <1>5, <1>9 DEF LookInv, Recruits, AtSea
<1>14. ASSUME NEW p \in Players
       PROVE  AnswersTo(d, p)'
  <2> SUFFICES ASSUME Watched(d, p)', veteran'[p], ~dalive'[d], ~Looked(d)'
               PROVE  Unheard(p, game[dopen[d]].turn)'
    BY <1>5, <1>6 DEF AnswersTo
  <2>1. Watched(d, p) /\ AtSea(p) /\ open[p] = i
    BY <1>1, <1>5, <1>8 DEF Watched, Crew, AtSea
  <2>2. behind[p] = 0 /\ behind'[p] = 1
    BY <1>5, <1>9, <2>1 DEF LookInv, Answers, AnswersTo
  <2>3. game'[dopen'[d]].turn = u /\ t \in Int /\ u \in Int
    <3>1. dopen'[d] = i
      BY <1>1, <1>5, Zenon
    <3>2. game'[i].turn = u
      BY <1>8
    <3>3. TurnCycle \in Nat
      BY SailFleetAssumption
    <3>4. t \in Int /\ u \in Int
      BY <3>3 DEF Turns
    <3> QED
      BY <3>1, <3>2, <3>4, Zenon
  <2>4. Unheard(p, u)'
    <3>1. CASE u % CheckEvery = 0
      <4>1. Since(u) = u
        BY <1>4, <3>1
      <4> QED
        BY <2>2, <2>3, <4>1 DEF Unheard, Since
    <3>2. CASE u % CheckEvery # 0
      <4>1. u = t + 1 /\ Since(u) = Since(t) /\ ~Looked(d)
        BY <1>1, <1>2, <1>4, <3>2 DEF Looked
      <4>2. Unheard(p, t)
        BY <1>1, <1>2, <1>5, <2>1, <4>1 DEF LookInv, Answers, AnswersTo
      <4>3. t - behind[p] = t /\ u - behind'[p] = t
        BY <2>2, <2>3, <4>1
      <4> QED
        BY <1>5, <4>1, <4>2, <4>3 DEF Unheard, Since
    <3> QED
      BY <3>1, <3>2
  <2> QED
    BY <2>3, <2>4 DEF Unheard
<1>15. ASSUME NEW e \in Players \ {d}, NEW p \in Players
       PROVE  AnswersTo(e, p)'
  <2> SUFFICES ASSUME Watched(e, p)'
               PROVE  /\ dpc'[e] = "move" => behind'[p] = 0
                      /\ veteran'[p] /\ ~dalive'[e] /\ ~Looked(e)'
                           => Unheard(p, game[dopen[e]].turn)'
    BY DEF AnswersTo
  <2>1. dpc'[e] = dpc[e] /\ dopen'[e] = dopen[e]
    BY <1>5, <1>6
  <2>2. dopen[e] \in Files
    BY <2>1 DEF Watched, IndInv, Aboard
  <2>3. game[dopen[e]].drivers = 1
    BY <1>8, <2>1, <2>2 DEF Watched
  <2>4. dopen[e] # i
    BY <1>1, <2>2, <2>3 DEF LookInv, Sole
  <2>5. game'[dopen[e]].turn = game[dopen[e]].turn
    BY <1>8, <2>2, <2>4
  <2>6. Watched(e, p) /\ (Looked(e)' <=> Looked(e))
    BY <1>5, <2>1, <2>3, <2>5 DEF Watched, Crew, AtSea, Looked
  <2>7. behind'[p] = behind[p]
    BY <1>9, <2>4, <2>6 DEF Watched, Crew
  <2>8. Unheard(p, game[dopen[e]].turn)' <=> Unheard(p, game[dopen[e]].turn)
    BY <1>5, <2>5, <2>7 DEF Unheard
  <2> QED
    BY <1>5, <2>1, <2>6, <2>7, <2>8 DEF LookInv, Answers, AnswersTo
<1> QED
  BY <1>11, <1>12, <1>13, <1>14, <1>15 DEF LookInv, Answers

LEMMA DriverStopsLooks ==
  ASSUME IndInv, LookInv, NEW d \in Players, DriverEnds(d) \/ DriverKilled(d)
  PROVE  LookInv'
<1>1. /\ dpc' = [dpc EXCEPT ![d] = "ended"] /\ dopen' = [dopen EXCEPT ![d] = 0]
      /\ dalive' = [dalive EXCEPT ![d] = FALSE]
      /\ UNCHANGED <<game, pc, open, keeps, behind, veteran>>
  BY DEF DriverEnds, DriverKilled, playerVars
<1>2. /\ dopen \in [Players -> Files \cup {0}] /\ dpc \in [Players -> DriverPlaces]
      /\ dalive \in [Players -> BOOLEAN] /\ 0 \notin Files
  BY DEF IndInv, Shape, LookInv, Ranges, Files
<1>3. Ranges' /\ Sole' /\ Recruits'
  BY <1>1, <1>2 DEF LookInv, Ranges, Sole, Recruits, AtSea
<1>4. ASSUME NEW e \in Players, NEW p \in Players
      PROVE  AnswersTo(e, p)'
  <2> SUFFICES ASSUME Watched(e, p)'
               PROVE  /\ dpc'[e] = "move" => behind'[p] = 0
                      /\ veteran'[p] /\ ~dalive'[e] /\ ~Looked(e)'
                           => Unheard(p, game[dopen[e]].turn)'
    BY DEF AnswersTo
  <2>1. e # d
    BY <1>1, <1>2 DEF Watched
  <2>2. dpc'[e] = dpc[e] /\ dopen'[e] = dopen[e] /\ dalive'[e] = dalive[e]
    BY <1>1, <1>2, <2>1
  <2>3. Watched(e, p) /\ (Looked(e)' <=> Looked(e))
    BY <1>1, <2>2 DEF Watched, Crew, AtSea, Looked
  <2>4. Unheard(p, game[dopen[e]].turn)' <=> Unheard(p, game[dopen[e]].turn)
    BY <1>1, <2>2 DEF Unheard
  <2> QED
    BY <1>1, <2>2, <2>3, <2>4 DEF LookInv, Answers, AnswersTo
<1> QED
  BY <1>3, <1>4 DEF LookInv, Answers

LEMMA NextLookInv ==
  ASSUME Pace = 1
  PROVE  IndInv /\ LookInv /\ [Next]_vars => LookInv'
<1> SUFFICES ASSUME IndInv, LookInv, [Next]_vars PROVE LookInv'
  OBVIOUS
<1>1. CASE UNCHANGED vars
  <2>1. Ranges' /\ Sole' /\ Recruits'
    BY <1>1 DEF vars, LookInv, Ranges, Sole, Recruits, AtSea
  <2>2. Answers'
    BY <1>1 DEF vars, LookInv, Answers, AnswersTo, Watched, Looked, Unheard, Crew, AtSea
  <2> QED
    BY <2>1, <2>2 DEF LookInv
<1>2. ASSUME NEW p \in Players, PlayerStep(p)
      PROVE  LookInv'
  BY <1>2, HarbourLooks, HarbourSyncs, NewTurnLooks, ChildLooks DEF PlayerStep, PlayerGoesOn
<1>3. ASSUME NEW p \in Players, PlayerWhim(p)
      PROVE  LookInv'
  BY <1>3, HarbourLooks, HarbourSyncs, BeginLooks, QuitLooks, ChokeLooks DEF PlayerWhim
<1>4. ASSUME NEW d \in Players, DriverStep(d) \/ DriverKilled(d)
      PROVE  LookInv'
  BY <1>4, DriverOpensLooks, DriverTurnLooks, DriverSyncLooks, DriverStopsLooks DEF DriverStep
<1> QED
  BY <1>1, <1>2, <1>3, <1>4 DEF Next

(* The step in which a driver gives up its game.                            *)
LEMMA GivesUp ==
  ASSUME IndInv, LookInv, [Next]_vars, NEW d \in Players, dpc[d] = "sleep", dpc'[d] = "over"
  PROVE  DriverTurn(d)
<1>1. dpc \in [Players -> DriverPlaces]
  BY DEF IndInv, Shape
<1>2. ASSUME NEW p \in Players, PlayerStep(p) \/ PlayerWhim(p)
      PROVE  FALSE
  <2>1. \/ dpc' = dpc
        \/ \E c \in {"start", "heard", "missed"} : dpc' = [dpc EXCEPT ![p] = c]
    BY <1>2
    DEF PlayerStep, PlayerGoesOn, PlayerWhim, OpenFile, ForkDriver, CountDriver, DriverReports,
        Join, NewTurn, LeaveEnd, LeaveClose, Child, AskFile, PickShip, NoShips, Begin, Quit, Choke, Killed, driverVars
  <2> QED
    BY <1>1, <2>1
<1>3. ASSUME NEW e \in Players, DriverStep(e) \/ DriverKilled(e), ~DriverTurn(e)
      PROVE  FALSE
  <2>1. dpc' = [dpc EXCEPT ![e] = "sleep"] \/ dpc' = [dpc EXCEPT ![e] = "ended"]
    BY <1>3 DEF DriverStep, DriverOpens, DriverSync, DriverEnds, DriverKilled
  <2> QED
    BY <1>1, <2>1
<1>4. ASSUME NEW e \in Players \ {d}, DriverTurn(e)
      PROVE  FALSE
  BY <1>1, <1>4 DEF DriverTurn
<1>5. ~UNCHANGED vars
  BY DEF vars
<1> QED
  BY <1>2, <1>3, <1>4, <1>5 DEF Next

LEMMA Abandons ==
  ASSUME IndInv, LookInv, AliveEvery + 2 <= CheckEvery, Pace = 1,
         NEW d \in Players, DriverTurn(d), dpc'[d] = "over",
         game[dopen[d]].unbegun = 0, game[dopen[d]].drivers = 1, ~game[dopen[d]].storm,
         NEW p \in Crew(dopen[d]), veteran[p]
  PROVE  FALSE
<1>1. PICK i \in Files : i = dopen[d]
  BY DEF DriverTurn, IndInv, Aboard
<1>2. PICK t \in Turns : t = game[i].turn
  BY DEF LookInv, Ranges
<1>3. PICK u : u = (t + 1) % TurnCycle
  OBVIOUS
<1>4. game[i].people > 0
  <2>1. game[i].people = Cardinality(Crew(i)) + game[i].lost - game[i].unbegun
    BY DEF IndInv, PeopleCounted
  <2>2. Cardinality(Crew(i)) \in Nat /\ Cardinality(Crew(i)) # 0
    BY <1>1, CrewFinite, FS_EmptySet
  <2>3. game[i].lost \in Nat /\ game[i].unbegun = 0
    BY <1>1 DEF LookInv, Ranges
  <2> QED
    BY <2>1, <2>2, <2>3
<1>5. game[i].people \in Int
  BY OutcomeTypes DEF IndInv, Shape
<1>6. dpc' = [dpc EXCEPT ![d] =
        IF (IF u % CheckEvery = 0 /\ ~dalive[d] THEN 0 ELSE game[i].people) <= 0 \/ game[i].storm
        THEN "over" ELSE "move"]
  BY <1>1, <1>2, <1>3, Zenon DEF DriverTurn
<1>7. u % CheckEvery = 0 /\ ~dalive[d]
  BY <1>1, <1>4, <1>5, <1>6 DEF IndInv, Shape
<1>8. (t + 1) % CheckEvery = 0
  BY <1>3, <1>7, TurnGoesOn
<1>9. p \in Players /\ dpc[d] = "sleep" /\ behind[p] = 0
  BY <1>1 DEF DriverTurn, Crew, LookInv, Ranges
<1>10. Watched(d, p) /\ ~Looked(d)
  BY <1>9 DEF Watched, Looked
<1>11. Unheard(p, t)
  BY <1>1, <1>2, <1>7, <1>9, <1>10 DEF LookInv, Answers, AnswersTo
<1>12. t - behind[p] = t
  BY <1>9, SailFleetAssumption DEF Turns
<1>13. \A m \in Since(t) + 1 .. t - 1 : m % AliveEvery # 0
  BY <1>11, <1>12 DEF Unheard
<1> QED
  BY <1>8, <1>13, ReportDue

(* If players report at least two turns more often than the driver looks,   *)
(* and keep pace with it, the driver never gives up a game that somebody    *)
(* has been playing since its last look: the report of one turn, sent with  *)
(* the next one's Sync, comes before the look whatever the multiples of the *)
(* two periods (dr_1.c:406, pl_2.c:77).                                      *)
THEOREM NobodyIsAbandoned ==
  ASSUME Pace = 1, AliveEvery + 2 <= CheckEvery
  PROVE  Spec => NotAbandoned
<1>1. IndInv /\ LookInv /\ [Next]_vars =>
        [\A d \in Players :
           LET i == dopen[d]
           IN  /\ dpc[d] = "sleep" /\ dpc'[d] = "over"
               /\ game[i].unbegun = 0 /\ game[i].drivers = 1
               => game[i].storm \/ \A p \in Crew(i) : ~veteran[p]]_vars
  BY GivesUp, Abandons
<1>2. IndInv /\ LookInv /\ [Next]_vars => LookInv'
  BY NextLookInv
<1> QED
  BY <1>1, <1>2, InitIndInv, NextIndInv, InitLookInv, PTL DEF Spec, NotAbandoned
=============================================================================
