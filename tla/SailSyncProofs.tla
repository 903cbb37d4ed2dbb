--------------------------- MODULE SailSyncProofs ---------------------------
(***************************************************************************)
(* The sync file for any number of processes, records and tries: access to *)
(* it is exclusive, it implements the log of SailLog wherever the alarm    *)
(* comes into a Write, and the copy of the game of every process that was  *)
(* not cut there is what the log gives, with the fouls counted.            *)
(***************************************************************************)
EXTENDS SailSync, FiniteSetTheorems, SequenceTheorems, TLAPS

(* What a step needs to know of the state before it: the types of what the  *)
(* protocol moves, who holds the lock where, and that a process that has    *)
(* seen the end of the file under the lock still has.                       *)
Shape ==
  /\ file \in Seq(AllRecords)
  /\ lock \in Procs \cup {"nobody"}
  /\ pc \in [Procs -> PC]
  /\ tries \in [Procs -> Nat]
  /\ seek \in [Procs -> Nat]
  /\ buf \in [Procs -> Seq(AllRecords)]
  /\ issued \in [Procs -> Nat]

AtEnd == \A p \in Procs : /\ seek[p] <= Len(file)
                          /\ pc[p] = "append" => seek[p] = Len(file)

Trying == \A p \in Procs : pc[p] = "try" <=> tries[p] > 0

Bounded == \A p \in Procs : tries[p] \in 0..Timeout

(* The types of what Write and newturn move.                                *)
Moved ==
  /\ mode \in [Procs -> Modes]
  /\ at \in [Procs -> Places \cup {"none"}]
  /\ rec \in [Procs -> AllRecords \cup {NoRecord}]
  /\ rest \in [Procs -> Seq(AllRecords)]
  /\ cut \in [Procs -> SUBSET {"Write", "sync_update"}]
  /\ last \in [Procs -> Seq(AllRecords)]

(* What a Write that was begun knows wherever it goes on: whether the alarm *)
(* has come into it, and what the scan will find.                           *)
Ends(recs, r) == recs # <<>> /\ recs[Len(recs)] = r

Found(p) ==
  /\ at[p] = "text" => \/ rest[p] = <<rec[p]>>
                       \/ buf[p] = <<>> /\ cut[p] # {} /\ rest[p] = Append(last[p], rec[p])
  /\ at[p] = "spoiled" => rest[p] = <<>> \/ (buf[p] = <<>> /\ rest[p] = last[p])
  /\ at[p] \in {"kept", "tested", "half"} /\ cut[p] = {} => Ends(buf[p], rec[p])

Resumed(p) ==
  /\ mode[p] \in {"command", "newturn"} => pc[p] = "run"
  /\ mode[p] \notin {"driver", "left"} => p \in Players
  /\ at[p] # "none" => /\ mode[p] \in {"alarm", "newturn", "command"}
                       /\ rec[p] \in Issues[p]
                       /\ mode[p] # "command" => cut[p] # {}
  /\ at[p] = "spoiled" => cut[p] # {}
  /\ at[p] \in {"tested", "half"} => /\ IsSnag(rec[p])
                                     /\ mode[p] # "command" => "sync_update" \in cut[p]

Writing == \A p \in Procs : Resumed(p) /\ Found(p)

IndInv == Shape /\ Exclusive /\ AtEnd /\ Trying /\ Bounded /\ Moved /\ Writing

(* The part of it that is about Sync alone.                                 *)
Core == Shape /\ Exclusive /\ AtEnd /\ Trying /\ Bounded

LEMMA InitIndInv == Init => IndInv
<1> SUFFICES ASSUME Init PROVE IndInv
  OBVIOUS
<1>1. Core
  BY SailSyncAssumption DEF Init, Core, Shape, Exclusive, AtEnd, Trying, Bounded, PC
<1>2. Moved
  BY DEF Init, Moved, Modes, Places
<1>3. Writing
  BY DEF Init, Writing, Resumed, Found
<1> QED
  BY <1>1, <1>2, <1>3 DEF IndInv, Core

LEMMA ConcatLen ==
  ASSUME NEW S, NEW s \in Seq(S), NEW t \in Seq(S)
  PROVE  s \o t \in Seq(S) /\ Len(s \o t) = Len(s) + Len(t) /\ Len(s) \in Nat /\ Len(t) \in Nat
  OBVIOUS

LEMMA SayingsAre ==
  \A p \in Procs : /\ Issues[p] \subseteq Sayings[p]
                   /\ Sayings[p] \subseteq AllRecords
                   /\ p \in Players => Garbled \in Sayings[p]
                   /\ \A r \in Sayings[p] : r \in Issues[p] \/ r = Garbled
  BY DEF Sayings, AllRecords

(* A step that leaves the file, the lock and the places in Sync alone.      *)
LEMMA OutsideKeeps ==
  ASSUME IndInv, UNCHANGED sync, buf' \in [Procs -> Seq(AllRecords)], issued' \in [Procs -> Nat]
  PROVE  Core'
  BY DEF sync, IndInv, Core, Shape, Exclusive, AtEnd, Trying, Bounded

LEMMA WriteKeeps ==
  ASSUME IndInv, NEW p \in Procs, Write(p)
  PROVE  Core'
<1>1. PICK r \in Issues[p] : Says(p, r) /\ buf' = [buf EXCEPT ![p] = Append(@, r)]
  BY DEF Write
<1>2. r \in AllRecords
  BY SayingsAre
<1>3. buf' \in [Procs -> Seq(AllRecords)]
  BY <1>1, <1>2 DEF IndInv, Shape
<1>4. issued' \in [Procs -> Nat]
  BY <1>1 DEF IndInv, Shape, Says
<1>5. UNCHANGED sync
  BY DEF Write
<1> QED
  BY <1>3, <1>4, <1>5, OutsideKeeps

LEMMA WriteStepKeeps ==
  ASSUME IndInv, NEW p \in Procs, WriteStep(p)
  PROVE  Core'
<1>1. UNCHANGED sync
  BY DEF WriteStep, WriteText, WriteKeep, WriteKeepOld, WriteApply, WriteFirstHalf,
     WriteSecondHalf
<1>2. buf[p] \in Seq(AllRecords) /\ rest[p] \in Seq(AllRecords)
  BY DEF IndInv, Shape, Moved
<1>3. CASE WriteText(p)
  <2>1. PICK r \in Issues[p] : Says(p, r)
    BY <1>3 DEF WriteText
  <2>2. buf' \in [Procs -> Seq(AllRecords)] /\ issued' \in [Procs -> Nat]
    BY <1>3, <2>1 DEF WriteText, Says, IndInv, Shape
  <2> QED
    BY <1>1, <2>2, OutsideKeeps
<1>4. CASE WriteKeep(p)
  <2>1. buf[p] \o rest[p] \in Seq(AllRecords)
    BY <1>2, ConcatLen
  <2>2. buf' \in [Procs -> Seq(AllRecords)] /\ issued' \in [Procs -> Nat]
    BY <1>4, <2>1 DEF WriteKeep, IndInv, Shape
  <2> QED
    BY <1>1, <2>2, OutsideKeeps
<1>5. CASE WriteKeepOld(p)
  <2>1. PICK x : x = buf[p] \o rest[p]
    OBVIOUS
  <2>2. x \in Seq(AllRecords)
    BY <1>2, <2>1, ConcatLen
  <2>3. Garbled \in AllRecords
    <3>1. p \in Players
      BY <1>5 DEF WriteKeepOld, InWrite, IndInv, Writing, Resumed
    <3> QED
      BY <3>1, SayingsAre
  <2>4. Append(x, Garbled) \in Seq(AllRecords)
    BY <2>2, <2>3
  <2>5. buf' = [buf EXCEPT ![p] = Append(x, Garbled)] /\ issued' = issued
    BY <1>5, <2>1 DEF WriteKeepOld
  <2>6. buf' \in [Procs -> Seq(AllRecords)] /\ issued' \in [Procs -> Nat]
    BY <2>4, <2>5 DEF IndInv, Shape
  <2> QED
    BY <1>1, <2>6, OutsideKeeps
<1>6. CASE WriteApply(p) \/ WriteFirstHalf(p) \/ WriteSecondHalf(p)
  <2>1. buf' = buf /\ issued' = issued
    BY <1>6 DEF WriteApply, WriteFirstHalf, WriteSecondHalf
  <2>2. buf' \in [Procs -> Seq(AllRecords)] /\ issued' \in [Procs -> Nat]
    BY <2>1 DEF IndInv, Shape
  <2> QED
    BY <1>1, <2>2, OutsideKeeps
<1> QED
  BY <1>3, <1>4, <1>5, <1>6 DEF WriteStep

LEMMA TurnKeeps ==
  ASSUME IndInv, NEW p \in Procs, NewTurn(p) \/ Return(p) \/ Leave(p)
  PROVE  Core'
<1>1. UNCHANGED sync /\ buf' = buf /\ issued' = issued
  BY DEF NewTurn, Return, Leave
<1>2. buf' \in [Procs -> Seq(AllRecords)] /\ issued' \in [Procs -> Nat]
  BY <1>1 DEF IndInv, Shape
<1> QED
  BY <1>1, <1>2, OutsideKeeps

LEMMA SyncCallKeeps ==
  ASSUME IndInv, NEW p \in Procs, SyncCall(p)
  PROVE  Core'
<1>1. Shape'
  BY SailSyncAssumption DEF SyncCall, Goto, IndInv, Shape, PC
<1>2. Exclusive' /\ AtEnd'
  BY DEF SyncCall, Goto, IndInv, Shape, Exclusive, AtEnd
<1>3. Trying' /\ Bounded'
  BY SailSyncAssumption DEF SyncCall, Goto, IndInv, Shape, Trying, Bounded
<1> QED
  BY <1>1, <1>2, <1>3 DEF Core

LEMMA TryLockKeeps ==
  ASSUME IndInv, NEW p \in Procs, TryLock(p)
  PROVE  Core'
<1>1. tries[p] \in Nat /\ tries[p] > 0 /\ tries[p] <= Timeout
  BY DEF TryLock, IndInv, Shape, Trying, Bounded
<1>2. CASE lock = "nobody"
  <2>1. /\ lock' = p /\ tries' = [tries EXCEPT ![p] = 0]
        /\ \/ pc' = [pc EXCEPT ![p] = "failed"]
           \/ pc' = [pc EXCEPT ![p] = "read"]
    BY <1>2 DEF TryLock
  <2>2. UNCHANGED <<file, seek, buf, issued>> /\ pc[p] = "try"
    BY DEF TryLock
  <2>3. Shape'
    BY <1>1, <2>1, <2>2 DEF IndInv, Shape, PC
  <2>4. Exclusive' /\ AtEnd'
    BY <1>2, <2>1, <2>2, SailSyncAssumption DEF IndInv, Shape, Exclusive, AtEnd, PC
  <2>5. \A q \in Procs : q # p => pc'[q] = pc[q] /\ tries'[q] = tries[q]
    BY <2>1 DEF IndInv, Shape
  <2>6. tries'[p] \in 0..Timeout /\ (pc'[p] = "try" <=> tries'[p] > 0)
    BY <1>1, <2>1, SailSyncAssumption DEF IndInv, Shape
  <2>7. Trying' /\ Bounded'
    BY <2>5, <2>6 DEF IndInv, Trying, Bounded
  <2> QED
    BY <2>3, <2>4, <2>7 DEF Core
<1>3. CASE lock # "nobody"
  <2>1. /\ lock' = lock
        /\ tries' = [tries EXCEPT ![p] = tries[p] - 1]
        /\ pc' = [pc EXCEPT ![p] = IF tries[p] - 1 = 0 THEN "failed" ELSE "try"]
    BY <1>3 DEF TryLock
  <2>2. UNCHANGED <<file, seek, buf, issued>> /\ pc[p] = "try"
    BY DEF TryLock
  <2>3. Shape'
    BY <1>1, <2>1, <2>2 DEF IndInv, Shape, PC
  <2>4. Exclusive' /\ AtEnd'
    BY <1>3, <2>1, <2>2, SailSyncAssumption DEF IndInv, Shape, Exclusive, AtEnd, PC
  <2>5. \A q \in Procs : q # p => pc'[q] = pc[q] /\ tries'[q] = tries[q]
    BY <2>1 DEF IndInv, Shape
  <2>6. tries'[p] \in 0..Timeout /\ (pc'[p] = "try" <=> tries'[p] > 0)
    BY <1>1, <2>1, SailSyncAssumption DEF IndInv, Shape
  <2>7. Trying' /\ Bounded'
    BY <2>5, <2>6 DEF IndInv, Trying, Bounded
  <2> QED
    BY <2>3, <2>4, <2>7 DEF Core
<1> QED
  BY <1>2, <1>3

LEMMA ReadRecordKeeps ==
  ASSUME IndInv, NEW p \in Procs, ReadRecord(p)
  PROVE  Core'
<1>1. Shape' /\ Exclusive' /\ Trying' /\ Bounded'
  BY DEF ReadRecord, IndInv, Shape, Exclusive, Trying, Bounded
<1>2. AtEnd'
  BY DEF ReadRecord, IndInv, Shape, AtEnd
<1> QED
  BY <1>1, <1>2 DEF Core

LEMMA ReadBadKeeps ==
  ASSUME IndInv, NEW p \in Procs, ReadBad(p)
  PROVE  Core'
<1>1. Shape' /\ Trying' /\ Bounded'
  BY DEF ReadBad, Goto, IndInv, Shape, Trying, Bounded, PC
<1>2. Exclusive' /\ AtEnd'
  BY SailSyncAssumption DEF ReadBad, Goto, IndInv, Shape, Exclusive, AtEnd
<1> QED
  BY <1>1, <1>2 DEF Core

LEMMA ReadEndKeeps ==
  ASSUME IndInv, NEW p \in Procs, ReadEnd(p)
  PROVE  Core'
<1>1. Shape' /\ Trying' /\ Bounded'
  BY DEF ReadEnd, Goto, IndInv, Shape, Trying, Bounded, PC
<1>2. Exclusive' /\ AtEnd'
  BY DEF ReadEnd, Goto, IndInv, Shape, Exclusive, AtEnd
<1> QED
  BY <1>1, <1>2 DEF Core

LEMMA AddBufferKeeps ==
  ASSUME IndInv, NEW p \in Procs, AddBuffer(p)
  PROVE  Core'
<1>1. file \in Seq(AllRecords) /\ buf[p] \in Seq(AllRecords)
  BY DEF IndInv, Shape
<1>2. /\ file' \in Seq(AllRecords) /\ Len(file') \in Nat
      /\ Len(file') >= Len(file) /\ Len(file) \in Nat
  BY <1>1, ConcatLen DEF AddBuffer
<1>3. Shape'
  BY <1>2 DEF AddBuffer, Rewind, Goto, IndInv, Shape, PC
<1>4. Exclusive'
  BY SailSyncAssumption DEF AddBuffer, Rewind, Goto, IndInv, Shape, Exclusive
<1>5. Trying' /\ Bounded'
  BY DEF AddBuffer, Rewind, Goto, IndInv, Shape, Trying, Bounded
<1>6. \A q \in Procs : q # p => pc'[q] = pc[q] /\ seek'[q] = seek[q]
  BY DEF AddBuffer, Rewind, Goto, IndInv, Shape
<1>7. \A q \in Procs : q # p => pc[q] # "append"
  BY DEF AddBuffer, Rewind, Goto, IndInv, Exclusive
<1>8. seek'[p] = Len(file') /\ pc'[p] = "run"
  BY DEF AddBuffer, Rewind, Goto, IndInv, Shape
<1>9. ASSUME NEW q \in Procs
      PROVE  seek'[q] <= Len(file') /\ (pc'[q] = "append" => seek'[q] = Len(file'))
  <2>1. CASE q = p
    BY <1>2, <1>8, <2>1
  <2>2. CASE q # p
    <3>1. seek[q] <= Len(file) /\ seek[q] \in Nat
      BY DEF IndInv, Shape, AtEnd
    <3> QED
      BY <1>2, <1>6, <1>7, <2>2, <3>1
  <2> QED
    BY <2>1, <2>2
<1>10. AtEnd'
  BY <1>9 DEF AtEnd
<1> QED
  BY <1>3, <1>4, <1>5, <1>10 DEF Core

LEMMA CloseKeeps ==
  ASSUME IndInv, NEW p \in Procs, Close(p)
  PROVE  Core'
<1>1. Len(file) \in Nat
  BY ConcatLen DEF IndInv, Shape
<1>2. Shape'
  BY DEF Close, IndInv, Shape, PC
<1>3. Exclusive'
  BY SailSyncAssumption DEF Close, IndInv, Shape, Exclusive
<1>4. AtEnd'
  BY <1>1 DEF Close, IndInv, Shape, AtEnd
<1>5. Trying'
  BY DEF Close, IndInv, Shape, Trying
<1>6. Bounded'
  BY SailSyncAssumption DEF Close, IndInv, Shape, Bounded
<1> QED
  BY <1>2, <1>3, <1>4, <1>5, <1>6 DEF Core

(* What a step of p leaves alone is as it was.                              *)
Kept(q) == /\ mode'[q] = mode[q] /\ at'[q] = at[q] /\ rec'[q] = rec[q] /\ rest'[q] = rest[q]
           /\ cut'[q] = cut[q] /\ last'[q] = last[q] /\ pc'[q] = pc[q] /\ buf'[q] = buf[q]

LEMMA OthersWriting ==
  ASSUME IndInv, NEW p \in Procs, \A q \in Procs \ {p} : Kept(q), Resumed(p)', Found(p)'
  PROVE  Writing'
<1>1. ASSUME NEW q \in Procs PROVE (Resumed(q) /\ Found(q))'
  <2>1. CASE q = p
    BY <2>1
  <2>2. CASE q # p
    <3>1. Resumed(q) /\ Found(q)
      BY DEF IndInv, Writing
    <3>2. Kept(q)
      BY <2>2
    <3>3. Resumed(q)'
      BY <3>1, <3>2 DEF Kept, Resumed
    <3>4. Found(q)'
      BY <3>1, <3>2 DEF Kept, Found
    <3> QED
      BY <3>3, <3>4
  <2> QED
    BY <2>1, <2>2
<1> QED
  BY <1>1 DEF Writing

LEMMA WriteWrites ==
  ASSUME IndInv, NEW p \in Procs, Write(p)
  PROVE  (Moved /\ Writing)'
<1>1. PICK r \in Issues[p] : buf' = [buf EXCEPT ![p] = Append(@, r)]
  BY DEF Write
<1>2. /\ rest' = [rest EXCEPT ![p] = <<>>]
      /\ at' = [at EXCEPT ![p] = IF @ = "text" THEN "spoiled" ELSE @]
      /\ UNCHANGED <<pc, mode, rec, cut, last>> /\ mode[p] # "command"
  BY DEF Write, sync
<1>3. Moved'
  BY <1>2 DEF IndInv, Moved, Places
<1>4. /\ rest'[p] = <<>> /\ at'[p] = IF at[p] = "text" THEN "spoiled" ELSE at[p]
      /\ \A q \in Procs \ {p} : Kept(q)
  BY <1>1, <1>2 DEF IndInv, Shape, Moved, Kept
<1>5. Resumed(p)
  BY DEF IndInv, Writing
<1>6. Resumed(p)'
  BY <1>2, <1>4, <1>5 DEF Resumed
<1>7. Found(p)'
  BY <1>2, <1>4, <1>5 DEF Resumed, Found
<1> QED
  BY <1>3, <1>4, <1>6, <1>7, OthersWriting

LEMMA TextWrites ==
  ASSUME IndInv, NEW p \in Procs, WriteText(p)
  PROVE  (Moved /\ Writing)'
<1>1. PICK r \in Issues[p] : /\ rec' = [rec EXCEPT ![p] = r]
                             /\ rest' = [rest EXCEPT ![p] = <<r>>]
  BY DEF WriteText
<1>2. at' = [at EXCEPT ![p] = "text"] /\ UNCHANGED <<pc, mode, buf, cut, last>>
      /\ mode[p] = "command"
  BY DEF WriteText, sync
<1>3. r \in AllRecords
  BY SayingsAre
<1>4. Moved'
  BY <1>1, <1>2, <1>3 DEF IndInv, Moved, Places
<1>5. /\ rest'[p] = <<r>> /\ at'[p] = "text" /\ rec'[p] = r
      /\ \A q \in Procs \ {p} : Kept(q)
  BY <1>1, <1>2 DEF IndInv, Shape, Moved, Kept
<1>6. Resumed(p)
  BY DEF IndInv, Writing
<1>7. Resumed(p)'
  BY <1>2, <1>5, <1>6 DEF Resumed
<1>8. Found(p)'
  BY <1>5 DEF Found
<1> QED
  BY <1>4, <1>5, <1>7, <1>8, OthersWriting

LEMMA EndsAppend ==
  ASSUME NEW S, NEW s \in Seq(S), NEW r \in S
  PROVE  /\ s \o <<r>> = Append(s, r) /\ Append(s, r) \in Seq(S) /\ Ends(Append(s, r), r)
         /\ SubSeq(Append(s, r), 1, Len(Append(s, r)) - 1) = s
  BY DEF Ends

LEMMA KeepWrites ==
  ASSUME IndInv, NEW p \in Procs, WriteKeep(p) \/ WriteKeepOld(p)
  PROVE  (Moved /\ Writing)'
<1>1. /\ rest' = [rest EXCEPT ![p] = <<>>] /\ at' = [at EXCEPT ![p] = "kept"]
      /\ mode[p] = "command" /\ at[p] \in {"text", "spoiled"}
      /\ UNCHANGED <<pc, mode, rec, cut, last>>
      /\ \E x : buf' = [buf EXCEPT ![p] = x]
  BY DEF WriteKeep, WriteKeepOld, InWrite, sync
<1>2. Moved'
  BY <1>1 DEF IndInv, Moved, Places
<1>3. /\ rest'[p] = <<>> /\ at'[p] = "kept" /\ \A q \in Procs \ {p} : Kept(q)
  BY <1>1 DEF IndInv, Shape, Moved, Kept
<1>4. Resumed(p) /\ Found(p)
  BY DEF IndInv, Writing
<1>5. Resumed(p)'
  BY <1>1, <1>3, <1>4 DEF Resumed
<1>6. ASSUME cut[p] = {} PROVE Ends(buf'[p], rec[p])
  <2>1. at[p] = "text" /\ rest[p] = <<rec[p]>>
    BY <1>1, <1>4, <1>6 DEF Resumed, Found
  <2>2. buf' = [buf EXCEPT ![p] = @ \o rest[p]]
    BY <2>1 DEF WriteKeep, WriteKeepOld, InWrite
  <2>3. buf'[p] = buf[p] \o <<rec[p]>>
    BY <2>1, <2>2 DEF IndInv, Shape
  <2>4. buf[p] \in Seq(AllRecords) /\ rec[p] \in AllRecords
    BY <1>1, <1>4, SayingsAre DEF IndInv, Shape, Resumed
  <2> QED
    BY <2>3, <2>4, EndsAppend
<1>7. Found(p)'
  BY <1>1, <1>3, <1>6 DEF Found
<1> QED
  BY <1>2, <1>3, <1>5, <1>7, OthersWriting

LEMMA ApplyWrites ==
  ASSUME IndInv, NEW p \in Procs, WriteApply(p) \/ WriteFirstHalf(p) \/ WriteSecondHalf(p)
  PROVE  (Moved /\ Writing)'
<1>1. /\ UNCHANGED <<pc, mode, buf, rest, cut, last>>
      /\ mode[p] = "command" /\ at[p] \in {"kept", "tested", "half"}
      /\ \/ WriteDone(p)
         \/ rec' = rec /\ at' = [at EXCEPT ![p] = "tested"] /\ IsSnag(rec[p])
         \/ rec' = rec /\ at' = [at EXCEPT ![p] = "half"] /\ at[p] = "tested"
  BY DEF WriteApply, WriteFirstHalf, WriteSecondHalf, InWrite, sync
<1>2. NoRecord \in AllRecords \cup {NoRecord}
  OBVIOUS
<1>3. Moved'
  BY <1>1, <1>2 DEF IndInv, Moved, Places, WriteDone
<1>4. Resumed(p) /\ Found(p)
  BY DEF IndInv, Writing
<1>5. \A q \in Procs \ {p} : Kept(q)
  BY <1>1 DEF IndInv, Shape, Moved, Kept, WriteDone
<1>6. \/ at'[p] = "none"
      \/ at'[p] \in {"tested", "half"} /\ rec'[p] = rec[p] /\ IsSnag(rec[p])
  BY <1>1, <1>4 DEF WriteDone, IndInv, Moved, Resumed
<1>7. Resumed(p)' /\ Found(p)'
  BY <1>1, <1>4, <1>6 DEF Resumed, Found
<1> QED
  BY <1>3, <1>5, <1>7, OthersWriting

LEMMA TurnWrites ==
  ASSUME IndInv, NEW p \in Procs, NewTurn(p) \/ Return(p)
  PROVE  (Moved /\ Writing)'
<1>1. UNCHANGED <<pc, buf, at, rec, rest, last>> /\ pc[p] = "run"
  BY DEF NewTurn, Return, sync, write
<1>2. Resumed(p) /\ Found(p)
  BY DEF IndInv, Writing
<1>3. CASE Return(p)
  <2>1. mode' = [mode EXCEPT ![p] = "command"] /\ mode[p] = "newturn" /\ cut' = cut
    BY <1>3 DEF Return
  <2>2. Moved'
    BY <1>1, <2>1 DEF IndInv, Moved, Modes
  <2>3. mode'[p] = "command" /\ \A q \in Procs \ {p} : Kept(q)
    BY <1>1, <2>1 DEF IndInv, Moved, Kept
  <2>4. Resumed(p)' /\ Found(p)'
    BY <1>1, <1>2, <2>1, <2>3 DEF Resumed, Found
  <2> QED
    BY <2>2, <2>3, <2>4, OthersWriting
<1>4. CASE NewTurn(p)
  <2>1. PICK more : /\ more = IF at[p] = "none" THEN {}
                              ELSE IF at[p] \in {"tested", "half"} THEN {"sync_update"}
                              ELSE {"Write"}
                    /\ cut' = [cut EXCEPT ![p] = @ \cup more]
    BY <1>4 DEF NewTurn
  <2>2. mode' = [mode EXCEPT ![p] = "alarm"] /\ mode[p] \in {"start", "command"}
    BY <1>4 DEF NewTurn
  <2>3. more \subseteq {"Write", "sync_update"} /\ cut[p] \subseteq {"Write", "sync_update"}
    BY <2>1 DEF IndInv, Moved
  <2>4. Moved'
    <3>1. cut[p] \cup more \in SUBSET {"Write", "sync_update"}
      BY <2>3
    <3>2. cut' \in [Procs -> SUBSET {"Write", "sync_update"}]
      BY <2>1, <3>1 DEF IndInv, Moved
    <3> QED
      BY <1>1, <2>2, <3>2 DEF IndInv, Moved, Modes
  <2>5. /\ mode'[p] = "alarm" /\ cut'[p] = cut[p] \cup more
        /\ \A q \in Procs \ {p} : Kept(q)
    BY <1>1, <2>1, <2>2 DEF IndInv, Moved, Kept
  <2>6. at[p] # "none" => mode[p] = "command" /\ cut'[p] # {}
    BY <1>2, <2>1, <2>2, <2>5 DEF Resumed
  <2>7. at[p] \in {"tested", "half"} => "sync_update" \in cut'[p]
    BY <2>1, <2>5
  <2>8. Resumed(p)' /\ Found(p)'
    BY <1>1, <1>2, <2>2, <2>5, <2>6, <2>7 DEF Resumed, Found
  <2> QED
    BY <2>4, <2>5, <2>8, OthersWriting
<1> QED
  BY <1>3, <1>4

LEMMA LeaveWrites ==
  ASSUME IndInv, NEW p \in Procs, Leave(p) \/ Close(p)
  PROVE  (Moved /\ Writing)'
<1>1. PICK m \in {"leaving", "left"} : mode' = [mode EXCEPT ![p] = m] /\ (m = "leaving" => Leave(p))
  BY DEF Leave, Close
<1>2. /\ WriteDone(p) /\ rest' = [rest EXCEPT ![p] = <<>>] /\ cut' = [cut EXCEPT ![p] = {}]
      /\ \E l \in {<<>>, last[p]} : last' = [last EXCEPT ![p] = l]
  BY DEF Leave, Close, IndInv, Moved
<1>3. <<>> \in Seq(AllRecords) /\ NoRecord \in AllRecords \cup {NoRecord}
  OBVIOUS
<1>4. Moved'
  <2>1. mode' \in [Procs -> Modes]
    BY <1>1 DEF IndInv, Moved, Modes
  <2>2. at' \in [Procs -> Places \cup {"none"}]
    BY <1>2 DEF IndInv, Moved, WriteDone
  <2>3. rec' \in [Procs -> AllRecords \cup {NoRecord}]
    BY <1>2, <1>3 DEF IndInv, Moved, WriteDone
  <2>4. cut' \in [Procs -> SUBSET {"Write", "sync_update"}]
    BY <1>2 DEF IndInv, Moved
  <2>5. PICK l \in {<<>>, last[p]} : last' = [last EXCEPT ![p] = l]
    BY <1>2
  <2>6. l \in Seq(AllRecords)
    BY <1>3 DEF IndInv, Moved
  <2>7. last' \in [Procs -> Seq(AllRecords)] /\ rest' \in [Procs -> Seq(AllRecords)]
    BY <1>2, <1>3, <2>5, <2>6 DEF IndInv, Moved
  <2> QED
    BY <2>1, <2>2, <2>3, <2>4, <2>7 DEF Moved
<1>5. /\ mode'[p] = m /\ at'[p] = "none"
      /\ \A q \in Procs \ {p} : pc'[q] = pc[q] /\ buf'[q] = buf[q]
  BY <1>1, <1>2 DEF Leave, Close, sync, IndInv, Shape, Moved, WriteDone
<1>6. \A q \in Procs \ {p} : Kept(q)
  BY <1>1, <1>2, <1>5 DEF IndInv, Moved, WriteDone, Kept
<1>7. m = "leaving" => p \in Players
  BY <1>1 DEF Leave, IndInv, Writing, Resumed
<1>8. Resumed(p)' /\ Found(p)'
  BY <1>1, <1>5, <1>7 DEF Resumed, Found
<1> QED
  BY <1>4, <1>6, <1>8, OthersWriting

(* In Sync: nothing of these but the place in Sync.                         *)
LEMMA SyncWrites ==
  ASSUME IndInv, NEW p \in Procs,
         SyncCall(p) \/ TryLock(p) \/ ReadRecord(p) \/ ReadBad(p) \/ ReadEnd(p)
  PROVE  (Moved /\ Writing)'
<1>1. /\ UNCHANGED <<mode, at, rec, rest, cut, last, buf>>
      /\ mode[p] \notin {"command", "newturn"}
      /\ \A q \in Procs \ {p} : pc'[q] = pc[q]
  <2>1. Resumed(p)
    BY DEF IndInv, Writing
  <2>2. mode[p] \notin {"command", "newturn"}
    BY <2>1 DEF SyncCall, TryLock, ReadRecord, ReadBad, ReadEnd, Goto, Resumed
  <2> QED
    BY <2>2 DEF SyncCall, TryLock, ReadRecord, ReadBad, ReadEnd, Goto, write, IndInv, Shape
<1>2. Moved'
  BY <1>1 DEF IndInv, Moved
<1>3. \A q \in Procs \ {p} : Kept(q)
  BY <1>1 DEF Kept
<1>4. Resumed(p) /\ Found(p)
  BY DEF IndInv, Writing
<1>5. Resumed(p)' /\ Found(p)'
  BY <1>1, <1>4 DEF Resumed, Found
<1> QED
  BY <1>2, <1>3, <1>5, OthersWriting

LEMMA AddBufferWrites ==
  ASSUME IndInv, NEW p \in Procs, AddBuffer(p)
  PROVE  (Moved /\ Writing)'
<1>1. /\ pc[p] = "append" /\ pc' = [pc EXCEPT ![p] = "run"] /\ UNCHANGED <<at, rec, cut>>
      /\ buf' = [buf EXCEPT ![p] = <<>>]
  BY DEF AddBuffer, Goto, Rewind
<1>2. PICK t : /\ t = IF at[p] \in {"text", "spoiled"} THEN buf[p] \o rest[p] ELSE <<>>
               /\ rest' = [rest EXCEPT ![p] = t]
  BY DEF AddBuffer, Rewind, IndInv, Moved
<1>3. PICK l : /\ l = IF buf[p] = <<>> THEN last[p] ELSE buf[p]
               /\ last' = [last EXCEPT ![p] = l]
  BY DEF AddBuffer, Rewind, IndInv, Moved
<1>4. PICK m : /\ m = CASE mode[p] = "alarm" -> "newturn" [] mode[p] = "leaving" -> "left"
                        [] OTHER -> mode[p]
               /\ mode' = [mode EXCEPT ![p] = m]
  BY DEF AddBuffer, Rewind, IndInv, Moved
<1>5. /\ buf[p] \in Seq(AllRecords) /\ rest[p] \in Seq(AllRecords) /\ last[p] \in Seq(AllRecords)
      /\ mode[p] \in Modes
  BY DEF IndInv, Shape, Moved
<1>6. t \in Seq(AllRecords) /\ l \in Seq(AllRecords)
  <2>1. buf[p] \o rest[p] \in Seq(AllRecords) /\ <<>> \in Seq(AllRecords)
    BY <1>5, ConcatLen
  <2> QED
    BY <1>2, <1>3, <1>5, <2>1
<1>7. m \in Modes
  BY <1>4, <1>5 DEF Modes
<1>8. Moved'
  BY <1>1, <1>2, <1>3, <1>4, <1>6, <1>7 DEF IndInv, Moved
<1>9. /\ mode'[p] = m /\ last'[p] = l /\ rest'[p] = t /\ buf'[p] = <<>> /\ pc'[p] = "run"
      /\ \A q \in Procs \ {p} : Kept(q)
  BY <1>1, <1>2, <1>3, <1>4 DEF IndInv, Shape, Moved, Kept
<1>10. Resumed(p) /\ Found(p)
  BY DEF IndInv, Writing
<1>11. at[p] # "none" => mode[p] = "alarm" /\ cut[p] # {} /\ rec[p] \in Issues[p]
  BY <1>1, <1>10 DEF Resumed
<1>12. Resumed(p)'
  BY <1>1, <1>4, <1>9, <1>10, <1>11 DEF Resumed
<1>13. ASSUME at[p] = "text" PROVE t = <<rec[p]>> \/ t = Append(l, rec[p])
  <2>1. rec[p] \in AllRecords
    BY <1>11, <1>13, SayingsAre
  <2>2. CASE rest[p] = <<rec[p]>>
    <3>1. t = Append(buf[p], rec[p])
      BY <1>2, <1>5, <1>13, <2>1, <2>2, EndsAppend
    <3>2. buf[p] = <<>> => Append(buf[p], rec[p]) = <<rec[p]>>
      OBVIOUS
    <3> QED
      BY <1>3, <3>1, <3>2
  <2>3. CASE buf[p] = <<>> /\ rest[p] = Append(last[p], rec[p])
    <3>1. Append(last[p], rec[p]) \in Seq(AllRecords)
      BY <1>5, <2>1, EndsAppend
    <3>2. <<>> \o rest[p] = rest[p]
      BY <1>5
    <3> QED
      BY <1>2, <1>3, <1>13, <2>3, <3>2
  <2> QED
    BY <1>10, <1>13, <2>2, <2>3 DEF Found
<1>14. ASSUME at[p] = "spoiled" PROVE t = <<>> \/ t = l
  <2>1. CASE rest[p] = <<>>
    <3>1. buf[p] \o <<>> = buf[p]
      BY <1>5
    <3> QED
      BY <1>2, <1>3, <1>14, <2>1, <3>1
  <2>2. CASE buf[p] = <<>> /\ rest[p] = last[p]
    <3>1. <<>> \o rest[p] = rest[p]
      BY <1>5
    <3> QED
      BY <1>2, <1>3, <1>14, <2>2, <3>1
  <2> QED
    BY <1>10, <1>14, <2>1, <2>2 DEF Found
<1>15. Found(p)'
  BY <1>1, <1>9, <1>11, <1>13, <1>14 DEF Found
<1> QED
  BY <1>8, <1>9, <1>12, <1>15, OthersWriting

LEMMA NextIndInv == IndInv /\ [Next]_vars => IndInv'
<1> SUFFICES ASSUME IndInv, [Next]_vars PROVE IndInv'
  OBVIOUS
<1>1. CASE UNCHANGED vars
  <2>1. UNCHANGED <<file, lock, pc, tries, seek, buf, mode, at, rec, rest, issued, cut, last>>
    BY <1>1 DEF vars, sync, write
  <2>2. Core'
    BY <2>1 DEF Core, IndInv, Shape, Exclusive, AtEnd, Trying, Bounded
  <2>3. (Moved /\ Writing)'
    BY <2>1 DEF IndInv, Moved, Writing, Resumed, Found
  <2> QED
    BY <2>2, <2>3 DEF IndInv, Core
<1>2. ASSUME NEW p \in Procs,
             \/ Write(p) \/ WriteStep(p) \/ Play(p) \/ SyncCall(p) \/ Step(p) \/ Die(p)
      PROVE  IndInv'
  <2>1. Core'
    BY <1>2, WriteKeeps, WriteStepKeeps, TurnKeeps, SyncCallKeeps, TryLockKeeps, ReadRecordKeeps,
       ReadBadKeeps, ReadEndKeeps, AddBufferKeeps, CloseKeeps DEF Play, Exit, Step, GiveUp, Die
  <2>2. (Moved /\ Writing)'
    BY <1>2, WriteWrites, TextWrites, KeepWrites, ApplyWrites, TurnWrites, LeaveWrites,
       SyncWrites, AddBufferWrites DEF WriteStep, Play, Exit, Step, GiveUp, Die
  <2> QED
    BY <2>1, <2>2 DEF IndInv, Core
<1> QED
  BY <1>1, <1>2 DEF Next

(* The invariant the results below follow from. *)
THEOREM InvariantHolds == Spec => []IndInv
  BY InitIndInv, NextIndInv, PTL DEF Spec

(* The variables of the protocol keep their types, and nobody tries more    *)
(* often than the loop of Sync allows (sync.c:331-353).                     *)
THEOREM TypeCorrect == Spec => []TypeOK
<1>1. IndInv => TypeOK
  BY DEF IndInv, Shape, Bounded, Moved, TypeOK
<1> QED
  BY <1>1, InvariantHolds, PTL

(* A process touches the file only with the lock in its hands, and the lock *)
(* is only ever with a process that is in Sync or about to end.             *)
THEOREM AccessExclusive == Spec => []Exclusive
<1>1. IndInv => Exclusive
  BY DEF IndInv
<1> QED
  BY <1>1, InvariantHolds, PTL

LEMMA InitRefines == Init => Log!Init
  BY DEF Init, Log!Init

(* What the scan moves sync_bp over is the record, or what the process has  *)
(* added last and the record, or nothing, or what it has added last.        *)
LEMMA KeepRefines ==
  ASSUME IndInv, NEW p \in Procs, WriteKeep(p) \/ WriteKeepOld(p)
  PROVE  Log!Next \/ UNCHANGED Log!logVars
<1>1. UNCHANGED <<file, seek, last>> /\ mode[p] = "command" /\ at[p] \in {"text", "spoiled"}
  BY DEF WriteKeep, WriteKeepOld, InWrite, sync
<1>2. /\ rec[p] \in Sayings[p] /\ p \in Players /\ Garbled \in Sayings[p]
      /\ rec[p] \in AllRecords /\ Garbled \in AllRecords
  <2>1. Resumed(p)
    BY DEF IndInv, Writing
  <2>2. p \in Players /\ rec[p] \in Issues[p]
    BY <1>1, <2>1 DEF Resumed
  <2> QED
    BY <2>2, SayingsAre
<1>3. /\ buf[p] \in Seq(AllRecords) /\ last[p] \in Seq(AllRecords) /\ rest[p] \in Seq(AllRecords)
      /\ buf \in [Procs -> Seq(AllRecords)]
  BY DEF IndInv, Shape, Moved
<1>4. Found(p)
  BY DEF IndInv, Writing
<1>5. ASSUME NEW r \in Sayings[p], buf' = [buf EXCEPT ![p] = Append(buf[p], r)]
      PROVE  Log!Next
  BY <1>1, <1>5 DEF Log!Next, Log!Issue
<1>6. ASSUME NEW r \in Sayings[p], buf[p] = <<>>, buf' = [buf EXCEPT ![p] = Append(last[p], r)]
      PROVE  Log!Next
  BY <1>1, <1>2, <1>6 DEF Log!Next, Log!Repeat
<1>7. ASSUME buf[p] = <<>>, buf' = [buf EXCEPT ![p] = last[p]]
      PROVE  Log!Next
  BY <1>1, <1>2, <1>7 DEF Log!Next, Log!Repeat
<1>8. \A s \in Seq(AllRecords) : <<>> \o s = s /\ s \o <<>> = s
  OBVIOUS
<1>9. CASE WriteKeep(p) /\ at[p] = "text"
  <2>1. buf' = [buf EXCEPT ![p] = buf[p] \o rest[p]]
    BY <1>9 DEF WriteKeep
  <2>2. CASE rest[p] = <<rec[p]>>
    <3>1. buf[p] \o rest[p] = Append(buf[p], rec[p])
      BY <1>2, <1>3, <2>2, EndsAppend
    <3> QED
      BY <1>2, <1>5, <2>1, <3>1
  <2>3. CASE buf[p] = <<>> /\ rest[p] = Append(last[p], rec[p])
    <3>1. buf[p] \o rest[p] = Append(last[p], rec[p])
      BY <1>3, <1>8, <2>3
    <3> QED
      BY <1>2, <1>6, <2>1, <2>3, <3>1
  <2> QED
    BY <1>4, <1>9, <2>2, <2>3 DEF Found
<1>10. CASE WriteKeep(p) /\ at[p] = "spoiled"
  <2>1. buf' = [buf EXCEPT ![p] = buf[p] \o rest[p]]
    BY <1>10 DEF WriteKeep
  <2>2. CASE rest[p] = <<>>
    <3>1. buf[p] \o rest[p] = buf[p]
      BY <1>3, <1>8, <2>2
    <3>2. buf' = buf
      BY <1>3, <2>1, <3>1
    <3> QED
      BY <1>1, <3>2 DEF Log!logVars
  <2>3. CASE buf[p] = <<>> /\ rest[p] = last[p]
    <3>1. buf[p] \o rest[p] = last[p]
      BY <1>3, <1>8, <2>3
    <3> QED
      BY <1>7, <2>1, <2>3, <3>1
  <2> QED
    BY <1>4, <1>10, <2>2, <2>3 DEF Found
<1>11. CASE WriteKeepOld(p)
  <2>1. buf' = [buf EXCEPT ![p] = Append(buf[p] \o rest[p], Garbled)] /\ at[p] = "spoiled"
    BY <1>11 DEF WriteKeepOld, InWrite
  <2>2. CASE rest[p] = <<>>
    <3>1. buf[p] \o rest[p] = buf[p]
      BY <1>3, <1>8, <2>2
    <3> QED
      BY <1>2, <1>5, <2>1, <3>1
  <2>3. CASE buf[p] = <<>> /\ rest[p] = last[p]
    <3>1. buf[p] \o rest[p] = last[p]
      BY <1>3, <1>8, <2>3
    <3> QED
      BY <1>2, <1>6, <2>1, <2>3, <3>1
  <2> QED
    BY <1>4, <2>1, <2>2, <2>3 DEF Found
<1> QED
  BY <1>1, <1>9, <1>10, <1>11

LEMMA StepRefines ==
  ASSUME IndInv, NEW p \in Procs,
         Write(p) \/ WriteStep(p) \/ Play(p) \/ SyncCall(p) \/ Step(p) \/ Die(p)
  PROVE  Log!Next \/ UNCHANGED Log!logVars
<1>1. CASE Write(p)
  <2>1. PICK r \in Issues[p] : buf' = [buf EXCEPT ![p] = Append(@, r)]
    BY <1>1 DEF Write
  <2>2. r \in Sayings[p]
    BY SayingsAre
  <2> QED
    BY <1>1, <2>1, <2>2 DEF Write, sync, Log!Next, Log!Issue
<1>2. CASE SyncCall(p) \/ TryLock(p) \/ ReadBad(p) \/ ReadEnd(p)
  BY <1>2 DEF SyncCall, TryLock, ReadBad, ReadEnd, Log!logVars
<1>3. CASE WriteText(p) \/ WriteApply(p) \/ WriteFirstHalf(p) \/ WriteSecondHalf(p)
  BY <1>3 DEF WriteText, WriteApply, WriteFirstHalf, WriteSecondHalf, sync, Log!logVars
<1>4. CASE NewTurn(p) \/ Return(p) \/ Leave(p)
  BY <1>4 DEF NewTurn, Return, Leave, sync, Log!logVars
<1>5. CASE ReadRecord(p)
  BY <1>5 DEF ReadRecord, Log!Next, Log!Learn
<1>6. CASE AddBuffer(p)
  <2>1. seek[p] = Len(file)
    BY <1>6 DEF AddBuffer, Goto, IndInv, AtEnd
  <2>2. /\ file' = file \o buf[p]
        /\ seek' = [seek EXCEPT ![p] = Len(file')]
        /\ buf' = [buf EXCEPT ![p] = <<>>]
        /\ last' = [last EXCEPT ![p] = IF buf[p] = <<>> THEN @ ELSE buf[p]]
    BY <1>6 DEF AddBuffer, Rewind
  <2> QED
    BY <2>1, <2>2, Zenon DEF Log!Next, Log!Publish
<1>7. CASE Close(p)
  BY <1>7 DEF Close, Log!Next, Log!End
<1> QED
  BY <1>1, <1>2, <1>3, <1>4, <1>5, <1>6, <1>7, KeepRefines
     DEF WriteStep, Play, Exit, Step, GiveUp, Die

(* The sync file, with its lock, its retries, the processes that die in the *)
(* middle and the alarms that come into a Write, is the log of SailLog:     *)
(* nothing comes between what a process has read and what it adds, and what *)
(* the file has twice is what a player has added last, as a whole.          *)
THEOREM SyncIsLog == Spec => LogSpec
<1>1. IndInv /\ [Next]_vars => [Log!Next]_(Log!logVars)
  <2> SUFFICES ASSUME IndInv, [Next]_vars PROVE [Log!Next]_(Log!logVars)
    OBVIOUS
  <2>1. CASE UNCHANGED vars
    BY <2>1 DEF vars, sync, Log!logVars
  <2>2. CASE Next
    BY <2>2, StepRefines DEF Next
  <2> QED
    BY <2>1, <2>2
<1> QED
  BY <1>1, InitRefines, InvariantHolds, PTL DEF Spec, LogSpec, Log!Spec

-----------------------------------------------------------------------------
(* The copies of the game *)

ViewFields == {"turn", "winddir", "windspeed", "alive", "people", "hasdriver", "val",
               "obp", "dbp", "foul", "grap", "nfoul", "ngrap"}

(* What the effect of a record takes for granted of a copy.                 *)
IsView(v) ==
  /\ DOMAIN v = ViewFields /\ v.people \in Int
  /\ DOMAIN v.val = Ships /\ \A s \in Ships : DOMAIN v.val[s] = Fields

(* One table of fouls or grapples, with the number of each ship.            *)
Entries(table, s) == UNION {{t} \X (1..table[s][t].sn_count) : t \in Ships}
IsTable(table, number) ==
  /\ DOMAIN table = Ships /\ DOMAIN number = Ships
  /\ \A s \in Ships :
       /\ DOMAIN table[s] = Ships
       /\ \A t \in Ships : /\ DOMAIN table[s][t] = {"sn_count", "sn_turn"}
                           /\ table[s][t].sn_count \in Nat
       /\ IsFiniteSet(Entries(table, s))
       /\ number[s] = Cardinality(Entries(table, s))

Tables(v) == IsTable(v.foul, v.nfoul) /\ IsTable(v.grap, v.ngrap)

(* The value that a record sets a field of its ship to.                     *)
Given(r, f) == IF r.kind = "BEGIN" THEN 1
               ELSE IF r.kind = "ASSIGN" /\ f \in DOMAIN r.vals THEN r.vals[f] ELSE 0

LEMMA NewViewIs == IsView(NewView) /\ Tables(NewView)
<1>1. IsView(NewView)
  BY DEF IsView, NewView, ViewFields
<1>2. ASSUME NEW table, table = [s \in Ships |-> [t \in Ships |-> NoSnag]],
             NEW number, number = [s \in Ships |-> 0]
      PROVE  IsTable(table, number)
  <2>1. ASSUME NEW s \in Ships PROVE Entries(table, s) = {}
    <3>1. \A t \in Ships : table[s][t].sn_count = 0
      BY <1>2 DEF NoSnag
    <3> QED
      BY <3>1 DEF Entries
  <2>2. IsFiniteSet({}) /\ Cardinality({}) = 0
    BY FS_EmptySet
  <2> QED
    BY <1>2, <2>1, <2>2 DEF IsTable, NoSnag
<1>3. /\ NewView.foul = [s \in Ships |-> [t \in Ships |-> NoSnag]]
      /\ NewView.grap = [s \in Ships |-> [t \in Ships |-> NoSnag]]
      /\ NewView.nfoul = [s \in Ships |-> 0] /\ NewView.ngrap = [s \in Ships |-> 0]
  BY DEF NewView
<1> QED
  BY <1>1, <1>2, <1>3 DEF Tables

(* What a record does to a ship's fields.                                   *)
LEMMA AssignedField ==
  ASSUME NEW old, NEW vals
  PROVE  /\ DOMAIN Assigned(old, vals) = Fields
         /\ \A f \in Fields :
              Assigned(old, vals)[f] = IF f \in DOMAIN vals THEN vals[f]
                                       ELSE IF f = "dir" /\ Gone(vals) THEN 0 ELSE old[f]
  BY DEF Assigned

LEMMA Column ==
  ASSUME NEW t, NEW n \in Nat
  PROVE  IsFiniteSet({t} \X (1..n)) /\ Cardinality({t} \X (1..n)) = n
<1>1. IsFiniteSet(1..n) /\ Cardinality(1..n) = n
  BY FS_Interval
<1> DEFINE h == [i \in 1..n |-> <<t, i>>]
<1>2. h \in [1..n -> {t} \X (1..n)] /\ \A i, j \in 1..n : h[i] = h[j] => i = j
  OBVIOUS
<1>3. ASSUME NEW x \in {t} \X (1..n) PROVE \E i \in 1..n : h[i] = x
  <2>1. x[2] \in 1..n /\ x = <<t, x[2]>>
    OBVIOUS
  <2> QED
    BY <2>1
<1> HIDE DEF h
<1>4. h \in Bijection(1..n, {t} \X (1..n))
  <2>1. h \in Injection(1..n, {t} \X (1..n))
    BY <1>2 DEF Injection, IsInjective
  <2>2. h \in Surjection(1..n, {t} \X (1..n))
    BY <1>2, <1>3 DEF Surjection
  <2> QED
    BY <2>1, <2>2 DEF Bijection
<1>5. ExistsBijection(1..n, {t} \X (1..n))
  BY <1>4 DEF ExistsBijection
<1> QED
  BY <1>1, <1>5, FS_Bijection

LEMMA InRow ==
  ASSUME NEW f, NEW S, NEW x
  PROVE  x \in UNION {{u} \X (1..f[u]) : u \in S} <=> \E u \in S : x \in {u} \X (1..f[u])
  OBVIOUS

LEMMA RowSplits ==
  ASSUME NEW f, NEW t \in Ships
  PROVE  UNION {{u} \X (1..f[u]) : u \in Ships}
           = (UNION {{u} \X (1..f[u]) : u \in Ships \ {t}}) \cup ({t} \X (1..f[t]))
<1> DEFINE L == UNION {{u} \X (1..f[u]) : u \in Ships}
           R == UNION {{u} \X (1..f[u]) : u \in Ships \ {t}}
           C == {t} \X (1..f[t])
<1> SUFFICES L = R \cup C
  OBVIOUS
<1>1. \A x : x \in L <=> \E u \in Ships : x \in {u} \X (1..f[u])
  BY InRow
<1>2. \A x : x \in R <=> \E u \in Ships \ {t} : x \in {u} \X (1..f[u])
  BY InRow
<1> HIDE DEF L, R
<1>3. \A x : x \in L <=> x \in R \/ x \in C
  BY <1>1, <1>2, Zenon
<1> HIDE DEF C
<1> QED
  BY <1>3

(* The number of pairs of a row in which one entry changes.                 *)
LEMMA RowChanges ==
  ASSUME NEW f \in [Ships -> Nat], NEW g \in [Ships -> Nat], NEW t \in Ships,
         \A u \in Ships : u # t => g[u] = f[u],
         IsFiniteSet(UNION {{u} \X (1..f[u]) : u \in Ships})
  PROVE  /\ IsFiniteSet(UNION {{u} \X (1..g[u]) : u \in Ships})
         /\ Cardinality(UNION {{u} \X (1..g[u]) : u \in Ships})
              = Cardinality(UNION {{u} \X (1..f[u]) : u \in Ships}) - f[t] + g[t]
         /\ Cardinality(UNION {{u} \X (1..f[u]) : u \in Ships}) \in Nat
<1> DEFINE F == UNION {{u} \X (1..f[u]) : u \in Ships}
           G == UNION {{u} \X (1..g[u]) : u \in Ships}
           R == UNION {{u} \X (1..f[u]) : u \in Ships \ {t}}
           P(n) == {t} \X (1..n)
<1>1. F = R \cup P(f[t]) /\ G = R \cup P(g[t])
  <2>1. R = UNION {{u} \X (1..g[u]) : u \in Ships \ {t}}
    OBVIOUS
  <2>2. F = R \cup P(f[t])
    BY RowSplits
  <2>3. G = (UNION {{u} \X (1..g[u]) : u \in Ships \ {t}}) \cup P(g[t])
    BY RowSplits
  <2> QED
    BY <2>1, <2>2, <2>3
<1>2. \A n \in Nat : R \cap P(n) = {}
  <2> SUFFICES ASSUME NEW n \in Nat, NEW x \in R, x \in P(n) PROVE FALSE
    OBVIOUS
  <2>1. PICK u \in Ships \ {t} : x \in {u} \X (1..f[u])
    OBVIOUS
  <2>2. x[1] = u /\ x[1] = t
    BY <2>1
  <2> QED
    BY <2>1, <2>2
<1>3. \A n \in Nat : IsFiniteSet(P(n)) /\ Cardinality(P(n)) = n
  BY Column
<1> HIDE DEF F, G, R, P
<1>4. IsFiniteSet(F)
  BY DEF F
<1>5. IsFiniteSet(R)
  BY <1>1, <1>4, FS_Subset
<1>6. Cardinality(R) \in Nat
  BY <1>5, FS_CardinalityType
<1>7. ASSUME NEW n \in Nat PROVE IsFiniteSet(R \cup P(n)) /\ Cardinality(R \cup P(n)) = Cardinality(R) + n
  <2>1. Cardinality({}) = 0
    BY FS_EmptySet
  <2>2. PICK Q : Q = P(n)
    OBVIOUS
  <2>3. IsFiniteSet(Q) /\ Cardinality(Q) = n /\ R \cap Q = {}
    BY <1>2, <1>3, <2>2
  <2>4. IsFiniteSet(R \cup Q) /\ Cardinality(R \cup Q) = Cardinality(R) + Cardinality(Q) - Cardinality(R \cap Q)
    BY <1>5, <2>3, FS_Union
  <2>5. Cardinality(R \cap Q) = 0
    BY <2>1, <2>3
  <2> QED
    BY <1>6, <2>2, <2>3, <2>4, <2>5
<1>8. f[t] \in Nat /\ g[t] \in Nat
  OBVIOUS
<1>9. /\ IsFiniteSet(G) /\ Cardinality(G) = Cardinality(R) + g[t]
      /\ Cardinality(F) = Cardinality(R) + f[t]
  BY <1>1, <1>7, <1>8
<1>10. IsFiniteSet(G) /\ Cardinality(G) = Cardinality(F) - f[t] + g[t] /\ Cardinality(F) \in Nat
  BY <1>6, <1>8, <1>9
<1> QED
  BY <1>10 DEF F, G

(* One entry of a table changes, and the number of its row by as much.      *)
LEMMA TableChanges ==
  ASSUME NEW table, NEW number, IsTable(table, number), NEW s \in Ships, NEW t \in Ships,
         NEW entry, DOMAIN entry = {"sn_count", "sn_turn"}, entry.sn_count \in Nat,
         NEW table2, table2 = [table EXCEPT ![s][t] = entry],
         NEW number2,
         number2 = [number EXCEPT ![s] = number[s] - table[s][t].sn_count + entry.sn_count]
  PROVE  IsTable(table2, number2)
<1> DEFINE f == [u \in Ships |-> table[s][u].sn_count]
           g == [u \in Ships |-> table2[s][u].sn_count]
<1>1. /\ DOMAIN table = Ships /\ DOMAIN number = Ships
      /\ \A x \in Ships : /\ DOMAIN table[x] = Ships
                          /\ IsFiniteSet(Entries(table, x))
                          /\ number[x] = Cardinality(Entries(table, x))
                          /\ \A u \in Ships : /\ DOMAIN table[x][u] = {"sn_count", "sn_turn"}
                                              /\ table[x][u].sn_count \in Nat
  BY DEF IsTable
<1>2. /\ DOMAIN table2 = Ships /\ DOMAIN number2 = Ships
      /\ \A x \in Ships : x # s => table2[x] = table[x] /\ number2[x] = number[x]
      /\ DOMAIN table2[s] = Ships /\ table2[s][t] = entry
      /\ \A u \in Ships : u # t => table2[s][u] = table[s][u]
      /\ number2[s] = number[s] - table[s][t].sn_count + entry.sn_count
  BY <1>1
<1>3. f \in [Ships -> Nat] /\ g \in [Ships -> Nat] /\ \A u \in Ships : u # t => g[u] = f[u]
  <2>1. \A u \in Ships : table2[s][u].sn_count \in Nat /\ table[s][u].sn_count \in Nat
    BY <1>1, <1>2
  <2> QED
    BY <1>2, <2>1
<1>4. /\ Entries(table, s) = UNION {{u} \X (1..f[u]) : u \in Ships}
      /\ Entries(table2, s) = UNION {{u} \X (1..g[u]) : u \in Ships}
  <2>1. \A u \in Ships : f[u] = table[s][u].sn_count /\ g[u] = table2[s][u].sn_count
    OBVIOUS
  <2> HIDE DEF f, g
  <2> QED
    BY <2>1 DEF Entries
<1>5. f[t] = table[s][t].sn_count /\ g[t] = entry.sn_count
  BY <1>2
<1> HIDE DEF f, g
<1>6. IsFiniteSet(Entries(table, s))
  BY <1>1
<1>7. /\ IsFiniteSet(Entries(table2, s))
      /\ Cardinality(Entries(table2, s)) = Cardinality(Entries(table, s)) - f[t] + g[t]
      /\ Cardinality(Entries(table, s)) \in Nat
  BY <1>3, <1>4, <1>6, RowChanges
<1>8. number2[s] = Cardinality(Entries(table2, s))
  BY <1>1, <1>2, <1>5, <1>7
<1>9. ASSUME NEW x \in Ships, x # s PROVE Entries(table2, x) = Entries(table, x)
  BY <1>2, <1>9 DEF Entries
<1>10. ASSUME NEW x \in Ships
       PROVE  /\ DOMAIN table2[x] = Ships
              /\ \A u \in Ships : /\ DOMAIN table2[x][u] = {"sn_count", "sn_turn"}
                                  /\ table2[x][u].sn_count \in Nat
              /\ IsFiniteSet(Entries(table2, x))
              /\ number2[x] = Cardinality(Entries(table2, x))
  <2>1. CASE x = s
    BY <1>1, <1>2, <1>7, <1>8, <2>1
  <2>2. CASE x # s
    <3>1. table2[x] = table[x] /\ number2[x] = number[x] /\ Entries(table2, x) = Entries(table, x)
      BY <1>2, <1>9, <2>2
    <3> QED
      BY <1>1, <3>1
  <2> QED
    BY <2>1, <2>2
<1> QED
  BY <1>2, <1>10 DEF IsTable

(* What a record does to the parts of a copy that the log decides.          *)
Effect(v, r, w) ==
  /\ IsView(w)
  /\ w.turn = IF r.kind = "TURN" THEN r.n ELSE v.turn
  /\ w.people = IF r.kind = "BEGIN" THEN v.people + 1
                ELSE IF r.kind = "END" THEN v.people - 1 ELSE v.people
  /\ w.hasdriver = IF r.kind = "DDEAD" THEN FALSE ELSE v.hasdriver
  /\ \A s \in Ships : \A f \in Fields :
       w.val[s][f] = IF Sets(r, s, f) THEN Given(r, f) ELSE v.val[s][f]

LEMMA AssignEffect ==
  ASSUME NEW v, IsView(v), NEW r, r.kind = "ASSIGN", r.ship \in Ships,
         NEW w, w = [v EXCEPT !.val[r.ship] = Assigned(@, r.vals)]
  PROVE  Effect(v, r, w)
<1> DEFINE new == Assigned(v.val[r.ship], r.vals)
<1>1. /\ DOMAIN new = Fields
      /\ \A f \in Fields : new[f] = IF f \in DOMAIN r.vals THEN r.vals[f]
                                    ELSE IF f = "dir" /\ Gone(r.vals) THEN 0 ELSE v.val[r.ship][f]
  BY AssignedField
<1>2. w = [v EXCEPT !.val = [v.val EXCEPT ![r.ship] = new]]
  OBVIOUS
<1> HIDE DEF new
<1>3. /\ DOMAIN w = ViewFields /\ w.val = [v.val EXCEPT ![r.ship] = new]
      /\ w.turn = v.turn /\ w.people = v.people /\ w.hasdriver = v.hasdriver
  BY <1>2 DEF IsView, ViewFields
<1>4. \A s \in Ships : w.val[s] = IF s = r.ship THEN new ELSE v.val[s]
  BY <1>3 DEF IsView
<1>5. IsView(w)
  BY <1>1, <1>3, <1>4 DEF IsView
<1>6. ASSUME NEW s \in Ships, NEW f \in Fields
      PROVE  w.val[s][f] = IF Sets(r, s, f) THEN Given(r, f) ELSE v.val[s][f]
  BY <1>1, <1>4 DEF Sets, Given
<1> QED
  BY <1>3, <1>5, <1>6 DEF Effect

LEMMA BeginEffect ==
  ASSUME NEW v, IsView(v), NEW r, r.kind = "BEGIN", r.ship \in Ships, NEW w,
         w = [v EXCEPT !.val[r.ship] = Assigned(@, [captain |-> 1]), !.people = @ + 1]
  PROVE  Effect(v, r, w)
<1> DEFINE vals == [captain |-> 1]
           new == Assigned(v.val[r.ship], vals)
<1>1. /\ DOMAIN new = Fields
      /\ \A f \in Fields : new[f] = IF f = "captain" THEN 1 ELSE v.val[r.ship][f]
  <2>1. DOMAIN vals = {"captain"} /\ vals["captain"] = 1 /\ ~Gone(vals)
    BY DEF Gone
  <2> HIDE DEF vals
  <2> QED
    BY <2>1, AssignedField
<1>2. w = [v EXCEPT !.val = [v.val EXCEPT ![r.ship] = new], !.people = v.people + 1]
  OBVIOUS
<1> HIDE DEF new
<1>3. /\ DOMAIN w = ViewFields /\ w.val = [v.val EXCEPT ![r.ship] = new]
      /\ w.turn = v.turn /\ w.people = v.people + 1 /\ w.hasdriver = v.hasdriver
  BY <1>2 DEF IsView, ViewFields
<1>4. \A s \in Ships : w.val[s] = IF s = r.ship THEN new ELSE v.val[s]
  BY <1>3 DEF IsView
<1>5. IsView(w)
  BY <1>1, <1>3, <1>4 DEF IsView
<1>6. ASSUME NEW s \in Ships, NEW f \in Fields
      PROVE  w.val[s][f] = IF Sets(r, s, f) THEN Given(r, f) ELSE v.val[s][f]
  BY <1>1, <1>4 DEF Sets, Given
<1> QED
  BY <1>3, <1>5, <1>6 DEF Effect

LEMMA FinishEffect ==
  ASSUME NEW v, IsView(v), NEW r, r.kind = "END", r.ship \in Ships, NEW w,
         w = [v EXCEPT !.val[r.ship] = Assigned(@, [captain |-> 0, points |-> 0]),
                       !.people = @ - 1]
  PROVE  Effect(v, r, w)
<1> DEFINE vals == [captain |-> 0, points |-> 0]
           new == Assigned(v.val[r.ship], vals)
<1>1. /\ DOMAIN new = Fields
      /\ \A f \in Fields : new[f] = IF f \in {"captain", "points"} THEN 0 ELSE v.val[r.ship][f]
  <2>1. /\ DOMAIN vals = {"captain", "points"} /\ vals["captain"] = 0 /\ vals["points"] = 0
        /\ ~Gone(vals)
    BY DEF Gone
  <2> HIDE DEF vals
  <2> QED
    BY <2>1, AssignedField
<1>2. w = [v EXCEPT !.val = [v.val EXCEPT ![r.ship] = new], !.people = v.people - 1]
  OBVIOUS
<1> HIDE DEF new
<1>3. /\ DOMAIN w = ViewFields /\ w.val = [v.val EXCEPT ![r.ship] = new]
      /\ w.turn = v.turn /\ w.people = v.people - 1 /\ w.hasdriver = v.hasdriver
  BY <1>2 DEF IsView, ViewFields
<1>4. \A s \in Ships : w.val[s] = IF s = r.ship THEN new ELSE v.val[s]
  BY <1>3 DEF IsView
<1>5. IsView(w)
  BY <1>1, <1>3, <1>4 DEF IsView
<1>6. ASSUME NEW s \in Ships, NEW f \in Fields
      PROVE  w.val[s][f] = IF Sets(r, s, f) THEN Given(r, f) ELSE v.val[s][f]
  BY <1>1, <1>4 DEF Sets, Given
<1> QED
  BY <1>3, <1>5, <1>6 DEF Effect

(* A record that touches none of these parts.                               *)
LEMMA NoEffect ==
  ASSUME NEW v, IsView(v), NEW w, DOMAIN w = DOMAIN v, w.val = v.val, w.turn = v.turn,
         w.people = v.people, w.hasdriver = v.hasdriver,
         NEW r, r.kind \notin {"ASSIGN", "BEGIN", "END", "TURN", "DDEAD"}
  PROVE  Effect(v, r, w)
<1>1. \A s \in Ships : \A f \in Fields : ~Sets(r, s, f)
  BY DEF Sets
<1> QED
  BY <1>1 DEF Effect, IsView

(* A foul or grapple, or its end, in its two assignments.                   *)
LEMMA HalfSame ==
  ASSUME NEW v, IsView(v), NEW r, IsSnag(r), NEW w, w = FirstHalf(v, r) \/ w = SecondHalf(v, r)
  PROVE  /\ DOMAIN w = DOMAIN v /\ w.val = v.val /\ w.turn = v.turn
         /\ w.people = v.people /\ w.hasdriver = v.hasdriver /\ IsView(w)
<1>1. PICK snag \in {"foul", "grap"} : snag = Table(r)
  BY DEF Table
<1>2. PICK count \in {"nfoul", "ngrap"} : count = Number(r)
  BY DEF Number
<1>3. /\ DOMAIN w = DOMAIN v /\ w.val = v.val /\ w.turn = v.turn
      /\ w.people = v.people /\ w.hasdriver = v.hasdriver
  BY <1>1, <1>2 DEF FirstHalf, SecondHalf, Caught, Discounted, IsView, ViewFields
<1> QED
  BY <1>3 DEF IsView

LEMMA SnagEffect ==
  ASSUME NEW v, IsView(v), NEW r, IsSnag(r)
  PROVE  Effect(v, r, Apply(v, r))
<1>1. PICK h : h = FirstHalf(v, r)
  OBVIOUS
<1>2. PICK e : e = SecondHalf(h, r)
  OBVIOUS
<1>3. PICK w : w = Apply(v, r) /\ (w = v \/ w = e)
  BY <1>1, <1>2 DEF Apply, IsSnag
<1>4. /\ DOMAIN h = DOMAIN v /\ h.val = v.val /\ h.turn = v.turn
      /\ h.people = v.people /\ h.hasdriver = v.hasdriver /\ IsView(h)
  BY <1>1, HalfSame
<1>5. /\ DOMAIN e = DOMAIN h /\ e.val = h.val /\ e.turn = h.turn
      /\ e.people = h.people /\ e.hasdriver = h.hasdriver
  BY <1>2, <1>4, HalfSame
<1>6. /\ DOMAIN w = DOMAIN v /\ w.val = v.val /\ w.turn = v.turn
      /\ w.people = v.people /\ w.hasdriver = v.hasdriver
  BY <1>3, <1>4, <1>5
<1>7. r.kind \notin {"ASSIGN", "BEGIN", "END", "TURN", "DDEAD"}
  BY DEF IsSnag
<1>8. Effect(v, r, w)
  BY <1>6, <1>7, NoEffect
<1> QED
  BY <1>3, <1>8

(* What the file may have in it.                                            *)
IsText(r) == IsRecord(r) \/ r = Garbled

LEMMA ApplyEffect ==
  ASSUME NEW v, IsView(v), NEW r, IsText(r)
  PROVE  Effect(v, r, Apply(v, r))
<1> DEFINE w == Apply(v, r)
<1>1. r.kind = "GARBLED" \/ IsRecord(r)
  BY DEF IsText, Garbled
<1>2. CASE r.kind = "ASSIGN"
  BY <1>1, <1>2, AssignEffect DEF Apply, IsRecord, IsSnag
<1>3. CASE r.kind = "BEGIN"
  BY <1>1, <1>3, BeginEffect DEF Apply, IsRecord, IsSnag
<1>4. CASE r.kind = "END"
  BY <1>1, <1>4, FinishEffect DEF Apply, IsRecord, IsSnag
<1>5. CASE IsSnag(r)
  BY <1>5, SnagEffect
<1>6. CASE r.kind = "TURN" \/ r.kind = "DDEAD"
  <2>1. /\ DOMAIN w = ViewFields /\ w.val = v.val /\ w.people = v.people
        /\ w.turn = IF r.kind = "TURN" THEN r.n ELSE v.turn
        /\ w.hasdriver = IF r.kind = "DDEAD" THEN FALSE ELSE v.hasdriver
    BY <1>6 DEF Apply, IsSnag, IsView, ViewFields
  <2>2. \A s \in Ships : \A f \in Fields : ~Sets(r, s, f)
    BY <1>6 DEF Sets
  <2> HIDE DEF w
  <2>3. Effect(v, r, w)
    BY <1>6, <2>1, <2>2 DEF Effect, IsView
  <2> QED
    BY <2>3 DEF w
<1>7. CASE r.kind \in {"WIND", "ALIVE", "SIGNAL", "OBP", "DBP"}
  <2>1. /\ DOMAIN w = DOMAIN v /\ w.val = v.val /\ w.turn = v.turn
        /\ w.people = v.people /\ w.hasdriver = v.hasdriver
    BY <1>7 DEF Apply, IsSnag, IsView, ViewFields
  <2> HIDE DEF w
  <2>2. Effect(v, r, w)
    BY <1>7, <2>1, NoEffect
  <2> QED
    BY <2>2 DEF w
<1>8. CASE r.kind = "GARBLED"
  <2>1. r = Garbled
    BY <1>8 DEF IsText, IsRecord
  <2>2. w = v
    BY <1>8, <2>1 DEF Apply, IsSnag
  <2>3. Effect(v, r, v)
    BY <1>8, NoEffect
  <2> QED
    BY <2>2, <2>3
<1> QED
  BY <1>1, <1>2, <1>3, <1>4, <1>5, <1>6, <1>7, <1>8 DEF IsRecord, IsSnag

(* Both assignments together keep a table and its number in step.           *)
LEMMA SnagTable ==
  ASSUME NEW v, IsView(v), NEW r, IsSnag(r), IsRecord(r), Heeded(v, r),
         NEW snag \in {"foul", "grap"}, NEW count \in {"nfoul", "ngrap"},
         snag = Table(r), count = Number(r), IsTable(v[snag], v[count]),
         NEW w, w = SecondHalf(FirstHalf(v, r), r)
  PROVE  /\ IsTable(w[snag], w[count])
         /\ \A x \in ViewFields \ {snag, count} : w[x] = v[x]
<1> DEFINE s == r.ship
           t == r.other
           old == v[snag][s][t]
<1>1. /\ r.ship \in Ships /\ r.other \in Ships
      /\ r.kind \notin {"FOUL", "GRAP"} => r.all \in BOOLEAN
  BY DEF IsRecord, IsSnag
<1>2. /\ DOMAIN v = ViewFields /\ snag \in ViewFields /\ count \in ViewFields /\ snag # count
      /\ DOMAIN old = {"sn_count", "sn_turn"} /\ old.sn_count \in Nat
      /\ DOMAIN v[count] = Ships /\ v[count][s] \in Nat
      /\ DOMAIN v[snag] = Ships /\ DOMAIN v[snag][s] = Ships
  <2>1. IsFiniteSet(Entries(v[snag], s)) /\ v[count][s] = Cardinality(Entries(v[snag], s))
    BY <1>1 DEF IsTable
  <2>2. v[count][s] \in Nat
    BY <2>1, FS_CardinalityType
  <2> QED
    BY <1>1, <2>2 DEF IsView, ViewFields, IsTable
<1>3. ASSUME NEW entry, DOMAIN entry = {"sn_count", "sn_turn"}, entry.sn_count \in Nat,
             w[snag] = [v[snag] EXCEPT ![s][t] = entry],
             w[count] = [v[count] EXCEPT ![s] = v[count][s] - old.sn_count + entry.sn_count]
      PROVE  IsTable(w[snag], w[count])
  <2> DEFINE table == v[snag]
             number == v[count]
             table2 == w[snag]
             number2 == w[count]
  <2>1. /\ IsTable(table, number) /\ table2 = [table EXCEPT ![s][t] = entry]
        /\ number2 = [number EXCEPT ![s] = number[s] - table[s][t].sn_count + entry.sn_count]
    BY <1>3
  <2>2. s \in Ships /\ t \in Ships
    BY <1>1
  <2> HIDE DEF s, t, table, number, table2, number2
  <2>3. IsTable(table2, number2)
    BY <1>3, <2>1, <2>2, TableChanges
  <2> QED
    BY <2>3 DEF table2, number2
<1>4. CASE r.kind \in {"FOUL", "GRAP"}
  <2> DEFINE entry == [sn_count |-> old.sn_count + 1,
                       sn_turn |-> IF old.sn_count = 0 THEN v.turn ELSE old.sn_turn]
  <2>1. PICK h : h = [v EXCEPT ![snag][s][t] = entry]
    OBVIOUS
  <2>2. h = FirstHalf(v, r)
    BY <1>4, <2>1 DEF FirstHalf, Caught
  <2>3. w = [h EXCEPT ![count][s] = @ + 1]
    BY <1>4, <2>2 DEF SecondHalf
  <2>4. DOMAIN entry = {"sn_count", "sn_turn"} /\ entry.sn_count = old.sn_count + 1
    OBVIOUS
  <2> HIDE DEF entry
  <2>5. /\ w[snag] = [v[snag] EXCEPT ![s][t] = entry]
        /\ w[count] = [v[count] EXCEPT ![s] = v[count][s] + 1]
        /\ \A x \in ViewFields \ {snag, count} : w[x] = v[x]
    BY <1>2, <2>1, <2>3
  <2> HIDE DEF s, t, old
  <2>6. v[count][s] + 1 = v[count][s] - old.sn_count + entry.sn_count
    BY <1>2, <2>4
  <2>7. entry.sn_count \in Nat
    BY <1>2, <2>4
  <2> QED
    BY <1>3, <2>4, <2>5, <2>6, <2>7
<1>5. CASE r.kind \notin {"FOUL", "GRAP"}
  <2> DEFINE n == IF r.all THEN old.sn_count ELSE 1
             entry == [old EXCEPT !.sn_count = IF r.all THEN 0 ELSE @ - 1]
  <2>1. PICK h : h = [v EXCEPT ![count][s] = @ - n]
    OBVIOUS
  <2>2. h = FirstHalf(v, r)
    BY <1>5, <2>1 DEF FirstHalf, Discounted
  <2>3. w = [h EXCEPT ![snag][s][t].sn_count = IF r.all THEN 0 ELSE @ - 1]
    BY <1>5, <2>2 DEF SecondHalf
  <2>4. h[snag] = v[snag] /\ DOMAIN h = ViewFields
    BY <1>2, <2>1
  <2>5. w = [h EXCEPT ![snag] = [h[snag] EXCEPT ![s][t] = entry]]
    BY <2>3, <2>4
  <2>6. old.sn_count > 0
    BY <1>5 DEF Heeded
  <2>7. n \in Nat /\ n <= old.sn_count
    BY <1>1, <1>2, <1>5, <2>6
  <2>8. DOMAIN entry = {"sn_count", "sn_turn"} /\ entry.sn_count = old.sn_count - n
    BY <1>1, <1>2, <1>5
  <2> HIDE DEF entry, n
  <2>9. /\ w[snag] = [v[snag] EXCEPT ![s][t] = entry]
        /\ w[count] = [v[count] EXCEPT ![s] = v[count][s] - n]
        /\ \A x \in ViewFields \ {snag, count} : w[x] = v[x]
    BY <1>2, <2>1, <2>4, <2>5
  <2> HIDE DEF s, t, old
  <2>10. v[count][s] - n = v[count][s] - old.sn_count + entry.sn_count /\ entry.sn_count \in Nat
    BY <1>2, <2>7, <2>8
  <2> QED
    BY <1>3, <2>8, <2>9, <2>10
<1> QED
  BY <1>4, <1>5

LEMMA ApplyTables ==
  ASSUME NEW v, IsView(v), Tables(v), NEW r, IsText(r)
  PROVE  Tables(Apply(v, r))
<1>1. CASE IsSnag(r)
  <2>0. IsRecord(r)
    BY <1>1 DEF IsText, Garbled, IsSnag
  <2>1. PICK w : w = Apply(v, r)
    OBVIOUS
  <2>2. w = IF Heeded(v, r) THEN SecondHalf(FirstHalf(v, r), r) ELSE v
    BY <1>1, <2>1 DEF Apply, IsSnag
  <2>3. PICK snag \in {"foul", "grap"} : snag = Table(r)
    BY DEF Table
  <2>4. PICK count \in {"nfoul", "ngrap"} : count = Number(r)
    BY DEF Number
  <2>5. snag = "foul" <=> count = "nfoul"
    BY <2>3, <2>4 DEF Table, Number
  <2>6. IsTable(v[snag], v[count])
    BY <2>3, <2>4, <2>5 DEF Tables
  <2>7. CASE Heeded(v, r)
    <3>1. /\ IsTable(w[snag], w[count])
          /\ \A x \in ViewFields \ {snag, count} : w[x] = v[x]
      BY <1>1, <2>0, <2>2, <2>3, <2>4, <2>6, <2>7, SnagTable
    <3>2. CASE snag = "foul"
      <4>1. w.grap = v.grap /\ w.ngrap = v.ngrap /\ count = "nfoul"
        BY <2>5, <3>1, <3>2 DEF ViewFields
      <4> QED
        BY <2>1, <3>1, <3>2, <4>1 DEF Tables
    <3>3. CASE snag = "grap"
      <4>1. w.foul = v.foul /\ w.nfoul = v.nfoul /\ count = "ngrap"
        BY <2>5, <3>1, <3>3 DEF ViewFields
      <4> QED
        BY <2>1, <3>1, <3>3, <4>1 DEF Tables
    <3> QED
      BY <3>2, <3>3
  <2> QED
    BY <2>1, <2>2, <2>7
<1>2. CASE ~IsSnag(r)
  <2>0. r.kind \in {"ASSIGN", "BEGIN", "END", "TURN", "WIND", "ALIVE", "DDEAD", "SIGNAL", "OBP",
                    "DBP", "GARBLED"}
    BY <1>2 DEF IsText, IsRecord, IsSnag, Garbled
  <2>1. PICK w : w = Apply(v, r)
    OBVIOUS
  <2>2. w.foul = v.foul /\ w.nfoul = v.nfoul /\ w.grap = v.grap /\ w.ngrap = v.ngrap
    BY <2>0, <2>1 DEF Apply, IsSnag, IsView, ViewFields
  <2> QED
    BY <2>1, <2>2 DEF Tables
<1> QED
  BY <1>1, <1>2

-----------------------------------------------------------------------------
(* Reading the log *)

(* Every nonempty set of numbers has a least one.                          *)
LEMMA LeastNat ==
  ASSUME NEW T \in SUBSET Nat, T # {}
  PROVE  \E m \in T : \A n \in T : m <= n
<1>1. PICK m \in T : \A n \in T : << n, m >> \notin OpToRel(<, Nat)
  BY WFMin, NatLessThanWellFounded, Zenon
<1>2. \A n \in T : ~(n < m)
  BY <1>1, Zenon DEF OpToRel
<1>3. QED
  BY <1>2

(* Induction along a log; P[n] says what holds after n records.            *)
LEMMA Induction ==
  ASSUME NEW N \in Nat, NEW P, P[0], \A n \in 1 .. N : P[n - 1] => P[n]
  PROVE  \A n \in 0 .. N : P[n]
<1> DEFINE T == {n \in 0 .. N : ~P[n]}
<1>1. SUFFICES ASSUME T # {} PROVE FALSE
  OBVIOUS
<1>2. PICK m \in T : \A n \in T : m <= n
  <2>1. T \in SUBSET Nat
    OBVIOUS
  <2>2. QED
    BY <1>1, <2>1, LeastNat, Zenon
<1>3. m \in 1 .. N /\ m - 1 \in 0 .. N /\ m - 1 \notin T
  BY <1>2
<1>4. QED
  BY <1>2, <1>3


(* The copies of a process while it applies the records from 1 to n.       *)
Runs(f, recs, n) == f[0] = NewView /\ \A i \in 1..n : f[i] = Apply(f[i - 1], recs[i])

LEMMA ReplayRuns ==
  ASSUME NEW recs, NEW N \in Nat, N = Len(recs)
  PROVE  \E f : Runs(f, recs, N) /\ Replay(recs) = f[N]
<1> DEFINE Rounds(f, k) == [i \in 0..k |-> IF i = 0 THEN NewView ELSE Apply(f[i - 1], recs[i])]
           P == [k \in 0..N |-> \E f : f = Rounds(f, k)]
<1>1. P[0]
  <2>1. PICK f : f = [i \in 0..0 |-> NewView]
    OBVIOUS
  <2>2. f = Rounds(f, 0)
    BY <2>1
  <2>3. \E g : g = Rounds(g, 0)
    BY <2>2, Zenon
  <2> QED
    BY <2>3
<1>2. ASSUME NEW k \in 1..N, P[k - 1] PROVE P[k]
  <2>1. PICK f : f = Rounds(f, k - 1)
    BY <1>2 DEF P
  <2> DEFINE g == [i \in 0..k |-> IF i = k THEN Apply(f[k - 1], recs[k]) ELSE f[i]]
  <2>2. ASSUME NEW i \in 0..k PROVE g[i] = IF i = 0 THEN NewView ELSE Apply(g[i - 1], recs[i])
    <3>1. CASE i = k
      <4>1. k - 1 \in 0..k /\ k - 1 # k /\ k # 0 /\ k \in 0..k
        OBVIOUS
      <4>2. g[k - 1] = f[k - 1] /\ g[k] = Apply(f[k - 1], recs[k])
        BY <4>1, Zenon
      <4> QED
        BY <3>1, <4>1, <4>2, Zenon
    <3>2. CASE i # k
      <4>1. i \in 0..(k - 1) /\ g[i] = f[i]
        BY <3>2
      <4>2. i # 0 => i - 1 \in 0..k /\ i - 1 # k
        BY <4>1
      <4>3. i # 0 => g[i - 1] = f[i - 1]
        BY <4>2, Zenon
      <4>4. f[i] = IF i = 0 THEN NewView ELSE Apply(f[i - 1], recs[i])
        BY <2>1, <4>1, Zenon
      <4> QED
        BY <4>1, <4>3, <4>4, Zenon
    <3> QED
      BY <3>1, <3>2
  <2>3. g = [i \in 0..k |-> g[i]]
    OBVIOUS
  <2> HIDE DEF g
  <2>4. g = Rounds(g, k)
    BY <2>2, <2>3, Zenon
  <2>5. \E e : e = Rounds(e, k)
    BY <2>4, Zenon
  <2> QED
    BY <2>5
<1> HIDE DEF P
<1>3. P[N]
  <2>1. \A k \in 0..N : P[k]
    BY <1>1, <1>2, Induction
  <2> QED
    BY <2>1
<1>4. \E f : f = Rounds(f, N)
  BY <1>3 DEF P
<1> DEFINE met == CHOOSE f : f = Rounds(f, N)
<1>5. met = Rounds(met, N)
  BY <1>4, Zenon
<1>6. Replay(recs) = met[N]
  BY DEF Replay
<1> HIDE DEF met
<1>7. met[0] = NewView
  <2>1. 0 \in 0..N
    OBVIOUS
  <2> QED
    BY <1>5, <2>1, Zenon
<1>8. ASSUME NEW i \in 1..N PROVE met[i] = Apply(met[i - 1], recs[i])
  <2>1. i \in 0..N /\ i # 0
    OBVIOUS
  <2> QED
    BY <1>5, <2>1, Zenon
<1> QED
  BY <1>6, <1>7, <1>8, Zenon DEF Runs

LEMMA RunsAgree ==
  ASSUME NEW recs, NEW others, NEW N \in Nat, \A i \in 1..N : others[i] = recs[i],
         NEW f, Runs(f, recs, N), NEW g, Runs(g, others, N)
  PROVE  \A i \in 0..N : g[i] = f[i]
<1> DEFINE P == [i \in 0..N |-> g[i] = f[i]]
<1>1. P[0]
  <2>1. 0 \in 0..N /\ g[0] = f[0]
    BY DEF Runs
  <2> QED
    BY <2>1
<1>2. ASSUME NEW i \in 1..N, P[i - 1] PROVE P[i]
  <2>1. i - 1 \in 0..N /\ i \in 0..N
    OBVIOUS
  <2>2. g[i - 1] = f[i - 1]
    BY <1>2, <2>1
  <2>3. g[i] = f[i]
    BY <2>2 DEF Runs
  <2> QED
    BY <2>1, <2>3
<1> HIDE DEF P
<1>3. \A i \in 0..N : P[i]
  BY <1>1, <1>2, Induction
<1> QED
  BY <1>3 DEF P

LEMMA ReplayEmpty == Replay(<<>>) = NewView
<1>1. PICK N \in Nat : N = Len(<<>>) /\ N = 0
  OBVIOUS
<1>2. PICK f : Runs(f, <<>>, N) /\ Replay(<<>>) = f[N]
  BY <1>1, ReplayRuns
<1> QED
  BY <1>1, <1>2 DEF Runs

LEMMA ReplayAppend ==
  ASSUME NEW S, NEW recs \in Seq(S), NEW r \in S
  PROVE  Replay(Append(recs, r)) = Apply(Replay(recs), r)
<1>1. PICK more : more = Append(recs, r)
  OBVIOUS
<1>2. PICK N \in Nat : N = Len(recs)
  BY LenProperties
<1>3. /\ N + 1 \in Nat /\ N + 1 = Len(more) /\ more[N + 1] = r
      /\ \A i \in 1..N : more[i] = recs[i]
  BY <1>1, <1>2
<1>4. PICK f : Runs(f, recs, N) /\ Replay(recs) = f[N]
  BY <1>2, ReplayRuns
<1>5. PICK g : Runs(g, more, N + 1) /\ Replay(more) = g[N + 1]
  BY <1>3, ReplayRuns
<1>6. Runs(g, more, N)
  <2>1. \A i \in 1..N : i \in 1..(N + 1)
    OBVIOUS
  <2> QED
    BY <1>5, <2>1, Zenon DEF Runs
<1>7. g[N] = f[N]
  <2>1. \A i \in 0..N : g[i] = f[i]
    BY <1>3, <1>4, <1>6, RunsAgree
  <2> QED
    BY <2>1
<1>8. g[N + 1] = Apply(g[N], r)
  <2>1. N + 1 \in 1..(N + 1) /\ N + 1 - 1 = N
    OBVIOUS
  <2>2. g[N + 1] = Apply(g[N + 1 - 1], more[N + 1])
    BY <1>5, <2>1 DEF Runs
  <2> QED
    BY <1>3, <2>1, <2>2
<1> QED
  BY <1>1, <1>4, <1>5, <1>7, <1>8

(* Copies that are equal in what the log decides.                           *)
Same(v, w) ==
  /\ v.turn = w.turn /\ v.people = w.people /\ v.hasdriver = w.hasdriver
  /\ \A s \in Ships : \A f \in Fields : Owned(s, f) => v.val[s][f] = w.val[s][f]

LEMMA SameTwice ==
  ASSUME NEW u, NEW v, NEW w, Same(u, v), Same(v, w)
  PROVE  Same(u, w)
  BY DEF Same

LEMMA SameApplied ==
  ASSUME NEW v, IsView(v), NEW w, IsView(w), Same(v, w), NEW r, IsText(r)
  PROVE  Same(Apply(v, r), Apply(w, r))
<1>1. PICK x : x = Apply(v, r)
  OBVIOUS
<1>2. PICK y : y = Apply(w, r)
  OBVIOUS
<1>3. Effect(v, r, x) /\ Effect(w, r, y)
  BY <1>1, <1>2, ApplyEffect
<1>4. Same(x, y)
  BY <1>3 DEF Effect, Same
<1> QED
  BY <1>1, <1>2, <1>4

(* A foul or grapple changes none of these, whole or half done.             *)
LEMMA SnagSame ==
  ASSUME NEW v, IsView(v), NEW r, IsSnag(r), NEW w,
         w \in {Apply(v, r), FirstHalf(v, r), SecondHalf(v, r)}
  PROVE  Same(v, w) /\ Same(w, v) /\ IsView(w)
<1>1. CASE w = FirstHalf(v, r) \/ w = SecondHalf(v, r)
  BY <1>1, HalfSame DEF Same
<1>2. CASE w = Apply(v, r)
  <2>1. Effect(v, r, w)
    BY <1>2, SnagEffect
  <2>2. \A s \in Ships : \A f \in Fields : ~Sets(r, s, f)
    BY DEF Sets, IsSnag
  <2> QED
    BY <2>1, <2>2 DEF Effect, IsSnag, Same
<1> QED
  BY <1>1, <1>2

LEMMA RecordsAre == \A r \in AllRecords : IsText(r)
  BY SailSyncAssumption DEF AllRecords, Sayings, IsText

(* The records of two processes may be applied in either order.             *)
LEMMA Commute ==
  ASSUME NEW p \in Procs, NEW q \in Procs, p # q, NEW b \in Sayings[p], NEW r \in Sayings[q],
         NEW v, IsView(v)
  PROVE  Same(Apply(Apply(v, r), b), Apply(Apply(v, b), r))
<1>1. IsText(b) /\ IsText(r)
  BY SayingsAre, RecordsAre
<1>2. /\ b \in Issues[p] \/ b.kind = "GARBLED"
      /\ r \in Issues[q] \/ r.kind = "GARBLED"
  BY SayingsAre DEF Garbled
<1>3. PICK x : x = Apply(v, r)
  OBVIOUS
<1>4. Effect(v, r, x) /\ IsView(x)
  <2>1. Effect(v, r, x)
    BY <1>1, <1>3, ApplyEffect
  <2> QED
    BY <2>1 DEF Effect
<1>5. PICK y : y = Apply(v, b)
  OBVIOUS
<1>6. Effect(v, b, y) /\ IsView(y)
  <2>1. Effect(v, b, y)
    BY <1>1, <1>5, ApplyEffect
  <2> QED
    BY <2>1 DEF Effect
<1>7. PICK x2 : x2 = Apply(x, b)
  OBVIOUS
<1>8. Effect(x, b, x2)
  BY <1>1, <1>4, <1>7, ApplyEffect
<1>9. PICK y2 : y2 = Apply(y, r)
  OBVIOUS
<1>10. Effect(y, r, y2)
  BY <1>1, <1>6, <1>9, ApplyEffect
<1> DEFINE More(e, n) == IF e.kind = "BEGIN" THEN n + 1 ELSE IF e.kind = "END" THEN n - 1 ELSE n
<1>11. x2.people = y2.people /\ x2.hasdriver = y2.hasdriver
  <2>1. v.people \in Int
    BY DEF IsView
  <2>2. x.people = More(r, v.people) /\ x2.people = More(b, x.people)
    BY <1>4, <1>8 DEF Effect
  <2>3. y.people = More(b, v.people) /\ y2.people = More(r, y.people)
    BY <1>6, <1>10 DEF Effect
  <2>4. x2.people = y2.people
    BY <2>1, <2>2, <2>3
  <2>5. /\ x.hasdriver = IF r.kind = "DDEAD" THEN FALSE ELSE v.hasdriver
        /\ x2.hasdriver = IF b.kind = "DDEAD" THEN FALSE ELSE x.hasdriver
    BY <1>4, <1>8 DEF Effect
  <2>6. /\ y.hasdriver = IF b.kind = "DDEAD" THEN FALSE ELSE v.hasdriver
        /\ y2.hasdriver = IF r.kind = "DDEAD" THEN FALSE ELSE y.hasdriver
    BY <1>6, <1>10 DEF Effect
  <2>7. x2.hasdriver = y2.hasdriver
    BY <2>5, <2>6, Zenon
  <2> QED
    BY <2>4, <2>7
<1>12. x2.turn = y2.turn
  <2>1. ~(b.kind = "TURN" /\ r.kind = "TURN")
    BY <1>2, SailSyncAssumption
  <2>2. /\ x.turn = IF r.kind = "TURN" THEN r.n ELSE v.turn
        /\ x2.turn = IF b.kind = "TURN" THEN b.n ELSE x.turn
    BY <1>4, <1>8 DEF Effect
  <2>3. /\ y.turn = IF b.kind = "TURN" THEN b.n ELSE v.turn
        /\ y2.turn = IF r.kind = "TURN" THEN r.n ELSE y.turn
    BY <1>6, <1>10 DEF Effect
  <2> QED
    BY <2>1, <2>2, <2>3, Zenon
<1>13. ASSUME NEW s \in Ships, NEW f \in Fields, Owned(s, f)
       PROVE  x2.val[s][f] = y2.val[s][f]
  <2>0. \A e : e.kind = "GARBLED" => ~Sets(e, s, f)
    BY DEF Sets
  <2>1. ~(Sets(b, s, f) /\ Sets(r, s, f))
    BY <1>2, <1>13, <2>0 DEF Owned, AtMostOne
  <2> QED
    BY <1>4, <1>6, <1>8, <1>10, <2>1 DEF Effect
<1>14. Same(x2, y2)
  BY <1>11, <1>12, <1>13 DEF Same
<1> QED
  BY <1>3, <1>5, <1>7, <1>9, <1>14

LEMMA AppendConcat ==
  ASSUME NEW S, NEW s \in Seq(S), NEW t \in Seq(S), NEW e \in S
  PROVE  s \o Append(t, e) = Append(s \o t, e) /\ s \o Append(t, e) \in Seq(S)
<1>1. PICK k \in Nat : k = Len(s)
  BY LenProperties
<1>2. PICK n \in Nat : n = Len(t)
  BY LenProperties
<1>3. PICK u : u = Append(t, e)
  OBVIOUS
<1>4. u \in Seq(S) /\ Len(u) = n + 1 /\ u[n + 1] = e /\ \A i \in 1..n : u[i] = t[i]
  BY <1>2, <1>3
<1>5. /\ s \o u \in Seq(S) /\ Len(s \o u) = k + (n + 1)
      /\ \A i \in 1..(k + (n + 1)) : (s \o u)[i] = IF i <= k THEN s[i] ELSE u[i - k]
  <2>1. PICK m \in Nat : m = n + 1
    OBVIOUS
  <2>2. Len(u) = m
    BY <1>4, <2>1
  <2>3. /\ s \o u \in Seq(S) /\ Len(s \o u) = k + m
        /\ \A i \in 1..(k + m) : (s \o u)[i] = IF i <= k THEN s[i] ELSE u[i - k]
    BY <1>1, <1>4, <2>2, ConcatProperties
  <2> QED
    BY <2>1, <2>3
<1>6. /\ s \o t \in Seq(S) /\ Len(s \o t) = k + n
      /\ \A i \in 1..(k + n) : (s \o t)[i] = IF i <= k THEN s[i] ELSE t[i - k]
  BY <1>1, <1>2, ConcatProperties
<1>7. PICK x : x = s \o t
  OBVIOUS
<1>8. PICK y : y = s \o u
  OBVIOUS
<1>9. PICK z : z = Append(x, e)
  OBVIOUS
<1>10. z \in Seq(S) /\ Len(z) = k + n + 1 /\ z[k + n + 1] = e /\ \A i \in 1..(k + n) : z[i] = x[i]
  BY <1>6, <1>7, <1>9
<1>11. Len(y) = Len(z) /\ \A i \in 1..Len(y) : y[i] = z[i]
  <2>1. Len(y) = Len(z) /\ Len(y) = k + n + 1
    BY <1>5, <1>8, <1>10
  <2>2. ASSUME NEW i \in 1..(k + n + 1) PROVE y[i] = z[i]
    <3>1. CASE i = k + n + 1
      <4>1. y[i] = u[n + 1]
        BY <1>5, <1>8, <3>1
      <4> QED
        BY <1>4, <1>10, <3>1, <4>1
    <3>2. CASE i # k + n + 1
      <4>1. i \in 1..(k + n)
        BY <3>2
      <4>2. z[i] = IF i <= k THEN s[i] ELSE t[i - k]
        BY <1>6, <1>7, <1>10, <4>1
      <4>3. y[i] = IF i <= k THEN s[i] ELSE u[i - k]
        BY <1>5, <1>8, <4>1
      <4>4. ~(i <= k) => i - k \in 1..n
        BY <4>1
      <4> QED
        BY <1>4, <4>2, <4>3, <4>4
    <3> QED
      BY <3>1, <3>2
  <2> QED
    BY <2>1, <2>2
<1>12. y = z
  BY <1>5, <1>8, <1>10, <1>11, SeqEqual
<1> QED
  BY <1>3, <1>5, <1>7, <1>8, <1>9, <1>12

LEMMA PrefixAppend ==
  ASSUME NEW S, NEW s \in Seq(S), NEW n \in 1..Len(s)
  PROVE  /\ SubSeq(s, 1, n) = Append(SubSeq(s, 1, n - 1), s[n])
         /\ SubSeq(s, 1, n - 1) \in Seq(S) /\ s[n] \in S
  OBVIOUS

LEMMA PrefixConcat ==
  ASSUME NEW S, NEW s \in Seq(S), NEW t \in Seq(S), NEW n \in 0..Len(s)
  PROVE  SubSeq(s \o t, 1, n) = SubSeq(s, 1, n) /\ SubSeq(s, 1, n) \in Seq(S)
  OBVIOUS

LEMMA ApplyIsView ==
  ASSUME NEW v, IsView(v), NEW r, IsText(r)
  PROVE  IsView(Apply(v, r))
<1>1. PICK w : w = Apply(v, r)
  OBVIOUS
<1>2. Effect(v, r, w)
  BY <1>1, ApplyEffect
<1>3. IsView(w)
  BY <1>2 DEF Effect
<1> QED
  BY <1>1, <1>3

LEMMA ReplayIsView ==
  ASSUME NEW recs \in Seq(AllRecords)
  PROVE  IsView(Replay(recs))
<1>1. PICK N \in Nat : N = Len(recs)
  BY LenProperties
<1>2. PICK f : Runs(f, recs, N) /\ Replay(recs) = f[N]
  BY <1>1, ReplayRuns
<1> DEFINE P == [i \in 0..N |-> IsView(f[i])]
<1>3. P[0]
  <2>1. 0 \in 0..N /\ IsView(f[0])
    BY <1>2, NewViewIs DEF Runs
  <2> QED
    BY <2>1
<1>4. ASSUME NEW i \in 1..N, P[i - 1] PROVE P[i]
  <2>1. i - 1 \in 0..N /\ i \in 0..N
    OBVIOUS
  <2>2. IsView(f[i - 1])
    BY <1>4, <2>1
  <2>3. PICK r : r = recs[i]
    OBVIOUS
  <2>4. IsText(r)
    BY <1>1, <2>3, RecordsAre
  <2>5. f[i] = Apply(f[i - 1], r)
    BY <1>2, <2>3 DEF Runs
  <2>6. IsView(f[i])
    BY <2>2, <2>4, <2>5, ApplyIsView
  <2> QED
    BY <2>1, <2>6
<1> HIDE DEF P
<1>5. \A i \in 0..N : P[i]
  BY <1>3, <1>4, Induction
<1>6. IsView(f[N])
  <2>1. N \in 0..N
    OBVIOUS
  <2> QED
    BY <1>5, <2>1 DEF P
<1> QED
  BY <1>2, <1>6

LEMMA SaidAre == \A p \in Procs : \A r \in Sayings[p] : r \in AllRecords /\ IsText(r)
  BY SayingsAre, RecordsAre

(* A record of another process, read now, makes the copy that it would have *)
(* made before the own records that are still kept.                         *)
LEMMA ReadLate ==
  ASSUME NEW p \in Procs, NEW q \in Procs, p # q, NEW r \in Sayings[q],
         NEW X \in Seq(AllRecords), NEW B \in Seq(Sayings[p])
  PROVE  Same(Replay(Append(X, r) \o B), Apply(Replay(X \o B), r))
<1>1. PICK N \in Nat : N = Len(B)
  BY LenProperties
<1>2. PICK Y : Y = Append(X, r)
  OBVIOUS
<1>3. Y \in Seq(AllRecords) /\ r \in AllRecords /\ IsText(r)
  BY <1>2, SaidAre
<1> DEFINE P == [j \in 0..N |-> Same(Replay(Y \o SubSeq(B, 1, j)), Apply(Replay(X \o SubSeq(B, 1, j)), r))]
<1>4. P[0]
  <2>1. PICK E : E = SubSeq(B, 1, 0)
    OBVIOUS
  <2>2. E = <<>>
    BY <2>1
  <2>3. X \o E = X /\ Y \o E = Y
    BY <1>3, <2>2
  <2>4. Replay(Y) = Apply(Replay(X), r)
    BY <1>2, <1>3, ReplayAppend
  <2>5. Same(Replay(Y), Apply(Replay(X), r))
    BY <2>4 DEF Same
  <2>6. 0 \in 0..N
    OBVIOUS
  <2> QED
    BY <2>1, <2>3, <2>5, <2>6
<1>5. ASSUME NEW j \in 1..N, P[j - 1] PROVE P[j]
  <2>1. j - 1 \in 0..N /\ j \in 0..N /\ j \in 1..Len(B)
    BY <1>1
  <2>2. PICK C : C = SubSeq(B, 1, j - 1)
    OBVIOUS
  <2>3. PICK b : b = B[j]
    OBVIOUS
  <2>4. SubSeq(B, 1, j) = Append(C, b) /\ C \in Seq(Sayings[p]) /\ b \in Sayings[p]
    BY <2>1, <2>2, <2>3, PrefixAppend
  <2>5. b \in AllRecords /\ IsText(b) /\ C \in Seq(AllRecords)
    <3>1. Sayings[p] \subseteq AllRecords
      BY SaidAre
    <3> QED
      BY <2>4, <3>1, SaidAre
  <2>6. /\ Y \o Append(C, b) = Append(Y \o C, b)
        /\ X \o Append(C, b) = Append(X \o C, b)
    BY <1>3, <2>5, AppendConcat
  <2>7. X \o C \in Seq(AllRecords) /\ Y \o C \in Seq(AllRecords)
    BY <1>3, <2>5
  <2>8. PICK x : x = Replay(X \o C)
    OBVIOUS
  <2>9. PICK y : y = Replay(Y \o C)
    OBVIOUS
  <2>10. IsView(x) /\ IsView(y)
    BY <2>7, <2>8, <2>9, ReplayIsView
  <2>11. /\ Replay(Append(X \o C, b)) = Apply(x, b)
         /\ Replay(Append(Y \o C, b)) = Apply(y, b)
    BY <2>5, <2>7, <2>8, <2>9, ReplayAppend
  <2>12. Same(y, Apply(x, r))
    BY <1>5, <2>1, <2>2, <2>8, <2>9
  <2>13. IsView(Apply(x, r))
    BY <1>3, <2>10, ApplyIsView
  <2>14. Same(Apply(y, b), Apply(Apply(x, r), b))
    BY <2>5, <2>10, <2>12, <2>13, SameApplied
  <2>15. Same(Apply(Apply(x, r), b), Apply(Apply(x, b), r))
    BY <2>4, <2>10, Commute
  <2>16. Same(Apply(y, b), Apply(Apply(x, b), r))
    BY <2>14, <2>15, SameTwice
  <2>17. Same(Replay(Y \o SubSeq(B, 1, j)), Apply(Replay(X \o SubSeq(B, 1, j)), r))
    BY <2>4, <2>6, <2>11, <2>16
  <2> QED
    BY <2>1, <2>17
<1> HIDE DEF P
<1>6. \A j \in 0..N : P[j]
  BY <1>4, <1>5, Induction
<1>7. Same(Replay(Y \o SubSeq(B, 1, N)), Apply(Replay(X \o SubSeq(B, 1, N)), r))
  <2>1. N \in 0..N
    OBVIOUS
  <2> QED
    BY <1>6, <2>1 DEF P
<1>8. SubSeq(B, 1, N) = B
  BY <1>1
<1> QED
  BY <1>2, <1>7, <1>8
-----------------------------------------------------------------------------
(* Every copy *)

Live(p) == pc[p] # "gone"
Sound(p) == p \in Playing /\ cut[p] = {}

Copies ==
  /\ DOMAIN view = Procs
  /\ \A p \in Procs : /\ IsView(view[p])
                      /\ buf[p] \in Seq(Sayings[p]) /\ rest[p] \in Seq(Sayings[p])

(* What a process has not read yet, the others have written.                *)
Foreign ==
  \A p \in Procs : Live(p) =>
    \A i \in Nat : seek[p] < i /\ i <= Len(file) => \E q \in Procs \ {p} : file[i] \in Sayings[q]

(* What a process has made its copy from.                                   *)
Past(p) == SubSeq(file, 1, seek[p]) \o Applied(p)

UpToDate == \A p \in Procs : Sound(p) => Same(view[p], Replay(Past(p)))

(* The tables of fouls of a copy, and what is so between the test and the   *)
(* two assignments of a foul.                                               *)
HalfDone(v, r) == \E w : IsView(w) /\ Tables(w) /\ Heeded(w, r) /\ v = FirstHalf(w, r)

Counted(p) ==
  p \in Playing /\ "sync_update" \notin cut[p] =>
    IF at[p] = "half" THEN HalfDone(view[p], rec[p])
    ELSE Tables(view[p]) /\ (at[p] = "tested" => Heeded(view[p], rec[p]))

Counts == \A p \in Procs : Counted(p)

CopyInv == Copies /\ Foreign /\ UpToDate /\ Counts

LEMMA InitCopyInv == Init => CopyInv
<1> SUFFICES ASSUME Init PROVE CopyInv
  OBVIOUS
<1>1. Copies
  <2>1. \A p \in Procs : <<>> \in Seq(Sayings[p])
    OBVIOUS
  <2> QED
    BY <2>1, NewViewIs DEF Init, Copies
<1>2. Foreign
  <2>1. Len(file) = 0
    BY DEF Init
  <2> QED
    BY <2>1 DEF Foreign, Init
<1>3. ASSUME NEW p \in Procs PROVE Same(view[p], Replay(Past(p))) /\ Counted(p)
  <2>1. at[p] = "none"
    BY DEF Init
  <2>2. Past(p) = <<>>
    BY <2>1 DEF Past, Applied, Init
  <2>3. view[p] = NewView
    BY DEF Init
  <2>4. Same(view[p], Replay(Past(p)))
    BY <2>2, <2>3, ReplayEmpty DEF Same
  <2>5. Counted(p)
    BY <2>1, <2>3, NewViewIs DEF Counted
  <2> QED
    BY <2>4, <2>5
<1> QED
  BY <1>1, <1>2, <1>3 DEF CopyInv, UpToDate, Counts

LEMMA ButLast ==
  ASSUME NEW S, NEW s \in Seq(S)
  PROVE  SubSeq(s, 1, Len(s) - 1) \in Seq(S)
  OBVIOUS

LEMMA InSeq ==
  ASSUME NEW S, NEW s \in Seq(S), NEW r \in S
  PROVE  Append(s, r) \in Seq(S) /\ <<r>> \in Seq(S)
  OBVIOUS

LEMMA Known ==
  ASSUME IndInv, CopyInv, NEW p \in Procs
  PROVE  /\ file \in Seq(AllRecords) /\ Len(file) \in Nat
         /\ seek[p] \in 0..Len(file) /\ seek[p] \in Nat
         /\ buf[p] \in Seq(Sayings[p]) /\ buf[p] \in Seq(AllRecords)
         /\ Applied(p) \in Seq(Sayings[p]) /\ Applied(p) \in Seq(AllRecords)
         /\ SubSeq(file, 1, seek[p]) \in Seq(AllRecords) /\ Past(p) \in Seq(AllRecords)
         /\ IsView(view[p])
<1>1. /\ file \in Seq(AllRecords) /\ Len(file) \in Nat
      /\ seek[p] \in 0..Len(file) /\ seek[p] \in Nat /\ buf[p] \in Seq(AllRecords)
  BY ConcatLen DEF IndInv, Shape, AtEnd
<1>2. buf[p] \in Seq(Sayings[p]) /\ IsView(view[p])
  BY DEF CopyInv, Copies
<1>3. SubSeq(file, 1, seek[p]) \in Seq(AllRecords)
  BY <1>1, PrefixConcat
<1>4. Applied(p) \in Seq(Sayings[p]) /\ Applied(p) \in Seq(AllRecords)
  BY <1>1, <1>2, ButLast DEF Applied
<1>5. Past(p) \in Seq(AllRecords)
  BY <1>3, <1>4 DEF Past
<1> QED
  BY <1>1, <1>2, <1>3, <1>4, <1>5

(* A process whose Writes the alarm has not cut has applied what it keeps,  *)
(* but in the Write it is in.                                               *)
LEMMA Between ==
  ASSUME IndInv, NEW p \in Procs
  PROVE  /\ Sound(p) /\ mode[p] # "command" => at[p] = "none" /\ Applied(p) = buf[p]
         /\ at[p] \in {"tested", "half"} /\ mode[p] # "command" => "sync_update" \in cut[p]
         /\ pc[p] # "run" => mode[p] # "command"
<1>1. Resumed(p)
  BY DEF IndInv, Writing
<1> QED
  BY <1>1 DEF Resumed, Sound, Applied

LEMMA Grows ==
  ASSUME NEW X \in Seq(AllRecords), NEW B \in Seq(AllRecords), NEW r \in AllRecords
  PROVE  /\ Replay(X \o Append(B, r)) = Apply(Replay(X \o B), r)
         /\ IsView(Replay(X \o B))
<1>1. PICK Y : Y = X \o B
  OBVIOUS
<1>2. Y \in Seq(AllRecords)
  BY <1>1
<1>3. X \o Append(B, r) = Append(Y, r)
  BY <1>1, AppendConcat
<1>4. Replay(Append(Y, r)) = Apply(Replay(Y), r)
  BY <1>2, ReplayAppend
<1>5. IsView(Replay(Y))
  BY <1>2, ReplayIsView
<1> QED
  BY <1>1, <1>3, <1>4, <1>5

(* A step of a process outside of Sync.                                     *)
LEMMA OutsideCopies ==
  ASSUME IndInv, CopyInv, NEW p \in Procs, UNCHANGED sync, DOMAIN view' = Procs,
         \A q \in Procs \ {p} : Kept(q) /\ view'[q] = view[q],
         IsView(view'[p]), buf'[p] \in Seq(Sayings[p]), rest'[p] \in Seq(Sayings[p]),
         Counted(p)', Sound(p)' => Same(view'[p], Replay(Past(p)'))
  PROVE  CopyInv'
<1>1. Copies'
  BY DEF CopyInv, Copies, Kept
<1>2. Foreign'
  BY DEF CopyInv, Foreign, Live, sync
<1>3. ASSUME NEW q \in Procs PROVE Counted(q)'
  <2>1. CASE q # p
    BY <2>1 DEF CopyInv, Counts, Counted, Playing, Kept
  <2> QED
    BY <2>1
<1>4. ASSUME NEW q \in Procs, Sound(q)' PROVE Same(view'[q], Replay(Past(q)'))
  <2>1. CASE q # p
    <3>1. Kept(q) /\ view'[q] = view[q]
      BY <2>1
    <3>2. Sound(q)
      BY <1>4, <3>1 DEF Sound, Playing, Kept
    <3>3. Past(q)' = Past(q)
      BY <3>1 DEF Past, Applied, Kept, sync
    <3> QED
      BY <3>1, <3>2, <3>3 DEF CopyInv, UpToDate
  <2> QED
    BY <1>4, <2>1
<1> QED
  BY <1>1, <1>2, <1>3, <1>4 DEF CopyInv, UpToDate, Counts

LEMMA WriteCopies ==
  ASSUME IndInv, CopyInv, NEW p \in Procs, Write(p)
  PROVE  CopyInv'
<1>1. PICK r \in Issues[p] : /\ buf' = [buf EXCEPT ![p] = Append(@, r)]
                             /\ view' = [view EXCEPT ![p] = Apply(@, r)]
  BY DEF Write
<1>2. r \in Sayings[p] /\ r \in AllRecords /\ IsText(r)
  BY SayingsAre, RecordsAre
<1>3. /\ rest' = [rest EXCEPT ![p] = <<>>]
      /\ at' = [at EXCEPT ![p] = IF @ = "text" THEN "spoiled" ELSE @]
      /\ UNCHANGED <<file, seek, pc, mode, rec, cut, last>> /\ UNCHANGED sync
      /\ mode[p] # "command"
  BY DEF Write, sync
<1>4. /\ DOMAIN view' = Procs /\ view'[p] = Apply(view[p], r)
      /\ buf'[p] = Append(buf[p], r) /\ rest'[p] = <<>>
      /\ at'[p] = IF at[p] = "text" THEN "spoiled" ELSE at[p]
      /\ \A q \in Procs \ {p} : Kept(q) /\ view'[q] = view[q]
  BY <1>1, <1>3 DEF IndInv, Shape, Moved, Kept, CopyInv, Copies
<1>5. PICK b : b = buf[p]
  OBVIOUS
<1>6. PICK v : v = view[p]
  OBVIOUS
<1>7. b \in Seq(Sayings[p]) /\ b \in Seq(AllRecords) /\ IsView(v)
  BY <1>5, <1>6, Known
<1>8. IsView(view'[p])
  BY <1>2, <1>4, <1>6, <1>7, ApplyIsView
<1>9. buf'[p] \in Seq(Sayings[p]) /\ rest'[p] \in Seq(Sayings[p])
  <2>1. Append(b, r) \in Seq(Sayings[p])
    BY <1>2, <1>7, InSeq
  <2> QED
    BY <1>4, <1>5, <2>1, EmptySeq
<1>10. Counted(p)'
  <2> SUFFICES ASSUME p \in Playing, "sync_update" \notin cut[p]
               PROVE  at'[p] \notin {"tested", "half"} /\ Tables(view'[p])
    BY <1>3 DEF Counted, Playing
  <2>1. at[p] \notin {"tested", "half"}
    BY <1>3, Between
  <2>2. Tables(v)
    BY <1>6, <2>1 DEF CopyInv, Counts, Counted
  <2>3. Tables(Apply(v, r))
    BY <1>2, <1>7, <2>2, ApplyTables
  <2> QED
    BY <1>4, <1>6, <2>1, <2>3
<1>11. ASSUME Sound(p)' PROVE Same(view'[p], Replay(Past(p)'))
  <2>1. Sound(p)
    BY <1>3, <1>11 DEF Sound, Playing
  <2>2. at[p] = "none" /\ Applied(p) = b
    BY <1>3, <1>5, <2>1, Between
  <2>3. PICK X : X = SubSeq(file, 1, seek[p])
    OBVIOUS
  <2>4. X \in Seq(AllRecords)
    BY <2>3, Known
  <2>5. Past(p) = X \o b
    BY <2>2, <2>3 DEF Past
  <2>6. Past(p)' = X \o Append(b, r)
    BY <1>3, <1>4, <1>5, <2>2, <2>3 DEF Past, Applied
  <2>7. PICK x : x = Replay(X \o b)
    OBVIOUS
  <2>8. Replay(X \o Append(b, r)) = Apply(x, r) /\ IsView(x)
    BY <1>2, <1>7, <2>4, <2>7, Grows
  <2>9. Same(v, x)
    BY <1>6, <2>1, <2>5, <2>7 DEF CopyInv, UpToDate
  <2>10. Same(Apply(v, r), Apply(x, r))
    BY <1>2, <1>7, <2>8, <2>9, SameApplied
  <2> QED
    BY <1>4, <1>6, <2>6, <2>8, <2>10
<1> QED
  BY <1>3, <1>4, <1>8, <1>9, <1>10, <1>11, OutsideCopies

LEMMA TextCopies ==
  ASSUME IndInv, CopyInv, NEW p \in Procs, WriteText(p)
  PROVE  CopyInv'
<1>1. PICK r \in Issues[p] : /\ rec' = [rec EXCEPT ![p] = r]
                             /\ rest' = [rest EXCEPT ![p] = <<r>>]
  BY DEF WriteText
<1>2. /\ at' = [at EXCEPT ![p] = "text"] /\ at[p] = "none"
      /\ UNCHANGED <<file, seek, pc, mode, buf, cut, last, view>> /\ UNCHANGED sync
  BY DEF WriteText, sync
<1>3. /\ at'[p] = "text" /\ rest'[p] = <<r>>
      /\ \A q \in Procs \ {p} : Kept(q) /\ view'[q] = view[q]
  BY <1>1, <1>2 DEF IndInv, Moved, Kept
<1>4. r \in Sayings[p]
  BY SayingsAre
<1>5. <<r>> \in Seq(Sayings[p])
  BY <1>4, EmptySeq, InSeq
<1>6. Counted(p)'
  BY <1>2, <1>3 DEF CopyInv, Counts, Counted, Playing
<1>7. Sound(p)' => Same(view'[p], Replay(Past(p)'))
  <2>1. Past(p)' = Past(p)
    BY <1>2, <1>3 DEF Past, Applied
  <2>2. Sound(p)' => Sound(p)
    BY <1>2 DEF Sound, Playing
  <2> QED
    BY <1>2, <2>1, <2>2 DEF CopyInv, UpToDate
<1>8. DOMAIN view' = Procs /\ IsView(view'[p]) /\ buf'[p] \in Seq(Sayings[p])
  BY <1>2 DEF CopyInv, Copies
<1> QED
  BY <1>2, <1>3, <1>5, <1>6, <1>7, <1>8, OutsideCopies

LEMMA KeepCopies ==
  ASSUME IndInv, CopyInv, NEW p \in Procs, WriteKeep(p) \/ WriteKeepOld(p)
  PROVE  CopyInv'
<1>1. /\ rest' = [rest EXCEPT ![p] = <<>>] /\ at' = [at EXCEPT ![p] = "kept"]
      /\ mode[p] = "command" /\ at[p] \in {"text", "spoiled"}
      /\ UNCHANGED <<file, seek, pc, mode, rec, cut, last, view>> /\ UNCHANGED sync
      /\ \/ buf' = [buf EXCEPT ![p] = @ \o rest[p]]
         \/ buf' = [buf EXCEPT ![p] = Append(@ \o rest[p], Garbled)]
  BY DEF WriteKeep, WriteKeepOld, InWrite, sync
<1>2. /\ rest'[p] = <<>> /\ at'[p] = "kept"
      /\ \A q \in Procs \ {p} : Kept(q) /\ view'[q] = view[q]
  BY <1>1 DEF IndInv, Shape, Moved, Kept
<1>3. Resumed(p) /\ Found(p)
  BY DEF IndInv, Writing
<1>4. Garbled \in Sayings[p]
  BY <1>1, <1>3, SayingsAre DEF Resumed
<1>5. PICK x : x = buf[p] \o rest[p]
  OBVIOUS
<1>6. x \in Seq(Sayings[p])
  <2>1. buf[p] \in Seq(Sayings[p]) /\ rest[p] \in Seq(Sayings[p])
    BY DEF CopyInv, Copies
  <2> QED
    BY <1>5, <2>1, ConcatLen
<1>7. buf'[p] \in Seq(Sayings[p]) /\ rest'[p] \in Seq(Sayings[p])
  <2>1. buf'[p] = x \/ buf'[p] = Append(x, Garbled)
    BY <1>1, <1>5 DEF IndInv, Shape
  <2>2. Append(x, Garbled) \in Seq(Sayings[p]) /\ <<>> \in Seq(Sayings[p])
    BY <1>4, <1>6
  <2> QED
    BY <1>2, <1>6, <2>1, <2>2
<1>8. Counted(p)'
  BY <1>1, <1>2 DEF CopyInv, Counts, Counted, Playing
<1>9. ASSUME Sound(p)' PROVE Same(view'[p], Replay(Past(p)'))
  <2>1. Sound(p)
    BY <1>1, <1>9 DEF Sound, Playing
  <2>2. at[p] = "text" /\ rest[p] = <<rec[p]>> /\ rec[p] \in AllRecords
    BY <1>1, <1>3, <2>1, SayingsAre DEF Resumed, Found, Sound
  <2>3. buf' = [buf EXCEPT ![p] = @ \o rest[p]]
    BY <2>2 DEF WriteKeep, WriteKeepOld, InWrite
  <2>4. PICK b : b = buf[p]
    OBVIOUS
  <2>5. b \in Seq(AllRecords) /\ buf'[p] = b \o <<rec[p]>>
    BY <2>2, <2>3, <2>4, Known DEF IndInv, Shape
  <2>6. SubSeq(buf'[p], 1, Len(buf'[p]) - 1) = b
    BY <2>2, <2>5, EndsAppend
  <2>7. Past(p)' = Past(p)
    BY <1>1, <1>2, <2>2, <2>4, <2>6 DEF Past, Applied
  <2> QED
    BY <1>1, <2>1, <2>7 DEF CopyInv, UpToDate
<1>10. DOMAIN view' = Procs /\ IsView(view'[p])
  BY <1>1 DEF CopyInv, Copies
<1> QED
  BY <1>1, <1>2, <1>7, <1>8, <1>9, <1>10, OutsideCopies

LEMMA EndsIs ==
  ASSUME NEW S, NEW s \in Seq(S), NEW r, Ends(s, r)
  PROVE  s = Append(SubSeq(s, 1, Len(s) - 1), r) /\ r \in S
  BY DEF Ends

(* What the last steps of a Write have before them: the copy, the record,   *)
(* and what the copy is made from with and without the record.              *)
LEMMA LastSteps ==
  ASSUME IndInv, CopyInv, NEW p \in Procs, Sound(p), at[p] \in {"kept", "tested", "half"}
  PROVE  \E x : /\ IsView(x) /\ Same(view[p], x) /\ x = Replay(Past(p))
                /\ Replay(SubSeq(file, 1, seek[p]) \o buf[p]) = Apply(x, rec[p])
<1>1. PICK B : B = Applied(p)
  OBVIOUS
<1>2. PICK X : X = SubSeq(file, 1, seek[p])
  OBVIOUS
<1>3. PICK r : r = rec[p]
  OBVIOUS
<1>4. X \in Seq(AllRecords) /\ B \in Seq(AllRecords) /\ Past(p) = X \o B
  BY <1>1, <1>2, Known DEF Past
<1>5. Ends(buf[p], r)
  BY <1>3 DEF IndInv, Writing, Found, Sound
<1>6. buf[p] = Append(B, r) /\ r \in AllRecords
  <2>1. buf[p] \in Seq(AllRecords)
    BY Known
  <2> QED
    BY <1>1, <1>5, <2>1, EndsIs DEF Applied
<1>7. PICK x : x = Replay(X \o B)
  OBVIOUS
<1>8. Replay(X \o Append(B, r)) = Apply(x, r) /\ IsView(x)
  BY <1>4, <1>6, <1>7, Grows
<1>9. Same(view[p], x)
  BY <1>4, <1>7 DEF CopyInv, UpToDate
<1> QED
  BY <1>2, <1>3, <1>4, <1>6, <1>7, <1>8, <1>9

LEMMA ApplyCopies ==
  ASSUME IndInv, CopyInv, NEW p \in Procs,
         WriteApply(p) \/ WriteFirstHalf(p) \/ WriteSecondHalf(p)
  PROVE  CopyInv'
<1>1. /\ UNCHANGED <<file, seek, pc, mode, buf, rest, cut, last>> /\ UNCHANGED sync
      /\ at[p] \in {"kept", "tested", "half"}
  BY DEF WriteApply, WriteFirstHalf, WriteSecondHalf, InWrite, sync
<1>2. PICK v : v = view[p]
  OBVIOUS
<1>3. PICK r : r = rec[p]
  OBVIOUS
<1>4. PICK w : w = view'[p]
  OBVIOUS
<1>5. /\ DOMAIN view' = Procs /\ view'[p] = w
      /\ \A q \in Procs \ {p} : Kept(q) /\ view'[q] = view[q]
  <2>1. view' = view \/ \E x : view' = [view EXCEPT ![p] = x]
    BY DEF WriteApply, WriteFirstHalf, WriteSecondHalf
  <2>2. DOMAIN view' = Procs /\ \A q \in Procs \ {p} : view'[q] = view[q]
    BY <2>1 DEF CopyInv, Copies
  <2>3. \A q \in Procs \ {p} : at'[q] = at[q] /\ rec'[q] = rec[q]
    BY DEF WriteApply, WriteFirstHalf, WriteSecondHalf, WriteDone, IndInv, Moved
  <2> QED
    BY <1>1, <1>4, <2>2, <2>3 DEF Kept
<1>6. IsView(v) /\ Resumed(p)
  BY <1>2, Known DEF IndInv, Writing
<1>7. r \in AllRecords /\ IsText(r)
  <2>1. r \in Issues[p]
    BY <1>1, <1>3, <1>6 DEF Resumed
  <2> QED
    BY <2>1, SayingsAre, RecordsAre
<1>8. Sound(p)' => Sound(p)
  BY <1>1 DEF Sound, Playing
<1>9. p \in Playing' /\ "sync_update" \notin cut'[p] => p \in Playing /\ "sync_update" \notin cut[p]
  BY <1>1 DEF Playing
<1>10. buf'[p] \in Seq(Sayings[p]) /\ rest'[p] \in Seq(Sayings[p])
  BY <1>1 DEF CopyInv, Copies
<1>11. Counted(p)
  BY DEF CopyInv, Counts
<1> DEFINE X == SubSeq(file, 1, seek[p])
<1>12. at'[p] = "none" => Past(p)' = X \o buf[p]
  BY <1>1 DEF Past, Applied
<1>13. at'[p] \in {"kept", "tested", "half"} => Past(p)' = Past(p)
  BY <1>1 DEF Past, Applied
<1>14. CASE WriteApply(p)
  <2>1. at[p] = "kept"
    BY <1>14 DEF WriteApply, InWrite
  <2>2. CASE IsSnag(r)
    <3>1. view' = view
      BY <1>3, <1>14, <2>2 DEF WriteApply
    <3>2. w = v
      BY <1>2, <1>5, <3>1
    <3>3. CASE Heeded(v, r)
      <4>1. at'[p] = "tested" /\ rec'[p] = r
        BY <1>2, <1>3, <1>14, <2>2, <3>3 DEF WriteApply, IndInv, Moved
      <4>2. Counted(p)'
        BY <1>2, <1>3, <1>5, <1>9, <1>11, <2>1, <3>2, <3>3, <4>1 DEF Counted
      <4>3. Sound(p)' => Same(view'[p], Replay(Past(p)'))
        BY <1>5, <1>8, <1>13, <1>2, <3>2, <4>1 DEF CopyInv, UpToDate
      <4> QED
        BY <1>1, <1>5, <1>6, <1>10, <3>2, <4>2, <4>3, OutsideCopies
    <3>4. CASE ~Heeded(v, r)
      <4>1. at'[p] = "none"
        BY <1>2, <1>3, <1>14, <2>2, <3>4 DEF WriteApply, WriteDone, IndInv, Moved
      <4>2. Counted(p)'
        BY <1>2, <1>5, <1>9, <1>11, <2>1, <3>2, <4>1 DEF Counted
      <4>3. ASSUME Sound(p)' PROVE Same(view'[p], Replay(Past(p)'))
        <5>1. PICK x : IsView(x) /\ Same(v, x) /\ Replay(X \o buf[p]) = Apply(x, r)
          BY <1>1, <1>2, <1>3, <1>8, <4>3, LastSteps
        <5>2. Same(x, Apply(x, r))
          BY <2>2, <5>1, SnagSame
        <5>3. Same(v, Apply(x, r))
          BY <5>1, <5>2, SameTwice
        <5> QED
          BY <1>5, <1>12, <3>2, <4>1, <5>1, <5>3
      <4> QED
        BY <1>1, <1>5, <1>6, <1>10, <3>2, <4>2, <4>3, OutsideCopies
    <3> QED
      BY <3>3, <3>4
  <2>3. CASE ~IsSnag(r)
    <3>1. view' = [view EXCEPT ![p] = Apply(@, rec[p])] /\ WriteDone(p)
      BY <1>3, <1>14, <2>3 DEF WriteApply
    <3>2. w = Apply(v, r) /\ at'[p] = "none"
      BY <1>2, <1>3, <1>5, <3>1 DEF WriteDone, IndInv, Moved, CopyInv, Copies
    <3>3. IsView(w)
      BY <1>6, <1>7, <3>2, ApplyIsView
    <3>4. Counted(p)'
      <4> SUFFICES ASSUME p \in Playing, "sync_update" \notin cut[p] PROVE Tables(w)
        BY <1>5, <1>9, <3>2 DEF Counted
      <4>1. Tables(v)
        BY <1>2, <1>11, <2>1 DEF Counted
      <4> QED
        BY <1>6, <1>7, <3>2, <4>1, ApplyTables
    <3>5. ASSUME Sound(p)' PROVE Same(view'[p], Replay(Past(p)'))
      <4>1. PICK x : IsView(x) /\ Same(v, x) /\ Replay(X \o buf[p]) = Apply(x, r)
        BY <1>1, <1>2, <1>3, <1>8, <3>5, LastSteps
      <4>2. Same(Apply(v, r), Apply(x, r))
        BY <1>6, <1>7, <4>1, SameApplied
      <4> QED
        BY <1>5, <1>12, <3>2, <4>1, <4>2
    <3> QED
      BY <1>1, <1>5, <1>10, <3>3, <3>4, <3>5, OutsideCopies
  <2> QED
    BY <2>2, <2>3
<1>15. CASE WriteFirstHalf(p)
  <2>1. /\ at[p] = "tested" /\ rec' = rec /\ at' = [at EXCEPT ![p] = "half"]
        /\ view' = [view EXCEPT ![p] = FirstHalf(@, rec[p])]
    BY <1>15 DEF WriteFirstHalf, InWrite
  <2>2. w = FirstHalf(v, r) /\ at'[p] = "half" /\ rec'[p] = r
    BY <1>2, <1>3, <1>5, <2>1 DEF IndInv, Moved, CopyInv, Copies
  <2>3. IsSnag(r)
    BY <1>3, <1>6, <2>1 DEF Resumed
  <2>4. Same(w, v) /\ IsView(w)
    BY <1>6, <2>2, <2>3, SnagSame
  <2>5. Counted(p)'
    <3> SUFFICES ASSUME p \in Playing, "sync_update" \notin cut[p] PROVE HalfDone(w, r)
      BY <1>5, <1>9, <2>2 DEF Counted
    <3>1. Tables(v) /\ Heeded(v, r)
      BY <1>2, <1>3, <1>11, <2>1 DEF Counted
    <3> QED
      BY <1>6, <2>2, <3>1 DEF HalfDone
  <2>6. ASSUME Sound(p)' PROVE Same(view'[p], Replay(Past(p)'))
    <3>1. Same(v, Replay(Past(p)))
      BY <1>2, <1>8, <2>6 DEF CopyInv, UpToDate
    <3>2. Same(w, Replay(Past(p)))
      BY <2>4, <3>1, SameTwice
    <3> QED
      BY <1>5, <1>13, <2>2, <3>2
  <2> QED
    BY <1>1, <1>5, <1>10, <2>4, <2>5, <2>6, OutsideCopies
<1>16. CASE WriteSecondHalf(p)
  <2>1. /\ at[p] = "half" /\ WriteDone(p)
        /\ view' = [view EXCEPT ![p] = SecondHalf(@, rec[p])]
    BY <1>16 DEF WriteSecondHalf, InWrite
  <2>2. w = SecondHalf(v, r) /\ at'[p] = "none"
    BY <1>2, <1>3, <1>5, <2>1 DEF WriteDone, IndInv, Moved, CopyInv, Copies
  <2>3. IsSnag(r)
    BY <1>3, <1>6, <2>1 DEF Resumed
  <2>4. Same(w, v) /\ IsView(w)
    BY <1>6, <2>2, <2>3, SnagSame
  <2>5. Counted(p)'
    <3> SUFFICES ASSUME p \in Playing, "sync_update" \notin cut[p] PROVE Tables(w)
      BY <1>5, <1>9, <2>2 DEF Counted
    <3>1. PICK u : IsView(u) /\ Tables(u) /\ Heeded(u, r) /\ v = FirstHalf(u, r)
      BY <1>2, <1>3, <1>11, <2>1 DEF Counted, HalfDone
    <3>2. w = Apply(u, r)
      BY <2>2, <2>3, <3>1 DEF Apply, IsSnag
    <3> QED
      BY <1>7, <3>1, <3>2, ApplyTables
  <2>6. ASSUME Sound(p)' PROVE Same(view'[p], Replay(Past(p)'))
    <3>1. PICK x : IsView(x) /\ Same(v, x) /\ Replay(X \o buf[p]) = Apply(x, r)
      BY <1>1, <1>2, <1>3, <1>8, <2>6, LastSteps
    <3>2. Same(x, Apply(x, r))
      BY <2>3, <3>1, SnagSame
    <3>3. Same(w, Apply(x, r))
      BY <2>4, <3>1, <3>2, SameTwice
    <3> QED
      BY <1>5, <1>12, <2>2, <3>1, <3>3
  <2> QED
    BY <1>1, <1>5, <1>10, <2>4, <2>5, <2>6, OutsideCopies
<1> QED
  BY <1>14, <1>15, <1>16

(* newturn begins, or returns to a command; the process leaves.             *)
LEMMA TurnCopies ==
  ASSUME IndInv, CopyInv, NEW p \in Procs, NewTurn(p) \/ Return(p) \/ Leave(p)
  PROVE  CopyInv'
<1>1. UNCHANGED <<file, seek, pc, buf, view, last>> /\ UNCHANGED sync /\ pc[p] = "run"
  BY DEF NewTurn, Return, Leave, sync
<1>2. \A q \in Procs \ {p} : Kept(q) /\ view'[q] = view[q]
  BY DEF NewTurn, Return, Leave, WriteDone, sync, write, IndInv, Moved, Kept
<1>3. rest'[p] \in Seq(Sayings[p])
  <2>1. rest'[p] = rest[p] \/ rest'[p] = <<>>
    BY DEF NewTurn, Return, Leave, write, IndInv, Moved
  <2>2. <<>> \in Seq(Sayings[p]) /\ rest[p] \in Seq(Sayings[p])
    BY DEF CopyInv, Copies
  <2> QED
    BY <2>1, <2>2
<1>4. DOMAIN view' = Procs /\ IsView(view'[p]) /\ buf'[p] \in Seq(Sayings[p])
  BY <1>1 DEF CopyInv, Copies
<1>5. \/ mode'[p] = "leaving"
      \/ /\ mode[p] \in {"start", "command", "newturn"} /\ UNCHANGED <<at, rec>>
         /\ cut[p] \subseteq cut'[p]
         /\ mode[p] # "newturn" /\ at[p] # "none" => cut'[p] # {}
         /\ mode[p] # "newturn" /\ at[p] \in {"tested", "half"} => "sync_update" \in cut'[p]
  <2>1. CASE Leave(p)
    BY <2>1 DEF Leave, IndInv, Moved
  <2>2. CASE Return(p)
    BY <2>2 DEF Return, write
  <2>3. CASE NewTurn(p)
    <3>1. mode[p] \in {"start", "command"} /\ UNCHANGED <<at, rec>>
      BY <2>3 DEF NewTurn, write
    <3>2. cut'[p] = cut[p] \cup (IF at[p] = "none" THEN {}
                                ELSE IF at[p] \in {"tested", "half"} THEN {"sync_update"}
                                ELSE {"Write"})
      BY <2>3 DEF NewTurn, IndInv, Moved
    <3> QED
      BY <3>1, <3>2
  <2> QED
    BY <2>1, <2>2, <2>3
<1>6. Counted(p)'
  BY <1>1, <1>5 DEF CopyInv, Counts, Counted, Playing
<1>7. ASSUME Sound(p)' PROVE Same(view'[p], Replay(Past(p)'))
  <2>1. mode'[p] # "leaving" /\ Sound(p)
    BY <1>1, <1>5, <1>7 DEF Sound, Playing
  <2>2. Past(p)' = Past(p)
    BY <1>1, <1>5, <2>1 DEF Past, Applied
  <2> QED
    BY <1>1, <2>1, <2>2 DEF CopyInv, UpToDate
<1> QED
  BY <1>1, <1>2, <1>3, <1>4, <1>6, <1>7, OutsideCopies

(* Trying and waiting for the lock touch no copy.                           *)
LEMMA WaitCopies ==
  ASSUME CopyInv, NEW p \in Procs, SyncCall(p) \/ TryLock(p) \/ ReadBad(p) \/ ReadEnd(p), IndInv
  PROVE  CopyInv'
<1>1. /\ UNCHANGED <<file, seek, buf, view, mode, at, rec, rest, cut>>
      /\ \A q \in Procs : pc'[q] # "gone" => pc[q] # "gone"
  BY DEF SyncCall, TryLock, ReadBad, ReadEnd, Goto, write, IndInv, Shape
<1>2. Copies'
  BY <1>1 DEF CopyInv, Copies
<1>3. Foreign'
  BY <1>1 DEF CopyInv, Foreign, Live
<1>4. UpToDate'
  BY <1>1 DEF CopyInv, UpToDate, Sound, Playing, Past, Applied
<1>5. Counts'
  BY <1>1 DEF CopyInv, Counts, Counted, Playing
<1> QED
  BY <1>2, <1>3, <1>4, <1>5 DEF CopyInv

LEMMA ReadCopies ==
  ASSUME IndInv, CopyInv, NEW p \in Procs, ReadRecord(p)
  PROVE  CopyInv'
<1>1. /\ pc[p] = "read" /\ seek[p] < Len(file)
      /\ view' = [view EXCEPT ![p] = Apply(@, file[seek[p] + 1])]
      /\ seek' = [seek EXCEPT ![p] = @ + 1]
      /\ UNCHANGED <<file, pc, buf, mode, at, rec, rest, cut>>
  BY DEF ReadRecord, write
<1>2. PICK n \in Nat : n = seek[p] /\ n + 1 \in 1..Len(file)
  BY <1>1, Known
<1>3. PICK r : r = file[n + 1]
  OBVIOUS
<1>4. PICK q \in Procs \ {p} : r \in Sayings[q]
  <2>1. Live(p) /\ seek[p] < n + 1 /\ n + 1 <= Len(file) /\ n + 1 \in Nat
    BY <1>1, <1>2 DEF Live
  <2> QED
    BY <1>3, <2>1 DEF CopyInv, Foreign
<1>5. r \in AllRecords /\ IsText(r)
  BY <1>4, SaidAre
<1>6. /\ DOMAIN view' = Procs /\ view'[p] = Apply(view[p], r)
      /\ \A s \in Procs : s # p => view'[s] = view[s]
  BY <1>1, <1>2, <1>3 DEF CopyInv, Copies
<1>7. seek'[p] = n + 1 /\ \A s \in Procs : s # p => seek'[s] = seek[s]
  BY <1>1, <1>2 DEF IndInv, Shape
<1>8. Copies'
  <2>1. IsView(Apply(view[p], r))
    BY <1>5, Known, ApplyIsView
  <2> QED
    BY <1>1, <1>6, <2>1 DEF CopyInv, Copies
<1>9. Foreign'
  <2>1. \A s \in Procs : seek[s] \in Nat
    BY Known
  <2>2. \A s \in Procs : seek'[s] \in Nat /\ seek[s] <= seek'[s]
    BY <1>2, <1>7, <2>1
  <2> QED
    BY <1>1, <2>1, <2>2 DEF CopyInv, Foreign, Live
<1>10. ASSUME NEW s \in Procs, Sound(s)' PROVE Same(view'[s], Replay(Past(s)'))
  <2>1. Sound(s) /\ Same(view[s], Replay(Past(s)))
    BY <1>1, <1>10 DEF Sound, Playing, CopyInv, UpToDate
  <2>2. CASE s = p
    <3>1. PICK X : X = SubSeq(file, 1, n)
      OBVIOUS
    <3>2. PICK B : B = buf[p]
      OBVIOUS
    <3>0. at[p] = "none" /\ Applied(p) = B
      BY <1>1, <2>1, <2>2, <3>2, Between
    <3>3. /\ X \in Seq(AllRecords) /\ B \in Seq(Sayings[p]) /\ Past(p) = X \o B
          /\ X \o B \in Seq(AllRecords)
      BY <1>2, <3>0, <3>1, <3>2, Known DEF Past
    <3>4. Past(p)' = Append(X, r) \o B
      <4>1. PICK k \in 1..Len(file) : k = n + 1
        BY <1>2
      <4>2. file \in Seq(AllRecords)
        BY Known
      <4>3. SubSeq(file, 1, k) = Append(SubSeq(file, 1, k - 1), file[k])
        BY <4>2, PrefixAppend
      <4>4. k - 1 = n
        BY <4>1
      <4>5. SubSeq(file, 1, n + 1) = Append(X, r)
        BY <1>3, <3>1, <4>1, <4>3, <4>4
      <4> QED
        BY <1>1, <1>7, <3>0, <3>2, <4>5 DEF Past, Applied
    <3>5. PICK x : x = Replay(X \o B)
      OBVIOUS
    <3>6. PICK y : y = Replay(Append(X, r) \o B)
      OBVIOUS
    <3>7. Same(y, Apply(x, r))
      BY <1>4, <3>3, <3>5, <3>6, ReadLate
    <3>8. IsView(x) /\ IsView(view[p])
      BY <3>3, <3>5, Known, ReplayIsView
    <3>9. Same(Apply(view[p], r), Apply(x, r))
      BY <1>5, <2>1, <2>2, <3>3, <3>5, <3>8, SameApplied
    <3>10. Same(Apply(x, r), y)
      BY <3>7 DEF Same
    <3>11. Same(Apply(view[p], r), y)
      BY <3>9, <3>10, SameTwice
    <3> QED
      BY <1>6, <2>2, <3>4, <3>6, <3>11
  <2>3. CASE s # p
    <3>1. Past(s)' = Past(s) /\ view'[s] = view[s]
      BY <1>1, <1>6, <1>7, <2>3 DEF Past, Applied
    <3> QED
      BY <2>1, <3>1
  <2> QED
    BY <2>2, <2>3
<1>11. UpToDate'
  BY <1>10 DEF UpToDate
<1>12. ASSUME NEW s \in Procs PROVE Counted(s)'
  <2>1. CASE s = p
    <3> SUFFICES ASSUME p \in Playing, "sync_update" \notin cut[p]
                 PROVE  at[p] \notin {"tested", "half"} /\ Tables(view'[p])
      BY <1>1, <2>1 DEF Counted, Playing
    <3>1. at[p] \notin {"tested", "half"}
      BY <1>1, Between
    <3>2. PICK v : v = view[p]
      OBVIOUS
    <3>3. Tables(v) /\ IsView(v)
      BY <3>1, <3>2, Known DEF CopyInv, Counts, Counted
    <3>4. Tables(Apply(v, r))
      BY <1>5, <3>3, ApplyTables
    <3> QED
      BY <1>6, <3>1, <3>2, <3>4
  <2>2. CASE s # p
    BY <1>1, <1>6, <2>2 DEF CopyInv, Counts, Counted, Playing
  <2> QED
    BY <2>1, <2>2
<1> QED
  BY <1>8, <1>9, <1>11, <1>12 DEF CopyInv, Counts

LEMMA WholePrefix ==
  ASSUME NEW S, NEW s \in Seq(S)
  PROVE  SubSeq(s, 1, Len(s)) = s /\ s \o <<>> = s
  OBVIOUS

LEMMA AddCopies ==
  ASSUME IndInv, CopyInv, NEW p \in Procs, AddBuffer(p)
  PROVE  CopyInv'
<1>1. /\ pc[p] = "append" /\ pc' = [pc EXCEPT ![p] = "run"]
      /\ file' = file \o buf[p]
      /\ buf' = [buf EXCEPT ![p] = <<>>]
      /\ seek' = [seek EXCEPT ![p] = Len(file')]
      /\ UNCHANGED <<view, at, rec, cut>>
  BY DEF AddBuffer, Rewind, Goto
<1>2. seek[p] = Len(file)
  BY <1>1 DEF IndInv, AtEnd
<1>3. PICK L \in Nat : L = Len(file)
  BY Known
<1>4. PICK m \in Nat : m = Len(buf[p])
  BY Known, ConcatLen
<1>5. PICK B : B = buf[p]
  OBVIOUS
<1>6. file \in Seq(AllRecords) /\ B \in Seq(AllRecords) /\ B \in Seq(Sayings[p])
  BY <1>5, Known
<1>7. /\ file' \in Seq(AllRecords) /\ Len(file') = L + m
      /\ \A i \in 1..(L + m) : file'[i] = IF i <= L THEN file[i] ELSE B[i - L]
  BY <1>1, <1>3, <1>4, <1>5, <1>6, ConcatProperties
<1>8. buf'[p] = <<>> /\ seek'[p] = Len(file')
  BY <1>1 DEF IndInv, Shape
<1>9. \A q \in Procs : q # p => buf'[q] = buf[q] /\ seek'[q] = seek[q] /\ pc'[q] = pc[q]
  BY <1>1 DEF IndInv, Shape
<1>10. /\ \A q \in Procs : q # p => mode'[q] = mode[q] /\ rest'[q] = rest[q]
       /\ mode'[p] \notin {"leaving", "left"} => mode[p] \notin {"leaving", "left"}
       /\ rest'[p] = <<>> \/ rest'[p] = buf[p] \o rest[p]
  BY DEF AddBuffer, Rewind, IndInv, Moved
<1>11. Copies'
  <2>1. <<>> \in Seq(Sayings[p]) /\ buf[p] \o rest[p] \in Seq(Sayings[p])
    <3>1. buf[p] \in Seq(Sayings[p]) /\ rest[p] \in Seq(Sayings[p])
      BY DEF CopyInv, Copies
    <3>2. buf[p] \o rest[p] \in Seq(Sayings[p])
      BY <3>1, ConcatLen
    <3> QED
      BY <3>2, EmptySeq
  <2>2. rest'[p] \in Seq(Sayings[p])
    BY <1>10, <2>1
  <2>3. ASSUME NEW q \in Procs
        PROVE  /\ IsView(view'[q])
               /\ buf'[q] \in Seq(Sayings[q]) /\ rest'[q] \in Seq(Sayings[q])
    <3>1. /\ IsView(view[q])
          /\ buf[q] \in Seq(Sayings[q]) /\ rest[q] \in Seq(Sayings[q])
      BY DEF CopyInv, Copies
    <3>2. CASE q = p
      BY <1>1, <1>8, <2>1, <2>2, <3>1, <3>2
    <3>3. CASE q # p
      BY <1>10, <1>1, <1>9, <3>1, <3>3
    <3> QED
      BY <3>2, <3>3
  <2> QED
    BY <1>1, <2>3 DEF CopyInv, Copies
<1>12. ASSUME NEW q \in Procs, Live(q)', NEW i \in Nat, seek'[q] < i, i <= Len(file')
       PROVE  \E o \in Procs \ {q} : file'[i] \in Sayings[o]
  <2>1. q # p
    BY <1>7, <1>8, <1>12
  <2>2. seek'[q] = seek[q] /\ Live(q) /\ seek[q] \in Nat /\ i \in 1..(L + m)
    BY <1>7, <1>9, <1>12, <2>1, Known DEF Live
  <2>3. CASE i <= L
    <3>1. \E o \in Procs \ {q} : file[i] \in Sayings[o]
      BY <1>3, <1>12, <2>2, <2>3 DEF CopyInv, Foreign
    <3>2. file'[i] = file[i]
      BY <1>7, <2>2, <2>3
    <3> QED
      BY <3>1, <3>2
  <2>4. CASE ~(i <= L)
    <3>1. i - L \in 1..m
      BY <2>2, <2>4
    <3>2. B[i - L] \in Sayings[p]
      BY <1>4, <1>5, <1>6, <3>1
    <3>3. file'[i] \in Sayings[p]
      BY <1>7, <2>2, <2>4, <3>2
    <3> QED
      BY <2>1, <3>3
  <2> QED
    BY <2>3, <2>4
<1>13. Foreign'
  BY <1>12 DEF Foreign
<1>14. \A q \in Procs : q \in Playing' => q \in Playing
  BY <1>10, <1>1, <1>9 DEF Playing
<1>15. ASSUME NEW q \in Procs, Sound(q)' PROVE Past(q)' = Past(q)
  <2>1. CASE q = p
    <3>0. at[p] = "none" /\ Applied(p) = buf[p]
      BY <1>1, <1>15, <1>14, <2>1, Between DEF Sound
    <3>1. PICK F : F = file'
      OBVIOUS
    <3>2. SubSeq(F, 1, Len(F)) = F /\ F \o <<>> = F
      BY <1>7, <3>1, WholePrefix
    <3>3. Past(p)' = F
      BY <1>1, <1>8, <3>0, <3>1, <3>2 DEF Past, Applied
    <3>4. SubSeq(file, 1, Len(file)) = file
      BY <1>6, WholePrefix
    <3>5. Past(p) = file \o buf[p]
      BY <1>2, <3>0, <3>4 DEF Past
    <3> QED
      BY <1>1, <2>1, <3>1, <3>3, <3>5
  <2>2. CASE q # p
    <3>1. SubSeq(file \o B, 1, seek[q]) = SubSeq(file, 1, seek[q])
      BY <1>6, Known, PrefixConcat
    <3>2. Applied(q)' = Applied(q)
      BY <1>1, <1>9, <2>2 DEF Applied
    <3>3. SubSeq(file', 1, seek'[q]) = SubSeq(file, 1, seek[q])
      BY <1>1, <1>5, <1>9, <2>2, <3>1
    <3> QED
      BY <3>2, <3>3 DEF Past
  <2> QED
    BY <2>1, <2>2
<1>16. \A q \in Procs : Sound(q)' => Sound(q)
  BY <1>1, <1>14 DEF Sound
<1>17. UpToDate'
  BY <1>1, <1>15, <1>16 DEF UpToDate, CopyInv
<1>18. Counts'
  BY <1>1, <1>14 DEF CopyInv, Counts, Counted
<1> QED
  BY <1>11, <1>13, <1>17, <1>18 DEF CopyInv

LEMMA CloseCopies ==
  ASSUME IndInv, CopyInv, NEW p \in Procs, Close(p)
  PROVE  CopyInv'
<1>1. /\ file' = file /\ DOMAIN view' = Procs /\ view'[p] = NewView /\ buf'[p] = <<>>
      /\ pc'[p] = "gone" /\ rest'[p] = <<>>
      /\ \A q \in Procs : q # p => view'[q] = view[q] /\ seek'[q] = seek[q] /\ Kept(q)
  BY DEF Close, WriteDone, IndInv, Shape, Moved, Kept, CopyInv, Copies
<1>2. Copies'
  <2>1. <<>> \in Seq(Sayings[p])
    OBVIOUS
  <2> QED
    BY <1>1, <2>1, NewViewIs DEF CopyInv, Copies, Kept
<1>3. \A q \in Procs : Live(q)' => q # p /\ Live(q)
  BY <1>1 DEF Live, Kept
<1>4. \A q \in Procs : q \in Playing' => q # p /\ q \in Playing
  BY <1>1 DEF Playing, Kept
<1>5. Foreign'
  BY <1>1, <1>3 DEF CopyInv, Foreign
<1>6. ASSUME NEW q \in Procs, q # p PROVE Past(q)' = Past(q)
  BY <1>1, <1>6 DEF Past, Applied, Kept
<1>7. UpToDate'
  BY <1>1, <1>6, <1>4 DEF CopyInv, UpToDate, Sound, Kept
<1>8. Counts'
  BY <1>1, <1>4 DEF CopyInv, Counts, Counted, Kept
<1> QED
  BY <1>2, <1>5, <1>7, <1>8 DEF CopyInv

LEMMA NextCopyInv == IndInv /\ CopyInv /\ [Next]_vars => CopyInv'
<1> SUFFICES ASSUME IndInv, CopyInv, [Next]_vars PROVE CopyInv'
  OBVIOUS
<1>1. CASE UNCHANGED vars
  <2>1. UNCHANGED <<file, seek, pc, buf, view, mode, at, rec, rest, cut>>
    BY <1>1 DEF vars, sync, write
  <2> QED
    BY <2>1 DEF CopyInv, Copies, Foreign, UpToDate, Counts, Counted, Sound, Playing, Live, Past,
       Applied
<1>2. ASSUME NEW p \in Procs,
             \/ Write(p) \/ WriteStep(p) \/ Play(p) \/ SyncCall(p) \/ Step(p) \/ Die(p)
      PROVE  CopyInv'
  BY <1>2, WriteCopies, TextCopies, KeepCopies, ApplyCopies, TurnCopies, WaitCopies, ReadCopies,
     AddCopies, CloseCopies DEF WriteStep, Play, Exit, Step, GiveUp, Die
<1> QED
  BY <1>1, <1>2 DEF Next

LEMMA CopiesHold == Spec => []CopyInv
  BY InitCopyInv, NextCopyInv, InvariantHolds, PTL DEF Spec

(* A process whose Writes the alarm has not cut has the turn, the number of *)
(* players, the driver and each field that one process alone writes as the  *)
(* log gives them, up to where it has read and with what it keeps and has   *)
(* applied: no record is applied twice or left out, though the own ones are *)
(* applied when they are written and not in their place (sync.c:298 and     *)
(* 399), and though another that was cut may have put its own in twice.     *)
THEOREM CopyFollowsLog == Spec => []CopyIsLog
<1>1. CopyInv => CopyIsLog
  <2> SUFFICES ASSUME CopyInv, NEW p \in {q \in Playing : cut[q] = {}}
               PROVE  LET r == Replay(SubSeq(file, 1, seek[p]) \o Applied(p))
                      IN  /\ view[p].turn = r.turn /\ view[p].people = r.people
                          /\ view[p].hasdriver = r.hasdriver
                          /\ \A s \in Ships : \A f \in Fields :
                               Owned(s, f) => view[p].val[s][f] = r.val[s][f]
    BY DEF CopyIsLog
  <2>1. PICK r : r = Replay(Past(p))
    OBVIOUS
  <2>2. p \in Procs /\ Sound(p)
    BY DEF Sound, Playing
  <2>3. Same(view[p], r)
    BY <2>1, <2>2 DEF CopyInv, UpToDate
  <2>4. r = Replay(SubSeq(file, 1, seek[p]) \o Applied(p))
    BY <2>1 DEF Past
  <2> QED
    BY <2>3, <2>4 DEF Same
<1> QED
  BY <1>1, CopiesHold, PTL

(* The count of a ship's fouls (grapples) is what its table adds up to,     *)
(* after any records in any order, those the file has twice included,       *)
(* wherever the alarm came but between the test and the two assignments of  *)
(* a command's own foul (sync.c:771-775, 829-836, 857-864, 957-961).        *)
THEOREM CountsAddUp == Spec => []SnagsCounted
<1>1. CopyInv => SnagsCounted
  <2> SUFFICES ASSUME CopyInv, NEW s \in Ships,
                      NEW p \in {q \in Playing : at[q] # "half" /\ "sync_update" \notin cut[q]}
               PROVE  /\ view[p].nfoul[s] = SnagTotal(view[p], "foul", s)
                      /\ view[p].ngrap[s] = SnagTotal(view[p], "grap", s)
    BY DEF SnagsCounted
  <2>1. Tables(view[p])
    BY DEF CopyInv, Counts, Counted, Playing
  <2> QED
    BY <2>1 DEF Tables, IsTable, Entries, SnagTotal
<1> QED
  BY <1>1, CopiesHold, PTL
=============================================================================
