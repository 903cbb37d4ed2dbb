------------------------------ MODULE SailSync ------------------------------
(***************************************************************************)
(* The sync file of one scenario of sail, shared by the driver and the     *)
(* players (sync.c).  Write keeps a record in sync_buf and applies it to   *)
(* the process' own copy; Sync takes the lock of the file, applies what it *)
(* has not read, adds sync_buf, remembers the end as the place to go on    *)
(* reading, and gives the lock back.  Everything between two of these is   *)
(* another process' chance to run, or to die.                              *)
(*                                                                         *)
(* A player is also interrupted by itself: its commands write with the     *)
(* alarm on, and newturn, which the alarm calls, runs Sync and writes too. *)
(* So a command's Write is several steps here, with newturn between any    *)
(* two of them.  All other Writes are one: nothing of the process runs in  *)
(* them but choke, which leaves and never comes back to them.  An alarm    *)
(* inside the call of snprintf, the scan's loop or one assignment is left  *)
(* out.                                                                    *)
(***************************************************************************)
EXTENDS SailRecords, Sequences, FiniteSets

CONSTANTS Procs,      \* the driver and the players
          Players,    \* the processes with an alarm
          Issues,     \* Issues[p]: the records p may write
          Mortal,     \* the processes that may be killed
          Timeout,    \* TIMEOUT: how often Sync tries the lock
          MaxIssues   \* bound: records each process writes in its life

ASSUME SailSyncAssumption ==
  /\ Players \subseteq Procs
  /\ Timeout \in Nat \ {0}
  /\ MaxIssues \in [Procs -> Nat]
  /\ \A p \in Procs : \A r \in Issues[p] : IsRecord(r)
  /\ \A p, q \in Procs : \A r \in Issues[p], x \in Issues[q] :
       r.kind = "TURN" /\ x.kind = "TURN" => p = q  \* the driver's (dr_1.c:439)
  /\ "nobody" \notin Procs

VARIABLES file,    \* the records in the file
          lock,    \* the process that holds the flock, or "nobody"
          pc,      \* where each process is in Sync, or "run"
          tries,   \* n of the loop in Sync
          seek,    \* sync_seek, in records
          buf,     \* sync_buf up to sync_bp, in records
          view,    \* each process' copy of the game
          mode,    \* what of its program each process is in
          at,      \* where its command is in Write, or "none"
          rec,     \* the arguments of that Write
          rest,    \* the text from sync_bp to the next NUL, in records
          issued,  \* records written so far (for MaxIssues)
          cut,     \* history: where the alarm has come into a command's Write
          last     \* history: what each process has added last

sync == <<file, lock, pc, tries, seek>>
write == <<at, rec, rest>>
vars == <<sync, buf, view, mode, write, issued, cut, last>>

PC == {"run", "try", "read", "append", "failed", "gone"}
Modes == {"driver", "start", "alarm", "newturn", "command", "leaving", "left"}
Places == {"text", "spoiled", "kept", "tested", "half"}

NoRecord == [kind |-> "NONE"]

Init == /\ file = <<>>
        /\ lock = "nobody"
        /\ pc = [p \in Procs |-> "run"]
        /\ tries = [p \in Procs |-> 0]
        /\ seek = [p \in Procs |-> 0]
        /\ buf = [p \in Procs |-> <<>>]
        /\ view = [p \in Procs |-> NewView]
        /\ mode = [p \in Procs |-> IF p \in Players THEN "start" ELSE "driver"]
        /\ at = [p \in Procs |-> "none"]
        /\ rec = [p \in Procs |-> NoRecord]
        /\ rest = [p \in Procs |-> <<>>]
        /\ issued = [p \in Procs |-> 0]
        /\ cut = [p \in Procs |-> {}]
        /\ last = [p \in Procs |-> <<>>]

Goto(p, from, to) == pc[p] = from /\ pc' = [pc EXCEPT ![p] = to]

-----------------------------------------------------------------------------
(* Writing *)

(* Where each record is written: initialize, newturn before its Sync and    *)
(* after it, the commands of play, leave.                                   *)
May(m, r) ==
  \/ m = "driver"
  \/ m = "start" /\ r.kind \in {"BEGIN", "SIGNAL"}
  \/ m = "start" /\ r.kind = "ASSIGN" /\ DOMAIN r.vals = {"captain"}
  \/ m = "alarm" /\ r.kind = "DDEAD"
  \/ m = "newturn" /\ r.kind = "ALIVE"
  \/ m = "newturn" /\ r.kind = "ASSIGN" /\ DOMAIN r.vals = {"FS"}
  \/ m = "command" /\ r.kind \notin {"BEGIN", "END", "TURN", "WIND", "ALIVE", "DDEAD"}
  \/ m = "leaving" /\ r.kind \in {"SIGNAL", "END"}

(* A record p is to write next. *)
Says(p, r) == /\ pc[p] = "run" /\ issued[p] < MaxIssues[p]
              /\ r \in Issues[p] /\ May(mode[p], r)
              /\ issued' = [issued EXCEPT ![p] = @ + 1]

(* Write and Writestr where they are not interrupted.  In newturn they may  *)
(* write over the text of the Write that newturn has interrupted.           *)
Write(p) ==
  /\ mode[p] # "command" /\ (mode[p] = "newturn" => view[p].hasdriver)
  /\ \E r \in Issues[p] :
       /\ Says(p, r)
       /\ buf' = [buf EXCEPT ![p] = Append(@, r)]
       /\ view' = [view EXCEPT ![p] = Apply(@, r)]
  /\ rest' = [rest EXCEPT ![p] = <<>>]
  /\ at' = [at EXCEPT ![p] = IF @ = "text" THEN "spoiled" ELSE @]
  /\ UNCHANGED <<sync, mode, rec, cut, last>>

(* A command's Write: snprintf puts the text behind what is kept, ...       *)
WriteText(p) ==
  /\ mode[p] = "command" /\ at[p] = "none"
  /\ \E r \in Issues[p] :
       /\ Says(p, r)
       /\ rec' = [rec EXCEPT ![p] = r]
       /\ rest' = [rest EXCEPT ![p] = <<r>>]
  /\ at' = [at EXCEPT ![p] = "text"]
  /\ UNCHANGED <<sync, buf, view, mode, cut, last>>

WriteDone(p) == /\ at' = [at EXCEPT ![p] = "none"]
                /\ rec' = [rec EXCEPT ![p] = NoRecord]

InWrite(p, place) == mode[p] = "command" /\ pc[p] = "run" /\ at[p] = place

(* ... the scan moves sync_bp over the text it finds from there to the next *)
(* NUL: after a Sync in between, that is from the start of sync_buf, with   *)
(* what is in the file already, ...                                         *)
WriteKeep(p) ==
  /\ InWrite(p, "text") \/ InWrite(p, "spoiled")
  /\ buf' = [buf EXCEPT ![p] = @ \o rest[p]]
  /\ rest' = [rest EXCEPT ![p] = <<>>]
  /\ at' = [at EXCEPT ![p] = "kept"]
  /\ UNCHANGED <<sync, view, mode, rec, issued, cut, last>>

(* ... or, if newturn has written and the program has sync_bp of before in  *)
(* a register, over newturn's text, its NUL and pieces of the old text, ... *)
WriteKeepOld(p) ==
  /\ InWrite(p, "spoiled")
  /\ buf' = [buf EXCEPT ![p] = Append(@ \o rest[p], Garbled)]
  /\ rest' = [rest EXCEPT ![p] = <<>>]
  /\ at' = [at EXCEPT ![p] = "kept"]
  /\ UNCHANGED <<sync, view, mode, rec, issued, cut, last>>

(* ... and sync_update applies the record, a foul or grapple (or its end)   *)
(* with a test and two assignments.                                         *)
WriteApply(p) ==
  /\ InWrite(p, "kept")
  /\ IF IsSnag(rec[p])
     THEN UNCHANGED view
     ELSE view' = [view EXCEPT ![p] = Apply(@, rec[p])]
  /\ IF IsSnag(rec[p]) /\ Heeded(view[p], rec[p])
     THEN at' = [at EXCEPT ![p] = "tested"] /\ UNCHANGED rec
     ELSE WriteDone(p)
  /\ UNCHANGED <<sync, buf, mode, rest, issued, cut, last>>

WriteFirstHalf(p) ==
  /\ InWrite(p, "tested")
  /\ view' = [view EXCEPT ![p] = FirstHalf(@, rec[p])]
  /\ at' = [at EXCEPT ![p] = "half"]
  /\ UNCHANGED <<sync, buf, mode, rec, rest, issued, cut, last>>

WriteSecondHalf(p) ==
  /\ InWrite(p, "half")
  /\ view' = [view EXCEPT ![p] = SecondHalf(@, rec[p])]
  /\ WriteDone(p)
  /\ UNCHANGED <<sync, buf, mode, rest, issued, cut, last>>

WriteStep(p) == \/ WriteText(p) \/ WriteKeep(p) \/ WriteKeepOld(p)
                \/ WriteApply(p) \/ WriteFirstHalf(p) \/ WriteSecondHalf(p)

-----------------------------------------------------------------------------
(* newturn and leave *)

(* initialize calls newturn, and then the alarm does, wherever the player's *)
(* command is.                                                              *)
NewTurn(p) ==
  /\ pc[p] = "run" /\ mode[p] \in {"start", "command"}
  /\ mode' = [mode EXCEPT ![p] = "alarm"]
  /\ cut' = [cut EXCEPT ![p] = @ \cup (IF at[p] = "none" THEN {}
                                       ELSE IF at[p] \in {"tested", "half"} THEN {"sync_update"}
                                       ELSE {"Write"})]
  /\ UNCHANGED <<sync, buf, view, write, issued, last>>

Return(p) ==
  /\ pc[p] = "run" /\ mode[p] = "newturn" /\ view[p].hasdriver
  /\ mode' = [mode EXCEPT ![p] = "command"]
  /\ UNCHANGED <<sync, buf, view, write, issued, cut, last>>

(* leave, from a command, from newturn or from choke anywhere: whatever was *)
(* interrupted is never resumed, and the copy is of no more use.            *)
Leave(p) ==
  /\ pc[p] = "run" /\ mode[p] \in {"start", "alarm", "newturn", "command"}
  /\ mode' = [mode EXCEPT ![p] = "leaving"]
  /\ WriteDone(p)
  /\ rest' = [rest EXCEPT ![p] = <<>>]
  /\ cut' = [cut EXCEPT ![p] = {}]
  /\ UNCHANGED <<sync, buf, view, issued, last>>

-----------------------------------------------------------------------------
(* Sync *)

SyncCall(p) ==
  /\ mode[p] \in {"driver", "start", "alarm", "leaving"}
  /\ Goto(p, "run", "try")
  /\ tries' = [tries EXCEPT ![p] = Timeout]
  /\ UNCHANGED <<file, lock, seek, buf, view, mode, write, issued, cut, last>>

(* Variants of TryLock: one round too many, and a loop that never counts. *)
TryLockOnceMore(p) ==
  /\ pc[p] = "try"
  /\ LET n == tries[p] - 1
         free == lock = "nobody"
     IN  /\ lock' = IF free THEN p ELSE lock
         /\ pc' = [pc EXCEPT ![p] = IF n < 0 THEN "failed" ELSE IF free THEN "read" ELSE "try"]
         /\ tries' = [tries EXCEPT ![p] = IF free THEN 0 ELSE n]
  /\ UNCHANGED <<file, seek, buf, view, mode, write, issued, cut, last>>

TryLockForever(p) ==
  /\ lock' = IF lock = "nobody" THEN p ELSE lock
  /\ Goto(p, "try", IF lock = "nobody" THEN "read" ELSE "try")
  /\ UNCHANGED <<file, tries, seek, buf, view, mode, write, issued, cut, last>>

(* One round of the loop.  A process that gets the lock in the last round   *)
(* has n = 0, which the test after the loop takes for a timeout: it fails   *)
(* with the lock in its hands.                                              *)
TryLock(p) ==
  /\ pc[p] = "try"
  /\ LET n == tries[p] - 1
         free == lock = "nobody"
     IN  /\ lock' = IF free THEN p ELSE lock
         /\ pc' = [pc EXCEPT ![p] = IF n = 0 THEN "failed" ELSE IF free THEN "read" ELSE "try"]
         /\ tries' = [tries EXCEPT ![p] = IF free THEN 0 ELSE n]
  /\ UNCHANGED <<file, seek, buf, view, mode, write, issued, cut, last>>

ReadRecord(p) ==
  /\ pc[p] = "read" /\ seek[p] < Len(file) /\ file[seek[p] + 1] # Garbled
  /\ view' = [view EXCEPT ![p] = Apply(@, file[seek[p] + 1])]
  /\ seek' = [seek EXCEPT ![p] = @ + 1]
  /\ UNCHANGED <<file, lock, pc, tries, buf, mode, write, issued, cut, last>>

(* What is no record ends Sync with an error, and nothing is added. *)
ReadBad(p) ==
  /\ seek[p] < Len(file) /\ file[seek[p] + 1] = Garbled
  /\ Goto(p, "read", "failed")
  /\ lock' = "nobody"
  /\ UNCHANGED <<file, tries, seek, buf, view, mode, write, issued, cut, last>>

(* Variant of ReadEnd: the buffer goes out before the rest is read. *)
ReadEndEarly(p) ==
  /\ Goto(p, "read", "append")
  /\ UNCHANGED <<file, lock, tries, seek, buf, view, mode, write, issued, cut, last>>

ReadEnd(p) ==
  /\ seek[p] = Len(file)
  /\ Goto(p, "read", "append")
  /\ UNCHANGED <<file, lock, tries, seek, buf, view, mode, write, issued, cut, last>>

(* sync_bp goes back to the start of sync_buf, whose text stays: a Write    *)
(* that was interrupted before its scan finds it there.                     *)
Rewind(p) ==
  /\ buf' = [buf EXCEPT ![p] = <<>>]
  /\ rest' = [rest EXCEPT ![p] = IF at[p] \in {"text", "spoiled"} THEN buf[p] \o @ ELSE <<>>]
  /\ last' = [last EXCEPT ![p] = IF buf[p] = <<>> THEN @ ELSE buf[p]]
  /\ mode' = [mode EXCEPT ![p] = CASE @ = "alarm"   -> "newturn"
                                   [] @ = "leaving" -> "left"
                                   [] OTHER         -> @]

(* Variant of AddBuffer: the place to go on reading is left where it was. *)
AddBufferOldSeek(p) ==
  /\ Goto(p, "append", "run")
  /\ file' = file \o buf[p]
  /\ lock' = "nobody"
  /\ Rewind(p)
  /\ UNCHANGED <<seek, tries, view, at, rec, issued, cut>>

(* The buffer goes to the end of the file, the end is remembered, the lock  *)
(* is given back.  (To die between these is to die after them: the lock is  *)
(* free and the records are in the file.)                                   *)
AddBuffer(p) ==
  /\ Goto(p, "append", "run")
  /\ file' = file \o buf[p]
  /\ seek' = [seek EXCEPT ![p] = Len(file')]
  /\ lock' = "nobody"
  /\ Rewind(p)
  /\ UNCHANGED <<tries, view, at, rec, issued, cut>>

-----------------------------------------------------------------------------
(* The end of a process *)

(* The file of a process that ends is closed, and with it goes its lock;   *)
(* its memory is gone.                                                      *)
Close(p) ==
  /\ pc' = [pc EXCEPT ![p] = "gone"]
  /\ lock' = IF lock = p THEN "nobody" ELSE lock
  /\ buf' = [buf EXCEPT ![p] = <<>>]
  /\ tries' = [tries EXCEPT ![p] = 0]
  /\ seek' = [seek EXCEPT ![p] = 0]
  /\ view' = [view EXCEPT ![p] = NewView]
  /\ WriteDone(p)
  /\ rest' = [rest EXCEPT ![p] = <<>>]
  /\ cut' = [cut EXCEPT ![p] = {}]
  /\ last' = [last EXCEPT ![p] = <<>>]
  /\ mode' = [mode EXCEPT ![p] = "left"]
  /\ UNCHANGED <<file, issued>>

(* Variant of GiveUp: the caller goes on. *)
GoOn(p) ==
  /\ Goto(p, "failed", "run")
  /\ UNCHANGED <<file, lock, tries, seek, buf, view, mode, write, issued, cut, last>>

(* Every caller of Sync that looks at its result ends when it is -1, and so *)
(* does leave, which does not look.                                         *)
GiveUp(p) == pc[p] = "failed" /\ Close(p)

(* leave ends the process, without a Sync if it has no ship yet. *)
Exit(p) == pc[p] = "run" /\ mode[p] \in {"leaving", "left"} /\ Close(p)

(* A process is killed, anywhere. *)
Die(p) == p \in Mortal /\ pc[p] \notin {"failed", "gone"} /\ Close(p)

-----------------------------------------------------------------------------
Step(p) == \/ TryLock(p) \/ ReadRecord(p) \/ ReadBad(p)
           \/ ReadEnd(p) \/ AddBuffer(p) \/ GiveUp(p)

Play(p) == NewTurn(p) \/ Return(p) \/ Leave(p) \/ Exit(p)

Next == \E p \in Procs : \/ Write(p) \/ WriteStep(p) \/ Play(p)
                         \/ SyncCall(p) \/ Step(p) \/ Die(p)

(* Sync does not wait for anyone for ever: the loop counts, and the rest of *)
(* it is straight code.  Nobody has to write, to call Sync or to die.       *)
Fairness == \A p \in Procs : WF_vars(Step(p))

Spec == Init /\ [][Next]_vars /\ Fairness
-----------------------------------------------------------------------------
(***************************************************************************)
(* Properties                                                              *)
(***************************************************************************)
(* What p may add to the file: its records, and text that is none if it is  *)
(* interrupted.                                                             *)
Sayings == [p \in Procs |-> IF p \in Players THEN Issues[p] \cup {Garbled} ELSE Issues[p]]
AllRecords == UNION {Sayings[p] : p \in Procs}

(* Type invariant of the protocol's variables. *)
TypeOK ==
  /\ file \in Seq(AllRecords)
  /\ lock \in Procs \cup {"nobody"}
  /\ pc \in [Procs -> PC]
  /\ tries \in [Procs -> 0..Timeout]
  /\ seek \in [Procs -> Nat]
  /\ buf \in [Procs -> Seq(AllRecords)]
  /\ mode \in [Procs -> Modes]
  /\ at \in [Procs -> Places \cup {"none"}]
  /\ rest \in [Procs -> Seq(AllRecords)]
  /\ issued \in [Procs -> Nat]
  /\ cut \in [Procs -> SUBSET {"Write", "sync_update"}]
  /\ last \in [Procs -> Seq(AllRecords)]

(* What Sync (sync.c:318) is for: with its locks, offsets and retries,      *)
(* whoever dies on the way and wherever newturn's Sync comes into a Write,  *)
(* the file is one log to which a process adds its records only after       *)
(* everything it has read; the driver adds each record once, and a player   *)
(* repeats at most what it said last, as a whole.                           *)
Log == INSTANCE SailLog WITH Records <- Sayings, Hasty <- Players, log <- file,
                             seen <- seek, pending <- buf, last <- last
LogSpec == Log!Spec

(* The copy of a process that applies the given records one after another. *)
Replay(recs) ==
  LET v[i \in 0..Len(recs)] == IF i = 0 THEN NewView ELSE Apply(v[i - 1], recs[i])
  IN  v[Len(recs)]

Sets(r, s, f) == \/ r.kind = "ASSIGN" /\ r.ship = s /\ f \in DOMAIN r.vals
                 \/ r.kind = "ASSIGN" /\ r.ship = s /\ f = "dir" /\ Gone(r.vals)
                 \/ r.kind = "BEGIN" /\ r.ship = s /\ f = "captain"
                 \/ r.kind = "END" /\ r.ship = s /\ f \in {"captain", "points"}

AtMostOne(S) == \A p, q \in S : p = q
Owned(s, f) == AtMostOne({p \in Procs : \E r \in Issues[p] : Sets(r, s, f)})

(* The records p has kept and applied: in Write, the last of those it keeps *)
(* is not applied yet.                                                      *)
Applied(p) == IF at[p] \in {"kept", "tested", "half"}
              THEN SubSeq(buf[p], 1, Len(buf[p]) - 1) ELSE buf[p]

(* The processes that still have a use for their copy.                      *)
Playing == {p \in Procs : pc[p] # "gone" /\ mode[p] \notin {"leaving", "left"}}

(* A process applies its records when it writes them (Write, sync.c:298)    *)
(* and the others' when it reads them (Sync, sync.c:399), so its copy is    *)
(* made in another order than the file's.  For what only one process writes *)
(* and for the counts that makes no difference: the copy of a process whose *)
(* Writes the alarm has never cut is what the log up to where it has read,  *)
(* followed by what it keeps, would give - the records that others, who     *)
(* were cut, have put there twice included.  (hasdriver is here what the    *)
(* records say of it; what a parent hears by a signal is SailFleet's.)      *)
CopyIsLog ==
  \A p \in {q \in Playing : cut[q] = {}} :
    LET r == Replay(SubSeq(file, 1, seek[p]) \o Applied(p))
    IN  /\ view[p].turn = r.turn
        /\ view[p].people = r.people
        /\ view[p].hasdriver = r.hasdriver
        /\ \A s \in Ships : \A f \in Fields :
             Owned(s, f) => view[p].val[s][f] = r.val[s][f]

(* The number of fouls (grapples) of a ship is the sum over the ships it is *)
(* fouled with, whatever the order in which a process learns of them, which *)
(* of them it learns of twice, and where the alarm comes - but between the  *)
(* test and the two assignments of recv_foul, recv_unfoul, recv_ungrap and  *)
(* recv_grap (sync.c:771-775, 829-836, 857-864, 957-961) in a command's     *)
(* own record, after which the two never have to meet again.  Cleansnag     *)
(* (assorted.c:252) and the commands that cut fouls loop over one and test  *)
(* the other.  (The total is the number of pairs of a ship and one of its   *)
(* fouls.)                                                                  *)
SnagTotal(v, snag, s) ==
  Cardinality(UNION {{t} \X (1..v[snag][s][t].sn_count) : t \in Ships})

SnagsCounted ==
  \A p \in {q \in Playing : at[q] # "half" /\ "sync_update" \notin cut[q]} :
    \A s \in Ships :
      /\ view[p].nfoul[s] = SnagTotal(view[p], "foul", s)
      /\ view[p].ngrap[s] = SnagTotal(view[p], "grap", s)

(* Nobody waits for the lock for ever, or keeps it: a process is again and  *)
(* again outside of Sync (sync.c:318), with its records in the file or      *)
(* ended by the error.                                                      *)
SyncReturns == \A p \in Procs : []<>(pc[p] \in {"run", "gone"})

(* Exclusive access (sail.6:115): a process reads and writes the file only  *)
(* while it holds the lock, and the lock is never left with a process that  *)
(* is neither in Sync nor about to end (sync.c:353 returns with it).        *)
Exclusive ==
  \A p \in Procs : /\ pc[p] \in {"read", "append"} => lock = p
                   /\ lock = p => pc[p] \in {"read", "append", "failed"}
=============================================================================
