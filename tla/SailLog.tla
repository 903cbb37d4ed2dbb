------------------------------ MODULE SailLog ------------------------------
(***************************************************************************)
(* What the sync file of sail promises, said without locks, offsets and    *)
(* retries: one log of records that every process reads from the first     *)
(* record to the last, in one order, and to whose end a process adds the   *)
(* records it has kept for itself only when it has read everything that    *)
(* stands before them.  A hasty process, one that can be interrupted while *)
(* it writes a record, may lose that record (which is to do nothing here), *)
(* or say again what it said last.                                         *)
(***************************************************************************)
EXTENDS Naturals, Sequences

CONSTANTS Procs,    \* the driver and the players of one scenario
          Records,  \* Records[p]: what p may write
          Hasty     \* the processes that can be interrupted

VARIABLES log,      \* the records in the file
          seen,     \* how many of them each process has applied
          pending,  \* the records each process has written but not yet added
          last      \* the records each process has added last

logVars == <<log, seen, pending, last>>

Init == /\ log = <<>>
        /\ seen = [p \in Procs |-> 0]
        /\ pending = [p \in Procs |-> <<>>]
        /\ last = [p \in Procs |-> <<>>]

(* A process writes a record and keeps it for the others. *)
Issue(p) ==
  /\ \E r \in Records[p] : pending' = [pending EXCEPT ![p] = Append(@, r)]
  /\ UNCHANGED <<log, seen, last>>

(* A hasty process, with nothing left to add, repeats what it has added     *)
(* last, all of it and in its order, before the record it writes.           *)
Repeat(p) ==
  /\ p \in Hasty /\ pending[p] = <<>>
  /\ \/ pending' = [pending EXCEPT ![p] = last[p]]
     \/ \E r \in Records[p] : pending' = [pending EXCEPT ![p] = Append(last[p], r)]
  /\ UNCHANGED <<log, seen, last>>

(* A process applies the next record of the log. *)
Learn(p) ==
  /\ seen[p] < Len(log)
  /\ seen' = [seen EXCEPT ![p] = @ + 1]
  /\ UNCHANGED <<log, pending, last>>

(* A process that has read the whole log adds what it kept: nobody's record *)
(* comes between the last one it read and its own.                          *)
Publish(p) ==
  /\ seen[p] = Len(log)
  /\ log' = log \o pending[p]
  /\ seen' = [seen EXCEPT ![p] = Len(log')]
  /\ last' = [last EXCEPT ![p] = IF pending[p] = <<>> THEN @ ELSE pending[p]]
  /\ pending' = [pending EXCEPT ![p] = <<>>]

(* A process ends; what it had not added is lost, and whoever comes in its  *)
(* place has read nothing.                                                  *)
End(p) ==
  /\ pending' = [pending EXCEPT ![p] = <<>>]
  /\ last' = [last EXCEPT ![p] = <<>>]
  /\ seen' = [seen EXCEPT ![p] = 0]
  /\ UNCHANGED log

Next == \E p \in Procs : Issue(p) \/ Repeat(p) \/ Learn(p) \/ Publish(p) \/ End(p)

Spec == Init /\ [][Next]_logVars
=============================================================================
