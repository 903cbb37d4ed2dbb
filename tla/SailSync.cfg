\* The protocol of the sync file: a driver that writes one record and a
\* player, with an alarm, that writes two; two tries for the lock.
CONSTANTS
  Ships <- MCShips
  Fields <- MCFields
  Procs <- MCProcs
  Players <- MCPlayers
  Issues <- MCIssues
  Mortal = {"p1"}
  Timeout = 2
  MaxIssues <- MCMaxIssues
SPECIFICATION Spec
INVARIANTS TypeOK CopyIsLog SnagsCounted Exclusive
PROPERTIES LogSpec SyncReturns
CHECK_DEADLOCK FALSE
