----------------------------- MODULE SailSyncMC -----------------------------
(* Two ships, a driver that grapples them, and a player that writes two      *)
(* records: begins, moves, grapples or ungrapples, or writes in newturn over *)
(* what it was writing.  (Whose grapples are real is not this module's       *)
(* concern.)                                                                 *)
EXTENDS SailSync

MCProcs == {"driver", "p1"}
MCPlayers == {"p1"}
MCShips == {"s1", "s2"}
MCFields == {"dir", "captain", "movebuf"}
MCIssues ==
  [p \in MCProcs |->
     CASE p = "driver" -> {Grap("s1", "s2")}
       [] p = "p1" -> {Begin("s1"), Assign("s1", [movebuf |-> 1]), Grap("s1", "s2"),
                       Ungrap("s1", "s2", TRUE), Alive}]
MCMaxIssues == [p \in MCProcs |-> IF p = "driver" THEN 1 ELSE 2]
=============================================================================
