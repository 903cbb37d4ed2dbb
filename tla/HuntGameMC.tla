----------------------------- MODULE HuntGameMC -----------------------------
(* Two slots and three connections, the third a return of the first's player. *)
EXTENDS HuntGame, TLC
CONSTANTS c1, c2, c3, ann, bob
MCWho == (c1 :> ann) @@ (c2 :> bob) @@ (c3 :> ann)
MCTeam == (ann :> " ") @@ (bob :> " ")
=============================================================================
