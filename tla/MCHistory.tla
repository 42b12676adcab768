----------------------------- MODULE MCHistory -----------------------------
(* An instance of History for TLC: a player polled since before there were *)
(* snapshots, one who is not polled yet, and a placeholder on a team.      *)
EXTENDS History, TLC

CONSTANTS old, new, guest

MCName     == old :> 2 @@ new :> 1 @@ guest :> 3
MCTeamOf   == old :> 1 @@ new :> 2 @@ guest :> 2
MCAccount0 == old :> [cur |-> 1, peak |-> 2] @@ new :> [cur |-> 1, peak |-> 1]
MCMaxGames == old :> 2 @@ new :> 1
MCLive0    == old :> [cur |-> 1, peak |-> 2] @@ new :> NoRow
=============================================================================
