------------------------------ MODULE MCNudges ------------------------------
(***************************************************************************)
(* A deployment without stream credentials: player_stats emits standings   *)
(* unscoped, live_matches emits live for the one tournament there is, to a *)
(* viewer of one api instance.                                             *)
(***************************************************************************)
EXTENDS Nudges

CONSTANTS standings, live, player_stats, live_matches, a

MCEventOf  == [k \in Tasks |-> IF k = player_stats THEN standings ELSE live]
MCScopesOf == [k \in Tasks |-> IF k = player_stats THEN {{}} ELSE {{a}}]
MCWatch    == [c \in Clients |-> a]
=============================================================================
