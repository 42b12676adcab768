---------------------------- MODULE MCNudgesLive ----------------------------
(***************************************************************************)
(* The live event as production runs it, for a viewer of tournament a:     *)
(* twitch_live emits unscoped when a stream goes on or off air, and        *)
(* live_matches emits each tick for the tournaments of the players in a    *)
(* game, here those of tournament b.                                       *)
(***************************************************************************)
EXTENDS Nudges

CONSTANTS live, twitch_live, live_matches, a, b

MCEventOf  == [k \in Tasks |-> live]
MCScopesOf == [k \in Tasks |-> IF k = twitch_live THEN {{}} ELSE {{b}}]
MCWatch    == [c \in Clients |-> a]

(* The same with ticks that do not overlap, so that versions stay in order. *)
OneOpen    == \A k1, k2 \in Tasks : tx[k1].phase # "idle" /\ tx[k2].phase # "idle" => k1 = k2
SerialSpec == Init /\ [][Next /\ OneOpen']_vars
=============================================================================
