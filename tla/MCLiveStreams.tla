--------------------------- MODULE MCLiveStreams ---------------------------
(* An instance of LiveStreams for TLC: a roster row with a Twitch channel, *)
(* its tournament with a YouTube handle.                                   *)
EXTENDS LiveStreams, TLC

CONSTANTS row, tournament, twitch, handle

MCTournamentOf == row :> tournament
MCLinks0       == row :> {twitch} @@ tournament :> {handle}
=============================================================================
