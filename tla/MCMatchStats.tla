---------------------------- MODULE MCMatchStats ----------------------------
(* An instance of MatchStats for TLC: two entrants and a ladder opponent,  *)
(* six games: one before the window and one after it, duels, a game of     *)
(* three, one that is live, one with an outcome and no end, and one of     *)
(* another leaderboard.                                                    *)
EXTENDS MatchStats, TLC

Of(team, outcome, rating, civ) ==
    [team |-> team, outcome |-> outcome, rating |-> rating, civ |-> civ]
Game(sides) == [ours |-> TRUE, done |-> TRUE, sides |-> sides]

Ladder(o, c) == Game(1 :> Of(1, o, IF o = "win" THEN 12 ELSE 10, c) @@
                     3 :> Of(2, IF o = "win" THEN "loss" ELSE "win", 11, 0))

MCUnknown == -1

Duel(o, t) == Game(1 :> Of(1, o, 13, 1) @@ 2 :> Of(t, "loss", 9, 1))
Live       == [ours |-> TRUE, done |-> FALSE,
               sides |-> 1 :> Of(1, None, None, 0) @@ 2 :> Of(2, None, None, 1)]
Three(t)   == Game(1 :> Of(1, "win", 12, 1) @@ 2 :> Of(t, "win", None, 0) @@
                   3 :> Of(2, "loss", 8, 0))

MCPlays ==
    1 :> {Ladder("win", 0)} @@
    2 :> {Ladder("win", 0), Ladder("loss", 0)} @@
    3 :> {Ladder("win", 0), Ladder("loss", 0), Ladder("win", -1)} @@
    4 :> {Duel("win", 2), Duel("loss", 2), Duel("win", None), Duel("win", 1), Live,
          [Duel("win", 2) EXCEPT !.done = FALSE]} @@
    5 :> {Ladder("win", 0), [Ladder("win", 0) EXCEPT !.ours = FALSE], Three(2), Three(None)} @@
    6 :> {Ladder("win", 0)}
=============================================================================
