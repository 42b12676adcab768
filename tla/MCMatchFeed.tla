---------------------------- MODULE MCMatchFeed ----------------------------
(***************************************************************************)
(* A duel between players of two tournaments, and a game of one of them    *)
(* that is under way when the worker starts; this one may leave the roster *)
(* it is on, and join the other.                                           *)
(***************************************************************************)
EXTENDS MatchFeed

CONSTANTS duel, solo, ann, bob, cup, league

MCMembers  == [m \in Matches |-> IF m = duel THEN {ann, bob} ELSE {ann}]
MCGame0    == [m \in Matches |-> IF m = duel THEN "none" ELSE "in_progress"]
MCRoster0  == [t \in Tournaments |-> IF t = cup THEN {ann} ELSE {bob}]
MCEditable == [t \in Tournaments |-> {ann}]
=============================================================================
