------------------------------ MODULE MCFreeze ------------------------------
(***************************************************************************)
(* One player: rated, or not yet on the ladder.                            *)
(***************************************************************************)
EXTENDS Freeze

CONSTANT p

MCRated   == [q \in {p} |-> [cur |-> 2, peak |-> 2]]
MCUnrated == [q \in {p} |-> NoRow]
=============================================================================
