----------------------------- MODULE MCReadPath -----------------------------
(* An instance of ReadPath for TLC: two requests at a time.  The two       *)
(* routes share nothing but the table, so a behaviour asks for one.        *)
EXTENDS ReadPath, TLC

MCMixes   == {{"stats"}, {"owners"}}
Symmetric == Permutations(Requests)
=============================================================================
