----------------------------- MODULE MCMatchLog -----------------------------
(* An instance of MatchLog for TLC: a match in the histories of two        *)
(* players, of a floored type or of one that only upstream knows.          *)
EXTENDS MatchLog, TLC

CONSTANTS type1, type2, board1, board2

MCFloor    == type1 :> board1
MCPayloads == {<<>>, type1 :> board2 @@ type2 :> board2}
=============================================================================
