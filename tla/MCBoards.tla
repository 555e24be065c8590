------------------------------- MODULE MCBoards -------------------------------
(* One or two penkas of a league with one or two matchdays.                *)
EXTENDS BoardsProperties, TLC

CONSTANTS p1, p2, r1, r2, boca

OneEachDay == [n \in Matchdays |-> n]
FirstPenka == [r \in Requests |-> p1]
===============================================================================
