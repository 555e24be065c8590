------------------------------- MODULE MCSeason -------------------------------
(* Small seasons: a match between two teams on each matchday, one or two   *)
(* players, one submission and one operator request in flight.             *)
EXTENDS SeasonProperties, TLC

CONSTANTS e1, s1, o1, river, boca

ReturnMatches ==
  [n \in Matchdays |-> {IF n % 2 = 1 THEN [home |-> river, away |-> boca]
                        ELSE [home |-> boca, away |-> river]}]
HomeOrDraw == [n \in Matchdays |-> IF n = 1 THEN {"home", "draw"} ELSE {"home"}]
OneEachDay == [n \in Matchdays |-> n]
FirstPlayer == [s \in Submissions |-> e1]
===============================================================================
