------------------------------ MODULE MCFounding ------------------------------
(* Two creators on a fresh league, and somebody who joins.                 *)
EXTENDS FoundingProperties, TLC

CONSTANTS c1, c2, ana, k1, k2
===============================================================================
