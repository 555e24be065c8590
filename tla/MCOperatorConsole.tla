-------------------------- MODULE MCOperatorConsole --------------------------
EXTENDS OperatorConsoleProperties

CONSTANTS liga, copa

(* A league about to start, and one that is over. *)
OneToPlay ==
  {[m \in Matchdays |-> IF m[1] = copa THEN "resolved" ELSE "open"]}
===============================================================================
