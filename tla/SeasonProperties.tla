--------------------------- MODULE SeasonProperties ---------------------------
(***************************************************************************)
(* What a penka promises its players from matchday to matchday, whatever   *)
(* the order in which they join, pick and change their minds while the     *)
(* operator closes, scores and resolves any matchday of the calendar.      *)
(***************************************************************************)
EXTENDS Season, FiniteSets

Wins(e) == {n \in Matchdays : label[e][n] = "won"}

(* A player who joined while a matchday was open meets it with everyone    *)
(* else: the entries are read after the lock, so no join is too late for   *)
(* an open matchday (load.ts), and nobody escapes one.                     *)
JoinedInTimeFaces ==
  \A n \in Matchdays : resolution[n].recorded =>
    \A e \in joined : n \in openAtJoin[e] => faced[e][n] # "not"

(* Between two resolutions the standings are the labels: a point for every *)
(* pick that won, a life for every matchday faced alive that did not       *)
(* (apply.ts transcribes deltas, pick-result.ts labels the same effect).   *)
AccountsBalance ==
  worker.pc # "apply" =>
    \A e \in joined :
      /\ entries[e].points = Cardinality(Wins(e))
      /\ entries[e].lives =
           StartLives - Cardinality({n \in Matchdays : faced[e][n] = "alive"} \ Wins(e))

(* The board's history names a player as eliminated exactly once, and no   *)
(* sooner than the player is out of lives and on the island.               *)
EliminatedOnce ==
  worker.pc \notin {"apply", "mark"} =>
    \A e \in joined :
      LET named == {n \in Matchdays : e \in resolution[n].eliminated}
      IN  /\ Cardinality(named) = (IF entries[e].status = "island" THEN 1 ELSE 0)
          /\ entries[e].status = "island" <=> entries[e].lives = 0

(* A pick is only ever stored for a matchday when every earlier one has    *)
(* been settled for the penka, however long the submission was under way   *)
(* (current-matchday).  The document of a resolution says so, not the      *)
(* status: a close that read it before the flip puts locked over resolved. *)
PicksInOrder ==
  [][\A e \in Players, n \in Matchdays :
       pick'[e][n] # pick[e][n] => \A m \in 1..(n - 1) : resolution[m].recorded]_vars

===============================================================================
