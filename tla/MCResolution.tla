---------------------------- MODULE MCResolution -----------------------------
(* Small instances of Resolution: one match between two teams, one or two  *)
(* penkas with one or two entries, one or two workers.                     *)
EXTENDS ResolutionProperties, TLC

CONSTANTS p1, p2, e1, e2, w1, w2, o1, o2, c1, s1, river, boca

OneFixture == {[home |-> river, away |-> boca]}
Goes(result) == [f \in OneFixture |-> result]
Decided == {Goes("away")}
Missing == {Goes(NoOutcome)}

TwoLives == {[lives |-> 2, points |-> 0, status |-> "alive", usedTeams |-> {}]}
LastLife == {[lives |-> 1, points |-> 0, status |-> "alive", usedTeams |-> {}]}
LastLifeOrIsland ==
  {[lives |-> 1, points |-> 0, status |-> "alive", usedTeams |-> {}],
   [lives |-> 0, points |-> 1, status |-> "island", usedTeams |-> {boca}]}
Afloat == [p \in Penkas |-> TRUE]

(* One entry in each penka, or two in the first. *)
OneEach == [e \in Entries |-> IF e = e1 THEN p1 ELSE p2]
AllInFirst == [e \in Entries |-> p1]

=============================================================================
