------------------------- MODULE MatchdayResolution --------------------------
(***************************************************************************)
(* What resolving a matchday promises the players, with no database, queue *)
(* or worker in sight: the operator closes the matchday and loads results, *)
(* each penka is resolved exactly once, all its entries together and as    *)
(* the engine says, and the shared matchday ends when every penka is done. *)
(* Resolution implements this with one worker that is not interrupted      *)
(* between its effects and its marker.                                     *)
(***************************************************************************)
EXTENDS GameRules

CONSTANTS Penkas, Entries, Owner, Fixtures, IslandEnabled

VARIABLES status, outcome, pick, entries, label, settled

abstractVars == <<status, outcome, pick, entries, label, settled>>

Init ==
  /\ status \in {"open", "locked"}
  /\ outcome \in [Fixtures -> Outcomes \cup {NoOutcome}]
  /\ pick \in [Entries -> Teams \cup {NoTeam}]
  /\ \A e \in Entries : entries[e] \in Entry
  /\ label = [e \in Entries |-> "none"]
  /\ settled = {}

MatchDocs == {[home |-> f.home, away |-> f.away, outcome |-> outcome[f]] : f \in Fixtures}

Effect(e) == EntryEffect(entries[e], pick[e], MatchDocs, IslandEnabled[Owner[e]])

Close ==
  /\ status = "open"
  /\ status' = "locked"
  /\ UNCHANGED <<outcome, pick, entries, label, settled>>

(* A result may be loaded or corrected until the first penka is resolved.  *)
SetResult ==
  /\ settled = {}
  /\ \E f \in Fixtures, result \in Outcomes : outcome' = [outcome EXCEPT ![f] = result]
  /\ UNCHANGED <<status, pick, entries, label, settled>>

ResolvePenka(p) ==
  /\ Rejection(status, MatchDocs) = "ok"
  /\ p \notin settled
  /\ settled' = settled \cup {p}
  /\ entries' = [e \in Entries |->
       IF Owner[e] = p THEN EntryUpdate(entries[e], Effect(e)) ELSE entries[e]]
  /\ label' = [e \in Entries |->
       IF Owner[e] = p /\ pick[e] # NoTeam THEN PickResultOf(Effect(e)) ELSE label[e]]
  /\ UNCHANGED <<status, outcome, pick>>

Finish ==
  /\ status = "locked"
  /\ settled = Penkas
  /\ status' = "resolved"
  /\ UNCHANGED <<outcome, pick, entries, label, settled>>

Next == Close \/ SetResult \/ (\E p \in Penkas : ResolvePenka(p)) \/ Finish

Spec == Init /\ [][Next]_abstractVars
=============================================================================
