------------------------------ MODULE GameRules ------------------------------
(***************************************************************************)
(* The pure rules of the game, packages/game-engine/src.  Every other      *)
(* component asks these operators instead of deciding anything about       *)
(* survival itself, as the code does.                                      *)
(*                                                                         *)
(* An entry is [lives, points, status, usedTeams], a match is [home, away, *)
(* outcome].  NoTeam stands for "no pick": it never plays, and the engine  *)
(* treats a missing pick and a pick for a team that does not play alike.   *)
(* A team plays at most one match of a matchday (the schedule guarantees   *)
(* it), so "the first match of the team" is "the match of the team".       *)
(***************************************************************************)
EXTENDS Integers

CONSTANTS Teams, NoTeam

ASSUME NoTeamAssumption == NoTeam \notin Teams

Statuses == {"open", "locked", "resolved"}
NoOutcome == "none"
Outcomes == {"home", "draw", "away"}
Results == {"none", "won", "lost", "void"}

Entry == [lives: Nat, points: Nat, status: {"alive", "island"}, usedTeams: SUBSET Teams]

Match == [home: Teams, away: Teams, outcome: Outcomes \cup {NoOutcome}]

Plays(match, team) == team \in {match.home, match.away}

IsPlaying(matches, team) == \E match \in matches : Plays(match, team)

IsWin(match, team) ==
  \/ match.outcome = "home" /\ match.home = team
  \/ match.outcome = "away" /\ match.away = team

DidTeamWin(matches, team) == \E match \in matches : Plays(match, team) /\ IsWin(match, team)

-----------------------------------------------------------------------------
(* The effect of one matchday on one entry. *)

(* Mutation: an island entry pays for a lost pick too. *)
IslandEffectCostsALife(entry, pick, matches, islandEnabled) ==
  [livesDelta |-> -1, pointsDelta |-> 0, newLives |-> entry.lives - 1,
   newStatus |-> "island", teamConsumed |-> pick]

IslandEffect(entry, pick, matches, islandEnabled) ==
  LET counts == islandEnabled /\ IsPlaying(matches, pick)
  IN  [livesDelta |-> 0,
       pointsDelta |-> IF counts /\ DidTeamWin(matches, pick) THEN 1 ELSE 0,
       newLives |-> entry.lives,
       newStatus |-> "island",
       teamConsumed |-> IF counts THEN pick ELSE NoTeam]

AliveLossEffect(entry, consumed) ==
  LET delta == IF entry.lives > 0 THEN -1 ELSE 0
  IN  [livesDelta |-> delta,
       pointsDelta |-> 0,
       newLives |-> entry.lives + delta,
       newStatus |-> IF entry.lives + delta = 0 THEN "island" ELSE "alive",
       teamConsumed |-> consumed]

AliveWinEffect(entry, pick) ==
  [livesDelta |-> 0, pointsDelta |-> 1, newLives |-> entry.lives,
   newStatus |-> "alive", teamConsumed |-> pick]

AliveEffect(entry, pick, matches) ==
  IF DidTeamWin(matches, pick)
  THEN AliveWinEffect(entry, pick)
  ELSE AliveLossEffect(entry, IF IsPlaying(matches, pick) THEN pick ELSE NoTeam)

EntryEffect(entry, pick, matches, islandEnabled) ==
  IF entry.status = "island"
  THEN IslandEffect(entry, pick, matches, islandEnabled)
  ELSE AliveEffect(entry, pick, matches)

(* Mutation: an open matchday is resolved as soon as it has its results.   *)
RejectionOpenAllowed(status, matches) ==
  CASE status = "resolved" -> "already_resolved"
    [] OTHER -> IF \E match \in matches : match.outcome = NoOutcome
                THEN "results_missing" ELSE "ok"

(* Why resolveMatchday refuses, "ok" when it does not: asked by the back   *)
(* office before it queues anything and again by the worker.               *)
Rejection(status, matches) ==
  CASE status = "resolved" -> "already_resolved"
    [] status = "open" -> "matchday_not_locked"
    [] OTHER -> IF \E match \in matches : match.outcome = NoOutcome
                THEN "results_missing" ELSE "ok"

(* Mutation: whoever ends on the island is eliminated, again and again. *)
IsEliminatedOnIsland(entry, effect) == effect.newStatus = "island"

IsEliminated(entry, effect) ==
  entry.status = "alive" /\ effect.newStatus = "island" /\ effect.livesDelta = -1

PickResultOf(effect) ==
  IF effect.pointsDelta = 1 THEN "won"
  ELSE IF effect.livesDelta = -1 \/ effect.teamConsumed # NoTeam THEN "lost" ELSE "void"

(* Mutation: lives are decremented instead of set to the engine's value. *)
EntryUpdateDecrements(entry, effect) ==
  [lives |-> entry.lives + effect.livesDelta,
   points |-> entry.points + effect.pointsDelta,
   status |-> effect.newStatus,
   usedTeams |-> entry.usedTeams \cup ({effect.teamConsumed} \ {NoTeam})]

(* What one entry update writes: lives and status are set to the effect's  *)
(* absolute values, points are incremented, the team joins a set.          *)
EntryUpdate(entry, effect) ==
  [lives |-> effect.newLives,
   points |-> entry.points + effect.pointsDelta,
   status |-> effect.newStatus,
   usedTeams |-> entry.usedTeams \cup ({effect.teamConsumed} \ {NoTeam})]

-----------------------------------------------------------------------------
(* May this entry pick this team now?  "ok", or the first refusal in the   *)
(* order the code asks.  Times are instants; the malformed-timestamp       *)
(* refusal is left out because every stored lockAt is a date.              *)
ValidatePick(entry, status, lockAt, now, matches, team, islandEnabled) ==
  IF status # "open" \/ now >= lockAt THEN "matchday_locked"
  ELSE IF entry.status = "island" /\ ~islandEnabled THEN "on_island"
  ELSE IF ~IsPlaying(matches, team) THEN "team_not_playing"
  ELSE IF team \in entry.usedTeams THEN "team_already_used"
  ELSE "ok"

IsMatchdayLocked(status, lockAt, now) == status # "open" \/ now >= lockAt

(* Mutation: the lowest matchday still open, skipping one that is closed. *)
CurrentMatchdayOpen(statusOf) ==
  LET open == {n \in DOMAIN statusOf : statusOf[n] = "open"}
  IN  IF open # {}
      THEN CHOOSE n \in open : \A m \in open : n <= m
      ELSE CHOOSE n \in DOMAIN statusOf : \A m \in DOMAIN statusOf : n >= m

(* The matchday players are on: the lowest unresolved number, or the last  *)
(* one when every matchday is resolved.  statusOf is a function from       *)
(* matchday numbers to statuses.                                           *)
CurrentMatchday(statusOf) ==
  LET unplayed == {n \in DOMAIN statusOf : statusOf[n] # "resolved"}
  IN  IF unplayed # {}
      THEN CHOOSE n \in unplayed : \A m \in unplayed : n <= m
      ELSE CHOOSE n \in DOMAIN statusOf : \A m \in DOMAIN statusOf : n >= m

(* The order of the standings: alive players first, by lives and then      *)
(* points; island players by points; ids are compared last.                *)
AliveOutranks(a, b, idA, idB) ==
  \/ a.lives > b.lives
  \/ a.lives = b.lives /\ a.points > b.points
  \/ a.lives = b.lives /\ a.points = b.points /\ idA < idB

IslandOutranks(a, b, idA, idB) ==
  a.points > b.points \/ (a.points = b.points /\ idA < idB)

Outranks(a, b, idA, idB) ==
  \/ a.status = "alive" /\ b.status = "island"
  \/ a.status = "alive" /\ b.status = "alive" /\ AliveOutranks(a, b, idA, idB)
  \/ a.status = "island" /\ b.status = "island" /\ IslandOutranks(a, b, idA, idB)
==============================================================================
