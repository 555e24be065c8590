----------------------------- MODULE SeasonProofs -----------------------------
(***************************************************************************)
(* What a penka promises its players over a season, proved for any         *)
(* players, submissions in flight, calendars, fixtures and settings.       *)
(***************************************************************************)
EXTENDS SeasonProperties, FiniteSetTheorems, WellFoundedInduction, TLAPS

EffectType ==
  [livesDelta: {-1, 0}, pointsDelta: {0, 1}, newLives: Nat,
   newStatus: {"alive", "island"}, teamConsumed: Teams \cup {NoTeam}]

SeasonTyped ==
  /\ SeasonTypeOK
  /\ DOMAIN outcome = Matchdays
  /\ worker = [pc |-> worker.pc, day |-> worker.day, results |-> worker.results,
               members |-> worker.members, effects |-> worker.effects, todo |-> worker.todo]
  /\ worker.day \in Matchdays
  /\ worker.pc = "apply" => worker.effects \in [worker.members -> EffectType]

(* Whose entries, and whose labels, account for the matchday at work.      *)
Resolving == worker.pc \in {"picks", "apply", "mark"}
Written == worker.pc = "mark" \/ (worker.pc = "apply" /\ "entries" \notin worker.todo)
Labelled == worker.pc = "mark" \/ (worker.pc = "apply" /\ "picks" \notin worker.todo)

(* A matchday that is asked for, at work or recorded has left "open" for   *)
(* good, and it is flipped, now or again, only after it was recorded.      *)
OnceLocked ==
  /\ \A n \in requested : status[n] # "open"
  /\ \A n \in Matchdays : resolution[n].recorded => status[n] # "open"
  /\ worker.pc # "idle" => status[worker.day] # "open"
  /\ Resolving => ~resolution[worker.day].recorded
  /\ worker.pc = "flip" => resolution[worker.day].recorded
  /\ \A n \in Matchdays : status[n] = "resolved" => resolution[n].recorded

(* A matchday leaves its traces when it is resolved, and not before.       *)
NoTraceBefore ==
  \A n \in Matchdays : ~resolution[n].recorded =>
    /\ ~(Written /\ n = worker.day) =>
         resolution[n].eliminated = {} /\ \A e \in Players : faced[e][n] = "not"
    /\ ~(Labelled /\ n = worker.day) => \A e \in Players : label[e][n] = "none"

(* Who joined while the matchday at work was open is one of its members.   *)
NobodyLate ==
  /\ Resolving => \A e \in joined : worker.day \in openAtJoin[e] => e \in worker.members
  /\ Written => \A e \in worker.members : faced[e][worker.day] # "not"
  /\ JoinedInTimeFaces

(* The engine was asked about the entries as they still are, and a pick    *)
(* that won is still stored when the labels are written.                   *)
EffectsSound ==
  worker.pc = "apply" => \A e \in worker.members :
    /\ worker.effects[e].pointsDelta = 1 => pick[e][worker.day] # NoTeam
    /\ "entries" \in worker.todo => \E team \in Teams \cup {NoTeam} :
         worker.effects[e] = EntryEffect(entries[e], team, Matches(worker.day, worker.results),
                                         IslandEnabled)

LabelsSound ==
  worker.pc = "apply" /\ "picks" \notin worker.todo => \A e \in Players :
    label[e][worker.day] = "won" <=> e \in worker.members /\ worker.effects[e].pointsDelta = 1

(* The wins an entry accounts for: those labelled, but of the matchday     *)
(* being applied the one its own update has brought.                       *)
AccountedWins(e) ==
  IF worker.pc # "apply" THEN Wins(e)
  ELSE (Wins(e) \ {worker.day}) \cup
         {n \in {worker.day} : /\ "entries" \notin worker.todo /\ e \in worker.members
                               /\ worker.effects[e].pointsDelta = 1}
FacedAlive(e) == {n \in Matchdays : faced[e][n] = "alive"}

Ledger ==
  \A e \in Players :
    /\ entries[e].points = Cardinality(AccountedWins(e))
    /\ entries[e].lives = StartLives - Cardinality(FacedAlive(e) \ AccountedWins(e))

(* An entry is alive exactly while it has lives. *)
Consistent(entry) == entry.status = "alive" <=> entry.lives > 0

Named(e) == {n \in Matchdays : e \in resolution[n].eliminated}
Standing ==
  \A e \in Players :
    /\ Consistent(entries[e])
    /\ entries[e].status = "alive" => Named(e) = {}
    /\ entries[e].status = "island" => \E n \in Matchdays : Named(e) = {n}

(* A submission that knows its matchday has seen all before it resolved,   *)
(* and a recorded matchday stays recorded whatever its status becomes.     *)
SubmissionsSound ==
  \A s \in Submissions :
    /\ submission[s].pc # "idle" => submission[s].team \in Teams
    /\ submission[s].pc \in {"validate", "write"} =>
         \A m \in 1..(submission[s].day - 1) : resolution[m].recorded

SeasonInv ==
  /\ SeasonTyped
  /\ OnceLocked /\ NoTraceBefore /\ NobodyLate
  /\ EffectsSound /\ LabelsSound /\ Ledger
  /\ Standing
  /\ SubmissionsSound

-----------------------------------------------------------------------------
(* A set of natural numbers that is not empty has a least one. *)
LEMMA LeastNumber ==
  ASSUME NEW T \in SUBSET Nat, T # {}
  PROVE  \E x \in T : \A y \in T : x <= y
  <1> DEFINE R == {ss \in Nat \X Nat : ss[1] < ss[2]}
  <1>1. IsWellFoundedOn(R, Nat)
    BY NatLessThanWellFounded DEF OpToRel
  <1>2. PICK x \in T : \A y \in T : <<y, x>> \notin R
    <2> HIDE DEF R
    <2> QED
      BY <1>1, WFMin
  <1>3. ASSUME NEW y \in T PROVE x <= y
    <2>1. <<y, x>> \notin R /\ <<y, x>> \in Nat \X Nat
      BY <1>2
    <2> QED
      BY <2>1
  <1> QED
    BY <1>3

(* The players' matchday is one of the calendar, and whatever comes before *)
(* it is resolved (current-matchday.ts).                                   *)
LEMMA CurrentMatchdayIs ==
  ASSUME NEW last \in Nat \ {0}, NEW statusOf \in [1..last -> Statuses]
  PROVE  /\ CurrentMatchday(statusOf) \in 1..last
         /\ \A m \in 1..(CurrentMatchday(statusOf) - 1) : statusOf[m] = "resolved"
  <1> DEFINE unplayed == {n \in DOMAIN statusOf : statusOf[n] # "resolved"}
             IsFirst(n) == \A m \in unplayed : n <= m
             IsLast(n) == \A m \in DOMAIN statusOf : n >= m
  <1>1. DOMAIN statusOf = 1..last /\ unplayed \in SUBSET Nat
    OBVIOUS
  <1>2. CASE unplayed # {}
    <2>1. \E n \in unplayed : IsFirst(n)
      BY <1>1, <1>2, LeastNumber
    <2>2. CurrentMatchday(statusOf) = CHOOSE n \in unplayed : IsFirst(n)
      BY <1>2 DEF CurrentMatchday
    <2>3. CurrentMatchday(statusOf) \in unplayed /\ IsFirst(CurrentMatchday(statusOf))
      BY <2>1, <2>2
    <2> QED
      BY <1>1, <2>3
  <1>3. CASE unplayed = {}
    <2>1. IsLast(last) /\ last \in DOMAIN statusOf
      BY <1>1
    <2>2. CurrentMatchday(statusOf) = CHOOSE n \in DOMAIN statusOf : IsLast(n)
      BY <1>3 DEF CurrentMatchday
    <2>3. CurrentMatchday(statusOf) \in DOMAIN statusOf
      BY <2>1, <2>2
    <2> QED
      BY <1>1, <1>3, <2>3
  <1> QED
    BY <1>2, <1>3

(* A matchday keeps an entry consistent, costs it at most one life and     *)
(* none on the island, and nobody comes back from the island               *)
(* (resolve-matchday.ts: "an entry reaching 0 lives moves to the island"). *)
THEOREM MatchdayIsFair ==
  ASSUME NEW entry \in Entry, Consistent(entry), NEW team \in Teams \cup {NoTeam},
         NEW matches, NEW enabled \in BOOLEAN
  PROVE  LET effect == EntryEffect(entry, team, matches, enabled)
             next == EntryUpdate(entry, effect)
         IN  /\ Consistent(next)
             /\ next.lives \in {entry.lives, entry.lives - 1}
             /\ entry.status = "island" => next.status = "island" /\ next.lives = entry.lives
             /\ IsEliminated(entry, effect) <=> entry.status = "alive" /\ next.lives = 0
  <1> DEFINE effect == EntryEffect(entry, team, matches, enabled)
             next == EntryUpdate(entry, effect)
  <1>1. next.lives = effect.newLives /\ next.status = effect.newStatus
    BY DEF EntryUpdate
  <1>2. entry.lives \in Nat /\ entry.status \in {"alive", "island"}
    BY DEF Entry
  <1>3. CASE entry.status = "island"
    <2>1. effect.newLives = entry.lives /\ effect.newStatus = "island"
      BY <1>3 DEF EntryEffect, IslandEffect
    <2> QED
      BY <1>1, <1>2, <1>3, <2>1 DEF Consistent, IsEliminated
  <1>4. CASE entry.status = "alive" /\ DidTeamWin(matches, team)
    <2>1. effect.newLives = entry.lives /\ effect.newStatus = "alive"
      BY <1>4 DEF EntryEffect, AliveEffect, AliveWinEffect
    <2> QED
      BY <1>1, <1>2, <1>4, <2>1 DEF Consistent, IsEliminated
  <1>5. CASE entry.status = "alive" /\ ~DidTeamWin(matches, team)
    <2>1. entry.lives > 0
      BY <1>5 DEF Consistent
    <2>2. /\ effect.livesDelta = -1
          /\ effect.newLives = entry.lives - 1
          /\ effect.newStatus = IF entry.lives - 1 = 0 THEN "island" ELSE "alive"
      BY <1>2, <1>5, <2>1 DEF EntryEffect, AliveEffect, AliveLossEffect
    <2> QED
      BY <1>1, <1>2, <1>5, <2>1, <2>2 DEF Consistent, IsEliminated
  <1> QED
    BY <1>2, <1>3, <1>4, <1>5

-----------------------------------------------------------------------------
(* What an update of the worker does to an entry, and what it labels.      *)
LEMMA EffectIs ==
  ASSUME NEW entry \in Entry, Consistent(entry), NEW team \in Teams \cup {NoTeam},
         NEW matches, NEW enabled \in BOOLEAN
  PROVE  LET effect == EntryEffect(entry, team, matches, enabled)
             next == EntryUpdate(entry, effect)
         IN  /\ effect \in EffectType
             /\ next \in Entry
             /\ next.points = entry.points + effect.pointsDelta
             /\ entry.status = "alive" /\ effect.pointsDelta # 1 => next.lives = entry.lives - 1
             /\ entry.status = "island" \/ effect.pointsDelta = 1 => next.lives = entry.lives
             /\ effect.pointsDelta = 1 => DidTeamWin(matches, team)
  <1> DEFINE effect == EntryEffect(entry, team, matches, enabled)
             next == EntryUpdate(entry, effect)
  <1>1. effect \in EffectType /\ (effect.pointsDelta = 1 => DidTeamWin(matches, team))
    BY DEF EntryEffect, IslandEffect, AliveEffect, AliveWinEffect, AliveLossEffect, Entry, EffectType
  <1>2. /\ next.points = entry.points + effect.pointsDelta /\ next.lives = effect.newLives
        /\ next \in Entry
    <2> HIDE DEF effect
    <2> QED
      BY <1>1 DEF EntryUpdate, EffectType, Entry
  <1>3. CASE entry.status = "island"
    <2>1. effect.newLives = entry.lives
      BY <1>3 DEF EntryEffect, IslandEffect
    <2> QED
      BY <1>1, <1>2, <1>3, <2>1
  <1>4. CASE entry.status = "alive"
    <2>1. entry.lives > 0 /\ entry.lives \in Nat
      BY <1>4 DEF Consistent, Entry
    <2>2. CASE DidTeamWin(matches, team)
      <3>1. effect.newLives = entry.lives /\ effect.pointsDelta = 1
        BY <1>4, <2>2 DEF EntryEffect, AliveEffect, AliveWinEffect
      <3> QED
        BY <1>1, <1>2, <1>4, <3>1
    <2>3. CASE ~DidTeamWin(matches, team)
      <3>1. effect.newLives = entry.lives - 1 /\ effect.pointsDelta = 0
        BY <1>4, <2>1, <2>3 DEF EntryEffect, AliveEffect, AliveLossEffect
      <3> QED
        BY <1>1, <1>2, <1>4, <3>1
    <2> QED
      BY <2>2, <2>3
  <1> QED
    BY <1>1, <1>2, <1>3, <1>4 DEF Entry

(* No pick never wins. *)
LEMMA NoTeamNeverWins ==
  ASSUME NEW n \in Matchdays, NEW results
  PROVE  ~DidTeamWin(Matches(n, results), NoTeam)
  <1>1. \A f \in Fixtures[n] : f.home # NoTeam /\ f.away # NoTeam
    BY SeasonAssumption, NoTeamAssumption
  <1> QED
    BY <1>1 DEF DidTeamWin, Matches, Plays

LEMMA WonLabel ==
  ASSUME NEW effect \in EffectType
  PROVE  /\ PickResultOf(effect) \in Results
         /\ PickResultOf(effect) = "won" <=> effect.pointsDelta = 1
  BY DEF PickResultOf, EffectType, Results

(* Sets of matchdays are finite. *)
LEMMA MatchdaysFinite ==
  ASSUME NEW S \in SUBSET Matchdays
  PROVE  IsFiniteSet(S) /\ Cardinality(S) \in Nat
  <1>1. IsFiniteSet(Matchdays)
    BY SeasonAssumption, FS_Interval DEF Matchdays
  <1>2. IsFiniteSet(S)
    BY <1>1, FS_Subset
  <1> QED
    BY <1>2, FS_CardinalityType

(* One matchday more. *)
LEMMA OneMore ==
  ASSUME NEW S \in SUBSET Matchdays, NEW n \in Matchdays, n \notin S
  PROVE  Cardinality(S \cup {n}) = Cardinality(S) + 1
  BY MatchdaysFinite, FS_AddElement

-----------------------------------------------------------------------------
LEMMA TypeFacts ==
  ASSUME SeasonTyped
  PROVE  /\ status \in [Matchdays -> Statuses] /\ joined \subseteq Players
         /\ entries \in [Players -> Entry]
         /\ pick \in [Players -> [Matchdays -> Teams \cup {NoTeam}]]
         /\ label \in [Players -> [Matchdays -> Results]]
         /\ resolution \in [Matchdays -> [recorded: BOOLEAN, eliminated: SUBSET Players]]
         /\ requested \subseteq Matchdays
         /\ worker.pc \in {"idle", "picks", "apply", "mark", "flip"}
         /\ worker.members \subseteq joined /\ worker.todo \subseteq Bulks
         /\ worker.day \in Matchdays /\ now \in 0..MaxTime
         /\ faced \in [Players -> [Matchdays -> {"not", "alive", "island"}]]
         /\ openAtJoin \in [Players -> SUBSET Matchdays]
  BY DEF SeasonTyped, SeasonTypeOK

LEMMA RestingIs ==
  /\ Resting = [pc |-> "idle", day |-> 1, results |-> NoResults(1), members |-> {},
                effects |-> <<>>, todo |-> {}]
  /\ 1 \in Matchdays
  BY SeasonAssumption DEF Resting, Matchdays

LEMMA NewEntryIs ==
  NewEntry \in Entry /\ Consistent(NewEntry) /\ NewEntry.points = 0
    /\ NewEntry.lives = StartLives /\ NewEntry.status = "alive"
  BY SeasonAssumption DEF NewEntry, Entry, Consistent

LEMMA InitSeason == Init => SeasonInv
  <1> SUFFICES ASSUME Init PROVE SeasonInv
    OBVIOUS
  <1>1. /\ worker = Resting /\ worker.pc = "idle" /\ worker.day = 1 /\ worker.members = {}
        /\ worker.todo = {} /\ 1 \in Matchdays
    BY RestingIs DEF Init
  <1>2. /\ status \in [Matchdays -> Statuses] /\ DOMAIN outcome = Matchdays
        /\ \A n \in Matchdays : outcome[n] \in [Fixtures[n] -> Outcomes \cup {NoOutcome}]
        /\ \A n \in Matchdays : status[n] = "open"
    BY DEF Init, Statuses, NoResults
  <1>3. /\ joined = {} /\ requested = {} /\ now = 0
        /\ entries \in [Players -> Entry] /\ \A e \in Players : entries[e] = NewEntry
        /\ pick \in [Players -> [Matchdays -> Teams \cup {NoTeam}]]
        /\ label \in [Players -> [Matchdays -> Results]]
        /\ faced \in [Players -> [Matchdays -> {"not", "alive", "island"}]]
        /\ openAtJoin \in [Players -> SUBSET Matchdays]
        /\ \A e \in Players, n \in Matchdays : label[e][n] = "none" /\ faced[e][n] = "not"
    BY NewEntryIs DEF Init, Results
  <1>4. /\ resolution \in [Matchdays -> [recorded: BOOLEAN, eliminated: SUBSET Players]]
        /\ \A n \in Matchdays : ~resolution[n].recorded /\ resolution[n].eliminated = {}
    BY DEF Init
  <1>5. submission \in [Submissions ->
          [pc: {"idle", "calendar", "validate", "write"}, team: Teams \cup {NoTeam},
           entry: Entry, day: Matchdays, status: Statuses]]
        /\ \A s \in Submissions : submission[s].pc = "idle"
    BY <1>1, NewEntryIs DEF Init, NoRequest, Statuses
  <1>6a. desk \in [Desks -> [pc: {"idle", "close", "result"}, day: Matchdays]]
    BY <1>1 DEF Init, AtRest
  <1>6. SeasonTyped
    <2>1. now \in 0..MaxTime
      BY <1>3, SeasonAssumption
    <2>2. SeasonTypeOK
      BY <1>1, <1>2, <1>3, <1>4, <1>5, <1>6a, <2>1 DEF SeasonTypeOK
    <2>3. worker = [pc |-> worker.pc, day |-> worker.day, results |-> worker.results,
                    members |-> worker.members, effects |-> worker.effects, todo |-> worker.todo]
      BY <1>1, RestingIs
    <2> QED
      BY <1>1, <1>2, <2>2, <2>3 DEF SeasonTyped
  <1>7. OnceLocked /\ NoTraceBefore /\ NobodyLate /\ EffectsSound /\ LabelsSound /\ SubmissionsSound
    BY <1>1, <1>2, <1>3, <1>4, <1>5
      DEF OnceLocked, Resolving, Written, Labelled, NoTraceBefore, NobodyLate, JoinedInTimeFaces,
          EffectsSound, LabelsSound, SubmissionsSound
  <1>8. Ledger
    <2> SUFFICES ASSUME NEW e \in Players
                 PROVE  /\ entries[e].points = Cardinality(AccountedWins(e))
                        /\ entries[e].lives = StartLives - Cardinality(FacedAlive(e) \ AccountedWins(e))
      BY DEF Ledger
    <2>1. AccountedWins(e) = {} /\ FacedAlive(e) \ AccountedWins(e) = {}
      BY <1>1, <1>3 DEF AccountedWins, Wins, FacedAlive
    <2>2. Cardinality({}) = 0
      BY FS_EmptySet
    <2>3. entries[e].points = 0 /\ entries[e].lives = StartLives /\ StartLives \in Int
      BY <1>3, NewEntryIs, SeasonAssumption
    <2> QED
      BY <2>1, <2>2, <2>3
  <1>9. Standing
    BY <1>3, <1>4, NewEntryIs DEF Standing, Named
  <1> QED
    BY <1>6, <1>7, <1>8, <1>9 DEF SeasonInv

-----------------------------------------------------------------------------
(* What an entry accounts for changes with nothing else. *)
LEMMA LedgerKept ==
  ASSUME Ledger, UNCHANGED <<entries, label, faced, worker>>
  PROVE  Ledger'
  <1>1. \A e \in Players : /\ (AccountedWins(e))' = AccountedWins(e)
                           /\ (FacedAlive(e))' = FacedAlive(e)
    BY DEF AccountedWins, FacedAlive, Wins
  <1> QED
    BY <1>1 DEF Ledger

-----------------------------------------------------------------------------
(* The players. *)

(* Nobody who joins now finds the matchday at work, or a recorded one, open. *)
LEMMA JoinSafe ==
  ASSUME SeasonInv, NEW e \in Players, Join(e)
  PROVE  SeasonInv'
  <1>1. /\ UNCHANGED <<status, outcome, entries, label, resolution, faced, pick, requested, worker,
                       submission, desk, now>>
        /\ joined' = joined \cup {e}
        /\ openAtJoin' = [openAtJoin EXCEPT ![e] = {n \in Matchdays : status[n] = "open"}]
    BY DEF Join, calendar, table
  <1>2. SeasonTyped /\ OnceLocked /\ NobodyLate
    BY DEF SeasonInv
  <1>3. /\ openAtJoin' \in [Players -> SUBSET Matchdays]
        /\ \A d \in Players : d # e => openAtJoin'[d] = openAtJoin[d]
        /\ \A n \in Matchdays : n \in openAtJoin'[e] => status[n] = "open"
    BY <1>1, <1>2, TypeFacts
  <1>4. SeasonTyped'
    BY <1>1, <1>2, <1>3 DEF SeasonTyped, SeasonTypeOK
  <1>5. NobodyLate'
    <2>1. Resolving => status[worker.day] # "open" /\ worker.day \in Matchdays
      BY <1>2, TypeFacts DEF OnceLocked, Resolving
    <2>2. \A n \in Matchdays : resolution[n].recorded => status[n] # "open"
      BY <1>2 DEF OnceLocked
    <2>3. Resolving' => \A d \in joined' : worker'.day \in openAtJoin'[d] => d \in worker'.members
      BY <1>1, <1>2, <1>3, <2>1, TypeFacts DEF NobodyLate, Resolving
    <2>4. JoinedInTimeFaces'
      BY <1>1, <1>2, <1>3, <2>2, TypeFacts DEF NobodyLate, JoinedInTimeFaces
    <2> QED
      BY <1>1, <1>2, <2>3, <2>4 DEF NobodyLate, Written
  <1>6. OnceLocked' /\ NoTraceBefore' /\ EffectsSound' /\ LabelsSound' /\ Standing' /\ SubmissionsSound'
    BY <1>1
      DEF SeasonInv, OnceLocked, Resolving, NoTraceBefore, Written, Labelled, EffectsSound, LabelsSound,
          Standing, Named, SubmissionsSound
  <1>7. Ledger'
    BY <1>1, LedgerKept DEF SeasonInv
  <1> QED
    BY <1>4, <1>5, <1>6, <1>7 DEF SeasonInv

SubmissionState ==
  [pc: {"idle", "calendar", "validate", "write"}, team: Teams \cup {NoTeam},
   entry: Entry, day: Matchdays, status: Statuses]

(* A submission takes a step; only its last one stores a pick.             *)
LEMMA SubmissionStep ==
  ASSUME SeasonInv, NEW s \in Submissions, NEW state \in SubmissionState, SubmissionBecomes(s, state),
         SubmitUnchanged,
         pick' \in [Players -> [Matchdays -> Teams \cup {NoTeam}]],
         \A e \in Players, n \in Matchdays : pick[e][n] # NoTeam => pick'[e][n] # NoTeam,
         state.pc # "idle" => state.team \in Teams,
         state.pc \in {"validate", "write"} => \A m \in 1..(state.day - 1) : resolution[m].recorded
  PROVE  SeasonInv'
  <1>1. UNCHANGED <<status, outcome, entries, label, resolution, faced, joined, openAtJoin, requested,
                    worker, desk, now>>
    BY DEF SubmitUnchanged, calendar, table, roster
  <1>2. SeasonTyped
    BY DEF SeasonInv
  <1>3. /\ submission' \in [Submissions -> SubmissionState] /\ submission'[s] = state
        /\ \A o \in Submissions : o # s => submission'[o] = submission[o]
    BY <1>2 DEF SeasonTyped, SeasonTypeOK, SubmissionBecomes, SubmissionState
  <1>4. SeasonTyped'
    BY <1>1, <1>2, <1>3 DEF SeasonTyped, SeasonTypeOK, SubmissionState
  <1>5. EffectsSound'
    <2>1. worker.day \in Matchdays /\ worker.members \subseteq Players
      BY <1>2, TypeFacts
    <2> QED
      BY <1>1, <2>1 DEF SeasonInv, EffectsSound
  <1>6. SubmissionsSound'
    BY <1>1, <1>3 DEF SeasonInv, SubmissionsSound
  <1>7. OnceLocked' /\ NoTraceBefore' /\ NobodyLate' /\ LabelsSound' /\ Standing'
    BY <1>1
      DEF SeasonInv, OnceLocked, Resolving, NoTraceBefore, Written, Labelled, NobodyLate,
          JoinedInTimeFaces, LabelsSound, Standing, Named
  <1>8. Ledger'
    BY <1>1, LedgerKept DEF SeasonInv
  <1> QED
    BY <1>4, <1>5, <1>6, <1>7, <1>8 DEF SeasonInv

LEMMA SubmitSafe ==
  ASSUME SeasonInv, NEW s \in Submissions, Submit(s)
  PROVE  SeasonInv'
  <1> DEFINE self == submission[s]
  <1>1. /\ self \in SubmissionState /\ Player[s] \in Players
        /\ status \in [Matchdays -> Statuses] /\ entries \in [Players -> Entry]
        /\ pick \in [Players -> [Matchdays -> Teams \cup {NoTeam}]]
        /\ SubmitUnchanged
    BY SeasonAssumption
      DEF SeasonInv, SeasonTyped, SeasonTypeOK, SubmissionState, Submit, SubmitReadEntry,
          SubmitReadCalendar, SubmitValidate, SubmitWrite
  <1>2. /\ self.pc # "idle" => self.team \in Teams
        /\ self.pc \in {"validate", "write"} => \A m \in 1..(self.day - 1) : resolution[m].recorded
    BY DEF SeasonInv, SubmissionsSound
  <1>3. NoRequest \in SubmissionState /\ NoRequest.pc = "idle"
    BY NewEntryIs, RestingIs DEF NoRequest, SubmissionState, Statuses
  <1>4. CASE SubmitReadEntry(s)
    <2>1. PICK team \in Teams :
            SubmissionBecomes(s, [NoRequest EXCEPT !.pc = "calendar", !.team = team,
                                                   !.entry = entries[Player[s]]])
      BY <1>4 DEF SubmitReadEntry
    <2> DEFINE state == [NoRequest EXCEPT !.pc = "calendar", !.team = team,
                                          !.entry = entries[Player[s]]]
    <2>2. state \in SubmissionState /\ state.pc = "calendar" /\ state.team = team
      BY <1>1, <1>3 DEF SubmissionState
    <2> HIDE DEF state
    <2>3. UNCHANGED pick
      BY <1>4 DEF SubmitReadEntry
    <2> QED
      BY <1>1, <2>1, <2>2, <2>3, SubmissionStep DEF state
  <1>5. CASE SubmitReadCalendar(s)
    <2> DEFINE day == CurrentMatchday(status)
               state == [self EXCEPT !.pc = "validate", !.day = day, !.status = status[day]]
    <2>1. SubmissionBecomes(s, state) /\ self.pc = "calendar" /\ UNCHANGED pick
      BY <1>5 DEF SubmitReadCalendar
    <2>2. day \in Matchdays /\ \A m \in 1..(day - 1) : resolution[m].recorded
      <3>1. day \in Matchdays /\ \A m \in 1..(day - 1) : status[m] = "resolved"
        BY <1>1, SeasonAssumption, CurrentMatchdayIs DEF Matchdays
      <3>2. \A m \in 1..(day - 1) : m \in Matchdays
        BY <3>1, SeasonAssumption DEF Matchdays
      <3> QED
        BY <3>1, <3>2 DEF SeasonInv, OnceLocked
    <2> HIDE DEF day
    <2>3. state \in SubmissionState /\ state.pc = "validate" /\ state.team = self.team /\ state.day = day
      BY <1>1, <2>2 DEF SubmissionState
    <2> HIDE DEF state
    <2> QED
      BY <1>1, <1>2, <2>1, <2>2, <2>3, SubmissionStep
  <1>6. CASE SubmitValidate(s)
    <2> DEFINE state == [self EXCEPT !.pc = "write"]
    <2>1. /\ SubmissionBecomes(s, state) \/ SubmissionBecomes(s, NoRequest)
          /\ self.pc = "validate" /\ UNCHANGED pick
      BY <1>6 DEF SubmitValidate
    <2>2. state \in SubmissionState /\ state.pc = "write" /\ state.team = self.team /\ state.day = self.day
      BY <1>1 DEF SubmissionState
    <2> HIDE DEF state
    <2>3. CASE SubmissionBecomes(s, state)
      BY <1>1, <1>2, <2>1, <2>2, <2>3, SubmissionStep
    <2>4. CASE SubmissionBecomes(s, NoRequest)
      BY <1>1, <1>3, <2>1, <2>4, SubmissionStep
    <2> QED
      BY <2>1, <2>3, <2>4
  <1>7. CASE SubmitWrite(s)
    <2>1. /\ pick' = [pick EXCEPT ![Player[s]][self.day] = self.team]
          /\ self.pc = "write" /\ SubmissionBecomes(s, NoRequest)
      BY <1>7 DEF SubmitWrite
    <2>2. self.day \in Matchdays /\ self.team \in Teams /\ self.team # NoTeam
      BY <1>1, <1>2, <2>1, NoTeamAssumption DEF SubmissionState
    <2> HIDE DEF self
    <2>3. /\ pick' \in [Players -> [Matchdays -> Teams \cup {NoTeam}]]
          /\ \A e \in Players, n \in Matchdays : pick[e][n] # NoTeam => pick'[e][n] # NoTeam
      BY <1>1, <2>1, <2>2
    <2> QED
      BY <1>1, <1>3, <2>1, <2>3, SubmissionStep
  <1> QED
    BY <1>4, <1>5, <1>6, <1>7 DEF Submit

-----------------------------------------------------------------------------
(* The operator and the clock. *)

(* What is recorded stays so, and a submission that relies on it is right. *)
LEMMA SubmissionsKept ==
  ASSUME SeasonTyped, SubmissionsSound, UNCHANGED submission,
         \A n \in Matchdays : resolution[n].recorded => resolution'[n].recorded
  PROVE  SubmissionsSound'
  <1> SUFFICES ASSUME NEW s \in Submissions, submission[s].pc \in {"validate", "write"},
                      NEW m \in 1..(submission[s].day - 1)
               PROVE  resolution'[m].recorded
    BY DEF SubmissionsSound
  <1>1. submission[s].day \in Matchdays
    BY DEF SeasonTyped, SeasonTypeOK
  <1>2. m \in Matchdays /\ resolution[m].recorded
    BY <1>1, SeasonAssumption DEF SubmissionsSound, Matchdays
  <1> QED
    BY <1>2

DeskState == [pc: {"idle", "close", "result"}, day: Matchdays]

(* A close never opens a matchday, nor does it flip one, whenever it lands; *)
(* a result is one the match may be given.                                 *)
LEMMA OperatorWrites ==
  ASSUME SeasonTyped, (\E o \in Desks : Operate(o)) \/ UNCHANGED <<calendar, desk>>
  PROVE  /\ status' \in [Matchdays -> Statuses]
         /\ \A n \in Matchdays : status[n] # "open" => status'[n] # "open"
         /\ \A n \in Matchdays : status'[n] = "resolved" => status[n] = "resolved"
         /\ DOMAIN outcome' = Matchdays
         /\ \A n \in Matchdays : outcome'[n] \in [Fixtures[n] -> Outcomes \cup {NoOutcome}]
         /\ desk' \in [Desks -> DeskState]
  <1>1. /\ DOMAIN outcome = Matchdays /\ status \in [Matchdays -> Statuses]
        /\ \A n \in Matchdays : outcome[n] \in [Fixtures[n] -> Outcomes \cup {NoOutcome}]
        /\ desk \in [Desks -> DeskState]
    BY DEF SeasonTyped, SeasonTypeOK, DeskState
  <1>2. CASE UNCHANGED <<calendar, desk>>
    BY <1>1, <1>2 DEF calendar
  <1>3. ASSUME NEW o \in Desks, NEW n \in Matchdays, NEW write \in {"close", "result"},
               DeskReads(o, n, write)
        PROVE  UNCHANGED calendar /\ desk' \in [Desks -> DeskState]
    <2>1. desk' = [desk EXCEPT ![o] = [pc |-> write, day |-> n]] /\ UNCHANGED calendar
      BY <1>3 DEF DeskReads, DeskBecomes
    <2> QED
      BY <1>1, <2>1 DEF DeskState
  <1>4. AtRest \in DeskState
    BY RestingIs DEF AtRest, DeskState
  <1>5. ASSUME NEW o \in Desks, Close(o)
        PROVE  /\ UNCHANGED outcome /\ desk' \in [Desks -> DeskState]
               /\ status' \in [Matchdays -> Statuses]
               /\ \A n \in Matchdays : status[n] # "open" => status'[n] # "open"
               /\ \A n \in Matchdays : status'[n] = "resolved" => status[n] = "resolved"
    <2>1. /\ desk' = [desk EXCEPT ![o] = AtRest] /\ UNCHANGED outcome
          /\ status' = [status EXCEPT ![desk[o].day] = "locked"]
      BY <1>5 DEF Close, DeskBecomes
    <2> QED
      BY <1>1, <1>4, <2>1 DEF Statuses
  <1>6. ASSUME NEW o \in Desks, SetResult(o)
        PROVE  /\ UNCHANGED status /\ desk' \in [Desks -> DeskState]
               /\ DOMAIN outcome' = Matchdays
               /\ \A m \in Matchdays : outcome'[m] \in [Fixtures[m] -> Outcomes \cup {NoOutcome}]
    <2> DEFINE n == desk[o].day
    <2>1. n \in Matchdays /\ Scores[n] \subseteq Outcomes
      BY <1>1, SeasonAssumption DEF DeskState
    <2>2. PICK f \in Fixtures[n], result \in Scores[n] : outcome' = [outcome EXCEPT ![n][f] = result]
      BY <1>6 DEF SetResult
    <2>3. UNCHANGED status /\ desk' = [desk EXCEPT ![o] = AtRest]
      BY <1>6 DEF SetResult, DeskBecomes
    <2> HIDE DEF n
    <2>4. /\ DOMAIN outcome' = Matchdays /\ \A m \in Matchdays : m # n => outcome'[m] = outcome[m]
          /\ outcome'[n] = [outcome[n] EXCEPT ![f] = result]
      BY <1>1, <2>1, <2>2
    <2>5. outcome'[n] \in [Fixtures[n] -> Outcomes \cup {NoOutcome}]
      BY <1>1, <2>1, <2>2, <2>4
    <2> QED
      BY <1>1, <1>4, <2>1, <2>3, <2>4, <2>5
  <1>7. CASE \E o \in Desks : Operate(o)
    <2>1. PICK o \in Desks : Operate(o)
      BY <1>7
    <2>2. CASE \E n \in Matchdays, write \in {"close", "result"} : DeskReads(o, n, write)
      BY <1>1, <1>3, <2>2 DEF calendar
    <2>3. CASE Close(o)
      BY <1>1, <1>5, <2>3
    <2>4. CASE SetResult(o)
      BY <1>1, <1>6, <2>4
    <2> QED
      BY <2>1, <2>2, <2>3, <2>4 DEF Operate
  <1> QED
    BY <1>2, <1>7

LEMMA OperatorSafe ==
  ASSUME SeasonInv,
         \/ \E o \in Desks : Operate(o)
         \/ \E n \in Matchdays : RequestResolution(n)
         \/ Tick
  PROVE  SeasonInv'
  <1>1. UNCHANGED <<entries, label, resolution, faced, joined, openAtJoin, pick, worker, submission>>
    BY DEF Operate, DeskReads, Close, SetResult, RequestResolution, Tick, OperatorUnchanged, table,
           roster
  <1>2. SeasonTyped /\ OnceLocked
    BY DEF SeasonInv
  <1>3. (\E o \in Desks : Operate(o)) \/ UNCHANGED <<calendar, desk>>
    BY DEF RequestResolution, Tick
  <1>4. /\ status' \in [Matchdays -> Statuses]
        /\ \A n \in Matchdays : status[n] # "open" => status'[n] # "open"
        /\ \A n \in Matchdays : status'[n] = "resolved" => status[n] = "resolved"
        /\ DOMAIN outcome' = Matchdays
        /\ \A n \in Matchdays : outcome'[n] \in [Fixtures[n] -> Outcomes \cup {NoOutcome}]
        /\ desk' \in [Desks -> DeskState]
    BY <1>2, <1>3, OperatorWrites
  <1>5. /\ requested' \subseteq Matchdays
        /\ \A n \in requested' : n \in requested \/ status[n] # "open"
    BY <1>2, TypeFacts
      DEF Operate, DeskReads, Close, SetResult, RequestResolution, Rejection, Tick
  <1>6. now' \in 0..MaxTime
    <2>1. CASE Tick
      BY <1>2, <2>1, TypeFacts, SeasonAssumption DEF Tick
    <2>2. CASE UNCHANGED now
      BY <1>2, <2>2, TypeFacts
    <2> QED
      BY <2>1, <2>2
        DEF Operate, DeskReads, Close, SetResult, RequestResolution, OperatorUnchanged
  <1>7. SeasonTyped'
    BY <1>1, <1>2, <1>4, <1>5, <1>6 DEF SeasonTyped, SeasonTypeOK, DeskState
  <1>8. OnceLocked'
    BY <1>1, <1>2, <1>4, <1>5, TypeFacts DEF OnceLocked, Resolving
  <1>9. SubmissionsSound'
    BY <1>1, <1>2, SubmissionsKept DEF SeasonInv
  <1>10. NoTraceBefore' /\ NobodyLate' /\ EffectsSound' /\ LabelsSound' /\ Standing'
    BY <1>1
      DEF SeasonInv, NoTraceBefore, Written, Labelled, NobodyLate, Resolving, JoinedInTimeFaces,
          EffectsSound, LabelsSound, Standing, Named
  <1>11. Ledger'
    BY <1>1, LedgerKept DEF SeasonInv
  <1> QED
    BY <1>7, <1>8, <1>9, <1>10, <1>11 DEF SeasonInv

-----------------------------------------------------------------------------
(* The worker: what it leaves alone, and what its steps have in common.    *)

LEMMA WorkerStep ==
  ASSUME SeasonInv, WorkerUnchanged, requested' \subseteq requested,
         status' \in [Matchdays -> Statuses],
         \A n \in Matchdays : status[n] # "open" => status'[n] # "open",
         \A n \in Matchdays : resolution[n].recorded => resolution'[n].recorded,
         \A n \in Matchdays : status'[n] = "resolved" => resolution'[n].recorded,
         entries' \in [Players -> Entry], label' \in [Players -> [Matchdays -> Results]],
         resolution' \in [Matchdays -> [recorded: BOOLEAN, eliminated: SUBSET Players]],
         faced' \in [Players -> [Matchdays -> {"not", "alive", "island"}]],
         worker' = [pc |-> worker'.pc, day |-> worker'.day, results |-> worker'.results,
                    members |-> worker'.members, effects |-> worker'.effects, todo |-> worker'.todo],
         worker'.pc \in {"idle", "picks", "apply", "mark", "flip"}, worker'.day \in Matchdays,
         worker'.members \subseteq joined, worker'.todo \subseteq Bulks,
         worker'.pc = "apply" => worker'.effects \in [worker'.members -> EffectType],
         NoTraceBefore', NobodyLate', EffectsSound', LabelsSound', Ledger', Standing',
         \A n \in Matchdays : resolution'[n].recorded => status'[n] # "open",
         worker'.pc # "idle" => status'[worker'.day] # "open",
         Resolving' => ~resolution'[worker'.day].recorded,
         worker'.pc = "flip" => resolution'[worker'.day].recorded
  PROVE  SeasonInv'
  <1>1. SeasonTyped /\ UNCHANGED <<outcome, joined, openAtJoin, pick, submission, desk, now>>
    BY DEF SeasonInv, WorkerUnchanged, roster
  <1>2. SeasonTyped'
    <2>1. SeasonTypeOK'
      BY <1>1 DEF SeasonTyped, SeasonTypeOK
    <2> QED
      BY <1>1, <2>1 DEF SeasonTyped
  <1>3. OnceLocked'
    BY <1>1, TypeFacts DEF SeasonInv, OnceLocked
  <1>4. SubmissionsSound'
    BY <1>1, SubmissionsKept DEF SeasonInv
  <1> QED
    BY <1>2, <1>3, <1>4 DEF SeasonInv

(* Taking a command: whoever has joined so far is a member.                *)
LEMMA TakeSafe ==
  ASSUME SeasonInv, NEW n \in Matchdays, TakeCommand(n)
  PROVE  SeasonInv'
  <1>1. /\ UNCHANGED <<status, entries, label, resolution, faced, joined, openAtJoin, pick>>
        /\ WorkerUnchanged /\ worker.pc = "idle" /\ n \in requested /\ requested' \subseteq requested
    BY DEF TakeCommand, table, WorkerUnchanged, roster
  <1>2. SeasonTyped /\ OnceLocked /\ NoTraceBefore /\ NobodyLate /\ status[n] # "open"
    BY <1>1 DEF SeasonInv, OnceLocked
  <1>3. /\ worker' = [pc |-> worker'.pc, day |-> worker'.day, results |-> worker'.results,
                      members |-> worker'.members, effects |-> worker'.effects, todo |-> worker'.todo]
        /\ worker'.day = n /\ worker'.todo = {}
        /\ \/ worker'.pc = "flip" /\ worker'.members = {} /\ resolution[n].recorded
           \/ worker'.pc = "picks" /\ worker'.members = joined /\ ~resolution[n].recorded
    BY RestingIs DEF TakeCommand
  <1>4. /\ NobodyLate' /\ EffectsSound' /\ LabelsSound' /\ Standing'
    BY <1>1, <1>2, <1>3
      DEF SeasonInv, NobodyLate, Written, Resolving, JoinedInTimeFaces, EffectsSound, LabelsSound,
          Standing, Named
  <1>5. NoTraceBefore'
    BY <1>1, <1>2, <1>3 DEF NoTraceBefore, Written, Labelled
  <1>6. Ledger'
    <2>1. \A e \in Players : (AccountedWins(e))' = AccountedWins(e) /\ (FacedAlive(e))' = FacedAlive(e)
      BY <1>1, <1>3 DEF AccountedWins, Wins, FacedAlive
    <2> QED
      BY <1>1, <2>1 DEF SeasonInv, Ledger
  <1> QED
    BY <1>1, <1>2, <1>3, <1>4, <1>5, <1>6, TypeFacts, WorkerStep DEF OnceLocked, Resolving

(* The engine is asked: the matchday has left no trace yet.                *)
LEMMA ReadPicksSafe ==
  ASSUME SeasonInv, ReadPicks
  PROVE  SeasonInv'
  <1> DEFINE Asked(e) == EntryEffect(entries[e], pick[e][worker.day],
                                     Matches(worker.day, worker.results), IslandEnabled)
             effects == [e \in worker.members |-> Asked(e)]
  <1>1. /\ UNCHANGED <<status, entries, label, resolution, faced, joined, openAtJoin, pick, requested>>
        /\ WorkerUnchanged /\ worker.pc = "picks"
        /\ worker' = [worker EXCEPT !.pc = "apply", !.todo = Bulks, !.effects = effects]
    BY DEF ReadPicks, table, WorkerUnchanged, roster
  <1>2. SeasonTyped /\ OnceLocked /\ NoTraceBefore /\ NobodyLate /\ Resolving /\ Standing
    BY <1>1 DEF SeasonInv, Resolving
  <1>3. ASSUME NEW e \in worker.members
        PROVE  /\ Asked(e) \in EffectType
               /\ Asked(e).pointsDelta = 1 => pick[e][worker.day] # NoTeam
               /\ pick[e][worker.day] \in Teams \cup {NoTeam} /\ e \in Players
    <2>1. /\ e \in Players /\ entries[e] \in Entry /\ Consistent(entries[e]) /\ worker.day \in Matchdays
          /\ pick[e][worker.day] \in Teams \cup {NoTeam} /\ IslandEnabled \in BOOLEAN
      BY <1>2, TypeFacts, SeasonAssumption DEF Standing
    <2>2. /\ Asked(e) \in EffectType
          /\ Asked(e).pointsDelta = 1 =>
               DidTeamWin(Matches(worker.day, worker.results), pick[e][worker.day])
      BY <2>1, EffectIs
    <2> QED
      BY <2>1, <2>2, NoTeamNeverWins
  <1>4. effects \in [worker.members -> EffectType] /\ \A e \in worker.members : effects[e] = Asked(e)
    BY <1>3
  <1> HIDE DEF effects
  <1>5. /\ worker' = [pc |-> worker'.pc, day |-> worker'.day, results |-> worker'.results,
                      members |-> worker'.members, effects |-> worker'.effects, todo |-> worker'.todo]
        /\ worker'.day = worker.day /\ worker'.todo = Bulks /\ worker'.pc = "apply"
        /\ worker'.members = worker.members /\ worker'.effects = effects
        /\ worker'.results = worker.results
    BY <1>1, <1>2 DEF SeasonTyped
  <1>6. "entries" \in Bulks /\ "picks" \in Bulks
    BY DEF Bulks
  <1>7. EffectsSound' /\ LabelsSound'
    <2>1. EffectsSound'
      BY <1>1, <1>3, <1>4, <1>5 DEF EffectsSound
    <2> QED
      BY <1>5, <1>6, <2>1 DEF LabelsSound
  <1>8. NobodyLate' /\ NoTraceBefore' /\ Standing'
    BY <1>1, <1>2, <1>5, <1>6
      DEF NobodyLate, Written, Labelled, Resolving, JoinedInTimeFaces, NoTraceBefore, Standing, Named
  <1>9. Ledger'
    <2>1. \A e \in Players : worker.day \notin Wins(e)
      BY <1>1, <1>2, TypeFacts DEF OnceLocked, NoTraceBefore, Labelled, Wins
    <2>2. \A e \in Players : (AccountedWins(e))' = AccountedWins(e) /\ (FacedAlive(e))' = FacedAlive(e)
      BY <1>1, <1>5, <1>6, <2>1 DEF AccountedWins, Wins, FacedAlive
    <2> QED
      BY <1>1, <2>2 DEF SeasonInv, Ledger
  <1> QED
    BY <1>1, <1>2, <1>4, <1>5, <1>7, <1>8, <1>9, TypeFacts, WorkerStep DEF OnceLocked, Resolving

-----------------------------------------------------------------------------
(* The two bulk writes. *)

LEMMA BulkIs ==
  ASSUME SeasonTyped, NEW bulk \in Bulks, BulkSettles(bulk)
  PROVE  /\ worker' = [pc |-> worker'.pc, day |-> worker'.day, results |-> worker'.results,
                       members |-> worker'.members, effects |-> worker'.effects, todo |-> worker'.todo]
         /\ worker.pc = "apply" /\ bulk \in worker.todo
         /\ worker'.day = worker.day /\ worker'.members = worker.members
         /\ worker'.effects = worker.effects /\ worker'.results = worker.results
         /\ worker'.todo = worker.todo \ {bulk} /\ worker'.todo \subseteq Bulks
         /\ \/ worker'.pc = "mark" /\ worker.todo = {bulk}
            \/ worker'.pc = "apply" /\ worker.todo # {bulk}
  BY TypeFacts DEF BulkSettles, SeasonTyped

(* What is known of the matchday that is being applied. *)
LEMMA ApplyFacts ==
  ASSUME SeasonInv, worker.pc = "apply"
  PROVE  /\ SeasonTyped /\ OnceLocked /\ NoTraceBefore /\ NobodyLate /\ Standing /\ Ledger
         /\ worker.day \in Matchdays /\ worker.members \subseteq Players
         /\ worker.effects \in [worker.members -> EffectType]
         /\ ~resolution[worker.day].recorded /\ status[worker.day] # "open"
         /\ "entries" \in worker.todo =>
              /\ resolution[worker.day].eliminated = {}
              /\ \A e \in Players : faced[e][worker.day] = "not"
         /\ "picks" \in worker.todo => \A e \in Players : label[e][worker.day] = "none"
  <1>1. SeasonTyped /\ OnceLocked /\ NoTraceBefore
    BY DEF SeasonInv
  <1>2. worker.day \in Matchdays /\ ~resolution[worker.day].recorded /\ status[worker.day] # "open"
    BY <1>1, TypeFacts DEF OnceLocked, Resolving
  <1>3. /\ "entries" \in worker.todo => ~Written
        /\ "picks" \in worker.todo => ~Labelled
    BY DEF Written, Labelled
  <1>4. worker.effects \in [worker.members -> EffectType] /\ worker.members \subseteq Players
    BY <1>1, TypeFacts DEF SeasonTyped
  <1> QED
    BY <1>1, <1>2, <1>3, <1>4 DEF NoTraceBefore, SeasonInv

(* What one entry gains and loses is what its account gains and loses.     *)
LEMMA EntriesBalance ==
  ASSUME SeasonInv, WriteEntries, NEW e \in Players
  PROVE  /\ entries'[e] \in Entry
         /\ entries'[e].points = Cardinality((AccountedWins(e))')
         /\ entries'[e].lives = StartLives - Cardinality((FacedAlive(e))' \ (AccountedWins(e))')
         /\ Consistent(entries'[e])
         /\ e \in Eliminated <=> entries[e].status = "alive" /\ entries'[e].status = "island"
         /\ entries[e].status = "island" => entries'[e].status = "island"
  <1> DEFINE day == worker.day
             gain == e \in worker.members /\ worker.effects[e].pointsDelta = 1
             A == AccountedWins(e)
             F == FacedAlive(e)
  <1>1. /\ worker.pc = "apply" /\ "entries" \in worker.todo /\ BulkSettles("entries")
        /\ UNCHANGED <<label, pick>>
    BY DEF WriteEntries, BulkSettles, WorkerUnchanged
  <1>2. /\ SeasonTyped /\ day \in Matchdays /\ \A d \in Players : faced[d][day] = "not"
        /\ worker.effects \in [worker.members -> EffectType]
        /\ entries[e] \in Entry /\ Consistent(entries[e])
        /\ entries[e].points = Cardinality(A)
        /\ entries[e].lives = StartLives - Cardinality(F \ A)
        /\ EffectsSound /\ LabelsSound
    BY <1>1, ApplyFacts, TypeFacts DEF Ledger, Standing, SeasonInv
  <1>3. /\ worker'.day = day /\ worker'.members = worker.members /\ worker'.effects = worker.effects
        /\ worker'.todo = worker.todo \ {"entries"}
        /\ \/ worker'.pc = "mark" /\ worker.todo = {"entries"}
           \/ worker'.pc = "apply" /\ worker.todo # {"entries"}
    BY <1>1, <1>2, BulkIs DEF Bulks
  <1>4. A \in SUBSET Matchdays /\ F \in SUBSET Matchdays /\ day \notin A /\ day \notin F
    BY <1>1, <1>2 DEF AccountedWins, Wins, FacedAlive
  <1>5. (AccountedWins(e))' = IF gain THEN A \cup {day} ELSE A
    <2>1. Wins(e)' = Wins(e) /\ Wins(e) \subseteq Matchdays
      BY <1>1 DEF Wins
    <2>2. A = Wins(e) \ {day}
      BY <1>1 DEF AccountedWins
    <2>3. CASE worker'.pc = "mark"
      <3>1. (AccountedWins(e))' = Wins(e)
        BY <2>1, <2>3 DEF AccountedWins
      <3>2. day \in Wins(e) <=> gain
        BY <1>1, <1>2, <1>3, <2>3 DEF LabelsSound, Wins
      <3> QED
        BY <2>2, <3>1, <3>2
    <2>4. CASE worker'.pc = "apply"
      <3>1. (AccountedWins(e))' = (Wins(e) \ {day}) \cup {n \in {day} : gain}
        BY <1>3, <2>1, <2>4 DEF AccountedWins
      <3> QED
        BY <2>2, <3>1
    <2> QED
      BY <1>3, <2>3, <2>4
  <1>6. /\ entries'[e] = IF e \in worker.members THEN EntryUpdate(entries[e], worker.effects[e])
                         ELSE entries[e]
        /\ faced'[e] = IF e \in worker.members THEN [faced[e] EXCEPT ![day] = entries[e].status]
                       ELSE faced[e]
    BY DEF WriteEntries
  <1>7. (FacedAlive(e))' = IF e \in worker.members /\ entries[e].status = "alive" THEN F \cup {day} ELSE F
    <2>1. faced[e] \in [Matchdays -> {"not", "alive", "island"}]
      BY <1>2, TypeFacts
    <2> QED
      BY <1>2, <1>6, <2>1 DEF FacedAlive
  <1>8. Cardinality(A) \in Nat /\ Cardinality(F \ A) \in Nat /\ StartLives \in Int
    BY <1>4, MatchdaysFinite, SeasonAssumption
  <1>9. CASE e \notin worker.members
    <2>1. e \notin Eliminated
      BY <1>9 DEF Eliminated
    <2> QED
      BY <1>2, <1>5, <1>6, <1>7, <1>9, <2>1 DEF Entry
  <1>10. CASE e \in worker.members
    <2> DEFINE effect == worker.effects[e]
               next == EntryUpdate(entries[e], effect)
               M == Matches(day, worker.results)
    <2>1. PICK team \in Teams \cup {NoTeam} : effect = EntryEffect(entries[e], team, M, IslandEnabled)
      BY <1>1, <1>2, <1>10 DEF EffectsSound
    <2>2. /\ effect \in EffectType /\ next \in Entry
          /\ next.points = entries[e].points + effect.pointsDelta
          /\ entries[e].status = "alive" /\ effect.pointsDelta # 1 => next.lives = entries[e].lives - 1
          /\ entries[e].status = "island" \/ effect.pointsDelta = 1 => next.lives = entries[e].lives
      <3>1. entries[e] \in Entry /\ Consistent(entries[e]) /\ IslandEnabled \in BOOLEAN
        BY <1>2, SeasonAssumption
      <3> HIDE DEF effect, M
      <3> QED
        BY <2>1, <3>1, EffectIs
    <2>3. /\ Consistent(next)
          /\ entries[e].status = "island" => next.status = "island"
          /\ IsEliminated(entries[e], effect) <=> entries[e].status = "alive" /\ next.lives = 0
      <3>1. entries[e] \in Entry /\ Consistent(entries[e]) /\ IslandEnabled \in BOOLEAN
        BY <1>2, SeasonAssumption
      <3> HIDE DEF effect, M
      <3> QED
        BY <2>1, <3>1, MatchdayIsFair
    <2>4. entries'[e] = next
      BY <1>6, <1>10
    <2>5. e \in Eliminated <=> IsEliminated(entries[e], effect)
      BY <1>10 DEF Eliminated
    <2>6. gain <=> effect.pointsDelta = 1
      BY <1>10
    <2>7. /\ effect.pointsDelta \in {0, 1} /\ entries[e].points \in Int /\ entries[e].lives \in Int
          /\ entries[e].status \in {"alive", "island"} /\ next.lives \in Nat
          /\ next.status \in {"alive", "island"}
      BY <1>2, <2>2 DEF EffectType, Entry
    <2> HIDE DEF effect, next, gain, A, F, day
    <2>8. next.points = Cardinality((AccountedWins(e))')
      <3>1. CASE gain
        BY <1>2, <1>4, <1>5, <2>2, <2>6, <3>1, OneMore
      <3>2. CASE ~gain
        BY <1>2, <1>5, <1>8, <2>2, <2>6, <2>7, <3>2
      <3> QED
        BY <3>1, <3>2
    <2>9. next.lives = StartLives - Cardinality((FacedAlive(e))' \ (AccountedWins(e))')
      <3>1. CASE gain
        <4>1. (FacedAlive(e))' \ (AccountedWins(e))' = F \ A
          BY <1>4, <1>5, <1>7, <3>1
        <4> QED
          BY <1>2, <2>2, <2>6, <3>1, <4>1
      <3>2. CASE ~gain /\ entries[e].status = "alive"
        <4>1. (FacedAlive(e))' \ (AccountedWins(e))' = (F \ A) \cup {day}
          BY <1>4, <1>5, <1>7, <1>10, <3>2
        <4>2. Cardinality((F \ A) \cup {day}) = Cardinality(F \ A) + 1
          BY <1>2, <1>4, OneMore
        <4>3. entries[e].lives = StartLives - Cardinality(F \ A) /\ next.lives = entries[e].lives - 1
          BY <1>2, <2>2, <2>6, <3>2
        <4> DEFINE before == Cardinality(F \ A)
                   after == Cardinality((FacedAlive(e))' \ (AccountedWins(e))')
        <4>4. after = before + 1 /\ before \in Nat /\ entries[e].lives = StartLives - before
          BY <1>8, <4>1, <4>2, <4>3
        <4> HIDE DEF before, after
        <4>5. next.lives = StartLives - after
          BY <1>8, <4>3, <4>4
        <4> QED
          BY <4>5 DEF after
      <3>3. CASE ~gain /\ entries[e].status = "island"
        <4>1. (FacedAlive(e))' \ (AccountedWins(e))' = F \ A
          BY <1>5, <1>7, <3>3
        <4> QED
          BY <1>2, <2>2, <2>6, <3>3, <4>1
      <3> QED
        BY <2>7, <3>1, <3>2, <3>3
    <2>10. e \in Eliminated <=> entries[e].status = "alive" /\ next.status = "island"
      BY <2>3, <2>5, <2>7 DEF Consistent
    <2> QED
      BY <2>2, <2>3, <2>4, <2>8, <2>9, <2>10
  <1> QED
    BY <1>9, <1>10

LEMMA WriteEntriesSafe ==
  ASSUME SeasonInv, WriteEntries
  PROVE  SeasonInv'
  <1> DEFINE day == worker.day
  <1>1. /\ UNCHANGED <<status, label, joined, openAtJoin, pick, requested>> /\ WorkerUnchanged
        /\ BulkSettles("entries") /\ "entries" \in Bulks /\ worker.pc = "apply"
        /\ "entries" \in worker.todo
    BY DEF WriteEntries, WorkerUnchanged, roster, Bulks, BulkSettles
  <1>2. /\ SeasonTyped /\ OnceLocked /\ NoTraceBefore /\ NobodyLate /\ Standing
        /\ day \in Matchdays /\ worker.members \subseteq Players
        /\ worker.effects \in [worker.members -> EffectType]
        /\ ~resolution[day].recorded /\ status[day] # "open"
        /\ resolution[day].eliminated = {}
    BY <1>1, ApplyFacts
  <1>3. /\ worker' = [pc |-> worker'.pc, day |-> worker'.day, results |-> worker'.results,
                      members |-> worker'.members, effects |-> worker'.effects, todo |-> worker'.todo]
        /\ worker'.day = day /\ worker'.members = worker.members
        /\ worker'.effects = worker.effects /\ worker'.results = worker.results
        /\ worker'.todo = worker.todo \ {"entries"} /\ worker'.todo \subseteq Bulks
        /\ \/ worker'.pc = "mark" /\ worker.todo = {"entries"}
           \/ worker'.pc = "apply" /\ worker.todo # {"entries"}
    BY <1>1, <1>2, BulkIs
  <1> HIDE DEF day
  <1>4. /\ entries' \in [Players -> Entry]
        /\ \A e \in Players : Consistent(entries'[e])
    <2>1. entries' = [e \in Players |-> entries'[e]]
      BY DEF WriteEntries
    <2>2. \A e \in Players : entries'[e] \in Entry /\ Consistent(entries'[e])
      BY EntriesBalance
    <2> QED
      BY <2>1, <2>2
  <1>5. /\ faced' \in [Players -> [Matchdays -> {"not", "alive", "island"}]]
        /\ \A e \in Players, n \in Matchdays : n # day => faced'[e][n] = faced[e][n]
        /\ \A e \in worker.members : faced'[e][day] # "not"
        /\ \A e \in Players \ worker.members : faced'[e] = faced[e]
    <2>1. faced' = [e \in Players |->
                      IF e \in worker.members THEN [faced[e] EXCEPT ![day] = entries[e].status]
                      ELSE faced[e]]
      BY DEF WriteEntries, day
    <2>2. /\ faced \in [Players -> [Matchdays -> {"not", "alive", "island"}]]
          /\ \A e \in Players : entries[e].status \in {"alive", "island"}
      BY <1>2, TypeFacts DEF Entry
    <2> QED
      BY <1>2, <2>1, <2>2
  <1>6. /\ resolution' \in [Matchdays -> [recorded: BOOLEAN, eliminated: SUBSET Players]]
        /\ \A n \in Matchdays : n # day => resolution'[n] = resolution[n]
        /\ resolution'[day].recorded = resolution[day].recorded /\ resolution'[day].eliminated = Eliminated
    <2>1. resolution' = [resolution EXCEPT ![day].eliminated = Eliminated]
      BY DEF WriteEntries, day
    <2>2. Eliminated \subseteq Players
      BY <1>2 DEF Eliminated
    <2> QED
      BY <1>2, <2>1, <2>2, TypeFacts
  <1>7. NoTraceBefore'
    <2>1. Written' /\ (Labelled' <=> Labelled) /\ ~Written
      BY <1>1, <1>3 DEF Written, Labelled
    <2> SUFFICES ASSUME NEW n \in Matchdays, ~resolution'[n].recorded
                 PROVE  /\ n # day => /\ resolution'[n].eliminated = {}
                                      /\ \A e \in Players : faced'[e][n] = "not"
                        /\ ~(Labelled /\ n = day) => \A e \in Players : label[e][n] = "none"
      BY <1>1, <1>3, <2>1 DEF NoTraceBefore
    <2>2. ~resolution[n].recorded
      BY <1>2, <1>6
    <2>3. /\ resolution[n].eliminated = {} /\ \A e \in Players : faced[e][n] = "not"
          /\ ~(Labelled /\ n = day) => \A e \in Players : label[e][n] = "none"
      BY <1>2, <2>1, <2>2 DEF NoTraceBefore, day
    <2> QED
      BY <1>5, <1>6, <2>3
  <1>8. NobodyLate'
    <2>1. JoinedInTimeFaces'
      <3> SUFFICES ASSUME NEW n \in Matchdays, resolution'[n].recorded, NEW e \in joined, n \in openAtJoin[e]
                   PROVE  faced'[e][n] # "not"
        BY <1>1 DEF JoinedInTimeFaces
      <3>1. resolution[n].recorded /\ n # day /\ e \in Players
        BY <1>2, <1>6, TypeFacts
      <3> QED
        BY <1>2, <1>5, <3>1 DEF NobodyLate, JoinedInTimeFaces
    <2> QED
      BY <1>1, <1>2, <1>3, <1>5, <2>1 DEF NobodyLate, Resolving, day
  <1>9. EffectsSound' /\ LabelsSound'
    BY <1>1, <1>3 DEF SeasonInv, EffectsSound, LabelsSound, day
  <1>10. Ledger'
    BY EntriesBalance DEF Ledger
  <1>11. Standing'
    <2> SUFFICES ASSUME NEW e \in Players
                 PROVE  /\ entries'[e].status = "alive" => (Named(e))' = {}
                        /\ entries'[e].status = "island" => \E n \in Matchdays : (Named(e))' = {n}
      BY <1>4 DEF Standing
    <2>1. /\ e \in Eliminated <=> entries[e].status = "alive" /\ entries'[e].status = "island"
          /\ entries[e].status = "island" => entries'[e].status = "island"
      BY EntriesBalance
    <2>2. entries[e].status \in {"alive", "island"} /\ entries'[e].status \in {"alive", "island"}
      BY <1>2, <1>4, TypeFacts DEF Entry
    <2>3. /\ entries[e].status = "alive" => Named(e) = {}
          /\ entries[e].status = "island" => \E n \in Matchdays : Named(e) = {n}
      BY <1>2 DEF Standing
    <2>4. (Named(e))' = IF e \in Eliminated THEN Named(e) \cup {day} ELSE Named(e)
      BY <1>2, <1>6 DEF Named
    <2> QED
      BY <1>2, <2>1, <2>2, <2>3, <2>4
  <1> QED
    BY <1>1, <1>2, <1>3, <1>4, <1>5, <1>6, <1>7, <1>8, <1>9, <1>10, <1>11, TypeFacts, WorkerStep
      DEF OnceLocked, day

LEMMA LabelPicksSafe ==
  ASSUME SeasonInv, LabelPicks
  PROVE  SeasonInv'
  <1> DEFINE day == worker.day
             Gain(e) == e \in worker.members /\ worker.effects[e].pointsDelta = 1
  <1>1. /\ UNCHANGED <<status, entries, resolution, faced, joined, openAtJoin, pick, requested>>
        /\ WorkerUnchanged /\ BulkSettles("picks") /\ "picks" \in Bulks /\ worker.pc = "apply"
        /\ "picks" \in worker.todo
    BY DEF LabelPicks, WorkerUnchanged, roster, Bulks, BulkSettles
  <1>2. /\ SeasonTyped /\ OnceLocked /\ NoTraceBefore /\ NobodyLate /\ Standing
        /\ day \in Matchdays /\ worker.members \subseteq Players
        /\ worker.effects \in [worker.members -> EffectType]
        /\ ~resolution[day].recorded /\ status[day] # "open"
        /\ \A e \in Players : label[e][day] = "none"
    BY <1>1, ApplyFacts
  <1>3. /\ worker' = [pc |-> worker'.pc, day |-> worker'.day, results |-> worker'.results,
                      members |-> worker'.members, effects |-> worker'.effects, todo |-> worker'.todo]
        /\ worker'.day = day /\ worker'.members = worker.members
        /\ worker'.effects = worker.effects /\ worker'.results = worker.results
        /\ worker'.todo = worker.todo \ {"picks"} /\ worker'.todo \subseteq Bulks
        /\ \/ worker'.pc = "mark" /\ worker.todo = {"picks"}
           \/ worker'.pc = "apply" /\ worker.todo # {"picks"}
    BY <1>1, <1>2, BulkIs
  <1> HIDE DEF day
  <1>4. /\ label' \in [Players -> [Matchdays -> Results]]
        /\ \A e \in Players, n \in Matchdays : n # day => label'[e][n] = label[e][n]
        /\ \A e \in Players : label'[e][day] = "won" <=> Gain(e)
    <2>1. label' = [e \in Players |->
                      IF e \in worker.members /\ pick[e][day] # NoTeam
                      THEN [label[e] EXCEPT ![day] = PickResultOf(worker.effects[e])]
                      ELSE label[e]]
      BY DEF LabelPicks, day
    <2>2. label \in [Players -> [Matchdays -> Results]]
      BY <1>2, TypeFacts
    <2>3. \A e \in worker.members :
            /\ PickResultOf(worker.effects[e]) \in Results
            /\ PickResultOf(worker.effects[e]) = "won" <=> worker.effects[e].pointsDelta = 1
            /\ worker.effects[e].pointsDelta = 1 => pick[e][day] # NoTeam
      BY <1>1, <1>2, WonLabel DEF SeasonInv, EffectsSound, day
    <2>4. \A e \in Players : /\ label'[e] \in [Matchdays -> Results]
                             /\ \A n \in Matchdays : n # day => label'[e][n] = label[e][n]
      BY <1>2, <2>1, <2>2, <2>3
    <2>5. ASSUME NEW e \in Players PROVE label'[e][day] = "won" <=> Gain(e)
      <3>1. CASE e \in worker.members /\ pick[e][day] # NoTeam
        <4>1. label'[e] = [label[e] EXCEPT ![day] = PickResultOf(worker.effects[e])]
          BY <2>1, <3>1
        <4>2. label'[e][day] = PickResultOf(worker.effects[e])
          BY <1>2, <2>2, <4>1
        <4> QED
          BY <2>3, <3>1, <4>2
      <3>2. CASE ~(e \in worker.members /\ pick[e][day] # NoTeam)
        <4>1. label'[e][day] = "none"
          BY <1>2, <2>1, <3>2
        <4> QED
          BY <2>3, <3>2, <4>1
      <3> QED
        BY <3>1, <3>2
    <2> QED
      BY <2>1, <2>4, <2>5
  <1>5. NoTraceBefore'
    <2>1. Labelled' /\ (Written' <=> Written)
      BY <1>1, <1>3 DEF Written, Labelled
    <2> QED
      BY <1>1, <1>2, <1>3, <1>4, <2>1 DEF NoTraceBefore, day
  <1>6. NobodyLate'
    <2>1. (Written' <=> Written) /\ Resolving
      BY <1>1, <1>3 DEF Written, Resolving
    <2> QED
      BY <1>1, <1>2, <1>3, <2>1 DEF NobodyLate, JoinedInTimeFaces, day
  <1>7. EffectsSound'
    BY <1>1, <1>3 DEF SeasonInv, EffectsSound, day
  <1>8. LabelsSound'
    BY <1>3, <1>4 DEF LabelsSound
  <1>9. Standing'
    BY <1>1 DEF SeasonInv, Standing, Named
  <1>10. Ledger'
    <2> SUFFICES ASSUME NEW e \in Players
                 PROVE  (AccountedWins(e))' = AccountedWins(e) /\ (FacedAlive(e))' = FacedAlive(e)
      BY <1>1 DEF SeasonInv, Ledger
    <2>1. (FacedAlive(e))' = FacedAlive(e)
      BY <1>1 DEF FacedAlive
    <2>2. (Wins(e))' \ {day} = Wins(e) \ {day} /\ (day \in (Wins(e))' <=> Gain(e))
      BY <1>2, <1>4 DEF Wins
    <2>3. AccountedWins(e) = (Wins(e) \ {day}) \cup {n \in {day} : "entries" \notin worker.todo /\ Gain(e)}
      BY <1>1 DEF AccountedWins, day
    <2>4. CASE worker'.pc = "mark"
      <3>1. (AccountedWins(e))' = (Wins(e))' /\ "entries" \notin worker.todo
        BY <1>3, <2>4 DEF AccountedWins
      <3> QED
        BY <2>1, <2>2, <2>3, <3>1
    <2>5. CASE worker'.pc = "apply"
      <3>1. (AccountedWins(e))' = ((Wins(e))' \ {day}) \cup {n \in {day} : "entries" \notin worker.todo /\ Gain(e)}
        BY <1>3, <2>5 DEF AccountedWins
      <3> QED
        BY <2>1, <2>2, <2>3, <3>1
    <2> QED
      BY <1>3, <2>4, <2>5
  <1> QED
    BY <1>1, <1>2, <1>3, <1>4, <1>5, <1>6, <1>7, <1>8, <1>9, <1>10, TypeFacts, WorkerStep
      DEF OnceLocked, day

-----------------------------------------------------------------------------
(* The record and the flip.                                                *)

LEMMA RecordSafe ==
  ASSUME SeasonInv, RecordResolution
  PROVE  SeasonInv'
  <1> DEFINE day == worker.day
  <1>1. /\ UNCHANGED <<status, entries, label, faced, joined, openAtJoin, pick, requested>>
        /\ WorkerUnchanged /\ worker.pc = "mark"
        /\ resolution' = [resolution EXCEPT ![day].recorded = TRUE]
        /\ worker' = [Resting EXCEPT !.pc = "flip", !.day = day]
    BY DEF RecordResolution, WorkerUnchanged, roster
  <1>2. /\ SeasonTyped /\ OnceLocked /\ NoTraceBefore /\ NobodyLate /\ Standing /\ Written /\ Labelled
        /\ Resolving /\ day \in Matchdays /\ status[day] # "open"
    BY <1>1, TypeFacts DEF SeasonInv, Written, Labelled, Resolving, OnceLocked
  <1>3. /\ worker' = [pc |-> worker'.pc, day |-> worker'.day, results |-> worker'.results,
                      members |-> worker'.members, effects |-> worker'.effects, todo |-> worker'.todo]
        /\ worker'.pc = "flip" /\ worker'.day = day /\ worker'.members = {} /\ worker'.todo = {}
    BY <1>1, RestingIs
  <1>4. /\ resolution' \in [Matchdays -> [recorded: BOOLEAN, eliminated: SUBSET Players]]
        /\ \A n \in Matchdays : n # day => resolution'[n] = resolution[n]
        /\ resolution'[day].recorded
        /\ \A n \in Matchdays : resolution'[n].eliminated = resolution[n].eliminated
    BY <1>1, <1>2, TypeFacts
  <1>5. NoTraceBefore'
    <2> SUFFICES ASSUME NEW n \in Matchdays, ~resolution'[n].recorded
                 PROVE  /\ resolution'[n].eliminated = {}
                        /\ \A e \in Players : faced[e][n] = "not" /\ label[e][n] = "none"
      BY <1>1 DEF NoTraceBefore
    <2>1. n # day /\ resolution'[n] = resolution[n]
      BY <1>4
    <2> QED
      BY <1>2, <2>1 DEF NoTraceBefore
  <1>6. NobodyLate'
    <2>1. JoinedInTimeFaces'
      <3> SUFFICES ASSUME NEW n \in Matchdays, resolution'[n].recorded, NEW e \in joined,
                          n \in openAtJoin[e]
                   PROVE  faced[e][n] # "not"
        BY <1>1 DEF JoinedInTimeFaces
      <3>1. CASE n = day
        BY <1>2, <3>1 DEF NobodyLate
      <3>2. CASE n # day
        BY <1>2, <1>4, <3>2 DEF NobodyLate, JoinedInTimeFaces
      <3> QED
        BY <3>1, <3>2
    <2> QED
      BY <1>3, <2>1 DEF NobodyLate, Resolving, Written
  <1>7. EffectsSound' /\ LabelsSound'
    BY <1>3 DEF EffectsSound, LabelsSound
  <1>8. Ledger'
    <2>1. \A e \in Players : (AccountedWins(e))' = AccountedWins(e) /\ (FacedAlive(e))' = FacedAlive(e)
      BY <1>1, <1>3 DEF AccountedWins, Wins, FacedAlive
    <2> QED
      BY <1>1, <2>1 DEF SeasonInv, Ledger
  <1>9. Standing'
    <2>1. \A e \in Players : (Named(e))' = Named(e)
      BY <1>4 DEF Named
    <2> QED
      BY <1>1, <1>2, <2>1 DEF Standing
  <1>10. \A n \in Matchdays : resolution'[n].recorded => status'[n] # "open"
    BY <1>1, <1>2, <1>4 DEF OnceLocked
  <1>11. ~Resolving'
    BY <1>3 DEF Resolving
  <1>12. /\ \A n \in Matchdays : resolution[n].recorded => resolution'[n].recorded
         /\ \A n \in Matchdays : status'[n] = "resolved" => resolution'[n].recorded
    BY <1>1, <1>2, <1>4 DEF OnceLocked
  <1> HIDE DEF day
  <1> QED
    BY <1>1, <1>2, <1>3, <1>4, <1>5, <1>6, <1>7, <1>8, <1>9, <1>10, <1>11, <1>12, TypeFacts, WorkerStep

LEMMA FinishSafe ==
  ASSUME SeasonInv, FinishMatchday
  PROVE  SeasonInv'
  <1>1. /\ UNCHANGED <<entries, label, faced, resolution, joined, openAtJoin, pick, requested>>
        /\ WorkerUnchanged /\ worker.pc = "flip" /\ worker' = Resting
    BY DEF FinishMatchday, WorkerUnchanged, roster, table
  <1>2. /\ SeasonTyped /\ OnceLocked /\ NoTraceBefore /\ NobodyLate /\ Standing
        /\ worker.day \in Matchdays
    BY <1>1, TypeFacts DEF SeasonInv
  <1>3. /\ worker' = [pc |-> worker'.pc, day |-> worker'.day, results |-> worker'.results,
                      members |-> worker'.members, effects |-> worker'.effects, todo |-> worker'.todo]
        /\ worker'.pc = "idle" /\ worker'.day \in Matchdays /\ worker'.members = {}
        /\ worker'.todo = {}
    BY <1>1, RestingIs
  <1>4. /\ status' \in [Matchdays -> Statuses]
        /\ \A n \in Matchdays : status[n] # "open" => status'[n] # "open"
        /\ \A n \in Matchdays : status'[n] = "resolved" => resolution[n].recorded
    BY <1>1, <1>2, TypeFacts DEF FinishMatchday, Statuses, OnceLocked
  <1>5. NoTraceBefore' /\ NobodyLate' /\ EffectsSound' /\ LabelsSound' /\ Standing'
    BY <1>1, <1>2, <1>3
      DEF NoTraceBefore, Written, Labelled, NobodyLate, Resolving, JoinedInTimeFaces,
          EffectsSound, LabelsSound, Standing, Named
  <1>6. Ledger'
    <2>1. \A e \in Players : (AccountedWins(e))' = AccountedWins(e) /\ (FacedAlive(e))' = FacedAlive(e)
      BY <1>1, <1>3 DEF AccountedWins, Wins, FacedAlive
    <2> QED
      BY <1>1, <2>1 DEF SeasonInv, Ledger
  <1>7. \A n \in Matchdays : resolution'[n].recorded => status'[n] # "open"
    BY <1>1, <1>2, <1>4 DEF OnceLocked
  <1>8. ~Resolving'
    BY <1>3 DEF Resolving
  <1> QED
    BY <1>1, <1>2, <1>3, <1>4, <1>5, <1>6, <1>7, <1>8, TypeFacts, WorkerStep

-----------------------------------------------------------------------------
LEMMA NextSeason == SeasonInv /\ [Next]_vars => SeasonInv'
  <1> SUFFICES ASSUME SeasonInv, [Next]_vars PROVE SeasonInv'
    OBVIOUS
  <1>1. CASE \E e \in Players : Join(e)
    BY <1>1, JoinSafe
  <1>2. CASE \E s \in Submissions : Submit(s)
    BY <1>2, SubmitSafe
  <1>3. CASE \/ \E o \in Desks : Operate(o)
             \/ \E n \in Matchdays : RequestResolution(n)
             \/ Tick
    BY <1>3, OperatorSafe
  <1>4. CASE Resolve
    BY <1>4, TakeSafe, ReadPicksSafe, WriteEntriesSafe, LabelPicksSafe, RecordSafe, FinishSafe
      DEF Resolve
  <1>5. CASE UNCHANGED vars
    <2>1. UNCHANGED <<status, outcome, entries, label, resolution, faced, joined, openAtJoin, pick,
                      requested, worker, submission, desk, now>>
      BY <1>5 DEF vars, calendar, table, roster
    <2>2. SeasonTyped'
      BY <2>1 DEF SeasonInv, SeasonTyped, SeasonTypeOK
    <2>3. OnceLocked' /\ NoTraceBefore' /\ NobodyLate' /\ EffectsSound' /\ LabelsSound' /\ Standing'
          /\ SubmissionsSound'
      BY <2>1
        DEF SeasonInv, OnceLocked, Resolving, NoTraceBefore, Written, Labelled, NobodyLate,
            JoinedInTimeFaces, EffectsSound, LabelsSound, Standing, Named, SubmissionsSound
    <2>4. Ledger'
      BY <2>1, LedgerKept DEF SeasonInv
    <2> QED
      BY <2>2, <2>3, <2>4 DEF SeasonInv
  <1> QED
    BY <1>1, <1>2, <1>3, <1>4, <1>5 DEF Next

(* Through every interleaving of joins, picks, closes, corrected scores    *)
(* and resolutions the whole invariant holds: the accounts balance even    *)
(* between the two bulk writes of apply.ts.                                *)
THEOREM SeasonInvariance == Spec => []SeasonInv
  <1>1. Init => SeasonInv
    BY InitSeason
  <1>2. SeasonInv /\ [Next]_vars => SeasonInv'
    BY NextSeason
  <1> QED
    BY <1>1, <1>2, PTL DEF Spec

(* The collections, the worker's variables and the picks under way keep    *)
(* their shapes, and the worker only ever holds entries of the penka.      *)
THEOREM SeasonTypeCorrect == Spec => []SeasonTypeOK
  <1>1. SeasonInv => SeasonTypeOK
    BY DEF SeasonInv, SeasonTyped
  <1> QED
    BY <1>1, SeasonInvariance, PTL

(* Nobody escapes a matchday that was open when they joined: load.ts reads *)
(* the entries after the lock, so whoever joined before is a member.       *)
THEOREM EveryoneInTimeFaces == Spec => []JoinedInTimeFaces
  <1>1. SeasonInv => JoinedInTimeFaces
    BY DEF SeasonInv, NobodyLate
  <1> QED
    BY <1>1, SeasonInvariance, PTL

(* Whenever the worker is not in the middle of apply.ts the standings are  *)
(* what the labels and the matchdays faced add up to.                      *)
THEOREM AccountsAreBalanced == Spec => []AccountsBalance
  <1>1. SeasonInv => AccountsBalance
    <2> SUFFICES ASSUME SeasonInv, worker.pc # "apply", NEW e \in joined
                 PROVE  /\ entries[e].points = Cardinality(Wins(e))
                        /\ entries[e].lives =
                             StartLives - Cardinality({n \in Matchdays : faced[e][n] = "alive"} \ Wins(e))
      BY DEF AccountsBalance
    <2>1. e \in Players
      BY TypeFacts DEF SeasonInv
    <2>2. AccountedWins(e) = Wins(e)
      BY DEF AccountedWins
    <2> QED
      BY <2>1, <2>2 DEF SeasonInv, Ledger, FacedAlive
  <1> QED
    BY <1>1, SeasonInvariance, PTL

(* A player out of lives is on the island and named by exactly one         *)
(* matchday of the history; a player still alive is named by none          *)
(* (resolve-matchday.ts builds the list, apply.ts records it).             *)
THEOREM EliminatedOnceOnly == Spec => []EliminatedOnce
  <1>1. SeasonInv => EliminatedOnce
    <2> SUFFICES ASSUME SeasonInv, NEW e \in joined
                 PROVE  /\ Cardinality(Named(e)) = (IF entries[e].status = "island" THEN 1 ELSE 0)
                        /\ entries[e].status = "island" <=> entries[e].lives = 0
      BY DEF EliminatedOnce, Named
    <2>1. e \in Players /\ entries[e].status \in {"alive", "island"} /\ entries[e].lives \in Nat
      BY TypeFacts DEF SeasonInv, Entry
    <2>2. /\ Consistent(entries[e])
          /\ entries[e].status = "alive" => Named(e) = {}
          /\ entries[e].status = "island" => \E n \in Matchdays : Named(e) = {n}
      BY <2>1 DEF SeasonInv, Standing
    <2>3. Cardinality({}) = 0 /\ \A n \in Matchdays : Cardinality({n}) = 1
      BY FS_EmptySet, FS_Singleton
    <2>4. Cardinality(Named(e)) = IF entries[e].status = "island" THEN 1 ELSE 0
      BY <2>1, <2>2, <2>3
    <2>5. entries[e].status = "island" <=> entries[e].lives = 0
      BY <2>1, <2>2 DEF Consistent
    <2> QED
      BY <2>4, <2>5
  <1> QED
    BY <1>1, SeasonInvariance, PTL

(* No step stores a pick ahead of a matchday not settled for the penka,    *)
(* though routes.ts writes it three queries after it read the calendar and *)
(* a late close may have put an earlier matchday back to locked meanwhile. *)
THEOREM PicksComeInOrder == Spec => PicksInOrder
  <1>1. SeasonInv /\ [Next]_vars =>
          [\A e \in Players, n \in Matchdays :
             pick'[e][n] # pick[e][n] => \A m \in 1..(n - 1) : resolution[m].recorded]_vars
    <2> SUFFICES ASSUME SeasonInv, Next, NEW e \in Players, NEW n \in Matchdays,
                        pick'[e][n] # pick[e][n]
                 PROVE  \A m \in 1..(n - 1) : resolution[m].recorded
      OBVIOUS
    <2>1. pick' # pick
      OBVIOUS
    <2>2. PICK s \in Submissions : SubmitWrite(s)
      BY <2>1
        DEF Next, Join, Submit, SubmitReadEntry, SubmitReadCalendar, SubmitValidate, Operate, DeskReads,
            Close, SetResult, RequestResolution, OperatorUnchanged, Resolve, TakeCommand, ReadPicks, WriteEntries,
            LabelPicks, RecordResolution, FinishMatchday, WorkerUnchanged, Tick
    <2>3. pick \in [Players -> [Matchdays -> Teams \cup {NoTeam}]]
      BY TypeFacts DEF SeasonInv
    <2>4. n = submission[s].day /\ submission[s].pc = "write"
      BY <2>2, <2>3 DEF SubmitWrite
    <2> QED
      BY <2>4 DEF SeasonInv, SubmissionsSound
  <1> QED
    BY <1>1, SeasonInvariance, PTL DEF Spec, PicksInOrder

===============================================================================
