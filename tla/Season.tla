-------------------------------- MODULE Season --------------------------------
(***************************************************************************)
(* A penka over several matchdays, seen by its players: they join and pick *)
(* through apps/api (POST /penkas/join, POST /penkas/:id/picks) while the  *)
(* operator closes, scores and requests matchdays and one worker resolves  *)
(* them.  Every query of a pick submission, of a close and of a result is  *)
(* a step of its own; the worker, whose failures and rivals are the        *)
(* subject of Resolution, reads and writes each collection at once and is  *)
(* never interrupted for good.                                             *)
(***************************************************************************)
EXTENDS GameRules

CONSTANTS
  LastMatchday,        \* the calendar has matchdays 1..LastMatchday
  Fixtures,            \* the matches of each matchday, [home, away]
  LockAt,              \* the instant each matchday locks on its own
  Players,             \* entries of the penka, once their player has joined
  Submissions, Player, \* pick requests in flight at once, and whose they are
  Desks,               \* close and set-result requests in flight at once
  StartLives, IslandEnabled, \* the penka's settings
  Scores,              \* bound: the outcomes the matches of each matchday may be given
  MaxTime              \* bound: the last instant of the clock

Matchdays == 1..LastMatchday

ASSUME SeasonAssumption ==
  /\ LastMatchday \in Nat \ {0}
  /\ \A n \in Matchdays : Fixtures[n] \subseteq [home: Teams, away: Teams] /\ Fixtures[n] # {}
  /\ LockAt \in [Matchdays -> Nat]
  /\ Player \in [Submissions -> Players]
  /\ StartLives \in 1..3
  /\ Scores \in [Matchdays -> SUBSET Outcomes]
  /\ IslandEnabled \in BOOLEAN
  /\ MaxTime \in Nat

VARIABLES
  status,     \* matchdays.status
  outcome,    \* matches.outcome
  joined,     \* the players that have an entry
  entries,    \* entries
  pick,       \* picks.teamCode, NoTeam when there is none
  label,      \* picks.result
  resolution, \* resolutions: [recorded, eliminated]
  requested,  \* matchdays with a command in the queue
  worker,     \* the worker and what it has read
  submission, \* the pick requests and what each has read
  desk,       \* the close and set-result requests, and what each is about to write
  now,        \* the clock
  faced,      \* history: how each entry met each matchday: not, alive or on the island
  openAtJoin  \* history: the matchdays open when each player joined

calendar == <<status, outcome>>
table == <<entries, label, resolution, faced>>
roster == <<joined, openAtJoin>>
vars == <<calendar, table, roster, pick, requested, worker, submission, desk, now>>

Matches(n, results) ==
  {[home |-> f.home, away |-> f.away, outcome |-> results[f]] : f \in Fixtures[n]}

NewEntry == [lives |-> StartLives, points |-> 0, status |-> "alive", usedTeams |-> {}]

NoResults(n) == [f \in Fixtures[n] |-> NoOutcome]
Resting == [pc |-> "idle", day |-> 1, results |-> NoResults(1), members |-> {},
            effects |-> <<>>, todo |-> {}]
AtRest == [pc |-> "idle", day |-> 1]
NoRequest == [pc |-> "idle", team |-> NoTeam, entry |-> NewEntry, day |-> 1, status |-> "open"]

Bulks == {"entries", "picks"}

SeasonTypeOK ==
  /\ status \in [Matchdays -> Statuses]
  /\ \A n \in Matchdays : outcome[n] \in [Fixtures[n] -> Outcomes \cup {NoOutcome}]
  /\ joined \subseteq Players
  /\ entries \in [Players -> Entry]
  /\ pick \in [Players -> [Matchdays -> Teams \cup {NoTeam}]]
  /\ label \in [Players -> [Matchdays -> Results]]
  /\ resolution \in [Matchdays -> [recorded: BOOLEAN, eliminated: SUBSET Players]]
  /\ requested \subseteq Matchdays
  /\ worker.pc \in {"idle", "picks", "apply", "mark", "flip"}
  /\ worker.members \subseteq joined /\ worker.todo \subseteq Bulks
  /\ submission \in [Submissions ->
       [pc: {"idle", "calendar", "validate", "write"}, team: Teams \cup {NoTeam},
        entry: Entry, day: Matchdays, status: Statuses]]
  /\ desk \in [Desks -> [pc: {"idle", "close", "result"}, day: Matchdays]]
  /\ now \in 0..MaxTime
  /\ faced \in [Players -> [Matchdays -> {"not", "alive", "island"}]]
  /\ openAtJoin \in [Players -> SUBSET Matchdays]

Init ==
  /\ status = [n \in Matchdays |-> "open"]
  /\ outcome = [n \in Matchdays |-> NoResults(n)]
  /\ joined = {}
  /\ entries = [e \in Players |-> NewEntry]
  /\ pick = [e \in Players |-> [n \in Matchdays |-> NoTeam]]
  /\ label = [e \in Players |-> [n \in Matchdays |-> "none"]]
  /\ resolution = [n \in Matchdays |-> [recorded |-> FALSE, eliminated |-> {}]]
  /\ requested = {}
  /\ worker = Resting
  /\ submission = [s \in Submissions |-> NoRequest]
  /\ desk = [o \in Desks |-> AtRest]
  /\ now = 0
  /\ faced = [e \in Players |-> [n \in Matchdays |-> "not"]]
  /\ openAtJoin = [e \in Players |-> {}]

-----------------------------------------------------------------------------
(* Players. *)

(* ensureEntry: joining twice is joining once. *)
Join(e) ==
  /\ e \notin joined
  /\ joined' = joined \cup {e}
  /\ openAtJoin' = [openAtJoin EXCEPT ![e] = {n \in Matchdays : status[n] = "open"}]
  /\ UNCHANGED <<calendar, table, pick, requested, worker, submission, desk, now>>

SubmissionBecomes(s, state) == submission' = [submission EXCEPT ![s] = state]

SubmitUnchanged == UNCHANGED <<calendar, table, roster, requested, worker, desk, now>>

(* The entry is read first ...                                             *)
SubmitReadEntry(s) ==
  /\ submission[s].pc = "idle"
  /\ Player[s] \in joined
  /\ \E team \in Teams :
       SubmissionBecomes(s, [NoRequest EXCEPT !.pc = "calendar", !.team = team,
                                              !.entry = entries[Player[s]]])
  /\ UNCHANGED pick /\ SubmitUnchanged

(* ... then the calendar, which says what matchday the pick is for ...     *)
SubmitReadCalendar(s) ==
  /\ submission[s].pc = "calendar"
  /\ LET day == CurrentMatchday(status)
     IN  SubmissionBecomes(s, [submission[s] EXCEPT !.pc = "validate", !.day = day,
                                                    !.status = status[day]])
  /\ UNCHANGED pick /\ SubmitUnchanged

(* ... and the engine is asked about both, at the server's clock ...       *)
SubmitValidate(s) ==
  /\ submission[s].pc = "validate"
  /\ LET self == submission[s]
         answer == ValidatePick(self.entry, self.status, LockAt[self.day], now,
                                Matches(self.day, outcome[self.day]), self.team, IslandEnabled)
     IN  SubmissionBecomes(s, IF answer = "ok" THEN [self EXCEPT !.pc = "write"] ELSE NoRequest)
  /\ UNCHANGED pick /\ SubmitUnchanged

(* ... before the pick is inserted or replaced, whatever happened since.   *)
SubmitWrite(s) ==
  /\ submission[s].pc = "write"
  /\ pick' = [pick EXCEPT ![Player[s]][submission[s].day] = submission[s].team]
  /\ SubmissionBecomes(s, NoRequest)
  /\ SubmitUnchanged

-----------------------------------------------------------------------------
(* The operator.  Both writes look at the status once and then write,      *)
(* whatever it has become: a close may put a resolved matchday back to     *)
(* locked, and a result may be corrected after it was played out.          *)

OperatorUnchanged == UNCHANGED <<table, roster, pick, worker, submission, now>>

DeskBecomes(o, state) == desk' = [desk EXCEPT ![o] = state]

(* loadMatchday, and loadParentMatchday for a match, refuse a resolved one. *)
DeskReads(o, n, write) ==
  /\ desk[o].pc = "idle"
  /\ status[n] # "resolved"
  /\ DeskBecomes(o, [pc |-> write, day |-> n])
  /\ UNCHANGED <<calendar, requested>> /\ OperatorUnchanged

Close(o) ==
  /\ desk[o].pc = "close"
  /\ status' = [status EXCEPT ![desk[o].day] = "locked"]
  /\ DeskBecomes(o, AtRest)
  /\ UNCHANGED <<outcome, requested>> /\ OperatorUnchanged

SetResult(o) ==
  /\ desk[o].pc = "result"
  /\ \E f \in Fixtures[desk[o].day], result \in Scores[desk[o].day] :
       outcome' = [outcome EXCEPT ![desk[o].day][f] = result]
  /\ DeskBecomes(o, AtRest)
  /\ UNCHANGED <<status, requested>> /\ OperatorUnchanged

(* Any matchday may be resolved, not only the current one.                 *)
RequestResolution(n) ==
  /\ Rejection(status[n], Matches(n, outcome[n])) = "ok"
  /\ requested' = requested \cup {n}
  /\ UNCHANGED <<calendar, desk>> /\ OperatorUnchanged

-----------------------------------------------------------------------------
(* The worker. *)

WorkerUnchanged == UNCHANGED <<outcome, roster, pick, submission, desk, now>>

(* Mutation: no gate, a recorded matchday is applied again. *)
TakeCommandUngated(n) ==
  /\ worker.pc = "idle"
  /\ n \in requested
  /\ requested' = requested \ {n}
  /\ worker' = [Resting EXCEPT !.pc = "picks", !.day = n, !.results = outcome[n],
                               !.members = joined]
  /\ UNCHANGED <<status, table>> /\ WorkerUnchanged

(* A recorded matchday only needs its flip; otherwise the matchday, its    *)
(* matches and the entries are read.  A requested matchday stays locked    *)
(* until it is recorded, and complete, so the engine does not refuse it    *)
(* here.                                                                   *)
TakeCommand(n) ==
  /\ worker.pc = "idle"
  /\ n \in requested
  /\ requested' = requested \ {n}
  /\ worker' = IF resolution[n].recorded
               THEN [Resting EXCEPT !.pc = "flip", !.day = n]
               ELSE [Resting EXCEPT !.pc = "picks", !.day = n, !.results = outcome[n],
                                    !.members = joined]
  /\ UNCHANGED <<status, table>> /\ WorkerUnchanged

(* The picks are read in a later query, and the engine is asked.  Entries  *)
(* are as they were read: nobody but this worker changes one.              *)
ReadPicks ==
  /\ worker.pc = "picks"
  /\ worker' = [worker EXCEPT !.pc = "apply", !.todo = Bulks,
                  !.effects = [e \in worker.members |->
                    EntryEffect(entries[e], pick[e][worker.day],
                                Matches(worker.day, worker.results), IslandEnabled)]]
  /\ UNCHANGED <<status, requested, table>> /\ WorkerUnchanged

(* The two bulk writes run in parallel; the record follows the second.     *)
BulkSettles(bulk) ==
  /\ worker.pc = "apply"
  /\ bulk \in worker.todo
  /\ worker' = [worker EXCEPT !.todo = @ \ {bulk},
                              !.pc = IF worker.todo = {bulk} THEN "mark" ELSE "apply"]

Eliminated == {e \in worker.members : IsEliminated(entries[e], worker.effects[e])}

(* resolution.eliminated is known to the engine before anything is written; *)
(* it is noted here and read by nobody until it is recorded.               *)
WriteEntries ==
  /\ BulkSettles("entries")
  /\ entries' = [e \in Players |->
       IF e \in worker.members THEN EntryUpdate(entries[e], worker.effects[e]) ELSE entries[e]]
  /\ faced' = [e \in Players |->
       IF e \in worker.members THEN [faced[e] EXCEPT ![worker.day] = entries[e].status]
       ELSE faced[e]]
  /\ resolution' = [resolution EXCEPT ![worker.day].eliminated = Eliminated]
  /\ UNCHANGED <<status, requested, label>> /\ WorkerUnchanged

(* Labels go on the picks stored by now; an entry without one has nothing  *)
(* to label.                                                               *)
LabelPicks ==
  /\ BulkSettles("picks")
  /\ label' = [e \in Players |->
       IF e \in worker.members /\ pick[e][worker.day] # NoTeam
       THEN [label[e] EXCEPT ![worker.day] = PickResultOf(worker.effects[e])]
       ELSE label[e]]
  /\ UNCHANGED <<status, requested, entries, resolution, faced>> /\ WorkerUnchanged

RecordResolution ==
  /\ worker.pc = "mark"
  /\ resolution' = [resolution EXCEPT ![worker.day].recorded = TRUE]
  /\ worker' = [Resting EXCEPT !.pc = "flip", !.day = worker.day]
  /\ UNCHANGED <<status, requested, entries, label, faced>> /\ WorkerUnchanged

(* finalizeMatchday, for a league of one penka.                            *)
FinishMatchday ==
  /\ worker.pc = "flip"
  /\ status' = [status EXCEPT ![worker.day] = IF @ = "locked" THEN "resolved" ELSE @]
  /\ worker' = Resting
  /\ UNCHANGED <<requested, table>> /\ WorkerUnchanged

-----------------------------------------------------------------------------
Tick ==
  /\ now < MaxTime
  /\ now' = now + 1
  /\ UNCHANGED <<calendar, table, roster, pick, requested, worker, submission, desk>>

Submit(s) == SubmitReadEntry(s) \/ SubmitReadCalendar(s) \/ SubmitValidate(s) \/ SubmitWrite(s)

Operate(o) ==
  \/ \E n \in Matchdays, write \in {"close", "result"} : DeskReads(o, n, write)
  \/ Close(o) \/ SetResult(o)

Resolve ==
  \/ \E n \in Matchdays : TakeCommand(n)
  \/ ReadPicks \/ WriteEntries \/ LabelPicks \/ RecordResolution \/ FinishMatchday

Next ==
  \/ \E e \in Players : Join(e)
  \/ \E s \in Submissions : Submit(s)
  \/ \E o \in Desks : Operate(o)
  \/ \E n \in Matchdays : RequestResolution(n)
  \/ Resolve
  \/ Tick

Spec == Init /\ [][Next]_vars
===============================================================================
