-------------------------------- MODULE Boards --------------------------------
(***************************************************************************)
(* The public board of each penka: one Redis key that apps/api fills on a  *)
(* miss and the resolution worker overwrites or drops.  Both build the     *)
(* board from several queries, so a build can be older than the board it   *)
(* replaces, and can mix the collections of before and after a resolution. *)
(*                                                                         *)
(* Of the standings and the history a board keeps which matchdays they     *)
(* account for; of the picks, that of one player.  The TTL is an expiry    *)
(* that may come at any moment and, for a key written with one, does come. *)
(* A penka is founded, a press of resolve done and a pick validated and    *)
(* stored in one step: what happens inside them is the subject of Founding *)
(* and of Resolution, and so is a press that fails and gives its stamp back. *)
(***************************************************************************)
EXTENDS GameRules

CONSTANTS
  Penkas, Founded,          \* the penkas, and those stored before the season
  Requests, Viewed,         \* board requests in flight at once, and their penka
  LastMatchday, LockAt,     \* the league's calendar
  Cadences,                 \* the profiles the operator may set
  NearLock,                 \* NEAR_LOCK_MS, in ticks
  MaxTime,                  \* bound: the last instant of the clock
  Deploys                   \* may a deploy change the shape of a cached board?

Matchdays == 1..LastMatchday

ASSUME BoardsAssumption ==
  /\ Founded \subseteq Penkas
  /\ Viewed \in [Requests -> Penkas]
  /\ LastMatchday \in Nat \ {0}
  /\ LockAt \in [Matchdays -> Nat]
  /\ Cadences \subseteq {"live", "normal", "slow"}
  /\ NearLock \in Nat /\ MaxTime \in Nat
  /\ Deploys \in BOOLEAN
  /\ Penkas \cap Requests = {}

VARIABLES
  founded,   \* the penkas stored so far
  status,    \* matchdays.status, shared by the penkas of the league
  closing,   \* the matchdays a close request found unresolved and has not written yet
  pick,      \* the player's stored pick of each matchday
  applied,   \* the matchdays the penka's entries account for
  marked,    \* the matchdays with a resolutions document
  requested, \* the penkas stored when the resolution of each matchday was first asked
  profile,   \* ops:pollingProfile
  cache,     \* penka:{id}:board
  build,     \* the board requests and the workers' rebuilds, and what each has read
  job,       \* what the worker is doing for each penka
  now        \* the clock

store == <<founded, status, closing, pick, applied, marked, requested, profile>>
vars == <<store, cache, build, job, now>>

Builders == Requests \cup Penkas
PenkaOf(b) == IF b \in Requests THEN Viewed[b] ELSE b

Profiles == {"live", "normal", "slow"}
PollSeconds == [live |-> 2, normal |-> 10, slow |-> 30]

(* Whatever is stored narrows to a profile; nothing stored is "normal".    *)
ToPollingProfile(raw) == IF raw \in Profiles THEN raw ELSE "normal"

NextPollInSec(chosen, instant, lockAt) ==
  IF chosen = "normal" /\ lockAt - instant < NearLock THEN PollSeconds["live"]
  ELSE PollSeconds[chosen]

NoBoard == [kind |-> "none"]
Unreadable == [kind |-> "unreadable"]
Board == [kind: {"board"}, matchday: Matchdays, isLocked: BOOLEAN, isResolved: BOOLEAN,
          standings: SUBSET Matchdays, pick: Teams \cup {NoTeam}, history: SUBSET Matchdays,
          nextPollInSec: {2, 10, 30}, ttl: BOOLEAN]

NoBuild == [pc |-> "idle", matchday |-> 1, status |-> "open", standings |-> {},
            pick |-> NoTeam, history |-> {}, profile |-> "normal", at |-> 0]
Resting == [pc |-> "idle", matchday |-> 1]

BoardsTypeOK ==
  /\ founded \subseteq Penkas
  /\ status \in [Matchdays -> Statuses] /\ closing \subseteq Matchdays
  /\ pick \in [Penkas -> [Matchdays -> Teams \cup {NoTeam}]]
  /\ marked \in [Penkas -> SUBSET Matchdays]
  /\ \A p \in Penkas : applied[p] \subseteq Matchdays /\ marked[p] \subseteq applied[p]
  /\ requested \in [Matchdays -> SUBSET founded]
  /\ profile \in Profiles \cup {"missing"}
  /\ \A p \in Penkas : cache[p] \in Board \cup {NoBoard, Unreadable}
  /\ build \in [Builders -> [pc: {"idle", "calendar", "entries", "rest", "stamp", "store"},
                 matchday: Matchdays, status: Statuses, standings: SUBSET Matchdays,
                 pick: Teams \cup {NoTeam}, history: SUBSET Matchdays,
                 profile: Profiles, at: 0..MaxTime]]
  /\ job \in [Penkas -> [pc: {"idle", "apply", "mark", "settle", "settle again", "drop",
                             "drop again", "refresh"}, matchday: Matchdays]]
  /\ now \in 0..MaxTime

Init ==
  /\ founded = Founded
  /\ status = [n \in Matchdays |-> "open"]
  /\ closing = {}
  /\ pick = [p \in Penkas |-> [n \in Matchdays |-> NoTeam]]
  /\ applied = [p \in Penkas |-> {}]
  /\ marked = [p \in Penkas |-> {}]
  /\ requested = [n \in Matchdays |-> {}]
  /\ profile = "missing"
  /\ cache = [p \in Penkas |-> NoBoard]
  /\ build = [b \in Builders |-> NoBuild]
  /\ job = [p \in Penkas |-> Resting]
  /\ now = 0

-----------------------------------------------------------------------------
(* Building a board: the calendar, the entries, then the picks of the      *)
(* matchday it found together with the resolutions.                        *)

Building(b, state) == build' = [build EXCEPT ![b] = state]

ReadCalendar(b) ==
  /\ build[b].pc = "calendar"
  /\ LET day == CurrentMatchday(status)
     IN  Building(b, [build[b] EXCEPT !.pc = "entries", !.matchday = day, !.status = status[day]])

ReadEntries(b) ==
  /\ build[b].pc = "entries"
  /\ Building(b, [build[b] EXCEPT !.pc = "rest", !.standings = applied[PenkaOf(b)]])

ReadRest(b) ==
  /\ build[b].pc = "rest"
  /\ Building(b, [build[b] EXCEPT !.pc = IF b \in Requests THEN "stamp" ELSE "store",
                     !.pick = pick[PenkaOf(b)][build[b].matchday],
                     !.history = marked[PenkaOf(b)],
                     !.profile = IF b \in Requests THEN @ ELSE ToPollingProfile(profile)])

(* Mutation: the caller's word is taken for what may be shown.             *)
BuildBoardReveals(read) ==
  [kind |-> "board", matchday |-> read.matchday,
   isLocked |-> IsMatchdayLocked(read.status, LockAt[read.matchday], read.at),
   isResolved |-> read.status = "resolved",
   standings |-> read.standings, pick |-> read.pick, history |-> read.history,
   nextPollInSec |-> NextPollInSec(read.profile, read.at, LockAt[read.matchday]),
   ttl |-> TRUE]

(* buildBoard, and nextPollInSec beside it: a pick leaves only once locked. *)
BuildBoard(read) ==
  LET locked == IsMatchdayLocked(read.status, LockAt[read.matchday], read.at)
  IN  [kind |-> "board", matchday |-> read.matchday, isLocked |-> locked,
       isResolved |-> read.status = "resolved",
       standings |-> read.standings,
       pick |-> IF locked THEN read.pick ELSE NoTeam,
       history |-> read.history,
       nextPollInSec |-> NextPollInSec(read.profile, read.at, LockAt[read.matchday]),
       ttl |-> TRUE]

-----------------------------------------------------------------------------
(* GET /penkas/:id/board.  A hit answers what is stored and changes        *)
(* nothing; an unreadable entry is a miss.                                 *)

RequestUnchanged == UNCHANGED <<store, job, now>>

ParseCachedBoard(raw) == IF raw.kind = "board" THEN raw ELSE NoBoard

Miss(r) ==
  /\ build[r].pc = "idle"
  /\ Viewed[r] \in founded
  /\ ParseCachedBoard(cache[Viewed[r]]) = NoBoard
  /\ Building(r, [NoBuild EXCEPT !.pc = "calendar"])
  /\ UNCHANGED cache /\ RequestUnchanged

RequestReads(r) ==
  /\ ReadCalendar(r) \/ ReadEntries(r) \/ ReadRest(r)
  /\ UNCHANGED cache /\ RequestUnchanged

(* The clock and the profile are read after the queries.                   *)
RequestStamps(r) ==
  /\ build[r].pc = "stamp"
  /\ Building(r, [build[r] EXCEPT !.pc = "store", !.at = now,
                                  !.profile = ToPollingProfile(profile)])
  /\ UNCHANGED cache /\ RequestUnchanged

(* Mutation: the board is stored without a TTL.                            *)
RequestStoresForGood(r) ==
  /\ build[r].pc = "store"
  /\ cache' = [cache EXCEPT ![Viewed[r]] = [BuildBoard(build[r]) EXCEPT !.ttl = FALSE]]
  /\ Building(r, NoBuild)
  /\ RequestUnchanged

RequestStores(r) ==
  /\ build[r].pc = "store"
  /\ cache' = [cache EXCEPT ![Viewed[r]] = BuildBoard(build[r])]
  /\ Building(r, NoBuild)
  /\ RequestUnchanged

(* MongoDB or Redis fails the request, or its host dies: a 500 at most.    *)
RequestFails(r) ==
  /\ build[r].pc # "idle"
  /\ Building(r, NoBuild)
  /\ UNCHANGED cache /\ RequestUnchanged

(* Redis forgets the key, and a deploy may leave another shape under it.   *)
Expire(p) ==
  /\ cache[p].kind = "board" => cache[p].ttl
  /\ cache[p] # NoBoard
  /\ cache' = [cache EXCEPT ![p] = NoBoard]
  /\ UNCHANGED build /\ RequestUnchanged

Deploy(p) ==
  /\ Deploys
  /\ cache[p].kind = "board"
  /\ cache' = [cache EXCEPT ![p] = Unreadable]
  /\ UNCHANGED build /\ RequestUnchanged

-----------------------------------------------------------------------------
(* The worker.  A command may be delivered any number of times; what fails *)
(* inside the resolution itself is the subject of Resolution.              *)

WorkerUnchanged == UNCHANGED <<founded, closing, pick, requested, profile, now>>
JobAt(p, pc) == job' = [job EXCEPT ![p].pc = pc]

Take(p, n) ==
  /\ job[p].pc = "idle"
  /\ p \in requested[n]
  /\ n \in marked[p] \/ status[n] = "locked"
  /\ job' = [job EXCEPT ![p] = [matchday |-> n,
                                pc |-> IF n \in marked[p] THEN "settle again" ELSE "apply"]]
  /\ UNCHANGED <<status, applied, marked, cache, build>> /\ WorkerUnchanged

(* Mutation: the marker is stored before the entries are written.          *)
ApplyMarks(p) ==
  /\ job[p].pc = "apply"
  /\ marked' = [marked EXCEPT ![p] = @ \cup {job[p].matchday}]
  /\ JobAt(p, "mark")
  /\ UNCHANGED <<status, applied, cache, build>> /\ WorkerUnchanged

Apply(p) ==
  /\ job[p].pc = "apply"
  /\ applied' = [applied EXCEPT ![p] = @ \cup {job[p].matchday}]
  /\ JobAt(p, "mark")
  /\ UNCHANGED <<status, marked, cache, build>> /\ WorkerUnchanged

(* Mutation: the board is rebuilt before the marker is stored.             *)
MarkLater(p) ==
  /\ job[p].pc = "mark"
  /\ JobAt(p, "refresh")
  /\ UNCHANGED <<status, applied, marked, cache, build>> /\ WorkerUnchanged

Mark(p) ==
  /\ job[p].pc = "mark"
  /\ marked' = [marked EXCEPT ![p] = @ \cup {job[p].matchday}]
  /\ JobAt(p, "settle")
  /\ UNCHANGED <<status, applied, cache, build>> /\ WorkerUnchanged

(* Mutation: the flip waits for nobody.                                    *)
SettleAlone(p) ==
  /\ job[p].pc \in {"settle", "settle again"}
  /\ LET n == job[p].matchday
         again == job[p].pc = "settle again"
     IN  IF status[n] = "locked"
         THEN /\ status' = [status EXCEPT ![n] = "resolved"]
              /\ JobAt(p, IF again THEN "drop again" ELSE "drop")
         ELSE /\ JobAt(p, IF again THEN "idle" ELSE "refresh")
              /\ UNCHANGED status
  /\ UNCHANGED <<applied, marked, cache, build>> /\ WorkerUnchanged

(* finalizeMatchday: the flip waits for every penka that was asked; a      *)
(* redelivered command ends here unless it is the one that flips.          *)
Settle(p) ==
  /\ job[p].pc \in {"settle", "settle again"}
  /\ LET n == job[p].matchday
         again == job[p].pc = "settle again"
     IN  IF status[n] = "locked" /\ \A q \in requested[n] : n \in marked[q]
         THEN /\ status' = [status EXCEPT ![n] = "resolved"]
              /\ JobAt(p, IF again THEN "drop again" ELSE "drop")
         ELSE /\ JobAt(p, IF again THEN "idle" ELSE "refresh")
              /\ UNCHANGED status
  /\ UNCHANGED <<applied, marked, cache, build>> /\ WorkerUnchanged

(* The boards of the finished matchday are dropped; a Redis that fails is  *)
(* logged, and they live out their TTL.                                    *)
Drop(p) ==
  /\ job[p].pc \in {"drop", "drop again"}
  /\ \/ cache' = [q \in Penkas |-> IF q \in requested[job[p].matchday] THEN NoBoard ELSE cache[q]]
     \/ UNCHANGED cache
  /\ JobAt(p, IF job[p].pc = "drop" THEN "refresh" ELSE "idle")
  /\ UNCHANGED <<status, applied, marked, build>> /\ WorkerUnchanged

(* refreshBoard takes the clock before it reads anything.                  *)
StartRefresh(p) ==
  /\ job[p].pc = "refresh"
  /\ build[p].pc = "idle"
  /\ Building(p, [NoBuild EXCEPT !.pc = "calendar", !.at = now])
  /\ UNCHANGED <<status, applied, marked, job, cache>> /\ WorkerUnchanged

WorkerReads(p) ==
  /\ ReadCalendar(p) \/ ReadEntries(p) \/ ReadRest(p)
  /\ UNCHANGED <<status, applied, marked, job, cache>> /\ WorkerUnchanged

WorkerStores(p) ==
  /\ build[p].pc = "store"
  /\ cache' = [cache EXCEPT ![p] = BuildBoard(build[p])]
  /\ Building(p, NoBuild) /\ JobAt(p, "idle")
  /\ UNCHANGED <<status, applied, marked>> /\ WorkerUnchanged

(* A refresh that fails is logged and the command acked all the same.      *)
RefreshFails(p) ==
  /\ job[p].pc = "refresh"
  /\ Building(p, NoBuild) /\ JobAt(p, "idle")
  /\ UNCHANGED <<status, applied, marked, cache>> /\ WorkerUnchanged

(* The worker dies; its command is redelivered.                            *)
WorkerDies(p) ==
  /\ job[p].pc # "idle"
  /\ Building(p, NoBuild) /\ JobAt(p, "idle")
  /\ UNCHANGED <<status, applied, marked, cache>> /\ WorkerUnchanged

-----------------------------------------------------------------------------
(* What the players and the operator do to the collections.                *)

OutsideUnchanged == UNCHANGED <<applied, marked, cache, build, job>>

(* POST /penkas, at any point of the calendar. *)
Found(p) ==
  /\ p \notin founded
  /\ founded' = founded \cup {p}
  /\ UNCHANGED <<status, closing, pick, requested, profile, now>> /\ OutsideUnchanged

SubmitPick(p, n, team) ==
  /\ p \in founded
  /\ n = CurrentMatchday(status)
  /\ ~IsMatchdayLocked(status[n], LockAt[n], now)
  /\ pick' = [pick EXCEPT ![p][n] = team]
  /\ UNCHANGED <<founded, status, closing, requested, profile, now>> /\ OutsideUnchanged

(* A close that finds its matchday unresolved ...                          *)
CloseReads(n) ==
  /\ status[n] # "resolved"
  /\ closing' = closing \cup {n}
  /\ UNCHANGED <<founded, status, pick, requested, profile, now>> /\ OutsideUnchanged

(* ... writes "locked" whatever the status is by then.                     *)
Close(n) ==
  /\ n \in closing
  /\ closing' = closing \ {n}
  /\ status' = [status EXCEPT ![n] = "locked"]
  /\ UNCHANGED <<founded, pick, requested, profile, now>> /\ OutsideUnchanged

(* The first press stamps the matchday; it and every press after it ask    *)
(* the penkas created before that stamp.  With none there is no request.   *)
RequestResolution(n) ==
  /\ status[n] = "locked"
  /\ requested' = IF requested[n] = {} THEN [requested EXCEPT ![n] = founded] ELSE requested
  /\ UNCHANGED <<founded, status, closing, pick, profile, now>> /\ OutsideUnchanged

SetPollingProfile(cadence) ==
  /\ profile' = cadence
  /\ UNCHANGED <<founded, status, closing, pick, requested, now>> /\ OutsideUnchanged

Tick ==
  /\ now < MaxTime
  /\ now' = now + 1
  /\ UNCHANGED <<founded, status, closing, pick, requested, profile>> /\ OutsideUnchanged

-----------------------------------------------------------------------------
Serve(r) == Miss(r) \/ RequestReads(r) \/ RequestStamps(r) \/ RequestStores(r)

Work(p) ==
  \/ \E n \in Matchdays : Take(p, n)
  \/ Apply(p) \/ Mark(p) \/ Settle(p) \/ Drop(p)
  \/ StartRefresh(p) \/ WorkerReads(p) \/ WorkerStores(p)

Next ==
  \/ \E r \in Requests : Serve(r) \/ RequestFails(r)
  \/ \E p \in Penkas : Work(p) \/ RefreshFails(p) \/ WorkerDies(p) \/ Expire(p) \/ Deploy(p)
  \/ \E p \in Penkas, n \in Matchdays, team \in Teams : SubmitPick(p, n, team)
  \/ \E p \in Penkas : Found(p)
  \/ \E n \in Matchdays : CloseReads(n) \/ Close(n) \/ RequestResolution(n)
  \/ \E cadence \in Cadences : SetPollingProfile(cadence)
  \/ Tick

(* Keys expire, and a request that is being answered goes on.              *)
Fairness ==
  /\ \A p \in Penkas : WF_vars(Expire(p))
  /\ \A r \in Requests : WF_vars(Serve(r))

Spec == Init /\ [][Next]_vars /\ Fairness
===============================================================================
