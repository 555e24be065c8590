----------------------------- MODULE BoardsProofs -----------------------------
(***************************************************************************)
(* What a cached board shows and hides, proved for any penkas, requests,   *)
(* calendars, profiles and clocks.                                         *)
(***************************************************************************)
EXTENDS BoardsProperties, WellFoundedInduction, TLAPS

BuildState ==
  [pc: {"idle", "calendar", "entries", "rest", "stamp", "store"},
   matchday: Matchdays, status: Statuses, standings: SUBSET Matchdays,
   pick: Teams \cup {NoTeam}, history: SUBSET Matchdays, profile: Profiles, at: 0..MaxTime]

JobState ==
  [pc: {"idle", "apply", "mark", "settle", "settle again", "drop", "drop again", "refresh"},
   matchday: Matchdays]

(* The matchday is flipped last, when every penka that was asked is done.  *)
FlippedLast ==
  \A n \in Matchdays : status[n] = "resolved" =>
    requested[n] # {} /\ \A p \in requested[n] : n \in marked[p]

(* The matchdays a build about this one comes after, every one of them     *)
(* asked of some penka, and those of them that were asked of one penka.    *)
Past(read) == 1..(IF read.status = "resolved" THEN read.matchday ELSE read.matchday - 1)
WasAsked(days) == \A n \in days : n \in Matchdays /\ requested[n] # {}
AskedOf(p, days) == {n \in days : p \in requested[n]}
Shown(board) == 1..(IF board.isResolved THEN board.matchday ELSE board.matchday - 1)
PastWasAsked == \A p \in Penkas : Cached(p) => WasAsked(Shown(cache[p]))

(* What a build has read was so when it was read, and stays so.            *)
BuildSound(b) ==
  /\ build[b].at <= now
  /\ build[b].pc \in {"entries", "rest", "stamp", "store"} =>
       /\ build[b].status # "open" => status[build[b].matchday] # "open"
       /\ WasAsked(Past(build[b]))
       /\ AskedOf(PenkaOf(b), Past(build[b])) \subseteq marked[PenkaOf(b)]
  /\ build[b].pc \in {"rest", "stamp", "store"} =>
       AskedOf(PenkaOf(b), Past(build[b])) \subseteq build[b].standings
  /\ build[b].pc \in {"stamp", "store"} =>
       AskedOf(PenkaOf(b), Past(build[b])) \subseteq build[b].history

(* The worker rebuilds a board for a matchday it has recorded.             *)
JobSound(p) ==
  /\ job[p].pc # "idle" => p \in requested[job[p].matchday]
  /\ job[p].pc = "mark" => job[p].matchday \in applied[p]
  /\ job[p].pc \in {"settle", "settle again", "drop", "drop again", "refresh"} =>
       job[p].matchday \in marked[p]
  /\ build[p].pc # "idle" => job[p].pc = "refresh"
  /\ build[p].pc \in {"rest", "stamp", "store"} => job[p].matchday \in build[p].standings
  /\ build[p].pc \in {"stamp", "store"} => job[p].matchday \in build[p].history

BoardsInv ==
  /\ BoardsTypeOK
  /\ applied \in [Penkas -> SUBSET Matchdays]
  /\ cache \in [Penkas -> Board \cup {NoBoard, Unreadable}]
  /\ FlippedLast
  /\ \A b \in Builders : BuildSound(b)
  /\ \A p \in Penkas : JobSound(p)
  /\ SecretUntilLock
  /\ PastIsComplete
  /\ PastWasAsked

-----------------------------------------------------------------------------
(* The engine's answers that a board and its pick screen show. *)

(* A set of natural numbers that is not empty has a least one. *)
LEMMA LeastNumber ==
  ASSUME NEW T \in SUBSET Nat, T # {}
  PROVE  \E x \in T : \A y \in T : x <= y
  <1> DEFINE R == {ss \in Nat \X Nat : ss[1] < ss[2]}
  <1>1. IsWellFoundedOn(R, Nat)
    BY NatLessThanWellFounded DEF OpToRel
  <1>2. PICK x \in T : \A y \in T : <<y, x>> \notin R
    <2> HIDE DEF R
    <2> QED
      BY <1>1, WFMin
  <1>3. ASSUME NEW y \in T PROVE x <= y
    <2>1. <<y, x>> \notin R /\ <<y, x>> \in Nat \X Nat
      BY <1>2
    <2> QED
      BY <2>1
  <1> QED
    BY <1>3

(* The players' matchday is one of the calendar, and whatever comes before *)
(* it is resolved (current-matchday.ts).                                   *)
LEMMA CurrentMatchdayIs ==
  ASSUME NEW last \in Nat \ {0}, NEW statusOf \in [1..last -> Statuses]
  PROVE  /\ CurrentMatchday(statusOf) \in 1..last
         /\ \A m \in 1..(CurrentMatchday(statusOf) - 1) : statusOf[m] = "resolved"
  <1> DEFINE unplayed == {n \in DOMAIN statusOf : statusOf[n] # "resolved"}
             IsFirst(n) == \A m \in unplayed : n <= m
             IsLast(n) == \A m \in DOMAIN statusOf : n >= m
  <1>1. DOMAIN statusOf = 1..last /\ unplayed \in SUBSET Nat
    OBVIOUS
  <1>2. CASE unplayed # {}
    <2>1. \E n \in unplayed : IsFirst(n)
      BY <1>1, <1>2, LeastNumber
    <2>2. CurrentMatchday(statusOf) = CHOOSE n \in unplayed : IsFirst(n)
      BY <1>2 DEF CurrentMatchday
    <2>3. CurrentMatchday(statusOf) \in unplayed /\ IsFirst(CurrentMatchday(statusOf))
      BY <2>1, <2>2
    <2> QED
      BY <1>1, <2>3
  <1>3. CASE unplayed = {}
    <2>1. IsLast(last) /\ last \in DOMAIN statusOf
      BY <1>1
    <2>2. CurrentMatchday(statusOf) = CHOOSE n \in DOMAIN statusOf : IsLast(n)
      BY <1>3 DEF CurrentMatchday
    <2>3. CurrentMatchday(statusOf) \in DOMAIN statusOf
      BY <2>1, <2>2
    <2> QED
      BY <1>1, <1>3, <2>3
  <1> QED
    BY <1>2, <1>3

(* The gate that refuses a pick and the one that reveals picks and closes  *)
(* the pick screen agree at every instant: nobody may pick once the board  *)
(* shows what the others played (validate-pick.ts, board.ts).              *)
THEOREM GatesAgree ==
  ASSUME NEW entry, NEW state, NEW lockAt, NEW instant, NEW matches, NEW team, NEW enabled
  PROVE  ValidatePick(entry, state, lockAt, instant, matches, team, enabled) = "matchday_locked"
           <=> IsMatchdayLocked(state, lockAt, instant)
  BY DEF ValidatePick, IsMatchdayLocked

(* The standings are a strict total order of any entries with distinct ids: *)
(* the sort is deterministic and there is one winner (standings.ts).       *)
THEOREM StandingsTotal ==
  ASSUME NEW a \in Entry, NEW b \in Entry, NEW i \in Int, NEW j \in Int, i # j
  PROVE  Outranks(a, b, i, j) <=> ~Outranks(b, a, j, i)
  BY DEF Outranks, AliveOutranks, IslandOutranks, Entry

(* Outranking is transitive, so the sort's comparator is an order.         *)
THEOREM StandingsTransitive ==
  ASSUME NEW a \in Entry, NEW b \in Entry, NEW c \in Entry,
         NEW i \in Int, NEW j \in Int, NEW k \in Int,
         Outranks(a, b, i, j), Outranks(b, c, j, k)
  PROVE  Outranks(a, c, i, k)
  BY DEF Outranks, AliveOutranks, IslandOutranks, Entry

-----------------------------------------------------------------------------
LEMMA TypeFacts ==
  ASSUME BoardsInv
  PROVE  /\ status \in [Matchdays -> Statuses]
         /\ pick \in [Penkas -> [Matchdays -> Teams \cup {NoTeam}]]
         /\ applied \in [Penkas -> SUBSET Matchdays] /\ marked \in [Penkas -> SUBSET Matchdays]
         /\ \A p \in Penkas : marked[p] \subseteq applied[p]
         /\ build \in [Builders -> BuildState] /\ job \in [Penkas -> JobState]
         /\ profile \in Profiles \cup {"missing"} /\ now \in 0..MaxTime
         /\ founded \subseteq Penkas /\ closing \subseteq Matchdays
         /\ requested \in [Matchdays -> SUBSET founded]
  BY DEF BoardsInv, BoardsTypeOK, BuildState, JobState

LEMMA PenkaOfBuilder ==
  ASSUME NEW b \in Builders
  PROVE  PenkaOf(b) \in Penkas /\ (b \in Penkas => PenkaOf(b) = b)
  BY BoardsAssumption DEF Builders, PenkaOf

LEMMA IdleTyped ==
  /\ NoBuild \in BuildState /\ NoBuild.pc = "idle" /\ NoBuild.at = 0
  /\ Resting \in JobState /\ Resting.pc = "idle"
  <1>1. 1 \in Matchdays /\ 0 \in 0..MaxTime
    BY BoardsAssumption DEF Matchdays
  <1> QED
    BY <1>1 DEF NoBuild, Resting, BuildState, JobState, Statuses, Profiles

LEMMA InitBoards == Init => BoardsInv
  <1> SUFFICES ASSUME Init PROVE BoardsInv
    OBVIOUS
  <1>1. /\ build \in [Builders -> BuildState]
        /\ \A b \in Builders : build[b].pc = "idle" /\ build[b].at = 0
        /\ job \in [Penkas -> JobState] /\ \A p \in Penkas : job[p].pc = "idle"
    BY IdleTyped DEF Init
  <1>2. now = 0 /\ now \in 0..MaxTime
    BY BoardsAssumption DEF Init
  <1>3. /\ applied \in [Penkas -> SUBSET Matchdays] /\ marked \in [Penkas -> SUBSET Matchdays]
        /\ cache \in [Penkas -> {NoBoard}] /\ \A p \in Penkas : marked[p] \subseteq applied[p]
        /\ status \in [Matchdays -> Statuses] /\ \A n \in Matchdays : status[n] = "open"
        /\ pick \in [Penkas -> [Matchdays -> Teams \cup {NoTeam}]]
        /\ requested \in [Matchdays -> SUBSET founded] /\ profile = "missing"
        /\ founded \subseteq Penkas /\ closing \subseteq Matchdays
    BY BoardsAssumption DEF Init, Statuses
  <1>4. BoardsTypeOK
    <2>1. \A p \in Penkas : cache[p] \in Board \cup {NoBoard, Unreadable}
      BY <1>3
    <2>2. \A p \in Penkas : applied[p] \subseteq Matchdays /\ marked[p] \subseteq applied[p]
      BY <1>3
    <2> QED
      BY <1>1, <1>2, <1>3, <2>1, <2>2 DEF BoardsTypeOK, BuildState, JobState
  <1>5. FlippedLast
    BY <1>3 DEF FlippedLast
  <1>6. \A b \in Builders : BuildSound(b)
    BY <1>1, <1>2 DEF BuildSound
  <1>7. \A p \in Penkas : JobSound(p)
    BY <1>1 DEF JobSound, Builders
  <1>8. \A p \in Penkas : ~Cached(p)
    BY <1>3 DEF Cached, NoBoard
  <1> QED
    BY <1>3, <1>4, <1>5, <1>6, <1>7, <1>8
      DEF BoardsInv, SecretUntilLock, PastIsComplete, PastWasAsked

-----------------------------------------------------------------------------
(* What was read and what was shown stays true: a matchday that left       *)
(* "open" never comes back, whom a matchday was asked of is settled by its *)
(* first press, markers stay, and the clock only advances.                 *)

StoreGrows ==
  /\ status' \in [Matchdays -> Statuses]
  /\ \A n \in Matchdays : status[n] # "open" => status'[n] # "open"
  /\ marked' \in [Penkas -> SUBSET Matchdays] /\ \A p \in Penkas : marked[p] \subseteq marked'[p]
  /\ now' \in 0..MaxTime /\ now <= now'
  /\ founded' \subseteq Penkas /\ closing' \subseteq Matchdays
  /\ requested' \in [Matchdays -> SUBSET founded']
  /\ \A n \in Matchdays : requested[n] # {} => requested'[n] = requested[n]

LEMMA StoreStays ==
  ASSUME BoardsInv, UNCHANGED <<founded, closing, requested, status, marked, now>>
  PROVE  StoreGrows
  BY TypeFacts, BoardsAssumption DEF StoreGrows

LEMMA BuildKept ==
  ASSUME BoardsInv, StoreGrows, NEW b \in Builders, build'[b] = build[b]
  PROVE  BuildSound(b)'
  <1>1. BuildSound(b) /\ build[b] \in BuildState /\ PenkaOf(b) \in Penkas
    BY TypeFacts, PenkaOfBuilder DEF BoardsInv
  <1>2. build[b].at <= now'
    <2>1. build[b].at \in Int /\ now \in Int /\ now' \in Int
      BY <1>1, TypeFacts DEF StoreGrows, BuildState
    <2> QED
      BY <1>1, <2>1 DEF BuildSound, StoreGrows
  <1>3. \A days : WasAsked(days) =>
          WasAsked(days)' /\ AskedOf(PenkaOf(b), days)' = AskedOf(PenkaOf(b), days)
    BY DEF StoreGrows, WasAsked, AskedOf
  <1>4. build[b].pc \in {"entries", "rest", "stamp", "store"} =>
          /\ WasAsked(Past(build[b])) /\ WasAsked(Past(build[b]))'
          /\ AskedOf(PenkaOf(b), Past(build[b]))' = AskedOf(PenkaOf(b), Past(build[b]))
    BY <1>1, <1>3 DEF BuildSound, Past
  <1> QED
    BY <1>1, <1>2, <1>4 DEF BuildSound, StoreGrows, BuildState, Past

LEMMA CacheKept ==
  ASSUME BoardsInv, StoreGrows,
         \A p \in Penkas : cache'[p] = cache[p] \/ cache'[p].kind # "board"
  PROVE  SecretUntilLock' /\ PastIsComplete' /\ PastWasAsked'
  <1>1. SecretUntilLock'
    <2> SUFFICES ASSUME NEW p \in Penkas, Cached(p)', cache'[p].pick # NoTeam
                 PROVE  IsMatchdayLocked(status'[cache'[p].matchday],
                                         LockAt[cache'[p].matchday], now')
      BY DEF SecretUntilLock
    <2>1. cache'[p] = cache[p] /\ Cached(p)
      BY DEF Cached
    <2>2. cache[p] \in Board
      BY <2>1 DEF BoardsInv, Cached, NoBoard, Unreadable
    <2>3. cache[p].matchday \in Matchdays
      BY <2>2 DEF Board
    <2>4. IsMatchdayLocked(status[cache[p].matchday], LockAt[cache[p].matchday], now)
      BY <2>1 DEF BoardsInv, SecretUntilLock
    <2>5. LockAt[cache[p].matchday] \in Nat /\ now \in Int /\ now' \in Int /\ now <= now'
      BY <2>3, BoardsAssumption, TypeFacts DEF StoreGrows
    <2> QED
      BY <2>1, <2>3, <2>4, <2>5 DEF IsMatchdayLocked, StoreGrows
  <1>2. ASSUME NEW p \in Penkas, Cached(p)'
        PROVE  /\ cache'[p] = cache[p] /\ WasAsked(Shown(cache[p])) /\ WasAsked(Shown(cache[p]))'
               /\ AskedOf(p, Shown(cache[p])) \subseteq cache[p].standings \cap cache[p].history
    <2>1. cache'[p] = cache[p] /\ Cached(p)
      BY <1>2 DEF Cached
    <2>2. WasAsked(Shown(cache[p]))
      BY <2>1 DEF BoardsInv, PastWasAsked
    <2>3. AskedOf(p, Shown(cache[p])) \subseteq cache[p].standings \cap cache[p].history
      BY <2>1 DEF BoardsInv, PastIsComplete, AskedOf, Shown
    <2>4. WasAsked(Shown(cache[p]))'
      BY <2>1, <2>2 DEF WasAsked, Shown, StoreGrows
    <2> QED
      BY <2>1, <2>2, <2>3, <2>4
  <1>3. PastWasAsked'
    BY <1>2 DEF PastWasAsked, Shown, WasAsked
  <1>4. PastIsComplete'
    BY <1>2 DEF PastIsComplete, AskedOf, Shown, WasAsked, StoreGrows
  <1> QED
    BY <1>1, <1>3, <1>4

(* A build or a board takes a step, and nothing is stored.                 *)
LEMMA BuildStep ==
  ASSUME BoardsInv, NEW b \in Builders, NEW state \in BuildState, Building(b, state),
         UNCHANGED <<store, cache, job, now>>,
         BuildSound(b)', b \in Penkas => JobSound(b)'
  PROVE  BoardsInv'
  <1>1. /\ UNCHANGED <<founded, status, closing, pick, applied, marked, requested, profile>>
        /\ build' \in [Builders -> BuildState] /\ \A d \in Builders : d # b => build'[d] = build[d]
    BY TypeFacts DEF store, Building
  <1>2. StoreGrows
    BY <1>1, StoreStays
  <1>3. BoardsTypeOK'
    BY <1>1 DEF BoardsInv, BoardsTypeOK, BuildState
  <1>4. \A d \in Builders : BuildSound(d)'
    BY <1>1, <1>2, BuildKept
  <1>5. \A p \in Penkas : JobSound(p)'
    <2> SUFFICES ASSUME NEW p \in Penkas PROVE JobSound(p)'
      OBVIOUS
    <2>1. CASE p # b
      <3>1. build'[p] = build[p] /\ JobSound(p)
        BY <1>1, <2>1 DEF Builders, BoardsInv
      <3> QED
        BY <1>1, <3>1 DEF JobSound
    <2> QED
      BY <2>1
  <1>6. SecretUntilLock' /\ PastIsComplete' /\ PastWasAsked'
    BY <1>2, CacheKept
  <1> QED
    BY <1>1, <1>3, <1>4, <1>5, <1>6 DEF BoardsInv, FlippedLast

-----------------------------------------------------------------------------
(* The reads of a build. *)

LEMMA BuildNow ==
  ASSUME BoardsInv, NEW b \in Builders, NEW state, Building(b, state)
  PROVE  /\ build'[b] = state /\ build[b] \in BuildState /\ BuildSound(b)
         /\ b \in Penkas => JobSound(b)
  BY TypeFacts DEF Building, BoardsInv

LEMMA ReadsSafe ==
  ASSUME BoardsInv, NEW b \in Builders, ReadCalendar(b) \/ ReadEntries(b) \/ ReadRest(b),
         UNCHANGED <<store, cache, job, now>>
  PROVE  BoardsInv'
  <1>1. /\ UNCHANGED <<status, requested, marked, job, now>>
        /\ build[b] \in BuildState /\ BuildSound(b) /\ (b \in Penkas => JobSound(b))
        /\ PenkaOf(b) \in Penkas /\ (b \in Penkas => PenkaOf(b) = b)
        /\ status \in [Matchdays -> Statuses] /\ FlippedLast
        /\ marked[PenkaOf(b)] \subseteq applied[PenkaOf(b)]
        /\ applied[PenkaOf(b)] \in SUBSET Matchdays /\ marked[PenkaOf(b)] \in SUBSET Matchdays
        /\ pick[PenkaOf(b)] \in [Matchdays -> Teams \cup {NoTeam}]
    BY TypeFacts, PenkaOfBuilder DEF store, BoardsInv
  <1>2. CASE ReadCalendar(b)
    <2> DEFINE day == CurrentMatchday(status)
               state == [build[b] EXCEPT !.pc = "entries", !.matchday = day, !.status = status[day]]
    <2>1. Building(b, state)
      BY <1>2 DEF ReadCalendar
    <2>2. day \in Matchdays /\ \A m \in 1..(day - 1) : status[m] = "resolved"
      BY <1>1, BoardsAssumption, CurrentMatchdayIs DEF Matchdays
    <2> HIDE DEF day
    <2>3. /\ state \in BuildState /\ state.pc = "entries" /\ state.matchday = day
          /\ state.status = status[day] /\ state.at = build[b].at
      BY <1>1, <2>2 DEF BuildState
    <2> HIDE DEF state
    <2>4. WasAsked(Past(state)) /\ AskedOf(PenkaOf(b), Past(state)) \subseteq marked[PenkaOf(b)]
      <3>1. \A m \in Past(state) : m \in Matchdays /\ status[m] = "resolved"
        BY <2>2, <2>3, BoardsAssumption DEF Past, Matchdays
      <3> QED
        BY <1>1, <3>1 DEF FlippedLast, WasAsked, AskedOf
    <2>5. BuildSound(b)' /\ (b \in Penkas => JobSound(b)')
      <3>1. build'[b] = state
        BY <2>1, BuildNow
      <3>2. BuildSound(b)'
        BY <1>1, <2>2, <2>3, <2>4, <3>1 DEF BuildSound, WasAsked, AskedOf, Past
      <3>3. b \in Penkas => JobSound(b)'
        BY <1>1, <1>2, <2>3, <3>1 DEF JobSound, ReadCalendar, store
      <3> QED
        BY <3>2, <3>3
    <2> QED
      BY <2>1, <2>3, <2>5, BuildStep
  <1>3. CASE ReadEntries(b)
    <2> DEFINE state == [build[b] EXCEPT !.pc = "rest", !.standings = applied[PenkaOf(b)]]
    <2>1. Building(b, state) /\ build[b].pc = "entries"
      BY <1>3 DEF ReadEntries
    <2>2. /\ state \in BuildState /\ state.pc = "rest" /\ state.standings = applied[PenkaOf(b)]
          /\ state.matchday = build[b].matchday /\ state.status = build[b].status
          /\ state.at = build[b].at
      BY <1>1 DEF BuildState
    <2> HIDE DEF state
    <2>3. build'[b] = state /\ Past(state) = Past(build[b])
      BY <2>1, <2>2, BuildNow DEF Past
    <2>4. BuildSound(b)'
      BY <1>1, <2>1, <2>2, <2>3 DEF BuildSound, WasAsked, AskedOf
    <2>5. b \in Penkas => JobSound(b)'
      BY <1>1, <2>1, <2>2, <2>3 DEF JobSound, store
    <2> QED
      BY <2>1, <2>2, <2>4, <2>5, BuildStep
  <1>4. CASE ReadRest(b)
    <2> DEFINE next == IF b \in Requests THEN "stamp" ELSE "store"
               chosen == IF b \in Requests THEN build[b].profile ELSE ToPollingProfile(profile)
               shown == pick[PenkaOf(b)][build[b].matchday]
               state == [build[b] EXCEPT !.pc = next, !.pick = shown,
                                         !.history = marked[PenkaOf(b)], !.profile = chosen]
    <2>1. Building(b, state) /\ build[b].pc = "rest"
      BY <1>1, <1>4 DEF ReadRest, BuildState
    <2>2. next \in {"stamp", "store"} /\ chosen \in Profiles /\ shown \in Teams \cup {NoTeam}
      BY <1>1 DEF BuildState, ToPollingProfile, Profiles
    <2> HIDE DEF next, chosen, shown
    <2>3. /\ state \in BuildState /\ state.pc = next /\ state.history = marked[PenkaOf(b)]
          /\ state.matchday = build[b].matchday /\ state.status = build[b].status
          /\ state.at = build[b].at /\ state.standings = build[b].standings
      BY <1>1, <2>2 DEF BuildState
    <2> HIDE DEF state
    <2>4. build'[b] = state /\ Past(state) = Past(build[b])
      BY <2>1, <2>3, BuildNow DEF Past
    <2>5. BuildSound(b)'
      BY <1>1, <2>1, <2>2, <2>3, <2>4 DEF BuildSound, WasAsked, AskedOf
    <2>6. b \in Penkas => JobSound(b)'
      BY <1>1, <2>1, <2>2, <2>3, <2>4 DEF JobSound, store
    <2> QED
      BY <2>1, <2>3, <2>5, <2>6, BuildStep
  <1> QED
    BY <1>2, <1>3, <1>4

-----------------------------------------------------------------------------
(* The board that is built. *)

BoardKept(p, board) ==
  /\ board.pick # NoTeam => IsMatchdayLocked(status[board.matchday], LockAt[board.matchday], now)
  /\ WasAsked(Shown(board))
  /\ AskedOf(p, Shown(board)) \subseteq board.standings \cap board.history

LEMMA BoardTyped ==
  ASSUME NEW read \in BuildState
  PROVE  BuildBoard(read) \in Board
  <1> DEFINE locked == IsMatchdayLocked(read.status, LockAt[read.matchday], read.at)
             poll == NextPollInSec(read.profile, read.at, LockAt[read.matchday])
             shown == IF locked THEN read.pick ELSE NoTeam
  <1>1. locked \in BOOLEAN
    BY DEF IsMatchdayLocked
  <1>2. poll \in {2, 10, 30}
    BY DEF NextPollInSec, PollSeconds, BuildState, Profiles
  <1>3. shown \in Teams \cup {NoTeam}
    BY DEF BuildState
  <1>4. /\ read.matchday \in Matchdays /\ read.standings \in SUBSET Matchdays
        /\ read.history \in SUBSET Matchdays /\ (read.status = "resolved") \in BOOLEAN
    BY DEF BuildState
  <1>5. BuildBoard(read) =
          [kind |-> "board", matchday |-> read.matchday, isLocked |-> locked,
           isResolved |-> read.status = "resolved", standings |-> read.standings,
           pick |-> shown, history |-> read.history, nextPollInSec |-> poll, ttl |-> TRUE]
    BY DEF BuildBoard
  <1> HIDE DEF locked, poll, shown
  <1> QED
    BY <1>1, <1>2, <1>3, <1>4, <1>5 DEF Board

LEMMA BoardBuilt ==
  ASSUME BoardsInv, NEW b \in Builders, build[b].pc = "store"
  PROVE  /\ BuildBoard(build[b]) \in Board /\ BoardKept(PenkaOf(b), BuildBoard(build[b]))
         /\ b \in Penkas => job[b].matchday \in BuildBoard(build[b]).standings
                                                \cap BuildBoard(build[b]).history
  <1> DEFINE read == build[b]
             board == BuildBoard(read)
             locked == IsMatchdayLocked(read.status, LockAt[read.matchday], read.at)
  <1>1. read \in BuildState /\ BuildSound(b) /\ (b \in Penkas => JobSound(b))
    BY TypeFacts DEF BoardsInv
  <1>2. /\ board.matchday = read.matchday /\ board.isResolved = (read.status = "resolved")
        /\ board.standings = read.standings /\ board.history = read.history
        /\ board.pick # NoTeam => locked
    BY DEF BuildBoard
  <1>3. locked => IsMatchdayLocked(status[read.matchday], LockAt[read.matchday], now)
    <2>1. /\ read.status # "open" => status[read.matchday] # "open"
          /\ read.at <= now
      BY <1>1 DEF BuildSound
    <2>2. /\ read.at \in Int /\ now \in Int /\ LockAt[read.matchday] \in Int
      BY <1>1, TypeFacts, BoardsAssumption DEF BuildState
    <2> QED
      BY <2>1, <2>2 DEF IsMatchdayLocked
  <1>4. /\ WasAsked(Past(read))
        /\ AskedOf(PenkaOf(b), Past(read)) \subseteq read.standings \cap read.history
    BY <1>1 DEF BuildSound
  <1>5. board \in Board
    BY <1>1, BoardTyped
  <1>6. b \in Penkas => job[b].matchday \in read.standings \cap read.history
    BY <1>1 DEF JobSound
  <1>7. Shown(board) = Past(read)
    BY <1>2 DEF Shown, Past
  <1> HIDE DEF board, locked
  <1> QED
    BY <1>2, <1>3, <1>4, <1>5, <1>6, <1>7 DEF BoardKept, board

(* A finished build replaces the board of its penka. *)
LEMMA BoardStored ==
  ASSUME BoardsInv, NEW b \in Builders, build[b].pc = "store",
         cache' = [cache EXCEPT ![PenkaOf(b)] = BuildBoard(build[b])], Building(b, NoBuild),
         UNCHANGED <<store, now>>, job' \in [Penkas -> JobState],
         \A p \in Penkas : job'[p] = job[p] \/ (b = p /\ job'[p].pc = "idle"),
         b \in Penkas => job'[b].pc = "idle"
  PROVE  BoardsInv'
  <1> DEFINE board == BuildBoard(build[b])
             p == PenkaOf(b)
  <1>1. /\ UNCHANGED <<founded, status, closing, pick, applied, marked, requested, profile>>
        /\ build' \in [Builders -> BuildState] /\ \A d \in Builders : d # b => build'[d] = build[d]
        /\ build'[b] = NoBuild
    BY TypeFacts, IdleTyped DEF store, Building
  <1>2. board \in Board /\ BoardKept(p, board) /\ p \in Penkas
    BY BoardBuilt, PenkaOfBuilder
  <1>3. /\ cache' \in [Penkas -> Board \cup {NoBoard, Unreadable}]
        /\ cache'[p] = board /\ \A q \in Penkas : q # p => cache'[q] = cache[q]
    BY <1>2 DEF BoardsInv
  <1> HIDE DEF board, p
  <1>4. StoreGrows
    BY <1>1, StoreStays
  <1>5. BoardsTypeOK'
    BY <1>1, <1>3 DEF BoardsInv, BoardsTypeOK, BuildState, JobState
  <1>6. \A d \in Builders : BuildSound(d)'
    <2>1. BuildSound(b)'
      <3>1. 0 <= now
        BY TypeFacts, BoardsAssumption
      <3> QED
        BY <1>1, <3>1, IdleTyped DEF BuildSound
    <2> QED
      BY <1>1, <1>4, <2>1, BuildKept
  <1>7. \A q \in Penkas : JobSound(q)'
    <2> SUFFICES ASSUME NEW q \in Penkas PROVE JobSound(q)'
      OBVIOUS
    <2>1. CASE q = b
      BY <1>1, <2>1, IdleTyped DEF JobSound
    <2>2. CASE q # b
      <3>1. build'[q] = build[q] /\ JobSound(q) /\ job'[q] = job[q]
        BY <1>1, <2>2 DEF Builders, BoardsInv
      <3> QED
        BY <1>1, <3>1 DEF JobSound
    <2> QED
      BY <2>1, <2>2
  <1>8. SecretUntilLock' /\ PastIsComplete' /\ PastWasAsked'
    <2>1. \A q \in Penkas : Cached(q)' => BoardKept(q, cache'[q])
      BY <1>2, <1>3
        DEF BoardsInv, SecretUntilLock, PastIsComplete, PastWasAsked, Cached, BoardKept,
            AskedOf, Shown
    <2> QED
      BY <1>1, <2>1
        DEF SecretUntilLock, PastIsComplete, PastWasAsked, BoardKept, AskedOf, Shown, WasAsked
  <1> QED
    BY <1>1, <1>3, <1>5, <1>6, <1>7, <1>8 DEF BoardsInv, FlippedLast

-----------------------------------------------------------------------------
(* A board request. *)

LEMMA ServeSafe ==
  ASSUME BoardsInv, NEW r \in Requests, Serve(r) \/ RequestFails(r)
  PROVE  BoardsInv'
  <1>1. r \in Builders /\ r \notin Penkas /\ PenkaOf(r) = Viewed[r]
    BY BoardsAssumption DEF Builders, PenkaOf
  <1>2. UNCHANGED <<store, job, now>> /\ build[r] \in BuildState /\ BuildSound(r)
    BY <1>1, TypeFacts
      DEF Serve, Miss, RequestReads, RequestStamps, RequestStores, RequestFails, RequestUnchanged,
          BoardsInv
  <1>3. 0 <= now /\ now \in 0..MaxTime
    BY TypeFacts, BoardsAssumption
  <1>4. CASE Miss(r)
    <2> DEFINE state == [NoBuild EXCEPT !.pc = "calendar"]
    <2>1. state \in BuildState /\ state.pc = "calendar" /\ state.at = 0
      BY IdleTyped DEF BuildState, NoBuild
    <2>2. Building(r, state) /\ UNCHANGED cache
      BY <1>4 DEF Miss
    <2> HIDE DEF state
    <2>3. BuildSound(r)'
      <3>1. build'[r] = state /\ now' = now
        BY <1>1, <1>2, <2>2, BuildNow
      <3> QED
        BY <1>3, <2>1, <3>1 DEF BuildSound
    <2> QED
      BY <1>1, <1>2, <2>1, <2>2, <2>3, BuildStep
  <1>5. CASE RequestReads(r)
    BY <1>1, <1>2, <1>5, ReadsSafe DEF RequestReads
  <1>6. CASE RequestStamps(r)
    <2> DEFINE chosen == ToPollingProfile(profile)
               state == [build[r] EXCEPT !.pc = "store", !.at = now, !.profile = chosen]
    <2>1. Building(r, state) /\ UNCHANGED cache /\ build[r].pc = "stamp"
      BY <1>6 DEF RequestStamps
    <2>2. chosen \in Profiles
      BY DEF ToPollingProfile, Profiles
    <2> HIDE DEF chosen
    <2>3. /\ state \in BuildState /\ state.pc = "store" /\ state.at = now
          /\ state.matchday = build[r].matchday /\ state.status = build[r].status
          /\ state.standings = build[r].standings /\ state.history = build[r].history
      BY <1>2, <1>3, <2>2 DEF BuildState
    <2> HIDE DEF state
    <2>4. BuildSound(r)'
      <3>1. build'[r] = state /\ now' = now /\ Past(state) = Past(build[r])
        BY <1>1, <1>2, <2>1, <2>3, BuildNow DEF Past
      <3>2. UNCHANGED <<status, requested, marked>>
        BY <1>2 DEF store
      <3> QED
        BY <1>2, <1>3, <2>1, <2>3, <3>1, <3>2 DEF BuildSound, WasAsked, AskedOf
    <2> QED
      BY <1>1, <1>2, <2>1, <2>3, <2>4, BuildStep
  <1>7. CASE RequestStores(r)
    <2>1. /\ build[r].pc = "store" /\ Building(r, NoBuild)
          /\ cache' = [cache EXCEPT ![PenkaOf(r)] = BuildBoard(build[r])]
      BY <1>1, <1>7 DEF RequestStores
    <2> QED
      BY <1>1, <1>2, <2>1, TypeFacts, BoardStored
  <1>8. CASE RequestFails(r)
    <2>1. Building(r, NoBuild) /\ UNCHANGED cache
      BY <1>8 DEF RequestFails
    <2>2. BuildSound(r)'
      <3>1. build'[r] = NoBuild /\ now' = now
        BY <1>1, <1>2, <2>1, BuildNow
      <3> QED
        BY <1>3, <3>1, IdleTyped DEF BuildSound
    <2> QED
      BY <1>1, <1>2, <2>1, <2>2, IdleTyped, BuildStep
  <1> QED
    BY <1>4, <1>5, <1>6, <1>7, <1>8 DEF Serve

(* The collections, the jobs and the cached boards change, and no build    *)
(* does; no board appears that was not there.                              *)
LEMMA StoreStep ==
  ASSUME BoardsInv, UNCHANGED build, StoreGrows,
         pick' \in [Penkas -> [Matchdays -> Teams \cup {NoTeam}]],
         applied' \in [Penkas -> SUBSET Matchdays],
         \A p \in Penkas : applied[p] \subseteq applied'[p] /\ marked'[p] \subseteq applied'[p],
         profile' \in Profiles \cup {"missing"},
         job' \in [Penkas -> JobState], FlippedLast',
         cache' \in [Penkas -> Board \cup {NoBoard, Unreadable}],
         \A p \in Penkas : cache'[p] = cache[p] \/ cache'[p].kind # "board",
         \A p \in Penkas : JobSound(p)'
  PROVE  BoardsInv'
  <1>1. BoardsTypeOK'
    BY DEF BoardsInv, BoardsTypeOK, StoreGrows, JobState
  <1>2. \A b \in Builders : BuildSound(b)'
    BY BuildKept
  <1>3. SecretUntilLock' /\ PastIsComplete' /\ PastWasAsked'
    BY CacheKept
  <1> QED
    BY <1>1, <1>2, <1>3 DEF BoardsInv

LEMMA CacheSafe ==
  ASSUME BoardsInv, NEW p \in Penkas, Expire(p) \/ Deploy(p)
  PROVE  BoardsInv'
  <1>1. /\ UNCHANGED <<founded, status, closing, pick, applied, marked, requested, profile, job, now,
                      build>>
        /\ cache' = [cache EXCEPT ![p] = NoBoard] \/ cache' = [cache EXCEPT ![p] = Unreadable]
    BY DEF Expire, Deploy, RequestUnchanged, store
  <1>2. StoreGrows
    BY <1>1, StoreStays
  <1>3. /\ cache' \in [Penkas -> Board \cup {NoBoard, Unreadable}]
        /\ \A q \in Penkas : cache'[q] = cache[q] \/ cache'[q].kind # "board"
    BY <1>1 DEF BoardsInv, NoBoard, Unreadable
  <1>4. /\ \A q \in Penkas : JobSound(q)'
        /\ FlippedLast'
    BY <1>1 DEF BoardsInv, JobSound, FlippedLast
  <1> QED
    BY <1>1, <1>2, <1>3, <1>4, TypeFacts, StoreStep

(* The players, the operator and the clock. *)
LEMMA OutsideSafe ==
  ASSUME BoardsInv,
         \/ \E p \in Penkas, n \in Matchdays, team \in Teams : SubmitPick(p, n, team)
         \/ \E p \in Penkas : Found(p)
         \/ \E n \in Matchdays : (CloseReads(n) \/ Close(n) \/ RequestResolution(n))
         \/ \E cadence \in Cadences : SetPollingProfile(cadence)
         \/ Tick
  PROVE  BoardsInv'
  <1> USE DEF SubmitPick, Found, CloseReads, Close, RequestResolution, SetPollingProfile, Tick
  <1>1. UNCHANGED <<applied, marked, cache, build, job>>
    BY DEF OutsideUnchanged
  <1>2. pick' \in [Penkas -> [Matchdays -> Teams \cup {NoTeam}]]
    BY TypeFacts
  <1>3. /\ status' \in [Matchdays -> Statuses]
        /\ \A n \in Matchdays : status[n] # "open" => status'[n] # "open"
        /\ \A n \in Matchdays : status'[n] = "resolved" => status[n] = "resolved"
    <2>1. CASE \E n \in Matchdays : Close(n)
      BY <2>1, TypeFacts DEF Statuses
    <2>2. CASE UNCHANGED status
      BY <2>2, TypeFacts
    <2> QED
      BY <2>1, <2>2
  <1>4. /\ profile' \in Profiles \cup {"missing"}
        /\ founded' \subseteq Penkas /\ founded \subseteq founded' /\ closing' \subseteq Matchdays
    BY BoardsAssumption, TypeFacts DEF Profiles
  <1>5. now' \in 0..MaxTime /\ now <= now'
    <2>1. CASE Tick
      BY <2>1, TypeFacts, BoardsAssumption
    <2>2. CASE UNCHANGED now
      BY <2>2, TypeFacts, BoardsAssumption
    <2> QED
      BY <2>1, <2>2
  <1>6. /\ requested' \in [Matchdays -> SUBSET founded']
        /\ \A n \in Matchdays : requested[n] # {} => requested'[n] = requested[n]
    <2>1. CASE \E n \in Matchdays : RequestResolution(n)
      <3>1. founded' = founded
        BY <2>1
      <3> QED
        BY <2>1, <3>1, TypeFacts
    <2>2. CASE UNCHANGED requested
      BY <1>4, <2>2, TypeFacts
    <2> QED
      BY <2>1, <2>2
  <1>7. StoreGrows
    BY <1>1, <1>3, <1>4, <1>5, <1>6, TypeFacts DEF StoreGrows
  <1>8. \A q \in Penkas : JobSound(q)'
    <2> SUFFICES ASSUME NEW q \in Penkas PROVE JobSound(q)'
      OBVIOUS
    <2>1. JobSound(q) /\ job[q].matchday \in Matchdays
      BY TypeFacts DEF BoardsInv, JobState
    <2> QED
      BY <1>1, <1>6, <2>1 DEF JobSound
  <1>9. FlippedLast' /\ cache \in [Penkas -> Board \cup {NoBoard, Unreadable}]
    BY <1>1, <1>3, <1>6 DEF BoardsInv, FlippedLast
  <1> QED
    BY <1>1, <1>2, <1>4, <1>7, <1>8, <1>9, TypeFacts, StoreStep

-----------------------------------------------------------------------------
(* The worker. *)

(* The job of one penka advances, between two refreshes of its board.      *)
LEMMA JobStep ==
  ASSUME BoardsInv, NEW p \in Penkas, WorkerUnchanged, UNCHANGED build, StoreGrows,
         build[p].pc = "idle",
         applied' \in [Penkas -> SUBSET Matchdays],
         \A q \in Penkas : applied[q] \subseteq applied'[q] /\ marked'[q] \subseteq applied'[q],
         FlippedLast',
         cache' \in [Penkas -> Board \cup {NoBoard, Unreadable}],
         \A q \in Penkas : cache'[q] = cache[q] \/ cache'[q].kind # "board",
         job' \in [Penkas -> JobState], \A q \in Penkas : q # p => job'[q] = job[q],
         job'[p].pc # "idle" => p \in requested[job'[p].matchday],
         job'[p].pc = "mark" => job'[p].matchday \in applied'[p],
         job'[p].pc \in {"settle", "settle again", "drop", "drop again", "refresh"} =>
           job'[p].matchday \in marked'[p]
  PROVE  BoardsInv'
  <1>1. \A q \in Penkas : JobSound(q)'
    <2> SUFFICES ASSUME NEW q \in Penkas PROVE JobSound(q)'
      OBVIOUS
    <2>1. /\ JobSound(q) /\ build'[q] = build[q] /\ marked[q] \subseteq marked'[q]
          /\ requested' = requested
      BY DEF BoardsInv, StoreGrows, WorkerUnchanged
    <2>2. CASE q = p
      BY <2>1, <2>2 DEF JobSound
    <2>3. CASE q # p
      BY <2>1, <2>3 DEF JobSound
    <2> QED
      BY <2>2, <2>3
  <1>2. /\ pick' \in [Penkas -> [Matchdays -> Teams \cup {NoTeam}]]
        /\ profile' \in Profiles \cup {"missing"}
    BY DEF WorkerUnchanged, BoardsInv, BoardsTypeOK
  <1> QED
    BY <1>1, <1>2, StoreStep

(* Every step of a job but the refresh finds the rebuild idle.             *)
LEMMA JobFacts ==
  ASSUME BoardsInv, NEW p \in Penkas
  PROVE  /\ JobSound(p) /\ job[p] \in JobState /\ (job[p].pc # "refresh" => build[p].pc = "idle")
         /\ applied \in [Penkas -> SUBSET Matchdays] /\ marked \in [Penkas -> SUBSET Matchdays]
         /\ \A q \in Penkas : marked[q] \subseteq applied[q]
         /\ status \in [Matchdays -> Statuses] /\ FlippedLast /\ now \in 0..MaxTime
         /\ job \in [Penkas -> JobState]
         /\ cache \in [Penkas -> Board \cup {NoBoard, Unreadable}]
  BY TypeFacts DEF BoardsInv, JobSound

LEMMA TakeSafe ==
  ASSUME BoardsInv, NEW p \in Penkas, NEW n \in Matchdays, Take(p, n)
  PROVE  BoardsInv'
  <1> DEFINE pc == IF n \in marked[p] THEN "settle again" ELSE "apply"
             next == [matchday |-> n, pc |-> pc]
  <1>1. /\ job[p].pc = "idle" /\ job' = [job EXCEPT ![p] = next]
        /\ UNCHANGED <<status, applied, marked, cache, build>> /\ WorkerUnchanged
    BY DEF Take
  <1>2. /\ pc \in {"settle again", "apply"} /\ (pc = "settle again" => n \in marked[p])
    OBVIOUS
  <1> HIDE DEF pc
  <1>3. next \in JobState /\ next.pc = pc /\ next.matchday = n
    BY <1>2 DEF JobState
  <1> HIDE DEF next
  <1>4. /\ job' \in [Penkas -> JobState] /\ job'[p] = next
        /\ \A q \in Penkas : q # p => job'[q] = job[q]
    BY <1>1, <1>3, JobFacts
  <1>5. StoreGrows /\ FlippedLast' /\ p \in requested[n]
    BY <1>1, StoreStays, JobFacts DEF WorkerUnchanged, FlippedLast, Take
  <1> QED
    BY <1>1, <1>2, <1>3, <1>4, <1>5, JobFacts, JobStep

LEMMA ApplySafe ==
  ASSUME BoardsInv, NEW p \in Penkas, Apply(p) \/ Mark(p)
  PROVE  BoardsInv'
  <1> DEFINE n == job[p].matchday
             next == [job[p] EXCEPT !.pc = IF Apply(p) THEN "mark" ELSE "settle"]
  <1>1. /\ UNCHANGED <<status, cache, build>> /\ WorkerUnchanged
        /\ job[p].pc \in {"apply", "mark"} /\ now' = now
    BY DEF Apply, Mark, WorkerUnchanged
  <1>2. job[p] \in JobState /\ job \in [Penkas -> JobState] /\ p \in requested[n]
    BY <1>1, JobFacts DEF JobSound
  <1>3. CASE Apply(p)
    <2>1. /\ applied' = [applied EXCEPT ![p] = @ \cup {n}] /\ UNCHANGED marked
          /\ job' = [job EXCEPT ![p].pc = "mark"]
      BY <1>3 DEF Apply, JobAt
    <2>2. /\ job' \in [Penkas -> JobState] /\ job'[p].pc = "mark" /\ job'[p].matchday = n
          /\ \A q \in Penkas : q # p => job'[q] = job[q]
      BY <1>2, <2>1 DEF JobState
    <2>3. n \in Matchdays
      BY <1>2 DEF JobState
    <2>4. /\ applied' \in [Penkas -> SUBSET Matchdays] /\ n \in applied'[p]
          /\ \A q \in Penkas : applied[q] \subseteq applied'[q] /\ marked'[q] \subseteq applied'[q]
      BY <2>1, <2>3, JobFacts
    <2>5. StoreGrows /\ FlippedLast'
      BY <1>1, <2>1, StoreStays, JobFacts DEF FlippedLast, WorkerUnchanged
    <2> HIDE DEF n
    <2> QED
      BY <1>1, <1>2, <2>2, <2>4, <2>5, JobFacts, JobStep
  <1>4. CASE Mark(p)
    <2>1. /\ marked' = [marked EXCEPT ![p] = @ \cup {n}] /\ UNCHANGED applied
          /\ job' = [job EXCEPT ![p].pc = "settle"] /\ job[p].pc = "mark"
      BY <1>4 DEF Mark, JobAt
    <2>2. /\ job' \in [Penkas -> JobState] /\ job'[p].pc = "settle" /\ job'[p].matchday = n
          /\ \A q \in Penkas : q # p => job'[q] = job[q]
      BY <1>2, <2>1 DEF JobState
    <2>3. n \in Matchdays /\ n \in applied[p]
      BY <1>2, <2>1, JobFacts DEF JobState, JobSound
    <2>4. /\ marked' \in [Penkas -> SUBSET Matchdays] /\ n \in marked'[p]
          /\ \A q \in Penkas : marked[q] \subseteq marked'[q] /\ marked'[q] \subseteq applied'[q]
      BY <2>1, <2>3, JobFacts
    <2>5. StoreGrows /\ FlippedLast'
      <3>1. now <= now'
        BY <1>1, JobFacts, BoardsAssumption
      <3> QED
        BY <1>1, <2>4, <3>1, JobFacts, TypeFacts DEF FlippedLast, StoreGrows, WorkerUnchanged
    <2>6. /\ applied' \in [Penkas -> SUBSET Matchdays]
          /\ \A q \in Penkas : applied[q] \subseteq applied'[q]
      BY <2>1, JobFacts
    <2> HIDE DEF n
    <2> QED
      BY <1>1, <1>2, <2>2, <2>4, <2>5, <2>6, JobFacts, JobStep
  <1> QED
    BY <1>3, <1>4

LEMMA SettleSafe ==
  ASSUME BoardsInv, NEW p \in Penkas, Settle(p) \/ Drop(p)
  PROVE  BoardsInv'
  <1> DEFINE n == job[p].matchday
  <1>1. /\ UNCHANGED <<applied, marked, build>> /\ WorkerUnchanged /\ now' = now
        /\ job[p].pc \in {"settle", "settle again", "drop", "drop again"}
    BY DEF Settle, Drop, WorkerUnchanged
  <1>2. /\ job[p] \in JobState /\ job \in [Penkas -> JobState] /\ n \in marked[p] /\ n \in Matchdays
        /\ p \in requested[n]
    BY <1>1, JobFacts DEF JobSound, JobState
  <1>3. \E to \in {"drop", "drop again", "idle", "refresh"} : job' = [job EXCEPT ![p].pc = to]
    BY DEF Settle, Drop, JobAt
  <1>4. /\ job' \in [Penkas -> JobState] /\ job'[p].matchday = n
        /\ job'[p].pc # "mark"
        /\ \A q \in Penkas : q # p => job'[q] = job[q]
    <2> PICK to \in {"drop", "drop again", "idle", "refresh"} : job' = [job EXCEPT ![p].pc = to]
      BY <1>3
    <2> DEFINE state == [job[p] EXCEPT !.pc = to]
    <2>1. state \in JobState /\ state.matchday = n /\ state.pc = to
      BY <1>2 DEF JobState
    <2>2. job' = [job EXCEPT ![p] = state]
      OBVIOUS
    <2> HIDE DEF state, n
    <2> QED
      BY <1>2, <2>1, <2>2
  <1>5. \/ UNCHANGED status
        \/ /\ status[n] = "locked" /\ \A q \in requested[n] : n \in marked[q]
           /\ status' = [status EXCEPT ![n] = "resolved"]
    BY DEF Settle, Drop
  <1>6. /\ cache' \in [Penkas -> Board \cup {NoBoard, Unreadable}]
        /\ \A q \in Penkas : cache'[q] = cache[q] \/ cache'[q].kind # "board"
    <2>1. \/ UNCHANGED cache
          \/ cache' = [q \in Penkas |-> IF q \in requested[n] THEN NoBoard ELSE cache[q]]
      BY DEF Settle, Drop
    <2>2. NoBoard.kind # "board"
      BY DEF NoBoard
    <2> HIDE DEF NoBoard
    <2> QED
      BY <2>1, <2>2, JobFacts
  <1> HIDE DEF n
  <1>7. /\ status' \in [Matchdays -> Statuses] /\ FlippedLast'
        /\ \A m \in Matchdays : status[m] # "open" => status'[m] # "open"
    <2>1. UNCHANGED <<marked, requested>>
      BY <1>1 DEF WorkerUnchanged
    <2>2. CASE UNCHANGED status
      BY <2>1, <2>2, JobFacts DEF FlippedLast
    <2>3. CASE /\ status[n] = "locked" /\ \A q \in requested[n] : n \in marked[q]
               /\ status' = [status EXCEPT ![n] = "resolved"]
      <3>1. status' \in [Matchdays -> Statuses] /\ status'[n] = "resolved"
        BY <1>2, <2>3, JobFacts DEF Statuses
      <3>2. \A m \in Matchdays : m # n => status'[m] = status[m]
        BY <2>3, JobFacts
      <3>3. FlippedLast'
        BY <1>2, <2>1, <2>3, <3>2, JobFacts DEF FlippedLast
      <3> QED
        BY <3>1, <3>2, <3>3
    <2> QED
      BY <1>5, <2>2, <2>3
  <1>8. StoreGrows
    <2>1. now \in 0..MaxTime /\ now' = now
      BY <1>1, TypeFacts
    <2>2. now <= now' /\ now' \in 0..MaxTime
      BY <2>1, BoardsAssumption
    <2> QED
      BY <1>1, <1>7, <2>2, JobFacts, TypeFacts DEF StoreGrows, WorkerUnchanged
  <1> QED
    BY <1>1, <1>2, <1>4, <1>6, <1>7, <1>8, JobFacts, JobStep

(* A build is given up, and the job it belongs to with it.                 *)
LEMMA BuildDropped ==
  ASSUME BoardsInv, NEW p \in Penkas, Building(p, NoBuild), UNCHANGED <<store, cache, now>>,
         job' \in [Penkas -> JobState], job'[p].pc = "idle",
         \A q \in Penkas : q # p => job'[q] = job[q]
  PROVE  BoardsInv'
  <1>1. /\ UNCHANGED <<founded, status, closing, pick, applied, marked, requested, profile>>
        /\ build' \in [Builders -> BuildState] /\ \A d \in Builders : d # p => build'[d] = build[d]
        /\ build'[p] = NoBuild /\ p \in Builders
    BY TypeFacts, IdleTyped DEF store, Building, Builders
  <1>2. StoreGrows /\ 0 <= now
    BY <1>1, StoreStays, TypeFacts, BoardsAssumption
  <1>3. BoardsTypeOK'
    BY <1>1 DEF BoardsInv, BoardsTypeOK, BuildState, JobState
  <1>4. \A d \in Builders : BuildSound(d)'
    <2>1. BuildSound(p)'
      BY <1>1, <1>2, IdleTyped DEF BuildSound
    <2> QED
      BY <1>1, <1>2, <2>1, BuildKept
  <1>5. \A q \in Penkas : JobSound(q)'
    <2> SUFFICES ASSUME NEW q \in Penkas PROVE JobSound(q)'
      OBVIOUS
    <2>1. CASE q = p
      BY <1>1, <2>1, IdleTyped DEF JobSound
    <2>2. CASE q # p
      <3>1. build'[q] = build[q] /\ JobSound(q) /\ job'[q] = job[q]
        BY <1>1, <2>2 DEF Builders, BoardsInv
      <3> QED
        BY <1>1, <3>1 DEF JobSound
    <2> QED
      BY <2>1, <2>2
  <1>6. SecretUntilLock' /\ PastIsComplete' /\ PastWasAsked'
    BY <1>2, CacheKept
  <1> QED
    BY <1>1, <1>3, <1>4, <1>5, <1>6 DEF BoardsInv, FlippedLast

(* A rebuild starts, or the job is given up with it.                       *)
LEMMA RefreshSafe ==
  ASSUME BoardsInv, NEW p \in Penkas, StartRefresh(p) \/ RefreshFails(p) \/ WorkerDies(p)
  PROVE  BoardsInv'
  <1>1. /\ UNCHANGED <<status, applied, marked, cache>> /\ WorkerUnchanged
        /\ p \in Builders /\ JobSound(p) /\ job \in [Penkas -> JobState]
        /\ now \in 0..MaxTime /\ 0 <= now
    BY JobFacts, BoardsAssumption DEF StartRefresh, RefreshFails, WorkerDies, Builders
  <1>2. UNCHANGED <<store, cache, now>>
    BY <1>1 DEF WorkerUnchanged, store
  <1>3. CASE StartRefresh(p)
    <2> DEFINE state == [NoBuild EXCEPT !.pc = "calendar", !.at = now]
    <2>1. state \in BuildState /\ state.pc = "calendar" /\ state.at = now
      BY <1>1, IdleTyped DEF BuildState, NoBuild
    <2>2. Building(p, state) /\ job' = job /\ job[p].pc = "refresh"
      BY <1>3 DEF StartRefresh
    <2> HIDE DEF state
    <2>3. build'[p] = state
      BY <1>1, <2>2, BuildNow
    <2>4. BuildSound(p)'
      BY <1>1, <1>2, <2>1, <2>3 DEF BuildSound, WasAsked, AskedOf
    <2>5. JobSound(p)'
      BY <1>1, <1>2, <2>1, <2>2, <2>3 DEF JobSound, store
    <2> QED
      BY <1>1, <1>2, <2>1, <2>2, <2>4, <2>5, BuildStep
  <1>4. CASE RefreshFails(p) \/ WorkerDies(p)
    <2>1. Building(p, NoBuild) /\ job' = [job EXCEPT ![p].pc = "idle"]
      BY <1>4 DEF RefreshFails, WorkerDies, JobAt
    <2>2. /\ job' \in [Penkas -> JobState] /\ job'[p].pc = "idle"
          /\ \A q \in Penkas : q # p => job'[q] = job[q]
      BY <1>1, <2>1 DEF JobState
    <2> QED
      BY <1>1, <1>2, <2>1, <2>2, BuildDropped
  <1> QED
    BY <1>3, <1>4

LEMMA WorkerBuildsSafe ==
  ASSUME BoardsInv, NEW p \in Penkas, WorkerReads(p) \/ WorkerStores(p)
  PROVE  BoardsInv'
  <1>1. p \in Builders /\ PenkaOf(p) = p /\ UNCHANGED <<store, now>>
    BY PenkaOfBuilder DEF WorkerReads, WorkerStores, WorkerUnchanged, Builders, store
  <1>2. CASE WorkerReads(p)
    BY <1>1, <1>2, ReadsSafe DEF WorkerReads
  <1>3. CASE WorkerStores(p)
    <2>1. /\ build[p].pc = "store" /\ Building(p, NoBuild)
          /\ cache' = [cache EXCEPT ![PenkaOf(p)] = BuildBoard(build[p])]
          /\ job' = [job EXCEPT ![p].pc = "idle"]
      BY <1>1, <1>3 DEF WorkerStores, JobAt
    <2>2. job \in [Penkas -> JobState]
      BY JobFacts
    <2>3. /\ job' \in [Penkas -> JobState] /\ job'[p].pc = "idle"
          /\ \A q \in Penkas : q # p => job'[q] = job[q]
      BY <2>1, <2>2 DEF JobState
    <2> QED
      BY <1>1, <2>1, <2>3, BoardStored
  <1> QED
    BY <1>2, <1>3

-----------------------------------------------------------------------------
LEMMA NextBoards ==
  ASSUME BoardsInv, [Next]_vars
  PROVE  BoardsInv'
  <1>1. ASSUME NEW r \in Requests, Serve(r) \/ RequestFails(r)
        PROVE  BoardsInv'
    BY <1>1, ServeSafe
  <1>2. ASSUME NEW p \in Penkas, Work(p) \/ RefreshFails(p) \/ WorkerDies(p)
        PROVE  BoardsInv'
    BY <1>2, TakeSafe, ApplySafe, SettleSafe, RefreshSafe, WorkerBuildsSafe DEF Work
  <1>3. ASSUME NEW p \in Penkas, Expire(p) \/ Deploy(p)
        PROVE  BoardsInv'
    BY <1>3, CacheSafe
  <1>4. CASE \/ \E p \in Penkas, n \in Matchdays, team \in Teams : SubmitPick(p, n, team)
             \/ \E p \in Penkas : Found(p)
             \/ \E n \in Matchdays : (CloseReads(n) \/ Close(n) \/ RequestResolution(n))
             \/ \E cadence \in Cadences : SetPollingProfile(cadence)
             \/ Tick
    BY <1>4, OutsideSafe
  <1>5. CASE UNCHANGED vars
    <2>1. UNCHANGED <<founded, status, closing, pick, applied, marked, requested, profile, cache,
                      build, job, now>>
      BY <1>5 DEF vars, store
    <2>2. StoreGrows /\ \A p \in Penkas : JobSound(p)'
      BY <2>1, StoreStays DEF BoardsInv, JobSound
    <2>3. FlippedLast'
      BY <2>1 DEF BoardsInv, FlippedLast
    <2>4. cache' \in [Penkas -> Board \cup {NoBoard, Unreadable}]
      BY <2>1 DEF BoardsInv
    <2> QED
      BY <2>1, <2>2, <2>3, <2>4, TypeFacts, StoreStep
  <1> QED
    BY <1>1, <1>2, <1>3, <1>4, <1>5 DEF Next

(* What a cached board is allowed to show rests on what the builds have    *)
(* read so far: a matchday read as no longer open is still not open, every *)
(* matchday before it has its marker in every penka it was asked of, for   *)
(* the flip to resolved comes last, and no later press asks another penka  *)
(* of it; and the entries are written before their marker.                 *)
THEOREM BoardsInvariance == Spec => []BoardsInv
  <1>1. Init => BoardsInv
    BY InitBoards
  <1>2. BoardsInv /\ [Next]_vars => BoardsInv'
    BY NextBoards
  <1> QED
    BY <1>1, <1>2, PTL DEF Spec

(* The collections, the boards in Redis and the builds have the types the  *)
(* schemas give them.                                                      *)
THEOREM BoardsTypeCorrect == Spec => []BoardsTypeOK
  <1>1. BoardsInv => BoardsTypeOK
    BY DEF BoardsInv
  <1> QED
    BY <1>1, BoardsInvariance, PTL

(* No board in Redis shows a pick of a matchday that is still open, though *)
(* its status, its pick and its clock are read at three moments and the    *)
(* worker's build takes the clock before it reads anything.                *)
THEOREM PicksAreSecret == Spec => []SecretUntilLock
  <1>1. BoardsInv => SecretUntilLock
    BY DEF BoardsInv
  <1> QED
    BY <1>1, BoardsInvariance, PTL

(* A cached board about one matchday has the standings and the history of  *)
(* every matchday before it that was asked of its penka, and of its own    *)
(* once it says resolved, however its queries interleave with resolutions, *)
(* late closes and the founding of penkas: what it can lack is what was    *)
(* first asked before its penka was there.                                 *)
THEOREM PastShown == Spec => []PastIsComplete
  <1>1. BoardsInv => PastIsComplete
    BY DEF BoardsInv
  <1> QED
    BY <1>1, BoardsInvariance, PTL

(* The board the worker caches after a resolution accounts for it: its     *)
(* build read the entries and the markers after its own were stored.       *)
THEOREM OwnBoardShowsIt == Spec => OwnBoardIsAfter
  <1> DEFINE After == \A p \in Penkas : WorkerStores(p) =>
                        job[p].matchday \in cache'[p].standings \cap cache'[p].history
  <1>1. BoardsInv => After
    <2> SUFFICES ASSUME BoardsInv, NEW p \in Penkas, WorkerStores(p)
                 PROVE  job[p].matchday \in cache'[p].standings \cap cache'[p].history
      OBVIOUS
    <2>1. /\ build[p].pc = "store" /\ p \in Builders
          /\ cache' = [cache EXCEPT ![p] = BuildBoard(build[p])]
      BY DEF WorkerStores, Builders
    <2>2. cache'[p] = BuildBoard(build[p])
      BY <2>1, JobFacts
    <2> QED
      BY <2>1, <2>2, BoardBuilt
  <1>2. BoardsInv /\ [Next]_vars => [After]_vars
    BY <1>1
  <1> QED
    BY <1>2, BoardsInvariance, PTL DEF Spec, OwnBoardIsAfter
===============================================================================
