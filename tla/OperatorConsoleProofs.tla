------------------------ MODULE OperatorConsoleProofs ------------------------
(***************************************************************************)
(* What the operator's console shows, proved for any leagues, calendars,   *)
(* links, reads in flight and failures.                                    *)
(***************************************************************************)
EXTENDS OperatorConsoleProperties, WellFoundedInduction, TLAPS

CalendarRead == [step: {"calendar"}, league: Leagues, linked: BOOLEAN,
                 opening: Numbers \cup {Pending, Failed}]
Answer == [status: Statuses, complete: BOOLEAN]
DetailRead == [step: {"detail"}, id: Matchdays, linked: BOOLEAN,
               answer: Answer \cup {Pending, Failed}]
ReadState == {Idle} \cup CalendarRead \cup DetailRead
WriteState == [step: {"close", "result", "resolve"}, id: Matchdays,
               answer: {"accepted", "done", Pending, Failed}]
WatchState == [step: {"wait", "read"}, attempt: 0..(ResolvePollAttempts - 1)]

ServerTyped ==
  /\ status \in [Matchdays -> Statuses]
  /\ complete \subseteq Matchdays /\ closing \subseteq Matchdays /\ wasResolved \subseteq Matchdays
  /\ \A id \in Matchdays : status[id] = "resolved" => id \in wasResolved
ScreenTyped ==
  /\ selected \in [league: Leagues \cup {None}, number: Numbers \cup {None}]
  /\ calendar \in Leagues \cup {None}
  /\ matchday \in [id: Matchdays, status: {"open", "locked", "resolved"}] \cup {None}
  /\ matches \in [id: Matchdays, complete: BOOLEAN] \cup {None}
ReadTyped == read \in [Reads -> ReadState]
WriteTyped == write \in {Idle} \cup WriteState
WatchTyped == watch \in {Idle} \cup WatchState

(* A ConsoleView is mounted when the page loads and when the gate opens,   *)
(* and each closing of the gate was an event.                              *)
SessionTyped ==
  /\ locked \in BOOLEAN /\ stale \in BOOLEAN /\ events \in 0..MaxEvents
  /\ mounting \in Nat /\ mounting <= events + 1 /\ (locked => mounting <= events)

(* Nothing is selected, held or asked for outside a league.                *)
LeagueChosen ==
  (IsSelected \/ calendar # None \/ \E r \in Reads : read[r].step = "calendar")
    => selected.league \in Leagues

ConsoleTyped ==
  /\ ServerTyped /\ ScreenTyped /\ ReadTyped /\ WriteTyped /\ WatchTyped /\ SessionTyped
  /\ LeagueChosen

(* What the API has answered was reached by its matchday.                  *)
Answered(r) == read[r].step = "detail" /\ read[r].answer \notin {Pending, Failed}
AnswersAreBehind ==
  \A r \in Reads : Answered(r) =>
    /\ HasReached(read[r].id, read[r].answer.status)
    /\ read[r].answer.complete => read[r].id \in complete

(* Only a close waits to be written, and what is answered done is done.    *)
DoneIsDone ==
  /\ Busy /\ write.answer = "accepted" => write.step = "close"
  /\ Busy /\ write.answer = "done" =>
       /\ write.step = "close" => status[write.id] # "open"
       /\ write.step = "result" => write.id \in complete

(* The selected matchday is on screen, or on its way there, as long as     *)
(* nothing was lost or late.                                               *)
Sought(r) == read[r].step = "detail" /\ read[r].id = SelectedId
AlignedOrSought == IsSelected /\ ~stale => Aligned \/ \E r \in Reads : Sought(r)

ConsoleInv ==
  /\ ConsoleTyped
  /\ ShowsNothingAhead /\ AnswersAreBehind /\ DoneIsDone
  /\ AlignedOrSought

-----------------------------------------------------------------------------
LEMMA InitConsole == Init => ConsoleInv
  <1> SUFFICES ASSUME Init PROVE ConsoleInv
    OBVIOUS
  <1>1. /\ \A r \in Reads : read[r] = Idle /\ read[r].step = "idle"
        /\ read \in [Reads -> {Idle}] /\ write = Idle /\ watch = Idle
    BY DEF Init, Idle
  <1>2. selected.number = None /\ calendar = None /\ matchday = None /\ matches = None
    BY DEF Init
  <1>3. ConsoleTyped
    <2>1. ServerTyped /\ WriteTyped /\ WatchTyped
      BY OperatorConsoleAssumption DEF Init, ServerTyped, WriteTyped, WatchTyped
    <2>2. ScreenTyped
      BY DEF Init, ScreenTyped
    <2>3. ReadTyped
      BY <1>1 DEF ReadTyped, ReadState
    <2>4. SessionTyped
      <3>1. locked = FALSE /\ stale = FALSE /\ mounting = 1 /\ events = 0
        BY DEF Init
      <3>2. events \in 0..MaxEvents /\ mounting \in Nat /\ mounting <= events + 1
        BY <3>1, OperatorConsoleAssumption
      <3>3. locked \in BOOLEAN /\ stale \in BOOLEAN /\ ~locked
        BY <3>1
      <3> QED
        BY <3>2, <3>3 DEF SessionTyped
    <2>5. LeagueChosen
      BY <1>1, <1>2 DEF LeagueChosen, IsSelected
    <2> QED
      BY <2>1, <2>2, <2>3, <2>4, <2>5 DEF ConsoleTyped
  <1>4. ShowsNothingAhead /\ AnswersAreBehind /\ DoneIsDone /\ AlignedOrSought
    BY <1>1, <1>2
      DEF ShowsNothingAhead, HasReached, AnswersAreBehind, Answered, DoneIsDone, Busy,
        AlignedOrSought, IsSelected
  <1> QED
    BY <1>3, <1>4 DEF ConsoleInv

-----------------------------------------------------------------------------
(* A set of natural numbers that is not empty has a least one. *)
LEMMA LeastNumber ==
  ASSUME NEW T \in SUBSET Nat, T # {}
  PROVE  \E x \in T : \A y \in T : x <= y
  <1> DEFINE R == {ss \in Nat \X Nat : ss[1] < ss[2]}
  <1>1. IsWellFoundedOn(R, Nat)
    BY NatLessThanWellFounded DEF OpToRel
  <1>2. PICK x \in T : \A y \in T : <<y, x>> \notin R
    <2> HIDE DEF R
    <2> QED
      BY <1>1, WFMin
  <1>3. ASSUME NEW y \in T PROVE x <= y
    <2>1. <<y, x>> \notin R /\ <<y, x>> \in Nat \X Nat
      BY <1>2
    <2> QED
      BY <2>1
  <1> QED
    BY <1>3

(* A navigation takes a place that is free. *)
LEMMA FreeReadIsIdle ==
  ASSUME HasFreeRead
  PROVE  FreeRead \in Reads /\ FreeRead \in Navigating /\ read[FreeRead] = Idle
  <1> DEFINE T == {r \in Navigating : read[r] = Idle}
             IsFirst(r) == read[r] = Idle /\ \A q \in 1..(r - 1) : read[q] # Idle
  <1>1. Navigating \in SUBSET Nat /\ \A q \in Nat,
    r \in Navigating : q \in 1..(r - 1) => q \in Navigating
    BY OperatorConsoleAssumption DEF Navigating, Reads
  <1>2. T # {} /\ T \in SUBSET Nat
    BY <1>1 DEF HasFreeRead
  <1>3. PICK x \in T : \A y \in T : x <= y
    BY <1>2, LeastNumber
  <1>4. IsFirst(x) /\ x \in Navigating
    <2> SUFFICES ASSUME NEW q \in 1..(x - 1), read[q] = Idle PROVE FALSE
      OBVIOUS
    <2>1. x \in Nat /\ x \in Navigating
      BY <1>1
    <2>2. q \in Nat /\ q < x
      BY <2>1
    <2>3. q \in T
      BY <1>1, <2>1, <2>2
    <2> QED
      BY <1>3, <2>1, <2>2, <2>3
  <1>5. FreeRead = CHOOSE r \in Navigating : IsFirst(r)
    BY DEF FreeRead
  <1> HIDE DEF IsFirst, T
  <1>6. FreeRead \in Navigating /\ IsFirst(FreeRead)
    BY <1>4, <1>5
  <1> QED
    BY <1>6 DEF IsFirst, Navigating

(* The calendar's answer names one of its matchdays. *)
LEMMA OpeningTyped ==
  ASSUME NEW league
  PROVE  Opening(league) \in Numbers
  <1> DEFINE unresolved == {n \in Numbers : status[<<league, n>>] # "resolved"}
             IsFirst(n) == \A other \in unresolved : n <= other
  <1>1. Numbers \in SUBSET Nat /\ LastMatchday \in Numbers
    BY OperatorConsoleAssumption DEF Numbers
  <1>2. CASE unresolved = {}
    BY <1>1, <1>2 DEF Opening
  <1>3. CASE unresolved # {}
    <2>1. \E n \in unresolved : IsFirst(n)
      BY <1>1, <1>3, LeastNumber
    <2>2. Opening(league) = CHOOSE n \in unresolved : IsFirst(n)
      BY <1>3 DEF Opening
    <2>3. Opening(league) \in unresolved
      BY <2>1, <2>2
    <2> QED
      BY <2>3
  <1> QED
    BY <1>2, <1>3

(* What a place holds. *)
LEMMA ReadFacts ==
  ASSUME ConsoleTyped, NEW r \in Reads
  PROVE  /\ read \in [Reads -> ReadState] /\ read[r] \in ReadState
         /\ read[r].step = "calendar" => read[r] \in CalendarRead
         /\ read[r].step = "detail" => read[r] \in DetailRead
  <1>1. read \in [Reads -> ReadState] /\ read[r] \in ReadState
    BY DEF ConsoleTyped, ReadTyped
  <1> QED
    BY <1>1 DEF ReadState, CalendarRead, DetailRead, Idle

(* One place changes: to nothing, to an answer or to another read.         *)
LEMMA ReadStep ==
  ASSUME ConsoleTyped, NEW r \in Reads, NEW next \in ReadState,
         read' = [read EXCEPT ![r] = next]
  PROVE  /\ ReadTyped' /\ read'[r] = next /\ read' \in [Reads -> ReadState]
         /\ \A q \in Reads : q # r => read'[q] = read[q]
  BY DEF ConsoleTyped, ReadTyped

(* The records that become a read. *)
LEMMA NewRead ==
  ASSUME NEW linked \in BOOLEAN
  PROVE  /\ Idle \in ReadState /\ Idle.step = "idle"
         /\ \A league \in Leagues : /\ Calendar(league, linked) \in ReadState
                                    /\ Calendar(league, linked).step = "calendar"
         /\ \A id \in Matchdays : /\ Detail(id, linked) \in ReadState
                                  /\ Detail(id, linked).step = "detail"
                                  /\ Detail(id, linked).id = id
                                  /\ Detail(id, linked).answer = Pending
  <1>1. Idle \in ReadState /\ Idle.step = "idle"
    BY DEF ReadState, Idle
  <1>2. ASSUME NEW league \in Leagues
        PROVE  Calendar(league, linked) \in ReadState /\ Calendar(league, linked).step = "calendar"
    <2>1. Calendar(league, linked) \in CalendarRead
      BY DEF Calendar, CalendarRead
    <2> QED
      BY <2>1 DEF ReadState, CalendarRead
  <1>3. ASSUME NEW id \in Matchdays
        PROVE  /\ Detail(id, linked) \in ReadState /\ Detail(id, linked).step = "detail"
               /\ Detail(id, linked).id = id /\ Detail(id, linked).answer = Pending
    <2>1. Detail(id, linked) \in DetailRead
      BY DEF Detail, DetailRead
    <2> QED
      BY <2>1 DEF ReadState, Detail
  <1> QED
    BY <1>1, <1>2, <1>3

(* The selection is a matchday of its league. *)
LEMMA SelectedTyped ==
  ASSUME ConsoleTyped, IsSelected
  PROVE  SelectedId \in Matchdays
  BY DEF ConsoleTyped, LeagueChosen, ScreenTyped, IsSelected, SelectedId, Matchdays

(* What a matchday has reached is reached for good: the API opens nothing  *)
(* again, forgets no result, and what was resolved was.                    *)
MovesOn ==
  /\ \A id \in Matchdays : status[id] # "open" => status'[id] # "open"
  /\ wasResolved \subseteq wasResolved' /\ complete \subseteq complete'

LEMMA ReachedForGood ==
  ASSUME MovesOn, NEW id \in Matchdays, NEW st, HasReached(id, st)
  PROVE  /\ st # "open" => status'[id] # "open"
         /\ st = "resolved" => id \in wasResolved'
  BY DEF MovesOn, HasReached

-----------------------------------------------------------------------------
(* Navigating: the screen and one place change. *)

LEMMA PlaceStep ==
  ASSUME ConsoleInv, NEW r \in Reads, NEW next \in ReadState,
         read' = [read EXCEPT ![r] = next], next.step = "detail" => next.answer = Pending,
         UNCHANGED <<status, complete, closing, wasResolved, write>>, WatchTyped', SessionTyped',
                     ScreenTyped', LeagueChosen',
         ShowsNothingAhead', AlignedOrSought'
  PROVE  ConsoleInv'
  <1>1. ConsoleTyped'
    BY ReadStep DEF ConsoleInv, ConsoleTyped, ServerTyped, WriteTyped
  <1>2. AnswersAreBehind'
    <2>1. read'[r] = next /\ \A q \in Reads : q # r => read'[q] = read[q]
      BY ReadStep DEF ConsoleInv
    <2> QED
      BY <2>1 DEF AnswersAreBehind, Answered, ConsoleInv, HasReached
  <1>3. DoneIsDone'
    BY DEF DoneIsDone, Busy, ConsoleInv
  <1> QED
    BY <1>1, <1>2, <1>3 DEF ConsoleInv

LEMMA NavigationStep ==
  ASSUME ConsoleInv, NEW r \in Reads, NEW next \in ReadState,
         read' = [read EXCEPT ![r] = next], next.step = "detail" => next.answer = Pending,
         UNCHANGED <<status, complete, closing, wasResolved, write, watch>>, SessionTyped',
                     ScreenTyped', LeagueChosen',
         ShowsNothingAhead', AlignedOrSought'
  PROVE  ConsoleInv'
  <1>1. WatchTyped'
    BY DEF ConsoleInv, ConsoleTyped, WatchTyped
  <1> QED
    BY <1>1, PlaceStep

LEMMA OpenedSafe ==
  ASSUME ConsoleInv, NEW league \in Leagues, NEW linked \in BOOLEAN, OpenedIn(league, linked),
         UNCHANGED <<status, complete, closing, wasResolved, write, watch, stale>>, SessionTyped'
  PROVE  ConsoleInv'
  <1>1. FreeRead \in Reads /\ read' = [read EXCEPT ![FreeRead] = Calendar(league, linked)]
    BY FreeReadIsIdle DEF OpenedIn
  <1>2. Calendar(league, linked) \in ReadState /\ Calendar(league, linked).step = "calendar"
    BY NewRead
  <1>3. /\ selected' = [league |-> league, number |-> None] /\ selected'.number = None
        /\ selected'.league = league
        /\ calendar' = None /\ matchday' = None /\ matches' = None
    BY DEF OpenedIn
  <1>4. ScreenTyped' /\ LeagueChosen'
    BY <1>3 DEF ScreenTyped, LeagueChosen
  <1>5. ShowsNothingAhead' /\ AlignedOrSought'
    BY <1>3 DEF ShowsNothingAhead, AlignedOrSought, IsSelected
  <1> QED
    BY <1>1, <1>2, <1>4, <1>5, NavigationStep

(* What is on screen rests on the API's state, and not on the selection.   *)
LEMMA NavigationSafe ==
  ASSUME ConsoleInv,
         \/ \E league \in Leagues : OpenLeague(league)
         \/ \E league \in Suggestions : Mount(league)
         \/ \E number \in Numbers : GoTo(number)
         \/ Refresh
  PROVE  ConsoleInv'
  <1>1. ConsoleTyped /\ SessionTyped /\ LeagueChosen /\ ScreenTyped /\ events \in Int /\ mounting \in Int
    BY DEF ConsoleInv, ConsoleTyped, SessionTyped
  <1>2. ASSUME NEW league \in Leagues, OpenLeague(league)
        PROVE  ConsoleInv'
    <2>1. /\ OpenedIn(league, FALSE) /\ UNCHANGED <<status, complete, closing, wasResolved, write,
                                                    watch, stale, locked, mounting>>
          /\ events < MaxEvents /\ events' = events + 1
      BY <1>2 DEF OpenLeague, Event, NavigationOnly, server, session
    <2>2. SessionTyped'
      BY <1>1, <2>1, OperatorConsoleAssumption DEF SessionTyped
    <2> QED
      BY <2>1, <2>2, OpenedSafe
  <1>3. ASSUME NEW league \in Suggestions, Mount(league)
        PROVE  ConsoleInv'
    <2>1. /\ UNCHANGED <<status, complete, closing, wasResolved, write, watch, stale, locked, events>>
          /\ mounting > 0 /\ mounting' = mounting - 1
      BY <1>3 DEF Mount, server
    <2>2. SessionTyped'
      BY <1>1, <2>1, OperatorConsoleAssumption DEF SessionTyped
    <2>3. CASE league = None
      <3>1. UNCHANGED <<selected, calendar, matchday, matches, read>>
        BY <1>3, <2>3 DEF Mount, screen
      <3> QED
        BY <2>1, <2>2, <3>1
          DEF ConsoleInv, ConsoleTyped, ServerTyped, ScreenTyped, ReadTyped, WriteTyped, WatchTyped,
              LeagueChosen, IsSelected, ShowsNothingAhead, HasReached, AnswersAreBehind, Answered,
                DoneIsDone, Busy,
              AlignedOrSought, Aligned, Sought, SelectedId
    <2>4. CASE league # None
      <3>1. OpenedIn(league, TRUE) /\ league \in Leagues
        BY <1>3, <2>4 DEF Mount, Suggestions
      <3> QED
        BY <2>1, <2>2, <3>1, OpenedSafe
    <2> QED
      BY <2>3, <2>4
  <1>4. ASSUME NEW number \in Numbers, GoTo(number)
        PROVE  ConsoleInv'
    <2> DEFINE id == <<selected.league, number>>
    <2>1. /\ FreeRead \in Reads /\ read' = [read EXCEPT ![FreeRead] = Detail(id, FALSE)]
          /\ selected' = [selected EXCEPT !.number = number] /\ calendar # None
          /\ UNCHANGED <<calendar, matchday, matches, stale, status, complete, closing, wasResolved>>
          /\ UNCHANGED <<write, watch, locked, mounting>>
          /\ events < MaxEvents /\ events' = events + 1
      BY <1>4, FreeReadIsIdle DEF GoTo, Event, NavigationOnly, server, session
    <2>2. selected.league \in Leagues /\ id \in Matchdays
      BY <1>1, <2>1 DEF LeagueChosen, Matchdays
    <2>3. selected'.league = selected.league /\ SelectedId' = id
      BY <1>1, <2>1 DEF ScreenTyped, SelectedId
    <2>4. SessionTyped'
      BY <1>1, <2>1, OperatorConsoleAssumption DEF SessionTyped
    <2>5. ScreenTyped' /\ LeagueChosen'
      BY <1>1, <2>1, <2>2, <2>3 DEF ScreenTyped, LeagueChosen
    <2>6. ShowsNothingAhead'
      BY <2>1 DEF ConsoleInv, ShowsNothingAhead, HasReached
    <2> HIDE DEF id
    <2>7. /\ Detail(id, FALSE) \in ReadState /\ Detail(id, FALSE).step = "detail"
          /\ Detail(id, FALSE).id = id /\ Detail(id, FALSE).answer = Pending
      BY <2>2, NewRead
    <2>8. AlignedOrSought'
      <3>1. read'[FreeRead] = Detail(id, FALSE)
        BY <1>1, <2>1, <2>7, ReadStep
      <3> QED
        BY <2>1, <2>3, <2>7, <3>1 DEF AlignedOrSought, Sought
    <2> QED
      BY <2>1, <2>4, <2>5, <2>6, <2>7, <2>8, NavigationStep
  <1>5. CASE Refresh
    <2>1. /\ FreeRead \in Reads /\ read' = [read EXCEPT ![FreeRead] = Detail(SelectedId, FALSE)]
          /\ UNCHANGED <<selected, calendar, matchday, matches, stale, status, complete, closing,
                         wasResolved>>
          /\ UNCHANGED <<write, watch, locked, mounting>>
          /\ events < MaxEvents /\ events' = events + 1 /\ IsSelected
      BY <1>5, FreeReadIsIdle DEF Refresh, Event, NavigationOnly, server, session, screen
    <2>2. SelectedId \in Matchdays /\ SelectedId' = SelectedId /\ selected.league \in Leagues
      BY <1>1, <2>1, SelectedTyped DEF SelectedId, LeagueChosen
    <2>3. SessionTyped'
      BY <1>1, <2>1, OperatorConsoleAssumption DEF SessionTyped
    <2>4. ScreenTyped' /\ LeagueChosen' /\ ShowsNothingAhead'
      BY <1>1, <2>1, <2>2 DEF ScreenTyped, LeagueChosen, ShowsNothingAhead, HasReached, ConsoleInv
    <2>5. /\ Detail(SelectedId, FALSE) \in ReadState /\ Detail(SelectedId, FALSE).step = "detail"
          /\ Detail(SelectedId, FALSE).id = SelectedId /\ Detail(SelectedId, FALSE).answer = Pending
      BY <2>2, NewRead
    <2>6. AlignedOrSought'
      <3>1. read'[FreeRead] = Detail(SelectedId, FALSE)
        BY <1>1, <2>1, <2>5, ReadStep
      <3> QED
        BY <2>1, <2>2, <2>5, <3>1 DEF AlignedOrSought, Sought
    <2> QED
      BY <2>1, <2>3, <2>4, <2>5, <2>6, NavigationStep
  <1> QED
    BY <1>2, <1>3, <1>4, <1>5

-----------------------------------------------------------------------------
(* The API answers a read, or nobody does. *)

LEMMA AnswerStep ==
  ASSUME ConsoleInv, NEW r \in Reads, NEW next \in ReadState,
         read' = [read EXCEPT ![r] = next], next.step = read[r].step, read[r].step # "idle",
         next.step = "detail" =>
           /\ next.id = read[r].id
           /\ next.answer \notin {Pending, Failed} =>
                /\ HasReached(next.id, next.answer.status)
                /\ next.answer.complete => next.id \in complete,
         UNCHANGED <<status, complete, closing, wasResolved, screen, write, watch, stale>>,
                     SessionTyped'
  PROVE  ConsoleInv'
  <1>1. /\ read'[r] = next /\ \A q \in Reads : q # r => read'[q] = read[q]
        /\ ReadTyped'
    BY ReadStep DEF ConsoleInv
  <1>2. UNCHANGED <<selected, calendar, matchday, matches>> /\ SelectedId' = SelectedId
    BY DEF screen, SelectedId
  <1>3. ConsoleTyped'
    <2>1. LeagueChosen'
      BY <1>1, <1>2 DEF ConsoleInv, ConsoleTyped, LeagueChosen, IsSelected
    <2> QED
      BY <1>1, <1>2, <2>1
        DEF ConsoleInv, ConsoleTyped, ServerTyped, ScreenTyped, WriteTyped, WatchTyped
  <1>4. ShowsNothingAhead' /\ DoneIsDone'
    BY <1>2 DEF ConsoleInv, ShowsNothingAhead, HasReached, DoneIsDone, Busy
  <1>5. AnswersAreBehind'
    BY <1>1 DEF ConsoleInv, AnswersAreBehind, Answered, HasReached
  <1>6. AlignedOrSought'
    <2>1. \A q \in Reads : Sought(q) => Sought(q)'
      BY <1>1, <1>2 DEF Sought
    <2> QED
      BY <1>2, <2>1 DEF ConsoleInv, AlignedOrSought, Aligned, IsSelected
  <1> QED
    BY <1>3, <1>4, <1>5, <1>6 DEF ConsoleInv

(* The gate goes up with an event. *)
LEMMA GateTyped ==
  ASSUME SessionTyped, events < MaxEvents, events' = events + 1, mounting' = mounting,
         locked' \in BOOLEAN, stale' \in BOOLEAN
  PROVE  SessionTyped'
  <1>1. events' \in 0..MaxEvents /\ mounting' \in Nat /\ mounting' <= events' /\ mounting' <= events' + 1
    BY OperatorConsoleAssumption DEF SessionTyped
  <1> QED
    BY <1>1 DEF SessionTyped

LEMMA AnswersSafe ==
  ASSUME ConsoleInv, NEW r \in Reads, ServeCalendar(r) \/ ServeDetail(r) \/ ReadFails(r)
  PROVE  ConsoleInv'
  <1>1. /\ UNCHANGED <<status, complete, closing, wasResolved, screen, write, watch, stale>>
        /\ ConsoleTyped /\ SessionTyped /\ ServerTyped
    BY DEF ServeCalendar, ServeDetail, ReadFails, NavigationOnly, server, ConsoleInv, ConsoleTyped
  <1>2. SessionTyped'
    <2>1. CASE UNCHANGED <<locked, mounting, events>>
      BY <1>1, <2>1 DEF SessionTyped
    <2>2. CASE ReadFails(r)
      <3>1. events < MaxEvents /\ events' = events + 1 /\ mounting' = mounting /\ locked' \in {locked, TRUE}
        BY <2>2 DEF ReadFails, Event, Refused
      <3>2. locked' \in BOOLEAN /\ stale' \in BOOLEAN
        BY <1>1, <3>1 DEF SessionTyped
      <3> QED
        BY <1>1, <3>1, <3>2, GateTyped
    <2> QED
      BY <2>1, <2>2 DEF ServeCalendar, ServeDetail, NavigationOnly, session
  <1>3. CASE read[r].step = "calendar"
    <2>1. read[r] \in CalendarRead
      BY <1>1, <1>3, ReadFacts
    <2>2. \E opening \in Numbers \cup {Failed} : read' = [read EXCEPT ![r].opening = opening]
      BY <1>3, OpeningTyped DEF ServeCalendar, ServeDetail, ReadFails
    <2>3. PICK opening \in Numbers \cup {Failed} : read' = [read EXCEPT ![r].opening = opening]
      BY <2>2
    <2> DEFINE next == [read[r] EXCEPT !.opening = opening]
    <2>4. next \in ReadState /\ next.step = "calendar" /\ read' = [read EXCEPT ![r] = next]
      BY <2>1, <2>3 DEF CalendarRead, ReadState
    <2> HIDE DEF next
    <2> QED
      BY <1>1, <1>2, <1>3, <2>4, AnswerStep
  <1>4. CASE read[r].step = "detail"
    <2>1. read[r] \in DetailRead
      BY <1>1, <1>4, ReadFacts
    <2> DEFINE seen == [status |-> status[read[r].id], complete |-> read[r].id \in complete]
    <2>2. \E answer \in {seen, Failed} : read' = [read EXCEPT ![r].answer = answer]
      BY <1>4 DEF ServeCalendar, ServeDetail, ReadFails
    <2>3. PICK answer \in {seen, Failed} : read' = [read EXCEPT ![r].answer = answer]
      BY <2>2
    <2> DEFINE next == [read[r] EXCEPT !.answer = answer]
    <2>4. /\ seen \in Answer /\ seen.status = status[read[r].id]
          /\ (seen.complete => read[r].id \in complete)
      <3>1. status[read[r].id] \in Statuses /\ (read[r].id \in complete) \in BOOLEAN
        BY <1>1, <2>1 DEF ServerTyped, DetailRead
      <3>2. seen \in Answer
        BY <3>1 DEF Answer
      <3> QED
        BY <3>2
    <2> HIDE DEF seen
    <2>5. /\ next \in ReadState /\ next.step = "detail" /\ read' = [read EXCEPT ![r] = next]
          /\ next.id = read[r].id /\ next.answer = answer
      BY <2>1, <2>3, <2>4 DEF DetailRead, ReadState
    <2>6. HasReached(read[r].id, status[read[r].id])
      BY <1>1, <2>1 DEF ServerTyped, DetailRead, HasReached
    <2> HIDE DEF next
    <2> QED
      BY <1>1, <1>2, <1>4, <2>3, <2>4, <2>5, <2>6, AnswerStep
  <1> QED
    BY <1>3, <1>4 DEF ServeCalendar, ServeDetail, ReadFails

-----------------------------------------------------------------------------
(* An answer lands. *)

(* What it puts on screen is behind the API, and the selected matchday if  *)
(* nothing is held against it.                                             *)
LEMMA ShownIsBehind ==
  ASSUME ConsoleInv, NEW r \in Reads, read[r].step = "detail", read[r].answer # Pending, OnScreen(r),
         UNCHANGED <<status, complete, closing, wasResolved>>
  PROVE  /\ matchday' \in [id: Matchdays, status: {"open", "locked", "resolved"}] \cup {None}
         /\ matches' \in [id: Matchdays, complete: BOOLEAN] \cup {None}
         /\ stale' \in BOOLEAN /\ ShowsNothingAhead'
         /\ ~stale' => /\ matchday' # None /\ matchday'.id = SelectedId
                       /\ matches' # None /\ matches'.id = SelectedId
  <1>1. read[r] \in DetailRead /\ ScreenTyped
    BY ReadFacts DEF ConsoleInv, ConsoleTyped
  <1>2. CASE read[r].answer = Failed
    <2>1. stale' = TRUE /\ UNCHANGED <<matchday, matches>>
      BY <1>2 DEF OnScreen
    <2> QED
      BY <1>1, <2>1 DEF ScreenTyped, ConsoleInv, ShowsNothingAhead, HasReached
  <1>3. CASE read[r].answer # Failed
    <2> DEFINE answer == read[r].answer
               shown == SeenStatus(answer.status)
               id == read[r].id
    <2>1. answer \in Answer /\ id \in Matchdays
      BY <1>1, <1>3 DEF DetailRead
    <2>2. /\ matchday' = [id |-> id, status |-> shown]
          /\ matches' = [id |-> id, complete |-> answer.complete]
          /\ stale' = (id # SelectedId)
      BY <1>3 DEF OnScreen
    <2>3. /\ shown \in {"open", "locked", "resolved"}
          /\ (shown = "open" <=> answer.status = "open")
          /\ (shown = "resolved" <=> answer.status = "resolved")
      BY <2>1 DEF SeenStatus, Answer, Statuses
    <2>4. HasReached(id, answer.status) /\ (answer.complete => id \in complete)
      BY <1>3 DEF ConsoleInv, AnswersAreBehind, Answered
    <2> HIDE DEF answer, shown, id
    <2>5. /\ matchday' \in [id: Matchdays, status: {"open", "locked", "resolved"}]
          /\ matches' \in [id: Matchdays, complete: BOOLEAN]
          /\ matchday'.id = id /\ matches'.id = id /\ matchday'.status = shown
          /\ matches'.complete = answer.complete
      BY <2>1, <2>2, <2>3 DEF Answer
    <2>6. matchday' # None /\ matches' # None
      BY <2>5, OperatorConsoleAssumption DEF Statuses
    <2>7. ShowsNothingAhead'
      BY <2>3, <2>4, <2>5 DEF ShowsNothingAhead, HasReached
    <2> QED
      BY <2>2, <2>5, <2>6, <2>7
  <1> QED
    BY <1>2, <1>3

(* The link is followed within the league, or the place is free again.     *)
LEMMA FollowedIs ==
  ASSUME ConsoleTyped, NEW r \in Reads, Followed(r), UNCHANGED calendar
  PROVE  \E next \in ReadState :
           /\ read' = [read EXCEPT ![r] = next]
           /\ selected' \in [league: Leagues \cup {None}, number: Numbers \cup {None}]
           /\ selected'.league = selected.league
           /\ \/ next = Idle /\ selected' = selected
              \/ /\ next = Detail(SelectedId', FALSE) /\ next.step = "detail" /\ next.id = SelectedId'
                 /\ next.answer = Pending /\ calendar # None
  <1>1. selected \in [league: Leagues \cup {None}, number: Numbers \cup {None}]
    BY DEF ConsoleTyped, ScreenTyped
  <1>2. CASE ~FollowsLink(r)
    <2>1. read' = [read EXCEPT ![r] = Idle] /\ selected' = selected
      BY <1>2 DEF Followed
    <2> QED
      BY <1>1, <2>1 DEF ReadState
  <1>3. CASE FollowsLink(r)
    <2> DEFINE id == <<selected.league, LinkNumber>>
    <2>1. LinkNumber \in Numbers /\ calendar # None
      BY <1>3, OperatorConsoleAssumption DEF FollowsLink
    <2>2. selected.league \in Leagues
      BY <2>1 DEF ConsoleTyped, LeagueChosen
    <2>3. /\ selected' = [selected EXCEPT !.number = LinkNumber]
          /\ read' = [read EXCEPT ![r] = Detail(id, FALSE)]
      BY <1>3 DEF Followed
    <2>4. /\ selected' \in [league: Leagues \cup {None}, number: Numbers \cup {None}]
          /\ selected'.league = selected.league /\ SelectedId' = id
      BY <1>1, <2>1, <2>3 DEF SelectedId
    <2>5. id \in Matchdays
      BY <2>1, <2>2 DEF Matchdays
    <2> HIDE DEF id
    <2>6. /\ Detail(id, FALSE) \in ReadState /\ Detail(id, FALSE).step = "detail"
          /\ Detail(id, FALSE).id = id /\ Detail(id, FALSE).answer = Pending
      BY <2>5, NewRead
    <2> QED
      BY <2>1, <2>3, <2>4, <2>6
  <1> QED
    BY <1>2, <1>3

LEMMA CalendarLandsSafe ==
  ASSUME ConsoleInv, NEW r \in Reads, CalendarLands(r)
  PROVE  ConsoleInv'
  <1>1. /\ UNCHANGED <<status, complete, closing, wasResolved, write, watch, locked, mounting,
                       events, matchday, matches>>
        /\ ConsoleTyped /\ SessionTyped /\ ScreenTyped /\ LeagueChosen /\ ShowsNothingAhead
        /\ read[r].step = "calendar" /\ read[r] \in CalendarRead
        /\ selected.league \in Leagues
        /\ stale' = (stale \/ read[r].opening = Failed \/ read[r].league # selected.league)
    BY ReadFacts
      DEF CalendarLands, NavigationOnly, server, session, ConsoleInv, ConsoleTyped, LeagueChosen
  <1>2. SessionTyped' /\ ShowsNothingAhead'
    BY <1>1 DEF SessionTyped, ShowsNothingAhead, HasReached
  <1>3. CASE read[r].opening = Failed
    <2>1. Followed(r) /\ UNCHANGED calendar /\ stale' = TRUE
      BY <1>1, <1>3 DEF CalendarLands
    <2>2. PICK next \in ReadState :
            /\ read' = [read EXCEPT ![r] = next]
            /\ selected' \in [league: Leagues \cup {None}, number: Numbers \cup {None}]
            /\ selected'.league = selected.league
            /\ next = Idle \/ next.answer = Pending
      BY <1>1, <2>1, FollowedIs
    <2>3. ScreenTyped' /\ LeagueChosen' /\ AlignedOrSought'
      BY <1>1, <2>1, <2>2 DEF ScreenTyped, LeagueChosen, AlignedOrSought
    <2>4. next.step = "detail" => next.answer = Pending
      BY <2>2 DEF Idle
    <2> QED
      BY <1>1, <1>2, <2>2, <2>3, <2>4, NavigationStep
  <1>4. CASE read[r].opening # Failed
    <2> DEFINE id == <<selected.league, read[r].opening>>
               next == Detail(id, read[r].linked)
    <2>1. read[r].opening \in Numbers /\ read[r].league \in Leagues /\ read[r].linked \in BOOLEAN
      BY <1>1, <1>4 DEF CalendarLands, CalendarRead
    <2>2. /\ calendar' = read[r].league /\ selected' = [selected EXCEPT !.number = read[r].opening]
          /\ read' = [read EXCEPT ![r] = next]
      BY <1>4 DEF CalendarLands
    <2>3. id \in Matchdays /\ SelectedId' = id /\ selected'.league = selected.league
      BY <1>1, <2>1, <2>2 DEF Matchdays, ScreenTyped, SelectedId
    <2>4. ScreenTyped' /\ LeagueChosen'
      BY <1>1, <2>1, <2>2, <2>3 DEF ScreenTyped, LeagueChosen
    <2>5. next \in ReadState /\ next.step = "detail" /\ next.id = id /\ next.answer = Pending
      <3> HIDE DEF id
      <3> QED
        BY <2>1, <2>3, NewRead
    <2> HIDE DEF id, next
    <2>6. AlignedOrSought'
      <3>1. read'[r] = next
        BY <1>1, <2>2, <2>5, ReadStep
      <3> QED
        BY <2>3, <2>5, <3>1 DEF AlignedOrSought, Sought
    <2> QED
      BY <1>1, <1>2, <2>2, <2>4, <2>5, <2>6, NavigationStep
  <1> QED
    BY <1>3, <1>4

LEMMA DetailLandsSafe ==
  ASSUME ConsoleInv, NEW r \in Reads, DetailLands(r)
  PROVE  ConsoleInv'
  <1>1. /\ UNCHANGED <<status, complete, closing, wasResolved, write, watch, locked, mounting,
                       events, calendar>>
        /\ ConsoleTyped /\ SessionTyped /\ ScreenTyped /\ LeagueChosen
        /\ OnScreen(r) /\ Followed(r) /\ read[r].step = "detail" /\ read[r].answer # Pending
    BY DEF DetailLands, NavigationOnly, server, session, ConsoleInv, ConsoleTyped
  <1>2. /\ matchday' \in [id: Matchdays, status: {"open", "locked", "resolved"}] \cup {None}
        /\ matches' \in [id: Matchdays, complete: BOOLEAN] \cup {None}
        /\ stale' \in BOOLEAN /\ ShowsNothingAhead'
        /\ ~stale' => /\ matchday' # None /\ matchday'.id = SelectedId
                      /\ matches' # None /\ matches'.id = SelectedId
    BY <1>1, ShownIsBehind
  <1>3. SessionTyped'
    BY <1>1, <1>2 DEF SessionTyped
  <1>4. PICK next \in ReadState :
          /\ read' = [read EXCEPT ![r] = next]
          /\ selected' \in [league: Leagues \cup {None}, number: Numbers \cup {None}]
          /\ selected'.league = selected.league
          /\ \/ next = Idle /\ selected' = selected
             \/ /\ next.step = "detail" /\ next.id = SelectedId'
                /\ next.answer = Pending /\ calendar # None
    BY <1>1, FollowedIs
  <1>5. read'[r] = next /\ \A q \in Reads : q # r => read'[q] = read[q]
    BY <1>1, <1>4, ReadStep
  <1>6. next.step # "calendar" /\ (next.step = "detail" => next.answer = Pending)
    BY <1>4 DEF Idle
  <1>7. ScreenTyped'
    BY <1>1, <1>2, <1>4 DEF ScreenTyped
  <1>8. LeagueChosen'
    BY <1>1, <1>4, <1>5, <1>6 DEF LeagueChosen, IsSelected
  <1>9. AlignedOrSought'
    <2>1. CASE selected' = selected
      BY <1>2, <2>1 DEF AlignedOrSought, Aligned, SelectedId
    <2>2. CASE next.step = "detail" /\ next.id = SelectedId'
      BY <1>5, <2>2 DEF AlignedOrSought, Sought
    <2> QED
      BY <1>4, <2>1, <2>2
  <1> QED
    BY <1>1, <1>2, <1>3, <1>4, <1>6, <1>7, <1>8, <1>9, NavigationStep

-----------------------------------------------------------------------------
(* The watch. *)

LEMMA NextAttemptTyped ==
  ASSUME WatchTyped, Awaiting, NextAttempt
  PROVE  WatchTyped'
  <1>1. watch \in WatchState
    BY DEF WatchTyped, Awaiting
  <1>2. CASE watch' = Idle
    BY <1>2 DEF WatchTyped
  <1>3. CASE watch' = [step |-> "wait", attempt |-> watch.attempt + 1]
                /\ watch.attempt + 1 # ResolvePollAttempts
    <2>1. watch.attempt \in 0..(ResolvePollAttempts - 1)
      BY <1>1 DEF WatchState
    <2>2. watch.attempt + 1 \in 0..(ResolvePollAttempts - 1)
      BY <1>3, <2>1, OperatorConsoleAssumption
    <2>3. watch' \in WatchState
      BY <1>3, <2>2 DEF WatchState
    <2> QED
      BY <2>3 DEF WatchTyped
  <1> QED
    BY <1>2, <1>3 DEF NextAttempt

LEMMA WatchingSafe ==
  ASSUME ConsoleInv, Watching
  PROVE  ConsoleInv'
  <1>1. /\ UNCHANGED <<status, complete, closing, wasResolved, write, locked, mounting, events,
                       selected, calendar>>
        /\ ConsoleTyped /\ SessionTyped /\ ScreenTyped /\ LeagueChosen /\ WatchTyped /\ Awaiting
        /\ 0 \in Reads /\ SelectedId' = SelectedId
    <2>1. UNCHANGED <<status, complete, closing, wasResolved, write, locked, mounting, events,
                      selected, calendar>> /\ Awaiting
      BY DEF Watching, WatchTick, WatchLands, WatchOnly, server, session
    <2>2. 0 \in Reads
      BY OperatorConsoleAssumption DEF Reads
    <2> QED
      BY <2>1, <2>2 DEF ConsoleInv, ConsoleTyped, SelectedId
  <1>2. CASE WatchTick
    <2>1. UNCHANGED <<matchday, matches, stale>>
      BY <1>2 DEF WatchTick
    <2>2. SessionTyped' /\ ScreenTyped' /\ ShowsNothingAhead'
      BY <1>1, <2>1 DEF SessionTyped, ScreenTyped, ShowsNothingAhead, HasReached, ConsoleInv
    <2>3. CASE IsSelected
      <3>1. /\ read' = [read EXCEPT ![0] = Detail(SelectedId, FALSE)]
            /\ watch' = [watch EXCEPT !.step = "read"]
        BY <1>2, <2>3 DEF WatchTick
      <3>2. SelectedId \in Matchdays /\ selected.league \in Leagues
        BY <1>1, <2>3, SelectedTyped DEF LeagueChosen
      <3>3. /\ Detail(SelectedId, FALSE) \in ReadState /\ Detail(SelectedId, FALSE).step = "detail"
            /\ Detail(SelectedId, FALSE).id = SelectedId /\ Detail(SelectedId, FALSE).answer = Pending
        BY <3>2, NewRead
      <3>4. WatchTyped'
        <4>1. watch \in WatchState
          BY <1>1 DEF WatchTyped, Awaiting
        <4>2. watch' \in WatchState
          BY <3>1, <4>1 DEF WatchState
        <4> QED
          BY <4>2 DEF WatchTyped
      <3>5. LeagueChosen'
        BY <1>1, <3>2 DEF LeagueChosen
      <3>6. AlignedOrSought'
        <4>1. read'[0] = Detail(SelectedId, FALSE)
          BY <1>1, <3>1, <3>3, ReadStep
        <4> QED
          BY <1>1, <3>3, <4>1 DEF AlignedOrSought, Sought
      <3> QED
        BY <1>1, <2>2, <3>1, <3>3, <3>4, <3>5, <3>6, PlaceStep
    <2>4. CASE ~IsSelected
      <3>1. read' = read /\ NextAttempt
        BY <1>2, <2>4 DEF WatchTick
      <3>2. WatchTyped'
        BY <1>1, <3>1, NextAttemptTyped
      <3>3. LeagueChosen' /\ AlignedOrSought'
        BY <1>1, <2>4, <3>1 DEF LeagueChosen, AlignedOrSought, IsSelected
      <3> QED
        BY <1>1, <2>1, <2>2, <3>1, <3>2, <3>3
          DEF ConsoleInv, ConsoleTyped, ServerTyped, ReadTyped, WriteTyped, AnswersAreBehind, Answered,
              HasReached, DoneIsDone, Busy
    <2> QED
      BY <2>3, <2>4
  <1>3. CASE WatchLands
    <2>1. /\ read[0].step = "detail" /\ read[0].answer # Pending /\ OnScreen(0)
          /\ NextAttempt /\ read' = [read EXCEPT ![0] = Idle]
      BY <1>3 DEF WatchLands
    <2>2. /\ matchday' \in [id: Matchdays, status: {"open", "locked", "resolved"}] \cup {None}
          /\ matches' \in [id: Matchdays, complete: BOOLEAN] \cup {None}
          /\ stale' \in BOOLEAN /\ ShowsNothingAhead'
          /\ ~stale' => /\ matchday' # None /\ matchday'.id = SelectedId
                        /\ matches' # None /\ matches'.id = SelectedId
      BY <1>1, <2>1, ShownIsBehind
    <2>3. SessionTyped' /\ ScreenTyped' /\ WatchTyped'
      BY <1>1, <2>1, <2>2, NextAttemptTyped DEF SessionTyped, ScreenTyped
    <2>4. Idle \in ReadState /\ Idle.step = "idle"
      BY DEF ReadState, Idle
    <2>5. LeagueChosen'
      <3>1. read'[0] = Idle /\ \A q \in Reads : q # 0 => read'[q] = read[q]
        BY <1>1, <2>1, <2>4, ReadStep
      <3> QED
        BY <1>1, <2>4, <3>1 DEF LeagueChosen, IsSelected
    <2>6. AlignedOrSought'
      BY <1>1, <2>2 DEF AlignedOrSought, Aligned
    <2> QED
      BY <1>1, <2>1, <2>2, <2>3, <2>4, <2>5, <2>6, PlaceStep
  <1> QED
    BY <1>2, <1>3 DEF Watching

-----------------------------------------------------------------------------
(* The API moves on, the write with it, and the screen stays. *)
LEMMA ServerStep ==
  ASSUME ConsoleInv, ServerTyped', MovesOn, UNCHANGED <<screen, read, watch>>,
         WriteTyped', SessionTyped', DoneIsDone', stale' = stale
  PROVE  ConsoleInv'
  <1>1. /\ UNCHANGED <<selected, calendar, matchday, matches, read, watch, stale>>
        /\ SelectedId' = SelectedId /\ ConsoleTyped
    BY DEF screen, SelectedId, ConsoleInv
  <1>2. ConsoleTyped'
    BY <1>1 DEF ConsoleTyped, ScreenTyped, ReadTyped, WatchTyped, LeagueChosen, IsSelected
  <1>3. ShowsNothingAhead'
    <2>1. matchday # None => matchday.id \in Matchdays /\ HasReached(matchday.id, matchday.status)
      BY <1>1 DEF ConsoleInv, ConsoleTyped, ScreenTyped, ShowsNothingAhead
    <2>2. matches # None /\ matches.complete => matches.id \in complete'
      BY DEF ConsoleInv, ShowsNothingAhead, MovesOn
    <2> QED
      BY <1>1, <2>1, <2>2, ReachedForGood DEF ShowsNothingAhead, HasReached
  <1>4. AnswersAreBehind'
    <2> SUFFICES ASSUME NEW r \in Reads, Answered(r)
                 PROVE  /\ HasReached(read[r].id, read[r].answer.status)'
                        /\ read[r].answer.complete => read[r].id \in complete'
      BY <1>1 DEF AnswersAreBehind, Answered
    <2>1. read[r].id \in Matchdays
      BY <1>1, ReadFacts DEF Answered, DetailRead
    <2>2. /\ HasReached(read[r].id, read[r].answer.status)
          /\ read[r].answer.complete => read[r].id \in complete
      BY DEF ConsoleInv, AnswersAreBehind
    <2> QED
      BY <1>1, <2>1, <2>2, ReachedForGood DEF HasReached, MovesOn
  <1>5. AlignedOrSought'
    BY <1>1 DEF ConsoleInv, AlignedOrSought, Aligned, Sought, IsSelected
  <1> QED
    BY <1>2, <1>3, <1>4, <1>5 DEF ConsoleInv

(* The API stays as it is. *)
LEMMA ServerStays ==
  ASSUME ConsoleInv, UNCHANGED <<status, complete, closing, wasResolved>>
  PROVE  ServerTyped' /\ MovesOn
  BY DEF ConsoleInv, ConsoleTyped, ServerTyped, MovesOn

(* The session stays as it is. *)
LEMMA SessionStays ==
  ASSUME ConsoleInv, UNCHANGED <<locked, mounting, events>>, stale' \in BOOLEAN
  PROVE  SessionTyped'
  BY DEF ConsoleInv, ConsoleTyped, SessionTyped

(* A write of the selected matchday, or of a match on screen, leaves.      *)
LEMMA SentSafe ==
  ASSUME ConsoleInv, Close \/ LoadResult \/ Resolve
  PROVE  ConsoleInv'
  <1>1. /\ UNCHANGED <<status, complete, closing, wasResolved, locked, mounting, screen, read,
                       watch, stale, events>>
        /\ stale \in BOOLEAN
    BY DEF Close, LoadResult, Resolve, WriteOnly, server, session, ConsoleInv, ConsoleTyped,
      SessionTyped
  <1>2. \E step \in {"close", "result", "resolve"}, id \in Matchdays : Write(step, id)
    <2>1. CASE LoadResult
      <3>1. matches.id \in Matchdays
        BY <2>1 DEF LoadResult, CanTapResult, ConsoleInv, ConsoleTyped, ScreenTyped
      <3> QED
        BY <2>1, <3>1 DEF LoadResult
    <2>2. CASE Close \/ Resolve
      <3>1. SelectedId \in Matchdays
        BY <2>2, SelectedTyped DEF Close, Resolve, ConsoleInv
      <3> QED
        BY <2>2, <3>1 DEF Close, Resolve
    <2> QED
      BY <2>1, <2>2
  <1>3. write' \in WriteState /\ write'.answer = Pending
    BY <1>2 DEF Write, WriteState
  <1>4. WriteTyped' /\ DoneIsDone'
    BY <1>3, OperatorConsoleAssumption DEF WriteTyped, DoneIsDone
  <1> QED
    BY <1>1, <1>4, ServerStays, SessionStays, ServerStep

(* Whatever the API does with a write, the answer is true of its matchday. *)
LEMMA ServeWriteSafe ==
  ASSUME ConsoleInv, ServeWrite
  PROVE  ConsoleInv'
  <1> DEFINE id == write.id
             answer == IF ~Accepts(write.step, id) THEN Failed
                       ELSE IF write.step = "close" THEN "accepted" ELSE "done"
  <1>1. /\ UNCHANGED <<closing, wasResolved, locked, mounting, screen, read, watch, stale, events>>
        /\ stale \in BOOLEAN /\ write \in WriteState /\ id \in Matchdays /\ ServerTyped
        /\ write' = [write EXCEPT !.answer = answer]
    BY DEF ServeWrite, WriteOnly, session, Busy, ConsoleInv, ConsoleTyped, SessionTyped,
           WriteTyped, WriteState
  <1>2. /\ status' = IF write.step = "resolve" /\ answer = "done"
                     THEN [status EXCEPT ![id] = "queued"] ELSE status
        /\ complete' = IF write.step = "result" /\ answer = "done" THEN complete \cup {id} ELSE complete
    BY DEF ServeWrite
  <1>3. /\ answer \in {"accepted", "done", Pending, Failed}
        /\ (answer = "done" => write.step # "close") /\ (answer = "accepted" => write.step = "close")
    BY OperatorConsoleAssumption
  <1> HIDE DEF id, answer
  <1>4. SessionTyped'
    BY <1>1, SessionStays
  <1>5. /\ ServerTyped' /\ MovesOn
        /\ (write.step = "result" /\ answer = "done" => id \in complete')
    BY <1>1, <1>2 DEF ServerTyped, MovesOn, Statuses
  <1>6. WriteTyped' /\ DoneIsDone'
    <2>1. /\ write' \in WriteState /\ write'.step = write.step /\ write'.id = write.id
          /\ write'.answer = answer
      BY <1>1, <1>3 DEF WriteState
    <2> QED
      BY <1>3, <1>5, <2>1 DEF WriteTyped, DoneIsDone, id
  <1> QED
    BY <1>1, <1>4, <1>5, <1>6, ServerStep

(* A close is written over whatever the status has become. *)
LEMMA LockedMovesOn ==
  ASSUME ConsoleInv, NEW id \in Matchdays, Locked(id), UNCHANGED <<complete, wasResolved>>,
         closing' \subseteq closing
  PROVE  ServerTyped' /\ MovesOn /\ status'[id] # "open"
  <1>1. ServerTyped
    BY DEF ConsoleInv, ConsoleTyped
  <1>2. /\ status' \in [Matchdays -> Statuses] /\ status'[id] \in {"locked", "queued"}
        /\ \A m \in Matchdays : m # id => status'[m] = status[m]
    BY <1>1 DEF ServerTyped, Locked, Statuses
  <1> QED
    BY <1>1, <1>2 DEF ServerTyped, MovesOn

LEMMA CloseWritesSafe ==
  ASSUME ConsoleInv, CloseWrites \/ \E id \in Matchdays : CloseWritesLate(id)
  PROVE  ConsoleInv'
  <1>1. /\ UNCHANGED <<complete, wasResolved, locked, mounting, screen, read, watch, stale, events>>
        /\ stale \in BOOLEAN /\ write \in {Idle} \cup WriteState /\ DoneIsDone
    BY DEF CloseWrites, CloseWritesLate, WriteOnly, session, ConsoleInv, ConsoleTyped,
      SessionTyped, WriteTyped
  <1>2. SessionTyped'
    BY <1>1, SessionStays
  <1>3. CASE CloseWrites
    <2>1. /\ write \in WriteState /\ Locked(write.id) /\ closing' = closing /\ write.answer = "accepted"
          /\ write' = [write EXCEPT !.answer = "done"]
      BY <1>1, <1>3 DEF CloseWrites, Busy
    <2>2. /\ write.id \in Matchdays /\ write' \in WriteState
          /\ write'.id = write.id /\ write'.step = "close" /\ write'.answer = "done"
      BY <1>1, <1>3, <2>1 DEF WriteState, DoneIsDone, CloseWrites
    <2>3. ServerTyped' /\ MovesOn /\ status'[write.id] # "open"
      BY <1>1, <2>1, <2>2, LockedMovesOn
    <2>4. WriteTyped' /\ DoneIsDone'
      BY <1>1, <2>1, <2>2, <2>3 DEF WriteTyped, DoneIsDone, Busy
    <2> QED
      BY <1>1, <1>2, <2>3, <2>4, ServerStep
  <1>4. ASSUME NEW id \in Matchdays, CloseWritesLate(id)
        PROVE  ConsoleInv'
    <2>1. Locked(id) /\ closing' \subseteq closing /\ write' = write
      BY <1>4 DEF CloseWritesLate
    <2>2. ServerTyped' /\ MovesOn
      BY <1>1, <2>1, LockedMovesOn
    <2>3. WriteTyped' /\ DoneIsDone'
      BY <1>1, <2>1, <2>2 DEF WriteTyped, DoneIsDone, MovesOn, Busy, WriteState
    <2> QED
      BY <1>1, <1>2, <2>2, <2>3, ServerStep
  <1> QED
    BY <1>3, <1>4

LEMMA WriteFailsSafe ==
  ASSUME ConsoleInv, WriteFails
  PROVE  ConsoleInv'
  <1>1. /\ UNCHANGED <<status, complete, wasResolved, mounting, screen, read, watch, stale>>
        /\ SessionTyped /\ ServerTyped /\ write \in WriteState
        /\ write' = [write EXCEPT !.answer = Failed] /\ closing' \in {closing, closing \cup {write.id}}
        /\ events < MaxEvents /\ events' = events + 1 /\ locked' \in {locked, TRUE}
    BY DEF WriteFails, Event, Refused, server, Busy, ConsoleInv, ConsoleTyped, WriteTyped
  <1>2. SessionTyped'
    <2>1. locked' \in BOOLEAN /\ stale' \in BOOLEAN
      BY <1>1 DEF SessionTyped
    <2> QED
      BY <1>1, <2>1, GateTyped
  <1>3. WriteTyped' /\ DoneIsDone'
    <2>1. write' \in WriteState /\ write'.answer = Failed
      BY <1>1 DEF WriteState
    <2> QED
      BY <2>1, OperatorConsoleAssumption DEF WriteTyped, DoneIsDone
  <1>4. ServerTyped' /\ MovesOn
    BY <1>1 DEF ServerTyped, MovesOn, WriteState
  <1> QED
    BY <1>1, <1>2, <1>3, <1>4, ServerStep

(* The API stays, the write is over, and the screen is what it should be.  *)
LEMMA ScreenStep ==
  ASSUME ConsoleInv, UNCHANGED <<status, complete, closing, wasResolved, selected, calendar,
                                 read>>, write' = Idle,
         ScreenTyped', WatchTyped', SessionTyped', ShowsNothingAhead', AlignedOrSought'
  PROVE  ConsoleInv'
  <1>1. ConsoleTyped'
    BY DEF ConsoleInv, ConsoleTyped, ServerTyped, ReadTyped, WriteTyped, LeagueChosen, IsSelected
  <1>2. AnswersAreBehind' /\ DoneIsDone'
    BY DEF ConsoleInv, AnswersAreBehind, Answered, HasReached, DoneIsDone, Busy
  <1> QED
    BY <1>1, <1>2 DEF ConsoleInv

(* A close shows its matchday locked and a result completes its match only *)
(* when the API has done so.                                               *)
LEMMA WriteLandsSafe ==
  ASSUME ConsoleInv, WriteLands
  PROVE  ConsoleInv'
  <1> DEFINE closed == write.step = "close" /\ write.answer = "done"
             told == write.step = "result" /\ write.answer = "done"
             resolving == write.step = "resolve" /\ write.answer = "done"
             id == write.id
  <1>1. /\ UNCHANGED <<status, complete, closing, wasResolved, locked, mounting, selected,
                       calendar, read, events>>
        /\ write' = Idle /\ Busy /\ write \in WriteState
        /\ ConsoleTyped /\ ScreenTyped /\ WatchTyped /\ ServerTyped /\ SessionTyped
    BY DEF WriteLands, WriteOnly, server, session, ConsoleInv, ConsoleTyped, WriteTyped, Busy
  <1>2. /\ matchday' = IF closed THEN [id |-> id, status |-> "locked"] ELSE matchday
        /\ matches' = IF told /\ matches # None /\ matches.id = id
                      THEN [matches EXCEPT !.complete = TRUE] ELSE matches
        /\ stale' = (stale \/ (closed /\ id # SelectedId))
        /\ watch' = IF resolving THEN [step |-> "wait", attempt |-> 0] ELSE watch
    BY DEF WriteLands
  <1>3. /\ id \in Matchdays /\ (closed => status[id] # "open") /\ (told => id \in complete)
        /\ status[id] \in Statuses
    BY <1>1 DEF WriteState, ConsoleInv, DoneIsDone, ServerTyped
  <1> HIDE DEF closed, told, resolving, id
  <1>4. stale' \in BOOLEAN
    BY <1>2
  <1>5. SessionTyped'
    BY <1>1, <1>4, SessionStays
  <1>6. WatchTyped'
    <2>1. CASE resolving
      <3>1. 0 \in 0..(ResolvePollAttempts - 1)
        BY OperatorConsoleAssumption
      <3>2. watch' \in WatchState
        BY <1>2, <2>1, <3>1 DEF WatchState
      <3> QED
        BY <3>2 DEF WatchTyped
    <2>2. CASE ~resolving
      BY <1>1, <1>2, <2>2 DEF WatchTyped
    <2> QED
      BY <2>1, <2>2
  <1>7. CASE closed
    <2>1. /\ matchday' \in [id: Matchdays, status: {"open", "locked", "resolved"}]
          /\ matchday' # None /\ matchday'.id = id /\ matchday'.status = "locked"
      <3>1. /\ matchday' \in [id: Matchdays, status: {"open", "locked", "resolved"}]
            /\ matchday'.id = id /\ matchday'.status = "locked"
        BY <1>2, <1>3, <1>7
      <3> QED
        BY <3>1, OperatorConsoleAssumption DEF Statuses
    <2>2. matches' = matches
      BY <1>2, <1>7 DEF closed, told
    <2>3. HasReached(matchday'.id, matchday'.status)
      BY <1>3, <1>7, <2>1 DEF HasReached
    <2>4. ScreenTyped' /\ ShowsNothingAhead'
      BY <1>1, <2>1, <2>2, <2>3 DEF ConsoleInv, ScreenTyped, ShowsNothingAhead, HasReached
    <2>5. AlignedOrSought'
      BY <1>1, <1>2, <1>7, <2>1, <2>2
        DEF ConsoleInv, AlignedOrSought, Aligned, Sought, IsSelected, SelectedId
    <2> QED
      BY <1>1, <1>5, <1>6, <2>4, <2>5, ScreenStep
  <1>8. CASE ~closed
    <2>1. matchday' = matchday /\ stale' = stale
      BY <1>1, <1>2, <1>8 DEF SessionTyped
    <2>2. /\ matches' \in [id: Matchdays, complete: BOOLEAN] \cup {None}
          /\ (matches' = matches) \/ (told /\ matches' # None /\ matches'.id = matches.id /\ matches.id = id
                                      /\ matches # None)
      <3>1. CASE told /\ matches # None /\ matches.id = id
        <4>1. matches \in [id: Matchdays, complete: BOOLEAN]
          BY <1>1, <3>1 DEF ScreenTyped
        <4>2. matches' = [matches EXCEPT !.complete = TRUE]
          BY <1>2, <3>1
        <4>3. matches' \in [id: Matchdays, complete: BOOLEAN] /\ matches'.id = matches.id
          BY <4>1, <4>2
        <4>4. matches' # None
          BY <4>3, OperatorConsoleAssumption
        <4> QED
          BY <3>1, <4>3, <4>4
      <3>2. CASE ~(told /\ matches # None /\ matches.id = id)
        BY <1>1, <1>2, <3>2 DEF ScreenTyped
      <3> QED
        BY <3>1, <3>2
    <2>3. ScreenTyped' /\ ShowsNothingAhead'
      BY <1>1, <1>3, <2>1, <2>2 DEF ConsoleInv, ScreenTyped, ShowsNothingAhead, HasReached
    <2>4. AlignedOrSought'
      BY <1>1, <2>1, <2>2
        DEF ConsoleInv, AlignedOrSought, Aligned, Sought, IsSelected, SelectedId
    <2> QED
      BY <1>1, <1>5, <1>6, <2>3, <2>4, ScreenStep
  <1> QED
    BY <1>7, <1>8

-----------------------------------------------------------------------------
(* The gate and the workers. *)
LEMMA OutsideSafe ==
  ASSUME ConsoleInv, SignIn \/ SignOut \/ \E id \in Matchdays : WorkersResolve(id)
  PROVE  ConsoleInv'
  <1>1. /\ UNCHANGED <<screen, read, write, watch, stale, complete>>
        /\ SessionTyped /\ stale \in BOOLEAN /\ WriteTyped /\ ServerTyped /\ DoneIsDone
        /\ closing' = closing
    BY DEF SignIn, SignOut, WorkersResolve, server, ConsoleInv, ConsoleTyped, SessionTyped
  <1>2. WriteTyped'
    BY <1>1 DEF WriteTyped
  <1>3. CASE SignIn \/ SignOut
    <2>1. UNCHANGED <<status, complete, closing, wasResolved>>
      BY <1>3 DEF SignIn, SignOut, server
    <2>2. SessionTyped'
      <3>1. CASE SignIn
        <4>1. locked /\ locked' = FALSE /\ mounting' = mounting + 1 /\ events' = events
          BY <3>1 DEF SignIn
        <4>2. mounting' \in Nat /\ mounting' <= events' + 1
          BY <1>1, <4>1, OperatorConsoleAssumption DEF SessionTyped
        <4> QED
          BY <1>1, <4>1, <4>2 DEF SessionTyped
      <3>2. CASE SignOut
        <4>1. locked' = TRUE /\ mounting' = mounting /\ events < MaxEvents /\ events' = events + 1
          BY <3>2 DEF SignOut, Event
        <4> QED
          BY <1>1, <4>1, GateTyped
      <3> QED
        BY <1>3, <3>1, <3>2
    <2>3. DoneIsDone'
      BY <1>1, <2>1 DEF DoneIsDone, Busy
    <2> QED
      BY <1>1, <1>2, <2>1, <2>2, <2>3, ServerStays, ServerStep
  <1>4. ASSUME NEW id \in Matchdays, WorkersResolve(id)
        PROVE  ConsoleInv'
    <2>1. /\ status' = [status EXCEPT ![id] = "resolved"] /\ UNCHANGED <<locked, mounting, events>>
          /\ wasResolved' = wasResolved \cup {id}
      BY <1>4 DEF WorkersResolve, session
    <2>2. /\ status' \in [Matchdays -> Statuses] /\ status'[id] = "resolved"
          /\ \A m \in Matchdays : m # id => status'[m] = status[m]
      BY <1>1, <2>1 DEF ServerTyped, Statuses
    <2>3. ServerTyped'
      BY <1>1, <2>1, <2>2 DEF ServerTyped
    <2>4. MovesOn
      BY <1>1, <2>1, <2>2 DEF MovesOn
    <2>5. DoneIsDone'
      BY <1>1, <2>2 DEF DoneIsDone, Busy, WriteTyped, WriteState
    <2> QED
      BY <1>1, <1>2, <2>1, <2>3, <2>4, <2>5, SessionStays, ServerStep
  <1> QED
    BY <1>3, <1>4

-----------------------------------------------------------------------------
LEMMA NextConsole ==
  ASSUME ConsoleInv, [Next]_vars
  PROVE  ConsoleInv'
  <1>1. ASSUME NEW r \in Reads,
               ServeCalendar(r) \/ CalendarLands(r) \/ DetailLands(r) \/ ServeDetail(r) \/ ReadFails(r)
        PROVE  ConsoleInv'
    BY <1>1, AnswersSafe, CalendarLandsSafe, DetailLandsSafe
  <1>2. ASSUME NEW r \in Navigating, ServeCalendar(r) \/ CalendarLands(r) \/ DetailLands(r)
        PROVE  ConsoleInv'
    BY <1>1, <1>2 DEF Navigating
  <1>3. CASE Reading \/ \E r \in Reads : ReadFails(r)
    BY <1>1, <1>3 DEF Reading
  <1>4. CASE Close \/ LoadResult \/ Resolve \/ ServeWrite \/ CloseWrites \/ WriteFails \/ WriteLands
    BY <1>4, SentSafe, ServeWriteSafe, CloseWritesSafe, WriteFailsSafe, WriteLandsSafe
  <1>5. CASE UNCHANGED vars
    <2>1. UNCHANGED <<status, complete, closing, wasResolved, locked, mounting, screen, read,
                      write, watch, events, stale>>
      BY <1>5 DEF vars, server, session
    <2>2. WriteTyped' /\ DoneIsDone' /\ stale' \in BOOLEAN
      BY <2>1 DEF ConsoleInv, ConsoleTyped, WriteTyped, SessionTyped, DoneIsDone, Busy
    <2> QED
      BY <2>1, <2>2, ServerStays, SessionStays, ServerStep
  <1> QED
    BY <1>2, <1>3, <1>4, <1>5, NavigationSafe, WatchingSafe, OutsideSafe, CloseWritesSafe DEF Next

(* The console's screen rests on two things no handler checks: an answer   *)
(* is never ahead of the API, because what a matchday has reached it has   *)
(* reached for good, a close written late included; and until a read was   *)
(* lost or landed late, the selected matchday is on screen or a read for   *)
(* it is in flight.                                                        *)
THEOREM ConsoleInvariance == Spec => []ConsoleInv
  <1>1. Init => ConsoleInv
    BY InitConsole
  <1>2. ConsoleInv /\ [Next]_vars => ConsoleInv'
    BY NextConsole
  <1> QED
    BY <1>1, <1>2, PTL DEF Spec

(* Every value of the console's state is one its code can hold: a read or  *)
(* a write is of a matchday of a league that was chosen, and a ConsoleView *)
(* is mounted at most once more than the gate came down.                   *)
THEOREM ConsoleTypeCorrect == Spec => []ConsoleTypeOK
  <1>1. ConsoleInv => ConsoleTypeOK
    <2> SUFFICES ASSUME ConsoleInv PROVE ConsoleTypeOK
      OBVIOUS
    <2>1. ServerTyped /\ ScreenTyped /\ ReadTyped /\ WriteTyped /\ WatchTyped /\ SessionTyped
      BY DEF ConsoleInv, ConsoleTyped
    <2>2. mounting \in 0..(MaxEvents + 1)
      BY <2>1, OperatorConsoleAssumption DEF SessionTyped
    <2> QED
      BY <2>1, <2>2
        DEF ConsoleTypeOK, ServerTyped, ScreenTyped, ReadTyped, WriteTyped, WatchTyped, SessionTyped,
            ReadState, CalendarRead, DetailRead, Answer, WriteState, WatchState
  <1> QED
    BY <1>1, ConsoleInvariance, PTL

(* Nothing is shown before the API has done it, in any order of late       *)
(* reads, failed or lost writes, and while the workers resolve.            *)
THEOREM NothingIsAhead == Spec => []ShowsNothingAhead
  <1>1. ConsoleInv => ShowsNothingAhead
    BY DEF ConsoleInv
  <1> QED
    BY <1>1, ConsoleInvariance, PTL

(* At rest, the selector and the screen agree on the matchday - unless a   *)
(* read failed or landed after the selection had moved.                    *)
THEOREM OnlyStaleReadsMislead == Spec => []MisledOnlyByStaleReads
  <1>1. ConsoleInv => MisledOnlyByStaleReads
    <2>1. \A r \in Reads : read[r] = Idle => ~Sought(r)
      BY DEF Sought, Idle
    <2> QED
      BY <2>1 DEF ConsoleInv, AlignedOrSought, MisledOnlyByStaleReads, Quiet
  <1> QED
    BY <1>1, ConsoleInvariance, PTL
===============================================================================
