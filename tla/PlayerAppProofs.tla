--------------------------- MODULE PlayerAppProofs ----------------------------
(***************************************************************************)
(* What a tab of the player app shows, sends and polls for, proved for any *)
(* penkas, users, overlapping fetches and failures.                        *)
(***************************************************************************)
EXTENDS PlayerAppProperties, WellFoundedInduction, TLAPS

BoardState == [penka: Penkas \cup {None}, board: Copies \cup {None}, matchday: Copies \cup {None}]
EntryState == [penka: Penkas \cup {None}, row: Rows \cup {None}]
LoopState == [running: BOOLEAN, armed: BOOLEAN, paced: BOOLEAN]
PollState == {NoPoll} \cup AsksBoard \cup AsksEntry

(* An answer is a version the API has served, and both come together.      *)
AnswersServed ==
  /\ \A p \in Penkas : served[p] <= events
  /\ \A f \in Polls : BoardAnswered(f) => poll[f].matchday \in Versions \cup {Failed}

(* The shell, the two stores and the pick screen agree on the penka.       *)
OnePenka ==
  /\ board.penka = route
  /\ entry.penka \in {None, route}
  /\ draft \in {None, route}
  /\ loop.running => route # None

(* A board on screen has told its cadence, to the loop or to a fetch that  *)
(* is still waiting for its second answer.                                 *)
CadenceKnown ==
  board.board # None =>
    loop.paced \/ \E f \in Polls : poll[f].step = "entry" /\ poll[f].paced

TypeInv == PlayerAppTypeOK /\ AnswersServed
ScreenInv == OnePenka /\ OwnBoard /\ SentWhereTapped
LoopInv == PolledWhileWatched /\ CadenceKnown
TabInv == TypeInv /\ ScreenInv /\ LoopInv

-----------------------------------------------------------------------------
(* A set of natural numbers that is not empty has a least one. *)
LEMMA LeastNumber ==
  ASSUME NEW T \in SUBSET Nat, T # {}
  PROVE  \E x \in T : \A y \in T : x <= y
  <1> DEFINE R == {ss \in Nat \X Nat : ss[1] < ss[2]}
  <1>1. IsWellFoundedOn(R, Nat)
    BY NatLessThanWellFounded DEF OpToRel
  <1>2. PICK x \in T : \A y \in T : <<y, x>> \notin R
    <2> HIDE DEF R
    <2> QED
      BY <1>1, WFMin
  <1>3. ASSUME NEW y \in T PROVE x <= y
    <2>1. <<y, x>> \notin R /\ <<y, x>> \in Nat \X Nat
      BY <1>2
    <2> QED
      BY <2>1
  <1> QED
    BY <1>3

(* A new fetch takes a place that is free. *)
LEMMA FreePollIsIdle ==
  ASSUME \E f \in Polls : Idle(f)
  PROVE  FreePoll \in Polls /\ Idle(FreePoll)
  <1> DEFINE T == {f \in Polls : Idle(f)}
  <1>1. T \in SUBSET Nat /\ T # {}
    BY PlayerAppAssumption DEF Polls
  <1>2. \E f \in T : \A g \in T : f <= g
    BY <1>1, LeastNumber
  <1>3. \E f \in Polls : Idle(f) /\ \A g \in Polls : Idle(g) => f <= g
    BY <1>2
  <1> QED
    BY <1>3 DEF FreePoll

LEMMA EventBounded ==
  ASSUME events \in 0..MaxEvents, Event
  PROVE  events' \in 0..MaxEvents /\ events <= events' /\ events' = events + 1
  BY PlayerAppAssumption DEF Event

(* The kinds of fetch are told apart by their step. *)
LEMMA StepTells ==
  ASSUME NEW state \in PollState
  PROVE  /\ state.step = "idle" <=> state = NoPoll
         /\ state.step = "board" <=> state \in AsksBoard
         /\ state.step = "entry" <=> state \in AsksEntry
         /\ state.step \in {"idle", "board", "entry"}
  BY DEF PollState, NoPoll, AsksBoard, AsksEntry

LEMMA TypeFacts ==
  ASSUME TabInv
  PROVE  /\ route \in Penkas \cup {None} /\ user \in Users \cup {None}
         /\ board \in BoardState /\ entry \in EntryState /\ loop \in LoopState
         /\ poll \in [Polls -> PollState] /\ submit \in {NoSubmit} \cup Submission
         /\ events \in 0..MaxEvents
  BY DEF TabInv, TypeInv, PlayerAppTypeOK, BoardState, EntryState, LoopState, PollState

LEMMA InitTab == Init => TabInv
  <1> SUFFICES ASSUME Init PROVE TabInv
    OBVIOUS
  <1>1. /\ board \in BoardState /\ board.penka = None /\ board.board = None /\ board.matchday = None
        /\ entry \in EntryState /\ entry.penka = None
        /\ loop \in LoopState /\ loop.running = FALSE /\ loop.armed = FALSE
    BY DEF Init, SelectedBoard, SelectedEntry, BoardState, EntryState, LoopState
  <1>2. /\ poll \in [Polls -> PollState] /\ \A f \in Polls : poll[f].step = "idle"
        /\ submit.step = "idle"
    BY DEF Init, NoPoll, NoSubmit, PollState
  <1>3. served \in [Penkas -> Versions] /\ \A p \in Penkas : served[p] = 0
    BY PlayerAppAssumption DEF Init, Versions
  <1>4. PlayerAppTypeOK
    <2>1. /\ route = None /\ onPick = FALSE /\ user = None /\ hidden = FALSE /\ draft = None
          /\ submit = NoSubmit /\ picks = {} /\ events \in 0..MaxEvents
      BY PlayerAppAssumption DEF Init
    <2> QED
      BY <1>1, <1>2, <1>3, <2>1
        DEF PlayerAppTypeOK, BoardState, EntryState, LoopState, PollState
  <1>5. AnswersServed
    BY <1>2, <1>3 DEF AnswersServed, BoardAnswered, Init
  <1>6. ScreenInv
    BY <1>1, <1>2 DEF ScreenInv, OnePenka, OwnBoard, SentWhereTapped, Init
  <1>7. LoopInv
    BY <1>1, <1>2 DEF LoopInv, PolledWhileWatched, CadenceKnown
  <1> QED
    BY <1>4, <1>5, <1>6, <1>7 DEF TabInv, TypeInv

-----------------------------------------------------------------------------
(* The pieces actions are made of. *)

(* A fetch begins at a free place, and nothing in flight is disturbed.     *)
LEMMA Refreshed ==
  ASSUME TabInv, NEW penka \in Penkas, RefreshNow(penka)
  PROVE  /\ poll' \in [Polls -> PollState]
         /\ \E f \in Polls :
              /\ poll[f].step = "idle" /\ poll'[f].step = "board" /\ poll'[f].board = Pending
              /\ \A g \in Polls : g # f => poll'[g] = poll[g]
  <1> DEFINE asked == [step |-> "board", penka |-> penka, board |-> Pending, matchday |-> Pending]
  <1>1. asked \in PollState /\ asked.step = "board" /\ asked.board = Pending
    BY DEF PollState, AsksBoard
  <1>2. FreePoll \in Polls /\ poll[FreePoll].step = "idle"
    BY FreePollIsIdle DEF RefreshNow, Idle
  <1>3. poll' = [poll EXCEPT ![FreePoll] = asked]
    BY DEF RefreshNow
  <1>4. poll \in [Polls -> PollState]
    BY TypeFacts
  <1> HIDE DEF asked
  <1> QED
    BY <1>1, <1>2, <1>3, <1>4

(* A fetch ends: its place is free, and the loop is armed if it should be. *)
LEMMA Settled ==
  ASSUME TabInv, NEW f \in Polls, NEW paced \in BOOLEAN, Settles(f, paced)
  PROVE  /\ poll' \in [Polls -> PollState] /\ poll'[f] = NoPoll
         /\ \A g \in Polls : g # f => poll'[g] = poll[g]
         /\ loop' \in LoopState /\ loop'.running = loop.running
         /\ loop'.paced = (paced \/ loop.paced)
         /\ loop'.armed = (loop.running /\ loop'.paced /\ ~hidden)
  <1>1. poll \in [Polls -> PollState] /\ loop \in LoopState /\ NoPoll \in PollState
    BY TypeFacts DEF PollState
  <1>2. poll' = [poll EXCEPT ![f] = NoPoll]
    BY DEF Settles
  <1> DEFINE before == [loop EXCEPT !.paced = paced \/ @]
  <1>3. /\ before \in LoopState /\ before.running = loop.running
        /\ before.paced = (paced \/ loop.paced)
    BY <1>1 DEF LoopState
  <1>4. loop' = [before EXCEPT !.armed = before.running /\ before.paced /\ ~hidden]
    BY DEF Settles, Schedule
  <1>5. hidden \in BOOLEAN
    BY DEF TabInv, TypeInv, PlayerAppTypeOK
  <1> HIDE DEF before
  <1>6. /\ loop' \in LoopState /\ loop'.running = before.running /\ loop'.paced = before.paced
        /\ loop'.armed = (before.running /\ before.paced /\ ~hidden)
    BY <1>3, <1>4, <1>5 DEF LoopState
  <1> QED
    BY <1>1, <1>2, <1>3, <1>6

(* The route changes: both stores are emptied, the loop stops, and starts  *)
(* again for a penka.                                                      *)
LEMMA Switched ==
  ASSUME TabInv, NEW p \in Penkas \cup {None}, Switch(p),
         draft' = None, onPick' \in BOOLEAN, user' = user, hidden' = hidden,
         submit' \in {submit, NoSubmit}, served' = served, picks' = picks, events' = events
  PROVE  TabInv'
  <1>1. /\ route' = p /\ board' \in BoardState /\ board'.penka = p
        /\ board'.board = None /\ board'.matchday = None
        /\ entry' \in EntryState /\ entry'.penka = p
    BY DEF Switch, SelectedBoard, SelectedEntry, BoardState, EntryState
  <1>2. Stopped \in LoopState /\ Stopped.running = FALSE /\ Stopped.armed = FALSE
    BY TypeFacts DEF Stopped, LoopState
  <1>3. /\ loop' \in LoopState /\ loop'.armed = FALSE /\ loop'.running = (p # None)
        /\ poll' \in [Polls -> PollState]
        /\ \A f \in Polls : poll'[f] = poll[f] \/ (poll'[f].step = "board" /\ poll'[f].board = Pending)
    <2>1. CASE p = None
      BY <1>2, <2>1, TypeFacts DEF Switch
    <2>2. CASE p # None
      <3>1. loop' = [Stopped EXCEPT !.running = TRUE] /\ RefreshNow(p) /\ p \in Penkas
        BY <2>2 DEF Switch
      <3>2. loop' \in LoopState /\ loop'.armed = FALSE /\ loop'.running = TRUE
        BY <1>2, <3>1 DEF LoopState
      <3>3. /\ poll' \in [Polls -> PollState]
            /\ \A f \in Polls : poll'[f] = poll[f] \/ (poll'[f].step = "board" /\ poll'[f].board = Pending)
        BY <3>1, Refreshed
      <3> QED
        BY <2>2, <3>2, <3>3
    <2> QED
      BY <2>1, <2>2
  <1>4. /\ submit' \in {NoSubmit} \cup Submission
        /\ submit'.step = "sent" => submit'.penka = submit'.tapped
    BY TypeFacts DEF TabInv, ScreenInv, SentWhereTapped, NoSubmit
  <1>5. PlayerAppTypeOK'
    <2>1. PlayerAppTypeOK
      BY DEF TabInv, TypeInv
    <2> QED
      BY <1>1, <1>3, <1>4, <2>1 DEF PlayerAppTypeOK, BoardState, EntryState, LoopState, PollState
  <1>6. AnswersServed'
    BY <1>3 DEF TabInv, TypeInv, AnswersServed, BoardAnswered
  <1>7. ScreenInv'
    BY <1>1, <1>3, <1>4 DEF ScreenInv, OnePenka, OwnBoard, SentWhereTapped
  <1>8. LoopInv'
    BY <1>1, <1>3 DEF LoopInv, PolledWhileWatched, CadenceKnown
  <1> QED
    BY <1>5, <1>6, <1>7, <1>8 DEF TabInv, TypeInv

LEMMA RouteSafe ==
  ASSUME TabInv, (\E p \in Penkas : (Open(p) \/ JoinLands(p) \/ CreateLands(p))) \/ Leave
  PROVE  TabInv'
  <1>1. PICK p \in Penkas \cup {None} : Switch(p) /\ onPick' \in BOOLEAN /\ draft' = None
                                        /\ UNCHANGED <<user, hidden, submit, server, events>>
    BY DEF Open, JoinLands, CreateLands, Leave
  <1> QED
    BY <1>1, Switched DEF server

(* The screen and the session change; no answer and no timer is touched.   *)
LEMMA SessionSafe ==
  ASSUME TabInv, SwitchTab \/ Expire \/ \E u \in Users : SignIn(u)
  PROVE  TabInv'
  <1>1. /\ board' = board /\ route' = route /\ loop' = loop /\ poll' = poll /\ submit' = submit
        /\ hidden' = hidden /\ served' = served /\ picks' = picks /\ events' = events
        /\ draft' \in {draft, None} /\ user' \in Users \cup {None} /\ onPick' \in BOOLEAN
        /\ entry' \in {entry, SelectedEntry(None)}
    BY DEF SwitchTab, Expire, SignIn, server, TabInv, TypeInv, PlayerAppTypeOK
  <1>2. entry' \in EntryState /\ entry'.penka \in {None, route}
    BY <1>1, TypeFacts DEF SelectedEntry, EntryState, TabInv, ScreenInv, OnePenka
  <1>3. PlayerAppTypeOK'
    BY <1>1, <1>2 DEF TabInv, TypeInv, PlayerAppTypeOK, EntryState
  <1>4. AnswersServed'
    BY <1>1 DEF TabInv, TypeInv, AnswersServed, BoardAnswered
  <1>5. ScreenInv'
    BY <1>1, <1>2 DEF TabInv, ScreenInv, OnePenka, OwnBoard, SentWhereTapped
  <1>6. LoopInv'
    BY <1>1 DEF TabInv, LoopInv, PolledWhileWatched, CadenceKnown, InFlight, Idle
  <1> QED
    BY <1>3, <1>4, <1>5, <1>6 DEF TabInv, TypeInv

-----------------------------------------------------------------------------
(* The loop. *)

(* What the page and the session are about is left alone: the screen keeps *)
(* its promises, and the loop has its own to keep.                         *)
LEMMA LoopStep ==
  ASSUME TabInv, UNCHANGED <<route, onPick, user, board, entry, draft, submit, served, picks, events>>,
         hidden' \in BOOLEAN, loop' \in LoopState, poll' \in [Polls -> PollState],
         loop'.running = loop.running,
         \A f \in Polls : poll'[f] = poll[f] \/ (poll'[f].step = "board" /\ poll'[f].board = Pending),
         LoopInv'
  PROVE  TabInv'
  <1>1. PlayerAppTypeOK'
    BY DEF TabInv, TypeInv, PlayerAppTypeOK, LoopState, PollState
  <1>2. AnswersServed'
    BY DEF TabInv, TypeInv, AnswersServed, BoardAnswered
  <1>3. ScreenInv'
    BY DEF TabInv, ScreenInv, OnePenka, OwnBoard, SentWhereTapped
  <1> QED
    BY <1>1, <1>2, <1>3 DEF TabInv, TypeInv

LEMMA LoopSafe ==
  ASSUME TabInv, Hide \/ Show \/ TimerFires
  PROVE  TabInv'
  <1>1. /\ UNCHANGED <<route, onPick, user, board, entry, draft, submit, served, picks, events>>
        /\ hidden' \in BOOLEAN
    BY DEF Hide, Show, TimerFires, server, TabInv, TypeInv, PlayerAppTypeOK
  <1> DEFINE disarmed == [loop EXCEPT !.armed = FALSE]
  <1>2. /\ disarmed \in LoopState /\ disarmed.running = loop.running /\ disarmed.armed = FALSE
        /\ disarmed.paced = loop.paced /\ loop \in LoopState
    BY TypeFacts DEF LoopState
  <1>3. PolledWhileWatched /\ CadenceKnown /\ poll \in [Polls -> PollState]
    BY TypeFacts DEF TabInv, LoopInv
  <1>4. CASE Hide
    <2>1. loop' = disarmed /\ poll' = poll /\ hidden' = TRUE
      BY <1>4 DEF Hide
    <2> HIDE DEF disarmed
    <2>2. LoopInv'
      BY <1>1, <1>2, <1>3, <2>1 DEF LoopInv, PolledWhileWatched, CadenceKnown
    <2> QED
      BY <1>1, <1>2, <1>3, <2>1, <2>2, LoopStep
  <1>5. CASE Show /\ ~loop.running
    <2>1. loop' = loop /\ poll' = poll
      BY <1>5 DEF Show
    <2>2. LoopInv'
      BY <1>1, <1>3, <1>5, <2>1 DEF LoopInv, PolledWhileWatched, CadenceKnown
    <2> QED
      BY <1>1, <1>2, <1>3, <2>1, <2>2, LoopStep
  <1>6. CASE TimerFires \/ (Show /\ loop.running)
    <2>1. loop' = disarmed /\ RefreshNow(board.penka) /\ loop.running
      BY <1>3, <1>6 DEF TimerFires, Show, PolledWhileWatched
    <2>2. board.penka \in Penkas
      BY <2>1, TypeFacts DEF TabInv, ScreenInv, OnePenka
    <2>3. /\ poll' \in [Polls -> PollState]
          /\ \E f \in Polls :
               /\ poll[f].step = "idle" /\ poll'[f].step = "board" /\ poll'[f].board = Pending
               /\ \A g \in Polls : g # f => poll'[g] = poll[g]
      BY <2>1, <2>2, Refreshed
    <2> HIDE DEF disarmed
    <2>4. PolledWhileWatched'
      BY <1>2, <2>1, <2>3 DEF PolledWhileWatched, InFlight, Idle
    <2>5. CadenceKnown'
      BY <1>1, <1>2, <1>3, <2>1, <2>3 DEF CadenceKnown
    <2> QED
      BY <1>1, <1>2, <2>1, <2>3, <2>4, <2>5, LoopStep DEF LoopInv
  <1> QED
    BY <1>4, <1>5, <1>6

-----------------------------------------------------------------------------
(* The fetcher. *)

(* The API answers a fetch: what waits goes on waiting.                    *)
LEMMA ServedSafe ==
  ASSUME TabInv, NEW f \in Polls, ServeBoard(f) \/ ServeEntry(f)
  PROVE  TabInv'
  <1>1. /\ UNCHANGED <<route, onPick, user, hidden, board, entry, draft, loop, submit, served, picks>>
        /\ UNCHANGED events \/ Event
    BY DEF ServeBoard, ServeEntry, PollOnly, server
  <1>0. events' \in 0..MaxEvents /\ events <= events'
    BY <1>1, EventBounded, TypeFacts, PlayerAppAssumption
  <1>2. /\ poll \in [Polls -> PollState] /\ poll[f] \in PollState
        /\ served \in [Penkas -> Versions]
    BY TypeFacts DEF TabInv, TypeInv, PlayerAppTypeOK
  <1>3. /\ \A g \in Polls : g # f => poll'[g] = poll[g]
        /\ poll' \in [Polls -> PollState] /\ poll'[f].step = poll[f].step /\ poll[f].step # "idle"
        /\ poll[f].step = "entry" => poll'[f].paced = poll[f].paced
        /\ poll'[f].step = "board" => poll'[f].matchday \in Versions \cup {Failed}
    <2>1. CASE ServeBoard(f)
      <3>1. poll[f] \in AsksBoard
        BY <1>2, <2>1, StepTells DEF ServeBoard
      <3>2. PICK x \in Versions \cup {Failed}, y \in Versions \cup {Failed} :
              poll' = [poll EXCEPT ![f].board = x, ![f].matchday = y]
        BY <1>2, <2>1, <3>1 DEF ServeBoard, AsksBoard
      <3> DEFINE told == [[poll[f] EXCEPT !.board = x] EXCEPT !.matchday = y]
      <3>3. told \in AsksBoard /\ told.step = "board" /\ told.matchday = y
        BY <3>1 DEF AsksBoard
      <3>4. poll' = [poll EXCEPT ![f] = told]
        BY <1>2, <3>2
      <3> HIDE DEF told
      <3>5. poll' \in [Polls -> PollState]
        BY <1>2, <3>3, <3>4 DEF PollState
      <3> QED
        BY <1>2, <2>1, <3>3, <3>4, <3>5 DEF ServeBoard
    <2>2. CASE ServeEntry(f)
      <3>1. poll[f] \in AsksEntry
        BY <1>2, <2>2, StepTells DEF ServeEntry
      <3>2. PICK x \in Rows \cup {Failed} : poll' = [poll EXCEPT ![f].answer = x]
        <4>1. Row(poll[f].penka, poll[f].user, <<poll[f].penka, poll[f].user>> \in picks) \in Rows
          BY <3>1 DEF Row, Rows, AsksEntry
        <4> QED
          BY <2>2, <4>1 DEF ServeEntry
      <3> DEFINE told == [poll[f] EXCEPT !.answer = x]
      <3>3. told \in AsksEntry /\ told.step = "entry" /\ told.paced = poll[f].paced
        BY <3>1 DEF AsksEntry
      <3>4. poll' = [poll EXCEPT ![f] = told]
        BY <1>2, <3>2
      <3> HIDE DEF told
      <3>5. poll' \in [Polls -> PollState]
        BY <1>2, <3>3, <3>4 DEF PollState
      <3> QED
        BY <1>2, <2>2, <3>3, <3>4, <3>5 DEF ServeEntry
    <2> QED
      BY <2>1, <2>2
  <1>4. PlayerAppTypeOK'
    BY <1>0, <1>1, <1>3 DEF TabInv, TypeInv, PlayerAppTypeOK, PollState
  <1>5. AnswersServed'
    <2>1. \A p \in Penkas : served[p] <= events /\ served[p] \in 0..MaxEvents
      BY <1>2 DEF TabInv, TypeInv, AnswersServed, Versions
    <2>2. \A p \in Penkas : served'[p] <= events'
      BY <1>0, <1>1, <2>1, TypeFacts, PlayerAppAssumption
    <2>3. \A g \in Polls : BoardAnswered(g)' => poll'[g].matchday \in Versions \cup {Failed}
      BY <1>3 DEF TabInv, TypeInv, AnswersServed, BoardAnswered
    <2> QED
      BY <2>2, <2>3 DEF AnswersServed
  <1>6. ScreenInv'
    BY <1>1 DEF TabInv, ScreenInv, OnePenka, OwnBoard, SentWhereTapped
  <1>7. PolledWhileWatched'
    BY <1>1, <1>3 DEF TabInv, LoopInv, PolledWhileWatched, InFlight, Idle
  <1>8. CadenceKnown'
    BY <1>1, <1>3 DEF TabInv, LoopInv, CadenceKnown
  <1> QED
    BY <1>4, <1>5, <1>6, <1>7, <1>8 DEF TabInv, TypeInv, LoopInv

(* What handling an answer does to the fetch and to the loop: it goes on   *)
(* to the personal row, or it ends and the loop is scheduled.              *)
Handled(f, paced) ==
  /\ poll' \in [Polls -> PollState] /\ \A g \in Polls : g # f => poll'[g] = poll[g]
  /\ loop' \in LoopState /\ loop'.running = loop.running
  /\ \/ /\ poll'[f].step = "entry" /\ poll'[f].paced = paced
        /\ loop' = loop
     \/ /\ poll'[f].step = "idle"
        /\ loop'.paced = (paced \/ loop.paced)
        /\ loop'.armed = (loop.running /\ loop'.paced /\ ~hidden)

LEMMA ContinuedIsHandled ==
  ASSUME TabInv, NEW f \in Polls, NEW paced \in BOOLEAN, ContinueWithEntry(f, paced)
  PROVE  Handled(f, paced)
  <1>1. CASE user # None /\ entry.penka # None
    <2> DEFINE asked == [step |-> "entry", penka |-> entry.penka, user |-> user,
                         paced |-> paced, answer |-> Pending]
    <2>1. entry.penka \in Penkas /\ user \in Users
      BY <1>1, TypeFacts DEF EntryState
    <2>2. asked \in PollState /\ asked.step = "entry" /\ asked.paced = paced
      BY <2>1 DEF PollState, AsksEntry
    <2>3. poll' = [poll EXCEPT ![f] = asked] /\ loop' = loop
      BY <1>1 DEF ContinueWithEntry
    <2> HIDE DEF asked
    <2> QED
      BY <2>2, <2>3, TypeFacts DEF Handled
  <1>2. CASE ~(user # None /\ entry.penka # None)
    <2>1. Settles(f, paced)
      BY <1>2 DEF ContinueWithEntry
    <2> QED
      BY <2>1, Settled DEF Handled, NoPoll
  <1> QED
    BY <1>1, <1>2

(* A fetch that was not waiting for nothing has been handled: the board is *)
(* polled as before, if the cadence is known wherever a board is shown.    *)
LEMMA HandledSafe ==
  ASSUME TabInv, NEW f \in Polls, NEW paced \in BOOLEAN, Handled(f, paced),
         UNCHANGED <<route, onPick, user, hidden, draft, submit, served, picks, events>>,
         board' \in BoardState, board'.penka = board.penka, OwnBoard',
         entry' \in EntryState, entry'.penka = entry.penka,
         \/ board'.board = None \/ paced
         \/ board'.board = board.board /\ poll[f].step = "board"
         \/ board'.board = board.board /\ poll[f].step = "entry" /\ paced = poll[f].paced
  PROVE  TabInv'
  <1>1. PlayerAppTypeOK'
    <2>1. PlayerAppTypeOK
      BY DEF TabInv, TypeInv
    <2> QED
      BY <2>1 DEF Handled, PlayerAppTypeOK, BoardState, EntryState, LoopState, PollState
  <1>2. AnswersServed'
    BY DEF Handled, TabInv, TypeInv, AnswersServed, BoardAnswered
  <1>3. ScreenInv'
    BY DEF Handled, TabInv, ScreenInv, OnePenka, SentWhereTapped
  <1>4. loop \in LoopState /\ CadenceKnown /\ PolledWhileWatched /\ hidden \in BOOLEAN
    BY TypeFacts DEF TabInv, TypeInv, LoopInv, PlayerAppTypeOK
  <1>5. CadenceKnown'
    BY <1>4 DEF Handled, CadenceKnown, LoopState
  <1>6. PolledWhileWatched'
    BY <1>4, <1>5 DEF Handled, CadenceKnown, PolledWhileWatched, InFlight, Idle, LoopState
  <1> QED
    BY <1>1, <1>2, <1>3, <1>5, <1>6 DEF TabInv, TypeInv, LoopInv

LEMMA BoardLandsSafe ==
  ASSUME TabInv, NEW f \in Polls, BoardLands(f)
  PROVE  TabInv'
  <1>1. /\ UNCHANGED <<route, onPick, user, hidden, draft, submit, served, picks, events, entry>>
        /\ poll[f].step = "board" /\ poll[f].board # Pending
    BY DEF BoardLands, BoardAnswered, PollOnly, server
  <1>2. /\ board \in BoardState /\ entry \in EntryState /\ OwnBoard /\ board.penka = route
        /\ poll[f] \in AsksBoard
    BY <1>1, TypeFacts, StepTells DEF TabInv, ScreenInv, OnePenka
  <1>3. CASE board.penka # poll[f].penka
    <2>1. ContinueWithEntry(f, FALSE) /\ board' = board
      BY <1>3 DEF BoardLands
    <2>2. Handled(f, FALSE)
      BY <2>1, ContinuedIsHandled
    <2>3. OwnBoard'
      BY <1>1, <1>2, <2>1 DEF OwnBoard
    <2> QED
      BY <1>1, <1>2, <2>1, <2>2, <2>3, HandledSafe
  <1>4. CASE board.penka = poll[f].penka
    <2> DEFINE x == Kept(board.board, poll[f].penka, poll[f].board)
               y == Kept(board.matchday, poll[f].penka, poll[f].matchday)
    <2>1. /\ x \in {board.board} \cup Copies /\ y \in {board.matchday} \cup Copies
          /\ x # board.board => x.penka = route
          /\ y # board.matchday => y.penka = route
      <3>1. /\ poll[f].board \in Versions \cup {Failed} /\ poll[f].matchday \in Versions \cup {Failed}
            /\ poll[f].penka = route /\ route \in Penkas
        BY <1>1, <1>2, <1>4 DEF TabInv, TypeInv, AnswersServed, BoardAnswered, AsksBoard
      <3> QED
        BY <3>1 DEF Kept, Copies
    <2>2. board' = [[board EXCEPT !.board = x] EXCEPT !.matchday = y]
      BY <1>2, <1>4 DEF BoardLands, BoardState
    <2>3. ContinueWithEntry(f, board'.board # None)
      BY <1>4 DEF BoardLands
    <2> HIDE DEF x, y
    <2>4. /\ board' \in BoardState /\ board'.penka = board.penka
          /\ board'.board = x /\ board'.matchday = y
      BY <1>2, <2>1, <2>2 DEF BoardState
    <2>5. OwnBoard'
      BY <1>1, <1>2, <2>1, <2>4 DEF OwnBoard
    <2>6. CASE board'.board # None
      <3>1. ContinueWithEntry(f, TRUE)
        BY <2>3, <2>6
      <3>2. Handled(f, TRUE)
        BY <3>1, ContinuedIsHandled
      <3> QED
        BY <1>1, <1>2, <2>4, <2>5, <2>6, <3>2, HandledSafe
    <2>7. CASE board'.board = None
      <3>1. ContinueWithEntry(f, FALSE)
        BY <2>3, <2>7
      <3>2. Handled(f, FALSE)
        BY <3>1, ContinuedIsHandled
      <3> QED
        BY <1>1, <1>2, <2>4, <2>5, <2>7, <3>2, HandledSafe
    <2> QED
      BY <2>6, <2>7
  <1> QED
    BY <1>3, <1>4

LEMMA EntryLandsSafe ==
  ASSUME TabInv, NEW f \in Polls, EntryLands(f)
  PROVE  TabInv'
  <1>1. /\ UNCHANGED <<route, onPick, user, hidden, draft, submit, served, picks, events, board>>
        /\ poll[f].step = "entry" /\ poll[f].answer # Pending
    BY DEF EntryLands, EntryAnswered, PollOnly, server
  <1>2. board \in BoardState /\ entry \in EntryState /\ OwnBoard /\ poll[f] \in AsksEntry
    BY <1>1, TypeFacts, StepTells DEF TabInv, ScreenInv
  <1>3. poll[f].paced \in BOOLEAN /\ Settles(f, poll[f].paced)
    BY <1>2 DEF EntryLands, AsksEntry
  <1>4. Handled(f, poll[f].paced)
    BY <1>3, Settled DEF Handled, NoPoll
  <1>5. entry' \in EntryState /\ entry'.penka = entry.penka
    <2>1. CASE poll[f].answer = Failed \/ entry.penka # poll[f].penka
      BY <1>2, <2>1 DEF EntryLands
    <2>2. CASE ~(poll[f].answer = Failed \/ entry.penka # poll[f].penka)
      <3>1. poll[f].answer \in Rows
        BY <1>1, <1>2, <2>2 DEF AsksEntry
      <3> QED
        BY <1>2, <2>2, <3>1 DEF EntryLands, EntryState
    <2> QED
      BY <2>1, <2>2
  <1>6. OwnBoard'
    BY <1>1, <1>2 DEF OwnBoard
  <1> QED
    BY <1>1, <1>2, <1>3, <1>4, <1>5, <1>6, HandledSafe

-----------------------------------------------------------------------------
(* The pick screen and the API behind it. *)

LEMMA PickStep ==
  ASSUME TabInv, UNCHANGED <<route, user, hidden, board, loop, poll>>,
         onPick' \in BOOLEAN, entry' \in EntryState, entry'.penka = entry.penka,
         draft' \in {None, route}, submit' \in {NoSubmit} \cup Submission, SentWhereTapped',
         served' \in [Penkas -> Versions], \A p \in Penkas : served'[p] <= events',
         picks' \subseteq Penkas \X Users, events' \in 0..MaxEvents
  PROVE  TabInv'
  <1>1. PlayerAppTypeOK'
    BY DEF TabInv, TypeInv, PlayerAppTypeOK, EntryState
  <1>2. AnswersServed'
    BY DEF TabInv, TypeInv, AnswersServed, BoardAnswered
  <1>3. ScreenInv'
    BY DEF TabInv, ScreenInv, OnePenka, OwnBoard
  <1>4. LoopInv'
    BY DEF TabInv, LoopInv, PolledWhileWatched, CadenceKnown, InFlight, Idle
  <1> QED
    BY <1>1, <1>2, <1>3, <1>4 DEF TabInv, TypeInv

LEMMA PickSafe ==
  ASSUME TabInv, Tap \/ Confirm \/ SubmitFails
  PROVE  TabInv'
  <1>1. /\ UNCHANGED <<route, user, hidden, board, loop, poll, onPick, entry, served, picks, events>>
        /\ onPick \in BOOLEAN /\ served \in [Penkas -> Versions] /\ picks \subseteq Penkas \X Users
        /\ \A p \in Penkas : served[p] <= events
        /\ draft \in {None, route} /\ SentWhereTapped
    BY DEF Tap, Confirm, SubmitFails, PickOnly, server, TabInv, TypeInv, PlayerAppTypeOK,
           AnswersServed, ScreenInv, OnePenka
  <1>2. entry \in EntryState /\ events \in 0..MaxEvents /\ submit \in {NoSubmit} \cup Submission
    BY TypeFacts
  <1>3. /\ draft' \in {None, route} /\ submit' \in {NoSubmit} \cup Submission
        /\ SentWhereTapped'
    <2>1. CASE Tap
      BY <1>1, <1>2, <2>1 DEF Tap, SentWhereTapped
    <2>2. CASE SubmitFails
      BY <1>1, <2>2 DEF SubmitFails, SentWhereTapped, NoSubmit
    <2>3. CASE Confirm
      <3>1. /\ user \in Users /\ entry.penka \in Penkas /\ draft = entry.penka /\ draft' = draft
        BY <1>1, <1>2, <2>3, TypeFacts
          DEF Confirm, CanConfirm, EntryState, TabInv, ScreenInv, OnePenka
      <3>2. submit' = [step |-> "sent", penka |-> entry.penka, user |-> user, tapped |-> draft,
                       answer |-> Pending]
        BY <2>3 DEF Confirm
      <3>3. submit' \in Submission /\ submit'.penka = submit'.tapped
        BY <3>1, <3>2 DEF Submission
      <3> QED
        BY <1>1, <3>1, <3>3 DEF SentWhereTapped
    <2> QED
      BY <2>1, <2>2, <2>3
  <1> QED
    BY <1>1, <1>2, <1>3, PickStep

LEMMA ServeSubmitSafe ==
  ASSUME TabInv, ServeSubmit
  PROVE  TabInv'
  <1>1. /\ UNCHANGED <<route, user, hidden, board, loop, poll, onPick, entry, draft, served>>
        /\ UNCHANGED events \/ Event
        /\ picks' \in {picks, picks \cup {<<submit.penka, submit.user>>}}
        /\ submit.step = "sent"
    BY DEF ServeSubmit, PickOnly
  <1>2. /\ onPick \in BOOLEAN /\ served \in [Penkas -> Versions] /\ picks \subseteq Penkas \X Users
        /\ \A p \in Penkas : served[p] <= events /\ served[p] \in 0..MaxEvents
        /\ draft \in {None, route} /\ submit.penka = submit.tapped
    BY <1>1 DEF TabInv, TypeInv, PlayerAppTypeOK, AnswersServed, ScreenInv, OnePenka,
                SentWhereTapped, Versions
  <1>3. submit \in Submission
    BY <1>1, TypeFacts DEF NoSubmit
  <1>4. events' \in 0..MaxEvents /\ events <= events'
    BY <1>1, EventBounded, TypeFacts, PlayerAppAssumption
  <1>5. \A p \in Penkas : served'[p] <= events'
    BY <1>1, <1>2, <1>4, TypeFacts, PlayerAppAssumption
  <1>6. submit' \in Submission /\ submit'.penka = submit'.tapped
    <2>1. PICK x \in Rows \cup {Failed} : submit' = [submit EXCEPT !.answer = x]
      <3>1. Row(submit.penka, submit.user, TRUE) \in Rows
        BY <1>3 DEF Submission, Row, Rows
      <3> QED
        BY <3>1 DEF ServeSubmit
    <2> QED
      BY <1>2, <1>3, <2>1 DEF Submission
  <1>7. picks' \subseteq Penkas \X Users /\ SentWhereTapped'
    BY <1>1, <1>2, <1>3, <1>6 DEF Submission, SentWhereTapped
  <1> QED
    BY <1>1, <1>2, <1>4, <1>5, <1>6, <1>7, TypeFacts, PickStep

LEMMA SubmitLandsSafe ==
  ASSUME TabInv, SubmitLands
  PROVE  TabInv'
  <1>1. /\ UNCHANGED <<user, hidden, served, picks, events>> /\ submit' = NoSubmit
        /\ onPick' = FALSE /\ draft' = None /\ submit.answer \in Rows
    BY DEF SubmitLands, server
  <1>2. CASE user = None /\ route # None
    <2>1. Switch(None)
      BY <1>2 DEF SubmitLands
    <2> QED
      BY <1>1, <2>1, Switched
  <1>3. CASE ~(user = None /\ route # None)
    <2>1. /\ entry' = [entry EXCEPT !.row = submit.answer]
          /\ UNCHANGED <<route, board, loop, poll>>
      BY <1>3 DEF SubmitLands
    <2>2. entry' \in EntryState /\ entry'.penka = entry.penka
      BY <1>1, <2>1, TypeFacts DEF EntryState
    <2>3. SentWhereTapped'
      BY <1>1 DEF SentWhereTapped, NoSubmit
    <2>4. /\ served \in [Penkas -> Versions] /\ picks \subseteq Penkas \X Users
          /\ \A p \in Penkas : served[p] <= events
      BY DEF TabInv, TypeInv, PlayerAppTypeOK, AnswersServed
    <2> QED
      BY <1>1, <2>1, <2>2, <2>3, <2>4, TypeFacts, PickStep
  <1> QED
    BY <1>2, <1>3

LEMMA AdvanceSafe ==
  ASSUME TabInv, NEW p \in Penkas, Advance(p)
  PROVE  TabInv'
  <1>1. /\ UNCHANGED <<route, onPick, user, hidden, board, entry, draft, loop, poll, submit, picks>>
        /\ Event /\ served' = [served EXCEPT ![p] = @ + 1]
    BY DEF Advance
  <1>2. /\ served \in [Penkas -> 0..MaxEvents] /\ \A q \in Penkas : served[q] <= events
        /\ events \in 0..MaxEvents /\ events' \in 0..MaxEvents /\ events' = events + 1
    BY <1>1, EventBounded, TypeFacts DEF TabInv, TypeInv, PlayerAppTypeOK, AnswersServed, Versions
  <1>3. /\ served' \in [Penkas -> Versions] /\ \A q \in Penkas : served'[q] <= events'
    BY <1>1, <1>2, PlayerAppAssumption DEF Versions
  <1>4. /\ onPick \in BOOLEAN /\ picks \subseteq Penkas \X Users
        /\ draft \in {None, route} /\ SentWhereTapped'
    BY <1>1 DEF TabInv, TypeInv, PlayerAppTypeOK, ScreenInv, OnePenka, SentWhereTapped
  <1> QED
    BY <1>1, <1>2, <1>3, <1>4, TypeFacts, PickStep

-----------------------------------------------------------------------------
LEMMA NextTab ==
  ASSUME TabInv, [Next]_vars
  PROVE  TabInv'
  <1>1. CASE (\E p \in Penkas : (Open(p) \/ JoinLands(p) \/ CreateLands(p))) \/ Leave
    BY <1>1, RouteSafe
  <1>2. CASE \E p \in Penkas : Advance(p)
    BY <1>2, AdvanceSafe
  <1>3. CASE SwitchTab \/ Expire \/ \E u \in Users : SignIn(u)
    BY <1>3, SessionSafe
  <1>4. CASE Hide \/ Show \/ TimerFires
    BY <1>4, LoopSafe
  <1>5. CASE \E f \in Polls : Answers(f)
    BY <1>5, ServedSafe, BoardLandsSafe, EntryLandsSafe DEF Answers
  <1>6. CASE Tap \/ Confirm \/ Submits
    BY <1>6, PickSafe, ServeSubmitSafe, SubmitLandsSafe DEF Submits
  <1>7. CASE UNCHANGED vars
    <2>1. TypeInv'
      BY <1>7 DEF TabInv, TypeInv, PlayerAppTypeOK, AnswersServed, BoardAnswered, vars, server
    <2>2. ScreenInv'
      BY <1>7 DEF TabInv, ScreenInv, OnePenka, OwnBoard, SentWhereTapped, vars
    <2>3. LoopInv'
      BY <1>7 DEF TabInv, LoopInv, PolledWhileWatched, CadenceKnown, InFlight, Idle, vars
    <2> QED
      BY <2>1, <2>2, <2>3 DEF TabInv
  <1> QED
    BY <1>1, <1>2, <1>3, <1>4, <1>5, <1>6, <1>7 DEF Next

(* Types, the agreement of shell, stores and pick screen on one penka, and *)
(* what the poll loop knows hold in every state, for any penkas, users,    *)
(* overlapping fetches and failures (App.vue, board.ts, my-entry.ts,       *)
(* use-poll.ts, PickView.vue).                                             *)
THEOREM TabInvariance == Spec => []TabInv
  <1>1. Init => TabInv
    BY InitTab
  <1>2. TabInv /\ [Next]_vars => TabInv'
    BY NextTab
  <1> QED
    BY <1>1, <1>2, PTL DEF Spec

(* Every variable keeps its type, however answers and taps interleave.     *)
THEOREM PlayerAppTypeCorrect == Spec => []PlayerAppTypeOK
  <1>1. TabInv => PlayerAppTypeOK
    BY DEF TabInv, TypeInv
  <1> QED
    BY <1>1, TabInvariance, PTL

(* No answer, however late, puts another penka's board or fixtures on the  *)
(* screen of the route's penka (board.ts, App.vue).                        *)
THEOREM BoardIsRoutes == Spec => []OwnBoard
  <1>1. TabInv => OwnBoard
    BY DEF TabInv, ScreenInv
  <1> QED
    BY <1>1, TabInvariance, PTL

(* A submitted pick is for the penka in which its card was tapped, however *)
(* the player moved in between (PickView.vue, my-entry.ts).                *)
THEOREM PickGoesWhereTapped == Spec => []SentWhereTapped
  <1>1. TabInv => SentWhereTapped
    BY DEF TabInv, ScreenInv
  <1> QED
    BY <1>1, TabInvariance, PTL

(* A board in a visible tab always has a timer or a fetch in flight, and a *)
(* timer is armed for nobody else (use-poll.ts).                           *)
THEOREM WatchedIsPolled == Spec => []PolledWhileWatched
  <1>1. TabInv => PolledWhileWatched
    BY DEF TabInv, LoopInv
  <1> QED
    BY <1>1, TabInvariance, PTL
===============================================================================
