------------------------------ MODULE PlayerApp ------------------------------
(***************************************************************************)
(* One tab of the player app (apps/web): the shell with its poll loop      *)
(* (App.vue, composables/use-poll.ts), the public and the personal store   *)
(* (stores/board.ts, stores/my-entry.ts) and the pick screen               *)
(* (views/PickView.vue).  JavaScript runs one handler at a time: an action *)
(* is a handler up to its next await, and whatever awaits is a fetch or a  *)
(* submission whose answer lands later, after any other handler.           *)
(*                                                                         *)
(* What the API would answer about a penka is its version, which rises; an *)
(* answer carries what was so when it was served.                          *)
(***************************************************************************)
EXTENDS Integers

CONSTANTS
  Penkas, Users,
  None,                \* no penka, nobody, nothing fetched
  Pending, Failed,     \* what a request has instead of an answer
  MaxFetches,          \* bound: polls in flight at once
  Changing,            \* bound: the penkas the API ever has something newer for
  MaxEvents            \* bound: requests that fail, and new versions of a penka

Polls == 1..MaxFetches

ASSUME PlayerAppAssumption ==
  /\ MaxFetches \in Nat \ {0} /\ MaxEvents \in Nat /\ Changing \subseteq Penkas
  /\ None \notin Penkas \cup Users /\ Pending # Failed

VARIABLES
  route,    \* App.vue's penkaId: the penka the current route is about
  onPick,   \* is PickView the screen?
  user,     \* the session's user
  hidden,   \* document.hidden
  board,    \* boardStore: its penka, and what it shows
  entry,    \* myEntryStore: the same
  draft,    \* PickView's draftPick, as the penka it was tapped in
  loop,     \* usePoll: running, is a timer armed, is a cadence known
  poll,     \* the runs of refreshNow in flight
  submit,   \* the submission in flight
  served,   \* API: the version of each penka
  picks,    \* API: <<penka, user>> who has picked
  events    \* history: the failures and new versions so far

server == <<served, picks>>
vars == <<route, onPick, user, hidden, board, entry, draft, loop, poll, submit, server, events>>

Versions == 0..MaxEvents
Rows == [penka: Penkas, user: Users, picked: BOOLEAN]
Copies == [penka: Penkas, version: Versions]

NoPoll == [step |-> "idle"]
NoSubmit == [step |-> "idle"]

AsksBoard == [step: {"board"}, penka: Penkas, board: Versions \cup {Pending, Failed},
              matchday: Versions \cup {Pending, Failed}]
AsksEntry == [step: {"entry"}, penka: Penkas, user: Users, paced: BOOLEAN,
              answer: Rows \cup {Pending, Failed}]
Submission == [step: {"sent"}, penka: Penkas, user: Users, tapped: Penkas,
               answer: Rows \cup {Pending, Failed}]

PlayerAppTypeOK ==
  /\ route \in Penkas \cup {None} /\ onPick \in BOOLEAN
  /\ user \in Users \cup {None} /\ hidden \in BOOLEAN
  /\ board \in [penka: Penkas \cup {None}, board: Copies \cup {None},
                matchday: Copies \cup {None}]
  /\ entry \in [penka: Penkas \cup {None}, row: Rows \cup {None}]
  /\ draft \in Penkas \cup {None}
  /\ loop \in [running: BOOLEAN, armed: BOOLEAN, paced: BOOLEAN]
  /\ poll \in [Polls -> {NoPoll} \cup AsksBoard \cup AsksEntry]
  /\ submit \in {NoSubmit} \cup Submission
  /\ served \in [Penkas -> Versions] /\ picks \subseteq Penkas \X Users
  /\ events \in 0..MaxEvents

Event == events < MaxEvents /\ events' = events + 1

-----------------------------------------------------------------------------
(* board.ts and my-entry.ts: pointing a store at a penka. *)

SelectedBoard(p) == [penka |-> p, board |-> None, matchday |-> None]
SelectedEntry(p) == [penka |-> p, row |-> None]

Init ==
  /\ route = None /\ onPick = FALSE /\ user = None /\ hidden = FALSE
  /\ board = SelectedBoard(None) /\ entry = SelectedEntry(None)
  /\ draft = None
  /\ loop = [running |-> FALSE, armed |-> FALSE, paced |-> FALSE]
  /\ poll = [f \in Polls |-> NoPoll] /\ submit = NoSubmit
  /\ served = [p \in Penkas |-> 0] /\ picks = {} /\ events = 0

-----------------------------------------------------------------------------
(* use-poll.ts. *)

Idle(f) == poll[f].step = "idle"
FreePoll == CHOOSE f \in Polls : Idle(f) /\ \A g \in Polls : Idle(g) => f <= g

(* Mutation: the tab is not asked whether anyone is looking.               *)
ScheduleHidden(before) == [before EXCEPT !.armed = before.running /\ before.paced]

(* clearTimer, then another timer if the loop runs in a visible tab.       *)
Schedule(before) ==
  [before EXCEPT !.armed = before.running /\ before.paced /\ ~hidden]

(* refreshNow, up to the fetcher's two requests about the selected penka.  *)
RefreshNow(penka) ==
  /\ \E f \in Polls : Idle(f)
  /\ poll' = [poll EXCEPT ![FreePoll] = [step |-> "board", penka |-> penka,
                                         board |-> Pending, matchday |-> Pending]]

(* The fetcher settled: the cadence it answered, then finally schedule().  *)
Settles(f, paced) ==
  /\ poll' = [poll EXCEPT ![f] = NoPoll]
  /\ loop' = Schedule([loop EXCEPT !.paced = paced \/ @])

Stopped == [loop EXCEPT !.running = FALSE, !.armed = FALSE]

TimerFires ==
  /\ loop.armed
  /\ loop' = [loop EXCEPT !.armed = FALSE]
  /\ RefreshNow(board.penka)
  /\ UNCHANGED <<route, onPick, user, hidden, board, entry, draft, submit, server, events>>

(* onVisibilityChange, which only a running loop listens to.               *)
Hide ==
  /\ ~hidden /\ hidden' = TRUE
  /\ loop' = [loop EXCEPT !.armed = FALSE]
  /\ UNCHANGED <<route, onPick, user, board, entry, draft, poll, submit, server, events>>

Show ==
  /\ hidden /\ hidden' = FALSE
  /\ IF loop.running
     THEN /\ loop' = [loop EXCEPT !.armed = FALSE]
          /\ RefreshNow(board.penka)
     ELSE UNCHANGED <<loop, poll>>
  /\ UNCHANGED <<route, onPick, user, board, entry, draft, submit, server, events>>

-----------------------------------------------------------------------------
(* App.vue and the router: the watch on the route's penka stops the loop,  *)
(* points both stores, and starts it again.                                *)

Switch(p) ==
  /\ route' = p
  /\ board' = SelectedBoard(p) /\ entry' = SelectedEntry(p)
  /\ IF p = None
     THEN loop' = Stopped /\ UNCHANGED poll
     ELSE loop' = [Stopped EXCEPT !.running = TRUE] /\ RefreshNow(p)

(* Mutation: the pick screen does not watch the penka it is about.         *)
OpenKeepingDraft(p) ==
  /\ user # None /\ route # p
  /\ Switch(p)
  /\ onPick' = TRUE /\ draft' = draft
  /\ UNCHANGED <<user, hidden, submit, server, events>>

Open(p) ==
  /\ user # None /\ route # p
  /\ Switch(p)
  /\ onPick' = TRUE /\ draft' = None
  /\ UNCHANGED <<user, hidden, submit, server, events>>

(* A join or a creation that is answered opens the pick screen of its      *)
(* penka, wherever the player has gone since he asked for it; the request  *)
(* itself is left out, so its answer may land at any time.                 *)
JoinLands(p) == Open(p)
CreateLands(p) == Open(p)

(* To the list of penkas, or to the login screen.                          *)
Leave ==
  /\ route # None
  /\ Switch(None)
  /\ onPick' = FALSE /\ draft' = None
  /\ UNCHANGED <<user, hidden, submit, server, events>>

(* "Mi pick" and "Tabla" are two windows onto the same penka.              *)
SwitchTab ==
  /\ user # None /\ route # None
  /\ onPick' = ~onPick /\ draft' = None
  /\ UNCHANGED <<route, user, hidden, board, entry, loop, poll, submit, server, events>>

SignIn(u) ==
  /\ user = None /\ route = None
  /\ user' = u
  /\ UNCHANGED <<route, onPick, hidden, board, entry, draft, loop, poll, submit, server, events>>

(* Any request may expire the session; the route stays where it is.        *)
Expire ==
  /\ user # None
  /\ user' = None
  /\ entry' = SelectedEntry(None)
  /\ UNCHANGED <<route, onPick, hidden, board, draft, loop, poll, submit, server, events>>

-----------------------------------------------------------------------------
(* The fetcher: boardStore.refresh, then myEntryStore.refresh. *)

PollOnly == UNCHANGED <<route, onPick, user, hidden, draft, submit, server>>

(* GET board and GET matchday/current, each of which may fail.             *)
ServeBoard(f) ==
  /\ poll[f].step = "board" /\ poll[f].board = Pending
  /\ \E failed \in SUBSET {"board", "matchday"} :
       /\ poll' = [poll EXCEPT
            ![f].board = IF "board" \in failed THEN Failed ELSE served[poll[f].penka],
            ![f].matchday = IF "matchday" \in failed THEN Failed ELSE served[poll[f].penka]]
       /\ IF failed = {} THEN UNCHANGED events ELSE Event
  /\ UNCHANGED <<board, entry, loop>> /\ PollOnly

(* What the store holds once an answer has settled: a failure keeps the    *)
(* last good copy.                                                         *)
Kept(before, penka, answer) ==
  IF answer = Failed THEN before ELSE [penka |-> penka, version |-> answer]

(* The rest of the fetcher, its own row, if somebody is signed in.         *)
ContinueWithEntry(f, paced) ==
  IF user # None /\ entry.penka # None
  THEN /\ poll' = [poll EXCEPT ![f] = [step |-> "entry", penka |-> entry.penka, user |-> user,
                                       paced |-> paced, answer |-> Pending]]
       /\ UNCHANGED loop
  ELSE Settles(f, paced)

BoardAnswered(f) == poll[f].step = "board" /\ poll[f].board # Pending

(* Mutation: the answer is kept whichever penka is selected by now.        *)
BoardLandsAnywhere(f) ==
  /\ BoardAnswered(f)
  /\ board' = [board EXCEPT !.board = Kept(@, poll[f].penka, poll[f].board),
                            !.matchday = Kept(@, poll[f].penka, poll[f].matchday)]
  /\ ContinueWithEntry(f, board'.board # None)
  /\ UNCHANGED <<entry, events>> /\ PollOnly

(* Mutation: the loop is armed again only by an answer about this penka.   *)
BoardLandsUnarmed(f) ==
  /\ BoardAnswered(f)
  /\ IF board.penka # poll[f].penka
     THEN poll' = [poll EXCEPT ![f] = NoPoll] /\ UNCHANGED <<board, loop>>
     ELSE /\ board' = [board EXCEPT !.board = Kept(@, poll[f].penka, poll[f].board),
                                    !.matchday = Kept(@, poll[f].penka, poll[f].matchday)]
          /\ IF poll[f].board = Failed
             THEN poll' = [poll EXCEPT ![f] = NoPoll] /\ UNCHANGED loop
             ELSE ContinueWithEntry(f, board'.board # None)
  /\ UNCHANGED <<entry, events>> /\ PollOnly

BoardLands(f) ==
  /\ BoardAnswered(f)
  /\ IF board.penka # poll[f].penka
     THEN ContinueWithEntry(f, FALSE) /\ UNCHANGED board
     ELSE /\ board' = [board EXCEPT !.board = Kept(@, poll[f].penka, poll[f].board),
                                    !.matchday = Kept(@, poll[f].penka, poll[f].matchday)]
          /\ ContinueWithEntry(f, board'.board # None)
  /\ UNCHANGED <<entry, events>> /\ PollOnly

Row(p, u, has) == [penka |-> p, user |-> u, picked |-> has]

(* GET /penkas/:id/me. *)
ServeEntry(f) ==
  /\ poll[f].step = "entry" /\ poll[f].answer = Pending
  /\ \/ /\ poll' = [poll EXCEPT ![f].answer =
                      Row(poll[f].penka, poll[f].user,
                          <<poll[f].penka, poll[f].user>> \in picks)]
        /\ UNCHANGED events
     \/ poll' = [poll EXCEPT ![f].answer = Failed] /\ Event
  /\ UNCHANGED <<board, entry, loop>> /\ PollOnly

EntryAnswered(f) == poll[f].step = "entry" /\ poll[f].answer # Pending

EntryLands(f) ==
  /\ EntryAnswered(f)
  /\ entry' = IF poll[f].answer = Failed \/ entry.penka # poll[f].penka THEN entry
              ELSE [entry EXCEPT !.row = poll[f].answer]
  /\ Settles(f, poll[f].paced)
  /\ UNCHANGED <<board, events>> /\ PollOnly

-----------------------------------------------------------------------------
(* PickView: a tap is a draft, confirming it submits it. *)

PickOnly == UNCHANGED <<route, user, hidden, board, loop, poll>>

(* The cards are the fixtures; one is enabled once the row is there too    *)
(* and nothing is being submitted.                                         *)
HasCards == onPick /\ board.matchday # None
IsEnabled == entry.row # None /\ submit.step = "idle"

Tap ==
  /\ HasCards /\ IsEnabled
  /\ draft' = route
  /\ UNCHANGED <<onPick, entry, submit, server, events>> /\ PickOnly

CanConfirm == onPick /\ draft # None /\ submit.step = "idle"

(* Mutation: submitPick does not ask whether a penka is open. *)
ConfirmUnchecked ==
  /\ CanConfirm
  /\ submit' = [step |-> "sent", penka |-> entry.penka, user |-> user, tapped |-> draft,
                answer |-> Pending]
  /\ UNCHANGED <<onPick, entry, draft, server, events>> /\ PickOnly

(* submitPick goes to the penka the personal store points at, and to none  *)
(* when the session has expired under it.                                  *)
Confirm ==
  /\ CanConfirm
  /\ user # None /\ entry.penka # None
  /\ submit' = [step |-> "sent", penka |-> entry.penka, user |-> user, tapped |-> draft,
                answer |-> Pending]
  /\ UNCHANGED <<onPick, entry, draft, server, events>> /\ PickOnly

(* PUT /penkas/:id/pick. *)
ServeSubmit ==
  /\ submit.step = "sent" /\ submit.answer = Pending
  /\ \/ /\ picks' = picks \cup {<<submit.penka, submit.user>>}
        /\ submit' = [submit EXCEPT !.answer = Row(submit.penka, submit.user, TRUE)]
        /\ UNCHANGED events
     \/ submit' = [submit EXCEPT !.answer = Failed] /\ Event /\ UNCHANGED picks
  /\ UNCHANGED <<onPick, entry, draft, served>> /\ PickOnly

SubmitFails ==
  /\ submit.step = "sent" /\ submit.answer = Failed
  /\ submit' = NoSubmit
  /\ UNCHANGED <<onPick, entry, draft, server, events>> /\ PickOnly

(* The updated row is stored as it is, whichever penka is selected by now, *)
(* and the standings of the route's penka are opened: the login screen, if *)
(* the session is gone, and nothing at all if the route has no penka.      *)
SubmitLands ==
  /\ submit.step = "sent" /\ submit.answer \in Rows
  /\ submit' = NoSubmit
  /\ IF user = None /\ route # None
     THEN Switch(None)
     ELSE entry' = [entry EXCEPT !.row = submit.answer] /\ UNCHANGED <<route, board, loop, poll>>
  /\ onPick' = FALSE /\ draft' = None
  /\ UNCHANGED <<user, hidden, server, events>>

-----------------------------------------------------------------------------
(* A resolution, a lock, a new standing: the API has something newer.      *)
Advance(p) ==
  /\ p \in Changing
  /\ served' = [served EXCEPT ![p] = @ + 1]
  /\ Event
  /\ UNCHANGED <<route, onPick, user, hidden, board, entry, draft, loop, poll, submit, picks>>

Answers(f) == ServeBoard(f) \/ BoardLands(f) \/ ServeEntry(f) \/ EntryLands(f)
Submits == ServeSubmit \/ SubmitFails \/ SubmitLands

Next ==
  \/ \E p \in Penkas : Open(p) \/ JoinLands(p) \/ CreateLands(p) \/ Advance(p)
  \/ Leave \/ SwitchTab \/ Expire \/ \E u \in Users : SignIn(u)
  \/ Hide \/ Show \/ TimerFires
  \/ \E f \in Polls : Answers(f)
  \/ Tap \/ Confirm \/ Submits

(* Requests are answered, answers are handled and armed timers fire.       *)
Spec == /\ Init /\ [][Next]_vars
        /\ \A f \in Polls : WF_vars(Answers(f))
        /\ WF_vars(Submits) /\ WF_vars(TimerFires)
===============================================================================
