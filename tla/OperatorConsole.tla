--------------------------- MODULE OperatorConsole ---------------------------
(***************************************************************************)
(* The operator's console (apps/backoffice-web): the selected matchday,    *)
(* the reads that bring it on screen, the three writes that move it and    *)
(* the watch after a resolve (stores/matchday.ts), behind a gate that any  *)
(* refused request locks (stores/session.ts).                              *)
(*                                                                         *)
(* A handler runs up to its next await; answers land later, in any order.  *)
(* One match stands for a matchday's.  The admin API is what its answers   *)
(* are, with the await between a close's check and its write: Resolution   *)
(* looks inside its handlers.                                              *)
(***************************************************************************)
EXTENDS Integers

CONSTANTS
  Leagues,
  LastMatchday,      \* a league's calendar is 1..LastMatchday
  None, Pending, Failed,
  ResolvePollAttempts,
  LinkLeague, LinkNumber, \* ?leagueId=&matchday= in the tab's URL, or None
  StartStatus,       \* the statuses of the matchdays when the console opens
  MaxReads,          \* bound: navigation reads in flight at once
  MaxEvents          \* bound: clicks that navigate or sign out, and requests that fail

Numbers == 1..LastMatchday
Matchdays == Leagues \X Numbers
Statuses == {"open", "locked", "queued", "resolved"}
Reads == 0..MaxReads \* 0: the watch's

ASSUME OperatorConsoleAssumption ==
  /\ LastMatchday \in Nat \ {0} /\ ResolvePollAttempts \in Nat \ {0}
  /\ StartStatus \subseteq [Matchdays -> Statuses]
  /\ LinkLeague \in Leagues \cup {None} /\ LinkNumber \in Numbers \cup {None}
  /\ MaxReads \in Nat \ {0} /\ MaxEvents \in Nat
  /\ {"accepted", "done"} \cap {Pending, Failed} = {}
  /\ None \notin [id: Matchdays, status: Statuses] \cup [id: Matchdays, complete: BOOLEAN]

VARIABLES
  status,    \* API: matchdays.status; queued is locked, with workers on it
  complete,  \* API: the matchdays whose match has its outcome
  closing,   \* API: closes past their check whose request failed, not yet written
  locked,    \* session: is the gate up?
  mounting,  \* the ConsoleViews mounted whose listing of the penkas is in flight
  selected,  \* leagueId and number, None before one is
  calendar,  \* the league whose calendar is held, None when it is empty
  matchday,  \* the matchday on screen, with its status
  matches,   \* its matches on screen: whose, and whether they have an outcome
  read,      \* the reads in flight
  write,     \* the write in flight: isBusy
  watch,     \* watchResolution: isAwaitingResolution
  events,    \* history: the clicks and the failures so far
  stale,     \* history: has a read failed, or landed after the selection moved?
  wasResolved \* history: the matchdays that were resolved at some time

server == <<status, complete, closing, wasResolved>>
screen == <<selected, calendar, matchday, matches>>
session == <<locked, mounting>>
vars == <<server, session, screen, read, write, watch, events, stale>>

Idle == [step |-> "idle"]
Busy == write # Idle
Awaiting == watch # Idle

ConsoleTypeOK ==
  /\ status \in [Matchdays -> Statuses]
  /\ complete \subseteq Matchdays /\ closing \subseteq Matchdays /\ wasResolved \subseteq Matchdays
  /\ locked \in BOOLEAN /\ stale \in BOOLEAN /\ mounting \in 0..(MaxEvents + 1)
  /\ selected \in [league: Leagues \cup {None}, number: Numbers \cup {None}]
  /\ calendar \in Leagues \cup {None}
  /\ matchday \in [id: Matchdays, status: {"open", "locked", "resolved"}] \cup {None}
  /\ matches \in [id: Matchdays, complete: BOOLEAN] \cup {None}
  /\ read \in [Reads -> {Idle}
       \cup [step: {"calendar"}, league: Leagues, linked: BOOLEAN,
             opening: Numbers \cup {Pending, Failed}]
       \cup [step: {"detail"}, id: Matchdays, linked: BOOLEAN, answer: [status: Statuses, complete: BOOLEAN]
                                                      \cup {Pending, Failed}]]
  /\ write \in {Idle} \cup [step: {"close", "result", "resolve"}, id: Matchdays,
                            answer: {"accepted", "done", Pending, Failed}]
  /\ watch \in {Idle} \cup [step: {"wait", "read"}, attempt: 0..(ResolvePollAttempts - 1)]
  /\ events \in 0..MaxEvents

Init ==
  /\ status \in StartStatus
  /\ complete = {m \in Matchdays : status[m] = "resolved"}
  /\ wasResolved = complete /\ closing = {}
  /\ locked = FALSE /\ mounting = 1 /\ stale = FALSE
  /\ selected = [league |-> None, number |-> None] /\ calendar = None
  /\ matchday = None /\ matches = None
  /\ read = [r \in Reads |-> Idle] /\ write = Idle /\ watch = Idle
  /\ events = 0

Event == events < MaxEvents /\ events' = events + 1

SelectedId == <<selected.league, selected.number>>
IsSelected == selected.number # None

-----------------------------------------------------------------------------
(* Reads that navigate. *)

Navigating == Reads \ {0}
FreeRead == CHOOSE r \in Navigating : read[r] = Idle /\ \A q \in 1..(r - 1) : read[q] # Idle
HasFreeRead == \E r \in Navigating : read[r] = Idle

(* linked: asked by a ConsoleView, which follows its link afterwards.      *)
Calendar(league, linked) ==
  [step |-> "calendar", league |-> league, linked |-> linked, opening |-> Pending]
Detail(id, linked) == [step |-> "detail", id |-> id, linked |-> linked, answer |-> Pending]
NavigationOnly == UNCHANGED <<server, session, write, watch>>

(* The gate replaces the screen; the selector and the refresh button are   *)
(* dead during a write.                                                    *)
OnConsole == ~locked
CanNavigate == OnConsole /\ ~Busy

(* openLeague: everything of the last league goes, its calendar is read.   *)
OpenedIn(league, linked) ==
  /\ HasFreeRead
  /\ selected' = [league |-> league, number |-> None]
  /\ calendar' = None /\ matchday' = None /\ matches' = None
  /\ read' = [read EXCEPT ![FreeRead] = Calendar(league, linked)]

OpenLeague(league) ==
  /\ CanNavigate /\ Event
  /\ OpenedIn(league, FALSE)
  /\ UNCHANGED stale /\ NavigationOnly

(* The first league of the listing, if there is one and it was answered.   *)
Suggestions == Leagues \cup {None}

(* ConsoleView once its listing is answered, with the league of its link   *)
(* or the one suggested: whatever happens on the console by now, and even  *)
(* when the gate has replaced it.                                          *)
Mount(league) ==
  /\ mounting > 0 /\ mounting' = mounting - 1
  /\ league \in IF LinkLeague = None THEN Suggestions ELSE {LinkLeague}
  /\ IF league = None THEN UNCHANGED <<screen, read>> ELSE OpenedIn(league, TRUE)
  /\ UNCHANGED <<server, locked, write, watch, events, stale>>

(* goTo: only a number of the calendar held; load() reads it.              *)
GoTo(number) ==
  /\ CanNavigate /\ calendar # None /\ Event /\ HasFreeRead
  /\ selected' = [selected EXCEPT !.number = number]
  /\ read' = [read EXCEPT ![FreeRead] = Detail(<<selected.league, number>>, FALSE)]
  /\ UNCHANGED <<calendar, matchday, matches, stale>> /\ NavigationOnly

Refresh ==
  /\ CanNavigate /\ IsSelected /\ Event /\ HasFreeRead
  /\ read' = [read EXCEPT ![FreeRead] = Detail(SelectedId, FALSE)]
  /\ UNCHANGED <<screen, stale>> /\ NavigationOnly

(* The link's goTo, once openLeague is through, failed or not.             *)
FollowsLink(r) == read[r].linked /\ LinkNumber # None /\ calendar # None
Followed(r) ==
  IF FollowsLink(r)
  THEN /\ selected' = [selected EXCEPT !.number = LinkNumber]
       /\ read' = [read EXCEPT ![r] = Detail(<<selected.league, LinkNumber>>, FALSE)]
  ELSE read' = [read EXCEPT ![r] = Idle] /\ UNCHANGED selected

(* The API on GET .../matchdays: the console wants the first unresolved,   *)
(* or the last.                                                            *)
Opening(league) ==
  LET unresolved == {n \in Numbers : status[<<league, n>>] # "resolved"} IN
  IF unresolved = {} THEN LastMatchday
  ELSE CHOOSE n \in unresolved : \A other \in unresolved : n <= other

ServeCalendar(r) ==
  /\ read[r].step = "calendar" /\ read[r].opening = Pending
  /\ read' = [read EXCEPT ![r].opening = Opening(read[r].league)]
  /\ UNCHANGED <<screen, events, stale>> /\ NavigationOnly

(* The API on GET .../matchdays/:number.                                   *)
ServeDetail(r) ==
  /\ read[r].step = "detail" /\ read[r].answer = Pending
  /\ read' = [read EXCEPT ![r].answer = [status |-> status[read[r].id],
                                         complete |-> read[r].id \in complete]]
  /\ UNCHANGED <<screen, events, stale>> /\ NavigationOnly

(* The traffic feed: if it is the key that was refused, the gate goes up.  *)
Refused == locked' \in {locked, TRUE} /\ UNCHANGED mounting

ReadFails(r) ==
  /\ \/ /\ read[r].step = "calendar" /\ read[r].opening = Pending
        /\ read' = [read EXCEPT ![r].opening = Failed]
     \/ /\ read[r].step = "detail" /\ read[r].answer = Pending
        /\ read' = [read EXCEPT ![r].answer = Failed]
  /\ Event
  /\ Refused
  /\ UNCHANGED <<server, screen, write, watch, stale>>

(* The calendar is kept whichever league is selected by now, and its       *)
(* opening number is loaded in the league that is.                         *)
CalendarLands(r) ==
  /\ read[r].step = "calendar" /\ read[r].opening # Pending
  /\ IF read[r].opening = Failed
     THEN Followed(r) /\ UNCHANGED calendar
     ELSE /\ calendar' = read[r].league
          /\ selected' = [selected EXCEPT !.number = read[r].opening]
          /\ read' = [read EXCEPT ![r] = Detail(<<selected.league, read[r].opening>>, read[r].linked)]
  /\ stale' = (stale \/ read[r].opening = Failed \/ read[r].league # selected.league)
  /\ UNCHANGED <<matchday, matches, events>> /\ NavigationOnly

(* What a detail's answer puts on screen, whatever is selected by now.     *)
SeenStatus(s) == IF s = "queued" THEN "locked" ELSE s
OnScreen(r) ==
  IF read[r].answer = Failed THEN stale' = TRUE /\ UNCHANGED <<matchday, matches>>
  ELSE /\ matchday' = [id |-> read[r].id, status |-> SeenStatus(read[r].answer.status)]
       /\ matches' = [id |-> read[r].id, complete |-> read[r].answer.complete]
       /\ stale' = (read[r].id # SelectedId)

(* Mutation: the matches are put on screen and the matchday is not.        *)
DetailLandsInPart(r) ==
  /\ read[r].step = "detail" /\ read[r].answer \notin {Pending, Failed}
  /\ matches' = [id |-> read[r].id, complete |-> read[r].answer.complete]
  /\ stale' = (read[r].id # SelectedId)
  /\ read' = [read EXCEPT ![r] = Idle]
  /\ UNCHANGED <<matchday, selected, calendar, events>> /\ NavigationOnly

DetailLands(r) ==
  /\ read[r].step = "detail" /\ read[r].answer # Pending
  /\ OnScreen(r)
  /\ Followed(r)
  /\ UNCHANGED <<calendar, events>> /\ NavigationOnly

-----------------------------------------------------------------------------
(* Writes: one at a time, on the selected matchday, offered by what is on  *)
(* screen.                                                                 *)

WriteOnly == UNCHANGED <<read, events>>
Write(step, id) == write' = [step |-> step, id |-> id, answer |-> Pending]

CanClose == ~Busy /\ matchday # None /\ matchday.status = "open"

Close ==
  /\ OnConsole /\ IsSelected /\ CanClose
  /\ Write("close", SelectedId)
  /\ UNCHANGED <<server, session, screen, watch, stale>> /\ WriteOnly

CanLoadResults == ~Busy /\ matchday # None /\ matchday.status # "resolved"

(* The rows of the panel are the matches on screen; a match is addressed   *)
(* by its own id.                                                          *)
CanTapResult == matches # None /\ CanLoadResults

LoadResult ==
  /\ OnConsole /\ CanTapResult
  /\ Write("result", matches.id)
  /\ UNCHANGED <<server, session, screen, watch, stale>> /\ WriteOnly

(* whyNotResolvable: the engine only counts the matchday's own matches.    *)
IsResolvable ==
  /\ matchday # None /\ matchday.status = "locked"
  /\ matches # None /\ matches.id = matchday.id => matches.complete

CanResolve == ~Busy /\ ~Awaiting /\ IsResolvable

Resolve ==
  /\ OnConsole /\ IsSelected /\ CanResolve
  /\ Write("resolve", SelectedId)
  /\ UNCHANGED <<server, session, screen, watch, stale>> /\ WriteOnly

(* The API on the three routes, each with what it refuses.                 *)
Accepts(step, id) ==
  CASE step = "close" -> status[id] # "resolved"
    [] step = "result" -> status[id] # "resolved"
    [] step = "resolve" -> status[id] \in {"locked", "queued"} /\ id \in complete

(* A close is only accepted here: it is written at a later step.           *)
ServeWrite ==
  /\ Busy /\ write.answer = Pending
  /\ LET id == write.id
         answer == IF ~Accepts(write.step, id) THEN Failed
                   ELSE IF write.step = "close" THEN "accepted" ELSE "done"
     IN
     /\ write' = [write EXCEPT !.answer = answer]
     /\ status' = IF write.step = "resolve" /\ answer = "done"
                  THEN [status EXCEPT ![id] = "queued"] ELSE status
     /\ complete' = IF write.step = "result" /\ answer = "done"
                    THEN complete \cup {id} ELSE complete
  /\ UNCHANGED <<closing, wasResolved, session, screen, watch, stale>> /\ WriteOnly

(* Over whatever the status is by now, resolved included; a matchday the   *)
(* workers are on is locked already.                                       *)
Locked(id) ==
  status' = [status EXCEPT ![id] = IF status[id] = "queued" THEN "queued" ELSE "locked"]

CloseWrites ==
  /\ Busy /\ write.answer = "accepted"
  /\ Locked(write.id)
  /\ write' = [write EXCEPT !.answer = "done"]
  /\ UNCHANGED <<complete, closing, wasResolved, session, screen, watch, stale>> /\ WriteOnly

(* The request failed, and its handler goes on.                            *)
CloseWritesLate(id) ==
  /\ id \in closing /\ closing' = closing \ {id}
  /\ Locked(id)
  /\ UNCHANGED <<complete, wasResolved, session, screen, write, watch, stale>> /\ WriteOnly

(* It fails, is cut before it is answered, or was carried out and its      *)
(* answer is lost.                                                         *)
WriteFails ==
  /\ Busy /\ write.answer # Failed
  /\ write' = [write EXCEPT !.answer = Failed]
  /\ \/ UNCHANGED closing
     \/ write.answer = "accepted" /\ closing' = closing \cup {write.id}
  /\ Event
  /\ Refused
  /\ UNCHANGED <<status, complete, wasResolved, screen, read, watch, stale>>

(* Mutation: the matchday is shown closed, whatever the API answered.      *)
WriteLandsRegardless ==
  /\ Busy /\ write.answer # Pending /\ write' = Idle
  /\ matchday' = IF write.step = "close" THEN [id |-> write.id, status |-> "locked"] ELSE matchday
  /\ matches' = IF write.step = "result" /\ write.answer = "done" /\ matches # None
                   /\ matches.id = write.id
                THEN [matches EXCEPT !.complete = TRUE] ELSE matches
  /\ stale' = (stale \/ (write.step = "close" /\ write.id # SelectedId))
  /\ watch' = IF write.step = "resolve" /\ write.answer = "done"
              THEN [step |-> "wait", attempt |-> 0] ELSE watch
  /\ UNCHANGED <<server, session, selected, calendar>> /\ WriteOnly

(* A close puts its matchday on screen, without its matches; a result only *)
(* touches the match it is of; a resolve starts the watch.                 *)
WriteLands ==
  /\ Busy /\ write.answer # Pending /\ write' = Idle
  /\ LET done(step) == write.step = step /\ write.answer = "done" IN
     /\ matchday' = IF done("close") THEN [id |-> write.id, status |-> "locked"] ELSE matchday
     /\ matches' = IF done("result") /\ matches # None /\ matches.id = write.id
                   THEN [matches EXCEPT !.complete = TRUE] ELSE matches
     /\ stale' = (stale \/ (done("close") /\ write.id # SelectedId))
     /\ watch' = IF done("resolve") THEN [step |-> "wait", attempt |-> 0] ELSE watch
  /\ UNCHANGED <<server, session, selected, calendar>> /\ WriteOnly

-----------------------------------------------------------------------------
(* watchResolution: a few reads of whatever is selected, until what is on  *)
(* screen is resolved.                                                     *)

IsResolved == matchday # None /\ matchday.status = "resolved"

WatchOnly == UNCHANGED <<server, session, selected, calendar, write, events>>

(* Mutation: the attempts are not counted. *)
NextAttemptForEver ==
  watch' = IF matchday' # None /\ matchday'.status = "resolved" THEN Idle
           ELSE [step |-> "wait", attempt |-> 0]

NextAttempt ==
  watch' = IF \/ matchday' # None /\ matchday'.status = "resolved"
              \/ watch.attempt + 1 = ResolvePollAttempts
           THEN Idle ELSE [step |-> "wait", attempt |-> watch.attempt + 1]

(* After RESOLVE_POLL_MS; with nothing selected load() returns at once.    *)
WatchTick ==
  /\ Awaiting /\ watch.step = "wait"
  /\ IF IsSelected
     THEN /\ read' = [read EXCEPT ![0] = Detail(SelectedId, FALSE)]
          /\ watch' = [watch EXCEPT !.step = "read"]
          /\ UNCHANGED <<matchday, matches>>
     ELSE UNCHANGED <<read, matchday, matches>> /\ NextAttempt
  /\ UNCHANGED stale /\ WatchOnly

WatchLands ==
  /\ Awaiting /\ watch.step = "read" /\ read[0].step = "detail" /\ read[0].answer # Pending
  /\ OnScreen(0)
  /\ NextAttempt
  /\ read' = [read EXCEPT ![0] = Idle]
  /\ WatchOnly

-----------------------------------------------------------------------------
(* session.ts: the gate takes a key the API accepts, or is asked for.      *)

SignIn ==
  /\ locked /\ locked' = FALSE
  /\ mounting' = mounting + 1
  /\ UNCHANGED <<server, screen, read, write, watch, events, stale>>

SignOut ==
  /\ ~locked /\ locked' = TRUE /\ Event
  /\ UNCHANGED <<server, mounting, screen, read, write, watch, stale>>

(* The workers.                                                            *)
WorkersResolve(id) ==
  /\ status[id] = "queued"
  /\ status' = [status EXCEPT ![id] = "resolved"]
  /\ wasResolved' = wasResolved \cup {id}
  /\ UNCHANGED <<complete, closing, session, screen, read, write, watch, events, stale>>

Reading == \E r \in Reads : ServeDetail(r)
Watching == WatchTick \/ WatchLands

Next ==
  \/ \E league \in Leagues : OpenLeague(league)
  \/ \E league \in Suggestions : Mount(league)
  \/ \E number \in Numbers : GoTo(number)
  \/ Refresh
  \/ \E r \in Navigating : ServeCalendar(r) \/ CalendarLands(r) \/ DetailLands(r)
  \/ Reading \/ \E r \in Reads : ReadFails(r)
  \/ Close \/ LoadResult \/ Resolve \/ ServeWrite \/ CloseWrites \/ WriteFails \/ WriteLands
  \/ Watching
  \/ SignIn \/ SignOut
  \/ \E id \in Matchdays : CloseWritesLate(id) \/ WorkersResolve(id)

(* The watch's timer fires and its requests are answered.                  *)
Spec == Init /\ [][Next]_vars /\ WF_vars(Watching) /\ WF_vars(ServeDetail(0))
===============================================================================
