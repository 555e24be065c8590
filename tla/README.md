# Penka Survivor, specified

Survivor pools ("penkas") on football leagues: every matchday each player picks
one team that has to win, no team may be used twice, a loss costs a life, and a
player without lives goes to the island. This directory holds TLA+ models of the
code under `src/`, the TLC configurations that check them on small instances and
the TLAPS proofs of what matters most. Line numbers below and in `PROJECT.json`
refer to `src/`.

## 1. The system

Four programs share one standalone MongoDB (no transactions: each read and each
write is on its own), one RabbitMQ queue and one Redis.

| Component | State it keeps | Operations | Talks to |
|---|---|---|---|
| Game engine (`packages/game-engine`) | none, pure | resolve a matchday, validate a pick, label a pick, rank, select the current matchday, build the board | called by api and workers |
| Public API (`apps/api`) | `penkas`, `entries`, `picks`, `matchdays` and `matches` (materialized once per league), sessions | create, join, submit a pick, read the board, sign in and refresh | Mongo, Redis (boards, revoked tokens) |
| Back office API (`apps/backoffice-api`) | `matchdays.status`, `matchdays.resolveRequestedAt`, `matches.outcome`, the polling profile | close, set a result, request resolution, listings | Mongo, Redis, publishes to RabbitMQ |
| Workers (`apps/workers`) | `entries`, `picks.result`, `resolutions`, `matchdays.status`; per process its deliveries in flight | consume one command at a time: gate, load, engine, effects, marker, finalize, board, ack; boot, watch the link, stop | Mongo, RabbitMQ, Redis (boards) |
| Broker | the queue, its dead letters | deliver, redeliver what was not acked | back office, workers |
| Player app (`apps/web`) | session, stores, draft, poll timers | HTTP calls, shared token refresh, polling while somebody watches | public API |
| Operator console (`apps/backoffice-web`) | matchday store, session gate | HTTP calls, watch of a resolution | back office API |
| Contracts (`packages/contracts`) | none | schemas shared by all of the above | |

How they interact in the flow everything else serves:

    operator (console)       back office                 queue           workers
    close, set results  -->  read, then write
    resolve             -->  read the matchday
                             check it
                             claim the stamp  (or replay an earlier one)
                             read the penkas created up to the stamp
                             publish one command per penka  --> Q -->  gate: marker? status?
                             confirm; on failure clear the stamp       read penka, matchday,
                                                                       matches, entries, picks
    players (app)        public API                                    engine
    create, join, pick -->  read, validate, write                      write entries || picks
    board          <------  Redis, or build it and store it            insert the marker
                              ^                                        all penkas marked? flip,
                              |                                          drop the boards
                              +----------------------------------------rebuild this board
                                                                       ack, or retry, or dead-letter

### What is hard about it

* **No transactions.** A press, a close, a result, a join, a pick, a creation,
  a board and every stage of a worker read at one moment and write at another.
  Anything may move in between.
* **At-least-once delivery.** Confirms and acks are lost, workers die with a
  delivery unacked, presses are repeated: duplicates are the normal case, and
  idempotence rests on one document, the marker in `resolutions`.
* **A shared calendar.** `matchdays` belongs to a league, penkas are many. One
  flip ends the matchday for all of them, so it must wait for all of them; and
  the first creators of a league race to insert it.
* **Penkas appear meanwhile.** `createdAt` is read before the insert, so the
  set "created up to the stamp" is not a snapshot.
* **Two writers of one cache key.** The API fills a board on a miss, the worker
  overwrites or drops it, and each builds it from several reads.
* **Two clients that navigate while they wait.** Answers land on another penka
  or matchday than they were asked for.
* **A link that breaks in parts.** A worker's connection, channel and consumer
  end separately, and a signal may arrive at any point of that.
* **Swallowed failures.** Finalization, board refreshes, revocations are best
  effort by design.

### What makes each component correct

| Component | Correct when |
|---|---|
| Engine | an alive entry loses at most one life a matchday, reaches the island exactly at zero, nobody returns; the submission gate and the board's reveal agree; the ranking is a total order |
| Back office | answered presses of one matchday name one instant; a resolved matchday has its resolutions, whatever a late close makes of its status; a queued answer is not a lie |
| Workers | no entry is moved twice by one matchday; the marker never precedes its effects; the flip follows the last marker; no command is lost or spins |
| Worker process | a stop cuts no handler off and ends; the queue is never left to a process that only looks alive |
| Picks and joining | picks follow the calendar, a settled pick does not change, a team scores once, whoever joined in time is resolved |
| Season | points, lives and labels balance over matchdays in any order |
| Board and its cache | no pick is shown early; a board has every earlier matchday that was asked of its penka; no board hides a resolution for good |
| Creation | a 201 is a penka that can be played; a refusal leaves nothing behind; a calendar cut off is finished by the next creator |
| Sessions | a session has one good refresh token and keeps one its client was given; a lost race leaves no second one; only a fault signs a player out |
| Player app | the screen is about the penka of the route; a pick goes where it was tapped; whoever stays catches up |
| Console | nothing is shown that the API had not reached; actions and screen belong to the matchday selected; the watch ends |

The hazards behind these, each at its line, are the `hazards` list of `PROJECT.json`.

## 2. Modules

| Module | Kind | Models |
|---|---|---|
| `GameRules` | operators | the game engine: one matchday on one entry, pick validation, the current matchday, the lock gate, the ranking |
| `Resolution` | state machine | one matchday of one league from press to flip: presses, close and set-result requests, penka creation, the queue, workers, faults |
| `ResolutionProperties` | properties | safety, action, liveness and refinement properties of `Resolution`, and the inductive invariant |
| `MatchdayResolution` | abstract specification | what `Resolution` promises: each penka resolved once and atomically, then the flip |
| `ResolutionProofs` | proofs | safety of `Resolution`, and its refinement of `MatchdayResolution` |
| `Season` (`SeasonProperties`) | state machine | a penka over a whole calendar: joins, pick submissions query by query, operator, one worker |
| `SeasonProofs` | proofs | safety of `Season`, and what one matchday does to an entry |
| `Boards` (`BoardsProperties`) | state machine | the boards of a league's penkas: both builders, the cache, the polling cadence |
| `BoardsProofs` | proofs | safety of `Boards`, the lock gates and the ranking |
| `Founding` (`FoundingProperties`) | state machine | creating penkas: the calendar, the join code, the creator's entry, the rollback; joining |
| `FoundingProofs` | proofs | safety of `Founding` |
| `Sessions` (`SessionsProperties`) | state machine | refresh-token rotation in the API, and the tabs of one browser that share a stored session |
| `SessionsProofs` | proofs | rotation, and what a browser with one tab keeps |
| `PlayerApp` (`PlayerAppProperties`) | state machine | one tab: the shell, the poll loop, the two stores, the pick screen |
| `PlayerAppProofs` | proofs | safety of `PlayerApp` |
| `OperatorConsole` (`OperatorConsoleProperties`) | state machine | the console's matchday store, its watch and its gate |
| `OperatorConsoleProofs` | proofs | safety of `OperatorConsole` |
| `WorkerProcess` (`WorkerProcessProperties`) | state machine | worker processes and their link to the broker: boot, deliveries, breaks, signals, stop |
| `WorkerProcessProofs` | proofs | safety of `WorkerProcess` |
| `MC...` | TLC instances | the model values and definitions the configurations use |

How they share the system:

* `GameRules` is extended by `Resolution`, `Season` and `Boards`, so the three
  move entries, find the current matchday and lock it by the same engine.
* `Resolution` looks at one matchday with every failure and rival; `Season` at
  many matchdays and at picks that move, with a worker that is not interrupted;
  `Boards` at what is cached meanwhile, with several penkas. The first says what
  one resolution does to the entries it read, the second what a sequence of
  resolutions does to a player, the third when he sees it.
* `WorkerProcess` is the container of a `Resolution` worker: there a handler is
  two events, taken and done, and everything around it may break.
* `Founding` looks inside the creation that `Resolution` knows as three steps.
* `Sessions`, `PlayerApp` and `OperatorConsole` are the clients. `PlayerApp`'s
  session may end at any moment, for the reasons `Sessions` is about; the API's
  answers in both are what the other modules look inside of.

Definitions called `XyzAfresh`, `XyzUngated` and so on, commented "Mutation",
stand next to the definition they vary: each is a plausible bug of that code,
never part of a specification, kept because the property named for it in
`PROJECT.json` (`mutants`) must fail when it replaces the original. That is how
we know the property can fail.

### `Resolution`, variable by variable

| Variable | In the code |
|---|---|
| `status`, `stamp`, `outcome` | `matchdays.status`, `matchdays.resolveRequestedAt`, `matches.outcome` |
| `penka`, `created` | how far `POST /penkas` has got for each penka, and its `createdAt` |
| `entries`, `pick`, `label` | `entries`, `picks.teamCode`, `picks.result` |
| `marker` | the penkas with a document in `resolutions` |
| `queue`, `dead` | the queue as a bag of commands `[penka, at, attempt]`, and its dead letters |
| `worker` | of each process: program counter, message, what it has read (`got`, `seen`), what it still has to write |
| `press`, `closer`, `scorer` | of each request: program counter and what it has read |
| `now`, `faults` | the clock, the number of faults so far |
| `hits`, `before` | history only: how often the matchday was applied to each entry, and the entries before it |

A press is `PressLoad`, `PressCheck`, `Claim`, `Join`, `FindPenkas`, `Send` once
per penka, `Confirm`, and on failure `PublishFails` and `Clear`: the steps of the
route between its awaits (`admin/routes.ts:297-361`, `admin/resolve.ts`). A worker
is `Deliver`, `Gate`, `Read` once per collection in any order (they run under
`Promise.all`), `Decide`, `WriteEntry` and `WritePick` once per document in any
order (an unordered bulk is not atomic), `BulksSettle`, `InsertMarker`,
`FindWaiting`, `Count`, `Flip`, `Ack`, and the failures: `ReadFails`,
`BulkFails`, `MarkerFails`, `FinalizeFails`, `DeadLetter`, `Republish`,
`RepublishFails`, `WorkerCrash`. Every step that can fail can fail in the model,
under a named kind of fault and a bound.

### `Season`, variable by variable

`status` and `outcome` are per matchday, `joined` and `entries` are the roster,
`pick` and `label` are per player and matchday, `resolution` is the document with
its list of the eliminated, `requested` are the matchdays with a command in the
queue, `worker` and `submission` hold program counters and reads. `faced` and
`openAtJoin` are history. A submission is `SubmitReadEntry`, `SubmitReadCalendar`,
`SubmitValidate`, `SubmitWrite`: the awaits of `game/routes.ts:333-373`. `desk` are
the requests that close a matchday or set a result: `DeskReads` is their check,
`Close` and `SetResult` the write, which asks nothing again
(`admin/routes.ts:275-288`, `:233-246`). A close may therefore put a resolved
matchday back to locked, and a result may be written after the flip.

### `Boards`, variable by variable

| Variable | In the code |
|---|---|
| `status`, `pick`, `marked` | `matchdays.status`, one player's `picks.teamCode` in each penka, `resolutions` |
| `applied` | the matchdays `entries` account for: what the standings are computed from |
| `founded`, `closing` | the penkas stored so far; the matchdays a close request found unresolved and has not written yet |
| `requested`, `profile` | of each matchday whose resolve was pressed, the penkas stored at that moment; Redis's `ops:pollingProfile` |
| `cache` | Redis's `penka:{id}:board`: none, a board, or something an older deploy wrote |
| `build` | of each board request and each worker's rebuild: program counter and what was read |
| `job`, `now` | what the worker does for each penka; the clock |

A request is `Miss`, `ReadCalendar`, `ReadEntries`, `ReadRest`, `RequestStamps`
(the clock and the cadence, read after the queries) and `RequestStores`
(`game/routes.ts`). A worker is `Take`, `Apply`, `Mark`, `Settle`, `Drop`,
`StartRefresh` (which takes the clock first), the same three reads, and
`WorkerStores` (`handler.ts`, `resolution/board.ts`). Either may fail at any step.
A penka may be founded at any moment (`Found`): a matchday that was asked before
it existed is never resolved for it. A close is `CloseReads` and `Close`, as in
`Season`;
`Expire` and `Deploy` are Redis and a release. A board keeps which matchdays its
standings and its history account for, one pick, the lock, and the cadence it asks
the player for.

### `Founding`, variable by variable

`lockFrom` and `kickoffFrom` are the `matchdays` and `matches` of the league, each
document as the instant its dates were computed from (0 if it is not stored);
`codeOf` and `entries` are `penkas.joinCode` and `entries`; `call` are the
creations, with one program counter for each half of the `Promise.allSettled`,
`join` the joins. `leftBehind` and `cutShort` are history: creations that could not
be rolled back, and creations that stopped half way through the matches. The steps
are `FindCalendar`, `InsertMatchdays` and `InsertMatches` document by document
(`materialize.ts`), `InsertWithJoinCode` (`routes.ts:64-95`), `Settle`,
`CreatorEnters`, `DiscardPenka` (`rollback.ts`), `LookUpCode`, `EnsureEntry`, and
a failure of each.

### `Sessions`, variable by variable

A pair is an access token and a refresh token issued together, numbered in the
order of issue; `root` is the sign-in it descends from. `stored` and `aged` are
`refreshTokens` and its `expiresAt`, `valid` is the `exp` of the access tokens,
`granted` (history) the pairs the API answered with, `torn` (history) the tokens
that a call deleted and then reported an error. `refresh` holds the calls
of `POST /auth/refresh`, one step per await: `RefreshFind`, `RefreshIssue`,
`RefreshConsume`, `RefreshRevoke` (`auth/routes.ts:138-158`), each write with a
twin that fails, whether or not the write was done. `tab` is the auth store of
each tab (`inFlight` is its variable of that name), `storage` the one
`localStorage` they share, `request` the authenticated requests and where in
`apiRequest` they are. `RefreshLands` is one step, for nothing else runs between
the store's `then` and the requests that waited for it.

### `PlayerApp`, variable by variable

| Variable | In the code |
|---|---|
| `route`, `onPick` | the router's penka (`App.vue`'s `penkaId`), and whether `PickView` is the screen |
| `user`, `hidden` | the session's user, `document.hidden` |
| `board`, `entry` | `stores/board.ts`, `stores/my-entry.ts`: the penka each points at, and what it shows |
| `draft` | `PickView`'s draft pick, as the penka it was tapped in |
| `loop` | `use-poll.ts`: running, is a timer armed, is a cadence known |
| `poll`, `submit` | the runs of `refreshNow` and the submission in flight |
| `served`, `picks` | what the API would answer: the version of each penka, who has picked |

JavaScript runs one handler at a time, so an action is a handler up to its next
await: `Open`, `Leave`, `SwitchTab`, `Hide`, `Show`, `TimerFires`, `Tap`,
`Confirm`; `ServeXyz` is the API's moment and `XyzLands` what the store does with
the answer. `JoinLands` and `CreateLands` open the pick screen of a penka whenever
the answer comes, wherever the player is.

### `OperatorConsole`, variable by variable

`status` and `complete` are the API's matchdays and results, `closing` the closes
that are past their check and whose request has failed meanwhile; `wasResolved` is
history. A close is accepted first and written later (`ServeWrite`, `CloseWrites`,
`CloseWritesLate`), over whatever stands by then. `locked` and
`mounting` the gate (`stores/session.ts`) and the mounted `ConsoleView`s whose
listing has not answered; `selected`, `calendar`, `matchday` and `matches` the
state of `stores/matchday.ts`; `read` the navigation reads and the watch's,
`write` what `isBusy` is about, `watch` what `isAwaitingResolution` is about.
`stale` is history: a read failed, or landed after the selection had moved, and
none has since put the selected matchday on screen. Guards such as `CanClose`,
`IsResolvable` and `CanTapResult` are the computed properties and `v-if`s that
enable the buttons.

### `WorkerProcess`, variable by variable

`queue`, `dead` and `unacked` are the broker's view, `inFlight` is the process's
(`consumer.ts`), and the interest is in the two differing. `proc` is the process:
its `phase`, its `channel` (open, closed on its own, lost with the connection), its
`consumer`, whether the lifecycle watcher is `watching`, its exit `code`, and
`broken`, history: something went wrong in this life. `cut` is history: the ways
in which processes left while a handler ran. `Boot`, `Consume`, `BootFails`,
`Deliver`, `Finish`, `DeadLetter`, `PutBack`, `ChannelError`, `ConsumerCancelled`,
`ConnectionLost`, `Killed`, `Signal`, `Cancel`, `Drain`, `Close`, `CloseFails` are the steps of
`index.ts`, `worker.ts`, `lifecycle.ts` and the consuming half of `consumer.ts`. Any
delivery may turn out to be the last attempt (`DeadLetter`), and an answer that
throws on a closed channel still ends the wait for its delivery (`Settled`).

### Abstractions, and why they lose nothing the properties tell apart

* The queue is an unordered bag (`Resolution`) or a set of commands each published
  once (`WorkerProcess`): a superset of the orders RabbitMQ allows, which after
  requeues and republishes are not FIFO either. `WorkerProcess` keeps one thing of
  the order, as fairness: no command is overtaken for ever.
* All hosts read one clock. Skewed clocks would only widen the windows between
  `createdAt`, the stamp and the lock that one clock already shows.
* Teams are model values, a match is its two teams, a pick its team.
  Timestamps that cannot be parsed, wording, logging and summaries are left out.
* In `Resolution` picks are given and do not move, entries of a penka that
  existed at the start are complete: moving picks and joins are in `Season`.
* In `Season` and `Boards` the worker applies a matchday in a step: partial bulks
  and rivals are in `Resolution`.
* In `Boards` founding a penka, pressing resolve and submitting a pick are one step
  each: what happens inside them is the subject of `Founding`, `Resolution` and
  `Season`, and a press that fails and gives its stamp back that of `Resolution`.
* In `Boards` the TTL is an expiry that may come at any moment and, for a key
  written with one, does come.
* In `Founding` one match stands for a matchday's; the two queries of the fast
  path are one read, since nothing is ever deleted and inserting again is safe.
  A penka that was left behind keeps its code; nobody frees it.
* In `Sessions` nobody logs out by hand (the store offers it, no view calls it),
  and an access token is only valid or not: fifteen minutes are long, so that one
  expires before the request it was fetched for is replayed is counted as a fault.
* In `PlayerApp` what the API would answer about a penka is its version, which
  rises; an answer carries what was so when it was served.
* In `OperatorConsole` a matchday has one match, and `queued` is a locked matchday
  with workers on it. A result and a resolve are checked and served in one step: the
  console only tells apart whether the results are complete, and a resolve that was
  served late would be queued late.
* In `WorkerProcess` what a handler does to the database, and how a retry is
  counted, is left to `Resolution`: any delivery of a command may be its last
  attempt, and a dead letter is a copy.

## 3. What the runs show

Run any of them with `tlc -config <run>.cfg <module>`; the module is named in
`PROJECT.json`, and follows from the prefix (`Res_` is `MCResolution`, `App_`
`MCPlayerApp`, and so on).

### Runs that pass

| Run | Properties | Instance | Shows |
|---|---|---|---|
| `Res_one_worker` | `ImplementsPromise`, `AtMostOnce`, `OneFanOut` | 2 penkas, 1 worker, 2 presses at 2 instants, a close, a result, one failure outside the effects | the pipeline implements `MatchdayResolution`; duplicate commands never move an entry twice; both presses name one instant |
| `Res_faults` | `MarkerMeansApplied`, `NoSiblingSkipped`, `CommandsAccountedFor` | a penka that exists and one being created, 1 worker, 1 press, any 2 of all the kinds of faults | a marker is never a lie, the flip follows the last marker, a queued command is never lost |
| `Res_live` | `TypeOK`, `QueuedIsResolved`, `QueueDrains` | 2 workers, 2 presses, an entry on its last life, 1 fault, fair | lives never go below zero although writes race; rivals do not block each other, a crash between the last marker and the flip does not strand the matchday, retries end |
| `Season_play` | `SeasonTypeOK`, `AccountsBalance`, `EliminatedOnce`, `JoinedInTimeFaces`, `PicksInOrder` | 1 player with one life, 2 matchdays, 1 submission and 1 close or result at a time, 2 instants | the season's books balance in any order of joins, closes, results, resolutions and picks, late closes and results included; no pick is stored past a matchday the worker has not recorded |
| `Board_builds` | `PastIsComplete`, `OwnBoardIsAfter` | 2 penkas, one founded at any moment, 2 matchdays, a worker for each penka | a board lacks an earlier matchday only if it was asked before its penka existed; a worker never caches a board from before its own resolution |
| `Board_live` | `BoardsTypeOK`, `SecretUntilLock`, `ResolutionReachesTheBoard` | 1 penka, 1 matchday, a board request and a worker, 2 instants, deploys, a slow cadence, fair | no board shows a pick early, though its status, its pick and its clock are of three moments; whatever a late builder stores, the resolution reaches every board in the end |
| `Found_play` | `FoundingTypeOK`, `CreatedIsPlayable`, `RefusedLeavesNothing`, `NextCreatorRepairs` | 2 creators, 1 joiner, 2 codes, 2 matchdays, any 2 failures, fair | what a 201 and a refusal mean, and how far the next creator repairs a calendar |
| `Sess_rotation` | `OneLivePair`, `StaysRefreshable`, `StorageFollows`, `OnlyFaultsSignOut` | 1 tab, 2 requests, 2 refresh calls, 4 pairs, any 2 of seven kinds of faults | whichever call wins and whichever write fails, a session has one way in at most, and keeps one its client was answered with unless a delete was done and reported as failed; requests refused together share one refresh; without a fault nobody is signed out |
| `App_tab` | `PlayerAppTypeOK`, `OwnBoard`, `SentWhereTapped`, `PolledWhileWatched`, `StayingCatchesUp` | 2 penkas, 1 user, 2 polls and a submission in flight, 1 failure or new version, fair | late answers never put another penka on the screen or send a pick elsewhere; the loop runs while somebody watches; whoever stays catches up |
| `Console_day` | `ShowsNothingAhead`, `MisledOnlyByStaleReads`, `SpinnerEnds` | 2 leagues of 2 matchdays, a link, 2 navigation reads, a watch of 2 attempts, 1 click or failure, fair | the screen never shows what the API had not reached, though closes are written after their check; it differs from the selection only through a read that failed or came late, and the watch ends |
| `Worker_life` | `WorkerTypeOK`, `NothingIsLost`, `CleanStop`, `StopEnds`, `WaitsOnlyForTheDeaf` | 2 workers, a command and a poison message, prefetch 1, any 4 events, fair | no command is lost (handled, queued, unacked or set aside), a stop cuts nothing off and ends, and the queue waits for nobody but workers that lost their consumer unnoticed |

### The run that finds a disagreement

`Res_v_crash_twice` checks `AtMostOnce` with a worker that may crash, and TLC finds
it violated: the worker dies between effects and marker, and the redelivery moves
the entry again. `findings` in `PROJECT.json` quotes the comments that say
otherwise. The other disagreements are told in section 5.

### Bounds, and why they are enough

* **One match, two teams** (`Resolution`). An entry sees only whether its team
  plays and wins; a matchday with more matches adds no other case, except "my match
  is decided and another one is not", which the engine answers as for one missing
  result.
* **Two penkas** are what a premature flip, a mixed screen or a wrong drop needs,
  **two workers**, **two presses**, **two creators** what a race needs.
* **`MaxTime`**: only "before or after the stamp" (the lock, the other creator's
  clock) matters, so two instants tell all the cases apart. `Board_builds`
  needs none, no picks and no board request: the lock by clock and the race of a
  request with a worker are `Board_live`'s question.
* **`MaxAttempts`**, **`MaxJoinCodeAttempts`**, **`ResolvePollAttempts`** stand for
  configured limits: what matters is whether an attempt is the last one.
* **`MaxFaults`**, **`MaxEvents`**: one or two reach a fault in the handling of a
  fault. Four in `Worker_life` reach a signal and two different breaks of one
  process together with a loss of the other.
* **Matchdays** 2: order needs two. `Board_live` has one, for what a late builder
  hides is one resolution, and the next is hidden in the same way. One life makes the island reachable in one.
* **`MaxPairs`** 4: a sign-in, two calls that race on its token, and one more
  rotation. Two refresh calls are one race; a third would lose like the second.
* **`MaxFetches`** 2 and **`MaxReads`** 2: an answer overtaken by another. A third
  fetch is overtaken the same way. **`Changing`** is the one penka the API ever has
  something newer for; the other one is there to be mistaken for it.
* **`Codes`** 2 for two creators: one code may collide until the attempts are used
  up, and both can succeed.
* **`LinkLeague`** None and **`LinkNumber`** 2: the matchday of the link is followed
  in a league the listing suggested, the later of two moments to be overtaken in.
* Bounded requests, pairs, calls and events end, so the `Res_*`, `Sess_*`,
  `Found_play`, `Console_day` and `Worker_life` runs say `CHECK_DEADLOCK FALSE`:
  these systems rest when nobody presses and nothing is in flight. The others check
  deadlock.

### Fairness

No fault is fair, and nobody has to press, close, score, create, join, tap or
navigate; time need not pass. What is weakly fair is what a running program does by
itself:

* `Resolution`: each press's next step once it has begun, and each worker: a running
  process keeps running, and a crashed one is restarted.
* `Boards`: a key with a TTL expires (Redis), and a request being answered goes on.
  Workers need not move: what reaches a board in the end does so through the TTL.
* `Founding`: a creation that is not cut off is carried through.
* `PlayerApp`: requests are answered, their answers handled, armed timers fire.
* `OperatorConsole`: the watch's timer fires and its own reads are answered.
* `WorkerProcess`: supervisors restart, handlers end, a stop goes on, and the broker
  delivers in order, so no command is overtaken for ever.

`Season` and `Sessions` check safety only. Strong fairness is nowhere assumed: such
a step stays enabled until it is taken, except a delivery, which another worker may
take instead, and then that worker makes the progress.

## 4. What is proved

Every safety property, every action property and the refinement that the runs
check is also a theorem: what TLC shows on the instances of section 3 holds for
any sets of penkas, entries, players, workers, requests, tabs and reads, any
calendar, any bounds and any set of fault kinds, except where a theorem names a
hypothesis. The theorems use the `ASSUME` of their modules and nothing else: constants
have their types, limits are not zero, a league has a matchday and a matchday a
match, a penka starts with one to three lives, the commands of `WorkerProcess` are
finitely many (it counts them), and what stands for "nothing" (`None`, `NoCode`,
`NoTeam`, `Pending`, `Failed`) is not one of the values it is told apart from. TLC
evaluates the assumptions in every run.

Each safety proof has the same shape. The property is seldom inductive, so an
invariant is found that is: it says what each process knows of the database at
each of its awaits, and which part of that nobody else can undo meanwhile. The
proof that a step keeps it has one lemma or step per action, and under it the
parts that the action can disturb. TLC checks each of these invariants, as an
extra invariant of a run, over the full state space of that run; the states are
in the table.

| Module | Inductive invariant | Checked on | Distinct states |
|---|---|---|---|
| `ResolutionProofs` | `MarkersTrustworthy`, `Accounted` | `Res_faults` | 279,556 |
| | those, `Once`, `Exact`, `AllStamped`, `Undisturbed` | `Res_one_worker` | 1,232,752 |
| `SeasonProofs` | `SeasonInv` | `Season_play` | 3,909,798 |
| `BoardsProofs` | `BoardsInv` | `Board_builds`, `Board_live` | 1,086,840 and 69,316 |
| `FoundingProofs` | `FoundingInv` | `Found_play` | 457,310 |
| `SessionsProofs` | `RotationSafe`, `WellUntilAFault` | `Sess_rotation` | 915,063 |
| `PlayerAppProofs` | `TabInv` | `App_tab` | 874,256 |
| `OperatorConsoleProofs` | `ConsoleInv` | `Console_day` | 779,866 |
| `WorkerProcessProofs` | `ProcessSafe` | `Worker_life` | 59,028 |

### `Resolution`: markers and flips

`Invariance`: `Spec => [](TypeOK /\ MarkersTrustworthy)`, whatever fails and
whoever races. `TypeCorrect`, `MarkerLast` and `FlipAfterAll` are the consequences
a reader wants: `[]TypeOK`, `[]MarkerMeansApplied`, `[]NoSiblingSkipped`.

`MarkerMeansApplied` is not inductive, for a worker about to insert a marker must
have written all the effects, and that depends on what it read.
`MarkersTrustworthy` adds what a worker knows at each point:

1. `FoundedStand`: a penka that existed at the start stays, with a creation
   instant no request precedes; so every finalizer counts it.
2. `EntriesRead`: no effects before the entries were read, and all of a founded
   penka's entries are among those read.
3. `EffectsWritten`: an effect that is no longer to do was written, unless a bulk
   failed. This is monotone (`hits` only grows, a label is never removed), so rivals
   cannot break it.
4. `ReadyToMark`: the marker is inserted only when nothing failed and nothing is
   left to do.
5. `CountComplete`: a finalizer waits for every founded penka and flips only
   when all it waits for are marked. Markers are never removed.

`TypeOK` comes first because the effects of a racing worker are computed on stale
reads: that lives stay natural numbers is the engine's absolute write
(`EntryUpdate` sets lives, never decrements), the lemmas `EffectTyped` and
`UpdateTyped`.

### `Resolution`: commands and presses

* `CommandsKept`: `Spec => []CommandsAccountedFor`, under every fault. A penka is
  settled when it has its marker, or its command is queued, set aside or in
  hand. `Accounted` says who could lose it: a worker that acks a founded penka
  has seen its marker or a resolved matchday, which `NoSiblingSkipped` turns
  into a marker (`KnowsFounded`); a press that says it queued has sent to all its
  targets (`SentSound`). `WorkerSettles` then says that no step of a worker, its
  crash included, leaves a settled penka unsettled.
* `OnlyClearSplits`: `Spec => [](OneFanOut \/ \E o \in Presses : GaveUp(o))`. Two
  answers name two instants only if a press that had claimed the stamp failed,
  and could take it back. It is about what the answers name, not about who
  publishes: a press that replays the stamp publishes next to the one that claimed
  it, and the duplicates are what the markers are for.
* `PressesAgree`: `Spec => []OneFanOut` if `"publish" \notin FaultKinds` and
  `Founded # {}`, the two ways in which a press takes its stamp back: a publish that
  failed, or a league without penkas. With three presses and a failed publish
  `OneFanOut` is false (section 5), so the theorem cannot say more.

### `Resolution`: at most once, and the promise

Two hypotheses name the environment in which the code keeps these promises.
`Uninterrupted`: one worker, which neither crashes nor has a write of its effects
or its marker refused. Without it `AtMostOnce` is false, which
`Res_v_crash_twice` shows; every other fault stays, so commands are still
redelivered, duplicated, retried and set aside.
`CalmStep`: a close writes only an open matchday, and a result is written only
while one is missing. The routes check this and write later
(`admin/routes.ts:288`, `:246`), so it is a hypothesis about when requests come.

* `MovedAtMostOnce`: under `Uninterrupted`, `Spec => []AtMostOnce`. `Once` adds
  that the worker works on a penka without marker (`WorksOnce`), and that an
  entry already moved has its marker, or a worker that is still applying and has
  it no longer to do (`MovedOnce`).
* `KeepsThePromise`: under `Uninterrupted` and `Founded = Penkas`,
  `Spec /\ [][CalmStep]_vars => ImplementsPromise`: `Resolution` implements
  `MatchdayResolution`, its entries shown as they were until their penka has its
  marker. `Exact` says that what the worker has read is still so when it matters
  (`SeesRight`), that what it has written is the engine's answer on the entry
  before the matchday (`WroteRight`), that what was not moved is untouched, and
  that markers exist only once the matchday is closed and complete.
  Then `InsertMarker` is the abstract resolution of one penka (`MarkResolves`),
  `Flip` is the abstract end, closes and results are themselves, and everything
  else stutters (`Stutters`, `PromiseStep`). `SameEngine` says that both
  specifications ask the same engine.
* `ImplementsMatchdayResolution`: the same without `CalmStep`, if there is at most
  one close and one result request, of a matchday that starts open and a result
  that starts missing (`OneOperatorEach`): then nobody is there to write behind
  the resolution's back. This is the environment of `Res_one_worker`.

`Founded = Penkas` leaves creations out: a penka stored between two presses is
commanded and then skipped (section 5), so it may be left behind by the flip.

### `Season`

From `SeasonInv`, `SeasonInvariance` proves `SeasonTypeCorrect`,
`AccountsAreBalanced`, `EliminatedOnceOnly`, `EveryoneInTimeFaces` and
`PicksComeInOrder`. The books do not balance
at every moment: entries and labels are two writes in any order, and `Ledger`
balances them always, by counting of the matchday at work exactly the write that
has come (`AccountedWins`). It needs that the engine was asked about the entries as
they still are (`EffectsSound`), that what is not recorded has left no trace
(`NoTraceBefore`), and that nobody who joined in time is missing from what the
worker read (`NobodyLate`). `EliminatedOnce` needs that an entry is alive exactly while it
has lives, and named by no matchday until then (`Standing`). `PicksInOrder` needs
that a submission which has read its matchday has seen all earlier ones resolved,
and that what was recorded stays recorded (`SubmissionsSound`). The status does
not: a close that passed its check before the flip puts resolved back to locked
while the submission is in flight, and what the theorem gives is the document of
the resolution, inserted before the flip and never removed. The lemma
`CurrentMatchdayIs` finds the least unresolved number by the well-foundedness of
the natural numbers (`LeastNumber`).

`MatchdayIsFair` is about the engine alone: one matchday costs an alive entry at
most one life, sends it to the island exactly at zero, never brings anybody back.

### `Boards`

From `BoardsInv`, `BoardsInvariance` proves `BoardsTypeCorrect`, `PicksAreSecret`,
`PastShown` and `OwnBoardShowsIt`. A board's status, pick, clock, entries and
markers are read at five moments. What is true of a build (`BuildSound`) is what
stays true: a matchday that was seen to leave "open" never returns to it, markers
are never removed, a penka that was asked stays asked, and the flip comes after the
marker of every penka that was asked (`FlippedLast`); so a matchday seen as resolved
has all those markers, and those before it too, and a late close that puts it back
to locked takes none away. A penka founded after a matchday was first asked has no
board with that matchday: `PastShown` speaks of what was asked of the penka. A clock taken too early only makes the
build more secretive. `JobSound` adds that a worker rebuilds for a matchday it has
marked.

About the engine: `GatesAgree`, a pick is refused as locked exactly when the board
would reveal the picks; `StandingsTotal` and `StandingsTransitive`, the ranking is a
strict total order, so the sort has one result.

### `Founding`

From `FoundingInv`, `FoundingInvariance` proves `FoundingTypeCorrect`,
`CreatedCanBePlayed` and `RefusedIsUndone`. `PenkaSound` says what a creation has
stored at each of its steps. `CalendarSound` says how far the creator's own
`insertMany` has got (all matchdays before any match). The last conjunct is the
reason for the exception in the
property: a calendar that has a match has them all, or somebody is, or stopped,
half way through them. Documents of a calendar are never deleted, so rivals
can only help.

### `Sessions`

`RotationInvariance` proves `OneSession` and `NeverStranded`, for several tabs too.
They pull in opposite directions: the route issues before it revokes so as never to
strand a client, and must still not leave two ways in. `OneLivePair` is not
inductive: it needs `HeldWereGranted` (a token anybody can
present was answered with) and `PairsInTheMaking` (a call's new pair is its own, not
yet granted, and of the session of the token it consumes). Then
who deletes the presented token may be granted its pair, for by `OneLivePair` that
token was the only one: the delete that finds the token is what grants the pair.
`NeverStranded` counts only tokens the API answered with. Its exception is the
sessions in `torn`: a call whose delete was done and reported as an error leaves a
new pair in the store that nobody was given, and the client with a token that is
gone (section 5). Every other step is an instance of one lemma, `RotationKept`.

Two theorems are about a browser with one tab (`OneTab`), as the properties are:
two tabs share one stored pair and each refreshes on its own, so with two both
are false.

* `ReloadFindsTheSession`: `Spec => []StorageFollows`, under every fault.
* `RefusalsKeepTheSession`: `Spec => OnlyFaultsSignOut`. The invariant
  (`WellUntilAFault`) speaks of the time before the first fault: the tab's call is
  the only one, its token is stored until it is granted another, nothing has
  expired, and what was just issued is accepted. So a refresh that nothing disturbs
  is granted, and no request that is replayed is refused a second time.

### `PlayerApp`

From `TabInv`, `TabInvariance` proves `PlayerAppTypeCorrect`, `BoardIsRoutes`,
`PickGoesWhereTapped` and `WatchedIsPolled`. `OnePenka` is what the late answers
meet: the board store points at the route's penka, the entry store and the draft at
it or at none, whoever moved. `CadenceKnown` is what the loop needs: a
board on screen has told its cadence to the loop, or to a fetch that waits for its
second answer, which will hand it over (`Handled`).

### `OperatorConsole`

From `ConsoleInv`, `ConsoleInvariance` proves `ConsoleTypeCorrect`,
`NothingIsAhead` and `OnlyStaleReadsMislead`. A late close may put a resolved
matchday back to locked, so "ahead" is about what a matchday has reached
(`HasReached`): it left "open", it was resolved at some time. What was reached is
reached for good (`MovesOn`). `AnswersAreBehind` says so of an answer in flight,
`DoneIsDone` that a write that was answered was done. `AlignedOrSought` strengthens the property to the moments
between: the selected matchday is on screen or a read of it is under way, until one
is lost or late.

### `WorkerProcess`

From `ProcessSafe`, `WorkerInvariance` proves `WorkerTypeCorrect`, `CommandsSurvive`
and `StopsClean`. That `Close` cuts nothing off rests on the order in
which the stop runs, and the limit on what a process works on
rests on the broker's count of what it waits for. `LinkAgrees` is
what a process and the broker agree on at each point of a life: as long as the
channel is open they count the same deliveries; a process that is closing has
none left and has stopped watching; one that is not down and whose channel is not
open was broken. Every step is then an instance of one of four lemmas: only the
process moves (`ProcessStep`), the link breaks (`LinkBroken`), deliveries move
(`DeliveryStep`), the process leaves (`ExitSafe`).

### Model-checked only

Liveness: `QueuedIsResolved`, `QueueDrains`, `ResolutionReachesTheBoard`,
`NextCreatorRepairs`, `StayingCatchesUp`, `SpinnerEnds`, `StopEnds` and
`WaitsOnlyForTheDeaf`. They rest on fairness, hence on `ENABLED`, which is out of
the prover's reach; their runs are the evidence. `MatchdayResolution` states no
fairness, so its refinement is a matter of safety and is proved.

## 5. What the checks say about the code

Under one worker process that is not interrupted between effects and marker, and
operators who do not race it, the pipeline is exactly-once, in the strict sense of
a refinement, which is proved. With crashes and rivals what survives, and is proved
too, is that markers and flips can be trusted and that no command is lost. What
does not survive is at-most-once: the marker follows the effects, so what it
guards against is a redelivery after it, not between (`Res_v_crash_twice`).

The board never gives a pick away, and lacks an earlier matchday only if that one
was asked before the penka existed, however its builders interleave. The clients recover from late answers, and
a worker's stop never costs a delivery.

What the models reach and no property forbids, for the code does nothing against
it:

**Resolution.**
A result passes its check before the resolution and is written after it
(`admin/routes.ts:246`): the standings and the results disagree. A close writes
locked over resolved (`:288`), so that the matchday is current again until it is
resolved once more; `Season`, `Boards` and `OperatorConsole` have both races too,
or the second. A penka stored between two presses is commanded and
then skipped, for `createdAt` precedes its insert. Two worker processes can write
for one penka at the same time, though `config.ts:22-24` argues from prefetch 1 that
"two commands for the same penka can never be in flight together". When the claimer's publish fails it clears a stamp another
press has replayed and been answered with, so a third press takes a later instant
(`admin/resolve.ts:36`; `Res_one_worker` has two presses, and the theorem
`OnlyClearSplits` says that this is the only way). A press that loses
the claim just before the stamp is cleared is told the matchday does not exist. The
comment on the command's schema says publishing precedes the stamp, and the route
does the opposite (for the reason `admin/resolve.ts` gives).

**Picks.**
A submission in flight replaces a pick that is already labelled. A submission
that reads the entry before a flip and the calendar after it is checked against
stale used teams, and a team scores twice. A submission that has passed its checks
is stored whatever happened since: after the lock, after the resolution, and, when a
late close has taken its predecessor back to locked, for a matchday that is no
longer the current one (`game/routes.ts:368`); its predecessor is resolved for the
penka all the same (`PicksInOrder`).

**Boards.**
A board built before a resolution may be stored after the worker's, and hide the
resolution for one TTL; `OwnBoardIsAfter` is about what the worker stores,
`ResolutionReachesTheBoard` about what is left in the end. A penka founded after a
matchday was resolved, or skipped between two presses, has no standings and no
history of it.

**Creation.**
Two creators of a fresh league may store the matchdays of one clock and the matches
of another, though `materialize.ts:29-30` has one of them win "for everyone". An insert of matches that was cut half way satisfies the fast path
(`materialize.ts:47`), so the league never gets its other matches: the exception
`cutShort` of `CreatedIsPlayable` and `NextCreatorRepairs`. The comment at
`materialize.ts:34` fears that a league is "stranded forever" and is right
about the cut between the collections only. A penka whose rollback failed, or
whose insert was done and reported as failed, keeps its code. A player may join a
penka that is then rolled back.

**Sessions.**
The refresh route consumes the presented token last, and its comment says "a failed
write leaves the presented token usable instead of stranding the client"
(`auth/routes.ts:144-145`). That is so of a write that was not done. A delete that
was done and reported as failed leaves the client with a deleted token and the store
with a pair nobody was given: the exception `torn` of `StaysRefreshable`. The same
happens to a client whose answer the network loses; there the pair counts as
granted. Two tabs refresh one stored session, and the one that is denied wipes the session
the other renewed; with two tabs `OnlyFaultsSignOut` fails. A refresh that fails
for want of a network signs the player out like a spent token (`stores/auth.ts:97`),
though the client's contract says it "resolves false when the refresh token is
spent" (`api/client.ts:44`).

**Player app.**
The answer to a submission, to a join or to a creation moves the player wherever he
has gone meanwhile, and the first also replaces the row on screen by that of
another penka until the next poll. A first fetch that fails leaves the loop
running with no timer, so that only leaving or hiding the tab polls again. A tab
hidden and shown again while a fetch is in flight starts another, though
`use-poll.ts:38-39` says a slow answer can "never stack requests". A row asked for
by the previous user of the same penka passes as the next one's
(`my-entry.ts:52` compares penkas only). A pick that is stored, and whose navigation
then fails because the route has no penka any more, is toasted as not confirmed
(`PickView.vue:181`).

**Console.**
A close that is written after the resolution takes a matchday back to locked, on the
console too. A read that failed or came late leaves one matchday on screen and another selected,
and the buttons act on the selected one: `MisledOnlyByStaleReads` names the only
way. A close whose answer lands after a remount shows its matchday without
matches, or with those of another, and the resolve button is then enabled without
results (the API refuses).

**Worker process.**
Only the connection's close is watched: a channel that the broker closes alone, or
a consumer it cancels, leaves a process that is up and consumes nothing, and
with all of them deaf the queue waits, which `lifecycle.ts:34-36` says is "the one thing this must not" let "pass
unnoticed". A signal that meets such a closed channel makes the cancel throw,
and the process leaves with 1, cutting off its handler.

## 6. Not modelled, and why

* Catalog, rate limits, wiring, configuration: no state of their own, or an
  external plugin's.
* The listing of penkas in the app, whose load in flight may overwrite the row a
  join has just added, until the next load; toasts and countdowns: one list or one
  timer each, read by nobody else.
* What the screens draw: standings, cards, the parity view.
* Passwords, the creation of an account and its rollback, `/me`: single calls
  around `Sessions`.
* The back office's listings, and the console's clock, listing and traffic feed:
  reads that move nothing, but for the league a mount suggests.
* Scripts (`scripts/`), the demo and the deployment files: they drive the routes
  modelled here.
* Lock by clock in `Resolution`: a matchday is resolved only after a close, so the
  clock gates picks and boards only, which `Season` and `Boards` model.

## 7. How to check

    tlasany M.tla
    tlc -workers 2 -config Res_faults.cfg MCResolution
    tlapm ResolutionProofs.tla

The longest runs, `Season_play` and `Console_day`, take two to three minutes with two
workers, and the longest proof, `ResolutionProofs`, four to five minutes.

## 8. Plan

Done: `GameRules`; `Resolution`, its properties and the refinement of
`MatchdayResolution`; `Season`; `Sessions`; `Boards`; `Founding`; `PlayerApp`;
`OperatorConsole`; `WorkerProcess`; a theorem for every safety and action property
and for the refinement.

To come, most important first:

1. The safety half of the liveness properties: that what each of them waits for
   can only come closer (attempts of a command only rise, what is marked stays
   marked, a stop never goes back), as theorems next to the properties that TLC
   checks.
2. The refinement for several workers that are not interrupted, as far as it
   holds: what two workers that write for one penka at a time leave behind.
3. The hazards that no property covers yet, where one can be stated of what the
   code still guarantees: what the API keeps for two tabs of one browser, and what
   a player sees after another one signed in on the same tab.
