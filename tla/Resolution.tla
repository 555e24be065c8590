----------------------------- MODULE Resolution ------------------------------
(***************************************************************************)
(* Resolving one matchday of one league, from the operator's press to the  *)
(* flip of the shared matchday.  Three kinds of process share a standalone *)
(* MongoDB (every read and every write is a step of its own, there are no  *)
(* transactions) and one RabbitMQ queue:                                   *)
(*                                                                         *)
(*   presses   POST .../resolve in apps/backoffice-api: claim the request  *)
(*             stamp, read the penkas, publish one command per penka, take *)
(*             the stamp back when the publish fails;                      *)
(*   operators POST .../close and POST .../result, read-then-write;        *)
(*   workers   apps/workers: gate, load, engine, effects, marker, finalize,*)
(*             ack - and the consumer's retry and dead-letter policy.      *)
(*                                                                         *)
(* Penkas are being created by apps/api meanwhile.  Board caches are left  *)
(* out: every failure to write one is swallowed and no step reads one.     *)
(***************************************************************************)
EXTENDS GameRules

CONSTANTS
  Penkas, Founded,     \* the league's penkas, and those that exist at the start
  Entries, Owner,      \* entries, and the penka of each
  Fixtures,            \* the matchday's matches, [home, away]
  IslandEnabled,       \* the setting of each penka
  Workers, Presses,    \* worker processes; resolve requests, each made once
  Closers, Scorers,    \* close and set-result requests, each made once
  StartStatus, StartOutcomes, StartEntries, StartPicks, \* the states Init may choose
  MaxAttempts,         \* config.maxAttempts of the worker
  MaxTime,             \* bound: the last instant of the clock
  FaultKinds, MaxFaults \* bound: which faults may happen, and how many in all

ASSUME ConstantsAssumption ==
  /\ Founded \subseteq Penkas
  /\ Owner \in [Entries -> Penkas]
  /\ IslandEnabled \in [Penkas -> BOOLEAN]
  /\ Fixtures \subseteq [home: Teams, away: Teams]
  /\ StartStatus \subseteq {"open", "locked"}
  /\ StartOutcomes \subseteq [Fixtures -> Outcomes \cup {NoOutcome}]
  /\ StartEntries \subseteq Entry
  /\ StartPicks \subseteq Teams \cup {NoTeam}
  /\ MaxAttempts \in Nat \ {0}
  /\ MaxTime \in Nat \ {0}
  /\ MaxFaults \in Nat

VARIABLES
  status,    \* matchdays.status
  stamp,     \* matchdays.resolveRequestedAt, NoStamp when absent
  outcome,   \* matches.outcome
  penka,     \* how far the creation of each penka has got
  created,   \* penkas.createdAt
  entries,   \* entries
  pick,      \* picks.teamCode of this matchday, NoTeam when there is none
  label,     \* picks.result
  marker,    \* resolutions: the penkas with a document for this matchday
  queue,     \* matchday.resolution, a bag of commands
  dead,      \* the commands in the dead-letter queue
  worker, press, closer, scorer, \* the state of each process
  now,       \* the clock every host reads
  faults,    \* faults so far
  hits,      \* history: how often the matchday was applied to each entry
  before     \* history: the entries before the matchday

calendar == <<status, stamp, outcome>>
founding == <<penka, created>>
game == <<entries, label, marker, hits>>
given == <<pick, before>>
broker == <<queue, dead>>
operators == <<closer, scorer>>
vars == <<calendar, founding, game, given, broker, worker, press, operators, now, faults>>

-----------------------------------------------------------------------------
(* Documents and messages. *)

NoStamp == 0
Instants == 1..MaxTime

Command == [penka: Penkas, at: Instants, attempt: 1..MaxAttempts]
NoCommand == [penka |-> "none", at |-> NoStamp, attempt |-> 0]

Matches(results) ==
  {[home |-> f.home, away |-> f.away, outcome |-> results[f]] : f \in Fixtures}

IsVisible(p) == penka[p] \in {"inserted", "live"}

(* penkas.find({ leagueId, createdAt: { $lte: at } }) *)
PenkasUpTo(at) == {p \in Penkas : IsVisible(p) /\ created[p] <= at}

EntriesIn(p) == {e \in Entries : Owner[e] = p /\ penka[p] = "live"}

NoEntry == [lives |-> 0, points |-> 0, status |-> "island", usedTeams |-> {}]

Reads == {"penka", "matchday", "matches", "entries"}

Unread == [found |-> FALSE, status |-> "open",
           outcome |-> [f \in Fixtures |-> NoOutcome],
           members |-> {}, entries |-> [e \in Entries |-> NoEntry]]

IdleWorker == [pc |-> "idle", msg |-> NoCommand, got |-> {}, seen |-> Unread,
               todoEntries |-> {}, todoPicks |-> {}, failed |-> FALSE, waiting |-> {}]

NewPress == [pc |-> "new", read |-> "open", at |-> NoStamp, claimed |-> FALSE,
             targets |-> {}, unsent |-> {}]

WorkerPcs == {"idle", "gate", "load", "apply", "mark", "findPenkas", "count", "flip",
              "ack", "retry", "confirm"}
PressPcs == {"new", "check", "claim", "join", "find", "send", "clear",
             "queued", "refused", "notFound", "failed"}
RequestPcs == {"new", "write", "done", "refused"}

WorkerState ==
  [pc: WorkerPcs, msg: Command \cup {NoCommand}, got: SUBSET Reads,
   seen: [found: BOOLEAN, status: Statuses,
          outcome: [Fixtures -> Outcomes \cup {NoOutcome}],
          members: SUBSET Entries, entries: [Entries -> Entry]],
   todoEntries: SUBSET Entries, todoPicks: SUBSET Entries,
   failed: BOOLEAN, waiting: SUBSET Penkas]

PressState ==
  [pc: PressPcs, read: Statuses, at: Instants \cup {NoStamp}, claimed: BOOLEAN,
   targets: SUBSET Penkas, unsent: SUBSET Penkas]

TypeOK ==
  /\ status \in Statuses
  /\ stamp \in Instants \cup {NoStamp}
  /\ outcome \in [Fixtures -> Outcomes \cup {NoOutcome}]
  /\ penka \in [Penkas -> {"new", "stamped", "inserted", "live", "gone"}]
  /\ created \in [Penkas -> Instants \cup {0}]
  /\ entries \in [Entries -> Entry]
  /\ pick \in [Entries -> Teams \cup {NoTeam}]
  /\ label \in [Entries -> Results]
  /\ marker \subseteq Penkas
  /\ queue \in [Command -> Nat]
  /\ dead \subseteq Command
  /\ worker \in [Workers -> WorkerState]
  /\ press \in [Presses -> PressState]
  /\ closer \in [Closers -> RequestPcs]
  /\ scorer \in [Scorers -> RequestPcs]
  /\ now \in Instants
  /\ faults \in 0..MaxFaults
  /\ hits \in [Entries -> Nat]
  /\ before \in [Entries -> Entry]

Init ==
  /\ status \in StartStatus
  /\ stamp = NoStamp
  /\ outcome \in StartOutcomes
  /\ penka = [p \in Penkas |-> IF p \in Founded THEN "live" ELSE "new"]
  /\ created = [p \in Penkas |-> 0]
  /\ entries \in [Entries -> StartEntries]
  /\ pick \in [Entries -> StartPicks]
  /\ label = [e \in Entries |-> "none"]
  /\ marker = {}
  /\ queue = [m \in Command |-> 0]
  /\ dead = {}
  /\ worker = [w \in Workers |-> IdleWorker]
  /\ press = [o \in Presses |-> NewPress]
  /\ closer = [c \in Closers |-> "new"]
  /\ scorer = [s \in Scorers |-> "new"]
  /\ now = 1
  /\ faults = 0
  /\ hits = [e \in Entries |-> 0]
  /\ before = entries

(* A fault of the given kind may still happen, and is counted. *)
Fault(kind) ==
  /\ kind \in FaultKinds
  /\ faults < MaxFaults
  /\ faults' = faults + 1

-----------------------------------------------------------------------------
(* The resolve route: one press of the operator's button. *)

PressBecomes(o, state) == press' = [press EXCEPT ![o] = state]

PressGoes(o, from, to) ==
  /\ press[o].pc = from
  /\ PressBecomes(o, [press[o] EXCEPT !.pc = to])

PressUnchanged == UNCHANGED <<founding, game, given, worker, operators, now>>

(* The matchday is read first, its matches in a second query. *)
PressLoad(o) ==
  /\ press[o].pc = "new"
  /\ PressBecomes(o, [press[o] EXCEPT !.pc = "check", !.read = status])
  /\ UNCHANGED <<calendar, broker, faults>> /\ PressUnchanged

PressCheck(o) ==
  /\ LET refused == Fixtures = {} \/ Rejection(press[o].read, Matches(outcome)) # "ok"
     IN  PressGoes(o, "check", IF refused THEN "refused" ELSE "claim")
  /\ UNCHANGED <<calendar, broker, faults>> /\ PressUnchanged

(* One conditional write: stamp the matchday unless it carries a stamp.    *)
Claim(o) ==
  /\ \/ /\ stamp = NoStamp
        /\ stamp' = now
        /\ press[o].pc = "claim"
        /\ PressBecomes(o, [press[o] EXCEPT !.pc = "find", !.at = now, !.claimed = TRUE])
     \/ /\ stamp # NoStamp
        /\ PressGoes(o, "claim", "join")
        /\ UNCHANGED stamp
  /\ UNCHANGED <<status, outcome, broker, faults>> /\ PressUnchanged

(* Mutation: a second press takes a fresh instant. *)
JoinAfresh(o) ==
  /\ press[o].pc = "join"
  /\ PressBecomes(o, [press[o] EXCEPT !.pc = "find", !.at = now])
  /\ UNCHANGED <<calendar, broker, faults>> /\ PressUnchanged

(* Somebody else stamped it: replay that stamp, read in a second query.    *)
Join(o) ==
  /\ press[o].pc = "join"
  /\ \/ stamp = NoStamp /\ PressGoes(o, "join", "notFound")
     \/ stamp # NoStamp /\ PressBecomes(o, [press[o] EXCEPT !.pc = "find", !.at = stamp])
  /\ UNCHANGED <<calendar, broker, faults>> /\ PressUnchanged

FindPenkas(o) ==
  /\ press[o].pc = "find"
  /\ LET targets == PenkasUpTo(press[o].at)
         to == IF targets # {} THEN "send"
               ELSE IF press[o].claimed THEN "clear" ELSE "failed"
     IN  PressBecomes(o, [press[o] EXCEPT !.pc = to, !.targets = targets, !.unsent = targets])
  /\ UNCHANGED <<calendar, broker, faults>> /\ PressUnchanged

(* The broker takes the commands one by one; workers may start on them.    *)
Send(o, p) ==
  /\ press[o].pc = "send"
  /\ p \in press[o].unsent
  /\ PressBecomes(o, [press[o] EXCEPT !.unsent = @ \ {p}])
  /\ queue' = [queue EXCEPT ![[penka |-> p, at |-> press[o].at, attempt |-> 1]] = @ + 1]
  /\ UNCHANGED <<calendar, dead, faults>> /\ PressUnchanged

(* Mutation: the route answers without waiting for the broker's confirms. *)
ConfirmEarly(o) ==
  /\ PressGoes(o, "send", "queued")
  /\ UNCHANGED <<calendar, broker, faults>> /\ PressUnchanged

Confirm(o) ==
  /\ press[o].unsent = {}
  /\ PressGoes(o, "send", "queued")
  /\ UNCHANGED <<calendar, broker, faults>> /\ PressUnchanged

(* The batch is not confirmed, however much of it reached the broker.      *)
PublishFails(o) ==
  /\ Fault("publish")
  /\ press[o].pc = "send"
  /\ PressBecomes(o, [press[o] EXCEPT !.pc = IF press[o].claimed THEN "clear" ELSE "failed",
                            !.unsent = {}])
  /\ UNCHANGED <<calendar, broker>> /\ PressUnchanged

(* clearResolveRequest: unset the stamp, whoever relies on it by now.      *)
Clear(o) ==
  /\ PressGoes(o, "clear", "failed")
  /\ \/ stamp' = NoStamp /\ UNCHANGED faults
     \/ Fault("clear") /\ UNCHANGED stamp
  /\ UNCHANGED <<status, outcome, broker>> /\ PressUnchanged

(* The back office dies with the request half done. *)
PressCrash(o) ==
  /\ Fault("pressCrash")
  /\ press[o].pc \in {"check", "claim", "join", "find", "send", "clear"}
  /\ PressBecomes(o, [press[o] EXCEPT !.pc = "failed", !.unsent = {}])
  /\ UNCHANGED <<calendar, broker>> /\ PressUnchanged

PressContinues(o) ==
  \/ PressCheck(o) \/ Claim(o) \/ Join(o) \/ FindPenkas(o)
  \/ \E p \in Penkas : Send(o, p)
  \/ Confirm(o) \/ Clear(o)

-----------------------------------------------------------------------------
(* The other operator requests: the status is read, then a write follows   *)
(* that does not look at it again.                                         *)

RequestLoads(request, r) ==
  /\ request[r] = "new"
  /\ request' = [request EXCEPT ![r] = IF status = "resolved" THEN "refused" ELSE "write"]

RequestWrites(request, r) == request[r] = "write" /\ request' = [request EXCEPT ![r] = "done"]

OperatorUnchanged == UNCHANGED <<stamp, founding, game, given, broker, worker, press, now, faults>>

CloseLoad(c) ==
  /\ RequestLoads(closer, c)
  /\ UNCHANGED <<status, outcome, scorer>> /\ OperatorUnchanged

CloseWrite(c) ==
  /\ RequestWrites(closer, c)
  /\ status' = "locked"
  /\ UNCHANGED <<outcome, scorer>> /\ OperatorUnchanged

SetResultLoad(s) ==
  /\ RequestLoads(scorer, s)
  /\ UNCHANGED <<status, outcome, closer>> /\ OperatorUnchanged

SetResultWrite(s) ==
  /\ RequestWrites(scorer, s)
  /\ \E f \in Fixtures, result \in Outcomes : outcome' = [outcome EXCEPT ![f] = result]
  /\ UNCHANGED <<status, closer>> /\ OperatorUnchanged

-----------------------------------------------------------------------------
(* POST /penkas in apps/api: createdAt is taken before the document is     *)
(* inserted, the creator's entry follows, and a failure rolls the penka    *)
(* back.                                                                   *)

CreationGoes(p, from, to) == penka[p] = from /\ penka' = [penka EXCEPT ![p] = to]

CreationUnchanged == UNCHANGED <<calendar, game, given, broker, worker, press, operators, now>>

StampPenka(p) ==
  /\ CreationGoes(p, "new", "stamped")
  /\ created' = [created EXCEPT ![p] = now]
  /\ UNCHANGED faults /\ CreationUnchanged

InsertPenka(p) ==
  /\ CreationGoes(p, "stamped", "inserted")
  /\ UNCHANGED <<created, faults>> /\ CreationUnchanged

EnsureEntry(p) ==
  /\ CreationGoes(p, "inserted", "live")
  /\ UNCHANGED <<created, faults>> /\ CreationUnchanged

DiscardPenka(p) ==
  /\ Fault("create")
  /\ CreationGoes(p, "inserted", "gone")
  /\ UNCHANGED created /\ CreationUnchanged

Tick ==
  /\ now < MaxTime
  /\ now' = now + 1
  /\ UNCHANGED <<calendar, founding, game, given, broker, worker, press, operators, faults>>
-----------------------------------------------------------------------------
(* The worker: one delivery at a time (prefetch 1), one action per read,   *)
(* write or broker call.  A worker whose handler is over keeps only its    *)
(* message.                                                                *)

MsgPenka(w) == worker[w].msg.penka

WorkerBecomes(w, state) == worker' = [worker EXCEPT ![w] = state]

HandlerOver(w, to) ==
  WorkerBecomes(w, [IdleWorker EXCEPT !.pc = to, !.msg = worker[w].msg])

WorkerGoes(w, to) == WorkerBecomes(w, [worker[w] EXCEPT !.pc = to])

WorkerUnchanged == UNCHANGED <<stamp, outcome, founding, given, press, operators, now>>

Deliver(w) ==
  /\ worker[w].pc = "idle"
  /\ \E m \in Command :
       /\ queue[m] > 0
       /\ queue' = [queue EXCEPT ![m] = @ - 1]
       /\ WorkerBecomes(w, [worker[w] EXCEPT !.pc = "gate", !.msg = m])
  /\ UNCHANGED <<status, game, dead, faults>> /\ WorkerUnchanged

(* Mutation: no gate. *)
GateAlwaysLoads(w) ==
  /\ worker[w].pc = "gate"
  /\ WorkerGoes(w, "load")
  /\ UNCHANGED <<status, game, broker, faults>> /\ WorkerUnchanged

(* Mutation: a marked penka is acked without settling the shared matchday. *)
GateReturns(w) ==
  /\ worker[w].pc = "gate"
  /\ WorkerGoes(w, IF MsgPenka(w) \in marker THEN "ack" ELSE "load")
  /\ UNCHANGED <<status, game, broker, faults>> /\ WorkerUnchanged

(* A marked penka is not touched again, but the shared matchday is settled. *)
Gate(w) ==
  /\ worker[w].pc = "gate"
  /\ WorkerGoes(w, IF MsgPenka(w) \in marker THEN "findPenkas" ELSE "load")
  /\ UNCHANGED <<status, game, broker, faults>> /\ WorkerUnchanged

(* loadResolutionState: four parallel reads that land in any order.        *)
Read(w, what) ==
  /\ worker[w].pc = "load"
  /\ what \notin worker[w].got
  /\ LET old == worker[w].seen
         new == CASE what = "penka" -> [old EXCEPT !.found = IsVisible(MsgPenka(w))]
                  [] what = "matchday" -> [old EXCEPT !.status = status]
                  [] what = "matches" -> [old EXCEPT !.outcome = outcome]
                  [] OTHER -> LET members == EntriesIn(MsgPenka(w)) IN
                       [old EXCEPT !.members = members,
                                   !.entries = [e \in Entries |->
                                     IF e \in members THEN entries[e] ELSE NoEntry]]
     IN  WorkerBecomes(w, [worker[w] EXCEPT !.got = @ \cup {what}, !.seen = new])
  /\ UNCHANGED <<status, game, broker, faults>> /\ WorkerUnchanged

(* The picks are read last (they no longer change here) and the engine     *)
(* answers: nothing to do, not yet, or an effect for every entry read.     *)
Decide(w) ==
  /\ worker[w].pc = "load"
  /\ worker[w].got = Reads
  /\ LET seen == worker[w].seen
         answer == Rejection(seen.status, Matches(seen.outcome))
     IN  \/ /\ ~seen.found \/ answer = "already_resolved"
            /\ HandlerOver(w, "ack")
         \/ /\ seen.found /\ answer \in {"matchday_not_locked", "results_missing"}
            /\ HandlerOver(w, "retry")
         \/ /\ seen.found /\ answer = "ok"
            /\ WorkerBecomes(w, [worker[w] EXCEPT !.pc = "apply",
                                        !.todoEntries = seen.members,
                                        !.todoPicks = seen.members])
  /\ UNCHANGED <<status, game, broker, faults>> /\ WorkerUnchanged

(* The effect the engine computed for entry e from what this worker read.  *)
EffectOn(w, e) ==
  EntryEffect(worker[w].seen.entries[e], pick[e], Matches(worker[w].seen.outcome),
              IslandEnabled[MsgPenka(w)])

(* The two bulk writes run in parallel, one document after another.        *)
WriteEntry(w, e) ==
  /\ worker[w].pc = "apply"
  /\ e \in worker[w].todoEntries
  /\ entries' = [entries EXCEPT ![e] = EntryUpdate(@, EffectOn(w, e))]
  /\ hits' = [hits EXCEPT ![e] = @ + 1]
  /\ WorkerBecomes(w, [worker[w] EXCEPT !.todoEntries = @ \ {e}])
  /\ UNCHANGED <<status, label, marker, broker, faults>> /\ WorkerUnchanged

(* An entry that never picked has no document to label. *)
WritePick(w, e) ==
  /\ worker[w].pc = "apply"
  /\ e \in worker[w].todoPicks
  /\ label' = IF pick[e] = NoTeam THEN label
              ELSE [label EXCEPT ![e] = PickResultOf(EffectOn(w, e))]
  /\ WorkerBecomes(w, [worker[w] EXCEPT !.todoPicks = @ \ {e}])
  /\ UNCHANGED <<status, entries, marker, hits, broker, faults>> /\ WorkerUnchanged

(* One bulk write is rejected; the documents before the error were written. *)
BulkFails(w) ==
  /\ Fault("apply")
  /\ worker[w].pc = "apply"
  /\ \/ WorkerBecomes(w, [worker[w] EXCEPT !.failed = TRUE, !.todoEntries = {}])
     \/ WorkerBecomes(w, [worker[w] EXCEPT !.failed = TRUE, !.todoPicks = {}])
  /\ UNCHANGED <<status, game, broker>> /\ WorkerUnchanged

(* Mutation: a rejected bulk write goes unnoticed. *)
BulksSettleUnchecked(w) ==
  /\ worker[w].pc = "apply"
  /\ worker[w].todoEntries = {} /\ worker[w].todoPicks = {}
  /\ WorkerGoes(w, "mark")
  /\ UNCHANGED <<status, game, broker, faults>> /\ WorkerUnchanged

(* Mutation: the marker does not wait for the labels. *)
BulksSettleEntriesOnly(w) ==
  /\ worker[w].pc = "apply"
  /\ worker[w].todoEntries = {}
  /\ IF worker[w].failed THEN HandlerOver(w, "retry") ELSE WorkerGoes(w, "mark")
  /\ UNCHANGED <<status, game, broker, faults>> /\ WorkerUnchanged

BulksSettle(w) ==
  /\ worker[w].pc = "apply"
  /\ worker[w].todoEntries = {} /\ worker[w].todoPicks = {}
  /\ IF worker[w].failed THEN HandlerOver(w, "retry") ELSE WorkerGoes(w, "mark")
  /\ UNCHANGED <<status, game, broker, faults>> /\ WorkerUnchanged

(* The resolution document goes in last, under a unique index.             *)
InsertMarker(w) ==
  /\ worker[w].pc = "mark"
  /\ marker' = marker \cup {MsgPenka(w)}
  /\ HandlerOver(w, IF MsgPenka(w) \in marker THEN "retry" ELSE "findPenkas")
  /\ UNCHANGED <<status, entries, label, hits, broker, faults>> /\ WorkerUnchanged

(* The insert reports an error, whether or not the document was stored.    *)
MarkerFails(w) ==
  /\ Fault("marker")
  /\ worker[w].pc = "mark"
  /\ marker' \in {marker, marker \cup {MsgPenka(w)}}
  /\ HandlerOver(w, "retry")
  /\ UNCHANGED <<status, entries, label, hits, broker>> /\ WorkerUnchanged

(* A read of the gate or of the load fails: the handler throws.            *)
ReadFails(w) ==
  /\ Fault("read")
  /\ worker[w].pc \in {"gate", "load"}
  /\ HandlerOver(w, "retry")
  /\ UNCHANGED <<status, game, broker>> /\ WorkerUnchanged

(* finalizeMatchday: find the penkas of the fan-out, count their markers,  *)
(* and flip the matchday if it is locked.                                  *)
FindWaiting(w) ==
  /\ worker[w].pc = "findPenkas"
  /\ LET waiting == PenkasUpTo(worker[w].msg.at)
     IN  IF waiting = {} THEN WorkerGoes(w, "ack")
         ELSE WorkerBecomes(w, [worker[w] EXCEPT !.pc = "count", !.waiting = waiting])
  /\ UNCHANGED <<status, game, broker, faults>> /\ WorkerUnchanged

(* Mutation: off by one, the last penka is not waited for. *)
CountAllButOne(w) ==
  /\ worker[w].pc = "count"
  /\ IF \E p \in worker[w].waiting : worker[w].waiting \ {p} \subseteq marker
     THEN WorkerGoes(w, "flip") ELSE HandlerOver(w, "ack")
  /\ UNCHANGED <<status, game, broker, faults>> /\ WorkerUnchanged

Count(w) ==
  /\ worker[w].pc = "count"
  /\ IF worker[w].waiting \subseteq marker THEN WorkerGoes(w, "flip") ELSE HandlerOver(w, "ack")
  /\ UNCHANGED <<status, game, broker, faults>> /\ WorkerUnchanged

Flip(w) ==
  /\ worker[w].pc = "flip"
  /\ status' = IF status = "locked" THEN "resolved" ELSE status
  /\ HandlerOver(w, "ack")
  /\ UNCHANGED <<game, broker, faults>> /\ WorkerUnchanged

(* Any failure of finalizeMatchday is swallowed. *)
FinalizeFails(w) ==
  /\ Fault("finalize")
  /\ worker[w].pc \in {"findPenkas", "count", "flip"}
  /\ HandlerOver(w, "ack")
  /\ UNCHANGED <<status, game, broker>> /\ WorkerUnchanged

-----------------------------------------------------------------------------
(* The consumer's answer to a delivery. *)

BackInQueue(m) == queue' = [queue EXCEPT ![m] = @ + 1]

NextAttempt(m) == [m EXCEPT !.attempt = @ + 1]

Ack(w) ==
  /\ worker[w].pc \in {"ack", "confirm"}
  /\ WorkerBecomes(w, IdleWorker)
  /\ UNCHANGED <<status, game, broker, faults>> /\ WorkerUnchanged

(* Mutation: off by one, the last attempt is answered by nobody. *)
DeadLetterLate(w) ==
  /\ worker[w].pc = "retry"
  /\ worker[w].msg.attempt > MaxAttempts
  /\ dead' = dead \cup {worker[w].msg}
  /\ WorkerBecomes(w, IdleWorker)
  /\ UNCHANGED <<status, game, queue, faults>> /\ WorkerUnchanged

DeadLetter(w) ==
  /\ worker[w].pc = "retry"
  /\ worker[w].msg.attempt >= MaxAttempts
  /\ dead' = dead \cup {worker[w].msg}
  /\ WorkerBecomes(w, IdleWorker)
  /\ UNCHANGED <<status, game, queue, faults>> /\ WorkerUnchanged

(* The counted copy goes out first; the delivery is acked once confirmed.  *)
Republish(w) ==
  /\ worker[w].pc = "retry"
  /\ worker[w].msg.attempt < MaxAttempts
  /\ BackInQueue(NextAttempt(worker[w].msg))
  /\ WorkerGoes(w, "confirm")
  /\ UNCHANGED <<status, game, dead, faults>> /\ WorkerUnchanged

(* No confirm, whether or not the copy arrived: requeue uncounted.         *)
RepublishFails(w) ==
  /\ Fault("republish")
  /\ \/ worker[w].pc = "retry" /\ worker[w].msg.attempt < MaxAttempts
     \/ worker[w].pc = "confirm"
  /\ BackInQueue(worker[w].msg)
  /\ WorkerBecomes(w, IdleWorker)
  /\ UNCHANGED <<status, game, dead>> /\ WorkerUnchanged

(* The process dies (a lost connection exits it too) and is restarted; the *)
(* broker redelivers what it had not acked.                                *)
WorkerCrash(w) ==
  /\ Fault("crash")
  /\ worker[w].pc # "idle"
  /\ BackInQueue(worker[w].msg)
  /\ WorkerBecomes(w, IdleWorker)
  /\ UNCHANGED <<status, game, dead>> /\ WorkerUnchanged

WorkerStep(w) ==
  \/ Deliver(w) \/ Gate(w) \/ Decide(w) \/ BulksSettle(w) \/ InsertMarker(w)
  \/ \E what \in Reads : Read(w, what)
  \/ \E e \in Entries : WriteEntry(w, e) \/ WritePick(w, e)
  \/ FindWaiting(w) \/ Count(w) \/ Flip(w)
  \/ Ack(w) \/ DeadLetter(w) \/ Republish(w)

WorkerFault(w) ==
  \/ BulkFails(w) \/ MarkerFails(w) \/ ReadFails(w) \/ FinalizeFails(w)
  \/ RepublishFails(w) \/ WorkerCrash(w)

-----------------------------------------------------------------------------
Next ==
  \/ \E o \in Presses : PressLoad(o) \/ PressContinues(o) \/ PublishFails(o) \/ PressCrash(o)
  \/ \E c \in Closers : CloseLoad(c) \/ CloseWrite(c)
  \/ \E s \in Scorers : SetResultLoad(s) \/ SetResultWrite(s)
  \/ \E p \in Penkas : StampPenka(p) \/ InsertPenka(p) \/ EnsureEntry(p) \/ DiscardPenka(p)
  \/ \E w \in Workers : WorkerStep(w) \/ WorkerFault(w)
  \/ Tick

Spec == Init /\ [][Next]_vars

(* The processes keep running once they have begun; nobody has to press,   *)
(* close, score or create, no fault has to happen, and time need not pass. *)
Fairness ==
  /\ \A o \in Presses : WF_vars(PressContinues(o))
  /\ \A w \in Workers : WF_vars(WorkerStep(w))

FairSpec == Spec /\ Fairness
=============================================================================
