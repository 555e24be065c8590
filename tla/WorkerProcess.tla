---------------------------- MODULE WorkerProcess ----------------------------
(***************************************************************************)
(* The life of a resolution worker (apps/workers: index.ts, worker.ts,     *)
(* messaging/lifecycle.ts, the consuming half of messaging/consumer.ts):   *)
(* boot, deliveries, signals and a graceful stop, and a link to the broker *)
(* that breaks in three different ways.  What a handler does to the        *)
(* database, and how its attempts are counted, is the subject of           *)
(* Resolution: here any delivery of a command may be its last attempt, and *)
(* the copies of one command are not told apart.                           *)
(*                                                                         *)
(* A process leaves by process.exit and its supervisor starts another.     *)
(***************************************************************************)
EXTENDS Integers, FiniteSets

CONSTANTS
  Workers,
  Commands,  \* commands published, each once
  Poison,    \* those whose body is no command
  Prefetch,  \* config.prefetch
  MaxEvents  \* bound: broken links, lost processes, signals, commands put back

ASSUME WorkerProcessAssumption ==
  /\ IsFiniteSet(Commands) /\ Poison \subseteq Commands
  /\ Prefetch \in Nat \ {0} /\ MaxEvents \in Nat

VARIABLES
  queue,     \* matchday.resolution: the commands ready for delivery
  dead,      \* matchday.resolution.dlq
  published, \* history: what was ever published
  handled,   \* history: the commands a handler applied or skipped
  unacked,   \* broker: deliveries of the worker's channel that are not answered
  inFlight,  \* consumer.ts: the deliveries the process is working on
  proc,      \* the process and its link
  cut,       \* history: how processes left with a handler running
  events     \* history: the events so far

broker == <<queue, dead, published>>
history == <<handled, cut>>
vars == <<broker, unacked, inFlight, proc, history, events>>

Phases == {"down", "booting", "running", "cancelling", "draining", "closing"}
Down == [phase |-> "down", channel |-> "none", consumer |-> FALSE, watching |-> FALSE,
         broken |-> FALSE, code |-> 0]

WorkerTypeOK ==
  /\ queue \subseteq Commands /\ dead \subseteq Commands
  /\ published \subseteq Commands /\ handled \subseteq Commands
  /\ proc \in [Workers -> [phase: Phases, channel: {"none", "open", "closed", "lost"},
                           consumer: BOOLEAN, watching: BOOLEAN, broken: BOOLEAN, code: {0, 1}]]
  /\ inFlight \in [Workers -> SUBSET Commands] /\ unacked \in [Workers -> SUBSET Commands]
  /\ \A w \in Workers :
       /\ Cardinality(inFlight[w]) <= Prefetch /\ unacked[w] \subseteq inFlight[w]
       /\ proc[w].consumer => proc[w].channel = "open"
  /\ events \in 0..MaxEvents

Init ==
  /\ queue = {} /\ dead = {} /\ published = {} /\ handled = {}
  /\ unacked = [w \in Workers |-> {}] /\ inFlight = [w \in Workers |-> {}]
  /\ proc = [w \in Workers |-> Down]
  /\ cut = {} /\ events = 0

(* The broker takes the answer to a delivery it still waits for.           *)
Answered(w, c) == c \in unacked[w]

Event == events < MaxEvents /\ events' = events + 1
Becomes(w, state) == proc' = [proc EXCEPT ![w] = state]

(* The broker puts back what a closed channel never answered.              *)
Requeue(w) ==
  /\ queue' = queue \cup unacked[w]
  /\ unacked' = [unacked EXCEPT ![w] = {}]
  /\ UNCHANGED <<dead, published>>

(* What a process may leave for without its link having been broken first. *)
Failures == {"lost", "killed", "close failed"}

(* process.exit: whatever was running is cut off where it was.             *)
Exit(w, how) ==
  /\ Becomes(w, [Down EXCEPT !.broken = proc[w].broken \/ how \in Failures,
                             !.code = IF how = "stopped" THEN 0 ELSE 1])
  /\ inFlight' = [inFlight EXCEPT ![w] = {}]
  /\ cut' = IF inFlight[w] = {} THEN cut ELSE cut \cup {how}
  /\ Requeue(w)
  /\ UNCHANGED handled

-----------------------------------------------------------------------------
(* Booting. *)

LinkOnly == UNCHANGED <<broker, unacked, inFlight, history>>

(* The supervisor starts a process, which connects, declares the topology  *)
(* and attaches the watcher; until it consumes it only needs to be alive.  *)
Boot(w) ==
  /\ proc[w].phase = "down"
  /\ Becomes(w, [Down EXCEPT !.phase = "booting", !.channel = "open", !.watching = TRUE])
  /\ UNCHANGED events /\ LinkOnly

Consume(w) ==
  /\ proc[w].phase = "booting"
  /\ Becomes(w, [proc[w] EXCEPT !.phase = "running", !.consumer = TRUE])
  /\ UNCHANGED events /\ LinkOnly

(* A configuration that does not load, a connection refused, a topology    *)
(* that disagrees, or a signal before any handler is attached.             *)
BootFails(w) ==
  /\ proc[w].phase = "booting"
  /\ Becomes(w, [Down EXCEPT !.broken = TRUE, !.code = 1])
  /\ Event /\ LinkOnly

-----------------------------------------------------------------------------
(* Consuming. *)

Publish(c) ==
  /\ c \notin published
  /\ published' = published \cup {c} /\ queue' = queue \cup {c}
  /\ UNCHANGED <<dead, unacked, inFlight, proc, history, events>>

(* Mutation: noAck, the broker forgets what it delivers. *)
DeliverForgotten(w, c) ==
  /\ proc[w].consumer /\ c \in queue /\ Cardinality(inFlight[w]) < Prefetch
  /\ queue' = queue \ {c}
  /\ inFlight' = [inFlight EXCEPT ![w] = @ \cup {c}]
  /\ UNCHANGED <<dead, published, unacked, proc, history, events>>

Deliver(w, c) ==
  /\ proc[w].consumer /\ c \in queue /\ Cardinality(unacked[w]) < Prefetch
  /\ queue' = queue \ {c}
  /\ unacked' = [unacked EXCEPT ![w] = @ \cup {c}]
  /\ inFlight' = [inFlight EXCEPT ![w] = @ \cup {c}]
  /\ UNCHANGED <<dead, published, proc, history, events>>

(* parseCommand: a body that will never become valid is told at once.      *)
IsCommand(c) == c \notin Poison

(* Mutation: an answer that fails leaves the delivery among those awaited. *)
SettledIfAnswered(w, c) ==
  /\ c \in inFlight[w]
  /\ unacked' = [unacked EXCEPT ![w] = @ \ {c}]
  /\ inFlight' = [inFlight EXCEPT ![w] = IF Answered(w, c) THEN @ \ {c} ELSE @]

(* The handler has ended and the delivery is answered.  On a closed        *)
(* channel the answer throws, is logged, and the delivery is no longer     *)
(* awaited all the same.                                                   *)
Settled(w, c) ==
  /\ c \in inFlight[w]
  /\ unacked' = [unacked EXCEPT ![w] = @ \ {c}]
  /\ inFlight' = [inFlight EXCEPT ![w] = @ \ {c}]

(* A command was applied, or skipped on purpose: ack. *)
Finish(w, c) ==
  /\ IsCommand(c)
  /\ Settled(w, c)
  /\ handled' = handled \cup {c}
  /\ UNCHANGED <<queue, dead, published, proc, cut, events>>

(* It was no command, or its last attempt failed: nack without requeue.    *)
DeadLetter(w, c) ==
  /\ Settled(w, c)
  /\ dead' = IF Answered(w, c) THEN dead \cup {c} ELSE dead
  /\ UNCHANGED <<queue, published, handled, proc, cut, events>>

(* An attempt failed and is back in the queue: republished on a channel of *)
(* its own with one more attempt, or requeued uncounted because the broker *)
(* did not take the copy.  Without the consuming channel only the copy can *)
(* go through, and without the connection neither.                         *)
PutBack(w, c) ==
  /\ IsCommand(c)
  /\ Settled(w, c)
  /\ \/ proc[w].channel # "lost" /\ queue' = queue \cup {c}
     \/ ~Answered(w, c) /\ UNCHANGED queue
  /\ Event
  /\ UNCHANGED <<dead, published, proc, history>>

Ends(w, c) == Finish(w, c) \/ DeadLetter(w, c) \/ PutBack(w, c)

-----------------------------------------------------------------------------
(* What happens to the link. *)

Up(w) == proc[w].phase \notin {"down", "booting"}

(* Mutation: the process opens another channel and goes on consuming.      *)
ChannelErrorReopens(w) ==
  /\ Up(w) /\ proc[w].channel = "open"
  /\ Becomes(w, [proc[w] EXCEPT !.broken = TRUE])
  /\ Requeue(w)
  /\ Event
  /\ UNCHANGED <<inFlight, history>>

(* The broker closes the consuming channel and keeps the connection.  The  *)
(* error is logged, and nothing else in the process knows.                 *)
ChannelError(w) ==
  /\ Up(w) /\ proc[w].channel = "open"
  /\ Becomes(w, [proc[w] EXCEPT !.channel = "closed", !.consumer = FALSE, !.broken = TRUE])
  /\ Requeue(w)
  /\ Event
  /\ UNCHANGED <<inFlight, history>>

(* The broker cancels the consumer: a null delivery, which is ignored.     *)
ConsumerCancelled(w) ==
  /\ Up(w) /\ proc[w].consumer
  /\ Becomes(w, [proc[w] EXCEPT !.consumer = FALSE, !.broken = TRUE])
  /\ Event
  /\ LinkOnly

(* Mutation: the close of the connection is only logged. *)
ConnectionLostUnreported(w) ==
  /\ Up(w) /\ proc[w].channel \in {"open", "closed"}
  /\ Becomes(w, [proc[w] EXCEPT !.channel = "lost", !.consumer = FALSE, !.broken = TRUE])
  /\ Requeue(w) /\ UNCHANGED <<inFlight, history>>
  /\ Event

(* The connection closes on its own: onBrokerLost exits, unless the worker *)
(* had stopped watching because it is closing the connection itself.       *)
ConnectionLost(w) ==
  /\ Up(w) /\ proc[w].channel \in {"open", "closed"}
  /\ IF proc[w].watching
     THEN Exit(w, "lost")
     ELSE /\ Becomes(w, [proc[w] EXCEPT !.channel = "lost", !.consumer = FALSE, !.broken = TRUE])
          /\ Requeue(w) /\ UNCHANGED <<inFlight, history>>
  /\ Event

(* SIGKILL, out of memory, the host. *)
Killed(w) ==
  /\ Up(w)
  /\ Exit(w, "killed")
  /\ Event

-----------------------------------------------------------------------------
(* SIGTERM or SIGINT: stop taking work, finish what is in flight, close.   *)

(* The first signal asks the broker to cancel; another one is ignored.     *)
Signal(w) ==
  /\ proc[w].phase = "running"
  /\ Becomes(w, [proc[w] EXCEPT !.phase = "cancelling"])
  /\ Event
  /\ LinkOnly

(* Cancelling on a channel that is closed fails, and so does the stop.     *)
Cancel(w) ==
  /\ proc[w].phase = "cancelling"
  /\ IF proc[w].channel = "open"
     THEN /\ Becomes(w, [proc[w] EXCEPT !.phase = "draining", !.consumer = FALSE])
          /\ LinkOnly
     ELSE Exit(w, "stop failed")
  /\ UNCHANGED events

(* Mutation: the connection is closed without waiting.                     *)
DrainAtOnce(w) ==
  /\ proc[w].phase = "draining"
  /\ Becomes(w, [proc[w] EXCEPT !.phase = "closing", !.watching = FALSE])
  /\ UNCHANGED events /\ LinkOnly

Drain(w) ==
  /\ proc[w].phase = "draining" /\ inFlight[w] = {}
  /\ Becomes(w, [proc[w] EXCEPT !.phase = "closing", !.watching = FALSE])
  /\ UNCHANGED events /\ LinkOnly

(* connection.close() makes the watcher speak if it was left on, and fails *)
(* on a connection that is gone.                                           *)
Close(w) ==
  /\ proc[w].phase = "closing"
  /\ IF proc[w].channel = "lost" THEN Exit(w, "stop failed")
     ELSE IF proc[w].watching THEN Exit(w, "reported")
     ELSE Exit(w, "stopped")
  /\ UNCHANGED events

(* Once the broker's connection is closed, Redis may refuse to quit and is *)
(* dropped, but MongoDB may refuse to close.                               *)
CloseFails(w) ==
  /\ proc[w].phase = "closing" /\ proc[w].channel # "lost"
  /\ Exit(w, "close failed")
  /\ Event

-----------------------------------------------------------------------------
Start(w) == Boot(w) \/ Consume(w)
Stop(w) == Cancel(w) \/ Drain(w) \/ Close(w) \/ CloseFails(w)
Breaks(w) == ChannelError(w) \/ ConsumerCancelled(w) \/ ConnectionLost(w)

Next ==
  \/ \E c \in Commands : Publish(c)
  \/ \E w \in Workers :
       \/ Start(w) \/ BootFails(w) \/ Killed(w) \/ Breaks(w) \/ Signal(w) \/ Stop(w)
       \/ \E c \in Commands : Deliver(w, c) \/ Ends(w, c)

(* Supervisors restart, handlers end, and the broker delivers in order, so *)
(* no command is overtaken for ever.                                       *)
Fairness ==
  \A w \in Workers :
    /\ WF_vars(Start(w)) /\ WF_vars(Stop(w))
    /\ \A c \in Commands : WF_vars(Ends(w, c)) /\ WF_vars(\E v \in Workers : Deliver(v, c))

Spec == Init /\ [][Next]_vars /\ Fairness
===============================================================================
