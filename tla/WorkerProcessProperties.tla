----------------------- MODULE WorkerProcessProperties -----------------------
(* What the workers owe the queue, and a stop owes the handler it meets.   *)
EXTENDS WorkerProcess

(* messaging.ts, consumer.ts: a command that was published is in a queue,  *)
(* held for a worker, or done, whatever processes and links break.         *)
NothingIsLost ==
  published \subseteq queue \cup dead \cup handled \cup UNION {unacked[w] : w \in Workers}

(* index.ts: "a half-applied matchday is the expensive failure".  A stop   *)
(* on an unbroken link cuts no handler off, and a process that nothing     *)
(* failed in leaves with 0 (worker.ts: "or our own shutdown reports itself *)
(* as a lost broker").                                                     *)
CleanStop ==
  /\ "stopped" \notin cut
  /\ \A w \in Workers : proc[w].code = 1 => proc[w].broken

(* Why: what the process and the broker agree on at each point of a life.  *)
LinkAgrees(w) ==
  /\ proc[w].phase \in {"down", "booting"} => inFlight[w] = {} /\ ~proc[w].consumer
  /\ proc[w].consumer => proc[w].phase \in {"running", "cancelling"}
  /\ proc[w].channel = "open" => inFlight[w] = unacked[w]
  /\ proc[w].phase = "booting" => proc[w].channel = "open"
  /\ proc[w].phase # "down" =>
       /\ proc[w].channel \in {"open", "closed", "lost"}
       /\ proc[w].channel # "open" => proc[w].broken
  /\ proc[w].phase = "closing" => inFlight[w] = {} /\ ~proc[w].watching

(* The inductive invariant behind NothingIsLost and CleanStop.             *)
ProcessSafe == NothingIsLost /\ CleanStop /\ \A w \in Workers : LinkAgrees(w)

(* index.ts: a signal is honoured and "a second signal is ignored": the    *)
(* process leaves, even if the link breaks while it waits for a handler.   *)
Stopping(w) == proc[w].phase \in {"cancelling", "draining", "closing"}
StopEnds == \A w \in Workers : Stopping(w) ~> proc[w].phase = "down"

(* lifecycle.ts: a worker that stopped consuming "while the queue grows    *)
(* behind it" is the failure the watcher is for.  A queued command is      *)
(* answered by somebody, unless every worker is deaf: up, its connection   *)
(* open, and without a consumer, which nothing in the process notices.     *)
Deaf(w) == proc[w].phase = "running" /\ proc[w].channel # "lost" /\ ~proc[w].consumer
WaitsOnlyForTheDeaf ==
  \A c \in Commands :
    c \in queue ~> c \in handled \cup dead \/ \A w \in Workers : Deaf(w)
===============================================================================
