------------------------ MODULE ResolutionProperties -------------------------
(***************************************************************************)
(* What resolving a matchday promises.  Which of these hold depends on the *)
(* environment (how many workers, which faults, which late requests); the  *)
(* runs fix one environment each.                                          *)
(***************************************************************************)
EXTENDS Resolution

Answered(o) == press[o].pc = "queued"

InHand(m) == \E w \in Workers : worker[w].msg = m

(* Some command for p is queued, held unacked by a worker or dead-lettered. *)
IsCarried(p) == \E m \in Command : m.penka = p /\ (queue[m] > 0 \/ m \in dead \/ InHand(m))

-----------------------------------------------------------------------------
(* Safety. *)

(* No entry is moved twice by one matchday: redelivered and duplicate      *)
(* commands are recognised (workers store.ts, contracts messaging.ts).     *)
AtMostOnce == \A e \in Entries : hits[e] <= 1

(* The resolution document never exists before the effects it claims: each *)
(* entry was moved and each pick labelled (apply.ts, "goes in last").      *)
MarkerMeansApplied ==
  \A e \in Entries :
    Owner[e] \in marker \cap Founded =>
      hits[e] > 0 /\ (pick[e] # NoTeam => label[e] # "none")

(* The shared matchday is not flipped while a penka that existed before    *)
(* any request is unresolved: its command would become a no-op             *)
(* (finalize.ts, "the flip waits for the whole fan-out").                  *)
NoSiblingSkipped == status = "resolved" => Founded \subseteq marker

(* A command the operator was told is queued is never lost: its penka is   *)
(* resolved, or a command for it is queued, unacked or dead-lettered       *)
(* (consumer.ts acks last, retries go out first).  A penka created while   *)
(* the request was made may be skipped, and is not counted here.           *)
CommandsAccountedFor ==
  \A o \in Presses : Answered(o) =>
    \A p \in press[o].targets \cap Founded : p \in marker \/ IsCarried(p)

(* Every answered press of a matchday published for the same instant       *)
(* (resolve.ts, "replay their timestamp, never a new one").                *)
OneFanOut == \A o1, o2 \in Presses : Answered(o1) /\ Answered(o2) => press[o1].at = press[o2].at

-----------------------------------------------------------------------------
(* Why a marker can be trusted: what a worker knows at each point, and what *)
(* stays true whatever the other processes do meanwhile.                   *)

(* Nothing is applied before the entries were read, and a founded penka's  *)
(* entries are read all at once.                                           *)
EntriesRead(w) ==
  LET self == worker[w]
  IN  /\ self.pc \in {"apply", "mark"} => "entries" \in self.got
      /\ "entries" \in self.got /\ self.msg.penka \in Founded =>
           self.seen.members = {e \in Entries : Owner[e] = self.msg.penka}

(* Each effect that is no longer to do was written, unless a bulk failed.  *)
EffectsWritten(w) ==
  LET self == worker[w]
  IN  self.pc \in {"apply", "mark"} /\ self.failed = FALSE =>
        /\ \A e \in self.seen.members \ self.todoEntries : hits[e] > 0
        /\ \A e \in self.seen.members \ self.todoPicks : pick[e] # NoTeam => label[e] # "none"

ReadyToMark(w) ==
  LET self == worker[w]
  IN  self.pc = "mark" => self.failed = FALSE /\ self.todoEntries = {} /\ self.todoPicks = {}

(* The finalizer counts every founded penka, and flips what it counted.    *)
CountComplete(w) ==
  LET self == worker[w]
  IN  /\ self.pc \in {"count", "flip"} => Founded \subseteq self.waiting
      /\ self.pc = "flip" => self.waiting \subseteq marker

WorkerInv(w) ==
  /\ worker[w].pc # "idle" => worker[w].msg \in Command
  /\ worker[w].pc \notin {"load", "apply", "mark"} => worker[w].got = {}
  /\ EntriesRead(w)
  /\ EffectsWritten(w)
  /\ ReadyToMark(w)
  /\ CountComplete(w)

FoundedStand == \A p \in Founded : penka[p] = "live" /\ created[p] = 0

(* The inductive invariant behind MarkerMeansApplied and NoSiblingSkipped. *)
MarkersTrustworthy ==
  /\ FoundedStand
  /\ \A w \in Workers : WorkerInv(w)
  /\ MarkerMeansApplied
  /\ NoSiblingSkipped

-----------------------------------------------------------------------------
(* Refinement.  A penka counts as resolved when its marker is stored; until *)
(* then nobody has been told anything, and its entries are as before.      *)

Promise == INSTANCE MatchdayResolution WITH
  settled <- marker,
  entries <- [e \in Entries |-> IF Owner[e] \in marker THEN entries[e] ELSE before[e]],
  label <- [e \in Entries |-> IF Owner[e] \in marker THEN label[e] ELSE "none"]

(* The pipeline resolves each penka once, atomically as far as a marker    *)
(* tells, exactly as the engine says, and finishes after the last one.     *)
ImplementsPromise == Promise!Spec

-----------------------------------------------------------------------------
(* Liveness. *)

(* A press that was answered resolves the matchday in the end              *)
(* (finalize.ts, "the calendar would never advance").                      *)
QueuedIsResolved == \A o \in Presses : Answered(o) ~> status = "resolved"

(* Every command is answered in the end: the queue drains and every worker *)
(* rests, so a retry loop cannot spin (README, "cannot spin the queue").   *)
QueueDrains == <>[]((\A m \in Command : queue[m] = 0) /\ \A w \in Workers : worker[w].pc = "idle")
=============================================================================
