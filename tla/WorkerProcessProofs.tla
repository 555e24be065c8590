------------------------- MODULE WorkerProcessProofs --------------------------
(***************************************************************************)
(* No command is lost and a graceful stop cuts nothing off, for any        *)
(* workers, commands, prefetch and events.                                 *)
(***************************************************************************)
EXTENDS WorkerProcessProperties, FiniteSetTheorems, TLAPS

WorkerInv == WorkerTypeOK /\ ProcessSafe

ProcState == [phase: Phases, channel: {"none", "open", "closed", "lost"},
              consumer: BOOLEAN, watching: BOOLEAN, broken: BOOLEAN, code: {0, 1}]

(* NothingIsLost, command by command. *)
Accounted ==
  \A c \in published :
    c \in queue \cup dead \cup handled \/ \E w \in Workers : c \in unacked[w]

LEMMA LostMeansUnaccounted ==
  (NothingIsLost <=> Accounted) /\ (NothingIsLost' <=> Accounted')
  <1>1. NothingIsLost <=> Accounted
    BY DEF NothingIsLost, Accounted
  <1>2. NothingIsLost' <=> Accounted'
    BY DEF NothingIsLost, Accounted
  <1> QED
    BY <1>1, <1>2

(* What Event leaves within its bound. *)
LEMMA EventBounded ==
  ASSUME events \in 0..MaxEvents, Event
  PROVE  events' \in 0..MaxEvents
  BY WorkerProcessAssumption DEF Event

(* A worker's deliveries are finite in number, and one more is within the  *)
(* prefetch if there was room.                                             *)
LEMMA OneMore ==
  ASSUME NEW held \in SUBSET Commands, NEW c \in Commands, Cardinality(held) < Prefetch
  PROVE  Cardinality(held \cup {c}) <= Prefetch
  <1>1. IsFiniteSet(held)
    BY FS_Subset, WorkerProcessAssumption
  <1>2. Cardinality(held) \in Nat
    BY <1>1, FS_CardinalityType
  <1>3. Cardinality(held \cup {c}) =
          IF c \in held THEN Cardinality(held) ELSE Cardinality(held) + 1
    BY <1>1, FS_AddElement
  <1> QED
    BY <1>2, <1>3, WorkerProcessAssumption

LEMMA OneLess ==
  ASSUME NEW held \in SUBSET Commands, NEW c, Cardinality(held) <= Prefetch
  PROVE  Cardinality(held \ {c}) <= Prefetch
  <1>1. IsFiniteSet(held)
    BY FS_Subset, WorkerProcessAssumption
  <1>2. Cardinality(held) \in Nat /\ Cardinality(held \ {c}) <= Cardinality(held)
    <2>1. held \ {c} \in SUBSET held
      OBVIOUS
    <2>2. Cardinality(held \ {c}) <= Cardinality(held) /\ IsFiniteSet(held \ {c})
      BY <1>1, <2>1, FS_Subset
    <2> QED
      BY <1>1, <2>2, FS_CardinalityType
  <1>3. Cardinality(held \ {c}) \in Nat
    BY <1>1, FS_RemoveElement, FS_CardinalityType
  <1> QED
    BY <1>2, <1>3, WorkerProcessAssumption

LEMMA NoneHeld == Cardinality({}) <= Prefetch
  BY FS_EmptySet, WorkerProcessAssumption

-----------------------------------------------------------------------------
LEMMA InitSafe == Init => WorkerInv
  <1> SUFFICES ASSUME Init PROVE WorkerInv
    OBVIOUS
  <1>1. WorkerTypeOK
    BY NoneHeld, WorkerProcessAssumption DEF Init, WorkerTypeOK, Down, Phases
  <1>2. Accounted
    BY DEF Init, Accounted
  <1>3. CleanStop /\ \A w \in Workers : LinkAgrees(w)
    BY DEF Init, CleanStop, LinkAgrees, Down
  <1> QED
    BY <1>1, <1>2, <1>3, LostMeansUnaccounted DEF WorkerInv, ProcessSafe

(* A process that changes on its own: no delivery is touched.              *)
LEMMA ProcessStep ==
  ASSUME WorkerInv, NEW w \in Workers, NEW state \in ProcState, Becomes(w, state),
         LinkOnly, events' \in 0..MaxEvents,
         state.consumer => state.channel = "open",
         state.code = 1 => state.broken,
         LinkAgrees(w)'
  PROVE  WorkerInv'
  <1> USE DEF WorkerInv, ProcessSafe
  <1>1. proc' = [proc EXCEPT ![w] = state] /\ proc \in [Workers -> ProcState]
    BY DEF Becomes, WorkerTypeOK, ProcState
  <1>2. /\ proc' \in [Workers -> ProcState] /\ proc'[w] = state
        /\ \A v \in Workers : v # w => proc'[v] = proc[v]
    BY <1>1
  <1>3. WorkerTypeOK'
    BY <1>2 DEF WorkerTypeOK, LinkOnly, broker, history, ProcState
  <1>4. Accounted'
    BY LostMeansUnaccounted DEF Accounted, LinkOnly, broker, history
  <1>5. CleanStop'
    BY <1>2 DEF CleanStop, LinkOnly, history
  <1>6. \A v \in Workers : LinkAgrees(v)'
    BY <1>2 DEF LinkAgrees, LinkOnly
  <1> QED
    BY <1>3, <1>4, <1>5, <1>6, LostMeansUnaccounted

(* What a closed channel had not answered goes back to the queue.          *)
LEMMA Requeued ==
  ASSUME WorkerInv, NEW w \in Workers, Requeue(w), UNCHANGED handled
  PROVE  /\ Accounted' /\ queue' \subseteq Commands
         /\ unacked' \in [Workers -> SUBSET Commands] /\ unacked'[w] = {}
         /\ \A v \in Workers : v # w => unacked'[v] = unacked[v]
         /\ dead' = dead /\ published' = published
  <1> USE DEF WorkerInv, ProcessSafe
  <1>1. /\ unacked \in [Workers -> SUBSET Commands] /\ queue \subseteq Commands
        /\ unacked' = [unacked EXCEPT ![w] = {}] /\ queue' = queue \cup unacked[w]
        /\ dead' = dead /\ published' = published
    BY DEF Requeue, WorkerTypeOK
  <1>2. /\ unacked' \in [Workers -> SUBSET Commands] /\ unacked'[w] = {}
        /\ \A v \in Workers : v # w => unacked'[v] = unacked[v]
    BY <1>1
  <1>3. queue' \subseteq Commands
    BY <1>1
  <1>4. Accounted
    BY LostMeansUnaccounted
  <1>5. Accounted'
    BY <1>1, <1>2, <1>4 DEF Accounted
  <1> QED
    BY <1>1, <1>2, <1>3, <1>5

LEMMA LeftAs ==
  ASSUME NEW b \in BOOLEAN, NEW c \in {0, 1}
  PROVE  LET state == [Down EXCEPT !.broken = b, !.code = c] IN
         /\ state \in ProcState
         /\ state.phase = "down" /\ state.channel = "none" /\ state.consumer = FALSE
         /\ state.code = c /\ state.broken = b
  <1>1. Down \in ProcState
    BY DEF Down, ProcState, Phases
  <1> QED
    BY <1>1 DEF Down, ProcState

(* process.exit, for a reason that its exit code tells.                    *)
LEMMA ExitSafe ==
  ASSUME WorkerInv, NEW w \in Workers, NEW how, Exit(w, how), events' \in 0..MaxEvents,
         how = "stopped" => inFlight[w] = {},
         how = "stopped" \/ how \in Failures \/ proc[w].broken
  PROVE  WorkerInv'
  <1> USE DEF WorkerInv, ProcessSafe
  <1> DEFINE isBroken == proc[w].broken \/ how \in Failures
             status == IF how = "stopped" THEN 0 ELSE 1
             state == [Down EXCEPT !.broken = isBroken, !.code = status]
  <1>1. /\ proc' = [proc EXCEPT ![w] = state] /\ proc \in [Workers -> ProcState]
        /\ Requeue(w) /\ handled' = handled
        /\ inFlight' = [inFlight EXCEPT ![w] = {}] /\ inFlight \in [Workers -> SUBSET Commands]
    BY DEF Exit, Becomes, WorkerTypeOK, ProcState
  <1>2. /\ state \in ProcState /\ state.phase = "down" /\ state.channel = "none"
        /\ ~state.consumer /\ (state.code = 1 => state.broken)
    <2>1. isBroken \in BOOLEAN /\ status \in {0, 1}
      OBVIOUS
    <2>2. status = 1 => isBroken
      OBVIOUS
    <2> HIDE DEF isBroken, status
    <2>3. /\ state \in ProcState
          /\ state.phase = "down" /\ state.channel = "none" /\ state.consumer = FALSE
          /\ state.code = status /\ state.broken = isBroken
      BY <2>1, LeftAs
    <2> QED
      BY <2>2, <2>3
  <1> HIDE DEF state, isBroken, status
  <1>3. /\ proc' \in [Workers -> ProcState] /\ proc'[w] = state
        /\ \A v \in Workers : v # w => proc'[v] = proc[v]
    BY <1>1, <1>2
  <1>4. /\ inFlight' \in [Workers -> SUBSET Commands] /\ inFlight'[w] = {}
        /\ \A v \in Workers : v # w => inFlight'[v] = inFlight[v]
    BY <1>1
  <1>5. /\ Accounted' /\ queue' \subseteq Commands
        /\ unacked' \in [Workers -> SUBSET Commands] /\ unacked'[w] = {}
        /\ \A v \in Workers : v # w => unacked'[v] = unacked[v]
        /\ dead' = dead /\ published' = published
    BY <1>1, Requeued
  <1>6. WorkerTypeOK'
    <2>1. \A v \in Workers :
            /\ Cardinality(inFlight'[v]) <= Prefetch /\ unacked'[v] \subseteq inFlight'[v]
            /\ proc'[v].consumer => proc'[v].channel = "open"
      <3> TAKE v \in Workers
      <3>1. CASE v = w
        BY <3>1, <1>2, <1>3, <1>4, <1>5, NoneHeld
      <3>2. CASE v # w
        BY <3>2, <1>3, <1>4, <1>5 DEF WorkerTypeOK
      <3> QED
        BY <3>1, <3>2
    <2> QED
      BY <1>1, <1>3, <1>4, <1>5, <2>1 DEF WorkerTypeOK, ProcState
  <1>7. CleanStop'
    <2>1. "stopped" \notin cut'
      BY DEF Exit, CleanStop
    <2> QED
      BY <1>2, <1>3, <2>1 DEF CleanStop
  <1>8. \A v \in Workers : LinkAgrees(v)'
    BY <1>2, <1>3, <1>4, <1>5 DEF LinkAgrees
  <1> QED
    BY <1>5, <1>6, <1>7, <1>8, LostMeansUnaccounted

(* A link that breaks under a process that stays up: the deliveries go     *)
(* back, and the handlers that run are not told.                           *)
LEMMA LinkBroken ==
  ASSUME WorkerInv, NEW w \in Workers, NEW state \in ProcState, Becomes(w, state),
         Requeue(w), UNCHANGED <<inFlight, history>>, events' \in 0..MaxEvents,
         ~state.consumer, state.broken, state.channel \in {"closed", "lost"},
         Up(w), state.phase = proc[w].phase, state.watching = proc[w].watching
  PROVE  WorkerInv'
  <1> USE DEF WorkerInv, ProcessSafe
  <1>1. proc' = [proc EXCEPT ![w] = state] /\ proc \in [Workers -> ProcState]
    BY DEF Becomes, WorkerTypeOK, ProcState
  <1>2. /\ proc' \in [Workers -> ProcState] /\ proc'[w] = state
        /\ \A v \in Workers : v # w => proc'[v] = proc[v]
    BY <1>1
  <1>3. /\ Accounted' /\ queue' \subseteq Commands
        /\ unacked' \in [Workers -> SUBSET Commands] /\ unacked'[w] = {}
        /\ \A v \in Workers : v # w => unacked'[v] = unacked[v]
        /\ dead' = dead /\ published' = published
    BY Requeued DEF history
  <1>4. WorkerTypeOK'
    <2>1. \A v \in Workers :
            /\ Cardinality(inFlight'[v]) <= Prefetch /\ unacked'[v] \subseteq inFlight'[v]
            /\ proc'[v].consumer => proc'[v].channel = "open"
      BY <1>2, <1>3 DEF WorkerTypeOK
    <2> QED
      BY <1>2, <1>3, <2>1 DEF WorkerTypeOK, ProcState, history
  <1>5. CleanStop'
    BY <1>2 DEF CleanStop, history
  <1>6. \A v \in Workers : LinkAgrees(v)'
    BY <1>2, <1>3 DEF LinkAgrees, Up
  <1> QED
    BY <1>3, <1>4, <1>5, <1>6, LostMeansUnaccounted

-----------------------------------------------------------------------------
(* A delivery comes or goes.                                               *)
LEMMA DeliveryStep ==
  ASSUME WorkerInv, NEW w \in Workers, NEW waited \in SUBSET Commands, NEW held \in SUBSET Commands,
         unacked' = [unacked EXCEPT ![w] = waited], inFlight' = [inFlight EXCEPT ![w] = held],
         UNCHANGED <<published, proc, cut>>, events' \in 0..MaxEvents,
         queue' \subseteq Commands, dead' \subseteq Commands, handled' \subseteq Commands,
         Accounted',
         waited \subseteq held, Cardinality(held) <= Prefetch,
         proc[w].channel = "open" => held = waited,
         proc[w].phase \in {"down", "booting", "closing"} => held = {}
  PROVE  WorkerInv'
  <1> USE DEF WorkerInv, ProcessSafe
  <1>1. /\ unacked' \in [Workers -> SUBSET Commands] /\ unacked'[w] = waited
        /\ \A v \in Workers : v # w => unacked'[v] = unacked[v]
        /\ inFlight' \in [Workers -> SUBSET Commands] /\ inFlight'[w] = held
        /\ \A v \in Workers : v # w => inFlight'[v] = inFlight[v]
    BY DEF WorkerTypeOK
  <1>2. WorkerTypeOK'
    <2>1. \A v \in Workers :
            /\ Cardinality(inFlight'[v]) <= Prefetch /\ unacked'[v] \subseteq inFlight'[v]
            /\ proc'[v].consumer => proc'[v].channel = "open"
      BY <1>1 DEF WorkerTypeOK
    <2> QED
      BY <1>1, <2>1 DEF WorkerTypeOK
  <1>3. CleanStop'
    BY DEF CleanStop
  <1>4. \A v \in Workers : LinkAgrees(v)'
    BY <1>1 DEF LinkAgrees
  <1> QED
    BY <1>2, <1>3, <1>4, LostMeansUnaccounted

LEMMA DeliverSafe ==
  ASSUME WorkerInv, NEW w \in Workers, NEW c \in Commands, Deliver(w, c)
  PROVE  WorkerInv'
  <1> USE DEF WorkerInv, ProcessSafe
  <1>1. /\ unacked[w] \in SUBSET Commands /\ inFlight[w] = unacked[w]
        /\ proc[w].phase \in {"running", "cancelling"} /\ Cardinality(unacked[w]) < Prefetch
    BY DEF Deliver, WorkerTypeOK, LinkAgrees
  <1>2. Cardinality(unacked[w] \cup {c}) <= Prefetch
    BY <1>1, OneMore
  <1>3. Accounted'
    <2>1. Accounted /\ unacked \in [Workers -> SUBSET Commands]
      BY LostMeansUnaccounted DEF WorkerTypeOK
    <2>2. \A v \in Workers : unacked[v] \subseteq unacked'[v]
      BY <2>1 DEF Deliver
    <2>3. c \in unacked'[w]
      BY <2>1 DEF Deliver
    <2> QED
      BY <2>1, <2>2, <2>3 DEF Accounted, Deliver, history
  <1>4. /\ queue' \subseteq Commands /\ dead' \subseteq Commands /\ handled' \subseteq Commands
        /\ events' \in 0..MaxEvents /\ UNCHANGED <<published, proc, cut>>
        /\ unacked' = [unacked EXCEPT ![w] = unacked[w] \cup {c}]
        /\ inFlight' = [inFlight EXCEPT ![w] = unacked[w] \cup {c}]
    BY <1>1 DEF Deliver, WorkerTypeOK, history
  <1> HIDE DEF WorkerInv, ProcessSafe
  <1> QED
    BY <1>1, <1>2, <1>3, <1>4, DeliveryStep

(* The delivery is over, and its command is where it has to be.            *)
LEMMA AnswerSafe ==
  ASSUME WorkerInv, NEW w \in Workers, NEW c \in inFlight[w],
         unacked' = [unacked EXCEPT ![w] = @ \ {c}], inFlight' = [inFlight EXCEPT ![w] = @ \ {c}],
         UNCHANGED <<published, proc, cut>>, events' \in 0..MaxEvents,
         queue \subseteq queue', dead \subseteq dead', handled \subseteq handled',
         queue' \subseteq Commands, dead' \subseteq Commands, handled' \subseteq Commands,
         c \in unacked[w] => c \in queue' \cup dead' \cup handled'
  PROVE  WorkerInv'
  <1> USE DEF WorkerInv, ProcessSafe
  <1>1. /\ unacked \in [Workers -> SUBSET Commands] /\ inFlight \in [Workers -> SUBSET Commands]
        /\ unacked[w] \subseteq inFlight[w] /\ Cardinality(inFlight[w]) <= Prefetch
        /\ LinkAgrees(w)
    BY DEF WorkerTypeOK
  <1>2. Cardinality(inFlight[w] \ {c}) <= Prefetch
    BY <1>1, OneLess
  <1>3. Accounted'
    <2>1. Accounted
      BY LostMeansUnaccounted
    <2>2. \A v \in Workers : unacked[v] \ {c} \subseteq unacked'[v]
      BY <1>1
    <2>3. \A v \in Workers : v # w => unacked'[v] = unacked[v]
      BY <1>1
    <2> QED
      BY <2>1, <2>2, <2>3 DEF Accounted
  <1>4. /\ proc[w].channel = "open" => inFlight[w] \ {c} = unacked[w] \ {c}
        /\ proc[w].phase \in {"down", "booting", "closing"} => inFlight[w] \ {c} = {}
    BY <1>1 DEF LinkAgrees
  <1> HIDE DEF WorkerInv, ProcessSafe
  <1> QED
    BY <1>1, <1>2, <1>3, <1>4, DeliveryStep

LEMMA EndsSafe ==
  ASSUME WorkerInv, NEW w \in Workers, NEW c \in Commands, Ends(w, c)
  PROVE  WorkerInv'
  <1>1. /\ c \in inFlight[w]
        /\ unacked' = [unacked EXCEPT ![w] = @ \ {c}]
        /\ inFlight' = [inFlight EXCEPT ![w] = @ \ {c}]
        /\ UNCHANGED <<published, proc, cut>>
    BY DEF Ends, Finish, DeadLetter, PutBack, Settled, history
  <1>2. /\ queue \subseteq queue' /\ queue' \subseteq Commands
        /\ dead \subseteq dead' /\ dead' \subseteq Commands
        /\ handled \subseteq handled' /\ handled' \subseteq Commands
    BY DEF Ends, Finish, DeadLetter, PutBack, history, WorkerInv, WorkerTypeOK
  <1>3. c \in unacked[w] => c \in queue' \cup dead' \cup handled'
    BY DEF Ends, Finish, DeadLetter, PutBack, Answered
  <1>4. events' \in 0..MaxEvents
    <2>1. events \in 0..MaxEvents
      BY DEF WorkerInv, WorkerTypeOK
    <2> QED
      BY <2>1, EventBounded DEF Ends, Finish, DeadLetter, PutBack
  <1> QED
    BY <1>1, <1>2, <1>3, <1>4, AnswerSafe

LEMMA PublishSafe ==
  ASSUME WorkerInv, NEW c \in Commands, Publish(c)
  PROVE  WorkerInv'
  <1> USE DEF WorkerInv, ProcessSafe
  <1>1. WorkerTypeOK'
    BY DEF Publish, WorkerTypeOK, history
  <1>2. Accounted'
    BY LostMeansUnaccounted DEF Publish, Accounted, history
  <1>3. CleanStop' /\ \A w \in Workers : LinkAgrees(w)'
    BY DEF Publish, CleanStop, LinkAgrees, history
  <1> QED
    BY <1>1, <1>2, <1>3, LostMeansUnaccounted

-----------------------------------------------------------------------------
(* The life of a process. *)

LEMMA StartSafe ==
  ASSUME WorkerInv, NEW w \in Workers, Start(w) \/ BootFails(w)
  PROVE  WorkerInv'
  <1>1. /\ proc[w] \in ProcState /\ events \in 0..MaxEvents /\ LinkAgrees(w)
        /\ proc \in [Workers -> ProcState] /\ unacked[w] \subseteq inFlight[w]
        /\ proc[w].code = 1 => proc[w].broken
    BY DEF WorkerInv, ProcessSafe, CleanStop, WorkerTypeOK, ProcState
  <1>2. CASE Boot(w)
    <2> DEFINE state == [Down EXCEPT !.phase = "booting", !.channel = "open", !.watching = TRUE]
    <2>1. /\ state \in ProcState /\ state.phase = "booting" /\ state.channel = "open"
          /\ state.consumer = FALSE /\ state.code = 0
      BY DEF Down, ProcState, Phases
    <2>2. proc' = [proc EXCEPT ![w] = state] /\ LinkOnly /\ events' = events
      BY <1>2 DEF Boot, Becomes
    <2>3. LinkAgrees(w)'
      <3>1. proc'[w] = state /\ inFlight' = inFlight /\ unacked' = unacked
        BY <1>1, <2>2 DEF LinkOnly
      <3>2. inFlight[w] = {} /\ unacked[w] = {}
        BY <1>1, <1>2 DEF Boot, LinkAgrees
      <3> QED
        BY <2>1, <3>1, <3>2 DEF LinkAgrees
    <2> HIDE DEF state
    <2>4. /\ Becomes(w, state) /\ LinkOnly /\ events' \in 0..MaxEvents
          /\ ~state.consumer /\ state.code # 1
      BY <1>1, <2>1, <2>2 DEF Becomes
    <2> QED
      BY <2>1, <2>3, <2>4, ProcessStep
  <1>3. CASE Consume(w)
    <2> DEFINE state == [proc[w] EXCEPT !.phase = "running", !.consumer = TRUE]
    <2>1. /\ state \in ProcState /\ state.phase = "running" /\ state.channel = proc[w].channel
          /\ state.consumer = TRUE /\ state.code = proc[w].code /\ state.broken = proc[w].broken
      BY <1>1 DEF ProcState, Phases
    <2>2. /\ proc' = [proc EXCEPT ![w] = state] /\ LinkOnly /\ events' = events
          /\ proc[w].phase = "booting" /\ proc[w].channel = "open"
      BY <1>1, <1>3 DEF Consume, Becomes, LinkAgrees
    <2> HIDE DEF state
    <2>3. LinkAgrees(w)'
      BY <1>1, <2>1, <2>2 DEF LinkAgrees, LinkOnly
    <2> QED
      BY <1>1, <2>1, <2>2, <2>3, ProcessStep DEF Becomes
  <1>4. CASE BootFails(w)
    <2> DEFINE state == [Down EXCEPT !.broken = TRUE, !.code = 1]
    <2>1. /\ state \in ProcState /\ state.phase = "down" /\ state.channel = "none"
          /\ state.consumer = FALSE /\ state.broken = TRUE
      BY DEF Down, ProcState, Phases
    <2>2. proc' = [proc EXCEPT ![w] = state] /\ LinkOnly /\ events' \in 0..MaxEvents
      BY <1>1, <1>4, EventBounded DEF BootFails, Becomes
    <2>3. LinkAgrees(w)'
      <3>1. proc'[w] = state /\ inFlight' = inFlight /\ inFlight[w] = {}
        BY <1>1, <1>4, <2>2 DEF LinkOnly, BootFails, LinkAgrees
      <3> QED
        BY <2>1, <3>1 DEF LinkAgrees
    <2> HIDE DEF state
    <2> QED
      BY <1>1, <2>1, <2>2, <2>3, ProcessStep DEF Becomes
  <1> QED
    BY <1>2, <1>3, <1>4 DEF Start

LEMMA BreaksSafe ==
  ASSUME WorkerInv, NEW w \in Workers, Breaks(w) \/ Killed(w)
  PROVE  WorkerInv'
  <1>1. /\ proc[w] \in ProcState /\ events \in 0..MaxEvents /\ LinkAgrees(w)
        /\ proc \in [Workers -> ProcState]
    BY DEF WorkerInv, ProcessSafe, WorkerTypeOK, ProcState
  <1>2. CASE ChannelError(w)
    <2> DEFINE state == [proc[w] EXCEPT !.channel = "closed", !.consumer = FALSE, !.broken = TRUE]
    <2>1. /\ state \in ProcState /\ state.phase = proc[w].phase /\ state.channel = "closed"
          /\ ~state.consumer /\ state.broken /\ state.watching = proc[w].watching
      BY <1>1 DEF ProcState
    <2>2. /\ Becomes(w, state) /\ Requeue(w) /\ UNCHANGED <<inFlight, history>> /\ Up(w)
          /\ events' \in 0..MaxEvents
      BY <1>1, <1>2, EventBounded DEF ChannelError
    <2> HIDE DEF state
    <2> QED
      BY <2>1, <2>2, LinkBroken
  <1>3. CASE ConsumerCancelled(w)
    <2> DEFINE state == [proc[w] EXCEPT !.consumer = FALSE, !.broken = TRUE]
    <2>1. /\ state \in ProcState /\ state.phase = proc[w].phase /\ state.channel = proc[w].channel
          /\ state.consumer = FALSE /\ state.broken = TRUE /\ state.watching = proc[w].watching
      BY <1>1 DEF ProcState
    <2>2. proc' = [proc EXCEPT ![w] = state] /\ LinkOnly /\ events' \in 0..MaxEvents
      BY <1>1, <1>3, EventBounded DEF ConsumerCancelled, Becomes
    <2> HIDE DEF state
    <2>3. proc'[w] = state /\ inFlight' = inFlight /\ unacked' = unacked
      BY <1>1, <2>2 DEF LinkOnly
    <2>4. LinkAgrees(w)'
      BY <1>1, <2>1, <2>3 DEF LinkAgrees
    <2> QED
      BY <2>1, <2>2, <2>4, ProcessStep DEF Becomes
  <1>4. CASE ConnectionLost(w)
    <2>1. CASE proc[w].watching
      BY <1>1, <1>4, <2>1, EventBounded, ExitSafe DEF ConnectionLost, Failures
    <2>2. CASE ~proc[w].watching
      <3> DEFINE state == [proc[w] EXCEPT !.channel = "lost", !.consumer = FALSE, !.broken = TRUE]
      <3>1. /\ state \in ProcState /\ state.phase = proc[w].phase /\ state.channel = "lost"
            /\ ~state.consumer /\ state.broken /\ state.watching = proc[w].watching
        BY <1>1 DEF ProcState
      <3>2. /\ Becomes(w, state) /\ Requeue(w) /\ UNCHANGED <<inFlight, history>> /\ Up(w)
            /\ events' \in 0..MaxEvents
        BY <1>1, <1>4, <2>2, EventBounded DEF ConnectionLost
      <3> HIDE DEF state
      <3> QED
        BY <3>1, <3>2, LinkBroken
    <2> QED
      BY <2>1, <2>2
  <1>5. CASE Killed(w)
    BY <1>1, <1>5, EventBounded, ExitSafe DEF Killed, Failures
  <1> QED
    BY <1>2, <1>3, <1>4, <1>5 DEF Breaks

LEMMA StopSafe ==
  ASSUME WorkerInv, NEW w \in Workers, Signal(w) \/ Stop(w)
  PROVE  WorkerInv'
  <1>1. /\ proc[w] \in ProcState /\ events \in 0..MaxEvents /\ LinkAgrees(w)
        /\ proc \in [Workers -> ProcState]
        /\ (proc[w].consumer => proc[w].channel = "open")
        /\ proc[w].code = 1 => proc[w].broken
    BY DEF WorkerInv, ProcessSafe, CleanStop, WorkerTypeOK, ProcState
  <1>2. CASE Signal(w)
    <2> DEFINE state == [proc[w] EXCEPT !.phase = "cancelling"]
    <2>1. /\ state \in ProcState /\ state.phase = "cancelling" /\ state.channel = proc[w].channel
          /\ state.consumer = proc[w].consumer /\ state.broken = proc[w].broken
          /\ state.code = proc[w].code
      BY <1>1 DEF ProcState, Phases
    <2>2. /\ proc' = [proc EXCEPT ![w] = state] /\ LinkOnly /\ events' \in 0..MaxEvents
          /\ proc[w].phase = "running"
      BY <1>1, <1>2, EventBounded DEF Signal, Becomes
    <2> HIDE DEF state
    <2>3. proc'[w] = state /\ inFlight' = inFlight /\ unacked' = unacked
      BY <1>1, <2>2 DEF LinkOnly
    <2>4. LinkAgrees(w)'
      BY <1>1, <2>1, <2>2, <2>3 DEF LinkAgrees
    <2> QED
      BY <1>1, <2>1, <2>2, <2>4, ProcessStep DEF Becomes
  <1>3. CASE Cancel(w) /\ proc[w].channel = "open"
    <2> DEFINE state == [proc[w] EXCEPT !.phase = "draining", !.consumer = FALSE]
    <2>1. /\ state \in ProcState /\ state.phase = "draining" /\ state.channel = "open"
          /\ state.consumer = FALSE /\ state.broken = proc[w].broken /\ state.code = proc[w].code
      BY <1>1, <1>3 DEF ProcState, Phases
    <2>2. /\ proc' = [proc EXCEPT ![w] = state] /\ LinkOnly /\ events' \in 0..MaxEvents
      BY <1>1, <1>3 DEF Cancel, Becomes
    <2> HIDE DEF state
    <2>3. proc'[w] = state /\ inFlight' = inFlight /\ unacked' = unacked
      BY <1>1, <2>2 DEF LinkOnly
    <2>4. LinkAgrees(w)'
      BY <1>1, <1>3, <2>1, <2>3 DEF LinkAgrees
    <2> QED
      BY <1>1, <2>1, <2>2, <2>4, ProcessStep DEF Becomes
  <1>4. CASE Cancel(w) /\ proc[w].channel # "open"
    <2>1. proc[w].broken
      BY <1>1, <1>4 DEF Cancel, LinkAgrees
    <2>2. Exit(w, "stop failed") /\ events' \in 0..MaxEvents
      BY <1>1, <1>4 DEF Cancel
    <2> QED
      BY <2>1, <2>2, ExitSafe
  <1>5. CASE Drain(w)
    <2> DEFINE state == [proc[w] EXCEPT !.phase = "closing", !.watching = FALSE]
    <2>1. /\ state \in ProcState /\ state.phase = "closing" /\ state.channel = proc[w].channel
          /\ state.consumer = proc[w].consumer /\ state.broken = proc[w].broken
          /\ state.code = proc[w].code /\ state.watching = FALSE
      BY <1>1 DEF ProcState, Phases
    <2>2. /\ proc' = [proc EXCEPT ![w] = state] /\ LinkOnly /\ events' \in 0..MaxEvents
          /\ proc[w].phase = "draining" /\ inFlight[w] = {}
      BY <1>1, <1>5 DEF Drain, Becomes
    <2> HIDE DEF state
    <2>3. proc'[w] = state /\ inFlight' = inFlight /\ unacked' = unacked
      BY <1>1, <2>2 DEF LinkOnly
    <2>4. LinkAgrees(w)'
      BY <1>1, <2>1, <2>2, <2>3 DEF LinkAgrees
    <2> QED
      BY <1>1, <2>1, <2>2, <2>4, ProcessStep DEF Becomes
  <1>6. CASE Close(w)
    <2>1. /\ proc[w].phase = "closing" /\ inFlight[w] = {} /\ ~proc[w].watching
          /\ events' \in 0..MaxEvents
      BY <1>1, <1>6 DEF Close, LinkAgrees
    <2>2. CASE proc[w].channel = "lost"
      <3>1. proc[w].broken
        BY <1>1, <2>1, <2>2 DEF LinkAgrees
      <3> QED
        BY <1>6, <2>1, <2>2, <3>1, ExitSafe DEF Close
    <2>3. CASE proc[w].channel # "lost"
      BY <1>6, <2>1, <2>3, ExitSafe DEF Close
    <2> QED
      BY <2>2, <2>3
  <1>7. CASE CloseFails(w)
    BY <1>1, <1>7, EventBounded, ExitSafe DEF CloseFails, Failures
  <1> QED
    BY <1>2, <1>3, <1>4, <1>5, <1>6, <1>7 DEF Stop

-----------------------------------------------------------------------------
LEMMA NextSafe ==
  ASSUME WorkerInv, [Next]_vars
  PROVE  WorkerInv'
  <1>1. CASE \E c \in Commands : Publish(c)
    BY <1>1, PublishSafe
  <1>2. CASE \E w \in Workers : (Start(w) \/ BootFails(w))
    BY <1>2, StartSafe
  <1>3. CASE \E w \in Workers : (Breaks(w) \/ Killed(w))
    BY <1>3, BreaksSafe
  <1>4. CASE \E w \in Workers : (Signal(w) \/ Stop(w))
    BY <1>4, StopSafe
  <1>5. CASE \E w \in Workers : \E c \in Commands : (Deliver(w, c) \/ Ends(w, c))
    BY <1>5, DeliverSafe, EndsSafe
  <1>6. CASE UNCHANGED vars
    <2>1. WorkerTypeOK'
      BY <1>6 DEF vars, broker, history, WorkerInv, WorkerTypeOK
    <2>2. ProcessSafe'
      BY <1>6
        DEF vars, broker, history, WorkerInv, ProcessSafe, NothingIsLost, CleanStop, LinkAgrees
    <2> QED
      BY <2>1, <2>2 DEF WorkerInv
  <1> QED
    BY <1>1, <1>2, <1>3, <1>4, <1>5, <1>6 DEF Next

(* Types, and what the process and the broker agree on, hold in every      *)
(* state, for any workers, commands, prefetch and events (worker.ts,       *)
(* lifecycle.ts, consumer.ts).                                             *)
THEOREM WorkerInvariance == Spec => []WorkerInv
  <1>1. Init => WorkerInv
    BY InitSafe
  <1>2. WorkerInv /\ [Next]_vars => WorkerInv'
    BY NextSafe
  <1> QED
    BY <1>1, <1>2, PTL DEF Spec

(* No more deliveries are worked on than the prefetch allows, and the      *)
(* broker never waits for one the process does not know of.                *)
THEOREM WorkerTypeCorrect == Spec => []WorkerTypeOK
  <1>1. WorkerInv => WorkerTypeOK
    BY DEF WorkerInv
  <1> QED
    BY <1>1, WorkerInvariance, PTL

(* A published command is queued, held, dead or done, whatever processes   *)
(* and links break, and in whatever order (consumer.ts, worker.ts).        *)
THEOREM CommandsSurvive == Spec => []NothingIsLost
  <1>1. WorkerInv => NothingIsLost
    BY DEF WorkerInv, ProcessSafe
  <1> QED
    BY <1>1, WorkerInvariance, PTL

(* A stop that goes through cuts no handler off, and only what failed      *)
(* leaves with 1 (index.ts, "a half-applied matchday is the expensive      *)
(* failure").                                                              *)
THEOREM StopsClean == Spec => []CleanStop
  <1>1. WorkerInv => CleanStop
    BY DEF WorkerInv, ProcessSafe
  <1> QED
    BY <1>1, WorkerInvariance, PTL
===============================================================================
