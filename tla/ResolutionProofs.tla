-------------------------- MODULE ResolutionProofs ---------------------------
(***************************************************************************)
(* Theorems about Resolution for any number of penkas, entries, workers    *)
(* and requests, any bound on attempts, time and faults, and every kind of *)
(* fault.  The last three theorems need less to happen, and say so: one    *)
(* worker that is never cut short (Uninterrupted), and operators who leave *)
(* a matchday alone once it is closed and its results are in.              *)
(***************************************************************************)
EXTENDS ResolutionProperties, TLAPS

-----------------------------------------------------------------------------
(* The engine's answers. *)

(* The effect of a matchday has the engine's EffectType, and the lives it  *)
(* sets are never negative: an entry with no lives loses none.             *)
LEMMA EffectTyped ==
  ASSUME NEW entry \in Entry, NEW team \in Teams \cup {NoTeam}, NEW matches, NEW enabled \in BOOLEAN
  PROVE  EntryEffect(entry, team, matches, enabled) \in
           [livesDelta: {-1, 0}, pointsDelta: {0, 1}, newLives: Nat,
            newStatus: {"alive", "island"}, teamConsumed: Teams \cup {NoTeam}]
  BY DEF EntryEffect, IslandEffect, AliveEffect, AliveWinEffect, AliveLossEffect, Entry

(* What an update stores is again an entry, whichever entry was read.      *)
LEMMA UpdateTyped ==
  ASSUME NEW stored \in Entry, NEW entry \in Entry, NEW team \in Teams \cup {NoTeam},
         NEW matches, NEW enabled \in BOOLEAN
  PROVE  EntryUpdate(stored, EntryEffect(entry, team, matches, enabled)) \in Entry
  <1> DEFINE effect == EntryEffect(entry, team, matches, enabled)
  <1>1. effect \in [livesDelta: {-1, 0}, pointsDelta: {0, 1}, newLives: Nat,
                    newStatus: {"alive", "island"}, teamConsumed: Teams \cup {NoTeam}]
    BY EffectTyped
  <1> HIDE DEF effect
  <1>2. EntryUpdate(stored, effect) \in Entry
    BY <1>1 DEF EntryUpdate, Entry
  <1> QED
    BY <1>2 DEF effect

(* A settled pick is always labelled won, lost or void. *)
LEMMA LabelTyped ==
  ASSUME NEW effect
  PROVE  PickResultOf(effect) \in Results \ {"none"}
  BY DEF PickResultOf, Results

-----------------------------------------------------------------------------
(* Type correctness. *)

(* Every initial state has the types. *)
LEMMA TypeInit == Init => TypeOK
  <1> SUFFICES ASSUME Init PROVE TypeOK
    OBVIOUS
  <1> USE ConstantsAssumption
  <1>1. worker \in [Workers -> WorkerState]
    BY DEF Init, IdleWorker, WorkerState, WorkerPcs, Unread, NoEntry, Entry, Statuses
  <1>2. press \in [Presses -> PressState]
    BY DEF Init, NewPress, PressState, PressPcs, Statuses, NoStamp
  <1> QED
    BY <1>1, <1>2 DEF Init, TypeOK, Statuses, Instants, NoStamp, RequestPcs, Results

(* Giving a press a typed state keeps all presses typed. *)
LEMMA PressUpdate ==
  ASSUME press \in [Presses -> PressState], NEW o \in Presses, NEW r \in PressState,
         PressBecomes(o, r)
  PROVE  press' \in [Presses -> PressState]
  BY DEF PressBecomes

(* Giving a worker a typed state keeps all workers typed. *)
LEMMA WorkerUpdate ==
  ASSUME worker \in [Workers -> WorkerState], NEW w \in Workers, NEW r \in WorkerState,
         WorkerBecomes(w, r)
  PROVE  worker' \in [Workers -> WorkerState]
  BY DEF WorkerBecomes

(* A press that only moves on keeps its type. *)
LEMMA PressMoves ==
  ASSUME TypeOK, NEW o \in Presses, NEW from, NEW to \in PressPcs, PressGoes(o, from, to)
  PROVE  press' \in [Presses -> PressState]
  <1>1. press[o] \in PressState
    BY DEF TypeOK
  <1>2. [press[o] EXCEPT !.pc = to] \in PressState
    BY <1>1 DEF PressState
  <1> QED
    BY <1>2, PressUpdate DEF PressGoes, TypeOK

(* A worker that only moves on, or whose handler is over, keeps its type.  *)
LEMMA WorkerMoves ==
  ASSUME TypeOK, NEW w \in Workers, NEW to \in WorkerPcs,
         WorkerGoes(w, to) \/ HandlerOver(w, to) \/ WorkerBecomes(w, IdleWorker)
  PROVE  worker' \in [Workers -> WorkerState]
  <1>1. worker[w] \in WorkerState
    BY DEF TypeOK
  <1>2. IdleWorker \in WorkerState
    BY DEF IdleWorker, WorkerState, WorkerPcs, Unread, NoEntry, Entry, Statuses
  <1>3. [worker[w] EXCEPT !.pc = to] \in WorkerState
    BY <1>1 DEF WorkerState
  <1>4. worker[w].msg \in Command \cup {NoCommand}
    BY <1>1 DEF WorkerState
  <1>5. [IdleWorker EXCEPT !.pc = to, !.msg = worker[w].msg] \in WorkerState
    BY <1>2, <1>4 DEF WorkerState
  <1> QED
    BY <1>2, <1>3, <1>5, WorkerUpdate DEF WorkerGoes, HandlerOver, TypeOK

(* A counted fault stays within the bound. *)
LEMMA FaultTyped ==
  ASSUME NEW kind, faults \in 0..MaxFaults, Fault(kind)
  PROVE  faults' \in 0..MaxFaults
  BY ConstantsAssumption DEF Fault

(* A press changes only its own state, the stamp, the queue and the faults. *)
LEMMA PressTyped ==
  ASSUME TypeOK, NEW o \in Presses,
         PressLoad(o) \/ PressContinues(o) \/ PublishFails(o) \/ PressCrash(o)
  PROVE  TypeOK'
  <1> USE DEF PressUnchanged, founding, game, given, operators, calendar, broker
  <1>1. press[o] \in PressState /\ status \in Statuses /\ now \in Instants
        /\ stamp \in Instants \cup {NoStamp}
    BY DEF TypeOK
  <1>2. ASSUME PressLoad(o) PROVE TypeOK'
    <2>1. [press[o] EXCEPT !.pc = "check", !.read = status] \in PressState
      BY <1>1 DEF PressState, PressPcs
    <2>2. press' \in [Presses -> PressState]
      BY <1>2, <2>1, PressUpdate DEF PressLoad, TypeOK
    <2> QED
      BY <1>2, <2>2 DEF PressLoad, TypeOK
  <1>3. ASSUME PressCheck(o) PROVE TypeOK'
    <2>1. press' \in [Presses -> PressState]
      BY <1>3, PressMoves DEF PressCheck, PressPcs
    <2> QED
      BY <1>3, <2>1 DEF PressCheck, TypeOK
  <1>4. ASSUME Claim(o) PROVE TypeOK'
    <2>1. [press[o] EXCEPT !.pc = "find", !.at = now, !.claimed = TRUE] \in PressState
      BY <1>1 DEF PressState, PressPcs
    <2>2. press' \in [Presses -> PressState]
      BY <1>4, <2>1, PressUpdate, PressMoves DEF Claim, TypeOK, PressPcs
    <2> QED
      BY <1>4, <2>2 DEF Claim, TypeOK
  <1>5. ASSUME Join(o) PROVE TypeOK'
    <2>1. [press[o] EXCEPT !.pc = "find", !.at = stamp] \in PressState
      BY <1>1 DEF PressState, PressPcs
    <2>2. press' \in [Presses -> PressState]
      BY <1>5, <2>1, PressUpdate, PressMoves DEF Join, TypeOK, PressPcs
    <2> QED
      BY <1>5, <2>2 DEF Join, TypeOK
  <1>6. ASSUME FindPenkas(o) PROVE TypeOK'
    <2> DEFINE targets == PenkasUpTo(press[o].at)
    <2>1. \A to \in PressPcs :
            [press[o] EXCEPT !.pc = to, !.targets = targets, !.unsent = targets] \in PressState
      BY <1>1 DEF PressState, PenkasUpTo
    <2>2. press' \in [Presses -> PressState]
      BY <1>6, <2>1, PressUpdate DEF FindPenkas, TypeOK, PressPcs
    <2> QED
      BY <1>6, <2>2 DEF FindPenkas, TypeOK
  <1>7. ASSUME NEW p \in Penkas, Send(o, p) PROVE TypeOK'
    <2> DEFINE m == [penka |-> p, at |-> press[o].at, attempt |-> 1]
    <2>1. [press[o] EXCEPT !.unsent = @ \ {p}] \in PressState
      BY <1>1 DEF PressState
    <2>2. press' \in [Presses -> PressState]
      BY <1>7, <2>1, PressUpdate DEF Send, TypeOK
    <2>3. queue' = [queue EXCEPT ![m] = @ + 1] /\ queue \in [Command -> Nat]
      BY <1>7 DEF Send, TypeOK
    <2>4. queue' \in [Command -> Nat]
      <3> HIDE DEF m
      <3>1. CASE m \in Command
        BY <2>3, <3>1
      <3>2. CASE m \notin Command
        BY <2>3, <3>2
      <3> QED
        BY <3>1, <3>2
    <2> QED
      BY <1>7, <2>2, <2>4 DEF Send, TypeOK
  <1>8. ASSUME Confirm(o) PROVE TypeOK'
    <2>1. press' \in [Presses -> PressState]
      BY <1>8, PressMoves DEF Confirm, PressPcs
    <2> QED
      BY <1>8, <2>1 DEF Confirm, TypeOK
  <1>9. ASSUME Clear(o) PROVE TypeOK'
    <2>1. press' \in [Presses -> PressState]
      BY <1>9, PressMoves DEF Clear, PressPcs
    <2>2. faults' \in 0..MaxFaults
      BY <1>9, FaultTyped DEF Clear, TypeOK
    <2> QED
      BY <1>9, <2>1, <2>2 DEF Clear, TypeOK
  <1>10. ASSUME PublishFails(o) \/ PressCrash(o) PROVE TypeOK'
    <2>1. \A to \in PressPcs : [press[o] EXCEPT !.pc = to, !.unsent = {}] \in PressState
      BY <1>1 DEF PressState
    <2>2. press' \in [Presses -> PressState]
      BY <1>10, <2>1, PressUpdate DEF PublishFails, PressCrash, TypeOK, PressPcs
    <2>3. faults' \in 0..MaxFaults
      BY <1>10, FaultTyped DEF PublishFails, PressCrash, TypeOK
    <2> QED
      BY <1>10, <2>2, <2>3 DEF PublishFails, PressCrash, TypeOK
  <1> QED
    BY <1>2, <1>3, <1>4, <1>5, <1>6, <1>7, <1>8, <1>9, <1>10 DEF PressContinues

(* Close and set-result write the calendar; a creation writes its penka.   *)
LEMMA RequestTyped ==
  ASSUME TypeOK
  PROVE  /\ \A c \in Closers : CloseLoad(c) \/ CloseWrite(c) => TypeOK'
         /\ \A s \in Scorers : SetResultLoad(s) \/ SetResultWrite(s) => TypeOK'
         /\ \A p \in Penkas : StampPenka(p) \/ InsertPenka(p) \/ EnsureEntry(p)
                             \/ DiscardPenka(p) => TypeOK'
         /\ Tick => TypeOK'
  <1> USE DEF OperatorUnchanged, CreationUnchanged, calendar, founding, game, given, broker,
              operators
  <1>1. ASSUME NEW c \in Closers, CloseLoad(c) \/ CloseWrite(c) PROVE TypeOK'
    BY <1>1 DEF CloseLoad, CloseWrite, RequestLoads, RequestWrites, TypeOK, RequestPcs, Statuses
  <1>2. ASSUME NEW s \in Scorers, SetResultLoad(s) \/ SetResultWrite(s) PROVE TypeOK'
    <2>1. scorer' \in [Scorers -> RequestPcs]
      BY <1>2 DEF SetResultLoad, SetResultWrite, RequestLoads, RequestWrites, TypeOK, RequestPcs
    <2>2. outcome' \in [Fixtures -> Outcomes \cup {NoOutcome}]
      BY <1>2 DEF SetResultLoad, SetResultWrite, TypeOK
    <2> QED
      BY <1>2, <2>1, <2>2 DEF SetResultLoad, SetResultWrite, TypeOK
  <1>3. ASSUME NEW p \in Penkas,
               StampPenka(p) \/ InsertPenka(p) \/ EnsureEntry(p) \/ DiscardPenka(p)
        PROVE  TypeOK'
    <2>1. penka' \in [Penkas -> {"new", "stamped", "inserted", "live", "gone"}]
      BY <1>3 DEF StampPenka, InsertPenka, EnsureEntry, DiscardPenka, CreationGoes, TypeOK
    <2>2. created' \in [Penkas -> Instants \cup {0}]
      BY <1>3 DEF StampPenka, InsertPenka, EnsureEntry, DiscardPenka, TypeOK
    <2>3. faults' \in 0..MaxFaults
      BY <1>3, FaultTyped DEF StampPenka, InsertPenka, EnsureEntry, DiscardPenka, TypeOK
    <2> QED
      BY <1>3, <2>1, <2>2, <2>3
      DEF StampPenka, InsertPenka, EnsureEntry, DiscardPenka, TypeOK
  <1>4. ASSUME Tick PROVE TypeOK'
    <2>1. now' \in Instants
      BY <1>4, ConstantsAssumption DEF Tick, TypeOK, Instants
    <2> QED
      BY <1>4, <2>1 DEF Tick, TypeOK
  <1> QED
    BY <1>1, <1>2, <1>3, <1>4

(* The steps of a worker that touch nothing but its own state. *)
LEMMA WorkerLocalTyped ==
  ASSUME TypeOK, NEW w \in Workers,
         \/ Gate(w) \/ Decide(w) \/ BulksSettle(w) \/ FindWaiting(w) \/ Count(w) \/ Ack(w)
         \/ BulkFails(w) \/ ReadFails(w) \/ FinalizeFails(w)
         \/ \E what \in Reads : Read(w, what)
  PROVE  TypeOK'
  <1> USE DEF WorkerUnchanged, founding, game, given, broker, operators
  <1>1. worker[w] \in WorkerState /\ worker[w].seen.members \in SUBSET Entries
    BY DEF TypeOK, WorkerState
  <1>2. ASSUME Gate(w) \/ Count(w) \/ Ack(w) PROVE TypeOK'
    <2>1. worker' \in [Workers -> WorkerState]
      BY <1>2, WorkerMoves DEF Gate, Count, Ack, WorkerPcs
    <2> QED
      BY <1>2, <2>1 DEF Gate, Count, Ack, TypeOK
  <1>3. ASSUME Decide(w) PROVE TypeOK'
    <2>1. [worker[w] EXCEPT !.pc = "apply", !.todoEntries = worker[w].seen.members,
                            !.todoPicks = worker[w].seen.members] \in WorkerState
      BY <1>1 DEF WorkerState, WorkerPcs
    <2>2. worker' \in [Workers -> WorkerState]
      BY <1>3, <2>1, WorkerUpdate, WorkerMoves DEF Decide, TypeOK, WorkerPcs
    <2> QED
      BY <1>3, <2>2 DEF Decide, TypeOK
  <1>4. ASSUME BulksSettle(w) PROVE TypeOK'
    <2>1. worker' \in [Workers -> WorkerState]
      BY <1>4, WorkerMoves DEF BulksSettle, WorkerPcs
    <2> QED
      BY <1>4, <2>1 DEF BulksSettle, TypeOK
  <1>5. ASSUME FindWaiting(w) PROVE TypeOK'
    <2> DEFINE waiting == PenkasUpTo(worker[w].msg.at)
    <2>1. [worker[w] EXCEPT !.pc = "count", !.waiting = waiting] \in WorkerState
      BY <1>1 DEF WorkerState, WorkerPcs, PenkasUpTo
    <2>2. worker' \in [Workers -> WorkerState]
      BY <1>5, <2>1, WorkerUpdate, WorkerMoves DEF FindWaiting, TypeOK, WorkerPcs
    <2> QED
      BY <1>5, <2>2 DEF FindWaiting, TypeOK
  <1>6. ASSUME BulkFails(w) PROVE TypeOK'
    <2>1. /\ [worker[w] EXCEPT !.failed = TRUE, !.todoEntries = {}] \in WorkerState
          /\ [worker[w] EXCEPT !.failed = TRUE, !.todoPicks = {}] \in WorkerState
      BY <1>1 DEF WorkerState
    <2>2. worker' \in [Workers -> WorkerState]
      BY <1>6, <2>1, WorkerUpdate DEF BulkFails, TypeOK
    <2>3. faults' \in 0..MaxFaults
      BY <1>6, FaultTyped DEF BulkFails, TypeOK
    <2> QED
      BY <1>6, <2>2, <2>3 DEF BulkFails, TypeOK
  <1>7. ASSUME ReadFails(w) \/ FinalizeFails(w) PROVE TypeOK'
    <2>1. worker' \in [Workers -> WorkerState]
      BY <1>7, WorkerMoves DEF ReadFails, FinalizeFails, WorkerPcs
    <2>2. faults' \in 0..MaxFaults
      BY <1>7, FaultTyped DEF ReadFails, FinalizeFails, TypeOK
    <2> QED
      BY <1>7, <2>1, <2>2 DEF ReadFails, FinalizeFails, TypeOK
  <1>8. ASSUME NEW what \in Reads, Read(w, what) PROVE TypeOK'
    <2> DEFINE old == worker[w].seen
               mine == EntriesIn(MsgPenka(w))
               found == IsVisible(MsgPenka(w))
               copies == [e \in Entries |-> IF e \in mine THEN entries[e] ELSE NoEntry]
               new == CASE what = "penka" -> [old EXCEPT !.found = found]
                        [] what = "matchday" -> [old EXCEPT !.status = status]
                        [] what = "matches" -> [old EXCEPT !.outcome = outcome]
                        [] OTHER -> [old EXCEPT !.members = mine, !.entries = copies]
               Seen == [found: BOOLEAN, status: Statuses,
                        outcome: [Fixtures -> Outcomes \cup {NoOutcome}],
                        members: SUBSET Entries, entries: [Entries -> Entry]]
    <2>1. old \in Seen /\ status \in Statuses /\ outcome \in [Fixtures -> Outcomes \cup {NoOutcome}]
      BY <1>1 DEF WorkerState, TypeOK
    <2>2. found \in BOOLEAN /\ mine \in SUBSET Entries
      BY DEF EntriesIn, IsVisible
    <2>3. NoEntry \in Entry
      BY DEF NoEntry, Entry
    <2>4. copies \in [Entries -> Entry]
      BY <2>3 DEF TypeOK
    <2>5. new \in Seen
      <3> HIDE DEF found, mine, copies
      <3>1. [old EXCEPT !.found = found] \in Seen
        BY <2>1, <2>2
      <3>2. [old EXCEPT !.status = status] \in Seen
        BY <2>1
      <3>3. [old EXCEPT !.outcome = outcome] \in Seen
        BY <2>1
      <3>4. [old EXCEPT !.members = mine, !.entries = copies] \in Seen
        BY <2>1, <2>2, <2>4
      <3> QED
        BY <3>1, <3>2, <3>3, <3>4
    <2>6. [worker[w] EXCEPT !.got = @ \cup {what}, !.seen = new] \in WorkerState
      <3> HIDE DEF new
      <3> QED
        BY <1>1, <2>5 DEF WorkerState
    <2>7. worker' \in [Workers -> WorkerState]
      BY <1>8, <2>6, WorkerUpdate DEF Read, TypeOK
    <2> QED
      BY <1>8, <2>7 DEF Read, TypeOK
  <1> QED
    BY <1>2, <1>3, <1>4, <1>5, <1>6, <1>7, <1>8

(* The steps of a worker that write the game or the shared matchday, by a  *)
(* worker that holds a command.                                            *)
LEMMA WorkerWriteTyped ==
  ASSUME TypeOK, NEW w \in Workers, worker[w].msg \in Command,
         \/ InsertMarker(w) \/ MarkerFails(w) \/ Flip(w)
         \/ \E e \in Entries : WriteEntry(w, e) \/ WritePick(w, e)
  PROVE  TypeOK'
  <1> USE DEF WorkerUnchanged, founding, game, given, broker, operators
  <1>1. worker[w] \in WorkerState
    BY DEF TypeOK
  <1>2. MsgPenka(w) \in Penkas
    BY DEF MsgPenka, Command
  <1>3. ASSUME InsertMarker(w) \/ MarkerFails(w) PROVE TypeOK'
    <2>1. worker' \in [Workers -> WorkerState]
      BY <1>3, WorkerMoves DEF InsertMarker, MarkerFails, WorkerPcs
    <2>2. faults' \in 0..MaxFaults
      BY <1>3, FaultTyped DEF InsertMarker, MarkerFails, TypeOK
    <2>3. marker' \subseteq Penkas
      BY <1>2, <1>3 DEF InsertMarker, MarkerFails, TypeOK
    <2> QED
      BY <1>3, <2>1, <2>2, <2>3 DEF InsertMarker, MarkerFails, TypeOK
  <1>4. ASSUME Flip(w) PROVE TypeOK'
    <2>1. worker' \in [Workers -> WorkerState]
      BY <1>4, WorkerMoves DEF Flip, WorkerPcs
    <2> QED
      BY <1>4, <2>1 DEF Flip, TypeOK, Statuses
  <1>5. ASSUME NEW e \in Entries, WriteEntry(w, e) PROVE TypeOK'
    <2> DEFINE updated == EntryUpdate(entries[e], EffectOn(w, e))
    <2>1. /\ worker[w].seen.entries[e] \in Entry /\ entries[e] \in Entry
          /\ pick[e] \in Teams \cup {NoTeam} /\ IslandEnabled[MsgPenka(w)] \in BOOLEAN
      BY <1>1, <1>2, ConstantsAssumption DEF TypeOK, WorkerState
    <2>2. updated \in Entry
      BY <2>1, UpdateTyped DEF EffectOn
    <2>3. entries' \in [Entries -> Entry]
      <3>1. entries' = [entries EXCEPT ![e] = updated]
        BY <1>5 DEF WriteEntry
      <3> QED
        BY <2>2, <3>1 DEF TypeOK
    <2>4. hits' \in [Entries -> Nat]
      BY <1>5 DEF WriteEntry, TypeOK
    <2>5. [worker[w] EXCEPT !.todoEntries = @ \ {e}] \in WorkerState
      BY <1>1 DEF WorkerState
    <2>6. worker' \in [Workers -> WorkerState]
      BY <1>5, <2>5, WorkerUpdate DEF WriteEntry, TypeOK
    <2> QED
      BY <1>5, <2>3, <2>4, <2>6 DEF WriteEntry, TypeOK
  <1>6. ASSUME NEW e \in Entries, WritePick(w, e) PROVE TypeOK'
    <2>1. label' \in [Entries -> Results]
      BY <1>6, LabelTyped DEF WritePick, TypeOK
    <2>2. [worker[w] EXCEPT !.todoPicks = @ \ {e}] \in WorkerState
      BY <1>1 DEF WorkerState
    <2>3. worker' \in [Workers -> WorkerState]
      BY <1>6, <2>2, WorkerUpdate DEF WritePick, TypeOK
    <2> QED
      BY <1>6, <2>1, <2>3 DEF WritePick, TypeOK
  <1> QED
    BY <1>3, <1>4, <1>5, <1>6

(* The steps of a worker that move a command to or from the broker.        *)
LEMMA WorkerBrokerTyped ==
  ASSUME TypeOK, NEW w \in Workers, worker[w].pc # "idle" => worker[w].msg \in Command,
         Deliver(w) \/ DeadLetter(w) \/ Republish(w) \/ RepublishFails(w) \/ WorkerCrash(w)
  PROVE  TypeOK'
  <1> USE DEF WorkerUnchanged, founding, game, given, broker, operators
  <1>1. worker[w] \in WorkerState
    BY DEF TypeOK
  <1>2. ASSUME NEW m \in Command, BackInQueue(m) PROVE queue' \in [Command -> Nat]
    BY <1>2 DEF BackInQueue, TypeOK
  <1>3. ASSUME Deliver(w) PROVE TypeOK'
    <2> PICK m \in Command : /\ queue[m] > 0
                             /\ queue' = [queue EXCEPT ![m] = @ - 1]
                             /\ WorkerBecomes(w, [worker[w] EXCEPT !.pc = "gate", !.msg = m])
      BY <1>3 DEF Deliver
    <2>1. queue' \in [Command -> Nat]
      BY DEF TypeOK
    <2>2. [worker[w] EXCEPT !.pc = "gate", !.msg = m] \in WorkerState
      BY <1>1 DEF WorkerState, WorkerPcs
    <2>3. worker' \in [Workers -> WorkerState]
      BY <2>2, WorkerUpdate DEF TypeOK
    <2> QED
      BY <1>3, <2>1, <2>3 DEF Deliver, TypeOK
  <1>4. ASSUME DeadLetter(w) PROVE TypeOK'
    <2>1. worker' \in [Workers -> WorkerState]
      BY <1>4, WorkerMoves DEF DeadLetter, WorkerPcs
    <2> QED
      BY <1>4, <2>1 DEF DeadLetter, TypeOK
  <1>5. ASSUME Republish(w) PROVE TypeOK'
    <2>1. worker' \in [Workers -> WorkerState]
      BY <1>5, WorkerMoves DEF Republish, WorkerPcs
    <2>2. NextAttempt(worker[w].msg) \in Command
      BY <1>5, ConstantsAssumption DEF Republish, NextAttempt, Command
    <2>3. queue' \in [Command -> Nat]
      BY <1>2, <1>5, <2>2 DEF Republish
    <2> QED
      BY <1>5, <2>1, <2>3 DEF Republish, TypeOK
  <1>6. ASSUME RepublishFails(w) \/ WorkerCrash(w) PROVE TypeOK'
    <2>1. worker' \in [Workers -> WorkerState]
      BY <1>6, WorkerMoves DEF RepublishFails, WorkerCrash, WorkerPcs
    <2>2. queue' \in [Command -> Nat]
      BY <1>2, <1>6 DEF RepublishFails, WorkerCrash
    <2>3. faults' \in 0..MaxFaults
      BY <1>6, FaultTyped DEF RepublishFails, WorkerCrash, TypeOK
    <2> QED
      BY <1>6, <2>1, <2>2, <2>3 DEF RepublishFails, WorkerCrash, TypeOK
  <1> QED
    BY <1>3, <1>4, <1>5, <1>6

-----------------------------------------------------------------------------
(* Markers can be trusted. *)

(* What no step undoes: an applied effect, a label, a marker, a pick, and  *)
(* a founded penka.                                                        *)
Grows ==
  /\ \A e \in Entries : hits[e] > 0 => hits'[e] > 0
  /\ \A e \in Entries : label[e] # "none" => label'[e] # "none"
  /\ marker \subseteq marker'
  /\ pick' = pick

(* Writing an entry counts one hit, and takes none back.                   *)
LEMMA HitsGrow ==
  ASSUME TypeOK, NEW w \in Workers, NEW d \in Entries, WriteEntry(w, d)
  PROVE  /\ \A e \in Entries : hits[e] > 0 => hits'[e] > 0
         /\ hits'[d] > 0
  <1>1. hits \in [Entries -> Nat] /\ hits' = [hits EXCEPT ![d] = @ + 1]
    BY DEF WriteEntry, TypeOK
  <1> QED
    BY <1>1

(* Labelling a pick takes no label back.                                   *)
LEMMA LabelsGrow ==
  ASSUME TypeOK, NEW w \in Workers, NEW d \in Entries, WritePick(w, d)
  PROVE  /\ \A e \in Entries : label[e] # "none" => label'[e] # "none"
         /\ pick[d] # NoTeam => label'[d] # "none"
  <1>1. PickResultOf(EffectOn(w, d)) # "none"
    BY LabelTyped
  <1>2. label \in [Entries -> Results]
    BY DEF TypeOK
  <1> QED
    BY <1>1, <1>2 DEF WritePick

(* A step of anybody but worker w leaves what w knows true.                *)
LEMMA WorkerInvKept ==
  ASSUME TypeOK, Grows, NEW w \in Workers, WorkerInv(w), worker'[w] = worker[w]
  PROVE  WorkerInv(w)'
  <1> USE DEF WorkerInv
  <1>1. EntriesRead(w)'
    BY DEF EntriesRead
  <1>2. EffectsWritten(w)'
    <2> SUFFICES ASSUME worker[w].pc \in {"apply", "mark"}, worker[w].failed = FALSE
                 PROVE  /\ \A e \in worker[w].seen.members \ worker[w].todoEntries : hits'[e] > 0
                        /\ \A e \in worker[w].seen.members \ worker[w].todoPicks :
                             pick[e] # NoTeam => label'[e] # "none"
      BY DEF EffectsWritten, Grows
    <2>1. worker[w].seen.members \subseteq Entries
      BY DEF TypeOK, WorkerState
    <2> QED
      BY <2>1 DEF EffectsWritten, Grows
  <1>3. ReadyToMark(w)'
    BY DEF ReadyToMark
  <1>4. CountComplete(w)'
    BY DEF Grows, CountComplete
  <1> QED
    BY <1>1, <1>2, <1>3, <1>4

(* A worker that is between handlers knows nothing that could be wrong.    *)
LEMMA WorkerInvQuiet ==
  ASSUME NEW w \in Workers, worker'[w].got = {},
         worker'[w].pc \notin {"load", "apply", "mark", "count", "flip"},
         worker'[w].pc # "idle" => worker'[w].msg \in Command
  PROVE  WorkerInv(w)'
  BY DEF WorkerInv, EntriesRead, EffectsWritten, ReadyToMark, CountComplete

(* A worker's step writes its own state and nobody else's.                 *)
LEMMA OwnState ==
  ASSUME TypeOK, NEW w \in Workers, NEW r, WorkerBecomes(w, r)
  PROVE  worker'[w] = r /\ \A v \in Workers \ {w} : worker'[v] = worker[v]
  BY DEF WorkerBecomes, TypeOK

(* The fields a worker keeps, state by state.                              *)
Keeps(w) ==
  /\ worker'[w].msg = worker[w].msg /\ worker'[w].got = worker[w].got
  /\ worker'[w].seen = worker[w].seen /\ worker'[w].failed = worker[w].failed

(* What the three ways of moving on leave of a worker.                     *)
LEMMA Fields ==
  ASSUME TypeOK, NEW w \in Workers, NEW to
  PROVE  /\ HandlerOver(w, to) => worker'[w].pc = to /\ worker'[w].msg = worker[w].msg
                                  /\ worker'[w].got = {} /\ worker'[w].failed = FALSE
         /\ WorkerGoes(w, to) => worker'[w].pc = to /\ Keeps(w)
                                 /\ worker'[w].todoEntries = worker[w].todoEntries
                                 /\ worker'[w].todoPicks = worker[w].todoPicks
         /\ WorkerBecomes(w, IdleWorker) => worker'[w].pc = "idle" /\ worker'[w].got = {}
                                            /\ worker'[w].failed = FALSE
  <1>1. worker[w] \in WorkerState /\ worker \in [Workers -> WorkerState]
    BY DEF TypeOK
  <1>2. ASSUME HandlerOver(w, to)
        PROVE  worker'[w].pc = to /\ worker'[w].msg = worker[w].msg
               /\ worker'[w].got = {} /\ worker'[w].failed = FALSE
    <2>1. worker'[w] = [IdleWorker EXCEPT !.pc = to, !.msg = worker[w].msg]
      BY <1>1, <1>2 DEF HandlerOver, WorkerBecomes
    <2> QED
      BY <2>1 DEF IdleWorker
  <1>3. ASSUME WorkerGoes(w, to)
        PROVE  worker'[w].pc = to /\ Keeps(w)
               /\ worker'[w].todoEntries = worker[w].todoEntries
               /\ worker'[w].todoPicks = worker[w].todoPicks
    <2>1. worker'[w] = [worker[w] EXCEPT !.pc = to]
      BY <1>1, <1>3 DEF WorkerGoes, WorkerBecomes
    <2> QED
      BY <1>1, <2>1 DEF WorkerState, Keeps
  <1>4. ASSUME WorkerBecomes(w, IdleWorker)
        PROVE  worker'[w].pc = "idle" /\ worker'[w].got = {} /\ worker'[w].failed = FALSE
    <2>1. worker'[w] = IdleWorker
      BY <1>1, <1>4 DEF WorkerBecomes
    <2> QED
      BY <2>1 DEF IdleWorker
  <1> QED
    BY <1>2, <1>3, <1>4

(* What one of the five reads of a command adds to what its worker saw.    *)
LEMMA ReadFields ==
  ASSUME TypeOK, NEW w \in Workers, NEW what \in Reads, Read(w, what)
  PROVE  LET old == worker[w].seen
             new == worker'[w].seen
             mine == EntriesIn(MsgPenka(w))
         IN  /\ worker[w].pc = "load" /\ worker'[w].pc = "load"
             /\ worker'[w].msg = worker[w].msg /\ worker'[w].failed = worker[w].failed
             /\ worker'[w].got = worker[w].got \cup {what}
             /\ new.found = IF what = "penka" THEN IsVisible(MsgPenka(w)) ELSE old.found
             /\ new.status = IF what = "matchday" THEN status ELSE old.status
             /\ new.outcome = IF what = "matches" THEN outcome ELSE old.outcome
             /\ new.members = IF what = "entries" THEN mine ELSE old.members
             /\ \A e \in Entries :
                  new.entries[e] = IF what = "entries"
                                   THEN IF e \in mine THEN entries[e] ELSE NoEntry
                                   ELSE old.entries[e]
  <1> DEFINE old == worker[w].seen
             mine == EntriesIn(MsgPenka(w))
             found == IsVisible(MsgPenka(w))
             copies == [e \in Entries |-> IF e \in mine THEN entries[e] ELSE NoEntry]
             new == CASE what = "penka" -> [old EXCEPT !.found = found]
                      [] what = "matchday" -> [old EXCEPT !.status = status]
                      [] what = "matches" -> [old EXCEPT !.outcome = outcome]
                      [] OTHER -> [old EXCEPT !.members = mine, !.entries = copies]
  <1>1. worker[w] \in WorkerState /\ worker[w].pc = "load"
    BY DEF TypeOK, Read
  <1>2. old \in [found: BOOLEAN, status: Statuses,
                 outcome: [Fixtures -> Outcomes \cup {NoOutcome}],
                 members: SUBSET Entries, entries: [Entries -> Entry]]
    BY <1>1 DEF WorkerState
  <1>3. worker'[w] = [worker[w] EXCEPT !.got = @ \cup {what}, !.seen = new]
    BY OwnState DEF Read
  <1>4. /\ new.found = IF what = "penka" THEN found ELSE old.found
        /\ new.status = IF what = "matchday" THEN status ELSE old.status
        /\ new.outcome = IF what = "matches" THEN outcome ELSE old.outcome
        /\ new.members = IF what = "entries" THEN mine ELSE old.members
        /\ new.entries = IF what = "entries" THEN copies ELSE old.entries
    <2> HIDE DEF mine, found, copies, old
    <2> QED
      BY <1>2 DEF Reads
  <1> HIDE DEF new
  <1>5. /\ worker'[w].pc = "load" /\ worker'[w].msg = worker[w].msg
        /\ worker'[w].failed = worker[w].failed
        /\ worker'[w].got = worker[w].got \cup {what} /\ worker'[w].seen = new
    BY <1>1, <1>3 DEF WorkerState
  <1>6. \A e \in Entries :
          new.entries[e] = IF what = "entries"
                           THEN IF e \in mine THEN entries[e] ELSE NoEntry
                           ELSE old.entries[e]
    BY <1>4
  <1> QED
    BY <1>1, <1>4, <1>5, <1>6

(* What the decision to apply leaves of a worker: its two lists to write.  *)
LEMMA StartFields ==
  ASSUME TypeOK, NEW w \in Workers, NEW todo,
         WorkerBecomes(w, [worker[w] EXCEPT !.pc = "apply", !.todoEntries = todo,
                                            !.todoPicks = todo])
  PROVE  /\ worker'[w].pc = "apply" /\ Keeps(w)
         /\ worker'[w].todoEntries = todo /\ worker'[w].todoPicks = todo
  <1>1. worker[w] \in WorkerState
    BY DEF TypeOK
  <1>2. worker'[w] = [worker[w] EXCEPT !.pc = "apply", !.todoEntries = todo, !.todoPicks = todo]
    BY OwnState
  <1> QED
    BY <1>1, <1>2 DEF WorkerState, Keeps

(* What one write of a bulk leaves of a worker: one entry less on its list. *)
LEMMA WriteFields ==
  ASSUME TypeOK, NEW w \in Workers, NEW e \in Entries
  PROVE  /\ WriteEntry(w, e) => /\ worker'[w].pc = "apply" /\ Keeps(w)
                                /\ worker'[w].todoEntries = worker[w].todoEntries \ {e}
                                /\ worker'[w].todoPicks = worker[w].todoPicks
         /\ WritePick(w, e) => /\ worker'[w].pc = "apply" /\ Keeps(w)
                               /\ worker'[w].todoEntries = worker[w].todoEntries
                               /\ worker'[w].todoPicks = worker[w].todoPicks \ {e}
  <1>1. worker[w] \in WorkerState
    BY DEF TypeOK
  <1>2. ASSUME WriteEntry(w, e)
        PROVE  /\ worker'[w].pc = "apply" /\ Keeps(w)
               /\ worker'[w].todoEntries = worker[w].todoEntries \ {e}
               /\ worker'[w].todoPicks = worker[w].todoPicks
    <2>1. worker'[w] = [worker[w] EXCEPT !.todoEntries = @ \ {e}] /\ worker[w].pc = "apply"
      BY <1>2, OwnState DEF WriteEntry
    <2> QED
      BY <1>1, <2>1 DEF WorkerState, Keeps
  <1>3. ASSUME WritePick(w, e)
        PROVE  /\ worker'[w].pc = "apply" /\ Keeps(w)
               /\ worker'[w].todoEntries = worker[w].todoEntries
               /\ worker'[w].todoPicks = worker[w].todoPicks \ {e}
    <2>1. worker'[w] = [worker[w] EXCEPT !.todoPicks = @ \ {e}] /\ worker[w].pc = "apply"
      BY <1>3, OwnState DEF WritePick
    <2> QED
      BY <1>1, <2>1 DEF WorkerState, Keeps
  <1> QED
    BY <1>2, <1>3

(* A worker whose handler is over knows nothing that could be wrong.       *)
LEMMA HandlerOverQuiet ==
  ASSUME TypeOK, NEW w \in Workers, WorkerInv(w), worker[w].pc # "idle",
         \/ \E to \in {"ack", "retry", "findPenkas"} : HandlerOver(w, to)
         \/ WorkerBecomes(w, IdleWorker)
  PROVE  WorkerInv(w)'
  <1>1. worker[w].msg \in Command
    BY DEF WorkerInv
  <1>2. ASSUME NEW to \in {"ack", "retry", "findPenkas"}, HandlerOver(w, to) PROVE WorkerInv(w)'
    <2> DEFINE r == [IdleWorker EXCEPT !.pc = to, !.msg = worker[w].msg]
    <2>1. r.pc = to /\ r.got = {} /\ r.msg = worker[w].msg
      BY DEF IdleWorker
    <2>2. worker'[w] = r
      BY <1>2, OwnState DEF HandlerOver
    <2> QED
      BY <1>1, <2>1, <2>2, WorkerInvQuiet
  <1>3. ASSUME WorkerBecomes(w, IdleWorker) PROVE WorkerInv(w)'
    <2>1. IdleWorker.pc = "idle" /\ IdleWorker.got = {}
      BY DEF IdleWorker
    <2>2. worker'[w] = IdleWorker
      BY <1>3, OwnState
    <2> QED
      BY <2>1, <2>2, WorkerInvQuiet
  <1> QED
    BY <1>2, <1>3

(* Nor does one that moves on between handlers.                            *)
LEMMA MoveQuiet ==
  ASSUME TypeOK, NEW w \in Workers, WorkerInv(w), worker[w].got = {}, worker[w].pc # "idle",
         NEW to \in {"ack", "findPenkas", "confirm"}, WorkerGoes(w, to)
  PROVE  WorkerInv(w)'
  <1>1. worker[w] \in WorkerState /\ worker[w].msg \in Command
    BY DEF WorkerInv, TypeOK
  <1>2. worker'[w] = [worker[w] EXCEPT !.pc = to]
    BY OwnState DEF WorkerGoes
  <1>3. worker'[w].pc = to /\ worker'[w].got = {} /\ worker'[w].msg = worker[w].msg
    BY <1>1, <1>2 DEF WorkerState
  <1> QED
    BY <1>1, <1>3, WorkerInvQuiet

(* The gate, the reads and the engine's answer. *)
LEMMA LoadInv ==
  ASSUME TypeOK, FoundedStand, NEW w \in Workers, WorkerInv(w),
         \/ Deliver(w) \/ Gate(w) \/ Decide(w)
         \/ \E what \in Reads : Read(w, what)
  PROVE  WorkerInv(w)'
  <1>1. worker[w] \in WorkerState
    BY DEF TypeOK
  <1>2. ASSUME Deliver(w) PROVE WorkerInv(w)'
    <2> PICK m \in Command : WorkerBecomes(w, [worker[w] EXCEPT !.pc = "gate", !.msg = m])
      BY <1>2 DEF Deliver
    <2>1. worker'[w] = [worker[w] EXCEPT !.pc = "gate", !.msg = m]
      BY OwnState
    <2>2. worker'[w].pc = "gate" /\ worker'[w].got = worker[w].got /\ worker'[w].msg = m
      BY <1>1, <2>1 DEF WorkerState
    <2>3. worker[w].got = {}
      BY <1>2 DEF Deliver, WorkerInv
    <2> QED
      BY <2>2, <2>3, WorkerInvQuiet
  <1>3. ASSUME Gate(w) PROVE WorkerInv(w)'
    <2>1. worker[w].got = {} /\ worker[w].msg \in Command /\ worker[w].pc # "idle"
      BY <1>3 DEF Gate, WorkerInv
    <2>2. CASE WorkerGoes(w, "findPenkas")
      BY <2>1, <2>2, MoveQuiet
    <2>3. CASE WorkerGoes(w, "load")
      <3>1. worker'[w] = [worker[w] EXCEPT !.pc = "load"]
        BY <2>3, OwnState DEF WorkerGoes
      <3>2. worker'[w].pc = "load" /\ worker'[w].got = {} /\ worker'[w].msg = worker[w].msg
        BY <1>1, <2>1, <3>1 DEF WorkerState
      <3> QED
        BY <2>1, <3>2 DEF WorkerInv, EntriesRead, EffectsWritten, ReadyToMark, CountComplete
    <2> QED
      BY <1>3, <2>2, <2>3 DEF Gate
  <1>4. ASSUME Decide(w) PROVE WorkerInv(w)'
    <2> DEFINE members == worker[w].seen.members
    <2>1. worker[w].pc = "load" /\ worker[w].got = Reads /\ worker[w].msg \in Command
      BY <1>4 DEF Decide, WorkerInv
    <2>2. CASE HandlerOver(w, "ack") \/ HandlerOver(w, "retry")
      BY <2>1, <2>2, HandlerOverQuiet
    <2>3. CASE WorkerBecomes(w, [worker[w] EXCEPT !.pc = "apply", !.todoEntries = members,
                                                  !.todoPicks = members])
      <3>1. worker'[w] = [worker[w] EXCEPT !.pc = "apply", !.todoEntries = members,
                                           !.todoPicks = members]
        BY <2>3, OwnState
      <3>2. /\ worker'[w].pc = "apply" /\ worker'[w].got = Reads
            /\ worker'[w].msg = worker[w].msg /\ worker'[w].seen = worker[w].seen
            /\ worker'[w].todoEntries = members /\ worker'[w].todoPicks = members
        BY <1>1, <2>1, <3>1 DEF WorkerState
      <3>3. EntriesRead(w)'
        BY <2>1, <3>2 DEF WorkerInv, EntriesRead, Reads
      <3> QED
        BY <2>1, <3>2, <3>3 DEF WorkerInv, EffectsWritten, ReadyToMark, CountComplete
    <2> QED
      BY <1>4, <2>2, <2>3 DEF Decide
  <1>5. ASSUME NEW what \in Reads, Read(w, what) PROVE WorkerInv(w)'
    <2> DEFINE mine == EntriesIn(MsgPenka(w))
    <2>1. worker[w].pc = "load" /\ worker[w].msg \in Command /\ what \notin worker[w].got
      BY <1>5 DEF Read, WorkerInv
    <2>2. MsgPenka(w) \in Founded => mine = {e \in Entries : Owner[e] = MsgPenka(w)}
      BY DEF FoundedStand, EntriesIn
    <2>3. /\ worker'[w].pc = "load" /\ worker'[w].got = worker[w].got \cup {what}
          /\ worker'[w].msg = worker[w].msg
          /\ what = "entries" => worker'[w].seen.members = mine
          /\ what # "entries" => worker'[w].seen.members = worker[w].seen.members
      BY <1>5, ReadFields
    <2>4. EntriesRead(w)'
      BY <2>1, <2>2, <2>3 DEF WorkerInv, EntriesRead, MsgPenka
    <2> QED
      BY <2>1, <2>3, <2>4 DEF WorkerInv, EffectsWritten, ReadyToMark, CountComplete
  <1> QED
    BY <1>2, <1>3, <1>4, <1>5

(* The two bulk writes. *)
LEMMA ApplyInv ==
  ASSUME TypeOK, NEW w \in Workers, WorkerInv(w),
         \/ BulksSettle(w) \/ BulkFails(w)
         \/ \E e \in Entries : WriteEntry(w, e) \/ WritePick(w, e)
  PROVE  WorkerInv(w)'
  <1> DEFINE self == worker[w]
             next == worker'[w]
  <1>1. self \in WorkerState /\ self.seen.members \subseteq Entries
    BY DEF TypeOK, WorkerState
  <1>2. self.pc = "apply" /\ self.msg \in Command
    BY DEF BulksSettle, BulkFails, WriteEntry, WritePick, WorkerInv
  <1>3. ASSUME next.pc \in {"apply", "mark"}, next.got = self.got, next.msg = self.msg,
               next.seen = self.seen, EffectsWritten(w)', ReadyToMark(w)'
        PROVE  WorkerInv(w)'
    BY <1>2, <1>3 DEF WorkerInv, EntriesRead, CountComplete
  <1>4. ASSUME NEW d \in Entries, WriteEntry(w, d) PROVE WorkerInv(w)'
    <2>1. next = [self EXCEPT !.todoEntries = @ \ {d}]
      BY <1>4, OwnState DEF WriteEntry
    <2>2. /\ next.pc = "apply" /\ next.got = self.got /\ next.msg = self.msg
          /\ next.seen = self.seen /\ next.failed = self.failed
          /\ next.todoEntries = self.todoEntries \ {d} /\ next.todoPicks = self.todoPicks
      BY <1>1, <1>2, <2>1 DEF WorkerState
    <2>3. label' = label /\ pick' = pick
      BY <1>4 DEF WriteEntry, WorkerUnchanged, given
    <2> HIDE DEF self, next
    <2>4. EffectsWritten(w)'
      <3> SUFFICES ASSUME self.failed = FALSE
                   PROVE  /\ \A e \in self.seen.members \ (self.todoEntries \ {d}) : hits'[e] > 0
                          /\ \A e \in self.seen.members \ self.todoPicks :
                               pick[e] # NoTeam => label[e] # "none"
        BY <2>2, <2>3 DEF EffectsWritten, next
      <3> QED
        BY <1>1, <1>2, <1>4, HitsGrow DEF WorkerInv, EffectsWritten, self
    <2>5. ReadyToMark(w)'
      BY <2>2 DEF ReadyToMark, next
    <2> QED
      BY <1>3, <2>2, <2>4, <2>5
  <1>5. ASSUME NEW d \in Entries, WritePick(w, d) PROVE WorkerInv(w)'
    <2>1. next = [self EXCEPT !.todoPicks = @ \ {d}]
      BY <1>5, OwnState DEF WritePick
    <2>2. /\ next.pc = "apply" /\ next.got = self.got /\ next.msg = self.msg
          /\ next.seen = self.seen /\ next.failed = self.failed
          /\ next.todoEntries = self.todoEntries /\ next.todoPicks = self.todoPicks \ {d}
      BY <1>1, <1>2, <2>1 DEF WorkerState
    <2>3. hits' = hits /\ pick' = pick
      BY <1>5 DEF WritePick, WorkerUnchanged, given
    <2> HIDE DEF self, next
    <2>4. EffectsWritten(w)'
      <3> SUFFICES ASSUME self.failed = FALSE
                   PROVE  /\ \A e \in self.seen.members \ self.todoEntries : hits[e] > 0
                          /\ \A e \in self.seen.members \ (self.todoPicks \ {d}) :
                               pick[e] # NoTeam => label'[e] # "none"
        BY <2>2, <2>3 DEF EffectsWritten, next
      <3> QED
        BY <1>1, <1>2, <1>5, LabelsGrow DEF WorkerInv, EffectsWritten, self
    <2>5. ReadyToMark(w)'
      BY <2>2 DEF ReadyToMark, next
    <2> QED
      BY <1>3, <2>2, <2>4, <2>5
  <1>6. ASSUME BulkFails(w) PROVE WorkerInv(w)'
    <2>1. next = [self EXCEPT !.failed = TRUE, !.todoEntries = {}]
            \/ next = [self EXCEPT !.failed = TRUE, !.todoPicks = {}]
      BY <1>6, OwnState DEF BulkFails
    <2>2. /\ next.pc = "apply" /\ next.got = self.got /\ next.msg = self.msg
          /\ next.seen = self.seen /\ next.failed = TRUE
      BY <1>1, <1>2, <2>1 DEF WorkerState
    <2>3. EffectsWritten(w)' /\ ReadyToMark(w)'
      BY <2>2 DEF EffectsWritten, ReadyToMark
    <2> QED
      BY <1>3, <2>2, <2>3
  <1>7. ASSUME BulksSettle(w) PROVE WorkerInv(w)'
    <2>1. CASE HandlerOver(w, "retry")
      BY <1>2, <2>1, HandlerOverQuiet
    <2>2. CASE WorkerGoes(w, "mark") /\ self.failed = FALSE
      <3>1. next = [self EXCEPT !.pc = "mark"]
        BY <2>2, OwnState DEF WorkerGoes
      <3>2. /\ next.pc = "mark" /\ next.got = self.got /\ next.msg = self.msg
            /\ next.seen = self.seen /\ next.failed = FALSE
            /\ next.todoEntries = self.todoEntries /\ next.todoPicks = self.todoPicks
        BY <1>1, <2>2, <3>1 DEF WorkerState
      <3>3. self.todoEntries = {} /\ self.todoPicks = {}
        BY <1>7 DEF BulksSettle
      <3>4. hits' = hits /\ label' = label /\ pick' = pick
        BY <1>7 DEF BulksSettle, WorkerUnchanged, given, game
      <3>5. EffectsWritten(w)
        BY DEF WorkerInv
      <3>6. EffectsWritten(w)'
        BY <1>2, <2>2, <3>2, <3>4, <3>5 DEF EffectsWritten
      <3>7. ReadyToMark(w)'
        BY <3>2, <3>3 DEF ReadyToMark
      <3> QED
        BY <1>3, <3>2, <3>6, <3>7
    <2>3. self.failed \in BOOLEAN
      BY <1>1 DEF WorkerState
    <2> QED
      BY <1>7, <2>1, <2>2, <2>3 DEF BulksSettle
  <1> QED
    BY <1>4, <1>5, <1>6, <1>7

(* The finalizer: founded penkas are live and older than any request.      *)
LEMMA FinalizeInv ==
  ASSUME TypeOK, FoundedStand, NEW w \in Workers, WorkerInv(w),
         FindWaiting(w) \/ Count(w) \/ Flip(w) \/ FinalizeFails(w)
  PROVE  WorkerInv(w)'
  <1> DEFINE self == worker[w]
             next == worker'[w]
  <1>1. self \in WorkerState
    BY DEF TypeOK
  <1>2. self.pc \in {"findPenkas", "count", "flip"} /\ self.msg \in Command /\ self.got = {}
    BY DEF FindWaiting, Count, Flip, FinalizeFails, WorkerInv
  <1>3. CASE HandlerOver(w, "ack")
    BY <1>2, <1>3, HandlerOverQuiet
  <1>4. CASE WorkerGoes(w, "ack")
    BY <1>2, <1>4, MoveQuiet
  <1>5. ASSUME next.pc \in {"count", "flip"}, next.got = {}, next.msg = self.msg,
               CountComplete(w)'
        PROVE  WorkerInv(w)'
    BY <1>2, <1>5 DEF WorkerInv, EntriesRead, EffectsWritten, ReadyToMark
  <1>6. ASSUME FindWaiting(w),
               WorkerBecomes(w, [self EXCEPT !.pc = "count", !.waiting = PenkasUpTo(self.msg.at)])
        PROVE  WorkerInv(w)'
    <2>1. next = [self EXCEPT !.pc = "count", !.waiting = PenkasUpTo(self.msg.at)]
      BY <1>6, OwnState
    <2>2. /\ next.pc = "count" /\ next.got = {} /\ next.msg = self.msg
          /\ next.waiting = PenkasUpTo(self.msg.at)
      BY <1>1, <1>2, <2>1 DEF WorkerState
    <2>3. self.msg.at \in Nat
      BY <1>2 DEF Command, Instants
    <2>4. Founded \subseteq PenkasUpTo(self.msg.at)
      BY <2>3, ConstantsAssumption DEF FoundedStand, PenkasUpTo, IsVisible
    <2> QED
      BY <1>5, <2>2, <2>4 DEF CountComplete
  <1>7. ASSUME Count(w), WorkerGoes(w, "flip"), self.waiting \subseteq marker PROVE WorkerInv(w)'
    <2>1. next = [self EXCEPT !.pc = "flip"]
      BY <1>7, OwnState DEF WorkerGoes
    <2>2. /\ next.pc = "flip" /\ next.got = {} /\ next.msg = self.msg
          /\ next.waiting = self.waiting
      BY <1>1, <1>2, <2>1 DEF WorkerState
    <2>3. Founded \subseteq self.waiting /\ marker' = marker
      BY <1>7 DEF Count, WorkerInv, CountComplete, game
    <2> QED
      BY <1>5, <1>7, <2>2, <2>3 DEF CountComplete
  <1> QED
    BY <1>3, <1>4, <1>6, <1>7 DEF FindWaiting, Count, Flip, FinalizeFails

(* The marker, and the consumer's answers. *)
LEMMA AnswerInv ==
  ASSUME TypeOK, NEW w \in Workers, WorkerInv(w),
         \/ InsertMarker(w) \/ MarkerFails(w) \/ ReadFails(w)
         \/ Ack(w) \/ DeadLetter(w) \/ Republish(w) \/ RepublishFails(w) \/ WorkerCrash(w)
  PROVE  WorkerInv(w)'
  <1>1. CASE \/ InsertMarker(w) \/ MarkerFails(w) \/ ReadFails(w)
             \/ Ack(w) \/ DeadLetter(w) \/ RepublishFails(w) \/ WorkerCrash(w)
    BY <1>1, HandlerOverQuiet
    DEF InsertMarker, MarkerFails, ReadFails, Ack, DeadLetter, RepublishFails, WorkerCrash
  <1>2. CASE Republish(w)
    <2>1. worker[w].got = {} /\ worker[w].pc # "idle"
      BY <1>2 DEF Republish, WorkerInv
    <2> QED
      BY <1>2, <2>1, MoveQuiet DEF Republish
  <1> QED
    BY <1>1, <1>2

(* A worker's own step keeps what it knows true.                           *)
LEMMA WorkerStepInv ==
  ASSUME TypeOK, FoundedStand, NEW w \in Workers, WorkerInv(w), WorkerStep(w) \/ WorkerFault(w)
  PROVE  WorkerInv(w)'
  BY LoadInv, ApplyInv, FinalizeInv, AnswerInv DEF WorkerStep, WorkerFault

(* A worker's step keeps the types. *)
LEMMA WorkerStepTyped ==
  ASSUME TypeOK, NEW w \in Workers, WorkerInv(w), WorkerStep(w) \/ WorkerFault(w)
  PROVE  TypeOK'
  <1>1. worker[w].pc # "idle" => worker[w].msg \in Command
    BY DEF WorkerInv
  <1>2. InsertMarker(w) \/ MarkerFails(w) \/ Flip(w)
          \/ (\E e \in Entries : WriteEntry(w, e) \/ WritePick(w, e)) => worker[w].pc # "idle"
    BY DEF InsertMarker, MarkerFails, Flip, WriteEntry, WritePick
  <1> QED
    BY <1>1, <1>2, WorkerLocalTyped, WorkerWriteTyped, WorkerBrokerTyped
    DEF WorkerStep, WorkerFault

(* Every step keeps the types. *)
LEMMA NextTyped ==
  ASSUME TypeOK, \A w \in Workers : WorkerInv(w), [Next]_vars
  PROVE  TypeOK'
  <1>1. CASE UNCHANGED vars
    BY <1>1 DEF TypeOK, vars, calendar, founding, game, given, broker, operators
  <1>2. CASE Next
    BY <1>2, PressTyped, RequestTyped, WorkerStepTyped DEF Next
  <1> QED
    BY <1>1, <1>2

(* Nobody but worker w changes what is stored in the game, and no step     *)
(* takes anything back.                                                    *)
LEMMA WorkerGrows ==
  ASSUME TypeOK, NEW w \in Workers, WorkerStep(w) \/ WorkerFault(w)
  PROVE  Grows /\ founding' = founding /\ \A v \in Workers \ {w} : worker'[v] = worker[v]
  <1> USE DEF WorkerUnchanged, game, given, founding
  <1>1. CASE \E e \in Entries : WriteEntry(w, e)
    BY <1>1, HitsGrow, OwnState DEF WriteEntry, Grows
  <1>2. CASE \E e \in Entries : WritePick(w, e)
    BY <1>2, LabelsGrow, OwnState DEF WritePick, Grows
  <1>3. CASE InsertMarker(w) \/ MarkerFails(w)
    BY <1>3, OwnState DEF InsertMarker, MarkerFails, HandlerOver, Grows
  <1>4. CASE Deliver(w) \/ Gate(w) \/ Decide(w) \/ \E what \in Reads : Read(w, what)
    BY <1>4, OwnState DEF Deliver, Gate, Decide, Read, WorkerGoes, HandlerOver, Grows
  <1>5. CASE BulksSettle(w) \/ BulkFails(w) \/ ReadFails(w)
    BY <1>5, OwnState DEF BulksSettle, BulkFails, ReadFails, WorkerGoes, HandlerOver, Grows
  <1>6. CASE FindWaiting(w) \/ Count(w) \/ Flip(w) \/ FinalizeFails(w)
    BY <1>6, OwnState DEF FindWaiting, Count, Flip, FinalizeFails, WorkerGoes, HandlerOver, Grows
  <1>7. CASE Ack(w) \/ DeadLetter(w) \/ Republish(w) \/ RepublishFails(w) \/ WorkerCrash(w)
    BY <1>7, OwnState
    DEF Ack, DeadLetter, Republish, RepublishFails, WorkerCrash, WorkerGoes, Grows
  <1> QED
    BY <1>1, <1>2, <1>3, <1>4, <1>5, <1>6, <1>7 DEF WorkerStep, WorkerFault

(* A step of no worker leaves the game and the workers alone. *)
LEMMA OthersGrow ==
  ASSUME TypeOK, FoundedStand, [Next]_vars,
         ~\E w \in Workers : WorkerStep(w) \/ WorkerFault(w)
  PROVE  /\ Grows /\ worker' = worker /\ marker' = marker /\ hits' = hits /\ label' = label
         /\ FoundedStand'
         /\ status' = "resolved" => status = "resolved"
  <1> USE DEF Grows, game, given, founding, calendar
  <1>1. CASE UNCHANGED vars
    BY <1>1 DEF vars, FoundedStand
  <1>2. CASE \E o \in Presses :
               PressLoad(o) \/ PressContinues(o) \/ PublishFails(o) \/ PressCrash(o)
    BY <1>2 DEF PressContinues, PressLoad, PressCheck, Claim, Join, FindPenkas, Send, Confirm,
                Clear, PublishFails, PressCrash, PressUnchanged, FoundedStand
  <1>3. CASE \/ \E c \in Closers : CloseLoad(c) \/ CloseWrite(c)
             \/ \E s \in Scorers : SetResultLoad(s) \/ SetResultWrite(s)
             \/ Tick
    BY <1>3 DEF CloseLoad, CloseWrite, SetResultLoad, SetResultWrite, Tick, OperatorUnchanged,
                FoundedStand
  <1>4. CASE \E p \in Penkas : StampPenka(p) \/ InsertPenka(p) \/ EnsureEntry(p) \/ DiscardPenka(p)
    <2> PICK p \in Penkas : StampPenka(p) \/ InsertPenka(p) \/ EnsureEntry(p) \/ DiscardPenka(p)
      BY <1>4
    <2>1. penka[p] # "live"
      BY DEF StampPenka, InsertPenka, EnsureEntry, DiscardPenka, CreationGoes
    <2>2. \A q \in Penkas \ {p} : penka'[q] = penka[q] /\ created'[q] = created[q]
      BY DEF StampPenka, InsertPenka, EnsureEntry, DiscardPenka, CreationGoes, TypeOK
    <2>3. FoundedStand'
      BY <2>1, <2>2, ConstantsAssumption DEF FoundedStand
    <2> QED
      BY <2>3 DEF StampPenka, InsertPenka, EnsureEntry, DiscardPenka, CreationUnchanged
  <1> QED
    BY <1>1, <1>2, <1>3, <1>4 DEF Next

(* A marker is stored only by a worker that applied every effect.          *)
LEMMA MarkerStep ==
  ASSUME TypeOK, MarkerMeansApplied, NEW w \in Workers, WorkerInv(w),
         WorkerStep(w) \/ WorkerFault(w)
  PROVE  MarkerMeansApplied'
  <1> SUFFICES ASSUME NEW e \in Entries, Owner[e] \in marker' \cap Founded
               PROVE  hits'[e] > 0 /\ (pick[e] # NoTeam => label'[e] # "none")
    <2>1. Grows
      BY WorkerGrows
    <2> QED
      BY <2>1 DEF MarkerMeansApplied, Grows
  <1>1. Grows
    BY WorkerGrows
  <1>2. CASE Owner[e] \in marker
    BY <1>1, <1>2 DEF MarkerMeansApplied, Grows
  <1>3. CASE Owner[e] \notin marker
    <2>1. InsertMarker(w) \/ MarkerFails(w)
      BY <1>3
      DEF WorkerStep, WorkerFault, Deliver, Gate, Decide, BulksSettle, Read, WriteEntry, WritePick,
          FindWaiting, Count, Flip, Ack, DeadLetter, Republish, BulkFails, ReadFails,
          FinalizeFails, RepublishFails, WorkerCrash, game
    <2>2. worker[w].pc = "mark" /\ Owner[e] = worker[w].msg.penka
      BY <1>3, <2>1 DEF InsertMarker, MarkerFails, MsgPenka
    <2>3. e \in worker[w].seen.members
      BY <2>2 DEF WorkerInv, EntriesRead
    <2>4. hits[e] > 0 /\ (pick[e] # NoTeam => label[e] # "none")
      BY <2>2, <2>3 DEF WorkerInv, EffectsWritten, ReadyToMark
    <2> QED
      BY <1>1, <2>4 DEF Grows
  <1> QED
    BY <1>2, <1>3

(* Only a worker that counted every founded penka's marker flips.          *)
LEMMA FlipStep ==
  ASSUME TypeOK, NoSiblingSkipped, NEW w \in Workers, WorkerInv(w),
         WorkerStep(w) \/ WorkerFault(w)
  PROVE  NoSiblingSkipped'
  <1>1. marker \subseteq marker'
    BY WorkerGrows DEF Grows
  <1>2. CASE Flip(w)
    <2>1. Founded \subseteq marker
      BY <1>2 DEF Flip, WorkerInv, CountComplete
    <2> QED
      BY <1>1, <2>1 DEF NoSiblingSkipped
  <1>3. CASE status' = status
    BY <1>1, <1>3 DEF NoSiblingSkipped
  <1>4. ~Flip(w) => status' = status
    BY DEF WorkerStep, WorkerFault, Deliver, Gate, Decide, BulksSettle, Read, WriteEntry, WritePick,
          FindWaiting, Count, Ack, DeadLetter, Republish, BulkFails, ReadFails, InsertMarker,
          MarkerFails, FinalizeFails, RepublishFails, WorkerCrash
  <1> QED
    BY <1>2, <1>3, <1>4

(* Every initial state is trustworthy: nothing is marked, nobody works.    *)
LEMMA TrustInit == Init => MarkersTrustworthy
  <1> SUFFICES ASSUME Init PROVE MarkersTrustworthy
    OBVIOUS
  <1>1. FoundedStand
    BY ConstantsAssumption DEF Init, FoundedStand
  <1>2. ASSUME NEW w \in Workers PROVE WorkerInv(w)
    <2>1. worker[w].pc = "idle" /\ worker[w].got = {}
      BY DEF Init, IdleWorker
    <2> QED
      BY <2>1 DEF WorkerInv, EntriesRead, EffectsWritten, ReadyToMark, CountComplete
  <1>3. MarkerMeansApplied /\ NoSiblingSkipped
    BY ConstantsAssumption DEF Init, MarkerMeansApplied, NoSiblingSkipped
  <1> QED
    BY <1>1, <1>2, <1>3 DEF MarkersTrustworthy

(* Every step keeps the markers trustworthy.                               *)
LEMMA TrustStep ==
  ASSUME TypeOK, MarkersTrustworthy, [Next]_vars
  PROVE  MarkersTrustworthy'
  <1> USE DEF MarkersTrustworthy
  <1>1. ASSUME NEW w \in Workers, WorkerStep(w) \/ WorkerFault(w) PROVE MarkersTrustworthy'
    <2>1. Grows /\ founding' = founding /\ \A v \in Workers \ {w} : worker'[v] = worker[v]
      BY <1>1, WorkerGrows
    <2>2. FoundedStand'
      BY <2>1 DEF FoundedStand, founding
    <2>3. ASSUME NEW v \in Workers PROVE WorkerInv(v)'
      BY <1>1, <2>1, WorkerInvKept, WorkerStepInv
    <2>4. MarkerMeansApplied' /\ NoSiblingSkipped'
      BY <1>1, MarkerStep, FlipStep
    <2> QED
      BY <2>2, <2>3, <2>4
  <1>2. ASSUME ~\E w \in Workers : WorkerStep(w) \/ WorkerFault(w) PROVE MarkersTrustworthy'
    <2>1. /\ Grows /\ worker' = worker /\ marker' = marker /\ hits' = hits /\ label' = label
          /\ FoundedStand'
          /\ status' = "resolved" => status = "resolved"
      BY <1>2, OthersGrow
    <2>2. ASSUME NEW v \in Workers PROVE WorkerInv(v)'
      BY <2>1, WorkerInvKept
    <2>3. MarkerMeansApplied' /\ NoSiblingSkipped'
      BY <2>1 DEF MarkerMeansApplied, NoSiblingSkipped, Grows
    <2> QED
      BY <2>1, <2>2, <2>3
  <1> QED
    BY <1>1, <1>2

-----------------------------------------------------------------------------
(* Type correctness and the trust invariant, together: a worker that acts  *)
(* on a command holds one.                                                 *)
THEOREM Invariance == Spec => [](TypeOK /\ MarkersTrustworthy)
  <1>1. Init => TypeOK /\ MarkersTrustworthy
    BY TypeInit, TrustInit
  <1>2. TypeOK /\ MarkersTrustworthy /\ [Next]_vars => (TypeOK /\ MarkersTrustworthy)'
    BY NextTyped, TrustStep DEF MarkersTrustworthy
  <1> QED
    BY <1>1, <1>2, PTL DEF Spec

(* Types hold whatever fails or runs concurrently: lives never go negative *)
(* and retries never count past the limit.                                 *)
THEOREM TypeCorrect == Spec => []TypeOK
  BY Invariance, PTL

(* Whatever crashes, fails, is duplicated or runs concurrently, a penka    *)
(* that has a resolution document had every entry moved and every pick     *)
(* labelled first.                                                         *)
THEOREM MarkerLast == Spec => []MarkerMeansApplied
  <1>1. MarkersTrustworthy => MarkerMeansApplied
    BY DEF MarkersTrustworthy
  <1> QED
    BY <1>1, Invariance, PTL

(* Whatever happens, the shared matchday is not resolved before every      *)
(* penka that existed at the first request.                                *)
THEOREM FlipAfterAll == Spec => []NoSiblingSkipped
  <1>1. MarkersTrustworthy => NoSiblingSkipped
    BY DEF MarkersTrustworthy
  <1> QED
    BY <1>1, Invariance, PTL

-----------------------------------------------------------------------------
(* No command is lost. *)

(* A worker that holds its command unanswered.  One whose counted copy has *)
(* gone out, or that is about to ack, does not: nobody relies on it.       *)
Holding(w) == worker[w].pc \in {"gate", "load", "apply", "mark", "retry"}

IsPending(p) ==
  \E m \in Command : m.penka = p /\
    (queue[m] > 0 \/ m \in dead \/ \E w \in Workers : Holding(w) /\ worker[w].msg = m)

Settled(p) == p \in marker \/ IsPending(p)

(* What a worker knows of a founded penka: it exists; whoever finalizes or *)
(* acks has seen its marker, and a matchday read as resolved has them all. *)
KnowsFounded(w) ==
  LET self == worker[w]
  IN  self.msg.penka \in Founded =>
        /\ self.pc \in {"findPenkas", "count", "flip", "ack"} => self.msg.penka \in marker
        /\ "penka" \in self.got => self.seen.found
        /\ "matchday" \in self.got /\ self.seen.status = "resolved" => Founded \subseteq marker

(* What a press has sent so far is settled or on its way. *)
SentSound(o) ==
  LET self == press[o]
  IN  /\ self.pc \in {"find", "send"} => self.at \in Instants
      /\ self.pc = "queued" => self.unsent = {}
      /\ self.pc \in {"send", "queued"} =>
           \A p \in (self.targets \ self.unsent) \cap Founded : Settled(p)

Accounted ==
  /\ \A w \in Workers : KnowsFounded(w)
  /\ \A o \in Presses : SentSound(o)

(* A command comes back to the queue; the other ones stay in it.           *)
LEMMA Requeued ==
  ASSUME TypeOK, NEW m \in Command, BackInQueue(m)
  PROVE  queue'[m] > 0 /\ \A c \in Command : queue[c] > 0 => queue'[c] > 0
  <1>1. queue \in [Command -> Nat] /\ queue' = [queue EXCEPT ![m] = @ + 1]
    BY DEF TypeOK, BackInQueue
  <1> QED
    BY <1>1

(* A worker answers what it holds or hands it on.                          *)
HandsOn(w) ==
  /\ \A m \in Command : queue[m] > 0 => queue'[m] > 0 \/ (Holding(w)' /\ worker'[w].msg = m)
  /\ dead \subseteq dead'
  /\ Holding(w) /\ MsgPenka(w) \in Founded =>
       \/ Holding(w)' /\ worker'[w].msg = worker[w].msg
       \/ MsgPenka(w) \in marker'
       \/ \E m \in Command : m.penka = MsgPenka(w) /\ (queue'[m] > 0 \/ m \in dead')
  /\ KnowsFounded(w)'

(* A worker that is loading lets no command go without settling it.        *)
LEMMA LoadHandsOn ==
  ASSUME TypeOK, FoundedStand, NoSiblingSkipped, NEW w \in Workers, WorkerInv(w), KnowsFounded(w),
         \/ Gate(w) \/ Decide(w) \/ ReadFails(w)
         \/ \E what \in Reads : Read(w, what)
  PROVE  HandsOn(w)
  <1>1. worker[w] \in WorkerState /\ UNCHANGED <<queue, dead, marker>>
    BY DEF TypeOK, Gate, Decide, ReadFails, Read, game, broker
  <1>2. CASE Gate(w)
    <2>1. worker[w].got = {}
      BY <1>2 DEF Gate, WorkerInv
    <2>2. CASE MsgPenka(w) \in marker /\ WorkerGoes(w, "findPenkas")
      BY <1>1, <2>1, <2>2, Fields DEF Keeps, HandsOn, Holding, KnowsFounded, MsgPenka
    <2>3. CASE WorkerGoes(w, "load")
      BY <1>1, <2>1, <2>3, Fields DEF Keeps, HandsOn, Holding, KnowsFounded, MsgPenka
    <2> QED
      BY <1>2, <2>2, <2>3 DEF Gate
  <1>3. CASE ReadFails(w)
    <2>1. HandlerOver(w, "retry")
      BY <1>3 DEF ReadFails
    <2> QED
      BY <1>1, <2>1, Fields DEF Keeps, HandsOn, Holding, KnowsFounded
  <1>4. CASE Decide(w)
    <2> DEFINE seen == worker[w].seen
               answer == Rejection(seen.status, Matches(seen.outcome))
    <2>1. worker[w].pc = "load" /\ worker[w].got = Reads
      BY <1>4 DEF Decide
    <2>2. CASE (~seen.found \/ answer = "already_resolved") /\ HandlerOver(w, "ack")
      <3>1. answer = "already_resolved" => seen.status = "resolved"
        BY DEF Rejection
      <3>2. MsgPenka(w) \in Founded => MsgPenka(w) \in marker
        BY <2>1, <2>2, <3>1 DEF KnowsFounded, Reads, MsgPenka
      <3> QED
        BY <1>1, <2>2, <3>2, Fields DEF Keeps, HandsOn, Holding, KnowsFounded, MsgPenka
    <2>3. CASE HandlerOver(w, "retry")
      BY <1>1, <2>3, Fields DEF Keeps, HandsOn, Holding, KnowsFounded
    <2>4. CASE WorkerBecomes(w, [worker[w] EXCEPT !.pc = "apply", !.todoEntries = seen.members,
                                                  !.todoPicks = seen.members])
      <3>1. worker'[w] = [worker[w] EXCEPT !.pc = "apply", !.todoEntries = seen.members,
                                           !.todoPicks = seen.members]
        BY <2>4, OwnState
      <3>2. /\ worker'[w].pc = "apply" /\ worker'[w].msg = worker[w].msg
            /\ worker'[w].got = worker[w].got /\ worker'[w].seen = worker[w].seen
        BY <1>1, <3>1 DEF WorkerState
      <3> QED
        BY <1>1, <3>2 DEF HandsOn, Holding, KnowsFounded
    <2> QED
      BY <1>4, <2>2, <2>3, <2>4 DEF Decide
  <1>5. ASSUME NEW what \in Reads, Read(w, what) PROVE HandsOn(w)
    <2>1. MsgPenka(w) \in Founded => IsVisible(MsgPenka(w))
      BY DEF FoundedStand, IsVisible
    <2>2. /\ worker[w].pc = "load" /\ worker'[w].pc = "load" /\ worker'[w].msg = worker[w].msg
          /\ worker'[w].got = worker[w].got \cup {what}
          /\ what = "penka" => worker'[w].seen.found = IsVisible(MsgPenka(w))
          /\ what # "penka" => worker'[w].seen.found = worker[w].seen.found
          /\ what = "matchday" => worker'[w].seen.status = status
          /\ what # "matchday" => worker'[w].seen.status = worker[w].seen.status
      BY <1>5, ReadFields
    <2>3. KnowsFounded(w)'
      BY <1>1, <2>1, <2>2 DEF KnowsFounded, NoSiblingSkipped, MsgPenka
    <2> QED
      BY <1>1, <2>2, <2>3 DEF HandsOn, Holding
  <1> QED
    BY <1>2, <1>3, <1>4, <1>5

(* Nor does one that applies the command or records that it did.           *)
LEMMA ApplyHandsOn ==
  ASSUME TypeOK, NEW w \in Workers, WorkerInv(w), KnowsFounded(w),
         \/ BulksSettle(w) \/ BulkFails(w) \/ InsertMarker(w) \/ MarkerFails(w)
         \/ \E e \in Entries : WriteEntry(w, e) \/ WritePick(w, e)
  PROVE  HandsOn(w)
  <1>1. /\ worker[w] \in WorkerState /\ UNCHANGED <<queue, dead>> /\ marker \subseteq marker'
        /\ worker[w].pc \in {"apply", "mark"}
    BY DEF TypeOK, BulksSettle, BulkFails, InsertMarker, MarkerFails, WriteEntry, WritePick, game,
           broker
  <1>2. ASSUME worker'[w].pc \in {"apply", "mark", "retry"}, worker'[w].msg = worker[w].msg,
               worker'[w].got = {} \/ (worker'[w].got = worker[w].got
                                       /\ worker'[w].seen = worker[w].seen)
        PROVE  HandsOn(w)
    BY <1>1, <1>2 DEF HandsOn, Holding, KnowsFounded
  <1>3. CASE HandlerOver(w, "retry") \/ WorkerGoes(w, "mark")
    <2>1. /\ worker'[w].pc \in {"mark", "retry"} /\ worker'[w].msg = worker[w].msg
          /\ \/ worker'[w].got = {}
             \/ worker'[w].got = worker[w].got /\ worker'[w].seen = worker[w].seen
      BY <1>3, Fields DEF Keeps
    <2> QED
      BY <1>2, <2>1
  <1>4. CASE MsgPenka(w) \in marker' /\ HandlerOver(w, "findPenkas")
    BY <1>1, <1>4, Fields DEF Keeps, HandsOn, Holding, KnowsFounded, MsgPenka
  <1>5. CASE BulkFails(w) \/ \E e \in Entries : WriteEntry(w, e) \/ WritePick(w, e)
    <2>1. /\ worker'[w].pc = worker[w].pc /\ worker'[w].msg = worker[w].msg
          /\ worker'[w].got = worker[w].got /\ worker'[w].seen = worker[w].seen
      <3>1. CASE BulkFails(w)
        <4>1. \/ worker'[w] = [worker[w] EXCEPT !.failed = TRUE, !.todoEntries = {}]
              \/ worker'[w] = [worker[w] EXCEPT !.failed = TRUE, !.todoPicks = {}]
          BY <3>1, OwnState DEF BulkFails
        <4> QED
          BY <1>1, <4>1 DEF WorkerState
      <3>2. ASSUME NEW e \in Entries, WriteEntry(w, e) \/ WritePick(w, e)
            PROVE  /\ worker'[w].pc = worker[w].pc /\ worker'[w].msg = worker[w].msg
                   /\ worker'[w].got = worker[w].got /\ worker'[w].seen = worker[w].seen
        <4>1. \/ worker'[w] = [worker[w] EXCEPT !.todoEntries = @ \ {e}]
              \/ worker'[w] = [worker[w] EXCEPT !.todoPicks = @ \ {e}]
          BY <3>2, OwnState DEF WriteEntry, WritePick
        <4> QED
          BY <1>1, <4>1 DEF WorkerState
      <3> QED
        BY <1>5, <3>1, <3>2
    <2> QED
      BY <1>1, <1>2, <2>1
  <1> QED
    BY <1>3, <1>4, <1>5 DEF BulksSettle, InsertMarker, MarkerFails

(* Finishing the matchday comes after the marker and holds nothing.        *)
LEMMA FinalizeHandsOn ==
  ASSUME TypeOK, NEW w \in Workers, WorkerInv(w), KnowsFounded(w),
         FindWaiting(w) \/ Count(w) \/ Flip(w) \/ FinalizeFails(w)
  PROVE  HandsOn(w)
  <1>1. /\ worker[w] \in WorkerState /\ UNCHANGED <<queue, dead, marker>> /\ ~Holding(w)
        /\ worker[w].got = {} /\ worker[w].pc \in {"findPenkas", "count", "flip"}
    BY DEF TypeOK, FindWaiting, Count, Flip, FinalizeFails, game, broker, Holding, WorkerInv
  <1>2. ASSUME worker'[w].msg = worker[w].msg, worker'[w].got = {} PROVE HandsOn(w)
    BY <1>1, <1>2 DEF HandsOn, KnowsFounded
  <1>3. CASE HandlerOver(w, "ack") \/ WorkerGoes(w, "ack") \/ WorkerGoes(w, "flip")
    <2>1. worker'[w].msg = worker[w].msg /\ worker'[w].got = {}
      BY <1>1, <1>3, Fields DEF Keeps
    <2> QED
      BY <1>2, <2>1
  <1>4. CASE \E waiting : WorkerBecomes(w, [worker[w] EXCEPT !.pc = "count", !.waiting = waiting])
    <2>1. \E waiting : worker'[w] = [worker[w] EXCEPT !.pc = "count", !.waiting = waiting]
      BY <1>4, OwnState
    <2>2. worker'[w].msg = worker[w].msg /\ worker'[w].got = {}
      BY <1>1, <2>1 DEF WorkerState
    <2> QED
      BY <1>2, <2>2
  <1> QED
    BY <1>3, <1>4 DEF FindWaiting, Count, Flip, FinalizeFails

(* The broker's side: a command is held, published again or set aside.     *)
LEMMA AnswerHandsOn ==
  ASSUME TypeOK, NEW w \in Workers, WorkerInv(w), KnowsFounded(w),
         \/ Deliver(w) \/ Ack(w) \/ DeadLetter(w) \/ Republish(w) \/ RepublishFails(w)
         \/ WorkerCrash(w)
  PROVE  HandsOn(w)
  <1>1. /\ worker[w] \in WorkerState /\ marker' = marker
        /\ worker[w].pc # "idle" => worker[w].msg \in Command
    BY DEF TypeOK, Deliver, Ack, DeadLetter, Republish, RepublishFails, WorkerCrash, game, WorkerInv
  <1>2. CASE Deliver(w)
    <2> PICK m \in Command : /\ queue[m] > 0 /\ queue' = [queue EXCEPT ![m] = @ - 1]
                             /\ WorkerBecomes(w, [worker[w] EXCEPT !.pc = "gate", !.msg = m])
      BY <1>2 DEF Deliver
    <2>1. worker'[w] = [worker[w] EXCEPT !.pc = "gate", !.msg = m]
      BY OwnState
    <2>2. /\ worker'[w].pc = "gate" /\ worker'[w].msg = m /\ worker'[w].got = worker[w].got
          /\ worker[w].got = {} /\ worker[w].pc = "idle" /\ dead' = dead
      BY <1>1, <1>2, <2>1 DEF WorkerState, WorkerInv, Deliver
    <2>3. \A c \in Command : c # m => queue'[c] = queue[c]
      BY DEF TypeOK
    <2> QED
      BY <2>2, <2>3 DEF HandsOn, Holding, KnowsFounded
  <1>3. CASE Ack(w)
    <2>1. WorkerBecomes(w, IdleWorker) /\ UNCHANGED <<queue, dead>> /\ ~Holding(w)
      BY <1>3 DEF Ack, broker, Holding
    <2> QED
      BY <2>1, Fields DEF Keeps, HandsOn, KnowsFounded
  <1>4. CASE DeadLetter(w)
    <2>1. /\ WorkerBecomes(w, IdleWorker) /\ queue' = queue /\ dead' = dead \cup {worker[w].msg}
          /\ worker[w].pc = "retry"
      BY <1>4 DEF DeadLetter
    <2> QED
      BY <1>1, <2>1, Fields DEF Keeps, HandsOn, KnowsFounded, MsgPenka
  <1>5. CASE Republish(w)
    <2> DEFINE next == NextAttempt(worker[w].msg)
    <2>1. /\ WorkerGoes(w, "confirm") /\ BackInQueue(next) /\ dead' = dead /\ worker[w].pc = "retry"
          /\ worker[w].msg \in Command /\ worker[w].got = {}
      BY <1>1, <1>5 DEF Republish, WorkerInv
    <2>2. next \in Command /\ next.penka = MsgPenka(w)
      BY <1>5, <2>1, ConstantsAssumption DEF Republish, NextAttempt, Command, MsgPenka
    <2> HIDE DEF next
    <2>3. worker'[w].pc = "confirm" /\ worker'[w].got = {}
      BY <2>1, Fields DEF Keeps
    <2> QED
      BY <2>1, <2>2, <2>3, Requeued DEF HandsOn, KnowsFounded
  <1>6. CASE RepublishFails(w) \/ WorkerCrash(w)
    <2>1. /\ WorkerBecomes(w, IdleWorker) /\ BackInQueue(worker[w].msg) /\ dead' = dead
          /\ worker[w].msg \in Command
      BY <1>1, <1>6 DEF RepublishFails, WorkerCrash
    <2> QED
      BY <2>1, Fields, Requeued DEF Keeps, HandsOn, KnowsFounded, MsgPenka
  <1> QED
    BY <1>2, <1>3, <1>4, <1>5, <1>6

(* No step of a worker lets go of what it was given, its crash included.   *)
LEMMA WorkerHandsOn ==
  ASSUME TypeOK, MarkersTrustworthy, NEW w \in Workers, KnowsFounded(w),
         WorkerStep(w) \/ WorkerFault(w)
  PROVE  HandsOn(w)
  <1>1. FoundedStand /\ NoSiblingSkipped /\ WorkerInv(w)
    BY DEF MarkersTrustworthy
  <1> QED
    BY <1>1, LoadHandsOn, ApplyHandsOn, FinalizeHandsOn, AnswerHandsOn DEF WorkerStep, WorkerFault

(* What is settled or on its way stays so while a worker takes a step ...  *)
LEMMA WorkerSettles ==
  ASSUME TypeOK, NEW w \in Workers, HandsOn(w), marker \subseteq marker',
         \A v \in Workers \ {w} : worker'[v] = worker[v],
         NEW p \in Founded, Settled(p)
  PROVE  Settled(p)'
  <1>1. CASE p \in marker
    BY <1>1 DEF Settled
  <1>2. ASSUME NEW m \in Command, m.penka = p,
               queue[m] > 0 \/ m \in dead \/ \E v \in Workers : Holding(v) /\ worker[v].msg = m
        PROVE  Settled(p)'
    <2>1. CASE queue[m] > 0
      <3>1. queue'[m] > 0 \/ (Holding(w)' /\ worker'[w].msg = m)
        BY <2>1 DEF HandsOn
      <3> QED
        BY <1>2, <3>1 DEF Settled, IsPending
    <2>2. CASE m \in dead
      BY <1>2, <2>2 DEF HandsOn, Settled, IsPending
    <2>3. ASSUME NEW v \in Workers, v # w, Holding(v), worker[v].msg = m PROVE Settled(p)'
      BY <1>2, <2>3 DEF Settled, IsPending, Holding
    <2>4. CASE Holding(w) /\ worker[w].msg = m
      <3>1. MsgPenka(w) = p /\ MsgPenka(w) \in Founded
        BY <1>2, <2>4 DEF MsgPenka
      <3>2. \/ Holding(w)' /\ worker'[w].msg = m
            \/ p \in marker'
            \/ \E c \in Command : c.penka = p /\ (queue'[c] > 0 \/ c \in dead')
        BY <2>4, <3>1 DEF HandsOn
      <3> QED
        BY <1>2, <3>2 DEF Settled, IsPending
    <2> QED
      BY <1>2, <2>1, <2>2, <2>3, <2>4
  <1> QED
    BY <1>1, <1>2 DEF Settled, IsPending

(* ... and while anybody else does.                                        *)
LEMMA OthersSettle ==
  ASSUME worker' = worker, marker' = marker, dead' = dead,
         \A m \in Command : queue[m] > 0 => queue'[m] > 0, NEW p, Settled(p)
  PROVE  Settled(p)'
  BY DEF Settled, IsPending, Holding

(* A press that does not move keeps its word.                              *)
LEMMA SentKept ==
  ASSUME NEW o \in Presses, SentSound(o), press'[o] = press[o],
         \A p \in Founded : Settled(p) => Settled(p)'
  PROVE  SentSound(o)'
  BY DEF SentSound

(* What a press does to the commands already on their way: nothing.        *)
PressActs(o) == PressLoad(o) \/ PressContinues(o) \/ PublishFails(o) \/ PressCrash(o)

(* It adds commands and touches no worker, marker or set-aside command.    *)
LEMMA PressLeaves ==
  ASSUME TypeOK, NEW o \in Presses, PressActs(o)
  PROVE  /\ worker' = worker /\ marker' = marker /\ dead' = dead
         /\ \A m \in Command : queue[m] > 0 => queue'[m] > 0
         /\ \A x \in Presses \ {o} : press'[x] = press[x]
  <1> USE DEF PressUnchanged, game, broker
  <1>1. CASE \E p \in Penkas : Send(o, p)
    <2> PICK p \in Penkas : Send(o, p)
      BY <1>1
    <2> DEFINE sent == [penka |-> p, at |-> press[o].at, attempt |-> 1]
    <2>1. queue' = [queue EXCEPT ![sent] = @ + 1] /\ queue \in [Command -> Nat]
      BY DEF Send, TypeOK
    <2> HIDE DEF sent
    <2>2. \A m \in Command : queue[m] > 0 => queue'[m] > 0
      BY <2>1
    <2> QED
      BY <2>2 DEF Send, PressBecomes, TypeOK
  <1>2. CASE PressLoad(o) \/ PressCheck(o) \/ Claim(o) \/ Join(o) \/ FindPenkas(o)
    BY <1>2 DEF PressLoad, PressCheck, Claim, Join, FindPenkas, PressGoes, PressBecomes, TypeOK
  <1>3. CASE Confirm(o) \/ Clear(o) \/ PublishFails(o) \/ PressCrash(o)
    BY <1>3 DEF Confirm, Clear, PublishFails, PressCrash, PressGoes, PressBecomes, TypeOK
  <1> QED
    BY <1>1, <1>2, <1>3 DEF PressActs, PressContinues

(* Where a press goes, and what it takes along.                            *)
LEMMA PressMoved ==
  ASSUME TypeOK, NEW o \in Presses, NEW from, NEW to, PressGoes(o, from, to)
  PROVE  /\ press'[o].pc = to /\ press'[o].at = press[o].at
         /\ press'[o].targets = press[o].targets /\ press'[o].unsent = press[o].unsent
  <1>1. press[o] \in PressState /\ press \in [Presses -> PressState]
    BY DEF TypeOK
  <1>2. press'[o] = [press[o] EXCEPT !.pc = to]
    BY <1>1 DEF PressGoes, PressBecomes
  <1> QED
    BY <1>1, <1>2 DEF PressState

(* A press keeps its word while it acts.                                   *)
LEMMA SentStep ==
  ASSUME TypeOK, NEW o \in Presses, SentSound(o), PressActs(o)
  PROVE  SentSound(o)'
  <1> DEFINE self == press[o]
             next == press'[o]
  <1>1. self \in PressState /\ press \in [Presses -> PressState] /\ now \in Instants
        /\ stamp \in Instants \cup {NoStamp}
    BY DEF TypeOK
  <1>2. \A p \in Founded : Settled(p) => Settled(p)'
    BY PressLeaves, OthersSettle
  <1>3. ASSUME next.pc \notin {"find", "send", "queued"} PROVE SentSound(o)'
    BY <1>3 DEF SentSound
  <1>4. CASE PressLoad(o) \/ PublishFails(o) \/ PressCrash(o)
    <2>1. \/ next = [self EXCEPT !.pc = "check", !.read = status]
          \/ \E to \in {"clear", "failed"} : next = [self EXCEPT !.pc = to, !.unsent = {}]
      BY <1>1, <1>4 DEF PressLoad, PublishFails, PressCrash, PressBecomes
    <2> QED
      BY <1>1, <1>3, <2>1 DEF PressState
  <1>5. CASE PressCheck(o) \/ Clear(o)
    BY <1>3, <1>5, PressMoved DEF PressCheck, Clear
  <1>6. CASE Claim(o)
    <2>1. CASE next = [self EXCEPT !.pc = "find", !.at = now, !.claimed = TRUE]
      <3>1. next.pc = "find" /\ next.at = now
        BY <1>1, <2>1 DEF PressState
      <3> QED
        BY <1>1, <3>1 DEF SentSound
    <2>2. CASE PressGoes(o, "claim", "join")
      BY <1>3, <2>2, PressMoved
    <2> QED
      BY <1>1, <1>6, <2>1, <2>2 DEF Claim, PressBecomes
  <1>7. CASE Join(o)
    <2>1. CASE stamp # NoStamp /\ next = [self EXCEPT !.pc = "find", !.at = stamp]
      <3>1. next.pc = "find" /\ next.at = stamp
        BY <1>1, <2>1 DEF PressState
      <3> QED
        BY <1>1, <2>1, <3>1 DEF SentSound
    <2>2. CASE PressGoes(o, "join", "notFound")
      BY <1>3, <2>2, PressMoved
    <2> QED
      BY <1>1, <1>7, <2>1, <2>2 DEF Join, PressBecomes
  <1>8. CASE FindPenkas(o)
    <2> DEFINE targets == PenkasUpTo(self.at)
    <2>1. \E to \in {"send", "clear", "failed"} :
            next = [self EXCEPT !.pc = to, !.targets = targets, !.unsent = targets]
      BY <1>1, <1>8 DEF FindPenkas, PressBecomes
    <2> HIDE DEF targets
    <2>2. next.pc \in {"send", "clear", "failed"} /\ next.at = self.at /\ next.targets = next.unsent
      BY <1>1, <2>1 DEF PressState
    <2> QED
      BY <1>8, <2>2 DEF SentSound, FindPenkas
  <1>9. ASSUME NEW p \in Penkas, Send(o, p) PROVE SentSound(o)'
    <2> DEFINE sent == [penka |-> p, at |-> self.at, attempt |-> 1]
    <2>1. next = [self EXCEPT !.unsent = @ \ {p}] /\ self.pc = "send"
      BY <1>1, <1>9 DEF Send, PressBecomes
    <2>2. /\ next.pc = "send" /\ next.at = self.at /\ next.targets = self.targets
          /\ next.unsent = self.unsent \ {p}
      BY <1>1, <2>1 DEF PressState
    <2>3. sent \in Command /\ sent.penka = p
      BY <2>1, ConstantsAssumption DEF SentSound, Command
    <2>4. queue' = [queue EXCEPT ![sent] = @ + 1] /\ queue \in [Command -> Nat]
      BY <1>9 DEF Send, TypeOK
    <2> HIDE DEF sent
    <2>5. queue'[sent] > 0
      BY <2>3, <2>4
    <2>6. Settled(p)'
      BY <2>3, <2>5 DEF Settled, IsPending
    <2>7. \A q \in (next.targets \ next.unsent) \cap Founded : Settled(q)'
      BY <1>2, <2>1, <2>2, <2>6 DEF SentSound
    <2> QED
      BY <2>1, <2>2, <2>7 DEF SentSound
  <1>10. CASE Confirm(o)
    <2>1. /\ self.pc = "send" /\ next.pc = "queued" /\ next.targets = self.targets
          /\ next.unsent = self.unsent /\ self.unsent = {}
      BY <1>10, PressMoved DEF Confirm, PressGoes
    <2> QED
      BY <1>2, <2>1 DEF SentSound
  <1> QED
    BY <1>4, <1>5, <1>6, <1>7, <1>8, <1>9, <1>10 DEF PressActs, PressContinues

(* What a worker knows stays so while others act: markers are not deleted. *)
LEMMA KnownKept ==
  ASSUME NEW v \in Workers, worker'[v] = worker[v], marker \subseteq marker', KnowsFounded(v)
  PROVE  KnowsFounded(v)'
  BY DEF KnowsFounded

(* Every initial state is accounted for: nobody was told anything.         *)
LEMMA AccountedInit == Init => Accounted
  <1> SUFFICES ASSUME Init PROVE Accounted
    OBVIOUS
  <1>1. \A w \in Workers : worker[w].pc = "idle" /\ worker[w].got = {}
    BY DEF Init, IdleWorker
  <1>2. \A o \in Presses : press[o].pc = "new"
    BY DEF Init, NewPress
  <1> QED
    BY <1>1, <1>2 DEF Accounted, KnowsFounded, SentSound

(* Every step keeps every command accounted for.                           *)
LEMMA AccountedStep ==
  ASSUME TypeOK, MarkersTrustworthy, Accounted, [Next]_vars
  PROVE  Accounted'
  <1>1. ASSUME NEW w \in Workers, WorkerStep(w) \/ WorkerFault(w) PROVE Accounted'
    <2>1. /\ marker \subseteq marker' /\ \A v \in Workers \ {w} : worker'[v] = worker[v]
          /\ press' = press
      <3>1. press' = press
        BY <1>1 DEF WorkerStep, WorkerFault, Deliver, Gate, Decide, BulksSettle, InsertMarker, Read,
              WriteEntry, WritePick, FindWaiting, Count, Flip, Ack, DeadLetter, Republish,
              BulkFails, MarkerFails, ReadFails, FinalizeFails, RepublishFails, WorkerCrash,
              WorkerUnchanged
      <3> QED
        BY <1>1, <3>1, WorkerGrows DEF Grows
    <2>2. HandsOn(w)
      BY <1>1, WorkerHandsOn DEF Accounted
    <2>3. ASSUME NEW v \in Workers PROVE KnowsFounded(v)'
      <3>1. CASE v = w
        BY <2>2, <3>1 DEF HandsOn
      <3>2. CASE v # w
        BY <2>1, <3>2, KnownKept DEF Accounted
      <3> QED
        BY <3>1, <3>2
    <2>4. \A p \in Founded : Settled(p) => Settled(p)'
      BY <2>1, <2>2, WorkerSettles
    <2>5. ASSUME NEW o \in Presses PROVE SentSound(o)'
      BY <2>1, <2>4, SentKept DEF Accounted
    <2> QED
      BY <2>3, <2>5 DEF Accounted
  <1>2. ASSUME NEW o \in Presses, PressActs(o) PROVE Accounted'
    <2>1. /\ worker' = worker /\ marker' = marker /\ dead' = dead
          /\ \A m \in Command : queue[m] > 0 => queue'[m] > 0
          /\ \A x \in Presses \ {o} : press'[x] = press[x]
      BY <1>2, PressLeaves
    <2>2. \A p \in Founded : Settled(p) => Settled(p)'
      BY <2>1, OthersSettle
    <2>3. ASSUME NEW x \in Presses PROVE SentSound(x)'
      BY <1>2, <2>1, <2>2, SentKept, SentStep DEF Accounted
    <2>4. ASSUME NEW v \in Workers PROVE KnowsFounded(v)'
      BY <2>1, KnownKept DEF Accounted
    <2> QED
      BY <2>3, <2>4 DEF Accounted
  <1>3. ASSUME ~\E w \in Workers : WorkerStep(w) \/ WorkerFault(w),
               ~\E o \in Presses : PressActs(o)
        PROVE  Accounted'
    <2>1. worker' = worker /\ marker' = marker /\ press' = press /\ UNCHANGED broker
      BY <1>3 DEF Next, vars, game, operators, PressActs, CloseLoad, CloseWrite, SetResultLoad,
                  SetResultWrite, OperatorUnchanged, StampPenka, InsertPenka, EnsureEntry,
                  DiscardPenka, CreationUnchanged, Tick
    <2>2. \A p \in Founded : Settled(p) => Settled(p)'
      BY <2>1, OthersSettle DEF broker
    <2>3. ASSUME NEW x \in Presses PROVE SentSound(x)'
      BY <2>1, <2>2, SentKept DEF Accounted
    <2>4. ASSUME NEW v \in Workers PROVE KnowsFounded(v)'
      BY <2>1, KnownKept DEF Accounted
    <2> QED
      BY <2>3, <2>4 DEF Accounted
  <1> QED
    BY <1>1, <1>2, <1>3

(* Whatever crashes, fails or is redelivered, an answered press loses no   *)
(* command: the penka of each is resolved, or a command for it is queued,  *)
(* unacked or dead-lettered.                                               *)
THEOREM CommandsKept == Spec => []CommandsAccountedFor
  <1>1. Init => Accounted
    BY AccountedInit
  <1>2. TypeOK /\ MarkersTrustworthy /\ Accounted /\ [Next]_vars => Accounted'
    BY AccountedStep
  <1>3. Accounted => CommandsAccountedFor
    BY DEF Accounted, SentSound, Settled, IsPending, CommandsAccountedFor, Answered, IsCarried,
           InHand
  <1> QED
    BY <1>1, <1>2, <1>3, Invariance, PTL DEF Spec

-----------------------------------------------------------------------------
(* One publication: a press that has an instant has the stamped one. *)
Stamped(o) == press[o].pc \in {"find", "send", "queued"} => press[o].at = stamp /\ stamp # NoStamp

AllStamped == \A o \in Presses : Stamped(o)

(* Only a press that claimed the stamp takes it back.                      *)
Claimant(o) == press[o].pc = "clear" => press[o].claimed = TRUE

(* A press that claimed has published, or is about to, unless it failed.   *)
GaveUp(o) == press[o].claimed = TRUE /\ press[o].pc \in {"clear", "failed"}

(* A press that acts without taking the stamp back keeps to the stamp: it  *)
(* claims it, joins it, or carries the instant it already had.             *)
LEMMA StampStep ==
  ASSUME TypeOK, NEW o \in Presses, Stamped(o), PressActs(o), ~Clear(o)
  PROVE  Stamped(o)' /\ (stamp # NoStamp => stamp' = stamp)
  <1> DEFINE self == press[o]
             next == press'[o]
  <1>1. /\ self \in PressState /\ press \in [Presses -> PressState] /\ now \in Instants
        /\ now # NoStamp
    BY DEF TypeOK, Instants, NoStamp
  <1>2. ASSUME next.pc \notin {"find", "send", "queued"}, stamp' = stamp
        PROVE  Stamped(o)' /\ (stamp # NoStamp => stamp' = stamp)
    BY <1>2 DEF Stamped
  <1>3. CASE PressLoad(o) \/ PublishFails(o) \/ PressCrash(o)
    <2>1. \/ next = [self EXCEPT !.pc = "check", !.read = status]
          \/ \E to \in {"clear", "failed"} : next = [self EXCEPT !.pc = to, !.unsent = {}]
      BY <1>1, <1>3 DEF PressLoad, PublishFails, PressCrash, PressBecomes
    <2>2. next.pc \notin {"find", "send", "queued"}
      BY <1>1, <2>1 DEF PressState
    <2> QED
      BY <1>2, <1>3, <2>2 DEF PressLoad, PublishFails, PressCrash, calendar
  <1>4. CASE PressCheck(o)
    BY <1>2, <1>4, PressMoved DEF PressCheck, calendar
  <1>5. CASE Claim(o)
    <2>1. CASE /\ next = [self EXCEPT !.pc = "find", !.at = now, !.claimed = TRUE]
               /\ stamp = NoStamp /\ stamp' = now
      <3>1. next.pc = "find" /\ next.at = now
        BY <1>1, <2>1 DEF PressState
      <3> QED
        BY <1>1, <2>1, <3>1 DEF Stamped
    <2>2. CASE PressGoes(o, "claim", "join") /\ stamp' = stamp
      BY <1>2, <2>2, PressMoved
    <2> QED
      BY <1>1, <1>5, <2>1, <2>2 DEF Claim, PressBecomes
  <1>6. CASE Join(o)
    <2>1. stamp' = stamp
      BY <1>6 DEF Join, calendar
    <2>2. CASE stamp # NoStamp /\ next = [self EXCEPT !.pc = "find", !.at = stamp]
      <3>1. next.pc = "find" /\ next.at = stamp
        BY <1>1, <2>2 DEF PressState
      <3> QED
        BY <2>1, <2>2, <3>1 DEF Stamped
    <2>3. CASE PressGoes(o, "join", "notFound")
      BY <1>2, <2>1, <2>3, PressMoved
    <2> QED
      BY <1>1, <1>6, <2>2, <2>3 DEF Join, PressBecomes
  <1>7. ASSUME self.pc \in {"find", "send"}, next.at = self.at, stamp' = stamp
        PROVE  Stamped(o)' /\ (stamp # NoStamp => stamp' = stamp)
    BY <1>7 DEF Stamped
  <1>8. CASE FindPenkas(o)
    <2> DEFINE targets == PenkasUpTo(self.at)
    <2>1. \E to \in {"send", "clear", "failed"} :
            next = [self EXCEPT !.pc = to, !.targets = targets, !.unsent = targets]
      BY <1>1, <1>8 DEF FindPenkas, PressBecomes
    <2> HIDE DEF targets
    <2>2. next.at = self.at
      BY <1>1, <2>1 DEF PressState
    <2> QED
      BY <1>7, <1>8, <2>2 DEF FindPenkas, calendar
  <1>9. CASE \E p \in Penkas : Send(o, p)
    <2> PICK p \in Penkas : Send(o, p)
      BY <1>9
    <2>1. next = [self EXCEPT !.unsent = @ \ {p}]
      BY <1>1 DEF Send, PressBecomes
    <2>2. next.at = self.at
      BY <1>1, <2>1 DEF PressState
    <2> QED
      BY <1>7, <2>2 DEF Send, calendar
  <1>10. CASE Confirm(o)
    <2>1. next.at = self.at
      BY <1>10, PressMoved DEF Confirm
    <2> QED
      BY <1>7, <1>10, <2>1 DEF Confirm, PressGoes, calendar
  <1> QED
    BY <1>3, <1>4, <1>5, <1>6, <1>8, <1>9, <1>10 DEF PressActs, PressContinues

(* Nobody but a press writes the stamp or changes a press.                 *)
LEMMA OthersStamp ==
  ASSUME [Next]_vars, ~\E o \in Presses : PressActs(o)
  PROVE  press' = press /\ stamp' = stamp
  BY DEF Next, vars, calendar, PressActs, CloseLoad, CloseWrite, SetResultLoad, SetResultWrite,
         OperatorUnchanged, StampPenka, InsertPenka, EnsureEntry, DiscardPenka, CreationUnchanged,
         Tick, WorkerStep, WorkerFault, Deliver, Gate, Decide, BulksSettle, InsertMarker, Read,
         WriteEntry, WritePick, FindWaiting, Count, Flip, Ack, DeadLetter, Republish, BulkFails,
         MarkerFails, ReadFails, FinalizeFails, RepublishFails, WorkerCrash, WorkerUnchanged

(* While the stamp is not taken back, every press with an instant has it.  *)
LEMMA AllStampedStep ==
  ASSUME TypeOK, AllStamped, [Next]_vars, ~\E o \in Presses : Clear(o)
  PROVE  AllStamped'
  <1>1. ASSUME NEW o \in Presses, PressActs(o) PROVE AllStamped'
    <2>1. Stamped(o)' /\ (stamp # NoStamp => stamp' = stamp)
      BY <1>1, StampStep DEF AllStamped
    <2>2. ASSUME NEW x \in Presses \ {o} PROVE Stamped(x)'
      <3>1. press'[x] = press[x]
        BY <1>1, PressLeaves
      <3> QED
        BY <2>1, <3>1 DEF AllStamped, Stamped
    <2> QED
      BY <2>1, <2>2 DEF AllStamped
  <1>2. CASE ~\E o \in Presses : PressActs(o)
    BY <1>2, OthersStamp DEF AllStamped, Stamped
  <1> QED
    BY <1>1, <1>2

(* A claim is never forgotten, and only a claimant comes to the point of   *)
(* taking the stamp back.                                                  *)
LEMMA ClaimStep ==
  ASSUME TypeOK, NEW o \in Presses, Claimant(o), PressActs(o)
  PROVE  /\ Claimant(o)'
         /\ GaveUp(o) => GaveUp(o)'
         /\ Clear(o) => GaveUp(o)'
  <1> DEFINE self == press[o]
             next == press'[o]
  <1>1. self \in PressState /\ press \in [Presses -> PressState]
    BY DEF TypeOK
  <1>2. CASE Clear(o)
    <2>1. self.pc = "clear" /\ next = [self EXCEPT !.pc = "failed"]
      BY <1>1, <1>2 DEF Clear, PressGoes, PressBecomes
    <2>2. next.pc = "failed" /\ next.claimed = self.claimed
      BY <1>1, <2>1 DEF PressState
    <2> QED
      BY <2>1, <2>2 DEF Claimant, GaveUp
  <1>3. CASE PressCrash(o)
    <2>2. next = [self EXCEPT !.pc = "failed", !.unsent = {}]
      BY <1>1, <1>3 DEF PressCrash, PressBecomes
    <2>3. next.pc = "failed" /\ next.claimed = self.claimed
      BY <1>1, <2>2 DEF PressState
    <2> QED
      BY <1>2, <2>3 DEF Claimant, GaveUp
  <1>4. ASSUME self.pc \notin {"clear", "failed"}, next.pc = "clear" => next.claimed = TRUE
        PROVE  /\ Claimant(o)'
               /\ GaveUp(o) => GaveUp(o)'
               /\ Clear(o) => GaveUp(o)'
    BY <1>4 DEF Claimant, GaveUp, Clear, PressGoes
  <1>5. CASE PressLoad(o) \/ PressCheck(o) \/ Claim(o) \/ Join(o) \/ Confirm(o)
    <2>1. self.pc \in {"new", "check", "claim", "join", "send"}
      BY <1>5 DEF PressLoad, PressCheck, Claim, Join, Confirm, PressGoes
    <2>2. \/ next = [self EXCEPT !.pc = "check", !.read = status]
          \/ \E to \in {"refused", "claim", "join", "notFound", "queued"} :
               next = [self EXCEPT !.pc = to]
          \/ next = [self EXCEPT !.pc = "find", !.at = now, !.claimed = TRUE]
          \/ next = [self EXCEPT !.pc = "find", !.at = stamp]
      BY <1>1, <1>5 DEF PressLoad, PressCheck, Claim, Join, Confirm, PressGoes, PressBecomes
    <2>3. next.pc # "clear"
      BY <1>1, <2>2 DEF PressState
    <2> QED
      BY <1>4, <2>1, <2>3
  <1>6. CASE FindPenkas(o) \/ PublishFails(o)
    <2> DEFINE to == IF self.claimed THEN "clear" ELSE "failed"
               targets == PenkasUpTo(self.at)
    <2>1. \/ next = [self EXCEPT !.pc = to, !.unsent = {}]
          \/ next = [self EXCEPT !.pc = IF targets # {} THEN "send" ELSE to, !.targets = targets,
                                 !.unsent = targets]
      BY <1>1, <1>6 DEF FindPenkas, PublishFails, PressBecomes
    <2>2. self.pc \in {"find", "send"}
      BY <1>6 DEF FindPenkas, PublishFails
    <2>3. next.pc \in {"send", to} /\ next.claimed = self.claimed
      <3> HIDE DEF targets, to
      <3> QED
        BY <1>1, <2>1 DEF PressState
    <2>4. self.claimed \in BOOLEAN
      BY <1>1 DEF PressState
    <2> QED
      BY <1>4, <2>2, <2>3, <2>4
  <1>7. CASE \E p \in Penkas : Send(o, p)
    <2>1. self.pc = "send" /\ \E p \in Penkas : next = [self EXCEPT !.unsent = @ \ {p}]
      BY <1>1, <1>7 DEF Send, PressBecomes
    <2>2. next.pc = "send"
      BY <1>1, <2>1 DEF PressState
    <2> QED
      BY <1>4, <2>1, <2>2
  <1> QED
    BY <1>2, <1>3, <1>5, <1>6, <1>7 DEF PressActs, PressContinues

(* Whatever happens, two answered presses published for the same instant   *)
(* unless a press that had claimed the stamp failed and may have taken it  *)
(* back: only clearResolveRequest lets a later press take a fresh one.     *)
THEOREM OnlyClearSplits == Spec => [](OneFanOut \/ \E o \in Presses : GaveUp(o))
  <1> DEFINE Inv == /\ \A o \in Presses : Claimant(o)
                    /\ AllStamped \/ \E o \in Presses : GaveUp(o)
  <1>1. Init => Inv
    <2> SUFFICES ASSUME Init PROVE Inv
      OBVIOUS
    <2>1. \A o \in Presses : press[o].pc = "new"
      BY DEF Init, NewPress
    <2> QED
      BY <2>1 DEF Claimant, AllStamped, Stamped
  <1>2. TypeOK /\ Inv /\ [Next]_vars => Inv'
    <2> SUFFICES ASSUME TypeOK, Inv, [Next]_vars PROVE Inv'
      OBVIOUS
    <2>1. ASSUME NEW o \in Presses, PressActs(o) PROVE Inv'
      <3>1. \A x \in Presses \ {o} : press'[x] = press[x]
        BY <2>1, PressLeaves
      <3>2. /\ Claimant(o)'
            /\ GaveUp(o) => GaveUp(o)'
            /\ Clear(o) => GaveUp(o)'
        BY <2>1, ClaimStep
      <3>3. \A x \in Presses : Claimant(x)'
        BY <3>1, <3>2 DEF Claimant
      <3>4. \A x \in Presses : GaveUp(x) => GaveUp(x)'
        BY <3>1, <3>2 DEF GaveUp
      <3>5. CASE \E x \in Presses : Clear(x)
        <4> PICK x \in Presses : Clear(x)
          BY <3>5
        <4>1. GaveUp(x)'
          BY ClaimStep DEF PressActs, PressContinues
        <4> QED
          BY <3>3, <4>1
      <3> QED
        BY <3>3, <3>4, <3>5, AllStampedStep
    <2>2. CASE ~\E o \in Presses : PressActs(o)
      <3>1. press' = press /\ stamp' = stamp
        BY <2>2, OthersStamp
      <3> QED
        BY <3>1 DEF Claimant, AllStamped, Stamped, GaveUp
    <2> QED
      BY <2>1, <2>2
  <1>3. Inv => OneFanOut \/ \E o \in Presses : GaveUp(o)
    BY DEF AllStamped, Stamped, OneFanOut, Answered
  <1> QED
    BY <1>1, <1>2, <1>3, TypeCorrect, PTL DEF Spec

(* When no publish fails and the league has a penka, so that nobody takes  *)
(* the stamp back, every answered press published for the same instant,    *)
(* crashes of the back office included (resolve.ts, "replay their          *)
(* timestamp, never a new one").                                           *)
THEOREM PressesAgree ==
  ASSUME "publish" \notin FaultKinds, Founded # {}
  PROVE  Spec => []OneFanOut
  <1> DEFINE Inv == AllStamped /\ \A o \in Presses : press[o].pc # "clear"
  <1>1. Init => Inv
    <2> SUFFICES ASSUME Init PROVE Inv
      OBVIOUS
    <2>1. \A o \in Presses : press[o].pc = "new"
      BY DEF Init, NewPress
    <2> QED
      BY <2>1 DEF AllStamped, Stamped
  <1>2. TypeOK /\ MarkersTrustworthy /\ Accounted /\ Inv /\ [Next]_vars => Inv'
    <2> SUFFICES ASSUME TypeOK, MarkersTrustworthy, Accounted, Inv, [Next]_vars PROVE Inv'
      OBVIOUS
    <2>1. \A o \in Presses : ~Clear(o) /\ ~PublishFails(o)
      BY DEF Clear, PressGoes, PublishFails, Fault
    <2>2. AllStamped'
      BY <2>1, AllStampedStep
    <2>3. ASSUME NEW o \in Presses, PressActs(o) PROVE press'[o].pc # "clear"
      <3> DEFINE self == press[o]
                 next == press'[o]
      <3>1. self \in PressState /\ press \in [Presses -> PressState]
        BY DEF TypeOK
      <3>2. CASE PressLoad(o) \/ PressCheck(o) \/ Claim(o) \/ Join(o) \/ Confirm(o) \/ PressCrash(o)
        <4>1. \/ next = [self EXCEPT !.pc = "check", !.read = status]
              \/ \E to \in {"refused", "claim", "join", "notFound", "queued"} :
                   next = [self EXCEPT !.pc = to]
              \/ next = [self EXCEPT !.pc = "find", !.at = now, !.claimed = TRUE]
              \/ next = [self EXCEPT !.pc = "find", !.at = stamp]
              \/ next = [self EXCEPT !.pc = "failed", !.unsent = {}]
          BY <3>1, <3>2 DEF PressLoad, PressCheck, Claim, Join, Confirm, PressCrash, PressGoes,
                            PressBecomes
        <4> QED
          BY <3>1, <4>1 DEF PressState
      <3>3. CASE FindPenkas(o)
        <4> DEFINE targets == PenkasUpTo(self.at)
        <4>1. self.at \in Instants
          BY <3>3 DEF FindPenkas, Accounted, SentSound
        <4>2. self.at \in Nat /\ 0 <= self.at
          BY <4>1 DEF Instants
        <4>3. Founded \subseteq targets
          BY <4>2, ConstantsAssumption DEF MarkersTrustworthy, FoundedStand, PenkasUpTo, IsVisible
        <4>4. targets # {}
          BY <4>3
        <4>5. next = [self EXCEPT !.pc = "send", !.targets = targets, !.unsent = targets]
          BY <3>1, <3>3, <4>4 DEF FindPenkas, PressBecomes
        <4> HIDE DEF targets
        <4> QED
          BY <3>1, <4>5 DEF PressState
      <3>4. CASE \E p \in Penkas : Send(o, p)
        <4>1. self.pc = "send" /\ \E p \in Penkas : next = [self EXCEPT !.unsent = @ \ {p}]
          BY <3>1, <3>4 DEF Send, PressBecomes
        <4> QED
          BY <3>1, <4>1 DEF PressState
      <3> QED
        BY <2>1, <2>3, <3>2, <3>3, <3>4 DEF PressActs, PressContinues
    <2>4. \A o \in Presses : press'[o].pc # "clear"
      <3>1. CASE \E o \in Presses : PressActs(o)
        BY <2>3, <3>1, PressLeaves
      <3>2. CASE ~\E o \in Presses : PressActs(o)
        BY <3>2, OthersStamp
      <3> QED
        BY <3>1, <3>2
    <2> QED
      BY <2>2, <2>4
  <1>3. Inv => OneFanOut
    BY DEF AllStamped, Stamped, OneFanOut, Answered
  <1>4. Spec => []Accounted
    <2>1. TypeOK /\ MarkersTrustworthy /\ Accounted /\ [Next]_vars => Accounted'
      BY AccountedStep
    <2> QED
      BY <2>1, AccountedInit, Invariance, PTL DEF Spec
  <1> QED
    BY <1>1, <1>2, <1>3, <1>4, Invariance, PTL DEF Spec

-----------------------------------------------------------------------------
(* At most once. *)

(* No worker dies, or is refused, between its effects and its marker, and  *)
(* there is one.                                                           *)
Uninterrupted ==
  /\ \A v, w \in Workers : v = w
  /\ FaultKinds \cap {"crash", "apply", "marker"} = {}

Touching(w) == worker[w].pc \in {"apply", "mark"}

Mine(w) == {e \in Entries : Owner[e] = MsgPenka(w)}

(* A worker works on an unmarked penka, and on its entries only.           *)
WorksOnce(w) ==
  LET self == worker[w]
  IN  /\ self.failed = FALSE
      /\ self.pc \in {"load", "apply", "mark"} => MsgPenka(w) \notin marker
      /\ "entries" \in self.got => self.seen.members \subseteq Mine(w)
      /\ Touching(w) => self.todoEntries \cup self.todoPicks \subseteq Mine(w)

(* An entry of an unmarked penka was moved only by a worker that is still  *)
(* applying, and that no longer has it to do.                              *)
MovedOnce(e) ==
  /\ hits[e] <= 1
  /\ Owner[e] \notin marker /\ hits[e] # 0 =>
       \E w \in Workers : Touching(w) /\ MsgPenka(w) = Owner[e] /\ e \notin worker[w].todoEntries

Once ==
  /\ \A w \in Workers : WorksOnce(w)
  /\ \A e \in Entries : MovedOnce(e)

(* While its worker is not applying, a penka without marker is untouched.  *)
LEMMA RestOnce ==
  ASSUME Uninterrupted, Once, NEW w \in Workers, NEW e \in Entries, Owner[e] \notin marker,
         ~Touching(w) \/ Owner[e] # MsgPenka(w) \/ e \in worker[w].todoEntries
  PROVE  hits[e] = 0
  BY DEF Once, MovedOnce, Uninterrupted

(* What the acting worker knows of its own work.                           *)
LEMMA WorksStep ==
  ASSUME Uninterrupted, TypeOK, NEW w \in Workers, WorkerInv(w), WorksOnce(w),
         WorkerStep(w) \/ WorkerFault(w)
  PROVE  WorksOnce(w)'
  <1>1. ~BulkFails(w) /\ ~MarkerFails(w) /\ ~WorkerCrash(w)
    BY DEF Uninterrupted, BulkFails, MarkerFails, WorkerCrash, Fault
  <1>2. \A to \in {"ack", "retry", "findPenkas"} : HandlerOver(w, to) => WorksOnce(w)'
    BY Fields DEF WorksOnce, Touching
  <1>3. WorkerBecomes(w, IdleWorker) => WorksOnce(w)'
    BY Fields DEF WorksOnce, Touching
  <1>4. CASE worker[w].pc \notin {"load", "apply", "mark"}
             /\ \E to \in {"findPenkas", "flip", "ack", "confirm"} : WorkerGoes(w, to)
    <2>1. worker'[w].got = {} /\ worker'[w].failed = FALSE
          /\ worker'[w].pc \notin {"load", "apply", "mark"}
      BY <1>4, Fields DEF Keeps, WorkerInv, WorksOnce
    <2> QED
      BY <2>1 DEF WorksOnce, Touching
  <1>5. CASE Deliver(w) \/ \E p : WorkerBecomes(w, [worker[w] EXCEPT !.pc = "count", !.waiting = p])
                                  /\ worker[w].pc = "findPenkas"
    <2>1. worker[w] \in WorkerState /\ worker[w].got = {}
      BY <1>5 DEF TypeOK, WorkerInv, Deliver
    <2>2. \/ \E m : worker'[w] = [worker[w] EXCEPT !.pc = "gate", !.msg = m]
          \/ \E p : worker'[w] = [worker[w] EXCEPT !.pc = "count", !.waiting = p]
      BY <1>5, OwnState DEF Deliver
    <2>3. worker'[w].pc \in {"gate", "count"} /\ worker'[w].got = {} /\ worker'[w].failed = FALSE
      BY <2>1, <2>2 DEF WorkerState, WorksOnce
    <2> QED
      BY <2>3 DEF WorksOnce, Touching
  <1>6. CASE Gate(w)
    <2>1. worker[w].got = {} /\ marker' = marker
      BY <1>6 DEF Gate, WorkerInv, game
    <2>2. CASE MsgPenka(w) \notin marker /\ WorkerGoes(w, "load")
      <3>1. worker'[w].pc = "load" /\ Keeps(w)
        BY <2>2, Fields
      <3> QED
        BY <2>1, <2>2, <3>1 DEF Keeps, WorksOnce, Touching, MsgPenka
    <2> QED
      BY <1>4, <1>6, <2>2 DEF Gate
  <1>7. ASSUME NEW what \in Reads, Read(w, what) PROVE WorksOnce(w)'
    <2>1. EntriesIn(MsgPenka(w)) \subseteq Mine(w) /\ marker' = marker
      BY <1>7 DEF EntriesIn, Mine, Read, game
    <2> QED
      BY <1>7, <2>1, ReadFields DEF WorksOnce, Touching, Mine, MsgPenka
  <1>8. CASE Decide(w)
    <2>1. CASE WorkerBecomes(w, [worker[w] EXCEPT !.pc = "apply",
                                   !.todoEntries = worker[w].seen.members,
                                   !.todoPicks = worker[w].seen.members])
      <3>1. "entries" \in worker[w].got /\ worker[w].pc = "load" /\ marker' = marker
        BY <1>8 DEF Decide, Reads, game
      <3>2. /\ worker'[w].pc = "apply" /\ Keeps(w)
            /\ worker'[w].todoEntries = worker[w].seen.members
            /\ worker'[w].todoPicks = worker[w].seen.members
        BY <2>1, StartFields
      <3> QED
        BY <3>1, <3>2 DEF WorksOnce, Touching, Mine, MsgPenka, Keeps
    <2> QED
      BY <1>2, <1>8, <2>1 DEF Decide
  <1>9. ASSUME NEW e \in Entries, WriteEntry(w, e) \/ WritePick(w, e) PROVE WorksOnce(w)'
    <2>1. worker[w].pc = "apply" /\ marker' = marker
      BY <1>9 DEF WriteEntry, WritePick
    <2> QED
      BY <1>9, <2>1, WriteFields DEF WorksOnce, Touching, Mine, MsgPenka, Keeps
  <1>10. CASE BulksSettle(w)
    <2>1. worker[w].pc = "apply" /\ marker' = marker /\ WorkerGoes(w, "mark")
      BY <1>10 DEF BulksSettle, game, WorksOnce
    <2>2. /\ worker'[w].pc = "mark" /\ Keeps(w)
          /\ worker'[w].todoEntries = worker[w].todoEntries
          /\ worker'[w].todoPicks = worker[w].todoPicks
      BY <2>1, Fields
    <2> QED
      BY <2>1, <2>2 DEF WorksOnce, Touching, Mine, MsgPenka, Keeps
  <1>11. CASE FindWaiting(w) \/ Count(w) \/ Republish(w)
    BY <1>2, <1>4, <1>5, <1>11 DEF FindWaiting, Count, Republish
  <1>12. CASE InsertMarker(w) \/ ReadFails(w) \/ FinalizeFails(w) \/ Flip(w) \/ Ack(w)
              \/ DeadLetter(w) \/ RepublishFails(w)
    BY <1>2, <1>3, <1>12 DEF InsertMarker, ReadFails, FinalizeFails, Flip, Ack, DeadLetter,
                             RepublishFails
  <1> QED
    BY <1>1, <1>5, <1>6, <1>7, <1>8, <1>9, <1>10, <1>11, <1>12 DEF WorkerStep, WorkerFault

(* Which step moves an entry, which marks a penka, and which do neither.   *)
LEMMA Untouching ==
  ASSUME Uninterrupted, TypeOK, NEW w \in Workers, WorksOnce(w), WorkerStep(w) \/ WorkerFault(w)
  PROVE  \/ \E e \in Entries : WriteEntry(w, e) \/ WritePick(w, e)
         \/ InsertMarker(w) \/ BulksSettle(w)
         \/ ~Touching(w) /\ UNCHANGED game
  <1>1. ~BulkFails(w) /\ ~MarkerFails(w) /\ ~WorkerCrash(w)
    BY DEF Uninterrupted, BulkFails, MarkerFails, WorkerCrash, Fault
  <1> QED
    BY <1>1 DEF WorkerStep, WorkerFault, Touching, Deliver, Gate, Decide, Read, FindWaiting, Count,
                Flip, Ack, DeadLetter, Republish, ReadFails, FinalizeFails, RepublishFails

(* An entry moves by the one write of the worker that leaves its marker.   *)
LEMMA MovedStep ==
  ASSUME Uninterrupted, TypeOK, NEW w \in Workers, WorkerInv(w), Once,
         WorkerStep(w) \/ WorkerFault(w), NEW e \in Entries
  PROVE  MovedOnce(e)'
  <1>1. WorksOnce(w) /\ hits \in [Entries -> Nat] /\ hits[e] <= 1 /\ MovedOnce(e)
    BY DEF Once, TypeOK, MovedOnce
  <1>2. \A v \in Workers : v = w
    BY DEF Uninterrupted
  <1>3. CASE ~Touching(w) /\ UNCHANGED game
    BY <1>1, <1>3, RestOnce DEF MovedOnce, game
  <1>4. ASSUME NEW d \in Entries, WriteEntry(w, d) PROVE MovedOnce(e)'
    <2>1. /\ worker[w].pc = "apply" /\ d \in worker[w].todoEntries /\ marker' = marker
          /\ hits' = [hits EXCEPT ![d] = @ + 1]
      BY <1>4 DEF WriteEntry
    <2>2. /\ Touching(w)' /\ MsgPenka(w)' = MsgPenka(w)
          /\ worker'[w].todoEntries = worker[w].todoEntries \ {d}
      BY <1>4, WriteFields DEF Touching, MsgPenka, Keeps
    <2>3. CASE e = d
      <3>1. Owner[e] = MsgPenka(w) /\ Owner[e] \notin marker
        BY <1>1, <2>1, <2>3 DEF WorksOnce, Touching, Mine
      <3>2. hits[e] = 0
        BY <2>1, <2>3, <3>1, RestOnce
      <3>3. hits'[e] = 1
        BY <1>1, <2>1, <2>3, <3>2
      <3>4. e \notin worker'[w].todoEntries /\ MsgPenka(w)' = Owner[e]
        BY <2>2, <2>3, <3>1
      <3> QED
        BY <2>2, <3>3, <3>4 DEF MovedOnce
    <2>4. CASE e # d
      <3>1. hits'[e] = hits[e]
        BY <1>1, <2>1, <2>4
      <3> QED
        BY <1>1, <1>2, <2>1, <2>2, <3>1 DEF MovedOnce
    <2> QED
      BY <2>3, <2>4
  <1>5. CASE BulksSettle(w) \/ \E d \in Entries : WritePick(w, d)
    <2>1. hits' = hits /\ marker' = marker
      BY <1>5 DEF BulksSettle, WritePick, game
    <2>2. Touching(w)' /\ MsgPenka(w)' = MsgPenka(w)
          /\ worker'[w].todoEntries = worker[w].todoEntries
      <3>1. CASE BulksSettle(w)
        <4>1. WorkerGoes(w, "mark")
          BY <1>1, <3>1 DEF BulksSettle, WorksOnce
        <4> QED
          BY <4>1, Fields DEF Touching, MsgPenka, Keeps
      <3>2. CASE \E d \in Entries : WritePick(w, d)
        BY <3>2, WriteFields DEF Touching, MsgPenka, Keeps
      <3> QED
        BY <1>5, <3>1, <3>2
    <2> QED
      BY <1>1, <1>2, <2>1, <2>2 DEF MovedOnce
  <1>6. CASE InsertMarker(w)
    <2>1. hits' = hits /\ marker' = marker \cup {MsgPenka(w)}
      BY <1>6 DEF InsertMarker
    <2>2. Owner[e] \notin marker' => hits[e] = 0
      BY <2>1, RestOnce
    <2> QED
      BY <1>1, <2>1, <2>2 DEF MovedOnce
  <1> QED
    BY <1>1, <1>3, <1>4, <1>5, <1>6, Untouching

(* Nothing was moved at the start ...                                      *)
LEMMA OnceInit == Init => Once
  <1> SUFFICES ASSUME Init PROVE Once
    OBVIOUS
  <1>1. \A w \in Workers : worker[w].pc = "idle" /\ worker[w].got = {} /\ worker[w].failed = FALSE
    BY DEF Init, IdleWorker
  <1>2. \A e \in Entries : hits[e] = 0
    BY DEF Init
  <1> QED
    BY <1>1, <1>2 DEF Once, WorksOnce, MovedOnce, Touching

(* ... and every step moves an entry once at most.                         *)
LEMMA OnceStep ==
  ASSUME Uninterrupted, TypeOK, MarkersTrustworthy, Once, [Next]_vars
  PROVE  Once'
  <1>1. ASSUME NEW w \in Workers, WorkerStep(w) \/ WorkerFault(w) PROVE Once'
    <2>1. WorkerInv(w) /\ \A v \in Workers : v = w
      BY DEF MarkersTrustworthy, Uninterrupted
    <2>2. WorksOnce(w)'
      BY <1>1, <2>1, WorksStep DEF Once
    <2> QED
      BY <1>1, <2>1, <2>2, MovedStep DEF Once
  <1>2. ASSUME ~\E w \in Workers : WorkerStep(w) \/ WorkerFault(w) PROVE Once'
    <2>1. worker' = worker /\ marker' = marker /\ hits' = hits
      BY <1>2, OthersGrow DEF MarkersTrustworthy
    <2> QED
      BY <2>1 DEF Once, WorksOnce, MovedOnce, Touching, Mine, MsgPenka
  <1> QED
    BY <1>1, <1>2

(* With one worker that is not interrupted between its effects and its     *)
(* marker, no entry is moved twice by a matchday, however often commands   *)
(* are redelivered, duplicated or retried, and whatever else fails.        *)
THEOREM MovedAtMostOnce ==
  ASSUME Uninterrupted
  PROVE  Spec => []AtMostOnce
  <1>1. Init => Once
    BY OnceInit
  <1>2. TypeOK /\ MarkersTrustworthy /\ Once /\ [Next]_vars => Once'
    BY OnceStep
  <1>3. Once => AtMostOnce
    BY DEF Once, MovedOnce, AtMostOnce
  <1> QED
    BY <1>1, <1>2, <1>3, Invariance, PTL DEF Spec

-----------------------------------------------------------------------------
(* The pipeline implements the promise. *)

(* Operators whose requests do not race a resolution: close writes an open *)
(* matchday, and a result is written while some result is missing.         *)
CalmStep ==
  /\ (\E c \in Closers : CloseWrite(c)) => status = "open"
  /\ (\E s \in Scorers : SetResultWrite(s)) => \E f \in Fixtures : outcome[f] = NoOutcome

AllDecided(results) == \A f \in Fixtures : results[f] # NoOutcome

(* What a worker has read is still so when it matters.                     *)
SeesRight(w) ==
  LET self == worker[w]
  IN  /\ "matchday" \in self.got /\ self.seen.status # "open" => status # "open"
      /\ "matches" \in self.got /\ AllDecided(self.seen.outcome) => self.seen.outcome = outcome
      /\ "entries" \in self.got => \A e \in Mine(w) : self.seen.entries[e] = before[e]
      /\ Touching(w) => /\ self.got = Reads /\ self.seen.status # "open"
                        /\ AllDecided(self.seen.outcome)

(* What a worker has written is the engine's effect on the entry as it was. *)
WroteRight(w) ==
  Touching(w) => \A e \in Mine(w) :
    /\ e \notin worker[w].todoEntries => entries[e] = EntryUpdate(before[e], EffectOn(w, e))
    /\ e \notin worker[w].todoPicks /\ pick[e] # NoTeam => label[e] = PickResultOf(EffectOn(w, e))

Untouched(e) ==
  /\ hits[e] = 0 => entries[e] = before[e]
  /\ pick[e] = NoTeam => label[e] = "none"

MarkedWhenReady == marker # {} => status # "open" /\ AllDecided(outcome)

Exact ==
  /\ \A w \in Workers : SeesRight(w) /\ WroteRight(w)
  /\ \A e \in Entries : Untouched(e)
  /\ MarkedWhenReady

(* The engine accepts exactly the locked matchday with every result in.    *)
LEMMA RejectionOk ==
  ASSUME NEW state \in Statuses, NEW results
  PROVE  Rejection(state, Matches(results)) = "ok" <=> state = "locked" /\ AllDecided(results)
  <1>1. (\E match \in Matches(results) : match.outcome = NoOutcome) <=> ~AllDecided(results)
    <2>1. ASSUME NEW f \in Fixtures, results[f] = NoOutcome
          PROVE  \E match \in Matches(results) : match.outcome = NoOutcome
      <3> DEFINE match == [home |-> f.home, away |-> f.away, outcome |-> results[f]]
      <3>1. match \in Matches(results) /\ match.outcome = NoOutcome
        BY <2>1 DEF Matches
      <3> QED
        BY <3>1
    <2>2. ASSUME NEW match \in Matches(results), match.outcome = NoOutcome
          PROVE  \E f \in Fixtures : results[f] = NoOutcome
      BY <2>2 DEF Matches
    <2> QED
      BY <2>1, <2>2 DEF AllDecided
  <1> HIDE DEF AllDecided
  <1> QED
    BY <1>1 DEF Rejection, Statuses

(* Nobody but a worker moves entries; the calendar moves calmly.           *)
LEMMA OthersCalm ==
  ASSUME TypeOK, [Next]_vars, [CalmStep]_vars, ~\E w \in Workers : WorkerStep(w) \/ WorkerFault(w)
  PROVE  /\ entries' = entries /\ before' = before /\ pick' = pick
         /\ \/ status' = status /\ outcome' = outcome
            \/ status = "open" /\ status' = "locked" /\ outcome' = outcome
            \/ /\ ~AllDecided(outcome) /\ status' = status
               /\ \E f \in Fixtures, result \in Outcomes : outcome' = [outcome EXCEPT ![f] = result]
  <1> USE DEF game, given, calendar
  <1>1. CASE UNCHANGED vars
    BY <1>1 DEF vars
  <1>2. CASE \E o \in Presses : PressActs(o)
    BY <1>2 DEF PressActs, PressContinues, PressLoad, PressCheck, Claim, Join, FindPenkas, Send,
                Confirm, Clear, PublishFails, PressCrash, PressUnchanged
  <1>3. CASE CalmStep /\ \E c \in Closers : CloseLoad(c) \/ CloseWrite(c)
    BY <1>3 DEF CloseLoad, CloseWrite, CalmStep, OperatorUnchanged
  <1>4. CASE CalmStep /\ \E s \in Scorers : SetResultLoad(s) \/ SetResultWrite(s)
    BY <1>4 DEF SetResultLoad, SetResultWrite, CalmStep, OperatorUnchanged, AllDecided
  <1>5. CASE Tick \/ \E p \in Penkas : StampPenka(p) \/ InsertPenka(p) \/ EnsureEntry(p)
                                       \/ DiscardPenka(p)
    BY <1>5 DEF Tick, StampPenka, InsertPenka, EnsureEntry, DiscardPenka, CreationUnchanged
  <1> QED
    BY <1>1, <1>2, <1>3, <1>4, <1>5 DEF Next, PressActs

(* A worker leaves the operators' and the players' data alone, and the     *)
(* matchday is flipped by Flip only.                                       *)
LEMMA WorkerCalm ==
  ASSUME NEW w \in Workers, WorkerStep(w) \/ WorkerFault(w)
  PROVE  /\ outcome' = outcome /\ pick' = pick /\ before' = before
         /\ status' = status \/ (Flip(w) /\ status = "locked" /\ status' = "resolved")
  BY DEF WorkerStep, WorkerFault, Deliver, Gate, Decide, BulksSettle, InsertMarker, Read,
         WriteEntry, WritePick, FindWaiting, Count, Flip, Ack, DeadLetter, Republish, BulkFails,
         MarkerFails, ReadFails, FinalizeFails, RepublishFails, WorkerCrash, WorkerUnchanged, given

(* What a worker knows survives the steps of others, and its own where it  *)
(* reads and writes nothing.                                               *)
LEMMA ExactKept ==
  ASSUME NEW w \in Workers, SeesRight(w), WroteRight(w),
         worker'[w] = worker[w] \/ (worker'[w].got = {} /\ worker'[w].pc \notin {"apply", "mark"})
           \/ (/\ Keeps(w) /\ Touching(w) /\ Touching(w)'
               /\ worker'[w].todoEntries = worker[w].todoEntries
               /\ worker'[w].todoPicks = worker[w].todoPicks),
         pick' = pick, before' = before, entries' = entries, label' = label,
         status # "open" => status' # "open", outcome' = outcome \/ ~AllDecided(outcome)
  PROVE  SeesRight(w)' /\ WroteRight(w)'
  <1>1. CASE worker'[w].got = {} /\ worker'[w].pc \notin {"apply", "mark"}
    BY <1>1 DEF SeesRight, WroteRight, Touching
  <1>2. ASSUME worker'[w].msg = worker[w].msg, worker'[w].got = worker[w].got,
               worker'[w].seen = worker[w].seen, Touching(w)' = Touching(w),
               worker'[w].todoEntries = worker[w].todoEntries,
               worker'[w].todoPicks = worker[w].todoPicks
        PROVE  SeesRight(w)' /\ WroteRight(w)'
    <2>1. Mine(w)' = Mine(w) /\ MsgPenka(w)' = MsgPenka(w)
      BY <1>2 DEF Mine, MsgPenka
    <2>2. \A e \in Entries : EffectOn(w, e)' = EffectOn(w, e)
      BY <1>2, <2>1 DEF EffectOn
    <2>3. SeesRight(w)'
      BY <1>2, <2>1 DEF SeesRight
    <2>4. WroteRight(w)'
      BY <1>2, <2>1, <2>2 DEF WroteRight, Mine
    <2> QED
      BY <2>3, <2>4
  <1> QED
    BY <1>1, <1>2 DEF Keeps, Touching

(* A worker that reads sees the matchday as it was before it was resolved. *)
LEMMA ReadRight ==
  ASSUME Uninterrupted, Founded = Penkas, TypeOK, MarkersTrustworthy, Once, Exact,
         NEW w \in Workers, NEW what \in Reads, Read(w, what)
  PROVE  SeesRight(w)' /\ WroteRight(w)'
  <1> DEFINE old == worker[w].seen
             new == worker'[w].seen
             mine == EntriesIn(MsgPenka(w))
  <1>1. /\ worker[w].pc = "load" /\ worker'[w].pc = "load"
        /\ worker'[w].msg = worker[w].msg
        /\ worker'[w].got = worker[w].got \cup {what}
        /\ new.status = IF what = "matchday" THEN status ELSE old.status
        /\ new.outcome = IF what = "matches" THEN outcome ELSE old.outcome
        /\ \A e \in Entries :
             new.entries[e] = IF what = "entries"
                              THEN IF e \in mine THEN entries[e] ELSE NoEntry
                              ELSE old.entries[e]
    BY ReadFields
  <1>2. status' = status /\ outcome' = outcome /\ before' = before
    BY DEF Read, WorkerUnchanged, given
  <1>3. MsgPenka(w) \in Founded /\ MsgPenka(w) \notin marker /\ Mine(w)' = Mine(w)
    BY <1>1 DEF MarkersTrustworthy, WorkerInv, MsgPenka, Command, Once, WorksOnce, Mine
  <1>4. mine = Mine(w)
    BY <1>3 DEF MarkersTrustworthy, FoundedStand, EntriesIn, Mine
  <1>5. \A e \in Mine(w) : entries[e] = before[e]
    <2> TAKE e \in Mine(w)
    <2>1. e \in Entries /\ Owner[e] \notin marker
      BY <1>3 DEF Mine
    <2>2. hits[e] = 0
      BY <1>1, <2>1, RestOnce DEF Touching
    <2> QED
      BY <2>1, <2>2 DEF Exact, Untouched
  <1>6. SeesRight(w)
    BY DEF Exact
  <1> HIDE DEF old, new, mine
  <1>7. "entries" \in worker'[w].got => \A e \in Mine(w) : new.entries[e] = before[e]
    <2>1. Mine(w) \subseteq Entries
      BY DEF Mine
    <2> QED
      BY <1>1, <1>4, <1>5, <1>6, <2>1 DEF SeesRight, old, Reads
  <1>8. SeesRight(w)'
    BY <1>1, <1>2, <1>3, <1>6, <1>7 DEF SeesRight, Touching, old, new
  <1> QED
    BY <1>1, <1>8 DEF WroteRight, Touching

(* A worker that starts to apply has what it needs of what it saw.         *)
LEMMA DecideRight ==
  ASSUME Uninterrupted, Founded = Penkas, TypeOK, MarkersTrustworthy, Exact,
         NEW w \in Workers, Decide(w)
  PROVE  SeesRight(w)' /\ WroteRight(w)'
  <1> DEFINE seen == worker[w].seen
  <1>1. /\ worker[w].pc = "load" /\ worker[w].got = Reads /\ SeesRight(w) /\ WroteRight(w)
        /\ worker[w] \in WorkerState /\ WorkerInv(w)
    BY DEF Decide, Exact, TypeOK, MarkersTrustworthy
  <1>2. /\ status' = status /\ outcome' = outcome /\ before' = before /\ pick' = pick
        /\ entries' = entries /\ label' = label
    BY DEF Decide, WorkerUnchanged, given, game
  <1>3. CASE HandlerOver(w, "ack") \/ HandlerOver(w, "retry")
    <2>1. \A to : HandlerOver(w, to) => worker'[w].got = {} /\ worker'[w].pc = to
      BY Fields
    <2>2. worker'[w].got = {} /\ worker'[w].pc \notin {"apply", "mark"}
      BY <1>3, <2>1
    <2> QED
      BY <1>1, <1>2, <2>2, ExactKept
  <1>4. CASE /\ Rejection(seen.status, Matches(seen.outcome)) = "ok"
             /\ WorkerBecomes(w, [worker[w] EXCEPT !.pc = "apply", !.todoEntries = seen.members,
                                                   !.todoPicks = seen.members])
    <2>1. /\ worker'[w].pc = "apply" /\ Keeps(w)
          /\ worker'[w].todoEntries = seen.members /\ worker'[w].todoPicks = seen.members
      BY <1>4, StartFields
    <2>2. seen.status \in Statuses
      BY <1>1 DEF WorkerState
    <2>3. seen.status = "locked" /\ AllDecided(seen.outcome)
      BY <1>4, <2>2, RejectionOk
    <2>4. seen.members = Mine(w) /\ Mine(w)' = Mine(w)
      BY <1>1, <2>1 DEF WorkerInv, EntriesRead, Command, Reads, Mine, MsgPenka, Keeps
    <2>5. SeesRight(w)'
      BY <1>1, <1>2, <2>1, <2>3, <2>4 DEF SeesRight, Keeps, Touching
    <2>6. WroteRight(w)'
      BY <2>1, <2>4 DEF WroteRight
    <2> QED
      BY <2>5, <2>6
  <1> QED
    BY <1>3, <1>4 DEF Decide

(* Each write of a bulk is the engine's effect, and of one entry only.     *)
LEMMA WriteRight ==
  ASSUME Uninterrupted, TypeOK, Once, Exact, NEW w \in Workers, NEW d \in Entries,
         WriteEntry(w, d) \/ WritePick(w, d)
  PROVE  SeesRight(w)' /\ WroteRight(w)' /\ \A e \in Entries : Untouched(e)'
  <1>1. /\ worker[w].pc = "apply" /\ Touching(w) /\ SeesRight(w) /\ WroteRight(w) /\ WorksOnce(w)
        /\ \A e \in Entries : Untouched(e)
    BY DEF WriteEntry, WritePick, Touching, Exact, Once
  <1>2. /\ status' = status /\ outcome' = outcome /\ before' = before /\ pick' = pick
        /\ marker' = marker
    BY DEF WriteEntry, WritePick, WorkerUnchanged, given
  <1>3. worker'[w].pc = "apply" /\ Keeps(w)
    BY WriteFields
  <1>4. Mine(w)' = Mine(w) /\ \A e \in Entries : EffectOn(w, e)' = EffectOn(w, e)
    BY <1>2, <1>3 DEF Mine, MsgPenka, Keeps, EffectOn
  <1>5. SeesRight(w)'
    BY <1>1, <1>2, <1>3, <1>4 DEF SeesRight, Touching, Keeps
  <1>6. CASE WriteEntry(w, d)
    <2>1. /\ entries' = [entries EXCEPT ![d] = EntryUpdate(@, EffectOn(w, d))]
          /\ hits' = [hits EXCEPT ![d] = @ + 1] /\ label' = label /\ d \in worker[w].todoEntries
          /\ worker'[w].todoEntries = worker[w].todoEntries \ {d}
          /\ worker'[w].todoPicks = worker[w].todoPicks
      BY <1>6, WriteFields DEF WriteEntry
    <2>2. Owner[d] \notin marker
      BY <1>1, <2>1 DEF WorksOnce, Mine
    <2>3. hits[d] = 0 /\ entries[d] = before[d]
      BY <1>1, <2>1, <2>2, RestOnce DEF Untouched
    <2>4. /\ entries'[d] = EntryUpdate(before[d], EffectOn(w, d))
          /\ hits'[d] # 0 /\ \A e \in Entries \ {d} : entries'[e] = entries[e] /\ hits'[e] = hits[e]
      BY <2>1, <2>3 DEF TypeOK
    <2>5. WroteRight(w)'
      <3> SUFFICES ASSUME NEW e \in Mine(w)
                   PROVE  /\ e \notin worker'[w].todoEntries =>
                               entries'[e] = EntryUpdate(before[e], EffectOn(w, e))
                          /\ e \notin worker'[w].todoPicks /\ pick[e] # NoTeam =>
                               label[e] = PickResultOf(EffectOn(w, e))
        BY <1>2, <1>4, <2>1 DEF WroteRight, Mine
      <3>1. e \in Entries
        BY DEF Mine
      <3> QED
        BY <1>1, <2>1, <2>4, <3>1 DEF WroteRight
    <2>6. \A e \in Entries : Untouched(e)'
      BY <1>1, <1>2, <2>1, <2>4 DEF Untouched
    <2> QED
      BY <1>5, <2>5, <2>6
  <1>7. CASE WritePick(w, d)
    <2>1. /\ label' = IF pick[d] = NoTeam THEN label
                      ELSE [label EXCEPT ![d] = PickResultOf(EffectOn(w, d))]
          /\ hits' = hits /\ entries' = entries
          /\ worker'[w].todoEntries = worker[w].todoEntries
          /\ worker'[w].todoPicks = worker[w].todoPicks \ {d}
      BY <1>7, WriteFields DEF WritePick
    <2>2. /\ pick[d] # NoTeam => label'[d] = PickResultOf(EffectOn(w, d))
          /\ pick[d] = NoTeam => label'[d] = label[d]
          /\ \A e \in Entries \ {d} : label'[e] = label[e]
      BY <2>1 DEF TypeOK
    <2>3. WroteRight(w)'
      <3> SUFFICES ASSUME NEW e \in Mine(w)
                   PROVE  /\ e \notin worker'[w].todoEntries =>
                               entries[e] = EntryUpdate(before[e], EffectOn(w, e))
                          /\ e \notin worker'[w].todoPicks /\ pick[e] # NoTeam =>
                               label'[e] = PickResultOf(EffectOn(w, e))
        BY <1>2, <1>4, <2>1 DEF WroteRight, Mine
      <3>1. e \in Entries
        BY DEF Mine
      <3> QED
        BY <1>1, <2>1, <2>2, <3>1 DEF WroteRight
    <2>4. \A e \in Entries : Untouched(e)'
      BY <1>1, <1>2, <2>1, <2>2 DEF Untouched
    <2> QED
      BY <1>5, <2>3, <2>4
  <1> QED
    BY <1>6, <1>7

(* Inserting the marker of a penka: everything was applied, the matchday   *)
(* is closed and its results are complete.                                 *)
LEMMA MarkRight ==
  ASSUME Uninterrupted, TypeOK, Once, Exact, NEW w \in Workers, InsertMarker(w)
  PROVE  /\ marker' = marker \cup {MsgPenka(w)} /\ MsgPenka(w) \notin marker
         /\ worker[w].seen.outcome = outcome /\ status # "open" /\ AllDecided(outcome)
         /\ worker'[w].got = {} /\ worker'[w].pc \notin {"apply", "mark"}
  <1>1. /\ worker[w].pc = "mark" /\ marker' = marker \cup {MsgPenka(w)}
        /\ HandlerOver(w, "retry") \/ HandlerOver(w, "findPenkas")
    BY DEF InsertMarker
  <1>2. \A to : HandlerOver(w, to) => worker'[w].got = {} /\ worker'[w].pc = to
    BY Fields
  <1>3. worker'[w].got = {} /\ worker'[w].pc \notin {"apply", "mark"}
    BY <1>1, <1>2
  <1> QED
    BY <1>1, <1>3 DEF Once, WorksOnce, Exact, SeesRight, Touching, Reads

(* The steps of a worker that only move it on, or give the command back.   *)
LEMMA MovesOn ==
  ASSUME Uninterrupted, TypeOK, NEW w \in Workers, WorkerInv(w), WorksOnce(w),
         WorkerStep(w) \/ WorkerFault(w), ~Decide(w), ~InsertMarker(w),
         ~\E what \in Reads : Read(w, what),
         ~\E e \in Entries : WriteEntry(w, e) \/ WritePick(w, e)
  PROVE  /\ UNCHANGED game
         /\ \/ worker'[w].got = {} /\ worker'[w].pc \notin {"apply", "mark"}
            \/ /\ Keeps(w) /\ Touching(w) /\ Touching(w)'
               /\ worker'[w].todoEntries = worker[w].todoEntries
               /\ worker'[w].todoPicks = worker[w].todoPicks
  <1>1. ~BulkFails(w) /\ ~MarkerFails(w) /\ ~WorkerCrash(w)
    BY DEF Uninterrupted, BulkFails, MarkerFails, WorkerCrash, Fault
  <1>2. UNCHANGED game
    BY <1>1, Untouching DEF BulksSettle
  <1>3. CASE \/ \E to \in {"ack", "retry", "findPenkas"} : HandlerOver(w, to)
             \/ WorkerBecomes(w, IdleWorker)
    <2>1. worker'[w].got = {} /\ worker'[w].pc \notin {"apply", "mark"}
      BY <1>3, Fields
    <2> QED
      BY <1>2, <2>1
  <1>4. CASE worker[w].pc \notin {"load", "apply", "mark"}
             /\ \E to \in {"findPenkas", "flip", "ack", "confirm", "load"} : WorkerGoes(w, to)
    <2>1. worker'[w].got = {} /\ worker'[w].pc \notin {"apply", "mark"}
      BY <1>4, Fields DEF Keeps, WorkerInv
    <2> QED
      BY <1>2, <2>1
  <1>5. CASE Deliver(w) \/ \E p : WorkerBecomes(w, [worker[w] EXCEPT !.pc = "count", !.waiting = p])
                                  /\ worker[w].pc = "findPenkas"
    <2>1. worker[w] \in WorkerState /\ worker[w].got = {}
      BY <1>5 DEF TypeOK, WorkerInv, Deliver
    <2>2. \/ \E m : worker'[w] = [worker[w] EXCEPT !.pc = "gate", !.msg = m]
          \/ \E p : worker'[w] = [worker[w] EXCEPT !.pc = "count", !.waiting = p]
      BY <1>5, OwnState DEF Deliver
    <2>3. worker'[w].pc \in {"gate", "count"} /\ worker'[w].got = {}
      BY <2>1, <2>2 DEF WorkerState
    <2> QED
      BY <1>2, <2>3
  <1>6. CASE BulksSettle(w)
    <2>1. worker[w].pc = "apply" /\ WorkerGoes(w, "mark")
      BY <1>6 DEF BulksSettle, WorksOnce
    <2>2. /\ worker'[w].pc = "mark" /\ Keeps(w)
          /\ worker'[w].todoEntries = worker[w].todoEntries
          /\ worker'[w].todoPicks = worker[w].todoPicks
      BY <2>1, Fields
    <2> QED
      BY <1>2, <2>1, <2>2 DEF Touching
  <1>7. CASE Gate(w) \/ FindWaiting(w) \/ Count(w) \/ Republish(w)
    BY <1>3, <1>4, <1>5, <1>7 DEF Gate, FindWaiting, Count, Republish
  <1>8. CASE ReadFails(w) \/ FinalizeFails(w) \/ Flip(w) \/ Ack(w) \/ DeadLetter(w)
             \/ RepublishFails(w)
    BY <1>3, <1>8 DEF ReadFails, FinalizeFails, Flip, Ack, DeadLetter, RepublishFails
  <1> QED
    BY <1>1, <1>5, <1>6, <1>7, <1>8 DEF WorkerStep, WorkerFault

(* Every step of the one worker keeps what it sees and wrote exact.        *)
LEMMA ExactWorker ==
  ASSUME Uninterrupted, Founded = Penkas, TypeOK, MarkersTrustworthy, Once, Exact,
         NEW w \in Workers, WorkerStep(w) \/ WorkerFault(w)
  PROVE  Exact'
  <1>1. /\ \A v \in Workers : v = w
        /\ SeesRight(w) /\ WroteRight(w) /\ \A e \in Entries : Untouched(e)
        /\ WorkerInv(w) /\ WorksOnce(w) /\ MarkedWhenReady
    BY DEF Uninterrupted, Exact, MarkersTrustworthy, Once
  <1>2. /\ outcome' = outcome /\ pick' = pick /\ before' = before
        /\ status # "open" => status' # "open"
    BY WorkerCalm
  <1>3. ASSUME UNCHANGED game, SeesRight(w)', WroteRight(w)' PROVE Exact'
    <2>1. MarkedWhenReady' /\ \A e \in Entries : Untouched(e)'
      BY <1>1, <1>2, <1>3 DEF MarkedWhenReady, Untouched, game
    <2> QED
      BY <1>1, <1>3, <2>1 DEF Exact
  <1>4. CASE Decide(w)
    <2>1. UNCHANGED game
      BY <1>4 DEF Decide
    <2> QED
      BY <1>3, <1>4, <2>1, DecideRight
  <1>5. ASSUME NEW what \in Reads, Read(w, what) PROVE Exact'
    <2>1. UNCHANGED game
      BY <1>5 DEF Read
    <2> QED
      BY <1>3, <1>5, <2>1, ReadRight
  <1>6. ASSUME NEW e \in Entries, WriteEntry(w, e) \/ WritePick(w, e) PROVE Exact'
    <2>1. SeesRight(w)' /\ WroteRight(w)' /\ \A d \in Entries : Untouched(d)'
      BY <1>6, WriteRight
    <2>2. marker' = marker
      BY <1>6 DEF WriteEntry, WritePick
    <2> QED
      BY <1>1, <1>2, <2>1, <2>2 DEF Exact, MarkedWhenReady
  <1>7. CASE InsertMarker(w)
    <2>1. entries' = entries /\ label' = label /\ hits' = hits /\ status' = status
      BY <1>7 DEF InsertMarker
    <2>2. SeesRight(w)' /\ WroteRight(w)'
      BY <1>1, <1>2, <1>7, <2>1, MarkRight, ExactKept
    <2>3. MarkedWhenReady' /\ \A e \in Entries : Untouched(e)'
      BY <1>1, <1>2, <1>7, <2>1, MarkRight DEF MarkedWhenReady, Untouched
    <2> QED
      BY <1>1, <2>2, <2>3 DEF Exact
  <1>8. ASSUME ~Decide(w), ~InsertMarker(w), ~\E what \in Reads : Read(w, what),
               ~\E e \in Entries : WriteEntry(w, e) \/ WritePick(w, e)
        PROVE  Exact'
    <2>1. /\ UNCHANGED game
          /\ \/ worker'[w].got = {} /\ worker'[w].pc \notin {"apply", "mark"}
             \/ /\ Keeps(w) /\ Touching(w) /\ Touching(w)'
                /\ worker'[w].todoEntries = worker[w].todoEntries
                /\ worker'[w].todoPicks = worker[w].todoPicks
      BY <1>1, <1>8, MovesOn
    <2>2. entries' = entries /\ label' = label
      BY <2>1 DEF game
    <2>3. SeesRight(w)' /\ WroteRight(w)'
      BY <1>1, <1>2, <2>1, <2>2, ExactKept
    <2> QED
      BY <1>3, <2>1, <2>3
  <1> QED
    BY <1>4, <1>5, <1>6, <1>7, <1>8

(* So does every calm step, whoever takes it.                              *)
LEMMA ExactStep ==
  ASSUME Uninterrupted, Founded = Penkas, TypeOK, MarkersTrustworthy, Once, Exact,
         [Next]_vars, [CalmStep]_vars
  PROVE  Exact'
  <1>1. CASE \E w \in Workers : WorkerStep(w) \/ WorkerFault(w)
    BY <1>1, ExactWorker
  <1>2. ASSUME ~\E w \in Workers : WorkerStep(w) \/ WorkerFault(w) PROVE Exact'
    <2>1. worker' = worker /\ marker' = marker /\ hits' = hits /\ label' = label
      BY <1>2, OthersGrow DEF MarkersTrustworthy
    <2>2. /\ entries' = entries /\ before' = before /\ pick' = pick
          /\ status # "open" => status' # "open"
          /\ outcome' = outcome \/ ~AllDecided(outcome)
      BY <1>2, OthersCalm
    <2>3. ASSUME NEW w \in Workers PROVE SeesRight(w)' /\ WroteRight(w)'
      <3>1. worker'[w] = worker[w] /\ SeesRight(w) /\ WroteRight(w)
        BY <2>1 DEF Exact
      <3> QED
        BY <2>1, <2>2, <3>1, ExactKept
    <2>4. MarkedWhenReady' /\ \A e \in Entries : Untouched(e)'
      BY <2>1, <2>2 DEF Exact, MarkedWhenReady, Untouched
    <2> QED
      BY <2>3, <2>4 DEF Exact
  <1> QED
    BY <1>1, <1>2

(* What the promise sees of the entries and of the labels.                 *)
ShownEntries == [e \in Entries |-> IF Owner[e] \in marker THEN entries[e] ELSE before[e]]
ShownLabels == [e \in Entries |-> IF Owner[e] \in marker THEN label[e] ELSE "none"]

(* The promise asks the same engine. *)
LEMMA SameEngine ==
  /\ \A entry, team, matches, enabled :
       Promise!EntryEffect(entry, team, matches, enabled) =
         EntryEffect(entry, team, matches, enabled)
  /\ \A entry, effect : Promise!EntryUpdate(entry, effect) = EntryUpdate(entry, effect)
  /\ \A effect : Promise!PickResultOf(effect) = PickResultOf(effect)
  /\ \A state, matches : Promise!Rejection(state, matches) = Rejection(state, matches)
  /\ Promise!MatchDocs = Matches(outcome)
  <1>1. \A entry, team, matches, enabled :
       Promise!EntryEffect(entry, team, matches, enabled) =
         EntryEffect(entry, team, matches, enabled)
    BY DEF EntryEffect, IslandEffect, AliveEffect, AliveWinEffect, AliveLossEffect, IsPlaying,
           DidTeamWin, Plays, IsWin, Promise!EntryEffect, Promise!IslandEffect, Promise!AliveEffect,
           Promise!AliveWinEffect, Promise!AliveLossEffect, Promise!IsPlaying, Promise!DidTeamWin,
           Promise!Plays, Promise!IsWin
  <1>2. \A entry, effect : Promise!EntryUpdate(entry, effect) = EntryUpdate(entry, effect)
    BY DEF EntryUpdate, Promise!EntryUpdate
  <1>3. \A effect : Promise!PickResultOf(effect) = PickResultOf(effect)
    BY DEF PickResultOf, Promise!PickResultOf
  <1>4. \A state, matches : Promise!Rejection(state, matches) = Rejection(state, matches)
    BY DEF Rejection, Promise!Rejection, NoOutcome, Promise!NoOutcome
  <1>5. Promise!MatchDocs = Matches(outcome)
    BY DEF Matches, Promise!MatchDocs
  <1> QED
    BY <1>1, <1>2, <1>3, <1>4, <1>5

(* A promised state starts where the pipeline starts.                      *)
LEMMA PromiseInit == Init => Promise!Init
  <1> SUFFICES ASSUME Init PROVE Promise!Init
    OBVIOUS
  <1> USE ConstantsAssumption
  <1>1. status \in {"open", "locked"} /\ outcome \in [Fixtures -> Outcomes \cup {NoOutcome}]
        /\ pick \in [Entries -> Teams \cup {NoTeam}] /\ marker = {}
    BY DEF Init
  <1>2. \A e \in Entries : ShownEntries[e] \in Entry
    BY <1>1 DEF ShownEntries, Init
  <1>3. ShownLabels = [e \in Entries |-> "none"]
    BY <1>1 DEF ShownLabels
  <1> QED
    BY <1>1, <1>2, <1>3
    DEF Promise!Init, ShownEntries, ShownLabels, Promise!Entry, Entry, Promise!Outcomes, Outcomes,
        Promise!NoOutcome, NoOutcome

(* A step that stores no marker and leaves the calendar alone shows        *)
(* nothing.                                                                *)
LEMMA Stutters ==
  ASSUME UNCHANGED <<calendar, given, marker>>,
         \A e \in Entries : Owner[e] \in marker => entries'[e] = entries[e] /\ label'[e] = label[e]
  PROVE  UNCHANGED Promise!abstractVars
  <1>1. ShownEntries' = ShownEntries /\ ShownLabels' = ShownLabels
    BY DEF ShownEntries, ShownLabels, given
  <1> QED
    BY <1>1 DEF Promise!abstractVars, ShownEntries, ShownLabels, calendar, given

(* Storing the marker resolves the penka, as the engine says.              *)
LEMMA MarkResolves ==
  ASSUME Uninterrupted, Founded = Penkas, TypeOK, MarkersTrustworthy, Once, Exact,
         NEW w \in Workers, InsertMarker(w)
  PROVE  Promise!Next
  <1>1. /\ marker' = marker \cup {MsgPenka(w)} /\ MsgPenka(w) \notin marker
        /\ worker[w].seen.outcome = outcome /\ status # "open" /\ AllDecided(outcome)
    BY MarkRight
  <1>2. /\ worker[w].pc = "mark" /\ Touching(w) /\ entries' = entries /\ label' = label
        /\ status' = status /\ outcome' = outcome /\ pick' = pick /\ before' = before
    BY DEF InsertMarker, Touching, WorkerUnchanged, given
  <1>3. WorkerInv(w) /\ WroteRight(w) /\ SeesRight(w) /\ WorksOnce(w)
    BY DEF MarkersTrustworthy, Exact, Once
  <1> PICK p \in Penkas : p = MsgPenka(w)
    BY <1>2, <1>3 DEF WorkerInv, Command, MsgPenka
  <1>5. status = "locked"
    BY <1>1 DEF MarkersTrustworthy, NoSiblingSkipped, TypeOK, Statuses
  <1>6. Promise!Rejection(status, Promise!MatchDocs) = "ok"
    <2>1. Rejection(status, Matches(outcome)) = "ok"
      BY <1>1, <1>5, RejectionOk DEF TypeOK
    <2> QED
      BY <2>1, SameEngine
  <1>7. ASSUME NEW e \in Entries, Owner[e] = p
        PROVE  /\ entries[e] = EntryUpdate(before[e], EffectOn(w, e))
               /\ label[e] = IF pick[e] # NoTeam THEN PickResultOf(EffectOn(w, e)) ELSE "none"
               /\ EffectOn(w, e) = EntryEffect(before[e], pick[e], Matches(outcome),
                                               IslandEnabled[Owner[e]])
    <2>1. e \in Mine(w)
      BY <1>7 DEF Mine
    <2>2. e \notin worker[w].todoEntries /\ e \notin worker[w].todoPicks
      BY <1>2, <1>3 DEF WorkerInv, ReadyToMark
    <2>3. worker[w].seen.entries[e] = before[e]
      BY <1>2, <1>3, <2>1 DEF SeesRight, Reads
    <2>4. pick[e] = NoTeam => label[e] = "none"
      BY DEF Exact, Untouched
    <2> QED
      BY <1>1, <1>2, <1>3, <1>7, <2>1, <2>2, <2>3, <2>4 DEF WroteRight, EffectOn
  <1> DEFINE Effect(e) == EntryEffect(ShownEntries[e], pick[e], Matches(outcome),
                                      IslandEnabled[Owner[e]])
  <1>8. ShownEntries' = [e \in Entries |->
                           IF Owner[e] = p THEN EntryUpdate(ShownEntries[e], Effect(e))
                           ELSE ShownEntries[e]]
    <2>1. \A e \in Entries :
            (IF Owner[e] \in marker' THEN entries'[e] ELSE before'[e]) =
            (IF Owner[e] = p THEN EntryUpdate(ShownEntries[e], Effect(e)) ELSE ShownEntries[e])
      BY <1>1, <1>2, <1>7 DEF ShownEntries
    <2> QED
      BY <2>1 DEF ShownEntries
  <1>9. ShownLabels' = [e \in Entries |-> IF Owner[e] = p /\ pick[e] # NoTeam
                                         THEN PickResultOf(Effect(e)) ELSE ShownLabels[e]]
    <2>1. \A e \in Entries :
            (IF Owner[e] \in marker' THEN label'[e] ELSE "none") =
            (IF Owner[e] = p /\ pick[e] # NoTeam THEN PickResultOf(Effect(e)) ELSE ShownLabels[e])
      BY <1>1, <1>2, <1>7 DEF ShownEntries, ShownLabels
    <2> QED
      BY <2>1 DEF ShownLabels
  <1>10. /\ ShownEntries' = [e \in Entries |->
              IF Owner[e] = p THEN Promise!EntryUpdate(ShownEntries[e], Promise!Effect(e))
              ELSE ShownEntries[e]]
         /\ ShownLabels' = [e \in Entries |->
              IF Owner[e] = p /\ pick[e] # NoTeam THEN Promise!PickResultOf(Promise!Effect(e))
              ELSE ShownLabels[e]]
    <2>1. \A e : Promise!Effect(e) = Effect(e)
      BY SameEngine DEF Promise!Effect, ShownEntries
    <2> QED
      BY <1>8, <1>9, <2>1, SameEngine
  <1>11. Promise!ResolvePenka(p)
    BY <1>1, <1>2, <1>6, <1>10 DEF Promise!ResolvePenka, ShownEntries, ShownLabels
  <1> QED
    BY <1>11 DEF Promise!Next

(* Every step of the pipeline is a step of the promise, or shows nothing.  *)
LEMMA PromiseStep ==
  ASSUME Uninterrupted, Founded = Penkas, TypeOK, MarkersTrustworthy, Once, Exact,
         [Next]_vars, [CalmStep]_vars
  PROVE  [Promise!Next]_(Promise!abstractVars)
  <1> USE DEF calendar, given, game
  <1>1. ASSUME NEW w \in Workers, WorkerStep(w) \/ WorkerFault(w)
        PROVE  [Promise!Next]_(Promise!abstractVars)
    <2>1. /\ outcome' = outcome /\ pick' = pick /\ before' = before
          /\ status' = status \/ (Flip(w) /\ status = "locked" /\ status' = "resolved")
      BY <1>1, WorkerCalm
    <2>2. WorkerInv(w) /\ WorksOnce(w)
      BY DEF MarkersTrustworthy, Once
    <2>3. CASE InsertMarker(w)
      BY <2>3, MarkResolves
    <2>4. CASE Flip(w) /\ status = "locked" /\ status' = "resolved"
      <3>1. entries' = entries /\ label' = label /\ marker' = marker
        BY <2>4 DEF Flip
      <3>2. marker = Penkas
        BY <2>2, <2>4 DEF Flip, WorkerInv, CountComplete, TypeOK
      <3>3. ShownEntries' = ShownEntries /\ ShownLabels' = ShownLabels
        BY <2>1, <3>1 DEF ShownEntries, ShownLabels
      <3>4. Promise!Finish
        BY <2>1, <2>4, <3>1, <3>2, <3>3 DEF Promise!Finish, ShownEntries, ShownLabels
      <3> QED
        BY <3>4 DEF Promise!Next
    <2>5. ASSUME NEW d \in Entries, WriteEntry(w, d) \/ WritePick(w, d), status' = status
          PROVE  [Promise!Next]_(Promise!abstractVars)
      <3>1. worker[w].pc = "apply" /\ d \in worker[w].todoEntries \cup worker[w].todoPicks
            /\ marker' = marker
        BY <2>5 DEF WriteEntry, WritePick
      <3>2. Owner[d] \notin marker
        BY <2>2, <3>1 DEF WorksOnce, Touching, Mine
      <3>3. \A e \in Entries \ {d} : entries'[e] = entries[e] /\ label'[e] = label[e]
        BY <2>5 DEF WriteEntry, WritePick, TypeOK
      <3>4. stamp' = stamp
        BY <2>5 DEF WriteEntry, WritePick, WorkerUnchanged
      <3> QED
        BY <2>1, <2>5, <3>1, <3>2, <3>3, <3>4, Stutters
    <2>6. ASSUME ~InsertMarker(w), status' = status,
                 ~\E e \in Entries : WriteEntry(w, e) \/ WritePick(w, e)
          PROVE  [Promise!Next]_(Promise!abstractVars)
      <3>1. UNCHANGED game
        BY <1>1, <2>2, <2>6, Untouching DEF BulksSettle
      <3>2. stamp' = stamp
        BY <1>1, <2>6 DEF WorkerStep, WorkerFault, Deliver, Gate, Decide, BulksSettle, InsertMarker,
              Read, WriteEntry, WritePick, FindWaiting, Count, Flip, Ack, DeadLetter, Republish,
              BulkFails, MarkerFails, ReadFails, FinalizeFails, RepublishFails, WorkerCrash,
              WorkerUnchanged
      <3> QED
        BY <2>1, <2>6, <3>1, <3>2, Stutters
    <2> QED
      BY <2>1, <2>3, <2>4, <2>5, <2>6
  <1>2. ASSUME ~\E w \in Workers : WorkerStep(w) \/ WorkerFault(w)
        PROVE  [Promise!Next]_(Promise!abstractVars)
    <2>1. marker' = marker /\ label' = label
      BY <1>2, OthersGrow DEF MarkersTrustworthy
    <2>2. entries' = entries /\ before' = before /\ pick' = pick
      BY <1>2, OthersCalm
    <2>3. ShownEntries' = ShownEntries /\ ShownLabels' = ShownLabels
      BY <2>1, <2>2 DEF ShownEntries, ShownLabels
    <2>4. CASE status' = status /\ outcome' = outcome
      BY <2>1, <2>2, <2>3, <2>4 DEF Promise!abstractVars, ShownEntries, ShownLabels
    <2>5. CASE status = "open" /\ status' = "locked" /\ outcome' = outcome
      <3>1. Promise!Close
        BY <2>1, <2>2, <2>3, <2>5 DEF Promise!Close, ShownEntries, ShownLabels
      <3> QED
        BY <3>1 DEF Promise!Next
    <2>6. CASE /\ ~AllDecided(outcome) /\ status' = status
               /\ \E f \in Fixtures, result \in Outcomes : outcome' = [outcome EXCEPT ![f] = result]
      <3>1. marker = {}
        BY <2>6 DEF Exact, MarkedWhenReady
      <3>2. Promise!SetResult
        BY <2>1, <2>2, <2>3, <2>6, <3>1
        DEF Promise!SetResult, ShownEntries, ShownLabels, Promise!Outcomes, Outcomes
      <3> QED
        BY <3>2 DEF Promise!Next
    <2> QED
      BY <1>2, <2>4, <2>5, <2>6, OthersCalm
  <1> QED
    BY <1>1, <1>2

(* Once, in the form the next proof needs.                                 *)
LEMMA OnceAlways ==
  ASSUME Uninterrupted
  PROVE  Spec => []Once
  <1>1. TypeOK /\ MarkersTrustworthy /\ Once /\ [Next]_vars => Once'
    BY OnceStep
  <1> QED
    BY <1>1, OnceInit, Invariance, PTL DEF Spec

(* With one worker that is not interrupted between its effects and its     *)
(* marker, and operators who do not race the resolution, the pipeline does *)
(* what the players were promised: each penka is resolved once, as far as  *)
(* a marker tells atomically, exactly as the engine says of the entries as *)
(* they were, and the matchday ends after the last one - through every     *)
(* failed read, retry, duplicate, refused publish and lost confirm.        *)
THEOREM KeepsThePromise ==
  ASSUME Uninterrupted, Founded = Penkas
  PROVE  Spec /\ [][CalmStep]_vars => ImplementsPromise
  <1>1. Init => Exact
    <2> SUFFICES ASSUME Init PROVE Exact
      OBVIOUS
    <2>1. \A w \in Workers : worker[w].pc = "idle" /\ worker[w].got = {}
      BY DEF Init, IdleWorker
    <2>2. marker = {} /\ before = entries /\ \A e \in Entries : label[e] = "none"
      BY DEF Init
    <2> QED
      BY <2>1, <2>2 DEF Exact, SeesRight, WroteRight, Untouched, MarkedWhenReady, Touching
  <1>2. TypeOK /\ MarkersTrustworthy /\ Once /\ Exact /\ [Next]_vars /\ [CalmStep]_vars => Exact'
    BY ExactStep
  <1>3. TypeOK /\ MarkersTrustworthy /\ Once /\ Exact /\ [Next]_vars /\ [CalmStep]_vars
          => [Promise!Next]_(Promise!abstractVars)
    BY PromiseStep
  <1> QED
    BY <1>1, <1>2, <1>3, PromiseInit, OnceAlways, Invariance, PTL
    DEF Spec, ImplementsPromise, Promise!Spec

(* Operators of whom at most one closes the matchday, which starts open,   *)
(* and at most one loads a result, some result being missing at the start. *)
OneOperatorEach ==
  /\ \A c, d \in Closers : c = d
  /\ \A s, t \in Scorers : s = t
  /\ Closers # {} => StartStatus \subseteq {"open"}
  /\ Scorers # {} => \A results \in StartOutcomes : \E f \in Fixtures : results[f] = NoOutcome

(* Until they have written, the matchday is open and a result is missing.  *)
Undisturbed ==
  /\ \A c \in Closers : closer[c] \in {"new", "write"} => status = "open"
  /\ \A s \in Scorers : scorer[s] \in {"new", "write"} => \E f \in Fixtures : outcome[f] = NoOutcome

(* Every step leaves the others undisturbed.                               *)
LEMMA UndisturbedStep ==
  ASSUME OneOperatorEach, TypeOK, Undisturbed, [Next]_vars
  PROVE  Undisturbed' /\ [CalmStep]_vars
  <1> USE DEF calendar, operators
  <1>1. CalmStep
    BY DEF CalmStep, CloseWrite, SetResultWrite, RequestWrites, Undisturbed
  <1> SUFFICES Undisturbed'
    BY <1>1
  <1>2. CASE UNCHANGED <<closer, scorer, outcome>> /\ (status = "open" => status' = status)
    BY <1>2 DEF Undisturbed
  <1>3. CASE \E c \in Closers : CloseLoad(c) \/ CloseWrite(c)
    <2> PICK c \in Closers : CloseLoad(c) \/ CloseWrite(c)
      BY <1>3
    <2>1. scorer' = scorer /\ outcome' = outcome /\ \A d \in Closers : d = c
      BY DEF CloseLoad, CloseWrite, OneOperatorEach
    <2>2. closer'[c] \in {"new", "write"} => closer[c] = "new" /\ status' = status
      BY DEF CloseLoad, CloseWrite, RequestLoads, RequestWrites, TypeOK
    <2> QED
      BY <2>1, <2>2 DEF Undisturbed
  <1>4. CASE \E s \in Scorers : SetResultLoad(s) \/ SetResultWrite(s)
    <2> PICK s \in Scorers : SetResultLoad(s) \/ SetResultWrite(s)
      BY <1>4
    <2>1. closer' = closer /\ status' = status /\ \A t \in Scorers : t = s
      BY DEF SetResultLoad, SetResultWrite, OneOperatorEach
    <2>2. scorer'[s] \in {"new", "write"} => scorer[s] = "new" /\ outcome' = outcome
      BY DEF SetResultLoad, SetResultWrite, RequestLoads, RequestWrites, TypeOK
    <2> QED
      BY <2>1, <2>2 DEF Undisturbed
  <1>5. CASE \E w \in Workers : WorkerStep(w) \/ WorkerFault(w)
    <2>1. closer' = closer /\ scorer' = scorer
      BY <1>5 DEF WorkerStep, WorkerFault, Deliver, Gate, Decide, BulksSettle, InsertMarker, Read,
           WriteEntry, WritePick, FindWaiting, Count, Flip, Ack, DeadLetter, Republish, BulkFails,
           MarkerFails, ReadFails, FinalizeFails, RepublishFails, WorkerCrash, WorkerUnchanged
    <2> QED
      BY <1>2, <1>5, <2>1, WorkerCalm
  <1>6. CASE UNCHANGED vars
    BY <1>2, <1>6 DEF vars
  <1>7. CASE \/ Tick
             \/ \E p \in Penkas :
                  StampPenka(p) \/ InsertPenka(p) \/ EnsureEntry(p) \/ DiscardPenka(p)
             \/ \E o \in Presses : PressActs(o)
    BY <1>2, <1>7
    DEF Tick, StampPenka, InsertPenka, EnsureEntry, DiscardPenka, CreationUnchanged, PressActs,
        PressContinues, PressLoad, PressCheck, Claim, Join, FindPenkas, Send, Confirm, Clear,
        PublishFails, PressCrash, PressUnchanged
  <1> QED
    BY <1>3, <1>4, <1>5, <1>6, <1>7 DEF Next, PressActs

(* The same when the operators' requests cannot race, because there is one *)
(* of each: no further hypothesis on what happens.                         *)
THEOREM ImplementsMatchdayResolution ==
  ASSUME Uninterrupted, Founded = Penkas, OneOperatorEach
  PROVE  Spec => ImplementsPromise
  <1>1. Init => Undisturbed
    BY ConstantsAssumption DEF Init, Undisturbed, OneOperatorEach
  <1>2. TypeOK /\ Undisturbed /\ [Next]_vars => Undisturbed' /\ [CalmStep]_vars
    BY UndisturbedStep
  <1>3. Spec => [][CalmStep]_vars
    BY <1>1, <1>2, TypeCorrect, PTL DEF Spec
  <1> QED
    BY <1>3, KeepsThePromise, PTL
===============================================================================
