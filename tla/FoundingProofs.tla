---------------------------- MODULE FoundingProofs ----------------------------
(***************************************************************************)
(* A penka that was created can be played and one that was refused leaves  *)
(* nothing, proved for any creators, players, codes, calendars, clocks and *)
(* failures.                                                               *)
(***************************************************************************)
EXTENDS FoundingProperties, TLAPS

CallState ==
  [step: {"idle", "both", "entry", "discard", "created", "refused", "dead"},
   calendar: {"idle", "find", "matchdays", "matches", "done", "failed"},
   penka: {"idle", "insert", "done", "failed"},
   todo: SUBSET Matchdays, at: 1..MaxTime, attempts: 0..MaxJoinCodeAttempts]

JoinState == [step: {"idle", "refused"}] \cup [step: {"enter", "joined"}, penka: Calls]

(* Nobody will ever complete the calendar again only if somebody stopped   *)
(* half way through its matches.                                           *)
Playable == Complete \/ cutShort # {} \/ \E d \in Calls : HalfWay(d)

(* What a creation in flight has stored, as far as it has got.             *)
PenkaSound(c) ==
  /\ call[c].step # "both" => call[c].penka = "idle" /\ call[c].calendar = "idle"
  /\ call[c].penka = "insert" => call[c].attempts < MaxJoinCodeAttempts
  /\ call[c].step = "idle" \/ call[c].penka = "insert" => ~Stored(c)
  /\ call[c].step \in {"entry", "created"} \/ call[c].penka = "done" => Stored(c)
  /\ call[c].step = "refused" \/ call[c].penka = "failed" => ~Stored(c) \/ c \in leftBehind
  /\ call[c].step = "created" => <<c, c>> \in entries

CalendarSound(c) ==
  /\ call[c].calendar = "matchdays" => \A n \in Matchdays \ call[c].todo : lockFrom[n] # Absent
  /\ call[c].calendar = "matches" =>
       /\ \A n \in Matchdays : lockFrom[n] # Absent
       /\ \A n \in Matchdays \ call[c].todo : kickoffFrom[n] # Absent
  /\ call[c].calendar = "done" \/ call[c].step \in {"entry", "created"} => Exists(kickoffFrom)

FoundingInv ==
  /\ FoundingTypeOK
  /\ join \in [Joiners -> JoinState]
  /\ \A c \in Calls : PenkaSound(c) /\ CalendarSound(c)
  /\ Exists(kickoffFrom) => Playable

-----------------------------------------------------------------------------
LEMMA FirstInstant == 1 \in 1..MaxTime /\ 0 \in 0..MaxJoinCodeAttempts
  BY FoundingAssumption

(* A call that is not under way, but for its step. *)
LEMMA NoCallTyped ==
  ASSUME NEW step \in {"idle", "both", "entry", "discard", "created", "refused", "dead"}
  PROVE  /\ [NoCall EXCEPT !.step = step] \in CallState
         /\ [NoCall EXCEPT !.step = step].step = step
         /\ [NoCall EXCEPT !.step = step].calendar = "idle"
         /\ [NoCall EXCEPT !.step = step].penka = "idle"
         /\ [NoCall EXCEPT !.step = step].attempts = 0
  BY FirstInstant DEF NoCall, CallState

LEMMA InitFounding == Init => FoundingInv
  <1> SUFFICES ASSUME Init PROVE FoundingInv
    OBVIOUS
  <1>1. /\ NoCall \in CallState /\ NoCall.step = "idle" /\ NoCall.calendar = "idle"
        /\ NoCall.penka = "idle"
    BY FoundingAssumption DEF NoCall, CallState
  <1>2. \A c \in Calls : call[c] = NoCall /\ ~Stored(c)
    BY DEF Init, Stored
  <1>3. FoundingTypeOK
    BY <1>1, FoundingAssumption DEF Init, FoundingTypeOK, CallState, Absent
  <1>4. join \in [Joiners -> JoinState]
    BY DEF Init, JoinState
  <1>5. \A c \in Calls : PenkaSound(c) /\ CalendarSound(c)
    BY <1>1, <1>2 DEF PenkaSound, CalendarSound
  <1>6. ~Exists(kickoffFrom)
    BY DEF Init, Exists
  <1> QED
    BY <1>3, <1>4, <1>5, <1>6 DEF FoundingInv

LEMMA TypeFacts ==
  ASSUME FoundingInv
  PROVE  /\ call \in [Calls -> CallState] /\ codeOf \in [Calls -> Codes \cup {NoCode}]
         /\ lockFrom \in [Matchdays -> 0..MaxTime] /\ kickoffFrom \in [Matchdays -> 0..MaxTime]
         /\ now \in 1..MaxTime /\ faults \in 0..MaxFaults
  BY DEF FoundingInv, FoundingTypeOK, CallState

LEMMA FaultBounded ==
  ASSUME faults \in 0..MaxFaults, Fault
  PROVE  faults' \in 0..MaxFaults
  BY FoundingAssumption DEF Fault

-----------------------------------------------------------------------------
(* What the collections of a step may do to the creations it is not about. *)

Keeps(before, after) ==
  /\ after \in [Matchdays -> 0..MaxTime]
  /\ \A n \in Matchdays : before[n] # Absent => after[n] # Absent

CollectionsGrow ==
  /\ Keeps(lockFrom, lockFrom') /\ Keeps(kickoffFrom, kickoffFrom')
  /\ entries \subseteq entries' /\ entries' \subseteq Calls \X (Calls \cup Joiners)
  /\ leftBehind \subseteq leftBehind' /\ leftBehind' \subseteq Calls
  /\ cutShort \subseteq cutShort' /\ cutShort' \subseteq Calls

LEMMA OthersKeep ==
  ASSUME FoundingInv, CollectionsGrow, NEW d \in Calls,
         call'[d] = call[d], codeOf'[d] = codeOf[d]
  PROVE  PenkaSound(d)' /\ CalendarSound(d)'
  <1>1. PenkaSound(d) /\ CalendarSound(d)
    BY DEF FoundingInv
  <1>2. PenkaSound(d)'
    BY <1>1 DEF CollectionsGrow, PenkaSound, Stored
  <1>3. CalendarSound(d)'
    BY <1>1 DEF CollectionsGrow, Keeps, CalendarSound, Exists
  <1> QED
    BY <1>2, <1>3

(* One creation moves on. *)
LEMMA CallStep ==
  ASSUME FoundingInv, NEW c \in Calls, NEW state \in CallState, CallBecomes(c, state),
         CollectionsGrow, codeOf' \in [Calls -> Codes \cup {NoCode}],
         \A d \in Calls : d # c => codeOf'[d] = codeOf[d],
         UNCHANGED <<join, now>>, faults' \in 0..MaxFaults,
         PenkaSound(c)', CalendarSound(c)', Exists(kickoffFrom)' => Playable'
  PROVE  FoundingInv'
  <1>1. call' \in [Calls -> CallState] /\ \A d \in Calls : d # c => call'[d] = call[d]
    BY TypeFacts DEF CallBecomes
  <1>2. FoundingTypeOK'
    BY <1>1 DEF FoundingInv, FoundingTypeOK, CallState, CollectionsGrow, Keeps
  <1>3. \A d \in Calls : PenkaSound(d)' /\ CalendarSound(d)'
    BY <1>1, OthersKeep
  <1> QED
    BY <1>2, <1>3 DEF FoundingInv

(* The calendar stays playable as long as whoever is half way through the  *)
(* matches goes on, or is recorded as having stopped there.                *)
LEMMA StillPlayable ==
  ASSUME FoundingInv, NEW c \in Calls, NEW state, CallBecomes(c, state), CollectionsGrow,
         kickoffFrom' = kickoffFrom,
         HalfWay(c) => cutShort' # {} \/ (state.calendar = "matches" /\ state.todo # Matchdays)
  PROVE  Exists(kickoffFrom)' => Playable'
  <1>1. call' = [call EXCEPT ![c] = state] /\ call \in [Calls -> CallState]
    BY TypeFacts DEF CallBecomes
  <1>2. \A d \in Calls : HalfWay(d) => HalfWay(d)' \/ cutShort' # {}
    BY <1>1 DEF HalfWay
  <1>3. Complete => Complete'
    BY DEF Complete, CollectionsGrow, Keeps
  <1>4. Exists(kickoffFrom)' => Exists(kickoffFrom)
    BY DEF Exists
  <1>5. cutShort # {} => cutShort' # {}
    BY DEF CollectionsGrow
  <1> QED
    BY <1>2, <1>3, <1>4, <1>5 DEF FoundingInv, Playable

(* A step that leaves every collection alone. *)
LEMMA NothingStored ==
  ASSUME FoundingInv, UNCHANGED <<calendar, entries, leftBehind, cutShort>>
  PROVE  CollectionsGrow
  BY TypeFacts DEF FoundingInv, FoundingTypeOK, calendar, CollectionsGrow, Keeps

LEMMA CallNow ==
  ASSUME FoundingInv, NEW c \in Calls, NEW state, CallBecomes(c, state)
  PROVE  call'[c] = state /\ call[c] \in CallState /\ PenkaSound(c) /\ CalendarSound(c)
  BY TypeFacts DEF CallBecomes, FoundingInv

-----------------------------------------------------------------------------
(* The calendar's half of a creation. *)

LEMMA StartSafe ==
  ASSUME FoundingInv, NEW c \in Calls, Start(c)
  PROVE  FoundingInv'
  <1> DEFINE state == [NoCall EXCEPT !.step = "both", !.calendar = "find", !.penka = "insert",
                                     !.at = now]
  <1>1. /\ state \in CallState /\ state.step = "both" /\ state.calendar = "find"
        /\ state.penka = "insert" /\ state.attempts = 0
    <2>1. now \in 1..MaxTime
      BY TypeFacts
    <2> QED
      BY <2>1, FirstInstant, FoundingAssumption DEF NoCall, CallState
  <1>2. CallBecomes(c, state) /\ UNCHANGED <<calendar, codeOf, entries, join, now, faults, leftBehind, cutShort>>
    BY DEF Start, CalendarUnchanged
  <1> HIDE DEF state
  <1>3. CollectionsGrow
    BY <1>2, NothingStored
  <1>4. call'[c] = state /\ PenkaSound(c) /\ call[c].step = "idle" /\ codeOf' = codeOf
    BY <1>2, CallNow DEF Start
  <1>5. PenkaSound(c)' /\ CalendarSound(c)'
    BY <1>1, <1>4, FoundingAssumption DEF PenkaSound, CalendarSound, Stored
  <1>6. Exists(kickoffFrom)' => Playable'
    <2>1. ~HalfWay(c) /\ kickoffFrom' = kickoffFrom
      BY <1>2, <1>4 DEF PenkaSound, HalfWay, calendar
    <2> QED
      BY <1>2, <1>3, <2>1, StillPlayable
  <1> QED
    BY <1>1, <1>2, <1>3, <1>5, <1>6, TypeFacts, CallStep

LEMMA FindCalendarSafe ==
  ASSUME FoundingInv, NEW c \in Calls, FindCalendar(c)
  PROVE  FoundingInv'
  <1> DEFINE found == [call[c] EXCEPT !.calendar = "done", !.at = 1]
             missing == [call[c] EXCEPT !.calendar = "matchdays", !.todo = Matchdays]
             state == IF Exists(lockFrom) /\ Exists(kickoffFrom) THEN found ELSE missing
  <1>1. CallBecomes(c, state) /\ UNCHANGED <<calendar, codeOf, entries, join, now, faults, leftBehind, cutShort>>
    BY DEF FindCalendar, CalendarUnchanged
  <1>2. call[c] \in CallState /\ call[c].calendar = "find" /\ PenkaSound(c) /\ CalendarSound(c)
    BY TypeFacts DEF FindCalendar, FoundingInv
  <1>3. found \in CallState /\ missing \in CallState
    BY <1>2, FirstInstant DEF CallState
  <1>4. /\ state \in CallState /\ state.step = call[c].step /\ state.penka = call[c].penka
        /\ state.attempts = call[c].attempts
        /\ \/ state.calendar = "done" /\ Exists(kickoffFrom)
           \/ state.calendar = "matchdays" /\ state.todo = Matchdays
    BY <1>2, <1>3 DEF CallState
  <1> HIDE DEF state
  <1>5. CollectionsGrow
    BY <1>1, NothingStored
  <1>6. call'[c] = state
    BY <1>1, CallNow
  <1>7. PenkaSound(c)'
    BY <1>1, <1>2, <1>4, <1>6 DEF PenkaSound, Stored
  <1>8. CalendarSound(c)'
    BY <1>1, <1>2, <1>4, <1>6 DEF CalendarSound, PenkaSound, Exists, calendar
  <1>9. Exists(kickoffFrom)' => Playable'
    <2>1. ~HalfWay(c) /\ kickoffFrom' = kickoffFrom
      BY <1>1, <1>2 DEF HalfWay, calendar
    <2> QED
      BY <1>1, <1>5, <2>1, StillPlayable
  <1> QED
    BY <1>1, <1>4, <1>5, <1>7, <1>8, <1>9, TypeFacts, CallStep

(* What insertMany of some documents leaves in a collection. *)
Filled(c, docs, stored) ==
  [n \in Matchdays |-> IF n \in docs /\ stored[n] = Absent THEN call[c].at ELSE stored[n]]

LEMMA FilledKeeps ==
  ASSUME FoundingInv, NEW c \in Calls, NEW docs \in SUBSET Matchdays,
         NEW stored \in [Matchdays -> 0..MaxTime]
  PROVE  /\ Keeps(stored, Filled(c, docs, stored))
         /\ \A n \in docs : Filled(c, docs, stored)[n] # Absent
  <1>1. call[c].at \in 1..MaxTime
    BY TypeFacts DEF CallState
  <1>2. call[c].at # Absent /\ call[c].at \in 0..MaxTime
    BY <1>1, FoundingAssumption DEF Absent
  <1> QED
    BY <1>2 DEF Filled, Keeps

LEMMA InsertMatchdaysSafe ==
  ASSUME FoundingInv, NEW c \in Calls, InsertMatchdays(c)
  PROVE  FoundingInv'
  <1>1. call[c] \in CallState /\ call[c].calendar = "matchdays" /\ PenkaSound(c) /\ CalendarSound(c)
    BY TypeFacts DEF InsertMatchdays, FoundingInv
  <1> DEFINE next == [call[c] EXCEPT !.calendar = "matches", !.todo = Matchdays]
  <1>2. PICK docs \in (SUBSET call[c].todo) \ {{}} :
          /\ lockFrom' = Filled(c, docs, lockFrom)
          /\ CallBecomes(c, IF docs = call[c].todo THEN next
                            ELSE [call[c] EXCEPT !.todo = call[c].todo \ docs])
    BY DEF InsertMatchdays, InsertSome, Filled
  <1> DEFINE rest == [call[c] EXCEPT !.todo = call[c].todo \ docs]
             state == IF docs = call[c].todo THEN next ELSE rest
  <1>3. UNCHANGED <<kickoffFrom, codeOf, entries, join, now, faults, leftBehind, cutShort>>
    BY DEF InsertMatchdays, CalendarUnchanged
  <1>4. docs \in SUBSET Matchdays
    BY <1>1, <1>2 DEF CallState
  <1>5. next \in CallState /\ rest \in CallState
    BY <1>1 DEF CallState
  <1>6. /\ state \in CallState /\ state.step = call[c].step /\ state.penka = call[c].penka
        /\ state.attempts = call[c].attempts
        /\ \/ state.calendar = "matches" /\ state.todo = Matchdays /\ docs = call[c].todo
           \/ state.calendar = "matchdays" /\ state.todo = call[c].todo \ docs
    BY <1>1, <1>5 DEF CallState
  <1>7. CallBecomes(c, state)
    BY <1>2
  <1> HIDE DEF state
  <1>8. Keeps(lockFrom, lockFrom') /\ \A n \in docs : lockFrom'[n] # Absent
    BY <1>2, <1>4, FilledKeeps, TypeFacts
  <1>9. CollectionsGrow
    <2>1. Keeps(kickoffFrom, kickoffFrom')
      BY <1>3, TypeFacts DEF Keeps
    <2> QED
      BY <1>3, <1>8, <2>1 DEF CollectionsGrow, FoundingInv, FoundingTypeOK
  <1>10. call'[c] = state
    BY <1>7, CallNow
  <1>11. PenkaSound(c)'
    BY <1>1, <1>3, <1>6, <1>10 DEF PenkaSound, Stored
  <1>12. CalendarSound(c)'
    BY <1>1, <1>3, <1>6, <1>8, <1>10 DEF CalendarSound, PenkaSound, Keeps
  <1>13. Exists(kickoffFrom)' => Playable'
    <2>1. ~HalfWay(c)
      BY <1>1 DEF HalfWay
    <2> QED
      BY <1>3, <1>7, <1>9, <2>1, StillPlayable
  <1> QED
    BY <1>3, <1>6, <1>7, <1>9, <1>11, <1>12, <1>13, TypeFacts, CallStep

LEMMA InsertMatchesSafe ==
  ASSUME FoundingInv, NEW c \in Calls, InsertMatches(c)
  PROVE  FoundingInv'
  <1>1. call[c] \in CallState /\ call[c].calendar = "matches" /\ PenkaSound(c) /\ CalendarSound(c)
    BY TypeFacts DEF InsertMatches, FoundingInv
  <1> DEFINE next == [call[c] EXCEPT !.calendar = "done", !.todo = {}, !.at = 1]
  <1>2. PICK docs \in (SUBSET call[c].todo) \ {{}} :
          /\ kickoffFrom' = Filled(c, docs, kickoffFrom)
          /\ CallBecomes(c, IF docs = call[c].todo THEN next
                            ELSE [call[c] EXCEPT !.todo = call[c].todo \ docs])
    BY DEF InsertMatches, InsertSome, Filled
  <1> DEFINE rest == [call[c] EXCEPT !.todo = call[c].todo \ docs]
             state == IF docs = call[c].todo THEN next ELSE rest
  <1>3. UNCHANGED <<lockFrom, codeOf, entries, join, now, faults, leftBehind, cutShort>>
    BY DEF InsertMatches, CalendarUnchanged
  <1>4. docs \in SUBSET Matchdays /\ docs # {}
    BY <1>1, <1>2 DEF CallState
  <1>5. next \in CallState /\ rest \in CallState
    BY <1>1, FirstInstant DEF CallState
  <1>6. /\ state \in CallState /\ state.step = call[c].step /\ state.penka = call[c].penka
        /\ state.attempts = call[c].attempts
        /\ \/ state.calendar = "done" /\ docs = call[c].todo
           \/ state.calendar = "matches" /\ state.todo = call[c].todo \ docs
    BY <1>1, <1>5 DEF CallState
  <1>7. CallBecomes(c, state)
    BY <1>2
  <1> HIDE DEF state
  <1>8. Keeps(kickoffFrom, kickoffFrom') /\ \A n \in docs : kickoffFrom'[n] # Absent
    BY <1>2, <1>4, FilledKeeps, TypeFacts
  <1>9. CollectionsGrow
    <2>1. Keeps(lockFrom, lockFrom')
      BY <1>3, TypeFacts DEF Keeps
    <2> QED
      BY <1>3, <1>8, <2>1 DEF CollectionsGrow, FoundingInv, FoundingTypeOK
  <1>10. call'[c] = state
    BY <1>7, CallNow
  <1>11. PenkaSound(c)'
    BY <1>1, <1>3, <1>6, <1>10 DEF PenkaSound, Stored
  <1>12. Exists(kickoffFrom)'
    BY <1>4, <1>8 DEF Exists
  <1>13. CalendarSound(c)'
    BY <1>1, <1>3, <1>6, <1>8, <1>10, <1>12 DEF CalendarSound, Keeps
  <1>14. Playable'
    <2>1. CASE state.calendar = "done"
      <3>1. Complete'
        BY <1>1, <1>3, <1>6, <1>8, <2>1 DEF CalendarSound, Complete, Keeps
      <3> QED
        BY <3>1 DEF Playable
    <2>2. CASE state.calendar = "matches"
      <3>1. state.todo # Matchdays
        BY <1>4, <1>6, <2>2
      <3>2. HalfWay(c)'
        BY <1>10, <2>2, <3>1 DEF HalfWay
      <3> QED
        BY <3>2 DEF Playable
    <2> QED
      BY <1>6, <2>1, <2>2
  <1> QED
    BY <1>3, <1>6, <1>7, <1>9, <1>11, <1>13, <1>14, TypeFacts, CallStep

LEMMA CalendarFailsSafe ==
  ASSUME FoundingInv, NEW c \in Calls, CalendarFails(c)
  PROVE  FoundingInv'
  <1> DEFINE state == [call[c] EXCEPT !.calendar = "failed", !.todo = {}, !.at = 1]
  <1>1. /\ CallBecomes(c, state)
        /\ UNCHANGED <<lockFrom, kickoffFrom, codeOf, entries, join, now, leftBehind>>
    BY DEF CalendarFails, CalendarUnchanged, calendar
  <1>2. call[c] \in CallState /\ call[c].calendar # "idle" /\ PenkaSound(c) /\ CalendarSound(c)
    BY TypeFacts DEF CalendarFails, FoundingInv
  <1>3. /\ state \in CallState /\ state.step = call[c].step /\ state.penka = call[c].penka
        /\ state.attempts = call[c].attempts /\ state.calendar = "failed"
    BY <1>2, FirstInstant DEF CallState
  <1> HIDE DEF state
  <1>4. /\ cutShort \subseteq cutShort' /\ cutShort' \subseteq Calls
        /\ HalfWay(c) => cutShort' # {}
    BY DEF CalendarFails, FoundingInv, FoundingTypeOK
  <1>5. CollectionsGrow
    BY <1>1, <1>4, TypeFacts DEF FoundingInv, FoundingTypeOK, CollectionsGrow, Keeps
  <1>6. call'[c] = state
    BY <1>1, CallNow
  <1>7. PenkaSound(c)'
    BY <1>1, <1>2, <1>3, <1>6 DEF PenkaSound, Stored
  <1>8. CalendarSound(c)'
    BY <1>1, <1>2, <1>3, <1>6 DEF CalendarSound, PenkaSound
  <1>9. Exists(kickoffFrom)' => Playable'
    BY <1>1, <1>4, <1>5, StillPlayable
  <1>10. faults' \in 0..MaxFaults
    BY FaultBounded, TypeFacts DEF CalendarFails
  <1> QED
    BY <1>1, <1>3, <1>5, <1>7, <1>8, <1>9, <1>10, TypeFacts, CallStep

-----------------------------------------------------------------------------
(* The penka's half of a creation. *)

(* A step of that half leaves the other where it is. *)
LEMMA PenkaStep ==
  ASSUME FoundingInv, NEW c \in Calls, NEW state \in CallState, CallBecomes(c, state),
         UNCHANGED <<calendar, entries, join, now, cutShort>>, faults' \in 0..MaxFaults,
         leftBehind \subseteq leftBehind', leftBehind' \subseteq Calls,
         codeOf' \in [Calls -> Codes \cup {NoCode}],
         \A d \in Calls : d # c => codeOf'[d] = codeOf[d],
         state.step = call[c].step, state.calendar = call[c].calendar, state.todo = call[c].todo,
         PenkaSound(c)'
  PROVE  FoundingInv'
  <1>1. UNCHANGED <<lockFrom, kickoffFrom>> /\ call'[c] = state /\ CalendarSound(c)
    BY CallNow DEF calendar
  <1>2. CollectionsGrow
    BY <1>1, TypeFacts DEF FoundingInv, FoundingTypeOK, CollectionsGrow, Keeps
  <1>3. CalendarSound(c)'
    BY <1>1 DEF CalendarSound, Exists
  <1>4. Exists(kickoffFrom)' => Playable'
    BY <1>1, <1>2, StillPlayable DEF HalfWay
  <1> QED
    BY <1>2, <1>3, <1>4, CallStep

LEMMA InsertWithJoinCodeSafe ==
  ASSUME FoundingInv, NEW c \in Calls, NEW code \in Codes, InsertWithJoinCode(c, code)
  PROVE  FoundingInv'
  <1>1. /\ call[c] \in CallState /\ call[c].penka = "insert" /\ PenkaSound(c)
        /\ call[c].attempts \in 0..MaxJoinCodeAttempts
        /\ call[c].attempts < MaxJoinCodeAttempts /\ call[c].step = "both"
    BY TypeFacts DEF InsertWithJoinCode, FoundingInv, PenkaSound, CallState
  <1>2. /\ UNCHANGED <<calendar, entries, join, now, cutShort, faults, leftBehind>>
        /\ leftBehind \subseteq Calls /\ faults' \in 0..MaxFaults
    BY TypeFacts DEF InsertWithJoinCode, PenkaUnchanged, FoundingInv, FoundingTypeOK
  <1>3. CASE \A other \in Calls : codeOf[other] # code
    <2> DEFINE state == [call[c] EXCEPT !.penka = "done", !.attempts = 0]
    <2>1. CallBecomes(c, state) /\ codeOf' = [codeOf EXCEPT ![c] = code]
      BY <1>3 DEF InsertWithJoinCode
    <2>2. /\ state \in CallState /\ state.step = "both" /\ state.penka = "done"
          /\ state.calendar = call[c].calendar /\ state.todo = call[c].todo
      BY <1>1, FirstInstant DEF CallState
    <2> HIDE DEF state
    <2>3. /\ codeOf' \in [Calls -> Codes \cup {NoCode}] /\ codeOf'[c] = code /\ code # NoCode
          /\ \A d \in Calls : d # c => codeOf'[d] = codeOf[d]
      BY <2>1, TypeFacts, FoundingAssumption
    <2>4. PenkaSound(c)'
      BY <2>1, <2>2, <2>3, CallNow DEF PenkaSound, Stored
    <2> QED
      BY <1>1, <1>2, <2>1, <2>2, <2>3, <2>4, PenkaStep
  <1>4. CASE ~\A other \in Calls : codeOf[other] # code
    <2> DEFINE after == IF call[c].attempts + 1 = MaxJoinCodeAttempts THEN "failed" ELSE "insert"
               state == [call[c] EXCEPT !.attempts = call[c].attempts + 1, !.penka = after]
    <2>1. CallBecomes(c, state) /\ codeOf' = codeOf
      BY <1>4 DEF InsertWithJoinCode
    <2>2. call[c].attempts + 1 \in 0..MaxJoinCodeAttempts
      BY <1>1, FoundingAssumption
    <2>3. after = "insert" => call[c].attempts + 1 < MaxJoinCodeAttempts
      BY <1>1, FoundingAssumption
    <2>4. after \in {"failed", "insert"}
      OBVIOUS
    <2> HIDE DEF after
    <2>5. /\ state \in CallState /\ state.step = "both" /\ state.penka = after
          /\ state.attempts = call[c].attempts + 1
          /\ state.calendar = call[c].calendar /\ state.todo = call[c].todo
      BY <1>1, <2>2, <2>4 DEF CallState
    <2> HIDE DEF state
    <2>6. PenkaSound(c)'
      BY <1>1, <1>2, <2>1, <2>3, <2>4, <2>5, CallNow DEF PenkaSound, Stored
    <2> QED
      BY <1>1, <1>2, <2>1, <2>5, <2>6, TypeFacts, PenkaStep
  <1> QED
    BY <1>3, <1>4

LEMMA InsertPenkaFailsSafe ==
  ASSUME FoundingInv, NEW c \in Calls, InsertPenkaFails(c)
  PROVE  FoundingInv'
  <1>1. /\ call[c] \in CallState /\ call[c].penka = "insert" /\ PenkaSound(c)
        /\ call[c].step = "both" /\ codeOf[c] = NoCode
    BY TypeFacts DEF InsertPenkaFails, FoundingInv, PenkaSound, Stored
  <1>2. UNCHANGED <<calendar, entries, join, now, cutShort>> /\ faults' \in 0..MaxFaults
    BY FaultBounded, TypeFacts DEF InsertPenkaFails, PenkaUnchanged
  <1>3. /\ codeOf' \in [Calls -> Codes \cup {NoCode}]
        /\ \A d \in Calls : d # c => codeOf'[d] = codeOf[d]
        /\ leftBehind \subseteq leftBehind' /\ leftBehind' \subseteq Calls
        /\ codeOf'[c] = NoCode \/ c \in leftBehind'
    <2>1. CASE UNCHANGED <<codeOf, leftBehind>>
      BY <1>1, <2>1, TypeFacts DEF FoundingInv, FoundingTypeOK
    <2>2. CASE \E code \in NewJoinCode : /\ codeOf' = [codeOf EXCEPT ![c] = code]
                                         /\ leftBehind' = leftBehind \cup {c}
      BY <2>2, TypeFacts DEF FoundingInv, FoundingTypeOK, NewJoinCode
    <2> QED
      BY <2>1, <2>2 DEF InsertPenkaFails
  <1> DEFINE state == [call[c] EXCEPT !.penka = "failed", !.attempts = 0]
  <1>4. CallBecomes(c, state)
    BY DEF InsertPenkaFails
  <1>5. /\ state \in CallState /\ state.step = "both" /\ state.penka = "failed"
        /\ state.calendar = call[c].calendar /\ state.todo = call[c].todo
    BY <1>1, FirstInstant DEF CallState
  <1> HIDE DEF state
  <1>6. PenkaSound(c)'
    BY <1>3, <1>4, <1>5, CallNow DEF PenkaSound, Stored
  <1> QED
    BY <1>1, <1>2, <1>3, <1>4, <1>5, <1>6, PenkaStep

-----------------------------------------------------------------------------
(* After both. *)

(* A creation whose halves are done with changes its step.                 *)
LEMMA OutcomeStep ==
  ASSUME FoundingInv, NEW c \in Calls, NEW state \in CallState, CallBecomes(c, state),
         state.step \notin {"idle", "both"}, state.calendar = "idle", state.penka = "idle",
         state.step \in {"entry", "created"} => Exists(kickoffFrom) /\ Stored(c)',
         state.step = "refused" => ~Stored(c)' \/ c \in leftBehind',
         state.step = "created" => <<c, c>> \in entries',
         UNCHANGED <<calendar, join, now>>, faults' \in 0..MaxFaults,
         entries \subseteq entries', entries' \subseteq Calls \X (Calls \cup Joiners),
         leftBehind \subseteq leftBehind', leftBehind' \subseteq Calls,
         cutShort \subseteq cutShort', cutShort' \subseteq Calls,
         HalfWay(c) => cutShort' # {},
         codeOf' \in [Calls -> Codes \cup {NoCode}],
         \A d \in Calls : d # c => codeOf'[d] = codeOf[d]
  PROVE  FoundingInv'
  <1>1. UNCHANGED <<lockFrom, kickoffFrom>> /\ call'[c] = state
    BY CallNow DEF calendar
  <1>2. CollectionsGrow
    BY <1>1, TypeFacts DEF CollectionsGrow, Keeps
  <1>3. PenkaSound(c)'
    BY <1>1 DEF PenkaSound
  <1>4. CalendarSound(c)'
    BY <1>1 DEF CalendarSound, Exists
  <1>5. Exists(kickoffFrom)' => Playable'
    BY <1>1, <1>2, StillPlayable
  <1> QED
    BY <1>2, <1>3, <1>4, <1>5, CallStep

LEMMA SettleSafe ==
  ASSUME FoundingInv, NEW c \in Calls, Settle(c)
  PROVE  FoundingInv'
  <1>1. /\ call[c].penka \in {"done", "failed"} /\ call[c].calendar \in {"done", "failed"}
        /\ PenkaSound(c) /\ CalendarSound(c)
        /\ UNCHANGED <<calendar, codeOf, entries, join, now, faults, leftBehind, cutShort>>
    BY DEF Settle, SettleUnchanged, history, FoundingInv
  <1> DEFINE step == IF call[c].penka = "failed" THEN "refused"
                     ELSE IF call[c].calendar = "failed" THEN "discard" ELSE "entry"
             state == [NoCall EXCEPT !.step = step]
  <1>2. CallBecomes(c, state)
    BY DEF Settle
  <1>3. /\ step \in {"refused", "discard", "entry"}
        /\ step = "entry" => call[c].penka = "done" /\ call[c].calendar = "done"
        /\ step = "refused" => call[c].penka = "failed"
    BY <1>1
  <1> HIDE DEF step
  <1>4. /\ state \in CallState /\ state.step = step
        /\ state.calendar = "idle" /\ state.penka = "idle"
    BY <1>3, NoCallTyped
  <1> HIDE DEF state
  <1>5. /\ step = "entry" => Exists(kickoffFrom) /\ Stored(c)'
        /\ step = "refused" => ~Stored(c)' \/ c \in leftBehind'
        /\ ~HalfWay(c)
    BY <1>1, <1>3 DEF PenkaSound, CalendarSound, Stored, HalfWay
  <1>6. /\ entries \subseteq Calls \X (Calls \cup Joiners) /\ leftBehind \subseteq Calls
        /\ cutShort \subseteq Calls
    BY DEF FoundingInv, FoundingTypeOK
  <1> QED
    BY <1>1, <1>2, <1>3, <1>4, <1>5, <1>6, TypeFacts, OutcomeStep

(* The creator's entry and the rollback, each of which may fail, and the   *)
(* host that dies.                                                         *)
LEMMA OutcomeSafe ==
  ASSUME FoundingInv, NEW c \in Calls,
         CreatorEnters(c) \/ CreatorEntryFails(c) \/ DiscardPenka(c) \/ DiscardFails(c)
  PROVE  FoundingInv'
  <1>1. /\ call[c] \in CallState /\ PenkaSound(c) /\ CalendarSound(c)
        /\ call[c].step \in {"entry", "discard"}
        /\ call[c].calendar = "idle" /\ call[c].penka = "idle" /\ ~HalfWay(c)
    BY TypeFacts DEF CreatorEnters, CreatorEntryFails, DiscardPenka, DiscardFails, FoundingInv,
                     PenkaSound, HalfWay
  <1>2. /\ entries \subseteq Calls \X (Calls \cup Joiners) /\ leftBehind \subseteq Calls
        /\ cutShort \subseteq Calls /\ <<c, c>> \in Calls \X (Calls \cup Joiners)
    BY DEF FoundingInv, FoundingTypeOK
  <1>3. ASSUME NEW step \in {"created", "discard", "refused"}
        PROVE  /\ [call[c] EXCEPT !.step = step] \in CallState
               /\ [call[c] EXCEPT !.step = step].step = step
               /\ [call[c] EXCEPT !.step = step].calendar = "idle"
               /\ [call[c] EXCEPT !.step = step].penka = "idle"
    BY <1>1 DEF CallState
  <1>4. /\ UNCHANGED <<calendar, join, now, cutShort>>
        /\ faults' = faults \/ Fault
    BY DEF CreatorEnters, CreatorEntryFails, DiscardPenka, DiscardFails, history
  <1>5. faults' \in 0..MaxFaults
    BY <1>4, FaultBounded, TypeFacts
  <1>6. CASE CreatorEnters(c)
    <2>1. /\ CallBecomes(c, [call[c] EXCEPT !.step = "created"]) /\ UNCHANGED <<codeOf, leftBehind>>
          /\ entries' = entries \cup {<<c, c>>} /\ call[c].step = "entry"
      BY <1>6 DEF CreatorEnters, history
    <2>2. Exists(kickoffFrom) /\ Stored(c)'
      BY <1>1, <2>1 DEF PenkaSound, CalendarSound, Stored
    <2>3. /\ entries \subseteq entries' /\ entries' \subseteq Calls \X (Calls \cup Joiners)
          /\ <<c, c>> \in entries'
      BY <1>2, <2>1
    <2> QED
      BY <1>1, <1>2, <1>3, <1>4, <1>5, <2>1, <2>2, <2>3, TypeFacts, OutcomeStep
  <1>7. CASE CreatorEntryFails(c)
    <2>1. /\ CallBecomes(c, [call[c] EXCEPT !.step = "discard"])
          /\ UNCHANGED <<codeOf, leftBehind, entries>>
      BY <1>7 DEF CreatorEntryFails, history
    <2> QED
      BY <1>1, <1>2, <1>3, <1>4, <1>5, <2>1, TypeFacts, OutcomeStep
  <1>8. CASE DiscardPenka(c)
    <2>1. /\ CallBecomes(c, [call[c] EXCEPT !.step = "refused"])
          /\ UNCHANGED <<leftBehind, entries>> /\ codeOf' = [codeOf EXCEPT ![c] = NoCode]
      BY <1>8 DEF DiscardPenka, history
    <2>2. /\ codeOf' \in [Calls -> Codes \cup {NoCode}] /\ ~Stored(c)'
          /\ \A d \in Calls : d # c => codeOf'[d] = codeOf[d]
      BY <2>1, TypeFacts DEF Stored
    <2> QED
      BY <1>1, <1>2, <1>3, <1>4, <1>5, <2>1, <2>2, OutcomeStep
  <1>9. CASE DiscardFails(c)
    <2>1. /\ CallBecomes(c, [call[c] EXCEPT !.step = "refused"])
          /\ UNCHANGED <<codeOf, entries>> /\ leftBehind' = leftBehind \cup {c}
      BY <1>9 DEF DiscardFails
    <2>2. leftBehind \subseteq leftBehind' /\ leftBehind' \subseteq Calls /\ c \in leftBehind'
      BY <1>2, <2>1
    <2> QED
      BY <1>1, <1>2, <1>3, <1>4, <1>5, <2>1, <2>2, TypeFacts, OutcomeStep
  <1> QED
    BY <1>6, <1>7, <1>8, <1>9

LEMMA DiesSafe ==
  ASSUME FoundingInv, NEW c \in Calls, Dies(c)
  PROVE  FoundingInv'
  <1>1. /\ CallBecomes(c, [NoCall EXCEPT !.step = "dead"])
        /\ UNCHANGED <<calendar, codeOf, entries, join, now>>
    BY DEF Dies
  <1>2. /\ leftBehind \subseteq leftBehind' /\ leftBehind' \subseteq Calls
        /\ cutShort \subseteq cutShort' /\ cutShort' \subseteq Calls
        /\ HalfWay(c) => cutShort' # {}
        /\ entries \subseteq Calls \X (Calls \cup Joiners)
    BY DEF Dies, FoundingInv, FoundingTypeOK
  <1>3. faults' \in 0..MaxFaults
    BY FaultBounded, TypeFacts DEF Dies
  <1> QED
    BY <1>1, <1>2, <1>3, NoCallTyped, TypeFacts, OutcomeStep

-----------------------------------------------------------------------------
(* Joining, and the clock. *)

LEMMA PlayersStep ==
  ASSUME FoundingInv, UNCHANGED <<calendar, codeOf, call, faults, history>>,
         entries \subseteq entries', entries' \subseteq Calls \X (Calls \cup Joiners),
         join' \in [Joiners -> JoinState], now' \in 1..MaxTime
  PROVE  FoundingInv'
  <1>1. FoundingTypeOK'
    <2>1. \A j \in Joiners : join'[j].step \in {"idle", "enter", "joined", "refused"}
      BY DEF JoinState
    <2> QED
      BY <2>1 DEF FoundingInv, FoundingTypeOK, calendar, history
  <1>2. CollectionsGrow
    BY TypeFacts DEF CollectionsGrow, Keeps, calendar, history, FoundingInv, FoundingTypeOK
  <1>3. \A c \in Calls : PenkaSound(c)' /\ CalendarSound(c)'
    BY <1>2, OthersKeep
  <1>4. Exists(kickoffFrom)' => Playable'
    BY DEF FoundingInv, Exists, Playable, Complete, HalfWay, calendar, history
  <1> QED
    BY <1>1, <1>3, <1>4 DEF FoundingInv

LEMMA LookUpCodeSafe ==
  ASSUME FoundingInv, NEW j \in Joiners, NEW code \in Codes, LookUpCode(j, code)
  PROVE  FoundingInv'
  <1>1. PICK state \in JoinState : join' = [join EXCEPT ![j] = state]
    <2>1. CASE \E c \in Calls : codeOf[c] = code
      <3> DEFINE owner == CHOOSE c \in Calls : codeOf[c] = code
      <3>1. owner \in Calls
        BY <2>1
      <3>2. [step |-> "enter", penka |-> owner] \in JoinState
        BY <3>1 DEF JoinState
      <3>3. join' = [join EXCEPT ![j] = [step |-> "enter", penka |-> owner]]
        BY <2>1 DEF LookUpCode
      <3> HIDE DEF owner
      <3> QED
        BY <3>2, <3>3
    <2>2. CASE ~\E c \in Calls : codeOf[c] = code
      BY <2>2 DEF LookUpCode, JoinState
    <2> QED
      BY <2>1, <2>2
  <1>2. UNCHANGED <<calendar, codeOf, call, faults, history, entries, now>>
    BY DEF LookUpCode, JoinUnchanged
  <1>3. join' \in [Joiners -> JoinState]
    BY <1>1 DEF FoundingInv
  <1>4. entries \subseteq Calls \X (Calls \cup Joiners)
    BY DEF FoundingInv, FoundingTypeOK
  <1> QED
    BY <1>2, <1>3, <1>4, TypeFacts, PlayersStep

LEMMA EnsureEntrySafe ==
  ASSUME FoundingInv, NEW j \in Joiners, EnsureEntry(j)
  PROVE  FoundingInv'
  <1>1. /\ join \in [Joiners -> JoinState] /\ entries \subseteq Calls \X (Calls \cup Joiners)
        /\ join[j] \in [step: {"enter", "joined"}, penka: Calls]
    BY DEF EnsureEntry, FoundingInv, FoundingTypeOK, JoinState
  <1> DEFINE state == [join[j] EXCEPT !.step = "joined"]
  <1>2. state \in JoinState
    BY <1>1 DEF JoinState
  <1>3. join' = [join EXCEPT ![j] = state]
    BY <1>1 DEF EnsureEntry
  <1> HIDE DEF state
  <1>4. join' \in [Joiners -> JoinState]
    BY <1>1, <1>2, <1>3
  <1>5. entries \subseteq entries' /\ entries' \subseteq Calls \X (Calls \cup Joiners)
    BY <1>1 DEF EnsureEntry
  <1> QED
    BY <1>4, <1>5, TypeFacts, PlayersStep DEF EnsureEntry, JoinUnchanged

LEMMA TickSafe ==
  ASSUME FoundingInv, Tick
  PROVE  FoundingInv'
  <1>1. now' \in 1..MaxTime
    BY TypeFacts, FoundingAssumption DEF Tick
  <1>2. /\ entries \subseteq Calls \X (Calls \cup Joiners) /\ join \in [Joiners -> JoinState]
        /\ UNCHANGED <<calendar, codeOf, call, faults, history, entries, join>>
    BY DEF FoundingInv, FoundingTypeOK, Tick
  <1> QED
    BY <1>1, <1>2, PlayersStep

-----------------------------------------------------------------------------
LEMMA NextFounding ==
  ASSUME FoundingInv, [Next]_vars
  PROVE  FoundingInv'
  <1>1. CASE \E c \in Calls : Create(c)
    <2>1. PICK c \in Calls : Create(c)
      BY <1>1
    <2>2. CASE Start(c) \/ Materialize(c)
      BY <2>2, StartSafe, FindCalendarSafe, InsertMatchdaysSafe, InsertMatchesSafe DEF Materialize
    <2>3. CASE \E code \in NewJoinCode : InsertWithJoinCode(c, code)
      BY <2>3, InsertWithJoinCodeSafe DEF NewJoinCode
    <2>4. CASE Settle(c) \/ CreatorEnters(c) \/ DiscardPenka(c)
      BY <2>4, SettleSafe, OutcomeSafe
    <2> QED
      BY <2>1, <2>2, <2>3, <2>4 DEF Create
  <1>2. CASE \E c \in Calls : CreationFails(c)
    BY <1>2, CalendarFailsSafe, InsertPenkaFailsSafe, OutcomeSafe, DiesSafe DEF CreationFails
  <1>3. CASE \E j \in Joiners : (EnsureEntry(j) \/ \E code \in Codes : LookUpCode(j, code))
    BY <1>3, EnsureEntrySafe, LookUpCodeSafe
  <1>4. CASE Tick
    BY <1>4, TickSafe
  <1>5. CASE UNCHANGED vars
    <2>1. /\ entries \subseteq Calls \X (Calls \cup Joiners) /\ join \in [Joiners -> JoinState]
          /\ UNCHANGED <<calendar, codeOf, call, faults, history, entries, join, now>>
      BY <1>5 DEF FoundingInv, FoundingTypeOK, vars
    <2> QED
      BY <2>1, TypeFacts, PlayersStep
  <1> QED
    BY <1>1, <1>2, <1>3, <1>4, <1>5 DEF Next

(* Types, and what a creation in flight has stored as far as it has got,   *)
(* hold in every state, for any creators, players, codes, calendars,       *)
(* clocks and failures (penkas/routes.ts, materialize.ts, rollback.ts).    *)
THEOREM FoundingInvariance == Spec => []FoundingInv
  <1>1. Init => FoundingInv
    BY InitFounding
  <1>2. FoundingInv /\ [Next]_vars => FoundingInv'
    BY NextFounding
  <1> QED
    BY <1>1, <1>2, PTL DEF Spec

(* A creation asks for no more codes than its limit, and joins and         *)
(* rollbacks refer to penkas that were asked for (join-code.ts).           *)
THEOREM FoundingTypeCorrect == Spec => []FoundingTypeOK
  <1>1. FoundingInv => FoundingTypeOK
    BY DEF FoundingInv
  <1> QED
    BY <1>1, FoundingInvariance, PTL

(* A created penka is stored, its creator is in it and its league has its  *)
(* calendar, or somebody is or stopped half way through the matches        *)
(* (penkas/routes.ts, materialize.ts).                                     *)
THEOREM CreatedCanBePlayed == Spec => []CreatedIsPlayable
  <1>1. FoundingInv => CreatedIsPlayable
    <2> SUFFICES ASSUME FoundingInv, NEW c \in Calls, call[c].step = "created"
                 PROVE  /\ c \in MyPenkas(c)
                        /\ Complete \/ cutShort # {} \/ \E d \in Calls : HalfWay(d)
      BY DEF CreatedIsPlayable
    <2>1. PenkaSound(c) /\ CalendarSound(c)
      BY DEF FoundingInv
    <2>2. Playable
      BY <2>1 DEF CalendarSound, FoundingInv
    <2> QED
      BY <2>1, <2>2 DEF PenkaSound, MyPenkas, Playable
  <1> QED
    BY <1>1, FoundingInvariance, PTL

(* A refused creation leaves no penka on a join code, unless its rollback  *)
(* failed or the answer to its insert was lost (rollback.ts).              *)
THEOREM RefusedIsUndone == Spec => []RefusedLeavesNothing
  <1>1. FoundingInv => RefusedLeavesNothing
    BY DEF FoundingInv, PenkaSound, RefusedLeavesNothing
  <1> QED
    BY <1>1, FoundingInvariance, PTL
===============================================================================
