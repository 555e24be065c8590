------------------------------- MODULE Founding -------------------------------
(***************************************************************************)
(* POST /penkas and POST /penkas/join (apps/api/src/modules/penkas): a     *)
(* penka is created while the calendar of its league is materialized for   *)
(* whoever comes first, then its creator enters it, and a creation that    *)
(* cannot be finished is rolled back.  Nothing locks: creators race on the *)
(* calendar and on the join codes, and players may join before the creator *)
(* has his answer.                                                         *)
(*                                                                         *)
(* A matchday and its matches keep the instant their dates were computed   *)
(* from, since the offsets are fixed; one match stands for a matchday's.   *)
(***************************************************************************)
EXTENDS Integers, FiniteSets

CONSTANTS
  Calls,               \* creations in flight at once, each by its own user
  Joiners,             \* players who join
  Codes,               \* JOIN_CODE_SPACE
  MaxJoinCodeAttempts,
  LastMatchday,        \* MATCHDAY_COUNT
  MaxTime,             \* bound: the last instant of the clock, which starts at 1
  MaxFaults            \* bound: failed operations

Matchdays == 1..LastMatchday
NoCode == "none"

ASSUME FoundingAssumption ==
  /\ MaxJoinCodeAttempts \in Nat \ {0} /\ LastMatchday \in Nat \ {0}
  /\ MaxTime \in Nat \ {0} /\ MaxFaults \in Nat
  /\ Calls \cap Joiners = {} /\ NoCode \notin Codes

VARIABLES
  lockFrom,    \* matchdays: the instant lockAt was computed from, Absent if not stored
  kickoffFrom, \* matches: the same, for kickoffAt
  codeOf,      \* penkas: the join code of the penka of a call, NoCode if not stored
  entries,     \* entries: <<penka, user>>
  call,        \* the creations
  join,        \* the joins
  now,         \* the clock
  faults,      \* history: the failures so far
  leftBehind,  \* history: the calls whose penka nobody could roll back
  cutShort     \* history: the calls that stopped half way through the matches

calendar == <<lockFrom, kickoffFrom>>
history == <<leftBehind, cutShort>>
vars == <<calendar, codeOf, entries, call, join, now, faults, history>>

Absent == 0
NoCall == [step |-> "idle", calendar |-> "idle", penka |-> "idle", todo |-> {}, at |-> 1,
           attempts |-> 0]

Stored(c) == codeOf[c] # NoCode
Exists(stored) == \E n \in Matchdays : stored[n] # Absent

FoundingTypeOK ==
  /\ lockFrom \in [Matchdays -> 0..MaxTime] /\ kickoffFrom \in [Matchdays -> 0..MaxTime]
  /\ codeOf \in [Calls -> Codes \cup {NoCode}]
  /\ entries \subseteq Calls \X (Calls \cup Joiners)
  /\ call \in [Calls -> [step: {"idle", "both", "entry", "discard", "created", "refused", "dead"},
                calendar: {"idle", "find", "matchdays", "matches", "done", "failed"},
                penka: {"idle", "insert", "done", "failed"},
                todo: SUBSET Matchdays, at: 1..MaxTime, attempts: 0..MaxJoinCodeAttempts]]
  /\ \A j \in Joiners : join[j].step \in {"idle", "enter", "joined", "refused"}
  /\ now \in 1..MaxTime
  /\ faults \in 0..MaxFaults
  /\ leftBehind \subseteq Calls /\ cutShort \subseteq Calls

Init ==
  /\ lockFrom = [n \in Matchdays |-> Absent]
  /\ kickoffFrom = [n \in Matchdays |-> Absent]
  /\ codeOf = [c \in Calls |-> NoCode]
  /\ entries = {}
  /\ call = [c \in Calls |-> NoCall]
  /\ join = [j \in Joiners |-> [step |-> "idle"]]
  /\ now = 1
  /\ faults = 0
  /\ leftBehind = {} /\ cutShort = {}

Fault == faults < MaxFaults /\ faults' = faults + 1

CallBecomes(c, state) == call' = [call EXCEPT ![c] = state]

-----------------------------------------------------------------------------
(* Materializing the calendar. *)

CalendarUnchanged == UNCHANGED <<codeOf, entries, join, now, leftBehind>>

(* Some of the matches of this call are stored, and some are not.          *)
HalfWay(c) == call[c].calendar = "matches" /\ call[c].todo # Matchdays

(* Both branches of a creation start at once, each with the clock.         *)
Start(c) ==
  /\ call[c].step = "idle"
  /\ CallBecomes(c, [NoCall EXCEPT !.step = "both", !.calendar = "find", !.penka = "insert",
                                   !.at = now])
  /\ UNCHANGED <<calendar, faults, cutShort>> /\ CalendarUnchanged

(* Mutation: the fast path only asks for a matchday. *)
FindCalendarOneSided(c) ==
  /\ call[c].calendar = "find"
  /\ CallBecomes(c, IF Exists(lockFrom)
                    THEN [call[c] EXCEPT !.calendar = "done", !.at = 1]
                    ELSE [call[c] EXCEPT !.calendar = "matchdays", !.todo = Matchdays])
  /\ UNCHANGED <<calendar, faults, cutShort>> /\ CalendarUnchanged

(* The fast path: any matchday and any match of the league will do.  (Two  *)
(* queries, read as one: nothing is deleted, and inserting again is safe.) *)
FindCalendar(c) ==
  /\ call[c].calendar = "find"
  /\ CallBecomes(c, IF Exists(lockFrom) /\ Exists(kickoffFrom)
                    THEN [call[c] EXCEPT !.calendar = "done", !.at = 1]
                    ELSE [call[c] EXCEPT !.calendar = "matchdays", !.todo = Matchdays])
  /\ UNCHANGED <<calendar, faults, cutShort>> /\ CalendarUnchanged

(* insertMany, unordered: a document that exists stays as it is, and others *)
(* look at the collection while it is being filled.                        *)
InsertSome(c, stored, next) ==
  \E docs \in (SUBSET call[c].todo) \ {{}} :
    /\ stored' = [n \in Matchdays |-> IF n \in docs /\ stored[n] = Absent
                                      THEN call[c].at ELSE stored[n]]
    /\ CallBecomes(c, IF docs = call[c].todo THEN next
                      ELSE [call[c] EXCEPT !.todo = @ \ docs])

InsertMatchdays(c) ==
  /\ call[c].calendar = "matchdays"
  /\ InsertSome(c, lockFrom, [call[c] EXCEPT !.calendar = "matches", !.todo = Matchdays])
  /\ UNCHANGED <<kickoffFrom, faults, cutShort>> /\ CalendarUnchanged

InsertMatches(c) ==
  /\ call[c].calendar = "matches"
  /\ InsertSome(c, kickoffFrom, [call[c] EXCEPT !.calendar = "done", !.todo = {}, !.at = 1])
  /\ UNCHANGED <<lockFrom, faults, cutShort>> /\ CalendarUnchanged

(* Any of those queries fails; what it had inserted stays.                 *)
CalendarFails(c) ==
  /\ call[c].calendar \in {"find", "matchdays", "matches"}
  /\ CallBecomes(c, [call[c] EXCEPT !.calendar = "failed", !.todo = {}, !.at = 1])
  /\ cutShort' = IF HalfWay(c) THEN cutShort \cup {c} ELSE cutShort
  /\ Fault
  /\ UNCHANGED calendar /\ CalendarUnchanged

-----------------------------------------------------------------------------
(* Inserting the penka under a code nobody has. *)

(* generateJoinCode: any code of the space, whichever are taken.           *)
NewJoinCode == Codes

PenkaUnchanged == UNCHANGED <<calendar, entries, join, now, cutShort>>

(* Mutation: one attempt too many. *)
InsertWithJoinCodeOnceMore(c, code) ==
  /\ call[c].penka = "insert"
  /\ IF \A other \in Calls : codeOf[other] # code
     THEN /\ codeOf' = [codeOf EXCEPT ![c] = code]
          /\ CallBecomes(c, [call[c] EXCEPT !.penka = "done", !.attempts = 0])
     ELSE /\ CallBecomes(c, [call[c] EXCEPT !.attempts = @ + 1,
                               !.penka = IF call[c].attempts = MaxJoinCodeAttempts
                                         THEN "failed" ELSE "insert"])
          /\ UNCHANGED codeOf
  /\ UNCHANGED <<faults, leftBehind>> /\ PenkaUnchanged

(* The unique index refuses a taken code; the fifth refusal is a 503.      *)
InsertWithJoinCode(c, code) ==
  /\ call[c].penka = "insert"
  /\ IF \A other \in Calls : codeOf[other] # code
     THEN /\ codeOf' = [codeOf EXCEPT ![c] = code]
          /\ CallBecomes(c, [call[c] EXCEPT !.penka = "done", !.attempts = 0])
     ELSE /\ CallBecomes(c, [call[c] EXCEPT !.attempts = @ + 1,
                               !.penka = IF call[c].attempts + 1 = MaxJoinCodeAttempts
                                         THEN "failed" ELSE "insert"])
          /\ UNCHANGED codeOf
  /\ UNCHANGED <<faults, leftBehind>> /\ PenkaUnchanged

(* The insert fails, or is done and its answer is lost.                    *)
InsertPenkaFails(c) ==
  /\ call[c].penka = "insert"
  /\ \/ UNCHANGED <<codeOf, leftBehind>>
     \/ \E code \in NewJoinCode : /\ \A other \in Calls : codeOf[other] # code
                            /\ codeOf' = [codeOf EXCEPT ![c] = code]
                            /\ leftBehind' = leftBehind \cup {c}
  /\ CallBecomes(c, [call[c] EXCEPT !.penka = "failed", !.attempts = 0])
  /\ Fault
  /\ PenkaUnchanged

-----------------------------------------------------------------------------
(* When both have settled. *)

SettleUnchanged == UNCHANGED <<calendar, codeOf, entries, join, now, faults, history>>

(* Mutation: Promise.all, which rejects as soon as the calendar does.      *)
SettleAtFirstFailure(c) ==
  /\ call[c].step = "both"
  /\ \/ /\ call[c].calendar = "failed" /\ call[c].penka # "done"
        /\ CallBecomes(c, [call[c] EXCEPT !.step = "refused"])
     \/ /\ call[c].calendar = "done" /\ call[c].penka = "done"
        /\ CallBecomes(c, [call[c] EXCEPT !.step = "entry"])
  /\ SettleUnchanged

Settle(c) ==
  /\ call[c].step = "both"
  /\ call[c].calendar \in {"done", "failed"} /\ call[c].penka \in {"done", "failed"}
  /\ CallBecomes(c, [NoCall EXCEPT !.step =
                       IF call[c].penka = "failed" THEN "refused"
                       ELSE IF call[c].calendar = "failed" THEN "discard" ELSE "entry"])
  /\ SettleUnchanged

CreatorEnters(c) ==
  /\ call[c].step = "entry"
  /\ entries' = entries \cup {<<c, c>>}
  /\ CallBecomes(c, [call[c] EXCEPT !.step = "created"])
  /\ UNCHANGED <<calendar, codeOf, join, now, faults, history>>

CreatorEntryFails(c) ==
  /\ call[c].step = "entry"
  /\ CallBecomes(c, [call[c] EXCEPT !.step = "discard"])
  /\ Fault
  /\ UNCHANGED <<calendar, codeOf, entries, join, now, history>>

(* The rollback deletes the penka, and not the entries of those who joined. *)
DiscardPenka(c) ==
  /\ call[c].step = "discard"
  /\ codeOf' = [codeOf EXCEPT ![c] = NoCode]
  /\ CallBecomes(c, [call[c] EXCEPT !.step = "refused"])
  /\ UNCHANGED <<calendar, entries, join, now, faults, history>>

DiscardFails(c) ==
  /\ call[c].step = "discard"
  /\ leftBehind' = leftBehind \cup {c}
  /\ CallBecomes(c, [call[c] EXCEPT !.step = "refused"])
  /\ Fault
  /\ UNCHANGED <<calendar, codeOf, entries, join, now, cutShort>>

(* The API's host dies in the middle of a creation.                        *)
Dies(c) ==
  /\ call[c].step \in {"both", "entry", "discard"}
  /\ CallBecomes(c, [NoCall EXCEPT !.step = "dead"])
  /\ leftBehind' = leftBehind \cup {c}
  /\ cutShort' = IF HalfWay(c) THEN cutShort \cup {c} ELSE cutShort
  /\ Fault
  /\ UNCHANGED <<calendar, codeOf, entries, join, now>>

-----------------------------------------------------------------------------
(* Joining: the code is looked up, then the entry is upserted.             *)

JoinUnchanged == UNCHANGED <<calendar, codeOf, call, now, faults, history>>

LookUpCode(j, code) ==
  /\ join[j].step = "idle"
  /\ join' = [join EXCEPT ![j] = IF \E c \in Calls : codeOf[c] = code
                THEN [step |-> "enter", penka |-> CHOOSE c \in Calls : codeOf[c] = code]
                ELSE [step |-> "refused"]]
  /\ UNCHANGED entries /\ JoinUnchanged

EnsureEntry(j) ==
  /\ join[j].step = "enter"
  /\ entries' = entries \cup {<<join[j].penka, j>>}
  /\ join' = [join EXCEPT ![j].step = "joined"]
  /\ JoinUnchanged

(* GET /me/penkas: an entry whose penka is gone is left out of the list.   *)
MyPenkas(user) == {c \in Calls : <<c, user>> \in entries /\ Stored(c)}

Tick ==
  /\ now < MaxTime
  /\ now' = now + 1
  /\ UNCHANGED <<calendar, codeOf, entries, call, join, faults, history>>

-----------------------------------------------------------------------------
Materialize(c) == FindCalendar(c) \/ InsertMatchdays(c) \/ InsertMatches(c)

Create(c) ==
  \/ Start(c) \/ Materialize(c)
  \/ \E code \in NewJoinCode : InsertWithJoinCode(c, code)
  \/ Settle(c) \/ CreatorEnters(c) \/ DiscardPenka(c)

CreationFails(c) ==
  CalendarFails(c) \/ InsertPenkaFails(c) \/ CreatorEntryFails(c) \/ DiscardFails(c) \/ Dies(c)

Next ==
  \/ \E c \in Calls : Create(c) \/ CreationFails(c)
  \/ \E j \in Joiners : EnsureEntry(j) \/ \E code \in Codes : LookUpCode(j, code)
  \/ Tick

(* A request that is not cut off is carried through.                       *)
Spec == Init /\ [][Next]_vars /\ \A c \in Calls : WF_vars(Create(c))
===============================================================================
