------------------------------ MODULE Sessions -------------------------------
(***************************************************************************)
(* A player's session: the single-use refresh tokens of apps/api, and the  *)
(* tabs of one browser (apps/web) that hold them in memory and share one   *)
(* localStorage.  A pair is an access token and a refresh token issued     *)
(* together, and a session is the pairs that descend from one sign-in.     *)
(* Nobody signs out by hand: the store offers logout and no view calls it. *)
(***************************************************************************)
EXTENDS Integers, FiniteSets

CONSTANTS
  Tabs,                \* tabs of the browser
  Requests, Home,      \* authenticated requests in flight at once, and the tab of each
  Refreshes,           \* POST /auth/refresh calls in flight at once
  NoRefresh,
  MaxPairs,            \* bound: how many pairs are ever issued
  FaultKinds, MaxFaults \* bound: which faults may happen, and how many in all

ASSUME SessionsAssumption ==
  /\ Home \in [Requests -> Tabs]
  /\ NoRefresh \notin Refreshes
  /\ MaxPairs \in Nat
  /\ MaxFaults \in Nat

VARIABLES
  issued,    \* the pairs issued so far are 1..issued
  root,      \* the sign-in each pair descends from
  stored,    \* refreshTokens: the pairs whose refresh token is stored
  aged,      \* the pairs whose refresh token has expired
  valid,     \* the pairs whose access token has not expired
  granted,   \* history: the pairs the API has answered with
  torn,      \* history: the tokens deleted by a call that then reported an error
  refresh,   \* the refresh calls
  tab,       \* the auth store of each tab
  storage,   \* localStorage: the pair that survives a reload, NoPair when there is none
  request,   \* the authenticated requests
  faults     \* faults so far: the writes that failed, and all other faults

server == <<issued, root, stored, aged, valid, granted, torn>>
browser == <<tab, storage, request>>
vars == <<server, refresh, browser, faults>>

NoPair == 0
Pairs == 1..MaxPairs

SignedOut == [pair |-> NoPair, user |-> FALSE, inFlight |-> NoRefresh, signIn |-> NoPair]
NoRequest == [pc |-> "idle", bearer |-> NoPair]
NoCall == [pc |-> "idle", token |-> NoPair, pair |-> NoPair, heard |-> FALSE]

RefreshPcs == {"idle", "find", "issue", "consume", "revoke", "granted", "denied"}

SessionsTypeOK ==
  /\ issued \in 0..MaxPairs
  /\ root \in [Pairs -> Pairs \cup {NoPair}]
  /\ stored \subseteq 1..issued /\ aged \subseteq 1..issued
  /\ valid \subseteq 1..issued /\ granted \subseteq 1..issued /\ torn \subseteq 1..issued
  /\ refresh \in [Refreshes -> [pc: RefreshPcs, token: Pairs \cup {NoPair},
                                pair: Pairs \cup {NoPair}, heard: BOOLEAN]]
  /\ tab \in [Tabs -> [pair: Pairs \cup {NoPair}, user: BOOLEAN,
                       inFlight: Refreshes \cup {NoRefresh}, signIn: Pairs \cup {NoPair}]]
  /\ storage \in Pairs \cup {NoPair}
  /\ request \in [Requests -> [pc: {"idle", "sent", "waiting", "resent"},
                               bearer: Pairs \cup {NoPair}]]
  /\ faults \in [writes: 0..MaxFaults, others: 0..MaxFaults]

Init ==
  /\ issued = 0
  /\ root = [i \in Pairs |-> NoPair]
  /\ stored = {} /\ aged = {} /\ valid = {} /\ granted = {} /\ torn = {}
  /\ refresh = [f \in Refreshes |-> NoCall]
  /\ tab = [t \in Tabs |-> SignedOut]
  /\ storage = NoPair
  /\ request = [r \in Requests |-> NoRequest]
  /\ faults = [writes |-> 0, others |-> 0]

Faults == faults.writes + faults.others
Writes == {"issue", "consume", "revoke"}

Fault(kind) ==
  /\ kind \in FaultKinds
  /\ Faults < MaxFaults
  /\ \/ kind \in Writes /\ faults' = [faults EXCEPT !.writes = @ + 1]
     \/ kind \notin Writes /\ faults' = [faults EXCEPT !.others = @ + 1]

-----------------------------------------------------------------------------
(* The API. *)

(* issueTokens: a fresh pair, its refresh token stored.                    *)
Issue(session) ==
  /\ issued < MaxPairs
  /\ issued' = issued + 1
  /\ root' = [root EXCEPT ![issued + 1] = session]
  /\ stored' = stored \cup {issued + 1}
  /\ valid' = valid \cup {issued + 1}

RefreshGoes(f, to) == refresh' = [refresh EXCEPT ![f].pc = to]

(* Mutation: the presented token is taken before the new pair is issued.   *)
RefreshFindTakes(f) ==
  /\ refresh[f].pc = "find"
  /\ RefreshGoes(f, IF refresh[f].token \in stored \ aged THEN "issue" ELSE "denied")
  /\ stored' = stored \ {refresh[f].token}
  /\ UNCHANGED <<issued, root, aged, valid, granted, torn, browser, faults>>

(* The presented token is looked up and its expiry checked ...             *)
RefreshFind(f) ==
  /\ refresh[f].pc = "find"
  /\ RefreshGoes(f, IF refresh[f].token \in stored \ aged THEN "issue" ELSE "denied")
  /\ UNCHANGED <<server, browser, faults>>

(* ... a new pair is issued, before the presented one is given up ...      *)
RefreshIssue(f) ==
  /\ refresh[f].pc = "issue"
  /\ Issue(root[refresh[f].token])
  /\ refresh' = [refresh EXCEPT ![f].pc = "consume", ![f].pair = issued + 1]
  /\ UNCHANGED <<aged, granted, torn, browser, faults>>

(* The insert reports an error, whether or not it was done.                *)
RefreshIssueFails(f) ==
  /\ Fault("issue")
  /\ refresh[f].pc = "issue"
  /\ RefreshGoes(f, "denied")
  /\ UNCHANGED <<issued, root, stored, valid>> \/ Issue(root[refresh[f].token])
  /\ UNCHANGED <<aged, granted, torn, browser>>

(* Mutation: the presented token is deleted without asking who deleted it. *)
RefreshConsumeBlind(f) ==
  /\ refresh[f].pc = "consume"
  /\ stored' = stored \ {refresh[f].token}
  /\ granted' = granted \cup {refresh[f].pair}
  /\ RefreshGoes(f, "granted")
  /\ UNCHANGED <<issued, root, aged, valid, torn, browser, faults>>

(* ... and one call, whoever deletes the presented token, is granted.      *)
RefreshConsume(f) ==
  /\ refresh[f].pc = "consume"
  /\ stored' = stored \ {refresh[f].token}
  /\ \/ /\ refresh[f].token \in stored
        /\ granted' = granted \cup {refresh[f].pair}
        /\ RefreshGoes(f, "granted")
     \/ /\ refresh[f].token \notin stored
        /\ UNCHANGED granted
        /\ RefreshGoes(f, "revoke")
  /\ UNCHANGED <<issued, root, aged, valid, torn, browser, faults>>

(* The delete reports an error, whether or not it was done.  When it was,  *)
(* the presented token is gone and the new pair is given to nobody.        *)
RefreshConsumeFails(f) ==
  /\ Fault("consume")
  /\ refresh[f].pc = "consume"
  /\ \/ UNCHANGED <<stored, torn>>
     \/ /\ stored' = stored \ {refresh[f].token}
        /\ torn' = torn \cup (stored \cap {refresh[f].token})
  /\ RefreshGoes(f, "denied")
  /\ UNCHANGED <<issued, root, aged, valid, granted, browser>>

(* Who lost the race deletes the pair it was issued; a failure is swallowed. *)
RefreshRevoke(f) ==
  /\ refresh[f].pc = "revoke"
  /\ \/ stored' = stored \ {refresh[f].pair} /\ UNCHANGED faults
     \/ Fault("revoke") /\ UNCHANGED stored
  /\ RefreshGoes(f, "denied")
  /\ UNCHANGED <<issued, root, aged, valid, granted, torn, browser>>

(* Nobody waits for the answer any more. *)
RefreshUnheard(f) ==
  /\ refresh[f].pc \in {"granted", "denied"}
  /\ ~refresh[f].heard
  /\ refresh' = [refresh EXCEPT ![f] = NoCall]
  /\ UNCHANGED <<server, browser, faults>>

RefreshRuns(f) ==
  \/ RefreshFind(f) \/ RefreshIssue(f) \/ RefreshIssueFails(f)
  \/ RefreshConsume(f) \/ RefreshConsumeFails(f) \/ RefreshRevoke(f) \/ RefreshUnheard(f)

-----------------------------------------------------------------------------
(* Time.  An access token lasts fifteen minutes and a refresh token seven  *)
(* days; that the first expires before the replay it was fetched for is    *)
(* over, or the second at all, is counted as a fault.                      *)

JustIssued(i) ==
  \/ \E f \in Refreshes : refresh[f].pair = i /\ refresh[f].heard
  \/ \E r \in Requests : request[r] = [pc |-> "resent", bearer |-> i]

AccessExpires(i) ==
  /\ i \in valid
  /\ valid' = valid \ {i}
  /\ IF JustIssued(i) THEN Fault("slow") ELSE UNCHANGED faults
  /\ UNCHANGED <<issued, root, stored, aged, granted, torn, refresh, browser>>

RefreshExpires(i) ==
  /\ Fault("week")
  /\ i \in stored \ aged
  /\ aged' = aged \cup {i}
  /\ UNCHANGED <<issued, root, stored, valid, granted, torn, refresh, browser>>

(* Mongo's TTL sweeper. *)
RefreshSwept(i) ==
  /\ i \in stored \cap aged
  /\ stored' = stored \ {i}
  /\ UNCHANGED <<issued, root, aged, valid, granted, torn, refresh, browser, faults>>

-----------------------------------------------------------------------------
(* The auth store and the API client of a tab. *)

(* POST /auth/login (or register) answers with a first pair ...            *)
SignIn(t) ==
  /\ tab[t].pair = NoPair /\ tab[t].signIn = NoPair
  /\ Issue(issued + 1)
  /\ granted' = granted \cup {issued + 1}
  /\ tab' = [tab EXCEPT ![t].signIn = issued + 1]
  /\ UNCHANGED <<aged, torn, refresh, storage, request, faults>>

(* ... which the tab adopts, with its user, and persists.                  *)
Adopt(t) ==
  /\ tab[t].signIn # NoPair
  /\ tab' = [tab EXCEPT ![t].pair = tab[t].signIn, ![t].user = TRUE, ![t].signIn = NoPair]
  /\ storage' = tab[t].signIn
  /\ UNCHANGED <<server, refresh, request, faults>>

(* ... or never hears of. *)
SignInLost(t) ==
  /\ Fault("network")
  /\ tab[t].signIn # NoPair
  /\ tab' = [tab EXCEPT ![t].signIn = NoPair]
  /\ UNCHANGED <<server, refresh, storage, request>>

Send(r) ==
  /\ request[r].pc = "idle"
  /\ tab[Home[r]].pair # NoPair
  /\ request' = [request EXCEPT ![r] = [pc |-> "sent", bearer |-> tab[Home[r]].pair]]
  /\ UNCHANGED <<server, refresh, tab, storage, faults>>

(* Any answer but a 401, or none at all, leaves the session alone.         *)
Answered(r) ==
  /\ request[r].pc \in {"sent", "resent"}
  /\ request' = [request EXCEPT ![r] = NoRequest]
  /\ UNCHANGED <<server, refresh, tab, storage, faults>>

(* session.expire(): the tab forgets the session, the stored copy included. *)
Expire(t) ==
  /\ tab' = [tab EXCEPT ![t].pair = NoPair, ![t].user = FALSE]
  /\ storage' = NoPair

(* A free call is started with the refresh token the tab holds.            *)
StartRefresh(t) ==
  \E f \in Refreshes :
    /\ refresh[f].pc = "idle"
    /\ refresh' = [refresh EXCEPT ![f] = [pc |-> "find", token |-> tab[t].pair,
                                          pair |-> NoPair, heard |-> TRUE]]
    /\ tab' = [tab EXCEPT ![t].inFlight = f]

(* Mutation: every 401 starts a refresh of its own.                        *)
RefusedAlone(r) ==
  LET t == Home[r]
  IN  /\ request[r].pc = "sent" /\ request[r].bearer \notin valid
      /\ request' = [request EXCEPT ![r] = IF tab[t].pair = NoPair THEN NoRequest
                                           ELSE [@ EXCEPT !.pc = "waiting"]]
      /\ IF tab[t].pair = NoPair
         THEN Expire(t) /\ UNCHANGED refresh
         ELSE StartRefresh(t) /\ UNCHANGED storage
      /\ UNCHANGED <<server, faults>>

(* A first 401: wait for the refresh in flight, or start one, or give up   *)
(* when there is nothing to refresh with.                                  *)
Refused(r) ==
  LET t == Home[r]
  IN  /\ request[r].pc = "sent" /\ request[r].bearer \notin valid
      /\ \/ /\ tab[t].inFlight # NoRefresh
            /\ request' = [request EXCEPT ![r].pc = "waiting"]
            /\ UNCHANGED <<refresh, tab, storage>>
         \/ /\ tab[t].inFlight = NoRefresh /\ tab[t].pair # NoPair
            /\ request' = [request EXCEPT ![r].pc = "waiting"]
            /\ StartRefresh(t)
            /\ UNCHANGED storage
         \/ /\ tab[t].inFlight = NoRefresh /\ tab[t].pair = NoPair
            /\ request' = [request EXCEPT ![r] = NoRequest]
            /\ Expire(t)
            /\ UNCHANGED refresh
      /\ UNCHANGED <<server, faults>>

(* A second 401 is final. *)
RefusedAgain(r) ==
  /\ request[r].pc = "resent" /\ request[r].bearer \notin valid
  /\ request' = [request EXCEPT ![r] = NoRequest]
  /\ Expire(Home[r])
  /\ UNCHANGED <<server, refresh, faults>>

Waiting(t) == {r \in Requests : Home[r] = t /\ request[r].pc = "waiting"}

(* Mutation: the new pair is kept in memory only.                          *)
RefreshLandsUnpersisted(t) ==
  LET f == tab[t].inFlight
      pair == refresh[f].pair
  IN  /\ f # NoRefresh /\ refresh[f].pc = "granted"
      /\ refresh' = [refresh EXCEPT ![f] = NoCall]
      /\ tab' = [tab EXCEPT ![t].pair = pair, ![t].inFlight = NoRefresh]
      /\ request' = [r \in Requests |-> IF r \in Waiting(t)
                                        THEN [pc |-> "resent", bearer |-> pair] ELSE request[r]]
      /\ UNCHANGED <<server, storage, faults>>

(* The new pair is taken over, without asking whose session the tab shows  *)
(* by now, and every request that waited is sent again.                    *)
RefreshLands(t) ==
  LET f == tab[t].inFlight
      pair == refresh[f].pair
  IN  /\ f # NoRefresh /\ refresh[f].pc = "granted"
      /\ refresh' = [refresh EXCEPT ![f] = NoCall]
      /\ tab' = [tab EXCEPT ![t].pair = pair, ![t].inFlight = NoRefresh]
      /\ storage' = IF tab[t].user THEN pair ELSE NoPair
      /\ request' = [r \in Requests |-> IF r \in Waiting(t)
                                        THEN [pc |-> "resent", bearer |-> pair] ELSE request[r]]
      /\ UNCHANGED <<server, faults>>

(* Every request that waited gives up, and the first expires the session.  *)
GiveUp(t) ==
  /\ tab' = [tab EXCEPT ![t].pair = NoPair, ![t].user = FALSE, ![t].inFlight = NoRefresh]
  /\ storage' = NoPair
  /\ request' = [r \in Requests |-> IF r \in Waiting(t) THEN NoRequest ELSE request[r]]

RefreshDenied(t) ==
  LET f == tab[t].inFlight
  IN  /\ f # NoRefresh /\ refresh[f].pc = "denied"
      /\ refresh' = [refresh EXCEPT ![f] = NoCall]
      /\ GiveUp(t)
      /\ UNCHANGED <<server, faults>>

(* The call or its answer is lost: the tab cannot tell, and the API may go *)
(* on with what it received.                                               *)
RefreshLost(t) ==
  LET f == tab[t].inFlight
  IN  /\ Fault("network")
      /\ f # NoRefresh
      /\ \/ refresh[f].pc = "find" /\ refresh' = [refresh EXCEPT ![f] = NoCall]
         \/ refresh' = [refresh EXCEPT ![f].heard = FALSE]
      /\ GiveUp(t)
      /\ UNCHANGED server

(* The tab is opened, or reloaded: it starts from the storage, and hears   *)
(* no answer to what it had asked.  Only a reload disturbs anything.       *)
Load(t) ==
  /\ IF tab[t] = SignedOut THEN UNCHANGED faults ELSE Fault("reload")
  /\ tab' = [tab EXCEPT ![t] = [SignedOut EXCEPT !.pair = storage, !.user = storage # NoPair]]
  /\ request' = [r \in Requests |-> IF Home[r] = t THEN NoRequest ELSE request[r]]
  /\ refresh' = [f \in Refreshes |-> IF f = tab[t].inFlight
                                     THEN [refresh[f] EXCEPT !.heard = FALSE] ELSE refresh[f]]
  /\ UNCHANGED <<server, storage>>

TabSteps(t) ==
  \/ SignIn(t) \/ Adopt(t) \/ SignInLost(t) \/ RefreshLands(t) \/ RefreshDenied(t) 
  \/ RefreshLost(t) \/ Load(t)

-----------------------------------------------------------------------------
Next ==
  \/ \E f \in Refreshes : RefreshRuns(f)
  \/ \E i \in Pairs : AccessExpires(i) \/ RefreshExpires(i) \/ RefreshSwept(i)
  \/ \E t \in Tabs : TabSteps(t)
  \/ \E r \in Requests : Send(r) \/ Answered(r) \/ Refused(r) \/ RefusedAgain(r)

Spec == Init /\ [][Next]_vars
=============================================================================
