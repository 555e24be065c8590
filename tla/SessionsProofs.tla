---------------------------- MODULE SessionsProofs ----------------------------
(***************************************************************************)
(* One session stays one session: OneLivePair and StaysRefreshable hold in *)
(* every state, for any tabs, requests, calls, bounds and faults; and in a *)
(* browser with one tab the storage follows the tab, and only a fault      *)
(* signs the player out.                                                   *)
(***************************************************************************)
EXTENDS SessionsProperties, TLAPS

CallState == [pc: RefreshPcs, token: Pairs \cup {NoPair}, pair: Pairs \cup {NoPair},
              heard: BOOLEAN]
TabState == [pair: Pairs \cup {NoPair}, user: BOOLEAN,
             inFlight: Refreshes \cup {NoRefresh}, signIn: Pairs \cup {NoPair}]
RequestState == [pc: {"idle", "sent", "waiting", "resent"}, bearer: Pairs \cup {NoPair}]

FaultCount == [writes: 0..MaxFaults, others: 0..MaxFaults]

(* A fault is counted within its bound (every action that takes one).      *)
LEMMA FaultTyped ==
  ASSUME NEW kind, faults \in FaultCount, Fault(kind)
  PROVE  faults' \in FaultCount
  <1>1. /\ faults.writes \in Nat /\ faults.others \in Nat
        /\ faults.writes + faults.others < MaxFaults
    BY SessionsAssumption DEF Fault, Faults, FaultCount
  <1>2. faults.writes + 1 \in 0..MaxFaults /\ faults.others + 1 \in 0..MaxFaults
    BY <1>1, SessionsAssumption
  <1>3. CASE faults' = [faults EXCEPT !.writes = @ + 1]
    BY <1>2, <1>3 DEF FaultCount
  <1>4. CASE faults' = [faults EXCEPT !.others = @ + 1]
    BY <1>2, <1>4 DEF FaultCount
  <1> QED
    BY <1>3, <1>4 DEF Fault

(* What issueTokens leaves: one more pair, of the session it is given, and *)
(* every other pair as it was (auth/routes.ts).                            *)
LEMMA Issued ==
  ASSUME SessionsTypeOK, NEW session \in Pairs \cup {NoPair}, Issue(session)
  PROVE  /\ issued \in Nat /\ issued + 1 \in Pairs
         /\ issued' = issued + 1 /\ issued' \in 0..MaxPairs
         /\ 1..issued \subseteq 1..issued' /\ issued' \in 1..issued'
         /\ 1..issued' = (1..issued) \cup {issued + 1}
         /\ issued + 1 \notin 1..issued
         /\ root' \in [Pairs -> Pairs \cup {NoPair}]
         /\ \A i \in 1..issued : root'[i] = root[i]
         /\ root'[issued + 1] = session
         /\ stored' \subseteq 1..issued' /\ valid' \subseteq 1..issued'
  <1>1. issued \in Nat /\ issued + 1 \in Pairs /\ issued' = issued + 1 /\ issued' \in 0..MaxPairs
    BY SessionsAssumption DEF Issue, SessionsTypeOK, Pairs
  <1>2. /\ 1..issued \subseteq 1..issued' /\ issued' \in 1..issued'
        /\ 1..issued' = (1..issued) \cup {issued + 1} /\ issued + 1 \notin 1..issued
    BY <1>1
  <1>3. 1..issued \subseteq Pairs
    BY SessionsAssumption DEF SessionsTypeOK, Pairs
  <1>4. root' = [root EXCEPT ![issued + 1] = session] /\ root \in [Pairs -> Pairs \cup {NoPair}]
    BY DEF Issue, SessionsTypeOK
  <1>5. root' \in [Pairs -> Pairs \cup {NoPair}]
    BY <1>1, <1>4
  <1>6. (\A i \in 1..issued : root'[i] = root[i]) /\ root'[issued + 1] = session
    BY <1>1, <1>2, <1>3, <1>4
  <1>7. stored' \subseteq 1..issued' /\ valid' \subseteq 1..issued'
    BY <1>1, <1>2 DEF Issue, SessionsTypeOK
  <1> QED
    BY <1>1, <1>2, <1>5, <1>6, <1>7

-----------------------------------------------------------------------------
(* Types. *)

(* A call that only moves on is still a call.                              *)
LEMMA GoesTyped ==
  ASSUME refresh \in [Refreshes -> CallState], NEW f \in Refreshes,
         NEW to \in RefreshPcs, RefreshGoes(f, to)
  PROVE  refresh' \in [Refreshes -> CallState]
  <1>1. refresh[f] \in CallState
    OBVIOUS
  <1> QED
    BY <1>1 DEF RefreshGoes, CallState

(* The calls of the API keep the types (auth/routes.ts).                   *)
LEMMA CallTyped ==
  ASSUME SessionsTypeOK, RotationSafe, NEW f \in Refreshes, RefreshRuns(f)
  PROVE  SessionsTypeOK'
  <1> USE SessionsAssumption DEF server, browser, RefreshPcs
  <1>1. refresh[f] \in CallState
    BY DEF SessionsTypeOK, CallState
  <1>2. refresh[f].pc # "idle" => root[refresh[f].token] \in Pairs \cup {NoPair}
    <2>1. refresh[f].pc # "idle" => refresh[f].token \in granted
      BY DEF RotationSafe, HeldWereGranted
    <2>2. granted \subseteq Pairs
      BY DEF SessionsTypeOK, Pairs
    <2> QED
      BY <2>1, <2>2 DEF SessionsTypeOK
  <1>3. CASE RefreshFind(f)
    BY <1>1, <1>3 DEF RefreshFind, RefreshGoes, SessionsTypeOK, CallState
  <1>4. CASE RefreshIssue(f)
    <2>1. Issue(root[refresh[f].token]) /\ root[refresh[f].token] \in Pairs \cup {NoPair}
      BY <1>2, <1>4 DEF RefreshIssue
    <2>2. /\ aged' \subseteq 1..issued' /\ granted' \subseteq 1..issued'
          /\ torn' \subseteq 1..issued'
      BY <1>4, <2>1, Issued DEF RefreshIssue, SessionsTypeOK
    <2>3. refresh' \in [Refreshes -> CallState]
      BY <1>1, <1>4, <2>1, Issued DEF RefreshIssue, SessionsTypeOK, CallState
    <2>4. UNCHANGED <<browser, faults>>
      BY <1>4 DEF RefreshIssue
    <2> QED
      BY <2>1, <2>2, <2>3, <2>4, Issued DEF SessionsTypeOK, CallState
  <1>5. CASE RefreshIssueFails(f)
    <2>1. refresh' \in [Refreshes -> CallState]
      BY <1>1, <1>5 DEF RefreshIssueFails, RefreshGoes, SessionsTypeOK, CallState
    <2>2. UNCHANGED <<browser, aged, granted, torn>> /\ faults' \in FaultCount
      BY <1>5, FaultTyped DEF RefreshIssueFails, SessionsTypeOK, FaultCount
    <2>3. CASE UNCHANGED <<issued, root, stored, valid>>
      BY <2>1, <2>2, <2>3 DEF SessionsTypeOK, CallState, FaultCount
    <2>4. CASE Issue(root[refresh[f].token])
      <3>1. root[refresh[f].token] \in Pairs \cup {NoPair}
        BY <1>2, <1>5 DEF RefreshIssueFails
      <3>2. /\ aged' \subseteq 1..issued' /\ granted' \subseteq 1..issued'
            /\ torn' \subseteq 1..issued'
        BY <2>2, <2>4, <3>1, Issued DEF SessionsTypeOK
      <3> QED
        BY <2>1, <2>2, <2>4, <3>1, <3>2, Issued DEF SessionsTypeOK, CallState, FaultCount
    <2> QED
      BY <1>5, <2>3, <2>4 DEF RefreshIssueFails
  <1>6. CASE RefreshConsume(f)
    <2>1. refresh[f].pair \in 1..issued
      BY <1>6 DEF RefreshConsume, RotationSafe, PairsInTheMaking
    <2>2. refresh' \in [Refreshes -> CallState]
      <3>1. "granted" \in RefreshPcs /\ "revoke" \in RefreshPcs
        OBVIOUS
      <3>2. refresh \in [Refreshes -> CallState]
        BY DEF SessionsTypeOK, CallState
      <3>3. RefreshGoes(f, "granted") \/ RefreshGoes(f, "revoke")
        BY <1>6 DEF RefreshConsume
      <3> QED
        BY <3>1, <3>2, <3>3, GoesTyped
    <2>3. stored' \subseteq 1..issued /\ granted' \subseteq 1..issued
      BY <1>6, <2>1 DEF RefreshConsume, SessionsTypeOK
    <2> QED
      BY <1>6, <2>2, <2>3 DEF RefreshConsume, SessionsTypeOK, CallState
  <1>7. CASE RefreshConsumeFails(f)
    BY <1>1, <1>7, FaultTyped
    DEF RefreshConsumeFails, RefreshGoes, SessionsTypeOK, CallState, FaultCount
  <1>8. CASE RefreshRevoke(f)
    BY <1>1, <1>8, FaultTyped DEF RefreshRevoke, RefreshGoes, SessionsTypeOK, CallState, FaultCount
  <1>9. CASE RefreshUnheard(f)
    BY <1>1, <1>9 DEF RefreshUnheard, NoCall, SessionsTypeOK, CallState
  <1> QED
    BY <1>3, <1>4, <1>5, <1>6, <1>7, <1>8, <1>9 DEF RefreshRuns

(* Nor is one that is no longer heard anything else.                       *)
LEMMA UnheardTyped ==
  ASSUME NEW call \in CallState
  PROVE  [call EXCEPT !.heard = FALSE] \in CallState
  BY DEF CallState

(* The clock keeps the types.                                              *)
LEMMA TimeTyped ==
  ASSUME SessionsTypeOK, NEW i \in Pairs,
         AccessExpires(i) \/ RefreshExpires(i) \/ RefreshSwept(i)
  PROVE  SessionsTypeOK'
  <1> USE DEF browser
  <1>1. CASE AccessExpires(i)
    BY <1>1, FaultTyped DEF AccessExpires, SessionsTypeOK, FaultCount
  <1>2. CASE RefreshExpires(i)
    BY <1>2, FaultTyped DEF RefreshExpires, SessionsTypeOK, FaultCount
  <1>3. CASE RefreshSwept(i)
    BY <1>3 DEF RefreshSwept, SessionsTypeOK
  <1> QED
    BY <1>1, <1>2, <1>3

(* A tab starts a call with a token of its own (auth store, refresh).      *)
LEMMA StartTyped ==
  ASSUME SessionsTypeOK, NEW t \in Tabs, StartRefresh(t)
  PROVE  refresh' \in [Refreshes -> CallState] /\ tab' \in [Tabs -> TabState]
  <1>1. tab[t] \in TabState
    BY DEF SessionsTypeOK, TabState
  <1>2. PICK f \in Refreshes :
          /\ refresh' = [refresh EXCEPT ![f] = [pc |-> "find", token |-> tab[t].pair,
                                                pair |-> NoPair, heard |-> TRUE]]
          /\ tab' = [tab EXCEPT ![t].inFlight = f]
    BY DEF StartRefresh
  <1> QED
    BY <1>1, <1>2 DEF SessionsTypeOK, CallState, TabState, RefreshPcs

(* A tab that forgets its session is a tab (auth store, clear).            *)
LEMMA ForgetsTyped ==
  ASSUME SessionsTypeOK, NEW t \in Tabs, Expire(t) \/ GiveUp(t)
  PROVE  tab' \in [Tabs -> TabState] /\ storage' \in Pairs \cup {NoPair}
  <1>1. tab[t] \in TabState
    BY DEF SessionsTypeOK, TabState
  <1>2. CASE Expire(t)
    BY <1>1, <1>2 DEF Expire, SessionsTypeOK, TabState
  <1>3. CASE GiveUp(t)
    BY <1>1, <1>3 DEF GiveUp, SessionsTypeOK, TabState
  <1> QED
    BY <1>2, <1>3

(* Every request that waited at a tab becomes another.                     *)
LEMMA WaitersTyped ==
  ASSUME SessionsTypeOK, NEW R, NEW q \in RequestState,
         request' = [r \in Requests |-> IF r \in R THEN q ELSE request[r]]
  PROVE  request' \in [Requests -> RequestState]
  <1>1. \A r \in Requests : request[r] \in RequestState
    BY DEF SessionsTypeOK, RequestState
  <1> QED
    BY <1>1

(* The auth store keeps the types (stores/auth.ts).                        *)
LEMMA TabTyped ==
  ASSUME SessionsTypeOK, RotationSafe, NEW t \in Tabs, TabSteps(t)
  PROVE  SessionsTypeOK'
  <1> USE DEF server
  <1>1. tab[t] \in TabState
    BY DEF SessionsTypeOK, TabState
  <1>2. NoRequest \in RequestState /\ NoCall \in CallState
    BY DEF NoRequest, NoCall, RequestState, CallState, RefreshPcs
  <1>3. CASE SignIn(t)
    <2>1. Issue(issued + 1) /\ issued + 1 \in Pairs
      BY <1>3, SessionsAssumption DEF SignIn, Issue, SessionsTypeOK, Pairs
    <2>2. /\ aged' \subseteq 1..issued' /\ granted' \subseteq 1..issued'
      BY <1>3, <2>1, Issued DEF SignIn, SessionsTypeOK
    <2>3. tab' \in [Tabs -> TabState]
      BY <1>1, <1>3, <2>1 DEF SignIn, SessionsTypeOK, TabState
    <2> QED
      BY <1>3, <2>1, <2>2, <2>3, Issued DEF SignIn, SessionsTypeOK, TabState
  <1>4. CASE Adopt(t)
    BY <1>1, <1>4 DEF Adopt, SessionsTypeOK, TabState
  <1>10. CASE SignInLost(t)
    <2>1. tab' \in [Tabs -> TabState] /\ faults' \in FaultCount
      BY <1>1, <1>10, FaultTyped DEF SignInLost, SessionsTypeOK, TabState, FaultCount
    <2> QED
      BY <1>10, <2>1 DEF SignInLost, SessionsTypeOK, TabState, FaultCount
  <1>5. CASE RefreshLands(t)
    <2> DEFINE f == tab[t].inFlight
    <2>1. f \in Refreshes
      BY <1>1, <1>5 DEF RefreshLands, TabState
    <2>2. refresh[f] \in CallState
      BY <2>1 DEF SessionsTypeOK, CallState
    <2>3. refresh' \in [Refreshes -> CallState]
      BY <1>2, <1>5 DEF RefreshLands, SessionsTypeOK, CallState
    <2>4. tab' \in [Tabs -> TabState] /\ storage' \in Pairs \cup {NoPair}
      BY <1>1, <1>5, <2>2 DEF RefreshLands, SessionsTypeOK, TabState, CallState
    <2>5. request' \in [Requests -> RequestState]
      <3>1. [pc |-> "resent", bearer |-> refresh[f].pair] \in RequestState
        BY <2>2 DEF RequestState, CallState
      <3> QED
        BY <1>5, <3>1, WaitersTyped DEF RefreshLands
    <2> QED
      BY <1>5, <2>3, <2>4, <2>5
      DEF RefreshLands, SessionsTypeOK, CallState, TabState, RequestState
  <1>6. ASSUME GiveUp(t) PROVE request' \in [Requests -> RequestState]
    BY <1>2, <1>6, WaitersTyped DEF GiveUp
  <1>7. CASE RefreshDenied(t)
    <2>1. refresh' \in [Refreshes -> CallState]
      BY <1>2, <1>7 DEF RefreshDenied, SessionsTypeOK, CallState
    <2> QED
      BY <1>6, <1>7, <2>1, ForgetsTyped
      DEF RefreshDenied, SessionsTypeOK, CallState, TabState, RequestState
  <1>8. CASE RefreshLost(t)
    <2>1. tab[t].inFlight \in Refreshes
      BY <1>1, <1>8 DEF RefreshLost, TabState
    <2>2. refresh' \in [Refreshes -> CallState]
      <3>1. refresh \in [Refreshes -> CallState] /\ refresh[tab[t].inFlight] \in CallState
        BY <2>1 DEF SessionsTypeOK, CallState
      <3>2. [refresh[tab[t].inFlight] EXCEPT !.heard = FALSE] \in CallState
        BY <3>1, UnheardTyped
      <3>3. \/ refresh' = [refresh EXCEPT ![tab[t].inFlight] = NoCall]
            \/ refresh' = [refresh EXCEPT ![tab[t].inFlight] =
                             [refresh[tab[t].inFlight] EXCEPT !.heard = FALSE]]
        BY <1>8, <2>1, <3>1 DEF RefreshLost
      <3> QED
        BY <1>2, <2>1, <3>1, <3>2, <3>3
    <2>3. faults' \in FaultCount
      BY <1>8, FaultTyped DEF RefreshLost, SessionsTypeOK, FaultCount
    <2> QED
      BY <1>6, <1>8, <2>2, <2>3, ForgetsTyped
      DEF RefreshLost, SessionsTypeOK, CallState, TabState, RequestState, FaultCount
  <1>9. CASE Load(t)
    <2>1. refresh' \in [Refreshes -> CallState]
      <3>1. refresh \in [Refreshes -> CallState]
        BY DEF SessionsTypeOK, CallState
      <3>2. \A f \in Refreshes : [refresh[f] EXCEPT !.heard = FALSE] \in CallState
        BY <3>1, UnheardTyped
      <3> QED
        BY <1>9, <3>1, <3>2 DEF Load
    <2>2. tab' \in [Tabs -> TabState]
      BY <1>9 DEF Load, SignedOut, SessionsTypeOK, TabState
    <2>3. request' \in [Requests -> RequestState]
      BY <1>2, <1>9 DEF Load, SessionsTypeOK, RequestState
    <2>4. faults' \in FaultCount
      BY <1>9, FaultTyped DEF Load, SessionsTypeOK, FaultCount
    <2> QED
      BY <1>9, <2>1, <2>2, <2>3, <2>4
      DEF Load, SessionsTypeOK, CallState, TabState, RequestState, FaultCount
  <1> QED
    BY <1>3, <1>4, <1>5, <1>7, <1>8, <1>9, <1>10 DEF TabSteps

(* The API client keeps the types (api/client.ts).                         *)
LEMMA RequestTyped ==
  ASSUME SessionsTypeOK, NEW r \in Requests,
         Send(r) \/ Answered(r) \/ Refused(r) \/ RefusedAgain(r)
  PROVE  SessionsTypeOK'
  <1> USE DEF server
  <1>1. Home[r] \in Tabs /\ tab[Home[r]] \in TabState /\ request[r] \in RequestState
    BY SessionsAssumption DEF SessionsTypeOK, TabState, RequestState
  <1>2. NoRequest \in RequestState
    BY DEF NoRequest, RequestState
  <1>3. CASE Send(r)
    BY <1>1, <1>3 DEF Send, SessionsTypeOK, TabState
  <1>4. CASE Answered(r)
    BY <1>2, <1>4 DEF Answered, SessionsTypeOK, RequestState
  <1>5. CASE Refused(r)
    <2>1. request' \in [Requests -> RequestState]
      BY <1>1, <1>2, <1>5 DEF Refused, SessionsTypeOK, RequestState
    <2>2. UNCHANGED <<server, faults>>
      BY <1>5 DEF Refused
    <2>3. CASE UNCHANGED <<refresh, tab, storage>>
      BY <2>1, <2>2, <2>3 DEF SessionsTypeOK, RequestState
    <2>4. CASE StartRefresh(Home[r]) /\ UNCHANGED storage
      BY <1>1, <2>1, <2>2, <2>4, StartTyped
      DEF SessionsTypeOK, RequestState, CallState, TabState
    <2>5. CASE Expire(Home[r]) /\ UNCHANGED refresh
      BY <1>1, <2>1, <2>2, <2>5, ForgetsTyped DEF SessionsTypeOK, RequestState, TabState
    <2> QED
      BY <1>5, <2>3, <2>4, <2>5 DEF Refused
  <1>6. CASE RefusedAgain(r)
    <2>1. request' \in [Requests -> RequestState]
      BY <1>2, <1>6 DEF RefusedAgain, SessionsTypeOK, RequestState
    <2> QED
      BY <1>1, <1>6, <2>1, ForgetsTyped
      DEF RefusedAgain, SessionsTypeOK, RequestState, TabState
  <1> QED
    BY <1>3, <1>4, <1>5, <1>6

-----------------------------------------------------------------------------
(* Rotation. *)

(* No call comes to hold a pair.                                           *)
CallsKeep ==
  \A f \in Refreshes : refresh'[f].pc \in {"consume", "revoke"} =>
    /\ refresh[f].pc \in {"consume", "revoke"}
    /\ refresh'[f].pc = "consume" => refresh[f].pc = "consume"
    /\ refresh'[f].token = refresh[f].token /\ refresh'[f].pair = refresh[f].pair

(* No token is deleted but a held one, by the call that held it.           *)
TokensKeep ==
  /\ stored' \subseteq stored /\ torn \subseteq torn'
  /\ \A j \in stored \cup aged : j \notin (stored \cup aged)' =>
       \E f \in Refreshes : Holds(f, j) /\ ~Holds(f, j)'

(* Steps that issue nothing and grant nothing keep a session one session.  *)
LEMMA RotationKept ==
  ASSUME SessionsTypeOK, RotationSafe, UNCHANGED <<issued, root, granted>>, CallsKeep, TokensKeep,
         HeldWereGranted'
  PROVE  RotationSafe'
  <1>1. RootsIssued'
    BY DEF RotationSafe, RootsIssued
  <1>2. \A f \in Refreshes : \A j : Holds(f, j)' => Holds(f, j)
    BY DEF CallsKeep, Holds
  <1>3. OneLivePair'
    BY DEF RotationSafe, OneLivePair, TokensKeep, SameSession
  <1>4. PairsInTheMaking'
    <2>1. \A f, g \in Refreshes, i \in Pairs : (Holds(f, i) /\ Holds(g, i))' => f = g
      BY <1>2 DEF RotationSafe, PairsInTheMaking
    <2>2. ASSUME NEW f \in Refreshes, refresh'[f].pc \in {"consume", "revoke"}
          PROVE  /\ refresh'[f].pair \in ((1..issued) \ granted)'
                 /\ SameSession(refresh[f].pair, refresh[f].token)'
      BY <2>2 DEF RotationSafe, PairsInTheMaking, CallsKeep, SameSession
    <2>3. ASSUME NEW f \in Refreshes, refresh'[f].pc = "consume"
          PROVE  refresh'[f].pair \in (stored \cup aged)'
      <3>1. /\ refresh[f].pc = "consume" /\ refresh'[f].pair = refresh[f].pair
            /\ refresh[f].pair \in stored \cup aged /\ refresh[f].pair \in 1..issued
        BY <2>3 DEF RotationSafe, PairsInTheMaking, CallsKeep
      <3>2. refresh[f].pair \in Pairs
        BY <3>1, SessionsAssumption DEF SessionsTypeOK, Pairs
      <3>3. Holds(f, refresh[f].pair) /\ Holds(f, refresh[f].pair)'
        BY <2>3, <3>1 DEF Holds
      <3>4. \A g \in Refreshes : Holds(g, refresh[f].pair) => g = f
        BY <3>2, <3>3 DEF RotationSafe, PairsInTheMaking
      <3> QED
        BY <3>1, <3>3, <3>4 DEF TokensKeep
    <2> QED
      BY <2>1, <2>2, <2>3 DEF PairsInTheMaking
  <1>5. StaysRefreshable'
    <2>1. ASSUME NEW j \in (stored \cup aged) \cap granted PROVE j \in (stored \cup aged)'
      <3>1. \A f \in Refreshes : ~Holds(f, j)
        BY <2>1 DEF RotationSafe, PairsInTheMaking, Holds
      <3> QED
        BY <3>1 DEF TokensKeep
    <2> QED
      BY <2>1 DEF RotationSafe, StaysRefreshable, TokensKeep, SameSession
  <1> QED
    BY <1>1, <1>3, <1>4, <1>5 DEF RotationSafe

(* What issuing a pair does to the sessions there are.                     *)
LEMMA RotationIssued ==
  ASSUME SessionsTypeOK, RotationSafe, NEW session \in Pairs, Issue(session),
         session \in 1..(issued + 1)
  PROVE  /\ RootsIssued'
         /\ \A i \in 1..issued : root'[i] = root[i] /\ root[i] \in 1..issued
         /\ root'[issued + 1] = session
         /\ issued + 1 \notin 1..issued /\ issued + 1 \in 1..issued'
         /\ 1..issued' = (1..issued) \cup {issued + 1}
         /\ granted \subseteq 1..issued /\ stored \subseteq 1..issued
         /\ aged \subseteq 1..issued /\ stored' = stored \cup {issued + 1}
         /\ \A f \in Refreshes : \A j : Holds(f, j) => j \in 1..issued
  <1>1. \A i \in 1..issued : root'[i] = root[i] /\ root[i] \in 1..issued
    BY Issued DEF RotationSafe, RootsIssued
  <1>2. /\ root'[issued + 1] = session
        /\ issued + 1 \notin 1..issued /\ issued + 1 \in 1..issued'
        /\ 1..issued' = (1..issued) \cup {issued + 1} /\ issued' = issued + 1
    BY Issued
  <1>3. RootsIssued'
    BY <1>1, <1>2 DEF RootsIssued
  <1>4. \A f \in Refreshes : \A j : Holds(f, j) => j \in 1..issued
    BY DEF Holds, RotationSafe, PairsInTheMaking
  <1> QED
    BY <1>1, <1>2, <1>3, <1>4 DEF SessionsTypeOK, Issue

(* A call that issues a pair, and either holds it or fails.                *)
LEMMA IssueRotates ==
  ASSUME SessionsTypeOK, RotationSafe, NEW f \in Refreshes,
         RefreshIssue(f) \/ RefreshIssueFails(f)
  PROVE  RotationSafe'
  <1> DEFINE new == issued + 1
  <1> DEFINE token == refresh[f].token
  <1>1. UNCHANGED <<aged, granted, torn, tab, storage>> /\ refresh[f].pc = "issue"
    BY DEF RefreshIssue, RefreshIssueFails, browser
  <1>2. token \in granted /\ token \in 1..issued /\ refresh[f] \in CallState
    BY <1>1 DEF RotationSafe, HeldWereGranted, SessionsTypeOK, CallState
  <1>3. /\ \A g \in Refreshes \ {f} : refresh'[g] = refresh[g]
        /\ refresh'[f].token = token
        /\ \/ refresh'[f].pc = "consume" /\ refresh'[f].pair = new
           \/ refresh'[f].pc = "denied"
    BY <1>2 DEF RefreshIssue, RefreshIssueFails, RefreshGoes, SessionsTypeOK, CallState
  <1>4. HeldWereGranted'
    BY <1>1, <1>2, <1>3 DEF RotationSafe, HeldWereGranted
  <1>5. CASE UNCHANGED <<issued, root, stored>> /\ refresh'[f].pc = "denied"
    <2>1. CallsKeep /\ TokensKeep
      BY <1>1, <1>3, <1>5 DEF CallsKeep, TokensKeep
    <2> QED
      BY <1>1, <1>4, <1>5, <2>1, RotationKept
  <1>6. CASE Issue(root[token])
    <2>1. root[token] \in 1..issued
      BY <1>2 DEF RotationSafe, RootsIssued
    <2>2. root[token] \in Pairs /\ root[token] \in 1..(issued + 1)
      BY <2>1, SessionsAssumption DEF SessionsTypeOK, Pairs
    <2>3. /\ RootsIssued'
          /\ \A i \in 1..issued : root'[i] = root[i] /\ root[i] \in 1..issued
          /\ root'[new] = root[token]
          /\ new \notin 1..issued /\ new \in 1..issued'
          /\ 1..issued' = (1..issued) \cup {new}
          /\ granted \subseteq 1..issued /\ stored \subseteq 1..issued
          /\ aged \subseteq 1..issued /\ stored' = stored \cup {new}
          /\ \A g \in Refreshes : \A j : Holds(g, j) => j \in 1..issued
      BY <1>6, <2>2, RotationIssued
    <2>4. \A g \in Refreshes : \A j : Holds(g, j)' => Holds(g, j) \/ (g = f /\ j = new)
      <3> SUFFICES ASSUME NEW g \in Refreshes, NEW j, Holds(g, j)'
                   PROVE  Holds(g, j) \/ (g = f /\ j = new)
        OBVIOUS
      <3>1. CASE g = f
        BY <1>3, <3>1 DEF Holds
      <3>2. CASE g # f
        BY <1>3, <3>2 DEF Holds
      <3> QED
        BY <3>1, <3>2
    <2>5. OneLivePair'
      <3>1. (stored \cap granted)' = stored \cap granted
        BY <1>1, <2>3
      <3> QED
        BY <1>1, <2>3, <3>1 DEF RotationSafe, OneLivePair, SameSession
    <2>6. PairsInTheMaking'
      <3>1. \A g, h \in Refreshes, i \in Pairs : (Holds(g, i) /\ Holds(h, i))' => g = h
        BY <2>3, <2>4 DEF RotationSafe, PairsInTheMaking
      <3>2. \A g \in Refreshes : refresh'[g].pc \in {"consume", "revoke"} =>
              /\ refresh'[g].pair \in ((1..issued) \ granted)'
              /\ SameSession(refresh[g].pair, refresh[g].token)'
              /\ refresh'[g].pc = "consume" => refresh'[g].pair \in (stored \cup aged)'
        <4>1. ASSUME NEW g \in Refreshes, refresh'[g].pc \in {"consume", "revoke"}, g # f
              PROVE  /\ refresh'[g].pair \in ((1..issued) \ granted)'
                     /\ SameSession(refresh[g].pair, refresh[g].token)'
                     /\ refresh'[g].pc = "consume" => refresh'[g].pair \in (stored \cup aged)'
          <5>1. refresh'[g] = refresh[g]
            BY <1>3, <4>1
          <5>2. /\ refresh[g].pair \in (1..issued) \ granted
                /\ root[refresh[g].pair] = root[refresh[g].token]
                /\ refresh[g].pc = "consume" => refresh[g].pair \in stored \cup aged
                /\ refresh[g].token \in granted
            BY <4>1, <5>1 DEF RotationSafe, PairsInTheMaking, HeldWereGranted, SameSession
          <5> QED
            BY <1>1, <2>3, <5>1, <5>2 DEF SameSession
        <4>2. refresh'[f].pc \in {"consume", "revoke"} =>
                /\ refresh'[f].pair \in ((1..issued) \ granted)'
                /\ SameSession(refresh[f].pair, refresh[f].token)'
                /\ refresh'[f].pair \in (stored \cup aged)'
          BY <1>1, <1>2, <1>3, <2>3 DEF SameSession
        <4> QED
          BY <4>1, <4>2
      <3> QED
        BY <3>1, <3>2 DEF PairsInTheMaking
    <2>7. StaysRefreshable'
      <3>1. /\ \A i \in granted : i \in 1..issued /\ root'[i] = root[i]
            /\ \A k \in torn : root'[k] = root[k]
            /\ stored \cup aged \subseteq (stored \cup aged)' /\ torn' = torn
        BY <1>1, <2>3 DEF SessionsTypeOK, RefreshIssue, RefreshIssueFails
      <3> QED
        BY <1>1, <3>1 DEF RotationSafe, StaysRefreshable, SameSession
    <2> QED
      BY <1>4, <2>3, <2>5, <2>6, <2>7 DEF RotationSafe
  <1>7. RefreshIssueFails(f) => refresh'[f].pc = "denied"
    BY <1>2 DEF RefreshIssueFails, RefreshGoes, SessionsTypeOK, CallState
  <1> QED
    BY <1>5, <1>6, <1>7 DEF RefreshIssue, RefreshIssueFails

(* A first pair is a session of its own (POST /auth/login).                *)
LEMMA SignInRotates ==
  ASSUME SessionsTypeOK, RotationSafe, NEW t \in Tabs, SignIn(t)
  PROVE  RotationSafe'
  <1> DEFINE new == issued + 1
  <1>1. /\ Issue(new) /\ granted' = granted \cup {new}
        /\ UNCHANGED <<aged, refresh, storage>>
        /\ tab' = [tab EXCEPT ![t].signIn = new]
    BY DEF SignIn
  <1>2. new \in Pairs /\ new \in 1..(issued + 1)
    BY <1>1, SessionsAssumption DEF Issue, SessionsTypeOK, Pairs
  <1>3. /\ RootsIssued'
        /\ \A i \in 1..issued : root'[i] = root[i] /\ root[i] \in 1..issued
        /\ root'[new] = new
        /\ new \notin 1..issued /\ new \in 1..issued'
        /\ 1..issued' = (1..issued) \cup {new}
        /\ granted \subseteq 1..issued /\ stored \subseteq 1..issued
        /\ aged \subseteq 1..issued /\ stored' = stored \cup {new}
        /\ \A g \in Refreshes : \A j : Holds(g, j) => j \in 1..issued
    BY <1>1, <1>2, RotationIssued
  <1>4. \A g \in Refreshes : \A j : Holds(g, j)' <=> Holds(g, j)
    BY <1>1 DEF Holds
  <1>5. HeldWereGranted'
    <2>1. \A u \in Tabs : {tab'[u].pair, tab'[u].signIn} \subseteq granted' \cup {NoPair}
      BY <1>1 DEF RotationSafe, HeldWereGranted, SessionsTypeOK
    <2> QED
      BY <1>1, <2>1 DEF RotationSafe, HeldWereGranted
  <1>6. OneLivePair'
    <2> SUFFICES ASSUME NEW i \in (stored \cap granted)', NEW j \in (stored \cap granted)',
                        SameSession(i, j)'
                 PROVE  i = j
      BY DEF OneLivePair
    <2>1. \A k \in (stored \cap granted)' : k = new \/ k \in stored \cap granted
      BY <1>1, <1>3
    <2>2. \A k \in stored \cap granted : root'[k] = root[k] /\ root'[k] # new
      BY <1>3
    <2> QED
      BY <1>3, <2>1, <2>2 DEF RotationSafe, OneLivePair, SameSession
  <1>7. PairsInTheMaking'
    <2>1. \A g, h \in Refreshes, i \in Pairs : (Holds(g, i) /\ Holds(h, i))' => g = h
      BY <1>4 DEF RotationSafe, PairsInTheMaking
    <2>2. ASSUME NEW g \in Refreshes, refresh'[g].pc \in {"consume", "revoke"}
          PROVE  /\ refresh'[g].pair \in ((1..issued) \ granted)'
                 /\ SameSession(refresh[g].pair, refresh[g].token)'
                 /\ refresh'[g].pc = "consume" => refresh'[g].pair \in (stored \cup aged)'
      <3>1. /\ refresh[g].pair \in (1..issued) \ granted
            /\ root[refresh[g].pair] = root[refresh[g].token]
            /\ refresh[g].pc = "consume" => refresh[g].pair \in stored \cup aged
            /\ refresh[g].token \in granted
        BY <1>1, <2>2 DEF RotationSafe, PairsInTheMaking, HeldWereGranted, SameSession
      <3> QED
        BY <1>1, <1>3, <3>1 DEF SameSession
    <2> QED
      BY <2>1, <2>2 DEF PairsInTheMaking
  <1>8. StaysRefreshable'
    <2>1. /\ \A i \in granted : i \in 1..issued /\ root'[i] = root[i]
          /\ \A k \in torn : root'[k] = root[k]
          /\ stored \cup aged \subseteq (stored \cup aged)' /\ UNCHANGED torn
          /\ new \in (stored \cup aged)'
      BY <1>1, <1>3 DEF SessionsTypeOK, SignIn
    <2> SUFFICES ASSUME NEW i \in granted \cup {new}
                 PROVE  \/ \E j \in (stored \cup aged)' \cap granted' : SameSession(i, j)'
                        \/ \E k \in torn : SameSession(i, k)'
      BY <1>1, <2>1 DEF StaysRefreshable
    <2>2. CASE i = new
      BY <1>1, <2>1, <2>2 DEF SameSession
    <2>3. CASE i \in granted
      BY <1>1, <2>1, <2>3 DEF RotationSafe, StaysRefreshable, SameSession
    <2> QED
      BY <2>2, <2>3
  <1> QED
    BY <1>3, <1>5, <1>6, <1>7, <1>8 DEF RotationSafe

(* A call that deletes the presented token: it is granted its pair, or     *)
(* reports an error, leaves that pair behind and tears the session.        *)
LEMMA ConsumeRotates ==
  ASSUME SessionsTypeOK, RotationSafe, NEW f \in Refreshes, refresh[f].pc = "consume",
         UNCHANGED <<issued, root, aged, browser>>,
         stored' = stored \ {refresh[f].token},
         \/ /\ refresh[f].token \in stored /\ granted' = granted \cup {refresh[f].pair}
            /\ RefreshGoes(f, "granted") /\ UNCHANGED torn
         \/ /\ torn' = torn \cup (stored \cap {refresh[f].token})
            /\ RefreshGoes(f, "denied") /\ UNCHANGED granted
  PROVE  RotationSafe'
  <1> DEFINE token == refresh[f].token
  <1>0. PICK pair : pair = refresh[f].pair
    OBVIOUS
  <1>1. /\ token \in granted /\ pair \in (1..issued) \ granted /\ root[pair] = root[token]
        /\ pair \in stored \cup aged /\ pair # token
    BY <1>0 DEF RotationSafe, HeldWereGranted, PairsInTheMaking, SameSession
  <1>2. pair \in Pairs
    BY <1>1, SessionsAssumption DEF SessionsTypeOK, Pairs
  <1>3. /\ \A g \in Refreshes \ {f} : refresh'[g] = refresh[g]
        /\ refresh'[f].token = token
        /\ \/ refresh'[f].pc = "granted" /\ refresh'[f].pair = pair /\ pair \in granted'
           \/ refresh'[f].pc = "denied"
    BY <1>0 DEF RefreshGoes, SessionsTypeOK
  <1>4. \A g \in Refreshes : \A j : Holds(g, j)' => Holds(g, j) /\ g # f
    BY <1>3 DEF Holds
  <1>5. \A g \in Refreshes : ~Holds(g, pair)'
    <2>1. Holds(f, pair)
      BY <1>0 DEF Holds
    <2> QED
      BY <1>2, <1>4, <2>1 DEF RotationSafe, PairsInTheMaking
  <1>6. granted \subseteq granted' /\ granted' \subseteq granted \cup {pair}
    BY <1>0
  <1>7. HeldWereGranted'
    BY <1>1, <1>3, <1>6 DEF RotationSafe, HeldWereGranted, browser
  <1>8. RootsIssued'
    BY DEF RotationSafe, RootsIssued
  <1>9. OneLivePair'
    <2> SUFFICES ASSUME NEW i \in (stored \cap granted)', NEW j \in (stored \cap granted)',
                        SameSession(i, j)'
                 PROVE  i = j
      BY DEF OneLivePair
    <2>1. i # token /\ j # token /\ i \in stored /\ j \in stored /\ root[i] = root[j]
      BY DEF SameSession
    <2>2. CASE granted' = granted
      BY <2>1, <2>2 DEF RotationSafe, OneLivePair, SameSession
    <2>3. CASE token \in stored
      <3>1. \A k \in stored \cap granted : root[k] = root[token] => k = token
        BY <1>1, <2>3 DEF RotationSafe, OneLivePair, SameSession
      <3>2. \A k \in {i, j} : k \in granted => root[k] # root[pair]
        BY <1>1, <2>1, <3>1
      <3> QED
        BY <1>6, <2>1, <3>2 DEF RotationSafe, OneLivePair, SameSession
    <2> QED
      BY <2>2, <2>3
  <1>10. PairsInTheMaking'
    <2>1. \A g, h \in Refreshes, i \in Pairs : (Holds(g, i) /\ Holds(h, i))' => g = h
      BY <1>4 DEF RotationSafe, PairsInTheMaking
    <2>2. ASSUME NEW g \in Refreshes, refresh'[g].pc \in {"consume", "revoke"}
          PROVE  /\ refresh'[g].pair \in ((1..issued) \ granted)'
                 /\ SameSession(refresh[g].pair, refresh[g].token)'
                 /\ refresh'[g].pc = "consume" => refresh'[g].pair \in (stored \cup aged)'
      <3>1. g # f /\ refresh'[g] = refresh[g]
        BY <1>3, <2>2
      <3>2. /\ refresh[g].pair \in (1..issued) \ granted
            /\ root[refresh[g].pair] = root[refresh[g].token]
            /\ refresh[g].pc = "consume" => refresh[g].pair \in stored \cup aged
        BY <2>2, <3>1 DEF RotationSafe, PairsInTheMaking, SameSession
      <3>3. refresh[g].pair # pair
        BY <1>5, <2>2, <3>1 DEF Holds
      <3> QED
        BY <1>1, <1>6, <3>1, <3>2, <3>3 DEF SameSession
    <2> QED
      BY <2>1, <2>2 DEF PairsInTheMaking
  <1>11. StaysRefreshable'
    <2> SUFFICES ASSUME NEW i \in granted \cup {pair}, i \in granted'
                 PROVE  \/ \E j \in (stored \cup aged)' \cap granted' : root[i] = root[j]
                        \/ \E k \in torn' : root[i] = root[k]
      BY <1>6 DEF StaysRefreshable, SameSession
    <2>1. torn \subseteq torn' /\ pair \in (stored \cup aged)'
      BY <1>1
    <2>2. CASE i = pair
      BY <2>1, <2>2
    <2>3. CASE i # pair
      <3>1. \/ \E j \in (stored \cup aged) \cap granted : root[i] = root[j]
            \/ \E k \in torn : root[i] = root[k]
        BY <2>3 DEF RotationSafe, StaysRefreshable, SameSession
      <3>2. CASE \E k \in torn : root[i] = root[k]
        BY <2>1, <3>2
      <3>3. ASSUME NEW j \in (stored \cup aged) \cap granted, root[i] = root[j]
            PROVE  \/ \E l \in (stored \cup aged)' \cap granted' : root[i] = root[l]
                   \/ \E k \in torn' : root[i] = root[k]
        <4>1. CASE j \in (stored \cup aged)'
          BY <1>6, <3>3, <4>1
        <4>2. CASE j \notin (stored \cup aged)'
          <5>1. j = token /\ token \in stored
            BY <3>3, <4>2
          <5>2. (pair \in granted' /\ root[i] = root[pair]) \/ token \in torn'
            BY <1>0, <1>1, <3>3, <5>1
          <5> QED
            BY <2>1, <3>3, <5>1, <5>2
        <4> QED
          BY <4>1, <4>2
      <3> QED
        BY <3>1, <3>2, <3>3
    <2> QED
      BY <2>2, <2>3
  <1> QED
    BY <1>7, <1>8, <1>9, <1>10, <1>11 DEF RotationSafe

(* Every call of the API keeps a session one session (POST /auth/refresh). *)
LEMMA CallRotates ==
  ASSUME SessionsTypeOK, RotationSafe, NEW f \in Refreshes, RefreshRuns(f)
  PROVE  RotationSafe'
  <1>1. refresh[f] \in CallState /\ refresh \in [Refreshes -> CallState]
    BY DEF SessionsTypeOK, CallState
  <1>2. CASE RefreshFind(f)
    <2>1. /\ \A g \in Refreshes \ {f} : refresh'[g] = refresh[g]
          /\ refresh'[f].token = refresh[f].token /\ refresh'[f].pc \in {"issue", "denied"}
      BY <1>1, <1>2 DEF RefreshFind, RefreshGoes, CallState
    <2>2. HeldWereGranted' /\ CallsKeep /\ TokensKeep
      BY <1>2, <2>1
      DEF RefreshFind, RotationSafe, HeldWereGranted, CallsKeep, TokensKeep, server, browser
    <2> QED
      BY <1>2, <2>2, RotationKept DEF RefreshFind, server
  <1>3. CASE RefreshConsume(f) /\ refresh[f].token \in stored
    BY <1>3, ConsumeRotates DEF RefreshConsume
  <1>4. CASE RefreshConsume(f) /\ refresh[f].token \notin stored
    <2>1. /\ \A g \in Refreshes \ {f} : refresh'[g] = refresh[g]
          /\ refresh'[f].token = refresh[f].token /\ refresh'[f].pair = refresh[f].pair
          /\ refresh[f].pc = "consume" /\ refresh'[f].pc = "revoke"
          /\ UNCHANGED <<issued, root, stored, aged, granted, torn, browser>>
      BY <1>1, <1>4 DEF RefreshConsume, RefreshGoes, CallState
    <2>2. HeldWereGranted' /\ CallsKeep /\ TokensKeep
      BY <2>1 DEF RotationSafe, HeldWereGranted, CallsKeep, TokensKeep, browser
    <2> QED
      BY <2>1, <2>2, RotationKept
  <1>5. CASE RefreshConsumeFails(f)
    <2>1. CASE /\ stored' = stored \ {refresh[f].token}
               /\ torn' = torn \cup (stored \cap {refresh[f].token})
      BY <1>5, <2>1, ConsumeRotates DEF RefreshConsumeFails
    <2>2. CASE UNCHANGED <<stored, torn>>
      <3>1. /\ \A g \in Refreshes \ {f} : refresh'[g] = refresh[g]
            /\ refresh'[f].token = refresh[f].token /\ refresh'[f].pc = "denied"
            /\ refresh[f].pc = "consume"
            /\ UNCHANGED <<issued, root, stored, aged, granted, torn, browser>>
        BY <1>1, <1>5, <2>2 DEF RefreshConsumeFails, RefreshGoes, CallState
      <3>2. HeldWereGranted' /\ CallsKeep /\ TokensKeep
        BY <3>1 DEF RotationSafe, HeldWereGranted, CallsKeep, TokensKeep, browser
      <3> QED
        BY <3>1, <3>2, RotationKept
    <2> QED
      BY <1>5, <2>1, <2>2 DEF RefreshConsumeFails
  <1>6. CASE RefreshRevoke(f)
    <2>1. /\ \A g \in Refreshes \ {f} : refresh'[g] = refresh[g]
          /\ refresh'[f].token = refresh[f].token /\ refresh'[f].pc = "denied"
          /\ refresh[f].pc = "revoke"
          /\ UNCHANGED <<issued, root, aged, granted, torn, browser>>
          /\ stored' \in {stored, stored \ {refresh[f].pair}}
      BY <1>1, <1>6 DEF RefreshRevoke, RefreshGoes, CallState
    <2>2. HeldWereGranted' /\ CallsKeep
      BY <2>1 DEF RotationSafe, HeldWereGranted, CallsKeep, browser
    <2>3. \A j : (j = refresh[f].pair => Holds(f, j)) /\ ~Holds(f, j)'
      BY <2>1 DEF Holds
    <2>4. TokensKeep
      BY <2>1, <2>3 DEF TokensKeep
    <2> QED
      BY <2>1, <2>2, <2>4, RotationKept
  <1>7. CASE RefreshUnheard(f)
    <2>1. /\ \A g \in Refreshes \ {f} : refresh'[g] = refresh[g]
          /\ refresh'[f].pc = "idle"
      BY <1>1, <1>7 DEF RefreshUnheard, NoCall
    <2>2. HeldWereGranted' /\ CallsKeep /\ TokensKeep
      BY <1>7, <2>1
      DEF RefreshUnheard, RotationSafe, HeldWereGranted, CallsKeep, TokensKeep, server, browser
    <2> QED
      BY <1>7, <2>2, RotationKept DEF RefreshUnheard, server
  <1> QED
    BY <1>2, <1>3, <1>4, <1>5, <1>6, <1>7, IssueRotates DEF RefreshRuns

(* Time only takes tokens away.                                            *)
LEMMA TimeRotates ==
  ASSUME SessionsTypeOK, RotationSafe, NEW i \in Pairs,
         AccessExpires(i) \/ RefreshExpires(i) \/ RefreshSwept(i)
  PROVE  RotationSafe'
  <1>1. /\ UNCHANGED <<issued, root, granted, torn, refresh, tab, storage>> /\ stored' \subseteq stored
        /\ stored \cup aged \subseteq (stored \cup aged)'
    BY DEF AccessExpires, RefreshExpires, RefreshSwept, browser
  <1>2. HeldWereGranted' /\ CallsKeep /\ TokensKeep
    BY <1>1 DEF RotationSafe, HeldWereGranted, CallsKeep, TokensKeep
  <1> QED
    BY <1>1, <1>2, RotationKept

(* No tab can hold what it was not given (stores/auth.ts).                 *)
LEMMA TabRotates ==
  ASSUME SessionsTypeOK, RotationSafe, NEW t \in Tabs, TabSteps(t)
  PROVE  RotationSafe'
  <1> USE DEF server
  <1> DEFINE Had == granted \cup {NoPair}
  <1>1. /\ tab \in [Tabs -> TabState] /\ tab[t] \in TabState
        /\ refresh \in [Refreshes -> CallState]
    BY DEF SessionsTypeOK, TabState, CallState
  <1>2. /\ \A u \in Tabs : tab[u].pair \in Had /\ tab[u].signIn \in Had
        /\ storage \in Had
        /\ \A f \in Refreshes : refresh[f].pc # "idle" => refresh[f].token \in granted
        /\ \A f \in Refreshes : refresh[f].pc = "granted" => refresh[f].pair \in granted
    BY DEF RotationSafe, HeldWereGranted
  <1>3. ASSUME UNCHANGED server,
               \A u \in Tabs : tab'[u].pair \in Had /\ tab'[u].signIn \in Had,
               storage' \in Had,
               \A f \in Refreshes :
                 \/ refresh'[f] = NoCall
                 \/ /\ refresh'[f].pc = refresh[f].pc
                    /\ refresh'[f].token = refresh[f].token
                    /\ refresh'[f].pair = refresh[f].pair
        PROVE  RotationSafe'
    <2>1. HeldWereGranted'
      BY <1>2, <1>3 DEF HeldWereGranted, NoCall
    <2>2. CallsKeep /\ TokensKeep
      BY <1>3 DEF CallsKeep, TokensKeep, NoCall
    <2> QED
      BY <1>3, <2>1, <2>2, RotationKept
  <1>4. CASE Adopt(t)
    <2>1. \A u \in Tabs : tab'[u].pair \in Had /\ tab'[u].signIn \in Had
      BY <1>1, <1>2, <1>4 DEF Adopt, TabState
    <2> QED
      BY <1>2, <1>3, <1>4, <2>1 DEF Adopt
  <1>10. CASE SignInLost(t)
    <2>1. \A u \in Tabs : tab'[u].pair \in Had /\ tab'[u].signIn \in Had
      BY <1>1, <1>2, <1>10 DEF SignInLost, TabState
    <2> QED
      BY <1>2, <1>3, <1>10, <2>1 DEF SignInLost
  <1>5. CASE RefreshLands(t)
    <2> DEFINE f == tab[t].inFlight
    <2>1. f \in Refreshes /\ refresh[f].pair \in granted
      BY <1>1, <1>2, <1>5 DEF RefreshLands, TabState
    <2>2. \A u \in Tabs : tab'[u].pair \in Had /\ tab'[u].signIn \in Had
      BY <1>1, <1>2, <1>5, <2>1 DEF RefreshLands, TabState
    <2>3. \A g \in Refreshes : refresh'[g] = NoCall \/ refresh'[g] = refresh[g]
      BY <1>1, <1>5 DEF RefreshLands
    <2>4. storage' \in Had /\ UNCHANGED server
      BY <1>5, <2>1 DEF RefreshLands
    <2> QED
      BY <1>3, <2>2, <2>3, <2>4
  <1>6. ASSUME GiveUp(t)
        PROVE  /\ storage' \in Had
               /\ \A u \in Tabs : tab'[u].pair \in Had /\ tab'[u].signIn \in Had
    BY <1>1, <1>2, <1>6 DEF GiveUp, TabState
  <1>7. CASE RefreshDenied(t)
    <2>1. \A g \in Refreshes : refresh'[g] = NoCall \/ refresh'[g] = refresh[g]
      BY <1>1, <1>7 DEF RefreshDenied
    <2> QED
      BY <1>3, <1>6, <1>7, <2>1 DEF RefreshDenied
  <1>8. CASE RefreshLost(t)
    <2>1. \A g \in Refreshes :
            \/ refresh'[g] = NoCall
            \/ /\ refresh'[g].pc = refresh[g].pc
               /\ refresh'[g].token = refresh[g].token
               /\ refresh'[g].pair = refresh[g].pair
      BY <1>1, <1>8 DEF RefreshLost, CallState
    <2> QED
      BY <1>3, <1>6, <1>8, <2>1 DEF RefreshLost
  <1>9. CASE Load(t)
    <2>1. \A g \in Refreshes :
               /\ refresh'[g].pc = refresh[g].pc
               /\ refresh'[g].token = refresh[g].token
               /\ refresh'[g].pair = refresh[g].pair
      BY <1>1, <1>9 DEF Load, CallState
    <2>2. \A u \in Tabs : tab'[u].pair \in Had /\ tab'[u].signIn \in Had
      BY <1>1, <1>2, <1>9 DEF Load, SignedOut, TabState
    <2>3. storage' \in Had /\ UNCHANGED server
      BY <1>2, <1>9 DEF Load
    <2> QED
      BY <1>3, <2>1, <2>2, <2>3
  <1> QED
    BY <1>4, <1>5, <1>7, <1>8, <1>9, <1>10, SignInRotates DEF TabSteps

(* Nor can a request (api/client.ts).                                      *)
LEMMA RequestRotates ==
  ASSUME SessionsTypeOK, RotationSafe, NEW r \in Requests,
         Send(r) \/ Answered(r) \/ Refused(r) \/ RefusedAgain(r)
  PROVE  RotationSafe'
  <1> DEFINE t == Home[r]
  <1> DEFINE Had == granted \cup {NoPair}
  <1>1. /\ t \in Tabs /\ tab \in [Tabs -> TabState] /\ tab[t] \in TabState
        /\ refresh \in [Refreshes -> CallState] /\ UNCHANGED <<issued, root, stored, aged, granted, torn>>
    BY SessionsAssumption
    DEF SessionsTypeOK, TabState, CallState, server, Send, Answered, Refused, RefusedAgain
  <1>2. /\ \A u \in Tabs : tab[u].pair \in Had /\ tab[u].signIn \in Had
        /\ storage \in Had
        /\ \A f \in Refreshes : refresh[f].pc # "idle" => refresh[f].token \in granted
        /\ \A f \in Refreshes : refresh[f].pc = "granted" => refresh[f].pair \in granted
    BY DEF RotationSafe, HeldWereGranted
  <1>3. CASE UNCHANGED <<refresh, tab, storage>>
    BY <1>1, <1>3, RotationKept DEF RotationSafe, HeldWereGranted, CallsKeep, TokensKeep
  <1>4. CASE UNCHANGED refresh /\ Expire(t)
    <2>1. storage' \in Had /\ \A u \in Tabs : tab'[u].pair \in Had /\ tab'[u].signIn \in Had
      BY <1>1, <1>2, <1>4 DEF Expire, TabState
    <2>2. HeldWereGranted' /\ CallsKeep /\ TokensKeep
      BY <1>1, <1>2, <1>4, <2>1 DEF HeldWereGranted, CallsKeep, TokensKeep
    <2> QED
      BY <1>1, <2>2, RotationKept
  <1>5. CASE StartRefresh(t) /\ UNCHANGED storage /\ tab[t].pair # NoPair
    <2>1. PICK f \in Refreshes :
            /\ refresh' = [refresh EXCEPT ![f] = [pc |-> "find", token |-> tab[t].pair,
                                                  pair |-> NoPair, heard |-> TRUE]]
            /\ tab' = [tab EXCEPT ![t].inFlight = f]
      BY <1>5 DEF StartRefresh
    <2>2. \A u \in Tabs : tab'[u].pair \in Had /\ tab'[u].signIn \in Had
      BY <1>1, <1>2, <2>1 DEF TabState
    <2>3. /\ \A g \in Refreshes \ {f} : refresh'[g] = refresh[g]
          /\ refresh'[f].pc = "find" /\ refresh'[f].token \in granted
      BY <1>1, <1>2, <1>5, <2>1
    <2>4. HeldWereGranted' /\ CallsKeep /\ TokensKeep
      BY <1>1, <1>2, <1>5, <2>2, <2>3 DEF HeldWereGranted, CallsKeep, TokensKeep
    <2> QED
      BY <1>1, <2>4, RotationKept
  <1> QED
    BY <1>3, <1>4, <1>5 DEF Send, Answered, Refused, RefusedAgain

-----------------------------------------------------------------------------
(* In every state the types hold and a session is one session: what the    *)
(* refresh route and the stores that call it do cannot break rotation.     *)
THEOREM RotationInvariance == Spec => [](SessionsTypeOK /\ RotationSafe)
  <1>1. Init => SessionsTypeOK /\ RotationSafe
    BY SessionsAssumption
    DEF Init, SessionsTypeOK, RotationSafe, RootsIssued, HeldWereGranted, PairsInTheMaking,
        OneLivePair, StaysRefreshable, Holds, SignedOut, NoCall, NoRequest, NoPair, Pairs, RefreshPcs
  <1>2. SessionsTypeOK /\ RotationSafe /\ [Next]_vars => (SessionsTypeOK /\ RotationSafe)'
    <2> SUFFICES ASSUME SessionsTypeOK, RotationSafe, [Next]_vars
                 PROVE  SessionsTypeOK' /\ RotationSafe'
      OBVIOUS
    <2>1. ASSUME NEW f \in Refreshes, RefreshRuns(f)
          PROVE  SessionsTypeOK' /\ RotationSafe'
      BY <2>1, CallTyped, CallRotates
    <2>2. ASSUME NEW i \in Pairs, AccessExpires(i) \/ RefreshExpires(i) \/ RefreshSwept(i)
          PROVE  SessionsTypeOK' /\ RotationSafe'
      BY <2>2, TimeTyped, TimeRotates
    <2>3. ASSUME NEW t \in Tabs, TabSteps(t)
          PROVE  SessionsTypeOK' /\ RotationSafe'
      BY <2>3, TabTyped, TabRotates
    <2>4. ASSUME NEW r \in Requests, Send(r) \/ Answered(r) \/ Refused(r) \/ RefusedAgain(r)
          PROVE  SessionsTypeOK' /\ RotationSafe'
      BY <2>4, RequestTyped, RequestRotates
    <2>5. CASE UNCHANGED vars
      BY <2>5 DEF vars, server, browser, SessionsTypeOK, RotationSafe, RootsIssued,
                  HeldWereGranted, PairsInTheMaking, OneLivePair, StaysRefreshable, Holds, SameSession
    <2> QED
      BY <2>1, <2>2, <2>3, <2>4, <2>5 DEF Next
  <1> QED
    BY <1>1, <1>2, PTL DEF Spec

(* However many calls present one token, and whatever fails, at most one   *)
(* refresh token of a session that a client was given is still good.       *)
THEOREM OneSession == Spec => []OneLivePair
  <1>1. RotationSafe => OneLivePair
    BY DEF RotationSafe
  <1> QED
    BY <1>1, RotationInvariance, PTL

(* Whatever write fails and whichever call wins, a session always has a    *)
(* refresh token that the API answered with and that was not deleted       *)
(* before it expired - unless a delete was done and reported an error.     *)
THEOREM NeverStranded == Spec => []StaysRefreshable
  <1>1. RotationSafe => StaysRefreshable
    BY DEF RotationSafe
  <1> QED
    BY <1>1, RotationInvariance, PTL
-----------------------------------------------------------------------------
(* One tab.  Tabs share the stored pair and each refreshes on its own, so  *)
(* what follows is about a browser with a single one.                      *)

OneTab == \A t, u \in Tabs : t = u

(* No step of the API or of the clock reaches the tab or the storage.      *)
LEMMA ServerAside ==
  /\ \A f \in Refreshes : RefreshRuns(f) => UNCHANGED browser
  /\ \A i \in Pairs : AccessExpires(i) \/ RefreshExpires(i) \/ RefreshSwept(i) => UNCHANGED browser
  BY DEF RefreshRuns, RefreshFind, RefreshIssue, RefreshIssueFails, RefreshConsume,
         RefreshConsumeFails, RefreshRevoke, RefreshUnheard, AccessExpires, RefreshExpires,
         RefreshSwept

(* Every step of a tab leaves the storage as the tab it leaves.            *)
LEMMA StorageStep ==
  ASSUME OneTab, SessionsTypeOK, StorageFollows, [Next]_vars
  PROVE  StorageFollows'
  <1> SUFFICES ASSUME NEW t \in Tabs PROVE (tab[t].user => storage = tab[t].pair)'
    BY DEF StorageFollows
  <1>1. tab[t] \in TabState /\ tab \in [Tabs -> TabState] /\ (tab[t].user => storage = tab[t].pair)
    BY DEF SessionsTypeOK, TabState, StorageFollows
  <1>2. \A r \in Requests : Home[r] = t
    BY SessionsAssumption DEF OneTab
  <1>3. CASE UNCHANGED browser
    BY <1>1, <1>3 DEF browser
  <1>4. CASE TabSteps(t)
    <2>1. CASE SignIn(t) \/ SignInLost(t)
      BY <1>1, <2>1 DEF SignIn, SignInLost, TabState
    <2>2. CASE Adopt(t)
      BY <1>1, <2>2 DEF Adopt, TabState
    <2>3. CASE RefreshLands(t)
      <3>1. tab'[t].user = tab[t].user /\ (tab[t].user => storage' = tab'[t].pair)
        BY <1>1, <2>3 DEF RefreshLands, TabState
      <3> QED
        BY <3>1
    <2>4. CASE RefreshDenied(t) \/ RefreshLost(t)
      BY <1>1, <2>4 DEF RefreshDenied, RefreshLost, GiveUp, TabState
    <2>5. CASE Load(t)
      <3>1. storage' = storage /\ tab'[t].pair = storage
        BY <1>1, <2>5 DEF Load, SignedOut
      <3> QED
        BY <3>1
    <2> QED
      BY <1>4, <2>1, <2>2, <2>3, <2>4, <2>5 DEF TabSteps
  <1>5. ASSUME NEW r \in Requests, Send(r) \/ Answered(r) \/ Refused(r) \/ RefusedAgain(r)
        PROVE  (tab[t].user => storage = tab[t].pair)'
    <2>1. Expire(t) => tab'[t].user = FALSE
      BY <1>1 DEF Expire, TabState
    <2>2. StartRefresh(t) => tab'[t].user = tab[t].user /\ tab'[t].pair = tab[t].pair
      BY <1>1 DEF StartRefresh, TabState
    <2>3. UNCHANGED <<tab, storage>> \/ (StartRefresh(t) /\ UNCHANGED storage) \/ Expire(t)
      BY <1>2, <1>5 DEF Send, Answered, Refused, RefusedAgain
    <2> QED
      BY <1>1, <2>1, <2>2, <2>3
  <1>6. [Next]_vars => \/ UNCHANGED browser \/ TabSteps(t)
                       \/ \E r \in Requests :
                            Send(r) \/ Answered(r) \/ Refused(r) \/ RefusedAgain(r)
    BY ServerAside DEF OneTab, Next, vars
  <1> QED
    BY <1>3, <1>4, <1>5, <1>6

(* In a browser with one tab, the stored pair is the one the tab holds for *)
(* as long as it shows a player: a reload finds the session that was       *)
(* there, whatever was refreshed, refused or lost (auth store, persist).   *)
THEOREM ReloadFindsTheSession == ASSUME OneTab PROVE Spec => []StorageFollows
  <1>1. Init => StorageFollows
    BY DEF Init, StorageFollows, SignedOut
  <1>2. SessionsTypeOK /\ StorageFollows /\ [Next]_vars => StorageFollows'
    BY StorageStep
  <1> QED
    BY <1>1, <1>2, RotationInvariance, PTL DEF Spec

-----------------------------------------------------------------------------
(* Signing out.  Until something fails, the one tab's call is the only one *)
(* there is, its token is stored until it is granted another, and what it  *)
(* was just issued is accepted.                                            *)

CallWell(f) ==
  /\ refresh[f].pc \in {"find", "issue", "consume", "granted"} /\ refresh[f].heard
  /\ refresh[f].pc # "granted" => refresh[f].token \in stored
  /\ refresh[f].pc \in {"consume", "granted"} => /\ refresh[f].pair \in stored \cap valid
                                                 /\ refresh[f].pair # refresh[f].token

TabWell(t) ==
  LET mine == tab[t]
  IN  /\ mine.user => mine.pair # NoPair /\ mine.signIn = NoPair
      /\ ~mine.user => mine.pair = NoPair /\ mine.inFlight = NoRefresh /\ storage = NoPair
      /\ mine.signIn \in stored \cup {NoPair}
      /\ mine.inFlight = NoRefresh => mine.pair \in stored \cup {NoPair}

Well ==
  /\ aged = {}
  /\ \A t \in Tabs : TabWell(t)
  /\ \A f \in Refreshes : refresh[f].pc # "idle" =>
       CallWell(f) /\ \E t \in Tabs : f = tab[t].inFlight
  /\ \A r \in Requests : request[r].pc = "resent" => request[r].bearer \in valid

WellUntilAFault == Faults = 0 => Well
(* A fault is counted, and once counted stays so. *)
LEMMA FaultsCount ==
  ASSUME SessionsTypeOK
  PROVE  /\ Faults \in Nat
         /\ \A kind : Fault(kind) => Faults' = Faults + 1
         /\ UNCHANGED faults => Faults' = Faults
  <1>1. faults \in FaultCount /\ faults.writes \in Nat /\ faults.others \in Nat
    BY SessionsAssumption DEF SessionsTypeOK, FaultCount
  <1>2. ASSUME NEW kind, Fault(kind) PROVE Faults' = Faults + 1
    <2>1. CASE faults' = [faults EXCEPT !.writes = @ + 1]
      <3>1. faults'.writes = faults.writes + 1 /\ faults'.others = faults.others
        BY <1>1, <2>1 DEF FaultCount
      <3> QED
        BY <1>1, <3>1 DEF Faults
    <2>2. CASE faults' = [faults EXCEPT !.others = @ + 1]
      <3>1. faults'.writes = faults.writes /\ faults'.others = faults.others + 1
        BY <1>1, <2>2 DEF FaultCount
      <3> QED
        BY <1>1, <3>1 DEF Faults
    <2> QED
      BY <1>2, <2>1, <2>2 DEF Fault
  <1> QED
    BY <1>1, <1>2 DEF Faults

(* The steps of the API leave the one tab well, as long as none fails.     *)
LEMMA CallWellKept ==
  ASSUME OneTab, SessionsTypeOK, Well, NEW f \in Refreshes, RefreshRuns(f), UNCHANGED faults
  PROVE  Well'
  <1>1. \A kind : ~Fault(kind)
    BY FaultsCount
  <1>2. refresh[f] \in CallState /\ refresh \in [Refreshes -> CallState] /\ UNCHANGED browser
    BY ServerAside DEF SessionsTypeOK, CallState
  <1>3. /\ aged = {} /\ stored \subseteq 1..issued /\ issued \in Nat
        /\ refresh[f].pc # "idle"
        /\ \A t \in Tabs : TabWell(t)
        /\ \A r \in Requests : request[r].pc = "resent" => request[r].bearer \in valid
    BY SessionsAssumption DEF Well, SessionsTypeOK, RefreshRuns, RefreshFind, RefreshIssue,
       RefreshIssueFails, RefreshConsume, RefreshConsumeFails, RefreshRevoke, RefreshUnheard
  <1>4. PICK t \in Tabs : f = tab[t].inFlight
    BY <1>3 DEF Well
  <1>5. CallWell(f) /\ (\A g \in Refreshes \ {f} : refresh[g].pc = "idle")
    BY <1>3, <1>4 DEF Well, OneTab
  <1>6. f # NoRefresh /\ tab' = tab /\ storage' = storage /\ request' = request
    BY <1>2, SessionsAssumption DEF browser
  <1>7. \A u \in Tabs : TabWell(u)'
    <2> SUFFICES TabWell(t)'
      BY DEF OneTab
    <2>1. tab[t].user /\ tab[t].pair # NoPair /\ tab[t].signIn = NoPair
      BY <1>3, <1>4, <1>6 DEF TabWell
    <2> QED
      BY <1>4, <1>6, <2>1 DEF TabWell
  <1>8. ASSUME aged' = aged, valid \subseteq valid', refresh'[f].pc # "idle" => CallWell(f)',
               \A g \in Refreshes \ {f} : refresh'[g] = refresh[g]
        PROVE  Well'
    BY <1>3, <1>4, <1>5, <1>6, <1>7, <1>8 DEF Well
  <1>9. ASSUME NEW to, RefreshGoes(f, to)
        PROVE  /\ \A g \in Refreshes \ {f} : refresh'[g] = refresh[g]
               /\ refresh'[f].pc = to /\ refresh'[f].token = refresh[f].token
               /\ refresh'[f].pair = refresh[f].pair /\ (refresh[f].heard => refresh'[f].heard)
    BY <1>2, <1>9 DEF RefreshGoes, CallState
  <1>10. CASE RefreshFind(f)
    <2>1. RefreshGoes(f, "issue") /\ refresh[f].token \in stored /\ refresh[f].heard
      BY <1>3, <1>5, <1>10 DEF RefreshFind, CallWell
    <2>2. UNCHANGED <<aged, valid, stored>>
      BY <1>10 DEF RefreshFind, server
    <2>3. CallWell(f)'
      BY <1>9, <2>1, <2>2 DEF CallWell
    <2> QED
      BY <1>8, <1>9, <2>1, <2>2, <2>3
  <1>11. CASE RefreshIssue(f)
    <2>1. /\ refresh[f].token \in stored /\ refresh[f].heard
          /\ stored' = stored \cup {issued + 1} /\ valid' = valid \cup {issued + 1}
      BY <1>5, <1>11 DEF RefreshIssue, Issue, CallWell
    <2>2. refresh' = [refresh EXCEPT ![f] = [refresh[f] EXCEPT !.pc = "consume",
                                                               !.pair = issued + 1]]
      BY <1>2, <1>11 DEF RefreshIssue, CallState
    <2>3. /\ refresh'[f].pc = "consume" /\ refresh'[f].pair = issued + 1
          /\ refresh'[f].token = refresh[f].token /\ refresh'[f].heard
          /\ \A g \in Refreshes \ {f} : refresh'[g] = refresh[g]
      BY <1>2, <2>1, <2>2 DEF CallState
    <2>4. refresh[f].token # issued + 1
      BY <1>3, <2>1
    <2>5. CallWell(f)'
      BY <2>1, <2>3, <2>4 DEF CallWell
    <2> QED
      BY <1>8, <1>11, <2>1, <2>3, <2>5 DEF RefreshIssue
  <1>12. CASE RefreshConsume(f)
    <2>1. /\ RefreshGoes(f, "granted") /\ refresh[f].heard
          /\ refresh[f].pair \in (stored \ {refresh[f].token}) \cap valid
          /\ refresh[f].pair # refresh[f].token
      BY <1>5, <1>12 DEF RefreshConsume, CallWell
    <2>2. CallWell(f)' /\ UNCHANGED <<aged, valid>>
      BY <1>9, <1>12, <2>1 DEF RefreshConsume, CallWell
    <2> QED
      BY <1>8, <1>9, <2>1, <2>2
  <1>13. ~RefreshIssueFails(f) /\ ~RefreshConsumeFails(f) /\ ~RefreshRevoke(f) /\ ~RefreshUnheard(f)
    BY <1>1, <1>5
    DEF RefreshIssueFails, RefreshConsumeFails, RefreshRevoke, RefreshUnheard, CallWell
  <1> QED
    BY <1>10, <1>11, <1>12, <1>13 DEF RefreshRuns

(* So does the clock: what was just issued is accepted, short of a fault.  *)
LEMMA TimeWellKept ==
  ASSUME OneTab, SessionsTypeOK, Well, NEW i \in Pairs, UNCHANGED faults,
         AccessExpires(i) \/ RefreshExpires(i) \/ RefreshSwept(i)
  PROVE  Well'
  <1>1. (\A kind : ~Fault(kind)) /\ aged = {}
    BY FaultsCount DEF Well
  <1>2. AccessExpires(i) /\ ~JustIssued(i)
    BY <1>1 DEF AccessExpires, RefreshExpires, RefreshSwept
  <1>3. valid' = valid \ {i} /\ UNCHANGED <<stored, aged, refresh, tab, storage, request>>
    BY <1>2 DEF AccessExpires, browser
  <1>4. \A f \in Refreshes : CallWell(f) => CallWell(f)'
    BY <1>2, <1>3 DEF JustIssued, CallWell
  <1>5. ASSUME NEW r \in Requests, request[r].pc = "resent" PROVE request[r].bearer # i
    <2>1. request[r] \in RequestState
      BY DEF SessionsTypeOK, RequestState
    <2>2. request[r].bearer = i => request[r] = [pc |-> "resent", bearer |-> i]
      BY <1>5, <2>1 DEF RequestState
    <2> QED
      BY <1>2, <2>2 DEF JustIssued
  <1>6. \A t \in Tabs : TabWell(t) => TabWell(t)'
    BY <1>3 DEF TabWell
  <1> QED
    BY <1>3, <1>4, <1>5, <1>6 DEF Well
(* What a tab does when nothing failed keeps it well, signed in or not.    *)
LEMMA TabWellKept ==
  ASSUME OneTab, SessionsTypeOK, Well, NEW t \in Tabs, TabSteps(t), UNCHANGED faults
  PROVE  Well' /\ (tab[t].user => tab'[t].user)
  <1>1. (\A kind : ~Fault(kind)) /\ aged = {} /\ TabWell(t) /\ (\A u \in Tabs : u = t)
    BY FaultsCount DEF Well, OneTab
  <1>2. tab[t] \in TabState /\ tab \in [Tabs -> TabState] /\ refresh \in [Refreshes -> CallState]
    BY DEF SessionsTypeOK, TabState, CallState
  <1>3. \A f \in Refreshes : refresh[f].pc # "idle" => CallWell(f) /\ f = tab[t].inFlight
    BY <1>1 DEF Well
  <1>4. \A r \in Requests : request[r].pc = "resent" => request[r].bearer \in valid
    BY DEF Well
  <1>5. ASSUME TabWell(t)', UNCHANGED aged, stored \subseteq stored', valid \subseteq valid',
               refresh' = refresh, request' = request, tab'[t].inFlight = tab[t].inFlight
        PROVE  Well'
    <2>1. \A f \in Refreshes : CallWell(f) => CallWell(f)'
      BY <1>5 DEF CallWell
    <2> QED
      BY <1>1, <1>3, <1>4, <1>5, <2>1 DEF Well
  <1>6. CASE SignIn(t)
    <2>1. tab[t].pair = NoPair /\ ~tab[t].user /\ tab[t].inFlight = NoRefresh /\ storage = NoPair
      BY <1>1, <1>6 DEF SignIn, TabWell
    <2>2. /\ tab'[t].signIn = issued + 1 /\ tab'[t].pair = NoPair /\ ~tab'[t].user
          /\ tab'[t].inFlight = NoRefresh
          /\ stored' = stored \cup {issued + 1} /\ valid' = valid \cup {issued + 1}
          /\ UNCHANGED <<aged, refresh, storage, request>>
      BY <1>2, <1>6, <2>1 DEF SignIn, Issue, TabState
    <2>3. TabWell(t)'
      BY <2>1, <2>2 DEF TabWell
    <2> QED
      BY <1>5, <2>1, <2>2, <2>3
  <1>7. CASE Adopt(t)
    <2>1. tab[t].signIn \in stored /\ tab[t].signIn # NoPair /\ ~tab[t].user
      BY <1>1, <1>7 DEF Adopt, TabWell
    <2>2. /\ tab'[t].signIn = NoPair /\ tab'[t].pair = tab[t].signIn /\ tab'[t].user
          /\ tab'[t].inFlight = tab[t].inFlight /\ storage' = tab[t].signIn
          /\ UNCHANGED <<aged, stored, valid, refresh, request>>
      BY <1>2, <1>7 DEF Adopt, TabState, server
    <2>3. TabWell(t)'
      BY <2>1, <2>2 DEF TabWell
    <2> QED
      BY <1>5, <2>2, <2>3
  <1>8. CASE RefreshLands(t)
    <2> DEFINE f == tab[t].inFlight
    <2>1. f \in Refreshes /\ refresh[f].pc = "granted" /\ CallWell(f)
      BY <1>2, <1>3, <1>8 DEF RefreshLands, TabState
    <2>2. tab[t].user /\ tab[t].signIn = NoPair /\ refresh[f].pair \in stored \cap valid
      BY <1>1, <1>8, <2>1 DEF RefreshLands, TabWell, CallWell
    <2>3. refresh[f].pair # NoPair
      BY <2>2, SessionsAssumption DEF SessionsTypeOK, NoPair
    <2>4. /\ tab'[t].pair = refresh[f].pair /\ tab'[t].user /\ tab'[t].signIn = NoPair
          /\ tab'[t].inFlight = NoRefresh
          /\ UNCHANGED <<aged, stored, valid>>
      BY <1>2, <1>8, <2>2 DEF RefreshLands, TabState, server
    <2>5. TabWell(t)'
      BY <2>2, <2>3, <2>4 DEF TabWell
    <2>6. \A g \in Refreshes : refresh'[g].pc = "idle"
      BY <1>2, <1>3, <1>8 DEF RefreshLands, NoCall
    <2>7. \A r \in Requests : request'[r].pc = "resent" => request'[r].bearer \in valid
      BY <1>4, <1>8, <2>2 DEF RefreshLands
    <2> QED
      BY <1>1, <2>4, <2>5, <2>6, <2>7 DEF Well
  <1>9. CASE Load(t)
    <2>1. tab[t] = SignedOut /\ storage = NoPair
      BY <1>1, <1>9 DEF Load, TabWell, SignedOut
    <2>2. tab'[t] = SignedOut /\ UNCHANGED <<aged, stored, valid, storage>>
      BY <1>2, <1>9, <2>1 DEF Load, SignedOut, server
    <2>3. \A g \in Refreshes : refresh'[g] = refresh[g] /\ refresh[g].pc = "idle"
      BY <1>2, <1>3, <1>9, <2>1, SessionsAssumption DEF Load, SignedOut
    <2>4. \A r \in Requests : request'[r].pc = "resent" => request'[r].bearer \in valid
      BY <1>4, <1>9 DEF Load, NoRequest
    <2>5. TabWell(t)'
      BY <2>1, <2>2, <1>1 DEF TabWell, SignedOut
    <2> QED
      BY <1>1, <2>1, <2>2, <2>3, <2>4, <2>5 DEF Well, SignedOut
  <1>10. ~SignInLost(t) /\ ~RefreshLost(t) /\ ~RefreshDenied(t)
    <2>1. ~RefreshDenied(t)
      BY <1>2, <1>3 DEF RefreshDenied, TabState, CallWell
    <2> QED
      BY <1>1, <2>1 DEF SignInLost, RefreshLost
  <1> QED
    BY <1>6, <1>7, <1>8, <1>9, <1>10 DEF TabSteps

(* Nor does a request that is refused sign anybody out.                    *)
LEMMA RequestWellKept ==
  ASSUME OneTab, SessionsTypeOK, Well, UNCHANGED faults, NEW t \in Tabs, NEW r \in Requests,
         Send(r) \/ Answered(r) \/ Refused(r) \/ RefusedAgain(r)
  PROVE  Well' /\ (tab[t].user => tab'[t].user)
  <1>1. aged = {} /\ TabWell(t) /\ (\A u \in Tabs : u = t) /\ Home[r] = t
    BY SessionsAssumption DEF Well, OneTab
  <1>2. tab[t] \in TabState /\ tab \in [Tabs -> TabState] /\ refresh \in [Refreshes -> CallState]
        /\ request[r] \in RequestState /\ request \in [Requests -> RequestState]
    BY DEF SessionsTypeOK, TabState, CallState, RequestState
  <1>3. \A f \in Refreshes : refresh[f].pc # "idle" => CallWell(f) /\ f = tab[t].inFlight
    BY <1>1 DEF Well
  <1>4. \A x \in Requests : request[x].pc = "resent" => request[x].bearer \in valid
    BY DEF Well
  <1>5. UNCHANGED server /\ ~RefusedAgain(r)
    BY <1>4 DEF Send, Answered, Refused, RefusedAgain
  <1>6. \A x \in Requests : request'[x].pc = "resent" =>
                              request[x].pc = "resent" /\ request'[x].bearer = request[x].bearer
    BY <1>2, <1>5 DEF Send, Answered, Refused, NoRequest, RequestState
  <1>7. ASSUME UNCHANGED <<refresh, tab, storage>> PROVE Well' /\ (tab[t].user => tab'[t].user)
    <2>1. \A f \in Refreshes : CallWell(f) => CallWell(f)'
      BY <1>5, <1>7 DEF CallWell, server
    <2>2. TabWell(t)'
      BY <1>1, <1>5, <1>7 DEF TabWell, server
    <2> QED
      BY <1>1, <1>3, <1>4, <1>5, <1>6, <1>7, <2>1, <2>2 DEF Well, server
  <1>8. ASSUME tab[t].inFlight = NoRefresh, tab[t].pair # NoPair, StartRefresh(t), UNCHANGED storage
        PROVE  Well' /\ (tab[t].user => tab'[t].user)
    <2>1. PICK f \in Refreshes :
            /\ refresh' = [refresh EXCEPT ![f] = [pc |-> "find", token |-> tab[t].pair,
                                                  pair |-> NoPair, heard |-> TRUE]]
            /\ tab' = [tab EXCEPT ![t].inFlight = f]
      BY <1>8 DEF StartRefresh
    <2>2. tab[t].user /\ tab[t].signIn = NoPair /\ tab[t].pair \in stored
      BY <1>1, <1>8 DEF TabWell
    <2>3. /\ tab'[t].user /\ tab'[t].signIn = NoPair /\ tab'[t].pair = tab[t].pair
          /\ tab'[t].inFlight = f /\ f # NoRefresh
      BY <1>2, <2>1, <2>2, SessionsAssumption DEF TabState
    <2>4. \A g \in Refreshes : refresh[g].pc = "idle"
      BY <1>3, <1>8, SessionsAssumption
    <2>5. CallWell(f)'
      BY <1>2, <1>5, <2>1, <2>2 DEF CallWell, server
    <2>6. \A g \in Refreshes \ {f} : refresh'[g].pc = "idle"
      BY <1>2, <2>1, <2>4
    <2>7. TabWell(t)'
      BY <1>8, <2>2, <2>3 DEF TabWell
    <2> QED
      BY <1>1, <1>4, <1>5, <1>6, <2>3, <2>5, <2>6, <2>7 DEF Well, server
  <1>9. ASSUME tab[t].inFlight = NoRefresh, tab[t].pair = NoPair, Expire(t), UNCHANGED refresh
        PROVE  Well' /\ (tab[t].user => tab'[t].user)
    <2>1. ~tab[t].user
      BY <1>1, <1>9 DEF TabWell
    <2>2. /\ tab'[t].pair = NoPair /\ ~tab'[t].user /\ tab'[t].signIn = tab[t].signIn
          /\ tab'[t].inFlight = NoRefresh /\ storage' = NoPair
      BY <1>2, <1>9 DEF Expire, TabState
    <2>3. \A f \in Refreshes : refresh'[f].pc = "idle"
      BY <1>3, <1>9, SessionsAssumption
    <2>4. TabWell(t)'
      BY <1>1, <1>5, <2>2 DEF TabWell, server
    <2> QED
      BY <1>1, <1>4, <1>5, <1>6, <2>1, <2>3, <2>4 DEF Well, server
  <1> QED
    BY <1>1, <1>5, <1>7, <1>8, <1>9 DEF Send, Answered, Refused
(* Until something fails, every step leaves the tab well and signed in.    *)
LEMMA WellStep ==
  ASSUME OneTab, SessionsTypeOK, WellUntilAFault, [Next]_vars
  PROVE  /\ WellUntilAFault'
         /\ \A t \in Tabs : tab[t].user /\ ~tab'[t].user => Faults' > 0
  <1>1. Faults \in Nat /\ (Faults' = Faults + 1 \/ UNCHANGED faults)
    BY FaultsCount DEF Next, vars, RefreshRuns, TabSteps, RefreshFind, RefreshIssue,
       RefreshIssueFails, RefreshConsume, RefreshConsumeFails, RefreshRevoke, RefreshUnheard,
       AccessExpires, RefreshExpires, RefreshSwept, SignIn, Adopt, SignInLost, RefreshLands,
       RefreshDenied, RefreshLost, Load, Send, Answered, Refused, RefusedAgain
  <1>2. CASE Faults' = Faults + 1
    BY <1>1, <1>2 DEF WellUntilAFault
  <1>3. CASE UNCHANGED faults
    <2>1. Faults' = Faults
      BY <1>3, FaultsCount
    <2>2. CASE Faults > 0
      BY <1>1, <2>1, <2>2 DEF WellUntilAFault
    <2>3. CASE Faults = 0
      <3>1. Well
        BY <2>3 DEF WellUntilAFault
      <3> SUFFICES Well' /\ \A t \in Tabs : tab[t].user => tab'[t].user
        BY DEF WellUntilAFault
      <3>2. CASE UNCHANGED vars
        <4>1. /\ \A f \in Refreshes : CallWell(f) => CallWell(f)'
              /\ \A t \in Tabs : TabWell(t) => TabWell(t)'
          BY <3>2 DEF CallWell, TabWell, vars, server, browser
        <4> QED
          BY <3>1, <3>2, <4>1 DEF Well, vars, server, browser
      <3>3. ASSUME NEW f \in Refreshes, RefreshRuns(f)
            PROVE  Well' /\ \A t \in Tabs : tab[t].user => tab'[t].user
        BY <1>3, <3>1, <3>3, CallWellKept, ServerAside DEF browser
      <3>4. ASSUME NEW i \in Pairs, AccessExpires(i) \/ RefreshExpires(i) \/ RefreshSwept(i)
            PROVE  Well' /\ \A t \in Tabs : tab[t].user => tab'[t].user
        BY <1>3, <3>1, <3>4, TimeWellKept, ServerAside DEF browser
      <3>5. ASSUME NEW t \in Tabs, TabSteps(t)
            PROVE  Well' /\ \A u \in Tabs : tab[u].user => tab'[u].user
        BY <1>3, <3>1, <3>5, TabWellKept DEF OneTab
      <3>6. ASSUME NEW r \in Requests, Send(r) \/ Answered(r) \/ Refused(r) \/ RefusedAgain(r)
            PROVE  Well' /\ \A t \in Tabs : tab[t].user => tab'[t].user
        <4>1. Home[r] \in Tabs
          BY SessionsAssumption
        <4> QED
          BY <1>3, <3>1, <3>6, <4>1, RequestWellKept
      <3> QED
        BY <3>2, <3>3, <3>4, <3>5, <3>6 DEF Next
    <2> QED
      BY <1>1, <2>2, <2>3
  <1> QED
    BY <1>1, <1>2, <1>3

(* A browser with one tab signs its player out only after something has    *)
(* failed, whatever requests are refused together, whenever the access     *)
(* token expires and however calls overlap: the calls share one refresh    *)
(* (auth store, refresh), and a refresh that is not disturbed is granted.  *)
THEOREM RefusalsKeepTheSession == ASSUME OneTab PROVE Spec => OnlyFaultsSignOut
  <1>1. Init => WellUntilAFault
    BY DEF Init, WellUntilAFault, Well, TabWell, SignedOut, NoCall, NoRequest
  <1>2. SessionsTypeOK /\ WellUntilAFault /\ [Next]_vars => WellUntilAFault'
    BY WellStep
  <1>3. SessionsTypeOK /\ WellUntilAFault /\ [Next]_vars =>
          [\A t \in Tabs : tab[t].user /\ ~tab'[t].user => Faults' > 0]_vars
    BY WellStep
  <1> QED
    BY <1>1, <1>2, <1>3, RotationInvariance, PTL DEF Spec, OnlyFaultsSignOut
===============================================================================
