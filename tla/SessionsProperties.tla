------------------------- MODULE SessionsProperties --------------------------
(***************************************************************************)
(* What rotation promises a player: one session stays one session, and is  *)
(* lost only when something broke.                                         *)
(***************************************************************************)
EXTENDS Sessions

SameSession(i, j) == root[i] = root[j]

(* A refresh call that was issued a pair and has not been answered.        *)
Holds(f, i) == refresh[f].pc \in {"consume", "revoke"} /\ refresh[f].pair = i

-----------------------------------------------------------------------------
(* Rotation keeps one way in: of the pairs of a session the API answered   *)
(* with, at most one can still be refreshed, however many calls present    *)
(* one token ("exactly one concurrent refresh can consume the old token",  *)
(* auth/routes.ts).                                                        *)
OneLivePair == \A i, j \in stored \cap granted : SameSession(i, j) => i = j

(* Rotation never loses the last one: until a token expires, a session the *)
(* API answered for has a stored refresh token that it answered with       *)
(* ("issue before revoking, so a failed write leaves the presented token   *)
(* usable", auth/routes.ts).  The one write that does not: a delete that   *)
(* was done and reported an error, after which nobody holds a stored token. *)
StaysRefreshable ==
  \A i \in granted :
    \/ \E j \in (stored \cup aged) \cap granted : SameSession(i, j)
    \/ \E k \in torn : SameSession(i, k)

(* What a reload would find is what the tab holds (auth store, persist).   *)
(* For a browser with one tab.                                             *)
StorageFollows == \A t \in Tabs : tab[t].user => storage = tab[t].pair

(* A tab signs its player out only after something failed: requests that   *)
(* are refused together do not sign out "a player whose session was        *)
(* perfectly good" (auth store, refresh).                                  *)
OnlyFaultsSignOut == [][\A t \in Tabs : tab[t].user /\ ~tab'[t].user => Faults' > 0]_vars

-----------------------------------------------------------------------------
(* Why OneLivePair and StaysRefreshable hold.                              *)

(* Every token anybody holds was answered with. *)
HeldWereGranted ==
  /\ \A t \in Tabs : {tab[t].pair, tab[t].signIn} \subseteq granted \cup {NoPair}
  /\ storage \in granted \cup {NoPair}
  /\ \A f \in Refreshes :
       /\ refresh[f].pc # "idle" => refresh[f].token \in granted
       /\ refresh[f].pc = "granted" => refresh[f].pair \in granted

(* A pair in the making is its call's own, new, and of the same session.   *)
PairsInTheMaking ==
  /\ \A f \in Refreshes : refresh[f].pc \in {"consume", "revoke"} =>
       /\ refresh[f].pair \in (1..issued) \ granted
       /\ SameSession(refresh[f].pair, refresh[f].token)
       /\ refresh[f].pc = "consume" => refresh[f].pair \in stored \cup aged
  /\ \A f, g \in Refreshes, i \in Pairs : Holds(f, i) /\ Holds(g, i) => f = g

RootsIssued == \A i \in 1..issued : root[i] \in 1..issued

(* The inductive invariant. *)
RotationSafe == RootsIssued /\ HeldWereGranted /\ PairsInTheMaking /\ OneLivePair
                /\ StaysRefreshable
=============================================================================
