--------------------------- MODULE BoardsProperties ---------------------------
(* What the board cache owes whoever looks at a penka.                     *)
EXTENDS Boards

Cached(p) == cache[p].kind = "board"

(* board.ts: "a pick is secret until the matchday locks".  The matchday's  *)
(* status, the pick and the clock of one board come from three moments,    *)
(* and still no cached board shows a pick before its matchday is locked.   *)
SecretUntilLock ==
  \A p \in Penkas : Cached(p) /\ cache[p].pick # NoTeam =>
    IsMatchdayLocked(status[cache[p].matchday], LockAt[cache[p].matchday], now)

(* The calendar is read first, the matchday is flipped last, when every    *)
(* penka that was asked has its marker: the board of a penka has the       *)
(* standings and the history row of every earlier matchday whose           *)
(* resolution was asked of it, and of its own when it says resolved.  Only *)
(* a penka founded after a matchday was first asked lacks that one.        *)
PastIsComplete ==
  \A p \in Penkas : Cached(p) =>
    LET board == cache[p]
        past == {n \in 1..(IF board.isResolved THEN board.matchday ELSE board.matchday - 1) :
                   p \in requested[n]}
    IN  past \subseteq board.standings /\ past \subseteq board.history

(* handler.ts: the worker's own board is rebuilt last, "so it never caches *)
(* a board that contradicts the resolution that just happened".            *)
OwnBoardIsAfter ==
  [][\A p \in Penkas : WorkerStores(p) =>
       job[p].matchday \in cache'[p].standings \cap cache'[p].history]_vars

(* However builds, drops, failed refreshes and deploys interleave, in the  *)
(* end every board of the penka shows a resolution that was stored.        *)
ResolutionReachesTheBoard ==
  \A p \in Penkas, n \in Matchdays :
    (n \in marked[p]) ~>
      [](Cached(p) => n \in cache[p].standings \cap cache[p].history)

===============================================================================
