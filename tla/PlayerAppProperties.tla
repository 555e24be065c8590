------------------------- MODULE PlayerAppProperties -------------------------
(* What one tab of the player app promises the player.                     *)
EXTENDS PlayerApp

InFlight == \E f \in Polls : ~Idle(f)

(* "No frame ever shows another penka's standings under this one's name":  *)
(* the board and the fixtures on screen are the route's penka's, however   *)
(* late the answers to earlier penkas land (stores/board.ts, App.vue).     *)
OwnBoard ==
  \A shown \in {board.board, board.matchday} : shown # None => shown.penka = route

(* A pick goes to the penka whose card was tapped, whatever the player has *)
(* opened between the tap and the confirmation (PickView's draft, App's    *)
(* select and the personal store agree on the penka).                      *)
SentWhereTapped == submit.step = "sent" => submit.penka = submit.tapped

(* The poll loop runs exactly while somebody is watching (use-poll.ts).    *)
(* Stopping, starting, hiding and overlapping fetches never leave a board  *)
(* in a visible tab with no timer and nothing in flight; and a hidden tab  *)
(* or a screen without a penka has no timer, even when a fetch begun       *)
(* before settles after.                                                   *)
PolledWhileWatched ==
  /\ loop.running /\ ~hidden /\ board.board # None => loop.armed \/ InFlight
  /\ loop.armed => loop.running /\ ~hidden

(* A player who stays on a penka whose board he has seen ends up with the  *)
(* API's last board, fixtures and, signed in, his own row with his pick:   *)
(* answers landing out of order and failed requests are made up for.       *)
Staying(p, u) == route = p /\ ~hidden /\ board.board # None /\ user = u /\ entry.penka = p
UpToDate(p, u) ==
  /\ board.board = [penka |-> p, version |-> served[p]]
  /\ board.matchday = board.board
  /\ entry.row = Row(p, u, <<p, u>> \in picks)
StayingCatchesUp ==
  \A p \in Penkas, u \in Users : <>[]Staying(p, u) => <>[]UpToDate(p, u)
===============================================================================
