---------------------- MODULE OperatorConsoleProperties ----------------------
(* What the console promises the operator.                                 *)
EXTENDS OperatorConsole

(* Nothing is shown before the API has done it: a matchday shown closed    *)
(* stays closed, one shown resolved was resolved (a close that was checked *)
(* before can only put it back to locked), and a result on screen is       *)
(* stored, under any order of late reads, refused writes and a watch       *)
(* (matchday.ts, "the matchday's real status arrives on a LATER read").    *)
HasReached(id, s) ==
  /\ s # "open" => status[id] # "open"
  /\ s = "resolved" => id \in wasResolved

ShowsNothingAhead ==
  /\ matchday # None => HasReached(matchday.id, matchday.status)
  /\ matches # None /\ matches.complete => matches.id \in complete

(* With no read and no write in flight, the matchday marked in the         *)
(* selector is the one on screen, with its own matches - unless a read     *)
(* failed or landed after the selection had moved, and none has since put  *)
(* the selected one on screen (matchday.ts, load and openLeague).          *)
Quiet == ~Busy /\ \A r \in Reads : read[r] = Idle
Aligned ==
  /\ matchday # None /\ matchday.id = SelectedId
  /\ matches # None /\ matches.id = SelectedId
MisledOnlyByStaleReads == Quiet /\ IsSelected /\ ~stale => Aligned

(* The watch ends, resolved or out of attempts, whatever the operator      *)
(* opens meanwhile: "instead of a spinner that never ends" (matchday.ts).  *)
SpinnerEnds == Awaiting ~> ~Awaiting

===============================================================================
