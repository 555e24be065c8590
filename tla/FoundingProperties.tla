-------------------------- MODULE FoundingProperties --------------------------
(* What creating a penka promises. *)
EXTENDS Founding

Complete == \A n \in Matchdays : lockFrom[n] # Absent /\ kickoffFrom[n] # Absent

(* A 201 means a penka that can be played: it is stored, its creator is in *)
(* it, and its league has every matchday and every match, whoever inserted *)
(* them.  The fast path looks for one match (materialize.ts), so there is  *)
(* one exception: another creation is, or stopped, half way through them.  *)
CreatedIsPlayable ==
  \A c \in Calls : call[c].step = "created" =>
    /\ c \in MyPenkas(c)
    /\ Complete \/ cutShort # {} \/ \E d \in Calls : HalfWay(d)

(* rollback.ts: a penka with no players "still occupies one of the 10,000  *)
(* join codes".  A creation that was refused left none behind, except when *)
(* its rollback failed or the answer to its insert was lost.               *)
RefusedLeavesNothing ==
  \A c \in Calls : call[c].step = "refused" => ~Stored(c) \/ c \in leftBehind

(* materialize.ts: a calendar cut between its two collections is finished  *)
(* by the next creator, instead of leaving "the league stranded forever";  *)
(* one that was cut inside the matches need not be.                        *)
NextCreatorRepairs ==
  \A c \in Calls :
    (call[c].step = "both" /\ call[c].calendar = "find") ~>
      (call[c].calendar = "failed" \/ call[c].step = "dead" \/ Complete \/ cutShort # {})

===============================================================================
