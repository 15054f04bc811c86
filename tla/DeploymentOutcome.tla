--------------------------- MODULE DeploymentOutcome ---------------------------
(***************************************************************************)
(* What one deployment record promises to whoever watches it: it passes     *)
(* through stages, concludes once, and every stage or conclusion has been   *)
(* announced; nothing is announced after the conclusion.                    *)
(***************************************************************************)
CONSTANT Stage
VARIABLES outcome, published

Conclusion == {"succeeded", "failed", "cancelled"}
Announcement(o) == IF o = "succeeded" THEN "completed" ELSE o

Init == outcome = "none" /\ published = {"queued"}

Progress(t) ==
  /\ outcome = "none"
  /\ published' = published \cup {t}
  /\ UNCHANGED outcome

Conclude(o) ==
  /\ outcome = "none"
  /\ outcome' = o
  /\ published' = published \cup {Announcement(o)}

Next ==
  \/ \E t \in Stage : Progress(t)
  \/ \E o \in Conclusion : Conclude(o)

Spec == Init /\ [][Next]_<<outcome, published>>
===============================================================================
