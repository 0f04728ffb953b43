--------------------------- MODULE IntentLifecycle ---------------------------
(***************************************************************************)
(* What the outbox promises about each notification, whatever processes    *)
(* serve it: it is queued, somebody takes it, and it is then either given  *)
(* back, or acknowledged by the provider and finished, or lost.  Nothing   *)
(* leads from an acknowledgement, or from a loss, back to the queue: the   *)
(* outbox delivers an acknowledged message at most once, and may lose one. *)
(***************************************************************************)
CONSTANT Intent

VARIABLE phase

Phase == {"none", "queued", "taken", "acknowledged", "done", "lost"}

TypeOK == phase \in [Intent -> Phase]

Init == phase = [i \in Intent |-> "none"]

(* The intents of S go from one of the phases in From to the phase to.     *)
Move(S, From, to) ==
  /\ \A i \in S : phase[i] \in From
  /\ phase' = [i \in Intent |-> IF i \in S THEN to ELSE phase[i]]

Submit(S)      == Move(S, {"none"}, "queued")
Take(S)        == Move(S, {"queued"}, "taken")
GiveBack(i)    == Move({i}, {"taken"}, "queued")
Acknowledge(i) == Move({i}, {"taken"}, "acknowledged")
Finish(i)      == Move({i}, {"acknowledged"}, "done")
Lose(S)        == Move(S, {"taken", "acknowledged"}, "lost")

(* A claim whose result is dropped takes and loses in one step.            *)
TakeAndLose(S) == Move(S, {"queued"}, "lost")

Next ==
  \/ \E S \in SUBSET Intent : Submit(S) \/ Take(S) \/ Lose(S) \/ TakeAndLose(S)
  \/ \E i \in Intent : GiveBack(i) \/ Acknowledge(i) \/ Finish(i)

Spec == Init /\ [][Next]_phase
=============================================================================
