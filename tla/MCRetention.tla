----------------------------- MODULE MCRetention -----------------------------
(* Instances of Retention for TLC.                                         *)
EXTENDS Retention

CONSTANTS r1, r2, f1, f2

RankOfReq == [r \in Req |-> IF r = r1 THEN 1 ELSE 2]

(* The fingerprints are alike: that of r1 is f1.                           *)
FirstSpec ==
  /\ Init
  /\ [][Next /\ (input'[r1] # NULL => input'[r1].group = f1)]_vars
  /\ Fairness
=============================================================================
