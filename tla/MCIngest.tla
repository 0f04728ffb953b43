------------------------------ MODULE MCIngest ------------------------------
(* Instances of Ingest for TLC.                                            *)
EXTENDS Ingest, TLC

CONSTANTS r1, r2, r3, p1, p2, e1, e2, e3, f1, f2, h1, h2, d1

Event(kind, p, e, f, h) ==
  [kind |-> kind, project |-> p, event |-> e, fingerprint |-> f, hour |-> h, count |-> 1]

Logs(p, h, n) ==
  [kind |-> "logs", project |-> p, event |-> e1, fingerprint |-> f1, hour |-> h, count |-> n]

SameDay == h1 :> 0 @@ h2 :> 0

(* Three events of one group around the change of an hour, one of them     *)
(* sent again after it, another once more with a different group.          *)
RaceInput == {Event("issue", p1, e1, f1, h1), Event("issue", p1, e1, f1, h2),
              Event("issue", p1, e2, f1, h2), Event("issue", p1, e3, f1, h1),
              Event("issue", p1, e3, f2, h1)}

(* Events and a batch of two log records for two projects on one day.      *)
QuotaInput == {Event("issue", p1, e1, f1, h1), Event("issue", p1, e2, f1, h2),
               Event("plain", p2, e1, f1, h1), Logs(p1, h1, 2), Logs(p2, h2, 1)}

Symmetry == Permutations(Req)
=============================================================================
