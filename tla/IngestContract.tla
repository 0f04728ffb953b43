--------------------------- MODULE IngestContract ---------------------------
(***************************************************************************)
(* What ingest promises, with no transaction, lock or retry in sight: each *)
(* request is answered in one step, an event is stored at most once, the   *)
(* events of a group are counted, and the first event of a group alerts    *)
(* every destination.  A request may fail, before or after its effect.     *)
(***************************************************************************)
EXTENDS Naturals

CONSTANTS Req, EventKey, Bucket, Group, Input, Dest, NULL

VARIABLES
  stored,    \* the event of each key, NULL when there is none
  counted,   \* events and log records of each hour bucket
  size,      \* events of each group
  alerted,   \* pairs of a destination and a group it was alerted about
  answered   \* the answer to each request, "none" before it

vars == <<stored, counted, size, alerted, answered>>

Init ==
  /\ stored = [k \in EventKey |-> NULL]
  /\ counted = [b \in Bucket |-> 0]
  /\ size = [g \in Group |-> 0]
  /\ alerted = {}
  /\ answered = [r \in Req |-> "none"]

Answer(r, a) == answered[r] = "none" /\ answered' = [answered EXCEPT ![r] = a]

Key(x)     == <<x.project, x.event>>
BucketIn(x) == <<x.project, x.hour>>
GroupIn(x)  == <<x.project, x.fingerprint>>

Count(x) == counted' = [counted EXCEPT ![BucketIn(x)] = @ + x.count]

AcceptIssueEvent(r, x, a) ==
  /\ x.kind = "issue" /\ a \in {"issue", "error"}
  /\ stored[Key(x)] = NULL
  /\ stored' = [stored EXCEPT ![Key(x)] = x]
  /\ Count(x)
  /\ size' = [size EXCEPT ![GroupIn(x)] = @ + 1]
  /\ alerted' = IF size[GroupIn(x)] = 0
                  THEN alerted \cup {<<d, GroupIn(x)>> : d \in Dest} ELSE alerted
  /\ Answer(r, a)

AcceptPlainEvent(r, x, a) ==
  /\ x.kind = "plain" /\ a \in {"non_issue", "error"}
  /\ stored[Key(x)] = NULL
  /\ stored' = [stored EXCEPT ![Key(x)] = x]
  /\ Count(x)
  /\ Answer(r, a)
  /\ UNCHANGED <<size, alerted>>

AcceptLogs(r, x, a) ==
  /\ x.kind = "logs" /\ a \in {"logs", "error"}
  /\ Count(x)
  /\ Answer(r, a)
  /\ UNCHANGED <<stored, size, alerted>>

ReportDuplicate(r, x) ==
  /\ x.kind # "logs"
  /\ stored[Key(x)] # NULL
  /\ Answer(r, "duplicate")
  /\ UNCHANGED <<stored, counted, size, alerted>>

Refuse(r) ==
  /\ \E a \in {"quota", "error"} : Answer(r, a)
  /\ UNCHANGED <<stored, counted, size, alerted>>

Next ==
  \E r \in Req :
    \/ Refuse(r)
    \/ \E x \in Input :
         \/ ReportDuplicate(r, x)
         \/ \E a \in {"issue", "non_issue", "logs", "error"} :
              AcceptIssueEvent(r, x, a) \/ AcceptPlainEvent(r, x, a) \/ AcceptLogs(r, x, a)

Spec == Init /\ [][Next]_vars
=============================================================================
