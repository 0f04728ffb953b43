------------------------------ MODULE Retention ------------------------------
(***************************************************************************)
(* The purge of expired rows against ingest, import and comments: READ     *)
(* COMMITTED transactions of one project, a step or two per statement.     *)
(*                                                                         *)
(* A purge is one transaction of several deletes, each of which chooses    *)
(* its rows anew.  A delete that finds a chosen row locked waits for it    *)
(* and then deletes it by its identifier, whatever was written meanwhile.  *)
(* Rows deleted by a purge in flight stay visible to the others, locked,   *)
(* until it commits.  A delete of a row that is still referenced fails and *)
(* undoes the whole purge.                                                 *)
(*                                                                         *)
(* Payloads, user reports, logs and hourly counters have no row that       *)
(* refers to them and are left out.  The unit of time is a day.            *)
(***************************************************************************)
EXTENDS Naturals, FiniteSets

CONSTANTS
  Req,          \* ingest requests, their events and the issues they create
  Fingerprint,
  Dest,         \* destinations with an enabled issue-opened rule
  Operator,     \* operators commenting on an issue, or changing its status
  Purger,       \* worker processes running the retention task
  EventAge,     \* event_retention_days
  DeliveryAge,  \* delivery_retention_days
  Batch,        \* RETENTION_BATCH_SIZE
  Rank,         \* the order of issues last seen at the same time
  MaxFaults,    \* bound of the model: purges that end in the middle
  MaxTime,      \* bound of the model: last value of the clock
  NULL

Input    == [group : Fingerprint, occurred : Nat, received : Nat, imported : BOOLEAN]
EventRow == [group : Fingerprint, occurred : Nat, received : Nat]
IssueRow == [group : Fingerprint, opened : Nat, seen : Nat, last : Req]

(* NormalizePolicy: deliveries are not kept longer than events.            *)
ASSUME RetentionAssumption ==
  /\ IsFiniteSet(Req) /\ IsFiniteSet(Dest)
  /\ Req \cap Operator = {} /\ Req \cap Purger = {} /\ Operator \cap Purger = {}
  /\ EventAge \in Nat \ {0} /\ DeliveryAge \in 1..EventAge
  /\ Batch \in Nat \ {0}
  /\ Rank \in [Req -> Nat]
  /\ \A i, j \in Req : Rank[i] = Rank[j] => i = j
  /\ MaxFaults \in Nat /\ MaxTime \in Nat
  /\ NULL \notin Req /\ NULL \notin Input /\ NULL \notin EventRow /\ NULL \notin IssueRow

VARIABLES
  \* committed rows
  event,      \* events
  issue,      \* issues
  named,      \* issue_fingerprints.issue_id
  intents,    \* notification_intents: pairs of a destination and an issue
  notes,      \* issues with comments or status transitions
  imports,    \* issues named by an import_records row
  \* transactions
  pc,
  at,         \* the time a purge started with
  input,      \* the event of each request, and whether it is imported
  target,     \* the issue a request or an operator acts on
  chosen,     \* rows the current delete of a purge has chosen
  unsent,     \* what a purge has deleted and not committed: intents,
  unnoted,    \* all notes of these issues,
  unnamed,    \* fingerprints, by their issue,
  dead,       \* issues
  erased,     \* and events
  \* world
  now,
  faults,     \* purges that ended in the middle
  disturbed,  \* purges during which another transaction committed
  crossed     \* whether an issue was changed while a purge had chosen it

rowVars    == <<event, issue, named, intents, notes, imports>>
ingestVars == <<input, target>>
purgeVars  == <<chosen, unsent, unnoted, unnamed, dead, erased>>
worldVars  == <<now, faults, disturbed, crossed>>
vars       == <<rowVars, pc, at, ingestVars, purgeVars, worldVars>>

Actor == Req \cup Operator \cup Purger

PC == {"idle", "update", "create", "refind", "commit", "done", "note",
       "deliveries", "notes", "fingerprints", "issues", "events", "purged"}

TypeOK ==
  /\ event \in [Req -> EventRow \cup {NULL}]
  /\ issue \in [Req -> IssueRow \cup {NULL}]
  /\ named \in [Fingerprint -> Req \cup {NULL}]
  /\ intents \subseteq Dest \X Req
  /\ notes \subseteq Req /\ imports \subseteq Req
  /\ pc \in [Actor -> PC]
  /\ at \in [Purger -> Nat]
  /\ input \in [Req -> Input \cup {NULL}]
  /\ target \in [Req \cup Operator -> Req \cup {NULL}]
  /\ \A a \in Req \cup Operator : pc[a] \in {"update", "commit", "note"} => target[a] # NULL
  /\ chosen \in [Purger -> SUBSET Req]
  /\ unsent \in [Purger -> SUBSET (Dest \X Req)]
  /\ unnoted \in [Purger -> SUBSET Req]
  /\ unnamed \in [Purger -> SUBSET Req]
  /\ dead \in [Purger -> SUBSET Req]
  /\ erased \in [Purger -> SUBSET Req]
  /\ now \in Nat /\ faults \in Nat
  /\ disturbed \subseteq Purger
  /\ crossed \in BOOLEAN

Init ==
  /\ event = [e \in Req |-> NULL]
  /\ issue = [i \in Req |-> NULL]
  /\ named = [g \in Fingerprint |-> NULL]
  /\ intents = {} /\ notes = {} /\ imports = {}
  /\ pc = [a \in Actor |-> "idle"]
  /\ at = [w \in Purger |-> 0]
  /\ input = [r \in Req |-> NULL]
  /\ target = [a \in Req \cup Operator |-> NULL]
  /\ chosen = [w \in Purger |-> {}]
  /\ unsent = [w \in Purger |-> {}]
  /\ unnoted = [w \in Purger |-> {}]
  /\ unnamed = [w \in Purger |-> {}]
  /\ dead = [w \in Purger |-> {}]
  /\ erased = [w \in Purger |-> {}]
  /\ now = 0 /\ faults = 0
  /\ disturbed = {}
  /\ crossed = FALSE

-----------------------------------------------------------------------------
Goto(a, to) == pc' = [pc EXCEPT ![a] = to]

Later(a, b) == IF a >= b THEN a ELSE b

(* The row of issue i is not locked by another transaction: an update, a   *)
(* comment, or a delete.                                                   *)
RowFree(i, a) ==
  /\ \A b \in (Req \cup Operator) \ {a} : pc[b] \in {"commit", "note"} => target[b] # i
  /\ \A w \in Purger \ {a} : i \notin dead[w]

(* A request or an operator has finished.                                  *)
Leave(a) ==
  /\ Goto(a, "done")
  /\ target' = [target EXCEPT ![a] = NULL]
  /\ input' = [r \in Req |-> IF r = a THEN NULL ELSE input[r]]

(* Every purge in flight is told that rows have changed.                   *)
Disturb == disturbed' = disturbed \cup {w \in Purger : pc[w] # "idle"}

-----------------------------------------------------------------------------
(* Ingest, as far as it touches what a purge deletes.                      *)

(* The event is appended and its issue looked up; an imported event was    *)
(* received when it occurred.                                              *)
findIssueByFingerprint(r) ==
  /\ pc[r] = "idle"
  /\ \E g \in Fingerprint, t \in 0..now, imported \in BOOLEAN :
       /\ input' = [input EXCEPT ![r] =
            [group |-> g, occurred |-> t, received |-> IF imported THEN t ELSE now,
             imported |-> imported]]
       /\ target' = [target EXCEPT ![r] = named[g]]
       /\ Goto(r, IF named[g] = NULL THEN "create" ELSE "update")
  /\ UNCHANGED <<rowVars, at, purgeVars, worldVars>>

(* Fails, and with it the request, when the issue is gone by now.          *)
updateIssue(r) ==
  /\ pc[r] = "update"
  /\ RowFree(target[r], r)
  /\ IF issue[target[r]] = NULL
       THEN Leave(r)
       ELSE Goto(r, "commit") /\ UNCHANGED ingestVars
  /\ UNCHANGED <<rowVars, at, purgeVars, worldVars>>

(* Nobody else is inserting or deleting the fingerprint g.                 *)
KeyFree(g, r) ==
  /\ \A s \in Req \ {r} : pc[s] = "commit" /\ target[s] = s => input[s].group # g
  /\ \A w \in Purger : named[g] \notin unnamed[w]

(* Slip: the fingerprint is not looked at again.                           *)
createIssueAnyway(r) ==
  /\ pc[r] = "create"
  /\ target' = [target EXCEPT ![r] = r]
  /\ Goto(r, "commit")
  /\ UNCHANGED <<rowVars, at, input, purgeVars, worldVars>>

(* The issue is inserted, then its fingerprint; a request that creates its *)
(* issue has itself as the target.                                         *)
createIssue(r) ==
  /\ pc[r] = "create"
  /\ KeyFree(input[r].group, r)
  /\ IF named[input[r].group] = NULL
       THEN target' = [target EXCEPT ![r] = r] /\ Goto(r, "commit")
       ELSE Goto(r, "refind") /\ UNCHANGED target
  /\ UNCHANGED <<rowVars, at, input, purgeVars, worldVars>>

(* The fingerprint that won may be gone again, which fails the request.    *)
findExistingIssue(r) ==
  /\ pc[r] = "refind"
  /\ IF named[input[r].group] = NULL
       THEN Leave(r)
       ELSE /\ target' = [target EXCEPT ![r] = named[input[r].group]]
            /\ Goto(r, "update")
            /\ UNCHANGED input
  /\ UNCHANGED <<rowVars, at, purgeVars, worldVars>>

Creates(r) == target[r] = r

NewEvent(r) ==
  [group |-> input[r].group, occurred |-> input[r].occurred, received |-> input[r].received]

NewIssue(r) ==
  [group |-> input[r].group, opened |-> now, seen |-> input[r].occurred, last |-> r]

Refreshed(i, r) ==
  [issue[i] EXCEPT !.seen = Later(@, input[r].occurred), !.last = r]

Commit(r) ==
  /\ pc[r] = "commit"
  /\ event' = [event EXCEPT ![r] = NewEvent(r)]
  /\ issue' = [issue EXCEPT ![target[r]] =
       IF Creates(r) THEN NewIssue(r) ELSE Refreshed(target[r], r)]
  /\ named' = IF Creates(r) THEN [named EXCEPT ![input[r].group] = r] ELSE named
  /\ intents' = IF Creates(r) /\ ~input[r].imported
                THEN intents \cup (Dest \X {r}) ELSE intents
  /\ imports' = IF input[r].imported THEN imports \cup {target[r]} ELSE imports
  /\ crossed' = (crossed \/ \E w \in Purger : target[r] \in chosen[w] \cup unnamed[w])
  /\ Disturb
  /\ Leave(r)
  /\ UNCHANGED <<notes, at, purgeVars, now, faults>>

(* A request fails at any statement and is undone.                         *)
Abort(r) ==
  /\ pc[r] \notin {"idle", "done"}
  /\ Leave(r)
  /\ UNCHANGED <<rowVars, at, purgeVars, worldVars>>

-----------------------------------------------------------------------------
(* Comments and status transitions: the issue is locked, then a row that   *)
(* refers to it is inserted.                                               *)

lockIssueForComment(c) ==
  /\ pc[c] = "idle"
  /\ \E i \in Req :
       /\ issue[i] # NULL /\ RowFree(i, c)
       /\ target' = [target EXCEPT ![c] = i]
  /\ Goto(c, "note")
  /\ UNCHANGED <<rowVars, at, input, purgeVars, worldVars>>

AddIssueComment(c) ==
  /\ pc[c] = "note"
  /\ notes' = notes \cup {target[c]}
  /\ unnoted' = [w \in Purger |-> unnoted[w] \ {target[c]}]
  /\ Disturb
  /\ Leave(c)
  /\ UNCHANGED <<event, issue, named, intents, imports, at, chosen, unsent, unnamed, dead,
                 erased, now, faults, crossed>>

AddCommentFails(c) ==
  /\ pc[c] = "note"
  /\ Leave(c)
  /\ UNCHANGED <<rowVars, at, purgeVars, worldVars>>

-----------------------------------------------------------------------------
(* The purge.                                                              *)

RetentionTask(w) ==
  /\ pc[w] = "idle"
  /\ at' = [at EXCEPT ![w] = now]
  /\ Goto(w, "deliveries")
  /\ UNCHANGED <<rowVars, ingestVars, purgeVars, worldVars>>

Past(time, age, w) == time + age < at[w]

(* S is what ORDER BY time LIMIT takes of C.                               *)
IsOldest(S, C, time) ==
  /\ S \subseteq C
  /\ Cardinality(S) <= Batch
  /\ S # C => Cardinality(S) = Batch
  /\ \A x \in S, y \in C \ S : time[x] <= time[y]

deleteExpiredDeliveries(w) ==
  LET expired == {n \in intents : Past(issue[n[2]].opened, DeliveryAge, w)}
  IN /\ pc[w] = "deliveries"
     /\ \E S \in SUBSET expired :
          /\ IsOldest(S, expired, [n \in expired |-> issue[n[2]].opened])
          /\ \A v \in Purger \ {w} : S \cap unsent[v] = {}
          /\ unsent' = [unsent EXCEPT ![w] = S]
     /\ Goto(w, "notes")
     /\ UNCHANGED <<rowVars, at, ingestVars, chosen, unnoted, unnamed, dead, erased, worldVars>>

(* Slip: the age of an issue is counted from its creation.                 *)
DueByOpening(i, w) == issue[i] # NULL /\ Past(issue[i].opened, EventAge, w)

Due(i, w) == issue[i] # NULL /\ Past(issue[i].seen, EventAge, w)

Before(i, j) ==
  \/ issue[i].seen < issue[j].seen
  \/ issue[i].seen = issue[j].seen /\ Rank[i] < Rank[j]

DueIssues(w) == {i \in Req : Due(i, w)}

(* The doomed issues, as each of the statements on issues finds them.      *)
IsDoomed(S, w) ==
  /\ S \subseteq DueIssues(w)
  /\ Cardinality(S) <= Batch
  /\ S # DueIssues(w) => Cardinality(S) = Batch
  /\ \A i \in S, j \in DueIssues(w) \ S : Before(i, j)

After == [notes |-> "fingerprints", fingerprints |-> "issues", issues |-> "events"]

(* A statement chooses its rows; without any it has nothing to do.         *)
ChooseDoomed(w) ==
  /\ pc[w] \in DOMAIN After /\ chosen[w] = {}
  /\ \E S \in SUBSET DueIssues(w) :
       /\ IsDoomed(S, w)
       /\ chosen' = [chosen EXCEPT ![w] = S]
       /\ Goto(w, IF S = {} THEN After[pc[w]] ELSE pc[w])
  /\ UNCHANGED <<rowVars, at, ingestVars, unsent, unnoted, unnamed, dead, erased, worldVars>>

NextStatement(w) ==
  /\ chosen' = [chosen EXCEPT ![w] = {}]
  /\ Goto(w, After[pc[w]])

deleteIssueNotes(w) ==
  /\ pc[w] = "notes" /\ chosen[w] # {}
  /\ \A v \in Purger \ {w} : chosen[w] \cap unnoted[v] = {}
  /\ unnoted' = [unnoted EXCEPT ![w] = chosen[w] \cap notes]
  /\ NextStatement(w)
  /\ UNCHANGED <<rowVars, at, ingestVars, unsent, unnamed, dead, erased, worldVars>>

Named(i) == \E g \in Fingerprint : named[g] = i

(* Slip: the statement is missing.                                         *)
keepIssueFingerprints(w) ==
  /\ pc[w] = "fingerprints" /\ chosen[w] # {}
  /\ NextStatement(w)
  /\ UNCHANGED <<rowVars, at, ingestVars, unsent, unnoted, unnamed, dead, erased, worldVars>>

deleteIssueFingerprints(w) ==
  /\ pc[w] = "fingerprints" /\ chosen[w] # {}
  /\ \A v \in Purger \ {w} : chosen[w] \cap unnamed[v] = {}
  /\ unnamed' = [unnamed EXCEPT ![w] = {i \in chosen[w] : Named(i)}]
  /\ NextStatement(w)
  /\ UNCHANGED <<rowVars, at, ingestVars, unsent, unnoted, dead, erased, worldVars>>

(* The end of a purge, in success or failure.                              *)
Reset(w) ==
  /\ chosen' = [chosen EXCEPT ![w] = {}]
  /\ unsent' = [unsent EXCEPT ![w] = {}]
  /\ unnoted' = [unnoted EXCEPT ![w] = {}]
  /\ unnamed' = [unnamed EXCEPT ![w] = {}]
  /\ dead' = [dead EXCEPT ![w] = {}]
  /\ erased' = [erased EXCEPT ![w] = {}]
  /\ at' = [at EXCEPT ![w] = 0]
  /\ Goto(w, "idle")
  /\ UNCHANGED <<ingestVars, now>>

(* Intents of i that the purge leaves behind.                              *)
Unsettled(i, w) == {d \in Dest : <<d, i>> \in intents \ unsent[w]}

(* Slip: imports do not keep an issue (on delete set null).                *)
UnreferencedByOthers(i, w) ==
  /\ Unsettled(i, w) = {}
  /\ i \in notes => i \in unnoted[w]
  /\ Named(i) => i \in unnamed[w]

(* The foreign keys on issues that do not cascade: notification_intents,   *)
(* issue_comments, issue_status_transitions, issue_fingerprints and        *)
(* import_records.                                                         *)
Unreferenced(i, w) ==
  /\ Unsettled(i, w) = {}
  /\ i \in notes => i \in unnoted[w]
  /\ Named(i) => i \in unnamed[w]
  /\ i \notin imports

(* The rows a delete of issues has to wait for: those it deletes, and      *)
(* those that refer to them and are being deleted by another purge.        *)
Settled(w) ==
  /\ \A i \in chosen[w] : RowFree(i, w)
  /\ \A v \in Purger \ {w} :
       chosen[w] \cap (unnoted[v] \cup unnamed[v] \cup {n[2] : n \in unsent[v]}) = {}

Existing(w) == {i \in chosen[w] : issue[i] # NULL}

deleteExpiredIssues(w) ==
  /\ pc[w] = "issues" /\ chosen[w] # {}
  /\ Settled(w)
  /\ \A i \in Existing(w) : Unreferenced(i, w)
  /\ dead' = [dead EXCEPT ![w] = Existing(w)]
  /\ NextStatement(w)
  /\ UNCHANGED <<rowVars, at, ingestVars, unsent, unnoted, unnamed, erased, worldVars>>

(* A foreign key is violated: the purge is undone and its worker fails.    *)
IssuesReferenced(w) ==
  /\ pc[w] = "issues" /\ chosen[w] # {}
  /\ Settled(w)
  /\ \E i \in Existing(w) : ~Unreferenced(i, w)

(* Slip: the latest event of an issue is not spared.                       *)
SpareNone(e, w) == TRUE

(* not exists (select 1 from issues i where i.last_event_id = e.id)        *)
Spare(e, w) == \A i \in Req \ dead[w] : issue[i] # NULL => issue[i].last # e

Expired(w) ==
  {e \in Req : event[e] # NULL /\ Past(event[e].received, EventAge, w) /\ Spare(e, w)}

(* The foreign keys on events: issues.last_event_id, and the intents of    *)
(* the issue the event has opened.                                         *)
EventUnreferenced(e, w) ==
  /\ \A i \in Req \ dead[w] : issue[i] # NULL => issue[i].last # e
  /\ Unsettled(e, w) = {}

Oldest(S, w) == IsOldest(S, Expired(w), [e \in Expired(w) |-> event[e].received])

deleteExpiredEvents(w) ==
  /\ pc[w] = "events"
  /\ \E S \in SUBSET Expired(w) :
       /\ Oldest(S, w)
       /\ \A v \in Purger \ {w} : S \cap (erased[v] \cup {n[2] : n \in unsent[v]}) = {}
       /\ \A e \in S : EventUnreferenced(e, w)
       /\ erased' = [erased EXCEPT ![w] = S]
  /\ Goto(w, "purged")
  /\ UNCHANGED <<rowVars, at, ingestVars, chosen, unsent, unnoted, unnamed, dead, worldVars>>

EventsReferenced(w) ==
  /\ pc[w] = "events"
  /\ \E S \in SUBSET Expired(w) :
       Oldest(S, w) /\ \E e \in S : ~EventUnreferenced(e, w)

FailPurge(w) ==
  /\ IssuesReferenced(w) \/ EventsReferenced(w)
  /\ Reset(w)
  /\ disturbed' = disturbed \ {w}
  /\ UNCHANGED <<rowVars, faults, crossed>>

PurgeExpiredProjectData(w) ==
  /\ pc[w] = "purged"
  /\ event' = [e \in Req |-> IF e \in erased[w] THEN NULL ELSE event[e]]
  /\ issue' = [i \in Req |-> IF i \in dead[w] THEN NULL ELSE issue[i]]
  /\ named' = [g \in Fingerprint |-> IF named[g] \in unnamed[w] THEN NULL ELSE named[g]]
  /\ intents' = intents \ unsent[w]
  /\ notes' = notes \ unnoted[w]
  /\ Reset(w)
  /\ disturbed' = (disturbed \ {w}) \cup {v \in Purger \ {w} : pc[v] # "idle"}
  /\ crossed' = (crossed \/ \E v \in Purger \ {w} : dead[w] \cap chosen[v] # {})
  /\ UNCHANGED <<imports, faults>>

(* The process ends, or a statement fails for another reason.              *)
StopPurge(w) ==
  /\ faults < MaxFaults
  /\ pc[w] # "idle"
  /\ Reset(w)
  /\ disturbed' = disturbed \ {w}
  /\ faults' = faults + 1
  /\ UNCHANGED <<rowVars, crossed>>

Tick ==
  /\ now < MaxTime
  /\ now' = now + 1
  /\ UNCHANGED <<rowVars, pc, at, ingestVars, purgeVars, faults, disturbed, crossed>>

-----------------------------------------------------------------------------
IngestStep(r) ==
  updateIssue(r) \/ createIssue(r) \/ findExistingIssue(r) \/ Commit(r)

PurgeStep(w) ==
  \/ RetentionTask(w) \/ deleteExpiredDeliveries(w) \/ ChooseDoomed(w)
  \/ deleteIssueNotes(w) \/ deleteIssueFingerprints(w) \/ deleteExpiredIssues(w)
  \/ deleteExpiredEvents(w) \/ FailPurge(w) \/ PurgeExpiredProjectData(w)

Next ==
  \/ \E r \in Req : findIssueByFingerprint(r) \/ IngestStep(r) \/ Abort(r)
  \/ \E c \in Operator : lockIssueForComment(c) \/ AddIssueComment(c) \/ AddCommentFails(c)
  \/ \E w \in Purger : PurgeStep(w) \/ StopPurge(w)
  \/ Tick

Spec == Init /\ [][Next]_vars

(* Statements return, the worker loop is scheduled and restarted.          *)
Fairness ==
  /\ \A r \in Req : WF_vars(IngestStep(r))
  /\ \A c \in Operator : WF_vars(AddIssueComment(c))
  /\ \A w \in Purger : WF_vars(PurgeStep(w))
  /\ WF_vars(Tick)

FairSpec == Spec /\ Fairness

-----------------------------------------------------------------------------
(* Properties.                                                             *)

(* Every issue is named by its fingerprint, although the delete of the     *)
(* fingerprints and the delete of the issues choose their rows separately  *)
(* (deleteStaleIssueReferences, deleteExpiredIssues), as long as no other  *)
(* transaction changes an issue that a purge has chosen.                   *)
IssuesNamed ==
  ~crossed => \A i \in Req : issue[i] # NULL => named[issue[i].group] = i

(* An event younger than the retention is shown by an issue: no purge      *)
(* takes the issue away from a young event, under the same condition.      *)
YoungEventsShown ==
  ~crossed => \A e \in Req :
    event[e] # NULL /\ event[e].occurred + EventAge >= now => named[event[e].group] # NULL

(* A purge whose project is at rest fails only for an imported issue, or   *)
(* for intents that are too young or too many for one batch: the order of  *)
(* its deletes satisfies every other foreign key.                          *)
LeftIntent(i, w) ==
  \E d \in Unsettled(i, w) :
    ~Past(issue[i].opened, DeliveryAge, w) \/ Cardinality(unsent[w]) = Batch

FailuresExplained ==
  \A w \in Purger \ disturbed :
    /\ IssuesReferenced(w) => \E i \in chosen[w] : i \in imports \/ LeftIntent(i, w)
    /\ EventsReferenced(w) => \E e \in Req : LeftIntent(e, w)

(* An imported issue is never purged, and a purge of a project at rest     *)
(* that finds one due never gets through: import_records refer to issues   *)
(* for good, and one violated key undoes all deletes.                      *)
StuckOnImport ==
  [][\A w \in Purger \ disturbed :
       PurgeExpiredProjectData(w) =>
         \A S \in SUBSET DueIssues(w) : IsDoomed(S, w) => S \cap imports = {}]_vars

(* An issue that is due is purged in the end, unless an import or an       *)
(* intent that is left stands in the way of a whole batch.                 *)
DueNow(i) == issue[i] # NULL /\ issue[i].seen + EventAge < now

Blocked ==
  \/ \E i \in imports : DueNow(i)
  \/ \E n \in intents : DueNow(n[2]) /\ (issue[n[2]].opened + DeliveryAge >= now
                                          \/ Cardinality(intents) > Batch)

DueIssuesPurged == \A i \in Req : DueNow(i) /\ now = MaxTime ~> ~DueNow(i) \/ Blocked

=============================================================================
