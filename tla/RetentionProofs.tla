-------------------------- MODULE RetentionProofs --------------------------
(***************************************************************************)
(* Proofs about the purge, for any requests, fingerprints, destinations,   *)
(* operators and workers, any ages and batch size, with faults.            *)
(***************************************************************************)
EXTENDS Retention, FiniteSetTheorems, TLAPS

-----------------------------------------------------------------------------
(* The inductive invariant.                                                *)

Active == {"update", "create", "refind", "commit"}

Locking == {"commit", "note"}

(* What a request, an operator and a purge hold at each step: its memory   *)
(* fits the row it is about to write ...                                   *)
RequestFits(r) ==
  /\ pc[r] \in Active \cup {"idle", "done"}
  /\ pc[r] \in Active => input[r] \in Input /\ input[r].occurred <= now
  /\ pc[r] \in {"update", "commit"} => target[r] \in Req
  /\ pc[r] = "update" \/ (pc[r] = "commit" /\ ~Creates(r)) =>
       /\ pc[target[r]] = "done"
       /\ issue[target[r]] # NULL => issue[target[r]].group = input[r].group
  /\ pc[r] = "commit" /\ ~Creates(r) => issue[target[r]] # NULL
  /\ event[r] # NULL \/ issue[r] # NULL => pc[r] = "done"

OperatorFits(c) ==
  /\ pc[c] \in {"idle", "note", "done"}
  /\ pc[c] = "note" => target[c] \in Req /\ issue[target[c]] # NULL

(* ... and what it has deleted is what its statements so far delete.       *)
PurgerFits(w) ==
  /\ pc[w] \in {"idle", "deliveries", "notes", "fingerprints", "issues", "events", "purged"}
  /\ at[w] <= now
  /\ pc[w] \notin DOMAIN After => chosen[w] = {}
  /\ pc[w] \in {"idle", "deliveries", "notes", "fingerprints"} => unnamed[w] = {}
  /\ pc[w] \notin {"events", "purged"} => dead[w] = {}

Fits ==
  /\ \A r \in Req : RequestFits(r)
  /\ \A c \in Operator : OperatorFits(c)
  /\ \A w \in Purger : PurgerFits(w)

(* A fingerprint names an issue of its group.                              *)
Resolved == \A g \in Fingerprint :
  named[g] # NULL => issue[named[g]] # NULL /\ issue[named[g]].group = g

(* An issue and a fingerprint have one writer.                             *)
Locked ==
  /\ \A a, b \in Req \cup Operator :
       a # b /\ pc[a] \in Locking /\ pc[b] \in Locking => target[a] # target[b]
  /\ \A a \in Req \cup Operator, w \in Purger : pc[a] \in Locking => target[a] \notin dead[w]
  /\ \A r \in Req : pc[r] = "commit" /\ Creates(r) =>
       /\ named[input[r].group] = NULL
       /\ \A s \in Req \ {r} : pc[s] = "commit" /\ Creates(s) =>
            input[s].group # input[r].group

(* What purges delete exists, each row is deleted by one of them, and no   *)
(* issue goes without its fingerprint.                                     *)
Deleted ==
  /\ \A v, w \in Purger : v # w => dead[v] \cap dead[w] = {} /\ unnamed[v] \cap unnamed[w] = {}
  /\ \A w \in Purger :
       /\ \A i \in unnamed[w] : Named(i)
       /\ \A i \in dead[w] : issue[i] # NULL /\ (Named(i) => i \in unnamed[w])

(* What a purge has chosen is due until it is deleted, and the issues it   *)
(* deletes are those whose fingerprints it has deleted: the batch cannot   *)
(* have shrunk in between.                                                 *)
StillDue(w) ==
  /\ chosen[w] \subseteq DueIssues(w)
  /\ unnamed[w] \subseteq DueIssues(w)
  /\ dead[w] \subseteq DueIssues(w)
  /\ pc[w] = "issues" /\ chosen[w] # {} =>
       unnamed[w] \subseteq chosen[w] \/ Cardinality(chosen[w]) = Batch
  /\ pc[w] \in {"events", "purged"} => unnamed[w] \subseteq dead[w]

Uncrossed == ~crossed => \A w \in Purger : StillDue(w)

Bounded == \A w \in Purger :
  Cardinality(chosen[w]) <= Batch /\ Cardinality(unnamed[w]) <= Batch

(* An event is not newer than the issue that shows it.                     *)
Shown == ~crossed => \A e \in Req : event[e] # NULL =>
  \/ /\ named[event[e].group] # NULL
     /\ event[e].occurred <= issue[named[event[e].group]].seen
  \/ event[e].occurred + EventAge < now

(* What the statements of a purge at rest have achieved: they all choose   *)
(* the same issues.                                                        *)
AtRest(w) ==
  /\ pc[w] \notin {"idle", "deliveries"} =>
       \A n \in intents \ unsent[w] :
         Past(issue[n[2]].opened, DeliveryAge, w) => Cardinality(unsent[w]) = Batch
  /\ chosen[w] # {} => IsDoomed(chosen[w], w)
  /\ pc[w] \in {"fingerprints", "issues"} =>
       \A S \in SUBSET Req : IsDoomed(S, w) => S \cap notes \subseteq unnoted[w]
  /\ pc[w] = "issues" =>
       \A S \in SUBSET Req : IsDoomed(S, w) => \A i \in S : Named(i) => i \in unnamed[w]
  /\ pc[w] \in {"events", "purged"} =>
       \A S \in SUBSET Req : IsDoomed(S, w) => S \cap imports = {}

Undisturbed == \A w \in Purger \ disturbed : AtRest(w)

IInv ==
  /\ TypeOK /\ Fits /\ Resolved /\ Locked /\ Deleted
  /\ Uncrossed /\ Bounded /\ IssuesNamed /\ Shown
  /\ Undisturbed

-----------------------------------------------------------------------------
(* The initial states.                                                     *)

(* At first nothing is stored and nobody is at work.                       *)
LEMMA Initially == Init => IInv
<1> SUFFICES ASSUME Init PROVE IInv
  OBVIOUS
<1>1. TypeOK
  BY RetentionAssumption DEF Init, TypeOK, PC, Actor
<1>2. Fits /\ Resolved /\ Locked
  BY RetentionAssumption DEF Init, Fits, RequestFits, OperatorFits, PurgerFits, Resolved,
    Locked, Active, Locking, Actor, After
<1>3. Deleted /\ IssuesNamed /\ Shown
  BY DEF Init, Deleted, IssuesNamed, Shown
<1>4. Uncrossed /\ Undisturbed
  BY DEF Init, Uncrossed, StillDue, Undisturbed, AtRest, Actor
<1>5. Bounded
  BY FS_EmptySet, RetentionAssumption DEF Init, Bounded
<1> QED
  BY <1>1, <1>2, <1>3, <1>4, <1>5 DEF IInv

-----------------------------------------------------------------------------
(* Frames.                                                                 *)

(* What is said of a purge depends on the rows and on its own memory.      *)
PurgeKept(w) ==
  /\ pc'[w] = pc[w] /\ at'[w] = at[w]
  /\ chosen'[w] = chosen[w] /\ unsent'[w] = unsent[w] /\ unnoted'[w] = unnoted[w]
  /\ unnamed'[w] = unnamed[w] /\ dead'[w] = dead[w] /\ erased'[w] = erased[w]

(* What a purge would choose depends on issues, fingerprints and its time  *)
(* alone.                                                                  *)
LEMMA DoomedKept ==
  ASSUME NEW w \in Purger, UNCHANGED <<issue, named>>, at'[w] = at[w]
  PROVE  /\ DueIssues(w)' = DueIssues(w)
         /\ \A S : IsDoomed(S, w)' <=> IsDoomed(S, w)
         /\ \A i : Named(i)' <=> Named(i)
BY DEF DueIssues, Due, Past, IsDoomed, Before, Named

(* What the statements of a purge have achieved stays so while no row      *)
(* changes.                                                                *)
LEMMA AtRestKept ==
  ASSUME NEW w \in Purger, UNCHANGED rowVars, PurgeKept(w), AtRest(w)
  PROVE  AtRest(w)'
<1>1. \A S : IsDoomed(S, w)' <=> IsDoomed(S, w)
  BY DoomedKept DEF rowVars, PurgeKept
<1>2. \A i : Named(i)' <=> Named(i)
  BY DoomedKept DEF rowVars, PurgeKept
<1> QED
  BY <1>1, <1>2 DEF AtRest, rowVars, PurgeKept, Past

(* What a purge has chosen stays due while no row changes.                 *)
LEMMA StillDueKept ==
  ASSUME NEW w \in Purger, UNCHANGED rowVars, PurgeKept(w), StillDue(w)
  PROVE  StillDue(w)'
<1>1. DueIssues(w)' = DueIssues(w)
  BY DoomedKept DEF rowVars, PurgeKept
<1> QED
  BY <1>1 DEF StillDue, PurgeKept

(* A purge that is left alone still fits its memory.                       *)
LEMMA PurgerFitsKept ==
  ASSUME NEW w \in Purger, PurgeKept(w), PurgerFits(w), now' >= now,
         now \in Nat, now' \in Nat, at \in [Purger -> Nat]
  PROVE  PurgerFits(w)'
BY DEF PurgeKept, PurgerFits

(* Steps that write no row and leave the purges alone.                     *)
LEMMA AwayStep ==
  ASSUME IInv, TypeOK', UNCHANGED <<rowVars, purgeVars, at, disturbed, crossed>>,
         now' >= now, \A w \in Purger : pc'[w] = pc[w]
  PROVE  /\ Resolved' /\ Deleted' /\ Uncrossed' /\ Bounded' /\ IssuesNamed' /\ Shown'
         /\ Undisturbed' /\ \A w \in Purger : PurgerFits(w)'
<1>1. \A w \in Purger : PurgeKept(w)
  BY DEF PurgeKept, purgeVars
<1>2. Resolved' /\ Deleted' /\ Bounded' /\ IssuesNamed'
  BY DEF IInv, rowVars, purgeVars, Resolved, Deleted, Bounded, IssuesNamed, Named
<1>3. Shown'
  <2> SUFFICES ASSUME ~crossed, NEW e \in Req, event[e] # NULL,
                      event[e].occurred + EventAge < now
               PROVE  event[e].occurred + EventAge < now'
    BY DEF IInv, Shown, rowVars
  <2>1. event[e].occurred \in Nat
    BY DEF IInv, TypeOK, EventRow
  <2> QED
    BY <2>1, RetentionAssumption DEF IInv, TypeOK
<1>4. Uncrossed'
  BY <1>1, StillDueKept DEF IInv, Uncrossed
<1>5. Undisturbed'
  BY <1>1, AtRestKept DEF IInv, Undisturbed
<1>6. \A w \in Purger : PurgerFits(w)'
  BY <1>1, PurgerFitsKept DEF IInv, TypeOK, Fits
<1> QED
  BY <1>2, <1>3, <1>4, <1>5, <1>6

(* A step of one request or operator, as the others see it.                *)
StepOf(a) ==
  /\ pc[a] # "done"
  /\ \A b \in Actor \ {a} : pc'[b] = pc[b]
  /\ \A b \in (Req \cup Operator) \ {a} : target'[b] = target[b]
  /\ \A s \in Req \ {a} : input'[s] = input[s]
  /\ UNCHANGED <<rowVars, purgeVars, at, worldVars>>

(* A step of a request or an operator leaves the others where they are.    *)
LEMMA OthersFit ==
  ASSUME IInv, NEW a \in Req \cup Operator, StepOf(a)
  PROVE  /\ \A s \in Req \ {a} : RequestFits(s)'
         /\ \A c \in Operator \ {a} : OperatorFits(c)'
         /\ \A w \in Purger : pc'[w] = pc[w]
BY RetentionAssumption DEF IInv, Fits, RequestFits, OperatorFits, StepOf, Creates, rowVars,
  worldVars, Actor, Active

(* One who goes on without a lock takes none from the others.              *)
LEMMA UnlockedStep ==
  ASSUME IInv, NEW a \in Req \cup Operator, StepOf(a), pc'[a] \notin Locking
  PROVE  Locked'
BY DEF IInv, Locked, StepOf, Creates, rowVars, purgeVars, Actor, Locking

(* A step of a request that changes no row: what is left to show is its    *)
(* own memory.                                                             *)
LEMMA RequestStep ==
  ASSUME IInv, TypeOK', NEW r \in Req, StepOf(r), RequestFits(r)', Locked'
  PROVE  IInv'
<1>1. now' >= now
  BY DEF IInv, TypeOK, StepOf, worldVars
<1>2. Fits'
  BY <1>1, OthersFit, AwayStep, RetentionAssumption DEF Fits, StepOf, worldVars
<1> QED
  BY <1>1, <1>2, OthersFit, AwayStep DEF IInv, StepOf, worldVars

(* Whoever leaves is done.                                                 *)
LEMMA LeaveFits ==
  ASSUME IInv, NEW a \in Req \cup Operator, pc[a] # "done", Leave(a),
         UNCHANGED <<rowVars, at, purgeVars, worldVars>>
  PROVE  StepOf(a) /\ TypeOK' /\ pc'[a] = "done"
<1>1. pc'[a] = "done" /\ StepOf(a)
  BY DEF IInv, TypeOK, Leave, Goto, StepOf, Actor
<1>2. TypeOK'
  BY RetentionAssumption DEF IInv, TypeOK, Leave, Goto, rowVars, purgeVars, worldVars, Actor, PC
<1> QED
  BY <1>1, <1>2

(* A request that fails leaves the rows as they are.                       *)
LEMMA LeaveKeeps ==
  ASSUME IInv, NEW r \in Req, pc[r] \notin {"idle", "done"}, Leave(r),
         UNCHANGED <<rowVars, at, purgeVars, worldVars>>
  PROVE  IInv'
<1>1. StepOf(r) /\ TypeOK' /\ pc'[r] = "done"
  BY LeaveFits
<1>2. Locked'
  BY <1>1, UnlockedStep DEF Locking
<1>3. RequestFits(r)'
  BY <1>1 DEF RequestFits, Active
<1> QED
  BY <1>1, <1>2, <1>3, RequestStep

-----------------------------------------------------------------------------
(* Ingest before its commit.                                               *)

(* A request that finds its issue holds it; one that does not will create  *)
(* it.                                                                     *)
LEMMA FindIssueKeeps ==
  ASSUME IInv, NEW r \in Req, findIssueByFingerprint(r)
  PROVE  IInv'
<1>1. PICK g \in Fingerprint, t \in 0..now, imported \in BOOLEAN :
         /\ input' = [input EXCEPT ![r] =
              [group |-> g, occurred |-> t, received |-> IF imported THEN t ELSE now,
               imported |-> imported]]
         /\ target' = [target EXCEPT ![r] = named[g]]
         /\ pc' = [pc EXCEPT ![r] = IF named[g] = NULL THEN "create" ELSE "update"]
  BY DEF findIssueByFingerprint, Goto
<1> DEFINE new == [group |-> g, occurred |-> t, received |-> IF imported THEN t ELSE now,
                   imported |-> imported]
<1>2. new \in Input /\ input'[r] = new /\ new.occurred <= now /\ new.group = g
  BY <1>1 DEF IInv, TypeOK, Input
<1>3. StepOf(r)
  BY <1>1 DEF IInv, TypeOK, StepOf, findIssueByFingerprint, Actor
<1>4. TypeOK'
  <2>1. input' \in [Req -> Input \cup {NULL}]
    BY <1>1, <1>2 DEF IInv, TypeOK
  <2>2. pc' \in [Actor -> PC] /\ target' \in [Req \cup Operator -> Req \cup {NULL}]
    BY <1>1 DEF IInv, TypeOK, PC
  <2>3. \A a \in Req \cup Operator : pc'[a] \in {"update", "commit", "note"} => target'[a] # NULL
    BY <1>1 DEF IInv, TypeOK, Actor
  <2> QED
    BY <2>1, <2>2, <2>3
    DEF IInv, TypeOK, findIssueByFingerprint, rowVars, purgeVars, worldVars
<1>5. Locked'
  BY <1>1, <1>3, UnlockedStep DEF IInv, TypeOK, Actor, Locking
<1>6. RequestFits(r)'
  <2>1. pc'[r] = IF named[g] = NULL THEN "create" ELSE "update"
    BY <1>1 DEF IInv, TypeOK, Actor
  <2>2. event'[r] = NULL /\ issue'[r] = NULL
    BY <1>3 DEF IInv, Fits, RequestFits, StepOf, findIssueByFingerprint, rowVars
  <2>3. CASE named[g] = NULL
    BY <1>2, <1>3, <2>1, <2>2, <2>3 DEF RequestFits, Active, StepOf, worldVars
  <2>4. CASE named[g] # NULL
    <3>1. target'[r] = named[g] /\ named[g] \in Req /\ named[g] # r
      BY <1>1, <2>2, <2>4
      DEF IInv, TypeOK, Resolved, findIssueByFingerprint, rowVars
    <3>2. issue[named[g]] # NULL /\ issue[named[g]].group = g /\ pc[named[g]] = "done"
      BY <2>4, <3>1 DEF IInv, Resolved, Fits, RequestFits
    <3> QED
      BY <1>2, <1>3, <2>1, <2>2, <2>4, <3>1, <3>2
      DEF RequestFits, Active, StepOf, worldVars, rowVars, Actor
  <2> QED
    BY <2>3, <2>4
<1> QED
  BY <1>3, <1>4, <1>5, <1>6, RequestStep

(* A request has updated the issue that it holds.                          *)
LEMMA UpdateIssueKeeps ==
  ASSUME IInv, NEW r \in Req, updateIssue(r)
  PROVE  IInv'
<1>1. CASE issue[target[r]] = NULL
  BY <1>1, LeaveKeeps DEF updateIssue
<1>2. CASE issue[target[r]] # NULL
  <2>1. pc' = [pc EXCEPT ![r] = "commit"] /\ UNCHANGED <<input, target>>
    BY <1>2 DEF updateIssue, Goto, ingestVars
  <2>2. StepOf(r) /\ TypeOK' /\ pc'[r] = "commit"
    BY <2>1 DEF IInv, TypeOK, StepOf, updateIssue, Actor, PC, rowVars, purgeVars, worldVars
  <2>3. target[r] \in Req /\ ~Creates(r) /\ pc[target[r]] = "done"
    BY DEF IInv, Fits, RequestFits, updateIssue, Creates
  <2>4. Locked'
    BY <1>2, <2>1, <2>2, <2>3, RetentionAssumption
    DEF IInv, Locked, updateIssue, RowFree, Creates, rowVars, purgeVars, TypeOK, Actor, Locking
  <2>5. RequestFits(r)'
    BY <1>2, <2>1, <2>2, <2>3
    DEF IInv, Fits, RequestFits, updateIssue, StepOf, Creates, Active, rowVars, worldVars, Actor
  <2> QED
    BY <2>2, <2>4, <2>5, RequestStep
<1> QED
  BY <1>1, <1>2

(* A request that creates an issue has its fingerprint to itself.          *)
LEMMA CreateIssueKeeps ==
  ASSUME IInv, NEW r \in Req, createIssue(r)
  PROVE  IInv'
<1>1. StepOf(r)
  BY DEF IInv, TypeOK, StepOf, createIssue, Goto, Actor
<1>2. CASE named[input[r].group] = NULL
  <2>1. pc' = [pc EXCEPT ![r] = "commit"] /\ target' = [target EXCEPT ![r] = r]
    BY <1>2 DEF createIssue, Goto
  <2>2. TypeOK' /\ pc'[r] = "commit" /\ Creates(r)'
    BY <2>1, RetentionAssumption
    DEF IInv, TypeOK, createIssue, Creates, Actor, PC, rowVars, purgeVars, worldVars
  <2>3. Locked'
    <3> pc[r] = "create" /\ issue[r] = NULL
      BY DEF IInv, Fits, RequestFits, createIssue
    <3>0. \A b \in Req \ {r} : pc[b] \in Locking => target[b] # r
      BY DEF IInv, Fits, RequestFits, Creates, Locking, Active
    <3>1. \A b \in (Req \cup Operator) \ {r} : pc[b] \in Locking => target[b] # r
      BY <3>0 DEF IInv, Fits, OperatorFits, Locking
    <3>2. \A w \in Purger : r \notin dead[w]
      BY DEF IInv, Fits, RequestFits, createIssue, Deleted
    <3>3. \A s \in Req \ {r} : pc[s] = "commit" /\ Creates(s) => input[s].group # input[r].group
      BY DEF createIssue, KeyFree, Creates
    <3>4. target'[r] = r /\ input' = input /\ named' = named /\ dead' = dead
      BY <2>1 DEF IInv, TypeOK, createIssue, rowVars, purgeVars
    <3> QED
      BY <1>1, <1>2, <2>2, <3>1, <3>2, <3>3, <3>4
      DEF IInv, Locked, Creates, StepOf, Actor, Locking
  <2>4. RequestFits(r)'
    BY <2>1, <2>2
    DEF IInv, Fits, RequestFits, createIssue, Creates, Active, rowVars, worldVars
  <2> QED
    BY <1>1, <2>2, <2>3, <2>4, RequestStep
<1>3. CASE named[input[r].group] # NULL
  <2>1. pc' = [pc EXCEPT ![r] = "refind"] /\ UNCHANGED <<input, target>>
    BY <1>3 DEF createIssue, Goto
  <2>2. TypeOK' /\ pc'[r] = "refind"
    BY <2>1 DEF IInv, TypeOK, createIssue, Actor, PC, rowVars, purgeVars, worldVars
  <2>3. Locked'
    BY <1>1, <2>2, UnlockedStep DEF Locking
  <2>4. RequestFits(r)'
    BY <2>1, <2>2
    DEF IInv, Fits, RequestFits, createIssue, Active, rowVars, worldVars
  <2> QED
    BY <1>1, <2>2, <2>3, <2>4, RequestStep
<1> QED
  BY <1>2, <1>3

(* A request that lost the fingerprint to another looks again.             *)
LEMMA FindExistingIssueKeeps ==
  ASSUME IInv, NEW r \in Req, findExistingIssue(r)
  PROVE  IInv'
<1> DEFINE g == input[r].group
<1>1. CASE named[g] = NULL
  BY <1>1, LeaveKeeps DEF findExistingIssue
<1>2. CASE named[g] # NULL
  <2>1. pc' = [pc EXCEPT ![r] = "update"] /\ target' = [target EXCEPT ![r] = named[g]]
        /\ input' = input
    BY <1>2 DEF findExistingIssue, Goto
  <2>2. input[r] \in Input /\ input[r].occurred <= now /\ g \in Fingerprint /\ named[g] \in Req
    BY <1>2 DEF IInv, TypeOK, Fits, RequestFits, Active, findExistingIssue, Input
  <2>3. StepOf(r) /\ TypeOK' /\ pc'[r] = "update" /\ target'[r] = named[g]
    BY <1>2, <2>1, <2>2
    DEF IInv, TypeOK, StepOf, findExistingIssue, Actor, PC, rowVars, purgeVars, worldVars
  <2>4. Locked'
    BY <2>3, UnlockedStep DEF Locking
  <2>5. pc[named[g]] = "done" /\ issue[named[g]].group = g
    BY <1>2, <2>2 DEF IInv, Resolved, Fits, RequestFits
  <2>6. RequestFits(r)'
    BY <2>1, <2>2, <2>3, <2>5
    DEF IInv, Fits, RequestFits, findExistingIssue, StepOf, Active, rowVars, worldVars, Actor
  <2> QED
    BY <2>3, <2>4, <2>6, RequestStep
<1> QED
  BY <1>1, <1>2

(* A request fails, and its locks go.                                      *)
LEMMA AbortKeeps ==
  ASSUME IInv, NEW r \in Req, Abort(r)
  PROVE  IInv'
BY LeaveKeeps DEF Abort

-----------------------------------------------------------------------------
(* Operators, before a comment is stored, and the clock.                   *)

(* A step of an operator that changes no row.                              *)
LEMMA OperatorStep ==
  ASSUME IInv, TypeOK', NEW c \in Operator, StepOf(c), OperatorFits(c)', Locked'
  PROVE  IInv'
<1>1. now' >= now
  BY DEF IInv, TypeOK, StepOf, worldVars
<1>2. Fits'
  BY <1>1, OthersFit, AwayStep, RetentionAssumption DEF Fits, StepOf, worldVars
<1> QED
  BY <1>1, <1>2, OthersFit, AwayStep DEF IInv, StepOf, worldVars

(* An operator locks an issue that is there and that nobody holds.         *)
LEMMA LockForCommentKeeps ==
  ASSUME IInv, NEW c \in Operator, lockIssueForComment(c)
  PROVE  IInv'
<1>1. PICK i \in Req : /\ issue[i] # NULL /\ RowFree(i, c)
                       /\ target' = [target EXCEPT ![c] = i]
  BY DEF lockIssueForComment
<1>2. pc' = [pc EXCEPT ![c] = "note"]
  BY DEF lockIssueForComment, Goto
<1>3. StepOf(c) /\ TypeOK' /\ pc'[c] = "note" /\ target'[c] = i
  BY <1>1, <1>2, RetentionAssumption
  DEF IInv, TypeOK, StepOf, lockIssueForComment, Actor, PC, rowVars, purgeVars, worldVars
<1>4. Locked'
  <2>1. \A b \in (Req \cup Operator) \ {c} : pc[b] \in Locking => target[b] # i
    BY <1>1 DEF RowFree, Locking
  <2>2. \A w \in Purger : i \notin dead[w]
    BY <1>1, RetentionAssumption DEF RowFree
  <2> QED
    BY <1>3, <2>1, <2>2, RetentionAssumption
    DEF IInv, Locked, StepOf, Creates, Actor, Locking, rowVars, purgeVars
<1>5. OperatorFits(c)'
  BY <1>1, <1>3 DEF OperatorFits, StepOf, rowVars
<1> QED
  BY <1>3, <1>4, <1>5, OperatorStep

(* A comment fails, and its lock goes.                                     *)
LEMMA CommentFailsKeeps ==
  ASSUME IInv, NEW c \in Operator, AddCommentFails(c)
  PROVE  IInv'
<1>1. StepOf(c) /\ TypeOK' /\ pc'[c] = "done"
  BY LeaveFits DEF AddCommentFails
<1>2. Locked'
  BY <1>1, UnlockedStep DEF Locking
<1>3. OperatorFits(c)'
  BY <1>1 DEF OperatorFits
<1> QED
  BY <1>1, <1>2, <1>3, OperatorStep

(* Time only passes: what was due stays due.                               *)
LEMMA TickKeeps ==
  ASSUME IInv, Tick
  PROVE  IInv'
<1>1. now' >= now /\ now' \in Nat
  BY DEF IInv, TypeOK, Tick
<1>2. TypeOK'
  BY <1>1 DEF IInv, TypeOK, Tick, rowVars, ingestVars, purgeVars
<1>3. Locked'
  BY DEF IInv, Locked, Tick, rowVars, ingestVars, purgeVars, Creates
<1>4. \A r \in Req : RequestFits(r)'
  <2> SUFFICES ASSUME NEW r \in Req PROVE RequestFits(r)'
    OBVIOUS
  <2>1. input[r] \in Input => input[r].occurred \in Nat
    BY DEF Input
  <2> QED
    BY <1>1, <2>1 DEF IInv, TypeOK, Fits, RequestFits, Tick, rowVars, ingestVars, Creates
<1>5. \A c \in Operator : OperatorFits(c)'
  BY DEF IInv, Fits, OperatorFits, Tick, rowVars, ingestVars
<1> QED
  BY <1>1, <1>2, <1>3, <1>4, <1>5, AwayStep DEF IInv, Fits, Tick

-----------------------------------------------------------------------------
(* The statements of a purge: nothing changes but its own memory.          *)

PurgeStepOf(w) ==
  /\ UNCHANGED <<rowVars, ingestVars, now, crossed>>
  /\ disturbed \ {w} \subseteq disturbed'
  /\ \A a \in Actor \ {w} : pc'[a] = pc[a]
  /\ \A v \in Purger \ {w} : PurgeKept(v)

(* The part of Locked and Deleted that speaks of one purge.                *)
Owns(w) ==
  /\ \A v \in Purger \ {w} : dead[v] \cap dead[w] = {} /\ unnamed[v] \cap unnamed[w] = {}
  /\ \A i \in unnamed[w] : Named(i)
  /\ \A i \in dead[w] : issue[i] # NULL /\ (Named(i) => i \in unnamed[w])
  /\ \A a \in Req \cup Operator : pc[a] \in Locking => target[a] \notin dead[w]

(* A step of a purge that commits nothing: what is left to show is its     *)
(* own memory.                                                             *)
LEMMA PurgerStep ==
  ASSUME IInv, TypeOK', NEW w \in Purger, PurgeStepOf(w),
         PurgerFits(w)', Owns(w)',
         (Cardinality(chosen[w]) <= Batch /\ Cardinality(unnamed[w]) <= Batch)',
         ~crossed => StillDue(w)', w \notin disturbed' => AtRest(w)'
  PROVE  IInv'
<1> USE RetentionAssumption
<1>1. \A a \in Req \cup Operator : pc'[a] = pc[a]
  BY DEF PurgeStepOf, Actor
<1>2. \A r \in Req : RequestFits(r)'
  BY <1>1 DEF IInv, Fits, RequestFits, PurgeStepOf, Creates, rowVars, ingestVars
<1>3. \A c \in Operator : OperatorFits(c)'
  BY <1>1 DEF IInv, Fits, OperatorFits, PurgeStepOf, rowVars, ingestVars
<1>4. \A v \in Purger : PurgerFits(v)'
  <2>1. now \in Nat /\ now' \in Nat /\ now' >= now /\ at \in [Purger -> Nat]
    BY DEF IInv, TypeOK, PurgeStepOf
  <2>2. \A v \in Purger \ {w} : PurgeKept(v) /\ PurgerFits(v)
    BY DEF IInv, Fits, PurgeStepOf
  <2> QED
    BY <2>1, <2>2, PurgerFitsKept
<1>5. Resolved' /\ IssuesNamed' /\ Shown'
  BY DEF IInv, Resolved, IssuesNamed, Shown, PurgeStepOf, rowVars
<1>6. Locked'
  BY <1>1 DEF IInv, Locked, Owns, PurgeStepOf, PurgeKept, Creates, rowVars, ingestVars
<1>7. \A v \in Purger \ {w} : dead'[v] = dead[v] /\ unnamed'[v] = unnamed[v]
  BY DEF PurgeStepOf, PurgeKept
<1>8. Deleted'
  <2>1. \A i : Named(i)' <=> Named(i)
    BY DEF PurgeStepOf, rowVars, Named
  <2>2. \A v \in Purger \ {w} :
          /\ \A i \in unnamed'[v] : Named(i)'
          /\ \A i \in dead'[v] : issue'[i] # NULL /\ (Named(i)' => i \in unnamed'[v])
    BY <1>7, <2>1 DEF IInv, Deleted, PurgeStepOf, rowVars
  <2>3. \A u, v \in Purger : u # v =>
          dead'[u] \cap dead'[v] = {} /\ unnamed'[u] \cap unnamed'[v] = {}
    BY <1>7 DEF IInv, Deleted, Owns
  <2> QED
    BY <2>2, <2>3 DEF Deleted, Owns
<1>9. Uncrossed'
  BY StillDueKept DEF IInv, Uncrossed, PurgeStepOf
<1>10. Bounded'
  BY DEF IInv, Bounded, PurgeStepOf, PurgeKept
<1>11. Undisturbed'
  BY AtRestKept DEF IInv, Undisturbed, PurgeStepOf
<1> QED
  BY <1>2, <1>3, <1>4, <1>5, <1>6, <1>8, <1>9, <1>10, <1>11 DEF IInv, Fits

(* A purge keeps the rows that it deletes, or gives up all of them.        *)
LEMMA OwnsKept ==
  ASSUME IInv, NEW w \in Purger, PurgeStepOf(w),
         \/ dead'[w] = dead[w] /\ unnamed'[w] = unnamed[w]
         \/ dead'[w] = {} /\ unnamed'[w] = {}
  PROVE  Owns(w)'
BY RetentionAssumption DEF IInv, Deleted, Locked, Owns, PurgeStepOf, PurgeKept, Named, rowVars,
  ingestVars, Actor

(* Ends.                                                                   *)
LEMMA ResetKeeps ==
  ASSUME IInv, NEW w \in Purger, Reset(w), UNCHANGED <<rowVars, crossed>>,
         faults' \in Nat, disturbed' = disturbed \ {w}
  PROVE  IInv'
<1>1. TypeOK'
  BY DEF IInv, TypeOK, Reset, Goto, rowVars, ingestVars, Actor, PC
<1>2. PurgeStepOf(w)
  BY DEF IInv, TypeOK, Reset, Goto, PurgeStepOf, PurgeKept, Actor
<1>3. /\ chosen'[w] = {} /\ unsent'[w] = {} /\ unnoted'[w] = {} /\ unnamed'[w] = {}
      /\ dead'[w] = {} /\ at'[w] = 0 /\ pc'[w] = "idle" /\ now' = now
  BY DEF IInv, TypeOK, Reset, Goto, Actor
<1>4. PurgerFits(w)' /\ StillDue(w)' /\ AtRest(w)'
  BY <1>3 DEF IInv, TypeOK, PurgerFits, StillDue, AtRest
<1>5. Owns(w)'
  BY <1>2, <1>3, OwnsKept
<1>6. (Cardinality(chosen[w]) <= Batch /\ Cardinality(unnamed[w]) <= Batch)'
  BY <1>3, FS_EmptySet, RetentionAssumption
<1> QED
  BY <1>1, <1>2, <1>4, <1>5, <1>6, PurgerStep

(* The process of a purge ends, and its transaction with it.               *)
LEMMA StopPurgeKeeps ==
  ASSUME IInv, NEW w \in Purger, StopPurge(w)
  PROVE  IInv'
<1>1. faults' \in Nat
  BY DEF IInv, TypeOK, StopPurge
<1> QED
  BY <1>1, ResetKeeps DEF StopPurge

(* A statement of a purge fails, and its transaction is rolled back.       *)
LEMMA FailPurgeKeeps ==
  ASSUME IInv, NEW w \in Purger, FailPurge(w)
  PROVE  IInv'
BY ResetKeeps DEF IInv, TypeOK, FailPurge

(* A purge begins: its time is now, and nothing is chosen.                 *)
LEMMA RetentionTaskKeeps ==
  ASSUME IInv, NEW w \in Purger, RetentionTask(w)
  PROVE  IInv'
<1>1. TypeOK'
  BY DEF IInv, TypeOK, RetentionTask, Goto, rowVars, ingestVars, purgeVars, worldVars, Actor, PC
<1>2. PurgeStepOf(w)
  BY DEF IInv, TypeOK, RetentionTask, Goto, PurgeStepOf, PurgeKept, purgeVars, worldVars, Actor
<1>3. /\ chosen'[w] = {} /\ unnamed'[w] = {} /\ dead'[w] = {}
      /\ at'[w] = now /\ pc'[w] = "deliveries" /\ now' = now
  BY DEF IInv, TypeOK, Fits, PurgerFits, RetentionTask, Goto, purgeVars, worldVars, Actor, After
<1>4. PurgerFits(w)' /\ StillDue(w)' /\ AtRest(w)'
  BY <1>3 DEF IInv, TypeOK, PurgerFits, StillDue, AtRest
<1>5. Owns(w)'
  BY <1>2, <1>3, OwnsKept
<1>6. (Cardinality(chosen[w]) <= Batch /\ Cardinality(unnamed[w]) <= Batch)'
  BY <1>3, FS_EmptySet, RetentionAssumption
<1> QED
  BY <1>1, <1>2, <1>4, <1>5, <1>6, PurgerStep

(* The statements of a purge at rest choose the same issues.               *)
LEMMA SameDoomed ==
  ASSUME TypeOK, NEW w \in Purger, NEW S, NEW T, IsDoomed(S, w), IsDoomed(T, w)
  PROVE  S = T
<1> DEFINE D == DueIssues(w)
<1>1. IsFiniteSet(D)
  BY FS_Subset, RetentionAssumption DEF DueIssues
<1>2. /\ IsFiniteSet(S) /\ Cardinality(S) \in Nat /\ Cardinality(S) <= Batch
      /\ IsFiniteSet(T) /\ Cardinality(T) \in Nat /\ Cardinality(T) <= Batch
      /\ S \subseteq D /\ T \subseteq D
  BY <1>1, FS_Subset, FS_CardinalityType DEF IsDoomed
<1>3. CASE S = D
  <2>1. Cardinality(T) <= Cardinality(S)
    BY <1>1, <1>3, <1>2, FS_Subset
  <2>2. CASE T # D
    <3>1. Cardinality(T) = Cardinality(S)
      BY <1>2, <2>1, <2>2, RetentionAssumption DEF IsDoomed
    <3> QED
      BY <1>1, <1>2, <1>3, <3>1, FS_Subset
  <2> QED
    BY <1>3, <2>2
<1>4. CASE T = D
  <2>1. Cardinality(S) <= Cardinality(T)
    BY <1>1, <1>4, <1>2, FS_Subset
  <2>2. CASE S # D
    <3>1. Cardinality(T) = Cardinality(S)
      BY <1>2, <2>1, <2>2, RetentionAssumption DEF IsDoomed
    <3> QED
      BY <1>1, <1>2, <1>4, <3>1, FS_Subset
  <2> QED
    BY <1>4, <2>2
<1>5. CASE S # D /\ T # D
  <2>1. Cardinality(S) = Cardinality(T)
    BY <1>5 DEF IsDoomed
  <2> SUFFICES ASSUME S # T PROVE FALSE
    OBVIOUS
  <2>2. PICK x \in S : x \notin T
    BY <1>2, <2>1, FS_Subset
  <2>3. PICK y \in T : y \notin S
    BY <1>2, <2>1, FS_Subset
  <2>4. Before(x, y) /\ Before(y, x)
    BY <1>2, <2>2, <2>3 DEF IsDoomed
  <2>5. /\ issue[x].seen \in Nat /\ issue[y].seen \in Nat
        /\ Rank[x] \in Nat /\ Rank[y] \in Nat
    BY <1>2, <2>2, <2>3, RetentionAssumption DEF TypeOK, DueIssues, Due, IssueRow
  <2> QED
    BY <2>4, <2>5 DEF Before
<1> QED
  BY <1>3, <1>4, <1>5

(* A purge that chooses no issues finds none due.                          *)
LEMMA NothingDoomed ==
  ASSUME NEW w \in Purger, IsDoomed({}, w)
  PROVE  DueIssues(w) = {}
BY FS_EmptySet, RetentionAssumption DEF IsDoomed

(* A purge deletes deliveries, a batch at most.                            *)
LEMMA DeleteDeliveriesKeeps ==
  ASSUME IInv, NEW w \in Purger, deleteExpiredDeliveries(w)
  PROVE  IInv'
<1> DEFINE expired == {n \in intents : Past(issue[n[2]].opened, DeliveryAge, w)}
<1>1. PICK S \in SUBSET expired :
        /\ IsOldest(S, expired, [n \in expired |-> issue[n[2]].opened])
        /\ unsent' = [unsent EXCEPT ![w] = S]
  BY DEF deleteExpiredDeliveries
<1>2. TypeOK'
  <2>1. S \in SUBSET (Dest \X Req)
    BY <1>1 DEF IInv, TypeOK
  <2>2. unsent' \in [Purger -> SUBSET (Dest \X Req)] /\ pc' \in [Actor -> PC]
    BY <1>1, <2>1 DEF IInv, TypeOK, deleteExpiredDeliveries, Goto, PC
  <2>3. \A a \in Req \cup Operator : pc'[a] = pc[a]
    BY RetentionAssumption DEF IInv, TypeOK, deleteExpiredDeliveries, Goto, Actor
  <2> QED
    BY <2>2, <2>3 DEF IInv, TypeOK, deleteExpiredDeliveries, rowVars, ingestVars, worldVars
<1>3. PurgeStepOf(w) /\ pc'[w] = "notes" /\ unsent'[w] = S
  BY <1>1 DEF IInv, TypeOK, deleteExpiredDeliveries, Goto, PurgeStepOf, PurgeKept, worldVars,
    Actor
<1>4. chosen'[w] = {} /\ unnamed'[w] = {} /\ dead'[w] = {} /\ at' = at
  BY DEF IInv, Fits, PurgerFits, deleteExpiredDeliveries, After
<1>5. PurgerFits(w)' /\ StillDue(w)'
  BY <1>3, <1>4 DEF IInv, Fits, PurgerFits, PurgeStepOf, StillDue, After
<1>6. AtRest(w)'
  <2>1. \A n \in intents \ S : Past(issue[n[2]].opened, DeliveryAge, w) => Cardinality(S) = Batch
    BY <1>1 DEF IsOldest
  <2> QED
    BY <1>3, <1>4, <2>1 DEF AtRest, PurgeStepOf, rowVars, Past
<1>7. Owns(w)'
  BY <1>3, <1>4, OwnsKept
<1>8. (Cardinality(chosen[w]) <= Batch /\ Cardinality(unnamed[w]) <= Batch)'
  BY <1>4, FS_EmptySet, RetentionAssumption
<1> QED
  BY <1>2, <1>3, <1>5, <1>6, <1>7, <1>8, PurgerStep

(* A statement chooses its issues anew.                                    *)
LEMMA ChooseDoomedKeeps ==
  ASSUME IInv, NEW w \in Purger, ChooseDoomed(w)
  PROVE  IInv'
<1>1. PICK S \in SUBSET DueIssues(w) :
        /\ IsDoomed(S, w)
        /\ chosen' = [chosen EXCEPT ![w] = S]
        /\ pc' = [pc EXCEPT ![w] = IF S = {} THEN After[pc[w]] ELSE pc[w]]
  BY DEF ChooseDoomed, Goto
<1>2. /\ pc[w] \in {"notes", "fingerprints", "issues"} /\ pc[w] \in DOMAIN After
      /\ After["notes"] = "fingerprints" /\ After["fingerprints"] = "issues"
      /\ After["issues"] = "events"
  BY DEF ChooseDoomed, After
<1>3. chosen'[w] = S /\ pc'[w] = IF S = {} THEN After[pc[w]] ELSE pc[w]
  BY <1>1 DEF IInv, TypeOK, Actor
<1>4. TypeOK'
  BY <1>1, <1>2
  DEF IInv, TypeOK, ChooseDoomed, DueIssues, rowVars, ingestVars, worldVars, PC, Actor
<1>5. PurgeStepOf(w) /\ at' = at /\ unnamed' = unnamed /\ dead' = dead /\ unnoted' = unnoted
      /\ unsent' = unsent
  BY <1>1 DEF IInv, TypeOK, ChooseDoomed, PurgeStepOf, PurgeKept, worldVars, Actor
<1>6. PurgerFits(w)'
  BY <1>2, <1>3, <1>5 DEF IInv, Fits, PurgerFits, PurgeStepOf, After
<1>7. Owns(w)'
  BY <1>5, OwnsKept
<1>8. (Cardinality(chosen[w]) <= Batch /\ Cardinality(unnamed[w]) <= Batch)'
  BY <1>1, <1>3, <1>5 DEF IInv, Bounded, IsDoomed
<1>9. DueIssues(w)' = DueIssues(w) /\ (\A T : IsDoomed(T, w)' <=> IsDoomed(T, w))
      /\ \A i : Named(i)' <=> Named(i)
  BY <1>5, DoomedKept DEF PurgeStepOf, rowVars
<1>10. ASSUME ~crossed PROVE StillDue(w)'
  <2>1. StillDue(w)
    BY <1>10 DEF IInv, Uncrossed
  <2>2. CASE S = {}
    <3>1. unnamed[w] = {}
      BY <1>1, <2>1, <2>2, NothingDoomed DEF StillDue
    <3> QED
      BY <1>2, <1>3, <1>5, <1>9, <2>1, <2>2, <3>1 DEF StillDue
  <2>3. CASE S # {}
    <3>1. unnamed[w] \subseteq S \/ Cardinality(S) = Batch
      BY <1>1, <2>1 DEF StillDue, IsDoomed
    <3> QED
      BY <1>1, <1>2, <1>3, <1>5, <1>9, <2>1, <2>3, <3>1 DEF StillDue
  <2> QED
    BY <2>2, <2>3
<1>11. ASSUME w \notin disturbed PROVE AtRest(w)'
  <2>1. AtRest(w)
    BY <1>11 DEF IInv, Undisturbed
  <2>2. S # {} => IsDoomed(S, w)'
    BY <1>1, <1>9
  <2>3. \A T : S = {} /\ IsDoomed(T, w) => T = {}
    BY <1>1, SameDoomed DEF IInv
  <2>4. UNCHANGED <<intents, issue, notes, imports>>
    BY <1>5 DEF PurgeStepOf, rowVars
  <2>5. \A n : Past(issue[n[2]].opened, DeliveryAge, w)'
                 <=> Past(issue[n[2]].opened, DeliveryAge, w)
    BY <1>5, <2>4 DEF Past
  <2> QED
    BY <1>2, <1>3, <1>5, <1>9, <2>1, <2>2, <2>3, <2>4, <2>5 DEF AtRest
<1>12. disturbed' = disturbed
  BY DEF ChooseDoomed, worldVars
<1> QED
  BY <1>4, <1>5, <1>6, <1>7, <1>8, <1>10, <1>11, <1>12, PurgerStep

(* A purge deletes the comments of the issues it has chosen.               *)
LEMMA DeleteNotesKeeps ==
  ASSUME IInv, NEW w \in Purger, deleteIssueNotes(w)
  PROVE  IInv'
<1>1. pc[w] = "notes" /\ After[pc[w]] = "fingerprints" /\ chosen[w] # {}
  BY DEF deleteIssueNotes, After
<1>2. /\ chosen' = [chosen EXCEPT ![w] = {}] /\ pc' = [pc EXCEPT ![w] = "fingerprints"]
      /\ unnoted' = [unnoted EXCEPT ![w] = chosen[w] \cap notes]
  BY <1>1 DEF deleteIssueNotes, NextStatement, Goto
<1>3. TypeOK'
  BY <1>2, RetentionAssumption
  DEF IInv, TypeOK, deleteIssueNotes, rowVars, ingestVars, worldVars, PC, Actor
<1>4. PurgeStepOf(w)
  BY <1>2 DEF IInv, TypeOK, deleteIssueNotes, PurgeStepOf, PurgeKept, worldVars, Actor
<1>5. /\ chosen'[w] = {} /\ pc'[w] = "fingerprints" /\ unnoted'[w] = chosen[w] \cap notes
      /\ unnamed' = unnamed /\ unnamed[w] = {} /\ dead' = dead /\ dead[w] = {}
      /\ at' = at /\ unsent' = unsent /\ disturbed' = disturbed
  BY <1>1, <1>2 DEF IInv, TypeOK, Fits, PurgerFits, deleteIssueNotes, worldVars, Actor
<1>6. PurgerFits(w)' /\ StillDue(w)'
  BY <1>4, <1>5 DEF IInv, Fits, PurgerFits, PurgeStepOf, StillDue, After
<1>7. Owns(w)'
  BY <1>4, <1>5, OwnsKept
<1>8. (Cardinality(chosen[w]) <= Batch /\ Cardinality(unnamed[w]) <= Batch)'
  BY <1>5, FS_EmptySet, RetentionAssumption
<1>9. ASSUME w \notin disturbed PROVE AtRest(w)'
  <2>1. AtRest(w)
    BY <1>9 DEF IInv, Undisturbed
  <2>2. \A T : IsDoomed(T, w)' => T = chosen[w]
    BY <1>1, <1>4, <1>5, <2>1, DoomedKept, SameDoomed
    DEF IInv, AtRest, PurgeStepOf, rowVars
  <2> QED
    BY <1>1, <1>4, <1>5, <2>1, <2>2 DEF AtRest, PurgeStepOf, rowVars, Past
<1> QED
  BY <1>3, <1>4, <1>5, <1>6, <1>7, <1>8, <1>9, PurgerStep

(* A purge deletes the fingerprints of the issues it has chosen, which no  *)
(* other purge is deleting.                                                *)
LEMMA DeleteFingerprintsKeeps ==
  ASSUME IInv, NEW w \in Purger, deleteIssueFingerprints(w)
  PROVE  IInv'
<1> DEFINE found == {i \in chosen[w] : Named(i)}
<1>1. pc[w] = "fingerprints" /\ After[pc[w]] = "issues" /\ chosen[w] # {}
  BY DEF deleteIssueFingerprints, After
<1>2. /\ chosen' = [chosen EXCEPT ![w] = {}] /\ pc' = [pc EXCEPT ![w] = "issues"]
      /\ unnamed' = [unnamed EXCEPT ![w] = found]
  BY <1>1 DEF deleteIssueFingerprints, NextStatement, Goto
<1>3. TypeOK'
  BY <1>2, RetentionAssumption
  DEF IInv, TypeOK, deleteIssueFingerprints, rowVars, ingestVars, worldVars, PC, Actor
<1>4. PurgeStepOf(w)
  BY <1>2 DEF IInv, TypeOK, deleteIssueFingerprints, PurgeStepOf, PurgeKept, worldVars, Actor
<1>5. /\ chosen'[w] = {} /\ pc'[w] = "issues" /\ unnamed'[w] = found
      /\ dead' = dead /\ dead[w] = {} /\ at' = at /\ unsent' = unsent
      /\ unnoted' = unnoted /\ disturbed' = disturbed
  BY <1>1, <1>2 DEF IInv, TypeOK, Fits, PurgerFits, deleteIssueFingerprints, worldVars, Actor
<1>6. PurgerFits(w)'
  BY <1>4, <1>5 DEF IInv, Fits, PurgerFits, PurgeStepOf, After
<1>7. /\ DueIssues(w)' = DueIssues(w) /\ \A T : IsDoomed(T, w)' <=> IsDoomed(T, w)
      /\ \A i : Named(i)' <=> Named(i)
  BY <1>4, <1>5, DoomedKept DEF PurgeStepOf, rowVars
<1>8. Owns(w)'
  <2>1. \A v \in Purger \ {w} : found \cap unnamed'[v] = {}
    BY <1>4 DEF deleteIssueFingerprints, PurgeStepOf, PurgeKept
  <2> QED
    BY <1>5, <1>7, <2>1 DEF Owns
<1>9. (Cardinality(chosen[w]) <= Batch /\ Cardinality(unnamed[w]) <= Batch)'
  <2>1. IsFiniteSet(chosen[w])
    BY FS_Subset, RetentionAssumption DEF IInv, TypeOK
  <2>2. IsFiniteSet(found) /\ Cardinality(found) <= Cardinality(chosen[w])
    BY <2>1, FS_Subset
  <2> QED
    BY <1>5, <2>1, <2>2, FS_EmptySet, FS_CardinalityType, RetentionAssumption
    DEF IInv, Bounded
<1>10. ASSUME ~crossed PROVE StillDue(w)'
  BY <1>5, <1>7, <1>10 DEF IInv, Uncrossed, StillDue
<1>11. ASSUME w \notin disturbed PROVE AtRest(w)'
  <2>1. AtRest(w)
    BY <1>11 DEF IInv, Undisturbed
  <2>2. \A T : IsDoomed(T, w)' => T = chosen[w]
    BY <1>1, <1>7, <2>1, SameDoomed DEF IInv, AtRest
  <2> QED
    BY <1>1, <1>4, <1>5, <1>7, <2>1, <2>2 DEF AtRest, PurgeStepOf, rowVars, Past
<1> QED
  BY <1>3, <1>4, <1>5, <1>6, <1>8, <1>9, <1>10, <1>11, PurgerStep

(* A purge deletes the issues it has chosen: nothing refers to them any    *)
(* more but what it has deleted itself.                                    *)
LEMMA DeleteIssuesKeeps ==
  ASSUME IInv, NEW w \in Purger, deleteExpiredIssues(w)
  PROVE  IInv'
<1>1. pc[w] = "issues" /\ After[pc[w]] = "events" /\ chosen[w] # {}
  BY DEF deleteExpiredIssues, After
<1>2. /\ chosen' = [chosen EXCEPT ![w] = {}] /\ pc' = [pc EXCEPT ![w] = "events"]
      /\ dead' = [dead EXCEPT ![w] = Existing(w)]
  BY <1>1 DEF deleteExpiredIssues, NextStatement, Goto
<1>3. TypeOK'
  BY <1>2, RetentionAssumption
  DEF IInv, TypeOK, deleteExpiredIssues, Existing, rowVars, ingestVars, worldVars, PC, Actor
<1>4. PurgeStepOf(w)
  BY <1>2 DEF IInv, TypeOK, deleteExpiredIssues, PurgeStepOf, PurgeKept, worldVars, Actor
<1>5. /\ chosen'[w] = {} /\ pc'[w] = "events" /\ dead'[w] = Existing(w)
      /\ unnamed' = unnamed /\ at' = at /\ unsent' = unsent /\ disturbed' = disturbed
  BY <1>1, <1>2 DEF IInv, TypeOK, deleteExpiredIssues, worldVars, Actor
<1>6. PurgerFits(w)'
  BY <1>4, <1>5 DEF IInv, Fits, PurgerFits, PurgeStepOf, After
<1>7. /\ DueIssues(w)' = DueIssues(w) /\ \A T : IsDoomed(T, w)' <=> IsDoomed(T, w)
      /\ \A i : Named(i)' <=> Named(i)
  BY <1>4, <1>5, DoomedKept DEF PurgeStepOf, rowVars
<1>8. Owns(w)'
  <2>1. \A i \in Existing(w) :
          /\ issue[i] # NULL /\ RowFree(i, w) /\ (Named(i) => i \in unnamed[w])
    BY DEF deleteExpiredIssues, Existing, Settled, Unreferenced
  <2>2. \A v \in Purger \ {w} : dead'[v] = dead[v]
    BY <1>4 DEF PurgeStepOf, PurgeKept
  <2>3. \A v \in Purger \ {w} :
          dead'[v] \cap Existing(w) = {} /\ unnamed[v] \cap unnamed[w] = {}
    BY <2>1, <2>2 DEF IInv, Deleted, RowFree
  <2>4. \A a \in Req \cup Operator : pc'[a] \in Locking => target'[a] \notin Existing(w)
    BY <1>4, <2>1, RetentionAssumption
    DEF RowFree, PurgeStepOf, ingestVars, Locking, Actor
  <2>5. \A i \in unnamed[w] : Named(i)'
    BY <1>7 DEF IInv, Deleted
  <2> QED
    BY <1>4, <1>5, <1>7, <2>1, <2>3, <2>4, <2>5 DEF Owns, PurgeStepOf, rowVars
<1>9. (Cardinality(chosen[w]) <= Batch /\ Cardinality(unnamed[w]) <= Batch)'
  BY <1>5, FS_EmptySet, RetentionAssumption DEF IInv, Bounded
<1>10. ASSUME ~crossed PROVE StillDue(w)'
  <2>1. StillDue(w)
    BY <1>10 DEF IInv, Uncrossed
  <2>2. Existing(w) = chosen[w]
    BY <2>1 DEF StillDue, DueIssues, Due, Existing
  <2>3. chosen[w] \subseteq unnamed[w]
    <3>1. \A i \in chosen[w] : i \in Req /\ issue[i] # NULL /\ (Named(i) => i \in unnamed[w])
      BY <2>2 DEF IInv, TypeOK, Existing, deleteExpiredIssues, Unreferenced
    <3>2. \A i \in chosen[w] : issue[i].group \in Fingerprint /\ named[issue[i].group] = i
      BY <1>10, <3>1 DEF IInv, TypeOK, IssueRow, IssuesNamed
    <3> QED
      BY <3>1, <3>2 DEF Named
  <2>4. unnamed[w] \subseteq chosen[w]
    <3>1. CASE Cardinality(chosen[w]) = Batch
      <4>1. IsFiniteSet(unnamed[w])
        BY FS_Subset, RetentionAssumption DEF IInv, TypeOK
      <4>2. Cardinality(chosen[w]) = Cardinality(unnamed[w])
        BY <2>3, <3>1, <4>1, FS_Subset, FS_CardinalityType, RetentionAssumption
        DEF IInv, Bounded
      <4> QED
        BY <2>3, <4>1, <4>2, FS_Subset
    <3> QED
      BY <1>1, <2>1, <3>1 DEF StillDue
  <2> QED
    BY <1>5, <1>7, <2>1, <2>2, <2>4 DEF StillDue
<1>11. ASSUME w \notin disturbed PROVE AtRest(w)'
  <2>1. AtRest(w)
    BY <1>11 DEF IInv, Undisturbed
  <2>2. \A T : IsDoomed(T, w)' => T = chosen[w]
    BY <1>1, <1>7, <2>1, SameDoomed DEF IInv, AtRest
  <2>3. chosen[w] \cap imports = {}
    BY <1>1, <2>1 DEF AtRest, IsDoomed, DueIssues, Due, Existing, deleteExpiredIssues,
      Unreferenced
  <2> QED
    BY <1>1, <1>4, <1>5, <2>1, <2>2, <2>3 DEF AtRest, PurgeStepOf, rowVars, Past
<1> QED
  BY <1>3, <1>4, <1>5, <1>6, <1>8, <1>9, <1>10, <1>11, PurgerStep

(* A purge deletes events that are too old.                                *)
LEMMA DeleteEventsKeeps ==
  ASSUME IInv, NEW w \in Purger, deleteExpiredEvents(w)
  PROVE  IInv'
<1>1. PICK S \in SUBSET Expired(w) : erased' = [erased EXCEPT ![w] = S]
  BY DEF deleteExpiredEvents
<1>2. pc[w] = "events" /\ pc' = [pc EXCEPT ![w] = "purged"]
  BY DEF deleteExpiredEvents, Goto
<1>3. TypeOK'
  BY <1>1, <1>2, RetentionAssumption
  DEF IInv, TypeOK, deleteExpiredEvents, Expired, rowVars, ingestVars, worldVars, PC, Actor
<1>4. PurgeStepOf(w)
  BY <1>1, <1>2 DEF IInv, TypeOK, deleteExpiredEvents, PurgeStepOf, PurgeKept, worldVars, Actor
<1>5. /\ pc'[w] = "purged" /\ chosen' = chosen /\ unsent' = unsent /\ unnoted' = unnoted
      /\ unnamed' = unnamed /\ dead' = dead /\ at' = at /\ disturbed' = disturbed
  BY <1>2 DEF IInv, TypeOK, deleteExpiredEvents, worldVars, Actor
<1>6. PurgerFits(w)'
  BY <1>2, <1>4, <1>5 DEF IInv, Fits, PurgerFits, PurgeStepOf, After
<1>7. DueIssues(w)' = DueIssues(w) /\ \A T : IsDoomed(T, w)' <=> IsDoomed(T, w)
  BY <1>4, <1>5, DoomedKept DEF PurgeStepOf, rowVars
<1>8. Owns(w)'
  BY <1>4, <1>5, OwnsKept
<1>9. (Cardinality(chosen[w]) <= Batch /\ Cardinality(unnamed[w]) <= Batch)'
  BY <1>5 DEF IInv, Bounded
<1>10. ASSUME ~crossed PROVE StillDue(w)'
  BY <1>2, <1>5, <1>7, <1>10 DEF IInv, Uncrossed, StillDue
<1>11. ASSUME w \notin disturbed PROVE AtRest(w)'
  BY <1>2, <1>4, <1>5, <1>7, <1>11
  DEF IInv, Undisturbed, AtRest, PurgeStepOf, rowVars, Past
<1> QED
  BY <1>3, <1>4, <1>5, <1>6, <1>8, <1>9, <1>10, <1>11, PurgerStep

-----------------------------------------------------------------------------
(* Commits.                                                                *)

(* A purge that nobody has disturbed by now has not begun.                 *)
LEMMA CommitDisturbs ==
  ASSUME IInv,
         \A w \in Purger \ disturbed' : pc'[w] = "idle" /\ chosen'[w] = {}
  PROVE  Undisturbed'
BY DEF Undisturbed, AtRest

(* A comment is stored on the issue that is held.                          *)
LEMMA AddCommentKeeps ==
  ASSUME IInv, NEW c \in Operator, AddIssueComment(c)
  PROVE  IInv'
<1> USE RetentionAssumption
<1>1. /\ pc' = [pc EXCEPT ![c] = "done"] /\ target' = [target EXCEPT ![c] = NULL]
      /\ input' = [r \in Req |-> input[r]]
      /\ UNCHANGED <<event, issue, named, intents, imports, at, chosen, unsent, unnamed, dead,
                     erased, now, faults, crossed>>
  BY DEF AddIssueComment, Leave, Goto
<1>2. input' = input /\ pc'[c] = "done" /\ \A a \in Actor \ {c} : pc'[a] = pc[a]
  BY <1>1 DEF IInv, TypeOK, Actor
<1>3. \A a \in (Req \cup Operator) \ {c} : target'[a] = target[a]
  BY <1>1 DEF IInv, TypeOK
<1>4. TypeOK'
  <2>1. target[c] \in Req
    BY DEF IInv, Fits, OperatorFits, AddIssueComment
  <2>2. /\ notes' \subseteq Req /\ unnoted' \in [Purger -> SUBSET Req]
        /\ disturbed' \subseteq Purger
    BY <2>1 DEF IInv, TypeOK, AddIssueComment, Disturb
  <2>3. pc' \in [Actor -> PC] /\ target' \in [Req \cup Operator -> Req \cup {NULL}]
    BY <1>1 DEF IInv, TypeOK, PC
  <2>4. \A a \in Req \cup Operator : pc'[a] \in {"update", "commit", "note"} => target'[a] # NULL
    BY <1>2, <1>3 DEF IInv, TypeOK, Actor
  <2> QED
    BY <1>1, <1>2, <2>2, <2>3, <2>4 DEF IInv, TypeOK
<1>5. Fits'
  <2>1. \A r \in Req : RequestFits(r)'
    BY <1>1, <1>2, <1>3 DEF IInv, Fits, RequestFits, Creates, Active, Actor
  <2>2. \A d \in Operator : OperatorFits(d)'
    BY <1>1, <1>2, <1>3 DEF IInv, Fits, OperatorFits, Actor
  <2>3. \A w \in Purger : PurgerFits(w)'
    BY <1>1, <1>2 DEF IInv, Fits, PurgerFits, Actor
  <2> QED
    BY <2>1, <2>2, <2>3 DEF Fits
<1>6. Locked'
  BY <1>1, <1>2, <1>3 DEF IInv, Locked, Locking, Creates, Actor
<1>7. Resolved' /\ Deleted' /\ Bounded' /\ IssuesNamed' /\ Shown'
  BY <1>1 DEF IInv, Resolved, Deleted, Bounded, IssuesNamed, Shown, Named
<1>8. Uncrossed'
  BY <1>1, <1>2 DEF IInv, Uncrossed, StillDue, DueIssues, Due, Past, Actor
<1>9. Undisturbed'
  BY <1>1, <1>2, CommitDisturbs
  DEF IInv, Fits, PurgerFits, AddIssueComment, Disturb, Actor, After
<1> QED
  BY <1>4, <1>5, <1>6, <1>7, <1>8, <1>9 DEF IInv

(* What a request writes.                                                  *)
LEMMA CommitWrites ==
  ASSUME IInv, NEW r \in Req, Commit(r)
  PROVE  /\ input[r] \in Input /\ input[r].occurred <= now /\ target[r] \in Req
         /\ issue[r] = NULL /\ event[r] = NULL
         /\ pc' = [pc EXCEPT ![r] = "done"] /\ target' = [target EXCEPT ![r] = NULL]
         /\ \A s \in Req \ {r} : input'[s] = input[s]
         /\ event' = [event EXCEPT ![r] = NewEvent(r)]
         /\ \A i \in Req \ {target[r]} : issue'[i] = issue[i]
         /\ Creates(r) => /\ issue'[r] = NewIssue(r) /\ named[input[r].group] = NULL
                          /\ named' = [named EXCEPT ![input[r].group] = r]
         /\ ~Creates(r) =>
              /\ issue[target[r]] \in IssueRow /\ pc[target[r]] = "done"
              /\ issue[target[r]].group = input[r].group
              /\ issue'[target[r]] = Refreshed(target[r], r)
              /\ named' = named
<1>1. pc[r] = "commit"
  BY DEF Commit
<1>2. input[r] \in Input /\ input[r].occurred <= now /\ target[r] \in Req
  BY <1>1 DEF IInv, Fits, RequestFits, Active
<1>3. issue[r] = NULL /\ event[r] = NULL
  BY <1>1 DEF IInv, Fits, RequestFits
<1>4. /\ pc' = [pc EXCEPT ![r] = "done"] /\ target' = [target EXCEPT ![r] = NULL]
      /\ \A s \in Req \ {r} : input'[s] = input[s]
  BY DEF Commit, Leave, Goto
<1>5. \A i \in Req \ {target[r]} : issue'[i] = issue[i]
  BY <1>2 DEF IInv, TypeOK, Commit
<1>6. ASSUME Creates(r)
      PROVE  /\ issue'[r] = NewIssue(r) /\ named[input[r].group] = NULL
             /\ named' = [named EXCEPT ![input[r].group] = r]
  BY <1>1, <1>6 DEF IInv, TypeOK, Locked, Commit, Creates
<1>7. ASSUME ~Creates(r)
      PROVE  /\ issue[target[r]] \in IssueRow /\ pc[target[r]] = "done"
             /\ issue[target[r]].group = input[r].group
             /\ issue'[target[r]] = Refreshed(target[r], r)
             /\ named' = named
  <2>1. issue[target[r]] # NULL /\ pc[target[r]] = "done"
        /\ issue[target[r]].group = input[r].group
    BY <1>1, <1>7 DEF IInv, Fits, RequestFits
  <2>2. issue[target[r]] \in IssueRow
    BY <1>2, <2>1 DEF IInv, TypeOK
  <2>3. issue'[target[r]] = Refreshed(target[r], r)
    BY <1>2, <1>7 DEF IInv, TypeOK, Commit
  <2> QED
    BY <1>7, <2>1, <2>2, <2>3 DEF Commit
<1> QED
  BY <1>2, <1>3, <1>4, <1>5, <1>6, <1>7 DEF Commit

(* The issue that a request creates is of the group and time of its        *)
(* event.                                                                  *)
LEMMA NewIssueRow ==
  ASSUME IInv, NEW r \in Req, Commit(r)
  PROVE  /\ input[r].group \in Fingerprint /\ input[r].occurred \in Nat
         /\ NewIssue(r) \in IssueRow /\ NewIssue(r) # NULL
         /\ NewIssue(r).group = input[r].group /\ NewIssue(r).seen = input[r].occurred
<1>1. input[r].group \in Fingerprint /\ input[r].occurred \in Nat
  BY CommitWrites DEF Input
<1>2. NewIssue(r) \in IssueRow
  BY <1>1 DEF IInv, TypeOK, NewIssue, IssueRow
<1> QED
  BY <1>1, <1>2, RetentionAssumption DEF NewIssue

(* Issues and fingerprints outlive the commit of a request.                *)
LEMMA CommitPreserves ==
  ASSUME IInv, NEW r \in Req, Commit(r)
  PROVE  /\ \A i \in Req : issue[i] # NULL =>
              /\ i # r /\ issue'[i] # NULL /\ issue'[i].group = issue[i].group
              /\ issue'[i].seen \in Nat /\ issue'[i].seen >= issue[i].seen
         /\ \A i \in Req \ {r} : issue[i] = NULL => issue'[i] = NULL
         /\ \A g \in Fingerprint : named[g] # NULL => named'[g] = named[g]
         /\ \A i \in Req : i # r => (Named(i)' <=> Named(i))
         /\ issue' \in [Req -> IssueRow \cup {NULL}]
<1> USE RetentionAssumption
<1>1. ASSUME NEW i \in Req, issue[i] # NULL
      PROVE  /\ i # r /\ issue'[i] # NULL /\ issue'[i].group = issue[i].group
             /\ issue'[i].seen \in Nat /\ issue'[i].seen >= issue[i].seen
             /\ issue'[i] \in IssueRow
  <2>1. i # r /\ issue[i] \in IssueRow /\ issue[i].seen \in Nat
    BY <1>1, CommitWrites DEF IInv, TypeOK, IssueRow
  <2>2. CASE i # target[r]
    BY <2>1, <2>2, <1>1, CommitWrites
  <2>3. CASE i = target[r]
    <3>1. issue'[i] = Refreshed(i, r) /\ input[r].occurred \in Nat
      BY <2>1, <2>3, CommitWrites DEF Creates, Input
    <3>2. /\ Refreshed(i, r) \in IssueRow /\ Refreshed(i, r).group = issue[i].group
          /\ Refreshed(i, r).seen = Later(issue[i].seen, input[r].occurred)
      BY <2>1, <3>1 DEF Refreshed, IssueRow, Later
    <3> QED
      BY <2>1, <3>1, <3>2 DEF Later
  <2> QED
    BY <2>2, <2>3
<1>2. \A i \in Req \ {r} : issue[i] = NULL => issue'[i] = NULL
  BY CommitWrites DEF Creates
<1>3. \A g \in Fingerprint : named[g] # NULL => named'[g] = named[g]
  BY CommitWrites DEF IInv, TypeOK
<1>4. \A i \in Req : i # r => (Named(i)' <=> Named(i))
  <2>1. \A g \in Fingerprint : named'[g] # named[g] => named[g] = NULL /\ named'[g] = r
    BY CommitWrites DEF IInv, TypeOK
  <2> QED
    BY <2>1 DEF Named
<1>5. issue'[r] \in IssueRow \cup {NULL}
  <2>1. CASE Creates(r)
    BY <2>1, CommitWrites, NewIssueRow
  <2>2. CASE ~Creates(r)
    BY <2>2, CommitWrites DEF Creates
  <2> QED
    BY <2>1, <2>2
<1>6. issue' \in [Req -> IssueRow \cup {NULL}]
  <2>1. \A i \in Req : issue'[i] \in IssueRow \cup {NULL}
    BY <1>1, <1>2, <1>5
  <2>2. issue' = [i \in Req |-> issue'[i]]
    BY DEF IInv, TypeOK, Commit
  <2> QED
    BY <2>1, <2>2
<1> QED
  BY <1>1, <1>2, <1>3, <1>4, <1>6

(* A request commits: its event is shown by the issue it holds or          *)
(* creates.                                                                *)
LEMMA CommitKeeps ==
  ASSUME IInv, NEW r \in Req, Commit(r)
  PROVE  IInv'
<1> USE RetentionAssumption
<1> DEFINE g == input[r].group
           t == target[r]
<1>1. /\ pc[r] = "commit" /\ pc'[r] = "done" /\ \A a \in Actor \ {r} : pc'[a] = pc[a]
      /\ \A a \in (Req \cup Operator) \ {r} : target'[a] = target[a]
      /\ \A s \in Req \ {r} : input'[s] = input[s]
      /\ UNCHANGED <<notes, at, purgeVars, now, faults>>
      /\ g \in Fingerprint /\ input[r].occurred \in Nat /\ t \in Req
  <2>1. pc[r] = "commit" /\ UNCHANGED <<notes, at, purgeVars, now, faults>>
    BY DEF Commit
  <2>2. pc'[r] = "done" /\ \A a \in Actor \ {r} : pc'[a] = pc[a]
    BY CommitWrites DEF IInv, TypeOK, Actor
  <2>3. \A a \in (Req \cup Operator) \ {r} : target'[a] = target[a]
    BY CommitWrites DEF IInv, TypeOK
  <2> QED
    BY <2>1, <2>2, <2>3, CommitWrites, NewIssueRow
<1>2. TypeOK'
  <2>1. event' \in [Req -> EventRow \cup {NULL}]
    BY CommitWrites DEF IInv, TypeOK, NewEvent, EventRow, Input
  <2>2. named' \in [Fingerprint -> Req \cup {NULL}] /\ issue' \in [Req -> IssueRow \cup {NULL}]
    BY CommitWrites, CommitPreserves DEF IInv, TypeOK
  <2>3. intents' \subseteq Dest \X Req /\ imports' \subseteq Req
    BY <1>1 DEF IInv, TypeOK, Commit
  <2>4. pc' \in [Actor -> PC] /\ target' \in [Req \cup Operator -> Req \cup {NULL}]
    <3>1. pc' = [pc EXCEPT ![r] = "done"] /\ target' = [target EXCEPT ![r] = NULL]
      BY CommitWrites
    <3> QED
      BY <3>1 DEF IInv, TypeOK, PC
  <2>5. input' \in [Req -> Input \cup {NULL}]
    BY DEF IInv, TypeOK, Commit, Leave
  <2>6. \A a \in Req \cup Operator : pc'[a] \in {"update", "commit", "note"} => target'[a] # NULL
    BY <1>1 DEF IInv, TypeOK, Actor
  <2>7. disturbed' \subseteq Purger /\ crossed' \in BOOLEAN
    BY DEF IInv, TypeOK, Commit, Disturb
  <2> QED
    BY <1>1, <2>1, <2>2, <2>3, <2>4, <2>5, <2>6, <2>7 DEF IInv, TypeOK, purgeVars
<1>3. Fits'
  <2>1. ASSUME NEW s \in Req \ {r} PROVE RequestFits(s)'
    <3>1. pc'[s] = pc[s] /\ target'[s] = target[s] /\ input'[s] = input[s] /\ event'[s] = event[s]
      BY <1>1, CommitWrites DEF IInv, TypeOK, Actor
    <3>2. RequestFits(s)
      BY DEF IInv, Fits
    <3>3. \A i \in Req : pc[i] = "done" =>
            /\ i # r /\ pc'[i] = "done"
            /\ issue'[i] # NULL => issue[i] # NULL /\ issue'[i].group = issue[i].group
      BY <1>1, CommitPreserves DEF Actor
    <3>4. issue'[s] # NULL => issue[s] # NULL
      BY CommitPreserves
    <3> QED
      BY <1>1, <3>1, <3>2, <3>3, <3>4, CommitPreserves DEF RequestFits, Creates, Active
  <2>2. RequestFits(r)'
    BY <1>1 DEF RequestFits, Active
  <2>3. \A c \in Operator : OperatorFits(c)'
    BY <1>1, CommitPreserves DEF IInv, Fits, OperatorFits, Actor
  <2>4. \A w \in Purger : PurgerFits(w)'
    BY <1>1 DEF IInv, Fits, PurgerFits, Actor, purgeVars
  <2> QED
    BY <2>1, <2>2, <2>3, <2>4 DEF Fits
<1>4. Resolved'
  <2>1. CASE Creates(r)
    <3>1. issue'[r] # NULL /\ issue'[r].group = g
      BY <2>1, CommitWrites, NewIssueRow
    <3> QED
      BY <2>1, <3>1, CommitWrites, CommitPreserves DEF IInv, TypeOK, Resolved
  <2>2. CASE ~Creates(r)
    BY <2>2, CommitWrites, CommitPreserves DEF IInv, TypeOK, Resolved
  <2> QED
    BY <2>1, <2>2
<1>5. Locked'
  <2>1. \A a, b \in Req \cup Operator :
          a # b /\ pc'[a] \in Locking /\ pc'[b] \in Locking => target'[a] # target'[b]
    BY <1>1 DEF IInv, Locked, Locking, Actor
  <2>2. \A a \in Req \cup Operator, w \in Purger : pc'[a] \in Locking => target'[a] \notin dead'[w]
    BY <1>1 DEF IInv, Locked, Locking, Actor, purgeVars
  <2>3. \A s \in Req : pc'[s] = "commit" /\ Creates(s)' =>
          /\ s # r /\ pc[s] = "commit" /\ Creates(s) /\ input'[s] = input[s]
          /\ input[s].group \in Fingerprint
    BY <1>1 DEF IInv, Fits, RequestFits, Creates, Actor, Active, Input
  <2>4. \A s \in Req : pc'[s] = "commit" /\ Creates(s)' => named'[input'[s].group] = NULL
    BY <1>1, <2>3, CommitWrites DEF IInv, TypeOK, Locked
  <2> QED
    BY <2>1, <2>2, <2>3, <2>4 DEF IInv, Locked
<1>6. \A w \in Purger : t \notin dead[w] /\ r \notin dead[w] \cup unnamed[w]
  <2>1. \A w \in Purger : t \notin dead[w]
    BY <1>1 DEF IInv, Locked, Locking
  <2>2. ~Named(r)
    BY CommitWrites DEF IInv, Resolved, Named
  <2> QED
    BY <2>1, <2>2, CommitWrites DEF IInv, Deleted
<1>7. Deleted'
  <2>1. \A w \in Purger : unnamed[w] \subseteq Req /\ dead[w] \subseteq Req
    BY DEF IInv, TypeOK
  <2> QED
    BY <1>1, <1>6, <2>1, CommitPreserves DEF IInv, Deleted, purgeVars
<1>8. ASSUME ~crossed', NEW w \in Purger PROVE StillDue(w)'
  <2>1. StillDue(w) /\ t \notin chosen[w] \cup unnamed[w]
    BY <1>8 DEF IInv, Uncrossed, Commit
  <2>2. \A i \in Req \ {t} : i \in DueIssues(w)' <=> i \in DueIssues(w)
    BY <1>1, CommitWrites DEF DueIssues, Due, Past
  <2>3. DueIssues(w) \subseteq Req
    BY DEF DueIssues
  <2> QED
    BY <1>1, <1>6, <2>1, <2>2, <2>3 DEF StillDue, Actor, purgeVars
<1>9. Bounded'
  BY <1>1 DEF IInv, Bounded, purgeVars
<1>10. ASSUME ~crossed' PROVE \A i \in Req : issue'[i] # NULL => named'[issue'[i].group] = i
  <2> SUFFICES ASSUME NEW i \in Req, issue'[i] # NULL
               PROVE  named'[issue'[i].group] = i
    OBVIOUS
  <2>1. IssuesNamed /\ ~crossed
    BY <1>10 DEF IInv, Commit
  <2>2. CASE issue[i] # NULL
    <3>1. named[issue[i].group] = i /\ issue[i].group \in Fingerprint
      BY <2>1, <2>2 DEF IInv, TypeOK, IssuesNamed, IssueRow
    <3> QED
      BY <2>2, <3>1, CommitPreserves
  <2>3. CASE issue[i] = NULL
    <3>1. i = r /\ Creates(r)
      BY <2>3, CommitPreserves, CommitWrites DEF Creates
    <3> QED
      BY <3>1, CommitWrites, NewIssueRow DEF IInv, TypeOK
  <2> QED
    BY <2>2, <2>3
<1>11. ASSUME ~crossed', NEW e \in Req, event'[e] # NULL
       PROVE  \/ /\ named'[event'[e].group] # NULL
                 /\ event'[e].occurred <= issue'[named'[event'[e].group]].seen
              \/ event'[e].occurred + EventAge < now'
  <2>0. ~crossed
    BY <1>11 DEF Commit
  <2>1. CASE e # r
    <3>1. event'[e] = event[e] /\ event[e] \in EventRow
      BY <1>11, <2>1, CommitWrites DEF IInv, TypeOK
    <3>2. event[e].group \in Fingerprint /\ event[e].occurred \in Nat
      BY <3>1 DEF EventRow
    <3>3. CASE /\ named[event[e].group] # NULL
               /\ event[e].occurred <= issue[named[event[e].group]].seen
      <4> DEFINE i == named[event[e].group]
      <4>1. i \in Req /\ issue[i] # NULL /\ named'[event[e].group] = i
        BY <3>2, <3>3, CommitPreserves DEF IInv, TypeOK, Resolved
      <4>2. issue[i].seen \in Nat /\ issue'[i].seen \in Nat /\ issue'[i].seen >= issue[i].seen
        BY <4>1, CommitPreserves DEF IInv, TypeOK, IssueRow
      <4> QED
        BY <3>1, <3>2, <3>3, <4>1, <4>2
    <3> QED
      BY <1>1, <2>0, <3>1, <3>3 DEF IInv, Shown
  <2>2. CASE e = r
    <3>1. event'[e].group = g /\ event'[e].occurred = input[r].occurred
      BY <2>2, CommitWrites DEF IInv, TypeOK, NewEvent
    <3>2. CASE Creates(r)
      <4>1. named'[g] = r /\ issue'[r].seen = input[r].occurred
        BY <3>2, CommitWrites, NewIssueRow DEF IInv, TypeOK
      <4> QED
        BY <1>1, <3>1, <4>1
    <3>3. CASE ~Creates(r)
      <4>1. named[g] = t /\ named'[g] = t
        BY <1>1, <2>0, <3>3, CommitWrites DEF IInv, IssuesNamed
      <4>2. issue'[t].seen = Later(issue[t].seen, input[r].occurred) /\ issue[t].seen \in Nat
        <5>1. issue[t] \in IssueRow /\ issue'[t] = Refreshed(t, r)
          BY <3>3, CommitWrites
        <5> QED
          BY <5>1 DEF Refreshed, IssueRow
      <4> QED
        BY <1>1, <3>1, <4>1, <4>2 DEF Later
    <3> QED
      BY <3>2, <3>3
  <2> QED
    BY <2>1, <2>2
<1>12. Undisturbed'
  BY <1>1, CommitDisturbs DEF IInv, Fits, PurgerFits, Commit, Disturb, Actor, After, purgeVars
<1>13. Uncrossed' /\ IssuesNamed' /\ Shown'
  BY <1>8, <1>10, <1>11 DEF Uncrossed, IssuesNamed, Shown
<1> QED
  BY <1>2, <1>3, <1>4, <1>5, <1>7, <1>9, <1>12, <1>13 DEF IInv

(* A purge commits: what it has deleted is gone at once.                   *)
LEMMA PurgeKeeps ==
  ASSUME IInv, NEW w \in Purger, PurgeExpiredProjectData(w)
  PROVE  IInv'
<1> USE RetentionAssumption
<1>1. /\ pc[w] = "purged" /\ pc'[w] = "idle" /\ \A a \in Actor \ {w} : pc'[a] = pc[a]
      /\ chosen'[w] = {} /\ unnamed'[w] = {} /\ dead'[w] = {} /\ at'[w] = 0
      /\ UNCHANGED <<ingestVars, now>>
  BY DEF IInv, TypeOK, PurgeExpiredProjectData, Reset, Goto, Actor
<1>2. \A v \in Purger \ {w} : PurgeKept(v)
  BY DEF IInv, TypeOK, PurgeExpiredProjectData, Reset, Goto, PurgeKept, Actor
<1>3. /\ event' = [e \in Req |-> IF e \in erased[w] THEN NULL ELSE event[e]]
      /\ issue' = [i \in Req |-> IF i \in dead[w] THEN NULL ELSE issue[i]]
      /\ named' = [g \in Fingerprint |-> IF named[g] \in unnamed[w] THEN NULL ELSE named[g]]
  BY DEF PurgeExpiredProjectData
<1>4. TypeOK'
  <2>1. /\ event' \in [Req -> EventRow \cup {NULL}] /\ issue' \in [Req -> IssueRow \cup {NULL}]
        /\ named' \in [Fingerprint -> Req \cup {NULL}]
        /\ intents' \subseteq Dest \X Req /\ notes' \subseteq Req
    BY <1>3 DEF IInv, TypeOK, PurgeExpiredProjectData
  <2>2. /\ pc' \in [Actor -> PC] /\ at' \in [Purger -> Nat]
        /\ chosen' \in [Purger -> SUBSET Req] /\ unsent' \in [Purger -> SUBSET (Dest \X Req)]
        /\ unnoted' \in [Purger -> SUBSET Req] /\ unnamed' \in [Purger -> SUBSET Req]
        /\ dead' \in [Purger -> SUBSET Req] /\ erased' \in [Purger -> SUBSET Req]
    BY DEF IInv, TypeOK, PurgeExpiredProjectData, Reset, Goto, PC
  <2>3. disturbed' \subseteq Purger /\ crossed' \in BOOLEAN
    BY DEF IInv, TypeOK, PurgeExpiredProjectData
  <2> QED
    BY <1>1, <2>1, <2>2, <2>3
    DEF IInv, TypeOK, PurgeExpiredProjectData, ingestVars, Actor
<1>5. \A i \in Req \ dead[w] : issue'[i] = issue[i]
  BY <1>3
<1>6. \A i \in Req : issue'[i] # NULL => issue'[i] = issue[i] /\ i \notin dead[w]
  BY <1>3
<1>7. \A g \in Fingerprint : named'[g] # NULL => named'[g] = named[g] /\ named[g] \notin unnamed[w]
  BY <1>3
<1>8. \A a \in Req \cup Operator : pc[a] \in Locking => target[a] \notin dead[w]
  BY DEF IInv, Locked
<1>9. Fits'
  <2>1. \A r \in Req : RequestFits(r)'
    <3> SUFFICES ASSUME NEW r \in Req PROVE RequestFits(r)'
      OBVIOUS
    <3>1. /\ RequestFits(r) /\ \A s \in Req : pc'[s] = pc[s]
          /\ event'[r] # NULL => event[r] # NULL
      BY <1>1, <1>3 DEF IInv, Fits, Actor
    <3>2. pc[r] = "commit" => target[r] \in Req \ dead[w]
      BY <1>8, <3>1 DEF RequestFits, Locking
    <3> QED
      BY <1>1, <1>5, <1>6, <3>1, <3>2 DEF RequestFits, Creates, ingestVars
  <2>2. \A c \in Operator : OperatorFits(c)'
    BY <1>1, <1>5, <1>8 DEF IInv, Fits, OperatorFits, Locking, Actor, ingestVars
  <2>3. \A v \in Purger \ {w} : PurgerFits(v)'
    <3>1. now \in Nat /\ now' = now /\ at \in [Purger -> Nat]
      BY <1>1 DEF IInv, TypeOK
    <3> QED
      BY <1>2, <3>1, PurgerFitsKept DEF IInv, Fits
  <2>4. PurgerFits(w)'
    BY <1>1 DEF IInv, TypeOK, PurgerFits
  <2> QED
    BY <2>1, <2>2, <2>3, <2>4 DEF Fits
<1>10. \A i \in dead[w] : ~Named(i)'
  BY <1>7, <1>1 DEF IInv, Deleted, Named, TypeOK
<1>11. Resolved'
  <2> SUFFICES ASSUME NEW g \in Fingerprint, named'[g] # NULL
               PROVE  issue'[named'[g]] # NULL /\ issue'[named'[g]].group = g
    BY DEF Resolved
  <2>1. named'[g] = named[g] /\ named[g] \in Req \ dead[w]
    BY <1>7, <1>10 DEF IInv, TypeOK, Named
  <2> QED
    BY <1>5, <2>1 DEF IInv, Resolved
<1>12. Locked'
  <2>1. \A a \in Req \cup Operator : pc'[a] = pc[a] /\ target'[a] = target[a]
    BY <1>1 DEF Actor, ingestVars
  <2>2. \A v \in Purger : dead'[v] \subseteq dead[v]
    BY <1>1, <1>2 DEF PurgeKept
  <2>3. \A r \in Req : pc'[r] = "commit" /\ Creates(r)' =>
          pc[r] = "commit" /\ Creates(r) /\ input' = input /\ input[r].group \in Fingerprint
    BY <1>1, <2>1 DEF IInv, Fits, RequestFits, Creates, Active, Input, ingestVars
  <2>4. \A r \in Req : pc'[r] = "commit" /\ Creates(r)' => named'[input'[r].group] = NULL
    BY <1>7, <2>3 DEF IInv, Locked
  <2> QED
    BY <2>1, <2>2, <2>3, <2>4 DEF IInv, Locked
<1>13. ASSUME NEW v \in Purger \ {w}
       PROVE  /\ dead'[v] = dead[v] /\ unnamed'[v] = unnamed[v]
              /\ dead[v] \cap dead[w] = {} /\ unnamed[v] \cap dead[w] = {}
              /\ \A i \in unnamed[v] : Named(i)'
              /\ \A i \in Req : Named(i)' => Named(i)
  <2>1. /\ dead'[v] = dead[v] /\ unnamed'[v] = unnamed[v]
        /\ dead[v] \cap dead[w] = {} /\ unnamed[v] \cap unnamed[w] = {}
        /\ \A i \in unnamed[v] : Named(i)
    BY <1>2 DEF IInv, Deleted, PurgeKept
  <2>2. unnamed[v] \cap dead[w] = {}
    BY <2>1 DEF IInv, Deleted
  <2>3. \A i \in unnamed[v] : Named(i)'
    BY <1>3, <2>1 DEF Named
  <2>4. \A i \in Req : Named(i)' => Named(i)
    BY <1>7 DEF Named
  <2> QED
    BY <2>1, <2>2, <2>3, <2>4
<1>14. Deleted'
  <2>1. \A v \in Purger : dead[v] \subseteq Req
    BY DEF IInv, TypeOK
  <2>2. \A u, v \in Purger : u # v =>
          dead'[u] \cap dead'[v] = {} /\ unnamed'[u] \cap unnamed'[v] = {}
    BY <1>1, <1>13 DEF IInv, Deleted
  <2>3. \A v \in Purger \ {w} : \A i \in dead'[v] :
          issue'[i] # NULL /\ (Named(i)' => i \in unnamed'[v])
    BY <1>5, <1>13, <2>1 DEF IInv, Deleted
  <2> QED
    BY <1>1, <1>13, <2>2, <2>3 DEF Deleted
<1>15. Uncrossed'
  <2> SUFFICES ASSUME ~crossed', NEW v \in Purger PROVE StillDue(v)'
    BY DEF Uncrossed
  <2>1. ~crossed /\ \A u \in Purger \ {w} : dead[w] \cap chosen[u] = {}
    BY DEF PurgeExpiredProjectData, IInv, TypeOK
  <2>2. CASE v = w
    BY <1>1, <2>2 DEF StillDue
  <2>3. CASE v # w
    <3>1. StillDue(v) /\ PurgeKept(v)
      BY <1>2, <2>1, <2>3 DEF IInv, Uncrossed
    <3>2. \A i \in DueIssues(v) \ dead[w] : i \in DueIssues(v)'
      BY <1>5, <3>1 DEF DueIssues, Due, Past, PurgeKept
    <3>3. (chosen[v] \cup unnamed[v] \cup dead[v]) \cap dead[w] = {}
      BY <1>13, <2>1, <2>3
    <3> QED
      BY <3>1, <3>2, <3>3 DEF StillDue, PurgeKept
  <2> QED
    BY <2>2, <2>3
<1>16. Bounded'
  <2>1. \A v \in Purger \ {w} : chosen'[v] = chosen[v] /\ unnamed'[v] = unnamed[v]
    BY <1>2 DEF PurgeKept
  <2>2. chosen'[w] = {} /\ unnamed'[w] = {} /\ Cardinality({}) <= Batch
    BY <1>1, FS_EmptySet
  <2> QED
    BY <2>1, <2>2 DEF IInv, Bounded
<1>17. IssuesNamed'
  <2> SUFFICES ASSUME ~crossed', NEW i \in Req, issue'[i] # NULL
               PROVE  named'[issue'[i].group] = i
    BY DEF IssuesNamed
  <2>1. ~crossed /\ unnamed[w] \subseteq dead[w]
    BY <1>1 DEF IInv, Uncrossed, StillDue, PurgeExpiredProjectData
  <2>2. issue'[i] = issue[i] /\ i \notin unnamed[w]
    BY <1>6, <2>1
  <2>3. named[issue[i].group] = i /\ issue[i].group \in Fingerprint
    BY <2>1, <2>2 DEF IInv, TypeOK, IssuesNamed, IssueRow
  <2> QED
    BY <1>3, <2>2, <2>3
<1>18. Shown'
  <2> SUFFICES ASSUME ~crossed', NEW e \in Req, event'[e] # NULL
               PROVE  \/ /\ named'[event'[e].group] # NULL
                         /\ event'[e].occurred <= issue'[named'[event'[e].group]].seen
                      \/ event'[e].occurred + EventAge < now'
    BY DEF Shown
  <2> DEFINE i == named[event[e].group]
  <2>1. ~crossed /\ event'[e] = event[e] /\ event[e] # NULL
    BY <1>3 DEF PurgeExpiredProjectData
  <2>2. event[e].group \in Fingerprint /\ event[e].occurred \in Nat
    BY <2>1 DEF IInv, TypeOK, EventRow
  <2>3. CASE i # NULL /\ event[e].occurred <= issue[i].seen /\ i \in unnamed[w]
    <3>1. i \in DueIssues(w)
      BY <1>1, <2>1, <2>3 DEF IInv, Uncrossed, StillDue
    <3>2. issue[i].seen \in Nat /\ issue[i].seen + EventAge < at[w] /\ at[w] <= now
      BY <3>1 DEF IInv, TypeOK, Fits, PurgerFits, DueIssues, Due, Past, IssueRow
    <3> QED
      BY <1>1, <2>1, <2>2, <2>3, <3>2 DEF IInv, TypeOK
  <2>4. CASE i # NULL /\ event[e].occurred <= issue[i].seen /\ i \notin unnamed[w]
    <3>1. named'[event[e].group] = i
      BY <1>3, <2>2, <2>4
    <3>2. i \in Req \ dead[w]
      BY <1>10, <2>2, <2>4, <3>1 DEF IInv, TypeOK, Named
    <3> QED
      BY <1>5, <2>1, <2>4, <3>1, <3>2
  <2>5. CASE event[e].occurred + EventAge < now
    BY <1>1, <2>1, <2>5
  <2> QED
    BY <2>1, <2>3, <2>4, <2>5 DEF IInv, Shown
<1>19. Undisturbed'
  BY <1>1, <1>2, CommitDisturbs
  DEF IInv, Fits, PurgerFits, PurgeExpiredProjectData, PurgeKept, After
<1> QED
  BY <1>4, <1>9, <1>11, <1>12, <1>14, <1>15, <1>16, <1>17, <1>18, <1>19 DEF IInv

-----------------------------------------------------------------------------
(* The invariant holds in every state.                                     *)

(* Every step keeps the invariant.                                         *)
LEMMA Step == IInv /\ [Next]_vars => IInv'
<1> SUFFICES ASSUME IInv, [Next]_vars PROVE IInv'
  OBVIOUS
<1>1. CASE UNCHANGED vars
  <2>1. \A w \in Purger : PurgeKept(w)
    BY <1>1 DEF vars, purgeVars, PurgeKept
  <2>2. UNCHANGED rowVars /\ disturbed' = disturbed /\ crossed' = crossed
    BY <1>1 DEF vars, worldVars
  <2>3. Uncrossed' /\ Undisturbed'
    BY <2>1, <2>2, StillDueKept, AtRestKept DEF IInv, Uncrossed, Undisturbed
  <2>4. TypeOK' /\ Fits'
    BY <1>1 DEF IInv, TypeOK, Fits, RequestFits, OperatorFits, PurgerFits, Creates, vars,
      rowVars, ingestVars, purgeVars, worldVars
  <2>5. Resolved' /\ Locked' /\ Deleted' /\ Bounded' /\ IssuesNamed' /\ Shown'
    BY <1>1 DEF IInv, Resolved, Locked, Deleted, Bounded, IssuesNamed, Shown, Named, Creates,
      vars, rowVars, ingestVars, purgeVars, worldVars
  <2> QED
    BY <2>3, <2>4, <2>5 DEF IInv
<1>2. ASSUME NEW r \in Req, findIssueByFingerprint(r) \/ IngestStep(r) \/ Abort(r)
      PROVE  IInv'
  BY <1>2, FindIssueKeeps, UpdateIssueKeeps, CreateIssueKeeps, FindExistingIssueKeeps,
    CommitKeeps, AbortKeeps DEF IngestStep
<1>3. ASSUME NEW c \in Operator,
             lockIssueForComment(c) \/ AddIssueComment(c) \/ AddCommentFails(c)
      PROVE  IInv'
  BY <1>3, LockForCommentKeeps, AddCommentKeeps, CommentFailsKeeps
<1>4. ASSUME NEW w \in Purger, PurgeStep(w) \/ StopPurge(w)
      PROVE  IInv'
  BY <1>4, RetentionTaskKeeps, DeleteDeliveriesKeeps, ChooseDoomedKeeps, DeleteNotesKeeps,
    DeleteFingerprintsKeeps, DeleteIssuesKeeps, DeleteEventsKeeps, FailPurgeKeeps, PurgeKeeps,
    StopPurgeKeeps DEF PurgeStep
<1> QED
  BY <1>1, <1>2, <1>3, <1>4, TickKeeps DEF Next

(* The invariant holds throughout.                                         *)
LEMMA Invariant == Spec => []IInv
BY Initially, Step, PTL DEF Spec

-----------------------------------------------------------------------------
(* Theorems.                                                               *)

(* Rows and the memory of transactions keep their types.                   *)
THEOREM TypeCorrect == Spec => []TypeOK
<1>1. IInv => TypeOK
  BY DEF IInv
<1> QED
  BY <1>1, Invariant, PTL

(* As long as no transaction changes an issue that a purge has chosen, no  *)
(* issue is left without its fingerprint: the three statements that choose *)
(* issues cannot part (deleteStaleIssueReferences, deleteExpiredIssues).   *)
THEOREM IssuesStayNamed == Spec => []IssuesNamed
<1>1. IInv => IssuesNamed
  BY DEF IInv
<1> QED
  BY <1>1, Invariant, PTL

(* Under the same condition no event younger than the retention loses the  *)
(* issue that shows it (deleteExpiredIssues).                              *)
THEOREM YoungEventsStayShown == Spec => []YoungEventsShown
<1>1. IInv => YoungEventsShown
  <2> SUFFICES ASSUME IInv, ~crossed, NEW e \in Req, event[e] # NULL,
                      event[e].occurred + EventAge >= now
               PROVE  named[event[e].group] # NULL
    BY DEF YoungEventsShown
  <2>1. event[e].occurred \in Nat /\ now \in Nat
    BY DEF IInv, TypeOK, EventRow
  <2> QED
    BY <2>1, RetentionAssumption DEF IInv, Shown
<1> QED
  BY <1>1, Invariant, PTL

(* A purge nobody disturbs fails only for an imported issue or for intents *)
(* its batch leaves behind: the order of the deletes and the sparing of    *)
(* last events satisfy every other foreign key (purgeExpiredProjectData).  *)
THEOREM FailuresAreExplained == Spec => []FailuresExplained
<1>1. IInv => FailuresExplained
  <2> SUFFICES ASSUME IInv, NEW w \in Purger \ disturbed
               PROVE  /\ IssuesReferenced(w) =>
                           \E i \in chosen[w] : i \in imports \/ LeftIntent(i, w)
                      /\ EventsReferenced(w) => \E e \in Req : LeftIntent(e, w)
    BY DEF FailuresExplained
  <2>1. AtRest(w)
    BY DEF IInv, Undisturbed
  <2>2. ASSUME pc[w] \in {"issues", "events"}, NEW i \in Req, Unsettled(i, w) # {}
        PROVE  LeftIntent(i, w)
    <3>1. PICK d \in Unsettled(i, w) : TRUE
      BY <2>2
    <3>2. <<d, i>> \in intents \ unsent[w]
      BY <3>1 DEF Unsettled
    <3> DEFINE n == <<d, i>>
    <3>3. Past(issue[n[2]].opened, DeliveryAge, w) => Cardinality(unsent[w]) = Batch
      BY <2>1, <2>2, <3>2 DEF AtRest
    <3> QED
      BY <3>1, <3>3 DEF LeftIntent
  <2>3. ASSUME IssuesReferenced(w)
        PROVE  \E i \in chosen[w] : i \in imports \/ LeftIntent(i, w)
    <3>1. pc[w] = "issues" /\ chosen[w] # {} /\ \E i \in Existing(w) : ~Unreferenced(i, w)
      BY <2>3 DEF IssuesReferenced
    <3>2. PICK i \in Existing(w) : ~Unreferenced(i, w)
      BY <3>1
    <3>3. i \in chosen[w] /\ i \in Req /\ chosen[w] \in SUBSET Req /\ IsDoomed(chosen[w], w)
      BY <2>1, <3>1 DEF IInv, TypeOK, Existing, AtRest
    <3>4. (i \in notes => i \in unnoted[w]) /\ (Named(i) => i \in unnamed[w])
      BY <2>1, <3>1, <3>3 DEF AtRest
    <3> QED
      BY <2>2, <3>1, <3>2, <3>3, <3>4 DEF Unreferenced
  <2>4. ASSUME EventsReferenced(w)
        PROVE  \E e \in Req : LeftIntent(e, w)
    <3>1. pc[w] = "events" /\ \E e \in Expired(w) : ~EventUnreferenced(e, w)
      BY <2>4 DEF EventsReferenced
    <3>2. PICK e \in Expired(w) : ~EventUnreferenced(e, w)
      BY <3>1
    <3>3. e \in Req /\ Unsettled(e, w) # {}
      BY <3>2 DEF Expired, Spare, EventUnreferenced
    <3> QED
      BY <2>2, <3>1, <3>3
  <2> QED
    BY <2>3, <2>4
<1> QED
  BY <1>1, Invariant, PTL

(* A purge of a project at rest commits only when no issue of its batch is *)
(* imported: one such issue keeps the whole batch from ever being purged.  *)
THEOREM ImportsBlockPurges == Spec => StuckOnImport
<1>1. IInv => \A w \in Purger \ disturbed :
        PurgeExpiredProjectData(w) =>
          \A S \in SUBSET DueIssues(w) : IsDoomed(S, w) => S \cap imports = {}
  <2> SUFFICES ASSUME IInv, NEW w \in Purger \ disturbed, PurgeExpiredProjectData(w),
                      NEW S \in SUBSET DueIssues(w), IsDoomed(S, w)
               PROVE  S \cap imports = {}
    OBVIOUS
  <2>1. AtRest(w) /\ pc[w] = "purged" /\ S \in SUBSET Req
    BY DEF IInv, Undisturbed, PurgeExpiredProjectData, DueIssues
  <2> QED
    BY <2>1 DEF AtRest
<1> QED
  BY <1>1, Invariant, PTL DEF StuckOnImport

=============================================================================
