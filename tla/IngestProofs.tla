---------------------------- MODULE IngestProofs ----------------------------
(***************************************************************************)
(* Proofs about ingest, for any number of requests, projects, events,      *)
(* fingerprints and hours, any inputs, limits and pool size, with faults.  *)
(***************************************************************************)
EXTENDS Ingest, FiniteSetTheorems, TLAPS

-----------------------------------------------------------------------------
(* The inductive invariant: what a transaction holds at each statement, and *)
(* what the rows it has locked look like to everyone else.                  *)

EventL(r)   == EventLock(KeyOf(r))
HourL(r)    == HourLock(BucketOf(r))
ProjectL(r) == ProjectLock(input[r].project)
GroupL(r)   == GroupLock(GroupOf(r))
IssueL(r)   == IssueLock(target[r])

(* The six ways to reach the commit.                                      *)
CommitFits(r) ==
  \/ answer[r] = "duplicate" /\ input[r].kind # "logs" /\ held[r] = {}
  \/ answer[r] = "quota" /\ held[r] = {}
  \/ answer[r] = "non_issue" /\ input[r].kind = "plain" /\ held[r] = {EventL(r), HourL(r)}
  \/ /\ answer[r] = "issue" /\ input[r].kind = "issue"
     /\ held[r] = {EventL(r), HourL(r), ProjectL(r), GroupL(r)}
     /\ target[r] = NULL
  \/ /\ answer[r] = "issue" /\ input[r].kind = "issue" /\ target[r] # NULL
     /\ held[r] \in {{EventL(r), HourL(r), IssueL(r)},
                     {EventL(r), HourL(r), ProjectL(r), IssueL(r)}}
  \/ answer[r] = "logs" /\ input[r].kind = "logs" /\ held[r] = {HourL(r)}

HeldFits(r) ==
  /\ pc[r] \in {"idle", "exists", "quota", "append", "logQuota", "appendLogs", "done"}
       => held[r] = {}
  /\ pc[r] = "stats" => held[r] = {EventL(r)}
  /\ pc[r] \in {"find", "short"} => held[r] = {EventL(r), HourL(r)}
  /\ pc[r] = "insert" => held[r] = {EventL(r), HourL(r), ProjectL(r)}
  /\ pc[r] = "update" => held[r] \in {{EventL(r), HourL(r)},
                                      {EventL(r), HourL(r), ProjectL(r)}}
  /\ pc[r] = "enqueue" => held[r] = {EventL(r), HourL(r), ProjectL(r), GroupL(r)}
  /\ pc[r] = "commit" => CommitFits(r)

KindFits(r) ==
  /\ pc[r] # "idle" => input[r] \in Input
  /\ pc[r] \in {"exists", "quota", "append", "stats"} => input[r].kind # "logs"
  /\ pc[r] \in {"find", "short", "insert", "update", "enqueue"} => input[r].kind = "issue"
  /\ pc[r] \in {"logQuota", "appendLogs"} => input[r].kind = "logs"

MemoryFits(r) ==
  /\ pc[r] = "update" => target[r] # NULL
  /\ target[r] # NULL => pc[r] \in {"update", "commit", "done"}
  /\ queued[r] = IF pc[r] = "commit" /\ answer[r] = "issue" /\ target[r] = NULL THEN Dest ELSE {}
  /\ pc[r] # "done" => receipt[r] = "none"

Fits == \A r \in Req : HeldFits(r) /\ KindFits(r) /\ MemoryFits(r)

Exclusive == \A r \in Req : \A s \in Req \ {r} : held[r] \cap held[s] = {}

(* Rows that a transaction is writing do not change under it.              *)
Stable ==
  \A r \in Req : pc[r] # "idle" =>
    /\ EventL(r) \in held[r] => events[KeyOf(r)] = NULL
    /\ GroupL(r) \in held[r] => fpIssue[GroupOf(r)] = NULL
    /\ ProjectL(r) \in held[r] => shortID[r] = nextShort[input[r].project]
    /\ target[r] # NULL => fpIssue[GroupOf(r)] = target[r]
    /\ pc[r] = "commit" /\ answer[r] = "duplicate" => events[KeyOf(r)] # NULL

(* An issue is named by the fingerprint of the request that created it.    *)
Named ==
  /\ \A g \in Group : fpIssue[g] # NULL =>
       issue[fpIssue[g]] # NULL /\ GroupOf(fpIssue[g]) = g
  /\ \A i \in Req : issue[i] # NULL =>
       /\ pc[i] = "done"
       /\ fpIssue[GroupOf(i)] = i
       /\ issue[i].project = input[i].project

IInv ==
  /\ TypeOK /\ Fits /\ Exclusive /\ Stable /\ Named
  /\ ShortIdsUnique /\ IssueAnnouncedOnce /\ ReceiptsTruthful
  /\ EveryEventCounted /\ HourlyStatsExact

-----------------------------------------------------------------------------
(* No wait cycle: the statements take their locks in one order.            *)

(* A transaction past none of these statements does not hold that lock.    *)
LEMMA WhereHeld ==
  ASSUME NEW s \in Req, TypeOK, Fits
  PROVE  /\ \A k : EventLock(k) \in held[s] =>
              pc[s] \in {"stats", "find", "short", "insert", "update", "enqueue", "commit"}
         /\ \A b : HourLock(b) \in held[s] =>
              pc[s] \in {"find", "short", "insert", "update", "enqueue", "commit"}
         /\ \A p : ProjectLock(p) \in held[s] =>
              pc[s] \in {"insert", "update", "enqueue", "commit"}
         /\ \A g : GroupLock(g) \in held[s] => pc[s] \in {"enqueue", "commit"}
         /\ \A i : IssueLock(i) \in held[s] => pc[s] = "commit"
<1>1. HeldFits(s) /\ pc[s] \in PC
  BY DEF TypeOK, Fits
<1> QED
  BY <1>1 DEF HeldFits, PC, EventL, HourL, ProjectL, GroupL,
    EventLock, HourLock, ProjectLock, GroupLock, IssueLock

(* Of any transactions, the one furthest along the order waits on none of  *)
(* them.                                                                   *)
LEMMA LastOneMoves ==
  ASSUME TypeOK, Fits, NEW S \in SUBSET Req, S # {}
  PROVE  \E r \in S : \A s \in S : ~WaitsOn(r, s)
<1>1. CASE \E r \in S : pc[r] \notin {"append", "stats", "appendLogs", "short", "insert", "update"}
  BY <1>1 DEF WaitsOn
<1>2. CASE \A r \in S : pc[r] \in {"append", "stats", "appendLogs", "short", "insert", "update"}
  <2>1. CASE \E r \in S : pc[r] = "update"
    BY <1>2, <2>1, WhereHeld DEF WaitsOn
  <2>2. CASE (\E r \in S : pc[r] = "insert") /\ ~(\E r \in S : pc[r] = "update")
    BY <1>2, <2>2, WhereHeld DEF WaitsOn
  <2>3. CASE (\E r \in S : pc[r] = "short") /\ ~(\E r \in S : pc[r] \in {"insert", "update"})
    BY <1>2, <2>3, WhereHeld DEF WaitsOn
  <2>4. CASE /\ \E r \in S : pc[r] \in {"stats", "appendLogs"}
             /\ ~(\E r \in S : pc[r] \in {"short", "insert", "update"})
    BY <1>2, <2>4, WhereHeld DEF WaitsOn
  <2>5. CASE \A r \in S : pc[r] = "append"
    BY <1>2, <2>5, WhereHeld DEF WaitsOn
  <2> QED
    BY <1>2, <2>1, <2>2, <2>3, <2>4, <2>5
<1> QED
  BY <1>1, <1>2

(* So transactions never wait in a circle.                                 *)
LEMMA NoCycle == TypeOK /\ Fits => NoWaitCycle
BY LastOneMoves DEF NoWaitCycle

-----------------------------------------------------------------------------
(* Steps.                                                                  *)

Step(r) == Begin(r) \/ Statement(r) \/ CommitUnconfirmed(r) \/ Abort(r)

Ends(r) == pc[r] = "commit" /\ Apply(r) /\ \E a \in {answer[r], "error"} : Finish(r, a)

OnlyOwn(r) ==
  \A s \in Req \ {r} :
    /\ pc'[s] = pc[s] /\ input'[s] = input[s] /\ held'[s] = held[s]
    /\ shortID'[s] = shortID[s] /\ target'[s] = target[s] /\ queued'[s] = queued[s]
    /\ answer'[s] = answer[s] /\ receipt'[s] = receipt[s]

(* What a transaction was begun with, and the rows it is about.            *)
LEMMA Placed ==
  ASSUME TypeOK, Fits, NEW r \in Req, pc[r] # "idle"
  PROVE  /\ input[r] \in Input /\ input[r] \in InputType
         /\ KeyOf(r) \in EventKey /\ BucketOf(r) \in Bucket /\ GroupOf(r) \in Group
         /\ input[r].project \in Project
<1>1. input[r] \in Input
  BY DEF Fits, KindFits
<1>2. input[r] \in InputType
  BY <1>1, IngestAssumption DEF IngestAssumption
<1> QED
  BY <1>1, <1>2 DEF InputType, KeyOf, BucketOf, GroupOf, EventKey, Bucket, Group

(* A transaction only holds the locks of its own rows.                     *)
LEMMA OwnLocks ==
  ASSUME TypeOK, Fits, NEW r \in Req, pc[r] # "idle"
  PROVE  /\ EventL(r) \in Lock /\ HourL(r) \in Lock /\ ProjectL(r) \in Lock
         /\ GroupL(r) \in Lock
         /\ target[r] # NULL => IssueL(r) \in Lock
<1>1. target[r] \in Req \cup {NULL}
  BY DEF TypeOK
<1> QED
  BY <1>1, Placed DEF Lock, EventL, HourL, ProjectL, GroupL, IssueL,
    EventLock, HourLock, ProjectLock, GroupLock, IssueLock

(* A step changes the memory of its own transaction only.                  *)
LEMMA OthersUntouched ==
  ASSUME TypeOK, NEW r \in Req, Step(r)
  PROVE  OnlyOwn(r)
<1> USE DEF TypeOK, OnlyOwn, Goto, Acquire, Return, Finish
<1>1. CASE Begin(r)
  BY <1>1 DEF Begin
<1>2. CASE Exists(r) \/ CheckQuota(r) \/ CheckLogQuota(r)
  BY <1>2 DEF Exists, CheckQuota, CheckLogQuota
<1>3. CASE AppendEvent(r) \/ AppendLogRecords(r) \/ upsertProjectHourlyStats(r)
  BY <1>3 DEF AppendEvent, AppendLogRecords, upsertProjectHourlyStats
<1>4. CASE findIssueByFingerprint(r) \/ updateIssue(r)
  BY <1>4 DEF findIssueByFingerprint, updateIssue
<1>5. CASE nextIssueShortID(r) \/ createIssue(r) \/ EnqueueIssueOpened(r)
  BY <1>5 DEF nextIssueShortID, createIssue, EnqueueIssueOpened
<1>6. CASE Commit(r) \/ CommitUnconfirmed(r) \/ Abort(r)
  BY <1>6 DEF Commit, CommitUnconfirmed, Abort
<1> QED
  BY <1>1, <1>2, <1>3, <1>4, <1>5, <1>6 DEF Step, Statement

(* Every step but the end of a transaction leaves the rows alone.          *)
LEMMA RowsUntouched ==
  ASSUME NEW r \in Req, Step(r)
  PROVE  UNCHANGED dbVars \/ Ends(r)
BY DEF Step, Statement, Begin, Exists, CheckQuota, CheckLogQuota, AppendEvent,
  AppendLogRecords, upsertProjectHourlyStats, findIssueByFingerprint, updateIssue,
  nextIssueShortID, createIssue, EnqueueIssueOpened, Commit, CommitUnconfirmed, Abort, Ends

-----------------------------------------------------------------------------
(* Each statement finds and leaves the locks and the memory it should.     *)

(* A step leaves every transaction with the locks and the memory of its    *)
(* statement.                                                              *)
LEMMA FitsStep ==
  ASSUME TypeOK, Fits, Stable, NEW r \in Req, Step(r)
  PROVE  Fits'
<1>0. OnlyOwn(r)
  BY OthersUntouched
<1>1. ASSUME NEW s \in Req \ {r}
      PROVE  (HeldFits(s) /\ KindFits(s) /\ MemoryFits(s))'
  <2>1. HeldFits(s) /\ KindFits(s) /\ MemoryFits(s)
    BY DEF Fits
  <2> QED
    BY ZenonT(60), <1>0, <2>1 DEF OnlyOwn, HeldFits, CommitFits, KindFits, MemoryFits, KeyOf,
      BucketOf, GroupOf, EventL, HourL, ProjectL, GroupL, IssueL
<1>2. (HeldFits(r) /\ KindFits(r) /\ MemoryFits(r))'
  <2>0. HeldFits(r) /\ KindFits(r) /\ MemoryFits(r)
    BY DEF Fits
  <2> USE <2>0 DEF TypeOK, Goto, Acquire, Return, Finish, HeldFits, CommitFits, KindFits,
        MemoryFits, KeyOf, BucketOf, GroupOf, EventL, HourL, ProjectL, GroupL, IssueL
  <2>1. CASE Begin(r)
    BY <2>1, IngestAssumption DEF Begin, IngestAssumption, InputType
  <2>2. CASE Exists(r)
    BY <2>2 DEF Exists
  <2>3. CASE CheckQuota(r)
    BY <2>3 DEF CheckQuota
  <2>4. CASE AppendEvent(r)
    <3>1. CASE events[KeyOf(r)] # NULL
      <4>1. pc'[r] = "commit" /\ held'[r] = {} /\ answer'[r] = "duplicate"
        BY <2>4, <3>1 DEF AppendEvent
      <4> QED
        BY <2>4, <4>1 DEF AppendEvent
    <3>2. CASE events[KeyOf(r)] = NULL
      <4>1. pc'[r] = "stats" /\ held'[r] = {EventL(r)} /\ answer' = answer
        BY <2>4, <3>2 DEF AppendEvent
      <4> QED
        BY <2>4, <4>1 DEF AppendEvent
    <3> QED
      BY <3>1, <3>2
  <2>5. CASE upsertProjectHourlyStats(r)
    <3>1. held'[r] = {EventL(r), HourL(r)} /\ input'[r] = input[r] /\ input[r] \in Input
          /\ input[r].kind # "logs"
      BY <2>5 DEF upsertProjectHourlyStats
    <3>2. CASE input[r].kind = "issue"
      <4>1. pc'[r] = "find" /\ answer' = answer
        BY <2>5, <3>2 DEF upsertProjectHourlyStats
      <4> QED
        BY <2>5, <3>1, <3>2, <4>1 DEF upsertProjectHourlyStats
    <3>3. CASE input[r].kind # "issue"
      <4>1. pc'[r] = "commit" /\ answer'[r] = "non_issue" /\ input[r].kind = "plain"
        BY <2>5, <3>1, <3>3, IngestAssumption
          DEF upsertProjectHourlyStats, IngestAssumption, InputType
      <4> QED
        BY <2>5, <3>1, <4>1 DEF upsertProjectHourlyStats
    <3> QED
      BY <3>2, <3>3
  <2>6. CASE findIssueByFingerprint(r)
    BY <2>6 DEF findIssueByFingerprint
  <2>7. CASE updateIssue(r)
    BY SMTT(30), <2>7 DEF updateIssue
  <2>8. CASE nextIssueShortID(r)
    BY <2>8 DEF nextIssueShortID
  <2>9. CASE createIssue(r)
    <3>1. CASE fpIssue[GroupOf(r)] = NULL
      <4>1. pc'[r] = "enqueue" /\ held'[r] = held[r] \cup {GroupL(r)} /\ target'[r] = NULL
        BY <2>9, <3>1 DEF createIssue
      <4> QED
        BY <2>9, <4>1 DEF createIssue
    <3>2. CASE fpIssue[GroupOf(r)] # NULL
      <4>1. pc'[r] = "update" /\ held'[r] = held[r] /\ target'[r] # NULL
        BY <2>9, <3>2 DEF createIssue
      <4> QED
        BY <2>9, <4>1 DEF createIssue
    <3> QED
      BY <3>1, <3>2
  <2>10. CASE EnqueueIssueOpened(r)
    BY <2>10 DEF EnqueueIssueOpened
  <2>11. CASE CheckLogQuota(r)
    BY <2>11 DEF CheckLogQuota
  <2>12. CASE AppendLogRecords(r)
    BY <2>12 DEF AppendLogRecords
  <2>13. CASE Commit(r) \/ CommitUnconfirmed(r) \/ Abort(r)
    BY ZenonT(60), <2>13 DEF Commit, CommitUnconfirmed, Abort, Open
  <2> QED
    BY <2>1, <2>2, <2>3, <2>4, <2>5, <2>6, <2>7, <2>8, <2>9, <2>10, <2>11, <2>12, <2>13
      DEF Step, Statement
<1> QED
  BY <1>1, <1>2 DEF Fits

-----------------------------------------------------------------------------
(* Locks stay exclusive: a step takes one free lock or gives all back.     *)

(* A step takes at most one lock, which nobody holds, or gives all of its  *)
(* own back.                                                               *)
LEMMA OneLockTaken ==
  ASSUME TypeOK, NEW r \in Req, Step(r)
  PROVE  \/ held'[r] \in {held[r], {}}
         \/ \E l : Free(l, r) /\ held'[r] = held[r] \cup {l}
<1> USE DEF TypeOK, Acquire, Return, Finish
<1>1. CASE Begin(r) \/ Exists(r) \/ CheckQuota(r) \/ CheckLogQuota(r)
  BY <1>1 DEF Begin, Exists, CheckQuota, CheckLogQuota
<1>2. CASE AppendEvent(r) \/ AppendLogRecords(r) \/ upsertProjectHourlyStats(r)
  BY <1>2 DEF AppendEvent, AppendLogRecords, upsertProjectHourlyStats
<1>3. CASE findIssueByFingerprint(r) \/ updateIssue(r) \/ nextIssueShortID(r)
  BY <1>3 DEF findIssueByFingerprint, updateIssue, nextIssueShortID
<1>4. CASE createIssue(r) \/ EnqueueIssueOpened(r)
  BY <1>4 DEF createIssue, EnqueueIssueOpened
<1>5. CASE Commit(r) \/ CommitUnconfirmed(r) \/ Abort(r)
  BY <1>5 DEF Commit, CommitUnconfirmed, Abort
<1> QED
  BY <1>1, <1>2, <1>3, <1>4, <1>5 DEF Step, Statement

(* So a lock has one holder at a time.                                     *)
LEMMA ExclusiveStep ==
  ASSUME TypeOK, Exclusive, NEW r \in Req, Step(r)
  PROVE  Exclusive'
<1>1. \A s \in Req \ {r} : held'[s] = held[s]
  BY OthersUntouched DEF OnlyOwn
<1>2. \A s \in Req \ {r} : held'[r] \cap held[s] = {}
  BY OneLockTaken DEF Exclusive, Free
<1> QED
  BY <1>1, <1>2 DEF Exclusive

-----------------------------------------------------------------------------
(* The end of a transaction.                                               *)

(* What a transaction writes at its end is told by its answer.             *)
LEMMA WhatIsWritten ==
  ASSUME TypeOK, Fits, NEW r \in Req, pc[r] = "commit"
  PROVE  /\ Writes(r, EventL(r)) <=> answer[r] \in {"issue", "non_issue"}
         /\ Writes(r, HourL(r)) <=> answer[r] \in {"issue", "non_issue", "logs"}
         /\ Creates(r) <=> answer[r] = "issue" /\ target[r] = NULL
         /\ Updates(r) <=> answer[r] = "issue" /\ target[r] # NULL
         /\ Creates(r) => Writes(r, ProjectL(r))
         /\ answer[r] = "issue" => input[r].kind = "issue"
         /\ answer[r] = "non_issue" => input[r].kind = "plain"
         /\ answer[r] = "logs" => input[r].kind = "logs"
<1>1. CommitFits(r)
  BY DEF Fits, HeldFits
<1> QED
  BY <1>1 DEF CommitFits, Writes, Creates, Updates, EventL, HourL, ProjectL, GroupL, IssueL,
    EventLock, HourLock, ProjectLock, GroupLock, IssueLock

(* The issue a transaction updates is the one its fingerprint names.       *)
LEMMA UpdateFindsIssue ==
  ASSUME TypeOK, Fits, Stable, Named, NEW r \in Req, pc[r] = "commit", target[r] # NULL
  PROVE  /\ target[r] \in Req /\ issue[target[r]] \in IssueRow
         /\ issue[target[r]] # NULL
         /\ fpIssue[GroupOf(r)] = target[r] /\ GroupOf(target[r]) = GroupOf(r)
<1>1. target[r] \in Req /\ GroupOf(r) \in Group
  BY Placed DEF TypeOK
<1>2. fpIssue[GroupOf(r)] = target[r]
  BY DEF Stable
<1> QED
  BY <1>1, <1>2 DEF Named, TypeOK

(* The end of a transaction gives its locks back and answers its caller.   *)
LEMMA EndsFinishes ==
  ASSUME TypeOK, NEW r \in Req, Ends(r)
  PROVE  /\ pc[r] = "commit" /\ pc'[r] = "done" /\ held'[r] = {} /\ queued'[r] = {}
         /\ receipt'[r] \in {answer[r], "error"}
         /\ UNCHANGED <<input, shortID, target, answer>>
BY DEF Ends, Finish, Goto, TypeOK

(* The issues after the end of a transaction: its own, the one it          *)
(* updates, the others as they were.                                       *)
LEMMA IssueAfter ==
  ASSUME TypeOK, Fits, Stable, Named, NEW r \in Req, Ends(r)
  PROVE  /\ issue' \in [Req -> IssueRow \cup {NULL}]
         /\ Creates(r) => issue[r] = NULL /\ issue'[r] = NewIssue(r)
         /\ Updates(r) => /\ issue'[target[r]].count = issue[target[r]].count + 1
                          /\ issue'[target[r]].last = KeyOf(r)
         /\ \A i \in Req : ~(Creates(r) /\ i = r) /\ ~(Updates(r) /\ i = target[r])
              => issue'[i] = issue[i]
         /\ \A i \in Req : issue'[i] # NULL <=> issue[i] # NULL \/ (Creates(r) /\ i = r)
         /\ \A i \in Req : issue[i] # NULL =>
              issue'[i].project = issue[i].project /\ issue'[i].short = issue[i].short
<1>0. /\ pc[r] = "commit" /\ KeyOf(r) \in EventKey /\ input[r].project \in Project
  BY Placed DEF Ends
<1>1. issue[r] = NULL
  BY <1>0 DEF Named
<1>2. ~(Creates(r) /\ Updates(r))
  BY <1>0, WhatIsWritten
<1>3. CASE Creates(r)
  <2>1. NewIssue(r) \in IssueRow /\ NewIssue(r) # NULL
    BY <1>0, IngestAssumption DEF NewIssue, IssueRow, TypeOK, IngestAssumption
  <2>2. issue' = [issue EXCEPT ![r] = NewIssue(r)]
    BY <1>3 DEF Ends, Apply
  <2> QED
    BY <1>1, <1>2, <1>3, <2>1, <2>2 DEF TypeOK
<1>4. CASE Updates(r)
  <2> DEFINE t == target[r]
             row == [issue[t] EXCEPT !.count = @ + 1, !.last = KeyOf(r)]
  <2>1. t \in Req /\ issue[t] \in IssueRow /\ issue[t] # NULL
    BY <1>0, <1>4, UpdateFindsIssue DEF Updates
  <2>2. issue' = [issue EXCEPT ![t] = row]
    BY <1>2, <1>4, <2>1 DEF Ends, Apply, TypeOK
  <2> HIDE DEF t
  <2>3. issue[t].count + 1 \in Nat
    BY <2>1 DEF IssueRow
  <2>4. /\ row \in IssueRow
        /\ row.project = issue[t].project /\ row.short = issue[t].short
        /\ row.count = issue[t].count + 1 /\ row.last = KeyOf(r)
    BY <1>0, <2>1, <2>3 DEF IssueRow
  <2> HIDE DEF row
  <2>5. row # NULL
    BY <2>4, IngestAssumption DEF IngestAssumption
  <2>6. target[r] = t
    BY DEF t
  <2> QED
    BY <1>2, <1>4, <2>1, <2>2, <2>4, <2>5, <2>6 DEF TypeOK
<1>5. CASE ~Creates(r) /\ ~Updates(r)
  BY <1>5 DEF Ends, Apply, TypeOK
<1> QED
  BY <1>3, <1>4, <1>5

(* Rows and memory keep their types in a step.                             *)
LEMMA TypeStep ==
  ASSUME TypeOK, Fits, Stable, Named, NEW r \in Req, Step(r)
  PROVE  TypeOK'
<1>1. ASSUME Ends(r) PROVE TypeOK'
  <2>0. /\ pc[r] = "commit" /\ input[r] \in Input /\ input[r] \in InputType
        /\ KeyOf(r) \in EventKey /\ BucketOf(r) \in Bucket /\ GroupOf(r) \in Group
        /\ input[r].project \in Project
    BY <1>1, Placed DEF Ends
  <2>1. events' \in [EventKey -> Input \cup {NULL}]
    BY <1>1, <2>0 DEF TypeOK, Ends, Apply
  <2>2. hourly' \in [Bucket -> Nat] /\ logs' \in [Bucket -> Nat]
    <3>1. input[r].count \in Nat
      BY <2>0 DEF InputType
    <3>2. hourly' \in [Bucket -> Nat]
      BY <1>1, <2>0, <3>1 DEF TypeOK, Ends, Apply
    <3>3. logs' \in [Bucket -> Nat]
      BY <1>1, <2>0, <3>1 DEF TypeOK, Ends, Apply
    <3> QED
      BY <3>2, <3>3
  <2>3. nextShort' \in [Project -> Nat]
    BY <1>1, <2>0 DEF TypeOK, Ends, Apply
  <2>4. issue' \in [Req -> IssueRow \cup {NULL}]
    BY <1>1, IssueAfter DEF TypeOK
  <2>5. fpIssue' \in [Group -> Req \cup {NULL}]
    BY <1>1, <2>0 DEF TypeOK, Ends, Apply
  <2>6. intents' \subseteq Dest \X Req
    BY <1>1 DEF TypeOK, Ends, Apply
  <2>7. /\ pc' \in [Req -> PC] /\ held' \in [Req -> SUBSET Lock]
        /\ queued' \in [Req -> SUBSET Dest] /\ receipt' \in [Req -> Receipt]
        /\ UNCHANGED <<input, shortID, target, answer>>
    BY <1>1 DEF TypeOK, Ends, Finish, Goto, PC, Receipt
  <2> QED
    BY <2>1, <2>2, <2>3, <2>4, <2>5, <2>6, <2>7 DEF TypeOK
<1>2. ASSUME UNCHANGED dbVars PROVE TypeOK'
  <2>1. /\ events' \in [EventKey -> Input \cup {NULL}] /\ logs' \in [Bucket -> Nat]
        /\ hourly' \in [Bucket -> Nat] /\ nextShort' \in [Project -> Nat]
        /\ issue' \in [Req -> IssueRow \cup {NULL}] /\ fpIssue' \in [Group -> Req \cup {NULL}]
        /\ intents' \subseteq Dest \X Req
    BY <1>2 DEF TypeOK, dbVars
  <2>2. held' \in [Req -> SUBSET Lock]
    <3> USE DEF TypeOK, Acquire, Return, Finish
    <3>1. CASE Begin(r) \/ Exists(r) \/ CheckQuota(r) \/ CheckLogQuota(r)
      BY <3>1 DEF Begin, Exists, CheckQuota, CheckLogQuota
    <3>2. CASE AppendEvent(r) \/ AppendLogRecords(r) \/ upsertProjectHourlyStats(r)
      BY <3>2, OwnLocks DEF AppendEvent, AppendLogRecords, upsertProjectHourlyStats, EventL, HourL
    <3>3. CASE findIssueByFingerprint(r) \/ EnqueueIssueOpened(r)
      BY <3>3 DEF findIssueByFingerprint, EnqueueIssueOpened
    <3>4. CASE nextIssueShortID(r) \/ createIssue(r)
      BY <3>4, OwnLocks DEF nextIssueShortID, createIssue, ProjectL, GroupL
    <3>5. CASE updateIssue(r)
      <4>1. target[r] # NULL
        BY <3>5 DEF updateIssue, Fits, MemoryFits
      <4> QED
        BY <3>5, <4>1, OwnLocks DEF updateIssue, IssueL
    <3>6. CASE Commit(r) \/ CommitUnconfirmed(r) \/ Abort(r)
      BY <3>6 DEF Commit, CommitUnconfirmed, Abort
    <3> QED
      BY <3>1, <3>2, <3>3, <3>4, <3>5, <3>6 DEF Step, Statement
  <2>3. /\ pc' \in [Req -> PC] /\ input' \in [Req -> Input \cup {NULL}]
        /\ shortID' \in [Req -> Nat] /\ target' \in [Req -> Req \cup {NULL}]
        /\ queued' \in [Req -> SUBSET Dest] /\ answer' \in [Req -> Receipt]
        /\ receipt' \in [Req -> Receipt]
    <3> USE DEF TypeOK, Acquire, Return, Finish, Goto, PC, Receipt
    <3>1. CASE Begin(r) \/ Exists(r) \/ CheckQuota(r) \/ CheckLogQuota(r)
      BY <3>1 DEF Begin, Exists, CheckQuota, CheckLogQuota
    <3>2. CASE AppendEvent(r) \/ AppendLogRecords(r) \/ upsertProjectHourlyStats(r)
      BY <3>2 DEF AppendEvent, AppendLogRecords, upsertProjectHourlyStats
    <3>3. CASE findIssueByFingerprint(r) \/ createIssue(r)
      <4>1. GroupOf(r) \in Group
        BY <3>3, Placed DEF findIssueByFingerprint, createIssue
      <4> QED
        BY <3>3, <4>1 DEF findIssueByFingerprint, createIssue
    <3>4. CASE EnqueueIssueOpened(r) \/ updateIssue(r)
      BY <3>4 DEF EnqueueIssueOpened, updateIssue
    <3>5. CASE nextIssueShortID(r)
      <4>1. input[r].project \in Project
        BY <3>5, Placed DEF nextIssueShortID
      <4> QED
        BY <3>5, <4>1 DEF nextIssueShortID
    <3>6. CASE Commit(r) \/ CommitUnconfirmed(r) \/ Abort(r)
      BY <3>6 DEF Commit, CommitUnconfirmed, Abort
    <3> QED
      BY <3>1, <3>2, <3>3, <3>4, <3>5, <3>6 DEF Step, Statement
  <2> QED
    BY <2>1, <2>2, <2>3 DEF TypeOK
<1> QED
  BY <1>1, <1>2, RowsUntouched

-----------------------------------------------------------------------------
(* What is committed stays, and only a holder of its lock changes a row.   *)

(* The end of a transaction leaves alone the rows that others hold, and    *)
(* those that exist.                                                       *)
LEMMA RowsKept ==
  ASSUME TypeOK, Fits, Exclusive, Stable, NEW r \in Req, Ends(r)
  PROVE  /\ \A k \in EventKey : events[k] # NULL => events'[k] = events[k]
         /\ \A g \in Group : fpIssue[g] # NULL => fpIssue'[g] = fpIssue[g]
         /\ \A s \in Req \ {r} : pc[s] # "idle" =>
              /\ EventL(s) \in held[s] => events'[KeyOf(s)] = events[KeyOf(s)]
              /\ GroupL(s) \in held[s] => fpIssue'[GroupOf(s)] = fpIssue[GroupOf(s)]
              /\ ProjectL(s) \in held[s] =>
                   nextShort'[input[s].project] = nextShort[input[s].project]
<1>0. /\ pc[r] = "commit" /\ input[r].project \in Project
      /\ KeyOf(r) \in EventKey /\ GroupOf(r) \in Group
  BY Placed DEF Ends
<1>1. Writes(r, EventL(r)) => events[KeyOf(r)] = NULL
  BY <1>0 DEF Stable, Writes
<1>2. Creates(r) => fpIssue[GroupOf(r)] = NULL
  BY <1>0 DEF Stable, Creates, Writes, GroupL
<1>3. \A k \in EventKey : events[k] # NULL => events'[k] = events[k]
  BY <1>0, <1>1 DEF Ends, Apply, TypeOK, EventL
<1>4. \A g \in Group : fpIssue[g] # NULL => fpIssue'[g] = fpIssue[g]
  BY <1>0, <1>2 DEF Ends, Apply, TypeOK
<1>5. ASSUME NEW s \in Req \ {r}, pc[s] # "idle"
      PROVE  /\ EventL(s) \in held[s] => events'[KeyOf(s)] = events[KeyOf(s)]
             /\ GroupL(s) \in held[s] => fpIssue'[GroupOf(s)] = fpIssue[GroupOf(s)]
             /\ ProjectL(s) \in held[s] =>
                  nextShort'[input[s].project] = nextShort[input[s].project]
  <2>0. held[r] \cap held[s] = {}
    BY DEF Exclusive
  <2>1. /\ KeyOf(s) \in EventKey /\ GroupOf(s) \in Group /\ input[s].project \in Project
    BY <1>5, Placed
  <2>2. ASSUME EventL(s) \in held[s] PROVE events'[KeyOf(s)] = events[KeyOf(s)]
    <3>1. Writes(r, EventL(r)) => KeyOf(s) # KeyOf(r)
      BY <2>0, <2>2 DEF Writes, EventL
    <3> QED
      BY <1>0, <2>1, <3>1 DEF Ends, Apply, TypeOK, EventL
  <2>3. ASSUME GroupL(s) \in held[s] PROVE fpIssue'[GroupOf(s)] = fpIssue[GroupOf(s)]
    <3>1. Creates(r) => GroupOf(s) # GroupOf(r)
      BY <2>0, <2>3 DEF Creates, Writes, GroupL
    <3> QED
      BY <1>0, <2>1, <3>1 DEF Ends, Apply, TypeOK
  <2>4. ASSUME ProjectL(s) \in held[s]
        PROVE  nextShort'[input[s].project] = nextShort[input[s].project]
    <3>1. Writes(r, ProjectL(r)) => input[s].project # input[r].project
      BY <2>0, <2>4 DEF Writes, ProjectL
    <3> QED
      BY <1>0, <2>1, <3>1 DEF Ends, Apply, TypeOK, ProjectL
  <2> QED
    BY <2>2, <2>3, <2>4
<1> QED
  BY <1>3, <1>4, <1>5

(* What a transaction read under a lock is still so after any step.        *)
LEMMA StableStep ==
  ASSUME TypeOK, Fits, Exclusive, Stable, NEW r \in Req, Step(r)
  PROVE  Stable'
<1> DEFINE StableAt(s) ==
      pc[s] # "idle" =>
        /\ EventL(s) \in held[s] => events[KeyOf(s)] = NULL
        /\ GroupL(s) \in held[s] => fpIssue[GroupOf(s)] = NULL
        /\ ProjectL(s) \in held[s] => shortID[s] = nextShort[input[s].project]
        /\ target[s] # NULL => fpIssue[GroupOf(s)] = target[s]
        /\ pc[s] = "commit" /\ answer[s] = "duplicate" => events[KeyOf(s)] # NULL
<1>0. /\ OnlyOwn(r)
      /\ \A s \in Req : StableAt(s)
  BY OthersUntouched DEF Stable
<1>1. CASE UNCHANGED dbVars
  <2>1. ASSUME NEW s \in Req \ {r} PROVE StableAt(s)'
    <3>1. StableAt(s)
      BY <1>0
    <3> QED
      BY <1>0, <1>1, <3>1 DEF OnlyOwn, dbVars, EventL, GroupL, ProjectL, KeyOf, GroupOf
  <2>2. StableAt(r)'
    <3>0. StableAt(r) /\ HeldFits(r) /\ KindFits(r) /\ MemoryFits(r) /\ HeldFits(r)'
          /\ MemoryFits(r)'
      BY <1>0, FitsStep DEF Fits
    <3> USE DEF TypeOK, Goto, Return, dbVars, KeyOf, GroupOf
    <3> DEFINE Now == /\ UNCHANGED <<input, shortID, target>>
                      /\ EventL(r) \in held'[r] => EventL(r) \in held[r]
                      /\ GroupL(r) \in held'[r] => GroupL(r) \in held[r]
                      /\ ProjectL(r) \in held'[r] => ProjectL(r) \in held[r]
                      /\ pc[r] # "idle"
                      /\ pc'[r] = "commit" /\ answer'[r] = "duplicate" =>
                           events[KeyOf(r)] # NULL
    <3>1. CASE Begin(r)
      <4>1. pc'[r] \in {"logQuota", "exists"}
        BY <3>1 DEF Begin
      <4> QED
        BY <3>0, <4>1 DEF HeldFits, MemoryFits
    <3>2. ASSUME Now PROVE StableAt(r)'
      BY <1>1, <3>0, <3>2 DEF EventL, GroupL, ProjectL
    <3>3. CASE Exists(r) \/ CheckQuota(r) \/ CheckLogQuota(r)
      <4>1. Now
        BY <3>3 DEF Exists, CheckQuota, CheckLogQuota
      <4> QED
        BY <3>2, <4>1
    <3>4. CASE AppendEvent(r)
      <4>1. CASE events[KeyOf(r)] # NULL
        <5>1. Now
          BY <3>4, <4>1 DEF AppendEvent
        <5> QED
          BY <3>2, <5>1
      <4>2. CASE events[KeyOf(r)] = NULL
        <5>1. pc'[r] = "stats" /\ held'[r] = {EventL(r)'} /\ target'[r] = NULL
              /\ events'[KeyOf(r)'] = NULL
          BY <1>1, <3>0, <3>4, <4>2 DEF AppendEvent, HeldFits, MemoryFits
        <5> QED
          BY <5>1 DEF EventL, GroupL, ProjectL, EventLock, GroupLock, ProjectLock
      <4> QED
        BY <4>1, <4>2
    <3>5. CASE upsertProjectHourlyStats(r) \/ AppendLogRecords(r)
      <4>1. Now
        BY <3>5 DEF upsertProjectHourlyStats, AppendLogRecords, Acquire, EventL, GroupL, ProjectL,
          EventLock, GroupLock, ProjectLock, HourLock
      <4> QED
        BY <3>2, <4>1
    <3>6. CASE findIssueByFingerprint(r)
      <4>1. /\ held' = held /\ UNCHANGED <<input, shortID>>
            /\ target'[r] = fpIssue[GroupOf(r)] /\ pc'[r] # "commit"
            /\ pc[r] = "find"
        BY <3>6 DEF findIssueByFingerprint
      <4> QED
        BY <1>1, <3>0, <4>1 DEF EventL, GroupL, ProjectL
    <3>7. CASE updateIssue(r)
      <4>1. Now
        BY <3>7 DEF updateIssue, Acquire, EventL, GroupL, ProjectL,
          EventLock, GroupLock, ProjectLock, IssueLock
      <4> QED
        BY <3>2, <4>1
    <3>8. CASE nextIssueShortID(r)
      <4>1. /\ held'[r] = held[r] \cup {ProjectL(r)} /\ UNCHANGED <<input, target>>
            /\ shortID'[r] = nextShort[input[r].project] /\ pc'[r] # "commit"
            /\ pc[r] = "short"
        BY <3>8 DEF nextIssueShortID, Acquire, ProjectL
      <4> QED
        BY <1>1, <3>0, <4>1 DEF EventL, GroupL, ProjectL, EventLock, GroupLock, ProjectLock
    <3>9. CASE createIssue(r)
      <4>1. CASE fpIssue[GroupOf(r)] = NULL
        <5>1. /\ held'[r] = held[r] \cup {GroupL(r)} /\ UNCHANGED <<input, shortID, target>>
              /\ pc'[r] # "commit" /\ pc[r] = "insert"
          BY <3>9, <4>1 DEF createIssue, Acquire, GroupL
        <5> QED
          BY <1>1, <3>0, <4>1, <5>1
            DEF EventL, GroupL, ProjectL, EventLock, GroupLock, ProjectLock
      <4>2. CASE fpIssue[GroupOf(r)] # NULL
        <5>1. /\ held' = held /\ UNCHANGED <<input, shortID>>
              /\ target'[r] = fpIssue[GroupOf(r)] /\ pc'[r] # "commit" /\ pc[r] = "insert"
          BY <3>9, <4>2 DEF createIssue
        <5> QED
          BY <1>1, <3>0, <5>1 DEF EventL, GroupL, ProjectL
      <4> QED
        BY <4>1, <4>2
    <3>10. CASE EnqueueIssueOpened(r)
      <4>1. Now
        BY <3>10 DEF EnqueueIssueOpened
      <4> QED
        BY <3>2, <4>1
    <3>11. CASE Commit(r) \/ CommitUnconfirmed(r) \/ Abort(r)
      <4>1. Now
        BY <3>11 DEF Commit, CommitUnconfirmed, Abort, Finish, Open
      <4> QED
        BY <3>2, <4>1
    <3> QED
      BY <3>1, <3>3, <3>4, <3>5, <3>6, <3>7, <3>8, <3>9, <3>10, <3>11 DEF Step, Statement
  <2> QED
    BY <2>1, <2>2 DEF Stable
<1>2. CASE Ends(r)
  <2>1. ASSUME NEW s \in Req \ {r} PROVE StableAt(s)'
    <3>1. StableAt(s) /\ (pc[s] # "idle" => KeyOf(s) \in EventKey /\ GroupOf(s) \in Group)
      BY <1>0, Placed
    <3>2. UNCHANGED <<input, shortID, target, answer>> /\ held'[s] = held[s] /\ pc'[s] = pc[s]
      BY <1>0, <1>2, EndsFinishes DEF OnlyOwn
    <3> QED
      BY <1>2, <3>1, <3>2, RowsKept DEF EventL, GroupL, ProjectL, KeyOf, GroupOf
  <2>2. StableAt(r)'
    <3>1. /\ held'[r] = {} /\ pc'[r] = "done" /\ pc[r] # "idle"
          /\ UNCHANGED <<input, target>>
      BY <1>2, EndsFinishes
    <3>2. GroupOf(r) \in Group
      BY <3>1, Placed
    <3> QED
      BY <1>0, <1>2, <3>1, <3>2, RowsKept DEF KeyOf, GroupOf
  <2> QED
    BY <2>1, <2>2 DEF Stable
<1> QED
  BY <1>1, <1>2, RowsUntouched

-----------------------------------------------------------------------------
(* Issues, their names, numbers and announcements.                         *)

(* A finished request takes no step.                                       *)
LEMMA DoneDoesNotStep ==
  ASSUME TypeOK, NEW r \in Req, Step(r)
  PROVE  pc[r] # "done"
BY DEF Step, Statement, Begin, Exists, CheckQuota, CheckLogQuota, AppendEvent,
  AppendLogRecords, upsertProjectHourlyStats, findIssueByFingerprint, updateIssue,
  nextIssueShortID, createIssue, EnqueueIssueOpened, Commit, CommitUnconfirmed, Abort, Open

(* What a finished request was begun with, and what it was told, stay.     *)
LEMMA InputFixed ==
  ASSUME TypeOK, NEW r \in Req, Step(r), NEW s \in Req, pc[s] = "done"
  PROVE  /\ s # r /\ pc'[s] = "done" /\ input'[s] = input[s] /\ receipt'[s] = receipt[s]
         /\ GroupOf(s)' = GroupOf(s) /\ KeyOf(s)' = KeyOf(s)
BY DoneDoesNotStep, OthersUntouched DEF OnlyOwn, GroupOf, KeyOf

(* Fingerprints and issues keep naming each other.                         *)
LEMMA NamedStep ==
  ASSUME TypeOK, Fits, Exclusive, Stable, Named, NEW r \in Req, Step(r)
  PROVE  Named'
<1>1. CASE UNCHANGED dbVars
  <2>1. ASSUME NEW g \in Group, fpIssue'[g] # NULL
        PROVE  issue'[fpIssue'[g]] # NULL /\ GroupOf(fpIssue[g])' = g
    <3>1. fpIssue[g] \in Req /\ issue[fpIssue[g]] # NULL /\ GroupOf(fpIssue[g]) = g
      BY <1>1, <2>1 DEF dbVars, Named, TypeOK
    <3>2. pc[fpIssue[g]] = "done" /\ fpIssue' = fpIssue /\ issue' = issue
      BY <1>1, <3>1 DEF dbVars, Named
    <3> QED
      BY <3>1, <3>2, InputFixed DEF GroupOf
  <2>2. ASSUME NEW i \in Req, issue'[i] # NULL
        PROVE  /\ pc'[i] = "done" /\ fpIssue'[GroupOf(i)'] = i
               /\ issue'[i].project = input'[i].project
    <3>1. /\ pc[i] = "done" /\ fpIssue[GroupOf(i)] = i /\ issue[i].project = input[i].project
          /\ fpIssue' = fpIssue /\ issue' = issue
      BY <1>1, <2>2 DEF dbVars, Named
    <3> QED
      BY <3>1, InputFixed
  <2> QED
    BY <1>1, <2>1, <2>2 DEF Named, GroupOf, dbVars
<1>2. CASE Ends(r)
  <2>0. /\ pc[r] = "commit" /\ pc'[r] = "done" /\ input' = input /\ GroupOf(r) \in Group
        /\ \A s \in Req \ {r} : pc'[s] = pc[s]
        /\ \A s \in Req : GroupOf(s)' = GroupOf(s)
    BY <1>2, EndsFinishes, Placed, OthersUntouched DEF OnlyOwn, GroupOf
  <2>1. fpIssue' = IF Creates(r) THEN [fpIssue EXCEPT ![GroupOf(r)] = r] ELSE fpIssue
    BY <1>2 DEF Ends, Apply
  <2>2. ASSUME NEW g \in Group, fpIssue'[g] # NULL
        PROVE  issue'[fpIssue'[g]] # NULL /\ GroupOf(fpIssue'[g]) = g
    <3>1. CASE Creates(r) /\ g = GroupOf(r)
      <4>1. fpIssue'[g] = r
        BY <2>0, <2>1, <3>1 DEF TypeOK
      <4> QED
        BY <1>2, <3>1, <4>1, IssueAfter
    <3>2. CASE ~(Creates(r) /\ g = GroupOf(r))
      <4>1. fpIssue'[g] = fpIssue[g] /\ fpIssue[g] \in Req
        BY <2>0, <2>1, <2>2, <3>2 DEF TypeOK
      <4>2. issue[fpIssue[g]] # NULL /\ GroupOf(fpIssue[g]) = g
        BY <2>2, <4>1 DEF Named
      <4> QED
        BY <1>2, <4>1, <4>2, IssueAfter
    <3> QED
      BY <3>1, <3>2
  <2>3. ASSUME NEW i \in Req, issue'[i] # NULL
        PROVE  pc'[i] = "done" /\ fpIssue'[GroupOf(i)] = i /\ issue'[i].project = input[i].project
    <3>1. CASE issue[i] # NULL
      <4>1. pc[i] = "done" /\ fpIssue[GroupOf(i)] = i /\ issue[i].project = input[i].project
        BY <3>1 DEF Named
      <4>2. GroupOf(i) \in Group /\ i # r
        BY <2>0, <4>1, Placed
      <4>3. fpIssue'[GroupOf(i)] = i
        BY <1>2, <4>1, <4>2, RowsKept, IngestAssumption DEF IngestAssumption
      <4> QED
        BY <1>2, <2>0, <3>1, <4>1, <4>2, <4>3, IssueAfter
    <3>2. CASE issue[i] = NULL
      <4>1. Creates(r) /\ i = r
        BY <1>2, <2>3, <3>2, IssueAfter
      <4>2. issue'[i] = NewIssue(r) /\ fpIssue'[GroupOf(r)] = r
        BY <1>2, <2>0, <2>1, <4>1, IssueAfter DEF TypeOK
      <4> QED
        BY <2>0, <4>1, <4>2 DEF NewIssue
    <3> QED
      BY <3>1, <3>2
  <2>4. \A i \in Req : fpIssue'[GroupOf(i)'] = fpIssue'[GroupOf(i)]
    BY <2>0
  <2>5. \A g \in Group : fpIssue'[g] # NULL =>
          issue'[fpIssue'[g]] # NULL /\ GroupOf(fpIssue[g])' = g
    BY <2>0, <2>2 DEF GroupOf
  <2> QED
    BY <2>0, <2>3, <2>4, <2>5 DEF Named
<1> QED
  BY <1>1, <1>2, RowsUntouched

(* No two issues of a project get the same short id.                       *)
LEMMA ShortIdsStep ==
  ASSUME TypeOK, Fits, Exclusive, Stable, Named, ShortIdsUnique, NEW r \in Req, Step(r)
  PROVE  ShortIdsUnique'
<1>1. CASE UNCHANGED dbVars
  BY <1>1 DEF ShortIdsUnique, dbVars
<1>2. CASE Ends(r)
  <2>0. /\ pc[r] = "commit" /\ input[r].project \in Project
        /\ nextShort \in [Project -> Nat] /\ nextShort' \in [Project -> Nat]
        /\ issue \in [Req -> IssueRow \cup {NULL}] /\ shortID[r] \in Nat
    BY <1>2, Placed, TypeStep DEF Ends, TypeOK
  <2>1. \A p \in Project : nextShort[p] <= nextShort'[p]
    BY <1>2, <2>0 DEF Ends, Apply, TypeOK
  <2>2. ASSUME NEW i \in Req, issue[i] # NULL
        PROVE  /\ issue[i].project \in Project /\ issue[i].short \in Nat
               /\ issue[i].short < nextShort[issue[i].project]
    BY <2>0, <2>2 DEF ShortIdsUnique, IssueRow
  <2>3. ASSUME Creates(r)
        PROVE  /\ issue'[r].project = input[r].project
               /\ issue'[r].short = nextShort[input[r].project]
               /\ nextShort'[input[r].project] = nextShort[input[r].project] + 1
    <3>1. Writes(r, ProjectL(r))
      BY <2>0, <2>3, WhatIsWritten
    <3>2. shortID[r] = nextShort[input[r].project]
      BY <2>0, <3>1 DEF Stable, Writes
    <3>3. issue'[r] = NewIssue(r)
      BY <1>2, <2>3, IssueAfter
    <3> QED
      BY <1>2, <2>0, <3>1, <3>2, <3>3 DEF NewIssue, Ends, Apply, ProjectL
  <2>4. ASSUME NEW i \in Req, issue'[i] # NULL
        PROVE  issue'[i].short < nextShort'[issue'[i].project]
    <3>1. CASE issue[i] # NULL
      <4>1. issue'[i].project = issue[i].project /\ issue'[i].short = issue[i].short
        BY <1>2, <3>1, IssueAfter
      <4> QED
        BY <2>0, <2>1, <2>2, <3>1, <4>1
    <3>2. CASE issue[i] = NULL
      <4>1. Creates(r) /\ i = r
        BY <1>2, <2>4, <3>2, IssueAfter
      <4> QED
        BY <2>0, <2>3, <4>1
    <3> QED
      BY <3>1, <3>2
  <2>5. ASSUME NEW i \in Req, NEW j \in Req \ {i}, issue'[i] # NULL, issue'[j] # NULL
        PROVE  <<issue'[j].project, issue'[j].short>> # <<issue'[i].project, issue'[i].short>>
    <3>1. ASSUME NEW x \in Req, issue[x] # NULL
          PROVE  issue'[x].project = issue[x].project /\ issue'[x].short = issue[x].short
      BY <1>2, <3>1, IssueAfter
    <3>2. CASE issue[i] # NULL /\ issue[j] # NULL
      BY <3>1, <3>2 DEF ShortIdsUnique
    <3>3. CASE issue[i] = NULL
      <4>1. Creates(r) /\ i = r /\ issue[j] # NULL
        BY <1>2, <2>5, <3>3, IssueAfter
      <4> QED
        BY <2>0, <2>2, <2>3, <3>1, <4>1
    <3>4. CASE issue[j] = NULL
      <4>1. Creates(r) /\ j = r /\ issue[i] # NULL
        BY <1>2, <2>5, <3>4, IssueAfter
      <4> QED
        BY <2>0, <2>2, <2>3, <3>1, <4>1
    <3> QED
      BY <3>2, <3>3, <3>4
  <2> QED
    BY <2>4, <2>5 DEF ShortIdsUnique
<1> QED
  BY <1>1, <1>2, RowsUntouched

(* Every issue is announced once, by the transaction that creates it.      *)
LEMMA AnnouncedStep ==
  ASSUME TypeOK, Fits, Stable, Named, IssueAnnouncedOnce, NEW r \in Req, Step(r)
  PROVE  IssueAnnouncedOnce'
<1>1. CASE UNCHANGED dbVars
  BY <1>1 DEF IssueAnnouncedOnce, dbVars
<1>2. CASE Ends(r)
  <2>1. pc[r] = "commit" /\ intents' = intents \cup {<<d, r>> : d \in queued[r]}
    BY <1>2 DEF Ends, Apply
  <2>2. queued[r] = IF Creates(r) THEN Dest ELSE {}
    BY <2>1, WhatIsWritten DEF Fits, MemoryFits
  <2>3. {i \in Req : issue'[i] # NULL}
          = {i \in Req : issue[i] # NULL} \cup (IF Creates(r) THEN {r} ELSE {})
    BY <1>2, IssueAfter
  <2> QED
    BY <2>1, <2>2, <2>3 DEF IssueAnnouncedOnce
<1> QED
  BY <1>1, <1>2, RowsUntouched

(* What callers were told stays true of the rows.                          *)
LEMMA ReceiptsStep ==
  ASSUME TypeOK, Fits, Exclusive, Stable, ReceiptsTruthful, NEW r \in Req, Step(r)
  PROVE  ReceiptsTruthful'
<1> DEFINE Accepted == {"issue", "non_issue"}
<1>0. OnlyOwn(r) /\ pc[r] # "done"
  BY OthersUntouched, DoneDoesNotStep
<1>1. \A s \in Req : receipt[s] # "none" =>
        /\ s # r /\ pc[s] = "done" /\ KeyOf(s)' = KeyOf(s) /\ input'[s] = input[s]
        /\ KeyOf(s) \in EventKey
  BY <1>0, Placed, InputFixed DEF Fits, MemoryFits
<1>2. \A k \in EventKey : events[k] # NULL => events'[k] = events[k]
  BY RowsUntouched, RowsKept DEF dbVars
<1>3. \A s \in Req \ {r} : receipt'[s] = receipt[s]
  BY <1>0 DEF OnlyOwn
<1>4. CASE receipt'[r] \in {"none", "error"}
  <2>1. ASSUME NEW s \in Req, receipt'[s] \in Accepted
        PROVE  s # r /\ receipt[s] \in Accepted /\ input'[s] = input[s] /\ KeyOf(s)' = KeyOf(s)
               /\ events'[KeyOf(s)] = input[s]
    <3>1. s # r /\ receipt[s] \in Accepted
      BY <1>3, <1>4, <2>1
    <3>2. events[KeyOf(s)] = input[s] /\ input[s] # NULL
      BY <1>1, <3>1, Placed, IngestAssumption DEF ReceiptsTruthful, IngestAssumption
    <3> QED
      BY <1>1, <1>2, <3>1, <3>2
  <2>2. ASSUME NEW s \in Req, receipt'[s] = "duplicate"
        PROVE  events'[KeyOf(s)'] # NULL
    <3>1. s # r /\ receipt[s] = "duplicate"
      BY <1>3, <1>4, <2>2
    <3> QED
      BY <1>1, <1>2, <3>1 DEF ReceiptsTruthful
  <2>3. \A s \in Req : receipt'[s] \in Accepted => events'[KeyOf(s)'] = input'[s]
    BY <2>1
  <2>4. ASSUME NEW s \in Req, receipt'[s] \in Accepted,
               NEW q \in Req \ {s}, receipt'[q] \in Accepted
        PROVE  KeyOf(q)' # KeyOf(s)'
    BY <2>1, <2>4 DEF ReceiptsTruthful
  <2> QED
    BY <2>2, <2>3, <2>4 DEF ReceiptsTruthful
<1>5. CASE receipt'[r] \notin {"none", "error"}
  <2>1. Ends(r)
    BY <1>5, <1>0 DEF Step, Statement, Begin, Exists, CheckQuota, CheckLogQuota, AppendEvent,
      AppendLogRecords, upsertProjectHourlyStats, findIssueByFingerprint, updateIssue,
      nextIssueShortID, createIssue, EnqueueIssueOpened, Commit, CommitUnconfirmed, Abort, Ends,
      Finish, TypeOK, Fits, MemoryFits
  <2>2. /\ pc[r] = "commit" /\ receipt'[r] = answer[r] /\ input' = input
        /\ KeyOf(r) \in EventKey /\ KeyOf(r)' = KeyOf(r)
    BY <1>5, <2>1, EndsFinishes, Placed DEF KeyOf
  <2>3. answer[r] \in Accepted => events[KeyOf(r)] = NULL /\ events'[KeyOf(r)] = input[r]
    <3>1. answer[r] \in Accepted => Writes(r, EventL(r))
      BY <2>2, WhatIsWritten
    <3> QED
      BY <2>1, <2>2, <3>1 DEF Stable, Writes, Ends, Apply, TypeOK, EventL
  <2>4. answer[r] = "duplicate" => events'[KeyOf(r)] # NULL
    BY <1>2, <2>2 DEF Stable
  <2>5. ASSUME NEW s \in Req \ {r}, receipt'[s] \in Accepted
        PROVE  /\ receipt[s] \in Accepted /\ events[KeyOf(s)] = input[s]
               /\ events'[KeyOf(s)] = input[s] /\ input[s] # NULL
               /\ KeyOf(s)' = KeyOf(s)
    <3>1. receipt[s] \in Accepted
      BY <1>3, <2>5
    <3>2. events[KeyOf(s)] = input[s] /\ input[s] # NULL
      BY <1>1, <3>1, Placed, IngestAssumption DEF ReceiptsTruthful, IngestAssumption
    <3> QED
      BY <1>1, <1>2, <3>1, <3>2
  <2>6. ASSUME NEW s \in Req \ {r}, receipt'[s] = "duplicate"
        PROVE  events'[KeyOf(s)'] # NULL
    BY <1>1, <1>2, <1>3, <2>6 DEF ReceiptsTruthful
  <2>7. \A s \in Req : receipt'[s] \in Accepted => events'[KeyOf(s)'] = input'[s]
    BY <2>2, <2>3, <2>5
  <2>8. ASSUME NEW s \in Req, receipt'[s] \in Accepted,
               NEW q \in Req \ {s}, receipt'[q] \in Accepted
        PROVE  KeyOf(q)' # KeyOf(s)'
    <3>1. CASE s # r /\ q # r
      BY <2>5, <2>8, <3>1 DEF ReceiptsTruthful
    <3>2. CASE s = r
      BY <2>2, <2>3, <2>5, <2>8, <3>2
    <3>3. CASE q = r
      BY <2>2, <2>3, <2>5, <2>8, <3>3
    <3> QED
      BY <3>1, <3>2, <3>3
  <2> QED
    BY <2>2, <2>4, <2>6, <2>7, <2>8 DEF ReceiptsTruthful
<1> QED
  BY <1>4, <1>5

-----------------------------------------------------------------------------
(* Counting.                                                               *)

EventsIn(b) == {k \in EventKey : events[k] # NULL /\ <<events[k].project, events[k].hour>> = b}

(* The events of an issue, or of an hour, are finitely many.               *)
LEMMA Finite ==
  /\ IsFiniteSet(EventKey)
  /\ \A g : IsFiniteSet(EventsOf(g)) /\ Cardinality(EventsOf(g)) \in Nat
  /\ \A b : IsFiniteSet(EventsIn(b)) /\ Cardinality(EventsIn(b)) \in Nat
<1>1. IsFiniteSet(EventKey)
  BY FS_Product, IngestAssumption DEF IngestAssumption, EventKey
<1>2. \A S \in SUBSET EventKey : IsFiniteSet(S) /\ Cardinality(S) \in Nat
  BY <1>1, FS_Subset, FS_CardinalityType
<1> QED
  BY <1>1, <1>2 DEF EventsOf, EventsIn

(* The end of a transaction adds its event, once, or none.                 *)
LEMMA EventsAfter ==
  ASSUME TypeOK, Fits, Stable, NEW r \in Req, Ends(r)
  PROVE  /\ KeyOf(r) \in EventKey
         /\ answer[r] \in {"issue", "non_issue"} =>
              events[KeyOf(r)] = NULL /\ events' = [events EXCEPT ![KeyOf(r)] = input[r]]
         /\ answer[r] \notin {"issue", "non_issue"} => events' = events
<1>1. pc[r] = "commit" /\ KeyOf(r) \in EventKey
  BY Placed DEF Ends
<1>2. Writes(r, EventL(r)) <=> answer[r] \in {"issue", "non_issue"}
  BY <1>1, WhatIsWritten
<1> QED
  BY <1>1, <1>2 DEF Stable, Ends, Apply, Writes, EventL

(* An event adds itself to its group and to no other.                      *)
LEMMA GroupAfter ==
  ASSUME TypeOK, Fits, Stable, NEW r \in Req, Ends(r), NEW g \in Group
  PROVE  IF answer[r] = "issue" /\ g = GroupOf(r)
           THEN EventsOf(g)' = EventsOf(g) \cup {KeyOf(r)} /\ KeyOf(r) \notin EventsOf(g)
           ELSE EventsOf(g)' = EventsOf(g)
<1>0. pc[r] = "commit" /\ input[r] \in Input /\ input[r] # NULL
  BY Placed, IngestAssumption DEF Ends, IngestAssumption
<1>1. CASE answer[r] = "issue"
  <2>1. /\ input[r].kind = "issue" /\ KeyOf(r) \in EventKey /\ events[KeyOf(r)] = NULL
        /\ events' = [events EXCEPT ![KeyOf(r)] = input[r]]
    BY <1>0, <1>1, WhatIsWritten, EventsAfter
  <2>2. \A k \in EventKey : events'[k] = IF k = KeyOf(r) THEN input[r] ELSE events[k]
    BY <2>1 DEF TypeOK
  <2>3. <<input[r].project, input[r].fingerprint>> = g <=> g = GroupOf(r)
    BY DEF GroupOf
  <2> HIDE DEF KeyOf
  <2> QED
    BY <1>0, <1>1, <2>1, <2>2, <2>3 DEF EventsOf
<1>2. CASE answer[r] = "non_issue"
  <2>1. /\ input[r].kind = "plain" /\ KeyOf(r) \in EventKey /\ events[KeyOf(r)] = NULL
        /\ events' = [events EXCEPT ![KeyOf(r)] = input[r]]
    BY <1>0, <1>2, WhatIsWritten, EventsAfter
  <2>2. \A k \in EventKey : events'[k] = IF k = KeyOf(r) THEN input[r] ELSE events[k]
    BY <2>1 DEF TypeOK
  <2> QED
    BY <1>0, <1>2, <2>1, <2>2 DEF EventsOf
<1>3. CASE answer[r] \notin {"issue", "non_issue"}
  BY <1>3, EventsAfter DEF EventsOf
<1> QED
  BY <1>1, <1>2, <1>3

(* An issue counts the events that are filed under it.                     *)
LEMMA CountedStep ==
  ASSUME TypeOK, Fits, Exclusive, Stable, Named, EveryEventCounted, NEW r \in Req, Step(r)
  PROVE  EveryEventCounted'
<1>1. CASE UNCHANGED dbVars
  BY <1>1 DEF EveryEventCounted, EventsOf, dbVars
<1>2. CASE Ends(r)
  <2>0. pc[r] = "commit" /\ GroupOf(r) \in Group /\ KeyOf(r) \in EventKey
    BY <1>2, Placed DEF Ends
  <2>1. ASSUME NEW g \in Group
        PROVE  IF fpIssue'[g] = NULL
                 THEN EventsOf(g)' = {}
                 ELSE /\ issue'[fpIssue'[g]].count = Cardinality(EventsOf(g)')
                      /\ issue'[fpIssue'[g]].last \in EventsOf(g)'
    <3>0. /\ Cardinality(EventsOf(g)) \in Nat
          /\ Cardinality(EventsOf(g) \cup {KeyOf(r)}) =
               IF KeyOf(r) \in EventsOf(g) THEN Cardinality(EventsOf(g))
                                           ELSE Cardinality(EventsOf(g)) + 1
      BY Finite, FS_AddElement
    <3>1. CASE Creates(r) /\ g = GroupOf(r)
      <4>1. /\ answer[r] = "issue" /\ fpIssue[g] = NULL /\ fpIssue'[g] = r
            /\ issue'[r].count = 1 /\ issue'[r].last = KeyOf(r)
        BY <1>2, <2>0, <3>1, WhatIsWritten, IssueAfter
          DEF Stable, NewIssue, Ends, Apply, TypeOK, Creates, Writes, GroupL
      <4>2. EventsOf(g) = {} /\ EventsOf(g)' = EventsOf(g) \cup {KeyOf(r)}
        BY <1>2, <3>1, <4>1, GroupAfter DEF EveryEventCounted
      <4>3. Cardinality(EventsOf(g)) = 0
        BY <4>2, FS_EmptySet
      <4> QED
        BY <3>0, <4>1, <4>2, <4>3, IngestAssumption DEF IngestAssumption
    <3>2. CASE Updates(r) /\ g = GroupOf(r)
      <4>1. answer[r] = "issue" /\ target[r] # NULL /\ ~Creates(r)
        BY <2>0, <3>2, WhatIsWritten
      <4>2. /\ fpIssue[g] = target[r] /\ fpIssue'[g] = target[r] /\ target[r] # NULL
            /\ issue[target[r]] \in IssueRow
            /\ issue'[target[r]].count = issue[target[r]].count + 1
            /\ issue'[target[r]].last = KeyOf(r)
        BY <1>2, <2>0, <3>2, <4>1, UpdateFindsIssue, IssueAfter DEF Ends, Apply
      <4>3. EventsOf(g)' = EventsOf(g) \cup {KeyOf(r)} /\ KeyOf(r) \notin EventsOf(g)
        BY <1>2, <3>2, <4>1, GroupAfter
      <4>4. issue[target[r]].count = Cardinality(EventsOf(g))
        BY <4>2 DEF EveryEventCounted
      <4> QED
        BY <3>0, <4>2, <4>3, <4>4
    <3>3. CASE ~((Creates(r) \/ Updates(r)) /\ g = GroupOf(r))
      <4>1. EventsOf(g)' = EventsOf(g)
        BY <1>2, <2>0, <3>3, WhatIsWritten, GroupAfter
      <4>2. fpIssue'[g] = fpIssue[g]
        BY <1>2, <2>0, <3>3 DEF Ends, Apply, TypeOK
      <4>3. ASSUME fpIssue[g] # NULL PROVE issue'[fpIssue[g]] = issue[fpIssue[g]]
        <5>1. /\ fpIssue[g] \in Req /\ issue[fpIssue[g]] # NULL /\ GroupOf(fpIssue[g]) = g
              /\ pc[fpIssue[g]] = "done"
          BY <4>3 DEF Named, TypeOK
        <5>2. Updates(r) => fpIssue[g] # target[r]
          <6> SUFFICES ASSUME Updates(r) PROVE fpIssue[g] # target[r]
            OBVIOUS
          <6>1. target[r] # NULL /\ g # GroupOf(r)
            BY <2>0, <3>3, WhatIsWritten
          <6> QED
            BY <2>0, <5>1, <6>1, UpdateFindsIssue
        <5> QED
          BY <1>2, <2>0, <5>1, <5>2, IssueAfter
      <4> QED
        BY <4>1, <4>2, <4>3 DEF EveryEventCounted
    <3> QED
      BY <3>1, <3>2, <3>3
  <2> QED
    BY <2>1 DEF EveryEventCounted
<1> QED
  BY <1>1, <1>2, RowsUntouched

(* The hour of the event gets it, and no other hour does.                  *)
LEMMA HourAfter ==
  ASSUME TypeOK, Fits, Stable, NEW r \in Req, Ends(r), NEW b \in Bucket
  PROVE  IF answer[r] \in {"issue", "non_issue"} /\ b = BucketOf(r)
           THEN EventsIn(b)' = EventsIn(b) \cup {KeyOf(r)} /\ KeyOf(r) \notin EventsIn(b)
           ELSE EventsIn(b)' = EventsIn(b)
<1>0. pc[r] = "commit" /\ input[r] \in Input /\ input[r] # NULL
  BY Placed, IngestAssumption DEF Ends, IngestAssumption
<1>1. CASE answer[r] \in {"issue", "non_issue"}
  <2>1. /\ KeyOf(r) \in EventKey /\ events[KeyOf(r)] = NULL
        /\ events' = [events EXCEPT ![KeyOf(r)] = input[r]]
    BY <1>1, EventsAfter
  <2>2. \A k \in EventKey : events'[k] = IF k = KeyOf(r) THEN input[r] ELSE events[k]
    BY <2>1 DEF TypeOK
  <2>3. <<input[r].project, input[r].hour>> = b <=> b = BucketOf(r)
    BY DEF BucketOf
  <2> QED
    BY <1>0, <1>1, <2>1, <2>2, <2>3 DEF EventsIn
<1>2. CASE answer[r] \notin {"issue", "non_issue"}
  BY <1>2, EventsAfter DEF EventsIn
<1> QED
  BY <1>1, <1>2

(* The hourly counters keep agreeing with the events.                      *)
LEMMA HourlyStep ==
  ASSUME TypeOK, Fits, Stable, HourlyStatsExact, NEW r \in Req, Step(r)
  PROVE  HourlyStatsExact'
<1>1. CASE UNCHANGED dbVars
  BY <1>1 DEF HourlyStatsExact, dbVars
<1>2. CASE Ends(r)
  <2>0. /\ pc[r] = "commit" /\ BucketOf(r) \in Bucket /\ input[r] \in Input
        /\ input[r] \in InputType
    BY <1>2, Placed DEF Ends
  <2>1. ASSUME NEW b \in Bucket
        PROVE  hourly'[b] = logs'[b] + Cardinality(EventsIn(b)')
    <3>a. hourly[b] \in Nat /\ logs[b] \in Nat /\ hourly[b] = logs[b] + Cardinality(EventsIn(b))
      BY DEF HourlyStatsExact, EventsIn, TypeOK
    <3>b. /\ Cardinality(EventsIn(b)) \in Nat
          /\ Cardinality(EventsIn(b) \cup {KeyOf(r)}) =
               IF KeyOf(r) \in EventsIn(b) THEN Cardinality(EventsIn(b))
                                           ELSE Cardinality(EventsIn(b)) + 1
      BY Finite, FS_AddElement
    <3>1. CASE answer[r] \in {"issue", "non_issue"} /\ b = BucketOf(r)
      <4>1. input[r].count = 1
        BY <2>0, <3>1, WhatIsWritten, IngestAssumption DEF IngestAssumption
      <4>2. hourly'[b] = hourly[b] + 1 /\ logs' = logs
        BY <1>2, <2>0, <3>1, <4>1, WhatIsWritten DEF Ends, Apply, TypeOK, HourL
      <4> QED
        <5>1. EventsIn(b)' = EventsIn(b) \cup {KeyOf(r)} /\ KeyOf(r) \notin EventsIn(b)
          BY <1>2, <3>1, HourAfter
        <5> QED
          BY <3>a, <3>b, <4>2, <5>1
    <3>2. CASE answer[r] = "logs" /\ b = BucketOf(r)
      <4>1. hourly'[b] = hourly[b] + input[r].count /\ logs'[b] = logs[b] + input[r].count
        BY <1>2, <2>0, <3>2, WhatIsWritten DEF Ends, Apply, TypeOK, HourL
      <4>2. input[r].count \in Nat
        BY <2>0 DEF InputType
      <4> QED
        <5>1. EventsIn(b)' = EventsIn(b)
          BY <1>2, <3>2, HourAfter
        <5> QED
          BY <3>a, <3>b, <4>1, <4>2, <5>1
    <3>3. CASE ~(answer[r] \in {"issue", "non_issue", "logs"} /\ b = BucketOf(r))
      <4>1. hourly'[b] = hourly[b] /\ logs'[b] = logs[b]
        BY <1>2, <2>0, <3>3, WhatIsWritten DEF Ends, Apply, TypeOK, HourL
      <4> QED
        BY <1>2, <3>a, <3>3, <4>1, HourAfter
    <3> QED
      BY <3>1, <3>2, <3>3
  <2> QED
    BY <2>1 DEF HourlyStatsExact, EventsIn
<1> QED
  BY <1>1, <1>2, RowsUntouched

-----------------------------------------------------------------------------
(* The invariant.                                                          *)

(* The empty database satisfies the invariant.                             *)
LEMMA InitIInv == Init => IInv
<1> SUFFICES ASSUME Init PROVE IInv
  OBVIOUS
<1>1. TypeOK
  BY DEF Init, TypeOK, PC, Receipt
<1>2. Fits /\ Exclusive /\ Stable /\ Named
  BY DEF Init, Fits, HeldFits, KindFits, MemoryFits, Exclusive, Stable, Named
<1>3. ShortIdsUnique /\ IssueAnnouncedOnce /\ ReceiptsTruthful
  BY DEF Init, ShortIdsUnique, IssueAnnouncedOnce, ReceiptsTruthful
<1>4. EveryEventCounted
  BY DEF Init, EveryEventCounted, EventsOf
<1>5. HourlyStatsExact
  <2>1. \A b \in Bucket : EventsIn(b) = {} /\ hourly[b] = 0 /\ logs[b] = 0
    BY DEF Init, EventsIn
  <2> QED
    BY <2>1, FS_EmptySet DEF HourlyStatsExact, EventsIn
<1> QED
  BY <1>1, <1>2, <1>3, <1>4, <1>5 DEF IInv

(* The step of a request keeps the invariant.                              *)
LEMMA IInvStep ==
  ASSUME IInv, NEW r \in Req, Step(r)
  PROVE  IInv'
BY TypeStep, FitsStep, ExclusiveStep, StableStep, NamedStep, ShortIdsStep, AnnouncedStep,
  ReceiptsStep, CountedStep, HourlyStep DEF IInv

(* A step that changes nothing keeps the invariant.                        *)
LEMMA IInvStutter ==
  ASSUME IInv, UNCHANGED vars
  PROVE  IInv'
<1> USE DEF IInv, vars, dbVars, txVars
<1>1. (TypeOK /\ Exclusive /\ ShortIdsUnique /\ IssueAnnouncedOnce)'
  BY DEF TypeOK, Exclusive, ShortIdsUnique, IssueAnnouncedOnce
<1>2. Fits'
  <2>1. ASSUME NEW r \in Req PROVE (HeldFits(r) /\ KindFits(r) /\ MemoryFits(r))'
    <3>1. HeldFits(r) /\ KindFits(r) /\ MemoryFits(r)
      BY DEF Fits
    <3> QED
      BY ZenonT(60), <3>1 DEF HeldFits, CommitFits, KindFits, MemoryFits,
        EventL, HourL, ProjectL, GroupL, IssueL, KeyOf, BucketOf, GroupOf
  <2> QED
    BY <2>1 DEF Fits
<1>4. (Stable /\ Named)'
  BY DEF Stable, Named, EventL, GroupL, ProjectL, KeyOf, GroupOf
<1>3. (ReceiptsTruthful /\ EveryEventCounted /\ HourlyStatsExact)'
  BY DEF ReceiptsTruthful, EveryEventCounted, HourlyStatsExact, EventsOf, KeyOf
<1> QED
  BY <1>1, <1>2, <1>3, <1>4

(* Every reachable state satisfies the invariant.                          *)
LEMMA Invariant == Spec => []IInv
<1>1. IInv /\ [Next]_vars => IInv'
  BY IInvStep, IInvStutter DEF Next, AllDone, Step
<1> QED
  BY <1>1, InitIInv, PTL DEF Spec

-----------------------------------------------------------------------------
(* The rows and the memory of the transactions keep their types.           *)
THEOREM TypeCorrect == Spec => []TypeOK
BY Invariant, PTL DEF IInv

(* Requests that wait for the locks of one another never form a cycle: the *)
(* statements of IngestCanonicalEvent and of the log ingest take the locks *)
(* of event key, hour, project, fingerprint and issue in that order.       *)
THEOREM NoDeadlock == Spec => []NoWaitCycle
<1>1. IInv => NoWaitCycle
  BY NoCycle DEF IInv
<1> QED
  BY <1>1, Invariant, PTL

(* A fingerprint that names its issue, and is named by it, has one issue.  *)
LEMMA NamedOnce ==
  ASSUME TypeOK, Fits, Named
  PROVE  OneIssuePerFingerprint
<1>1. ASSUME NEW g \in Group, fpIssue[g] # NULL
      PROVE  issue[fpIssue[g]] # NULL /\ issue[fpIssue[g]].project = g[1]
  <2>1. /\ fpIssue[g] \in Req /\ issue[fpIssue[g]] # NULL /\ GroupOf(fpIssue[g]) = g
        /\ issue[fpIssue[g]].project = input[fpIssue[g]].project
    BY <1>1 DEF Named, TypeOK
  <2> QED
    BY <2>1 DEF GroupOf
<1>2. ASSUME NEW i \in Req, issue[i] # NULL
      PROVE  \E g \in Group : fpIssue[g] = i /\ \A f \in Group : fpIssue[f] = i => f = g
  <2>1. fpIssue[GroupOf(i)] = i /\ GroupOf(i) \in Group
    BY <1>2, Placed DEF Named
  <2>2. ASSUME NEW f \in Group, fpIssue[f] = i PROVE f = GroupOf(i)
    BY <2>2, IngestAssumption DEF Named, IngestAssumption
  <2> QED
    BY <2>1, <2>2
<1> QED
  BY <1>1, <1>2 DEF OneIssuePerFingerprint

(* However requests race for a fingerprint, it names one issue and every   *)
(* issue is named by one fingerprint (createIssue).                        *)
THEOREM IssuesAreNamedOnce == Spec => []OneIssuePerFingerprint
<1>1. IInv => OneIssuePerFingerprint
  BY NamedOnce DEF IInv
<1> QED
  BY <1>1, Invariant, PTL

(* The event_count of an issue is the number of its stored events          *)
(* (createIssue, updateIssue), and last_event_id is one of them.           *)
THEOREM EventsAreCounted == Spec => []EveryEventCounted
BY Invariant, PTL DEF IInv

(* The counters behind the quota count every stored event and log record   *)
(* once (upsertProjectHourlyStats).                                        *)
THEOREM StatsAreExact == Spec => []HourlyStatsExact
BY Invariant, PTL DEF IInv

(* No two issues of a project get the same short id (nextIssueShortID).    *)
THEOREM ShortIdsDiffer == Spec => []ShortIdsUnique
BY Invariant, PTL DEF IInv

(* Exactly the committed issues are announced, each to every destination   *)
(* (EnqueueIssueOpened inside the transaction).                            *)
THEOREM AnnouncedOnce == Spec => []IssueAnnouncedOnce
BY Invariant, PTL DEF IInv

(* No receipt claims what is not stored, and no two claim the same event.  *)
THEOREM ReceiptsHold == Spec => []ReceiptsTruthful
BY Invariant, PTL DEF IInv

-----------------------------------------------------------------------------
(* The contract.                                                           *)

(* The contract is told of an alert for each destination of each issue.    *)
LEMMA AlertedGroups == IInv => Alerted = {p \in Dest \X Group : fpIssue[p[2]] # NULL}
<1> SUFFICES ASSUME IInv PROVE Alerted = {p \in Dest \X Group : fpIssue[p[2]] # NULL}
  OBVIOUS
<1>1. ASSUME NEW p \in Dest \X Group, fpIssue[p[2]] # NULL
      PROVE  <<p[1], fpIssue[p[2]]>> \in intents
  <2>1. p[1] \in Dest /\ p[2] \in Group
    OBVIOUS
  <2>2. fpIssue[p[2]] \in Req /\ issue[fpIssue[p[2]]] # NULL
    BY <1>1, <2>1 DEF IInv, Named, TypeOK
  <2> QED
    BY <2>1, <2>2 DEF IInv, IssueAnnouncedOnce
<1> QED
  BY <1>1 DEF Alerted

SizesFit ==
  \A g \in Group : /\ SizeOf(g) = 0 <=> fpIssue[g] = NULL
                   /\ SizeOf(g) = Cardinality(EventsOf(g)) /\ SizeOf(g) \in Nat

(* The counter of an issue is the number of its events.                    *)
LEMMA Sizes == IInv => SizesFit
<1> SUFFICES ASSUME IInv, NEW g \in Group
             PROVE  /\ SizeOf(g) = 0 <=> fpIssue[g] = NULL
                    /\ SizeOf(g) = Cardinality(EventsOf(g)) /\ SizeOf(g) \in Nat
  BY DEF SizesFit
<1>1. /\ IsFiniteSet(EventsOf(g)) /\ Cardinality(EventsOf(g)) \in Nat
      /\ Cardinality(EventsOf(g)) = 0 <=> EventsOf(g) = {}
  BY Finite, FS_EmptySet
<1> QED
  BY <1>1 DEF IInv, EveryEventCounted, SizeOf

(* A step that stores nothing is a refusal, the report of a duplicate, or  *)
(* nothing at all.                                                         *)
LEMMA ContractSteps ==
  ASSUME IInv, IInv', NEW r \in Req, Ends(r)
  PROVE  Contract!Next
<1> USE DEF IInv
<1>0. /\ pc[r] = "commit" /\ input[r] \in Input /\ KeyOf(r) \in EventKey
      /\ BucketOf(r) \in Bucket /\ GroupOf(r) \in Group /\ CommitFits(r)
  BY Placed DEF Ends, Fits, HeldFits
<1>1. Contract!Answer(r, receipt'[r])
  <2>1. receipt' = [receipt EXCEPT ![r] = receipt'[r]]
    BY DEF Ends, Finish, TypeOK
  <2>2. receipt[r] = "none"
    BY <1>0 DEF Fits, MemoryFits
  <2> QED
    BY <2>1, <2>2 DEF Contract!Answer
<1>2. receipt'[r] \in {answer[r], "error"}
  BY EndsFinishes
<1>3. CASE answer[r] \in {"duplicate", "quota"}
  <2>1. held[r] = {} /\ ~Creates(r) /\ ~Updates(r)
    BY <1>0, <1>3 DEF CommitFits, Creates, Updates, Writes
  <2>2. events' = events /\ hourly' = hourly /\ fpIssue' = fpIssue /\ issue' = issue
    BY <1>3, <2>1 DEF Ends, Apply, Writes
  <2>3. intents' = intents
    BY <1>0, <1>3 DEF Ends, Apply, Fits, MemoryFits
  <2>4. /\ [g \in Group |-> SizeOf(g)]' = [g \in Group |-> SizeOf(g)]
        /\ Alerted' = Alerted
    BY <2>2, <2>3 DEF SizeOf, Alerted
  <2>5. CASE answer[r] = "duplicate" /\ receipt'[r] = "duplicate"
    <3>1. events[KeyOf(r)] # NULL /\ input[r].kind # "logs"
      BY <1>0, <2>5 DEF Stable, CommitFits
    <3> QED
      BY <1>0, <1>1, <2>2, <2>4, <2>5, <3>1
        DEF Contract!Next, Contract!ReportDuplicate, Contract!Key, KeyOf
  <2>6. CASE receipt'[r] \in {"quota", "error"}
    BY <1>1, <2>2, <2>4, <2>6 DEF Contract!Next, Contract!Refuse
  <2> QED
    BY <1>2, <1>3, <2>5, <2>6
<1>4. CASE answer[r] = "non_issue"
  <2>1. ~Creates(r) /\ ~Updates(r) /\ input[r].kind = "plain"
    BY <1>0, <1>4, WhatIsWritten
  <2>2. hourly' = [hourly EXCEPT ![BucketOf(r)] = @ + input[r].count]
    BY <1>0, <1>4, WhatIsWritten DEF Ends, Apply, HourL
  <2>3. events' = [events EXCEPT ![KeyOf(r)] = input[r]] /\ events[KeyOf(r)] = NULL
    BY <1>4, EventsAfter
  <2>4. fpIssue' = fpIssue /\ issue' = issue /\ intents' = intents
    BY <1>0, <1>4, <2>1 DEF Ends, Apply, Fits, MemoryFits
  <2>5. /\ [g \in Group |-> SizeOf(g)]' = [g \in Group |-> SizeOf(g)]
        /\ Alerted' = Alerted
    BY <2>4 DEF SizeOf, Alerted
  <2>6. Contract!AcceptPlainEvent(r, input[r], receipt'[r])
    BY <1>1, <1>2, <1>4, <2>1, <2>2, <2>3, <2>5
      DEF Contract!AcceptPlainEvent, Contract!Key, Contract!Count, Contract!BucketIn,
        KeyOf, BucketOf
  <2> QED
    BY <1>0, <1>2, <1>4, <2>6 DEF Contract!Next
<1>5. CASE answer[r] = "logs"
  <2>1. ~Creates(r) /\ ~Updates(r) /\ input[r].kind = "logs"
    BY <1>0, <1>5, WhatIsWritten
  <2>2. hourly' = [hourly EXCEPT ![BucketOf(r)] = @ + input[r].count]
    BY <1>0, <1>5, WhatIsWritten DEF Ends, Apply, HourL
  <2>3. events' = events
    BY <1>5, EventsAfter
  <2>4. fpIssue' = fpIssue /\ issue' = issue /\ intents' = intents
    BY <1>0, <1>5, <2>1 DEF Ends, Apply, Fits, MemoryFits
  <2>5. /\ [g \in Group |-> SizeOf(g)]' = [g \in Group |-> SizeOf(g)]
        /\ Alerted' = Alerted
    BY <2>4 DEF SizeOf, Alerted
  <2>6. Contract!AcceptLogs(r, input[r], receipt'[r])
    BY <1>1, <1>2, <1>5, <2>1, <2>2, <2>3, <2>5
      DEF Contract!AcceptLogs, Contract!Count, Contract!BucketIn, BucketOf
  <2> QED
    BY <1>0, <1>2, <1>5, <2>6 DEF Contract!Next
<1>6. CASE answer[r] = "issue"
  <2> DEFINE k == KeyOf(r)
             h == GroupOf(r)
  <2>1. input[r].kind = "issue" /\ (Creates(r) \/ Updates(r))
    BY <1>0, <1>6, WhatIsWritten
  <2>2. hourly' = [hourly EXCEPT ![BucketOf(r)] = @ + input[r].count]
    BY <1>0, <1>6, WhatIsWritten DEF Ends, Apply, HourL
  <2>3. events' = [events EXCEPT ![k] = input[r]] /\ events[k] = NULL
    BY <1>6, EventsAfter
  <2>4. ASSUME NEW g \in Group
        PROVE  SizeOf(g)' = IF g = h THEN SizeOf(g) + 1 ELSE SizeOf(g)
    <3>1. SizeOf(g) = Cardinality(EventsOf(g)) /\ SizeOf(g)' = Cardinality(EventsOf(g)')
      <4>1. SizesFit /\ SizesFit'
        BY Sizes, PTL
      <4> QED
        BY <4>1 DEF SizesFit
    <3>2. IF g = h THEN EventsOf(g)' = EventsOf(g) \cup {k} /\ k \notin EventsOf(g)
                   ELSE EventsOf(g)' = EventsOf(g)
      BY <1>6, GroupAfter
    <3>3. Cardinality(EventsOf(g) \cup {k}) =
            IF k \in EventsOf(g) THEN Cardinality(EventsOf(g)) ELSE Cardinality(EventsOf(g)) + 1
      BY Finite, FS_AddElement
    <3> QED
      BY <3>1, <3>2, <3>3
  <2>5. [g \in Group |-> SizeOf(g)]'
          = [[g \in Group |-> SizeOf(g)] EXCEPT ![h] = @ + 1]
    BY <1>0, <2>4
  <2>6. \A g \in Group : fpIssue'[g] # NULL <=> fpIssue[g] # NULL \/ g = h
    <3>1. CASE Creates(r)
      BY <1>0, <3>1, IngestAssumption DEF Ends, Apply, TypeOK, IngestAssumption
    <3>2. CASE Updates(r) /\ ~Creates(r)
      <4>1. fpIssue[h] # NULL /\ fpIssue' = fpIssue
        BY <1>0, <3>2, UpdateFindsIssue DEF Ends, Apply, Updates
      <4> QED
        BY <4>1
    <3> QED
      BY <2>1, <3>1, <3>2
  <2>7. Alerted' = Alerted \cup {<<d, h>> : d \in Dest}
    <3>1. Alerted = {p \in Dest \X Group : fpIssue[p[2]] # NULL}
      BY AlertedGroups
    <3>2. (Alerted = {p \in Dest \X Group : fpIssue[p[2]] # NULL})'
      BY AlertedGroups, PTL
    <3>3. {p \in Dest \X Group : p[2] = h} = {<<d, h>> : d \in Dest}
      BY <1>0
    <3> QED
      BY <2>6, <3>1, <3>2, <3>3
  <2>8. SizeOf(h) # 0 => {<<d, h>> : d \in Dest} \subseteq Alerted
    BY <1>0, AlertedGroups, Sizes DEF SizesFit
  <2>9. Alerted' = IF SizeOf(h) = 0 THEN Alerted \cup {<<d, h>> : d \in Dest} ELSE Alerted
    BY <2>7, <2>8
  <2>10. Contract!AcceptIssueEvent(r, input[r], receipt'[r])
    BY <1>0, <1>1, <1>2, <1>6, <2>1, <2>2, <2>3, <2>5, <2>9
      DEF Contract!AcceptIssueEvent, Contract!Key, Contract!Count, Contract!BucketIn,
        Contract!GroupIn, KeyOf, BucketOf, GroupOf
  <2> QED
    BY <1>0, <1>2, <1>6, <2>10 DEF Contract!Next
<1> QED
  BY <1>0, <1>3, <1>4, <1>5, <1>6 DEF CommitFits

(* A statement inside a transaction is, for the contract, an answer or     *)
(* nothing.                                                                *)
LEMMA QuietSteps ==
  ASSUME IInv, NEW r \in Req, Step(r), UNCHANGED dbVars
  PROVE  Contract!Next \/ UNCHANGED Contract!vars
<1>1. /\ [g \in Group |-> SizeOf(g)]' = [g \in Group |-> SizeOf(g)]
      /\ Alerted' = Alerted /\ events' = events /\ hourly' = hourly
  BY DEF dbVars, SizeOf, Alerted
<1>2. CASE receipt' = receipt
  BY <1>1, <1>2 DEF Contract!vars
<1>3. CASE Abort(r)
  <2>1. receipt[r] = "none" /\ receipt' = [receipt EXCEPT ![r] = "error"]
    BY <1>3 DEF Abort, Open, Finish, IInv, Fits, MemoryFits
  <2> QED
    BY <1>1, <2>1 DEF Contract!Next, Contract!Refuse, Contract!Answer
<1>4. CASE Commit(r) \/ CommitUnconfirmed(r)
  <2>1. Ends(r)
    BY <1>4 DEF Commit, CommitUnconfirmed, Ends
  <2>2. IInv'
    BY IInvStep
  <2> QED
    BY <2>1, <2>2, ContractSteps
<1>5. receipt' = receipt \/ Abort(r) \/ Commit(r) \/ CommitUnconfirmed(r)
  BY DEF Step, Statement, Begin, Exists, CheckQuota, CheckLogQuota, AppendEvent,
    AppendLogRecords, upsertProjectHourlyStats, findIssueByFingerprint, updateIssue,
    nextIssueShortID, createIssue, EnqueueIssueOpened
<1> QED
  BY <1>2, <1>3, <1>4, <1>5

(* Concurrent READ COMMITTED transactions, with failures, unconfirmed      *)
(* commits and repeated events, are indistinguishable from requests served *)
(* one at a time by the contract.                                          *)
THEOREM IngestImplementsContract == Spec => ImplementsContract
<1>1. Init => Contract!Init
  <2> SUFFICES ASSUME Init PROVE Contract!Init
    OBVIOUS
  <2>1. [g \in Group |-> SizeOf(g)] = [g \in Group |-> 0] /\ Alerted = {}
    BY DEF Init, SizeOf, Alerted
  <2> QED
    BY <2>1 DEF Init, Contract!Init
<1>2. IInv /\ [Next]_vars => [Contract!Next]_(Contract!vars)
  <2> SUFFICES ASSUME IInv, [Next]_vars
               PROVE  Contract!Next \/ UNCHANGED Contract!vars
    OBVIOUS
  <2>1. ASSUME NEW r \in Req, Step(r) PROVE Contract!Next \/ UNCHANGED Contract!vars
    BY <2>1, RowsUntouched, QuietSteps, ContractSteps, IInvStep
  <2>2. CASE UNCHANGED vars
    BY <2>2 DEF Contract!vars, vars, dbVars, txVars, SizeOf, Alerted
  <2> QED
    BY <2>1, <2>2 DEF Next, AllDone, Step
<1> QED
  BY <1>1, <1>2, Invariant, PTL DEF Spec, ImplementsContract, Contract!Spec

-----------------------------------------------------------------------------
(* Sums.  They are computed by taking one term after the other away, and   *)
(* what holds of the least set of terms that has it holds of none.         *)

(* Sets of subsets of a finite set have a least member.                    *)
LEMMA LeastSet ==
  ASSUME NEW S, IsFiniteSet(S), NEW B \in SUBSET (SUBSET S), B # {}
  PROVE  \E s \in B : \A t \in B : ~(t \subseteq s /\ t # s)
<1>1. IsWellFoundedOn(StrictSubsetOrdering(S), SUBSET S)
  BY FS_StrictSubsetOrderingWellFounded, FS_FiniteSubsetsOfFinite
<1>2. PICK s \in B : \A t \in B : <<t, s>> \notin StrictSubsetOrdering(S)
  BY <1>1, WFMin
<1>. QED
  BY <1>2 DEF StrictSubsetOrdering

Pick(s) == CHOOSE x \in s : TRUE

IsSum(g, f, S) ==
  g = [s \in SUBSET S |-> IF s = {} THEN 0 ELSE f[Pick(s)] + g[s \ {Pick(s)}]]

Sum(f, S) == MapThenSumSet(LAMBDA x : f[x], S)

SumFcn(f, S) == CHOOSE g : IsSum(g, f, S)

(* MapThenSumSet is the sum as it is computed.                             *)
LEMMA SumIs ==
  ASSUME NEW f, NEW S
  PROVE  Sum(f, S) = SumFcn(f, S)[S]
BY DEF Sum, MapThenSumSet, MapThenFoldSet, SumFcn, IsSum, Pick

(* The element that the sum takes is one of the set.                       *)
LEMMA PickIn ==
  ASSUME NEW s, s # {}
  PROVE  Pick(s) \in s
BY DEF Pick

(* A sum does not depend on what else there is to add.                     *)
LEMMA SumsAgree ==
  ASSUME NEW f, NEW S, NEW T, NEW g, NEW k, IsSum(g, f, S), IsSum(k, f, T),
         NEW u \in SUBSET S, u \in SUBSET T, IsFiniteSet(u)
  PROVE  g[u] = k[u]
<1> DEFINE B == {v \in SUBSET u : g[v] # k[v]}
<1>1. SUFFICES ASSUME B # {} PROVE FALSE
  OBVIOUS
<1>2. PICK v \in B : \A t \in B : ~(t \subseteq v /\ t # v)
  <2>. HIDE DEF B
  <2>1. B \in SUBSET (SUBSET u)
    BY DEF B
  <2>. QED
    BY <1>1, <2>1, LeastSet
<1>3. v \in SUBSET S /\ v \in SUBSET T
  OBVIOUS
<1>4. CASE v = {}
  BY <1>3, <1>4 DEF IsSum
<1>5. CASE v # {}
  <2>1. Pick(v) \in v
    BY <1>5, PickIn
  <2>2. v \ {Pick(v)} \in SUBSET u /\ v \ {Pick(v)} # v
    BY <2>1
  <2>3. g[v \ {Pick(v)}] = k[v \ {Pick(v)}]
    BY <1>2, <2>2
  <2>4. g[v] = f[Pick(v)] + g[v \ {Pick(v)}]
    BY <1>3, <1>5 DEF IsSum
  <2>5. k[v] = f[Pick(v)] + k[v \ {Pick(v)}]
    BY <1>3, <1>5 DEF IsSum
  <2>. QED
    BY <2>3, <2>4, <2>5
<1>. QED
  BY <1>4, <1>5

(* Whatever is finite can be added.                                        *)
LEMMA SumExists ==
  ASSUME NEW f, NEW S, IsFiniteSet(S)
  PROVE  \E g : IsSum(g, f, S)
<1> DEFINE B == {v \in SUBSET S : ~ \E g : IsSum(g, f, v)}
<1>1. SUFFICES ASSUME B # {} PROVE FALSE
  OBVIOUS
<1>2. PICK v \in B : \A t \in B : ~(t \subseteq v /\ t # v)
  <2>. HIDE DEF B
  <2>1. B \in SUBSET (SUBSET S)
    BY DEF B
  <2>. QED
    BY <1>1, <2>1, LeastSet
<1> DEFINE F(t) == SumFcn(f, t)
           G == [s \in SUBSET v |->
                   IF s = {} THEN 0 ELSE f[Pick(s)] + F(s \ {Pick(s)})[s \ {Pick(s)}]]
<1>3. ASSUME NEW t \in SUBSET v, t # v PROVE IsSum(F(t), f, t)
  <2>1. \E g : IsSum(g, f, t)
    BY <1>2, <1>3
  <2>. QED
    BY <2>1 DEF SumFcn
<1>4. ASSUME NEW s \in SUBSET v, s # {}
      PROVE  G[s \ {Pick(s)}] = F(s \ {Pick(s)})[s \ {Pick(s)}]
  <2> DEFINE t == s \ {Pick(s)}
             u == t \ {Pick(t)}
  <2>1. t \in SUBSET v /\ t # v
    BY <1>4, PickIn
  <2>2. IsSum(F(t), f, t)
    BY <1>3, <2>1
  <2>3. CASE t = {}
    <3>1. F(t)[t] = 0
      BY <2>2, <2>3 DEF IsSum
    <3>. QED
      BY <2>3, <3>1
  <2>4. CASE t # {}
    <3>1. u \in SUBSET t /\ u \in SUBSET v /\ u # v
      BY <2>1, <2>4, PickIn
    <3>2. IsSum(F(u), f, u)
      BY <1>3, <3>1
    <3>3. IsFiniteSet(u)
      BY <3>1, FS_Subset
    <3>4. F(t)[u] = F(u)[u]
      <4>. HIDE DEF F, u, t
      <4>. QED
        BY <2>2, <3>1, <3>2, <3>3, SumsAgree
    <3>5. F(t)[t] = f[Pick(t)] + F(t)[u]
      <4>. HIDE DEF F
      <4>. QED
        BY <2>2, <2>4 DEF IsSum
    <3>6. G[t] = f[Pick(t)] + F(u)[u]
      BY <2>1, <2>4
    <3>. QED
      BY <3>4, <3>5, <3>6
  <2>. QED
    BY <2>3, <2>4
<1>5. IsSum(G, f, v)
  <2>1. ASSUME NEW s \in SUBSET v
        PROVE  G[s] = IF s = {} THEN 0 ELSE f[Pick(s)] + G[s \ {Pick(s)}]
    BY <1>4
  <2>2. G = [s \in SUBSET v |-> G[s]]
    OBVIOUS
  <2>. HIDE DEF G
  <2>3. [s \in SUBSET v |-> G[s]]
          = [s \in SUBSET v |-> IF s = {} THEN 0 ELSE f[Pick(s)] + G[s \ {Pick(s)}]]
    BY <2>1
  <2>. QED
    BY <2>2, <2>3 DEF IsSum
<1>. QED
  BY <1>2, <1>5

(* What a sum is, of nothing and of more.                                  *)
LEMMA SumEmpty ==
  ASSUME NEW f
  PROVE  Sum(f, {}) = 0
<1>1. IsSum(SumFcn(f, {}), f, {})
  BY SumExists, FS_EmptySet DEF SumFcn
<1>. QED
  BY <1>1, SumIs DEF IsSum

(* A sum is the term that is picked, and the sum of the others.            *)
LEMMA SumPick ==
  ASSUME NEW f, NEW S, IsFiniteSet(S), S # {}
  PROVE  Sum(f, S) = f[Pick(S)] + Sum(f, S \ {Pick(S)})
<1> DEFINE T == S \ {Pick(S)}
<1>1. IsFiniteSet(T) /\ T \in SUBSET S
  BY FS_Subset
<1>2. IsSum(SumFcn(f, S), f, S) /\ IsSum(SumFcn(f, T), f, T)
  BY <1>1, SumExists DEF SumFcn
<1>3. SumFcn(f, S)[T] = SumFcn(f, T)[T]
  BY <1>1, <1>2, SumsAgree
<1>4. SumFcn(f, S)[S] = f[Pick(S)] + SumFcn(f, S)[T]
  BY <1>2 DEF IsSum
<1>. QED
  BY <1>3, <1>4, SumIs

(* The sum of numbers is a number.                                         *)
LEMMA SumNat ==
  ASSUME NEW f, NEW S, IsFiniteSet(S), \A x \in S : f[x] \in Nat
  PROVE  Sum(f, S) \in Nat
<1> DEFINE B == {v \in SUBSET S : Sum(f, v) \notin Nat}
<1>1. SUFFICES ASSUME B # {} PROVE FALSE
  OBVIOUS
<1>2. PICK v \in B : \A t \in B : ~(t \subseteq v /\ t # v)
  <2>. HIDE DEF B
  <2>1. B \in SUBSET (SUBSET S)
    BY DEF B
  <2>. QED
    BY <1>1, <2>1, LeastSet
<1>3. v # {}
  BY SumEmpty
<1>4. Sum(f, v) = f[Pick(v)] + Sum(f, v \ {Pick(v)})
  BY <1>3, FS_Subset, SumPick
<1>5. f[Pick(v)] \in Nat /\ Sum(f, v \ {Pick(v)}) \in Nat
  BY <1>2, <1>3, PickIn
<1>. QED
  BY <1>4, <1>5

(* Any of them can be the last to be added.                                *)
LEMMA SumTake ==
  ASSUME NEW f, NEW S, IsFiniteSet(S), \A x \in S : f[x] \in Nat, NEW a \in S
  PROVE  Sum(f, S) = f[a] + Sum(f, S \ {a})
<1> DEFINE B == {v \in SUBSET S : \E x \in v : Sum(f, v) # f[x] + Sum(f, v \ {x})}
<1>1. SUFFICES ASSUME B # {} PROVE FALSE
  OBVIOUS
<1>2. PICK v \in B : \A t \in B : ~(t \subseteq v /\ t # v)
  <2>. HIDE DEF B
  <2>1. B \in SUBSET (SUBSET S)
    BY DEF B
  <2>. QED
    BY <1>1, <2>1, LeastSet
<1>3. PICK x \in v : Sum(f, v) # f[x] + Sum(f, v \ {x})
  BY <1>2
<1> DEFINE c == Pick(v)
           w == (v \ {c}) \ {x}
<1>4. c \in v
  BY PickIn
<1>5. Sum(f, v) = f[c] + Sum(f, v \ {c})
  BY <1>3, FS_Subset, SumPick
<1>6. x # c
  BY <1>3, <1>5
<1>7. Sum(f, v \ {c}) = f[x] + Sum(f, w)
  <2>1. v \ {c} \in SUBSET S /\ v \ {c} \notin B
    BY <1>2, <1>4
  <2>2. x \in v \ {c}
    BY <1>6
  <2>. HIDE DEF c
  <2>. QED
    BY <2>1, <2>2
<1>8. Sum(f, v \ {x}) = f[c] + Sum(f, w)
  <2>1. (v \ {x}) \ {c} = w
    OBVIOUS
  <2>2. v \ {x} \in SUBSET S /\ v \ {x} \notin B
    BY <1>2
  <2>3. c \in v \ {x}
    BY <1>4, <1>6
  <2>4. Sum(f, v \ {x}) = f[c] + Sum(f, (v \ {x}) \ {c})
    <3>. HIDE DEF c
    <3>. QED
      BY <2>2, <2>3
  <2>. QED
    BY <2>1, <2>4
<1>9. f[x] \in Nat /\ f[c] \in Nat /\ Sum(f, w) \in Nat
  <2>1. w \in SUBSET S /\ IsFiniteSet(w)
    BY FS_Subset
  <2>. QED
    BY <1>4, <2>1, SumNat
<1>. HIDE DEF c, w
<1>. QED
  BY <1>3, <1>5, <1>7, <1>8, <1>9

(* Equal terms, equal sums.                                                *)
LEMMA SumSame ==
  ASSUME NEW f, NEW g, NEW S, IsFiniteSet(S), \A x \in S : f[x] = g[x]
  PROVE  Sum(f, S) = Sum(g, S)
<1> DEFINE B == {v \in SUBSET S : Sum(f, v) # Sum(g, v)}
<1>1. SUFFICES ASSUME B # {} PROVE FALSE
  OBVIOUS
<1>2. PICK v \in B : \A t \in B : ~(t \subseteq v /\ t # v)
  <2>. HIDE DEF B
  <2>1. B \in SUBSET (SUBSET S)
    BY DEF B
  <2>. QED
    BY <1>1, <2>1, LeastSet
<1>3. v # {}
  BY SumEmpty
<1>4. /\ Sum(f, v) = f[Pick(v)] + Sum(f, v \ {Pick(v)})
      /\ Sum(g, v) = g[Pick(v)] + Sum(g, v \ {Pick(v)})
  BY <1>3, FS_Subset, SumPick
<1>5. f[Pick(v)] = g[Pick(v)] /\ Sum(f, v \ {Pick(v)}) = Sum(g, v \ {Pick(v)})
  BY <1>2, <1>3, PickIn
<1>. QED
  BY <1>2, <1>4, <1>5

(* A term that grows makes the sum grow.                                   *)
LEMMA SumAdd ==
  ASSUME NEW f, NEW g, NEW S, IsFiniteSet(S), \A x \in S : f[x] \in Nat,
         NEW a \in S, NEW n \in Nat, g[a] = f[a] + n, \A x \in S \ {a} : g[x] = f[x]
  PROVE  Sum(g, S) = Sum(f, S) + n
<1>1. IsFiniteSet(S \ {a})
  BY FS_Subset
<1>2. \A x \in S : g[x] \in Nat
  OBVIOUS
<1>3. Sum(f, S) = f[a] + Sum(f, S \ {a}) /\ Sum(g, S) = g[a] + Sum(g, S \ {a})
  BY <1>2, SumTake
<1>4. Sum(f, S \ {a}) = Sum(g, S \ {a})
  BY <1>1, SumSame
<1>5. Sum(f, S \ {a}) \in Nat /\ f[a] \in Nat
  BY <1>1, SumNat
<1>. QED
  BY <1>3, <1>4, <1>5

(* Few terms that are not zero, none of them above a bound.                *)
LEMMA SumFew ==
  ASSUME NEW f, NEW S, IsFiniteSet(S), NEW m \in Nat, \A x \in S : f[x] \in Nat /\ f[x] <= m,
         NEW T, \A x \in S \ T : f[x] = 0
  PROVE  Sum(f, S) <= Cardinality(S \cap T) * m
<1> DEFINE B == {v \in SUBSET S : ~(Sum(f, v) <= Cardinality(v \cap T) * m)}
<1>1. SUFFICES ASSUME B # {} PROVE FALSE
  OBVIOUS
<1>2. PICK v \in B : \A t \in B : ~(t \subseteq v /\ t # v)
  <2>. HIDE DEF B
  <2>1. B \in SUBSET (SUBSET S)
    BY DEF B
  <2>. QED
    BY <1>1, <2>1, LeastSet
<1> DEFINE c == Pick(v)
           w == v \ {c}
           j == Cardinality(w \cap T)
<1>3. v # {}
  <2>. SUFFICES ASSUME v = {} PROVE FALSE
    OBVIOUS
  <2>1. {} \cap T = {} /\ 0 * m = 0
    OBVIOUS
  <2>2. Sum(f, {}) = 0 /\ Cardinality({} \cap T) = 0
    BY <2>1, SumEmpty, FS_EmptySet
  <2>3. ~(Sum(f, v) <= Cardinality(v \cap T) * m)
    BY <1>2
  <2>. QED
    BY <2>1, <2>2, <2>3
<1>4. Sum(f, v) = f[c] + Sum(f, w)
  BY <1>3, FS_Subset, SumPick
<1>5. c \in v /\ w \in SUBSET S /\ IsFiniteSet(w) /\ IsFiniteSet(w \cap T)
  BY <1>3, PickIn, FS_Subset
<1>6. f[c] \in Nat /\ f[c] <= m /\ Sum(f, w) \in Nat /\ j \in Nat
  BY <1>5, SumNat, FS_CardinalityType
<1>7. Sum(f, w) <= j * m
  BY <1>2, <1>5
<1>8. Cardinality(v \cap T) = IF c \in T THEN j + 1 ELSE j
  <2>1. v \cap T = IF c \in T THEN (w \cap T) \cup {c} ELSE w \cap T
    BY <1>5
  <2>2. c \notin w \cap T
    OBVIOUS
  <2>. HIDE DEF c, w
  <2>. QED
    BY <1>5, <2>1, <2>2, FS_AddElement
<1>9. c \notin T => f[c] = 0
  BY <1>5
<1>10. \A i \in Nat : (i + 1) * m = i * m + m /\ i * m \in Nat
  OBVIOUS
<1>11. ~(Sum(f, v) <= Cardinality(v \cap T) * m)
  BY <1>2
<1>. HIDE DEF c, w, j
<1>12. CASE c \in T
  <2> DEFINE q == j * m
  <2>1. q \in Nat /\ (j + 1) * m = q + m
    BY <1>6, <1>10
  <2>2. Sum(f, w) <= q
    BY <1>7
  <2>3. ~(f[c] + Sum(f, w) <= q + m)
    BY <1>4, <1>8, <1>11, <1>12, <2>1
  <2>. HIDE DEF q
  <2>. QED
    BY <1>6, <2>1, <2>2, <2>3
<1>13. CASE c \notin T
  <2>1. Sum(f, v) = Sum(f, w)
    BY <1>4, <1>6, <1>9, <1>13
  <2>. QED
    BY <1>7, <1>8, <1>11, <1>13, <2>1
<1>. QED
  BY <1>12, <1>13

(* Nothing but zeros.                                                      *)
LEMMA SumZero ==
  ASSUME NEW f, NEW S, IsFiniteSet(S), \A x \in S : f[x] = 0
  PROVE  Sum(f, S) = 0
<1> DEFINE m == 0
           T == {}
<1>1. m \in Nat /\ (\A x \in S : f[x] \in Nat /\ f[x] <= m) /\ \A x \in S \ T : f[x] = 0
  OBVIOUS
<1>2. Sum(f, S) \in Nat /\ Cardinality(S \cap T) = 0
  BY <1>1, SumNat, FS_EmptySet
<1>. HIDE DEF m, T
<1>3. Sum(f, S) <= Cardinality(S \cap T) * m
  BY <1>1, SumFew
<1>. QED
  BY <1>2, <1>3 DEF m

-----------------------------------------------------------------------------
(* The quota.  What is counted in the day and what the transactions that   *)
(* passed the check will add stay below the limit and what all the other   *)
(* connections may carry.                                                  *)

HoursOf(day) == {h \in Hour : DayOf[h] = day}

(* The counters of the projects P on a day.                                *)
ByHour(rows, p)     == [h \in Hour |-> rows[<<p, h>>]]
ByProject(rows, day) == [p \in Project |-> Sum(ByHour(rows, p), HoursOf(day))]
Counted(rows, P, day) == Sum(ByProject(rows, day), P)

(* A transaction between its check and its end, and what it will add.      *)
Passed(at, told) ==
  \/ at \in {"append", "stats", "find", "update", "short", "insert", "enqueue", "appendLogs"}
  \/ at = "commit" /\ told \notin {"duplicate", "quota"}

Adds(at, told, of, P, day) ==
  [r \in Req |-> IF Passed(at[r], told[r]) /\ of[r].project \in P /\ DayOf[of[r].hour] = day
                 THEN of[r].count ELSE 0]

Days == {DayOf[h] : h \in Hour}

(* The limit of the organization is that of all the projects together.     *)
Scopes == {s \in {<<Project, OrgLimit>>} \cup {<<{p}, ProjectLimit>> : p \in Project} :
             s[2] # NULL}

Taken == {r \in Req : Open(r)}

QuotaInv ==
  /\ Cardinality(Taken) <= MaxConns
  /\ \A s \in Scopes, day \in Days :
       Counted(hourly, s[1], day) + Sum(Adds(pc, answer, input, s[1], day), Req)
         <= s[2] + (MaxConns - 1) * MaxCount

(* The inputs have a largest count.                                        *)
LEMMA LargestCount ==
  MaxCount \in Nat /\ \A x \in Input : x.count \in Nat /\ x.count <= MaxCount
<1>1. PICK x \in Input : \A y \in Input : y.count <= x.count
  BY IngestAssumption DEF IngestAssumption
<1>2. \A y \in Input : y.count \in Nat
  BY IngestAssumption DEF IngestAssumption, InputType
<1> DEFINE C == {y.count : y \in Input}
           Top(n) == \A y \in Input : y.count <= n
<1>3. x.count \in C /\ Top(x.count)
  BY <1>1
<1>4. MaxCount = CHOOSE n \in C : Top(n)
  BY DEF MaxCount
<1>. HIDE DEF Top, C
<1>5. MaxCount \in C /\ Top(MaxCount)
  BY <1>3, <1>4
<1>. QED
  BY <1>2, <1>5 DEF C, Top

(* There are finitely many hours and projects.                             *)
LEMMA FiniteDay ==
  ASSUME NEW P \in SUBSET Project, NEW day
  PROVE  IsFiniteSet(P) /\ IsFiniteSet(HoursOf(day)) /\ HoursOf(day) \subseteq Hour
<1>1. IsFiniteSet(Project) /\ IsFiniteSet(Hour)
  BY IngestAssumption DEF IngestAssumption
<1>2. HoursOf(day) \subseteq Hour
  BY DEF HoursOf
<1>. QED
  BY <1>1, <1>2, FS_Subset

(* What the quota reads is what is counted.                                *)
LEMMA ProjectUsedIs ==
  ASSUME NEW p \in Project, NEW day
  PROVE  ProjectUsed(p, day) = Sum(ByHour(hourly, p), HoursOf(day))
<1> DEFINE S == HoursOf(day)
           f == ByHour(hourly, p)
           Is(k) == k = [s \in SUBSET S |->
                           IF s = {} THEN 0 ELSE hourly[<<p, Pick(s)>>] + k[s \ {Pick(s)}]]
           c == CHOOSE k : Is(k)
<1>1. IsFiniteSet(S) /\ S \subseteq Hour
  BY FiniteDay
<1>2. ProjectUsed(p, day) = c[S]
  BY DEF ProjectUsed, MapThenSumSet, MapThenFoldSet, Pick, HoursOf
<1>. HIDE DEF S
<1>3. ASSUME NEW k PROVE Is(k) <=> IsSum(k, f, S)
  <2>1. ASSUME NEW s \in SUBSET S
        PROVE  (IF s = {} THEN 0 ELSE hourly[<<p, Pick(s)>>] + k[s \ {Pick(s)}])
                 = (IF s = {} THEN 0 ELSE f[Pick(s)] + k[s \ {Pick(s)}])
    <3>1. s # {} => Pick(s) \in Hour
      BY <1>1, PickIn
    <3>. QED
      BY <3>1 DEF ByHour
  <2>. HIDE DEF f
  <2>2. [s \in SUBSET S |-> IF s = {} THEN 0 ELSE hourly[<<p, Pick(s)>>] + k[s \ {Pick(s)}]]
          = [s \in SUBSET S |-> IF s = {} THEN 0 ELSE f[Pick(s)] + k[s \ {Pick(s)}]]
    BY <2>1
  <2>. QED
    BY <2>2 DEF IsSum
<1>4. IsSum(SumFcn(f, S), f, S)
  BY <1>1, SumExists DEF SumFcn
<1>5. Is(SumFcn(f, S))
  BY <1>3, <1>4
<1>. HIDE DEF f, Is
<1>6. Is(c)
  BY <1>5
<1>7. IsSum(c, f, S)
  BY <1>3, <1>6
<1>. HIDE DEF c
<1>8. c[S] = SumFcn(f, S)[S]
  BY <1>1, <1>4, <1>7, SumsAgree
<1>9. Sum(f, S) = SumFcn(f, S)[S]
  BY SumIs
<1>. QED
  BY <1>2, <1>8, <1>9 DEF f, S

(* What is counted of the organization is what is counted of all its       *)
(* projects.                                                               *)
LEMMA OrgUsedIs ==
  ASSUME NEW day
  PROVE  OrgUsed(day) = Counted(hourly, Project, day)
<1> DEFINE S == Project
           f == ByProject(hourly, day)
           Is(k) == k = [s \in SUBSET S |->
                           IF s = {} THEN 0 ELSE ProjectUsed(Pick(s), day) + k[s \ {Pick(s)}]]
           c == CHOOSE k : Is(k)
<1>1. IsFiniteSet(S)
  BY FiniteDay
<1>2. OrgUsed(day) = c[S]
  BY DEF OrgUsed, MapThenSumSet, MapThenFoldSet, Pick
<1>3. ASSUME NEW k PROVE Is(k) <=> IsSum(k, f, S)
  <2>1. ASSUME NEW s \in SUBSET S
        PROVE  (IF s = {} THEN 0 ELSE ProjectUsed(Pick(s), day) + k[s \ {Pick(s)}])
                 = (IF s = {} THEN 0 ELSE f[Pick(s)] + k[s \ {Pick(s)}])
    <3>1. s # {} => Pick(s) \in Project
      BY PickIn
    <3>2. s # {} => ProjectUsed(Pick(s), day) = f[Pick(s)]
      BY <3>1, ProjectUsedIs DEF ByProject
    <3>. QED
      BY <3>2
  <2>. HIDE DEF f
  <2>2. [s \in SUBSET S |-> IF s = {} THEN 0 ELSE ProjectUsed(Pick(s), day) + k[s \ {Pick(s)}]]
          = [s \in SUBSET S |-> IF s = {} THEN 0 ELSE f[Pick(s)] + k[s \ {Pick(s)}]]
    BY <2>1
  <2>. QED
    BY <2>2 DEF IsSum
<1>4. IsSum(SumFcn(f, S), f, S)
  BY <1>1, SumExists DEF SumFcn
<1>5. Is(SumFcn(f, S))
  BY <1>3, <1>4
<1>. HIDE DEF f, Is
<1>6. Is(c)
  BY <1>5
<1>7. IsSum(c, f, S)
  BY <1>3, <1>6
<1>. HIDE DEF c
<1>8. c[S] = SumFcn(f, S)[S]
  BY <1>1, <1>4, <1>7, SumsAgree
<1>9. Sum(f, S) = SumFcn(f, S)[S]
  BY SumIs
<1>. QED
  BY <1>2, <1>8, <1>9 DEF f, Counted

(* What is counted of one project.                                         *)
LEMMA OneProject ==
  ASSUME NEW p \in Project, NEW day
  PROVE  Counted(hourly, {p}, day) = ByProject(hourly, day)[p] + 0
<1> DEFINE f == ByProject(hourly, day)
<1>1. IsFiniteSet({p}) /\ Pick({p}) = p /\ {p} \ {p} = {}
  BY FS_Singleton, PickIn
<1>. HIDE DEF f
<1>2. Sum(f, {p}) = f[Pick({p})] + Sum(f, {p} \ {Pick({p})})
  BY <1>1, SumPick
<1>3. Sum(f, {}) = 0
  BY SumEmpty
<1>. QED
  BY <1>1, <1>2, <1>3 DEF f, Counted

(* What is counted is a number, and grows with a counter of its scope.     *)
LEMMA CountedNat ==
  ASSUME NEW rows \in [Bucket -> Nat], NEW P \in SUBSET Project, NEW day
  PROVE  /\ Counted(rows, P, day) \in Nat
         /\ \A p \in Project : ByProject(rows, day)[p] \in Nat
<1>1. ASSUME NEW p \in Project PROVE ByProject(rows, day)[p] \in Nat
  <2>1. \A h \in HoursOf(day) : ByHour(rows, p)[h] \in Nat
    BY DEF ByHour, HoursOf, Bucket
  <2>2. IsFiniteSet(HoursOf(day))
    BY FiniteDay
  <2>3. Sum(ByHour(rows, p), HoursOf(day)) \in Nat
    BY <2>1, <2>2, SumNat
  <2>. QED
    BY <2>3 DEF ByProject
<1>2. IsFiniteSet(P)
  BY FiniteDay
<1>3. \A p \in P : ByProject(rows, day)[p] \in Nat
  BY <1>1
<1>. QED
  BY <1>1, <1>2, <1>3, SumNat DEF Counted

(* A counter with n more.                                                  *)
Grown(rows, p, h, n) == [rows EXCEPT ![<<p, h>>] = @ + n]

(* A counter that grows makes what is counted of its scope grow as much.   *)
LEMMA CountedGrows ==
  ASSUME NEW rows \in [Bucket -> Nat], NEW P \in SUBSET Project, NEW day,
         NEW p \in Project, NEW h \in Hour, NEW n \in Nat
  PROVE  Counted(Grown(rows, p, h, n), P, day)
           = Counted(rows, P, day) + IF p \in P /\ DayOf[h] = day THEN n ELSE 0
<1> DEFINE more == Grown(rows, p, h, n)
           S == HoursOf(day)
           f(q) == ByHour(rows, q)
           g(q) == ByHour(more, q)
           F == ByProject(rows, day)
           G == ByProject(more, day)
<1>1. IsFiniteSet(S) /\ S \subseteq Hour /\ IsFiniteSet(P)
  BY FiniteDay
<1>2. \A q \in Project, k \in Hour :
        /\ f(q)[k] = rows[<<q, k>>] /\ f(q)[k] \in Nat
        /\ g(q)[k] = IF q = p /\ k = h THEN rows[<<q, k>>] + n ELSE rows[<<q, k>>]
  BY DEF ByHour, Bucket, Grown
<1>3. \A q \in Project : F[q] = Sum(f(q), S) /\ G[q] = Sum(g(q), S)
  BY DEF ByProject
<1>4. \A q \in Project : F[q] \in Nat
  BY CountedNat
<1>5. h \in S <=> DayOf[h] = day
  BY DEF HoursOf
<1>. HIDE DEF more, f, g, S, F, G
<1>6. ASSUME NEW q \in Project, q # p \/ h \notin S PROVE G[q] = F[q]
  <2>1. \A k \in S : g(q)[k] = f(q)[k]
    BY <1>1, <1>2, <1>6
  <2>2. Sum(g(q), S) = Sum(f(q), S)
    BY <1>1, <2>1, SumSame
  <2>. QED
    BY <1>3, <2>2
<1>7. ASSUME h \in S PROVE G[p] = F[p] + n
  <2>1. /\ \A k \in S : f(p)[k] \in Nat
        /\ g(p)[h] = f(p)[h] + n
        /\ \A k \in S \ {h} : g(p)[k] = f(p)[k]
    BY <1>1, <1>2
  <2>2. Sum(g(p), S) = Sum(f(p), S) + n
    BY <1>1, <1>7, <2>1, SumAdd
  <2>. QED
    BY <1>3, <2>2
<1>8. Counted(rows, P, day) = Sum(F, P) /\ Counted(more, P, day) = Sum(G, P)
  BY DEF Counted, F, G, more
<1>9. CASE p \in P /\ h \in S
  <2>1. Sum(G, P) = Sum(F, P) + n
    BY <1>1, <1>4, <1>6, <1>7, <1>9, SumAdd
  <2>. QED
    BY <1>5, <1>8, <1>9, <2>1 DEF more
<1>10. CASE ~(p \in P /\ h \in S)
  <2>1. \A q \in P : G[q] = F[q]
    BY <1>6, <1>10
  <2>2. Sum(G, P) = Sum(F, P)
    BY <1>1, <2>1, SumSame
  <2>3. Sum(F, P) \in Nat
    BY <1>1, <1>4, SumNat
  <2>. QED
    BY <1>5, <1>8, <1>10, <2>2, <2>3 DEF more
<1>. QED
  BY <1>9, <1>10

(* A request that passes the check finds room for itself in every scope it *)
(* is in.                                                                  *)
LEMMA RoomFound ==
  ASSUME TypeOK, NEW x \in Input, QuotaAllows(x), NEW s \in Scopes, x.project \in s[1]
  PROVE  Counted(hourly, s[1], DayOf[x.hour]) + x.count <= s[2]
<1> DEFINE day == DayOf[x.hour]
           p == x.project
<1>1. p \in Project /\ x.count \in Nat /\ hourly \in [Bucket -> Nat]
  BY IngestAssumption DEF IngestAssumption, InputType, TypeOK
<1>2. s[2] \in Nat
  BY IngestAssumption DEF IngestAssumption, Scopes
<1>3. CASE s = <<Project, OrgLimit>>
  <2>1. s[1] = Project /\ s[2] = OrgLimit /\ OrgLimit # NULL
    BY <1>3 DEF Scopes
  <2>2. Counted(hourly, Project, day) = OrgUsed(day)
    BY OrgUsedIs
  <2>3. Counted(hourly, Project, day) \in Nat
    BY <1>1, CountedNat
  <2>4. ~(OrgUsed(day) + x.count > OrgLimit)
    BY <2>1 DEF QuotaAllows, quotaExceeded
  <2>. HIDE DEF day
  <2>5. OrgUsed(day) + x.count <= OrgLimit
    BY <1>1, <1>2, <2>1, <2>2, <2>3, <2>4
  <2>. QED
    BY <2>1, <2>2, <2>5 DEF day
<1>4. CASE s # <<Project, OrgLimit>>
  <2>1. s[1] = {p} /\ s[2] = ProjectLimit /\ ProjectLimit # NULL
    BY <1>4 DEF Scopes
  <2>2. ProjectUsed(p, day) = ByProject(hourly, day)[p]
    BY <1>1, ProjectUsedIs DEF ByProject
  <2>3. ByProject(hourly, day)[p] \in Nat
    BY <1>1, CountedNat
  <2>4. Counted(hourly, {p}, day) = ByProject(hourly, day)[p] + 0
    BY <1>1, OneProject
  <2>5. ~(ProjectUsed(p, day) + x.count > ProjectLimit)
    BY <2>1 DEF QuotaAllows, quotaExceeded
  <2>. HIDE DEF day, p
  <2>6. Counted(hourly, {p}, day) + x.count <= ProjectLimit
    BY <1>1, <1>2, <2>1, <2>2, <2>3, <2>4, <2>5
  <2>. QED
    BY <2>1, <2>6 DEF day, p
<1>. QED
  BY <1>3, <1>4

(* What a transaction will add is a count, of an open transaction.         *)
LEMMA AddsFew ==
  ASSUME TypeOK, Fits, NEW P, NEW day, NEW r \in Req
  PROVE  LET n == Adds(pc, answer, input, P, day)[r]
         IN  n \in Nat /\ n <= MaxCount /\ (n # 0 => Open(r))
<1>1. Passed(pc[r], answer[r]) => Open(r)
  BY DEF Passed, Open
<1>2. Open(r) => input[r] \in Input
  BY DEF Open, Fits, KindFits
<1>3. 0 <= MaxCount /\ \A x \in Input : x.count \in Nat /\ x.count <= MaxCount
  BY LargestCount
<1>. QED
  BY <1>1, <1>2, <1>3 DEF Adds

(* A transaction passes the check with what it was begun with.             *)
LEMMA Passing ==
  ASSUME TypeOK, Fits, NEW r \in Req, Step(r), Passed(pc'[r], answer'[r])
  PROVE  /\ hourly' = hourly /\ input'[r] = input[r] /\ pc[r] \notin {"idle", "done"}
         /\ Passed(pc[r], answer[r]) \/ QuotaAllows(input[r])
<1> USE DEF TypeOK, Goto, Acquire, Return, Finish, dbVars
<1>1. CASE Begin(r)
  BY <1>1 DEF Begin, Passed
<1>2. CASE Exists(r) \/ CheckQuota(r) \/ CheckLogQuota(r)
  BY <1>2 DEF Exists, CheckQuota, CheckLogQuota, Passed
<1>3. CASE AppendEvent(r) \/ AppendLogRecords(r) \/ upsertProjectHourlyStats(r)
  BY <1>3 DEF AppendEvent, AppendLogRecords, upsertProjectHourlyStats, Passed
<1>4. CASE findIssueByFingerprint(r) \/ updateIssue(r)
  BY <1>4 DEF findIssueByFingerprint, updateIssue, Passed
<1>5. CASE nextIssueShortID(r) \/ createIssue(r) \/ EnqueueIssueOpened(r)
  BY <1>5 DEF nextIssueShortID, createIssue, EnqueueIssueOpened, Passed
<1>6. CASE Commit(r) \/ CommitUnconfirmed(r) \/ Abort(r)
  BY <1>6 DEF Commit, CommitUnconfirmed, Abort, Passed
<1> QED
  BY <1>1, <1>2, <1>3, <1>4, <1>5, <1>6 DEF Step, Statement

(* The pool bounds the open transactions.                                  *)
LEMMA TakenStep ==
  ASSUME TypeOK, NEW r \in Req, Step(r), Cardinality(Taken) <= MaxConns
  PROVE  Cardinality(Taken') <= MaxConns
<1>1. IsFiniteSet(Req)
  BY IngestAssumption DEF IngestAssumption
<1>2. IsFiniteSet(Taken) /\ Cardinality(Taken) \in Nat /\ MaxConns \in Nat
  BY <1>1, FS_Subset, FS_CardinalityType, IngestAssumption DEF IngestAssumption, Taken
<1>3. \A s \in Req \ {r} : pc'[s] = pc[s]
  BY OthersUntouched DEF OnlyOwn
<1>4. CASE Begin(r)
  <2>1. Cardinality(Taken) < MaxConns
    BY <1>4 DEF Begin, Taken
  <2>2. r \notin Taken
    BY <1>4 DEF Begin, Taken, Open
  <2>3. Taken' \subseteq Taken \cup {r}
    BY <1>3 DEF Taken, Open
  <2>4. IsFiniteSet(Taken \cup {r}) /\ Cardinality(Taken \cup {r}) = Cardinality(Taken) + 1
    BY <1>2, <2>2, FS_AddElement
  <2>5. Cardinality(Taken') <= Cardinality(Taken) + 1 /\ Cardinality(Taken') \in Nat
    BY <2>3, <2>4, FS_Subset, FS_CardinalityType
  <2>. QED
    BY <1>2, <2>1, <2>5
<1>5. CASE ~Begin(r)
  <2>1. pc[r] \notin {"idle", "done"}
    BY <1>5 DEF Step, Statement, Exists, CheckQuota, CheckLogQuota, AppendEvent, AppendLogRecords,
      upsertProjectHourlyStats, findIssueByFingerprint, updateIssue, nextIssueShortID, createIssue,
      EnqueueIssueOpened, Commit, CommitUnconfirmed, Abort, Open
  <2>2. Taken' \subseteq Taken
    BY <1>3, <2>1 DEF Taken, Open
  <2>3. Cardinality(Taken') <= Cardinality(Taken) /\ Cardinality(Taken') \in Nat
    BY <1>2, <2>2, FS_Subset, FS_CardinalityType
  <2>. QED
    BY <1>2, <2>3
<1>. QED
  BY <1>4, <1>5

(* The end of a transaction counts what it had to add, or nothing.         *)
LEMMA CountedEnds ==
  ASSUME TypeOK, Fits, NEW r \in Req, Ends(r), NEW P \in SUBSET Project, NEW day
  PROVE  Counted(hourly', P, day)
           = Counted(hourly, P, day) + Adds(pc, answer, input, P, day)[r]
<1> DEFINE x == input[r]
<1>1. pc[r] = "commit" /\ x \in Input /\ x \in InputType
  BY Placed DEF Ends
<1>2. /\ x.project \in Project /\ x.hour \in Hour /\ x.count \in Nat
      /\ hourly \in [Bucket -> Nat]
  BY <1>1 DEF InputType, TypeOK
<1>3. Passed(pc[r], answer[r]) <=> Writes(r, HourLock(BucketOf(r)))
  <2>1. answer[r] \in {"duplicate", "quota", "non_issue", "issue", "logs"}
    BY <1>1 DEF Fits, HeldFits, CommitFits
  <2>. QED
    BY <1>1, <2>1, WhatIsWritten DEF Passed, HourL
<1>4. Counted(hourly, P, day) \in Nat
  BY <1>2, CountedNat
<1>5. CASE Passed(pc[r], answer[r])
  <2>1. hourly' = [hourly EXCEPT ![<<x.project, x.hour>>] = @ + x.count]
    BY <1>3, <1>5 DEF Ends, Apply, BucketOf
  <2>2. Counted(hourly', P, day)
          = Counted(hourly, P, day)
              + IF x.project \in P /\ DayOf[x.hour] = day THEN x.count ELSE 0
    <3> DEFINE p == x.project
               h == x.hour
               n == x.count
    <3>1. p \in Project /\ h \in Hour /\ n \in Nat /\ hourly \in [Bucket -> Nat]
      BY <1>2
    <3>2. hourly' = Grown(hourly, p, h, n)
      BY <2>1 DEF Grown
    <3>. HIDE DEF p, h, n
    <3>3. Counted(Grown(hourly, p, h, n), P, day)
            = Counted(hourly, P, day) + IF p \in P /\ DayOf[h] = day THEN n ELSE 0
      BY <3>1, CountedGrows
    <3>. QED
      BY <3>2, <3>3 DEF p, h, n
  <2>. QED
    BY <1>5, <2>2 DEF Adds
<1>6. CASE ~Passed(pc[r], answer[r])
  <2>1. hourly' = hourly
    BY <1>3, <1>6 DEF Ends, Apply
  <2>2. Adds(pc, answer, input, P, day)[r] = 0
    BY <1>6 DEF Adds
  <2>. QED
    BY <1>4, <2>1, <2>2
<1>. QED
  BY <1>5, <1>6

(* One scope on one day, in one step.                                      *)
LEMMA LoadStep ==
  ASSUME TypeOK, Fits, Cardinality(Taken) <= MaxConns, NEW r \in Req, Step(r),
         NEW s \in Scopes, NEW day,
         Counted(hourly, s[1], day) + Sum(Adds(pc, answer, input, s[1], day), Req)
           <= s[2] + (MaxConns - 1) * MaxCount
  PROVE  Counted(hourly', s[1], day) + Sum(Adds(pc', answer', input', s[1], day), Req)
           <= s[2] + (MaxConns - 1) * MaxCount
<1> DEFINE P == s[1]
           f == Adds(pc, answer, input, P, day)
           g == Adds(pc', answer', input', P, day)
           rest == Sum(f, Req \ {r})
           slack == (MaxConns - 1) * MaxCount
           used == Counted(hourly, P, day)
           then == Counted(hourly', P, day)
           limit == s[2]
<1>1. P \in SUBSET Project /\ limit \in Nat
  BY IngestAssumption DEF IngestAssumption, Scopes
<1>2. IsFiniteSet(Req) /\ IsFiniteSet(Req \ {r}) /\ MaxConns \in Nat \ {0}
  BY FS_Subset, IngestAssumption DEF IngestAssumption
<1>3. \A q \in Req : f[q] \in Nat /\ f[q] <= MaxCount /\ (f[q] # 0 => q \in Taken)
  BY AddsFew DEF Taken
<1>4. \A q \in Req \ {r} : g[q] = f[q]
  <2>1. OnlyOwn(r)
    BY OthersUntouched
  <2>. QED
    BY <2>1 DEF OnlyOwn, Adds
<1>5. used \in Nat
  BY <1>1, CountedNat DEF TypeOK
<1>6. slack \in Nat
  <2>1. MaxCount \in Nat /\ MaxConns - 1 \in Nat
    BY <1>2, LargestCount
  <2>2. \A i, j \in Nat : i * j \in Nat
    OBVIOUS
  <2>. QED
    BY <2>1, <2>2
<1>7. g[r] = IF Passed(pc'[r], answer'[r]) /\ input'[r].project \in P
                  /\ DayOf[input'[r].hour] = day
             THEN input'[r].count ELSE 0
  BY DEF Adds
<1>8. Passed(pc'[r], answer'[r]) =>
        /\ input'[r] = input[r] /\ input[r] \in Input
        /\ input[r].count \in Nat /\ hourly' = hourly
  <2>. SUFFICES ASSUME Passed(pc'[r], answer'[r])
                PROVE  /\ input'[r] = input[r] /\ input[r] \in Input
                       /\ input[r].count \in Nat /\ hourly' = hourly
    OBVIOUS
  <2>1. hourly' = hourly /\ input'[r] = input[r] /\ pc[r] # "idle"
    BY Passing
  <2>2. input[r] \in Input
    BY <2>1 DEF Fits, KindFits
  <2>. QED
    BY <2>1, <2>2, LargestCount
<1>9. g[r] \in Nat /\ \A q \in Req : g[q] \in Nat
  BY <1>3, <1>4, <1>7, <1>8
<1>. HIDE DEF P, f, g, limit
<1>10. /\ Sum(f, Req) = f[r] + rest /\ Sum(g, Req) = g[r] + rest /\ rest \in Nat
  <2>1. Sum(f, Req) = f[r] + Sum(f, Req \ {r})
    BY <1>2, <1>3, SumTake
  <2>2. Sum(g, Req) = g[r] + Sum(g, Req \ {r})
    BY <1>2, <1>9, SumTake
  <2>3. Sum(g, Req \ {r}) = Sum(f, Req \ {r})
    BY <1>2, <1>4, SumSame
  <2>4. Sum(f, Req \ {r}) \in Nat
    BY <1>2, <1>3, SumNat
  <2>. QED
    BY <2>1, <2>2, <2>3, <2>4
<1>11. used + Sum(f, Req) <= limit + slack
  BY DEF P, f, limit
<1>. SUFFICES then + Sum(g, Req) <= limit + slack
  BY DEF P, g, limit
<1>12. CASE Ends(r)
  <2>1. then = used + f[r]
    BY <1>1, <1>12, CountedEnds DEF f
  <2>2. g[r] = 0
    <3>1. pc'[r] = "done"
      BY <1>12, EndsFinishes
    <3>. QED
      BY <1>7, <3>1 DEF Passed
  <2>3. f[r] \in Nat
    BY <1>3
  <2>. HIDE DEF used, then, slack, rest
  <2>. QED
    BY <1>1, <1>5, <1>6, <1>10, <1>11, <2>1, <2>2, <2>3
<1>13. CASE ~Ends(r)
  <2>1. then = used
    BY <1>13, RowsUntouched DEF dbVars
  <2>2. f[r] \in Nat
    BY <1>3
  <2>3. CASE g[r] = 0
    <3>. HIDE DEF used, then, slack, rest
    <3>. QED
      BY <1>1, <1>5, <1>6, <1>10, <1>11, <2>1, <2>2, <2>3
  <2>4. CASE g[r] # 0 /\ Passed(pc[r], answer[r])
    <3>1. g[r] = f[r]
      BY <1>7, <1>8, <2>4 DEF f, Adds
    <3>. HIDE DEF used, then, slack, rest
    <3>. QED
      BY <1>10, <1>11, <2>1, <3>1
  <2>5. CASE g[r] # 0 /\ ~Passed(pc[r], answer[r])
    <3>1. /\ Passed(pc'[r], answer'[r]) /\ input[r].project \in P
          /\ DayOf[input[r].hour] = day /\ g[r] = input[r].count
      BY <1>7, <1>8, <2>5
    <3>2. input[r] \in Input /\ QuotaAllows(input[r]) /\ Open(r)
      BY <1>8, <2>5, <3>1, Passing DEF Open
    <3>3. used + g[r] <= limit
      BY <3>1, <3>2, RoomFound DEF P, limit
    <3>4. rest <= slack
      <4> DEFINE T == Taken \ {r}
                 n == Cardinality((Req \ {r}) \cap T)
                 m == MaxCount
      <4>1. m \in Nat
        BY LargestCount
      <4>2. \A q \in Req \ {r} : f[q] \in Nat /\ f[q] <= m
        BY <1>3
      <4>3. \A q \in (Req \ {r}) \ T : f[q] = 0
        BY <1>3
      <4>. HIDE DEF T, m
      <4>4. Sum(f, Req \ {r}) <= n * m
        BY <1>2, <4>1, <4>2, <4>3, SumFew
      <4>5. n \in Nat /\ n <= MaxConns - 1
        <5>1. IsFiniteSet(Taken) /\ r \in Taken
          BY <1>2, <3>2, FS_Subset DEF Taken
        <5>2. Cardinality(Taken \ {r}) = Cardinality(Taken) - 1 /\ IsFiniteSet(Taken \ {r})
          BY <5>1, FS_RemoveElement
        <5>3. (Req \ {r}) \cap T = Taken \ {r}
          BY DEF T, Taken
        <5>4. Cardinality(Taken) \in Nat /\ Cardinality(Taken \ {r}) \in Nat
          BY <5>1, <5>2, FS_CardinalityType
        <5>5. Cardinality(Taken) <= MaxConns
          OBVIOUS
        <5>6. n = Cardinality(Taken) - 1 /\ n \in Nat
          BY <5>2, <5>3, <5>4
        <5>. DEFINE c == Cardinality(Taken)
        <5>7. c \in Nat /\ c <= MaxConns /\ n = c - 1
          BY <5>4, <5>5, <5>6
        <5>. HIDE DEF c, n
        <5>. QED
          BY <1>2, <5>6, <5>7
      <4>. HIDE DEF n
      <4>6. \A i, j, k \in Nat : i <= j => i * k <= j * k
        BY SMTT(30)
      <4>7. MaxConns - 1 \in Nat
        BY <1>2
      <4>8. n * m <= (MaxConns - 1) * m
        BY <4>1, <4>5, <4>6, <4>7
      <4> DEFINE a == n * m
                 b == (MaxConns - 1) * m
      <4>9. a \in Nat /\ b \in Nat /\ a <= b
        <5>1. \A i, j \in Nat : i * j \in Nat
          OBVIOUS
        <5>. QED
          BY <4>1, <4>5, <4>7, <4>8, <5>1
      <4>10. rest <= a /\ slack = b
        BY <4>4 DEF m
      <4>. HIDE DEF a, b, rest, slack
      <4>. QED
        BY <1>10, <4>9, <4>10
    <3>. HIDE DEF used, then, slack, rest
    <3>. QED
      BY <1>1, <1>5, <1>6, <1>9, <1>10, <2>1, <3>3, <3>4
  <2>. QED
    BY <2>3, <2>4, <2>5
<1>. QED
  BY <1>12, <1>13

(* The quota holds at first: nothing is counted and nobody passed.         *)
LEMMA QuotaInit == Init => QuotaInv
<1>. SUFFICES ASSUME Init PROVE QuotaInv
  OBVIOUS
<1>1. Taken = {} /\ Cardinality(Taken) = 0 /\ MaxConns \in Nat \ {0}
  BY FS_EmptySet, IngestAssumption DEF IngestAssumption, Init, Taken, Open
<1>2. ASSUME NEW s \in Scopes, NEW day \in Days
      PROVE  Counted(hourly, s[1], day) + Sum(Adds(pc, answer, input, s[1], day), Req)
               <= s[2] + (MaxConns - 1) * MaxCount
  <2> DEFINE P == s[1]
             f == Adds(pc, answer, input, P, day)
             limit == s[2]
             slack == (MaxConns - 1) * MaxCount
             F == ByProject(hourly, day)
  <2>1. P \in SUBSET Project /\ IsFiniteSet(P) /\ limit \in Nat /\ IsFiniteSet(Req)
    BY FiniteDay, IngestAssumption DEF IngestAssumption, Scopes
  <2>3. \A q \in Req : f[q] = 0
    BY DEF Init, Adds, Passed
  <2>4. \A p \in Project : F[p] = 0
    <3>1. ASSUME NEW p \in Project PROVE Sum(ByHour(hourly, p), HoursOf(day)) = 0
      <4> DEFINE k == ByHour(hourly, p)
                 S == HoursOf(day)
      <4>1. IsFiniteSet(S) /\ \A h \in S : k[h] = 0
        BY FiniteDay DEF Init, ByHour, HoursOf, Bucket
      <4>. HIDE DEF k, S
      <4>2. Sum(k, S) = 0
        BY <4>1, SumZero
      <4>. QED
        BY <4>2 DEF k, S
    <3>. QED
      BY <3>1 DEF ByProject
  <2>. HIDE DEF f, F, P
  <2>5. Sum(f, Req) = 0 /\ Sum(F, P) = 0
    BY <2>1, <2>3, <2>4, SumZero
  <2>6. slack \in Nat
    <3>1. MaxCount \in Nat /\ MaxConns - 1 \in Nat
      BY <1>1, LargestCount
    <3>2. \A i, j \in Nat : i * j \in Nat
      OBVIOUS
    <3>. QED
      BY <3>1, <3>2
  <2>7. Counted(hourly, P, day) = Sum(F, P)
    BY DEF Counted, F
  <2>. HIDE DEF limit, slack
  <2>8. Counted(hourly, P, day) + Sum(f, Req) <= limit + slack
    BY <2>1, <2>5, <2>6, <2>7
  <2>. QED
    BY <2>8 DEF P, f, limit, slack
<1>. QED
  BY <1>1, <1>2 DEF QuotaInv

(* And no step breaks the quota.                                           *)
LEMMA QuotaNext == IInv /\ QuotaInv /\ [Next]_vars => QuotaInv'
<1>. SUFFICES ASSUME IInv, QuotaInv, [Next]_vars PROVE QuotaInv'
  OBVIOUS
<1>1. TypeOK /\ Fits
  BY DEF IInv
<1>2. ASSUME NEW r \in Req, Step(r) PROVE QuotaInv'
  <2>1. Cardinality(Taken') <= MaxConns
    BY <1>1, <1>2, TakenStep DEF QuotaInv
  <2>2. ASSUME NEW s \in Scopes, NEW day \in Days
        PROVE  Counted(hourly', s[1], day) + Sum(Adds(pc', answer', input', s[1], day), Req)
                 <= s[2] + (MaxConns - 1) * MaxCount
    BY <1>1, <1>2, LoadStep DEF QuotaInv
  <2>. QED
    BY <2>1, <2>2 DEF QuotaInv
<1>3. CASE UNCHANGED vars
  <2>1. hourly' = hourly /\ pc' = pc /\ answer' = answer /\ input' = input
    BY <1>3 DEF vars, dbVars, txVars
  <2>2. Taken' = Taken
    BY <2>1 DEF Taken, Open
  <2>. QED
    BY <2>1, <2>2 DEF QuotaInv
<1>. QED
  BY <1>2, <1>3 DEF Next, AllDone, Step

(* Concurrent requests overrun a limit by no more than what the other      *)
(* connections of the pool can carry.                                      *)
THEOREM QuotaOverruns == Spec => []QuotaOverrunBounded
<1>1. IInv /\ QuotaInv => QuotaOverrunBounded
  <2>. SUFFICES ASSUME IInv, QuotaInv, NEW day \in Days
                PROVE  /\ OrgLimit # NULL =>
                            OrgUsed(day) <= OrgLimit + (MaxConns - 1) * MaxCount
                       /\ ProjectLimit # NULL => \A p \in Project :
                            ProjectUsed(p, day) <= ProjectLimit + (MaxConns - 1) * MaxCount
    BY DEF QuotaOverrunBounded, Days
  <2> DEFINE slack == (MaxConns - 1) * MaxCount
  <2>1. TypeOK /\ Fits /\ hourly \in [Bucket -> Nat]
    BY DEF IInv, TypeOK
  <2>2. slack \in Nat
    <3>1. MaxCount \in Nat /\ MaxConns - 1 \in Nat
      BY LargestCount, IngestAssumption DEF IngestAssumption
    <3>2. \A i, j \in Nat : i * j \in Nat
      OBVIOUS
    <3>. QED
      BY <3>1, <3>2
  <2>3. ASSUME NEW s \in Scopes
        PROVE  /\ Counted(hourly, s[1], day) <= s[2] + slack
               /\ Counted(hourly, s[1], day) \in Nat
    <3> DEFINE P == s[1]
               limit == s[2]
               f == Adds(pc, answer, input, P, day)
    <3>1. P \in SUBSET Project /\ limit \in Nat /\ IsFiniteSet(Req)
      BY IngestAssumption DEF IngestAssumption, Scopes
    <3>2. \A q \in Req : f[q] \in Nat
      BY <2>1, AddsFew
    <3>3. Counted(hourly, P, day) + Sum(f, Req) <= limit + slack
      BY DEF QuotaInv
    <3>4. Counted(hourly, P, day) \in Nat
      BY <2>1, <3>1, CountedNat
    <3>. HIDE DEF P, limit, f, slack
    <3>5. Sum(f, Req) \in Nat
      BY <3>1, <3>2, SumNat
    <3>6. Counted(hourly, P, day) <= limit + slack
      BY <2>2, <3>1, <3>3, <3>4, <3>5
    <3>. QED
      BY <3>4, <3>6 DEF P, limit
  <2>. HIDE DEF slack
  <2>4. ASSUME OrgLimit # NULL PROVE OrgUsed(day) <= OrgLimit + slack
    <3>1. <<Project, OrgLimit>> \in Scopes
      BY <2>4 DEF Scopes
    <3>. QED
      BY <2>3, <3>1, OrgUsedIs
  <2>5. ASSUME ProjectLimit # NULL, NEW p \in Project
        PROVE  ProjectUsed(p, day) <= ProjectLimit + slack
    <3>1. <<{p}, ProjectLimit>> \in Scopes
      BY <2>5 DEF Scopes
    <3>2. Counted(hourly, {p}, day) <= ProjectLimit + slack
      BY <2>3, <3>1
    <3>3. Counted(hourly, {p}, day) = ByProject(hourly, day)[p] + 0
      BY OneProject
    <3>4. ByProject(hourly, day)[p] \in Nat
      BY <2>1, CountedNat
    <3>5. ProjectUsed(p, day) = ByProject(hourly, day)[p]
      BY ProjectUsedIs DEF ByProject
    <3>. QED
      BY <3>2, <3>3, <3>4, <3>5
  <2>. QED
    BY <2>4, <2>5 DEF slack
<1>. QED
  BY <1>1, Invariant, InitIInv, QuotaInit, QuotaNext, PTL DEF Spec

=============================================================================
