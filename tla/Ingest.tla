------------------------------- MODULE Ingest -------------------------------
(***************************************************************************)
(* The ingest of events and log batches: concurrent READ COMMITTED         *)
(* transactions of PostgreSQL, one step per SQL statement.                 *)
(*                                                                         *)
(* A statement reads what other transactions have committed when it runs,  *)
(* and its own writes.  A write first takes the lock of its row, or of the *)
(* key it inserts, and waits while another transaction holds it; the locks *)
(* are released by the end of the transaction.  As a written row is locked *)
(* until then, the rows a transaction has written are those it has locked, *)
(* and its writes can be applied to the committed rows when it commits.    *)
(*                                                                         *)
(* A request is one call of IngestCanonicalEvent or of the log ingest: the *)
(* retries of a client are further requests with the same input.           *)
(***************************************************************************)
EXTENDS Naturals, FiniteSets, FiniteSetsExt

CONSTANTS
  Req,          \* requests; also the identifiers of the issues they create
  Project,      \* projects of one organization
  EventID,
  Fingerprint,
  Hour,         \* hour buckets of received_at
  DayOf,        \* the day of each hour
  Input,        \* what a request may carry
  Dest,         \* destinations with an enabled issue-opened rule
  OrgLimit,     \* daily event limit of the organization, NULL when disabled
  ProjectLimit, \* daily event limit of every project, NULL when disabled
  MaxConns,     \* connections of the pool: open transactions
  Faults,       \* whether statements, commits and processes may fail
  NULL

EventKey == Project \X EventID
Bucket   == Project \X Hour
Group    == Project \X Fingerprint

(* An event creates issues or not; a log batch holds count records.        *)
InputType ==
  [kind : {"issue", "plain", "logs"}, project : Project, event : EventID,
   fingerprint : Fingerprint, hour : Hour, count : Nat \ {0}]

IssueRow == [project : Project, short : Nat, count : Nat, last : EventKey]

ASSUME IngestAssumption ==
  /\ Input \subseteq InputType
  /\ \A x \in Input : x.kind # "logs" => x.count = 1
  /\ \E x \in Input : \A y \in Input : y.count <= x.count  \* MaxLogRecordsPerItem
  /\ DayOf \in [Hour -> Nat]
  /\ IsFiniteSet(Req) /\ IsFiniteSet(Project) /\ IsFiniteSet(EventID) /\ IsFiniteSet(Hour)
  /\ OrgLimit \in Nat \cup {NULL} /\ ProjectLimit \in Nat \cup {NULL}
  /\ MaxConns \in Nat \ {0}
  /\ Faults \in BOOLEAN
  /\ NULL \notin Nat /\ NULL \notin Req
  /\ NULL \notin InputType /\ NULL \notin IssueRow

VARIABLES
  \* committed rows
  events,     \* events, by (project_id, event_id)
  logs,       \* log_records, counted by project and hour
  hourly,     \* project_hourly_stats.event_count
  nextShort,  \* projects.next_issue_short_id
  issue,      \* issues
  fpIssue,    \* issue_fingerprints
  intents,    \* notification_intents: pairs of a destination and an issue
  \* transactions
  pc,         \* the next statement of each request
  input,
  held,       \* locked rows and keys
  shortID,    \* the short id taken by nextIssueShortID
  target,     \* the issue found by the fingerprint
  queued,     \* intents inserted and not committed
  answer,     \* the receipt the program will return
  receipt     \* the receipt returned, "error" when Run failed

dbVars == <<events, logs, hourly, nextShort, issue, fpIssue, intents>>
txVars == <<pc, input, held, shortID, target, queued, answer, receipt>>
vars   == <<dbVars, txVars>>

Receipt == {"none", "duplicate", "quota", "non_issue", "issue", "logs", "error"}

PC == {"idle", "exists", "quota", "append", "stats", "find", "update", "short",
       "insert", "enqueue", "logQuota", "appendLogs", "commit", "done"}

EventLock(k)   == <<"event", k>>
HourLock(b)    == <<"hour", b>>
ProjectLock(p) == <<"project", p>>
GroupLock(g)   == <<"fingerprint", g>>
IssueLock(i)   == <<"issue", i>>

Lock == (({"event"} \X EventKey) \cup ({"hour"} \X Bucket) \cup ({"project"} \X Project)
           \cup ({"fingerprint"} \X Group) \cup ({"issue"} \X Req))

TypeOK ==
  /\ events \in [EventKey -> Input \cup {NULL}]
  /\ logs \in [Bucket -> Nat]
  /\ hourly \in [Bucket -> Nat]
  /\ nextShort \in [Project -> Nat]
  /\ issue \in [Req -> IssueRow \cup {NULL}]
  /\ fpIssue \in [Group -> Req \cup {NULL}]
  /\ intents \subseteq Dest \X Req
  /\ pc \in [Req -> PC]
  /\ input \in [Req -> Input \cup {NULL}]
  /\ held \in [Req -> SUBSET Lock]
  /\ shortID \in [Req -> Nat]
  /\ target \in [Req -> Req \cup {NULL}]
  /\ queued \in [Req -> SUBSET Dest]
  /\ answer \in [Req -> Receipt]
  /\ receipt \in [Req -> Receipt]

Init ==
  /\ events = [k \in EventKey |-> NULL]
  /\ logs = [b \in Bucket |-> 0]
  /\ hourly = [b \in Bucket |-> 0]
  /\ nextShort = [p \in Project |-> 1]
  /\ issue = [i \in Req |-> NULL]
  /\ fpIssue = [g \in Group |-> NULL]
  /\ intents = {}
  /\ pc = [r \in Req |-> "idle"]
  /\ input = [r \in Req |-> NULL]
  /\ held = [r \in Req |-> {}]
  /\ shortID = [r \in Req |-> 0]
  /\ target = [r \in Req |-> NULL]
  /\ queued = [r \in Req |-> {}]
  /\ answer = [r \in Req |-> "none"]
  /\ receipt = [r \in Req |-> "none"]

-----------------------------------------------------------------------------
KeyOf(r)    == <<input[r].project, input[r].event>>
BucketOf(r) == <<input[r].project, input[r].hour>>
GroupOf(r)  == <<input[r].project, input[r].fingerprint>>

Open(r) == pc[r] \notin {"idle", "done"}

Free(l, r) == \A s \in Req \ {r} : l \notin held[s]

Goto(r, to) == pc' = [pc EXCEPT ![r] = to]

Acquire(r, l) ==
  /\ Free(l, r)
  /\ held' = [held EXCEPT ![r] = @ \cup {l}]

(* The program returns a receipt; Run goes on to the commit.               *)
Return(r, a) ==
  /\ Goto(r, "commit")
  /\ answer' = [answer EXCEPT ![r] = a]

-----------------------------------------------------------------------------
(* Run: a connection is taken from the pool and a transaction begun.       *)
Begin(r) ==
  /\ pc[r] = "idle"
  /\ Cardinality({s \in Req : Open(s)}) < MaxConns
  /\ \E x \in Input :
       /\ input' = [input EXCEPT ![r] = x]
       /\ Goto(r, IF x.kind = "logs" THEN "logQuota" ELSE "exists")
  /\ UNCHANGED <<dbVars, held, shortID, target, queued, answer, receipt>>

Exists(r) ==
  /\ pc[r] = "exists"
  /\ IF events[KeyOf(r)] # NULL
       THEN Return(r, "duplicate")
       ELSE Goto(r, "quota") /\ UNCHANGED answer
  /\ UNCHANGED <<dbVars, input, held, shortID, target, queued, receipt>>

(* quotaSnapshotForScope: a sum over the buckets of the day, not locked.   *)
ProjectUsed(p, day) ==
  MapThenSumSet(LAMBDA h : hourly[<<p, h>>], {h \in Hour : DayOf[h] = day})

OrgUsed(day) == MapThenSumSet(LAMBDA p : ProjectUsed(p, day), Project)

(* Slip: the request itself is left out of the sum.                        *)
quotaExceededIgnoresNext(limit, used, next) == limit # NULL /\ used > limit

quotaExceeded(limit, used, next) == limit # NULL /\ used + next > limit

QuotaAllows(x) ==
  /\ ~quotaExceeded(OrgLimit, OrgUsed(DayOf[x.hour]), x.count)
  /\ ~quotaExceeded(ProjectLimit, ProjectUsed(x.project, DayOf[x.hour]), x.count)

(* Slip: the sum is read through the pool, on a second connection, and not *)
(* through the one of the transaction.                                     *)
CheckQuotaOnPool(r) ==
  /\ pc[r] = "quota"
  /\ Cardinality({s \in Req : Open(s)}) < MaxConns
  /\ IF QuotaAllows(input[r])
       THEN Goto(r, "append") /\ UNCHANGED answer
       ELSE Return(r, "quota")
  /\ UNCHANGED <<dbVars, input, held, shortID, target, queued, receipt>>

CheckQuota(r) ==
  /\ pc[r] = "quota"
  /\ IF QuotaAllows(input[r])
       THEN Goto(r, "append") /\ UNCHANGED answer
       ELSE Return(r, "quota")
  /\ UNCHANGED <<dbVars, input, held, shortID, target, queued, receipt>>

(* Slips: a duplicate is counted; a stored event is overwritten.           *)
AppendEventCountsDuplicate(r) ==
  /\ pc[r] = "append"
  /\ Free(EventLock(KeyOf(r)), r)
  /\ Goto(r, "stats")
  /\ IF events[KeyOf(r)] # NULL
       THEN UNCHANGED held
       ELSE Acquire(r, EventLock(KeyOf(r)))
  /\ UNCHANGED <<dbVars, input, shortID, target, queued, answer, receipt>>

AppendEventOverwrites(r) ==
  /\ pc[r] = "append"
  /\ Acquire(r, EventLock(KeyOf(r)))
  /\ Goto(r, "stats")
  /\ UNCHANGED <<dbVars, input, shortID, target, queued, answer, receipt>>

(* Insert of the event: it waits for an uncommitted insert of the same     *)
(* key, and does nothing when that, or an earlier one, has committed.      *)
AppendEvent(r) ==
  /\ pc[r] = "append"
  /\ Free(EventLock(KeyOf(r)), r)
  /\ IF events[KeyOf(r)] # NULL
       THEN Return(r, "duplicate") /\ UNCHANGED held
       ELSE /\ Acquire(r, EventLock(KeyOf(r)))
            /\ Goto(r, "stats") /\ UNCHANGED answer
  /\ UNCHANGED <<dbVars, input, shortID, target, queued, receipt>>

(* The row of the hour is locked here and to the end of the transaction,   *)
(* during the append effect (an upload to the vault) as well.              *)
upsertProjectHourlyStats(r) ==
  /\ pc[r] = "stats"
  /\ Acquire(r, HourLock(BucketOf(r)))
  /\ IF input[r].kind = "issue"
       THEN Goto(r, "find") /\ UNCHANGED answer
       ELSE Return(r, "non_issue")
  /\ UNCHANGED <<dbVars, input, shortID, target, queued, receipt>>

findIssueByFingerprint(r) ==
  /\ pc[r] = "find"
  /\ target' = [target EXCEPT ![r] = fpIssue[GroupOf(r)]]
  /\ Goto(r, IF fpIssue[GroupOf(r)] # NULL THEN "update" ELSE "short")
  /\ UNCHANGED <<dbVars, input, held, shortID, queued, answer, receipt>>

(* Slip: an update takes a short id as well, after the lock of the issue.  *)
updateIssueThenProject(r) ==
  /\ pc[r] = "update"
  /\ Acquire(r, IssueLock(target[r]))
  /\ Goto(r, "short")
  /\ UNCHANGED <<dbVars, input, shortID, target, queued, answer, receipt>>

updateIssue(r) ==
  /\ pc[r] = "update"
  /\ Acquire(r, IssueLock(target[r]))
  /\ Return(r, "issue")
  /\ UNCHANGED <<dbVars, input, shortID, target, queued, receipt>>

(* Slip: the counter is read, not advanced by the same statement.          *)
nextIssueShortIDByRead(r) ==
  /\ pc[r] = "short"
  /\ shortID' = [shortID EXCEPT ![r] = nextShort[input[r].project]]
  /\ Goto(r, "insert")
  /\ UNCHANGED <<dbVars, input, held, target, queued, answer, receipt>>

nextIssueShortID(r) ==
  /\ pc[r] = "short"
  /\ Acquire(r, ProjectLock(input[r].project))
  /\ shortID' = [shortID EXCEPT ![r] = nextShort[input[r].project]]
  /\ Goto(r, "insert")
  /\ UNCHANGED <<dbVars, input, target, queued, answer, receipt>>

(* Slips on the lost race for a fingerprint: the issue found is not used,  *)
(* the fingerprint is taken over, the event is not counted.                *)
createIssueForgetsFound(r) ==
  /\ pc[r] = "insert"
  /\ Free(GroupLock(GroupOf(r)), r)
  /\ IF fpIssue[GroupOf(r)] = NULL
       THEN Acquire(r, GroupLock(GroupOf(r))) /\ Goto(r, "enqueue")
       ELSE Goto(r, "update") /\ UNCHANGED held
  /\ UNCHANGED <<dbVars, input, target, shortID, queued, answer, receipt>>

createIssueTakesOver(r) ==
  /\ pc[r] = "insert"
  /\ Acquire(r, GroupLock(GroupOf(r)))
  /\ Goto(r, "enqueue")
  /\ UNCHANGED <<dbVars, input, target, shortID, queued, answer, receipt>>

createIssueUncounted(r) ==
  /\ pc[r] = "insert"
  /\ Free(GroupLock(GroupOf(r)), r)
  /\ IF fpIssue[GroupOf(r)] = NULL
       THEN Acquire(r, GroupLock(GroupOf(r))) /\ Goto(r, "enqueue") /\ UNCHANGED answer
       ELSE Return(r, "issue") /\ UNCHANGED held
  /\ UNCHANGED <<dbVars, input, target, shortID, queued, receipt>>

(* insertIssue and the insert of the fingerprint.  Losing the fingerprint  *)
(* to a transaction that committed meanwhile deletes the own issue again   *)
(* and turns to the one the fingerprint names.                             *)
createIssue(r) ==
  /\ pc[r] = "insert"
  /\ Free(GroupLock(GroupOf(r)), r)
  /\ IF fpIssue[GroupOf(r)] = NULL
       THEN /\ Acquire(r, GroupLock(GroupOf(r)))
            /\ Goto(r, "enqueue")
            /\ UNCHANGED target
       ELSE /\ target' = [target EXCEPT ![r] = fpIssue[GroupOf(r)]]
            /\ Goto(r, "update")
            /\ UNCHANGED held
  /\ UNCHANGED <<dbVars, input, shortID, queued, answer, receipt>>

EnqueueIssueOpened(r) ==
  /\ pc[r] = "enqueue"
  /\ queued' = [queued EXCEPT ![r] = Dest]
  /\ Return(r, "issue")
  /\ UNCHANGED <<dbVars, input, held, shortID, target, receipt>>

-----------------------------------------------------------------------------
(* Log batches share the hourly counters and the quota; they have no key.  *)

CheckLogQuota(r) ==
  /\ pc[r] = "logQuota"
  /\ IF QuotaAllows(input[r])
       THEN Goto(r, "appendLogs") /\ UNCHANGED answer
       ELSE Return(r, "quota")
  /\ UNCHANGED <<dbVars, input, held, shortID, target, queued, receipt>>

AppendLogRecords(r) ==
  /\ pc[r] = "appendLogs"
  /\ Acquire(r, HourLock(BucketOf(r)))
  /\ Return(r, "logs")
  /\ UNCHANGED <<dbVars, input, shortID, target, queued, receipt>>

-----------------------------------------------------------------------------
Writes(r, l) == l \in held[r]

Creates(r) == Writes(r, GroupLock(GroupOf(r)))
Updates(r) == target[r] # NULL /\ Writes(r, IssueLock(target[r]))

NewIssue(r) ==
  [project |-> input[r].project, short |-> shortID[r], count |-> 1, last |-> KeyOf(r)]

(* The writes of a transaction become visible together.                    *)
Apply(r) ==
  /\ events' = IF Writes(r, EventLock(KeyOf(r)))
                 THEN [events EXCEPT ![KeyOf(r)] = input[r]] ELSE events
  /\ hourly' = IF Writes(r, HourLock(BucketOf(r)))
                 THEN [hourly EXCEPT ![BucketOf(r)] = @ + input[r].count] ELSE hourly
  /\ logs' = IF answer[r] = "logs"
               THEN [logs EXCEPT ![BucketOf(r)] = @ + input[r].count] ELSE logs
  /\ nextShort' = IF Writes(r, ProjectLock(input[r].project))
                    THEN [nextShort EXCEPT ![input[r].project] = @ + 1] ELSE nextShort
  /\ issue' = IF Creates(r) THEN [issue EXCEPT ![r] = NewIssue(r)]
              ELSE IF Updates(r)
                THEN [issue EXCEPT ![target[r]].count = @ + 1,
                                   ![target[r]].last = KeyOf(r)]
              ELSE issue
  /\ fpIssue' = IF Creates(r) THEN [fpIssue EXCEPT ![GroupOf(r)] = r] ELSE fpIssue
  /\ intents' = intents \cup {<<d, r>> : d \in queued[r]}

(* The end of the transaction: locks and connection are given back.        *)
Finish(r, a) ==
  /\ Goto(r, "done")
  /\ receipt' = [receipt EXCEPT ![r] = a]
  /\ held' = [held EXCEPT ![r] = {}]
  /\ queued' = [queued EXCEPT ![r] = {}]
  /\ UNCHANGED <<input, shortID, target, answer>>

Commit(r) ==
  /\ pc[r] = "commit"
  /\ Apply(r)
  /\ Finish(r, answer[r])

(* The commit took effect but its confirmation did not arrive.             *)
CommitUnconfirmed(r) ==
  /\ Faults
  /\ pc[r] = "commit"
  /\ Apply(r)
  /\ Finish(r, "error")

(* A statement, the append effect or the commit failed, or the process     *)
(* ended: the transaction is rolled back.                                  *)
Abort(r) ==
  /\ Faults
  /\ Open(r)
  /\ Finish(r, "error")
  /\ UNCHANGED dbVars

-----------------------------------------------------------------------------
Statement(r) ==
  \/ Exists(r) \/ CheckQuota(r) \/ AppendEvent(r) \/ upsertProjectHourlyStats(r)
  \/ findIssueByFingerprint(r) \/ updateIssue(r) \/ nextIssueShortID(r)
  \/ createIssue(r) \/ EnqueueIssueOpened(r) \/ CheckLogQuota(r)
  \/ AppendLogRecords(r) \/ Commit(r)

(* The requests of the bounded instance are used up.                       *)
AllDone == (\A r \in Req : pc[r] = "done") /\ UNCHANGED vars

Next ==
  \/ \E r \in Req : Begin(r) \/ Statement(r) \/ CommitUnconfirmed(r) \/ Abort(r)
  \/ AllDone

Spec == Init /\ [][Next]_vars

(* A running transaction is scheduled; the locks it waits for are granted  *)
(* in the order of the waits, and so are the connections of the pool: an   *)
(* idle request is one that waits for its connection.                      *)
FairSpec == Spec /\ \A r \in Req : WF_vars(Begin(r)) /\ WF_vars(Statement(r))

-----------------------------------------------------------------------------
(* Properties.                                                             *)

EventsOf(g) ==
  {k \in EventKey : /\ events[k] # NULL
                    /\ events[k].kind = "issue"
                    /\ <<events[k].project, events[k].fingerprint>> = g}

(* Every fingerprint names one issue and every issue is named by one       *)
(* fingerprint: a transaction that loses the race for a fingerprint        *)
(* (createIssue) leaves no issue behind.                                   *)
OneIssuePerFingerprint ==
  /\ \A g \in Group : fpIssue[g] # NULL =>
       issue[fpIssue[g]] # NULL /\ issue[fpIssue[g]].project = g[1]
  /\ \A i \in Req : issue[i] # NULL =>
       \E g \in Group : fpIssue[g] = i /\ \A f \in Group : fpIssue[f] = i => f = g

(* The event_count of an issue is the number of stored events with its     *)
(* fingerprint, however their transactions interleaved, failed or were     *)
(* repeated, and its last_event_id is one of them.                         *)
EveryEventCounted ==
  \A g \in Group :
    IF fpIssue[g] = NULL
      THEN EventsOf(g) = {}
      ELSE /\ issue[fpIssue[g]].count = Cardinality(EventsOf(g))
           /\ issue[fpIssue[g]].last \in EventsOf(g)

(* The counters the quota reads are the number of stored events and log    *)
(* records of the hour: duplicates and failed requests are not counted.    *)
HourlyStatsExact ==
  \A b \in Bucket :
    hourly[b] = logs[b] + Cardinality({k \in EventKey :
                  events[k] # NULL /\ <<events[k].project, events[k].hour>> = b})

(* Two issues of a project never show the same short id, and the ids given *)
(* out stay below the counter of the project (nextIssueShortID).           *)
ShortIdsUnique ==
  \A i \in Req : issue[i] # NULL =>
    /\ issue[i].short < nextShort[issue[i].project]
    /\ \A j \in Req \ {i} : issue[j] # NULL =>
         <<issue[j].project, issue[j].short>> # <<issue[i].project, issue[i].short>>

(* Every issue is announced to every destination, and nothing else is: no  *)
(* intent of a rolled back transaction, none from the loser of a race.     *)
IssueAnnouncedOnce == intents = Dest \X {i \in Req : issue[i] # NULL}

(* A receipt tells the truth: an event said to be accepted is the one      *)
(* stored, no two requests are told they stored the same event, and what   *)
(* is called a duplicate is stored, not merely being inserted.             *)
ReceiptsTruthful ==
  \A r \in Req :
    /\ receipt[r] \in {"issue", "non_issue"} =>
         /\ events[KeyOf(r)] = input[r]
         /\ \A s \in Req \ {r} :
              receipt[s] \in {"issue", "non_issue"} => KeyOf(s) # KeyOf(r)
    /\ receipt[r] = "duplicate" => events[KeyOf(r)] # NULL

(* The quota is checked without a lock, so concurrent requests may pass it *)
(* together; the pool bounds by how much the limit is overrun.             *)
MaxCount == CHOOSE n \in {x.count : x \in Input} : \A x \in Input : x.count <= n

QuotaOverrunBounded ==
  \A day \in {DayOf[h] : h \in Hour} :
    /\ OrgLimit # NULL => OrgUsed(day) <= OrgLimit + (MaxConns - 1) * MaxCount
    /\ ProjectLimit # NULL => \A p \in Project :
         ProjectUsed(p, day) <= ProjectLimit + (MaxConns - 1) * MaxCount

(* r needs a lock that s holds.                                            *)
WaitsOn(r, s) ==
  /\ r # s
  /\ \/ pc[r] = "append" /\ EventLock(KeyOf(r)) \in held[s]
     \/ pc[r] \in {"stats", "appendLogs"} /\ HourLock(BucketOf(r)) \in held[s]
     \/ pc[r] = "short" /\ ProjectLock(input[r].project) \in held[s]
     \/ pc[r] = "insert" /\ GroupLock(GroupOf(r)) \in held[s]
     \/ pc[r] = "update" /\ IssueLock(target[r]) \in held[s]

(* No set of transactions waits for each other: PostgreSQL never has a     *)
(* deadlock to break, and ingest never fails because of one.               *)
NoWaitCycle ==
  \A S \in SUBSET Req : S # {} => \E r \in S : \A s \in S : ~WaitsOn(r, s)

(* Every request is answered: one that waits for a connection of the pool  *)
(* gets it, although each of those that hold one may be waiting for the    *)
(* locks of another (store.go, Run), and one that has it gets its locks.   *)
EveryRequestAnswered == \A r \in Req : <>(pc[r] = "done")

-----------------------------------------------------------------------------
(* Refinement: the transactions implement the contract, each in the step   *)
(* that ends it.                                                           *)
SizeOf(g) == IF fpIssue[g] = NULL THEN 0 ELSE issue[fpIssue[g]].count

Alerted == {p \in Dest \X Group : fpIssue[p[2]] # NULL /\ <<p[1], fpIssue[p[2]]>> \in intents}

Contract == INSTANCE IngestContract WITH
  stored <- events, counted <- hourly, size <- [g \in Group |-> SizeOf(g)],
  alerted <- Alerted, answered <- receipt

(* Concurrent READ COMMITTED transactions look like requests served one    *)
(* at a time.                                                              *)
ImplementsContract == Contract!Spec

=============================================================================
