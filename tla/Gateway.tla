------------------------------ MODULE Gateway -------------------------------
(***************************************************************************)
(* The intake over HTTP: from a request of a Sentry client to its answer.  *)
(*                                                                         *)
(* A handler takes its steps one after the other: the check of the rate    *)
(* limit, the ingest, each user report, and for a minidump the upload of   *)
(* the file inside the transaction of its event, and its removal when the  *)
(* transaction fails.  Each is a statement or a transaction of its own, so *)
(* a handler may fail, or its client leave, with some of them done.  What  *)
(* the ingest does inside is the business of module Ingest: here it is one *)
(* step, as IngestContract promises, but for the lock that a minidump      *)
(* holds on its event while its file is written.                           *)
(*                                                                         *)
(* A retry of a client is another request with the same body.  The answer  *)
(* of a failed commit says nothing of its effect.                          *)
(***************************************************************************)
EXTENDS SentryProtocol

CONSTANTS
  Req,         \* requests; each also names the event id the server makes for it
  Key,         \* public keys
  Project,
  KeyProject,  \* the project of each key that accepts events
  Scrub,       \* projects that scrub the addresses of clients
  EventID,     \* ids that clients give
  Policy,      \* the rate limit of each key: seconds of the window and limit,
               \* NULL when disabled
  Body,        \* the requests that clients may send
  MaxTime,     \* half seconds
  QuotaOn,     \* whether a quota may reject an ingest
  Faults,      \* whether calls, commits, clients and processes may fail
  NULL

ASSUME GatewayAssumption ==
  /\ KeyProject \in [Key -> Project] /\ Scrub \subseteq Project
  /\ \A k \in Key :
       Policy[k] = NULL \/ Policy[k] \in [window : Nat \ {0}, limit : Nat]
  /\ DOMAIN Policy = Key
  /\ NULL \notin Req \cup {200, 400, 403, 413, 415, 429, 503}
  /\ MaxTime \in Nat /\ {QuotaOn, Faults} \subseteq BOOLEAN
  /\ Req \cap EventID = {} /\ IsFiniteSet(Req)

EventKey == Project \X (EventID \cup Req)
Bucket   == Nat \X Nat                      \* a start and a window

VARIABLES
  now,       \* time.Now of the server, in half seconds
  \* committed rows
  events,    \* the request that stored each event
  reports,   \* user_reports: the request that wrote each
  logRows,   \* log_records of each request
  counts,    \* project_key_rate_limit_buckets, by key
  \* the artifact vault
  vault,     \* the request whose minidump is kept for each event
  \* requests
  pc,
  body,
  received,  \* the time it was received
  todo,      \* user reports left to submit
  locked,    \* events of open minidump transactions
  uploaded,  \* the file of the request was written
  gone,      \* the client has left: its context is cancelled
  admitted,  \* the rate limit let it pass
  answer,    \* the status answered
  retryAfter

dbVars  == <<events, reports, logRows, counts>>
reqVars == <<pc, body, received, todo, locked, uploaded, gone, admitted, answer, retryAfter>>
vars    == <<now, dbVars, vault, reqVars>>

PC == {"idle", "limit", "read", "logs", "ingest", "append", "upload", "commit", "cleanup",
       "reports", "done", "dead"}

Status == {200, 400, 403, 413, 415, 429, 503}

Init ==
  /\ now = 0
  /\ events = [e \in EventKey |-> NULL]
  /\ reports = [e \in EventKey |-> NULL]
  /\ logRows = [r \in Req |-> 0]
  /\ counts = [k \in Key |-> <<>>]
  /\ vault = [e \in EventKey |-> NULL]
  /\ pc = [r \in Req |-> "idle"]
  /\ body = [r \in Req |-> NULL]
  /\ received = [r \in Req |-> 0]
  /\ todo = [r \in Req |-> <<>>]
  /\ locked = [r \in Req |-> {}]
  /\ uploaded = [r \in Req |-> FALSE]
  /\ gone = [r \in Req |-> FALSE]
  /\ admitted = [r \in Req |-> FALSE]
  /\ answer = [r \in Req |-> NULL]
  /\ retryAfter = [r \in Req |-> 0]

-----------------------------------------------------------------------------
(* Who a request is from: every source of a key and a project that it      *)
(* carries must be complete and agree with the others, and the key must be *)
(* one of that project.                                                    *)

agreeSentryAuthSources(sources) ==
  /\ sources # {}
  /\ \A s \in sources : s.project # "" /\ s.key # "" /\ \A t \in sources : s = t

(* The sources of the query and the headers, and of the DSN of an          *)
(* envelope; one that does not parse is blank.                             *)
SourcesOf(b) == b.sources \cup (IF b.kind = "envelope" THEN b.data.dsn ELSE {})

Authorized(b) ==
  /\ agreeSentryAuthSources(SourcesOf(b))
  /\ \A s \in SourcesOf(b) : s.key \in Key /\ KeyProject[s.key] = s.project

KeyOf(b)     == (CHOOSE s \in SourcesOf(b) : TRUE).key
ProjectOf(b) == KeyProject[KeyOf(b)]

(* What a store request or an envelope holds.                              *)
parseStoreEvent(b) ==
  IF EventRead("event", "", b.data)
  THEN [Nothing EXCEPT !.hasEvent = TRUE,
          !.event = CanonicalEvent(ProjectOf(b), ProjectOf(b) \in Scrub, "event", "", b.data)]
  ELSE Refuse(Nothing)

Parsed(b) == IF b.kind = "store" THEN parseStoreEvent(b)
             ELSE parseSentryRequest(ProjectOf(b), ProjectOf(b) \in Scrub, b.data)

ReportsOf(b) ==
  CASE b.kind = "envelope" -> Parsed(b).reports
    [] b.kind = "feedback" -> <<[event |-> b.data.eventID, text |-> b.data.text]>>
    [] OTHER -> <<>>

(* The event a request stores: a minidump that names no event and a CSP    *)
(* report get an id of their own.                                          *)
EventOf(r) ==
  LET b == body[r]
      id == CASE b.kind \in {"store", "envelope"} -> Parsed(b).event.id
              [] b.kind = "minidump" /\ b.data.eventID # "" -> b.data.eventID
              [] OTHER -> r
  IN  <<ProjectOf(b), id>>

(* What is stored for it.                                                  *)
prepareMinidumpEvent(b, id) ==
  [id |-> id, kind |-> "error", level |-> IF b.data.level = "" THEN "fatal" ELSE b.data.level,
   title |-> <<"Native crash minidump">>,
   fingerprint |-> <<ProjectOf(b), "error", "error", <<"native", "minidump">>>>,
   tags |-> {}, js |-> <<>>, native |-> parseMinidumpFrames(b.data), spans |-> <<>>]

ContentOf(r) ==
  LET b == body[r]
  IN  CASE b.kind \in {"store", "envelope"} -> Parsed(b).event
        [] b.kind = "security" -> CSPEvent(ProjectOf(b), r, CHOOSE c \in CSPReports(b.data) : TRUE)
        [] b.kind = "minidump" -> prepareMinidumpEvent(b, EventOf(r)[2])

HasEvent(b) ==
  \/ b.kind \in {"minidump", "security"}
  \/ (b.kind \in {"store", "envelope"} /\ Parsed(b).hasEvent)

LogsOf(b) == IF b.kind = "envelope" THEN Parsed(b).logs ELSE <<>>

httpStatusForBodyError(b) ==
  CASE b.read = "encoding" -> 415 [] b.read = "large" -> 413 [] b.read = "gzip" -> 400

Understood(b) ==
  CASE b.kind \in {"store", "envelope"} -> Parsed(b).read
    [] b.kind = "security" -> CSPReports(b.data) # {}
    [] b.kind = "feedback" -> b.data.json

(* The key is looked up before the body is parsed.  A lookup that fails is *)
(* answered like a key that is not known.                                  *)
KeyLookedUp(b) == b.kind = "minidump" \/ b.read = "ok"

(* The status of a request that is refused before it does anything, or     *)
(* NULL.  The body of a minidump is read only after the rate limit.        *)
Refusal(b) ==
  CASE b.kind # "minidump" /\ b.read # "ok" -> httpStatusForBodyError(b)
    [] KeyLookedUp(b) /\ ~Authorized(b) -> 403
    [] b.kind # "minidump" /\ b.read = "ok" /\ Authorized(b)
         /\ ~(Understood(b) /\ \A i \in DOMAIN ReportsOf(b) : ReportValid(ReportsOf(b)[i])) -> 400
    [] OTHER -> NULL

(* An identifier that a client gives, or does not.                         *)
GivenID == EventID \cup {"", "bad"}

UserReport == [event : GivenID, text : STRING]

(* Clients send requests of these kinds.  The ids they name are among those*)
(* of clients, and what an envelope holds are lists.                       *)
ASSUME BodyAssumption ==
  /\ EventID \cap {"", "bad"} = {}
  /\ \A b \in Body :
       /\ b.kind \in {"store", "envelope", "minidump", "security", "feedback"}
       /\ b.read \in {"ok", "encoding", "large", "gzip"}
       /\ b.kind \in {"store", "minidump", "feedback"} => b.data.eventID \in GivenID
       /\ b.kind = "feedback" => b.data.text \in STRING
       /\ b.kind = "envelope" =>
            /\ b.data.eventID \in GivenID
            /\ b.data.items \in Seq(ToSet(b.data.items))
            /\ \A item \in ToSet(b.data.items) :
                 LET d == item.data
                 IN  /\ item.type \in EventItem => d.eventID \in GivenID
                     /\ item.type \in LogItem =>
                          RawLogs(item.type, d) \in Seq(ToSet(RawLogs(item.type, d)))
                     /\ item.type \in ReportItem => d.eventID \in GivenID /\ d.text \in STRING
                     /\ item.type = "feedback" => d.associated \in GivenID

-----------------------------------------------------------------------------
Goto(r, to) == pc' = [pc EXCEPT ![r] = to]

(* The handler returns: todo and locked are its own.                       *)
Answer(r, status) ==
  /\ Goto(r, "done")
  /\ answer' = [answer EXCEPT ![r] = status]

(* A handler whose context is cancelled gets an error from every call.     *)
CallWorks(r) == ~gone[r]
CallFails(r) == gone[r] \/ Faults

(* A failed call may have had its effect when its commit was not confirmed.*)
Unconfirmed(r) == Faults

(* The checks before anything is stored.  A request with neither an event  *)
(* nor logs goes to its reports, and meets no rate limit.                  *)
Arrive(r, b) ==
  /\ pc[r] = "idle"
  /\ body' = [body EXCEPT ![r] = b]
  /\ received' = [received EXCEPT ![r] = now]
  /\ \/ Refusal(b) # NULL /\ Answer(r, Refusal(b)) /\ UNCHANGED todo
     \/ Faults /\ KeyLookedUp(b) /\ Answer(r, 403) /\ UNCHANGED todo
     \/ /\ Refusal(b) = NULL
        /\ Goto(r, IF HasEvent(b) \/ LogsOf(b) # <<>> THEN "limit" ELSE "reports")
        /\ todo' = [todo EXCEPT ![r] = ReportsOf(b)]
        /\ UNCHANGED answer
  /\ UNCHANGED <<now, dbVars, vault, locked, uploaded, gone, admitted, retryAfter>>

(* rateLimitBucket, rateLimitRetryAfter and retryAfterSeconds: the time    *)
(* left is cut to whole seconds, and is never less than one.               *)
rateLimitBucket(t, window) == <<(t \div (2 * window)) * window, window>>

RetryAfterSeconds(t, window) ==
  LET left == 2 * (rateLimitBucket(t, window)[1] + window) - t
  IN  IF left < 2 THEN 1 ELSE left \div 2

CountOf(k, bucket) == IF bucket \in DOMAIN counts[k] THEN counts[k][bucket] ELSE 0

incrementRateLimitBucket(k, bucket) ==
  counts' = [counts EXCEPT ![k] =
               [x \in DOMAIN counts[k] \cup {bucket} |->
                  IF x = bucket THEN CountOf(k, bucket) + 1 ELSE counts[k][x]]]

AfterLimit(b) ==
  CASE b.kind = "minidump" -> "read"
    [] b.kind # "minidump" /\ LogsOf(b) # <<>> -> "logs"
    [] OTHER -> "ingest"

Pass(r) ==
  /\ Goto(r, AfterLimit(body[r]))
  /\ admitted' = [admitted EXCEPT ![r] = TRUE]
  /\ UNCHANGED <<answer, retryAfter>>

(* Slip: the count before the request is compared with the limit.         *)
CheckRateLimitLate(r) ==
  /\ pc[r] = "limit" /\ CallWorks(r)
  /\ LET k      == KeyOf(body[r])
         bucket == rateLimitBucket(received[r], Policy[k].window)
     IN  IF Policy[k] = NULL THEN Pass(r) /\ UNCHANGED counts
         ELSE /\ incrementRateLimitBucket(k, bucket)
              /\ IF CountOf(k, bucket) <= Policy[k].limit THEN Pass(r)
                 ELSE /\ Answer(r, 429)
                      /\ retryAfter' = [retryAfter EXCEPT ![r] =
                                          RetryAfterSeconds(received[r], Policy[k].window)]
                      /\ UNCHANGED admitted
  /\ UNCHANGED <<now, events, reports, logRows, vault, body, received, todo, locked, uploaded,
                 gone>>

(* A request is counted in the window of the time it was received, the one *)
(* that is rejected too.                                                   *)
CheckRateLimit(r) ==
  /\ pc[r] = "limit" /\ CallWorks(r)
  /\ LET k      == KeyOf(body[r])
         bucket == rateLimitBucket(received[r], Policy[k].window)
     IN  IF Policy[k] = NULL THEN Pass(r) /\ UNCHANGED counts
         ELSE /\ incrementRateLimitBucket(k, bucket)
              /\ IF CountOf(k, bucket) + 1 <= Policy[k].limit THEN Pass(r)
                 ELSE /\ Answer(r, 429)
                      /\ retryAfter' = [retryAfter EXCEPT ![r] =
                                          RetryAfterSeconds(received[r], Policy[k].window)]
                      /\ UNCHANGED admitted
  /\ UNCHANGED <<now, events, reports, logRows, vault, body, received, todo, locked, uploaded,
                 gone>>

CheckRateLimitFails(r) ==
  /\ pc[r] = "limit" /\ CallFails(r)
  /\ Answer(r, 503)
  /\ LET k == KeyOf(body[r])
     IN  \/ UNCHANGED counts
         \/ /\ Unconfirmed(r) /\ Policy[k] # NULL
            /\ incrementRateLimitBucket(k, rateLimitBucket(received[r], Policy[k].window))
  /\ UNCHANGED <<now, events, reports, logRows, vault, body, received, todo, locked, uploaded,
                 gone, admitted, retryAfter>>

-----------------------------------------------------------------------------
(* The ingest of logs and of events without a file.                        *)

IngestLogs(r) ==
  /\ pc[r] = "logs" /\ CallWorks(r)
  /\ \/ logRows' = [logRows EXCEPT ![r] = Len(LogsOf(body[r]))] /\ Answer(r, 200)
     \/ QuotaOn /\ Answer(r, 429) /\ UNCHANGED logRows
  /\ UNCHANGED <<now, events, reports, counts, vault, body, received, todo, locked, uploaded,
                 gone, admitted, retryAfter>>

IngestLogsFails(r) ==
  /\ pc[r] = "logs" /\ CallFails(r)
  /\ Answer(r, 503)
  /\ \/ UNCHANGED logRows
     \/ Unconfirmed(r) /\ logRows' = [logRows EXCEPT ![r] = Len(LogsOf(body[r]))]
  /\ UNCHANGED <<now, events, reports, counts, vault, body, received, todo, locked, uploaded,
                 gone, admitted, retryAfter>>

(* The row of the event is inserted by nobody else whose transaction is    *)
(* open: an insert of the same id waits for it.                            *)
RowFree(r) == \A s \in Req \ {r} : EventOf(r) \notin locked[s]

Store(r) == events' = [events EXCEPT ![EventOf(r)] = r]

(* A duplicate is answered like the first, and its reports are submitted;  *)
(* those of an event the quota rejects are not.                            *)
IngestEvent(r) ==
  /\ pc[r] = "ingest" /\ CallWorks(r) /\ RowFree(r)
  /\ \/ events[EventOf(r)] = NULL /\ Store(r) /\ Goto(r, "reports") /\ UNCHANGED answer
     \/ events[EventOf(r)] # NULL /\ Goto(r, "reports") /\ UNCHANGED <<events, answer>>
     \/ QuotaOn /\ events[EventOf(r)] = NULL /\ Answer(r, 429) /\ UNCHANGED events
  /\ UNCHANGED <<now, reports, logRows, counts, vault, body, received, todo, locked, uploaded,
                 gone, admitted, retryAfter>>

IngestEventFails(r) ==
  /\ pc[r] = "ingest" /\ CallFails(r)
  /\ Answer(r, 503)
  /\ \/ UNCHANGED events
     \/ Unconfirmed(r) /\ RowFree(r) /\ events[EventOf(r)] = NULL /\ Store(r)
  /\ UNCHANGED <<now, reports, logRows, counts, vault, body, received, todo, locked, uploaded,
                 gone, admitted, retryAfter>>

(* One report after the other; the first that fails ends the request, and  *)
(* what came before it stays.  A report is of an event that is stored.     *)
ReportKey(r) == <<ProjectOf(body[r]), Head(todo[r]).event>>

Write(r) == reports' = [reports EXCEPT ![ReportKey(r)] = r]

(* Slip: a report that fails is left out.                                  *)
SubmitUserReportSkips(r) ==
  /\ pc[r] = "reports" /\ todo[r] # <<>> /\ CallWorks(r)
  /\ \/ /\ ReportKey(r) \in EventKey /\ events[ReportKey(r)] # NULL
        /\ Write(r)
        /\ todo' = [todo EXCEPT ![r] = Tail(@)]
        /\ UNCHANGED <<pc, answer>>
     \/ /\ ReportKey(r) \in EventKey => events[ReportKey(r)] = NULL
        /\ todo' = [todo EXCEPT ![r] = Tail(@)]
        /\ UNCHANGED <<reports, pc, answer>>
  /\ UNCHANGED <<now, events, logRows, counts, vault, body, received, locked, uploaded, gone,
                 admitted, retryAfter>>

SubmitUserReport(r) ==
  /\ pc[r] = "reports" /\ todo[r] # <<>> /\ CallWorks(r)
  /\ \/ /\ ReportKey(r) \in EventKey /\ events[ReportKey(r)] # NULL
        /\ Write(r)
        /\ todo' = [todo EXCEPT ![r] = Tail(@)]
        /\ UNCHANGED <<pc, answer>>
     \/ /\ ReportKey(r) \in EventKey => events[ReportKey(r)] = NULL
        /\ Answer(r, 400)
        /\ UNCHANGED <<reports, todo>>
  /\ UNCHANGED <<now, events, logRows, counts, vault, body, received, locked, uploaded, gone,
                 admitted, retryAfter>>

SubmitUserReportFails(r) ==
  /\ pc[r] = "reports" /\ todo[r] # <<>> /\ CallFails(r)
  /\ Answer(r, 400)
  /\ \/ UNCHANGED reports
     \/ Unconfirmed(r) /\ ReportKey(r) \in EventKey /\ events[ReportKey(r)] # NULL /\ Write(r)
  /\ UNCHANGED <<now, events, logRows, counts, vault, body, received, todo, locked, uploaded,
                 gone, admitted, retryAfter>>

WriteReceipt(r) ==
  /\ pc[r] = "reports" /\ todo[r] = <<>>
  /\ Answer(r, 200)
  /\ UNCHANGED <<now, dbVars, vault, body, received, todo, locked, uploaded, gone, admitted,
                 retryAfter>>

-----------------------------------------------------------------------------
(* Minidumps.                                                              *)

(* The multipart form and the dump are read.                               *)
ReadMinidump(r) ==
  /\ pc[r] = "read"
  /\ CASE body[r].read = "ok" /\ MinidumpRead(body[r].data) ->
              Goto(r, "append") /\ UNCHANGED answer
       [] body[r].read = "large" -> Answer(r, 413)
       [] OTHER -> Answer(r, 400)
  /\ UNCHANGED <<now, dbVars, vault, body, received, todo, locked, uploaded, gone, admitted,
                 retryAfter>>

(* Slip: the event is looked up before its row is inserted, without a lock. *)
AppendEventUnlocked(r) ==
  /\ pc[r] = "append" /\ CallWorks(r)
  /\ \/ /\ events[EventOf(r)] = NULL
        /\ Goto(r, "upload") /\ UNCHANGED <<locked, answer>>
     \/ events[EventOf(r)] # NULL /\ Answer(r, 200) /\ UNCHANGED locked
     \/ QuotaOn /\ events[EventOf(r)] = NULL /\ Answer(r, 429) /\ UNCHANGED locked
  /\ UNCHANGED <<now, dbVars, vault, body, received, todo, uploaded, gone, admitted, retryAfter>>

(* Slip: the file of a duplicate is taken for one that was left behind.    *)
AppendEventDrops(r) ==
  /\ pc[r] = "append" /\ CallWorks(r) /\ RowFree(r)
  /\ \/ /\ events[EventOf(r)] = NULL
        /\ locked' = [locked EXCEPT ![r] = {EventOf(r)}]
        /\ Goto(r, "upload") /\ UNCHANGED <<answer, vault>>
     \/ /\ events[EventOf(r)] # NULL /\ Answer(r, 200) /\ UNCHANGED locked
        /\ vault' = [vault EXCEPT ![EventOf(r)] = NULL]
     \/ QuotaOn /\ events[EventOf(r)] = NULL /\ Answer(r, 429) /\ UNCHANGED <<locked, vault>>
  /\ UNCHANGED <<now, dbVars, body, received, todo, uploaded, gone, admitted, retryAfter>>

(* The transaction up to the row of the event, which stays locked.         *)
AppendEvent(r) ==
  /\ pc[r] = "append" /\ CallWorks(r) /\ RowFree(r)
  /\ \/ /\ events[EventOf(r)] = NULL
        /\ locked' = [locked EXCEPT ![r] = {EventOf(r)}]
        /\ Goto(r, "upload") /\ UNCHANGED answer
     \/ events[EventOf(r)] # NULL /\ Answer(r, 200) /\ UNCHANGED locked
     \/ QuotaOn /\ events[EventOf(r)] = NULL /\ Answer(r, 429) /\ UNCHANGED locked
  /\ UNCHANGED <<now, dbVars, vault, body, received, todo, uploaded, gone, admitted, retryAfter>>

(* The file is written beside its place and renamed over what is there.    *)
PutArtifact(r) == vault' = [vault EXCEPT ![EventOf(r)] = r]

UploadMinidump(r) ==
  /\ pc[r] = "upload" /\ CallWorks(r)
  /\ PutArtifact(r)
  /\ uploaded' = [uploaded EXCEPT ![r] = TRUE]
  /\ Goto(r, "commit")
  /\ UNCHANGED <<now, dbVars, body, received, todo, locked, gone, admitted, answer, retryAfter>>

Unlock(r) == locked' = [locked EXCEPT ![r] = {}]

CommitMinidump(r) ==
  /\ pc[r] = "commit" /\ CallWorks(r)
  /\ Store(r) /\ Unlock(r) /\ Answer(r, 200)
  /\ UNCHANGED <<now, reports, logRows, counts, vault, body, received, todo, uploaded, gone,
                 admitted, retryAfter>>

(* Any call of the transaction fails: it is rolled back, and the file that *)
(* was written is to be removed.                                           *)
RollbackMinidump(r) ==
  /\ pc[r] \in {"append", "upload", "commit"} /\ CallFails(r)
  /\ Unlock(r)
  /\ IF uploaded[r] THEN Goto(r, "cleanup") /\ UNCHANGED answer ELSE Answer(r, 503)
  /\ \/ UNCHANGED events
     \/ pc[r] = "commit" /\ Unconfirmed(r) /\ Store(r)
  /\ UNCHANGED <<now, reports, logRows, counts, vault, body, received, todo, uploaded, gone,
                 admitted, retryAfter>>

(* cleanupStoredMinidump: the file under the name is removed, whoever      *)
(* wrote it; nothing is when the client has left.                          *)
CleanupStoredMinidump(r) ==
  /\ pc[r] = "cleanup"
  /\ Answer(r, 503)
  /\ \/ CallWorks(r) /\ vault' = [vault EXCEPT ![EventOf(r)] = NULL]
     \/ CallFails(r) /\ UNCHANGED vault
  /\ UNCHANGED <<now, dbVars, body, received, todo, locked, uploaded, gone, admitted, retryAfter>>

-----------------------------------------------------------------------------
(* A client that leaves cancels the context of its request.                *)
Leave(r) ==
  /\ Faults /\ pc[r] \notin {"idle", "done", "dead"} /\ ~gone[r]
  /\ gone' = [gone EXCEPT ![r] = TRUE]
  /\ UNCHANGED <<now, dbVars, vault, pc, body, received, todo, locked, uploaded, admitted, answer,
                 retryAfter>>

(* The process ends: open transactions are rolled back, files stay.        *)
Crash ==
  /\ Faults /\ \E r \in Req : pc[r] \notin {"idle", "done", "dead"}
  /\ pc' = [r \in Req |-> IF pc[r] \in {"idle", "done"} THEN pc[r] ELSE "dead"]
  /\ locked' = [r \in Req |-> {}]
  /\ UNCHANGED <<now, dbVars, vault, body, received, todo, uploaded, gone, admitted, answer,
                 retryAfter>>

Tick == now < MaxTime /\ now' = now + 1 /\ UNCHANGED <<dbVars, vault, reqVars>>

Handle(r) ==
  \/ CheckRateLimit(r) \/ CheckRateLimitFails(r)
  \/ IngestLogs(r) \/ IngestLogsFails(r)
  \/ IngestEvent(r) \/ IngestEventFails(r)
  \/ SubmitUserReport(r) \/ SubmitUserReportFails(r) \/ WriteReceipt(r)
  \/ ReadMinidump(r) \/ AppendEvent(r) \/ UploadMinidump(r) \/ CommitMinidump(r)
  \/ RollbackMinidump(r) \/ CleanupStoredMinidump(r)

Next ==
  \/ \E r \in Req : (\E b \in Body : Arrive(r, b)) \/ Handle(r) \/ Leave(r)
  \/ Crash
  \/ Tick

Spec == Init /\ [][Next]_vars

-----------------------------------------------------------------------------
(* What a client may conclude from the status (sentry.go, 100-444).  200   *)
(* means that the event, all the logs and all the reports are stored; a    *)
(* status that refuses the request, that it stored nothing; 400, nothing   *)
(* but an event whose reports failed and the reports before the failing    *)
(* one.  503 says nothing.                                                 *)
Stored(r) == \E e \in EventKey : r \in {events[e], reports[e]}

StoredAll(r) ==
  /\ HasEvent(body[r]) => events[EventOf(r)] # NULL
  /\ logRows[r] = Len(LogsOf(body[r]))
  /\ \A i \in DOMAIN ReportsOf(body[r]) :
       reports[<<ProjectOf(body[r]), ReportsOf(body[r])[i].event>>] # NULL

AnswersTrue ==
  \A r \in Req :
    /\ answer[r] = 200 => StoredAll(r)
    /\ answer[r] \in {403, 413, 415, 429} => ~Stored(r) /\ logRows[r] = 0 /\ ~uploaded[r]
    /\ answer[r] = 400 => (Stored(r) => ReportsOf(body[r]) # <<>>) /\ logRows[r] = 0

(* The file kept for a stored minidump is the one its own request wrote,   *)
(* though files are renamed into place and removed by name, outside of the *)
(* transactions that order the requests (ingestMinidumpEvent).             *)
FileOfItsEvent ==
  \A e \in EventKey :
    events[e] # NULL /\ body[events[e]].kind = "minidump" => vault[e] \in {NULL, events[e]}

(* And it is missing only if a request for the same event failed after its *)
(* own upload: its commit had its effect all the same, or its removal of   *)
(* the file came after the upload of the retry.                            *)
FileLossExplained ==
  \A e \in EventKey :
    events[e] # NULL /\ body[events[e]].kind = "minidump" /\ vault[e] = NULL
      => \E r \in Req : uploaded[r] /\ pc[r] = "done" /\ answer[r] = 503 /\ EventOf(r) = e

(* No window lets through more requests of a key than its limit, in        *)
(* whatever order they are counted (CheckRateLimit).                       *)
RateLimitHeld ==
  \A k \in {x \in Key : Policy[x] # NULL} : \A t \in 0..MaxTime :
    LET w == Policy[k].window
    IN  Cardinality({r \in Req :
          admitted[r] /\ KeyOf(body[r]) = k
            /\ rateLimitBucket(received[r], w) = rateLimitBucket(t, w)}) <= Policy[k].limit

-----------------------------------------------------------------------------
(* The reading of envelopes.                                               *)

(* What an envelope means, without an order of reading: each of its items  *)
(* can be read, at most one is an event, and logs go with neither events   *)
(* nor reports (ParseEnvelope and parseSentryRequest).                     *)
OfType(env, types) == {i \in DOMAIN env.items : env.items[i].type \in types}

Readable(env) ==
  /\ env.header /\ Len(env.items) <= MaxItems
  /\ \A i \in DOMAIN env.items : Framed(env.items[i])
  /\ OfType(env, ReservedItem) = {}
  /\ \A i \in OfType(env, ReportItem) : ReportRead(env.items[i].type, env.items[i].data)
  /\ \A i \in OfType(env, LogItem) : LogItemRead(env.items[i].type, env.items[i].data)
  /\ \A i \in OfType(env, EventItem) : EventRead(env.items[i].type, env.eventID, env.items[i].data)
  /\ Cardinality(OfType(env, EventItem)) <= 1
  /\ OfType(env, LogItem) # {} => OfType(env, EventItem \cup ReportItem) = {}

EnvelopeRead ==
  \A r \in Req :
    body[r] # NULL /\ body[r].kind = "envelope" /\ body[r].read = "ok" /\ Authorized(body[r])
      => LET env == body[r].data
             s   == Parsed(body[r])
         IN  /\ s.read <=> Readable(env)
             /\ s.read => /\ s.hasEvent <=> OfType(env, EventItem) # {}
                          /\ s.logs # <<>> <=> OfType(env, LogItem) # {}
                          /\ Len(s.reports) = Cardinality(OfType(env, ReportItem))

(* A project that scrubs addresses stores none of a client, whichever part *)
(* of the event names it, and no other event keeps one that is not public  *)
(* (eventTags).                                                            *)
PayloadsOf(b) ==
  CASE b.kind = "store" -> {b.data}
    [] b.kind = "envelope" -> {b.data.items[i].data : i \in OfType(b.data, EventItem)}
    [] OTHER -> {}

AddressesScrubbed ==
  \A e \in EventKey :
    LET r == events[e]
    IN  r # NULL /\ body[r].kind \in {"store", "envelope"}
          => /\ ContentOf(r).tags \cap {"address", "client_ip"} # {}
                  => e[1] \notin Scrub
             /\ "client_ip" \in ContentOf(r).tags
                  => \E p \in PayloadsOf(body[r]) :
                       "public" \in p.userIP \cup p.requestIP \cup p.addressTags
=============================================================================
