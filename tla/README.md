# Verification of the error tracker

TLA+ models of the parts of `github.com/ivanzakutnii/error-tracker` (Go,
PostgreSQL, one database shared by any number of `server`, `worker` and
`all-in-one` processes) that several processes can get wrong together, the TLC
runs that check them on small instances, and the theorems TLAPS proves about
them for every value of their constants. Paths below are relative to the
repository.

1. [The system](#1-the-system): components, state, interactions, what is hard
2. [Modules](#2-modules): which module models what, and how
3. [Runs](#3-runs): what is checked, with which bounds
4. [Fairness and outside assumptions](#4-fairness-and-outside-assumptions)
5. [Proofs](#5-proofs): what is proved, from what, along which argument
6. [What is not modelled](#6-what-is-not-modelled)
7. [Plan](#7-plan): what is left

## 1. The system

An SDK posts events, transactions, logs, minidumps and security reports; the
server groups events into issues; opening an issue writes notification intents
in the same transaction; workers deliver the intents, run retention and probe
uptime monitors. There is no queue and no cache: every hand-over is a row.

| Component | State | Operations | Correct when |
| --- | --- | --- | --- |
| event and log ingest (`internal/app/ingest`, `internal/app/logs`, `internal/adapters/postgres/{store,quota,logs}.go`) | `events`, `log_records`, `issues`, `issue_fingerprints`, `project_hourly_stats`, `projects.next_issue_short_id` | one transaction per request: exists, quota, insert, hourly counter, find or create the issue, enqueue alerts | an event is stored once, an issue per fingerprint, counts exact, receipts true, limits respected, no deadlock |
| notification outbox (`internal/adapters/postgres/notifications.go`, `internal/app/notifications`) | `notification_intents`, the `*_destinations`, `alert_rules`, `alert_rule_actions` | add a destination, create and switch a rule, enqueue, claim, send, mark; eight providers | one worker per intent, nothing acknowledged is sent again, retries spaced, everything settled in the end |
| worker loop (`internal/runtime/worker`, `internal/runtime/commands`) | the task list, in memory | every tick: the provider tasks, retention, uptime, in order; the first error ends the process | a process that ends, or waits for a provider for ever, keeps no work from another process but what it had claimed |
| uptime monitors (`internal/app/uptime`, `internal/adapters/postgres/uptime.go`) | `uptime_monitors`, `uptime_monitor_checks`, `uptime_monitor_incidents` | claim due monitors with a lease, probe, record; heartbeat check-in; overdue heartbeats | one open incident while down, results in order, no monitor lost |
| retention (`internal/app/retention`, `internal/adapters/postgres/retention.go`) | deletes from most tables | per policy, a fixed order of deletes with a batch limit | nothing fresh is deleted, no dangling issue |
| HTTP intake (`internal/adapters/http/sentry.go`, `internal/adapters/sentryprotocol`) | none of its own | authorize, rate limit, read, ingest, reports, answer | the status says what is stored, reading does not depend on the order of items, no scrubbed address is kept |
| rate limits (`internal/app/ratelimit`, `internal/adapters/postgres/rate_limit.go`) | `project_key_rate_limit_buckets`, a row per key and window | one upsert per request | no more than the limit per window |
| user reports (`internal/app/userreports`) | `user_reports` | an upsert per report, after the event | a report is not lost behind a 200 |
| minidumps (`internal/app/minidumps`) | a file in the vault, inside the transaction of its event | upload, commit, remove on failure | the file is the one of the stored event |
| artifact vault and upload (`internal/adapters/filesystem/vault.go`, `internal/adapters/http/artifact_upload.go`) | a directory | chunks, assembly of bundles and debug files, direct uploads | only verified files are stored, 'created' is true |
| source maps, debug files, symbolication (`internal/app/sourcemaps`, `internal/app/debugfiles`) | none | parse and look up; enrich an event | a frame shows what the writer of the map meant |
| importer (`internal/app/importer`, `internal/adapters/postgres/importer.go`) | `import_runs`, `import_records` | start a run, one transaction per line, finish | ledger, events and counts agree, across concurrent and killed commands |
| setup, logins, sessions, OAuth, tokens (`internal/adapters/http/{auth,oauth,session,tokens}.go`, `internal/adapters/postgres/{bootstrap,oauth,tokens,audit}.go`, `internal/app/{operators,oauth,tokens}`) | `operators`, `operator_sessions`, `oauth_login_states`, `operator_external_identities`, `api_tokens`, `audit_events`, `project_keys` | bootstrap, login, callback, create and revoke a token | setups agree, a login state grants one session, an account keeps its operator, the audit log is exact |
| issue status, assignment, comments | `issues`, comments, transitions, audit rows | short transactions on one issue | status and audit agree |
| migrations, settings, status pages, members | administrative rows | mostly one statement each | - |
| templates, read models, search | none | functions of the rows | outside a state model |

How they meet: an HTTP handler of the intake calls the rate limit, the parser,
ingest and the reports one after the other, each a transaction of its own; ingest
is the only producer of issue-opened intents (same transaction as the issue,
`store.go` `Run`); the outbox is the only consumer; quota reads the counters that
ingest, logs and imports write; an import runs the program of ingest; an event of
ingest has its frames resolved from the vault that the artifact handlers fill;
retention deletes what ingest writes; uptime and retention share the worker loop,
and its fate, with the provider tasks; every page and every token belongs to what
setup and login have made.

What is hard in this code:

- **READ COMMITTED races.** `Exists`, `CheckQuota` and `findIssueByFingerprint`
  read without a lock what a later statement relies on. The transaction has to
  survive losing each of these races: by `on conflict do nothing`, by deleting
  the issue it just inserted, by over-admission that must at least be bounded.
- **Lock order.** An ingest holds up to four locks (event key, hour bucket,
  project, fingerprint or issue) to its end, with an upload in the middle.
- **Claim, send, mark** are three steps with the network in between: crashes,
  lost responses and failing marks happen at each boundary, in each of eight
  copies of the code.
- **Unconfirmed commits.** The client sees an error and repeats the request.
- **Several transactions per request.** A handler that fails, or whose client
  leaves, has done some of its statements; its status must still be true.
- **Files beside rows.** The vault has no lock and no transaction: a file is
  renamed into place and removed by name while other handlers use the same name.
- **Commands beside servers.** An import meets the live ingest and other imports.
- **Time.** Back-off counted from the start of a batch, leases that expire
  while their holder works, results that arrive after a newer one.
- **One loop for everything**, and an outbound HTTP client without a timeout.

`PROJECT.json` lists these hazards at their lines with the properties that
cover them.

## 2. Modules

| Module | What it is |
| --- | --- |
| `Ingest` | the ingest transactions, one action per SQL statement |
| `IngestContract` | the abstract promise of ingest: one atomic step per request |
| `IngestProofs` | theorems about `Ingest` |
| `Outbox` | intents, settings, workers, one action per claim, send and mark of every provider |
| `IntentLifecycle` | the abstract promise of the outbox about one notification |
| `OutboxProofs` | theorems about `Outbox` |
| `Uptime` | monitors, probes, check-ins and timeouts; recording is a transaction of two steps |
| `UptimeProofs` | theorems about `Uptime` |
| `Retention` | the purge of expired rows, statement by statement, against ingest, imports, comments and other purges |
| `RetentionProofs` | theorems about `Retention` |
| `SentryProtocol` | what envelopes, payloads, logs, reports and minidumps are read as: pure operators |
| `Gateway` | the handlers of the intake, from arrival to answer |
| `GatewayProofs` | theorems about `Gateway` |
| `Symbolication` | source maps, Breakpad symbols and their lookup: pure operators |
| `Artifacts` | the vault, the handlers that fill it, and the enrichment that reads it |
| `ArtifactsProofs` | theorems about `Artifacts` |
| `Importer` | the import command, beside others and the live ingest |
| `ImporterProofs` | theorems about `Importer` |
| `Access` | setup, logins, sessions, permissions and tokens |
| `AccessProofs` | theorems about `Access` |
| `MC*` | instances for TLC: `MCIngest`, `MCOutbox`, `MCUptime`, `MCRetention`, `MCGateway`, `MCArtifacts`, `MCImporter`, `MCAccess` |

How they compose: `Gateway` extends `SentryProtocol` and takes ingest as the one
step that `IngestContract` promises, and `Ingest` is shown to implement that contract,
so the two together cover a request from its bytes to its rows. `Importer` runs the
same program of ingest inside its own transaction, and only keeps of its locks the
one on the event, the one that an import and a live request contend for.
`Artifacts` extends `Symbolication`.

### Ingest

A request `r` is one call of `IngestCanonicalEvent` or of the log ingest. `pc[r]`
names its next statement; the actions carry the names of the Go methods
(`Exists`, `CheckQuota`, `AppendEvent` for `Append`, `upsertProjectHourlyStats`,
`findIssueByFingerprint`, `updateIssue`, `nextIssueShortID`, `createIssue`,
`EnqueueIssueOpened`, `CheckLogQuota`, `AppendLogRecords`).

*READ COMMITTED* is modelled by what it does. A statement reads the committed
rows at the moment it runs; a write first takes the lock of its row, or of the
unique key it inserts (`held[r]`), and is disabled while another transaction
holds it, as PostgreSQL blocks it. Because a written row stays locked to the end,
no other transaction can change it, so the writes are applied to the committed
rows by `Commit` (`Apply`), and what was written is recognised from the locks.
A transaction that reads its own uncommitted row would be the exception; the
code does so only in `createIssue`, which has the identifier in hand.
`Abort` rolls back at any statement (a failed statement, a failed upload, the end
of the process); `CommitUnconfirmed` is the commit that took effect although
`Run` returned an error. The retry of a client is a further request with the
same input.

Abstractions: a fingerprint is a value, its computation a pure function of the
event; an issue is identified by the request that created it; a plain event
stands for the kinds that create no issue (transactions, and feedback and
security reports that do not group); tags, user and environment rows written by
`Append` are not told apart from the event, because they have the event's key
and are written under its lock.

### Outbox

The database part is the columns of `notification_intents`, a row per pair of
destination and issue (the dedupe key), with the destinations and rules that
decide which rows are inserted. A worker is `pc`, the position in its task list
and what its running batch command holds in memory. `Claim` is the single SQL
statement with `FOR UPDATE SKIP LOCKED`: the oldest due rows up to `Limit`, set
to `delivering`, `attempts` incremented. `Resolve` is a send: nothing sent,
sent and refused or unanswered, sent and acknowledged. `MarkDelivered` and
`MarkFailed` are the closing updates, `MarkFails` an update that failed (its
error only changes a receipt nobody reads). `ScanFails` is a claim whose rows
were updated but did not scan. `Exit` empties the memory of a process that was
killed, cancelled, or whose task failed.

The eight providers are eight copies of the code with the same control flow. Each
copy keeps its own actions (`ClaimWebhookDeliveries`, `MarkZulipFailed`, ...),
mapped to its own lines, so that a difference introduced in one copy has a place
in the model; they share the operators that say what a copy does.

Two pieces of ghost state describe the world: `accepted` and `acked` count the
messages a provider took and admitted to have taken, `claimedAt` the time of the
last claim. No guard reads them.

### Uptime

A row of `uptime_monitors` is `state`, `nextCheck`, `lease`, `lastChecked` and
`lastCheckIn`; `incident` is the `opened_at` of the open row of
`uptime_monitor_incidents`, which the partial unique index allows once per
monitor. A worker is `pc`, the time `at` its run started with, the `batch` of
claimed monitors in its memory, and the `target`, `result` and `seen` state of
the record it is working on. A check-in request has the same except the batch.

| Action | Code |
| --- | --- |
| `createHTTPMonitor`, `createHeartbeatMonitor` | the inserts, with their first `next_check_at` |
| `StartRun` | one tick of the loop: the time taken here is the time of every claim and record of the run |
| `ClaimDueHTTPMonitors`, `ClaimOverdueHeartbeatMonitors` | the claim statements: due, not leased, not locked (`SKIP LOCKED`), oldest first, up to `Limit`; the lease is `at + Lease` |
| `checkHTTPMonitor` | the probe, up or down |
| `heartbeatTimeoutObservation` | the observation "down" of an overdue heartbeat |
| `lockHTTPMonitor`, `lockOverdueMonitor`, `lockHeartbeatMonitorStateByEndpoint` | `SELECT ... FOR UPDATE`: waits for the row, remembers its state in `seen` |
| `RecordHTTPMonitorCheck`, `RecordHeartbeatTimeout`, `RecordHeartbeatCheckIn` | the check, the row, the incident and the commit |
| `Stop`, `ClaimLost`, `RecordUnconfirmed`, `CheckInFails`, `Restart` | the end of a process at any statement, a claim or a commit that took effect unnoticed |

A record is two steps, because the incident is decided from the state the first
statement read (`IncidentAfter`), and its correctness is that of the row lock in
between. The history rows of `uptime_monitor_checks` are represented by the last
of them.

Time is counted in minutes, the least interval of a monitor, and is common to
all processes. Ghosts: `late` collects the monitors that some worker still held
when the lease it took had ended, `crossed` the heartbeats that checked in while
a worker held them as overdue. The properties name them as their exceptions:
`ExclusiveProbe` and `ResultsInOrder` cannot hold for a worker slower than its
lease, since a record does not look at the lease again; `TimeoutsJustified` does
not hold for a check-in between claim and record, since
`recordHeartbeatTimeoutInTx` locks the row but does not look at
`last_check_in_at` again. The second exception is a finding, see run
`uptime_rule`.

### Retention

One project with its rows: `event`, `issue`, `named` (the issue a fingerprint
names), `intents`, `notes` (issues with comments or status transitions) and
`imports` (issues named by an import record). A worker `w` purging is `pc[w]`, the
time `at[w]` its cutoffs are computed from, the rows its current delete has
`chosen`, and what it has deleted and not committed (`unsent`, `unnoted`,
`unnamed`, `dead`, `erased`). A request is a condensed `Ingest` with the steps a
purge can come between: find the fingerprint, lock and update the issue or insert
it, commit.

| Action | Code |
| --- | --- |
| `RetentionTask` | `RunOnce`: the time of the tick |
| `deleteExpiredDeliveries` | the oldest expired intents, up to a batch |
| `ChooseDoomed`, then `deleteIssueNotes`, `deleteIssueFingerprints`, `deleteExpiredIssues` | the `with doomed as` of each statement, then its delete |
| `deleteExpiredEvents` | the oldest expired events that are no issue's last |
| `FailPurge` | a foreign key is violated: rollback, the task fails |
| `PurgeExpiredProjectData` | the commit |
| `StopPurge` | the process ends, a statement fails for another reason |
| `findIssueByFingerprint`, `updateIssue`, `createIssue`, `findExistingIssue`, `Commit`, `Abort` | ingest of an event, or of an import record |
| `lockIssueForComment`, `AddIssueComment`, `AddCommentFails` | a comment, or a status transition, which takes the same lock |

Choosing and deleting are two steps because the delete may wait between them: for
a row another transaction has locked. When the wait ends PostgreSQL evaluates the
condition of the delete on the new version of the row, but that condition is only
`i.id = doomed.id`; `last_seen_at` was compared when the row was chosen and is
not compared again. Rows deleted by a purge in flight are visible to others and locked
(`RowFree`, `KeyFree`, `Settled`), and gone with its commit. The foreign keys that
refuse a delete are `Unreferenced` (intents, comments and transitions,
fingerprints, import records) and `EventUnreferenced` (the last event of an issue,
the event of an intent); those that cascade or set null (tags, transactions, user
reports) never refuse one. The clock counts days.

Issues last seen at the same moment are ordered by `Rank`: SQL leaves their order
open, and the statements of one purge read them through the same index.

Ghosts: `disturbed` is the set of purges during which another transaction has
committed, `crossed` whether a transaction ever changed an issue that a purge had
chosen or whose fingerprint it had deleted. They are the exceptions of the
properties, and both are needed, because the code does the following:

- *The fingerprint goes, the issue stays.* A request that found the issue before the
  purge deleted its fingerprint updates the issue (only the issue's row is locked)
  before `deleteExpiredIssues` chooses. The issue is fresh and stays, its
  fingerprint is deleted with the purge. The next event of the group opens a
  second issue. `IssuesNamed` without `~crossed` has this counterexample.
- *The fresh issue goes.* The request commits its update while the delete of the
  due issues waits for the row. The delete goes on by the identifier and removes
  the issue that has just been seen; the event stays, without an issue, unless a
  foreign key saves it. `YoungEventsShown` without `~crossed` has this one.
- *The purge that never succeeds.* `import_records.issue_id` has no `on delete` rule and
  is never cleared. When an imported issue is among the due ones, the delete
  fails, the purge is rolled back and the worker process ends; the next tick
  meets the same issue (`StuckOnImport`). The same holds for an issue whose
  intents are too young, which is possible because `occurred_at` is the client's
  and intents are dated by the server, or more than a batch.

No document or comment of the repository promises otherwise, so these are stated
as the exceptions of proved properties and not as findings.

### Gateway and SentryProtocol

`SentryProtocol` says what the bytes of a request are read as: `ParseEnvelope` goes
through the items in order, `ParseEvent`, `ParseLog` and the readers of reports and
minidumps fill what they leave empty, refuse what they refuse, and compute title,
level, tags, addresses, frames, spans and fingerprint. JSON syntax and wording are left
out; a text is blank, malformed or one of a few values, because the properties tell
no more apart. `Gateway` is the handlers around it, one action per call:

| Action | Code |
| --- | --- |
| `Arrive` | the body limit, authorization and parsing (`Refusal`); a lookup of the key that fails is answered 403, like a key nobody has |
| `CheckRateLimit` | the upsert of the bucket of the time the request was received; rejected requests count as well, `Retry-After` is whole seconds and may be 0 |
| `IngestLogs`, `IngestEvent` | the ingest, one step each |
| `SubmitUserReport` | one upsert per report, after the event and outside of its transaction |
| `ReadMinidump`, `AppendEvent`, `UploadMinidump`, `CommitMinidump`, `RollbackMinidump`, `CleanupStoredMinidump` | the upload inside the transaction of the event, and the removal of the file when that fails |
| `WriteReceipt` | the answer |
| `Leave`, `Crash`, `Tick` | the client leaves (its context ends every further call), the process ends, time passes |

Each call has a failing form, and a commit may take effect although it is reported as
failed. The titles and levels that the code falls back to for an event without any text
(`<unknown error>`) cannot be reached, as an empty title is replaced before. Rate
limit policies are constants, because no code changes one after the bootstrap.

### Artifacts and Symbolication

The vault is a function from keys to bodies: a directory, where `PutArtifact` renames a
finished file into place, `readSingleArtifactChunk` and the lookups read whatever is there at
the moment, and nothing is locked. A handler is the record `h[r]`: the chunks to check,
the item in work, the files to put. A slot is used again when its handler is `Over`.

Abstractions: a body is a sequence of contents, and its SHA-1 is the body itself, so that
equal checksums are equal contents; the zip and multipart syntax around the files
is left out, what they hold is given by `BundleOf`, `SourceMapOf` and `DebugFileOf`.
Every service of the handler is configured. Checksums are lower case. A file over the
limit replaces the one before it and is deleted after (`DeleteLarge`), as in
`vault.go`. `ListDebugFiles` gives the files in any order.

`Symbolication` decodes base64 VLQ digit by digit, sorts and searches the mappings, and
finds the function of an instruction in Breakpad records, as the code does. `Meant`
(module `Artifacts`) is the reference it is compared with: it adds up all numbers
written before a segment and knows nothing of digits or of binary search.
Numbers over 63 bits, where Go's shift loses digits, are out of its range. A map whose
indexes of sources go below the first makes the lookup end in a panic, which
`net/http` turns into a broken connection; `MapsMeant` makes an exception of it.

`disturbed` is a ghost: another handler has written or deleted a key of this request.

### Importer

A command is `h[r]`: the lines it has parsed, the line `at` which it is, and the counts.
Its actions are `runImporterAdmin` (parse the whole file, open the run or exit),
`createImportRun`, per line `findImportRecordIdentity`, `prepareImportRecord`, `Exists`,
`CheckQuota`, `AppendEvent`, `ApplyLine`, `CommitLine`, and `finishImportRun` or
`markImportRunFailed`. A row of the ledger is named by source and external id, not by the
type of the record, as in its unique key; a failed row that is tried again keeps
the rest of what it was inserted with. A killed or failing command may leave its
run `running` for ever: no code looks at it again. What `RunAccounts` says after
such an end is of the next run: when it reports success every line of the file is settled.

`IngestLive` is the project's own traffic, `SetLimit` the operator who changes the quota by SQL.
There is one project. The locks of hours and issues are left to `Ingest`. An imported
issue is announced to nobody. Retention is not part of the module: a purge that deletes an
imported event leaves its row of the ledger `applied`, so `LedgerTrue` speaks of the time
before one. What the rows of the ledger keep a purge from deleting is in `Retention`.

### Access

`h[r]` is a handler in its stage, with what it has read: the operator of its session, the
account the provider told it of. `Idle` handlers take a further request; what
was answered is kept as long as a property asks for it.

| Operations | Actions |
| --- | --- |
| setup and bootstrap | `IsBootstrapped`, `upsertOrganization` (which locks the row of the organization, whose slug is always the default one, to the commit), `ensureProjectKey`, `Bootstrap`; a setup then logs in with what was typed: `Login`, `storeSession` |
| login, logout, pages | `Login`, `storeSession`, `DeleteSession`, `ResolveSession`, `requireOperatorSession` |
| provider | `oidcProviderFromRequest`, `StoreOIDCLoginState`, `ConsumeOIDCLoginState`, `exchangeOIDCToken`, `fetchOIDCUserInfo`, `activeOperatorIDForEmail`, `ensureExternalIdentityOwner`, `upsertExternalIdentity`, `LoginWithOIDCIdentity` |
| tokens | `CreateProjectToken`, `RevokeProjectToken`, `ResolveProjectToken` |
| outside | `UpsertOIDCProvider`, `Expire`, `Administer`, `Authorize`, `ChangeAccount` |

Random ids and secrets are numbered in the order they are made; last-use times are left
out. Two setups at once may make two owners, and a setup that fails after its bootstrap
has left an operator behind: the code allows both, `SetupTrue` says what remains
true.

### Slips

Some definitions are described as *slips* in their comment
(`ClaimableByLease`, `AbortKeepsIntents`, ...). They are not used by any
specification: each is a plausible mistake in the operator defined after it, and
`PROJECT.json` ("mutants") pairs it with the property that fails when it takes
that operator's place. They show that the property depends on the code.

## 3. Runs

| Run | Instance | Shows |
| --- | --- | --- |
| `ingest_race` | 3 requests, 1 project, 3 events, 2 groups, 2 hours, faults | one issue per fingerprint, exact counts, unique short ids, no wait cycle, implementation of `IngestContract` |
| `ingest_quota` | 3 requests on 2 connections, events and log batches of 2 projects, limits 3 and 2, faults, fair | exact hourly counters, overrun of a limit bounded by the other connections, every request is answered |
| `outbox_race` | 2 workers, 1 provider, 2 issues, batches of 2, settings changing, faults | exclusive claims, and implementation of `IntentLifecycle`: no resend after an acknowledgement, lost claims stay lost |
| `outbox_retry` | 2 workers, all 8 tasks, a destination of each provider in turn, 3 claims in 5 minutes, faults | attempts account for every accepted message, claims keep the distances of the back-off table |
| `outbox_live` | 2 fair workers, 2 providers that may never answer, 2 issues, batches of 2, a retry | a claim is settled unless its worker waits for ever; what nobody holds is claimed as long as one worker does not |
| `uptime_lease` | 2 workers, 1 check-in request, one monitor of either type, 1 fault, fair | an incident exactly while down, exclusive probes, no monitor lost |
| `uptime_rule` | 1 worker, 1 check-in request, no fault | violated: a timeout claimed before a check-in overrides it |
| `retention_purge` | 1 purging worker, batches of 1, 2 requests in 2 groups (each plain or imported, of any age), 1 destination, 1 operator, 1 fault, fair | issues keep their fingerprint and young events their issue unless crossed, failures are explained, imports block purges, everything else due is purged |
| `gateway_intake` | 2 requests of 5 kinds at a time, a rate limit of 1 in 2 seconds, 4 half seconds, faults; and every envelope of up to 3 items, one request at a time | what a status says is stored, a minidump's file is of its event, the limit holds, reading agrees with an order-free reading, no scrubbed address is kept |
| `artifacts_vault` | 2 handlers used again and again, 2 projects, a bundle of 2 chunks, 2 debug files, 6 maps, 2 events, faults | only verified files are stored, 'created' is true, an undisturbed assembly completes, frames show what was meant |
| `importer_apply` | 2 commands on files of 0 to 2 lines of 2 systems, a live event, a limit of 1 or none, faults, fair | the ledger agrees with the events, the counts with the ledger, every command ends |
| `access` | 2 handlers, 3 requests, 4 installations, 1 change from outside, faults | setups agree on one key, a login state grants one session, accounts keep their operator, the audit is exact |

Why the bounds are enough for what is asked:

- Three requests are the least with which a third can arrive between the loser
  and the winner of a race, and the least for a cycle of three locks. The inputs
  hold the same event twice in different hours, two events of one group, and the
  same event id with two groups: every pair of colliding keys occurs. Both
  connections of `ingest_quota` can be past the quota check at the limit.
- Two workers are enough for any race over a row (a claim takes part in one),
  two issues and `Limit = 2` give batches of which one row is handled and the
  other lost. `MaxTime = 2` lets a lease of one minute expire. `MaxAttempts = 2`
  gives the repeated claim.
- `uptime_lease` has one monitor at a time because nothing in the code relates two
  of them, except that a long batch lets the lease of its last monitor end; here
  `Tick` lets any lease end while it is held. `Lease = 2` and `MaxTime = 3` admit a
  lease that ends, a second claim after it and a record by the first worker. The
  HTTP monitor has interval 2, so that a lease can end before or after the next
  check is due; the heartbeat has interval and grace 1, so that it can be overdue,
  checked in and overdue again. One fault is enough for each hand-over that a crash
  can interrupt. The run checks safety and liveness together: its specification
  has no symmetry to lose.
- `retention_purge` has two requests: two issues compete for a batch of one, or one
  event opens an issue and the other refreshes it under the purge. With ages of one
  day `MaxTime = 2` makes the oldest rows, and only them, expire. The fingerprints
  are alike, so the first request's is fixed. Two purging workers are not in the
  run (they meet only in locks, and the instance takes six million states); the
  theorems cover any number.
- `outbox_retry` has one destination at a time, which is what the control flow of a
  copy can tell apart; three attempts reach the first two distances of the table,
  the rest and its clamped end are covered by the theorem `RetriesAreSpaced`.
- `outbox_live` asks what a provider that never answers holds up: two workers, one of
  which may be stuck, two providers, one of which has a batch of two, so that a row can
  stand behind the stuck one in its batch, be of the other provider, or arrive later.
  `MaxTime = 2` brings the first retry of a row back to the queue. The eight
  copies of the control flow are all in `outbox_retry`. Whether a provider took a message
  it did not acknowledge is left out (`NoAnswerLost`), being the question of `outbox_retry`.
- `gateway_intake` needs two requests for every race in it: two of one key around the last
  place of a bucket (requests come from the last second of one window, `MaxTime` being the
  start of the next), a minidump and its retry, an event with the id of a minidump. What is
  read does not depend on another request, so the grid of envelopes (16 kinds of items in
  any order, `MaxItems` and one more), a CSP report, sources that disagree,
  requests that are too large and a minidump that names no event are tried by one request
  that comes alone, and a failing lookup of the key, which leaves nothing but a 403, by
  one kind of request; this keeps the two questions from multiplying.
- `artifacts_vault` has handlers that start again, so two slots give any number of requests
  one after the other, any two at the same time: chunks that lie about their name,
  that are replaced or deleted between the check and the read, uploads under
  one key. The maps go back and forth in every number and are tried at every column
  (0 to 11) and line (1 to 4) around their segments.
- `importer_apply` has two files that share a line, share an event under two lines, refer
  to an issue by a later line, repeat one line, or hold one of ten kinds of bad lines. The
  limit of one is reached by the live event or by the first line.
- `access` has three requests on two handlers: two that meet and a third that finds what they
  left, for instance the start of a login and two callbacks. Longer stories start
  from one of the installations: empty, with operators, with a session, with two logins
  that were started. `MaxRows` is two sessions, two states and two tokens.

`MaxTime` bounds the clock (`Tick`), `MaxAttempts` the claims of one intent
(`Claimable`) and `MaxFaults` the crashes and failed statements of `Uptime`
(`Fault`) and the purges that end in the middle (`StopPurge`); they are bounds of the model, without a counterpart in the code.
`Req` is finite, so the events are. When all requests are done `AllDone`
stutters; the outbox and the monitors never stop, nor do the handlers of the vault.
Deadlock is checked in all these runs. `gateway_intake`, `importer_apply` and `access`
stop when their requests or commands are used up (`CHECK_DEADLOCK FALSE`); there
`EveryCommandEnds` shows that no command is stuck, the handlers of the gateway wait only
for an open minidump transaction, those of `Access` only for a bootstrap or a callback
about to commit.

The finding of `uptime_rule`: `web/templates/uptime.templ:150` says of heartbeat
monitors "check-ins mark up, overdue heartbeats mark down". A worker claims an
overdue heartbeat, the check-in arrives and is recorded (up, next check in an
interval and a grace), then the worker records the timeout: the monitor is down,
with an incident, although it has just checked in, until the next check-in. The
row lock orders the two records but the second does not depend on what the first
wrote. `TimeoutsJustified` shows that this is the only way to an unjustified
timeout. A consequence of the same kind, seen in the model and not stated as a
property: a record by a run that started earlier can close an incident with a
`closed_at` before its `opened_at`.

## 4. Fairness and outside assumptions

- `Ingest` `FairSpec`: weak fairness of `Begin(r)` and `Statement(r)`. A goroutine
  that has a statement to run runs it; PostgreSQL grants a lock to its waiters in
  order, and the pool serves its waiters in order. Weak fairness of a lock that
  is released and taken again would not be enough for a waiter in general; each
  request ends after one transaction here, and the contenders are finitely many.
- `Outbox` `WorkerFairness`: the loop of a worker is scheduled, its statements
  return, a process that ended is restarted by its supervisor, time passes.
- Nothing is assumed of the providers. `newWorker` (`internal/runtime/commands/commands.go`)
  hands `http.DefaultClient`, which has no timeout, to the senders, so an endpoint that accepts
  a connection and never answers stops the worker loop, and with it that process's later
  tasks, retention and uptime among them. There is no fairness of a send, and
  `SilenceContained` says what holds all the same: the stuck worker keeps the rows of its
  batch, and every other row that is due is claimed as long as one worker comes back from
  its sends. That this is so rests on `SKIP LOCKED` in a statement of its own: with the
  claim in a transaction open during the sends (`ClaimWaitsForLocks`) it fails.
- `Uptime` `Fairness`: weak fairness of a worker's steps and of `Restart`, strong
  fairness of the steps that take a row lock, because PostgreSQL grants a lock to
  its waiters in order, and weak fairness of time. A probe ends: unlike a send, it
  has a time limit (`context.WithTimeout`, `internal/adapters/httpprobe/probe.go:42`).
  Faults are
  allowed and finitely many (`MaxFaults`), and `NoMonitorLost` holds with them.
- `Retention` `Fairness`: weak fairness of the statements of a request once it has
  begun, of the insert of a comment, of each purging worker and of time: statements
  return, and the loop is scheduled and restarted. Locks need no more, because
  requests and operators are finitely many and end. `StopPurge` is allowed
  `MaxFaults` times.
- `Importer` `FairSpec`: weak fairness of each command's `Statement`: a command that was
  started is scheduled, and a lock it waits for is granted when it is released. A command
  holds a line and an event, in this order, for one transaction, and the commands are finitely many.
- `Gateway`, `Artifacts` and `Access` state no fairness and no liveness: their handlers
  are bounded sequences of calls, and what may keep them waiting is in the other modules.
- Liveness of `Ingest`, `Uptime`, `Retention` and `Importer` is checked with faults, that
  of `Outbox` without. With them a claim need not be settled even when every provider
  answers, and the code does not claim it: `StrandedForever` states that a claimed row whose worker ended
  is never taken up again. `locked_until` is written as a lease of 60 seconds, but
  the claims consider only `pending` and `failed` rows.

## 5. Proofs

The theorems hold for every value of the constants that satisfies
`IngestAssumption`, `OutboxAssumption`, `UptimeAssumption`, `RetentionAssumption`,
`AccessAssumption`, `EmailAssumption`, `GatewayAssumption`,
`ImporterAssumption`, `RowAssumption`, `LineAssumption`, `ArtifactsAssumption`,
`FrameAssumption`, `StatusAssumption`, the `KindAssumption` of `Access` and of `Artifacts` and
the `BodyAssumption` of `Gateway` and of `Artifacts`: any number of requests, projects, events, groups and hours (finite sets), any inputs, limits and pool size; any
workers, destinations and issues, any task list in the order of `newWorker`, any
batch size; any monitors, intervals, graces and lease; any handlers, installations, emails and
accounts; any rate limit policies and bodies; any commands and files; any bounds of the model.

The assumptions say what the constants are; TLC evaluates them in every run. These say more
than a type:

- `IngestAssumption`: the inputs have a largest count. An event counts 1 and a log batch its
  records, which the parser bounds (`MaxLogRecordsPerItem` of `sentryprotocol/logs.go` for each
  of at most `MaxItems` items).
- `BodyAssumption` (`Gateway`): what a client can send, before it is read: the kinds of
  bodies, items in a list, ids from `GivenID` (what `NewEventID` accepts, nothing, or a text it
  refuses). What reading makes of it is proved (`BodyRead`).
- `LineAssumption` (`Importer`): what the lines of a file may say (`jsonRecord`), before they are
  read. That a file without an error comes to a list of records is proved (`LinesAreRecords`).
  It also says that `"imported-issue"` is a text, which the provers do not know of a literal.
- `BodyAssumption` (`Artifacts`): chunks are listed as texts, the debug files of a
  request differ in their checksums (they are the keys of a JSON object,
  `handleDebugFileAssembleCarrier`), and `"bad"`, the content that stands for bytes without
  such a hash, is in no file that can be read.
- `KindAssumption` (`Artifacts`): a request is of a route that the module models, or an event.
- `FrameAssumption` (`Artifacts`): an event lists frames and modules, and a debug file functions,
  with numbers for addresses and sizes; the frame of a script has a host, which a native one has
  not.

Sums over a set (`MapThenSumSet`) and readings of a list (`FoldLeft`) are not recursive
operators but functions defined by `CHOOSE` in the community modules, so the proofs open those
definitions. A statement about every subset of a finite set, or every prefix of a list, is proved
from a least counterexample (`LeastSet`, from the well-foundedness of the strict subset order in
`WellFoundedInduction` and `FiniteSetTheorems`), because the induction theorems of the library
take an operator as a parameter and cannot be instantiated. That the defining equation has
a solution (`SumExists`, `FoldExists`) and one only (`SumsAgree`, `FoldsAgree`) is proved the same way.

### Ingest (`IngestProofs`)

Proved: `TypeOK`, `OneIssuePerFingerprint`, `EveryEventCounted`,
`HourlyStatsExact`, `ShortIdsUnique`, `IssueAnnouncedOnce`, `ReceiptsTruthful`,
`NoWaitCycle`, `QuotaOverrunBounded`, and that `Spec` implements `IngestContract!Spec`.

The inductive invariant adds to the properties what a transaction in flight
knows:

- `Exclusive`: a lock has one holder.
- `Fits`: the locks held, the kind of the input, the memory and the answer fit
  the statement about to run. For instance only a request past `AppendEvent` holds
  an event lock, and at `enqueue` the fingerprint is held.
- `Stable`: what a request read under a lock it still holds is still so. The event
  whose key it holds is not stored, the fingerprint it holds names nothing, the
  short id it took is the counter's value. This is where the locks earn their
  keep: no other commit could have changed it.
- `Named`: fingerprints and issues name each other one to one.

From these, one commit preserves each property: it applies to rows that nobody
else could have changed since they were read. The counts need that a stored event
is in exactly one group, so a commit adds one to one cardinality
(`FiniteSetTheorems`). `NoWaitCycle` follows without induction on the cycle:
statements that wait are ranked by the kind of lock they wait for (event, hour,
project, fingerprint, issue), a holder of that kind waits only for a higher one,
and among the members of a set one waits for the highest. For the refinement, each
commit is shown to be one `Accept...` step of the contract, each other ending a
`ReportDuplicate` or `Refuse`, and everything else a stutter.

`QuotaOverrunBounded` has an invariant of its own. The check of a transaction does not see what
others have checked and not yet committed, so the limit alone is not inductive.
`QuotaInv` says that what is counted on a day *plus what the transactions past their check will
add* stays within the limit plus `(MaxConns - 1) * MaxCount`, in every scope (all projects
with `OrgLimit`, each project with `ProjectLimit`), and that the open transactions are at most
`MaxConns`. A commit moves a transaction's count from the second sum to the first (`CountedEnds`); a
check that passes finds room for itself beside what is counted (`RoomFound`), and the others,
of which there are at most `MaxConns - 1`, add at most `MaxCount` each (`SumFew`).

### Outbox (`OutboxProofs`)

Proved: `TypeOK`, `ExclusiveClaim`, `AttemptsCoverSends`, `NoResendAfterAck`,
`RetrySpacing`, `StrandedForever`, and that `Spec` implements
`IntentLifecycle!Spec`.

The inductive invariant: an idle worker holds nothing and a marking one holds its
current delivery (`IdleHoldsNothing`, `MarkingCurrent`); a held row is
`delivering` and held once (`Owned`); the outcome in memory agrees with what the
world saw (`MarksTrue`); and per intent `Settled`, `Paid` and `Timed`, which tie
`status`, `attempts` and `next_attempt_at` to `acked`, `accepted` and
`claimedAt`. `Timed` has to speak about the batch in flight as well: the mark will
write a time computed from `commandNow`, so the claim time of a held intent is
never after it.

### Uptime (`UptimeProofs`)

Proved: `TypeOK`, `IncidentMirrorsState`, `ExclusiveProbe`, `TimeoutsJustified`
and `ResultsInOrder`, each for any number of workers and monitors at once, which
the run does not have.

None of the properties is inductive; the invariant adds three arguments.

- *The lock.* `Locked`: what an actor has `seen` is the row's state as long as its
  transaction is open, and only one transaction is open per row. With it
  `IncidentAfter` decides from the current state and `IncidentMirrorsState` is
  preserved by a record.
- *The lease.* `Leased`: a monitor that is not `late` and in a batch has the lease
  its holder took, which is in the future, so no other claim finds it due. `Scheduled`
  places `nextCheck` an interval after the last record, and with it a claim, which
  needs `nextCheck` to be past, an interval after the last result. From these
  follow `ExclusiveProbe` and the order of results.
- *The check-in.* `Awaited`: as long as a heartbeat has not `crossed`, a check-in is
  followed by a claim only when interval and grace are over, and what a worker
  holds as overdue was so at its `at`. It gives `TimeoutsJustified`.

`Fits` ties memory to `pc`, `Past` says that no run started in the future, and
`Untouched` that a row that does not exist has not been checked. The proof of
a step goes action by action, with the actions that change no row (`Quiet`)
treated once.

### Retention (`RetentionProofs`)

Proved: `TypeOK`, `IssuesNamed`, `YoungEventsShown`, `FailuresExplained` and
`StuckOnImport`, for any number of requests, purging workers and operators, any
batch size and ages, with faults.

- *Memory and locks.* `Fits`, `Resolved`, `Locked`, `Deleted`: what a request is about to
  write to exists and is written by nobody else; no two purges delete the same row;
  an issue is deleted only together with its fingerprint.
- *The batch cannot part.* The statements of a purge choose their issues separately, so
  the issues deleted might not be those whose fingerprints were. `Uncrossed` says that
  what was chosen stays due; hence the later choice either contains the issues of
  the earlier one, or is a full batch. In the second case the foreign key forces the
  deleted issues to be among those whose fingerprints are gone, and these are at most
  a batch: the two sets are equal (`FS_Subset`). `IssuesNamed` follows.
- *Shown.* An event is not newer than the issue its fingerprint names, or it is older
  than the retention; only due issues are deleted.
- *At rest.* While nobody else commits, each statement chooses the same set
  (`SameDoomed`: the first `Batch` in a total order), so that what one statement has
  cleared is what the next one deletes. It gives `FailuresExplained` and
  `StuckOnImport`.

### Access (`AccessProofs`)

Proved: the types, `StatesUsedOnce`, `IdentityKept`, `AuditTrue` and `SetupTrue`, for any
number of handlers and requests, with faults and changes from outside.

`Typed` includes what a handler in a given stage has in memory, and the lemma `Flow` says
from which stages a handler gets to which. On it rest four invariants, each
preserved on its own:

- `StatesHeld`: the state of a session, and that of a callback past
  `ConsumeOIDCLoginState`, is consumed and held by nothing else. The consuming update takes
  a state that is open, so it cannot be one that is held already.
- `LinksHeld`: of the handlers about to commit a link no two have the account or the
  operator in common, because the insert before holds both unique keys; and the operator
  has no other account, unless the row of the account was there before, which is kept.
- `AuditHeld`: the counts of audit rows per token, for every number and not only the
  tokens of the bound, and names that differ among the tokens not revoked.
- `SetupHeld`: one bootstrap at a time is past the upsert of the organization (`Inside`);
  rows that exist agree (`RowsAgree`), and a setup that is through `Agrees` with them.
  It needs that the emails of an installation are not empty (`AccessAssumption`), since
  what was typed and what is stored are compared after trimming and defaulting, and unique
  (`EmailAssumption`; the column is `unique`).

### Gateway (`GatewayProofs`)

Proved: the types, `FileOfItsEvent`, `FileLossExplained`, `RateLimitHeld`, `AnswersTrue`,
`EnvelopeRead` and `AddressesScrubbed`, for any number of requests at any time, with failing calls,
unconfirmed commits, clients that leave and the end of the process, and for any bodies.

`Typed` has the stage of a request (`Stage`): what its body is, what it has uploaded, holds
locked and has answered at each call. On it rest three invariants of their own:

- `FilesKept`: one request at a time is inside the transaction of a minidump event, and the event
  is not stored before it commits; from its upload on, the file of its event is its own,
  unless it is gone and a request that failed after its upload explains that. The invariant
  has to speak of removed files although `FileOfItsEvent` does not: the clean-up of a request whose
  commit did take effect removes the file of a stored event.
- `Counted`: the requests that a window has let through are no more than the count of its row, and no
  more than the limit. The row counts rejected requests too, so the two bounds are separate.
- `AnswersHeld`: what a request has stored in each stage: nothing up to its ingest (`Empty`), then
  its event and the reports it has submitted so far (`Ongoing`), all of it at a 200 (`Whole`). The
  lemma behind every step is that rows only grow, and only by the request that takes the step
  (`Grows`).

`EnvelopeRead` is about the loop of `ParseEnvelope` over the items of an envelope, of any
number. `ReadInOrder` says that the fold is that loop: a state per prefix, each made from the one
before by `applyItem`. `StateAt` relates the state after `k` items to the first `k` items:
whether it still reads, whether it has an event and which, its logs, the number of its reports.
`ItemStep` is one item, `StateStep` carries `StateAt` over it, `UpTo` is the induction, and `EnvelopeIs` the
end of the loop. The same facts give `RequestParsed` and `BodyRead`: a request which is not refused
names ids of clients and has logs alone, on which the invariants above rest. `EventsKept`
ties a stored event to the request whose body it was read from; with it `AddressesScrubbed` comes
down to the tags that `CanonicalEvent` gives the event of its body.

### Importer (`ImporterProofs`)

Proved: the types, `LedgerTrue` and `RunAccounts`, for any number of commands, files and live
events, with failures, unconfirmed commits and kills.

- `LedgerHeld` adds to `LedgerTrue` that a line is locked by one command, which knows
  whether the ledger has its row (`LinesHeld`), and that a receipt in memory is true of the
  events: of those who hold "applied" for one event there is one, and the event is
  not stored yet; who holds "duplicate" has seen another's event (`ReceiptsHeld`).
- `RunsHeld`: a command's counts are the cardinalities of the rows it owns (`Tally`),
  except that rows that failed may have been taken over by another run; they add up to the lines it has come
  past, each of which is settled unless one has failed; a settled row stays
  settled (`SettledRows`). A commit moves one row from its owner's failed rows to the rows of the
  command (`TallyCommit`, by `FiniteSetTheorems`).

### Artifacts (`ArtifactsProofs`)

Proved: `AssembledVerified`, `CreatedTrue`, `FramesExplained` (of maps that are decoded as they
were meant) and the action property `AssembleCompletes`, for any handlers, bodies, chunks,
frames and limits, with failing calls and kills.

One inductive invariant (`IInv`) serves them all. Each handler is `Sane`, a relation of its memory
and the vault: what it has in hand is of its request (`InHand`); the files it has put are still there
(`Settled`); the chunks it has found are there, and what it has read of them
followed by what is left is the assembly, unless a chunk is not what its name says (`Gathered`). The last two hold
as long as nobody has written or deleted a key of the request. As `Sane` is about one
handler, a step of another is one lemma (`NotSeen`, `Seen`), and each action is about its
own handler. `Honest` is `AssembledVerified`.

The attempt to prove `AssembleCompletes` as it was stated first failed, for a reason: a chunk over
the limit is in the vault between its `PutArtifact` and its `DeleteLarge`, so it can be
found there by an assembly that then refuses to read it. The run has no such chunk in an assembly. `Sound` now
says that the chunks are within the limit.

For `FramesExplained`, `FInv` says that what an event has shown so far is explained by
its request and the bodies of the offered files (`Explaining`), and that no other request shows any
(`NothingShown`). It does not look at the vault, so no write or delete of another handler disturbs it. A
frame that is shown now needs `Honest`: the file that was just read is one that was offered under the
key of the frame. For a native frame the lemma `FoundIs` says that the function found is one of the file
and spans the offset, and `OffsetIs` that the offset is counted from a module of the frame's
image: the first of a list that a loop returns (`FirstIs`) is in the list.

`ArtifactsFrames` has `MapsMeant` as a hypothesis: every map shows at every place what its writer meant.
No variable occurs in it, it is a fact of the digits of the maps, and the run checks it of its maps. What
the theorem adds is everything that depends on steps: which file is read for which frame of which
request, while files come and go.

The attempt showed that `FramesExplained` said too much: of a frame whose image the event does not
list, the code looks the instruction up as it is, as if the image were at the bottom
(`nativeInstructionOffset`). No frame of the run was of that kind. `BasesOf` now says so, and the run has
such an event.

### Proved and not run

`NoResendAfterAck`, `StrandedForever`, `IssueAnnouncedOnce`, `ReceiptsTruthful`,
`TimeoutsJustified`, `ResultsInOrder` and the type invariants of `Uptime`, `Retention`,
`Access`, `Gateway` and `Importer` are theorems and no property of a run: the first two are part of what
`ImplementsLifecycle` checks, the next two of `ImplementsContract`.

### Only model-checked

- Liveness (`EveryRequestAnswered`, `SilenceContained`, `NoMonitorLost`, `DueIssuesPurged`,
  `EveryCommandEnds`), which the prover does not reach.
- `MapsMeant`, the part of `FramesExplained` that says how maps are decoded: it follows a number through
  nested folds over the digits, segments and lines of a source map, with segments sorted by
  `SelectSeq`, which tlapm does not expand, and the reference sums over pairs. It
  holds or fails by the data alone, and the run tries it at every place of its maps.

## 6. What is not modelled

- Formatting, JSON, zip and multipart syntax, hashes and signatures: each is the
  value it stands for.
- The content of a message and how a sender builds it: a send is its outcome. The
  address checks of the senders, which keep no state.
- Lock waits of the claim statements: `SKIP LOCKED` never waits, and the marks
  touch rows that only one worker holds.
- Statement timeouts and broken connections as such: they are the `Abort`,
  `CommitUnconfirmed`, `MarkFails` and `Stop` that they cause.
- Status pages, and the history of checks and incidents of a monitor beyond the
  last check and the open incident.
- Clocks that disagree: the times of the outbox and of the monitors are the
  processes' own, and the models give them one clock.
- Log records, payloads, user reports and hourly counters in a purge: no row refers
  to them, so their deletes neither fail nor leave anything behind. Policies that
  change between two purges, and the order of the projects of one tick.
- Which status an issue may take after which, and assignment: single statements on one
  locked row with an audit row. The lock and the row are in `Retention`.
- Migrations: no step of another component depends on one that is half done. Two
  processes that migrate at once are a hazard of their own (`PROJECT.json`).
- Status pages, the pages of settings, members and reports, search, and the templates:
  functions of the rows, or an insert of one row.
- The import check, a checker of package boundaries that runs when the code is built.
- Values at the edge of an integer in a source map, checksums in upper case.

## 7. Plan

What is left, in this order:

1. Issue status, assignment and comments with their audit rows.
2. Migrations by two processes at once.
3. Status pages.

The runs stay a dozen: one per question.
