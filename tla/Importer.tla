------------------------------ MODULE Importer --------------------------------
(***************************************************************************)
(* The import of issues and events of another system from a file of lines: *)
(* a command reads the whole file, opens a run, and gives each line a      *)
(* transaction of its own, which looks up the line in the ledger, ingests  *)
(* its event and settles the line.  Commands may run at the same time, on  *)
(* the same file or on others, beside the live ingest of the project; any  *)
(* statement may fail, a commit may go unconfirmed, and a command may be   *)
(* killed and started again.                                               *)
(*                                                                         *)
(* Ingest is the program of module Ingest, without the locks of hours and  *)
(* issues: the event's key is locked from the append to the commit.  An    *)
(* imported issue is announced to nobody.                                  *)
(***************************************************************************)
EXTENDS Integers, Sequences, FiniteSets

CONSTANTS
  Run,      \* invocations of the command; also the ids of the runs they open
  Command,  \* what an invocation may be asked for
  EventID,
  Live,     \* events that the project may receive: the id, group and day of each
  Limit,    \* daily limits of events the operator may set, NoLimit for none
  NoLimit,
  Faults,   \* whether calls fail and processes end
  NULL

ASSUME ImporterAssumption ==
  /\ Limit \subseteq Nat \cup {NoLimit} /\ NoLimit \notin Nat /\ NoLimit \in Limit
  /\ Live \subseteq [id : EventID, group : Seq(STRING), day : Nat]
  /\ IsFiniteSet(EventID) /\ Faults \in BOOLEAN
  /\ NULL \notin Run /\ NULL \notin Command /\ NULL # 0

VARIABLES
  events,   \* committed events: group, day and origin, NULL when not stored
  limit,    \* the daily limit of the project
  ledger,   \* import_records, by source and external id
  runs,     \* import_runs
  audit,    \* the status of the runs that are audited as completed
  h         \* the commands

dbVars == <<events, limit, ledger, runs, audit>>
vars   == <<dbVars, h>>

PC == {"idle", "create", "find", "prepare", "exists", "quota", "append", "commit",
       "failed", "finish", "done"}

Counts == [applied : Nat, duplicate : Nat, skipped : Nat, failed : Nat]
NoRows == [applied |-> 0, duplicate |-> 0, skipped |-> 0, failed |-> 0]

(* Rows of events and of runs; a line is known by its source and its id.   *)
Ident    == STRING \X STRING
EventRow == [group : Seq(STRING), day : Nat, from : Ident \cup {<<>>}]
RunRow ==
  [status : {"running", "failed", "completed", "completed_with_errors"},
   total : Nat, counts : Counts]

ASSUME RowAssumption == NULL \notin EventRow /\ NULL \notin RunRow

(* A command that was not started; exit is its exit code, -1 when killed.  *)
Idle ==
  [pc      |-> "idle",
   cmd     |-> NULL,
   records |-> <<>>,     \* the lines of the file
   at      |-> 1,        \* the line in hand
   locked  |-> FALSE,    \* its row of the ledger is locked, or inserted
   known   |-> FALSE,    \* its row was found
   receipt |-> "",       \* what ingest said of its event
   counts  |-> NoRows,
   exit    |-> NULL]

Init ==
  /\ events = [e \in EventID |-> NULL]
  /\ limit = NoLimit
  /\ ledger = <<>>
  /\ runs = [r \in Run |-> NULL]
  /\ audit = [r \in Run |-> NULL]
  /\ h = [r \in Run |-> Idle]

-----------------------------------------------------------------------------
(* Lines of a file.                                                        *)

(* The id of the event: the one of the line, or one made of the source and *)
(* the external id, the same whenever the line is read.                    *)
importEventID(source, raw) ==
  IF raw.type = "event" THEN raw.event ELSE <<"of", source, raw.ext>>

(* The issue a line belongs to: an issue's own id, or the one an event     *)
(* names; "" when the title decides.                                       *)
IssueOf(raw) == IF raw.issue = "" /\ raw.type = "issue" THEN raw.ext ELSE raw.issue

explicitFingerprint(source, raw) ==
  IF raw.fingerprint # <<>> THEN raw.fingerprint
  ELSE IF IssueOf(raw) # "" THEN <<"imported-issue", source, IssueOf(raw)>>
  ELSE <<raw.title>>

(* Lines that are refused: no record, a kind or an id that is unknown, an  *)
(* event that opens no issue, no time, no level, no title.                 *)
LineRead(raw) ==
  /\ raw.type \in {"issue", "event"}
  /\ raw.ext \notin {"", "bad"}
  /\ raw.type = "event" => raw.event # <<"bad">>
  /\ raw.kind \in {"error", "default"}
  /\ raw.occurred \in Nat /\ raw.received \in Nat \cup {NULL}
  /\ raw.level /\ raw.title # ""
  /\ raw.fingerprint = <<>> => IssueOf(raw) # "bad"

(* The day of the quota is the one of received_at, which is occurred_at    *)
(* when the line does not say.                                             *)
RecordOf(source, raw) ==
  [ident |-> <<source, raw.ext>>,
   kind  |-> raw.type,
   event |-> importEventID(source, raw),
   group |-> explicitFingerprint(source, raw),
   day   |-> IF raw.received = NULL THEN raw.occurred ELSE raw.received]

(* A line over 64 KiB ends the reading; other errors are collected.  The   *)
(* records of a file are used when it has no error: each is of one line.   *)
ParseJSONL(cmd) ==
  LET errors == \E i \in DOMAIN cmd.file : ~LineRead(cmd.file[i])
  IN  [ok      |-> \A i \in DOMAIN cmd.file : cmd.file[i].type # "long",
       errors  |-> errors,
       records |-> IF errors THEN <<>>
                   ELSE [i \in DOMAIN cmd.file |-> RecordOf(cmd.source, cmd.file[i])]]

(* What a line may say, <<"bad">> for an id that is none, and what it      *)
(* becomes.                                                                *)
jsonRecord ==
  [type : STRING, ext : STRING, event : EventID \cup {<<"bad">>}, issue : STRING,
   fingerprint : Seq(STRING), kind : STRING, occurred : Int, received : Int \cup {NULL},
   level : BOOLEAN, title : STRING]

Record ==
  [ident : Ident, kind : {"issue", "event"}, event : EventID, group : Seq(STRING), day : Nat]

(* A source and an external id make the id of an event.                    *)
ASSUME LineAssumption ==
  /\ "imported-issue" \in STRING  \* which the provers have to be told
  /\ \A cmd \in Command :
       /\ cmd.source \in STRING /\ cmd.file \in Seq(jsonRecord)
       /\ \A i \in DOMAIN cmd.file : cmd.file[i].type = "issue" =>
            <<"of", cmd.source, cmd.file[i].ext>> \in EventID

-----------------------------------------------------------------------------
Becomes(r, next) == h' = [h EXCEPT ![r] = next]

Exit(r, code) == Becomes(r, [h[r] EXCEPT !.pc = "done", !.exit = code])

Rec(r) == h[r].records[h[r].at]

Running(r) == h[r].pc \notin {"idle", "done"}

(* The command: what is not a project, a source, a file of good lines is   *)
(* refused before anything is written, and a dry run ends here.            *)
runImporterAdmin(r, cmd) ==
  /\ h[r].pc = "idle"
  /\ UNCHANGED dbVars
  /\ LET parsed == ParseJSONL(cmd)
         good   == cmd.manifest /\ parsed.ok /\ ~parsed.errors
     IN  IF good /\ cmd.mode = "apply" /\ parsed.records # <<>>
           THEN Becomes(r, [Idle EXCEPT !.pc = "create", !.cmd = cmd,
                                        !.records = parsed.records])
           ELSE Becomes(r, [Idle EXCEPT !.pc = "done", !.cmd = cmd,
                              !.exit = IF cmd.mode = "usage" THEN 2
                                       ELSE IF good /\ cmd.mode = "dry-run" THEN 0 ELSE 1])

NewRun(r) == [status |-> "running", total |-> Len(h[r].records), counts |-> NoRows]

createImportRun(r) ==
  /\ h[r].pc = "create"
  /\ runs' = [runs EXCEPT ![r] = NewRun(r)]
  /\ \/ Becomes(r, [h[r] EXCEPT !.pc = "find"])
     \/ Faults /\ Exit(r, 1)
  /\ UNCHANGED <<events, limit, ledger, audit>>

-----------------------------------------------------------------------------
(* One line.                                                               *)

LineLocked(r) == \E s \in Run \ {r} : h[s].locked /\ Rec(s).ident = Rec(r).ident

EventLocked(r) ==
  \E s \in Run \ {r} : h[s].receipt = "applied" /\ Rec(s).event = Rec(r).event

(* The transaction is over; the next line, or the end.                     *)
NextLine(r, status) ==
  LET s == [h[r] EXCEPT !.locked = FALSE, !.known = FALSE, !.receipt = "",
                        !.counts[status] = @ + 1]
  IN  Becomes(r, IF s.at = Len(s.records)
                   THEN [s EXCEPT !.pc = "finish"]
                   ELSE [s EXCEPT !.pc = "find", !.at = @ + 1])

(* Slip: the transaction is left open.                                     *)
LineErrorLeftOpen(r) == Becomes(r, [h[r] EXCEPT !.pc = "failed"])

(* The error of a line ends the command.                                   *)
LineError(r) ==
  Becomes(r, [h[r] EXCEPT !.pc = "failed", !.locked = FALSE, !.known = FALSE, !.receipt = ""])

(* Slip: only what was applied is left alone.                               *)
findImportRecordIdentityOfDuplicate(r) ==
  /\ h[r].pc = "find"
  /\ UNCHANGED dbVars
  /\ LET ident == Rec(r).ident
     IN  IF ident \notin DOMAIN ledger
           THEN Becomes(r, [h[r] EXCEPT !.pc = "prepare"])
           ELSE /\ ~LineLocked(r)
                /\ IF ledger[ident].status = "applied"
                     THEN NextLine(r, "skipped")
                     ELSE Becomes(r, [h[r] EXCEPT !.pc = "prepare", !.locked = TRUE,
                                                  !.known = TRUE])

(* The row is read and locked; one that is not there, or not committed     *)
(* yet, is not found.  A line that was settled is left alone.              *)
findImportRecordIdentity(r) ==
  /\ h[r].pc = "find"
  /\ UNCHANGED dbVars
  /\ LET ident == Rec(r).ident
     IN  IF ident \notin DOMAIN ledger
           THEN Becomes(r, [h[r] EXCEPT !.pc = "prepare"])
           ELSE /\ ~LineLocked(r)
                /\ IF ledger[ident].status # "failed"
                     THEN NextLine(r, "skipped")
                     ELSE Becomes(r, [h[r] EXCEPT !.pc = "prepare", !.locked = TRUE,
                                                  !.known = TRUE])

(* The row is taken over by this run, or inserted: that waits for another  *)
(* run's insert of the line, and fails when it has committed.              *)
prepareImportRecord(r) ==
  /\ h[r].pc = "prepare"
  /\ UNCHANGED dbVars
  /\ h[r].known \/ ~LineLocked(r)
  /\ IF ~h[r].known /\ Rec(r).ident \in DOMAIN ledger
       THEN LineError(r)
       ELSE Becomes(r, [h[r] EXCEPT !.pc = "exists", !.locked = TRUE])

Receipt(r, to, status) == Becomes(r, [h[r] EXCEPT !.pc = to, !.receipt = status])

Exists(r) ==
  /\ h[r].pc = "exists"
  /\ UNCHANGED dbVars
  /\ IF events[Rec(r).event] # NULL
       THEN Receipt(r, "commit", "duplicate")
       ELSE Receipt(r, "quota", "")

Used(day) == Cardinality({e \in EventID : events[e] # NULL /\ events[e].day = day})

QuotaAllows(day) == limit # NoLimit => Used(day) + 1 <= limit

CheckQuota(r) ==
  /\ h[r].pc = "quota"
  /\ UNCHANGED dbVars
  /\ IF QuotaAllows(Rec(r).day)
       THEN Receipt(r, "append", "")
       ELSE Receipt(r, "commit", "failed")

(* Slip: that nothing was inserted is not noticed.                         *)
AppendEventUnnoticed(r) ==
  /\ h[r].pc = "append"
  /\ UNCHANGED dbVars
  /\ ~EventLocked(r)
  /\ Receipt(r, "commit", "applied")

AppendEvent(r) ==
  /\ h[r].pc = "append"
  /\ UNCHANGED dbVars
  /\ ~EventLocked(r)
  /\ Receipt(r, "commit", IF events[Rec(r).event] # NULL THEN "duplicate" ELSE "applied")

(* What a row of the ledger says; a row that is taken over keeps its kind. *)
RowOf(r) ==
  [run    |-> r,
   kind   |-> IF h[r].known THEN ledger[Rec(r).ident].kind ELSE Rec(r).kind,
   status |-> h[r].receipt,
   event  |-> Rec(r).event]

EventOf(r) == [group |-> Rec(r).group, day |-> Rec(r).day, from |-> Rec(r).ident]

ApplyLine(r) ==
  /\ events' = [events EXCEPT ![Rec(r).event] =
                  IF h[r].receipt = "applied" THEN EventOf(r) ELSE @]
  /\ ledger' = [i \in DOMAIN ledger \cup {Rec(r).ident} |->
                  IF i = Rec(r).ident THEN RowOf(r) ELSE ledger[i]]

CommitLine(r) ==
  /\ h[r].pc = "commit"
  /\ ApplyLine(r)
  /\ NextLine(r, h[r].receipt)
  /\ UNCHANGED <<limit, runs, audit>>

CommitLineUnconfirmed(r) ==
  /\ Faults
  /\ h[r].pc = "commit"
  /\ ApplyLine(r)
  /\ LineError(r)
  /\ UNCHANGED <<limit, runs, audit>>

(* A statement of the line, or its commit, fails.                          *)
LineFails(r) ==
  /\ Faults
  /\ h[r].pc \in {"find", "prepare", "exists", "quota", "append", "commit"}
  /\ LineError(r)
  /\ UNCHANGED dbVars

(* The error of this call is dropped.                                      *)
markImportRunFailed(r) ==
  /\ h[r].pc = "failed"
  /\ \/ runs' = [runs EXCEPT ![r].status = "failed"]
     \/ Faults /\ UNCHANGED runs
  /\ Exit(r, 1)
  /\ UNCHANGED <<events, limit, ledger, audit>>

-----------------------------------------------------------------------------
importRunStatus(counts) == IF counts.failed > 0 THEN "completed_with_errors" ELSE "completed"

(* The run and its audit event, in one transaction.  When it fails the run *)
(* stays as it is: running.                                                *)
finishImportRun(r) ==
  /\ h[r].pc = "finish"
  /\ LET status == importRunStatus(h[r].counts)
     IN  /\ runs' = [runs EXCEPT ![r].status = status, ![r].counts = h[r].counts]
         /\ audit' = [audit EXCEPT ![r] = status]
  /\ \/ Exit(r, IF h[r].counts.failed > 0 THEN 1 ELSE 0)
     \/ Faults /\ Exit(r, 1)
  /\ UNCHANGED <<events, limit, ledger>>

(* The call that opens or closes the run fails.                            *)
RunFails(r) ==
  /\ Faults
  /\ h[r].pc \in {"create", "finish"}
  /\ Exit(r, 1)
  /\ UNCHANGED dbVars

(* The process is killed: what it had not committed is rolled back.        *)
Killed(r) ==
  /\ Faults
  /\ Running(r)
  /\ Becomes(r, [h[r] EXCEPT !.pc = "done", !.exit = -1, !.locked = FALSE, !.receipt = ""])
  /\ UNCHANGED dbVars

-----------------------------------------------------------------------------
(* The live ingest of an event: at once, as IngestContract has it.         *)
IngestLive(e) ==
  /\ events[e.id] = NULL
  /\ \A r \in Run : ~(h[r].receipt = "applied" /\ Rec(r).event = e.id)
  /\ QuotaAllows(e.day)
  /\ events' = [events EXCEPT ![e.id] = [group |-> e.group, day |-> e.day, from |-> <<>>]]
  /\ UNCHANGED <<limit, ledger, runs, audit, h>>

(* The quota policies are rows that no code changes after the bootstrap.   *)
SetLimit(l) ==
  /\ l # limit
  /\ limit' = l
  /\ UNCHANGED <<events, ledger, runs, audit, h>>

-----------------------------------------------------------------------------
Statement(r) ==
  \/ createImportRun(r) \/ findImportRecordIdentity(r) \/ prepareImportRecord(r)
  \/ Exists(r) \/ CheckQuota(r) \/ AppendEvent(r) \/ CommitLine(r) \/ markImportRunFailed(r)
  \/ finishImportRun(r)

Next ==
  \/ \E r \in Run :
       \/ \E cmd \in Command : runImporterAdmin(r, cmd)
       \/ Statement(r) \/ CommitLineUnconfirmed(r) \/ LineFails(r) \/ RunFails(r) \/ Killed(r)
  \/ \E e \in Live : IngestLive(e)
  \/ \E l \in Limit : SetLimit(l)

Spec == Init /\ [][Next]_vars

(* A command that was started is scheduled, and a lock it waits for is     *)
(* granted when it is released.                                            *)
FairSpec == Spec /\ \A r \in Run : WF_vars(Statement(r))

-----------------------------------------------------------------------------
(* Properties.                                                             *)

(* The ledger and the events agree, whatever ran at the same time, failed, *)
(* or was repeated (applyImportRecord): a line is said to be applied when  *)
(* its event is stored and came from that line, a duplicate when the event *)
(* is stored and came from elsewhere, and an event that came from a line   *)
(* is owned by that line's row.                                            *)
LedgerTrue ==
  /\ \A i \in DOMAIN ledger :
       LET e == events[ledger[i].event]
       IN  /\ ledger[i].status = "applied" => e # NULL /\ e.from = i
           /\ ledger[i].status = "duplicate" => e # NULL /\ e.from # i
  /\ \A e \in EventID : events[e] # NULL /\ events[e].from # <<>> =>
       /\ events[e].from \in DOMAIN ledger
       /\ ledger[events[e].from].status = "applied" /\ ledger[events[e].from].event = e

RowsOf(r, status) ==
  Cardinality({i \in DOMAIN ledger : ledger[i].run = r /\ ledger[i].status = status})

Settled(i) == i \in DOMAIN ledger /\ ledger[i].status \in {"applied", "duplicate"}

(* A run that is called completed was asked of a file without a bad line,  *)
(* went through all of it, and its counts are those of the ledger: another *)
(* run may take over the lines that failed, never those it settled.  It is *)
(* audited, with the same status, and nothing else is; and a command that  *)
(* says 0 after an import leaves no line of its file unsettled.            *)
RunAccounts ==
  \A r \in Run :
    /\ runs[r] # NULL => \A i \in DOMAIN h[r].cmd.file : LineRead(h[r].cmd.file[i])
    /\ runs[r] # NULL /\ runs[r].status \in {"completed", "completed_with_errors"} =>
         LET c == runs[r].counts
         IN  /\ c.applied + c.duplicate + c.skipped + c.failed = runs[r].total
             /\ c.applied = RowsOf(r, "applied") /\ c.duplicate = RowsOf(r, "duplicate")
             /\ c.failed >= RowsOf(r, "failed")
    /\ audit[r] = IF runs[r] # NULL /\ runs[r].status \notin {"running", "failed"}
                    THEN runs[r].status ELSE NULL
    /\ h[r].exit = 0 /\ h[r].cmd.mode = "apply" =>
         /\ runs[r].status = "completed"
         /\ \A i \in DOMAIN h[r].records : Settled(h[r].records[i].ident)

(* No run waits for ever for another's line or event: every command ends.  *)
EveryCommandEnds == \A r \in Run : Running(r) ~> h[r].pc = "done"
=============================================================================
