--------------------------- MODULE ImporterProofs ----------------------------
(***************************************************************************)
(* What module Importer keeps, for any commands, files, live events,       *)
(* limits and faults: its types and the stages of its commands, that the   *)
(* ledger tells the truth about the events (LedgerTrue), and that the      *)
(* counts of a run add up (RunAccounts).                                   *)
(*                                                                         *)
(* LedgerHeld relates the lines that are locked to the rows that are       *)
(* committed, and what ingest said of an event to the event; RunsHeld      *)
(* relates what a command has counted to the rows it owns.                 *)
(***************************************************************************)
EXTENDS Importer, TLAPS, FiniteSetTheorems, SequenceTheorems

(* Types.                                                                  *)

Settlement == {"applied", "duplicate", "failed"}
Finished   == {"completed", "completed_with_errors"}

LedgerRow == [run : Run, kind : {"issue", "event"}, status : Settlement, event : EventID]

Rows ==
  /\ events \in [EventID -> EventRow \cup {NULL}]
  /\ DOMAIN ledger \subseteq Ident /\ IsFiniteSet(DOMAIN ledger)
  /\ ledger \in [DOMAIN ledger -> LedgerRow]
  /\ runs \in [Run -> RunRow \cup {NULL}]
  /\ audit \in [Run -> Finished \cup {NULL}]

Handler ==
  [pc : PC, cmd : Command \cup {NULL}, records : Seq(Record), at : Nat \ {0}, locked : BOOLEAN,
   known : BOOLEAN, receipt : Settlement \cup {""}, counts : Counts, exit : {-1, 0, 1, 2, NULL}]

(* The stages of a line, of a run that was opened, and of a command that   *)
(* has lines to import.                                                    *)
Lines  == {"find", "prepare", "exists", "quota", "append", "commit"}
Opened == Lines \cup {"finish", "failed"}
Busy   == Opened \cup {"create"}

Good(cmd) == ParseJSONL(cmd).ok /\ ~ParseJSONL(cmd).errors

Staged(x) ==
  /\ x.pc \in Busy => /\ x.cmd \in Command /\ Good(x.cmd)
                      /\ x.at <= Len(x.records) /\ x.exit = NULL
  /\ x.pc \notin Lines \ {"find"} => ~x.locked /\ x.receipt = ""
  /\ x.pc \in {"create", "find"} => ~x.known
  /\ x.pc = "prepare" => x.locked = x.known /\ x.receipt = ""
  /\ x.pc \in {"exists", "quota", "append"} => x.locked /\ x.receipt = ""
  /\ x.pc = "commit" => x.locked /\ x.receipt # ""
  /\ x.pc = "idle" => x.exit = NULL

Commands == h \in [Run -> Handler] /\ \A r \in Run : Staged(h[r])

(* A line that was found is in the ledger, a run that was opened among the *)
(* runs.                                                                   *)
Found ==
  \A r \in Run : h[r].locked /\ h[r].known => Rec(r).ident \in DOMAIN ledger

Begun == \A r \in Run : h[r].pc \in Opened => runs[r] # NULL

Typed == Rows /\ Commands /\ Found /\ Begun

-----------------------------------------------------------------------------
(* A line that is locked is locked by one command, which knows whether the *)
(* ledger has its row; a receipt says what is stored.                      *)
LinesHeld ==
  /\ \A r, s \in Run : h[r].locked /\ h[s].locked /\ Rec(r).ident = Rec(s).ident => r = s
  /\ \A r \in Run : h[r].locked =>
       IF h[r].known
         THEN Rec(r).ident \in DOMAIN ledger /\ ledger[Rec(r).ident].status = "failed"
         ELSE Rec(r).ident \notin DOMAIN ledger

ReceiptsHeld ==
  /\ \A r, s \in Run : h[r].receipt = "applied" /\ h[s].receipt = "applied"
                         /\ Rec(r).event = Rec(s).event => r = s
  /\ \A r \in Run : h[r].receipt = "applied" => events[Rec(r).event] = NULL
  /\ \A r \in Run : h[r].receipt = "duplicate" =>
       events[Rec(r).event] # NULL /\ events[Rec(r).event].from # Rec(r).ident

LedgerHeld == LinesHeld /\ ReceiptsHeld /\ LedgerTrue

-----------------------------------------------------------------------------
(* The command r becomes another, and the others stay.                     *)
LEMMA Became ==
  ASSUME Typed, NEW r \in Run, NEW x \in Handler, Staged(x), Becomes(r, x)
  PROVE  Commands' /\ h'[r] = x /\ \A s \in Run \ {r} : h'[s] = h[s]
<1>1. h' \in [Run -> Handler] /\ h'[r] = x /\ \A s \in Run \ {r} : h'[s] = h[s]
  BY DEF Typed, Commands, Becomes
<1>2. \A s \in Run : Staged(h'[s])
  BY <1>1 DEF Typed, Commands
<1>. QED
  BY <1>1, <1>2 DEF Commands

(* The line in hand.                                                       *)
LEMMA RecTyped ==
  ASSUME Typed, NEW r \in Run, h[r].pc \in Busy
  PROVE  /\ Rec(r) \in Record
         /\ h[r].at \in 1 .. Len(h[r].records) /\ Len(h[r].records) \in Nat
<1>1. h[r] \in Handler /\ Staged(h[r])
  BY DEF Typed, Commands
<1>2. h[r].records \in Seq(Record) /\ h[r].at \in Nat \ {0}
  BY <1>1 DEF Handler
<1>3. h[r].at <= Len(h[r].records)
  BY <1>1 DEF Staged
<1>. HIDE DEF Record
<1>4. h[r].at \in 1 .. Len(h[r].records) /\ Len(h[r].records) \in Nat
  BY <1>2, <1>3
<1>. QED
  BY <1>2, <1>4 DEF Rec

(* What a line may be counted as.                                          *)
Names == {"applied", "duplicate", "skipped", "failed"}

(* The end of a line's transaction counts it, and goes to the next.        *)
LEMMA NextLineIs ==
  ASSUME Typed, NEW r \in Run, NEW status \in Names, h[r].pc \in Lines, NextLine(r, status)
  PROVE  /\ Commands' /\ \A s \in Run \ {r} : h'[s] = h[s]
         /\ h'[r].cmd = h[r].cmd /\ h'[r].records = h[r].records /\ h'[r].exit = h[r].exit
         /\ ~h'[r].locked /\ h'[r].receipt = ""
         /\ \A n \in Names : h'[r].counts[n] = h[r].counts[n] + (IF n = status THEN 1 ELSE 0)
         /\ \/ h'[r].pc = "find" /\ h'[r].at = h[r].at + 1
            \/ h'[r].pc = "finish" /\ h[r].at = Len(h[r].records) /\ h'[r].at = h[r].at
<1>. DEFINE k == [h[r].counts EXCEPT ![status] = @ + 1]
            n == h[r].at + 1
            s == [h[r] EXCEPT !.locked = FALSE, !.known = FALSE, !.receipt = "", !.counts = k]
            t == [s EXCEPT !.pc = "finish"]
            u == [s EXCEPT !.pc = "find", !.at = n]
<1>1. h[r] \in Handler /\ Staged(h[r]) /\ h[r].counts \in Counts
  BY DEF Typed, Commands, Handler
<1>2. k \in Counts /\ \A m \in Names : k[m] = h[r].counts[m] + (IF m = status THEN 1 ELSE 0)
  <2>1. CASE status = "applied"
    BY <1>1, <2>1 DEF Counts, Names
  <2>2. CASE status = "duplicate"
    BY <1>1, <2>2 DEF Counts, Names
  <2>3. CASE status = "skipped"
    BY <1>1, <2>3 DEF Counts, Names
  <2>4. CASE status = "failed"
    BY <1>1, <2>4 DEF Counts, Names
  <2>. QED
    BY <2>1, <2>2, <2>3, <2>4 DEF Names
<1>3. h[r].at \in 1 .. Len(h[r].records) /\ Len(h[r].records) \in Nat
  BY RecTyped DEF Busy, Opened
<1>4. n \in Nat \ {0} /\ (h[r].at # Len(h[r].records) => n <= Len(h[r].records))
  BY <1>3
<1>5. Becomes(r, IF s.at = Len(s.records) THEN t ELSE u)
  BY <1>1 DEF NextLine, Handler
<1>. HIDE DEF k, n
<1>6. /\ s \in Handler /\ s.cmd = h[r].cmd /\ s.records = h[r].records /\ s.exit = h[r].exit
      /\ s.at = h[r].at /\ ~s.locked /\ ~s.known /\ s.receipt = "" /\ s.counts = k
  BY <1>1, <1>2 DEF Handler
<1>. HIDE DEF s
<1>7. CASE s.at = Len(s.records)
  <2>1. /\ t \in Handler /\ t.cmd = s.cmd /\ t.records = s.records /\ t.exit = s.exit
        /\ t.at = s.at /\ t.locked = s.locked /\ t.receipt = s.receipt
        /\ t.counts = s.counts /\ t.pc = "finish"
    BY <1>6 DEF Handler, PC
  <2>. HIDE DEF t
  <2>2. Staged(t)
    BY <1>1, <1>3, <1>6, <2>1 DEF Staged, Busy, Opened, Lines
  <2>3. Commands' /\ h'[r] = t /\ \A q \in Run \ {r} : h'[q] = h[q]
    BY <1>5, <1>7, <2>1, <2>2, Became
  <2>. QED
    BY <1>2, <1>6, <1>7, <2>1, <2>3
<1>8. CASE s.at # Len(s.records)
  <2>1. /\ u \in Handler /\ u.cmd = s.cmd /\ u.records = s.records /\ u.exit = s.exit
        /\ u.at = n /\ u.locked = s.locked /\ u.known = s.known /\ u.receipt = s.receipt
        /\ u.counts = s.counts /\ u.pc = "find"
    BY <1>4, <1>6 DEF Handler, PC
  <2>. HIDE DEF u
  <2>2. Staged(u)
    BY <1>1, <1>4, <1>6, <1>8, <2>1 DEF Staged, Busy, Opened, Lines
  <2>3. Commands' /\ h'[r] = u /\ \A q \in Run \ {r} : h'[q] = h[q]
    BY <1>5, <1>8, <2>1, <2>2, Became
  <2>. QED
    BY <1>2, <1>6, <2>1, <2>3 DEF n
<1>. QED
  BY <1>7, <1>8

(* What a step of r keeps of it, and of the others.                        *)
Same(r) ==
  /\ h'[r].cmd = h[r].cmd /\ h'[r].records = h[r].records /\ h'[r].at = h[r].at
  /\ h'[r].counts = h[r].counts

Alone(r) == Commands' /\ \A s \in Run \ {r} : h'[s] = h[s]

(* A line that fails, and a command that ends.                             *)
LEMMA LineErrorIs ==
  ASSUME Typed, NEW r \in Run, h[r].pc \in Lines, LineError(r)
  PROVE  /\ Alone(r) /\ Same(r) /\ h'[r].exit = NULL
         /\ h'[r].pc = "failed" /\ ~h'[r].locked /\ h'[r].receipt = ""
<1>. DEFINE x == [h[r] EXCEPT !.pc = "failed", !.locked = FALSE, !.known = FALSE, !.receipt = ""]
<1>1. h[r] \in Handler /\ Staged(h[r])
  BY DEF Typed, Commands
<1>2. /\ x \in Handler /\ x.pc = "failed" /\ ~x.locked /\ x.receipt = "" /\ x.cmd = h[r].cmd
      /\ x.records = h[r].records /\ x.at = h[r].at /\ x.counts = h[r].counts
      /\ x.exit = h[r].exit
  BY <1>1 DEF Handler, PC
<1>3. Becomes(r, x)
  BY DEF LineError
<1>. HIDE DEF x
<1>4. Staged(x) /\ h[r].exit = NULL
  BY <1>1, <1>2 DEF Staged, Busy, Opened, Lines
<1>. QED
  BY <1>2, <1>3, <1>4, Became DEF Same, Alone

(* A command that ends by itself.                                          *)
LEMMA ExitIs ==
  ASSUME Typed, NEW r \in Run, h[r].pc \in {"create", "failed", "finish"},
         NEW code \in {-1, 0, 1, 2}, Exit(r, code)
  PROVE  /\ Alone(r) /\ Same(r) /\ h'[r].exit = code
         /\ h'[r].pc = "done" /\ ~h'[r].locked /\ h'[r].receipt = ""
<1>. DEFINE x == [h[r] EXCEPT !.pc = "done", !.exit = code]
<1>1. h[r] \in Handler /\ Staged(h[r])
  BY DEF Typed, Commands
<1>2. /\ x \in Handler /\ x.pc = "done" /\ x.locked = h[r].locked /\ x.receipt = h[r].receipt
      /\ x.cmd = h[r].cmd /\ x.records = h[r].records /\ x.at = h[r].at
      /\ x.counts = h[r].counts /\ x.exit = code
  BY <1>1 DEF Handler, PC
<1>3. Becomes(r, x)
  BY DEF Exit
<1>. HIDE DEF x
<1>4. ~h[r].locked /\ h[r].receipt = ""
  BY <1>1 DEF Staged, Lines
<1>5. Staged(x)
  BY <1>2, <1>4 DEF Staged, Busy, Opened, Lines
<1>. QED
  BY <1>2, <1>3, <1>4, <1>5, Became DEF Same, Alone

(* One that is killed, wherever it is.                                    *)
LEMMA KilledIs ==
  ASSUME Typed, NEW r \in Run, Killed(r)
  PROVE  /\ Alone(r) /\ Same(r) /\ h'[r].exit = -1
         /\ h'[r].pc = "done" /\ ~h'[r].locked /\ h'[r].receipt = ""
<1>. DEFINE x == [h[r] EXCEPT !.pc = "done", !.exit = -1, !.locked = FALSE, !.receipt = ""]
<1>1. h[r] \in Handler
  BY DEF Typed, Commands
<1>2. /\ x \in Handler /\ x.pc = "done" /\ ~x.locked /\ x.receipt = ""
      /\ x.cmd = h[r].cmd /\ x.records = h[r].records /\ x.at = h[r].at
      /\ x.counts = h[r].counts /\ x.exit = -1
  BY <1>1 DEF Handler, PC
<1>3. Becomes(r, x)
  BY DEF Killed
<1>. HIDE DEF x
<1>4. Staged(x)
  BY <1>2 DEF Staged, Busy, Opened, Lines
<1>. QED
  BY <1>2, <1>3, <1>4, Became DEF Same, Alone

(* The statements of a line: each leads to the next.                       *)
LEMMA FindIs ==
  ASSUME Typed, NEW r \in Run, findImportRecordIdentity(r)
  PROVE  /\ h[r].pc = "find" /\ Rec(r) \in Record
         /\ \/ /\ Alone(r) /\ Same(r) /\ h'[r].exit = NULL
               /\ h'[r].pc = "prepare" /\ h'[r].receipt = "" /\ h'[r].locked = h'[r].known
               /\ h'[r].locked => /\ Rec(r).ident \in DOMAIN ledger /\ ~LineLocked(r)
                                  /\ ledger[Rec(r).ident].status = "failed"
            \/ /\ NextLine(r, "skipped") /\ Rec(r).ident \in DOMAIN ledger
               /\ ledger[Rec(r).ident].status # "failed"
<1>. DEFINE x == [h[r] EXCEPT !.pc = "prepare"]
            y == [h[r] EXCEPT !.pc = "prepare", !.locked = TRUE, !.known = TRUE]
<1>1. h[r] \in Handler /\ Staged(h[r]) /\ h[r].pc = "find"
  BY DEF Typed, Commands, findImportRecordIdentity
<1>2. Rec(r) \in Record
  BY <1>1, RecTyped DEF Busy, Opened, Lines
<1>3. /\ x \in Handler /\ x.pc = "prepare" /\ x.receipt = h[r].receipt /\ x.locked = h[r].locked
      /\ x.known = h[r].known /\ x.cmd = h[r].cmd /\ x.records = h[r].records
      /\ x.at = h[r].at /\ x.counts = h[r].counts /\ x.exit = h[r].exit
  BY <1>1 DEF Handler, PC
<1>4. /\ y \in Handler /\ y.pc = "prepare" /\ y.receipt = h[r].receipt /\ y.locked = TRUE
      /\ y.known = TRUE
      /\ y.cmd = h[r].cmd /\ y.records = h[r].records
      /\ y.at = h[r].at /\ y.counts = h[r].counts /\ y.exit = h[r].exit
  BY <1>1 DEF Handler, PC
<1>5. h[r].locked = FALSE /\ h[r].known = FALSE /\ h[r].receipt = "" /\ h[r].exit = NULL
  BY <1>1 DEF Staged, Busy, Opened, Lines, Handler
<1>6. \/ Becomes(r, x)
      \/ /\ Becomes(r, y) /\ Rec(r).ident \in DOMAIN ledger /\ ~LineLocked(r)
         /\ ledger[Rec(r).ident].status = "failed"
      \/ /\ NextLine(r, "skipped") /\ Rec(r).ident \in DOMAIN ledger
         /\ ledger[Rec(r).ident].status # "failed"
  BY DEF findImportRecordIdentity
<1>. HIDE DEF x, y
<1>7. Staged(x)
  BY <1>1, <1>3, <1>5 DEF Staged, Busy, Opened, Lines
<1>8. Staged(y)
  BY <1>1, <1>4, <1>5 DEF Staged, Busy, Opened, Lines
<1>9. ASSUME Becomes(r, x)
      PROVE  /\ Alone(r) /\ Same(r) /\ h'[r].exit = NULL
             /\ h'[r].pc = "prepare" /\ h'[r].receipt = "" /\ h'[r].locked = FALSE
             /\ h'[r].known = FALSE
  BY <1>3, <1>5, <1>7, <1>9, Became DEF Same, Alone
<1>10. ASSUME Becomes(r, y)
      PROVE  /\ Alone(r) /\ Same(r) /\ h'[r].exit = NULL
             /\ h'[r].pc = "prepare" /\ h'[r].receipt = "" /\ h'[r].locked = TRUE
             /\ h'[r].known = TRUE
  BY <1>4, <1>5, <1>8, <1>10, Became DEF Same, Alone
<1>. QED
  BY <1>1, <1>2, <1>6, <1>9, <1>10

(* The row is prepared by its one owner, or the line fails.                *)
LEMMA PrepareIs ==
  ASSUME Typed, NEW r \in Run, prepareImportRecord(r)
  PROVE  /\ h[r].pc = "prepare" /\ Rec(r) \in Record
         /\ \/ LineError(r)
            \/ /\ Alone(r) /\ Same(r) /\ h'[r].exit = NULL
               /\ h'[r].pc = "exists" /\ h'[r].receipt = "" /\ h'[r].locked
               /\ h'[r].known = h[r].known /\ h[r].locked = h[r].known
               /\ ~h[r].known => Rec(r).ident \notin DOMAIN ledger /\ ~LineLocked(r)
<1>. DEFINE x == [h[r] EXCEPT !.pc = "exists", !.locked = TRUE]
<1>1. h[r] \in Handler /\ Staged(h[r]) /\ h[r].pc = "prepare"
  BY DEF Typed, Commands, prepareImportRecord
<1>2. Rec(r) \in Record
  BY <1>1, RecTyped DEF Busy, Opened, Lines
<1>3. /\ x \in Handler /\ x.pc = "exists" /\ x.receipt = h[r].receipt /\ x.locked = TRUE
      /\ x.known = h[r].known /\ x.cmd = h[r].cmd /\ x.records = h[r].records
      /\ x.at = h[r].at /\ x.counts = h[r].counts /\ x.exit = h[r].exit
  BY <1>1 DEF Handler, PC
<1>4. h[r].locked = h[r].known /\ h[r].receipt = "" /\ h[r].exit = NULL
  BY <1>1 DEF Staged, Busy, Opened, Lines
<1>5. \/ LineError(r)
      \/ /\ Becomes(r, x)
         /\ ~h[r].known => Rec(r).ident \notin DOMAIN ledger /\ ~LineLocked(r)
  BY DEF prepareImportRecord
<1>. HIDE DEF x
<1>6. Staged(x)
  BY <1>1, <1>3, <1>4 DEF Staged, Busy, Opened, Lines
<1>7. ASSUME Becomes(r, x)
      PROVE  /\ Alone(r) /\ Same(r) /\ h'[r].exit = NULL
             /\ h'[r].pc = "exists" /\ h'[r].receipt = "" /\ h'[r].locked
             /\ h'[r].known = h[r].known
  BY <1>3, <1>4, <1>6, <1>7, Became DEF Same, Alone
<1>. QED
  BY <1>1, <1>2, <1>4, <1>5, <1>7

(* What ingest says of the event, or that it goes on.                      *)
LEMMA ReceiptIs ==
  ASSUME Typed, NEW r \in Run, h[r].pc \in {"exists", "quota", "append"}, NEW to, NEW status,
         Receipt(r, to, status),
         \/ to \in {"quota", "append"} /\ status = ""
         \/ to = "commit" /\ status \in Settlement
  PROVE  /\ Alone(r) /\ Same(r) /\ h'[r].exit = NULL
         /\ h'[r].pc = to /\ h'[r].receipt = status /\ h'[r].locked /\ h[r].locked
         /\ h'[r].known = h[r].known
<1>. DEFINE x == [h[r] EXCEPT !.pc = to, !.receipt = status]
<1>1. h[r] \in Handler /\ Staged(h[r])
  BY DEF Typed, Commands
<1>2. to \in PC /\ status \in Settlement \cup {""}
  BY DEF PC
<1>3. /\ x \in Handler /\ x.pc = to /\ x.receipt = status /\ x.locked = h[r].locked
      /\ x.known = h[r].known /\ x.cmd = h[r].cmd /\ x.records = h[r].records
      /\ x.at = h[r].at /\ x.counts = h[r].counts /\ x.exit = h[r].exit
  BY <1>1, <1>2 DEF Handler
<1>4. h[r].locked /\ h[r].exit = NULL
  BY <1>1 DEF Staged, Busy, Opened, Lines
<1>5. Becomes(r, x)
  BY DEF Receipt
<1>. HIDE DEF x
<1>6. Staged(x)
  BY <1>1, <1>3, <1>4 DEF Staged, Busy, Opened, Lines, Settlement
<1>. QED
  BY <1>3, <1>4, <1>5, <1>6, Became DEF Same, Alone

(* A list of one, and one of three.                                        *)
LEMMA OneAndThree ==
  ASSUME NEW T, NEW x \in T, NEW y \in T, NEW z \in T
  PROVE  <<x>> \in Seq(T) /\ <<x, y, z>> \in Seq(T)
OBVIOUS

(* The records of a file without errors: a line that is read is a record.  *)
LEMMA LinesAreRecords ==
  ASSUME NEW cmd \in Command, Good(cmd)
  PROVE  ParseJSONL(cmd).records \in Seq(Record)
<1>1. cmd.file \in Seq(jsonRecord) /\ cmd.source \in STRING
  BY LineAssumption
<1>2. ASSUME NEW i \in DOMAIN cmd.file
      PROVE  RecordOf(cmd.source, cmd.file[i]) \in Record
  <2> DEFINE raw == cmd.file[i]
             rec == RecordOf(cmd.source, raw)
  <2>1. LineRead(raw)
    BY <1>2 DEF Good, ParseJSONL
  <2>2. raw \in jsonRecord
    BY <1>1, <1>2
  <2>3. importEventID(cmd.source, raw) \in EventID
    <3>1. CASE raw.type = "event"
      BY <2>1, <2>2, <3>1 DEF importEventID, LineRead, jsonRecord
    <3>2. CASE raw.type = "issue"
      BY <1>2, <3>2, LineAssumption DEF importEventID
    <3>. QED
      BY <2>1, <3>1, <3>2 DEF LineRead
  <2>4. explicitFingerprint(cmd.source, raw) \in Seq(STRING)
    <3>1. /\ raw.title \in STRING /\ raw.ext \in STRING /\ raw.issue \in STRING
          /\ raw.fingerprint \in Seq(STRING)
      BY <2>2 DEF jsonRecord
    <3>2. IssueOf(raw) \in STRING
      BY <3>1 DEF IssueOf
    <3> DEFINE T == STRING
               kept == "imported-issue"
    <3>3. kept \in T
      BY LineAssumption
    <3>. HIDE DEF T, kept
    <3>4. <<raw.title>> \in Seq(T)
      BY <3>1, OneAndThree DEF T
    <3>5. <<kept, cmd.source, IssueOf(raw)>> \in Seq(T)
      BY <1>1, <3>2, <3>3, OneAndThree DEF T
    <3>. HIDE DEF raw
    <3>. QED
      BY <3>1, <3>4, <3>5 DEF explicitFingerprint, T, kept
  <2>5. (IF raw.received = NULL THEN raw.occurred ELSE raw.received) \in Nat
    BY <2>1 DEF LineRead
  <2>6. raw.ext \in STRING /\ raw.type \in {"issue", "event"}
    BY <2>1, <2>2 DEF LineRead, jsonRecord
  <2>7. <<cmd.source, raw.ext>> \in Ident
    BY <1>1, <2>6 DEF Ident
  <2> DEFINE id == importEventID(cmd.source, raw)
             group == explicitFingerprint(cmd.source, raw)
             day == IF raw.received = NULL THEN raw.occurred ELSE raw.received
             ident == <<cmd.source, raw.ext>>
             type == raw.type
  <2>8. rec = [ident |-> ident, kind |-> type, event |-> id, group |-> group, day |-> day]
    BY DEF RecordOf
  <2>9. /\ ident \in Ident /\ type \in {"issue", "event"} /\ id \in EventID
        /\ group \in Seq(STRING) /\ day \in Nat
    BY <2>3, <2>4, <2>5, <2>6, <2>7
  <2>. HIDE DEF id, group, day, ident, type, rec
  <2>10. rec \in Record
    BY <2>8, <2>9 DEF Record
  <2>. QED
    BY <2>10 DEF rec
<1>3. ParseJSONL(cmd).records = [i \in DOMAIN cmd.file |-> RecordOf(cmd.source, cmd.file[i])]
  BY DEF Good, ParseJSONL
<1>4. DOMAIN cmd.file = 1 .. Len(cmd.file) /\ Len(cmd.file) \in Nat
  BY <1>1
<1>. QED
  BY <1>2, <1>3, <1>4

(* A command that starts is refused, or has lines to import.               *)
LEMMA AdminIs ==
  ASSUME Typed, NEW r \in Run, NEW cmd \in Command, runImporterAdmin(r, cmd)
  PROVE  /\ Alone(r) /\ h[r].pc = "idle" /\ h'[r].cmd = cmd /\ h'[r].at = 1
         /\ h'[r].counts = NoRows /\ ~h'[r].locked /\ h'[r].receipt = ""
         /\ \/ h'[r].pc = "create" /\ Good(cmd) /\ h'[r].exit = NULL
            \/ /\ h'[r].pc = "done" /\ h'[r].exit \in {0, 1, 2}
               /\ h'[r].exit = 0 => cmd.mode # "apply"
<1>. DEFINE recs == ParseJSONL(cmd).records
            x == [Idle EXCEPT !.pc = "create", !.cmd = cmd, !.records = recs]
            y(code) == [Idle EXCEPT !.pc = "done", !.cmd = cmd, !.exit = code]
<1>1. h[r].pc = "idle"
  BY DEF runImporterAdmin
<1>2. NoRows \in Counts
  BY DEF NoRows, Counts
<1>3. /\ Idle \in Handler /\ Idle.at = 1 /\ Idle.counts = NoRows /\ Idle.locked = FALSE
      /\ Idle.known = FALSE /\ Idle.receipt = "" /\ Idle.exit = NULL
  <2>1. <<>> \in Seq(Record)
    OBVIOUS
  <2>. QED
    BY <1>2, <2>1 DEF Idle, Handler, PC
<1>. DEFINE status == IF cmd.mode = "usage" THEN 2
                     ELSE IF cmd.manifest /\ Good(cmd) /\ cmd.mode = "dry-run" THEN 0 ELSE 1
<1>4. \/ Becomes(r, x) /\ Good(cmd) /\ recs # <<>>
      \/ Becomes(r, y(status))
  BY DEF runImporterAdmin, Good
<1>5. status \in {0, 1, 2} /\ (status = 0 => cmd.mode = "dry-run")
  OBVIOUS
<1>6. CASE Becomes(r, x) /\ Good(cmd) /\ recs # <<>>
  <2>1. recs \in Seq(Record)
    BY <1>6, LinesAreRecords
  <2>. HIDE DEF recs, Record
  <2>2. 1 <= Len(recs)
    BY <1>6, <2>1
  <2>3. /\ x \in Handler /\ x.pc = "create" /\ x.cmd = cmd /\ x.records = recs /\ x.at = 1
        /\ x.counts = NoRows /\ x.locked = FALSE /\ x.known = FALSE
        /\ x.receipt = "" /\ x.exit = NULL
    BY <1>3, <2>1 DEF Handler, PC
  <2>. HIDE DEF x
  <2>4. Staged(x)
    BY <1>6, <2>2, <2>3 DEF Staged, Busy, Opened, Lines
  <2>. QED
    BY <1>1, <1>6, <2>3, <2>4, Became DEF Alone
<1>7. ASSUME NEW code \in {0, 1, 2}, Becomes(r, y(code)), code = 0 => cmd.mode = "dry-run"
      PROVE  /\ Alone(r) /\ h'[r].cmd = cmd /\ h'[r].at = 1
             /\ h'[r].counts = NoRows /\ ~h'[r].locked /\ h'[r].receipt = ""
             /\ h'[r].pc = "done" /\ h'[r].exit = code
  <2>. DEFINE z == y(code)
  <2>1. /\ z \in Handler /\ z.pc = "done" /\ z.cmd = cmd /\ z.at = 1
        /\ z.counts = NoRows /\ z.locked = FALSE /\ z.receipt = "" /\ z.exit = code
    BY <1>3 DEF Handler, PC
  <2>2. Becomes(r, z)
    BY <1>7
  <2>. HIDE DEF z
  <2>3. Staged(z)
    BY <2>1 DEF Staged, Busy, Opened, Lines
  <2>. QED
    BY <2>1, <2>2, <2>3, Became DEF Alone
<1>. QED
  BY <1>1, <1>4, <1>5, <1>6, <1>7

(* The run is opened, or the command ends.                                 *)
LEMMA CreateIs ==
  ASSUME Typed, NEW r \in Run, createImportRun(r)
  PROVE  /\ Alone(r) /\ Same(r) /\ h[r].pc = "create"
         /\ ~h'[r].locked /\ h'[r].receipt = ""
         /\ \/ h'[r].pc = "find" /\ h'[r].exit = NULL
            \/ h'[r].pc = "done" /\ h'[r].exit = 1
<1>. DEFINE x == [h[r] EXCEPT !.pc = "find"]
<1>1. h[r] \in Handler /\ Staged(h[r]) /\ h[r].pc = "create"
  BY DEF Typed, Commands, createImportRun
<1>2. /\ x \in Handler /\ x.pc = "find" /\ x.receipt = h[r].receipt /\ x.locked = h[r].locked
      /\ x.known = h[r].known /\ x.cmd = h[r].cmd /\ x.records = h[r].records
      /\ x.at = h[r].at /\ x.counts = h[r].counts /\ x.exit = h[r].exit
  BY <1>1 DEF Handler, PC
<1>3. Becomes(r, x) \/ Exit(r, 1)
  BY DEF createImportRun
<1>. HIDE DEF x
<1>4. ~h[r].locked /\ h[r].receipt = "" /\ h[r].exit = NULL
  BY <1>1 DEF Staged, Busy, Opened, Lines
<1>5. Staged(x)
  BY <1>1, <1>2, <1>4 DEF Staged, Busy, Opened, Lines
<1>6. CASE Becomes(r, x)
  BY <1>1, <1>2, <1>4, <1>5, <1>6, Became DEF Same, Alone
<1>7. CASE Exit(r, 1)
  BY <1>1, <1>7, ExitIs
<1>. QED
  BY <1>3, <1>6, <1>7

(* The line in hand stays in hand.                                         *)
LEMMA RecKept ==
  ASSUME NEW r \in Run, h'[r] = h[r] \/ Same(r)
  PROVE  Rec(r)' = Rec(r)
  BY DEF Rec, Same

(* The commit of a line writes its row, and its event if that is applied.  *)
LEMMA ApplyIs ==
  ASSUME Typed, NEW r \in Run, h[r].pc = "commit", ApplyLine(r)
  PROVE  /\ Rec(r) \in Record /\ h[r].locked /\ h[r].receipt \in Settlement
         /\ events' \in [EventID -> EventRow \cup {NULL}]
         /\ \A e \in EventID \ {Rec(r).event} : events'[e] = events[e]
         /\ events'[Rec(r).event] =
              IF h[r].receipt = "applied" THEN EventOf(r) ELSE events[Rec(r).event]
         /\ EventOf(r) \in EventRow /\ EventOf(r).from = Rec(r).ident
         /\ DOMAIN ledger' = DOMAIN ledger \cup {Rec(r).ident}
         /\ DOMAIN ledger' \subseteq Ident /\ IsFiniteSet(DOMAIN ledger')
         /\ ledger' \in [DOMAIN ledger' -> LedgerRow]
         /\ \A i \in DOMAIN ledger \ {Rec(r).ident} : ledger'[i] = ledger[i]
         /\ ledger'[Rec(r).ident].run = r /\ ledger'[Rec(r).ident].status = h[r].receipt
         /\ ledger'[Rec(r).ident].event = Rec(r).event
<1>. DEFINE x == Rec(r)
<1>1. x \in Record /\ h[r].locked /\ h[r].receipt \in Settlement /\ h[r] \in Handler
  BY RecTyped DEF Busy, Opened, Lines, Typed, Commands, Staged, Handler
<1>2. x.ident \in Ident /\ x.event \in EventID /\ x.group \in Seq(STRING) /\ x.day \in Nat
      /\ x.kind \in {"issue", "event"}
  BY <1>1 DEF Record
<1>3. EventOf(r) \in EventRow /\ EventOf(r).from = x.ident
  BY <1>2 DEF EventOf, EventRow
<1>4. h[r].known => ledger[x.ident].kind \in {"issue", "event"}
  BY <1>1 DEF Typed, Found, Rows, LedgerRow
<1>5. /\ RowOf(r) \in LedgerRow /\ RowOf(r).run = r /\ RowOf(r).status = h[r].receipt
      /\ RowOf(r).event = x.event
  BY <1>1, <1>2, <1>4 DEF RowOf, LedgerRow
<1>6. /\ events' = [events EXCEPT ![x.event] = IF h[r].receipt = "applied" THEN EventOf(r) ELSE @]
      /\ ledger' = [i \in DOMAIN ledger \cup {x.ident} |->
                      IF i = x.ident THEN RowOf(r) ELSE ledger[i]]
  BY DEF ApplyLine
<1>. HIDE DEF x
<1>7. /\ events' \in [EventID -> EventRow \cup {NULL}]
      /\ \A e \in EventID \ {x.event} : events'[e] = events[e]
      /\ events'[x.event] = IF h[r].receipt = "applied" THEN EventOf(r) ELSE events[x.event]
  BY <1>2, <1>3, <1>6 DEF Typed, Rows
<1>8. DOMAIN ledger' = DOMAIN ledger \cup {x.ident} /\ DOMAIN ledger' \subseteq Ident
  BY <1>2, <1>6 DEF Typed, Rows
<1>9. IsFiniteSet(DOMAIN ledger')
  BY <1>8, FS_AddElement DEF Typed, Rows
<1>10. /\ ledger' \in [DOMAIN ledger' -> LedgerRow] /\ ledger'[x.ident] = RowOf(r)
       /\ \A i \in DOMAIN ledger \ {x.ident} : ledger'[i] = ledger[i]
  BY <1>5, <1>6, <1>8 DEF Typed, Rows
<1>. QED
  BY <1>1, <1>3, <1>5, <1>7, <1>8, <1>9, <1>10 DEF x

(* A line that was found is still in the ledger after a step of r.         *)
LEMMA FoundKept ==
  ASSUME Found, NEW r \in Run, Alone(r), DOMAIN ledger \subseteq DOMAIN ledger',
         h'[r].locked /\ h'[r].known => Rec(r)'.ident \in DOMAIN ledger'
  PROVE  Found'
<1>. SUFFICES ASSUME NEW s \in Run, h'[s].locked, h'[s].known
              PROVE  Rec(s)'.ident \in DOMAIN ledger'
  BY DEF Found
<1>1. CASE s = r
  BY <1>1
<1>2. CASE s # r
  <2>1. h'[s] = h[s] /\ Rec(s)' = Rec(s)
    BY <1>2, RecKept DEF Alone
  <2>. QED
    BY <2>1 DEF Found
<1>. QED
  BY <1>1, <1>2

(* The types hold at first.                                                *)
LEMMA TypedInit == Init => Typed
<1>. SUFFICES ASSUME Init PROVE Typed
  OBVIOUS
<1>1. Rows
  <2>1. DOMAIN ledger = {}
    BY DEF Init
  <2>. QED
    BY <2>1, FS_EmptySet DEF Init, Rows
<1>2. <<>> \in Seq(Record)
  OBVIOUS
<1>3. Idle \in Handler
  BY <1>2 DEF Idle, Handler, PC, Counts, NoRows
<1>4. /\ Idle.pc = "idle" /\ Idle.locked = FALSE /\ Idle.receipt = "" /\ Idle.exit = NULL
  BY DEF Idle
<1>5. \A r \in Run : h[r] = Idle
  BY DEF Init
<1>6. Commands
  BY <1>3, <1>4, <1>5 DEF Init, Commands, Staged, Busy, Opened, Lines
<1>7. Found /\ Begun
  BY <1>4, <1>5 DEF Found, Begun, Opened, Lines
<1>. QED
  BY <1>1, <1>6, <1>7 DEF Typed

(* A step of a command keeps the types.                                    *)
LEMMA CommandTyped ==
  ASSUME Typed, NEW r \in Run,
         \/ \E cmd \in Command : runImporterAdmin(r, cmd)
         \/ Statement(r) \/ CommitLineUnconfirmed(r) \/ LineFails(r) \/ RunFails(r) \/ Killed(r)
  PROVE  Rows' /\ Found' /\ Alone(r)
<1>1. CASE \E cmd \in Command : runImporterAdmin(r, cmd)
  <2>1. Alone(r) /\ ~h'[r].locked
    BY <1>1, AdminIs
  <2>2. UNCHANGED dbVars
    BY <1>1 DEF runImporterAdmin
  <2>3. Rows' /\ Found'
    BY <2>1, <2>2, FoundKept DEF Typed, Rows, dbVars
  <2>. QED
    BY <2>1, <2>3 DEF Alone, Typed
<1>2. CASE createImportRun(r)
  <2>1. Alone(r) /\ ~h'[r].locked
    BY <1>2, CreateIs
  <2>2. NewRun(r) \in RunRow
    <3>1. Len(h[r].records) \in Nat
      BY <1>2, RecTyped DEF createImportRun, Busy
    <3>. QED
      BY <3>1 DEF NewRun, RunRow, Counts, NoRows
  <2>3. Rows'
    BY <1>2, <2>2 DEF createImportRun, Typed, Rows
  <2>4. Found'
    BY <1>2, <2>1, FoundKept DEF Typed, createImportRun
  <2>. QED
    BY <2>1, <2>3, <2>4 DEF Alone, Typed
<1>3. CASE findImportRecordIdentity(r)
  <2>1. UNCHANGED dbVars
    BY <1>3 DEF findImportRecordIdentity
  <2>2. CASE NextLine(r, "skipped")
    <3>1. h[r].pc \in Lines
      BY <1>3 DEF findImportRecordIdentity, Lines
    <3>2. Alone(r) /\ ~h'[r].locked
      BY <2>2, <3>1, NextLineIs DEF Names, Alone
    <3>. QED
      BY <2>1, <3>2, FoundKept DEF Alone, Typed, Rows, dbVars
  <2>3. CASE ~NextLine(r, "skipped")
    <3>1. /\ Alone(r) /\ Same(r)
          /\ h'[r].locked => Rec(r).ident \in DOMAIN ledger
      BY <1>3, <2>3, FindIs
    <3>2. Rec(r)' = Rec(r)
      BY <3>1, RecKept
    <3>. QED
      BY <2>1, <3>1, <3>2, FoundKept DEF Alone, Typed, Rows, dbVars
  <2>. QED
    BY <2>2, <2>3
<1>4. ASSUME h[r].pc \in Lines, LineError(r), Rows', DOMAIN ledger \subseteq DOMAIN ledger'
      PROVE  Rows' /\ Found' /\ Alone(r)
  <2>1. Alone(r) /\ ~h'[r].locked
    BY <1>4, LineErrorIs
  <2>. QED
    BY <1>4, <2>1, FoundKept DEF Alone, Typed
<1>5. CASE prepareImportRecord(r)
  <2>1. UNCHANGED dbVars /\ h[r].pc \in Lines
    BY <1>5 DEF prepareImportRecord, Lines
  <2>2. Rows'
    BY <2>1 DEF Typed, Rows, dbVars
  <2>3. CASE ~LineError(r)
    <3>1. Alone(r) /\ Same(r) /\ h'[r].known = h[r].known /\ h[r].locked = h[r].known
      BY <1>5, <2>3, PrepareIs
    <3>2. Rec(r)' = Rec(r)
      BY <3>1, RecKept
    <3>3. Found'
      BY <2>1, <3>1, <3>2, FoundKept DEF Typed, Found, dbVars
    <3>. QED
      BY <2>2, <3>1, <3>3 DEF Alone, Typed
  <2>. QED
    BY <1>4, <2>1, <2>2, <2>3 DEF dbVars
<1>6. CASE Exists(r) \/ CheckQuota(r) \/ AppendEvent(r)
  <2>1. UNCHANGED dbVars
    BY <1>6 DEF Exists, CheckQuota, AppendEvent
  <2>2. Alone(r) /\ Same(r) /\ h'[r].known = h[r].known /\ h[r].locked
    BY <1>6, ReceiptIs DEF Exists, CheckQuota, AppendEvent, Settlement
  <2>3. Rec(r)' = Rec(r)
    BY <2>2, RecKept
  <2>4. Found'
    BY <2>1, <2>2, <2>3, FoundKept DEF Typed, Found, dbVars
  <2>. QED
    BY <2>1, <2>2, <2>4 DEF Alone, Typed, Rows, dbVars
<1>7. ASSUME h[r].pc = "commit", ApplyLine(r), UNCHANGED <<runs, audit>>
      PROVE  Rows' /\ DOMAIN ledger \subseteq DOMAIN ledger'
  BY ZenonT(30), <1>7, ApplyIs DEF Rows, Typed
<1>8. CASE CommitLine(r)
  <2>1. Rows' /\ DOMAIN ledger \subseteq DOMAIN ledger'
    BY <1>7, <1>8 DEF CommitLine
  <2>2. h[r].pc \in Lines /\ NextLine(r, h[r].receipt) /\ h[r].receipt \in Settlement
    BY <1>8, ApplyIs DEF CommitLine, Lines
  <2>3. Alone(r) /\ ~h'[r].locked
    BY <2>2, NextLineIs DEF Names, Alone, Settlement
  <2>. QED
    BY <2>1, <2>3, FoundKept DEF Alone, Typed
<1>9. CASE CommitLineUnconfirmed(r)
  BY <1>4, <1>7, <1>9 DEF CommitLineUnconfirmed, Lines
<1>10. CASE LineFails(r)
  BY <1>4, <1>10 DEF LineFails, Lines, dbVars, Typed, Rows
<1>11. ASSUME Rows', UNCHANGED ledger, Alone(r), ~h'[r].locked PROVE Rows' /\ Found' /\ Alone(r)
  BY <1>11, FoundKept DEF Alone, Typed
<1>12. CASE markImportRunFailed(r)
  <2>1. runs[r] \in RunRow
    BY <1>12 DEF markImportRunFailed, Typed, Rows, Begun, Opened
  <2>2. [runs[r] EXCEPT !.status = "failed"] \in RunRow
    BY <2>1 DEF RunRow
  <2>3. Rows'
    BY <1>12, <2>2 DEF markImportRunFailed, Typed, Rows
  <2>. QED
    BY <1>11, <1>12, <2>3, ExitIs DEF markImportRunFailed
<1>13. CASE finishImportRun(r)
  <2>1. Rows'
    <3>1. h[r].counts \in Counts /\ importRunStatus(h[r].counts) \in Finished
      BY DEF Typed, Commands, Handler, importRunStatus, Finished
    <3>2. runs[r] \in RunRow
      BY <1>13 DEF finishImportRun, Typed, Rows, Begun, Opened
    <3>. DEFINE x == [runs[r] EXCEPT !.status = importRunStatus(h[r].counts),
                                     !.counts = h[r].counts]
    <3>3. x \in RunRow
      BY <3>1, <3>2 DEF RunRow, Finished
    <3>4. runs' = [runs EXCEPT ![r] = x]
      BY <1>13, <3>2 DEF finishImportRun, Typed, Rows, RunRow
    <3>. QED
      BY <1>13, <3>1, <3>3, <3>4 DEF finishImportRun, Typed, Rows
  <2>2. Alone(r) /\ ~h'[r].locked
    BY <1>13, ExitIs DEF finishImportRun
  <2>. QED
    BY <1>11, <1>13, <2>1, <2>2 DEF finishImportRun
<1>14. CASE RunFails(r)
  BY <1>11, <1>14, ExitIs DEF RunFails, dbVars, Typed, Rows
<1>15. CASE Killed(r)
  <2>1. UNCHANGED dbVars
    BY <1>15 DEF Killed
  <2>. QED
    BY <1>11, <1>15, <2>1, KilledIs DEF dbVars, Typed, Rows
<1>. QED
  BY <1>1, <1>2, <1>3, <1>5, <1>6, <1>8, <1>9, <1>10, <1>12, <1>13, <1>14, <1>15 DEF Statement

(* A run that was opened stays among the runs.                             *)
LEMMA CommandBegun ==
  ASSUME Typed, NEW r \in Run,
         \/ \E cmd \in Command : runImporterAdmin(r, cmd)
         \/ Statement(r) \/ CommitLineUnconfirmed(r) \/ LineFails(r) \/ RunFails(r) \/ Killed(r)
  PROVE  Begun'
<1>1. Alone(r)
  BY CommandTyped
<1>2. ASSUME h'[r].pc \in Opened => runs'[r] # NULL,
             \A s \in Run \ {r} : runs'[s] = runs[s]
      PROVE  Begun'
  BY <1>1, <1>2 DEF Alone, Begun, Typed
<1>3. ASSUME UNCHANGED runs, h'[r].pc \in Opened => h[r].pc \in Opened
      PROVE  Begun'
  BY <1>2, <1>3 DEF Begun, Typed
<1>4. CASE \E cmd \in Command : runImporterAdmin(r, cmd)
  BY <1>3, <1>4, AdminIs DEF runImporterAdmin, dbVars, Opened, Lines
<1>5. CASE createImportRun(r)
  <2>1. Len(h[r].records) \in Nat
    BY <1>5, RecTyped DEF createImportRun, Busy
  <2>2. NewRun(r) # NULL
    BY <2>1, RowAssumption DEF NewRun, RunRow, NoRows, Counts
  <2>. QED
    BY <1>2, <1>5, <2>2 DEF createImportRun, Typed, Rows
<1>6. CASE UNCHANGED runs /\ h[r].pc \in Opened
  BY <1>3, <1>6
<1>7. CASE markImportRunFailed(r) \/ finishImportRun(r)
  <2>1. h'[r].pc = "done" /\ \A s \in Run \ {r} : runs'[s] = runs[s]
    BY <1>7, ExitIs DEF markImportRunFailed, finishImportRun, Typed, Rows
  <2>. QED
    BY <1>2, <2>1 DEF Opened, Lines
<1>8. CASE RunFails(r) \/ Killed(r)
  <2>1. h'[r].pc = "done" /\ UNCHANGED runs
    BY <1>8, ExitIs, KilledIs DEF RunFails, Killed, dbVars
  <2>. QED
    BY <1>3, <2>1 DEF Opened, Lines
<1>. QED
  BY <1>4, <1>5, <1>6, <1>7, <1>8
  DEF Statement, findImportRecordIdentity, prepareImportRecord, Exists, CheckQuota, AppendEvent,
      CommitLine, CommitLineUnconfirmed, LineFails, dbVars, Opened, Lines

(* Every step keeps the types.                                             *)
LEMMA TypedNext == Typed /\ [Next]_vars => Typed'
<1>. SUFFICES ASSUME Typed, [Next]_vars PROVE Typed'
  OBVIOUS
<1>1. CASE UNCHANGED vars
  BY <1>1 DEF vars, dbVars, Typed, Rows, Commands, Found, Begun, Rec
<1>2. ASSUME NEW e \in Live, IngestLive(e) PROVE Typed'
  <2>1. [group |-> e.group, day |-> e.day, from |-> <<>>] \in EventRow
    BY ImporterAssumption DEF EventRow
  <2>2. Rows'
    BY <1>2, <2>1 DEF IngestLive, Typed, Rows
  <2>. QED
    BY <1>2, <2>2 DEF IngestLive, Typed, Commands, Found, Begun, Rec
<1>3. ASSUME NEW l \in Limit, SetLimit(l) PROVE Typed'
  BY <1>3 DEF SetLimit, Typed, Rows, Commands, Found, Begun, Rec
<1>. QED
  BY <1>1, <1>2, <1>3, CommandTyped, CommandBegun DEF Next, Alone, Typed

(* Rows and commands keep their types, and the stages theirs.              *)
THEOREM ImporterTyped == Spec => []Typed
<1>. QED
  BY TypedInit, TypedNext, PTL DEF Spec

-----------------------------------------------------------------------------
(* The commands that take no step keep their lines.                        *)
LEMMA OthersKept ==
  ASSUME NEW r \in Run, Alone(r), NEW s \in Run \ {r}
  PROVE  h'[s] = h[s] /\ Rec(s)' = Rec(s)
  BY RecKept DEF Alone

(* What names a line is not what stands for none.                          *)
LEMMA IdentIs ==
  ASSUME NEW i \in Ident
  PROVE  i # <<>>
  BY DEF Ident

(* A step that locks no line, and says nothing of its event.               *)
LEMMA HeldQuiet ==
  ASSUME Typed, LedgerHeld, NEW r \in Run, Alone(r), events' = events, ledger' = ledger,
         h'[r].locked => h[r].locked /\ h'[r].known = h[r].known /\ Rec(r)' = Rec(r),
         h'[r].receipt \in {"", "failed"}
  PROVE  LedgerHeld'
<1>1. \A s \in Run : h'[s].locked =>
        h[s].locked /\ h'[s].known = h[s].known /\ Rec(s)' = Rec(s)
  BY OthersKept
<1>2. \A s \in Run : h'[s].receipt \in {"applied", "duplicate"} =>
        h'[s].receipt = h[s].receipt /\ Rec(s)' = Rec(s)
  BY OthersKept
<1>3. LinesHeld'
  BY <1>1 DEF LedgerHeld, LinesHeld
<1>4. ReceiptsHeld'
  BY ZenonT(30), <1>2 DEF LedgerHeld, ReceiptsHeld
<1>5. LedgerTrue'
  BY DEF LedgerHeld, LedgerTrue
<1>. QED
  BY <1>3, <1>4, <1>5 DEF LedgerHeld

(* A line is locked, its row found failed or not at all.                   *)
LEMMA HeldLocked ==
  ASSUME Typed, LedgerHeld, NEW r \in Run, Alone(r), Same(r), events' = events, ledger' = ledger,
         ~LineLocked(r), h'[r].receipt = "",
         IF h'[r].known
           THEN Rec(r).ident \in DOMAIN ledger /\ ledger[Rec(r).ident].status = "failed"
           ELSE Rec(r).ident \notin DOMAIN ledger
  PROVE  LedgerHeld'
<1>1. \A s \in Run : Rec(s)' = Rec(s)
  BY OthersKept, RecKept
<1>2. \A s \in Run \ {r} : h'[s] = h[s]
  BY OthersKept
<1>3. \A s \in Run \ {r} : h[s].locked => Rec(s).ident # Rec(r).ident
  BY DEF LineLocked
<1>4. LinesHeld'
  BY ZenonT(30), <1>1, <1>2, <1>3 DEF LedgerHeld, LinesHeld
<1>5. ReceiptsHeld'
  BY ZenonT(30), <1>1, <1>2 DEF LedgerHeld, ReceiptsHeld
<1>6. LedgerTrue'
  BY DEF LedgerHeld, LedgerTrue
<1>. QED
  BY <1>4, <1>5, <1>6 DEF LedgerHeld

(* The event of a line that is locked did not come from that line.         *)
LEMMA FromElsewhere ==
  ASSUME Typed, LedgerHeld, NEW r \in Run, h[r].locked, NEW e \in EventID, events[e] # NULL,
         Rec(r) \in Record
  PROVE  events[e].from # Rec(r).ident
<1>1. Rec(r).ident # <<>>
  <2>1. Rec(r).ident \in Ident
    BY DEF Record
  <2>. QED
    BY <2>1, IdentIs
<1>2. Rec(r).ident \in DOMAIN ledger => ledger[Rec(r).ident].status = "failed"
  BY DEF LedgerHeld, LinesHeld
<1>. QED
  BY <1>1, <1>2 DEF LedgerHeld, LedgerTrue

(* Ingest finds the event, or inserts it while nobody else does.           *)
LEMMA HeldReceipt ==
  ASSUME Typed, LedgerHeld, NEW r \in Run, Alone(r), Same(r), events' = events, ledger' = ledger,
         h[r].locked, h'[r].known = h[r].known, Rec(r) \in Record,
         \/ h'[r].receipt = "applied" /\ events[Rec(r).event] = NULL /\ ~EventLocked(r)
         \/ h'[r].receipt = "duplicate" /\ events[Rec(r).event] # NULL
  PROVE  LedgerHeld'
<1>1. \A s \in Run : Rec(s)' = Rec(s)
  BY OthersKept, RecKept
<1>2. \A s \in Run \ {r} : h'[s] = h[s]
  BY OthersKept
<1>3. LinesHeld'
  BY <1>1, <1>2 DEF LedgerHeld, LinesHeld
<1>4. h'[r].receipt = "duplicate" => events[Rec(r).event].from # Rec(r).ident
  BY FromElsewhere DEF Record
<1>5. h'[r].receipt = "applied" =>
        \A s \in Run \ {r} : h[s].receipt = "applied" => Rec(s).event # Rec(r).event
  BY DEF EventLocked
<1>6. ReceiptsHeld'
  BY <1>1, <1>2, <1>4, <1>5 DEF LedgerHeld, ReceiptsHeld
<1>7. LedgerTrue'
  BY DEF LedgerHeld, LedgerTrue
<1>. QED
  BY <1>3, <1>6, <1>7 DEF LedgerHeld

(* The commit of a line.                                                   *)
LEMMA HeldCommit ==
  ASSUME Typed, LedgerHeld, NEW r \in Run, h[r].pc = "commit", ApplyLine(r), Alone(r),
         ~h'[r].locked, h'[r].receipt = ""
  PROVE  LedgerHeld'
<1>. DEFINE i == Rec(r).ident
            e == Rec(r).event
<1>1. /\ Rec(r) \in Record /\ h[r].locked /\ h[r].receipt \in Settlement /\ e \in EventID
      /\ i # <<>>
  <2>1. Rec(r) \in Record /\ h[r].locked /\ h[r].receipt \in Settlement
    BY ApplyIs
  <2>2. e \in EventID /\ i \in Ident
    BY <2>1 DEF Record
  <2>3. i # <<>>
    BY <2>2, IdentIs
  <2>. QED
    BY <2>1, <2>2, <2>3
<1>2. /\ \A x \in EventID \ {e} : events'[x] = events[x]
      /\ h[r].receipt # "applied" => events'[e] = events[e]
      /\ h[r].receipt = "applied" => events'[e] # NULL /\ events'[e].from = i
  <2>1. /\ \A x \in EventID \ {e} : events'[x] = events[x]
        /\ events'[e] = IF h[r].receipt = "applied" THEN EventOf(r) ELSE events[e]
        /\ EventOf(r) \in EventRow /\ EventOf(r).from = i
    BY ApplyIs
  <2>2. EventOf(r) # NULL
    BY <2>1, RowAssumption
  <2>. HIDE DEF i, e
  <2>. QED
    BY <2>1, <2>2
<1>3. /\ DOMAIN ledger' = DOMAIN ledger \cup {i}
      /\ \A x \in DOMAIN ledger \ {i} : ledger'[x] = ledger[x]
      /\ ledger'[i].status = h[r].receipt /\ ledger'[i].event = e
  BY ApplyIs
<1>4. \A s \in Run \ {r} : h'[s] = h[s] /\ Rec(s)' = Rec(s)
  BY OthersKept
<1>5. \A s \in Run \ {r} : h[s].locked => Rec(s).ident # i
  BY <1>1 DEF LedgerHeld, LinesHeld
<1>6. h[r].receipt = "applied" => events[e] = NULL
  BY DEF LedgerHeld, ReceiptsHeld
<1>7. i \in DOMAIN ledger => ledger[i].status = "failed"
  BY <1>1 DEF LedgerHeld, LinesHeld
<1>8. \A x \in EventID : events[x] # NULL => events'[x] = events[x] /\ events[x].from # i
  BY <1>1, <1>2, <1>6, FromElsewhere
<1>9. LinesHeld'
  <2>. HIDE DEF i
  <2>1. \A s \in Run \ {r} : h[s].locked =>
          IF h[s].known
            THEN Rec(s).ident \in DOMAIN ledger' /\ ledger'[Rec(s).ident].status = "failed"
            ELSE Rec(s).ident \notin DOMAIN ledger'
    BY <1>3, <1>5 DEF LedgerHeld, LinesHeld
  <2>. QED
    BY <1>4, <2>1 DEF LedgerHeld, LinesHeld
<1>10. ReceiptsHeld'
  <2>1. \A s \in Run \ {r} : h[s].receipt = "applied" => events'[Rec(s).event] = NULL
    <3>. SUFFICES ASSUME NEW s \in Run \ {r}, h[s].receipt = "applied"
                  PROVE  events'[Rec(s).event] = NULL
      OBVIOUS
    <3>1. Rec(s) \in Record
      BY RecTyped DEF Typed, Commands, Staged, Busy, Opened, Lines
    <3>2. events[Rec(s).event] = NULL /\ (h[r].receipt = "applied" => Rec(s).event # e)
      BY DEF LedgerHeld, ReceiptsHeld
    <3>. QED
      BY <1>2, <3>1, <3>2 DEF Record
  <2>2. \A s \in Run \ {r} : h[s].receipt = "duplicate" =>
          events'[Rec(s).event] # NULL /\ events'[Rec(s).event].from # Rec(s).ident
    <3>. SUFFICES ASSUME NEW s \in Run \ {r}, h[s].receipt = "duplicate"
                  PROVE  events'[Rec(s).event] # NULL /\ events'[Rec(s).event].from # Rec(s).ident
      OBVIOUS
    <3>1. Rec(s) \in Record
      BY RecTyped DEF Typed, Commands, Staged, Busy, Opened, Lines
    <3>2. events[Rec(s).event] # NULL /\ events[Rec(s).event].from # Rec(s).ident
      BY DEF LedgerHeld, ReceiptsHeld
    <3>. QED
      BY <1>8, <3>1, <3>2 DEF Record
  <2>. QED
    BY ZenonT(30), <1>4, <2>1, <2>2 DEF LedgerHeld, ReceiptsHeld
<1>11. LedgerTrue'
  <2>. HIDE DEF i, e
  <2>1. ASSUME NEW x \in DOMAIN ledger'
        PROVE  /\ ledger'[x].status = "applied" =>
                    events'[ledger'[x].event] # NULL /\ events'[ledger'[x].event].from = x
               /\ ledger'[x].status = "duplicate" =>
                    events'[ledger'[x].event] # NULL /\ events'[ledger'[x].event].from # x
    <3>1. CASE x = i
      <4>1. h[r].receipt = "duplicate" => events[e] # NULL /\ events[e].from # i
        BY DEF LedgerHeld, ReceiptsHeld, i, e
      <4>. QED
        BY <1>1, <1>2, <1>3, <3>1, <4>1
    <3>2. CASE x # i
      <4>1. x \in DOMAIN ledger /\ ledger'[x] = ledger[x] /\ ledger[x].event \in EventID
        BY <1>3, <2>1, <3>2 DEF Typed, Rows, LedgerRow
      <4>2. /\ ledger[x].status = "applied" =>
                 events[ledger[x].event] # NULL /\ events[ledger[x].event].from = x
            /\ ledger[x].status = "duplicate" =>
                 events[ledger[x].event] # NULL /\ events[ledger[x].event].from # x
        BY <4>1 DEF LedgerHeld, LedgerTrue
      <4>. QED
        BY <1>8, <4>1, <4>2
    <3>. QED
      BY <3>1, <3>2
  <2>2. ASSUME NEW x \in EventID, events'[x] # NULL, events'[x].from # <<>>
        PROVE  /\ events'[x].from \in DOMAIN ledger'
               /\ ledger'[events'[x].from].status = "applied"
               /\ ledger'[events'[x].from].event = x
    <3>1. CASE events[x] # NULL
      <4>1. /\ events'[x] = events[x] /\ events[x].from # i /\ events[x].from \in DOMAIN ledger
            /\ ledger[events[x].from].status = "applied" /\ ledger[events[x].from].event = x
        BY <1>8, <2>2, <3>1 DEF LedgerHeld, LedgerTrue
      <4>. QED
        BY <1>3, <4>1
    <3>2. CASE events[x] = NULL
      <4>1. x = e /\ h[r].receipt = "applied"
        BY <1>2, <2>2, <3>2
      <4>. QED
        BY <1>2, <1>3, <4>1
    <3>. QED
      BY <3>1, <3>2
  <2>. QED
    BY <2>1, <2>2 DEF LedgerTrue
<1>. QED
  BY <1>9, <1>10, <1>11 DEF LedgerHeld

(* The ledger holds at first, and is kept by every step.                   *)
LEMMA LedgerInit == Init => LedgerHeld
<1>. SUFFICES ASSUME Init PROVE LedgerHeld
  OBVIOUS
<1>1. /\ \A r \in Run : ~h[r].locked /\ h[r].receipt = ""
      /\ DOMAIN ledger = {} /\ \A e \in EventID : events[e] = NULL
  <2>1. \A r \in Run : h[r] = Idle
    BY DEF Init
  <2>2. Idle.locked = FALSE /\ Idle.receipt = ""
    BY DEF Idle
  <2>3. DOMAIN ledger = {}
    BY DEF Init
  <2>. QED
    BY <2>1, <2>2, <2>3 DEF Init
<1>. QED
  BY <1>1 DEF LedgerHeld, LinesHeld, ReceiptsHeld, LedgerTrue

(* A step of a command.                                                    *)
LEMMA CommandLedger ==
  ASSUME Typed, LedgerHeld, NEW r \in Run,
         \/ \E cmd \in Command : runImporterAdmin(r, cmd)
         \/ Statement(r) \/ CommitLineUnconfirmed(r) \/ LineFails(r) \/ RunFails(r) \/ Killed(r)
  PROVE  LedgerHeld'
<1>1. ASSUME UNCHANGED <<events, ledger>>, ~h'[r].locked, h'[r].receipt = ""
      PROVE  LedgerHeld'
  BY <1>1, CommandTyped, HeldQuiet
<1>2. CASE \E cmd \in Command : runImporterAdmin(r, cmd)
  BY <1>1, <1>2, AdminIs DEF runImporterAdmin, dbVars
<1>3. CASE createImportRun(r)
  BY <1>1, <1>3, CreateIs DEF createImportRun
<1>4. ASSUME h[r].pc \in Lines, LineError(r), UNCHANGED <<events, ledger>> PROVE LedgerHeld'
  BY <1>1, <1>4, LineErrorIs
<1>5. CASE findImportRecordIdentity(r)
  <2>1. UNCHANGED <<events, ledger>> /\ h[r].pc = "find"
    BY <1>5 DEF findImportRecordIdentity, dbVars
  <2>2. CASE NextLine(r, "skipped")
    BY <1>1, <2>1, <2>2, NextLineIs DEF Names, Lines
  <2>3. CASE ~NextLine(r, "skipped")
    <3>1. /\ Alone(r) /\ Same(r) /\ h'[r].receipt = "" /\ h'[r].locked = h'[r].known
          /\ h'[r].locked => /\ Rec(r).ident \in DOMAIN ledger /\ ~LineLocked(r)
                             /\ ledger[Rec(r).ident].status = "failed"
      BY <1>5, <2>3, FindIs
    <3>2. CASE h'[r].locked
      BY <2>1, <3>1, <3>2, HeldLocked
    <3>3. CASE ~h'[r].locked
      BY <1>1, <2>1, <3>1, <3>3
    <3>. QED
      BY <3>2, <3>3
  <2>. QED
    BY <2>2, <2>3
<1>6. CASE prepareImportRecord(r)
  <2>1. UNCHANGED <<events, ledger>> /\ h[r].pc = "prepare"
    BY <1>6 DEF prepareImportRecord, dbVars
  <2>2. CASE LineError(r)
    BY <1>4, <2>1, <2>2 DEF Lines
  <2>3. CASE ~LineError(r)
    <3>1. /\ Alone(r) /\ Same(r) /\ h'[r].receipt = "" /\ h'[r].known = h[r].known
          /\ h[r].locked = h[r].known
          /\ ~h[r].known => Rec(r).ident \notin DOMAIN ledger /\ ~LineLocked(r)
      BY <1>6, <2>3, PrepareIs
    <3>2. CASE h[r].known
      BY <2>1, <3>1, <3>2, HeldQuiet, RecKept
    <3>3. CASE ~h[r].known
      BY <2>1, <3>1, <3>3, HeldLocked
    <3>. QED
      BY <3>2, <3>3
  <2>. QED
    BY <2>2, <2>3
<1>7. ASSUME h[r].pc \in {"exists", "quota", "append"}, UNCHANGED dbVars,
             NEW to \in {"quota", "append", "commit"}, NEW status \in {"", "failed"},
             Receipt(r, to, status), to = "commit" <=> status = "failed"
      PROVE  LedgerHeld'
  <2>1. /\ Alone(r) /\ Same(r) /\ h'[r].receipt = status /\ h[r].locked
        /\ h'[r].known = h[r].known
    BY <1>7, ReceiptIs DEF Settlement
  <2>. QED
    BY <1>7, <2>1, HeldQuiet, RecKept DEF dbVars
<1>8. ASSUME NEW status \in {"applied", "duplicate"}, h[r].pc \in {"exists", "append"},
             Receipt(r, "commit", status), UNCHANGED dbVars,
             status = "applied" => events[Rec(r).event] = NULL /\ ~EventLocked(r),
             status = "duplicate" => events[Rec(r).event] # NULL
      PROVE  LedgerHeld'
  <2>1. /\ Alone(r) /\ Same(r) /\ h'[r].receipt = status /\ h[r].locked
        /\ h'[r].known = h[r].known
    BY <1>8, ReceiptIs DEF Settlement
  <2>2. Rec(r) \in Record
    BY <1>8, RecTyped DEF Busy, Opened, Lines
  <2>. QED
    BY <1>8, <2>1, <2>2, HeldReceipt DEF dbVars
<1>9. CASE Exists(r)
  <2>1. CASE events[Rec(r).event] # NULL
    BY <1>8, <1>9, <2>1 DEF Exists
  <2>2. CASE events[Rec(r).event] = NULL
    BY <1>7, <1>9, <2>2 DEF Exists
  <2>. QED
    BY <2>1, <2>2
<1>10. CASE CheckQuota(r)
  <2>1. CASE Receipt(r, "append", "")
    BY <1>7, <1>10, <2>1 DEF CheckQuota
  <2>2. CASE Receipt(r, "commit", "failed")
    BY <1>7, <1>10, <2>2 DEF CheckQuota
  <2>. QED
    BY <1>10, <2>1, <2>2 DEF CheckQuota
<1>11. CASE AppendEvent(r)
  <2>1. CASE events[Rec(r).event] # NULL
    BY <1>8, <1>11, <2>1 DEF AppendEvent
  <2>2. CASE events[Rec(r).event] = NULL
    BY <1>8, <1>11, <2>2 DEF AppendEvent
  <2>. QED
    BY <2>1, <2>2
<1>12. CASE CommitLine(r)
  <2>1. h[r].receipt \in Names /\ h[r].pc \in Lines
    BY <1>12, ApplyIs DEF CommitLine, Names, Settlement, Lines
  <2>. QED
    BY <1>12, <2>1, CommandTyped, NextLineIs, HeldCommit DEF CommitLine
<1>13. CASE CommitLineUnconfirmed(r)
  <2>1. ~h'[r].locked /\ h'[r].receipt = ""
    BY <1>13, LineErrorIs DEF CommitLineUnconfirmed, Lines
  <2>. QED
    BY <1>13, <2>1, CommandTyped, HeldCommit DEF CommitLineUnconfirmed
<1>14. CASE LineFails(r)
  BY <1>4, <1>14 DEF LineFails, Lines, dbVars
<1>15. CASE markImportRunFailed(r)
  BY <1>1, <1>15, ExitIs DEF markImportRunFailed
<1>16. CASE finishImportRun(r)
  BY <1>1, <1>16, ExitIs DEF finishImportRun
<1>17. CASE RunFails(r)
  BY <1>1, <1>17, ExitIs DEF RunFails, dbVars
<1>18. CASE Killed(r)
  <2>1. UNCHANGED <<events, ledger>>
    BY <1>18 DEF Killed, dbVars
  <2>. QED
    BY <1>1, <1>18, <2>1, KilledIs
<1>. QED
  BY <1>2, <1>3, <1>5, <1>6, <1>9, <1>10, <1>11, <1>12, <1>13, <1>14, <1>15, <1>16, <1>17, <1>18
  DEF Statement

(* The live ingest, which no line is about to be applied against.          *)
LEMMA LiveLedger ==
  ASSUME Typed, LedgerHeld, NEW e \in Live, IngestLive(e)
  PROVE  LedgerHeld'
<1>1. e.id \in EventID
  BY ImporterAssumption
<1>2. /\ events[e.id] = NULL /\ h' = h /\ ledger' = ledger
      /\ \A r \in Run : ~(h[r].receipt = "applied" /\ Rec(r).event = e.id)
      /\ \A x \in EventID \ {e.id} : events'[x] = events[x]
      /\ events'[e.id] = [group |-> e.group, day |-> e.day, from |-> <<>>]
  BY <1>1 DEF IngestLive, Typed, Rows
<1>3. events'[e.id].from = <<>>
  BY <1>2
<1>4. \A r \in Run : Rec(r)' = Rec(r)
  BY <1>2 DEF Rec
<1>5. \A x \in EventID : events[x] # NULL => x # e.id /\ events'[x] = events[x]
  BY <1>2
<1>6. \A r \in Run : h[r].receipt \in Settlement => Rec(r).event \in EventID
  BY RecTyped DEF Typed, Commands, Staged, Busy, Opened, Lines, Record, Settlement
<1>7. LinesHeld'
  BY <1>2, <1>4 DEF LedgerHeld, LinesHeld
<1>8. ReceiptsHeld'
  <2>1. \A r \in Run : h[r].receipt = "applied" => events'[Rec(r).event] = NULL
    BY <1>2, <1>6 DEF LedgerHeld, ReceiptsHeld, Settlement
  <2>2. \A r \in Run : h[r].receipt = "duplicate" =>
          events'[Rec(r).event] # NULL /\ events'[Rec(r).event].from # Rec(r).ident
    BY <1>5, <1>6 DEF LedgerHeld, ReceiptsHeld, Settlement
  <2>. QED
    BY <1>2, <1>4, <2>1, <2>2 DEF LedgerHeld, ReceiptsHeld
<1>9. LedgerTrue'
  <2>1. \A i \in DOMAIN ledger : ledger[i].event \in EventID
    BY DEF Typed, Rows, LedgerRow
  <2>2. \A x \in EventID : events'[x] # NULL /\ events'[x].from # <<>> => events'[x] = events[x]
    BY <1>2, <1>3
  <2>. QED
    BY <1>2, <1>5, <2>1, <2>2 DEF LedgerHeld, LedgerTrue
<1>. QED
  BY <1>7, <1>8, <1>9 DEF LedgerHeld

(* Every step keeps the ledger.                                            *)
LEMMA LedgerNext == Typed /\ LedgerHeld /\ [Next]_vars => LedgerHeld'
<1>. SUFFICES ASSUME Typed, LedgerHeld, [Next]_vars PROVE LedgerHeld'
  OBVIOUS
<1>1. CASE UNCHANGED <<events, ledger, h>>
  BY <1>1 DEF LedgerHeld, LinesHeld, ReceiptsHeld, LedgerTrue, Rec
<1>2. ASSUME NEW l \in Limit, SetLimit(l) PROVE LedgerHeld'
  BY <1>1, <1>2 DEF SetLimit
<1>3. CASE UNCHANGED vars
  BY <1>1, <1>3 DEF vars, dbVars
<1>. QED
  BY <1>2, <1>3, CommandLedger, LiveLedger DEF Next

(* The ledger says of every line what became of its event.                 *)
THEOREM ImporterLedger == Spec => []LedgerTrue
<1>1. LedgerHeld => LedgerTrue
  BY DEF LedgerHeld
<1>. QED
  BY <1>1, TypedInit, TypedNext, LedgerInit, LedgerNext, PTL DEF Spec

-----------------------------------------------------------------------------
(* The rows that a run owns, how many there are of each status, and the    *)
(* counts that agree with them.                                            *)
Owned(r, status) == {i \in DOMAIN ledger : ledger[i].run = r /\ ledger[i].status = status}

Tally == [r \in Run |-> [status \in Settlement |-> Cardinality(Owned(r, status))]]

Balanced ==
  {x \in Run \X Counts :
    /\ x[2].applied = Tally[x[1]].applied
    /\ x[2].duplicate = Tally[x[1]].duplicate
    /\ x[2].failed >= Tally[x[1]].failed}

Rowless == {r \in Run : \A i \in DOMAIN ledger : ledger[i].run # r}

SettledRows == {i \in DOMAIN ledger : ledger[i].status \in {"applied", "duplicate"}}

Total(c) == c.applied + c.duplicate + c.skipped + c.failed

(* How many lines a command has come past.                                 *)
Past(x) == IF x.pc = "finish" THEN Len(x.records) ELSE x.at - 1

(* A run counts the lines it has come past, each of which is settled       *)
(* unless one of them failed; a run that is finished is audited.           *)
Accounted ==
  {r \in Run :
    /\ h[r].pc \in {"idle", "create"} => runs[r] = NULL /\ h[r].at = 1 /\ h[r].counts = NoRows
    /\ h[r].pc \in Opened => runs[r].status = "running"
    /\ runs[r] = NULL => r \in Rowless
    /\ runs[r] # NULL =>
         h[r].cmd \in Command /\ Good(h[r].cmd) /\ runs[r].total = Len(h[r].records)
    /\ h[r].pc \in Lines \cup {"finish"} =>
         /\ <<r, h[r].counts>> \in Balanced /\ Total(h[r].counts) = Past(h[r])
         /\ \A i \in 1 .. Past(h[r]) :
              h[r].records[i].ident \in SettledRows \/ h[r].counts.failed > 0
    /\ runs[r] # NULL /\ runs[r].status \in Finished =>
         <<r, runs[r].counts>> \in Balanced /\ Total(runs[r].counts) = runs[r].total
    /\ audit[r] = IF runs[r] # NULL /\ runs[r].status \in Finished THEN runs[r].status ELSE NULL
    /\ h[r].exit = 0 /\ h[r].cmd.mode = "apply" =>
         /\ runs[r] # NULL /\ runs[r].status = "completed"
         /\ \A i \in DOMAIN h[r].records : h[r].records[i].ident \in SettledRows}

RunsHeld == Run \subseteq Accounted

(* The rows a run owns can be counted.                                     *)
LEMMA OwnedFinite ==
  ASSUME Typed, NEW r \in Run, NEW status \in Settlement
  PROVE  /\ IsFiniteSet(Owned(r, status)) /\ Cardinality(Owned(r, status)) \in Nat
         /\ Tally[r][status] = Cardinality(Owned(r, status))
<1>1. Owned(r, status) \subseteq DOMAIN ledger
  BY DEF Owned
<1>2. IsFiniteSet(Owned(r, status))
  <2>1. IsFiniteSet(DOMAIN ledger)
    BY DEF Typed, Rows
  <2>. QED
    BY <1>1, <2>1, FS_Subset
<1>3. Tally[r][status] = Cardinality(Owned(r, status))
  BY DEF Tally
<1>. QED
  BY <1>2, <1>3, FS_CardinalityType

(* The commit of a line by r: it owns one row more with the status of its  *)
(* receipt, and who owned the row before owned it as failed.               *)
LEMMA TallyCommit ==
  ASSUME Typed, Typed', LedgerHeld, NEW r \in Run, h[r].pc = "commit", ApplyLine(r)
  PROVE  /\ \A s \in Run \ {r} :
              /\ Tally'[s].applied = Tally[s].applied
              /\ Tally'[s].duplicate = Tally[s].duplicate
              /\ Tally'[s].failed <= Tally[s].failed
         /\ Tally'[r].applied =
              Tally[r].applied + (IF h[r].receipt = "applied" THEN 1 ELSE 0)
         /\ Tally'[r].duplicate =
              Tally[r].duplicate + (IF h[r].receipt = "duplicate" THEN 1 ELSE 0)
         /\ Tally'[r].failed <=
              Tally[r].failed + (IF h[r].receipt = "failed" THEN 1 ELSE 0)
<1>. DEFINE i == Rec(r).ident
<1>1. /\ DOMAIN ledger' = DOMAIN ledger \cup {i}
      /\ \A x \in DOMAIN ledger \ {i} : ledger'[x] = ledger[x]
      /\ ledger'[i].run = r /\ ledger'[i].status = h[r].receipt
      /\ h[r].receipt \in Settlement
  BY ApplyIs
<1>2. i \in DOMAIN ledger => ledger[i].status = "failed"
  BY ApplyIs DEF LedgerHeld, LinesHeld
<1>. HIDE DEF i
<1>3. \A s \in Run, status \in Settlement :
        /\ IsFiniteSet(Owned(s, status)) /\ Cardinality(Owned(s, status)) \in Nat
        /\ Tally[s][status] = Cardinality(Owned(s, status))
        /\ IsFiniteSet(Owned(s, status)') /\ Cardinality(Owned(s, status)') \in Nat
        /\ Tally'[s][status] = Cardinality(Owned(s, status)')
  <2>. SUFFICES ASSUME NEW s \in Run, NEW status \in Settlement
                PROVE  /\ IsFiniteSet(Owned(s, status)) /\ Cardinality(Owned(s, status)) \in Nat
                       /\ Tally[s][status] = Cardinality(Owned(s, status))
                       /\ IsFiniteSet(Owned(s, status)') /\ Cardinality(Owned(s, status)') \in Nat
                       /\ Tally'[s][status] = Cardinality(Owned(s, status)')
    OBVIOUS
  <2>1. Owned(s, status)' \subseteq DOMAIN ledger'
    BY DEF Owned
  <2>2. IsFiniteSet(Owned(s, status)')
    <3>1. IsFiniteSet(DOMAIN ledger')
      BY DEF Typed, Rows
    <3>. QED
      BY <2>1, <3>1, FS_Subset
  <2>3. Tally'[s][status] = Cardinality(Owned(s, status)')
    BY DEF Tally
  <2>. QED
    BY <2>2, <2>3, FS_CardinalityType, OwnedFinite
<1>4. \A s \in Run, status \in {"applied", "duplicate"} :
        s # r \/ status # h[r].receipt => Owned(s, status)' = Owned(s, status)
  BY <1>1, <1>2 DEF Owned
<1>5. \A s \in Run : s # r \/ h[r].receipt # "failed" =>
        Owned(s, "failed")' \subseteq Owned(s, "failed")
  BY <1>1, <1>2 DEF Owned
<1>6. Owned(r, "failed")' \subseteq Owned(r, "failed") \cup {i}
  BY <1>1 DEF Owned
<1>7. \A status \in {"applied", "duplicate"} : h[r].receipt = status =>
         Owned(r, status)' = Owned(r, status) \cup {i} /\ i \notin Owned(r, status)
  <2>. SUFFICES ASSUME NEW status \in {"applied", "duplicate"}, h[r].receipt = status
                PROVE  Owned(r, status)' = Owned(r, status) \cup {i} /\ i \notin Owned(r, status)
    OBVIOUS
  <2>1. i \notin Owned(r, status)
    BY <1>2 DEF Owned
  <2>2. \A x : x \in Owned(r, status)' <=> x \in Owned(r, status) \/ x = i
    BY <1>1, <1>2 DEF Owned
  <2>. QED
    BY <2>1, <2>2
<1>8. \A s \in Run \ {r} :
        /\ Tally'[s].applied = Tally[s].applied
        /\ Tally'[s].duplicate = Tally[s].duplicate
  BY <1>3, <1>4 DEF Settlement
<1>9. \A s \in Run : s # r \/ h[r].receipt # "failed" => Tally'[s].failed <= Tally[s].failed
  <2>. SUFFICES ASSUME NEW s \in Run, s # r \/ h[r].receipt # "failed"
                PROVE  Cardinality(Owned(s, "failed")') <= Cardinality(Owned(s, "failed"))
    BY <1>3 DEF Settlement
  <2>. QED
    BY <1>3, <1>5, FS_Subset DEF Settlement
<1>10. h[r].receipt = "failed" => Tally'[r].failed <= Tally[r].failed + 1
  <2>. SUFFICES ASSUME h[r].receipt = "failed"
                PROVE  Cardinality(Owned(r, "failed")') <= Cardinality(Owned(r, "failed")) + 1
    BY <1>3 DEF Settlement
  <2>. DEFINE O == Owned(r, "failed")
              P == Owned(r, "failed")'
  <2>1. IsFiniteSet(O) /\ Cardinality(O) \in Nat
    BY <1>3 DEF Settlement
  <2>2. P \subseteq O \cup {i}
    BY <1>6
  <2>. HIDE DEF O, P
  <2>3. IsFiniteSet(O \cup {i}) /\ Cardinality(O \cup {i}) <= Cardinality(O) + 1
    <3>1. /\ IsFiniteSet(O \cup {i})
          /\ Cardinality(O \cup {i}) = IF i \in O THEN Cardinality(O) ELSE Cardinality(O) + 1
      BY <2>1, FS_AddElement
    <3>. QED
      BY <2>1, <3>1
  <2>4. Cardinality(P) <= Cardinality(O \cup {i}) /\ Cardinality(P) \in Nat
    BY <2>2, <2>3, FS_Subset, FS_CardinalityType
  <2>5. Cardinality(P) <= Cardinality(O) + 1
    BY <2>1, <2>3, <2>4, FS_CardinalityType
  <2>. QED
    BY <2>5 DEF O, P
<1>11. \A status \in {"applied", "duplicate"} :
         Tally'[r][status] = Tally[r][status] + (IF h[r].receipt = status THEN 1 ELSE 0)
  <2>. SUFFICES ASSUME NEW status \in {"applied", "duplicate"}
                PROVE  Cardinality(Owned(r, status)') =
                         Cardinality(Owned(r, status)) + (IF h[r].receipt = status THEN 1 ELSE 0)
    BY <1>3 DEF Settlement
  <2>1. CASE h[r].receipt # status
    BY <1>3, <1>4, <2>1 DEF Settlement
  <2>2. CASE h[r].receipt = status
    <3>. DEFINE O == Owned(r, status)
    <3>1. IsFiniteSet(O) /\ Owned(r, status)' = O \cup {i} /\ i \notin O
      BY <1>3, <1>7, <2>2 DEF Settlement
    <3>. HIDE DEF O
    <3>2. Cardinality(O \cup {i}) = Cardinality(O) + 1
      BY <3>1, FS_AddElement
    <3>. QED
      BY <2>2, <3>1, <3>2 DEF O
  <2>. QED
    BY <2>1, <2>2
<1>12. Tally'[r].failed <= Tally[r].failed + (IF h[r].receipt = "failed" THEN 1 ELSE 0)
  BY <1>3, <1>9, <1>10 DEF Settlement
<1>. QED
  BY <1>8, <1>9, <1>11, <1>12

(* What a step does to the rows that the others count.                     *)
OwnRows(r) ==
  /\ SettledRows \subseteq SettledRows'
  /\ \A s \in Run \ {r} :
       /\ s \in Rowless => s \in Rowless'
       /\ \A c \in Counts : <<s, c>> \in Balanced => <<s, c>> \in Balanced'

(* A step that leaves the ledger leaves all of this.                       *)
LEMMA RowsQuiet ==
  ASSUME ledger' = ledger, NEW r \in Run
  PROVE  /\ Balanced' = Balanced /\ Rowless' = Rowless /\ SettledRows' = SettledRows
         /\ OwnRows(r)
<1>1. Tally' = Tally
  BY DEF Tally, Owned
<1>2. Balanced' = Balanced /\ Rowless' = Rowless /\ SettledRows' = SettledRows
  BY <1>1 DEF Balanced, Rowless, SettledRows
<1>. QED
  BY <1>2 DEF OwnRows

(* The commit of a line settles it, and adds to the counts of its run      *)
(* alone.                                                                  *)
LEMMA RowsCommit ==
  ASSUME Typed, Typed', LedgerHeld, NEW r \in Run, h[r].pc = "commit", ApplyLine(r)
  PROVE  /\ OwnRows(r)
         /\ h[r].receipt # "failed" => Rec(r).ident \in SettledRows'
         /\ \A c, d \in Counts :
              /\ <<r, c>> \in Balanced
              /\ \A n \in Names : d[n] = c[n] + (IF n = h[r].receipt THEN 1 ELSE 0)
              => <<r, d>> \in Balanced'
<1>. DEFINE i == Rec(r).ident
<1>1. /\ DOMAIN ledger' = DOMAIN ledger \cup {i}
      /\ \A x \in DOMAIN ledger \ {i} : ledger'[x] = ledger[x]
      /\ ledger'[i].run = r /\ ledger'[i].status = h[r].receipt
      /\ h[r].receipt \in Settlement
  BY ApplyIs
<1>2. i \in DOMAIN ledger => ledger[i].status = "failed"
  BY ApplyIs DEF LedgerHeld, LinesHeld
<1>. HIDE DEF i
<1>3. SettledRows \subseteq SettledRows' /\ \A s \in Run \ {r} : s \in Rowless => s \in Rowless'
  BY <1>1, <1>2 DEF SettledRows, Rowless
<1>4. h[r].receipt # "failed" => i \in SettledRows'
  BY <1>1 DEF SettledRows, Settlement
<1>5. \A s \in Run : /\ Tally[s].failed \in Nat /\ Tally[s].applied \in Nat
                     /\ Tally[s].duplicate \in Nat /\ Tally'[s].failed \in Nat
  <2>. SUFFICES ASSUME NEW s \in Run
                PROVE  /\ Tally[s].failed \in Nat /\ Tally[s].applied \in Nat
                       /\ Tally[s].duplicate \in Nat /\ Tally'[s].failed \in Nat
    OBVIOUS
  <2>1. /\ Tally[s].failed \in Nat /\ Tally[s].applied \in Nat /\ Tally[s].duplicate \in Nat
    BY OwnedFinite DEF Settlement
  <2>2. Owned(s, "failed")' \subseteq DOMAIN ledger' /\ IsFiniteSet(DOMAIN ledger')
    BY DEF Owned, Typed, Rows
  <2>3. Cardinality(Owned(s, "failed")') \in Nat
    BY <2>2, FS_Subset, FS_CardinalityType
  <2>. QED
    BY <2>1, <2>3 DEF Tally, Settlement
<1>6. \A s \in Run \ {r} : \A c \in Counts : <<s, c>> \in Balanced => <<s, c>> \in Balanced'
  <2>. SUFFICES ASSUME NEW s \in Run \ {r}, NEW c \in Counts, <<s, c>> \in Balanced
                PROVE  <<s, c>> \in Balanced'
    OBVIOUS
  <2>1. /\ c.applied = Tally[s].applied /\ c.duplicate = Tally[s].duplicate
        /\ c.failed >= Tally[s].failed /\ c.failed \in Nat
    BY DEF Balanced, Counts
  <2>2. /\ Tally'[s].applied = Tally[s].applied /\ Tally'[s].duplicate = Tally[s].duplicate
        /\ Tally'[s].failed <= Tally[s].failed
    BY TallyCommit
  <2>3. c.failed >= Tally'[s].failed
    BY <1>5, <2>1, <2>2
  <2>. QED
    BY <2>1, <2>2, <2>3 DEF Balanced
<1>7. ASSUME NEW c \in Counts, NEW d \in Counts, <<r, c>> \in Balanced,
             \A n \in Names : d[n] = c[n] + (IF n = h[r].receipt THEN 1 ELSE 0)
      PROVE  <<r, d>> \in Balanced'
  <2>1. /\ c.applied = Tally[r].applied /\ c.duplicate = Tally[r].duplicate
        /\ c.failed >= Tally[r].failed /\ c.failed \in Nat /\ d.failed \in Nat
    BY <1>7 DEF Balanced, Counts
  <2>2. /\ d.applied = c.applied + (IF h[r].receipt = "applied" THEN 1 ELSE 0)
        /\ d.duplicate = c.duplicate + (IF h[r].receipt = "duplicate" THEN 1 ELSE 0)
        /\ d.failed = c.failed + (IF h[r].receipt = "failed" THEN 1 ELSE 0)
    BY <1>7 DEF Names
  <2>3. /\ d.applied = Tally'[r].applied /\ d.duplicate = Tally'[r].duplicate
    BY <2>1, <2>2, TallyCommit
  <2>4. Tally'[r].failed <= Tally[r].failed + (IF h[r].receipt = "failed" THEN 1 ELSE 0)
    BY TallyCommit
  <2>5. d.failed >= Tally'[r].failed
    BY <1>5, <2>1, <2>2, <2>4
  <2>. QED
    BY <2>3, <2>5 DEF Balanced
<1>. QED
  BY <1>3, <1>4, <1>6, <1>7 DEF OwnRows, i

(* The runs of the others stay accounted for.                              *)
LEMMA OtherRuns ==
  ASSUME Typed, RunsHeld, NEW r \in Run, Alone(r), OwnRows(r), r \in Accounted',
         \A s \in Run \ {r} : runs'[s] = runs[s] /\ audit'[s] = audit[s]
  PROVE  RunsHeld'
<1>. SUFFICES ASSUME NEW s \in Run \ {r} PROVE s \in Accounted'
  BY DEF RunsHeld
<1>1. h'[s] = h[s] /\ runs'[s] = runs[s] /\ audit'[s] = audit[s] /\ s \in Accounted
  BY DEF Alone, RunsHeld
<1>2. h[s].counts \in Counts /\ (runs[s] # NULL => runs[s].counts \in Counts)
  BY DEF Typed, Commands, Handler, Rows, RunRow
<1>3. /\ SettledRows \subseteq SettledRows' /\ (s \in Rowless => s \in Rowless')
      /\ <<s, h[s].counts>> \in Balanced => <<s, h[s].counts>> \in Balanced'
      /\ runs[s] # NULL =>
           (<<s, runs[s].counts>> \in Balanced => <<s, runs[s].counts>> \in Balanced')
  BY <1>2 DEF OwnRows
<1>. QED
  BY <1>1, <1>3 DEF Accounted

(* A line in hand: its run is open, and was asked of good lines.           *)
LEMMA Importing ==
  ASSUME Typed, RunsHeld, NEW r \in Run, h[r].pc \in Opened
  PROVE  /\ runs[r] \in RunRow /\ runs[r] # NULL /\ runs[r].status = "running"
         /\ h[r].cmd \in Command /\ Good(h[r].cmd) /\ runs[r].total = Len(h[r].records)
         /\ audit[r] = NULL /\ h[r].exit = NULL /\ h[r].counts \in Counts
         /\ h[r].records \in Seq(Record) /\ h[r].at \in Nat \ {0}
<1>1. runs[r] # NULL /\ runs[r] \in RunRow
  BY DEF Typed, Begun, Rows
<1>2. r \in Accounted /\ runs[r].status = "running"
  BY DEF RunsHeld, Accounted
<1>3. audit[r] = NULL
  BY <1>2 DEF Accounted, Finished
<1>4. h[r] \in Handler /\ h[r].exit = NULL
  BY DEF Typed, Commands, Staged, Busy
<1>. QED
  BY <1>1, <1>2, <1>3, <1>4 DEF Accounted, Handler

(* A line goes on, with nothing counted.                                   *)
LEMMA RunGoes ==
  ASSUME Typed, RunsHeld, NEW r \in Run, Alone(r), Same(r), UNCHANGED <<ledger, runs, audit>>,
         h[r].pc \in Lines, h'[r].pc \in Lines, h'[r].exit = NULL
  PROVE  RunsHeld'
<1>1. OwnRows(r) /\ Balanced' = Balanced /\ SettledRows' = SettledRows
  BY RowsQuiet
<1>2. /\ runs[r] # NULL /\ runs[r].status = "running" /\ h[r].cmd \in Command /\ Good(h[r].cmd)
      /\ runs[r].total = Len(h[r].records) /\ audit[r] = NULL
  BY Importing DEF Opened
<1>3. Past(h'[r]) = Past(h[r])
  BY DEF Past, Same, Lines
<1>4. /\ <<r, h[r].counts>> \in Balanced /\ Total(h[r].counts) = Past(h[r])
      /\ \A i \in 1 .. Past(h[r]) :
           h[r].records[i].ident \in SettledRows \/ h[r].counts.failed > 0
  BY DEF RunsHeld, Accounted
<1>5. r \in Accounted'
  BY <1>1, <1>2, <1>3, <1>4, ImporterAssumption DEF Accounted, Same, Lines, Finished
<1>. QED
  BY <1>1, <1>5, OtherRuns

(* A line fails, or its commit is not confirmed.                           *)
LEMMA RunStops ==
  ASSUME Typed, RunsHeld, NEW r \in Run, h[r].pc \in Lines, LineError(r), OwnRows(r),
         UNCHANGED <<runs, audit>>
  PROVE  RunsHeld'
<1>1. /\ Alone(r) /\ Same(r) /\ h'[r].exit = NULL /\ h'[r].pc = "failed"
  BY LineErrorIs
<1>2. /\ runs[r] # NULL /\ runs[r].status = "running" /\ h[r].cmd \in Command /\ Good(h[r].cmd)
      /\ runs[r].total = Len(h[r].records) /\ audit[r] = NULL
  BY Importing DEF Opened
<1>3. r \in Accounted'
  BY <1>1, <1>2, ImporterAssumption DEF Accounted, Same, Lines, Finished
<1>. QED
  BY <1>1, <1>3, OtherRuns

(* A command ends without closing its run.                                 *)
LEMMA RunEnds ==
  ASSUME Typed, RunsHeld, NEW r \in Run, Alone(r), Same(r), UNCHANGED <<ledger, runs, audit>>,
         h'[r].pc = "done", h'[r].exit \in {-1, 1}
  PROVE  RunsHeld'
<1>1. /\ OwnRows(r) /\ Balanced' = Balanced /\ SettledRows' = SettledRows /\ Rowless' = Rowless
  BY RowsQuiet
<1>2. r \in Accounted
  BY DEF RunsHeld
<1>3. r \in Accounted'
  BY <1>1, <1>2 DEF Accounted, Same, Opened, Lines
<1>. QED
  BY <1>1, <1>3, OtherRuns

(* The next line, this one counted.                                        *)
LEMMA RunCounts ==
  ASSUME Typed, RunsHeld, NEW r \in Run, NEW status \in Names, h[r].pc \in Lines,
         NextLine(r, status), OwnRows(r), UNCHANGED <<runs, audit>>,
         <<r, h'[r].counts>> \in Balanced',
         status = "failed" \/ Rec(r).ident \in SettledRows'
  PROVE  RunsHeld'
<1>1. /\ Alone(r) /\ h'[r].cmd = h[r].cmd /\ h'[r].records = h[r].records
      /\ h'[r].exit = h[r].exit
      /\ \A n \in Names : h'[r].counts[n] = h[r].counts[n] + (IF n = status THEN 1 ELSE 0)
      /\ \/ h'[r].pc = "find" /\ h'[r].at = h[r].at + 1
         \/ h'[r].pc = "finish" /\ h[r].at = Len(h[r].records) /\ h'[r].at = h[r].at
  BY NextLineIs DEF Alone
<1>2. /\ runs[r] # NULL /\ runs[r].status = "running" /\ h[r].cmd \in Command /\ Good(h[r].cmd)
      /\ runs[r].total = Len(h[r].records) /\ audit[r] = NULL /\ h[r].exit = NULL
      /\ h[r].counts \in Counts /\ h[r].at \in Nat \ {0}
  BY Importing DEF Opened
<1>3. /\ Total(h[r].counts) = Past(h[r])
      /\ \A i \in 1 .. Past(h[r]) :
           h[r].records[i].ident \in SettledRows \/ h[r].counts.failed > 0
  BY DEF RunsHeld, Accounted
<1>4. Past(h[r]) = h[r].at - 1 /\ Past(h'[r]) = h[r].at
  BY <1>1, <1>2 DEF Past, Lines
<1>5. Total(h'[r].counts) = Past(h'[r])
  <2>. DEFINE c == h[r].counts
              d == h'[r].counts
              e(n) == IF n = status THEN 1 ELSE 0
  <2>1. /\ d.applied = c.applied + e("applied") /\ d.duplicate = c.duplicate + e("duplicate")
        /\ d.skipped = c.skipped + e("skipped") /\ d.failed = c.failed + e("failed")
    BY <1>1 DEF Names
  <2>2. c.applied \in Nat /\ c.duplicate \in Nat /\ c.skipped \in Nat /\ c.failed \in Nat
    BY <1>2 DEF Counts
  <2>3. /\ e("applied") \in Nat /\ e("duplicate") \in Nat /\ e("skipped") \in Nat
        /\ e("failed") \in Nat /\ e("applied") + e("duplicate") + e("skipped") + e("failed") = 1
    BY DEF Names
  <2>4. c.applied + c.duplicate + c.skipped + c.failed = h[r].at - 1 /\ h[r].at \in Nat
    BY <1>2, <1>3, <1>4 DEF Total
  <2>. HIDE DEF c, d, e
  <2>5. d.applied + d.duplicate + d.skipped + d.failed = h[r].at
    BY <2>1, <2>2, <2>3, <2>4
  <2>. QED
    BY <1>4, <2>5 DEF Total, d
<1>6. \A i \in 1 .. Past(h'[r]) :
        h'[r].records[i].ident \in SettledRows' \/ h'[r].counts.failed > 0
  <2>. SUFFICES ASSUME NEW i \in 1 .. h[r].at
                PROVE  h[r].records[i].ident \in SettledRows' \/ h'[r].counts.failed > 0
    BY <1>1, <1>4
  <2>1. h'[r].counts.failed = h[r].counts.failed + (IF status = "failed" THEN 1 ELSE 0)
    BY <1>1 DEF Names
  <2>2. h[r].counts.failed \in Nat
    BY <1>2 DEF Counts
  <2>3. CASE i = h[r].at
    BY <2>1, <2>2, <2>3 DEF Rec
  <2>4. CASE i # h[r].at
    <3>1. i \in 1 .. Past(h[r])
      BY <1>2, <1>4, <2>4
    <3>. QED
      BY <1>3, <2>1, <2>2, <3>1 DEF OwnRows
  <2>. QED
    BY <2>3, <2>4
<1>7. r \in Accounted'
  BY <1>1, <1>2, <1>5, <1>6, ImporterAssumption DEF Accounted, Lines, Finished
<1>. QED
  BY <1>1, <1>7, OtherRuns

(* There is no run at first.                                               *)
LEMMA RunsInit == Init => RunsHeld
<1>. SUFFICES ASSUME Init, NEW r \in Run PROVE r \in Accounted
  BY DEF RunsHeld
<1>1. /\ h[r].pc = "idle" /\ h[r].at = 1 /\ h[r].counts = NoRows /\ h[r].exit = NULL
      /\ runs[r] = NULL /\ audit[r] = NULL
  <2>1. h[r] = Idle
    BY DEF Init
  <2>. QED
    BY <2>1 DEF Init, Idle
<1>2. r \in Rowless
  <2>1. DOMAIN ledger = {}
    BY DEF Init
  <2>. QED
    BY <2>1 DEF Rowless
<1>. QED
  BY <1>1, <1>2, ImporterAssumption DEF Accounted, Opened, Lines

(* A command that starts has no run yet, and one that opens it no rows.    *)
LEMMA RunStarts ==
  ASSUME Typed, RunsHeld, NEW r \in Run, NEW cmd \in Command, runImporterAdmin(r, cmd)
  PROVE  RunsHeld'
<1>1. /\ Alone(r) /\ h[r].pc = "idle" /\ h'[r].cmd = cmd /\ h'[r].at = 1
      /\ h'[r].counts = NoRows
      /\ \/ h'[r].pc = "create" /\ h'[r].exit = NULL
         \/ /\ h'[r].pc = "done" /\ h'[r].exit \in {0, 1, 2}
            /\ h'[r].exit = 0 => cmd.mode # "apply"
  BY AdminIs
<1>2. ledger' = ledger /\ runs' = runs /\ audit' = audit
  BY DEF runImporterAdmin, dbVars
<1>3. runs[r] = NULL /\ audit[r] = NULL /\ r \in Rowless
  BY <1>1 DEF RunsHeld, Accounted
<1>4. OwnRows(r) /\ Rowless' = Rowless
  BY <1>2, RowsQuiet
<1>5. r \in Accounted'
  BY <1>1, <1>2, <1>3, <1>4, ImporterAssumption DEF Accounted, Opened, Lines
<1>. QED
  BY <1>1, <1>2, <1>4, <1>5, OtherRuns

(* A run is opened with no line counted.                                   *)
LEMMA RunOpens ==
  ASSUME Typed, RunsHeld, NEW r \in Run, createImportRun(r)
  PROVE  RunsHeld'
<1>1. /\ Alone(r) /\ Same(r) /\ h[r].pc = "create"
      /\ \/ h'[r].pc = "find" /\ h'[r].exit = NULL
         \/ h'[r].pc = "done" /\ h'[r].exit = 1
  BY CreateIs
<1>2. ledger' = ledger /\ audit' = audit /\ runs' = [runs EXCEPT ![r] = NewRun(r)]
  BY DEF createImportRun
<1>3. /\ runs[r] = NULL /\ audit[r] = NULL /\ r \in Rowless /\ h[r].at = 1
      /\ h[r].counts = NoRows
  BY <1>1 DEF RunsHeld, Accounted, Finished
<1>4. OwnRows(r) /\ Balanced' = Balanced
  BY <1>2, RowsQuiet
<1>5. h[r].cmd \in Command /\ Good(h[r].cmd) /\ Len(h[r].records) \in Nat
  BY <1>1, RecTyped DEF Typed, Commands, Staged, Busy
<1>6. /\ runs'[r].status = "running" /\ runs'[r].total = Len(h[r].records) /\ runs'[r] # NULL
      /\ \A s \in Run \ {r} : runs'[s] = runs[s]
  BY <1>2, <1>5, RowAssumption DEF NewRun, RunRow, Counts, NoRows, Typed, Rows
<1>7. <<r, NoRows>> \in Balanced
  <2>1. \A status \in Settlement : Tally[r][status] = 0
    <3>. SUFFICES ASSUME NEW status \in Settlement PROVE Tally[r][status] = 0
      OBVIOUS
    <3>1. Owned(r, status) = {}
      BY <1>3 DEF Owned, Rowless
    <3>. QED
      BY <3>1, FS_EmptySet DEF Tally
  <2>. QED
    BY <2>1 DEF Balanced, NoRows, Counts, Settlement
<1>8. Total(NoRows) = 0 /\ (h'[r].pc = "find" => Past(h'[r]) = 0)
  BY <1>1, <1>3 DEF Total, NoRows, Past, Same
<1>9. r \in Accounted'
  BY <1>1, <1>2, <1>3, <1>4, <1>5, <1>6, <1>7, <1>8, ImporterAssumption
  DEF Accounted, Same, Opened, Lines, Finished
<1>. QED
  BY <1>1, <1>2, <1>4, <1>6, <1>9, OtherRuns

(* A run is closed, as failed or with its counts.                          *)
LEMMA RunMarked ==
  ASSUME Typed, RunsHeld, NEW r \in Run, markImportRunFailed(r)
  PROVE  RunsHeld'
<1>1. Alone(r) /\ Same(r) /\ h'[r].exit = 1 /\ h'[r].pc = "done" /\ h[r].pc = "failed"
  BY ExitIs DEF markImportRunFailed
<1>2. CASE UNCHANGED runs
  BY <1>1, <1>2, RunEnds DEF markImportRunFailed
<1>3. CASE runs' = [runs EXCEPT ![r].status = "failed"]
  <2>1. /\ runs[r] \in RunRow /\ h[r].cmd \in Command /\ Good(h[r].cmd)
        /\ runs[r].total = Len(h[r].records) /\ audit[r] = NULL
    BY <1>1, Importing DEF Opened
  <2>2. /\ runs'[r] \in RunRow /\ runs'[r].status = "failed" /\ runs'[r].total = runs[r].total
        /\ \A s \in Run \ {r} : runs'[s] = runs[s]
    BY <1>3, <2>1 DEF RunRow, Typed, Rows
  <2>3. runs'[r] # NULL
    BY <2>2, RowAssumption
  <2>4. ledger' = ledger /\ audit' = audit
    BY DEF markImportRunFailed
  <2>5. r \in Accounted'
    BY <1>1, <2>1, <2>2, <2>3, <2>4 DEF Accounted, Same, Opened, Lines, Finished
  <2>. QED
    BY <1>1, <2>2, <2>4, <2>5, OtherRuns, RowsQuiet
<1>. QED
  BY <1>2, <1>3 DEF markImportRunFailed

(* What is counted is written when every line was come past.               *)
LEMMA RunCloses ==
  ASSUME Typed, RunsHeld, NEW r \in Run, finishImportRun(r)
  PROVE  RunsHeld'
<1>. DEFINE c == h[r].counts
            status == importRunStatus(c)
<1>1. /\ Alone(r) /\ Same(r) /\ h'[r].pc = "done" /\ h[r].pc = "finish"
      /\ h'[r].exit \in {0, 1} /\ (h'[r].exit = 0 => ~(c.failed > 0))
  <2>1. h[r].pc = "finish"
    BY DEF finishImportRun
  <2>2. \/ Exit(r, 1)
        \/ Exit(r, 0) /\ ~(c.failed > 0)
    BY DEF finishImportRun
  <2>3. \A code \in {0, 1} : Exit(r, code) =>
          Alone(r) /\ Same(r) /\ h'[r].exit = code /\ h'[r].pc = "done"
    BY <2>1, ExitIs
  <2>. QED
    BY <2>1, <2>2, <2>3
<1>2. /\ runs[r] \in RunRow /\ h[r].cmd \in Command /\ Good(h[r].cmd)
      /\ runs[r].total = Len(h[r].records) /\ audit[r] = NULL /\ c \in Counts
      /\ h[r].records \in Seq(Record)
  BY <1>1, Importing DEF Opened
<1>3. /\ <<r, c>> \in Balanced /\ Total(c) = Len(h[r].records)
      /\ \A i \in 1 .. Len(h[r].records) :
           h[r].records[i].ident \in SettledRows \/ c.failed > 0
  BY <1>1 DEF RunsHeld, Accounted, Past
<1>4. status \in Finished /\ (~(c.failed > 0) => status = "completed")
  BY DEF importRunStatus, Finished
<1>5. /\ runs' = [runs EXCEPT ![r].status = status, ![r].counts = c]
      /\ audit' = [audit EXCEPT ![r] = status] /\ ledger' = ledger
  BY DEF finishImportRun
<1>6. OwnRows(r) /\ Balanced' = Balanced /\ SettledRows' = SettledRows
  BY <1>5, RowsQuiet
<1>. HIDE DEF c, status
<1>7. /\ runs'[r] \in RunRow /\ runs'[r].status = status /\ runs'[r].counts = c
      /\ runs'[r].total = runs[r].total /\ \A s \in Run \ {r} : runs'[s] = runs[s]
  BY <1>2, <1>4, <1>5 DEF RunRow, Finished, Typed, Rows
<1>8. runs'[r] # NULL
  BY <1>7, RowAssumption
<1>9. audit'[r] = status /\ \A s \in Run \ {r} : audit'[s] = audit[s]
  BY <1>5 DEF Typed, Rows
<1>10. DOMAIN h[r].records = 1 .. Len(h[r].records)
  BY <1>2
<1>11. r \in Accounted'
  BY <1>1, <1>2, <1>3, <1>4, <1>6, <1>7, <1>8, <1>9, <1>10 DEF Accounted, Same, Opened, Lines
<1>. QED
  BY <1>1, <1>6, <1>7, <1>9, <1>11, OtherRuns

(* A step of a command, and any step.                                      *)
LEMMA CommandRuns ==
  ASSUME Typed, Typed', LedgerHeld, RunsHeld, NEW r \in Run,
         \/ \E cmd \in Command : runImporterAdmin(r, cmd)
         \/ Statement(r) \/ CommitLineUnconfirmed(r) \/ LineFails(r) \/ RunFails(r) \/ Killed(r)
  PROVE  RunsHeld'
<1>1. ASSUME h[r].pc \in Lines, LineError(r), UNCHANGED dbVars PROVE RunsHeld'
  BY <1>1, RunStops, RowsQuiet DEF dbVars
<1>2. CASE findImportRecordIdentity(r)
  <2>1. UNCHANGED <<ledger, runs, audit>> /\ h[r].pc = "find"
    BY <1>2 DEF findImportRecordIdentity, dbVars
  <2>2. CASE NextLine(r, "skipped")
    <3>1. CASE Rec(r).ident \in SettledRows
      <4>1. /\ h'[r].counts \in Counts /\ h[r].counts \in Counts
            /\ \A n \in Names :
                 h'[r].counts[n] = h[r].counts[n] + (IF n = "skipped" THEN 1 ELSE 0)
        BY <2>1, <2>2, NextLineIs, Importing DEF Names, Lines, Opened, Commands, Handler
      <4>2. /\ h'[r].counts.applied = h[r].counts.applied
            /\ h'[r].counts.duplicate = h[r].counts.duplicate
            /\ h'[r].counts.failed = h[r].counts.failed /\ h'[r].counts \in Counts
        <5>1. /\ h'[r].counts.applied = h[r].counts.applied + 0
              /\ h'[r].counts.duplicate = h[r].counts.duplicate + 0
              /\ h'[r].counts.failed = h[r].counts.failed + 0
          BY <4>1 DEF Names
        <5>. QED
          BY <4>1, <5>1 DEF Counts
      <4>3. <<r, h[r].counts>> \in Balanced
        BY <2>1 DEF RunsHeld, Accounted, Lines
      <4>4. <<r, h'[r].counts>> \in Balanced
        BY <4>2, <4>3 DEF Balanced
      <4>. QED
        BY <2>1, <2>2, <3>1, <4>4, RowsQuiet, RunCounts DEF Names, Lines
    <3>2. CASE Rec(r).ident \notin SettledRows
      <4>1. ~(Rec(r).ident \in DOMAIN ledger /\ ledger[Rec(r).ident].status # "failed")
        BY <3>2 DEF SettledRows, Typed, Rows, LedgerRow, Settlement
      <4>2. Alone(r) /\ Same(r) /\ h'[r].exit = NULL /\ h'[r].pc = "prepare"
        BY <1>2, <4>1, FindIs
      <4>. QED
        BY <2>1, <4>2, RunGoes DEF Lines
    <3>. QED
      BY <3>1, <3>2
  <2>3. CASE ~NextLine(r, "skipped")
    <3>1. Alone(r) /\ Same(r) /\ h'[r].exit = NULL /\ h'[r].pc = "prepare"
      BY <1>2, <2>3, FindIs
    <3>. QED
      BY <2>1, <3>1, RunGoes DEF Lines
  <2>. QED
    BY <2>2, <2>3
<1>3. CASE prepareImportRecord(r)
  <2>1. UNCHANGED dbVars /\ h[r].pc = "prepare"
    BY <1>3 DEF prepareImportRecord
  <2>2. CASE LineError(r)
    BY <1>1, <2>1, <2>2 DEF Lines
  <2>3. CASE ~LineError(r)
    <3>1. Alone(r) /\ Same(r) /\ h'[r].exit = NULL /\ h'[r].pc = "exists"
      BY <1>3, <2>3, PrepareIs
    <3>. QED
      BY <2>1, <3>1, RunGoes DEF Lines, dbVars
  <2>. QED
    BY <2>2, <2>3
<1>4. CASE Exists(r) \/ CheckQuota(r) \/ AppendEvent(r)
  <2>1. UNCHANGED dbVars /\ h[r].pc \in Lines
    BY <1>4 DEF Exists, CheckQuota, AppendEvent, Lines
  <2>2. Alone(r) /\ Same(r) /\ h'[r].exit = NULL /\ h'[r].pc \in {"quota", "append", "commit"}
    BY <1>4, ReceiptIs DEF Exists, CheckQuota, AppendEvent, Settlement
  <2>. QED
    BY <2>1, <2>2, RunGoes DEF Lines, dbVars
<1>5. CASE CommitLine(r)
  <2>1. /\ h[r].pc = "commit" /\ ApplyLine(r) /\ NextLine(r, h[r].receipt)
        /\ UNCHANGED <<runs, audit>>
    BY <1>5 DEF CommitLine
  <2>2. h[r].receipt \in Names
    BY <2>1, ApplyIs DEF Names, Settlement
  <2>3. /\ h'[r].counts \in Counts /\ h[r].counts \in Counts
        /\ \A n \in Names :
             h'[r].counts[n] = h[r].counts[n] + (IF n = h[r].receipt THEN 1 ELSE 0)
    BY <2>1, <2>2, NextLineIs, Importing DEF Lines, Opened, Commands, Handler
  <2>4. <<r, h[r].counts>> \in Balanced
    BY <2>1 DEF RunsHeld, Accounted, Lines
  <2>5. /\ OwnRows(r) /\ (h[r].receipt # "failed" => Rec(r).ident \in SettledRows')
        /\ <<r, h'[r].counts>> \in Balanced'
    BY <2>1, <2>3, <2>4, RowsCommit
  <2>. QED
    BY <2>1, <2>2, <2>5, RunCounts DEF Lines
<1>6. CASE CommitLineUnconfirmed(r)
  BY <1>6, RowsCommit, RunStops DEF CommitLineUnconfirmed, Lines
<1>7. CASE LineFails(r)
  BY <1>1, <1>7 DEF LineFails, Lines
<1>8. CASE RunFails(r)
  <2>1. Alone(r) /\ Same(r) /\ h'[r].pc = "done" /\ h'[r].exit = 1
    BY <1>8, ExitIs DEF RunFails
  <2>. QED
    BY <1>8, <2>1, RunEnds DEF RunFails, dbVars
<1>9. CASE Killed(r)
  <2>1. UNCHANGED <<ledger, runs, audit>>
    BY <1>9 DEF Killed, dbVars
  <2>. QED
    BY <1>9, <2>1, KilledIs, RunEnds
<1>. QED
  BY <1>2, <1>3, <1>4, <1>5, <1>6, <1>7, <1>8, <1>9, RunStarts, RunOpens, RunMarked, RunCloses
  DEF Statement

(* Every step keeps the runs accounted for.                                *)
LEMMA RunsNext == Typed /\ Typed' /\ LedgerHeld /\ RunsHeld /\ [Next]_vars => RunsHeld'
<1>. SUFFICES ASSUME Typed, Typed', LedgerHeld, RunsHeld, [Next]_vars PROVE RunsHeld'
  OBVIOUS
<1>1. CASE UNCHANGED <<ledger, runs, audit, h>>
  <2>. SUFFICES ASSUME NEW r \in Run PROVE r \in Accounted'
    BY DEF RunsHeld
  <2>1. Balanced' = Balanced /\ Rowless' = Rowless /\ SettledRows' = SettledRows
    BY <1>1, RowsQuiet
  <2>. QED
    BY <1>1, <2>1 DEF RunsHeld, Accounted
<1>2. CASE UNCHANGED vars \/ (\E e \in Live : IngestLive(e)) \/ \E l \in Limit : SetLimit(l)
  BY <1>1, <1>2 DEF vars, dbVars, IngestLive, SetLimit
<1>. QED
  BY <1>2, CommandRuns DEF Next

(* A run that is called completed went through all of its file, its counts *)
(* are those of the ledger, and it is audited; and a command that says 0   *)
(* leaves no line unsettled.                                               *)
THEOREM ImporterAccounts == Spec => []RunAccounts
<1>1. Typed /\ RunsHeld => RunAccounts
  <2>. SUFFICES ASSUME Typed, RunsHeld, NEW r \in Run
                PROVE  /\ runs[r] # NULL =>
                            \A i \in DOMAIN h[r].cmd.file : LineRead(h[r].cmd.file[i])
                       /\ runs[r] # NULL /\ runs[r].status \in Finished =>
                            LET c == runs[r].counts
                            IN  /\ c.applied + c.duplicate + c.skipped + c.failed = runs[r].total
                                /\ c.applied = RowsOf(r, "applied")
                                /\ c.duplicate = RowsOf(r, "duplicate")
                                /\ c.failed >= RowsOf(r, "failed")
                       /\ audit[r] =
                            IF runs[r] # NULL /\ runs[r].status \notin {"running", "failed"}
                              THEN runs[r].status ELSE NULL
                       /\ h[r].exit = 0 /\ h[r].cmd.mode = "apply" =>
                            /\ runs[r].status = "completed"
                            /\ \A i \in DOMAIN h[r].records : Settled(h[r].records[i].ident)
    BY DEF RunAccounts, Finished
  <2>1. r \in Accounted /\ (runs[r] # NULL => runs[r] \in RunRow)
    BY DEF RunsHeld, Typed, Rows
  <2>2. runs[r] # NULL => \A i \in DOMAIN h[r].cmd.file : LineRead(h[r].cmd.file[i])
    BY <2>1 DEF Accounted, Good, ParseJSONL
  <2>3. \A status \in Settlement : Tally[r][status] = RowsOf(r, status)
    BY DEF Tally, Owned, RowsOf
  <2>4. ASSUME runs[r] # NULL, runs[r].status \in Finished
        PROVE  LET c == runs[r].counts
               IN  /\ c.applied + c.duplicate + c.skipped + c.failed = runs[r].total
                   /\ c.applied = RowsOf(r, "applied") /\ c.duplicate = RowsOf(r, "duplicate")
                   /\ c.failed >= RowsOf(r, "failed")
    <3>1. <<r, runs[r].counts>> \in Balanced /\ Total(runs[r].counts) = runs[r].total
      BY <2>1, <2>4 DEF Accounted
    <3>. QED
      BY <2>3, <3>1 DEF Balanced, Total, Settlement
  <2>5. audit[r] = IF runs[r] # NULL /\ runs[r].status \notin {"running", "failed"}
                     THEN runs[r].status ELSE NULL
    BY <2>1 DEF Accounted, RunRow, Finished
  <2>6. h[r].exit = 0 /\ h[r].cmd.mode = "apply" =>
          /\ runs[r].status = "completed"
          /\ \A i \in DOMAIN h[r].records : Settled(h[r].records[i].ident)
    BY <2>1 DEF Accounted, SettledRows, Settled
  <2>. QED
    BY <2>2, <2>4, <2>5, <2>6
<1>2. Spec => [](Typed /\ LedgerHeld /\ RunsHeld)
  BY TypedInit, TypedNext, LedgerInit, LedgerNext, RunsInit, RunsNext, PTL DEF Spec
<1>. QED
  BY <1>1, <1>2, PTL
=============================================================================
