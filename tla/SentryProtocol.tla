--------------------------- MODULE SentryProtocol ---------------------------
(***************************************************************************)
(* The reading of what Sentry clients send: envelopes, store payloads, log *)
(* items and CSP reports, and the fingerprint that groups an event.  Pure  *)
(* operators; the requests that carry these bodies are in Gateway.         *)
(*                                                                         *)
(* A text is an opaque string, "" one that is blank after trimming, "bad"  *)
(* one that is too long, holds control characters or, where an identifier  *)
(* is expected, is none.  A time is a number, NoTime an absent one and     *)
(* BadTime one that does not parse.  A field no rule below looks at is     *)
(* left out.                                                               *)
(***************************************************************************)
EXTENDS Integers, Sequences, FiniteSets, SequencesExt

CONSTANTS
  MaxItems,   \* MaxEnvelopeItems and minidumpMaxModuleCount
  MaxLogs,    \* MaxLogRecordsPerItem
  MaxBytes,   \* MaxEnvelopeItemBytes
  NoTime,     \* an absent time or length
  BadTime

ASSUME ProtocolAssumption ==
  /\ {MaxItems, MaxLogs, MaxBytes} \subseteq Nat
  /\ NoTime \notin Nat /\ BadTime \notin Nat /\ NoTime # BadTime

(* The first text that is not blank.                                       *)
FirstText(s) ==
  IF \E i \in DOMAIN s : s[i] # ""
  THEN s[CHOOSE i \in DOMAIN s : s[i] # "" /\ \A j \in 1 .. i - 1 : s[j] = ""] ELSE ""

NotBlank(s) == SelectSeq(s, LAMBDA t : t # "")

-----------------------------------------------------------------------------
(* Store payloads and event items.                                         *)

eventKind(itemType, p) ==
  CASE itemType = "transaction" \/ p.type = "transaction" -> "transaction"
    [] p.exceptions # <<>> -> "error"
    [] OTHER -> "default"

Level == {"fatal", "error", "warning", "info", "debug"}

eventLevel(kind, level) ==
  CASE level \in Level -> level
    [] level = "" /\ kind = "transaction" -> "info"
    [] OTHER -> "error"

NoFrame == [file |-> "", path |-> "", function |-> "", line |-> 0, inApp |-> FALSE,
            address |-> NoTime, package |-> "", debugID |-> ""]

NoException == [type |-> "", value |-> "", frames |-> <<>>]

selectedException(p) == IF p.exceptions = <<>> THEN NoException ELSE Last(p.exceptions)

selectedFrame(frames) ==
  LET inApp == SelectSeq(frames, LAMBDA f : f.inApp)
  IN  CASE inApp # <<>> -> Last(inApp)
        [] inApp = <<>> /\ frames # <<>> -> Last(frames)
        [] OTHER -> NoFrame

frameFilename(f) == FirstText(<<f.file, f.path>>)

(* The type and the value of an exception are joined by a colon: of all    *)
(* the candidates for the title of an error the first is never blank.      *)
eventTitle(kind, p) ==
  LET x == selectedException(p)
  IN  CASE kind = "error" -> <<x.type, ":", x.value>>
        [] kind = "transaction" -> <<FirstText(<<p.transaction, p.culprit, "<transaction>">>)>>
        [] kind = "default" ->
             <<FirstText(<<p.message, p.logentry, p.transaction, p.culprit, "<event>">>)>>

defaultGroupingParts(kind, p) ==
  LET x == selectedException(p)
      f == selectedFrame(x.frames)
  IN  CASE kind = "error" -> <<x.type, x.value, frameFilename(f), f.function, ToString(f.line)>>
        [] kind = "transaction" -> <<p.transaction>>
        [] kind = "default" ->
             <<p.level, p.logger, p.message, p.transaction, eventTitle(kind, p)[1]>>

(* expandDefault: a part of an explicit fingerprint may stand for the      *)
(* default parts.                                                          *)
DefaultPart == "{{ default }}"

expandDefault(parts, defaults) ==
  FoldLeft(LAMBDA acc, t : IF t = DefaultPart THEN acc \o defaults ELSE Append(acc, t),
           <<>>, parts)

(* ComputeFingerprint, as what it hashes: the project, the kind of the     *)
(* event, the source of the parts and the parts.  Only a transaction can   *)
(* have blank parts alone, its title takes their place.                    *)
Fingerprint(project, kind, p) ==
  LET kept     == NotBlank(defaultGroupingParts(kind, p))
      defaults == IF kept = <<>> THEN eventTitle(kind, p) ELSE kept
      explicit == NotBlank(p.fingerprint)
  IN  IF explicit # <<>>
      THEN <<project, kind, "explicit", expandDefault(explicit, defaults)>>
      ELSE <<project, kind, kind, defaults>>

(* The tags of the payload are kept as whether some name the address of    *)
(* the client (withoutClientIPTags drops those) and whether there are more.*)
parseTags(p) ==
  (IF p.addressTags = {} THEN {} ELSE {"address"}) \cup (IF p.otherTags THEN {"other"} ELSE {})

withoutClientIPTags(tags) == tags \ {"address"}

(* Each candidate is a list of addresses; the first public one is kept.    *)
clientIPCandidates(p) == p.userIP \cup p.requestIP \cup p.addressTags

firstPublicClientIP(candidates) == "public" \in candidates

(* Slip: the policy of the project is asked for request headers alone.     *)
clientIPTagOfUser(scrub, p) ==
  firstPublicClientIP(IF scrub THEN p.userIP \cup p.addressTags ELSE clientIPCandidates(p))

clientIPTag(scrub, p) == ~scrub /\ firstPublicClientIP(clientIPCandidates(p))

eventTags(scrub, p) ==
  withoutClientIPTags(parseTags(p))
    \cup (IF p.dist = "" THEN {} ELSE {"dist"})
    \cup (IF clientIPTag(scrub, p) THEN {"client_ip"} ELSE {})

(* A trace context is absent, or names a trace and a span.                 *)
NewTransactionTraceContext(c) ==
  c.trace \notin {"", "bad"} /\ c.span \notin {"", "bad"} /\ c.parent # "bad"

transactionTrace(c) == {c.trace, c.span, c.parent} = {""} \/ NewTransactionTraceContext(c)

(* A time of start is optional, a duration is not negative.                *)
transactionDuration(start, end) == start = NoTime \/ (start \in Nat /\ start <= end)

NewTransactionData(name, operation) == name # "" /\ "bad" \notin {name, operation}

transactionData(p) ==
  /\ transactionDuration(p.start, p.time)
  /\ transactionTrace(p.trace)
  /\ NewTransactionData(FirstText(<<p.transaction>> \o eventTitle("transaction", p)), p.operation)

(* A bad span is dropped and never refuses the event.                      *)
spanDuration(s) ==
  NoTime \in {s.start, s.end} \/ (s.start \in Nat /\ s.end \in Nat /\ s.start <= s.end)

NewTransactionSpan(s) == s.id \notin {"", "bad"} /\ "bad" \notin {s.parent, s.operation}

transactionSpans(p) == SelectSeq(p.spans, LAMBDA s : spanDuration(s) /\ NewTransactionSpan(s))

-----------------------------------------------------------------------------
(* Native modules and frames: the module of a frame is the one it names,   *)
(* else the first of its package, else the first whose image holds its     *)
(* address.                                                                *)

NewNativeModule(m) == m.debugID # "" /\ m.file \notin {"", "bad"}

nativeModules(p) == SelectSeq(p.images, NewNativeModule)

ContainsAddress(m, address) ==
  /\ m.address <= address
  /\ IF m.size = 0 THEN address = m.address ELSE address - m.address < m.size

nativeModuleForInstructionAddr(modules, address) ==
  SelectSeq(modules, LAMBDA m : ContainsAddress(m, address))

nativeFrameDebugID(f, modules) ==
  LET byPackage == SelectSeq(modules, LAMBDA m : f.package # "" /\ m.file = f.package)
      byAddress == nativeModuleForInstructionAddr(modules, f.address)
  IN  CASE f.debugID # "" -> f.debugID
        [] f.debugID = "" /\ byPackage # <<>> -> Head(byPackage).debugID
        [] f.debugID = "" /\ byPackage = <<>> /\ byAddress # <<>> -> Head(byAddress).debugID
        [] OTHER -> ""

NewNativeFrame(f) == "bad" \notin {f.function, f.package}

AllFrames(p) == FlattenSeq([i \in DOMAIN p.exceptions |-> p.exceptions[i].frames])

nativeStacktraceFrames(kind, p) ==
  LET frames == SelectSeq(AllFrames(p), LAMBDA f : f.address \in Nat /\ NewNativeFrame(f))
  IN  IF kind # "error" THEN <<>>
      ELSE [i \in DOMAIN frames |->
              [address |-> frames[i].address,
               debugID |-> nativeFrameDebugID(frames[i], nativeModules(p))]]

NewJsFrame(f) ==
  FirstText(<<f.path, f.file>>) \notin {"", "bad"} /\ f.function # "bad" /\ f.line >= 1

jsStacktraceFrames(kind, p) ==
  IF kind # "error" \/ p.platform \notin {"javascript", "node"} THEN <<>>
  ELSE SelectSeq(AllFrames(p), NewJsFrame)

(* A minidump: the modules up to the first that leaves their stream, less  *)
(* those that cannot be read, and the instruction of the exception.  None  *)
(* of it is there when the directory of the streams leaves the file.       *)
parseMinidumpModules(d) ==
  LET within == {i \in DOMAIN d.modules : \A j \in 1..i : d.modules[j].within}
  IN  IF d.directory /\ Len(d.modules) <= MaxItems
      THEN SelectSeq(SubSeq(d.modules, 1, Cardinality(within)), NewNativeModule) ELSE <<>>

parseMinidumpFrames(d) ==
  LET modules == nativeModuleForInstructionAddr(parseMinidumpModules(d), d.instruction)
  IN  IF ~d.directory \/ d.instruction \in {NoTime, 0} THEN <<>>
      ELSE <<[address |-> d.instruction,
              debugID |-> IF modules = <<>> THEN "" ELSE Head(modules).debugID]>>

MinidumpRead(d) == d.magic /\ d.eventID # "bad" /\ d.level \in Level \cup {""}

-----------------------------------------------------------------------------
(* parseEventPayload.  The id of the envelope header, when it has one,     *)
(* replaces the id of the payload.                                         *)

EventIDOf(p, override) == FirstText(<<override, p.eventID>>)

EventRead(itemType, override, p) ==
  /\ p.json
  /\ EventIDOf(p, override) \notin {"", "bad"}
  /\ p.time \in Nat
  /\ p.dist # "bad"
  /\ eventKind(itemType, p) = "transaction" => transactionData(p)

CanonicalEvent(project, scrub, itemType, override, p) ==
  LET kind == eventKind(itemType, p)
  IN  [id          |-> EventIDOf(p, override),
       kind        |-> kind,
       level       |-> eventLevel(kind, p.level),
       title       |-> eventTitle(kind, p),
       fingerprint |-> Fingerprint(project, kind, p),
       tags        |-> eventTags(scrub, p),
       js          |-> jsStacktraceFrames(kind, p),
       native      |-> nativeStacktraceFrames(kind, p),
       spans       |-> IF kind = "transaction" THEN transactionSpans(p) ELSE <<>>]

CreatesIssue(event) == event.kind \in {"error", "default"}

-----------------------------------------------------------------------------
(* Log items.                                                              *)

NewLogSeverity(text) ==
  CASE text \in {"", "info", "information"} -> "info"
    [] text \in {"trace", "debug", "error"} -> text
    [] text \in {"warn", "warning"} -> "warning"
    [] text \in {"fatal", "critical"} -> "fatal"
    [] OTHER -> "invalid"

severityTextFromNumber(n) ==
  CASE n >= 21 -> "fatal" [] n \in 17..20 -> "error" [] n \in 13..16 -> "warning"
    [] n \in 9..12 -> "info" [] n \in 5..8 -> "debug" [] n \in 1..4 -> "trace"
    [] OTHER -> "info"

(* An attribute is a text by its key.                                      *)
Attribute(l, key) == IF key \in DOMAIN l.attributes THEN l.attributes[key] ELSE ""

(* The severity text of OpenTelemetry without its digits, else its number. *)
otlpLogSeverity(l) == FirstText(<<l.severityText, severityTextFromNumber(l.number)>>)

LogSeverity(type, l) ==
  NewLogSeverity(IF type = "otel_log" THEN otlpLogSeverity(l)
                 ELSE FirstText(<<l.level, l.severity, l.severityText, Attribute(l, "level")>>))

LogBody(type, l) ==
  IF type = "otel_log" THEN l.body
  ELSE FirstText(<<l.body, l.message, Attribute(l, "body"), Attribute(l, "message")>>)

(* The first time given, and it must parse: none falls back on the next.   *)
logTimestamp(l) == IF l.time # NoTime THEN l.time # BadTime ELSE l.observed # BadTime

NewLogRecord(body, l) ==
  /\ body # ""
  /\ "bad" \notin {body, l.logger, l.release, l.environment, l.trace, l.span}
  /\ \A key \in DOMAIN l.attributes : "bad" \notin {key, l.attributes[key]}

LogRead(type, l) ==
  /\ logTimestamp(l)
  /\ LogSeverity(type, l) # "invalid"
  /\ NewLogRecord(LogBody(type, l), l)

(* parseSentryLogPayload: a batch under items or logs, a list, or a single *)
(* record.  An object with neither batch is read as a record.              *)
RawLogs(type, d) ==
  CASE d.shape = "list" -> d.list
    [] d.shape = "object" /\ type = "otel_log" -> d.list
    [] d.shape = "object" /\ type = "log" /\ d.items # <<>> -> d.items
    [] d.shape = "object" /\ type = "log" /\ d.items = <<>> /\ d.logs # <<>> -> d.logs
    [] OTHER -> <<d.single>>

(* One record that is refused refuses the item, and the envelope with it.  *)
LogItemRead(type, d) ==
  LET raw == RawLogs(type, d)
  IN  /\ d.shape \in {"object", "list"}
      /\ d.shape = "list" => type = "log"
      /\ Len(raw) \in 1..MaxLogs
      /\ \A i \in DOMAIN raw : LogRead(type, raw[i])

-----------------------------------------------------------------------------
(* Report items.                                                           *)

ReportRead(type, d) == d.json /\ (type = "feedback" => d.context)

ReportOf(type, d) ==
  [event |-> IF type = "feedback" THEN FirstText(<<d.associated, d.eventID>>) ELSE d.eventID,
   text  |-> d.text]

(* prepareParsedUserReport                                                 *)
ReportValid(r) == r.event \notin {"", "bad"} /\ r.text # "bad"

-----------------------------------------------------------------------------
(* Envelopes: a header and items, read in order by applyItem.  The data of *)
(* an item is what its type says.  Its payload ends with its line, or      *)
(* after the length of its header; size is what there is of it.            *)

ReservedItem == {"form_data", "security", "unreal_report"}
EventItem    == {"event", "transaction"}
LogItem      == {"log", "otel_log"}
ReportItem   == {"user_report", "feedback"}

parseItemHeader(item) == item.json /\ item.type # "" /\ (item.length = NoTime \/ item.length >= 0)

readItemPayload(item) ==
  IF item.length = NoTime THEN item.size <= MaxBytes
  ELSE item.length <= MaxBytes /\ item.length <= item.size

Framed(item) == parseItemHeader(item) /\ readItemPayload(item)

Nothing == [read |-> TRUE, hasEvent |-> FALSE, event |-> "none", logs |-> <<>>, reports |-> <<>>]

Refuse(s) == [s EXCEPT !.read = FALSE]

applyUserReportItem(s, item) ==
  IF ReportRead(item.type, item.data)
  THEN [s EXCEPT !.reports = Append(@, ReportOf(item.type, item.data))]
  ELSE Refuse(s)

applyLogItem(s, item) ==
  IF ~s.hasEvent /\ LogItemRead(item.type, item.data)
  THEN [s EXCEPT !.logs = @ \o RawLogs(item.type, item.data)]
  ELSE Refuse(s)

(* Slip: the records read before an event are not looked for.              *)
applyEventItemAfterLogs(project, scrub, override, s, item) ==
  IF ~s.hasEvent /\ EventRead(item.type, override, item.data)
  THEN [s EXCEPT !.hasEvent = TRUE,
                 !.event = CanonicalEvent(project, scrub, item.type, override, item.data)]
  ELSE Refuse(s)

applyEventItem(project, scrub, override, s, item) ==
  IF ~s.hasEvent /\ s.logs = <<>> /\ EventRead(item.type, override, item.data)
  THEN [s EXCEPT !.hasEvent = TRUE,
                 !.event = CanonicalEvent(project, scrub, item.type, override, item.data)]
  ELSE Refuse(s)

(* Every other type, known or not, is skipped.                             *)
applyItem(project, scrub, override, s, item) ==
  CASE ~s.read -> s
    [] s.read /\ (~Framed(item) \/ item.type \in ReservedItem) -> Refuse(s)
    [] s.read /\ Framed(item) /\ item.type \in ReportItem -> applyUserReportItem(s, item)
    [] s.read /\ Framed(item) /\ item.type \in LogItem -> applyLogItem(s, item)
    [] s.read /\ Framed(item) /\ item.type \in EventItem ->
         applyEventItem(project, scrub, override, s, item)
    [] OTHER -> s

ParseEnvelope(project, scrub, env) ==
  IF ~env.header \/ Len(env.items) > MaxItems THEN Refuse(Nothing)
  ELSE FoldLeft(LAMBDA s, item : applyItem(project, scrub, env.eventID, s, item),
                Nothing, env.items)

(* parseSentryRequest: logs do not go with reports.                        *)
parseSentryRequest(project, scrub, env) ==
  LET s == ParseEnvelope(project, scrub, env)
  IN  IF s.logs # <<>> /\ s.reports # <<>> THEN Refuse(s) ELSE s

-----------------------------------------------------------------------------
(* CSP reports: the carrier of browsers, else the Reporting API, alone or  *)
(* the first violation of a list.                                          *)

cspDirective(c) == FirstText(<<c.effective, c.violated>>)

validCSPReport(c) ==
  cspDirective(c) # "" /\ FirstText(<<c.document, c.source, c.blocked>>) # ""

cspTitle(c) == <<cspDirective(c), FirstText(<<c.blocked, "inline">>)>>

cspGroupingParts(c) ==
  NotBlank(<<"csp", cspDirective(c), FirstText(<<c.source, c.document>>),
             IF c.blocked # "" THEN c.blocked ELSE ToString(cspTitle(c))>>)

(* A list is decided by its first violation, complete or not.              *)
CSPReports(d) ==
  LET violations == SelectSeq(d.reports, LAMBDA x : x.type = "csp-violation")
      first      == IF violations = <<>> THEN {} ELSE {Head(violations).body}
  IN  IF validCSPReport(d.carrier) THEN {d.carrier} ELSE {c \in first : validCSPReport(c)}

(* The id of the event is a hash of the payload and the time it came: the  *)
(* same report sent again is another event.                                *)
CSPEvent(project, id, c) ==
  [id |-> id, kind |-> "default", level |-> "warning", title |-> cspTitle(c),
   fingerprint |-> <<project, "default", "default", cspGroupingParts(c)>>,
   tags |-> {"other"}, js |-> <<>>, native |-> <<>>, spans |-> <<>>]
=============================================================================
