----------------------------- MODULE MCGateway ------------------------------
(* Instances of Gateway for TLC.                                           *)
EXTENDS Gateway, TLC

CONSTANTS r1, r2, k1, k2, k3, p1, p2, e1, e2

ByKey == k1 :> p1 @@ k2 :> p1 @@ k3 :> p2

(* One request in two seconds for one key, no limit for the others.       *)
Limits == [k \in Key |-> IF k = k1 THEN [window |-> 2, limit |-> 1] ELSE NULL]

From(k) == {[project |-> ByKey[k], key |-> k]}

NoTrace == [trace |-> "", span |-> "", parent |-> ""]

Payload(e) ==
  [json |-> TRUE, eventID |-> e, time |-> 5, type |-> "", level |-> "", logger |-> "",
   exceptions |-> <<>>, message |-> "m", logentry |-> "", transaction |-> "", culprit |-> "",
   fingerprint |-> <<>>, userIP |-> {}, requestIP |-> {}, addressTags |-> {}, otherTags |-> TRUE,
   dist |-> "", platform |-> "go", images |-> <<>>, start |-> NoTime, trace |-> NoTrace,
   operation |-> "", spans |-> <<>>]

Log ==
  [time |-> 1, observed |-> NoTime, level |-> "warn", severity |-> "", severityText |-> "",
   number |-> 0, body |-> "b", message |-> "", logger |-> "", release |-> "", environment |-> "",
   trace |-> "", span |-> "", attributes |-> <<>>]

LogBatch(items) ==
  [shape |-> "object", items |-> items, logs |-> <<>>, list |-> items,
   single |-> [Log EXCEPT !.body = ""]]

Report(e, text) ==
  [json |-> TRUE, context |-> TRUE, eventID |-> e, associated |-> "", text |-> text]

Item(type, data) == [type |-> type, json |-> TRUE, length |-> NoTime, size |-> 1, data |-> data]

Envelope(items) == [header |-> TRUE, eventID |-> "", dsn |-> {}, items |-> items]

Request(kind, k, data) ==
  [kind |-> kind, sources |-> From(k), read |-> "ok", data |-> data]

Module(file, debugID, within) ==
  [file |-> file, debugID |-> debugID, within |-> within, address |-> 4, size |-> 0]

Minidump(e) ==
  [eventID |-> e, level |-> "", magic |-> TRUE, directory |-> TRUE, instruction |-> 4,
   modules |-> <<Module("", "a", TRUE), Module("lib", "b", TRUE), Module("c", "c", FALSE)>>]

CSP == [effective |-> "script-src", violated |-> "", document |-> "d", source |-> "",
        blocked |-> ""]
CSPReport == [carrier |-> [CSP EXCEPT !.effective = ""],
              reports |-> <<[type |-> "deprecation", body |-> CSP],
                            [type |-> "csp-violation", body |-> CSP]>>]

(* An event with two reports, one of another event; a batch of logs; a     *)
(* minidump, and an event of the same id without a file; a report alone.   *)
IntakeBody ==
  {Request("envelope", k1, Envelope(<<Item("event", Payload(e1)),
                                      Item("user_report", Report(e1, "a")),
                                      Item("feedback", Report(e2, "b"))>>)),
   Request("envelope", k1, Envelope(<<Item("log", LogBatch(<<Log, Log>>))>>)),
   Request("minidump", k1, Minidump(e2)),
   Request("store", k1, Payload(e2)),
   Request("feedback", k1, Report(e2, "c"))}

-----------------------------------------------------------------------------
(* Everything an envelope may hold, to three items, and one item too many. *)
Frame(addr, app) == [NoFrame EXCEPT !.address = addr, !.inApp = app, !.file = "f"]

Crash1 ==
  [Payload(e1) EXCEPT
     !.exceptions = <<[type |-> "T", value |-> "v",
                       frames |-> <<Frame(4, TRUE), Frame(9, FALSE)>>]>>,
     !.images = <<[debugID |-> "d", file |-> "lib", address |-> 4, size |-> 2]>>,
     !.userIP = {"private"}, !.requestIP = {"public"}]

Span(a, b) == [id |-> "s", parent |-> "", operation |-> "", start |-> a, end |-> b]

Trace ==
  [Payload(e2) EXCEPT
     !.type = "transaction", !.start = 3,
     !.trace = [trace |-> "t", span |-> "s", parent |-> ""],
     !.spans = <<Span(2, 1), Span(NoTime, 1)>>]

(* The data of an item that is skipped.                                   *)
Unread == [raw |-> TRUE]

AnyItem ==
  {Item("event", Crash1), Item("event", [Payload(e1) EXCEPT !.addressTags = {"public"}]),
   Item("transaction", Trace), Item("transaction", [Trace EXCEPT !.start = 6]),
   Item("event", [Payload(e1) EXCEPT !.time = BadTime]),
   Item("log", LogBatch(<<Log, Log>>)), Item("log", LogBatch(<<>>)),
   Item("otel_log", LogBatch(<<[Log EXCEPT !.severityText = "", !.number = 17]>>)),
   Item("otel_log", LogBatch(<<>>)), Item("otel_log", LogBatch(<<Log, Log, Log>>)),
   Item("user_report", Report(e1, "a")),
   Item("feedback", [Report("", "b") EXCEPT !.associated = e2]),
   Item("feedback", [Report(e1, "b") EXCEPT !.context = FALSE]),
   Item("session", Unread), Item("security", Unread),
   [Item("attachment", Unread) EXCEPT !.length = 2]}

(* And a CSP report, which is ingested as other events are, a request of   *)
(* sources that disagree, requests that are too large, and a minidump that *)
(* names no event.                                                         *)
ParseBody ==
  {Request("envelope", k, [Envelope(items) EXCEPT !.eventID = id]) :
     k \in {k2, k3}, id \in {"", e2},
     items \in BoundedSeq(AnyItem, 3) \cup {[i \in 1..4 |-> Item("session", Unread)]}}
  \cup {[Request("envelope", k2, Envelope(<<>>)) EXCEPT !.read = x] :
          x \in {"encoding", "large", "gzip"}}
  \cup {Request("security", k2, CSPReport),
        [Request("store", k2, Crash1) EXCEPT !.sources = From(k2) \cup From(k3)],
        [Request("store", k2, Crash1) EXCEPT !.read = "large"],
        [Request("minidump", k2, Minidump(e1)) EXCEPT !.read = "large"],
        Request("minidump", k3, Minidump(""))}
  \cup {Request("store", k, p) :
          k \in {k2, k3}, p \in {Crash1, Trace, [Crash1 EXCEPT !.eventID = ""]}}
  \cup {Request("minidump", k2, [Minidump(e1) EXCEPT !.magic = m, !.level = "info"]) :
          m \in BOOLEAN}

MCBody == IntakeBody \cup ParseBody

(* The requests of the last two keys come alone: to a gateway that has     *)
(* seen nothing yet, which then does nothing else.                         *)
Parsing == \E r \in Req : body[r] # NULL /\ body[r].sources \subseteq From(k2) \cup From(k3)

Unused == now = 0 /\ \A r \in Req : body[r] = NULL

(* Of the first window the last second is enough to share or to leave it.  *)
Closing == now >= 2

(* A lookup of a key may fail for one kind of them: nothing else is known  *)
(* of a request that was denied.                                           *)
Arrival(r, b) == Arrive(r, b) /\ (answer'[r] = 403 => b.kind = "store")

MCNext ==
  \/ Unused /\ \E r \in Req, b \in ParseBody : Arrival(r, b)
  \/ ~Parsing /\ (\/ Closing /\ \E r \in Req, b \in IntakeBody : Arrival(r, b)
                  \/ (\E r \in Req : Leave(r)) \/ Crash \/ Tick)
  \/ \E r \in Req : Handle(r)

MCSpec == Init /\ [][MCNext]_vars

-----------------------------------------------------------------------------
Symmetry == Permutations(Req)
=============================================================================
