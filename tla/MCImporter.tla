----------------------------- MODULE MCImporter -------------------------------
(* Two commands, on files of one or two lines of two systems, beside the    *)
(* live ingest of an event that is also in a file.                          *)
EXTENDS Importer, TLC

E(n) == <<"id", n>>

(* A line that is good; the lines below differ from it in what they name.   *)
Line(type, ext) ==
  [type |-> type, ext |-> ext, event |-> E("e1"), issue |-> "", fingerprint |-> <<>>,
   kind |-> "error", occurred |-> 1, received |-> NULL, level |-> TRUE, title |-> "t"]

Issue1    == Line("issue", "1")
Event2    == [Line("event", "2") EXCEPT !.issue = "1"]
SameEvent == [Line("event", "3") EXCEPT !.issue = "1", !.received = 2]
Event1    == [Line("event", "1") EXCEPT !.fingerprint = <<"own">>]

Bad == { [Event2 EXCEPT !.type = "broken"], [Event2 EXCEPT !.ext = "bad"],
         [Event2 EXCEPT !.event = <<"bad">>], [Event2 EXCEPT !.kind = "transaction"],
         [Event2 EXCEPT !.occurred = -1], [Event2 EXCEPT !.received = -1],
         [Event2 EXCEPT !.level = FALSE], [Event2 EXCEPT !.title = ""],
         [Event2 EXCEPT !.issue = "bad"], [Event2 EXCEPT !.type = "long"] }

Apply(source, file) == [mode |-> "apply", source |-> source, file |-> file, manifest |-> TRUE]

MCCommand ==
  { Apply("a", <<Issue1, Event2>>), Apply("a", <<SameEvent, Event2>>),
    Apply("a", <<Event1, Issue1>>), Apply("b", <<Issue1>>), Apply("b", <<Event2, Event2>>),
    Apply("a", <<>>), [Apply("a", <<Issue1>>) EXCEPT !.mode = "dry-run"],
    [Apply("a", <<>>) EXCEPT !.mode = "usage"],
    [Apply("a", <<Issue1>>) EXCEPT !.manifest = FALSE] }
  \cup {Apply("a", <<Issue1, raw>>) : raw \in Bad}

MCEventID == {E("e1")} \cup {<<"of", s, x>> : s \in {"a", "b"}, x \in {"1"}}
MCLive    == {[id |-> E("e1"), group |-> <<"live">>, day |-> 1]}
MCLimit   == {NoLimit, 1}
==============================================================================
