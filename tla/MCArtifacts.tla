----------------------------- MODULE MCArtifacts ------------------------------
(* Two handlers, two projects of an organization, a bundle of two chunks    *)
(* with the maps of two scripts, and a debug file of one chunk.             *)
EXTENDS Artifacts

MCOrgOf == "p1" :> "o" @@ "p2" :> "o"
MCTokenProject == "t1" :> "p1" @@ "t2" :> "p2"

Symmetry == Permutations(Req)

-----------------------------------------------------------------------------
(* The base64 digits of a number, low bits first: its sign, then its size.  *)
VLQ(n) ==
  LET v == IF n < 0 THEN 1 - 2 * n ELSE 2 * n
      k == CHOOSE i \in 1..6 : v < 32^i /\ (i = 1 \/ v >= 32^(i - 1))
  IN  [i \in 1..k |-> ((v \div 32^(i - 1)) % 32) + (IF i < k THEN 32 ELSE 0)]

Encode(lines) ==
  [i \in DOMAIN lines |->
     [j \in DOMAIN lines[i] |->
        FlattenSeq([k \in DOMAIN lines[i][j] |-> VLQ(lines[i][j][k])])]]

SourceMap(sources, names, root, mappings) ==
  [version |-> 3, root |-> root, sources |-> sources, names |-> names, mappings |-> mappings]

(* Out of order, back and forth in every number, with a segment of nothing  *)
(* but a column and one of nothing at all, a line of none, and a name that  *)
(* does not exist.                                                          *)
Lines1 == << << <<0, 0, 0, 0>>, <<9, 0, 2, 40, 1>>, <<-4, 1, -1, 0>>, <<1>>, <<>> >>,
             <<>>,
             << <<2, -1, 3, -20, -1>>, <<0, 0, 1, 1, 4>> >> >>
Lines2 == << << <<0, 0, 5, 3>>, <<3, 0, -6, 0>>, <<3, 1, 8, 0>> >> >>

Map1 == SourceMap(<< <<"one">>, <<"two">> >>, <<"n0", "n1">>, <<"src">>, Encode(Lines1))
Map2 == SourceMap(<< <<"three">> >>, <<>>, <<>>, Encode(Lines2))
MapOfTwoFields == SourceMap(<< <<"one">> >>, <<>>, <<>>, << << <<0, 0>> >> >>)
MapOfBadDigit  == SourceMap(<< <<"one">> >>, <<>>, <<>>, << << <<0, 0, 64, 0>> >> >>)
MapOfNoEnd     == SourceMap(<< <<"one">> >>, <<>>, <<>>, << << <<0, 0, 0, 40>> >> >>)
MapBelowZero   == SourceMap(<< <<"one">> >>, <<>>, <<>>, Encode(<< << <<0, -2, 0, 0>> >> >>))

MCSourceMapOf ==
  <<"m1">> :> Map1 @@ <<"m2">> :> Map2 @@ <<"two fields">> :> MapOfTwoFields
    @@ <<"bad digit">> :> MapOfBadDigit @@ <<"no end">> :> MapOfNoEnd
    @@ <<"below zero">> :> MapBelowZero
MCWritten ==
  [m \in DOMAIN MCSourceMapOf |->
     CASE m = <<"m1">> -> Lines1 [] m = <<"m2">> -> Lines2
       [] m = <<"below zero">> -> << << <<0, -2, 0, 0>> >> >> [] OTHER -> NULL]

Function(address, size, name) ==
  [parsed |-> TRUE, address |-> address, size |-> size, name |-> name]
DebugFile(modules, functions) ==
  [magic |-> "breakpad", modules |-> modules, functions |-> functions]

MCDebugFileOf ==
  <<"b1">> :> DebugFile(<<"i1">>, <<Function(4, 2, "f"), Function(4, 8, "g"), Function(1, 0, "h")>>)
    @@ <<"d2">> :> DebugFile(<<"i0", "i1">>, <<Function(0, 3, "k"),
                     [Function(4, 9, "k") EXCEPT !.parsed = FALSE], Function(4, 9, "bad")>>)
    @@ <<"elf">> :> [DebugFile(<<>>, <<>>) EXCEPT !.magic = "elf"]
    @@ <<"empty">> :> [DebugFile(<<>>, <<>>) EXCEPT !.magic = ""]

File(path, file) == [path |-> path, url |-> <<>>, type |-> "source_map", present |-> TRUE,
                     body |-> file]
Bundle(files) == [org |-> "o", project |-> "p1", release |-> "1", dist |-> "", files |-> files]

AB == {File(<<"~/", "a.js", ".map">>, <<"m1">>), File(<<"/", "b.js">>, <<"below zero">>),
       [File(<<"a.js">>, <<"x">>) EXCEPT !.type = "minified_source"]}

MCBundleOf ==
  <<"b1", "b2">> :> Bundle(AB)
    @@ <<"b1", "x">> :> Bundle({File(<<"a.js">>, <<"two fields">>)})

MCLarge == {<<"big">>}

-----------------------------------------------------------------------------
Base(kind) == [kind |-> kind, token |-> "t1", org |-> "o", slug |-> "p1"]

ChunkUpload(parts) == Base("chunk") @@ [form |-> TRUE, parts |-> parts]
Chunk(name, content) ==
  ChunkUpload(<<[checksum |-> name, gzip |-> "ok", content |-> content]>>)

BundleAssemble(chunks) ==
  Base("bundle") @@ [json |-> TRUE, projects |-> {"p1"}, checksum |-> chunks, chunks |-> chunks,
                     version |-> "", dist |-> ""]
DebugAssemble(files) == Base("dif") @@ [json |-> TRUE, files |-> files]
DebugItem(chunks) == [checksum |-> chunks, chunks |-> chunks, debugID |-> "i1", path |-> <<"lib">>]
SourceMapUpload(path, file) ==
  Base("sourcemap") @@ [form |-> "ok", release |-> "1", dist |-> "", path |-> path, file |-> file]
DebugFileUpload(file) ==
  Base("debugfile") @@ [form |-> "ok", debugID |-> "i1", declared |-> "", path |-> <<"lib">>,
                        file |-> file]

Frame(line, column) ==
  [host |-> "https", path |-> <<"/", "a.js">>, line |-> line, column |-> column, function |-> "t"]
FrameB   == [Frame(1, 9) EXCEPT !.path = <<"/", "b.js">>]
MCFrames == {Frame(line, column) : line \in 1..4, column \in 0..11} \cup {FrameB}

Native(instruction) == [debugID |-> "i1", instruction |-> instruction, package |-> ""]
Event(js, native) ==
  [kind |-> "event", project |-> "p1", release |-> "1", dist |-> "", js |-> js, native |-> native,
   modules |-> <<[debugID |-> "i1", address |-> 10, size |-> 9, file |-> "lib"]>>]

Refused == {[SourceMapUpload(<<"a.js">>, <<"m1">>) EXCEPT !.token = "t2"], ChunkUpload(<<>>)}

Honest == {Chunk("b1", "b1"), Chunk("b2", "b2")}
False  == {Chunk("b2", "x"), Chunk("b2", "big")}

Assemblies ==
  {BundleAssemble(<<"b1", "b2">>),
   DebugAssemble({DebugItem(<<"b1">>), DebugItem(<<"b2">>)})}

Direct == {SourceMapUpload(<<"a.js", ".map">>, <<"m2">>), DebugFileUpload(<<"d2">>)}

(* The first does not say where its image is.                               *)
Events == {[Event(<<Frame(1, 6), Frame(3, 2)>>, <<Native(5)>>) EXCEPT !.modules = <<>>],
           Event(<<FrameB>>, <<Native(14)>>)}

MCBody == Refused \cup Honest \cup False \cup Assemblies \cup Direct \cup Events
=============================================================================
