---------------------------- MODULE Symbolication -----------------------------
(***************************************************************************)
(* What a source map and a debug file say of a frame: pure operators that  *)
(* read the files and find the place of a frame in them.                   *)
(*                                                                         *)
(* A text that a validity rule refuses (too long, not UTF-8, with control  *)
(* characters) is "bad".  A path is a sequence of its parts, so that the   *)
(* prefixes that the code strips are elements: "~/", "/", "app.js",        *)
(* ".map".  An address is a number: modules and functions are small ones.  *)
(***************************************************************************)
EXTENDS Integers, SequencesExt

-----------------------------------------------------------------------------
(* Names of releases and of files.                                         *)

TrimPrefix(path, part) == IF path # <<>> /\ Head(path) = part THEN Tail(path) ELSE path
TrimSuffix(path, part) == IF path # <<>> /\ Last(path) = part THEN Front(path) ELSE path

normalizeSourceMapTargetName(path) ==
  TrimSuffix(TrimPrefix(TrimPrefix(path, "~/"), "/"), ".map")

ReleaseNameValid(name) == name \notin {"", "bad"}
DistNameValid(name)    == name # "bad"

SourceMapFileNameValid(path) ==
  path # <<>> /\ Head(path) # "/" /\ {"..", "bad"} \cap ToSet(path) = {}

(* The file that the frame of a URL is looked up under is the path of the  *)
(* URL; "~/" and ".map" stay.                                              *)
sourceMapFileNameFromAbsPath(frame) ==
  CASE frame.host = "" -> frame.path
    [] frame.host # "" /\ frame.path # <<>> -> TrimPrefix(frame.path, "/")
    [] OTHER -> <<frame.host>>

-----------------------------------------------------------------------------
(* Source maps.  A digit is the value of a base64 character, 64 or more    *)
(* for a character that is none.  The values are exact: a number of more   *)
(* than 63 bits, which the code would wrap, is not modelled.               *)

noIndex == -1

(* One more digit of a segment: five bits of a number, low bits first, the *)
(* lowest its sign; 32 says that more follow.                              *)
decodeVLQ(read, digit) ==
  LET value == read.value + (digit % 32) * read.weight
      field == IF value % 2 = 1 THEN -(value \div 2) ELSE value \div 2
  IN  CASE digit \notin 0..63 -> [read EXCEPT !.ok = FALSE]
        [] digit \in 32..63 -> [read EXCEPT !.value = value, !.weight = @ * 32, !.open = TRUE]
        [] OTHER -> [read EXCEPT !.fields = Append(@, field),
                       !.value = 0, !.weight = 1, !.open = FALSE]

decodeSegment(digits) ==
  FoldLeft(decodeVLQ, [fields |-> <<>>, value |-> 0, weight |-> 1, open |-> FALSE, ok |-> TRUE],
           digits)

SegmentRead(read) == read.ok /\ ~read.open /\ Len(read.fields) \in {1, 4, 5}

(* After the segments with a smaller or the same column.                   *)
InsertSorted(segments, s) ==
  SelectSeq(segments, LAMBDA t : t.generatedColumn <= s.generatedColumn)
    \o <<s>> \o SelectSeq(segments, LAMBDA t : t.generatedColumn > s.generatedColumn)

(* Every field counts from the last segment that has it, in this line or   *)
(* an earlier one, but the generated column, which starts anew each line.  *)
AddSegment(d, fields) ==
  LET mapped == Len(fields) >= 4
      at(i)  == IF i <= Len(fields) THEN fields[i] ELSE 0
      source == d.source + (IF mapped THEN at(2) ELSE 0)
      line   == d.line + (IF mapped THEN at(3) ELSE 0)
      column == d.column + (IF mapped THEN at(4) ELSE 0)
      name   == d.name + at(5)
      seg    == [generatedColumn |-> d.generated + at(1),
                 sourceIndex |-> IF mapped THEN source ELSE noIndex,
                 originalLine |-> IF mapped THEN line ELSE noIndex,
                 originalColumn |-> IF mapped THEN column ELSE noIndex,
                 nameIndex |-> IF Len(fields) = 5 THEN name ELSE noIndex]
  IN  [d EXCEPT !.generated = @ + at(1), !.source = source, !.line = line, !.column = column,
                !.name = name, !.segments = InsertSorted(@, seg)]

decodeMappingSegment(d, digits) ==
  CASE digits = <<>> -> d
    [] digits # <<>> /\ ~SegmentRead(decodeSegment(digits)) -> [d EXCEPT !.ok = FALSE]
    [] OTHER -> AddSegment(d, decodeSegment(digits).fields)

EndLine(d) == [d EXCEPT !.lines = Append(@, d.segments)]

(* Slip: the original line starts anew with each generated line.           *)
decodeMappingLineAnew(d, rawLine) ==
  EndLine(FoldLeft(decodeMappingSegment,
                   [d EXCEPT !.generated = 0, !.line = 0, !.segments = <<>>], rawLine))

decodeMappingLine(d, rawLine) ==
  EndLine(FoldLeft(decodeMappingSegment, [d EXCEPT !.generated = 0, !.segments = <<>>], rawLine))

decodeMappings(rawLines) ==
  FoldLeft(decodeMappingLine,
           [generated |-> 0, source |-> 0, line |-> 0, column |-> 0, name |-> 0,
            segments |-> <<>>, lines |-> <<>>, ok |-> TRUE], rawLines)

joinSourceRoot(root, source) == root \o source

NewSourceMap(raw, mappings) ==
  [read    |-> raw.version = 3 /\ mappings.ok,
   sources |-> [i \in DOMAIN raw.sources |-> joinSourceRoot(raw.root, raw.sources[i])],
   names   |-> raw.names,
   lines   |-> mappings.lines]

ParseSourceMap(raw) == NewSourceMap(raw, decodeMappings(raw.mappings))

Unmapped == [outcome |-> "unmapped"]

(* The last segment that starts at or before a column.                     *)
SegmentAt(segments, column) ==
  LET before == SelectSeq(segments, LAMBDA s : s.generatedColumn <= column)
  IN  IF before = <<>> THEN <<>> ELSE <<Last(before)>>

(* What is shown of the segment of a position.  An index below -1 is an    *)
(* index out of range: the handler panics.                                 *)
SegmentShown(sm, s) ==
  CASE s.sourceIndex = noIndex \/ s.sourceIndex >= Len(sm.sources) -> Unmapped
    [] s.sourceIndex # noIndex /\ s.sourceIndex < Len(sm.sources)
         /\ (s.sourceIndex < noIndex \/ s.nameIndex < noIndex) -> [outcome |-> "panic"]
    [] OTHER ->
         LET named == s.nameIndex # noIndex /\ s.nameIndex < Len(sm.names)
         IN  [outcome |-> "mapped",
              source |-> sm.sources[s.sourceIndex + 1],
              line |-> s.originalLine, column |-> s.originalColumn,
              name |-> IF named THEN sm.names[s.nameIndex + 1] ELSE "",
              hasName |-> named]

(* Both numbers of the position are counted from zero.                     *)
LookupFrame(sm, line, column) ==
  LET chosen == SegmentAt(IF line + 1 \in DOMAIN sm.lines THEN sm.lines[line + 1] ELSE <<>>, column)
  IN  IF chosen = <<>> THEN Unmapped ELSE SegmentShown(sm, chosen[1])

(* A frame shows its original place when that is a place: counted from 1   *)
(* for the line.                                                           *)
NewResolution(frame, found) ==
  [source |-> found.source, symbol |-> IF found.hasName THEN found.name ELSE frame.function,
   line |-> found.line + 1, column |-> found.column]

ResolutionValid(r) ==
  /\ r.source # <<>> /\ "bad" \notin ToSet(r.source) /\ r.symbol # "bad"
  /\ r.line >= 1 /\ r.column >= 0

-----------------------------------------------------------------------------
(* Debug files in the Breakpad format, and the module a frame belongs to.  *)
(* A module line whose identifier is none makes the file unreadable; the   *)
(* last one counts.  A function line that does not parse is skipped.       *)

(* The kind a file shows in its first bytes.                               *)
DetectKind(file) == file.magic

parseBreakpadSymbols(file) ==
  [read |-> file.modules # <<>> /\ "bad" \notin ToSet(file.modules),
   debugID |-> IF file.modules = <<>> THEN "" ELSE Last(file.modules),
   functions |-> [i \in {j \in DOMAIN file.functions : file.functions[j].parsed} |->
                    file.functions[i]]]

FunctionContains(f, offset) ==
  /\ offset >= f.address
  /\ IF f.size = 0 THEN offset = f.address ELSE offset - f.address < f.size

(* What a loop over a list returns of those that it looks for.             *)
FirstOf(list, found) == list[CHOOSE i \in found : \A j \in found : i <= j]

breakpadLookup(symbols, offset) ==
  {i \in DOMAIN symbols.functions : FunctionContains(symbols.functions[i], offset)}

nativeModuleForDebugID(modules, debugID) ==
  {i \in DOMAIN modules : modules[i].debugID = debugID}

(* Where the instruction of a frame is in its image, -1 when it is not in  *)
(* it; without a module the address itself.                                *)
nativeInstructionOffset(frame, modules) ==
  LET named  == nativeModuleForDebugID(modules, frame.debugID)
      module == FirstOf(modules, named)
      offset == frame.instruction - module.address
  IN  CASE named = {} -> frame.instruction
        [] named # {} /\ (offset < 0 \/ (module.size # 0 /\ offset >= module.size)) -> -1
        [] OTHER -> offset

nativeFramePackage(frame, modules) ==
  LET named == nativeModuleForDebugID(modules, frame.debugID)
  IN  IF frame.package # "" \/ named = {} THEN frame.package ELSE FirstOf(modules, named).file
=============================================================================
