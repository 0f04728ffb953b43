------------------------------ MODULE Artifacts -------------------------------
(***************************************************************************)
(* The artifact vault and the requests that fill it and read it: chunks of *)
(* a release's files are uploaded one by one, and an assemble request puts *)
(* them together, checks the whole, and stores the files inside; source    *)
(* maps and debug files may also be uploaded as they are; an event that    *)
(* arrives has its frames resolved by what the vault holds at that time.   *)
(*                                                                         *)
(* The vault is a directory, with no lock and no transaction: a file is    *)
(* replaced in one step, and each step of a handler sees what the others   *)
(* have done.  Nothing names a chunk's owner, and no chunk is deleted      *)
(* after it was used.                                                      *)
(*                                                                         *)
(* A body is a sequence of contents, one for a file that is not assembled; *)
(* its SHA-1 is the body itself, and a chunk's the content: a checksum     *)
(* that no body has is "bad".                                              *)
(***************************************************************************)
EXTENDS Symbolication, FiniteSetsExt, TLC

CONSTANTS
  Req,           \* handlers that run at the same time
  Project,
  OrgOf,         \* the organization of each project
  TokenProject,  \* the project of each token with the scope of an administrator
  Body,          \* the requests that clients may send
  Large,         \* bodies over the limit of the kind they are stored as
  SourceMapOf,   \* what the bodies that are JSON source maps hold
  DebugFileOf,   \* what the bodies that are debug files hold
  BundleOf,      \* what the bodies that are zip files with a manifest hold
  Written,       \* lines of segments of numbers: what the writer of a map meant
  Frames,        \* frames of scripts that the maps are tried on
  Faults,        \* whether clients may leave, calls fail and the process end
  NULL

ASSUME ArtifactsAssumption ==
  /\ OrgOf \in [Project -> STRING] /\ IsFiniteSet(Req) /\ NULL \notin Req
  /\ \A t \in DOMAIN TokenProject : TokenProject[t] \in Project
  /\ DOMAIN Written = DOMAIN SourceMapOf /\ Faults \in BOOLEAN
  /\ NULL \notin DOMAIN SourceMapOf

(* The debug files of a request are listed by their checksums, which are   *)
(* of bodies that may not exist.                                           *)
ASSUME BodyAssumption ==
  /\ \A b \in Body : b.kind = "bundle" => b.chunks \in Seq(STRING)
  /\ \A b \in Body : b.kind = "dif" =>
       \A i \in b.files :
         i.chunks \in Seq(STRING) /\ \A j \in b.files : i.checksum = j.checksum => i = j
  /\ \A file \in DOMAIN BundleOf \cup DOMAIN DebugFileOf : "bad" \notin ToSet(file)

(* The frames of an event, its modules, and the functions of a debug file. *)
NativeFrame  == [debugID : STRING, instruction : Nat, package : STRING]
NativeModule == [debugID : STRING, address : Nat, size : Nat, file : STRING]
breakpadFunction == [parsed : BOOLEAN, address : Nat, size : Nat, name : STRING]

ASSUME FrameAssumption ==
  /\ \A f \in Frames : "host" \in DOMAIN f
  /\ \A b \in Body : b.kind = "event" =>
       b.js \in Seq(Frames) /\ b.native \in Seq(NativeFrame) /\ b.modules \in Seq(NativeModule)
  /\ \A file \in DOMAIN DebugFileOf : DebugFileOf[file].functions \in Seq(breakpadFunction)

VARIABLES
  vault,      \* the body of each key that is in use
  h           \* the handlers

vars == <<vault, h>>

PC == {"idle", "check", "read", "put", "drop", "items", "js", "native", "open", "done"}

Status == {200, 201, 400, 401, 403, 413, 503}

ASSUME StatusAssumption == NULL \notin Status

(* A handler with no request.                                              *)
Idle ==
  [pc        |-> "idle",
   body      |-> NULL,   \* the request
   item      |-> NULL,   \* the assembly in hand
   items     |-> {},     \* assemblies left of a request for debug files
   todo      |-> <<>>,   \* chunks, or frames of an event, left
   missing   |-> <<>>,   \* chunks that were not found
   contents  |-> <<>>,   \* what was read of the chunks
   uploads   |-> {},     \* files left to store
   responses |-> {},     \* the answer for each debug file
   listing   |-> {},     \* debug files left to open
   frames    |-> <<>>,   \* what the frames of an event show
   disturbed |-> FALSE,  \* others wrote or deleted keys of the request meanwhile
   gone      |-> FALSE,  \* every further call of the handler fails
   status    |-> NULL,   \* the answer
   state     |-> ""]

Init ==
  /\ vault = <<>>
  /\ h = [r \in Req |-> Idle]

-----------------------------------------------------------------------------
(* Keys of the vault.                                                      *)

NewArtifactKey(project, kind, name) == [project |-> project, kind |-> kind, name |-> name]
artifactChunkKey(project, checksum) == NewArtifactKey(project, "chunk", <<checksum>>)
SourceMapKey(project, release, dist, path) ==
  NewArtifactKey(project, "map", <<release, dist, path>>)
DebugFileKey(project, debugID, kind, path) ==
  NewArtifactKey(project, "dif", <<debugID, kind, path>>)

Stored(key) == key \in DOMAIN vault

FirstText(a, b) == IF a # "" THEN a ELSE b

(* A file to store; one that is refused when its turn comes is not ok.     *)
Upload(key, file, ok) == [key |-> key, body |-> file, ok |-> ok]

-----------------------------------------------------------------------------
(* What a request asks for, and what is refused before the vault is used.  *)

(* The answer of the first check that fails.                               *)
FirstFailure(checks) ==
  LET failed == {i \in DOMAIN checks : checks[i][1]}
      first  == CHOOSE i \in failed : \A j \in failed : i <= j
  IN  IF failed = {} THEN NULL ELSE checks[first][2]

OfOrganization == {"info", "chunk", "bundle"}
OfProject      == {"sourcemap", "debugfile", "dif", "reprocess"}

ASSUME KindAssumption == \A b \in Body : b.kind \in OfOrganization \cup OfProject \cup {"event"}

HasToken(b)  == b.token \in DOMAIN TokenProject
ProjectOf(b) == IF b.kind = "event" THEN b.project ELSE TokenProject[b.token]

(* The token is one of an administrator of the project that the path names.*)
requireArtifactAccess(b) ==
  FirstFailure(<<
    <<b.token = "", 401>>,
    <<~HasToken(b), 403>>,
    <<HasToken(b) /\ b.org # OrgOf[TokenProject[b.token]], 403>>,
    <<HasToken(b) /\ b.kind \in OfProject /\ b.slug # TokenProject[b.token], 403>> >>)

assembleProjectsIncludeAccess(b) == b.projects = {} \/ ProjectOf(b) \in b.projects

ChunkRefusal(b) ==
  LET file == IF b.parts = <<>> THEN [checksum |-> "", gzip |-> "ok"] ELSE b.parts[1]
  IN  FirstFailure(<<
        <<~b.form, 400>>,
        <<b.parts = <<>>, 200>>,
        <<Len(b.parts) > 1, 400>>,
        <<file.checksum = "bad" \/ file.gzip = "no", 400>>,
        <<file.gzip = "broken", 503>> >>)

FormRefusal(b) ==
  FirstFailure(<< <<b.form = "large", 413>>, <<b.form \in {"bad", "nofile"}, 400>> >>)

SourceMapRefusal(b) ==
  FirstFailure(<<
    <<FormRefusal(b) # NULL, FormRefusal(b)>>,
    <<~ReleaseNameValid(b.release) \/ ~DistNameValid(b.dist), 400>>,
    <<~SourceMapFileNameValid(normalizeSourceMapTargetName(b.path)), 400>> >>)

MagicOf(file) == IF file \in DOMAIN DebugFileOf THEN DetectKind(DebugFileOf[file]) ELSE "other"

(* The kind is the one declared, or what the first bytes show; an empty    *)
(* file is answered as a fault of the server.                              *)
DebugFileRefusal(b) ==
  LET magic == MagicOf(b.file)
      kind  == FirstText(b.declared, magic)
  IN  FirstFailure(<<
        <<FormRefusal(b) # NULL, FormRefusal(b)>>,
        <<b.debugID = "bad" \/ b.declared = "unknown", 400>>,
        <<b.declared = "" /\ magic = "", 503>>,
        <<b.declared = "" /\ magic = "other", 400>>,
        <<~SourceMapFileNameValid(b.path), 400>>,
        <<magic = "", 503>>,
        <<magic # kind, 400>> >>)

Refusal(b) ==
  CASE requireArtifactAccess(b) # NULL -> requireArtifactAccess(b)
    [] requireArtifactAccess(b) = NULL ->
       CASE b.kind \in {"info", "reprocess"} -> 200
         [] b.kind = "chunk" -> ChunkRefusal(b)
         [] b.kind = "sourcemap" -> SourceMapRefusal(b)
         [] b.kind = "debugfile" -> DebugFileRefusal(b)
         [] b.kind = "bundle" -> FirstFailure(<<
              <<~b.json, 400>>, <<~assembleProjectsIncludeAccess(b), 403>> >>)
         [] b.kind = "dif" -> FirstFailure(<< <<~b.json, 400>> >>)

(* The manifest must not contradict the request, and names a release when  *)
(* the request does not.                                                   *)
validateArtifactBundleManifest(b, bundle) ==
  /\ bundle.org \in {"", OrgOf[ProjectOf(b)]} /\ bundle.project \in {"", ProjectOf(b)}
  /\ b.version = "" \/ bundle.release = "" \/ b.version = bundle.release
  /\ bundle.files # {}
  /\ ReleaseNameValid(FirstText(b.version, bundle.release))
  /\ DistNameValid(FirstText(b.dist, bundle.dist))

BundleRead(b, whole) ==
  whole \in DOMAIN BundleOf /\ validateArtifactBundleManifest(b, BundleOf[whole])

(* Files of other types are not looked at.                                 *)
BundleUploads(b, bundle) ==
  {LET path == normalizeSourceMapTargetName(IF f.url # <<>> THEN f.url ELSE f.path)
   IN  Upload(SourceMapKey(ProjectOf(b), FirstText(b.version, bundle.release),
                           FirstText(b.dist, bundle.dist), path),
              f.body, f.present /\ SourceMapFileNameValid(path)) :
   f \in {g \in bundle.files : g.type = "source_map"}}

DebugFileRead(i, whole) ==
  /\ i.debugID # "bad" /\ SourceMapFileNameValid(i.path)
  /\ MagicOf(whole) \notin {"", "other"}

DebugUpload(b, i, whole) ==
  Upload(DebugFileKey(ProjectOf(b), i.debugID, MagicOf(whole), i.path), whole, TRUE)

(* What a request that names a body by its checksum may store.             *)
UploadsOf(b) ==
  CASE b.kind = "chunk" ->
         {Upload(artifactChunkKey(ProjectOf(b), f.checksum), <<f.content>>, TRUE) :
            f \in ToSet(b.parts)}
    [] b.kind = "sourcemap" ->
         {Upload(SourceMapKey(ProjectOf(b), b.release, b.dist,
                              normalizeSourceMapTargetName(b.path)), b.file, TRUE)}
    [] b.kind = "debugfile" -> {DebugUpload(b, b, b.file)}
    [] b.kind = "bundle" ->
         IF BundleRead(b, b.checksum) THEN BundleUploads(b, BundleOf[b.checksum]) ELSE {}
    [] b.kind = "dif" ->
         {DebugUpload(b, i, i.checksum) : i \in {j \in b.files : DebugFileRead(j, j.checksum)}}
    [] OTHER -> {}

-----------------------------------------------------------------------------
(* The handler goes on with what it knows; the vault stays as it is.       *)
Becomes(r, next) == h' = [h EXCEPT ![r] = next] /\ UNCHANGED vault

(* What is left of a handler that has answered.                            *)
Answered(hr, status, state) ==
  [Idle EXCEPT !.pc = "done", !.body = hr.body, !.responses = hr.responses,
               !.disturbed = hr.disturbed, !.status = status, !.state = state]

(* A call with a cancelled context, or to a disk that fails, is an error.  *)
CallWorks(r) == ~h[r].gone

(* The keys that a request reads or writes.                                *)
ChunksOf(b) == CASE b.kind = "bundle" -> ToSet(b.chunks)
                 [] b.kind = "dif" -> UNION {ToSet(i.chunks) : i \in b.files}
                 [] OTHER -> {}

KeysOf(b) ==
  IF b.kind = "event" \/ Refusal(b) # NULL THEN {}
  ELSE {u.key : u \in UploadsOf(b)}
         \cup {artifactChunkKey(ProjectOf(b), c) : c \in ChunksOf(b)}

(* The handler goes on, and the vault has changed under a key: handlers at *)
(* work with it have seen, or will see, another file than before.          *)
Changes(r, next, key) ==
  h' = [q \in Req |->
          CASE q = r -> next
            [] q # r /\ h[q].pc # "idle" /\ key \in KeysOf(h[q].body) ->
                 [h[q] EXCEPT !.disturbed = TRUE]
            [] OTHER -> h[q]]

ScriptsResolvable(b) == ReleaseNameValid(b.release) /\ DistNameValid(b.dist)

Arrive(r, b) ==
  LET hr == [Idle EXCEPT !.body = b]
  IN  /\ h[r].pc = "idle"
      /\ Becomes(r,
           IF b.kind # "event" /\ Refusal(b) # NULL THEN Answered(hr, Refusal(b), "")
           ELSE CASE b.kind \in {"chunk", "sourcemap", "debugfile"} ->
                       [hr EXCEPT !.pc = "put", !.uploads = UploadsOf(b)]
                  [] b.kind = "bundle" ->
                       [hr EXCEPT !.pc = "check", !.item = b, !.todo = b.chunks]
                  [] b.kind = "dif" -> [hr EXCEPT !.pc = "items", !.items = b.files]
                  [] b.kind = "event" /\ ScriptsResolvable(b) ->
                       [hr EXCEPT !.pc = "js", !.todo = b.js]
                  [] OTHER -> [hr EXCEPT !.pc = "native", !.todo = b.native])

-----------------------------------------------------------------------------
(* Assembly: all chunks are looked for, then read, then the whole checked. *)
(* Any error ends the request; what was stored stays.                      *)

(* Slip: the last chunk is not looked for.                                 *)
CheckChunkButLast(r) ==
  /\ h[r].pc = "check" /\ h[r].todo # <<>>
  /\ LET chunk == Head(h[r].todo)
         there == Len(h[r].todo) = 1 \/ Stored(artifactChunkKey(ProjectOf(h[r].body), chunk))
     IN  Becomes(r, IF CallWorks(r) /\ chunk # "bad"
                    THEN [h[r] EXCEPT !.todo = Tail(@),
                            !.missing = IF there THEN @ ELSE Append(@, chunk)]
                    ELSE Answered(h[r], 400, ""))

CheckChunk(r) ==
  /\ h[r].pc = "check" /\ h[r].todo # <<>>
  /\ LET chunk == Head(h[r].todo)
         there == Stored(artifactChunkKey(ProjectOf(h[r].body), chunk))
     IN  Becomes(r, IF CallWorks(r) /\ chunk # "bad"
                    THEN [h[r] EXCEPT !.todo = Tail(@),
                            !.missing = IF there THEN @ ELSE Append(@, chunk)]
                    ELSE Answered(h[r], 400, ""))

(* The answer for one debug file; the request goes on with the next.       *)
Responded(hr, state) ==
  [hr EXCEPT !.pc = "items", !.responses = @ \cup
     {[checksum |-> hr.item.checksum, state |-> state, missing |-> hr.missing]}]

Found(hr, state) ==
  IF hr.body.kind = "bundle" THEN Answered(hr, 200, state) ELSE Responded(hr, state)

AllChecked(r) ==
  /\ h[r].pc = "check" /\ h[r].todo = <<>>
  /\ Becomes(r, CASE h[r].missing # <<>> -> Found(h[r], "not_found")
                  [] h[r].missing = <<>> /\ h[r].item.checksum = <<"bad">> ->
                       Answered(h[r], 400, "")
                  [] OTHER -> [h[r] EXCEPT !.pc = "read", !.todo = h[r].item.chunks,
                                 !.contents = <<>>])

readSingleArtifactChunk(r) ==
  /\ h[r].pc = "read" /\ h[r].todo # <<>>
  /\ LET key == artifactChunkKey(ProjectOf(h[r].body), Head(h[r].todo))
     IN  Becomes(r, IF CallWorks(r) /\ Stored(key) /\ vault[key] \notin Large
                    THEN [h[r] EXCEPT !.todo = Tail(@), !.contents = @ \o vault[key]]
                    ELSE Answered(h[r], 400, ""))

WholeRead(hr) ==
  IF hr.body.kind = "bundle" THEN BundleRead(hr.body, hr.contents)
  ELSE DebugFileRead(hr.item, hr.contents)

WholeUploads(hr) ==
  IF hr.body.kind = "bundle" THEN BundleUploads(hr.body, BundleOf[hr.contents])
  ELSE {DebugUpload(hr.body, hr.item, hr.contents)}

(* Of a bundle with no source map nothing is stored.                       *)
Staged(hr, files) ==
  IF files = {} THEN Answered(hr, 200, "created")
  ELSE [hr EXCEPT !.pc = "put", !.uploads = files, !.contents = <<>>]

(* Slip: the whole is not checked against its checksum.                    *)
AssembleUnverified(r) ==
  /\ h[r].pc = "read" /\ h[r].todo = <<>>
  /\ Becomes(r, IF WholeRead(h[r]) THEN Staged(h[r], WholeUploads(h[r]))
                ELSE Answered(h[r], 400, ""))

Assemble(r) ==
  /\ h[r].pc = "read" /\ h[r].todo = <<>>
  /\ Becomes(r, IF h[r].contents = h[r].item.checksum /\ WholeRead(h[r])
                THEN Staged(h[r], WholeUploads(h[r]))
                ELSE Answered(h[r], 400, ""))

(* The next debug file of the request, in any order.                       *)
NextItem(r) ==
  /\ h[r].pc = "items"
  /\ \E i \in h[r].items :
       Becomes(r, IF i.checksum = <<"bad">> THEN Answered(h[r], 400, "")
                  ELSE [h[r] EXCEPT !.pc = "check", !.items = @ \ {i}, !.item = i,
                          !.missing = <<>>, !.todo = i.chunks])

AllAssembled(r) ==
  /\ h[r].pc = "items" /\ h[r].items = {}
  /\ Becomes(r, Answered(h[r], 200, ""))

-----------------------------------------------------------------------------
(* Files are stored one by one, in any order.                              *)

Finished(hr) ==
  CASE hr.body.kind = "chunk" -> Answered(hr, 200, "")
    [] hr.body.kind \in {"sourcemap", "debugfile"} -> Answered(hr, 201, "")
    [] hr.body.kind \in {"bundle", "dif"} -> Found(hr, "created")

(* The status of an error of the vault.                                    *)
UploadHTTPStatus(b) == IF b.kind \in {"bundle", "dif"} THEN 400 ELSE 503

AfterPut(hr, u) ==
  LET left == [hr EXCEPT !.uploads = @ \ {u}]
  IN  CASE u.body \in Large -> [hr EXCEPT !.pc = "drop", !.uploads = {u}]
        [] u.body \notin Large /\ left.uploads # {} -> left
        [] OTHER -> Finished(left)

(* Slip: a file that cannot be stored is left out.                         *)
PutArtifactSkips(r) ==
  /\ h[r].pc = "put"
  /\ \E u \in h[r].uploads :
       IF CallWorks(r) /\ u.ok
       THEN /\ vault' = [k \in DOMAIN vault \cup {u.key} |->
                          IF k = u.key THEN u.body ELSE vault[k]]
            /\ Changes(r, AfterPut(h[r], u), u.key)
       ELSE Becomes(r, IF h[r].uploads = {u} THEN Finished(h[r])
                       ELSE [h[r] EXCEPT !.uploads = @ \ {u}])

(* A file replaces what its key held, whatever its size; one that proves   *)
(* too large is in the vault until it is deleted again.                    *)
PutArtifact(r) ==
  /\ h[r].pc = "put"
  /\ \E u \in h[r].uploads :
       IF CallWorks(r) /\ u.ok
       THEN /\ vault' = [k \in DOMAIN vault \cup {u.key} |->
                          IF k = u.key THEN u.body ELSE vault[k]]
            /\ Changes(r, AfterPut(h[r], u), u.key)
       ELSE Becomes(r, Answered(h[r], UploadHTTPStatus(h[r].body), ""))

(* Whatever the key holds by now is deleted; an error is ignored.          *)
DeleteLarge(r) ==
  /\ h[r].pc = "drop"
  /\ LET key  == (CHOOSE u \in h[r].uploads : TRUE).key
         over == Answered(h[r], 400, "")
     IN  IF CallWorks(r)
         THEN vault' = [k \in DOMAIN vault \ {key} |-> vault[k]] /\ Changes(r, over, key)
         ELSE Becomes(r, over)

-----------------------------------------------------------------------------
(* The frames of an event.  What read each frame is kept with it.          *)

Shown(hr, by, shown) ==
  [hr EXCEPT !.frames = Append(@, [frame |-> Head(hr.todo), by |-> by, shown |-> shown]),
             !.todo = Tail(@)]

MapOf(r, f) ==
  LET b    == h[r].body
      path == sourceMapFileNameFromAbsPath(f)
      key  == SourceMapKey(ProjectOf(b), b.release, b.dist, path)
  IN  IF CallWorks(r) /\ SourceMapFileNameValid(path) /\ Stored(key) THEN vault[key] ELSE NULL

(* What the maps are parsed to when they are read.                         *)
SourceMaps == [file \in DOMAIN SourceMapOf \ Large |-> ParseSourceMap(SourceMapOf[file])]

(* A map that is too large or does not parse resolves nothing.             *)
FoundAt(file, f) ==
  IF file \in DOMAIN SourceMaps /\ SourceMaps[file].read
  THEN LookupFrame(SourceMaps[file], f.line - 1, f.column) ELSE Unmapped

PlaceOf(f, found) ==
  CASE found.outcome = "panic" -> [outcome |-> "panic", place |-> NULL]
    [] found.outcome = "mapped" /\ ResolutionValid(NewResolution(f, found)) ->
         [outcome |-> "resolved", place |-> NewResolution(f, found)]
    [] OTHER -> [outcome |-> "left", place |-> NULL]

Resolve(file, f) == PlaceOf(f, FoundAt(file, f))

(* A panic ends the handler with no answer.                                *)
ShowFrame(r, file, found) ==
  Becomes(r, IF found.outcome = "panic" THEN Idle ELSE Shown(h[r], file, found.place))

resolveSingleFrame(r) ==
  /\ h[r].pc = "js" /\ h[r].todo # <<>>
  /\ LET f == Head(h[r].todo)
     IN  ShowFrame(r, MapOf(r, f), Resolve(MapOf(r, f), f))

AllJsResolved(r) ==
  /\ h[r].pc = "js" /\ h[r].todo = <<>>
  /\ Becomes(r, [h[r] EXCEPT !.pc = "native", !.todo = h[r].body.native])

OffsetOf(r) == nativeInstructionOffset(Head(h[r].todo), h[r].body.modules)

(* The directory is listed, then each file is opened, in an order of no    *)
(* meaning: a file may have been replaced or deleted by then.              *)
ListDebugFiles(r) ==
  /\ h[r].pc = "native" /\ h[r].todo # <<>>
  /\ Becomes(r, IF Head(h[r].todo).debugID = "" \/ OffsetOf(r) < 0 \/ ~CallWorks(r)
                THEN Shown(h[r], NULL, NULL)
                ELSE [h[r] EXCEPT !.pc = "open", !.listing =
                        {k \in DOMAIN vault : k.project = ProjectOf(h[r].body) /\ k.kind = "dif"}])

openBreakpadSymbols(r, key) ==
  IF /\ CallWorks(r) /\ Stored(key)
     /\ vault[key] \notin Large /\ MagicOf(vault[key]) \notin {"", "other"}
  THEN parseBreakpadSymbols(DebugFileOf[vault[key]]) ELSE [read |-> FALSE]

(* The first file whose module is the frame's decides, found or not.       *)
FindBreakpadSymbols(r) ==
  /\ h[r].pc = "open"
  /\ LET f == Head(h[r].todo)
         closed == [h[r] EXCEPT !.pc = "native", !.listing = {}]
     IN  \/ h[r].listing = {} /\ Becomes(r, Shown(closed, NULL, NULL))
         \/ \E key \in h[r].listing :
              LET symbols == openBreakpadSymbols(r, key)
                  within  == breakpadLookup(symbols, OffsetOf(r))
                  found   == FirstOf(symbols.functions, within)
              IN  Becomes(r,
                    CASE ~symbols.read \/ symbols.debugID # f.debugID ->
                           [h[r] EXCEPT !.listing = @ \ {key}]
                      [] symbols.read /\ symbols.debugID = f.debugID
                           /\ (within = {} \/ found.name = "bad") ->
                           Shown(closed, vault[key], NULL)
                      [] OTHER ->
                           Shown(closed, vault[key],
                                 [function |-> found.name,
                                  package |-> nativeFramePackage(f, h[r].body.modules)]))

AllNativeResolved(r) ==
  /\ h[r].pc = "native" /\ h[r].todo = <<>>
  /\ Becomes(r, Answered(h[r], 200, ""))

-----------------------------------------------------------------------------
(* A client leaves, or the disk fails: the calls that follow are errors.   *)
(* An event whose client has left is not stored, whatever it would show.   *)
Leave(r) ==
  /\ Faults /\ CallWorks(r) /\ h[r].pc \in {"check", "read", "put", "drop", "items"}
  /\ Becomes(r, [h[r] EXCEPT !.gone = TRUE])

(* The process ends and starts again; the vault is kept.                   *)
Crash ==
  /\ Faults /\ \E r \in Req : h[r].pc # "idle"
  /\ h' = [r \in Req |-> Idle]
  /\ UNCHANGED vault

(* The handler is over, and another request may come.                      *)
Over(r) == h[r].pc = "done" /\ Becomes(r, Idle)

Step(r) ==
  \/ \E b \in Body : Arrive(r, b)
  \/ CheckChunk(r) \/ AllChecked(r) \/ readSingleArtifactChunk(r) \/ Assemble(r)
  \/ NextItem(r) \/ AllAssembled(r) \/ PutArtifact(r) \/ DeleteLarge(r)
  \/ resolveSingleFrame(r) \/ AllJsResolved(r)
  \/ ListDebugFiles(r) \/ FindBreakpadSymbols(r) \/ AllNativeResolved(r)
  \/ Leave(r) \/ Over(r)

Next == (\E r \in Req : Step(r)) \/ Crash

Spec == Init /\ [][Next]_vars

-----------------------------------------------------------------------------
(* The files that the requests offer to the vault, each under its key: a   *)
(* direct upload as it came, an assembly by the checksum that it names.    *)
Offered == UNION {UploadsOf(b) : b \in {c \in Body : c.kind # "event" /\ Refusal(c) = NULL}}

(* Whatever is in the vault was offered under its key by a request of an   *)
(* administrator of the project: as a direct upload, or as part of a body  *)
(* whose checksum the request named, whoever uploaded the chunks, under    *)
(* whatever name, and while others replaced them (chunks are not checked   *)
(* when they are uploaded).                                                *)
AssembledVerified ==
  \A k \in DOMAIN vault : \E u \in Offered : u.key = k /\ u.body = vault[k] /\ u.ok

(* What the answer of a handler says is stored.                            *)
Vouched(hr) ==
  LET b == hr.body
  IN  CASE hr.status = 201 \/ hr.state = "created" -> UploadsOf(b)
        [] b.kind = "chunk" /\ hr.status = 200 -> UploadsOf(b)
        [] b.kind = "dif" /\ hr.status = 200 ->
             {DebugUpload(b, i, i.checksum) : i \in {j \in b.files :
                \E a \in hr.responses : a.checksum = j.checksum /\ a.state = "created"}}
        [] OTHER -> {}

(* An answer of 'created' is true: every file of the request is in the     *)
(* vault, and not only those up to the first error, unless another handler *)
(* has written or deleted a key of the request meanwhile.  Of two files of *)
(* a bundle with the same target name, one is.                             *)
CreatedTrue ==
  \A r \in Req : h[r].pc = "done" /\ ~h[r].disturbed =>
    \A u \in Vouched(h[r]) :
      Stored(u.key) /\ \E w \in Vouched(h[r]) : w.key = u.key /\ vault[u.key] = w.body

(* Chunks within the limit that are what their names say and make up a     *)
(* sound body.                                                             *)
Sound(hr) ==
  /\ hr.item.chunks = hr.item.checksum
  /\ \A i \in DOMAIN hr.item.chunks : <<hr.item.chunks[i]>> \notin Large
  /\ IF hr.body.kind = "bundle" THEN BundleRead(hr.body, hr.item.checksum)
     ELSE DebugFileRead(hr.item, hr.item.checksum)

(* An assembly of a sound body does not fail on its chunks: those that are *)
(* not there are found missing before any is read, and the chunks of one   *)
(* assembly are still there for the next.  It fails only when a chunk is   *)
(* not what its name says, or is written or deleted meanwhile.             *)
AssembleCompletes ==
  [][\A r \in Req :
       /\ h[r].pc \in {"check", "read"} /\ h'[r].status = 400
       /\ CallWorks(r) /\ ~h[r].disturbed /\ Sound(h[r])
       => \E i \in DOMAIN h[r].item.chunks :
            LET key == artifactChunkKey(ProjectOf(h[r].body), h[r].item.chunks[i])
            IN  Stored(key) /\ vault[key] # <<h[r].item.chunks[i]>>]_vars

(* What the writer of a map meant by a position: a number of a segment is  *)
(* the sum of the numbers written so far, of the column in its line, and a *)
(* position belongs to the segment with the greatest column up to it, the  *)
(* last written of several.                                                *)
Meant(file, f) ==
  LET w   == Written[file]
      raw == SourceMapOf[file]
      all == {p \in (DOMAIN w) \X (1..10) : p[2] \in DOMAIN w[p[1]] /\ w[p[1]][p[2]] # <<>>}
      seg(p)      == w[p[1]][p[2]]
      upTo(p)     == {q \in all : q[1] < p[1] \/ (q[1] = p[1] /\ q[2] <= p[2])}
      total(p, k) ==
        MapThenSumSet(LAMBDA q : IF k \in DOMAIN seg(q) THEN seg(q)[k] ELSE 0, upTo(p))
      column(p)   == MapThenSumSet(LAMBDA q : seg(q)[1], {q \in upTo(p) : q[1] = p[1]})
      before      == {p \in all : p[1] = f.line /\ column(p) <= f.column}
      at == CHOOSE p \in before : \A q \in before :
              column(q) < column(p) \/ (column(q) = column(p) /\ q[2] <= p[2])
      source == total(at, 2) + 1
      name   == total(at, 5) + 1
  IN  IF \/ before = {} \/ Len(seg(at)) < 4 \/ source \notin DOMAIN raw.sources
         \/ total(at, 3) < 0 \/ total(at, 4) < 0
      THEN NULL
      ELSE [source |-> raw.root \o raw.sources[source], line |-> total(at, 3) + 1,
            column |-> total(at, 4),
            symbol |-> IF Len(seg(at)) = 5 /\ name \in DOMAIN raw.names THEN raw.names[name]
                       ELSE f.function]

Readable(file) == file \in DOMAIN Written \ Large /\ Written[file] # NULL

(* Every map shows at every place what its writer meant, unless it refers  *)
(* to a source or a name below the first.                                  *)
MapsMeant ==
  \A file \in DOMAIN Written : \A f \in Frames :
    LET found == Resolve(file, f)
    IN  found.outcome = "panic" \/ found.place = IF Readable(file) THEN Meant(file, f) ELSE NULL

(* Where the event says that an image is, several times if it says so; an  *)
(* image that it does not name is taken to be at the bottom.               *)
BasesOf(b, debugID) ==
  LET named == {m \in ToSet(b.modules) : m.debugID = debugID}
  IN  IF named = {} THEN {0} ELSE {m.address : m \in named}

(* A frame of a script shows what the writer of a map meant, and the map   *)
(* was offered under the release, distribution and file of the frame.      *)
ScriptExplained(e, b) ==
  /\ e.shown = IF e.by # NULL /\ Readable(e.by) THEN Meant(e.by, e.frame) ELSE NULL
  /\ e.by # NULL =>
       \E u \in Offered :
         /\ u.key = SourceMapKey(ProjectOf(b), b.release, b.dist,
                                sourceMapFileNameFromAbsPath(e.frame))
         /\ u.body = e.by /\ u.ok

(* A native frame shows a function of a debug file of its image that spans *)
(* the instruction, counted from where the image is.                       *)
NativeExplained(e, b) ==
  e.shown # NULL =>
    /\ Last(DebugFileOf[e.by].modules) = e.frame.debugID
    /\ \E f \in ToSet(DebugFileOf[e.by].functions) : \E base \in BasesOf(b, e.frame.debugID) :
         /\ f.parsed /\ f.name = e.shown.function
         /\ e.frame.instruction - base \in f.address..(f.address + f.size)

(* Whatever a frame of an event shows, while files are replaced and        *)
(* deleted, is explained by the file that was read for it; a frame that no *)
(* file explains is shown as it came.                                      *)
FramesExplained ==
  /\ MapsMeant
  /\ \A r \in Req : \A i \in DOMAIN h[r].frames :
       LET e == h[r].frames[i]
       IN  IF "host" \in DOMAIN e.frame THEN ScriptExplained(e, h[r].body)
           ELSE NativeExplained(e, h[r].body)
=============================================================================
