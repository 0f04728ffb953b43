--------------------------- MODULE ArtifactsProofs ----------------------------
(***************************************************************************)
(* What module Artifacts keeps, for any requests, bodies, limits and       *)
(* faults: whatever the vault holds was offered under its key by a request *)
(* that may (AssembledVerified), an answer of 'created' is true            *)
(* (CreatedTrue), an assembly of a sound body fails only on a chunk that   *)
(* is wrong (AssembleCompletes), and what the frames of an event show is   *)
(* explained by a file that was read for them (FramesExplained).           *)
(*                                                                         *)
(* One invariant, IInv, serves them all: what each handler has in hand is  *)
(* of its request (InHand), what it has stored is still there (Settled),   *)
(* and what it has found and read of the chunks of an assembly is what     *)
(* their names say (Gathered), the last two as long as no other handler    *)
(* writes or deletes its keys.  It is a relation of one handler and the    *)
(* vault (Sane), so that a step of another handler is one lemma (NotSeen,  *)
(* Seen) and each action is about its own handler only.  The frames need   *)
(* FInv besides: what an event has shown is explained, and no other        *)
(* request shows any.                                                      *)
(***************************************************************************)
EXTENDS Artifacts, TLAPS, SequenceTheorems, NaturalsInduction, WellFoundedInduction

(* The fields of a handler: a record of any values.                        *)
Fields ==
  {"pc", "body", "item", "items", "todo", "missing", "contents", "uploads", "responses",
   "listing", "frames", "disturbed", "gone", "status", "state"}

(* At work on a request that fills the vault.                              *)
Working == {"check", "read", "put", "drop", "items"}

(* A request that was not refused.                                         *)
Accepted == {b \in Body : b.kind # "event" /\ Refusal(b) = NULL}

(* The fields, the stage and the mark that others set.                     *)
Shaped(hr) ==
  /\ hr = [f \in Fields |-> hr[f]]
  /\ hr.pc \in PC /\ hr.disturbed \in BOOLEAN

(* What a handler has in hand is of its request.                           *)
InHand(hr) ==
  /\ hr.pc \in Working => hr.body \in Accepted /\ hr.status = NULL /\ hr.state = ""
  /\ hr.pc \in {"check", "read"} => hr.body.kind \in {"bundle", "dif"}
  /\ hr.pc \in {"check", "read"} /\ hr.body.kind = "bundle" => hr.item = hr.body
  /\ hr.pc = "items" => hr.body.kind = "dif"
  /\ hr.pc \in Working /\ hr.body.kind = "dif" => hr.items \subseteq hr.body.files
  /\ hr.pc \in Working \ {"items"} /\ hr.body.kind = "dif" => hr.item \in hr.body.files
  /\ hr.pc \in {"put", "drop"} => hr.uploads \subseteq UploadsOf(hr.body)
  /\ hr.pc \in {"put", "drop"} /\ hr.body.kind = "dif" =>
       hr.uploads = {DebugUpload(hr.body, hr.item, hr.item.checksum)}
  /\ hr.pc \in {"js", "native", "open"} => hr.body.kind \notin {"chunk", "dif"}

-----------------------------------------------------------------------------
(* The answers of the checks before the vault is used.                     *)

(* The first of a few checks.                                              *)
LEMMA FirstOfFew ==
  ASSUME NEW S \in SUBSET (1..7), S # {}
  PROVE  \E i \in S : \A j \in S : i <= j
<1>1. CASE 1 \in S
  BY <1>1
<1>2. CASE 1 \notin S /\ 2 \in S
  BY <1>2
<1>3. CASE 1 \notin S /\ 2 \notin S /\ 3 \in S
  BY <1>3
<1>4. CASE 1 \notin S /\ 2 \notin S /\ 3 \notin S /\ 4 \in S
  BY <1>4
<1>5. CASE 1 \notin S /\ 2 \notin S /\ 3 \notin S /\ 4 \notin S /\ 5 \in S
  BY <1>5
<1>6. CASE 1 \notin S /\ 2 \notin S /\ 3 \notin S /\ 4 \notin S /\ 5 \notin S /\ 6 \in S
  BY <1>6
<1>7. CASE 1 \notin S /\ 2 \notin S /\ 3 \notin S /\ 4 \notin S /\ 5 \notin S /\ 6 \notin S
           /\ 7 \in S
  BY <1>7
<1>8. \E i \in S : i \in 1..7
  OBVIOUS
<1>. QED
  BY <1>1, <1>2, <1>3, <1>4, <1>5, <1>6, <1>7, <1>8

(* The answer is of a check that fails.                                    *)
LEMMA FirstFailureIs ==
  ASSUME NEW checks, DOMAIN checks \in SUBSET (1..7)
  PROVE  \/ FirstFailure(checks) = NULL
         \/ \E i \in DOMAIN checks : checks[i][1] /\ FirstFailure(checks) = checks[i][2]
<1>. DEFINE failed == {i \in DOMAIN checks : checks[i][1]}
            first  == CHOOSE i \in failed : \A j \in failed : i <= j
<1>1. CASE failed = {}
  BY <1>1 DEF FirstFailure
<1>2. CASE failed # {}
  <2>1. \E i \in failed : \A j \in failed : i <= j
    BY <1>2, FirstOfFew
  <2>2. first \in failed
    BY <2>1
  <2>3. FirstFailure(checks) = checks[first][2]
    BY <1>2 DEF FirstFailure
  <2>. QED
    BY <2>2, <2>3
<1>. QED
  BY <1>1, <1>2

(* What the checks of a chunk answer.                                      *)
LEMMA ChunkRefusalIs ==
  ASSUME NEW b
  PROVE  /\ ChunkRefusal(b) \in {NULL, 200, 400, 503}
         /\ ChunkRefusal(b) = 200 => NULL = 200 \/ b.parts = <<>>
<1>. DEFINE file == IF b.parts = <<>> THEN [checksum |-> "", gzip |-> "ok"] ELSE b.parts[1]
            checks == <<
        <<~b.form, 400>>,
        <<b.parts = <<>>, 200>>,
        <<Len(b.parts) > 1, 400>>,
        <<file.checksum = "bad" \/ file.gzip = "no", 400>>,
        <<file.gzip = "broken", 503>> >>
<1>1. DOMAIN checks = 1..5
  OBVIOUS
<1>2. ChunkRefusal(b) = FirstFailure(checks)
  BY DEF ChunkRefusal
<1>3. /\ checks[1][2] = 400 /\ checks[2][2] = 200 /\ checks[3][2] = 400
      /\ checks[4][2] = 400 /\ checks[5][2] = 503
  OBVIOUS
<1>4. checks[2][1] => b.parts = <<>>
  OBVIOUS
<1>. HIDE DEF checks
<1>5. \/ FirstFailure(checks) = NULL
      \/ \E i \in 1..5 : checks[i][1] /\ FirstFailure(checks) = checks[i][2]
  BY <1>1, FirstFailureIs
<1>. QED
  BY <1>2, <1>3, <1>4, <1>5
(* What the check of the token answers.                                    *)
LEMMA AccessRefusalIs ==
  ASSUME NEW b
  PROVE  requireArtifactAccess(b) \in {NULL, 401, 403}
<1>. DEFINE checks == <<
        <<b.token = "", 401>>,
        <<~HasToken(b), 403>>,
        <<HasToken(b) /\ b.org # OrgOf[TokenProject[b.token]], 403>>,
        <<HasToken(b) /\ b.kind \in OfProject /\ b.slug # TokenProject[b.token], 403>> >>
<1>1. DOMAIN checks = 1..4
  OBVIOUS
<1>2. requireArtifactAccess(b) = FirstFailure(checks)
  BY DEF requireArtifactAccess
<1>3. /\ checks[1][2] = 401 /\ checks[2][2] = 403 /\ checks[3][2] = 403
      /\ checks[4][2] = 403
  OBVIOUS
<1>. HIDE DEF checks
<1>4. \/ FirstFailure(checks) = NULL
      \/ \E i \in 1..4 : checks[i][1] /\ FirstFailure(checks) = checks[i][2]
  BY <1>1, FirstFailureIs
<1>. QED
  BY <1>2, <1>3, <1>4

(* What the check of a form answers.                                       *)
LEMMA FormRefusalIs ==
  ASSUME NEW b
  PROVE  FormRefusal(b) \in {NULL, 400, 413}
<1>. DEFINE checks == <<
        <<b.form = "large", 413>>, <<b.form \in {"bad", "nofile"}, 400>> >>
<1>1. DOMAIN checks = 1..2
  OBVIOUS
<1>2. FormRefusal(b) = FirstFailure(checks)
  BY DEF FormRefusal
<1>3. /\ checks[1][2] = 413 /\ checks[2][2] = 400
  OBVIOUS
<1>. HIDE DEF checks
<1>4. \/ FirstFailure(checks) = NULL
      \/ \E i \in 1..2 : checks[i][1] /\ FirstFailure(checks) = checks[i][2]
  BY <1>1, FirstFailureIs
<1>. QED
  BY <1>2, <1>3, <1>4

(* What the checks of a source map answer.                                 *)
LEMMA SourceMapRefusalIs ==
  ASSUME NEW b
  PROVE  SourceMapRefusal(b) \in {NULL, 400, 413}
<1>. DEFINE checks == <<
        <<FormRefusal(b) # NULL, FormRefusal(b)>>,
        <<~ReleaseNameValid(b.release) \/ ~DistNameValid(b.dist), 400>>,
        <<~SourceMapFileNameValid(normalizeSourceMapTargetName(b.path)), 400>> >>
<1>1. DOMAIN checks = 1..3
  OBVIOUS
<1>2. SourceMapRefusal(b) = FirstFailure(checks)
  BY DEF SourceMapRefusal
<1>3. /\ checks[1][2] = FormRefusal(b) /\ checks[2][2] = 400 /\ checks[3][2] = 400
  OBVIOUS
<1>. HIDE DEF checks
<1>4. \/ FirstFailure(checks) = NULL
      \/ \E i \in 1..3 : checks[i][1] /\ FirstFailure(checks) = checks[i][2]
  BY <1>1, FirstFailureIs
<1>. QED
  BY <1>2, <1>3, <1>4, FormRefusalIs

(* What the checks of a debug file answer.                                 *)
LEMMA DebugFileRefusalIs ==
  ASSUME NEW b
  PROVE  DebugFileRefusal(b) \in {NULL, 400, 413, 503}
<1>. DEFINE magic == MagicOf(b.file)
            kind  == FirstText(b.declared, magic)
            checks == <<
        <<FormRefusal(b) # NULL, FormRefusal(b)>>,
        <<b.debugID = "bad" \/ b.declared = "unknown", 400>>,
        <<b.declared = "" /\ magic = "", 503>>,
        <<b.declared = "" /\ magic = "other", 400>>,
        <<~SourceMapFileNameValid(b.path), 400>>,
        <<magic = "", 503>>,
        <<magic # kind, 400>> >>
<1>1. DOMAIN checks = 1..7
  OBVIOUS
<1>2. DebugFileRefusal(b) = FirstFailure(checks)
  BY DEF DebugFileRefusal
<1>3. /\ checks[1][2] = FormRefusal(b) /\ checks[2][2] = 400 /\ checks[3][2] = 503
      /\ checks[4][2] = 400 /\ checks[5][2] = 400 /\ checks[6][2] = 503
      /\ checks[7][2] = 400
  OBVIOUS
<1>. HIDE DEF checks
<1>4. \/ FirstFailure(checks) = NULL
      \/ \E i \in 1..7 : checks[i][1] /\ FirstFailure(checks) = checks[i][2]
  BY <1>1, FirstFailureIs
<1>. QED
  BY <1>2, <1>3, <1>4, FormRefusalIs

(* What the checks of an assemble request answer.                          *)
LEMMA AssembleRefusalIs ==
  ASSUME NEW b
  PROVE  /\ FirstFailure(<< <<~b.json, 400>>, <<~assembleProjectsIncludeAccess(b), 403>> >>)
              \in {NULL, 400, 403}
         /\ FirstFailure(<< <<~b.json, 400>> >>) \in {NULL, 400}
<1>. DEFINE bundle == << <<~b.json, 400>>, <<~assembleProjectsIncludeAccess(b), 403>> >>
            dif    == << <<~b.json, 400>> >>
<1>1. DOMAIN bundle = 1..2 /\ DOMAIN dif = 1..1
  OBVIOUS
<1>2. \/ FirstFailure(bundle) = NULL
      \/ \E i \in 1..2 : bundle[i][1] /\ FirstFailure(bundle) = bundle[i][2]
  BY <1>1, FirstFailureIs
<1>3. \/ FirstFailure(dif) = NULL
      \/ \E i \in 1..1 : dif[i][1] /\ FirstFailure(dif) = dif[i][2]
  BY <1>1, FirstFailureIs
<1>4. bundle[1][2] = 400 /\ bundle[2][2] = 403 /\ dif[1][2] = 400
  OBVIOUS
<1>5. FirstFailure(bundle) \in {NULL, 400, 403} /\ FirstFailure(dif) \in {NULL, 400}
  <2>. HIDE DEF bundle, dif
  <2>. QED
    BY <1>2, <1>3, <1>4
<1>. QED
  BY <1>5

(* The answer to a request that is refused does not say that files are     *)
(* stored.                                                                 *)
LEMMA RefusalIs ==
  ASSUME NEW b, b.kind # "event", Refusal(b) # NULL
  PROVE  /\ Refusal(b) = 201 => UploadsOf(b) = {}
         /\ Refusal(b) = 200 /\ b.kind = "chunk" => UploadsOf(b) = {}
<1>1. CASE requireArtifactAccess(b) # NULL
  BY <1>1, AccessRefusalIs DEF Refusal
<1>2. CASE requireArtifactAccess(b) = NULL
  <2>1. CASE b.kind \in {"info", "reprocess"}
    BY <2>1 DEF UploadsOf
  <2>2. CASE b.kind = "chunk"
    <3>1. Refusal(b) = ChunkRefusal(b)
      BY <1>2, <2>2 DEF Refusal
    <3>2. b.parts = <<>> => UploadsOf(b) = {}
      BY <2>2 DEF UploadsOf, ToSet
    <3>. QED
      BY <2>2, <3>1, <3>2, ChunkRefusalIs, StatusAssumption DEF Status
  <2>3. CASE b.kind = "sourcemap"
    <3>1. Refusal(b) = SourceMapRefusal(b)
      BY <1>2, <2>3 DEF Refusal
    <3>. QED
      BY <2>3, <3>1, SourceMapRefusalIs
  <2>4. CASE b.kind = "debugfile"
    <3>1. Refusal(b) = DebugFileRefusal(b)
      BY <1>2, <2>4 DEF Refusal
    <3>. QED
      BY <2>4, <3>1, DebugFileRefusalIs
  <2>5. CASE b.kind \in {"bundle", "dif"}
    <3>1. Refusal(b) \in {NULL, 400, 403}
      BY <1>2, <2>5, AssembleRefusalIs DEF Refusal
    <3>. QED
      BY <2>5, <3>1
  <2>6. CASE b.kind \notin {"info", "reprocess", "chunk", "sourcemap", "debugfile", "bundle",
                             "dif"}
    BY <2>6 DEF UploadsOf
  <2>. QED
    BY <2>1, <2>2, <2>3, <2>4, <2>5, <2>6
<1>. QED
  BY <1>1, <1>2

-----------------------------------------------------------------------------
(* What a handler has stored, and what it has found.                       *)

(* The debug files that the answer says are there.                         *)
Created(hr) ==
  {DebugUpload(hr.body, i, i.checksum) :
     i \in {j \in hr.body.files :
              \E a \in hr.responses : a.checksum = j.checksum /\ a.state = "created"}}

(* The files that are in the vault because the handler has put them there. *)
Due(hr) ==
  CASE hr.pc = "done" -> Vouched(hr)
    [] hr.pc \in {"check", "read", "put", "items"} /\ hr.body.kind = "dif" -> Created(hr)
    [] hr.pc = "put" /\ hr.body.kind # "dif" -> UploadsOf(hr.body) \ hr.uploads
    [] OTHER -> {}

Owed(hr) == Due(hr) # {} => hr.body \in Accepted /\ Due(hr) \subseteq UploadsOf(hr.body)

(* Of the files under one key, one is there.                               *)
Settled(hr, v) ==
  ~hr.disturbed =>
    \A u \in Due(hr) : u.key \in DOMAIN v /\ \E w \in Due(hr) : w.key = u.key /\ v[u.key] = w.body

KeyFor(hr, chunk) == artifactChunkKey(ProjectOf(hr.body), chunk)

(* A chunk of the assembly is not what its name says.                      *)
Wrong(hr, v) ==
  \E i \in DOMAIN hr.item.chunks :
    LET key == artifactChunkKey(ProjectOf(hr.body), hr.item.chunks[i])
    IN  key \in DOMAIN v /\ v[key] # <<hr.item.chunks[i]>>

(* What is left is of the assembly.                                        *)
OfChunks(chunks, todo) ==
  /\ chunks \in Seq(STRING) /\ todo \in Seq(STRING)
  /\ \A i \in DOMAIN todo : \E j \in DOMAIN chunks : todo[i] = chunks[j]

(* Chunks that were found are there until they are read, and what was read *)
(* is what they say, unless one is wrong.                                  *)
Gathered(hr, v) ==
  /\ hr.pc \in {"check", "read"} =>
       OfChunks(hr.item.chunks, hr.todo) /\ hr.missing \in Seq(STRING)
  /\ hr.pc = "check" /\ ~hr.disturbed /\ hr.missing = <<>> =>
       \A i \in DOMAIN hr.item.chunks :
         \/ KeyFor(hr, hr.item.chunks[i]) \in DOMAIN v
         \/ \E j \in DOMAIN hr.todo : hr.todo[j] = hr.item.chunks[i]
  /\ hr.pc = "read" /\ ~hr.disturbed =>
       /\ \A i \in DOMAIN hr.item.chunks : KeyFor(hr, hr.item.chunks[i]) \in DOMAIN v
       /\ Wrong(hr, v) \/ (hr.contents \in Seq(STRING) /\ hr.contents \o hr.todo = hr.item.chunks)

Sane(hr, v) == Shaped(hr) /\ InHand(hr) /\ Owed(hr) /\ Settled(hr, v) /\ Gathered(hr, v)

(* Whatever the vault holds was offered.                                   *)
Honest == \A k \in DOMAIN vault : \E u \in Offered : u.key = k /\ u.body = vault[k] /\ u.ok

IInv == h = [r \in Req |-> h[r]] /\ (\A r \in Req : Sane(h[r], vault)) /\ Honest

(* What an answer says is there, by the answer.                            *)
LEMMA VouchedIs ==
  ASSUME NEW hr
  PROVE  Vouched(hr) =
           CASE hr.status = 201 \/ hr.state = "created" -> UploadsOf(hr.body)
             [] hr.body.kind = "chunk" /\ hr.status = 200 -> UploadsOf(hr.body)
             [] hr.body.kind = "dif" /\ hr.status = 200 -> Created(hr)
             [] OTHER -> {}
  BY DEF Vouched, Created

(* One key of the vault has changed, or none.                              *)
SameBut(v, w, key) ==
  \A k : k # key => (k \in DOMAIN v <=> k \in DOMAIN w) /\ (k \in DOMAIN v => w[k] = v[k])

(* The keys of what a handler is owed, and of its chunks, are its own.     *)
LEMMA OwnKeys ==
  ASSUME NEW hr, Shaped(hr), InHand(hr), Owed(hr)
  PROVE  /\ \A u \in Due(hr) : hr.pc # "idle" /\ u.key \in KeysOf(hr.body)
         /\ hr.pc \in {"check", "read"} =>
              \A i \in DOMAIN hr.item.chunks : KeyFor(hr, hr.item.chunks[i]) \in KeysOf(hr.body)
<1>1. ASSUME NEW u \in Due(hr) PROVE hr.pc # "idle" /\ u.key \in KeysOf(hr.body)
  <2>1. hr.pc # "idle"
    BY <1>1 DEF Due
  <2>2. hr.body \in Accepted /\ u \in UploadsOf(hr.body)
    BY <1>1 DEF Owed
  <2>. QED
    BY <2>1, <2>2 DEF Accepted, KeysOf
<1>2. ASSUME hr.pc \in {"check", "read"}, NEW i \in DOMAIN hr.item.chunks
      PROVE  KeyFor(hr, hr.item.chunks[i]) \in KeysOf(hr.body)
  <2>1. hr.body \in Accepted
    BY <1>2 DEF InHand, Working
  <2>2. hr.item.chunks[i] \in ToSet(hr.item.chunks)
    BY <1>2 DEF ToSet
  <2>3. CASE hr.body.kind = "bundle"
    BY <1>2, <2>1, <2>2, <2>3 DEF InHand, KeysOf, ChunksOf, Accepted, KeyFor
  <2>4. CASE hr.body.kind = "dif"
    <3>1. hr.item \in hr.body.files
      BY <1>2, <2>4 DEF InHand, Working
    <3>2. ChunksOf(hr.body) = UNION {ToSet(j.chunks) : j \in hr.body.files}
      BY <2>4 DEF ChunksOf
    <3>. QED
      BY <2>1, <2>2, <3>1, <3>2 DEF KeysOf, Accepted, KeyFor
  <2>. QED
    BY <1>2, <2>3, <2>4 DEF InHand
<1>. QED
  BY <1>1, <1>2

(* A handler whose keys are left alone does not see the vault change.      *)
LEMMA NotSeen ==
  ASSUME NEW hr, NEW v, NEW w, NEW key, Sane(hr, v), hr.pc = "idle" \/ key \notin KeysOf(hr.body),
         SameBut(v, w, key)
  PROVE  Sane(hr, w)
<1>1. \A u \in Due(hr) : u.key # key
  BY OwnKeys DEF Sane
<1>2. hr.pc \in {"check", "read"} =>
        \A i \in DOMAIN hr.item.chunks : KeyFor(hr, hr.item.chunks[i]) # key
  BY OwnKeys DEF Sane
<1>3. Settled(hr, w)
  BY <1>1 DEF Sane, Settled, SameBut
<1>4. hr.pc \in {"check", "read"} => (Wrong(hr, v) <=> Wrong(hr, w))
  BY <1>2 DEF Wrong, KeyFor, SameBut
<1>5. hr.pc \in {"check", "read"} => \A i \in DOMAIN hr.item.chunks :
        KeyFor(hr, hr.item.chunks[i]) \in DOMAIN v <=> KeyFor(hr, hr.item.chunks[i]) \in DOMAIN w
  BY <1>2 DEF SameBut
<1>6. Gathered(hr, w)
  <2>. HIDE DEF Wrong, KeyFor
  <2>. QED
    BY <1>4, <1>5 DEF Sane, Gathered
<1>. QED
  BY <1>3, <1>6 DEF Sane

(* One whose key was written or deleted only knows what it is about.       *)
LEMMA Seen ==
  ASSUME NEW hr, NEW v, NEW w, Sane(hr, v)
  PROVE  Sane([hr EXCEPT !.disturbed = TRUE], w)
<1>. DEFINE x == [hr EXCEPT !.disturbed = TRUE]
<1>1. /\ x = [f \in Fields |-> x[f]] /\ x.disturbed = TRUE
      /\ x.pc = hr.pc /\ x.body = hr.body /\ x.item = hr.item /\ x.items = hr.items
      /\ x.todo = hr.todo /\ x.missing = hr.missing /\ x.contents = hr.contents
      /\ x.uploads = hr.uploads /\ x.responses = hr.responses
      /\ x.status = hr.status /\ x.state = hr.state
  BY DEF Sane, Shaped, Fields
<1>. HIDE DEF x
<1>2. Shaped(x)
  BY <1>1 DEF Sane, Shaped
<1>3. InHand(x)
  BY <1>1 DEF Sane, InHand
<1>4. Due(x) = Due(hr)
  <2>1. Created(x) = Created(hr)
    BY ZenonT(30), <1>1 DEF Created
  <2>2. Vouched(x) = Vouched(hr)
    BY <1>1, <2>1, VouchedIs
  <2>. QED
    BY <1>1, <2>1, <2>2 DEF Due
<1>5. Owed(x)
  BY <1>1, <1>4 DEF Sane, Owed
<1>6. Settled(x, w)
  BY <1>1 DEF Settled
<1>7. Gathered(x, w)
  BY <1>1 DEF Sane, Gathered
<1>8. Sane(x, w)
  BY <1>2, <1>3, <1>5, <1>6, <1>7 DEF Sane
<1>. QED
  BY <1>8 DEF x

(* A step that leaves the vault alone.                                     *)
LEMMA BecomesSane ==
  ASSUME IInv, NEW r \in Req, NEW next, Becomes(r, next), Sane(next, vault)
  PROVE  IInv'
<1>1. h' = [q \in Req |-> IF q = r THEN next ELSE h[q]] /\ vault' = vault
  BY DEF IInv, Becomes
<1>2. h' = [q \in Req |-> h'[q]]
  BY <1>1
<1>3. \A q \in Req : Sane(h'[q], vault')
  BY <1>1 DEF IInv
<1>4. Honest'
  BY <1>1 DEF IInv, Honest
<1>. QED
  BY <1>2, <1>3, <1>4 DEF IInv

(* A step that changes a key of the vault.                                 *)
LEMMA ChangesSane ==
  ASSUME IInv, NEW r \in Req, NEW next, NEW key, Changes(r, next, key), Sane(next, vault'),
         SameBut(vault, vault', key),
         key \in DOMAIN vault' => \E u \in Offered : u.key = key /\ u.body = vault'[key] /\ u.ok
  PROVE  IInv'
<1>1. ASSUME NEW q \in Req
      PROVE  h'[q] = CASE q = r -> next
                       [] q # r /\ h[q].pc # "idle" /\ key \in KeysOf(h[q].body) ->
                            [h[q] EXCEPT !.disturbed = TRUE]
                       [] OTHER -> h[q]
  BY DEF Changes
<1>2. h' = [q \in Req |-> h'[q]]
  BY DEF Changes
<1>3. ASSUME NEW q \in Req PROVE Sane(h'[q], vault')
  <2>1. CASE q = r
    BY <1>1, <2>1
  <2>2. CASE q # r /\ h[q].pc # "idle" /\ key \in KeysOf(h[q].body)
    <3>1. h'[q] = [h[q] EXCEPT !.disturbed = TRUE] /\ Sane(h[q], vault)
      BY <1>1, <2>2 DEF IInv
    <3>. QED
      BY <3>1, Seen
  <2>3. CASE q # r /\ (h[q].pc = "idle" \/ key \notin KeysOf(h[q].body))
    <3>1. h'[q] = h[q] /\ Sane(h[q], vault)
      BY <1>1, <2>3 DEF IInv
    <3>. QED
      BY <2>3, <3>1, NotSeen
  <2>. QED
    BY <2>1, <2>2, <2>3
<1>4. Honest'
  BY DEF IInv, Honest, Offered, SameBut
<1>. QED
  BY <1>2, <1>3, <1>4 DEF IInv

-----------------------------------------------------------------------------
(* Handlers that start and end.                                            *)

(* One that has no request is owed nothing.                                *)
LEMMA IdleSane == ASSUME NEW v PROVE Sane(Idle, v)
<1>1. /\ Idle = [f \in Fields |-> Idle[f]]
      /\ Idle.pc = "idle" /\ Idle.disturbed = FALSE
  BY DEF Idle, Fields
<1>2. Due(Idle) = {}
  BY <1>1 DEF Due
<1>. QED
  BY <1>1, <1>2 DEF Sane, Shaped, PC, InHand, Working, Owed, Settled, Gathered

(* What is left of a handler that has answered.                            *)
LEMMA AnsweredIs ==
  ASSUME NEW hr, NEW status, NEW state
  PROVE  LET x == Answered(hr, status, state)
         IN  /\ x = [f \in Fields |-> x[f]]
             /\ x.pc = "done" /\ x.body = hr.body /\ x.responses = hr.responses
             /\ x.disturbed = hr.disturbed /\ x.status = status /\ x.state = state
  BY ZenonT(60) DEF Answered, Idle, Fields

(* An answer keeps what its handler is owed.                               *)
LEMMA AnswerSane ==
  ASSUME NEW hr, hr.disturbed \in BOOLEAN, NEW status, NEW state, NEW v,
         Owed(Answered(hr, status, state)), Settled(Answered(hr, status, state), v)
  PROVE  Sane(Answered(hr, status, state), v)
<1>. DEFINE x == Answered(hr, status, state)
<1>1. x = [f \in Fields |-> x[f]] /\ x.pc = "done" /\ x.disturbed = hr.disturbed
  BY AnsweredIs
<1>2. Owed(x) /\ Settled(x, v)
  OBVIOUS
<1>. HIDE DEF x
<1>3. Sane(x, v)
  BY <1>1, <1>2 DEF Sane, Shaped, PC, InHand, Working, Gathered
<1>. QED
  BY <1>3 DEF x

(* One that says nothing is stored is owed nothing.                        *)
LEMMA NothingVouched ==
  ASSUME NEW hr, hr.disturbed \in BOOLEAN, NEW status, NEW state, NEW v,
         status = 201 \/ state = "created" => UploadsOf(hr.body) = {},
         hr.body.kind = "chunk" /\ status = 200 => UploadsOf(hr.body) = {},
         hr.body.kind = "dif" /\ status = 200 => hr.responses = {}
  PROVE  Sane(Answered(hr, status, state), v)
<1>. DEFINE x == Answered(hr, status, state)
<1>1. /\ x.pc = "done" /\ x.body = hr.body /\ x.responses = hr.responses
      /\ x.status = status /\ x.state = state
  BY AnsweredIs
<1>2. hr.responses = {} => Created(x) = {}
  BY <1>1 DEF Created
<1>3. Vouched(x) = {}
  <2>. HIDE DEF x
  <2>. QED
    BY <1>1, <1>2, VouchedIs
<1>4. Due(x) = {}
  BY <1>1, <1>3 DEF Due
<1>5. Owed(x) /\ Settled(x, v)
  BY <1>4 DEF Owed, Settled
<1>. QED
  BY <1>5, AnswerSane

(* One that works for an event, or has nothing left, is owed nothing.      *)
LEMMA QuietSane ==
  ASSUME NEW hr, NEW v, Shaped(hr), hr.pc \in {"js", "native", "open"},
         hr.body.kind \notin {"chunk", "dif"}
  PROVE  Sane(hr, v)
<1>1. Due(hr) = {}
  BY DEF Due
<1>. QED
  BY <1>1 DEF Sane, InHand, Working, Owed, Settled, Gathered

(* A request arrives.                                                      *)
LEMMA ArriveSane ==
  ASSUME IInv, NEW r \in Req, NEW b \in Body, Arrive(r, b)
  PROVE  IInv'
<1>. DEFINE hr == [Idle EXCEPT !.body = b]
            next == IF b.kind # "event" /\ Refusal(b) # NULL THEN Answered(hr, Refusal(b), "")
                    ELSE CASE b.kind \in {"chunk", "sourcemap", "debugfile"} ->
                                [hr EXCEPT !.pc = "put", !.uploads = UploadsOf(b)]
                           [] b.kind = "bundle" ->
                                [hr EXCEPT !.pc = "check", !.item = b, !.todo = b.chunks]
                           [] b.kind = "dif" -> [hr EXCEPT !.pc = "items", !.items = b.files]
                           [] b.kind = "event" /\ ScriptsResolvable(b) ->
                                [hr EXCEPT !.pc = "js", !.todo = b.js]
                           [] OTHER -> [hr EXCEPT !.pc = "native", !.todo = b.native]
<1>1. Becomes(r, next)
  BY DEF Arrive
<1>2. /\ hr = [f \in Fields |-> hr[f]] /\ hr.body = b /\ hr.disturbed = FALSE
      /\ hr.missing = <<>> /\ hr.responses = {} /\ hr.status = NULL /\ hr.state = ""
  BY DEF Idle, Fields
<1>3. ASSUME b.kind # "event", Refusal(b) # NULL PROVE Sane(next, vault)
  <2>1. next = Answered(hr, Refusal(b), "")
    BY <1>3
  <2>2. Sane(Answered(hr, Refusal(b), ""), vault)
    <3>. HIDE DEF hr
    <3>1. /\ Refusal(b) = 201 => UploadsOf(hr.body) = {}
          /\ Refusal(b) = 200 /\ hr.body.kind = "chunk" => UploadsOf(hr.body) = {}
      BY <1>2, <1>3, RefusalIs
    <3>2. hr.disturbed \in BOOLEAN /\ hr.responses = {}
      BY <1>2
    <3>. DEFINE none == ""
    <3>3. none # "created"
      OBVIOUS
    <3>. HIDE DEF none
    <3>4. Sane(Answered(hr, Refusal(b), none), vault)
      BY <3>1, <3>2, <3>3, NothingVouched
    <3>. QED
      BY <3>4 DEF none
  <2>. QED
    BY <2>1, <2>2
<1>4. ASSUME b.kind \in {"chunk", "sourcemap", "debugfile"}, Refusal(b) = NULL
      PROVE  Sane(next, vault)
  <2>. DEFINE x == [hr EXCEPT !.pc = "put", !.uploads = UploadsOf(b)]
  <2>1. /\ x = [f \in Fields |-> x[f]] /\ x.pc = "put" /\ x.uploads = UploadsOf(b)
        /\ x.body = b /\ x.disturbed = FALSE /\ x.status = NULL /\ x.state = ""
    BY <1>2 DEF Idle, Fields
  <2>2. next = x
    BY <1>4
  <2>. HIDE DEF x, next, hr
  <2>3. b \in Accepted
    BY <1>4 DEF Accepted
  <2>4. Due(x) = {}
    BY <1>4, <2>1 DEF Due
  <2>5. Sane(x, vault)
    BY <1>4, <2>1, <2>3, <2>4 DEF Sane, Shaped, PC, InHand, Working, Owed, Settled, Gathered
  <2>. QED
    BY <2>2, <2>5
<1>5. ASSUME b.kind = "bundle", Refusal(b) = NULL PROVE Sane(next, vault)
  <2>. DEFINE x == [hr EXCEPT !.pc = "check", !.item = b, !.todo = b.chunks]
  <2>1. /\ x = [f \in Fields |-> x[f]] /\ x.pc = "check" /\ x.item = b /\ x.todo = b.chunks
        /\ x.missing = <<>>
        /\ x.body = b /\ x.disturbed = FALSE /\ x.status = NULL /\ x.state = ""
    BY <1>2 DEF Idle, Fields
  <2>2. next = x
    BY <1>5
  <2>. HIDE DEF x, next, hr
  <2>3. b \in Accepted
    BY <1>5 DEF Accepted
  <2>4. Due(x) = {}
    BY <1>5, <2>1 DEF Due
  <2>5. OfChunks(x.item.chunks, x.todo)
    BY <1>5, <2>1, BodyAssumption DEF OfChunks
  <2>6. Gathered(x, vault)
    BY <2>1, <2>5, EmptySeq DEF Gathered
  <2>7. Sane(x, vault)
    BY <1>5, <2>1, <2>3, <2>4, <2>6 DEF Sane, Shaped, PC, InHand, Working, Owed, Settled
  <2>. QED
    BY <2>2, <2>7
<1>6. ASSUME b.kind = "dif", Refusal(b) = NULL PROVE Sane(next, vault)
  <2>. DEFINE x == [hr EXCEPT !.pc = "items", !.items = b.files]
  <2>1. /\ x = [f \in Fields |-> x[f]] /\ x.pc = "items" /\ x.items = b.files
        /\ x.body = b /\ x.disturbed = FALSE /\ x.status = NULL /\ x.state = ""
        /\ x.responses = {}
    BY <1>2 DEF Idle, Fields
  <2>2. next = x
    BY <1>6
  <2>. HIDE DEF x, next, hr
  <2>3. b \in Accepted
    BY <1>6 DEF Accepted
  <2>4. Due(x) = {}
    BY <1>6, <2>1 DEF Due, Created
  <2>5. Sane(x, vault)
    BY <1>6, <2>1, <2>3, <2>4 DEF Sane, Shaped, PC, InHand, Working, Owed, Settled, Gathered
  <2>. QED
    BY <2>2, <2>5
<1>7. ASSUME b.kind = "event" \/ Refusal(b) = NULL,
             b.kind \notin {"chunk", "sourcemap", "debugfile", "bundle", "dif"}
      PROVE  Sane(next, vault)
  <2>. DEFINE x == [hr EXCEPT !.pc = "js", !.todo = b.js]
              y == [hr EXCEPT !.pc = "native", !.todo = b.native]
  <2>1. /\ x = [f \in Fields |-> x[f]] /\ x.pc = "js" /\ x.body = b /\ x.disturbed = FALSE
        /\ y = [f \in Fields |-> y[f]] /\ y.pc = "native" /\ y.body = b /\ y.disturbed = FALSE
    BY <1>2 DEF Idle, Fields
  <2>2. next = x \/ next = y
    BY <1>7
  <2>. HIDE DEF x, y, next, hr
  <2>3. Sane(x, vault) /\ Sane(y, vault)
    BY <1>7, <2>1, QuietSane DEF Shaped, PC
  <2>. QED
    BY <2>2, <2>3
<1>8. Sane(next, vault)
  <2>. HIDE DEF next, hr
  <2>. QED
    BY <1>3, <1>4, <1>5, <1>6, <1>7
<1>. HIDE DEF next
<1>. QED
  BY <1>1, <1>8, BecomesSane

-----------------------------------------------------------------------------
(* Chunks are looked for and read, and the whole is stored.                *)

(* A handler that only forgets what no invariant is about.                 *)
LEMMA SameSane ==
  ASSUME NEW hr, NEW x, NEW v, Sane(hr, v), x = [f \in Fields |-> x[f]],
         x.disturbed = hr.disturbed, x.pc = hr.pc, x.body = hr.body, x.item = hr.item,
         x.items = hr.items, x.todo = hr.todo, x.missing = hr.missing, x.contents = hr.contents,
         x.uploads = hr.uploads, x.responses = hr.responses, x.status = hr.status,
         x.state = hr.state
  PROVE  Sane(x, v)
<1>1. Created(x) = Created(hr)
  BY DEF Created
<1>2. Vouched(x) = Vouched(hr)
  BY ZenonT(30), <1>1, VouchedIs
<1>3. Due(x) = Due(hr)
  BY <1>1, <1>2 DEF Due
<1>4. Shaped(x) /\ InHand(x)
  BY DEF Sane, Shaped, InHand
<1>5. Owed(x) /\ Settled(x, v)
  BY <1>3 DEF Sane, Owed, Settled
<1>6. Wrong(x, v) <=> Wrong(hr, v)
  BY DEF Wrong
<1>7. \A chunk : KeyFor(x, chunk) = KeyFor(hr, chunk)
  BY DEF KeyFor
<1>8. Gathered(x, v)
  BY ZenonT(30), <1>6, <1>7 DEF Sane, Gathered
<1>. QED
  BY <1>4, <1>5, <1>8 DEF Sane

(* One that goes on with what it is owed.                                  *)
LEMMA OwedStill ==
  ASSUME NEW hr, NEW x, NEW v, Sane(hr, v), x.disturbed = hr.disturbed, x.body = hr.body,
         Due(x) = Due(hr)
  PROVE  Owed(x) /\ Settled(x, v)
  BY DEF Sane, Owed, Settled

(* An error is an answer that says nothing is stored.                      *)
LEMMA FailSane ==
  ASSUME NEW hr, NEW v, NEW w, Sane(hr, v)
  PROVE  Sane(Answered(hr, 400, ""), w) /\ Sane(Answered(hr, 503, ""), w)
<1>. DEFINE none == ""
<1>1. none # "created" /\ hr.disturbed \in BOOLEAN
  BY DEF Sane, Shaped
<1>. HIDE DEF none
<1>2. Sane(Answered(hr, 400, none), w) /\ Sane(Answered(hr, 503, none), w)
  BY <1>1, NothingVouched
<1>. QED
  BY <1>2 DEF none

(* A sequence is its first element and the rest.                          *)
LEMMA FirstAndRest ==
  ASSUME NEW S, NEW s \in Seq(S), s # <<>>
  PROVE  /\ Head(s) \in S /\ Tail(s) \in Seq(S) /\ <<Head(s)>> \o Tail(s) = s
         /\ \A i \in DOMAIN Tail(s) : i + 1 \in DOMAIN s /\ Tail(s)[i] = s[i + 1]
         /\ \A i \in DOMAIN s : s[i] = Head(s) \/ \E j \in DOMAIN Tail(s) : Tail(s)[j] = s[i]
         /\ 1 \in DOMAIN s /\ s[1] = Head(s)
<1>1. /\ Head(s) \in S /\ Tail(s) \in Seq(S) /\ Len(Tail(s)) = Len(s) - 1
      /\ \A i \in 1..Len(Tail(s)) : Tail(s)[i] = s[i + 1]
  BY HeadTailProperties
<1>2. DOMAIN s = 1..Len(s) /\ DOMAIN Tail(s) = 1..Len(Tail(s)) /\ Len(s) \in Nat /\ Len(s) # 0
  BY <1>1
<1>3. \A i \in DOMAIN Tail(s) : i + 1 \in DOMAIN s /\ Tail(s)[i] = s[i + 1]
  BY <1>1, <1>2
<1>4. 1 \in DOMAIN s /\ s[1] = Head(s)
  BY <1>2
<1>5. ASSUME NEW i \in DOMAIN s, s[i] # Head(s)
      PROVE  \E j \in DOMAIN Tail(s) : Tail(s)[j] = s[i]
  <2>1. i - 1 \in 1..Len(Tail(s)) /\ Tail(s)[i - 1] = s[(i - 1) + 1] /\ (i - 1) + 1 = i
    BY <1>1, <1>2, <1>4, <1>5
  <2>. QED
    BY <1>2, <2>1
<1>6. <<Head(s)>> \o Tail(s) = s
  <2>. DEFINE t == <<Head(s)>> \o Tail(s)
  <2>1. <<Head(s)>> \in Seq(S) /\ Len(<<Head(s)>>) = 1 /\ <<Head(s)>>[1] = Head(s)
    BY <1>1
  <2>2. /\ t \in Seq(S) /\ Len(t) = 1 + Len(Tail(s))
        /\ \A i \in 1..1 + Len(Tail(s)) : t[i] = IF i <= 1 THEN <<Head(s)>>[i] ELSE Tail(s)[i - 1]
    BY <1>1, <2>1, ConcatProperties
  <2>. HIDE DEF t
  <2>3. ASSUME NEW i \in 1..Len(t) PROVE t[i] = s[i]
    <3>1. CASE i = 1
      BY <1>4, <2>1, <2>2, <3>1
    <3>2. CASE i # 1
      <4>1. t[i] = Tail(s)[i - 1] /\ i - 1 \in 1..Len(Tail(s))
        BY <1>1, <1>2, <2>2, <2>3, <3>2
      <4>2. Tail(s)[i - 1] = s[(i - 1) + 1] /\ (i - 1) + 1 = i
        BY <1>1, <1>2, <2>3, <4>1
      <4>. QED
        BY <4>1, <4>2
    <3>. QED
      BY <3>1, <3>2
  <2>4. Len(t) = Len(s)
    BY <1>1, <1>2, <2>2
  <2>. QED
    BY <2>2, <2>3, <2>4, SeqEqual
<1>. QED
  BY <1>1, <1>3, <1>4, <1>5, <1>6

(* A chunk is looked for.                                                  *)
LEMMA CheckChunkSane ==
  ASSUME IInv, NEW r \in Req, CheckChunk(r)
  PROVE  IInv'
<1>. DEFINE hr == h[r]
            chunk == Head(hr.todo)
            there == Stored(artifactChunkKey(ProjectOf(hr.body), chunk))
            x == [hr EXCEPT !.todo = Tail(@),
                            !.missing = IF there THEN @ ELSE Append(@, chunk)]
            next == IF CallWorks(r) /\ chunk # "bad" THEN x ELSE Answered(hr, 400, "")
<1>1. hr.pc = "check" /\ hr.todo # <<>> /\ Becomes(r, next)
  BY DEF CheckChunk
<1>2. Sane(hr, vault)
  BY DEF IInv
<1>3. Sane(Answered(hr, 400, ""), vault)
  BY <1>2, FailSane
<1>4. /\ x = [f \in Fields |-> x[f]] /\ x.disturbed = hr.disturbed /\ x.pc = "check"
      /\ x.body = hr.body /\ x.item = hr.item /\ x.items = hr.items
      /\ x.todo = Tail(hr.todo) /\ (x.missing = <<>> => hr.missing = <<>> /\ there)
      /\ x.missing \in Seq(STRING)
      /\ x.responses = hr.responses /\ x.status = hr.status /\ x.state = hr.state
  <2>1. /\ x = [f \in Fields |-> x[f]] /\ x.disturbed = hr.disturbed /\ x.pc = hr.pc
        /\ x.body = hr.body /\ x.item = hr.item /\ x.items = hr.items
        /\ x.todo = Tail(hr.todo)
        /\ x.missing = IF there THEN hr.missing ELSE Append(hr.missing, chunk)
        /\ x.responses = hr.responses /\ x.status = hr.status /\ x.state = hr.state
    BY <1>2 DEF Sane, Shaped, Fields
  <2>2. hr.missing \in Seq(STRING) /\ hr.todo \in Seq(STRING) /\ hr.todo # <<>>
    BY <1>1, <1>2 DEF Sane, Gathered, OfChunks
  <2>3. chunk \in STRING
    BY <2>2, HeadTailProperties
  <2>4. Append(hr.missing, chunk) # <<>> /\ Append(hr.missing, chunk) \in Seq(STRING)
    BY <2>2, <2>3, AppendProperties
  <2>. HIDE DEF x, there
  <2>. QED
    BY <1>1, <2>1, <2>2, <2>4
<1>5. there <=> KeyFor(hr, chunk) \in DOMAIN vault
  BY DEF KeyFor, Stored
<1>. HIDE DEF x, there
<1>6. Created(x) = Created(hr)
  BY <1>4 DEF Created
<1>7. Owed(x) /\ Settled(x, vault)
  BY <1>1, <1>2, <1>4, <1>6, OwedStill DEF Due
<1>8. Shaped(x) /\ InHand(x)
  BY <1>1, <1>2, <1>4 DEF Sane, Shaped, InHand, PC, Working
<1>9. \A c : KeyFor(x, c) = KeyFor(hr, c)
  BY <1>4 DEF KeyFor
<1>10. OfChunks(hr.item.chunks, hr.todo)
  BY <1>1, <1>2 DEF Sane, Gathered
<1>11. /\ Tail(hr.todo) \in Seq(STRING)
       /\ \A i \in DOMAIN Tail(hr.todo) :
            i + 1 \in DOMAIN hr.todo /\ Tail(hr.todo)[i] = hr.todo[i + 1]
       /\ \A i \in DOMAIN hr.todo :
            hr.todo[i] = chunk \/ \E j \in DOMAIN Tail(hr.todo) : Tail(hr.todo)[j] = hr.todo[i]
  <2>1. hr.todo \in Seq(STRING) /\ hr.todo # <<>>
    BY <1>1, <1>10 DEF OfChunks
  <2>. QED
    BY <2>1, FirstAndRest
<1>12. OfChunks(x.item.chunks, x.todo)
  <2>1. x.todo = Tail(hr.todo) /\ x.item.chunks = hr.item.chunks
    BY <1>4
  <2>. QED
    BY <2>1, <1>10, <1>11 DEF OfChunks
<1>13. ASSUME ~x.disturbed, x.missing = <<>>, NEW i \in DOMAIN x.item.chunks
       PROVE  \/ KeyFor(x, x.item.chunks[i]) \in DOMAIN vault
              \/ \E j \in DOMAIN x.todo : x.todo[j] = x.item.chunks[i]
  <2>1. \/ KeyFor(hr, hr.item.chunks[i]) \in DOMAIN vault
        \/ \E j \in DOMAIN hr.todo : hr.todo[j] = hr.item.chunks[i]
    BY <1>1, <1>2, <1>4, <1>13 DEF Sane, Gathered
  <2>2. KeyFor(hr, chunk) \in DOMAIN vault
    BY <1>4, <1>5, <1>13
  <2>3. x.todo = Tail(hr.todo) /\ x.item.chunks = hr.item.chunks
    BY <1>4
  <2>4. CASE KeyFor(hr, hr.item.chunks[i]) \in DOMAIN vault
    BY <1>9, <2>3, <2>4
  <2>5. ASSUME NEW j \in DOMAIN hr.todo, hr.todo[j] = hr.item.chunks[i]
        PROVE  \/ KeyFor(x, x.item.chunks[i]) \in DOMAIN vault
               \/ \E k \in DOMAIN x.todo : x.todo[k] = x.item.chunks[i]
    <3>1. CASE hr.todo[j] = chunk
      BY <1>9, <2>2, <2>3, <2>5, <3>1
    <3>2. CASE hr.todo[j] # chunk
      BY <1>11, <2>3, <2>5, <3>2
    <3>. QED
      BY <3>1, <3>2
  <2>. QED
    BY <2>1, <2>4, <2>5
<1>14. Gathered(x, vault)
  BY <1>4, <1>12, <1>13 DEF Gathered
<1>15. Sane(x, vault)
  BY <1>7, <1>8, <1>14 DEF Sane
<1>16. Sane(next, vault)
  BY <1>3, <1>15
<1>. HIDE DEF next
<1>. QED
  BY <1>1, <1>16, BecomesSane

(* An assembly with a chunk missing says so.                               *)
LEMMA RespondedSane ==
  ASSUME NEW hr, NEW v, Sane(hr, v), hr.body.kind = "dif", hr.pc \in {"check", "read"}
  PROVE  Sane(Responded(hr, "not_found"), v)
<1>. DEFINE x == Responded(hr, "not_found")
            a == [checksum |-> hr.item.checksum, state |-> "not_found", missing |-> hr.missing]
<1>1. /\ x = [f \in Fields |-> x[f]] /\ x.disturbed = hr.disturbed /\ x.pc = "items"
      /\ x.body = hr.body /\ x.items = hr.items /\ x.responses = hr.responses \cup {a}
      /\ x.status = hr.status /\ x.state = hr.state
  BY DEF Sane, Shaped, Fields, Responded
<1>2. a.state # "created"
  OBVIOUS
<1>. HIDE DEF x, a
<1>3. Created(x) = Created(hr)
  BY <1>1, <1>2 DEF Created
<1>4. Owed(x) /\ Settled(x, v)
  BY <1>1, <1>3, OwedStill DEF Due
<1>5. Shaped(x) /\ InHand(x)
  BY <1>1 DEF Sane, Shaped, InHand, PC, Working
<1>6. Gathered(x, v)
  BY <1>1 DEF Gathered
<1>7. Sane(x, v)
  BY <1>4, <1>5, <1>6 DEF Sane
<1>. QED
  BY <1>7 DEF x

(* All chunks have been looked for.                                        *)
LEMMA AllCheckedSane ==
  ASSUME IInv, NEW r \in Req, AllChecked(r)
  PROVE  IInv'
<1>. DEFINE hr == h[r]
            x == [hr EXCEPT !.pc = "read", !.todo = hr.item.chunks, !.contents = <<>>]
            next == CASE hr.missing # <<>> -> Found(hr, "not_found")
                      [] hr.missing = <<>> /\ hr.item.checksum = <<"bad">> -> Answered(hr, 400, "")
                      [] OTHER -> x
<1>1. hr.pc = "check" /\ hr.todo = <<>> /\ Becomes(r, next)
  BY DEF AllChecked
<1>2. Sane(hr, vault)
  BY DEF IInv
<1>3. Sane(Answered(hr, 400, ""), vault)
  BY <1>2, FailSane
<1>4. Sane(Found(hr, "not_found"), vault)
  <2>1. CASE hr.body.kind = "bundle"
    <3>1. Sane(Answered(hr, 200, "not_found"), vault)
      BY <1>2, <2>1, NothingVouched DEF Sane, Shaped
    <3>. QED
      BY <2>1, <3>1 DEF Found
  <2>2. CASE hr.body.kind = "dif"
    BY <1>1, <1>2, <2>2, RespondedSane DEF Found
  <2>. QED
    BY <1>1, <1>2, <2>1, <2>2 DEF Sane, InHand
<1>5. ASSUME hr.missing = <<>> PROVE Sane(x, vault)
  <2>1. /\ x = [f \in Fields |-> x[f]] /\ x.disturbed = hr.disturbed /\ x.pc = "read"
        /\ x.body = hr.body /\ x.item = hr.item /\ x.items = hr.items
        /\ x.todo = hr.item.chunks /\ x.contents = <<>> /\ x.missing = hr.missing
        /\ x.responses = hr.responses /\ x.status = hr.status /\ x.state = hr.state
    BY <1>2 DEF Sane, Shaped, Fields
  <2>. HIDE DEF x
  <2>2. Created(x) = Created(hr)
    BY <2>1 DEF Created
  <2>3. Owed(x) /\ Settled(x, vault)
    BY <1>1, <1>2, <2>1, <2>2, OwedStill DEF Due
  <2>4. Shaped(x) /\ InHand(x)
    BY <1>1, <1>2, <2>1 DEF Sane, Shaped, InHand, PC, Working
  <2>5. OfChunks(x.item.chunks, x.todo)
    BY <1>1, <1>2, <2>1 DEF Sane, Gathered, OfChunks
  <2>6. ~x.disturbed =>
          \A i \in DOMAIN x.item.chunks : KeyFor(x, x.item.chunks[i]) \in DOMAIN vault
    <3>1. \A c : KeyFor(x, c) = KeyFor(hr, c)
      BY <2>1 DEF KeyFor
    <3>2. DOMAIN hr.todo = {}
      <4>1. hr.todo = <<>>
        BY <1>1
      <4>. QED
        BY <4>1
    <3>. QED
      BY <1>1, <1>2, <1>5, <2>1, <3>1, <3>2 DEF Sane, Gathered
  <2>7. x.contents \in Seq(STRING) /\ x.contents \o x.todo = x.item.chunks
    <3>1. x.item.chunks \in Seq(STRING)
      BY <2>5 DEF OfChunks
    <3>2. <<>> \in Seq(STRING) /\ <<>> \o x.item.chunks = x.item.chunks
      BY <3>1, ConcatEmptySeq, EmptySeq
    <3>3. x.todo = x.item.chunks /\ x.contents = <<>>
      BY <2>1
    <3>. QED
      BY <3>2, <3>3
  <2>8. Gathered(x, vault)
    BY <1>1, <1>2, <2>1, <2>5, <2>6, <2>7 DEF Sane, Gathered
  <2>. QED
    BY <2>3, <2>4, <2>8 DEF Sane
<1>6. Sane(next, vault)
  <2>. HIDE DEF x
  <2>. QED
    BY <1>3, <1>4, <1>5
<1>. HIDE DEF next
<1>. QED
  BY <1>1, <1>6, BecomesSane

(* A chunk is read.                                                        *)
LEMMA ReadChunkSane ==
  ASSUME IInv, NEW r \in Req, readSingleArtifactChunk(r)
  PROVE  IInv'
<1>. DEFINE hr == h[r]
            chunk == Head(hr.todo)
            key == artifactChunkKey(ProjectOf(hr.body), chunk)
            x == [hr EXCEPT !.todo = Tail(@), !.contents = @ \o vault[key]]
            next == IF CallWorks(r) /\ Stored(key) /\ vault[key] \notin Large
                    THEN x ELSE Answered(hr, 400, "")
<1>1. hr.pc = "read" /\ hr.todo # <<>> /\ Becomes(r, next)
  BY DEF readSingleArtifactChunk
<1>2. Sane(hr, vault)
  BY DEF IInv
<1>3. Sane(Answered(hr, 400, ""), vault)
  BY <1>2, FailSane
<1>4. ASSUME Stored(key) PROVE Sane(x, vault)
  <2>1. /\ x = [f \in Fields |-> x[f]] /\ x.disturbed = hr.disturbed /\ x.pc = "read"
        /\ x.body = hr.body /\ x.item = hr.item /\ x.items = hr.items
        /\ x.todo = Tail(hr.todo) /\ x.contents = hr.contents \o vault[key]
        /\ x.missing = hr.missing
        /\ x.responses = hr.responses /\ x.status = hr.status /\ x.state = hr.state
    <3>1. hr = [f \in Fields |-> hr[f]] /\ hr.pc = "read"
      BY <1>1, <1>2 DEF Sane, Shaped
    <3>. HIDE DEF key, hr
    <3>. QED
      BY <3>1 DEF Fields
  <2>. HIDE DEF x
  <2>2. Created(x) = Created(hr)
    BY <2>1 DEF Created
  <2>3. Owed(x) /\ Settled(x, vault)
    BY <1>1, <1>2, <2>1, <2>2, OwedStill DEF Due
  <2>4. Shaped(x) /\ InHand(x)
    BY <1>1, <1>2, <2>1 DEF Sane, Shaped, InHand, PC, Working
  <2>5. OfChunks(hr.item.chunks, hr.todo) /\ hr.missing \in Seq(STRING)
    BY <1>1, <1>2 DEF Sane, Gathered
  <2>6. /\ chunk \in STRING /\ Tail(hr.todo) \in Seq(STRING) /\ hr.todo \in Seq(STRING)
        /\ <<chunk>> \o Tail(hr.todo) = hr.todo
        /\ \A i \in DOMAIN Tail(hr.todo) :
            i + 1 \in DOMAIN hr.todo /\ Tail(hr.todo)[i] = hr.todo[i + 1]
        /\ 1 \in DOMAIN hr.todo /\ hr.todo[1] = chunk
    <3>1. hr.todo \in Seq(STRING) /\ hr.todo # <<>>
      BY <1>1, <2>5 DEF OfChunks
    <3>. QED
      BY <3>1, FirstAndRest
  <2>7. OfChunks(x.item.chunks, x.todo)
    <3>1. x.todo = Tail(hr.todo) /\ x.item.chunks = hr.item.chunks
      BY <2>1
    <3>. QED
      BY <3>1, <2>5, <2>6 DEF OfChunks
  <2>8. \A c : KeyFor(x, c) = KeyFor(hr, c)
    BY <2>1 DEF KeyFor
  <2>9. Wrong(x, vault) <=> Wrong(hr, vault)
    BY <2>1 DEF Wrong
  <2>10. ASSUME ~x.disturbed, ~Wrong(x, vault)
         PROVE  x.contents \in Seq(STRING) /\ x.contents \o x.todo = x.item.chunks
    <3>1. hr.contents \in Seq(STRING) /\ hr.contents \o hr.todo = hr.item.chunks
      BY <1>1, <1>2, <2>1, <2>9, <2>10 DEF Sane, Gathered
    <3>2. vault[key] = <<chunk>>
      <4>1. PICK i \in DOMAIN hr.item.chunks : hr.todo[1] = hr.item.chunks[i]
        BY <2>5, <2>6 DEF OfChunks
      <4>2. key \in DOMAIN vault
        BY <1>4 DEF Stored
      <4>. HIDE DEF chunk
      <4>. QED
        BY <2>6, <2>9, <2>10, <4>1, <4>2 DEF Wrong
    <3>3. <<chunk>> \in Seq(STRING)
      BY <2>6
    <3>4. /\ hr.contents \o <<chunk>> \in Seq(STRING)
          /\ (hr.contents \o <<chunk>>) \o Tail(hr.todo) =
               hr.contents \o (<<chunk>> \o Tail(hr.todo))
      <4>. DEFINE one  == <<chunk>>
                  read == hr.contents
                  rest == Tail(hr.todo)
      <4>1. one \in Seq(STRING) /\ read \in Seq(STRING) /\ rest \in Seq(STRING)
        BY <2>6, <3>1, <3>3
      <4>. HIDE DEF one, read, rest
      <4>2. read \o one \in Seq(STRING)
        BY <4>1, ConcatProperties
      <4>3. (read \o one) \o rest = read \o (one \o rest)
        BY <4>1, ConcatAssociative
      <4>. QED
        BY <4>2, <4>3 DEF one, read, rest
    <3>5. x.contents = hr.contents \o <<chunk>> /\ x.todo = Tail(hr.todo) /\ x.item = hr.item
      BY <2>1, <3>2
    <3>. QED
      BY <2>6, <3>1, <3>4, <3>5
  <2>11. ~x.disturbed =>
           \A i \in DOMAIN x.item.chunks : KeyFor(x, x.item.chunks[i]) \in DOMAIN vault
    BY <1>1, <1>2, <2>1, <2>8 DEF Sane, Gathered
  <2>12. Gathered(x, vault)
    BY <2>1, <2>5, <2>7, <2>10, <2>11 DEF Gathered
  <2>. QED
    BY <2>3, <2>4, <2>12 DEF Sane
<1>5. Sane(next, vault)
  <2>. HIDE DEF x
  <2>. QED
    BY <1>3, <1>4
<1>. HIDE DEF next
<1>. QED
  BY <1>1, <1>5, BecomesSane

(* What a whole is, when it is what its checksum says: what the request    *)
(* may store.                                                              *)
LEMMA WholeOffered ==
  ASSUME NEW hr, NEW v, Sane(hr, v), hr.pc = "read", hr.contents = hr.item.checksum,
         WholeRead(hr)
  PROVE  /\ WholeUploads(hr) \subseteq UploadsOf(hr.body)
         /\ hr.body.kind = "bundle" => WholeUploads(hr) = UploadsOf(hr.body)
         /\ hr.body.kind = "dif" =>
              WholeUploads(hr) = {DebugUpload(hr.body, hr.item, hr.item.checksum)}
<1>1. CASE hr.body.kind = "bundle"
  <2>1. hr.item = hr.body /\ BundleRead(hr.body, hr.body.checksum)
    BY <1>1 DEF Sane, InHand, WholeRead
  <2>. QED
    BY <1>1, <2>1 DEF WholeUploads, UploadsOf
<1>2. CASE hr.body.kind = "dif"
  <2>1. hr.item \in hr.body.files /\ DebugFileRead(hr.item, hr.item.checksum)
    BY <1>2 DEF Sane, InHand, Working, WholeRead
  <2>2. WholeUploads(hr) = {DebugUpload(hr.body, hr.item, hr.item.checksum)}
    BY <1>2 DEF WholeUploads
  <2>3. DebugUpload(hr.body, hr.item, hr.item.checksum) \in UploadsOf(hr.body)
    BY <1>2, <2>1 DEF UploadsOf
  <2>. QED
    BY <1>2, <2>2, <2>3
<1>. QED
  BY <1>1, <1>2 DEF Sane, InHand

(* The whole is checked, and its files are ready to be stored.             *)
LEMMA AssembleSane ==
  ASSUME IInv, NEW r \in Req, Assemble(r)
  PROVE  IInv'
<1>. DEFINE hr == h[r]
            files == WholeUploads(hr)
            x == [hr EXCEPT !.pc = "put", !.uploads = files, !.contents = <<>>]
            next == IF hr.contents = hr.item.checksum /\ WholeRead(hr)
                    THEN Staged(hr, files) ELSE Answered(hr, 400, "")
<1>1. hr.pc = "read" /\ Becomes(r, next)
  BY DEF Assemble
<1>2. Sane(hr, vault)
  BY DEF IInv
<1>3. Sane(Answered(hr, 400, ""), vault)
  BY <1>2, FailSane
<1>4. ASSUME hr.contents = hr.item.checksum, WholeRead(hr) PROVE Sane(Staged(hr, files), vault)
  <2>1. /\ files \subseteq UploadsOf(hr.body)
        /\ hr.body.kind = "bundle" => files = UploadsOf(hr.body)
        /\ hr.body.kind = "dif" => files = {DebugUpload(hr.body, hr.item, hr.item.checksum)}
    BY <1>1, <1>2, <1>4, WholeOffered
  <2>2. /\ x = [f \in Fields |-> x[f]] /\ x.disturbed = hr.disturbed /\ x.pc = "put"
        /\ x.body = hr.body /\ x.item = hr.item /\ x.items = hr.items /\ x.uploads = files
        /\ x.responses = hr.responses /\ x.status = hr.status /\ x.state = hr.state
    <3>1. hr = [f \in Fields |-> hr[f]]
      BY <1>2 DEF Sane, Shaped
    <3>. HIDE DEF hr, files
    <3>. QED
      BY <3>1 DEF Fields
  <2>3. hr.body.kind \in {"bundle", "dif"} /\ hr.disturbed \in BOOLEAN
    BY <1>1, <1>2 DEF Sane, InHand, Shaped
  <2>4. Staged(hr, files) = IF files = {} THEN Answered(hr, 200, "created") ELSE x
    BY DEF Staged
  <2>. HIDE DEF x, files
  <2>5. CASE files = {}
    <3>1. UploadsOf(hr.body) = {} /\ hr.body.kind = "bundle"
      BY <2>1, <2>3, <2>5
    <3>2. Sane(Answered(hr, 200, "created"), vault)
      BY <2>3, <3>1, NothingVouched
    <3>. QED
      BY <2>4, <2>5, <3>2
  <2>6. CASE files # {}
    <3>1. Created(x) = Created(hr)
      BY <2>2 DEF Created
    <3>2. Due(x) = Due(hr)
      BY <1>1, <2>1, <2>2, <2>3, <3>1 DEF Due
    <3>3. Owed(x) /\ Settled(x, vault)
      BY <1>2, <2>2, <3>2, OwedStill
    <3>4. Shaped(x) /\ InHand(x)
      BY <1>1, <1>2, <2>1, <2>2 DEF Sane, Shaped, InHand, PC, Working
    <3>5. Gathered(x, vault)
      BY <2>2 DEF Gathered
    <3>. QED
      BY <2>4, <2>6, <3>3, <3>4, <3>5 DEF Sane
  <2>. QED
    BY <2>5, <2>6
<1>5. Sane(next, vault)
  <2>. HIDE DEF files
  <2>. QED
    BY <1>3, <1>4
<1>. HIDE DEF next
<1>. QED
  BY <1>1, <1>5, BecomesSane

(* The next debug file of the request.                                     *)
LEMMA NextItemSane ==
  ASSUME IInv, NEW r \in Req, NextItem(r)
  PROVE  IInv'
<1>1. PICK i \in h[r].items :
        Becomes(r, IF i.checksum = <<"bad">> THEN Answered(h[r], 400, "")
                   ELSE [h[r] EXCEPT !.pc = "check", !.items = @ \ {i}, !.item = i,
                           !.missing = <<>>, !.todo = i.chunks])
  BY DEF NextItem
<1>. DEFINE hr == h[r]
            x == [hr EXCEPT !.pc = "check", !.items = @ \ {i}, !.item = i,
                    !.missing = <<>>, !.todo = i.chunks]
            next == IF i.checksum = <<"bad">> THEN Answered(hr, 400, "") ELSE x
<1>2. hr.pc = "items" /\ Becomes(r, next)
  BY <1>1 DEF NextItem
<1>3. Sane(hr, vault)
  BY DEF IInv
<1>4. Sane(Answered(hr, 400, ""), vault)
  BY <1>3, FailSane
<1>5. /\ x = [f \in Fields |-> x[f]] /\ x.disturbed = hr.disturbed /\ x.pc = "check"
      /\ x.body = hr.body /\ x.item = i /\ x.items = hr.items \ {i}
      /\ x.todo = i.chunks /\ x.missing = <<>>
      /\ x.responses = hr.responses /\ x.status = hr.status /\ x.state = hr.state
  BY <1>3 DEF Sane, Shaped, Fields
<1>. HIDE DEF x
<1>6. Created(x) = Created(hr)
  BY <1>5 DEF Created
<1>7. Owed(x) /\ Settled(x, vault)
  BY <1>2, <1>3, <1>5, <1>6, OwedStill DEF Due, Sane, InHand
<1>8. hr.body \in Body /\ hr.body.kind = "dif" /\ i \in hr.body.files
  BY <1>1, <1>2, <1>3 DEF Sane, InHand, Working, Accepted
<1>9. Shaped(x) /\ InHand(x)
  BY <1>2, <1>3, <1>5, <1>8 DEF Sane, Shaped, InHand, PC, Working
<1>10. i.chunks \in Seq(STRING)
  BY <1>8, BodyAssumption
<1>11. OfChunks(x.item.chunks, x.todo)
  BY <1>5, <1>10 DEF OfChunks
<1>12. Gathered(x, vault)
  BY <1>5, <1>11, EmptySeq DEF Gathered
<1>13. Sane(next, vault)
  BY <1>4, <1>7, <1>9, <1>12 DEF Sane
<1>. HIDE DEF next
<1>. QED
  BY <1>2, <1>13, BecomesSane

(* The answer about all debug files vouches for those that were created.   *)
LEMMA AllAssembledSane ==
  ASSUME IInv, NEW r \in Req, AllAssembled(r)
  PROVE  IInv'
<1>. DEFINE hr == h[r]
            none == ""
            x == Answered(hr, 200, none)
<1>1. hr.pc = "items" /\ Becomes(r, x)
  BY DEF AllAssembled
<1>2. Sane(hr, vault)
  BY DEF IInv
<1>3. none # "created"
  OBVIOUS
<1>. HIDE DEF none
<1>4. /\ x.pc = "done" /\ x.body = hr.body /\ x.responses = hr.responses
      /\ x.disturbed = hr.disturbed /\ x.status = 200 /\ x.state = none
  BY AnsweredIs
<1>5. hr.body.kind = "dif" /\ hr.disturbed \in BOOLEAN
  BY <1>1, <1>2 DEF Sane, InHand, Shaped
<1>. HIDE DEF x
<1>6. Created(x) = Created(hr)
  BY <1>4 DEF Created
<1>7. Due(x) = Due(hr)
  BY <1>1, <1>3, <1>4, <1>5, <1>6, VouchedIs DEF Due
<1>8. Owed(x) /\ Settled(x, vault)
  BY <1>2, <1>4, <1>7, OwedStill
<1>9. Sane(x, vault)
  BY <1>5, <1>8, AnswerSane DEF x
<1>. QED
  BY <1>1, <1>9, BecomesSane

-----------------------------------------------------------------------------
(* Files are stored, and deleted when they prove too large.                *)

(* A file that is stored is owed to its handler from then on, and takes    *)
(* the place of those under its key.                                       *)
LEMMA PutSettles ==
  ASSUME NEW hr, NEW x, NEW v, NEW w, NEW u, Sane(hr, v), x.disturbed = hr.disturbed,
         Due(x) = Due(hr) \cup {u}, u.key \in DOMAIN w, w[u.key] = u.body,
         SameBut(v, w, u.key)
  PROVE  Settled(x, w)
<1>. SUFFICES ASSUME ~hr.disturbed, NEW d \in Due(x)
              PROVE  d.key \in DOMAIN w /\ \E e \in Due(x) : e.key = d.key /\ w[d.key] = e.body
  BY DEF Settled
<1>1. CASE d.key = u.key
  BY <1>1
<1>2. CASE d.key # u.key
  <2>1. d \in Due(hr)
    BY <1>2
  <2>2. d.key \in DOMAIN v /\ \E e \in Due(hr) : e.key = d.key /\ v[d.key] = e.body
    BY <2>1 DEF Sane, Settled
  <2>. QED
    BY <1>2, <2>2 DEF SameBut
<1>. QED
  BY <1>1, <1>2

(* A file is stored.                                                       *)
LEMMA PutSane ==
  ASSUME NEW hr, NEW v, NEW w, NEW u \in hr.uploads, Sane(hr, v), hr.pc = "put",
         u.key \in DOMAIN w, w[u.key] = u.body,
         SameBut(v, w, u.key)
  PROVE  Sane(AfterPut(hr, u), w)
<1>. DEFINE left == [hr EXCEPT !.uploads = @ \ {u}]
            drop == [hr EXCEPT !.pc = "drop", !.uploads = {u}]
<1>1. /\ left = [f \in Fields |-> left[f]] /\ left.disturbed = hr.disturbed /\ left.pc = "put"
      /\ left.body = hr.body /\ left.item = hr.item /\ left.items = hr.items
      /\ left.uploads = hr.uploads \ {u} /\ left.missing = hr.missing
      /\ left.responses = hr.responses /\ left.status = hr.status /\ left.state = hr.state
  BY DEF Sane, Shaped, Fields
<1>2. /\ drop = [f \in Fields |-> drop[f]] /\ drop.disturbed = hr.disturbed /\ drop.pc = "drop"
      /\ drop.body = hr.body /\ drop.item = hr.item /\ drop.items = hr.items
      /\ drop.uploads = {u} /\ drop.status = hr.status /\ drop.state = hr.state
  BY DEF Sane, Shaped, Fields
<1>3. AfterPut(hr, u) = CASE u.body \in Large -> drop
                          [] u.body \notin Large /\ left.uploads # {} -> left
                          [] OTHER -> Finished(left)
  BY DEF AfterPut
<1>4. /\ hr.body \in Accepted /\ u \in UploadsOf(hr.body) /\ hr.disturbed \in BOOLEAN
      /\ hr.uploads \subseteq UploadsOf(hr.body) /\ hr.status = NULL /\ hr.state = ""
      /\ hr.body.kind = "dif" =>
           /\ hr.uploads = {DebugUpload(hr.body, hr.item, hr.item.checksum)}
           /\ hr.item \in hr.body.files /\ hr.items \subseteq hr.body.files
  BY DEF Sane, InHand, Working, Shaped
<1>. HIDE DEF left, drop
<1>5. ASSUME u.body \in Large PROVE Sane(drop, w)
  <2>1. Due(drop) = {}
    BY <1>2 DEF Due
  <2>. QED
    BY <1>2, <1>4, <2>1 DEF Sane, Shaped, PC, InHand, Working, Owed, Settled, Gathered
<1>6. ASSUME hr.body.kind # "dif"
      PROVE  UploadsOf(hr.body) \ left.uploads = Due(hr) \cup {u}
  BY <1>1, <1>4, <1>6 DEF Due
<1>7. ASSUME left.uploads # {} PROVE Sane(left, w)
  <2>1. hr.body.kind # "dif"
    BY <1>1, <1>4, <1>7
  <2>2. Due(left) = Due(hr) \cup {u}
    BY <1>1, <1>6, <2>1 DEF Due
  <2>3. Settled(left, w)
    BY <1>1, <2>2, PutSettles
  <2>4. Owed(left)
    BY <1>1, <1>4, <2>2 DEF Owed, Sane
  <2>. QED
    BY <1>1, <1>4, <2>1, <2>3, <2>4 DEF Sane, Shaped, InHand, Working, Gathered
<1>8. ASSUME left.uploads = {} PROVE Sane(Finished(left), w)
  <2>1. ASSUME NEW status, NEW state, hr.body.kind # "dif",
               \/ status = 201 \/ state = "created"
               \/ hr.body.kind = "chunk" /\ status = 200
        PROVE  Sane(Answered(left, status, state), w)
    <3>. DEFINE x == Answered(left, status, state)
    <3>1. /\ x.pc = "done" /\ x.body = hr.body /\ x.responses = hr.responses
          /\ x.disturbed = hr.disturbed /\ x.status = status /\ x.state = state
      BY <1>1, AnsweredIs
    <3>. HIDE DEF x
    <3>2. Vouched(x) = UploadsOf(hr.body)
      BY <2>1, <3>1, VouchedIs
    <3>3. Due(x) = Due(hr) \cup {u}
      BY <1>6, <1>8, <2>1, <3>1, <3>2 DEF Due
    <3>4. Settled(x, w)
      BY <3>1, <3>3, PutSettles
    <3>5. Owed(x)
      BY <1>4, <3>1, <3>3 DEF Owed, Sane
    <3>6. left.disturbed \in BOOLEAN
      BY <1>1, <1>4
    <3>7. Owed(Answered(left, status, state)) /\ Settled(Answered(left, status, state), w)
      BY <3>4, <3>5 DEF x
    <3>. QED
      BY <3>6, <3>7, AnswerSane
  <2>2. CASE hr.body.kind = "chunk"
    <3>. DEFINE none == ""
    <3>1. Finished(left) = Answered(left, 200, none)
      BY <1>1, <2>2 DEF Finished
    <3>. HIDE DEF none
    <3>. QED
      BY <2>1, <2>2, <3>1
  <2>3. CASE hr.body.kind \in {"sourcemap", "debugfile"}
    <3>. DEFINE none == ""
    <3>1. Finished(left) = Answered(left, 201, none)
      BY <1>1, <2>3 DEF Finished
    <3>. HIDE DEF none
    <3>. QED
      BY <2>1, <2>3, <3>1
  <2>4. CASE hr.body.kind = "bundle"
    <3>1. Finished(left) = Answered(left, 200, "created")
      BY <1>1, <2>4 DEF Finished, Found
    <3>. QED
      BY <2>1, <2>4, <3>1
  <2>5. CASE hr.body.kind = "dif"
    <3>. DEFINE x == Responded(left, "created")
                a == [checksum |-> hr.item.checksum, state |-> "created", missing |-> hr.missing]
    <3>1. Finished(left) = x
      BY <1>1, <2>5 DEF Finished, Found
    <3>2. /\ x = [f \in Fields |-> x[f]] /\ x.disturbed = hr.disturbed /\ x.pc = "items"
          /\ x.body = hr.body /\ x.items = hr.items /\ x.responses = hr.responses \cup {a}
          /\ x.status = hr.status /\ x.state = hr.state
      BY <1>1 DEF Responded, Fields
    <3>3. a.state = "created" /\ a.checksum = hr.item.checksum
      OBVIOUS
    <3>. HIDE DEF x, a
    <3>4. hr.body \in Body /\ u = DebugUpload(hr.body, hr.item, hr.item.checksum)
      BY <1>4, <2>5 DEF Accepted
    <3>5. \A i \in hr.body.files : i.checksum = hr.item.checksum <=> i = hr.item
      BY <1>4, <2>5, <3>4, BodyAssumption
    <3>6. Created(x) = Created(hr) \cup {u}
      <4>1. \A j \in hr.body.files :
              (\E b \in x.responses : b.checksum = j.checksum /\ b.state = "created")
              <=> \/ \E b \in hr.responses : b.checksum = j.checksum /\ b.state = "created"
                  \/ j = hr.item
        BY <3>2, <3>3, <3>5
      <4>2. hr.item \in hr.body.files
        BY <1>4, <2>5
      <4>3. Created(x) =
              {DebugUpload(hr.body, i, i.checksum) :
                 i \in {j \in hr.body.files :
                          \E b \in x.responses : b.checksum = j.checksum /\ b.state = "created"}}
        BY <3>2 DEF Created
      <4>. QED
        BY <3>4, <4>1, <4>2, <4>3 DEF Created
    <3>7. Due(x) = Due(hr) \cup {u}
      BY <2>5, <3>2, <3>6 DEF Due
    <3>8. Settled(x, w)
      BY <3>2, <3>7, PutSettles
    <3>9. Owed(x)
      BY <1>4, <3>2, <3>7 DEF Owed, Sane
    <3>10. Shaped(x) /\ InHand(x)
      BY <1>4, <2>5, <3>2 DEF Sane, Shaped, PC, InHand, Working
    <3>11. Gathered(x, w)
      BY <3>2 DEF Gathered
    <3>. QED
      BY <3>1, <3>8, <3>9, <3>10, <3>11 DEF Sane
  <2>6. hr.body.kind \in {"chunk", "sourcemap", "debugfile", "bundle", "dif"}
    BY <1>4 DEF UploadsOf
  <2>. QED
    BY <2>2, <2>3, <2>4, <2>5, <2>6
<1>. QED
  BY <1>3, <1>5, <1>7, <1>8

(* A file of the request is stored.                                        *)
LEMMA PutArtifactSane ==
  ASSUME IInv, NEW r \in Req, PutArtifact(r)
  PROVE  IInv'
<1>1. h[r].pc = "put" /\ Sane(h[r], vault)
  BY DEF PutArtifact, IInv
<1>2. PICK u \in h[r].uploads :
        IF CallWorks(r) /\ u.ok
        THEN /\ vault' = [k \in DOMAIN vault \cup {u.key} |->
                            IF k = u.key THEN u.body ELSE vault[k]]
             /\ Changes(r, AfterPut(h[r], u), u.key)
        ELSE Becomes(r, Answered(h[r], UploadHTTPStatus(h[r].body), ""))
  BY DEF PutArtifact
<1>3. CASE CallWorks(r) /\ u.ok
  <2>1. Changes(r, AfterPut(h[r], u), u.key)
    BY <1>2, <1>3
  <2>2. /\ u.key \in DOMAIN vault' /\ vault'[u.key] = u.body
        /\ SameBut(vault, vault', u.key)
    BY <1>2, <1>3 DEF SameBut
  <2>3. Sane(AfterPut(h[r], u), vault')
    BY <1>1, <2>2, PutSane
  <2>4. h[r].body \in Accepted /\ u \in UploadsOf(h[r].body)
    BY <1>1 DEF Sane, InHand, Working
  <2>5. u \in Offered
    BY <2>4 DEF Offered, Accepted
  <2>. QED
    BY <1>3, <2>1, <2>2, <2>3, <2>5, ChangesSane
<1>4. CASE ~(CallWorks(r) /\ u.ok)
  <2>. DEFINE rejected    == Answered(h[r], 400, "")
              unavailable == Answered(h[r], 503, "")
  <2>1. Becomes(r, rejected) \/ Becomes(r, unavailable)
    BY <1>2, <1>4 DEF UploadHTTPStatus
  <2>2. Sane(rejected, vault) /\ Sane(unavailable, vault)
    BY <1>1, FailSane
  <2>. HIDE DEF rejected, unavailable
  <2>. QED
    BY <2>1, <2>2, BecomesSane
<1>. QED
  BY <1>3, <1>4

(* A file that proved too large is deleted.                                *)
LEMMA DeleteLargeSane ==
  ASSUME IInv, NEW r \in Req, DeleteLarge(r)
  PROVE  IInv'
<1>. DEFINE key  == (CHOOSE u \in h[r].uploads : TRUE).key
            over == Answered(h[r], 400, "")
<1>1. Sane(h[r], vault)
  BY DEF IInv
<1>2. Sane(over, vault) /\ Sane(over, vault')
  BY <1>1, FailSane
<1>3. CASE CallWorks(r)
  <2>1. vault' = [k \in DOMAIN vault \ {key} |-> vault[k]] /\ Changes(r, over, key)
    BY <1>3 DEF DeleteLarge
  <2>. HIDE DEF key, over
  <2>2. SameBut(vault, vault', key) /\ key \notin DOMAIN vault'
    BY <2>1 DEF SameBut
  <2>. QED
    BY <1>2, <2>1, <2>2, ChangesSane
<1>4. CASE ~CallWorks(r)
  <2>1. Becomes(r, over)
    BY <1>4 DEF DeleteLarge
  <2>. HIDE DEF over
  <2>. QED
    BY <1>2, <2>1, BecomesSane
<1>. QED
  BY <1>3, <1>4

-----------------------------------------------------------------------------
(* The frames of an event.                                                 *)

(* A frame is shown, whatever it shows.                                    *)
LEMMA ShownSane ==
  ASSUME NEW hr, NEW v, NEW by, NEW shown, Shaped(hr), hr.pc \in {"js", "native", "open"},
         hr.body.kind \notin {"chunk", "dif"}
  PROVE  Sane(Shown(hr, by, shown), v)
<1>. DEFINE x == Shown(hr, by, shown)
<1>1. /\ x = [f \in Fields |-> x[f]] /\ x.disturbed = hr.disturbed /\ x.pc = hr.pc
      /\ x.body = hr.body
  BY DEF Shown, Shaped, Fields
<1>. HIDE DEF x
<1>2. Sane(x, v)
  BY <1>1, QuietSane DEF Shaped
<1>. QED
  BY <1>2 DEF x

(* An event goes on to its next frame.                                     *)
LEMMA FramesSane ==
  ASSUME IInv, NEW r \in Req,
         \/ resolveSingleFrame(r) \/ AllJsResolved(r)
         \/ ListDebugFiles(r) \/ FindBreakpadSymbols(r) \/ AllNativeResolved(r)
  PROVE  IInv'
<1>. DEFINE hr == h[r]
<1>1. Sane(hr, vault)
  BY DEF IInv
<1>2. hr.pc \in {"js", "native", "open"}
  BY DEF resolveSingleFrame, AllJsResolved, ListDebugFiles, FindBreakpadSymbols, AllNativeResolved
<1>3. Shaped(hr) /\ hr.disturbed \in BOOLEAN /\ hr.body.kind \notin {"chunk", "dif"}
  BY <1>1, <1>2 DEF Sane, Shaped, InHand
<1>4. \A by, shown : Sane(Shown(hr, by, shown), vault)
  BY <1>2, <1>3, ShownSane
<1>5. CASE resolveSingleFrame(r)
  <2>. DEFINE file  == MapOf(r, Head(hr.todo))
              found == Resolve(MapOf(r, Head(hr.todo)), Head(hr.todo))
  <2>1. ShowFrame(r, file, found)
    BY <1>5 DEF resolveSingleFrame
  <2>. HIDE DEF file, found
  <2>2. Becomes(r, Idle) \/ Becomes(r, Shown(hr, file, found.place))
    BY <2>1 DEF ShowFrame
  <2>3. Sane(Idle, vault) /\ Sane(Shown(hr, file, found.place), vault)
    BY <1>4, IdleSane
  <2>. QED
    BY <2>2, <2>3, BecomesSane
<1>6. CASE AllJsResolved(r)
  <2>. DEFINE x == [hr EXCEPT !.pc = "native", !.todo = hr.body.native]
  <2>1. Becomes(r, x)
    BY <1>6 DEF AllJsResolved
  <2>2. /\ x = [f \in Fields |-> x[f]] /\ x.disturbed = hr.disturbed /\ x.pc = "native"
        /\ x.body = hr.body
    BY <1>3 DEF Shaped, Fields
  <2>. HIDE DEF x
  <2>3. Sane(x, vault)
    BY <1>3, <2>2, QuietSane DEF Shaped, PC
  <2>. QED
    BY <2>1, <2>3, BecomesSane
<1>7. CASE ListDebugFiles(r)
  <2>. DEFINE listing == {k \in DOMAIN vault : k.project = ProjectOf(hr.body) /\ k.kind = "dif"}
              x == [hr EXCEPT !.pc = "open", !.listing = listing]
  <2>1. Becomes(r, IF Head(hr.todo).debugID = "" \/ OffsetOf(r) < 0 \/ ~CallWorks(r)
                   THEN Shown(hr, NULL, NULL) ELSE x)
    BY <1>7 DEF ListDebugFiles
  <2>2. /\ x = [f \in Fields |-> x[f]] /\ x.disturbed = hr.disturbed /\ x.pc = "open"
        /\ x.body = hr.body
    BY <1>3 DEF Shaped, Fields
  <2>. HIDE DEF x
  <2>3. Sane(x, vault)
    BY <1>3, <2>2, QuietSane DEF Shaped, PC
  <2>4. Becomes(r, Shown(hr, NULL, NULL)) \/ Becomes(r, x)
    BY <2>1
  <2>. QED
    BY <1>4, <2>3, <2>4, BecomesSane
<1>8. CASE FindBreakpadSymbols(r)
  <2>. DEFINE closed == [hr EXCEPT !.pc = "native", !.listing = {}]
              left(key) == [hr EXCEPT !.listing = @ \ {key}]
  <2>1. \/ \E by, shown : Becomes(r, Shown(closed, by, shown))
        \/ \E key : Becomes(r, left(key))
    <3>1. CASE hr.listing = {} /\ Becomes(r, Shown(closed, NULL, NULL))
      BY <3>1
    <3>2. ASSUME NEW key \in hr.listing,
                 LET f       == Head(hr.todo)
                     symbols == openBreakpadSymbols(r, key)
                     within  == breakpadLookup(symbols, OffsetOf(r))
                     found   == FirstOf(symbols.functions, within)
                 IN  Becomes(r,
                       CASE ~symbols.read \/ symbols.debugID # f.debugID -> left(key)
                         [] symbols.read /\ symbols.debugID = f.debugID
                              /\ (within = {} \/ found.name = "bad") ->
                              Shown(closed, vault[key], NULL)
                         [] OTHER ->
                              Shown(closed, vault[key],
                                    [function |-> found.name,
                                     package |-> nativeFramePackage(f, hr.body.modules)]))
          PROVE  \/ \E by, shown : Becomes(r, Shown(closed, by, shown))
                 \/ Becomes(r, left(key))
      <4>. DEFINE symbols == openBreakpadSymbols(r, key)
                  within  == breakpadLookup(symbols, OffsetOf(r))
                  found   == FirstOf(symbols.functions, within)
                  package == nativeFramePackage(Head(hr.todo), hr.body.modules)
      <4>1. \/ Becomes(r, left(key))
            \/ Becomes(r, Shown(closed, vault[key], NULL))
            \/ Becomes(r, Shown(closed, vault[key],
                                [function |-> found.name, package |-> package]))
        <5>. HIDE DEF symbols, within, found, package, closed, left
        <5>. QED
          BY <3>2 DEF symbols, within, found, package
      <4>. QED
        BY <4>1
    <3>. QED
      BY <1>8, <3>1, <3>2 DEF FindBreakpadSymbols
  <2>2. /\ closed = [f \in Fields |-> closed[f]] /\ closed.disturbed = hr.disturbed
        /\ closed.pc = "native" /\ closed.body = hr.body
    BY <1>3 DEF Shaped, Fields
  <2>3. \A by, shown : Sane(Shown(closed, by, shown), vault)
    <3>. HIDE DEF closed
    <3>. QED
      BY <1>3, <2>2, ShownSane DEF Shaped, PC
  <2>4. ASSUME NEW key PROVE Sane(left(key), vault)
    <3>. DEFINE x == left(key)
    <3>1. /\ x = [f \in Fields |-> x[f]] /\ x.disturbed = hr.disturbed /\ x.pc = hr.pc
          /\ x.body = hr.body
      BY <1>3 DEF Shaped, Fields
    <3>. HIDE DEF x
    <3>2. Sane(x, vault)
      BY <1>2, <1>3, <3>1, QuietSane DEF Shaped
    <3>. QED
      BY <3>2 DEF x
  <2>. HIDE DEF closed, left
  <2>. QED
    BY <2>1, <2>3, <2>4, BecomesSane
<1>9. CASE AllNativeResolved(r)
  <2>. DEFINE none == ""
  <2>1. Becomes(r, Answered(hr, 200, none)) /\ none # "created"
    BY <1>9 DEF AllNativeResolved
  <2>. HIDE DEF none
  <2>2. Sane(Answered(hr, 200, none), vault)
    BY <1>3, <2>1, NothingVouched
  <2>. QED
    BY <2>1, <2>2, BecomesSane
<1>. QED
  BY <1>5, <1>6, <1>7, <1>8, <1>9

-----------------------------------------------------------------------------
(* A handler whose client has left goes on with what it has.               *)
LEMMA LeaveSane ==
  ASSUME IInv, NEW r \in Req, Leave(r)
  PROVE  IInv'
<1>. DEFINE hr == h[r]
            x == [hr EXCEPT !.gone = TRUE]
<1>1. Sane(hr, vault) /\ Becomes(r, x)
  BY DEF IInv, Leave
<1>2. /\ x = [f \in Fields |-> x[f]]
      /\ x.disturbed = hr.disturbed /\ x.pc = hr.pc /\ x.body = hr.body /\ x.item = hr.item
      /\ x.items = hr.items /\ x.todo = hr.todo /\ x.missing = hr.missing
      /\ x.contents = hr.contents /\ x.uploads = hr.uploads /\ x.responses = hr.responses
      /\ x.status = hr.status /\ x.state = hr.state
  BY <1>1 DEF Sane, Shaped, Fields
<1>. HIDE DEF x
<1>3. Sane(x, vault)
  BY <1>1, <1>2, SameSane
<1>. QED
  BY <1>1, <1>3, BecomesSane

(* The process ends, or a handler is over.                                 *)
LEMMA OverSane ==
  ASSUME IInv, Crash \/ \E r \in Req : Over(r)
  PROVE  IInv'
<1>1. CASE Crash
  <2>1. h' = [r \in Req |-> Idle] /\ vault' = vault
    BY <1>1 DEF Crash
  <2>2. h' = [r \in Req |-> h'[r]] /\ \A r \in Req : Sane(h'[r], vault')
    BY <2>1, IdleSane
  <2>3. Honest'
    BY <2>1 DEF IInv, Honest
  <2>. QED
    BY <2>2, <2>3 DEF IInv
<1>2. ASSUME NEW r \in Req, Over(r) PROVE IInv'
  <2>1. Becomes(r, Idle)
    BY <1>2 DEF Over
  <2>. QED
    BY <2>1, IdleSane, BecomesSane
<1>. QED
  BY <1>1, <1>2

(* At first no request is handled, and the vault is empty.                 *)
LEMMA InitSane == Init => IInv
<1>. SUFFICES ASSUME Init PROVE IInv
  OBVIOUS
<1>1. h = [r \in Req |-> h[r]] /\ \A r \in Req : Sane(h[r], vault)
  BY IdleSane DEF Init
<1>2. Honest
  BY DEF Init, Honest
<1>. QED
  BY <1>1, <1>2 DEF IInv

(* Every step keeps the invariant.                                         *)
LEMMA NextSane == IInv /\ [Next]_vars => IInv'
<1>. SUFFICES ASSUME IInv, [Next]_vars PROVE IInv'
  OBVIOUS
<1>1. CASE UNCHANGED vars
  BY <1>1 DEF vars, IInv, Honest
<1>2. ASSUME NEW r \in Req, Step(r) PROVE IInv'
  BY <1>2, ArriveSane, CheckChunkSane, AllCheckedSane, ReadChunkSane, AssembleSane,
     NextItemSane, AllAssembledSane, PutArtifactSane, DeleteLargeSane, FramesSane, LeaveSane,
     OverSane DEF Step
<1>. QED
  BY <1>1, <1>2, OverSane DEF Next

(* The invariant holds throughout.                                         *)
LEMMA AlwaysSane == Spec => []IInv
  BY InitSane, NextSane, PTL DEF Spec

(* Whatever the vault holds was offered under its key by a request that    *)
(* was allowed to: as it came, or as a body with the checksum that the     *)
(* request named, whatever its chunks were called.                         *)
THEOREM ArtifactsVerified == Spec => []AssembledVerified
<1>1. IInv => AssembledVerified
  BY DEF IInv, Honest, AssembledVerified
<1>. QED
  BY <1>1, AlwaysSane, PTL

(* An answer of 'created' is true, as far as no other handler writes or    *)
(* deletes a key of the request.                                           *)
THEOREM ArtifactsCreated == Spec => []CreatedTrue
<1>1. IInv => CreatedTrue
  <2>. SUFFICES ASSUME IInv, NEW r \in Req, h[r].pc = "done", ~h[r].disturbed,
                       NEW u \in Vouched(h[r])
                PROVE  /\ Stored(u.key)
                       /\ \E w \in Vouched(h[r]) : w.key = u.key /\ vault[u.key] = w.body
    BY DEF CreatedTrue
  <2>1. Sane(h[r], vault) /\ Due(h[r]) = Vouched(h[r])
    BY DEF IInv, Due
  <2>. QED
    BY <2>1 DEF Sane, Settled, Stored
<1>. QED
  BY <1>1, AlwaysSane, PTL

-----------------------------------------------------------------------------
(* An assembly fails on its chunks only when one is wrong.                 *)

(* What a step may not do: the body of AssembleCompletes.                  *)
Completes ==
  \A r \in Req :
    /\ h[r].pc \in {"check", "read"} /\ h'[r].status = 400
    /\ CallWorks(r) /\ ~h[r].disturbed /\ Sound(h[r])
    => \E i \in DOMAIN h[r].item.chunks :
         LET key == artifactChunkKey(ProjectOf(h[r].body), h[r].item.chunks[i])
         IN  Stored(key) /\ vault[key] # <<h[r].item.chunks[i]>>

(* A step of another handler does not answer.                              *)
LEMMA OthersStep ==
  ASSUME IInv, NEW q \in Req, Step(q), NEW r \in Req, r # q
  PROVE  h'[r].status = h[r].status
<1>1. ASSUME NEW next, Becomes(q, next) PROVE h'[r].status = h[r].status
  BY <1>1 DEF Becomes, IInv
<1>2. ASSUME NEW next, NEW key, Changes(q, next, key) PROVE h'[r].status = h[r].status
  <2>1. h'[r] = h[r] \/ h'[r] = [h[r] EXCEPT !.disturbed = TRUE]
    BY <1>2 DEF Changes
  <2>2. h[r] = [f \in Fields |-> h[r][f]]
    BY DEF IInv, Sane, Shaped
  <2>. QED
    BY <2>1, <2>2 DEF Fields
<1>3. (\E next : Becomes(q, next)) \/ (\E next, key : Changes(q, next, key))
  <2>1. CASE \E b \in Body : Arrive(q, b)
    BY <2>1 DEF Arrive
  <2>2. CASE CheckChunk(q)
    BY <2>2 DEF CheckChunk
  <2>3. CASE AllChecked(q)
    BY <2>3 DEF AllChecked
  <2>4. CASE readSingleArtifactChunk(q)
    BY <2>4 DEF readSingleArtifactChunk
  <2>5. CASE Assemble(q)
    BY <2>5 DEF Assemble
  <2>6. CASE NextItem(q)
    BY <2>6 DEF NextItem
  <2>7. CASE AllAssembled(q)
    BY <2>7 DEF AllAssembled
  <2>8. CASE PutArtifact(q)
    <3>1. PICK u \in h[q].uploads : \/ Changes(q, AfterPut(h[q], u), u.key)
                                    \/ Becomes(q, Answered(h[q], UploadHTTPStatus(h[q].body), ""))
      BY <2>8 DEF PutArtifact
    <3>. QED
      BY <3>1
  <2>9. CASE DeleteLarge(q)
    BY <2>9 DEF DeleteLarge
  <2>10. CASE resolveSingleFrame(q)
    BY <2>10 DEF resolveSingleFrame, ShowFrame
  <2>11. CASE AllJsResolved(q) \/ AllNativeResolved(q) \/ Over(q) \/ Leave(q)
    BY <2>11 DEF AllJsResolved, AllNativeResolved, Over, Leave
  <2>12. CASE ListDebugFiles(q)
    BY <2>12 DEF ListDebugFiles
  <2>13. CASE FindBreakpadSymbols(q)
    BY <2>13 DEF FindBreakpadSymbols
  <2>. QED
    BY <2>1, <2>2, <2>3, <2>4, <2>5, <2>6, <2>7, <2>8, <2>9, <2>10, <2>11, <2>12, <2>13 DEF Step
<1>. QED
  BY <1>1, <1>2, <1>3

(* The checksum of a sound body is of a body.                              *)
LEMMA SoundIs ==
  ASSUME NEW hr, NEW v, Sane(hr, v), hr.pc \in {"check", "read"}, Sound(hr)
  PROVE  /\ \A i \in DOMAIN hr.item.chunks : hr.item.chunks[i] # "bad"
         /\ hr.item.checksum # <<"bad">>
<1>1. hr.item.checksum \in DOMAIN BundleOf \cup DOMAIN DebugFileOf
  BY DEF Sound, BundleRead, DebugFileRead, MagicOf
<1>2. "bad" \notin ToSet(hr.item.checksum)
  BY <1>1, BodyAssumption
<1>3. "bad" \in ToSet(<<"bad">>)
  BY DEF ToSet
<1>4. hr.item.chunks = hr.item.checksum
  BY DEF Sound
<1>. QED
  BY <1>2, <1>3, <1>4 DEF ToSet

(* A step that answers 400 does so for a wrong chunk.                      *)
LEMMA StepCompletes ==
  ASSUME IInv, NEW r \in Req, Step(r), h[r].pc \in {"check", "read"}, h'[r].status = 400,
         CallWorks(r), ~h[r].disturbed, Sound(h[r])
  PROVE  Wrong(h[r], vault)
<1>. DEFINE hr == h[r]
<1>1. /\ Sane(hr, vault) /\ hr.status = NULL /\ NULL # 400
      /\ hr.body.kind \in {"bundle", "dif"} /\ hr = [f \in Fields |-> hr[f]]
  <2>1. Sane(hr, vault)
    BY DEF IInv
  <2>. QED
    BY ZenonT(30), <2>1, StatusAssumption DEF Sane, InHand, Working, Status, Shaped
<1>2. /\ hr.item.chunks = hr.item.checksum /\ hr.item.checksum # <<"bad">>
      /\ \A i \in DOMAIN hr.item.chunks : <<hr.item.chunks[i]>> \notin Large
  BY SMTT(30), <1>1, SoundIs DEF Sound
<1>3. \A i \in DOMAIN hr.item.chunks : hr.item.chunks[i] # "bad"
  BY <1>1, SoundIs
<1>4. ASSUME NEW next, Becomes(r, next) PROVE next.status = 400
  BY <1>4 DEF Becomes, IInv
<1>5. OfChunks(hr.item.chunks, hr.todo)
  BY <1>1 DEF Sane, Gathered
<1>6. ASSUME hr.todo # <<>>
      PROVE  \E i \in DOMAIN hr.item.chunks : Head(hr.todo) = hr.item.chunks[i]
  <2>1. hr.todo \in Seq(STRING)
    BY <1>5 DEF OfChunks
  <2>2. 1 \in DOMAIN hr.todo /\ hr.todo[1] = Head(hr.todo)
    BY <1>6, <2>1, FirstAndRest
  <2>. QED
    BY <1>5, <2>2 DEF OfChunks
<1>7. \A status, state : Answered(hr, status, state).status = status
  BY AnsweredIs
<1>8. ~CheckChunk(r)
  <2>. SUFFICES ASSUME CheckChunk(r) PROVE FALSE
    OBVIOUS
  <2>. DEFINE chunk == Head(hr.todo)
              missing == IF Stored(artifactChunkKey(ProjectOf(hr.body), chunk))
                         THEN hr.missing ELSE Append(hr.missing, chunk)
              x == [hr EXCEPT !.todo = Tail(@), !.missing = missing]
  <2>1. chunk # "bad"
    <3>1. hr.todo # <<>>
      BY DEF CheckChunk
    <3>2. PICK i \in DOMAIN hr.item.chunks : chunk = hr.item.chunks[i]
      BY <1>6, <3>1
    <3>. HIDE DEF chunk
    <3>. QED
      BY <1>3, <3>2
  <2>2. x.status = NULL
    BY <1>1 DEF Fields
  <2>3. Becomes(r, x)
    BY <2>1 DEF CheckChunk
  <2>. HIDE DEF x
  <2>. QED
    BY <1>1, <1>4, <2>2, <2>3
<1>9. ~AllChecked(r)
  <2>. SUFFICES ASSUME AllChecked(r) PROVE FALSE
    OBVIOUS
  <2>. DEFINE x == [hr EXCEPT !.pc = "read", !.todo = hr.item.chunks, !.contents = <<>>]
              responses == hr.responses \cup
                {[checksum |-> hr.item.checksum, state |-> "not_found", missing |-> hr.missing]}
              y == [hr EXCEPT !.pc = "items", !.responses = responses]
  <2>1. x.status = NULL /\ y.status = NULL
    BY <1>1 DEF Fields
  <2>2. Responded(hr, "not_found") = y
    BY DEF Responded
  <2>3. Becomes(r, Found(hr, "not_found")) \/ Becomes(r, x)
    BY <1>2 DEF AllChecked
  <2>4. Found(hr, "not_found") = Answered(hr, 200, "not_found") \/ Found(hr, "not_found") = y
    BY <2>2 DEF Found
  <2>. HIDE DEF x, y
  <2>. QED
    BY <1>1, <1>4, <1>7, <2>1, <2>3, <2>4
<1>10. ASSUME readSingleArtifactChunk(r) PROVE Wrong(hr, vault)
  <2>. DEFINE chunk == Head(hr.todo)
              key == artifactChunkKey(ProjectOf(hr.body), chunk)
              contents == hr.contents \o vault[key]
              x == [hr EXCEPT !.todo = Tail(@), !.contents = contents]
  <2>1. x.status = NULL
    BY <1>1 DEF Fields
  <2>2. PICK i \in DOMAIN hr.item.chunks : chunk = hr.item.chunks[i]
    BY <1>6, <1>10 DEF readSingleArtifactChunk
  <2>3. Stored(key)
    BY ZenonT(30), <1>1, <1>10, <2>2 DEF readSingleArtifactChunk, Sane, Gathered, KeyFor, Stored
  <2>4. vault[key] \in Large
    <3>1. vault[key] \notin Large => Becomes(r, x)
      BY <1>10, <2>3 DEF readSingleArtifactChunk
    <3>. HIDE DEF x
    <3>. QED
      BY <1>1, <1>4, <2>1, <3>1
  <2>5. vault[key] # <<chunk>>
    BY <1>2, <2>2, <2>4
  <2>. QED
    BY <2>2, <2>3, <2>5 DEF Wrong, Stored
<1>11. ASSUME Assemble(r), ~Wrong(hr, vault) PROVE FALSE
  <2>. DEFINE files == WholeUploads(hr)
              x == [hr EXCEPT !.pc = "put", !.uploads = files, !.contents = <<>>]
  <2>1. hr.pc = "read" /\ hr.todo = <<>>
    BY <1>11 DEF Assemble
  <2>2. hr.contents \in Seq(STRING) /\ hr.contents \o <<>> = hr.item.checksum
    BY ZenonT(30), <1>1, <1>2, <1>11, <2>1 DEF Sane, Gathered
  <2>3. hr.contents = hr.item.checksum
    BY <2>2, ConcatEmptySeq
  <2>4. WholeRead(hr)
    BY <2>3 DEF Sound, WholeRead
  <2>5. Becomes(r, Staged(hr, files))
    BY <1>11, <2>3, <2>4 DEF Assemble
  <2>6. x.status = NULL
    BY <1>1 DEF Fields
  <2>7. Staged(hr, files) = Answered(hr, 200, "created") \/ Staged(hr, files) = x
    BY DEF Staged
  <2>. HIDE DEF x, files
  <2>. QED
    BY <1>1, <1>4, <1>7, <2>5, <2>6, <2>7
<1>12. ~Leave(r)
  <2>. SUFFICES ASSUME Leave(r) PROVE FALSE
    OBVIOUS
  <2>. DEFINE x == [hr EXCEPT !.gone = TRUE]
  <2>1. x.status = NULL /\ Becomes(r, x)
    BY <1>1 DEF Fields, Leave
  <2>. HIDE DEF x
  <2>. QED
    BY <1>1, <1>4, <2>1
<1>13. CheckChunk(r) \/ AllChecked(r) \/ readSingleArtifactChunk(r) \/ Assemble(r) \/ Leave(r)
  BY DEF Step, Arrive, NextItem, AllAssembled, PutArtifact, DeleteLarge, resolveSingleFrame,
         AllJsResolved, ListDebugFiles, FindBreakpadSymbols, AllNativeResolved, Over
<1>. QED
  BY <1>8, <1>9, <1>10, <1>11, <1>12, <1>13

(* An assembly of a sound body does not fail on its chunks, unless one is  *)
(* not what its name says, or others write or delete its keys meanwhile.   *)
THEOREM ArtifactsComplete == Spec => AssembleCompletes
<1>1. IInv /\ [Next]_vars => [Completes]_vars
  <2>. SUFFICES ASSUME IInv, Next PROVE Completes
    OBVIOUS
  <2>. SUFFICES ASSUME NEW r \in Req, h[r].pc \in {"check", "read"}, h'[r].status = 400,
                       CallWorks(r), ~h[r].disturbed, Sound(h[r])
                PROVE  Wrong(h[r], vault)
    BY DEF Completes, Wrong, Stored
  <2>1. h[r].status = NULL /\ NULL # 400
    <3>1. Sane(h[r], vault)
      BY DEF IInv
    <3>. QED
      BY ZenonT(30), <3>1, StatusAssumption DEF Sane, InHand, Working, Status
  <2>2. ~Crash
    <3>1. Idle.status = NULL
      BY DEF Idle
    <3>. QED
      BY <2>1, <3>1 DEF Crash
  <2>3. PICK q \in Req : Step(q)
    BY <2>2 DEF Next
  <2>4. q = r
    BY <2>1, <2>3, OthersStep
  <2>. QED
    BY <2>3, <2>4, StepCompletes
<1>. QED
  BY <1>1, AlwaysSane, PTL DEF Spec, AssembleCompletes, Completes

-----------------------------------------------------------------------------
(* What the frames of an event show.                                       *)

Explained(e, b) ==
  IF "host" \in DOMAIN e.frame THEN ScriptExplained(e, b) ELSE NativeExplained(e, b)

Showing == {"js", "native", "open"}

(* An event: what is left to resolve is of its frames, and what has been   *)
(* shown is explained.                                                     *)
Explaining(hr) ==
  /\ hr.pc \in Showing /\ hr.body \in Body /\ hr.body.kind = "event"
  /\ hr.todo \in Seq(IF hr.pc = "js" THEN Frames ELSE NativeFrame)
  /\ hr.pc = "open" => hr.todo # <<>>
  /\ \E S : hr.frames \in Seq(S) /\ \A e \in S : Explained(e, hr.body)

(* Any other request, or none, shows no frames.                            *)
NothingShown(hr) == hr.pc \notin Showing /\ hr.frames = <<>>

FInv == \A r \in Req : NothingShown(h[r]) \/ Explaining(h[r])

(* The least of a set of numbers is chosen.                                *)
LEMMA FirstIs ==
  ASSUME NEW list, NEW found \in SUBSET Nat, found # {}
  PROVE  \E i \in found : FirstOf(list, found) = list[i]
<1>1. \E i \in found : \A j \in found : i <= j
  <2>1. PICK i \in found : \A j \in found : <<j, i>> \notin OpToRel(<, Nat)
    BY NatLessThanWellFounded, WFMin
  <2>2. ASSUME NEW j \in found PROVE i <= j
    <3>1. \A x, y \in Nat : x < y => <<x, y>> \in OpToRel(<, Nat)
      BY DEF OpToRel
    <3>2. ~(j < i)
      BY <2>1, <3>1
    <3>. QED
      BY <3>2
  <2>. QED
    BY <2>2
<1>. DEFINE first == CHOOSE i \in found : \A j \in found : i <= j
<1>2. first \in found
  BY <1>1
<1>3. FirstOf(list, found) = list[first]
  BY DEF FirstOf
<1>. QED
  BY <1>2, <1>3

(* The offset of an instruction in its image is counted from a base of it, *)
(* or is below all functions.                                              *)
LEMMA OffsetIs ==
  ASSUME NEW b, b.modules \in Seq(NativeModule), NEW f \in NativeFrame
  PROVE  LET offset == nativeInstructionOffset(f, b.modules)
         IN  offset = -1 \/ \E base \in BasesOf(b, f.debugID) : offset = f.instruction - base
<1>. DEFINE modules == b.modules
            named   == nativeModuleForDebugID(modules, f.debugID)
            module  == FirstOf(modules, named)
            offset  == nativeInstructionOffset(f, modules)
            same    == {m \in ToSet(modules) : m.debugID = f.debugID}
<1>1. DOMAIN modules \subseteq Nat /\ \A i \in DOMAIN modules : modules[i] \in NativeModule
  OBVIOUS
<1>2. named \in SUBSET Nat /\ \A i \in named : modules[i] \in same
  BY <1>1 DEF nativeModuleForDebugID, ToSet
<1>3. CASE named = {}
  <2>1. same = {}
    BY <1>3 DEF nativeModuleForDebugID, ToSet
  <2>2. BasesOf(b, f.debugID) = {0}
    BY <2>1 DEF BasesOf
  <2>3. offset = f.instruction
    BY <1>3 DEF nativeInstructionOffset
  <2>4. offset = f.instruction - 0
    BY <2>3 DEF NativeFrame
  <2>. QED
    BY <2>2, <2>4
<1>4. CASE named # {}
  <2>1. PICK i \in named : module = modules[i]
    BY <1>2, <1>4, FirstIs
  <2>2. module \in same
    BY <1>2, <2>1
  <2>3. BasesOf(b, f.debugID) = {m.address : m \in same}
    BY <2>2 DEF BasesOf
  <2>4. offset = -1 \/ offset = f.instruction - module.address
    BY <1>4 DEF nativeInstructionOffset
  <2>. QED
    BY <2>2, <2>3, <2>4
<1>. QED
  BY <1>3, <1>4

(* The image of a debug file that was read is that of its last module.     *)
LEMMA ImageIs ==
  ASSUME NEW file, parseBreakpadSymbols(file).read
  PROVE  parseBreakpadSymbols(file).debugID = Last(file.modules)
<1>1. file.modules # <<>>
  BY ZenonT(30) DEF parseBreakpadSymbols
<1>. QED
  BY <1>1 DEF parseBreakpadSymbols

(* The addresses of modules are numbers.                                   *)
LEMMA BasesAre ==
  ASSUME NEW modules \in Seq(NativeModule), NEW m \in ToSet(modules)
  PROVE  m.address \in Nat
<1>1. m \in NativeModule
  BY DEF ToSet
<1>. QED
  BY <1>1 DEF NativeModule

(* A function that is found is one of the file, and spans the offset.      *)
LEMMA FoundIs ==
  ASSUME NEW file, file.functions \in Seq(breakpadFunction), NEW offset \in Int,
         breakpadLookup(parseBreakpadSymbols(file), offset) # {}
  PROVE  LET symbols == parseBreakpadSymbols(file)
             found   == FirstOf(symbols.functions, breakpadLookup(symbols, offset))
         IN  /\ found \in ToSet(file.functions) /\ found.parsed
             /\ offset \in found.address..(found.address + found.size) /\ offset # -1
<1>. DEFINE symbols == parseBreakpadSymbols(file)
            within  == breakpadLookup(symbols, offset)
            parsed  == {j \in DOMAIN file.functions : file.functions[j].parsed}
<1>1. symbols.functions = [i \in parsed |-> file.functions[i]]
  BY DEF parseBreakpadSymbols
<1>2. /\ DOMAIN file.functions \subseteq Nat
      /\ \A i \in DOMAIN file.functions : file.functions[i] \in breakpadFunction
  OBVIOUS
<1>3. /\ within \in SUBSET Nat
      /\ \A i \in within : /\ i \in parsed
                           /\ FunctionContains(symbols.functions[i], offset)
  BY <1>1, <1>2 DEF breakpadLookup
<1>4. PICK i \in within : FirstOf(symbols.functions, within) = symbols.functions[i]
  BY <1>3, FirstIs
<1>. DEFINE found == symbols.functions[i]
<1>5. i \in parsed /\ found = file.functions[i] /\ FunctionContains(found, offset)
  BY <1>1, <1>3
<1>6. found \in breakpadFunction /\ found.parsed /\ found \in ToSet(file.functions)
  BY <1>2, <1>5 DEF ToSet
<1>7. found.address \in Nat /\ found.size \in Nat
  BY <1>6 DEF breakpadFunction
<1>8. offset \in found.address..(found.address + found.size) /\ offset # -1
  <2>. HIDE DEF found
  <2>. QED
    BY <1>5, <1>7 DEF FunctionContains
<1>. QED
  BY <1>4, <1>6, <1>8

(* A place that is shown for a frame of a script is the one meant.         *)
LEMMA ScriptIs ==
  ASSUME MapsMeant, NEW f \in Frames, NEW file, Resolve(file, f).outcome # "panic"
  PROVE  Resolve(file, f).place = IF file # NULL /\ Readable(file) THEN Meant(file, f) ELSE NULL
<1>1. CASE file \in DOMAIN Written
  <2>1. file # NULL
    BY <1>1, ArtifactsAssumption
  <2>2. Resolve(file, f).place = IF Readable(file) THEN Meant(file, f) ELSE NULL
    BY <1>1 DEF MapsMeant
  <2>. QED
    BY <2>1, <2>2
<1>2. CASE file \notin DOMAIN Written
  <2>1. file \notin DOMAIN SourceMaps
    BY <1>2, ArtifactsAssumption DEF SourceMaps
  <2>2. FoundAt(file, f) = Unmapped
    BY <2>1 DEF FoundAt
  <2>3. Resolve(file, f).place = NULL
    BY <2>2 DEF Resolve, PlaceOf, Unmapped
  <2>4. ~Readable(file)
    BY <1>2 DEF Readable
  <2>. QED
    BY <2>3, <2>4
<1>. QED
  BY <1>1, <1>2

(* A handler that shows frames, with the frames, and what is left, of x.   *)
LEMMA ExplainingIs ==
  ASSUME NEW hr, Explaining(hr), NEW x, x.body = hr.body, x.frames = hr.frames,
         x.pc \in Showing, x.todo \in Seq(IF x.pc = "js" THEN Frames ELSE NativeFrame),
         x.pc = "open" => x.todo # <<>>
  PROVE  Explaining(x)
  BY DEF Explaining

(* One frame more is shown.                                                *)
LEMMA ShownExplains ==
  ASSUME NEW hr, hr = [f \in Fields |-> hr[f]], Explaining(hr), hr.pc # "open", hr.todo # <<>>,
         NEW by, NEW shown,
         Explained([frame |-> Head(hr.todo), by |-> by, shown |-> shown], hr.body)
  PROVE  Explaining(Shown(hr, by, shown))
<1>. DEFINE e == [frame |-> Head(hr.todo), by |-> by, shown |-> shown]
            x == Shown(hr, by, shown)
            T == IF hr.pc = "js" THEN Frames ELSE NativeFrame
<1>1. /\ x.pc = hr.pc /\ x.body = hr.body
      /\ x.frames = Append(hr.frames, e) /\ x.todo = Tail(hr.todo)
  BY DEF Shown, Fields
<1>2. PICK S : hr.frames \in Seq(S) /\ \A d \in S : Explained(d, hr.body)
  BY DEF Explaining
<1>3. Explained(e, hr.body)
  OBVIOUS
<1>4. hr.todo \in Seq(T)
  BY DEF Explaining
<1>. HIDE DEF e, x, T
<1>5. Tail(hr.todo) \in Seq(T)
  BY <1>4
<1>6. Append(hr.frames, e) \in Seq(S \cup {e})
  <2>1. hr.frames \in Seq(S \cup {e})
    BY <1>2
  <2>. QED
    BY <2>1
<1>7. Explaining(x)
  BY <1>1, <1>2, <1>3, <1>5, <1>6 DEF Explaining, T
<1>. QED
  BY <1>7 DEF x

(* A handler that has answered shows nothing.                              *)
LEMMA AnsweredQuiet ==
  ASSUME NEW hr, NEW status, NEW state
  PROVE  NothingShown(Answered(hr, status, state))
<1>1. Answered(hr, status, state).pc = "done" /\ Answered(hr, status, state).frames = <<>>
  BY ZenonT(60) DEF Answered, Idle
<1>. QED
  BY <1>1 DEF NothingShown, Showing

(* One with no request shows nothing.                                      *)
LEMMA IdleQuiet == NothingShown(Idle)
  BY DEF NothingShown, Showing, Idle

(* One that goes on to the next file, or has answered, shows nothing.      *)
LEMMA FoundQuiet ==
  ASSUME NEW hr, hr = [f \in Fields |-> hr[f]], NothingShown(hr), NEW state
  PROVE  NothingShown(Found(hr, state))
<1>. DEFINE responses == hr.responses \cup
              {[checksum |-> hr.item.checksum, state |-> state, missing |-> hr.missing]}
            x == [hr EXCEPT !.pc = "items", !.responses = responses]
<1>1. NothingShown(x)
  BY DEF NothingShown, Fields, Showing
<1>2. Found(hr, state) = Answered(hr, 200, state) \/ Found(hr, state) = x
  BY DEF Found, Responded
<1>. HIDE DEF x
<1>. QED
  BY <1>1, <1>2, AnsweredQuiet

(* One that stores a file shows nothing.                                   *)
LEMMA AfterPutQuiet ==
  ASSUME NEW hr, hr = [f \in Fields |-> hr[f]], NothingShown(hr), NEW u,
         hr.body.kind \in {"chunk", "sourcemap", "debugfile", "bundle", "dif"}
  PROVE  NothingShown(AfterPut(hr, u))
<1>. DEFINE x == [hr EXCEPT !.pc = "drop", !.uploads = {u}]
            y == [hr EXCEPT !.uploads = @ \ {u}]
<1>1. /\ NothingShown(x) /\ NothingShown(y)
      /\ y = [f \in Fields |-> y[f]] /\ y.body = hr.body
  BY DEF NothingShown, Fields, Showing
<1>2. AfterPut(hr, u) = x \/ AfterPut(hr, u) = y \/ AfterPut(hr, u) = Finished(y)
  BY DEF AfterPut
<1>. HIDE DEF x, y
<1>3. \/ \E status, state : Finished(y) = Answered(y, status, state)
      \/ \E state : Finished(y) = Found(y, state)
  BY <1>1 DEF Finished
<1>4. NothingShown(Finished(y))
  BY <1>1, <1>3, AnsweredQuiet, FoundQuiet
<1>. QED
  BY <1>1, <1>2, <1>4

(* A step whose handler keeps to that.                                     *)
LEMMA StepExplains ==
  ASSUME IInv, FInv, NEW q \in Req, NEW next, NothingShown(next) \/ Explaining(next),
         Becomes(q, next) \/ \E key : Changes(q, next, key)
  PROVE  FInv'
<1>1. ASSUME NEW r \in Req
      PROVE  \/ h'[r] = next \/ h'[r] = h[r]
             \/ h'[r] = [h[r] EXCEPT !.disturbed = TRUE]
  <2>1. CASE Becomes(q, next)
    BY <2>1 DEF Becomes, IInv
  <2>2. CASE \E key : Changes(q, next, key)
    BY <2>2 DEF Changes
  <2>. QED
    BY <2>1, <2>2
<1>2. ASSUME NEW r \in Req, NEW x, x = [h[r] EXCEPT !.disturbed = TRUE]
      PROVE  NothingShown(x) \/ Explaining(x)
  <2>1. h[r] = [f \in Fields |-> h[r][f]]
    BY DEF IInv, Sane, Shaped
  <2>2. x.pc = h[r].pc /\ x.body = h[r].body /\ x.todo = h[r].todo /\ x.frames = h[r].frames
    BY <1>2, <2>1 DEF Fields
  <2>. QED
    BY <2>2 DEF FInv, NothingShown, Explaining
<1>3. \A r \in Req : NothingShown(h'[r]) \/ Explaining(h'[r])
  BY <1>1, <1>2 DEF FInv
<1>. QED
  BY <1>3 DEF FInv, NothingShown, Explaining

-----------------------------------------------------------------------------
(* A request that arrives shows nothing yet.                               *)
LEMMA ArriveExplains ==
  ASSUME IInv, FInv, NEW r \in Req, NEW b \in Body, Arrive(r, b)
  PROVE  FInv'
<1>. DEFINE hr == [Idle EXCEPT !.body = b]
            next == IF b.kind # "event" /\ Refusal(b) # NULL THEN Answered(hr, Refusal(b), "")
                    ELSE CASE b.kind \in {"chunk", "sourcemap", "debugfile"} ->
                                [hr EXCEPT !.pc = "put", !.uploads = UploadsOf(b)]
                           [] b.kind = "bundle" ->
                                [hr EXCEPT !.pc = "check", !.item = b, !.todo = b.chunks]
                           [] b.kind = "dif" -> [hr EXCEPT !.pc = "items", !.items = b.files]
                           [] b.kind = "event" /\ ScriptsResolvable(b) ->
                                [hr EXCEPT !.pc = "js", !.todo = b.js]
                           [] OTHER -> [hr EXCEPT !.pc = "native", !.todo = b.native]
<1>1. Becomes(r, next)
  BY DEF Arrive
<1>2. hr = [f \in Fields |-> hr[f]] /\ hr.frames = <<>> /\ hr.body = b
  BY DEF Idle, Fields
<1>3. ASSUME b.kind # "event", Refusal(b) # NULL PROVE NothingShown(next) \/ Explaining(next)
  <2>1. next = Answered(hr, Refusal(b), "")
    BY <1>3
  <2>. HIDE DEF next, hr
  <2>. QED
    BY <2>1, AnsweredQuiet
<1>4. ASSUME b.kind # "event", Refusal(b) = NULL PROVE NothingShown(next) \/ Explaining(next)
  <2>1. b.kind \in {"chunk", "sourcemap", "debugfile", "bundle", "dif"}
    <3>1. b.kind \in OfOrganization \cup OfProject
      BY <1>4, KindAssumption
    <3>2. b.kind \notin {"info", "reprocess"}
      BY <1>4, StatusAssumption DEF Refusal, Status
    <3>. QED
      BY <3>1, <3>2 DEF OfOrganization, OfProject
  <2>. DEFINE x == [hr EXCEPT !.pc = "put", !.uploads = UploadsOf(b)]
              y == [hr EXCEPT !.pc = "check", !.item = b, !.todo = b.chunks]
              z == [hr EXCEPT !.pc = "items", !.items = b.files]
  <2>2. NothingShown(x) /\ NothingShown(y) /\ NothingShown(z)
    BY <1>2 DEF NothingShown, Showing, Fields
  <2>3. next = x \/ next = y \/ next = z
    BY <1>4, <2>1
  <2>. HIDE DEF x, y, z, next, hr
  <2>. QED
    BY <2>2, <2>3
<1>5. ASSUME b.kind = "event" PROVE NothingShown(next) \/ Explaining(next)
  <2>. DEFINE x == [hr EXCEPT !.pc = "js", !.todo = b.js]
              y == [hr EXCEPT !.pc = "native", !.todo = b.native]
  <2>1. /\ x.pc = "js" /\ x.body = b /\ x.todo = b.js /\ x.frames = <<>>
        /\ y.pc = "native" /\ y.body = b /\ y.todo = b.native /\ y.frames = <<>>
    BY <1>2 DEF Fields
  <2>2. next = x \/ next = y
    BY <1>5
  <2>3. b.js \in Seq(Frames) /\ b.native \in Seq(NativeFrame)
    BY <1>5, FrameAssumption
  <2>4. <<>> \in Seq({}) /\ \A e \in {} : Explained(e, b)
    OBVIOUS
  <2>. HIDE DEF x, y, next, hr
  <2>5. Explaining(x) /\ Explaining(y)
    BY <1>5, <2>1, <2>3, <2>4 DEF Explaining, Showing
  <2>. QED
    BY <2>2, <2>5
<1>6. NothingShown(next) \/ Explaining(next)
  BY <1>3, <1>4, <1>5
<1>. HIDE DEF next
<1>. QED
  BY <1>1, <1>6, StepExplains

(* A step on a request that fills the vault shows nothing.                 *)
LEMMA WorkExplains ==
  ASSUME IInv, FInv, NEW r \in Req,
         \/ CheckChunk(r) \/ AllChecked(r) \/ readSingleArtifactChunk(r) \/ Assemble(r)
         \/ NextItem(r) \/ AllAssembled(r) \/ PutArtifact(r) \/ DeleteLarge(r) \/ Leave(r)
  PROVE  FInv'
<1>. DEFINE hr == h[r]
            Quiet(next) == NothingShown(next)
                             /\ (Becomes(r, next) \/ \E key : Changes(r, next, key))
<1>1. hr = [f \in Fields |-> hr[f]] /\ InHand(hr)
  BY DEF IInv, Sane, Shaped
<1>2. NothingShown(hr) /\ hr.pc \in Working
  <2>1. hr.pc \in Working
    BY DEF CheckChunk, AllChecked, readSingleArtifactChunk, Assemble, NextItem, AllAssembled,
           PutArtifact, DeleteLarge, Leave, Working
  <2>. QED
    BY <2>1 DEF FInv, Explaining, Showing, Working
<1>3. \A status, state : NothingShown(Answered(hr, status, state))
  BY AnsweredQuiet
<1>4. CASE CheckChunk(r)
  <2>. DEFINE chunk == Head(hr.todo)
              missing == IF Stored(artifactChunkKey(ProjectOf(hr.body), chunk))
                         THEN hr.missing ELSE Append(hr.missing, chunk)
              x == [hr EXCEPT !.todo = Tail(@), !.missing = missing]
  <2>1. NothingShown(x)
    BY <1>1, <1>2 DEF NothingShown, Fields
  <2>2. Becomes(r, x) \/ Becomes(r, Answered(hr, 400, ""))
    BY <1>4 DEF CheckChunk
  <2>. HIDE DEF x
  <2>. QED
    BY <1>3, <2>1, <2>2, StepExplains
<1>5. CASE AllChecked(r)
  <2>. DEFINE x == [hr EXCEPT !.pc = "read", !.todo = hr.item.chunks, !.contents = <<>>]
  <2>1. NothingShown(x)
    BY <1>1, <1>2 DEF NothingShown, Fields, Showing
  <2>2. Becomes(r, x) \/ Becomes(r, Answered(hr, 400, "")) \/ Becomes(r, Found(hr, "not_found"))
    BY <1>5 DEF AllChecked
  <2>3. NothingShown(Found(hr, "not_found"))
    BY <1>1, <1>2, FoundQuiet
  <2>. HIDE DEF x
  <2>. QED
    BY <1>3, <2>1, <2>2, <2>3, StepExplains
<1>6. CASE readSingleArtifactChunk(r)
  <2>. DEFINE contents == hr.contents \o vault[artifactChunkKey(ProjectOf(hr.body), Head(hr.todo))]
              x == [hr EXCEPT !.todo = Tail(@), !.contents = contents]
  <2>1. NothingShown(x)
    BY <1>1, <1>2 DEF NothingShown, Fields
  <2>2. Becomes(r, x) \/ Becomes(r, Answered(hr, 400, ""))
    BY <1>6 DEF readSingleArtifactChunk
  <2>. HIDE DEF x
  <2>. QED
    BY <1>3, <2>1, <2>2, StepExplains
<1>7. CASE Assemble(r)
  <2>. DEFINE files == WholeUploads(hr)
              x == [hr EXCEPT !.pc = "put", !.uploads = files, !.contents = <<>>]
  <2>1. NothingShown(x)
    BY <1>1, <1>2 DEF NothingShown, Fields, Showing
  <2>2. Becomes(r, Staged(hr, files)) \/ Becomes(r, Answered(hr, 400, ""))
    BY <1>7 DEF Assemble
  <2>3. Staged(hr, files) = Answered(hr, 200, "created") \/ Staged(hr, files) = x
    BY DEF Staged
  <2>. HIDE DEF x, files
  <2>. QED
    BY <1>3, <2>1, <2>2, <2>3, StepExplains
<1>8. CASE NextItem(r)
  <2>. DEFINE x(i) == [hr EXCEPT !.pc = "check", !.items = @ \ {i}, !.item = i,
                         !.missing = <<>>, !.todo = i.chunks]
  <2>1. \A i : NothingShown(x(i))
    BY <1>1, <1>2 DEF NothingShown, Fields, Showing
  <2>2. Becomes(r, Answered(hr, 400, "")) \/ \E i : Becomes(r, x(i))
    BY <1>8 DEF NextItem
  <2>. HIDE DEF x
  <2>. QED
    BY <1>3, <2>1, <2>2, StepExplains
<1>9. CASE AllAssembled(r)
  BY <1>3, <1>9, StepExplains DEF AllAssembled
<1>10. CASE PutArtifact(r)
  <2>1. PICK u \in hr.uploads : \/ Changes(r, AfterPut(hr, u), u.key)
                                \/ Becomes(r, Answered(hr, UploadHTTPStatus(hr.body), ""))
    BY <1>10 DEF PutArtifact
  <2>2. hr.body.kind \in {"chunk", "sourcemap", "debugfile", "bundle", "dif"}
    <3>1. u \in UploadsOf(hr.body)
      BY <1>1, <1>10 DEF InHand, PutArtifact
    <3>. QED
      BY <3>1 DEF UploadsOf
  <2>3. NothingShown(AfterPut(hr, u))
    BY <1>1, <1>2, <2>2, AfterPutQuiet
  <2>. QED
    BY <1>3, <2>1, <2>3, StepExplains
<1>11. CASE DeleteLarge(r)
  <2>1. \/ Becomes(r, Answered(hr, 400, "")) \/ \E key : Changes(r, Answered(hr, 400, ""), key)
    BY <1>11 DEF DeleteLarge
  <2>. QED
    BY <1>3, <2>1, StepExplains
<1>12. CASE Leave(r)
  <2>. DEFINE x == [hr EXCEPT !.gone = TRUE]
  <2>1. NothingShown(x) /\ Becomes(r, x)
    BY <1>1, <1>2, <1>12 DEF NothingShown, Fields, Leave
  <2>. HIDE DEF x
  <2>. QED
    BY <2>1, StepExplains
<1>. QED
  BY <1>4, <1>5, <1>6, <1>7, <1>8, <1>9, <1>10, <1>11, <1>12

(* A frame of a script is resolved with the file that is there.            *)
LEMMA ScriptExplains ==
  ASSUME MapsMeant, IInv, FInv, NEW r \in Req, resolveSingleFrame(r)
  PROVE  FInv'
<1>. DEFINE hr == h[r]
            b  == hr.body
            f  == Head(hr.todo)
            path == sourceMapFileNameFromAbsPath(f)
            key  == SourceMapKey(ProjectOf(b), b.release, b.dist, path)
            file == MapOf(r, f)
            found == Resolve(file, f)
            e == [frame |-> f, by |-> file, shown |-> found.place]
<1>1. hr = [x \in Fields |-> hr[x]]
  BY DEF IInv, Sane, Shaped
<1>2. Explaining(hr) /\ hr.pc = "js" /\ hr.todo # <<>> /\ f \in Frames
  <2>1. hr.pc = "js" /\ hr.todo # <<>>
    BY DEF resolveSingleFrame
  <2>2. Explaining(hr)
    BY <2>1 DEF FInv, NothingShown, Showing
  <2>3. hr.todo \in Seq(Frames)
    BY <2>1, <2>2 DEF Explaining
  <2>. QED
    BY <2>1, <2>2, <2>3
<1>3. IF found.outcome = "panic" THEN Becomes(r, Idle)
      ELSE Becomes(r, Shown(hr, file, found.place))
  BY DEF resolveSingleFrame, ShowFrame
<1>4. CASE found.outcome = "panic"
  BY <1>3, <1>4, IdleQuiet, StepExplains
<1>5. CASE found.outcome # "panic"
  <2>1. found.place = IF file # NULL /\ Readable(file) THEN Meant(file, f) ELSE NULL
    <3>. HIDE DEF file, f
    <3>. QED
      BY <1>2, <1>5, ScriptIs
  <2>2. file # NULL => \E u \in Offered : u.key = key /\ u.body = file /\ u.ok
    <3>1. file # NULL => key \in DOMAIN vault /\ file = vault[key]
      BY DEF MapOf, Stored
    <3>. HIDE DEF file, key
    <3>. QED
      BY <3>1 DEF IInv, Honest
  <2>3. "host" \in DOMAIN f
    BY <1>2, FrameAssumption
  <2>4. e.frame = f /\ e.by = file /\ e.shown = found.place
    OBVIOUS
  <2>5. ScriptExplained(e, b)
    <3>1. key = SourceMapKey(ProjectOf(b), b.release, b.dist, sourceMapFileNameFromAbsPath(f))
      OBVIOUS
    <3>. HIDE DEF e, file, f, found, key, b
    <3>. QED
      BY <2>1, <2>2, <2>4, <3>1 DEF ScriptExplained
  <2>6. Explained(e, b)
    <3>. HIDE DEF e, f, b
    <3>. QED
      BY <2>3, <2>4, <2>5 DEF Explained
  <2>7. Explaining(Shown(hr, file, found.place))
    <3>. HIDE DEF file, found
    <3>. QED
      BY <1>1, <1>2, <2>6, ShownExplains
  <2>. HIDE DEF file, found
  <2>. QED
    BY <1>3, <1>5, <2>7, StepExplains
<1>. QED
  BY <1>4, <1>5

(* A native frame that shows nothing needs no explanation.                 *)
LEMMA NothingExplained ==
  ASSUME NEW f \in NativeFrame, NEW by, NEW b
  PROVE  Explained([frame |-> f, by |-> by, shown |-> NULL], b)
<1>1. "host" \notin DOMAIN f
  BY DEF NativeFrame
<1>. QED
  BY <1>1 DEF Explained, NativeExplained

(* A native frame shows the function that the first file of its image has. *)
LEMMA NativeExplains ==
  ASSUME IInv, FInv, NEW r \in Req, FindBreakpadSymbols(r)
  PROVE  FInv'
<1>. DEFINE hr == h[r]
            b  == hr.body
            f  == Head(hr.todo)
            closed == [hr EXCEPT !.pc = "native", !.listing = {}]
            left(key) == [hr EXCEPT !.listing = @ \ {key}]
<1>1. hr = [x \in Fields |-> hr[x]]
  BY DEF IInv, Sane, Shaped
<1>2. hr.pc = "open" /\ Explaining(hr)
  <2>1. hr.pc = "open"
    BY DEF FindBreakpadSymbols
  <2>. QED
    BY <2>1 DEF FInv, NothingShown, Showing
<1>3. /\ hr.todo \in Seq(NativeFrame) /\ hr.todo # <<>> /\ f \in NativeFrame
      /\ b \in Body /\ b.kind = "event"
  <2>1. hr.todo \in Seq(NativeFrame) /\ hr.todo # <<>>
    BY <1>2 DEF Explaining
  <2>. QED
    BY <1>2, <2>1 DEF Explaining
<1>4. /\ closed = [x \in Fields |-> closed[x]] /\ closed.body = b /\ closed.todo = hr.todo
      /\ closed.pc = "native" /\ Explaining(closed)
  <2>1. /\ closed = [x \in Fields |-> closed[x]] /\ closed.body = b /\ closed.todo = hr.todo
        /\ closed.pc = "native" /\ closed.frames = hr.frames
    BY <1>1 DEF Fields
  <2>. HIDE DEF closed
  <2>. QED
    BY <1>2, <1>3, <2>1, ExplainingIs DEF Showing
<1>5. ASSUME NEW key PROVE Explaining(left(key))
  <2>. DEFINE x == left(key)
  <2>1. x.body = b /\ x.todo = hr.todo /\ x.pc = "open" /\ x.frames = hr.frames
    BY <1>1, <1>2 DEF Fields
  <2>. HIDE DEF x
  <2>2. Explaining(x)
    BY <1>2, <1>3, <2>1, ExplainingIs DEF Showing
  <2>. QED
    BY <2>2 DEF x
<1>6. ASSUME NEW by, NEW shown, Explained([frame |-> f, by |-> by, shown |-> shown], b),
             Becomes(r, Shown(closed, by, shown))
      PROVE  FInv'
  <2>1. closed.pc # "open" /\ closed.todo # <<>>
    BY <1>3, <1>4
  <2>2. Explained([frame |-> Head(closed.todo), by |-> by, shown |-> shown], closed.body)
    BY <1>4, <1>6
  <2>. HIDE DEF closed
  <2>3. Explaining(Shown(closed, by, shown))
    BY <1>4, <2>1, <2>2, ShownExplains
  <2>. QED
    BY <1>6, <2>3, StepExplains
<1>7. \A by : Explained([frame |-> f, by |-> by, shown |-> NULL], b)
  BY <1>3, NothingExplained
<1>8. CASE hr.listing = {} /\ Becomes(r, Shown(closed, NULL, NULL))
  <2>. HIDE DEF closed
  <2>. QED
    BY <1>6, <1>7, <1>8
<1>9. ASSUME NEW key \in hr.listing,
             LET symbols == openBreakpadSymbols(r, key)
                 within  == breakpadLookup(symbols, OffsetOf(r))
                 found   == FirstOf(symbols.functions, within)
             IN  Becomes(r,
                   CASE ~symbols.read \/ symbols.debugID # f.debugID -> left(key)
                     [] symbols.read /\ symbols.debugID = f.debugID
                          /\ (within = {} \/ found.name = "bad") ->
                          Shown(closed, vault[key], NULL)
                     [] OTHER ->
                          Shown(closed, vault[key],
                                [function |-> found.name,
                                 package |-> nativeFramePackage(f, hr.body.modules)]))
      PROVE  FInv'
  <2>. DEFINE by      == vault[key]
              file    == DebugFileOf[by]
              offset  == OffsetOf(r)
              symbols == openBreakpadSymbols(r, key)
              within  == breakpadLookup(symbols, offset)
              found   == FirstOf(symbols.functions, within)
              package == nativeFramePackage(f, hr.body.modules)
              shown   == [function |-> found.name, package |-> package]
  <2>1. \/ Becomes(r, left(key)) \/ Becomes(r, Shown(closed, by, NULL))
        \/ /\ symbols.read /\ symbols.debugID = f.debugID /\ within # {}
           /\ Becomes(r, Shown(closed, by, shown))
    <3>. HIDE DEF symbols, within, found, package, closed, left
    <3>. QED
      BY <1>9 DEF symbols, within, found, package
  <2>2. CASE Becomes(r, left(key))
    <3>. HIDE DEF left
    <3>. QED
      BY <1>5, <2>2, StepExplains
  <2>3. CASE Becomes(r, Shown(closed, by, NULL))
    <3>. HIDE DEF closed
    <3>. QED
      BY <1>6, <1>7, <2>3
  <2>4. ASSUME symbols.read, symbols.debugID = f.debugID, within # {},
               Becomes(r, Shown(closed, by, shown))
        PROVE  FInv'
    <3>. HIDE DEF closed
    <3>1. by \in DOMAIN DebugFileOf /\ symbols = parseBreakpadSymbols(file)
      BY <2>4 DEF openBreakpadSymbols, MagicOf
    <3>2. file.functions \in Seq(breakpadFunction) /\ b.modules \in Seq(NativeModule)
      BY <1>3, <3>1, FrameAssumption
    <3>3. Last(file.modules) = f.debugID
      <4>1. parseBreakpadSymbols(file).read /\ parseBreakpadSymbols(file).debugID = f.debugID
        BY <2>4, <3>1
      <4>. HIDE DEF file, f
      <4>. QED
        BY <4>1, ImageIs
    <3>4. offset = nativeInstructionOffset(f, b.modules)
      BY DEF OffsetOf
    <3>5. offset = -1 \/ \E base \in BasesOf(b, f.debugID) : offset = f.instruction - base
      BY <1>3, <3>2, <3>4, OffsetIs
    <3>6. offset \in Int
      <4>1. BasesOf(b, f.debugID) \subseteq Int
        <5>1. \A m \in ToSet(b.modules) : m.address \in Nat
          BY <3>2, BasesAre
        <5>. QED
          BY <5>1 DEF BasesOf
      <4>2. f.instruction \in Nat
        BY <1>3 DEF NativeFrame
      <4>. HIDE DEF offset, f
      <4>. QED
        BY <3>5, <4>1, <4>2
    <3>7. /\ found \in ToSet(file.functions) /\ found.parsed
          /\ offset \in found.address..(found.address + found.size) /\ offset # -1
      <4>1. within = breakpadLookup(parseBreakpadSymbols(file), offset)
        BY <3>1
      <4>2. found = FirstOf(parseBreakpadSymbols(file).functions, within)
        BY <3>1
      <4>. HIDE DEF file, offset, symbols, within, found
      <4>. QED
        BY <2>4, <3>2, <3>6, <4>1, <4>2, FoundIs
    <3>. DEFINE e == [frame |-> f, by |-> by, shown |-> shown]
    <3>8. e.frame = f /\ e.by = by /\ e.shown.function = found.name
      OBVIOUS
    <3>9. NativeExplained(e, b)
      <4>. HIDE DEF e, f, b, by, offset, found
      <4>. QED
        BY <3>3, <3>5, <3>7, <3>8 DEF NativeExplained
    <3>10. Explained(e, b)
      <4>1. "host" \notin DOMAIN f
        BY <1>3 DEF NativeFrame
      <4>. HIDE DEF e, f
      <4>. QED
        BY <3>8, <3>9, <4>1 DEF Explained
    <3>. HIDE DEF by, shown
    <3>. QED
      BY <1>6, <2>4, <3>10
  <2>. QED
    BY <2>1, <2>2, <2>3, <2>4
<1>. QED
  BY <1>8, <1>9 DEF FindBreakpadSymbols

(* An event goes on to its native frames, lists the files, or is answered. *)
LEMMA EventExplains ==
  ASSUME IInv, FInv, NEW r \in Req, AllJsResolved(r) \/ ListDebugFiles(r) \/ AllNativeResolved(r)
  PROVE  FInv'
<1>. DEFINE hr == h[r]
<1>1. hr = [x \in Fields |-> hr[x]]
  BY DEF IInv, Sane, Shaped
<1>2. Explaining(hr) /\ hr.pc \in {"js", "native"}
  <2>1. hr.pc \in {"js", "native"}
    BY DEF AllJsResolved, ListDebugFiles, AllNativeResolved
  <2>. QED
    BY <2>1 DEF FInv, NothingShown, Showing
<1>3. CASE AllJsResolved(r)
  <2>. DEFINE x == [hr EXCEPT !.pc = "native", !.todo = hr.body.native]
  <2>1. x.body = hr.body /\ x.todo = hr.body.native /\ x.pc = "native" /\ x.frames = hr.frames
    BY <1>1 DEF Fields
  <2>2. hr.body.native \in Seq(NativeFrame)
    BY <1>2, FrameAssumption DEF Explaining
  <2>3. Becomes(r, x)
    BY <1>3 DEF AllJsResolved
  <2>. HIDE DEF x
  <2>4. Explaining(x)
    BY <1>2, <2>1, <2>2, ExplainingIs DEF Showing
  <2>. QED
    BY <2>3, <2>4, StepExplains
<1>4. CASE ListDebugFiles(r)
  <2>. DEFINE listing == {k \in DOMAIN vault : k.project = ProjectOf(hr.body) /\ k.kind = "dif"}
              x == [hr EXCEPT !.pc = "open", !.listing = listing]
  <2>1. x.body = hr.body /\ x.todo = hr.todo /\ x.pc = "open" /\ x.frames = hr.frames
    BY <1>1 DEF Fields
  <2>2. hr.pc = "native" /\ hr.todo # <<>>
    BY <1>4 DEF ListDebugFiles
  <2>3. hr.todo \in Seq(NativeFrame)
    BY <1>2, <2>2 DEF Explaining
  <2>4. Becomes(r, x) \/ Becomes(r, Shown(hr, NULL, NULL))
    BY <1>4 DEF ListDebugFiles
  <2>. HIDE DEF x
  <2>5. Explaining(x)
    BY <1>2, <2>1, <2>2, <2>3, ExplainingIs DEF Showing
  <2>6. Explaining(Shown(hr, NULL, NULL))
    <3>1. Head(hr.todo) \in NativeFrame
      BY <2>2, <2>3
    <3>2. Explained([frame |-> Head(hr.todo), by |-> NULL, shown |-> NULL], hr.body)
      BY <3>1, NothingExplained
    <3>. QED
      BY <1>1, <1>2, <2>2, <3>2, ShownExplains
  <2>. QED
    BY <2>4, <2>5, <2>6, StepExplains
<1>5. CASE AllNativeResolved(r)
  BY <1>5, AnsweredQuiet, StepExplains DEF AllNativeResolved
<1>. QED
  BY <1>3, <1>4, <1>5

(* Every step keeps what has been shown explained.                         *)
LEMMA NextExplains == MapsMeant /\ IInv /\ FInv /\ [Next]_vars => FInv'
<1>. SUFFICES ASSUME MapsMeant, IInv, FInv, [Next]_vars PROVE FInv'
  OBVIOUS
<1>1. CASE UNCHANGED vars
  BY <1>1 DEF vars, FInv, NothingShown, Explaining
<1>2. ASSUME NEW r \in Req, Step(r) PROVE FInv'
  <2>1. CASE Over(r)
    BY <2>1, IdleQuiet, StepExplains DEF Over
  <2>. QED
    BY <1>2, <2>1, ArriveExplains, WorkExplains, ScriptExplains, NativeExplains, EventExplains
       DEF Step
<1>3. CASE Crash
  <2>1. \A r \in Req : h'[r] = Idle
    BY <1>3 DEF Crash
  <2>. QED
    BY <2>1, IdleQuiet DEF FInv
<1>. QED
  BY <1>1, <1>2, <1>3 DEF Next

(* Whatever a frame of an event shows is explained by the file that was    *)
(* read for it, if the maps say what their writers meant: that a map is    *)
(* decoded so is a fact of its digits, which no step changes.              *)
THEOREM ArtifactsFrames == MapsMeant /\ Spec => []FramesExplained
<1>1. Init => FInv
  BY IdleQuiet DEF Init, FInv
<1>2. MapsMeant /\ FInv => FramesExplained
  <2>. SUFFICES ASSUME MapsMeant, FInv, NEW r \in Req, NEW i \in DOMAIN h[r].frames
                PROVE  Explained(h[r].frames[i], h[r].body)
    BY DEF FramesExplained, Explained
  <2>1. CASE NothingShown(h[r])
    BY <2>1 DEF NothingShown
  <2>2. CASE Explaining(h[r])
    BY <2>2 DEF Explaining
  <2>. QED
    BY <2>1, <2>2 DEF FInv
<1>3. MapsMeant => []MapsMeant
  OBVIOUS
<1>. QED
  BY <1>1, <1>2, <1>3, AlwaysSane, NextExplains, PTL DEF Spec
=============================================================================
