---------------------------- MODULE GatewayProofs -----------------------------
(***************************************************************************)
(* What module Gateway keeps, for any requests, bodies, policies and       *)
(* bounds: its types and the stage each request is in, and with them that  *)
(* the file of a minidump is the one of its event, that it is missing only *)
(* after a failure that was answered 503, that no window lets through more *)
(* than its limit, and that the status tells a client what was stored.     *)
(*                                                                         *)
(* There is an invariant of its own for the files (FilesKept), the counts  *)
(* (Counted) and the answers (AnswersHeld), each preserved by every step   *)
(* that keeps the types.                                                   *)
(***************************************************************************)
EXTENDS Gateway, TLAPS, FiniteSetTheorems, SequenceTheorems

(* Types.                                                                  *)

Counts == /\ DOMAIN counts = Key
          /\ \A k \in Key : counts[k] \in [DOMAIN counts[k] -> Nat]

Rows ==
  /\ now \in Nat
  /\ events \in [EventKey -> Req \cup {NULL}]
  /\ reports \in [EventKey -> Req \cup {NULL}]
  /\ logRows \in [Req -> {0} \cup {Len(LogsOf(b)) : b \in Body}]
  /\ vault \in [EventKey -> Req \cup {NULL}]
  /\ Counts

Requests ==
  /\ pc \in [Req -> PC]
  /\ body \in [Req -> Body \cup {NULL}]
  /\ received \in [Req -> Nat]
  /\ todo \in [Req -> Seq(UserReport)]
  /\ locked \in [Req -> SUBSET EventKey]
  /\ uploaded \in [Req -> BOOLEAN]
  /\ gone \in [Req -> BOOLEAN]
  /\ admitted \in [Req -> BOOLEAN]
  /\ answer \in [Req -> Status \cup {NULL}]
  /\ retryAfter \in [Req -> Nat]

(* The stages of a request that was not refused, and of a minidump.        *)
Waiting  == {"limit", "read", "logs", "ingest", "append", "upload", "commit", "cleanup", "reports"}
OfDump   == {"read", "append", "upload", "commit", "cleanup"}
DumpRead == {"append", "upload", "commit", "cleanup"}

Stage(r) ==
  /\ pc[r] # "idle" => body[r] \in Body
  /\ pc[r] \in Waiting => Refusal(body[r]) = NULL
  /\ pc[r] \in OfDump => body[r].kind = "minidump"
  /\ pc[r] \in DumpRead => MinidumpRead(body[r].data)
  /\ pc[r] = "logs" => LogsOf(body[r]) # <<>>
  /\ pc[r] = "limit" => HasEvent(body[r]) \/ LogsOf(body[r]) # <<>>
  /\ pc[r] = "ingest" => HasEvent(body[r]) /\ body[r].kind # "minidump"
  /\ pc[r] \in {"ingest", "reports"} => LogsOf(body[r]) = <<>>
  /\ pc[r] \in {"idle", "limit"} => ~admitted[r]
  /\ answer[r] # NULL <=> pc[r] = "done"
  /\ pc[r] \in (Waiting \ {"commit", "cleanup"}) \cup {"idle"} => ~uploaded[r]
  /\ pc[r] \in {"commit", "cleanup"} => uploaded[r]
  /\ locked[r] = IF pc[r] \in {"upload", "commit"} THEN {EventOf(r)} ELSE {}

Typed == Rows /\ Requests /\ \A r \in Req : Stage(r)

-----------------------------------------------------------------------------
(* What is read of a list holds when it holds of every step of the reading.*)

(* The least of some sets.                                                 *)
LEMMA LeastSet ==
  ASSUME NEW S, IsFiniteSet(S), NEW B \in SUBSET (SUBSET S), B # {}
  PROVE  \E s \in B : \A t \in B : ~(t \subseteq s /\ t # s)
<1>1. IsWellFoundedOn(StrictSubsetOrdering(S), SUBSET S)
  BY FS_StrictSubsetOrderingWellFounded, FS_FiniteSubsetsOfFinite
<1>2. PICK s \in B : \A t \in B : <<t, s>> \notin StrictSubsetOrdering(S)
  BY <1>1, WFMin
<1>. QED
  BY <1>2 DEF StrictSubsetOrdering

(* Kept folded: SMT reads the sets below as sets of numbers otherwise.     *)
Numbers(s) == s \subseteq Nat

(* A finite set of numbers has a greatest.                                 *)
LEMMA MaxIs ==
  ASSUME NEW s, IsFiniteSet(s), Numbers(s), s # {}
  PROVE  Max(s) \in s /\ \A y \in s : Max(s) >= y
<1> DEFINE above(x) == {y \in s : y > x}
           B == {above(x) : x \in s}
<1>1. B \in SUBSET (SUBSET s) /\ B # {}
  OBVIOUS
<1>2. PICK t \in B : \A u \in B : ~(u \subseteq t /\ u # t)
  <2>. HIDE DEF B
  <2>. QED
    BY <1>1, LeastSet
<1>3. PICK x \in s : t = above(x)
  OBVIOUS
<1>4. \A y \in s : y \in Nat
  BY DEF Numbers
<1>5. \A y \in s : x >= y
  <2>. SUFFICES ASSUME NEW y \in s, ~(x >= y) PROVE FALSE
    OBVIOUS
  <2>0. x \in Nat /\ y \in Nat /\ y > x
    BY <1>4
  <2>1. y \in above(x) /\ y \notin above(y)
    BY <2>0
  <2>2. ASSUME NEW z \in above(y) PROVE z \in above(x)
    <3>1. z \in s /\ z \in Nat /\ z > y
      BY <1>4
    <3>. QED
      BY <2>0, <3>1
  <2>. QED
    BY <1>2, <1>3, <2>1, <2>2
<1>. QED
  BY <1>5 DEF Max

(* The states in which the items of an envelope leave its reading.         *)
Folded(g, project, scrub, env, D) ==
  g = [s \in SUBSET D |->
         IF s = {} THEN Nothing
         ELSE applyItem(project, scrub, env.eventID, g[s \ {Max(s)}], env.items[Max(s)])]

FoldOf(project, scrub, env, D) == CHOOSE g : Folded(g, project, scrub, env, D)

(* The reading of an envelope is that of all its items.                    *)
LEMMA ParseIs ==
  ASSUME NEW project, NEW scrub, NEW env, env.header, ~(Len(env.items) > MaxItems)
  PROVE  ParseEnvelope(project, scrub, env)
           = FoldOf(project, scrub, env, DOMAIN env.items)[DOMAIN env.items]
BY DEF ParseEnvelope, FoldLeft, MapThenFoldSet, FoldOf, Folded

(* What is read of some items does not depend on those that are not among  *)
(* them.                                                                   *)
LEMMA FoldsAgree ==
  ASSUME NEW project, NEW scrub, NEW env, NEW D, NEW E, NEW g, NEW k,
         Folded(g, project, scrub, env, D), Folded(k, project, scrub, env, E),
         NEW u \in SUBSET D, u \in SUBSET E, IsFiniteSet(u), Numbers(u)
  PROVE  g[u] = k[u]
<1> DEFINE B == {v \in SUBSET u : g[v] # k[v]}
<1>1. SUFFICES ASSUME B # {} PROVE FALSE
  OBVIOUS
<1>2. PICK v \in B : \A t \in B : ~(t \subseteq v /\ t # v)
  <2>. HIDE DEF B
  <2>1. B \in SUBSET (SUBSET u)
    BY DEF B
  <2>. QED
    BY <1>1, <2>1, LeastSet
<1>3. v \in SUBSET D /\ v \in SUBSET E
  OBVIOUS
<1>4. CASE v = {}
  BY <1>3, <1>4 DEF Folded
<1>5. CASE v # {}
  <2>1. Max(v) \in v
    BY <1>5, MaxIs, FS_Subset DEF Numbers
  <2>2. v \ {Max(v)} \in SUBSET u /\ v \ {Max(v)} # v
    BY <2>1
  <2>3. g[v \ {Max(v)}] = k[v \ {Max(v)}]
    BY <1>2, <2>2
  <2>4. g[v] = applyItem(project, scrub, env.eventID, g[v \ {Max(v)}], env.items[Max(v)])
    BY <1>3, <1>5 DEF Folded
  <2>5. k[v] = applyItem(project, scrub, env.eventID, k[v \ {Max(v)}], env.items[Max(v)])
    BY <1>3, <1>5 DEF Folded
  <2>. QED
    BY <2>3, <2>4, <2>5
<1>. QED
  BY <1>4, <1>5

(* There are such states for the items of any envelope.                    *)
LEMMA FoldExists ==
  ASSUME NEW project, NEW scrub, NEW env, NEW D, IsFiniteSet(D), Numbers(D)
  PROVE  Folded(FoldOf(project, scrub, env, D), project, scrub, env, D)
<1> DEFINE Is(g, v) == Folded(g, project, scrub, env, v)
           F(v) == FoldOf(project, scrub, env, v)
           next(g, s) ==
             applyItem(project, scrub, env.eventID, g[s \ {Max(s)}], env.items[Max(s)])
           B == {v \in SUBSET D : ~ \E g : Is(g, v)}
<1>1. SUFFICES ASSUME B # {} PROVE FALSE
  BY DEF FoldOf
<1>2. PICK v \in B : \A t \in B : ~(t \subseteq v /\ t # v)
  <2>. HIDE DEF B
  <2>1. B \in SUBSET (SUBSET D)
    BY DEF B
  <2>. QED
    BY <1>1, <2>1, LeastSet
<1>. DEFINE G == [s \in SUBSET v |-> IF s = {} THEN Nothing ELSE next(F(s \ {Max(s)}), s)]
<1>3. ASSUME NEW t \in SUBSET v, t # v PROVE Is(F(t), t)
  <2>1. \E g : Is(g, t)
    BY <1>2, <1>3
  <2>. QED
    BY <2>1 DEF FoldOf
<1>4. ASSUME NEW s \in SUBSET v, s # {}
      PROVE  G[s \ {Max(s)}] = F(s \ {Max(s)})[s \ {Max(s)}]
  <2> DEFINE t == s \ {Max(s)}
             u == t \ {Max(t)}
  <2>0. \A w \in SUBSET v : IsFiniteSet(w) /\ Numbers(w)
    BY FS_Subset DEF Numbers
  <2>1. t \in SUBSET v /\ t # v
    BY <1>4, <2>0, MaxIs
  <2>2. Is(F(t), t)
    BY <1>3, <2>1
  <2>3. CASE t = {}
    <3>1. F(t)[t] = Nothing
      BY <2>2, <2>3 DEF Folded
    <3>. QED
      BY <2>3, <3>1
  <2>4. CASE t # {}
    <3>1. u \in SUBSET t /\ u \in SUBSET v /\ u # v
      BY <2>0, <2>1, <2>4, MaxIs
    <3>2. Is(F(u), u)
      BY <1>3, <3>1
    <3>3. IsFiniteSet(u) /\ Numbers(u)
      BY <2>0, <3>1
    <3>4. F(t)[u] = F(u)[u]
      <4>. HIDE DEF F, u, t
      <4>. QED
        BY <2>2, <3>1, <3>2, <3>3, FoldsAgree
    <3>5. F(t)[t]
            = applyItem(project, scrub, env.eventID, F(t)[u], env.items[Max(t)])
      <4>. HIDE DEF F
      <4>. QED
        BY <2>2, <2>4 DEF Folded
    <3>6. G[t] = applyItem(project, scrub, env.eventID, F(u)[u], env.items[Max(t)])
      BY <2>1, <2>4
    <3>. QED
      BY <3>4, <3>5, <3>6
  <2>. QED
    BY <2>3, <2>4
<1>5. Is(G, v)
  <2>1. ASSUME NEW s \in SUBSET v
        PROVE  G[s] = IF s = {} THEN Nothing ELSE next(G, s)
    BY <1>4
  <2>2. G = [s \in SUBSET v |-> G[s]]
    OBVIOUS
  <2>. HIDE DEF G
  <2>3. [s \in SUBSET v |-> G[s]]
          = [s \in SUBSET v |-> IF s = {} THEN Nothing ELSE next(G, s)]
    BY <2>1
  <2>. QED
    BY <2>2, <2>3 DEF Folded
<1>. QED
  BY <1>2, <1>5

(* An envelope is read item by item.                                       *)
LEMMA ReadInOrder ==
  ASSUME NEW project, NEW scrub, NEW env, NEW Item, env.items \in Seq(Item),
         env.header, ~(Len(env.items) > MaxItems)
  PROVE  \E s : /\ s[0] = Nothing
                /\ \A k \in 1 .. Len(env.items) :
                     s[k] = applyItem(project, scrub, env.eventID, s[k - 1], env.items[k])
                /\ ParseEnvelope(project, scrub, env) = s[Len(env.items)]
<1> DEFINE n == Len(env.items)
           D == 1 .. n
           g == FoldOf(project, scrub, env, D)
           s == [k \in 0 .. n |-> g[1 .. k]]
<1>1. n \in Nat /\ DOMAIN env.items = D
  OBVIOUS
<1>2. IsFiniteSet(D) /\ Numbers(D)
  BY <1>1, FS_Interval DEF Numbers
<1>3. Folded(g, project, scrub, env, D)
  BY <1>2, FoldExists
<1>4. ParseEnvelope(project, scrub, env) = g[D]
  BY <1>1, ParseIs
<1>5. s[0] = Nothing /\ s[n] = g[D]
  <2>1. 1 .. 0 = {} /\ 0 \in 0 .. n /\ n \in 0 .. n
    BY <1>1
  <2>2. g[{}] = Nothing
    BY <1>3 DEF Folded
  <2>. QED
    BY <2>1, <2>2
<1>6. ASSUME NEW k \in D
      PROVE  s[k] = applyItem(project, scrub, env.eventID, s[k - 1], env.items[k])
  <2>1. Max(1 .. k) = k
    <3>1. IsFiniteSet(1 .. k) /\ Numbers(1 .. k) /\ k \in 1 .. k
      BY FS_Interval DEF Numbers
    <3>2. Max(1 .. k) \in 1 .. k /\ Max(1 .. k) >= k
      BY <3>1, MaxIs
    <3>. QED
      BY <3>2
  <2>2. (1 .. k) \ {k} = 1 .. (k - 1) /\ 1 .. k \in SUBSET D /\ 1 .. k # {}
    BY <1>1
  <2>3. g[1 .. k] = applyItem(project, scrub, env.eventID, g[1 .. (k - 1)], env.items[k])
    <3>. HIDE DEF g
    <3>. QED
      BY <1>3, <2>1, <2>2 DEF Folded
  <2>4. k \in 0 .. n /\ k - 1 \in 0 .. n
    BY <1>1
  <2>. QED
    BY <2>3, <2>4
<1>. HIDE DEF s, g
<1>. QED
  BY <1>4, <1>5, <1>6

(* What holds of nothing and goes from a length to the next holds of all.  *)
LEMMA UpTo ==
  ASSUME NEW n \in Nat, NEW T, 0 \in T, \A k \in 1 .. n : k - 1 \in T => k \in T
  PROVE  \A k \in 0 .. n : k \in T
<1> DEFINE B == {1 .. k : k \in (0 .. n) \ T}
<1>. SUFFICES ASSUME NEW c \in 0 .. n, c \notin T PROVE FALSE
  OBVIOUS
<1>1. B # {} /\ B \in SUBSET (SUBSET (1 .. n)) /\ IsFiniteSet(1 .. n)
  <2>1. c \in (0 .. n) \ T
    OBVIOUS
  <2>2. IsFiniteSet(1 .. n)
    BY FS_Interval
  <2>3. ASSUME NEW k \in (0 .. n) \ T PROVE 1 .. k \in SUBSET (1 .. n)
    OBVIOUS
  <2>. QED
    BY <2>1, <2>2, <2>3
<1>2. PICK s \in B : \A t \in B : ~(t \subseteq s /\ t # s)
  <2> DEFINE S == 1 .. n
  <2>1. B # {} /\ B \in SUBSET (SUBSET S) /\ IsFiniteSet(S)
    BY <1>1
  <2>. HIDE DEF B, S
  <2>. QED
    BY <2>1, LeastSet
<1>3. PICK k \in (0 .. n) \ T : s = 1 .. k
  OBVIOUS
<1>4. k \in Nat /\ k # 0 /\ k \in 1 .. n
  OBVIOUS
<1>5. k - 1 \in (0 .. n) \ T
  BY <1>3, <1>4
<1>6. 1 .. (k - 1) \in B
  BY <1>5
<1>7. 1 .. (k - 1) \subseteq 1 .. k /\ k \in 1 .. k /\ k \notin 1 .. (k - 1)
  BY <1>4
<1>. QED
  BY <1>2, <1>3, <1>6, <1>7

-----------------------------------------------------------------------------
(* One item.                                                               *)

(* The fields of what is read, and when it is one.                         *)
ReadingFields == {"read", "hasEvent", "event", "logs", "reports"}

Reading(s) ==
  /\ s = [f \in ReadingFields |-> s[f]]
  /\ s.read \in BOOLEAN /\ s.hasEvent \in BOOLEAN

(* What an item must be, wherever it stands.                               *)
ItemRead(override, item) ==
  /\ Framed(item) /\ item.type \notin ReservedItem
  /\ item.type \in ReportItem => ReportRead(item.type, item.data)
  /\ item.type \in LogItem => LogItemRead(item.type, item.data)
  /\ item.type \in EventItem => EventRead(item.type, override, item.data)

(* No type of item is of two kinds.                                        *)
LEMMA KindsApart ==
  /\ ReservedItem \cap ReportItem = {} /\ ReservedItem \cap LogItem = {}
  /\ ReservedItem \cap EventItem = {} /\ ReportItem \cap LogItem = {}
  /\ ReportItem \cap EventItem = {} /\ LogItem \cap EventItem = {}
BY DEF ReservedItem, ReportItem, LogItem, EventItem

(* What is refused stays a reading.                                        *)
LEMMA RefuseIs ==
  ASSUME NEW s, Reading(s)
  PROVE  Reading(Refuse(s)) /\ ~Refuse(s).read
BY DEF Reading, ReadingFields, Refuse

(* What applyItem makes of a reading.                                      *)
LEMMA ItemStep ==
  ASSUME NEW project, NEW scrub, NEW override, NEW item, NEW s, Reading(s), NEW t,
         t = applyItem(project, scrub, override, s, item)
  PROVE  /\ Reading(t)
         /\ t.read <=> /\ s.read /\ ItemRead(override, item)
                       /\ item.type \in LogItem => ~s.hasEvent
                       /\ item.type \in EventItem => ~s.hasEvent /\ s.logs = <<>>
         /\ t.read =>
              /\ t.hasEvent <=> s.hasEvent \/ item.type \in EventItem
              /\ t.event = IF item.type \in EventItem
                           THEN CanonicalEvent(project, scrub, item.type, override, item.data)
                           ELSE s.event
              /\ t.logs = IF item.type \in LogItem
                          THEN s.logs \o RawLogs(item.type, item.data) ELSE s.logs
              /\ t.reports = IF item.type \in ReportItem
                             THEN Append(s.reports, ReportOf(item.type, item.data))
                             ELSE s.reports
<1>1. CASE ~s.read
  <2>1. t = s
    BY <1>1 DEF applyItem
  <2>. QED
    BY <1>1, <2>1
<1>2. CASE s.read /\ (~Framed(item) \/ item.type \in ReservedItem)
  <2>1. t = Refuse(s)
    BY <1>2, KindsApart DEF applyItem
  <2>. QED
    BY <1>2, <2>1, RefuseIs DEF ItemRead
<1>3. CASE s.read /\ Framed(item) /\ item.type \in ReportItem
  <2>0. item.type \notin ReservedItem \cup LogItem \cup EventItem
    BY <1>3, KindsApart
  <2>1. t = applyUserReportItem(s, item)
    BY <1>3, <2>0 DEF applyItem
  <2>2. CASE ReportRead(item.type, item.data)
    <3>1. t = [s EXCEPT !.reports = Append(@, ReportOf(item.type, item.data))]
      BY <2>1, <2>2 DEF applyUserReportItem
    <3>. QED
      BY <1>3, <2>0, <2>2, <3>1 DEF Reading, ReadingFields, ItemRead
  <2>3. CASE ~ReportRead(item.type, item.data)
    <3>1. t = Refuse(s)
      BY <2>1, <2>3 DEF applyUserReportItem
    <3>. QED
      BY <1>3, <2>3, <3>1, RefuseIs DEF ItemRead
  <2>. QED
    BY <2>2, <2>3
<1>4. CASE s.read /\ Framed(item) /\ item.type \in LogItem
  <2>0. item.type \notin ReservedItem \cup ReportItem \cup EventItem
    BY <1>4, KindsApart
  <2>1. t = applyLogItem(s, item)
    BY <1>4, <2>0 DEF applyItem
  <2>2. CASE ~s.hasEvent /\ LogItemRead(item.type, item.data)
    <3>1. t = [s EXCEPT !.logs = @ \o RawLogs(item.type, item.data)]
      BY <2>1, <2>2 DEF applyLogItem
    <3>. QED
      BY <1>4, <2>0, <2>2, <3>1 DEF Reading, ReadingFields, ItemRead
  <2>3. CASE ~(~s.hasEvent /\ LogItemRead(item.type, item.data))
    <3>1. t = Refuse(s)
      BY <2>1, <2>3 DEF applyLogItem
    <3>. QED
      BY <1>4, <2>3, <3>1, RefuseIs DEF ItemRead
  <2>. QED
    BY <2>2, <2>3
<1>5. CASE s.read /\ Framed(item) /\ item.type \in EventItem
  <2>0. item.type \notin ReservedItem \cup ReportItem \cup LogItem
    BY <1>5, KindsApart
  <2>1. t = applyEventItem(project, scrub, override, s, item)
    BY <1>5, <2>0 DEF applyItem
  <2> DEFINE ok == ~s.hasEvent /\ s.logs = <<>> /\ EventRead(item.type, override, item.data)
             made == CanonicalEvent(project, scrub, item.type, override, item.data)
  <2>2. CASE ok
    <3>1. t = [s EXCEPT !.hasEvent = TRUE, !.event = made]
      BY <2>1, <2>2 DEF applyEventItem
    <3>. HIDE DEF made
    <3>2. /\ Reading(t) /\ t.read /\ t.hasEvent /\ t.event = made /\ t.logs = s.logs
          /\ t.reports = s.reports
      BY <1>5, <3>1 DEF Reading, ReadingFields
    <3>. QED
      BY <1>5, <2>0, <2>2, <3>2 DEF ItemRead, made
  <2>3. CASE ~ok
    <3>1. t = Refuse(s)
      BY <2>1, <2>3 DEF applyEventItem
    <3>. QED
      BY <1>5, <2>3, <3>1, RefuseIs DEF ItemRead
  <2>. QED
    BY <2>2, <2>3
<1>6. CASE /\ s.read /\ Framed(item)
           /\ item.type \notin ReservedItem \cup ReportItem \cup LogItem \cup EventItem
  <2>1. t = s
    BY <1>6 DEF applyItem
  <2>. QED
    BY <1>6, <2>1 DEF ItemRead
<1>. QED
  BY <1>1, <1>2, <1>3, <1>4, <1>5, <1>6

-----------------------------------------------------------------------------
(* All the items to a place.                                               *)

OfKind(env, i, types) == env.items[i].type \in types

ReadTo(env, k) ==
  /\ \A i \in 1 .. k : ItemRead(env.eventID, env.items[i])
  /\ \A i, j \in 1 .. k : OfKind(env, i, EventItem) /\ OfKind(env, j, EventItem) => i = j
  /\ \A i, j \in 1 .. k : ~(OfKind(env, i, LogItem) /\ OfKind(env, j, EventItem))

ReportsTo(env, k) == {i \in 1 .. k : OfKind(env, i, ReportItem)}

(* The state after as many items.                                          *)
StateAt(project, scrub, env, L, R, k, s) ==
  /\ Reading(s)
  /\ s.read <=> ReadTo(env, k)
  /\ s.read =>
       /\ s.hasEvent <=> \E i \in 1 .. k : OfKind(env, i, EventItem)
       /\ s.hasEvent => \E i \in 1 .. k :
            /\ OfKind(env, i, EventItem)
            /\ s.event = CanonicalEvent(project, scrub, env.items[i].type, env.eventID,
                                        env.items[i].data)
       /\ s.logs \in Seq(L)
       /\ s.logs # <<>> <=> \E i \in 1 .. k : OfKind(env, i, LogItem)
       /\ s.reports \in Seq(R)
       /\ Len(s.reports) = Cardinality(ReportsTo(env, k))

(* The state after an item, from the one before it.                        *)
LEMMA StateStep ==
  ASSUME NEW project, NEW scrub, NEW env, NEW L, NEW R, NEW n \in Nat, NEW k \in 1 .. n,
         OfKind(env, k, LogItem) =>
           RawLogs(env.items[k].type, env.items[k].data) \in Seq(L),
         OfKind(env, k, ReportItem) => ReportOf(env.items[k].type, env.items[k].data) \in R,
         NEW s, StateAt(project, scrub, env, L, R, k - 1, s), NEW t,
         t = applyItem(project, scrub, env.eventID, s, env.items[k])
  PROVE  StateAt(project, scrub, env, L, R, k, t)
<1> DEFINE item == env.items[k]
           made(i) == CanonicalEvent(project, scrub, env.items[i].type, env.eventID,
                                     env.items[i].data)
<1>1. /\ k - 1 \in Nat /\ k \in Nat /\ k \in 1 .. k /\ k \notin 1 .. (k - 1)
      /\ \A i : i \in 1 .. k <=> i \in 1 .. (k - 1) \/ i = k
  OBVIOUS
<1>2. Reading(s)
  BY DEF StateAt
<1>3. /\ Reading(t)
      /\ t.read <=> /\ s.read /\ ItemRead(env.eventID, item)
                    /\ OfKind(env, k, LogItem) => ~s.hasEvent
                    /\ OfKind(env, k, EventItem) => ~s.hasEvent /\ s.logs = <<>>
      /\ t.read =>
           /\ t.hasEvent <=> s.hasEvent \/ OfKind(env, k, EventItem)
           /\ t.event = IF OfKind(env, k, EventItem) THEN made(k) ELSE s.event
           /\ t.logs = IF OfKind(env, k, LogItem)
                       THEN s.logs \o RawLogs(item.type, item.data) ELSE s.logs
           /\ t.reports = IF OfKind(env, k, ReportItem)
                          THEN Append(s.reports, ReportOf(item.type, item.data))
                          ELSE s.reports
  BY <1>2, ItemStep DEF OfKind
<1>4. /\ s.read <=> ReadTo(env, k - 1)
      /\ s.read =>
           /\ s.hasEvent <=> \E i \in 1 .. (k - 1) : OfKind(env, i, EventItem)
           /\ s.hasEvent => \E i \in 1 .. (k - 1) : OfKind(env, i, EventItem) /\ s.event = made(i)
           /\ s.logs \in Seq(L)
           /\ s.logs # <<>> <=> \E i \in 1 .. (k - 1) : OfKind(env, i, LogItem)
           /\ s.reports \in Seq(R)
           /\ Len(s.reports) = Cardinality(ReportsTo(env, k - 1))
  BY DEF StateAt
<1>. HIDE DEF made
<1>5. ~(OfKind(env, k, LogItem) /\ OfKind(env, k, EventItem))
  BY KindsApart DEF OfKind
<1>6. t.read <=> ReadTo(env, k)
  <2>1. ASSUME t.read PROVE ReadTo(env, k)
    <3>1. ReadTo(env, k - 1) /\ s.read /\ ItemRead(env.eventID, item)
      BY <1>3, <1>4, <2>1
    <3>2. OfKind(env, k, LogItem) => \A j \in 1 .. (k - 1) : ~OfKind(env, j, EventItem)
      BY <1>3, <1>4, <2>1
    <3>3. OfKind(env, k, EventItem) =>
            \A j \in 1 .. (k - 1) : ~OfKind(env, j, EventItem) /\ ~OfKind(env, j, LogItem)
      BY <1>3, <1>4, <2>1
    <3>. QED
      BY <1>1, <1>5, <3>1, <3>2, <3>3 DEF ReadTo
  <2>2. ASSUME ReadTo(env, k) PROVE t.read
    <3>1. ReadTo(env, k - 1) /\ ItemRead(env.eventID, item)
      BY <1>1, <2>2 DEF ReadTo
    <3>2. /\ OfKind(env, k, LogItem) => \A j \in 1 .. (k - 1) : ~OfKind(env, j, EventItem)
          /\ OfKind(env, k, EventItem) =>
               \A j \in 1 .. (k - 1) : ~OfKind(env, j, EventItem) /\ ~OfKind(env, j, LogItem)
      BY <1>1, <2>2 DEF ReadTo
    <3>. QED
      BY <1>3, <1>4, <3>1, <3>2
  <2>3. t.read \in BOOLEAN
    BY <1>3 DEF Reading
  <2>. QED
    BY <2>1, <2>2, <2>3
<1>. SUFFICES ASSUME t.read
              PROVE  /\ t.hasEvent <=> \E i \in 1 .. k : OfKind(env, i, EventItem)
                     /\ t.hasEvent =>
                          \E i \in 1 .. k : OfKind(env, i, EventItem) /\ t.event = made(i)
                     /\ t.logs \in Seq(L)
                     /\ t.logs # <<>> <=> \E i \in 1 .. k : OfKind(env, i, LogItem)
                     /\ t.reports \in Seq(R)
                     /\ Len(t.reports) = Cardinality(ReportsTo(env, k))
  BY <1>3, <1>6 DEF StateAt, made
<1>7. s.read /\ ItemRead(env.eventID, item)
  BY <1>3
<1>8. t.hasEvent <=> \E i \in 1 .. k : OfKind(env, i, EventItem)
  BY <1>1, <1>3, <1>4, <1>7
<1>9. t.hasEvent => \E i \in 1 .. k : OfKind(env, i, EventItem) /\ t.event = made(i)
  BY <1>1, <1>3, <1>4, <1>7
<1>10. t.logs \in Seq(L) /\ (t.logs # <<>> <=> \E i \in 1 .. k : OfKind(env, i, LogItem))
  <2>1. CASE OfKind(env, k, LogItem)
    <3> DEFINE raw == RawLogs(item.type, item.data)
    <3>1. raw \in Seq(L) /\ s.logs \in Seq(L)
      BY <1>4, <1>7, <2>1
    <3>2. Len(raw) # 0
      BY <1>7, <2>1, ProtocolAssumption DEF OfKind, ItemRead, LogItemRead
    <3>. HIDE DEF raw
    <3>3. t.logs = s.logs \o raw
      BY <1>3, <2>1 DEF raw
    <3>4. s.logs \o raw \in Seq(L) /\ Len(s.logs \o raw) = Len(s.logs) + Len(raw)
      BY <3>1
    <3>5. Len(s.logs \o raw) # 0
      BY <3>1, <3>2, <3>4
    <3>. QED
      BY <1>1, <2>1, <3>3, <3>4, <3>5
  <2>2. CASE ~OfKind(env, k, LogItem)
    BY <1>1, <1>3, <1>4, <1>7, <2>2
  <2>. QED
    BY <2>1, <2>2
<1>11. t.reports \in Seq(R) /\ Len(t.reports) = Cardinality(ReportsTo(env, k))
  <2>1. CASE OfKind(env, k, ReportItem)
    <3>1. ReportsTo(env, k) = ReportsTo(env, k - 1) \cup {k} /\ k \notin ReportsTo(env, k - 1)
      BY <1>1, <2>1 DEF ReportsTo
    <3>2. IsFiniteSet(ReportsTo(env, k - 1))
      <4>1. IsFiniteSet(1 .. (k - 1))
        BY <1>1, FS_Interval
      <4>2. ReportsTo(env, k - 1) \in SUBSET (1 .. (k - 1))
        BY DEF ReportsTo
      <4>. QED
        BY <4>1, <4>2, FS_Subset
    <3>3. Cardinality(ReportsTo(env, k)) = Cardinality(ReportsTo(env, k - 1)) + 1
      BY <3>1, <3>2, FS_AddElement
    <3> DEFINE new == ReportOf(item.type, item.data)
    <3>4. new \in R /\ t.reports = Append(s.reports, new)
      BY <1>3, <2>1
    <3>. HIDE DEF new
    <3>5. Append(s.reports, new) \in Seq(R) /\ Len(Append(s.reports, new)) = Len(s.reports) + 1
      BY <1>4, <1>7, <3>4
    <3>. QED
      BY <1>4, <1>7, <3>3, <3>4, <3>5
  <2>2. CASE ~OfKind(env, k, ReportItem)
    <3>1. ReportsTo(env, k) = ReportsTo(env, k - 1)
      BY <1>1, <2>2 DEF ReportsTo
    <3>. QED
      BY <1>3, <1>4, <1>7, <2>2, <3>1
  <2>. QED
    BY <2>1, <2>2
<1>. QED
  BY <1>8, <1>9, <1>10, <1>11

(* The state after all of them.                                            *)
LEMMA EnvelopeIs ==
  ASSUME NEW project, NEW scrub, NEW env, NEW Item, env.items \in Seq(Item), NEW L, NEW R,
         \A i \in DOMAIN env.items : OfKind(env, i, LogItem) =>
           RawLogs(env.items[i].type, env.items[i].data) \in Seq(L),
         \A i \in DOMAIN env.items : OfKind(env, i, ReportItem) =>
           ReportOf(env.items[i].type, env.items[i].data) \in R,
         env.header, ~(Len(env.items) > MaxItems)
  PROVE  StateAt(project, scrub, env, L, R, Len(env.items), ParseEnvelope(project, scrub, env))
<1> DEFINE n == Len(env.items)
           At(k, s) == StateAt(project, scrub, env, L, R, k, s)
<1>1. n \in Nat /\ DOMAIN env.items = 1 .. n
  OBVIOUS
<1>2. PICK s : /\ s[0] = Nothing
               /\ \A k \in 1 .. n :
                    s[k] = applyItem(project, scrub, env.eventID, s[k - 1], env.items[k])
               /\ ParseEnvelope(project, scrub, env) = s[n]
  BY ReadInOrder
<1>3. At(0, s[0])
  <2>1. Reading(Nothing) /\ Nothing.read /\ ~Nothing.hasEvent
    BY DEF Reading, ReadingFields, Nothing
  <2>2. Nothing.logs = <<>> /\ Nothing.reports = <<>>
    BY DEF Nothing
  <2>3. 1 .. 0 = {}
    OBVIOUS
  <2>4. ReadTo(env, 0)
    BY <2>3 DEF ReadTo
  <2>5. Cardinality(ReportsTo(env, 0)) = 0
    BY <2>3, FS_EmptySet DEF ReportsTo
  <2>. QED
    BY <1>2, <2>1, <2>2, <2>3, <2>4, <2>5 DEF StateAt
<1> DEFINE T == {k \in 0 .. n : At(k, s[k])}
<1>. HIDE DEF At, n
<1>4. 0 \in T
  BY <1>1, <1>3
<1>5. ASSUME NEW k \in 1 .. n, k - 1 \in T PROVE k \in T
  <2>1. k \in 0 .. n /\ At(k - 1, s[k - 1])
    BY <1>1, <1>5
  <2>2. At(k, s[k])
    BY <1>1, <1>2, <2>1, StateStep DEF At
  <2>. QED
    BY <2>1, <2>2
<1>. HIDE DEF T
<1>6. \A k \in 0 .. n : k \in T
  BY <1>1, <1>4, <1>5, UpTo
<1>7. At(n, s[n])
  BY <1>1, <1>6 DEF T
<1>. QED
  BY <1>2, <1>7 DEF At, n
-----------------------------------------------------------------------------
(* What is read of the bodies that clients send.                           *)

(* The first of two texts.                                                 *)
LEMMA FirstOfTwo ==
  ASSUME NEW x, NEW y
  PROVE  FirstText(<<x, y>>) = IF x # "" THEN x ELSE y
<1> DEFINE s == <<x, y>>
           First(i) == s[i] # "" /\ \A j \in 1 .. i - 1 : s[j] = ""
<1>1. DOMAIN s = {1, 2} /\ s[1] = x /\ s[2] = y
  OBVIOUS
<1>2. 1 .. 1 - 1 = {} /\ 1 .. 2 - 1 = {1}
  OBVIOUS
<1>. HIDE DEF s
<1>3. (First(1) <=> x # "") /\ (First(2) <=> x = "" /\ y # "")
  BY <1>1, <1>2
<1>4. (\E i \in DOMAIN s : s[i] # "") <=> x # "" \/ y # ""
  BY <1>1
<1>5. FirstText(s) = IF \E i \in DOMAIN s : s[i] # ""
                     THEN s[CHOOSE i \in DOMAIN s : First(i)] ELSE ""
  BY DEF FirstText
<1>. HIDE DEF First
<1>6. x # "" => (CHOOSE i \in DOMAIN s : First(i)) = 1
  BY <1>1, <1>3
<1>7. x = "" /\ y # "" => (CHOOSE i \in DOMAIN s : First(i)) = 2
  BY <1>1, <1>3
<1>. QED
  BY <1>1, <1>4, <1>5, <1>6, <1>7 DEF s

(* The id of an event that can be read is one that clients give.           *)
LEMMA IDGiven ==
  ASSUME NEW p, NEW override, NEW kind, override \in GivenID, p.eventID \in GivenID,
         EventRead(kind, override, p)
  PROVE  EventIDOf(p, override) \in EventID
<1>1. EventIDOf(p, override) = IF override # "" THEN override ELSE p.eventID
  BY FirstOfTwo DEF EventIDOf
<1>2. EventIDOf(p, override) \notin {"", "bad"}
  BY DEF EventRead
<1>. QED
  BY <1>1, <1>2 DEF GivenID

(* The id and the tags of the event that is made of a payload.             *)
LEMMA CanonicalIs ==
  ASSUME NEW project, NEW scrub, NEW kind, NEW override, NEW p
  PROVE  /\ CanonicalEvent(project, scrub, kind, override, p).id = EventIDOf(p, override)
         /\ CanonicalEvent(project, scrub, kind, override, p).tags = eventTags(scrub, p)
BY DEF CanonicalEvent

(* The reading of an envelope of a client.                                 *)
LEMMA EnvelopeParsed ==
  ASSUME NEW b \in Body, b.kind = "envelope", b.data.header, ~(Len(b.data.items) > MaxItems),
         NEW project, NEW scrub
  PROVE  \E L : StateAt(project, scrub, b.data, L, UserReport, Len(b.data.items),
                        ParseEnvelope(project, scrub, b.data))
<1> DEFINE env == b.data
           items == env.items
           raw(item) == RawLogs(item.type, item.data)
           L == UNION {ToSet(raw(item)) : item \in {x \in ToSet(items) : x.type \in LogItem}}
<1>1. items \in Seq(ToSet(items))
  BY BodyAssumption
<1>2. \A i \in DOMAIN items : items[i] \in ToSet(items)
  BY DEF ToSet
<1>3. ASSUME NEW i \in DOMAIN items, OfKind(env, i, LogItem)
      PROVE  raw(items[i]) \in Seq(L)
  <2>1. items[i] \in ToSet(items) /\ items[i].type \in LogItem
    BY <1>2, <1>3 DEF OfKind
  <2>2. raw(items[i]) \in Seq(ToSet(raw(items[i])))
    BY <2>1, BodyAssumption
  <2>3. ToSet(raw(items[i])) \subseteq L
    BY <2>1
  <2>. HIDE DEF raw, L
  <2>. QED
    BY <2>2, <2>3
<1>4. ASSUME NEW i \in DOMAIN items, OfKind(env, i, ReportItem)
      PROVE  ReportOf(items[i].type, items[i].data) \in UserReport
  <2> DEFINE d == items[i].data
  <2>1. items[i] \in ToSet(items) /\ items[i].type \in ReportItem
    BY <1>2, <1>4 DEF OfKind
  <2>2. /\ d.eventID \in GivenID /\ d.text \in STRING
        /\ items[i].type = "feedback" => d.associated \in GivenID
    BY <2>1, BodyAssumption
  <2>3. FirstText(<<d.associated, d.eventID>>)
          = IF d.associated # "" THEN d.associated ELSE d.eventID
    BY FirstOfTwo
  <2>. HIDE DEF d
  <2>4. ReportOf(items[i].type, d) \in UserReport
    BY <2>2, <2>3 DEF ReportOf, UserReport
  <2>. QED
    BY <2>4 DEF d
<1>. HIDE DEF L
<1>5. StateAt(project, scrub, env, L, UserReport, Len(items), ParseEnvelope(project, scrub, env))
  <2>. HIDE DEF items
  <2>. QED
    BY <1>1, <1>3, <1>4, EnvelopeIs DEF items
<1>. QED
  BY <1>5

(* A set has at most one element when any two are the same.                *)
LEMMA AtMostOne ==
  ASSUME NEW S, IsFiniteSet(S)
  PROVE  Cardinality(S) <= 1 <=> \A x, y \in S : x = y
<1>1. ASSUME Cardinality(S) <= 1, NEW x \in S, NEW y \in S PROVE x = y
  <2>. SUFFICES ASSUME x # y PROVE FALSE
    OBVIOUS
  <2>1. IsFiniteSet(S \ {x}) /\ Cardinality(S \ {x}) = Cardinality(S) - 1
    BY FS_RemoveElement
  <2>2. y \in S \ {x}
    OBVIOUS
  <2>3. Cardinality(S) \in Nat /\ Cardinality(S \ {x}) \in Nat
    BY <2>1, FS_CardinalityType
  <2>4. Cardinality(S \ {x}) # 0
    BY <2>1, <2>2, FS_EmptySet
  <2>. QED
    BY <1>1, <2>1, <2>3, <2>4
<1>2. ASSUME \A x, y \in S : x = y PROVE Cardinality(S) <= 1
  <2>1. CASE S = {}
    BY <2>1, FS_EmptySet
  <2>2. CASE S # {}
    <3>1. PICK x \in S : TRUE
      BY <2>2
    <3>2. S = {x}
      BY <1>2, <3>1
    <3>. QED
      BY <3>2, FS_Singleton
  <2>. QED
    BY <2>1, <2>2
<1>. QED
  BY <1>1, <1>2

(* What an envelope of a client is read as.                                *)
LEMMA RequestParsed ==
  ASSUME NEW b \in Body, b.kind = "envelope"
  PROVE  LET env == b.data
             t   == Parsed(b)
         IN  /\ t.read <=> Readable(env)
             /\ t.read =>
                  /\ t.hasEvent <=> OfType(env, EventItem) # {}
                  /\ t.hasEvent => \E i \in OfType(env, EventItem) :
                       t.event = CanonicalEvent(ProjectOf(b), ProjectOf(b) \in Scrub,
                                                env.items[i].type, env.eventID,
                                                env.items[i].data)
                  /\ t.logs # <<>> <=> OfType(env, LogItem) # {}
                  /\ t.reports \in Seq(UserReport)
                  /\ Len(t.reports) = Cardinality(OfType(env, ReportItem))
<1> DEFINE env == b.data
           project == ProjectOf(b)
           scrub == ProjectOf(b) \in Scrub
           s == ParseEnvelope(project, scrub, env)
           t == Parsed(b)
           n == Len(env.items)
<1>0. env.items \in Seq(ToSet(env.items))
  BY BodyAssumption
<1>1. t = IF s.logs # <<>> /\ s.reports # <<>> THEN Refuse(s) ELSE s
  BY DEF Parsed, parseSentryRequest
<1>2. CASE ~env.header \/ Len(env.items) > MaxItems
  <2>1. s = Refuse(Nothing)
    BY <1>2 DEF ParseEnvelope
  <2>2. s.logs = <<>> /\ ~s.read
    BY <2>1 DEF Refuse, Nothing
  <2>3. ~Readable(env)
    <3>1. n \in Nat
      BY <1>0
    <3>. QED
      BY <1>2, <3>1, ProtocolAssumption DEF Readable
  <2>. QED
    BY <1>1, <2>2, <2>3
<1>3. CASE env.header /\ ~(Len(env.items) > MaxItems)
  <2>1. PICK L : StateAt(project, scrub, env, L, UserReport, n, s)
    BY <1>3, EnvelopeParsed
  <2>2. n \in Nat /\ DOMAIN env.items = 1 .. n
    BY <1>0
  <2>. HIDE DEF s, t, project, scrub
  <2>3. \A types : OfType(env, types) = {i \in 1 .. n : OfKind(env, i, types)}
    BY <2>2 DEF OfType, OfKind
  <2>4. \A types : IsFiniteSet(OfType(env, types))
    <3>1. IsFiniteSet(1 .. n)
      BY <2>2, FS_Interval
    <3>2. \A types : OfType(env, types) \in SUBSET (1 .. n)
      BY <2>3
    <3>. QED
      BY <3>1, <3>2, FS_Subset
  <2>. HIDE DEF n
  <2>5. /\ Reading(s)
        /\ s.read <=> ReadTo(env, n)
        /\ s.read =>
             /\ s.hasEvent <=> OfType(env, EventItem) # {}
             /\ s.hasEvent => \E i \in OfType(env, EventItem) :
                  s.event = CanonicalEvent(project, scrub, env.items[i].type, env.eventID,
                                           env.items[i].data)
             /\ s.logs # <<>> <=> OfType(env, LogItem) # {}
             /\ s.reports \in Seq(UserReport)
             /\ Len(s.reports) = Cardinality(OfType(env, ReportItem))
    BY <2>1, <2>3 DEF StateAt, ReportsTo
  <2>6. ReadTo(env, n) <=>
          /\ \A i \in 1 .. n : ItemRead(env.eventID, env.items[i])
          /\ Cardinality(OfType(env, EventItem)) <= 1
          /\ OfType(env, LogItem) # {} => OfType(env, EventItem) = {}
    <3>1. Cardinality(OfType(env, EventItem)) <= 1
            <=> \A i, j \in OfType(env, EventItem) : i = j
      BY <2>4, AtMostOne
    <3>. QED
      BY <2>3, <3>1 DEF ReadTo
  <2>7. (\A i \in 1 .. n : ItemRead(env.eventID, env.items[i])) <=>
          /\ \A i \in 1 .. n : Framed(env.items[i])
          /\ OfType(env, ReservedItem) = {}
          /\ \A i \in OfType(env, ReportItem) :
               ReportRead(env.items[i].type, env.items[i].data)
          /\ \A i \in OfType(env, LogItem) : LogItemRead(env.items[i].type, env.items[i].data)
          /\ \A i \in OfType(env, EventItem) :
               EventRead(env.items[i].type, env.eventID, env.items[i].data)
    BY <2>3 DEF ItemRead, OfKind
  <2>8. OfType(env, EventItem \cup ReportItem)
          = OfType(env, EventItem) \cup OfType(env, ReportItem)
    BY DEF OfType
  <2>9. Readable(env) <=> ReadTo(env, n) /\ (OfType(env, LogItem) # {}
                                               => OfType(env, ReportItem) = {})
    <3>1. Len(env.items) <= MaxItems
      BY <1>3, <2>2, ProtocolAssumption DEF n
    <3>. QED
      BY <1>3, <2>2, <2>6, <2>7, <2>8, <3>1 DEF Readable
  <2>10. s.read => (s.reports = <<>> <=> OfType(env, ReportItem) = {})
    <3>1. Cardinality(OfType(env, ReportItem)) = 0 <=> OfType(env, ReportItem) = {}
      BY <2>4, FS_EmptySet
    <3>2. s.read => (s.reports = <<>> <=> Len(s.reports) = 0)
      BY <2>5
    <3>. QED
      BY <2>5, <3>1, <3>2
  <2>11. CASE s.logs # <<>> /\ s.reports # <<>>
    <3>1. t = Refuse(s)
      BY <1>1, <2>11 DEF s, t
    <3>2. ~t.read
      BY <2>5, <3>1, RefuseIs
    <3>3. ~Readable(env)
      BY <2>5, <2>9, <2>10, <2>11
    <3>. QED
      BY <3>2, <3>3 DEF t
  <2>12. CASE ~(s.logs # <<>> /\ s.reports # <<>>)
    <3>1. t = s
      BY <1>1, <2>12 DEF s, t
    <3>2. s.read <=> Readable(env)
      BY <2>5, <2>9, <2>10, <2>12
    <3>. QED
      BY <2>5, <3>1, <3>2 DEF t, project, scrub
  <2>. QED
    BY <2>11, <2>12
<1>. QED
  BY <1>2, <1>3

(* What a request that is not refused holds: the id of its event is one    *)
(* that clients give, its reports are a list, and logs go with neither.    *)
LEMMA BodyRead ==
  ASSUME NEW b \in Body, Refusal(b) = NULL
  PROVE  /\ b.kind \in {"store", "envelope"} /\ HasEvent(b) => Parsed(b).event.id \in EventID
         /\ ReportsOf(b) \in Seq(UserReport)
         /\ LogsOf(b) # <<>> => ~HasEvent(b) /\ ReportsOf(b) = <<>>
<1> DEFINE t == Parsed(b)
<1>0. b.kind \in {"store", "envelope", "minidump", "security", "feedback"}
  BY BodyAssumption
<1>1. b.kind \in {"store", "envelope"} => t.read
  <2>1. b.read \in {"ok", "encoding", "large", "gzip"}
    BY BodyAssumption
  <2>2. b.kind # "minidump" => b.read = "ok"
    BY <2>1, GatewayAssumption DEF Refusal, httpStatusForBodyError
  <2>3. b.kind # "minidump" => Authorized(b) /\ Understood(b)
    BY <2>2, GatewayAssumption DEF Refusal, KeyLookedUp
  <2>. QED
    BY <2>3 DEF Understood
<1>2. CASE b.kind = "envelope"
  <2> DEFINE env == b.data
  <2>1. Readable(env)
    BY <1>1, <1>2, RequestParsed
  <2>2. /\ t.hasEvent => OfType(env, EventItem) # {}
        /\ t.hasEvent => \E i \in OfType(env, EventItem) :
             t.event = CanonicalEvent(ProjectOf(b), ProjectOf(b) \in Scrub, env.items[i].type,
                                      env.eventID, env.items[i].data)
        /\ t.logs # <<>> => OfType(env, LogItem) # {}
        /\ t.reports \in Seq(UserReport)
        /\ Len(t.reports) = Cardinality(OfType(env, ReportItem))
    BY <1>1, <1>2, RequestParsed
  <2>. HIDE DEF t
  <2>3. ASSUME t.hasEvent PROVE t.event.id \in EventID
    <3>1. PICK i \in OfType(env, EventItem) :
            t.event = CanonicalEvent(ProjectOf(b), ProjectOf(b) \in Scrub, env.items[i].type,
                                     env.eventID, env.items[i].data)
      BY <2>2, <2>3
    <3>2. EventRead(env.items[i].type, env.eventID, env.items[i].data)
      BY <2>1 DEF Readable
    <3>3. env.items[i] \in ToSet(env.items) /\ env.items[i].type \in EventItem
      BY DEF OfType, ToSet
    <3>4. env.eventID \in GivenID /\ env.items[i].data.eventID \in GivenID
      BY <1>2, <3>3, BodyAssumption
    <3>. QED
      BY <3>1, <3>2, <3>4, IDGiven, CanonicalIs
  <2>4. ASSUME t.logs # <<>> PROVE ~t.hasEvent /\ t.reports = <<>>
    <3>1. OfType(env, EventItem \cup ReportItem) = {}
      BY <2>1, <2>2, <2>4 DEF Readable
    <3>2. OfType(env, EventItem) = {} /\ OfType(env, ReportItem) = {}
      BY <3>1 DEF OfType
    <3>3. Len(t.reports) = 0
      BY <2>2, <3>2, FS_EmptySet
    <3>. QED
      BY <2>2, <3>2, <3>3
  <2>. QED
    BY <1>2, <2>2, <2>3, <2>4 DEF t, HasEvent, ReportsOf, LogsOf
<1>3. CASE b.kind = "store"
  <2>1. t = parseStoreEvent(b)
    BY <1>3 DEF Parsed
  <2>2. EventRead("event", "", b.data)
    BY <1>1, <1>3, <2>1 DEF parseStoreEvent, Refuse, Nothing
  <2>3. t.event = CanonicalEvent(ProjectOf(b), ProjectOf(b) \in Scrub, "event", "", b.data)
    BY <2>1, <2>2 DEF parseStoreEvent, Nothing
  <2> DEFINE none == ""
             type == "event"
  <2>4. none \in GivenID /\ b.data.eventID \in GivenID
    BY <1>3, BodyAssumption DEF GivenID
  <2>5. /\ EventRead(type, none, b.data)
        /\ t.event = CanonicalEvent(ProjectOf(b), ProjectOf(b) \in Scrub, type, none, b.data)
    BY <2>2, <2>3
  <2>. HIDE DEF none, type, t
  <2>6. EventIDOf(b.data, none) \in EventID
    BY <2>4, <2>5, IDGiven
  <2>7. t.event.id = EventIDOf(b.data, none)
    BY <2>5, CanonicalIs
  <2>8. ReportsOf(b) = <<>> /\ LogsOf(b) = <<>>
    BY <1>3 DEF ReportsOf, LogsOf
  <2>. QED
    BY <1>3, <2>6, <2>7, <2>8 DEF t
<1>4. CASE b.kind = "feedback"
  <2>1. b.data.eventID \in GivenID /\ b.data.text \in STRING
    BY <1>4, BodyAssumption
  <2>2. ReportsOf(b) = <<[event |-> b.data.eventID, text |-> b.data.text]>>
    BY <1>4 DEF ReportsOf
  <2>3. [event |-> b.data.eventID, text |-> b.data.text] \in UserReport
    BY <2>1 DEF UserReport
  <2>. QED
    BY <1>4, <2>2, <2>3 DEF LogsOf
<1>5. CASE b.kind \in {"minidump", "security"}
  BY <1>5 DEF ReportsOf, LogsOf
<1>. QED
  BY <1>0, <1>2, <1>3, <1>4, <1>5

-----------------------------------------------------------------------------
(* What holds of a request that is not refused.                            *)
LEMMA Accepted ==
  ASSUME NEW b \in Body, Refusal(b) = NULL
  PROVE  /\ KeyOf(b) \in Key
         /\ ProjectOf(b) \in Project
         /\ b.kind # "minidump" => b.read = "ok"
<1>1. b.read \in {"ok", "encoding", "large", "gzip"}
  BY BodyAssumption
<1>2. b.kind # "minidump" => b.read = "ok"
  BY <1>1, GatewayAssumption DEF Refusal, httpStatusForBodyError
<1>3. Authorized(b)
  BY <1>2, GatewayAssumption DEF Refusal, KeyLookedUp
<1>4. PICK s \in SourcesOf(b) : KeyOf(b) = s.key
  BY <1>3 DEF Authorized, agreeSentryAuthSources, KeyOf
<1>5. KeyOf(b) \in Key
  BY <1>3, <1>4 DEF Authorized
<1>. QED
  BY <1>2, <1>5, GatewayAssumption DEF ProjectOf

(* A refusal is one of the statuses.                                       *)
LEMMA Refused ==
  ASSUME NEW b \in Body
  PROVE  Refusal(b) \in {NULL, 400, 403, 413, 415}
<1>1. b.read \in {"ok", "encoding", "large", "gzip"}
  BY BodyAssumption
<1>. QED
  BY <1>1 DEF Refusal, httpStatusForBodyError

(* The event of a request that stores one.                                 *)
LEMMA EventTyped ==
  ASSUME NEW r \in Req, body[r] \in Body, Refusal(body[r]) = NULL, HasEvent(body[r]),
         body[r].kind = "minidump" => MinidumpRead(body[r].data)
  PROVE  EventOf(r) \in EventKey
<1>. DEFINE b == body[r]
<1>1. b.kind \in {"store", "envelope"} => Parsed(b).event.id \in EventID
  BY BodyRead
<1>2. b.kind = "minidump" => b.data.eventID \in EventID \cup {""}
  BY BodyAssumption DEF MinidumpRead, GivenID
<1>3. ProjectOf(b) \in Project
  BY Accepted
<1>. QED
  BY <1>1, <1>2, <1>3 DEF EventOf, EventKey

(* A request that keeps its body keeps its event and its stage.            *)
LEMMA EventKept ==
  ASSUME NEW r \in Req, body'[r] = body[r]
  PROVE  EventOf(r)' = EventOf(r)
  BY DEF EventOf

(* A request that is left alone stays in its stage.                        *)
LEMMA StageKept ==
  ASSUME NEW r \in Req, Stage(r), body'[r] = body[r], pc'[r] = pc[r], admitted'[r] = admitted[r],
         answer'[r] = answer[r], uploaded'[r] = uploaded[r], locked'[r] = locked[r]
  PROVE  Stage(r)'
  BY EventKept DEF Stage

(* The seconds of a Retry-After header.                                    *)
LEMMA BucketTyped ==
  ASSUME NEW t \in Nat, NEW w \in Nat \ {0}
  PROVE  /\ rateLimitBucket(t, w) \in Bucket
         /\ RetryAfterSeconds(t, w) \in Nat
<1>. DEFINE q == t \div (2 * w)
<1>1. 2 * w \in Nat \ {0}
  OBVIOUS
<1>2. q \in Nat
  <2>. DEFINE v == 2 * w
  <2>1. v \in Nat \ {0}
    BY <1>1
  <2>. HIDE DEF v
  <2>. QED
    BY <2>1
<1>3. q * w \in Nat
  <2>. HIDE DEF q
  <2>. QED
    BY <1>2
<1>4. rateLimitBucket(t, w) = <<q * w, w>>
  BY DEF rateLimitBucket
<1>. DEFINE s == q * w
<1>. HIDE DEF q, s
<1>5. rateLimitBucket(t, w) = <<s, w>> /\ s \in Nat
  BY <1>3, <1>4 DEF s
<1>6. RetryAfterSeconds(t, w) \in Nat
  BY <1>5 DEF RetryAfterSeconds
<1>. QED
  BY <1>5, <1>6 DEF Bucket

-----------------------------------------------------------------------------
(* A step of one request leaves the stages of the others.                  *)
Only(r) ==
  \A s \in Req \ {r} :
    /\ pc'[s] = pc[s] /\ body'[s] = body[s] /\ admitted'[s] = admitted[s]
    /\ answer'[s] = answer[s] /\ uploaded'[s] = uploaded[s] /\ locked'[s] = locked[s]

(* It is left to show the parts that the step changes.                     *)
LEMMA Others ==
  ASSUME Typed, NEW r \in Req, Only(r), Rows', Requests', Stage(r)'
  PROVE  Typed'
<1>1. \A s \in Req \ {r} : Stage(s)'
  BY StageKept DEF Only, Typed
<1>. QED
  BY <1>1 DEF Typed

(* The initial state, and then every action in turn.                       *)
LEMMA TypedInit == Init => Typed
<1>. SUFFICES ASSUME Init PROVE Typed
  OBVIOUS
<1>1. Rows
  BY DEF Init, Rows, Counts
<1>2. Requests
  BY DEF Init, Requests, PC
<1>3. \A r \in Req : Stage(r)
  BY DEF Init, Stage, Waiting, OfDump, DumpRead
<1>. QED
  BY <1>1, <1>2, <1>3 DEF Typed

(* An arrival is answered, or starts with what the body asks for.          *)
LEMMA Arrived ==
  ASSUME Typed, NEW r \in Req, NEW b \in Body, Arrive(r, b)
  PROVE  /\ pc[r] = "idle" /\ body'[r] = b
         /\ \/ pc'[r] = "done" /\ answer'[r] \in {400, 403, 413, 415} /\ todo' = todo
            \/ /\ Refusal(b) = NULL /\ answer' = answer
               /\ pc'[r] = IF HasEvent(b) \/ LogsOf(b) # <<>> THEN "limit" ELSE "reports"
               /\ todo' = [todo EXCEPT ![r] = ReportsOf(b)]
<1>1. pc[r] = "idle" /\ body'[r] = b
  BY DEF Typed, Requests, Arrive
<1>2. \/ \E x \in {Refusal(b), 403} : x # NULL /\ Answer(r, x) /\ UNCHANGED todo
      \/ /\ Refusal(b) = NULL /\ UNCHANGED answer
         /\ Goto(r, IF HasEvent(b) \/ LogsOf(b) # <<>> THEN "limit" ELSE "reports")
         /\ todo' = [todo EXCEPT ![r] = ReportsOf(b)]
  BY GatewayAssumption DEF Arrive
<1>3. CASE \E x \in {Refusal(b), 403} : x # NULL /\ Answer(r, x) /\ UNCHANGED todo
  BY <1>1, <1>3, Refused DEF Typed, Requests, Answer, Goto
<1>4. CASE /\ Refusal(b) = NULL /\ UNCHANGED answer
           /\ Goto(r, IF HasEvent(b) \/ LogsOf(b) # <<>> THEN "limit" ELSE "reports")
           /\ todo' = [todo EXCEPT ![r] = ReportsOf(b)]
  BY <1>1, <1>4 DEF Typed, Requests, Goto
<1>. QED
  BY <1>2, <1>3, <1>4

(* An arrival keeps the types.                                             *)
LEMMA ArriveTyped ==
  ASSUME Typed, NEW r \in Req, NEW b \in Body, Arrive(r, b)
  PROVE  Typed'
<1>1. Rows'
  BY DEF Typed, Rows, Counts, Arrive, dbVars
<1>2. Requests'
  <2>1. Refusal(b) \in Status \cup {NULL}
    BY Refused DEF Status
  <2>2. Refusal(b) = NULL => ReportsOf(b) \in Seq(UserReport)
    BY BodyRead
  <2>. QED
    <3>1. /\ pc' \in [Req -> PC] /\ answer' \in [Req -> Status \cup {NULL}]
          /\ todo' \in [Req -> Seq(UserReport)]
      <4>1. CASE \E x \in {Refusal(b), 403} : Answer(r, x) /\ UNCHANGED todo
        BY <2>1, <4>1 DEF Typed, Requests, Answer, Goto, PC, Status
      <4>2. CASE /\ Refusal(b) = NULL /\ UNCHANGED answer
                 /\ Goto(r, IF HasEvent(b) \/ LogsOf(b) # <<>> THEN "limit" ELSE "reports")
                 /\ todo' = [todo EXCEPT ![r] = ReportsOf(b)]
        BY <2>2, <4>2 DEF Typed, Requests, Goto, PC
      <4>. QED
        BY <4>1, <4>2 DEF Arrive
    <3>2. /\ body' \in [Req -> Body \cup {NULL}] /\ received' \in [Req -> Nat]
          /\ UNCHANGED <<locked, uploaded, gone, admitted, retryAfter>>
      BY DEF Typed, Rows, Requests, Arrive
    <3>. QED
      BY <3>1, <3>2 DEF Typed, Requests
<1>3. Only(r)
  BY DEF Only, Typed, Requests, Arrive, Answer, Goto
<1>4. Stage(r)'
  <2>1. /\ body'[r] = b /\ ~admitted'[r] /\ ~uploaded'[r] /\ locked'[r] = {}
        /\ pc[r] = "idle" /\ answer[r] = NULL
    BY DEF Typed, Requests, Stage, Arrive, Waiting
  <2>2. CASE pc'[r] = "done" /\ answer'[r] \in {400, 403, 413, 415}
    <3>1. answer'[r] # NULL
      BY <2>2, GatewayAssumption
    <3>. QED
      BY <2>1, <2>2, <3>1 DEF Stage, Waiting, OfDump, DumpRead
  <2>3. CASE /\ Refusal(b) = NULL /\ answer' = answer
             /\ pc'[r] = IF HasEvent(b) \/ LogsOf(b) # <<>> THEN "limit" ELSE "reports"
    BY <2>1, <2>3 DEF Stage, Waiting, OfDump, DumpRead
  <2>. QED
    BY <2>2, <2>3, Arrived
<1>. QED
  BY <1>1, <1>2, <1>3, <1>4, Others

(* The rows of a bucket are counts still.                                  *)
LEMMA CountsTyped ==
  ASSUME Counts, NEW k \in Key, NEW x, incrementRateLimitBucket(k, x)
  PROVE  Counts'
  BY DEF Counts, incrementRateLimitBucket, CountOf

(* The parts of a step.                                                    *)
LEMMA Answering ==
  ASSUME Typed, NEW r \in Req, NEW status \in Status, Answer(r, status)
  PROVE  /\ pc' \in [Req -> PC] /\ pc'[r] = "done"
         /\ answer' \in [Req -> Status \cup {NULL}] /\ answer'[r] = status
  BY DEF Answer, Goto, Typed, Requests, PC

(* A request that is answered has let go of its event.                     *)
LEMMA Answered ==
  ASSUME Typed, NEW r \in Req, NEW status \in Status, Answer(r, status), pc[r] # "idle",
         body' = body, locked'[r] = {}
  PROVE  Stage(r)'
<1>1. status # NULL
  BY GatewayAssumption DEF Status
<1>2. pc'[r] = "done" /\ answer'[r] # NULL
  BY <1>1, Answering
<1>3. body'[r] \in Body
  BY DEF Typed, Stage
<1>. QED
  BY <1>2, <1>3 DEF Stage, Waiting, OfDump, DumpRead

(* A request that goes on is at the stage it goes to.                      *)
LEMMA Going ==
  ASSUME Typed, NEW r \in Req, NEW x \in PC, Goto(r, x)
  PROVE  pc' \in [Req -> PC] /\ pc'[r] = x
  BY DEF Goto, Typed, Requests

(* Rows and files are named by the requests that wrote them.               *)
LEMMA Storing ==
  ASSUME Typed, NEW r \in Req
  PROVE  /\ Store(r) => events' \in [EventKey -> Req \cup {NULL}]
         /\ Write(r) => reports' \in [EventKey -> Req \cup {NULL}]
         /\ PutArtifact(r) => vault' \in [EventKey -> Req \cup {NULL}]
  BY DEF Typed, Rows, Store, Write, PutArtifact

(* The logs that are stored of a request are those of its body, all at     *)
(* once.                                                                   *)
LEMMA Logging ==
  ASSUME Typed, NEW r \in Req, pc[r] # "idle",
         logRows' = [logRows EXCEPT ![r] = Len(LogsOf(body[r]))]
  PROVE  logRows' \in [Req -> {0} \cup {Len(LogsOf(b)) : b \in Body}]
<1>1. body[r] \in Body
  BY DEF Typed, Stage
<1>. QED
  BY <1>1 DEF Typed, Rows

(* The steps of a request, in the order of its stages.                     *)
LEMMA CheckRateLimitTyped ==
  ASSUME Typed, NEW r \in Req, CheckRateLimit(r)
  PROVE  Typed'
<1>1. Rows'
  BY CountsTyped, Accepted, Storing, Logging
  DEF Typed, Counts, Stage, Waiting, Rows, Requests, CheckRateLimit, Pass, AfterLimit, dbVars
<1>2. Requests'
  <2>1. CASE Pass(r)
    BY <2>1, Going DEF Typed, Requests, PC, CheckRateLimit, Pass, AfterLimit
  <2>2. CASE Answer(r, 429) /\ UNCHANGED admitted
    <3>1. retryAfter' \in [Req -> Nat]
      <4>1. Policy[KeyOf(body[r])].window \in Nat \ {0} /\ received[r] \in Nat
        BY <2>2, Accepted, GatewayAssumption
        DEF Typed, Requests, Stage, CheckRateLimit, Waiting, Pass
      <4>. QED
        <5>1. RetryAfterSeconds(received[r], Policy[KeyOf(body[r])].window) \in Nat
          BY <4>1, BucketTyped
        <5>. QED
          BY <5>1 DEF Typed, Requests, CheckRateLimit, Pass
    <3>. QED
      BY <2>2, <3>1, Answering DEF Typed, Requests, Status, CheckRateLimit
  <2>. QED
    BY <2>1, <2>2 DEF CheckRateLimit
<1>3. Only(r)
  BY DEF Only, Typed, Requests, CheckRateLimit, Pass, AfterLimit, Answer, Goto
<1>4. Stage(r)'
  BY EventKept, Answered, Going
  DEF Typed, Requests, Stage, Status, PC, CheckRateLimit, Pass, AfterLimit, Waiting, OfDump,
      DumpRead
<1>. QED
  BY <1>1, <1>2, <1>3, <1>4, Others

(* The rate limit cannot be asked, and the request is refused.             *)
LEMMA CheckRateLimitFailsTyped ==
  ASSUME Typed, NEW r \in Req, CheckRateLimitFails(r)
  PROVE  Typed'
<1>1. Rows'
  BY CountsTyped, Accepted, Storing, Logging
  DEF Typed, Counts, Stage, Waiting, Rows, Requests, CheckRateLimitFails, dbVars
<1>2. Requests'
  BY SMTT(30), Answering, Going DEF Typed, Rows, Requests, PC, Status, CheckRateLimitFails
<1>3. Only(r)
  BY DEF Only, Typed, Requests, CheckRateLimitFails, Answer, Goto
<1>4. Stage(r)'
  BY EventKept, Answered, Going
  DEF Typed, Requests, Stage, Status, PC, CheckRateLimitFails, Waiting, OfDump, DumpRead
<1>. QED
  BY <1>1, <1>2, <1>3, <1>4, Others

(* The logs are stored.                                                    *)
LEMMA IngestLogsTyped ==
  ASSUME Typed, NEW r \in Req, IngestLogs(r)
  PROVE  Typed'
<1>1. Rows'
  BY CountsTyped, Accepted, Storing, Logging
  DEF Typed, Counts, Stage, Waiting, Rows, Requests, IngestLogs, dbVars
<1>2. Requests'
  BY SMTT(30), Answering, Going DEF Typed, Rows, Requests, PC, Status, IngestLogs
<1>3. Only(r)
  BY DEF Only, Typed, Requests, IngestLogs, Answer, Goto
<1>4. Stage(r)'
  BY EventKept, Answered, Going
  DEF Typed, Requests, Stage, Status, PC, IngestLogs, Waiting, OfDump, DumpRead
<1>. QED
  BY <1>1, <1>2, <1>3, <1>4, Others

(* The logs are refused, are not stored, or are stored without an answer.  *)
LEMMA IngestLogsFailsTyped ==
  ASSUME Typed, NEW r \in Req, IngestLogsFails(r)
  PROVE  Typed'
<1>1. Rows'
  BY CountsTyped, Accepted, Storing, Logging
  DEF Typed, Counts, Stage, Waiting, Rows, Requests, IngestLogsFails, dbVars
<1>2. Requests'
  BY SMTT(30), Answering, Going DEF Typed, Rows, Requests, PC, Status, IngestLogsFails
<1>3. Only(r)
  BY DEF Only, Typed, Requests, IngestLogsFails, Answer, Goto
<1>4. Stage(r)'
  BY EventKept, Answered, Going
  DEF Typed, Requests, Stage, Status, PC, IngestLogsFails, Waiting, OfDump, DumpRead
<1>. QED
  BY <1>1, <1>2, <1>3, <1>4, Others

(* The event is stored, found to be there, or refused.                     *)
LEMMA IngestEventTyped ==
  ASSUME Typed, NEW r \in Req, IngestEvent(r)
  PROVE  Typed'
<1>1. Rows'
  BY CountsTyped, Accepted, Storing, Logging
  DEF Typed, Counts, Stage, Waiting, Rows, Requests, IngestEvent, dbVars
<1>2. Requests'
  BY SMTT(30), Answering, Going DEF Typed, Rows, Requests, PC, Status, IngestEvent
<1>3. Only(r)
  BY DEF Only, Typed, Requests, IngestEvent, Answer, Goto
<1>4. Stage(r)'
  BY EventKept, Answered, Going
  DEF Typed, Requests, Stage, Status, PC, IngestEvent, Waiting, OfDump, DumpRead
<1>. QED
  BY <1>1, <1>2, <1>3, <1>4, Others

(* The event is not stored, or is stored without an answer.                *)
LEMMA IngestEventFailsTyped ==
  ASSUME Typed, NEW r \in Req, IngestEventFails(r)
  PROVE  Typed'
<1>1. Rows'
  BY CountsTyped, Accepted, Storing, Logging
  DEF Typed, Counts, Stage, Waiting, Rows, Requests, IngestEventFails, dbVars
<1>2. Requests'
  BY SMTT(30), Answering, Going DEF Typed, Rows, Requests, PC, Status, IngestEventFails
<1>3. Only(r)
  BY DEF Only, Typed, Requests, IngestEventFails, Answer, Goto
<1>4. Stage(r)'
  BY EventKept, Answered, Going
  DEF Typed, Requests, Stage, Status, PC, IngestEventFails, Waiting, OfDump, DumpRead
<1>. QED
  BY <1>1, <1>2, <1>3, <1>4, Others

(* The next report is stored, or refused.                                  *)
LEMMA SubmitUserReportTyped ==
  ASSUME Typed, NEW r \in Req, SubmitUserReport(r)
  PROVE  Typed'
<1>1. Rows'
  BY CountsTyped, Accepted, Storing, Logging
  DEF Typed, Counts, Stage, Waiting, Rows, Requests, SubmitUserReport, dbVars
<1>2. Requests'
  <2>1. Tail(todo[r]) \in Seq(UserReport)
    BY DEF Typed, Requests, SubmitUserReport
  <2>2. todo' \in [Req -> Seq(UserReport)]
    BY <2>1 DEF Typed, Requests, SubmitUserReport
  <2>3. pc' \in [Req -> PC] /\ answer' \in [Req -> Status \cup {NULL}]
    BY Answering DEF Typed, Requests, SubmitUserReport, Status
  <2>. QED
    BY <2>2, <2>3 DEF Typed, Requests, SubmitUserReport
<1>3. Only(r)
  BY DEF Only, Typed, Requests, SubmitUserReport, Answer, Goto
<1>4. Stage(r)'
  BY EventKept, Answered, Going
  DEF Typed, Requests, Stage, Status, PC, SubmitUserReport, Waiting, OfDump, DumpRead
<1>. QED
  BY <1>1, <1>2, <1>3, <1>4, Others

(* The next report is not stored, or is stored without an answer.          *)
LEMMA SubmitUserReportFailsTyped ==
  ASSUME Typed, NEW r \in Req, SubmitUserReportFails(r)
  PROVE  Typed'
<1>1. Rows'
  BY CountsTyped, Accepted, Storing, Logging
  DEF Typed, Counts, Stage, Waiting, Rows, Requests, SubmitUserReportFails, dbVars
<1>2. Requests'
  BY SMTT(30), Answering, Going DEF Typed, Rows, Requests, PC, Status, SubmitUserReportFails
<1>3. Only(r)
  BY DEF Only, Typed, Requests, SubmitUserReportFails, Answer, Goto
<1>4. Stage(r)'
  BY EventKept, Answered, Going
  DEF Typed, Requests, Stage, Status, PC, SubmitUserReportFails, Waiting, OfDump, DumpRead
<1>. QED
  BY <1>1, <1>2, <1>3, <1>4, Others

(* The request is answered with what it has done.                          *)
LEMMA WriteReceiptTyped ==
  ASSUME Typed, NEW r \in Req, WriteReceipt(r)
  PROVE  Typed'
<1>1. Rows'
  BY CountsTyped, Accepted, Storing, Logging
  DEF Typed, Counts, Stage, Waiting, Rows, Requests, WriteReceipt, dbVars
<1>2. Requests'
  BY SMTT(30), Answering, Going DEF Typed, Rows, Requests, PC, Status, WriteReceipt
<1>3. Only(r)
  BY DEF Only, Typed, Requests, WriteReceipt, Answer, Goto
<1>4. Stage(r)'
  <2>1. pc[r] # "idle" /\ body' = body /\ locked'[r] = {}
    BY DEF Typed, Stage, WriteReceipt
  <2>. QED
    BY <2>1, Answered DEF WriteReceipt, Status
<1>. QED
  BY <1>1, <1>2, <1>3, <1>4, Others

(* The upload of a minidump is read, or refused.                           *)
LEMMA ReadMinidumpTyped ==
  ASSUME Typed, NEW r \in Req, ReadMinidump(r)
  PROVE  Typed'
<1>1. Rows'
  BY CountsTyped, Accepted, Storing, Logging
  DEF Typed, Counts, Stage, Waiting, Rows, Requests, ReadMinidump, dbVars
<1>2. Requests'
  BY SMTT(30), Answering, Going DEF Typed, Rows, Requests, PC, Status, ReadMinidump
<1>3. Only(r)
  BY DEF Only, Typed, Requests, ReadMinidump, Answer, Goto
<1>4. Stage(r)'
  BY EventKept, Answered, Going
  DEF Typed, Requests, Stage, Status, PC, ReadMinidump, Waiting, OfDump, DumpRead
<1>. QED
  BY <1>1, <1>2, <1>3, <1>4, Others

(* The event of a minidump is found, or written in a transaction that      *)
(* stays open.                                                             *)
LEMMA AppendEventTyped ==
  ASSUME Typed, NEW r \in Req, AppendEvent(r)
  PROVE  Typed'
<1>1. Rows'
  BY CountsTyped, Accepted, Storing, Logging
  DEF Typed, Counts, Stage, Waiting, Rows, Requests, AppendEvent, dbVars
<1>2. Requests'
  <2>1. EventOf(r) \in EventKey
    BY EventTyped DEF Typed, Stage, AppendEvent, Waiting, OfDump, DumpRead, HasEvent
  <2>2. locked' \in [Req -> SUBSET EventKey]
    BY <2>1 DEF Typed, Requests, AppendEvent
  <2>3. pc' \in [Req -> PC] /\ answer' \in [Req -> Status \cup {NULL}]
    <3>1. CASE Goto(r, "upload") /\ UNCHANGED answer
      BY <3>1, Going DEF Typed, Requests, PC
    <3>2. CASE \E x \in Status : Answer(r, x)
      BY <3>2, Answering
    <3>. QED
      BY <3>1, <3>2 DEF AppendEvent, Status
  <2>. QED
    BY <2>2, <2>3 DEF Typed, Requests, AppendEvent
<1>3. Only(r)
  BY DEF Only, Typed, Requests, AppendEvent, Answer, Goto
<1>4. Stage(r)'
  <2>1. CASE Goto(r, "upload") /\ UNCHANGED answer /\ locked' = [locked EXCEPT ![r] = {EventOf(r)}]
    <3>1. pc'[r] = "upload" /\ locked'[r] = {EventOf(r)'}
      BY <2>1, Going, EventKept DEF PC, AppendEvent, Typed, Requests
    <3>2. /\ body'[r] = body[r] /\ answer'[r] = answer[r] /\ uploaded'[r] = uploaded[r]
          /\ pc[r] = "append"
      BY <2>1 DEF AppendEvent
    <3>. QED
      BY <3>1, <3>2 DEF Typed, Stage, Waiting, OfDump, DumpRead
  <2>2. CASE UNCHANGED locked /\ \E x \in Status : Answer(r, x)
    <3>1. pc[r] # "idle" /\ body' = body /\ locked'[r] = {}
      BY <2>2 DEF Typed, Stage, AppendEvent
    <3>. QED
      BY <2>2, <3>1, Answered
  <2>. QED
    BY <2>1, <2>2 DEF AppendEvent, Status
<1>. QED
  BY <1>1, <1>2, <1>3, <1>4, Others

(* The file goes into the vault before the transaction ends.               *)
LEMMA UploadMinidumpTyped ==
  ASSUME Typed, NEW r \in Req, UploadMinidump(r)
  PROVE  Typed'
<1>1. Rows'
  BY CountsTyped, Accepted, Storing, Logging
  DEF Typed, Counts, Stage, Waiting, Rows, Requests, UploadMinidump, dbVars
<1>2. Requests'
  BY SMTT(30), Answering, Going DEF Typed, Rows, Requests, PC, Status, UploadMinidump
<1>3. Only(r)
  BY DEF Only, Typed, Requests, UploadMinidump, Answer, Goto
<1>4. Stage(r)'
  BY EventKept, Answered, Going
  DEF Typed, Requests, Stage, Status, PC, UploadMinidump, Waiting, OfDump, DumpRead
<1>. QED
  BY <1>1, <1>2, <1>3, <1>4, Others

(* The transaction ends, and the event is stored.                          *)
LEMMA CommitMinidumpTyped ==
  ASSUME Typed, NEW r \in Req, CommitMinidump(r)
  PROVE  Typed'
<1>1. Rows'
  BY CountsTyped, Accepted, Storing, Logging
  DEF Typed, Counts, Stage, Waiting, Rows, Requests, CommitMinidump, Unlock, dbVars
<1>2. Requests'
  BY SMTT(30), Answering, Going DEF Typed, Rows, Requests, PC, Status, CommitMinidump, Unlock
<1>3. Only(r)
  BY DEF Only, Typed, Requests, CommitMinidump, Unlock, Answer, Goto
<1>4. Stage(r)'
  <2>1. pc[r] # "idle" /\ body' = body /\ locked'[r] = {}
    BY DEF Typed, Requests, CommitMinidump, Unlock
  <2>. QED
    BY <2>1, Answered DEF CommitMinidump, Status
<1>. QED
  BY <1>1, <1>2, <1>3, <1>4, Others

(* The transaction ends without effect, or with an effect that nobody      *)
(* confirms.                                                               *)
LEMMA RollbackMinidumpTyped ==
  ASSUME Typed, NEW r \in Req, RollbackMinidump(r)
  PROVE  Typed'
<1>1. Rows'
  BY CountsTyped, Accepted, Storing, Logging
  DEF Typed, Counts, Stage, Waiting, Rows, Requests, RollbackMinidump, Unlock, dbVars
<1>2. Requests'
  BY SMTT(30), Answering, Going DEF Typed, Rows, Requests, PC, Status, RollbackMinidump, Unlock
<1>3. Only(r)
  BY DEF Only, Typed, Requests, RollbackMinidump, Unlock, Answer, Goto
<1>4. Stage(r)'
  <2>1. /\ pc[r] \in {"append", "upload", "commit"} /\ body' = body /\ locked'[r] = {}
        /\ admitted' = admitted /\ uploaded' = uploaded
    BY DEF Typed, Requests, RollbackMinidump, Unlock
  <2>2. CASE uploaded[r]
    <3>1. pc'[r] = "cleanup" /\ answer'[r] = answer[r]
      BY <2>2, Going DEF PC, RollbackMinidump
    <3>. QED
      BY <2>1, <2>2, <3>1 DEF Typed, Stage, Waiting, OfDump, DumpRead
  <2>3. CASE ~uploaded[r]
    BY <2>1, <2>3, Answered DEF RollbackMinidump, Status
  <2>. QED
    BY <2>2, <2>3
<1>. QED
  BY <1>1, <1>2, <1>3, <1>4, Others

(* The file of a request that has failed is removed.                       *)
LEMMA CleanupStoredMinidumpTyped ==
  ASSUME Typed, NEW r \in Req, CleanupStoredMinidump(r)
  PROVE  Typed'
<1>1. Rows'
  BY CountsTyped, Accepted, Storing, Logging
  DEF Typed, Counts, Stage, Waiting, Rows, Requests, CleanupStoredMinidump, dbVars
<1>2. Requests'
  BY SMTT(30), Answering, Going DEF Typed, Rows, Requests, PC, Status, CleanupStoredMinidump
<1>3. Only(r)
  BY DEF Only, Typed, Requests, CleanupStoredMinidump, Answer, Goto
<1>4. Stage(r)'
  <2>1. pc[r] # "idle" /\ body' = body /\ locked'[r] = {}
    BY DEF Typed, Stage, CleanupStoredMinidump
  <2>. QED
    BY <2>1, Answered DEF CleanupStoredMinidump, Status
<1>. QED
  BY <1>1, <1>2, <1>3, <1>4, Others

(* A client that leaves, and an instance that stops.                       *)
LEMMA LeaveTyped ==
  ASSUME Typed, NEW r \in Req, Leave(r)
  PROVE  Typed'
<1>1. Rows'
  BY CountsTyped, Accepted, Storing, Logging
  DEF Typed, Counts, Stage, Waiting, Rows, Requests, Leave, dbVars
<1>2. Requests'
  BY SMTT(30), Answering, Going DEF Typed, Rows, Requests, PC, Status, Leave
<1>3. Only(r)
  BY DEF Only, Typed, Requests, Leave, Answer, Goto
<1>4. Stage(r)'
  BY EventKept, Answered, Going
  DEF Typed, Requests, Stage, Status, PC, Leave, Waiting, OfDump, DumpRead
<1>. QED
  BY <1>1, <1>2, <1>3, <1>4, Others

(* The process ends, and with it all requests.                             *)
LEMMA CrashTyped ==
  ASSUME Typed, Crash
  PROVE  Typed'
<1>1. Rows'
  BY DEF Typed, Counts, Rows, Crash, dbVars
<1>2. Requests'
  BY DEF Typed, Requests, Crash, PC
<1>3. ASSUME NEW r \in Req PROVE Stage(r)'
  <2>1. /\ body'[r] = body[r] /\ answer'[r] = answer[r] /\ admitted'[r] = admitted[r]
        /\ uploaded'[r] = uploaded[r] /\ locked'[r] = {}
        /\ pc'[r] = IF pc[r] \in {"idle", "done"} THEN pc[r] ELSE "dead"
    BY DEF Crash
  <2>. QED
    BY <2>1 DEF Typed, Stage, Waiting, OfDump, DumpRead
<1>. QED
  BY <1>1, <1>2, <1>3 DEF Typed

(* Nothing happens but that time passes.                                   *)
LEMMA IdleTyped ==
  ASSUME Typed, UNCHANGED vars \/ Tick
  PROVE  Typed'
<1>1. Rows'
  BY DEF Typed, Counts, Rows, Tick, vars, dbVars
<1>2. Requests'
  BY DEF Typed, Requests, Tick, vars, reqVars
<1>3. \A r \in Req : Stage(r)'
  BY StageKept DEF Typed, Tick, vars, reqVars
<1>. QED
  BY <1>1, <1>2, <1>3 DEF Typed

(* The types are kept by every step.                                       *)
LEMMA TypedNext == Typed /\ [Next]_vars => Typed'
  BY ArriveTyped, CheckRateLimitTyped, CheckRateLimitFailsTyped, IngestLogsTyped,
     IngestLogsFailsTyped, IngestEventTyped, IngestEventFailsTyped, SubmitUserReportTyped,
     SubmitUserReportFailsTyped, WriteReceiptTyped, ReadMinidumpTyped, AppendEventTyped,
     UploadMinidumpTyped, CommitMinidumpTyped, RollbackMinidumpTyped,
     CleanupStoredMinidumpTyped, LeaveTyped, CrashTyped, IdleTyped
  DEF Next, Handle

(* The types, and the stage each request is in.                            *)
THEOREM GatewayTyped == Spec => []Typed
<1>. QED
  BY TypedInit, TypedNext, PTL DEF Spec

-----------------------------------------------------------------------------
(* Minidumps and their files.  A request writes while its transaction is   *)
(* open: it holds the row of its event, which nobody has stored yet.       *)

Writing(r) == pc[r] \in {"upload", "commit"}

(* Events of which a failed request may have removed the file, and the     *)
(* events and requests whose file is there or was removed in this way.     *)
Lost ==
  {e \in EventKey :
     \E r \in Req : uploaded[r] /\ pc[r] = "done" /\ answer[r] = 503 /\ EventOf(r) = e}

Kept == {x \in EventKey \X Req : vault[x[1]] = x[2] \/ (vault[x[1]] = NULL /\ x[1] \in Lost)}

FilesKept ==
  /\ \A r, s \in Req : Writing(r) /\ Writing(s) /\ EventOf(r) = EventOf(s) => r = s
  /\ \A r \in Req : Writing(r) => events[EventOf(r)] = NULL
  /\ \A r \in Req : pc[r] = "commit" => <<EventOf(r), r>> \in Kept
  /\ \A e \in EventKey, r \in Req : events[e] = r =>
       pc[r] # "idle" /\ (body[r].kind = "minidump" => <<e, r>> \in Kept)

(* A request keeps its body, and one that is done its outcome.             *)
Stays(r) ==
  /\ pc[r] # "idle" => body'[r] = body[r] /\ pc'[r] # "idle"
  /\ pc[r] = "done" => pc'[r] = "done" /\ answer'[r] = answer[r] /\ uploaded'[r] = uploaded[r]

(* It does so in every step.                                               *)
LEMMA Steady ==
  ASSUME Typed, [Next]_vars, NEW r \in Req
  PROVE  Stays(r) /\ (pc[r] # "idle" => EventOf(r)' = EventOf(r))
<1>1. ASSUME NEW s \in Req, NEW b \in Body, Arrive(s, b) PROVE Stays(r)
  BY <1>1 DEF Stays, Typed, Requests, Arrive, Answer, Goto
<1>2. ASSUME NEW s \in Req, Handle(s) PROVE Stays(r)
  BY <1>2 DEF Stays, Typed, Requests, Handle, Answer, Goto, CheckRateLimit, Pass, AfterLimit,
              CheckRateLimitFails, IngestLogs, IngestLogsFails, IngestEvent, IngestEventFails,
              SubmitUserReport, SubmitUserReportFails, WriteReceipt, ReadMinidump, AppendEvent,
              UploadMinidump, CommitMinidump, RollbackMinidump, CleanupStoredMinidump
<1>3. ASSUME UNCHANGED vars \/ Tick \/ \E s \in Req : Leave(s) PROVE Stays(r)
  BY <1>3 DEF Stays, vars, reqVars, Tick, Leave
<1>4. ASSUME Crash PROVE Stays(r)
  BY <1>4 DEF Stays, Typed, Requests, Crash
<1>5. Stays(r)
  BY <1>1, <1>2, <1>3, <1>4 DEF Next
<1>. QED
  BY <1>5, EventKept DEF Stays

(* An event whose file was removed after a failure stays one.              *)
LEMMA LostKept ==
  ASSUME Typed, [Next]_vars
  PROVE  Lost \subseteq Lost'
<1>. SUFFICES ASSUME NEW e \in EventKey, e \in Lost PROVE e \in Lost'
  BY DEF Lost
<1>1. PICK r \in Req : uploaded[r] /\ pc[r] = "done" /\ answer[r] = 503 /\ EventOf(r) = e
  BY DEF Lost
<1>2. uploaded'[r] /\ pc'[r] = "done" /\ answer'[r] = 503 /\ EventOf(r)' = e
  BY <1>1, Steady DEF Stays
<1>. QED
  BY <1>2 DEF Lost

(* A step that neither stores an event nor touches a file, and opens no    *)
(* transaction.                                                            *)
LEMMA FilesQuiet ==
  ASSUME Typed, FilesKept, [Next]_vars, events' = events, vault' = vault,
         \A s \in Req : /\ Writing(s)' => Writing(s)
                        /\ pc'[s] = "commit" => pc[s] = "commit"
  PROVE  FilesKept'
<1>1. \A s \in Req : Writing(s)' => EventOf(s)' = EventOf(s)
  BY Steady DEF Writing
<1>2. Kept \subseteq Kept'
  BY LostKept DEF Kept
<1>3. \A e \in EventKey, x \in Req : events'[e] = x =>
        pc'[x] # "idle" /\ (body'[x].kind = "minidump" => <<e, x>> \in Kept')
  BY <1>2, Steady DEF Stays, FilesKept
<1>4. \A s \in Req : pc'[s] = "commit" => <<EventOf(s)', s>> \in Kept'
  BY <1>1, <1>2 DEF FilesKept, Writing
<1>5. \A s \in Req : Writing(s)' => events'[EventOf(s)'] = NULL
  BY <1>1 DEF FilesKept
<1>6. \A r, s \in Req : Writing(r)' /\ Writing(s)' /\ EventOf(r)' = EventOf(s)' => r = s
  BY <1>1 DEF FilesKept
<1>. QED
  BY <1>3, <1>4, <1>5, <1>6 DEF FilesKept

(* The event of a request that is stored in this step: nobody writes its   *)
(* file, unless the request does, which then has it or has lost it.        *)
LEMMA FilesStored ==
  ASSUME Typed, FilesKept, [Next]_vars, NEW r \in Req, Store(r), vault' = vault,
         EventOf(r) \in EventKey, events[EventOf(r)] = NULL, pc[r] # "idle",
         pc[r] = "commit" \/ (RowFree(r) /\ ~Writing(r) /\ body[r].kind # "minidump"),
         ~Writing(r)', \A s \in Req \ {r} : pc'[s] = pc[s]
  PROVE  FilesKept'
<1>1. \A s \in Req : Writing(s)' => s # r /\ Writing(s) /\ EventOf(s)' = EventOf(s)
  BY Steady DEF Writing
<1>2. Kept \subseteq Kept'
  BY LostKept DEF Kept
<1>3. \A s \in Req \ {r} : Writing(s) => EventOf(s) # EventOf(r)
  BY DEF Typed, Stage, Writing, RowFree, FilesKept
<1>4. /\ \A e \in EventKey : events'[e] = IF e = EventOf(r) THEN r ELSE events[e]
  BY DEF Typed, Rows, Store
<1>5. body[r].kind = "minidump" => <<EventOf(r), r>> \in Kept
  BY DEF FilesKept
<1>6. \A e \in EventKey, x \in Req : events'[e] = x =>
        pc'[x] # "idle" /\ (body'[x].kind = "minidump" => <<e, x>> \in Kept')
  BY <1>2, <1>4, <1>5, Steady DEF Stays, FilesKept
<1>7. \A s \in Req : pc'[s] = "commit" => <<EventOf(s)', s>> \in Kept'
  BY <1>1, <1>2 DEF FilesKept, Writing
<1>8. \A s \in Req : Writing(s)' => events'[EventOf(s)'] = NULL
  <2>1. \A s \in Req : Writing(s) => EventOf(s) \in EventKey
    BY EventTyped DEF Typed, Stage, Waiting, OfDump, DumpRead, HasEvent, Writing
  <2>. QED
    BY <1>1, <1>3, <1>4, <2>1 DEF FilesKept
<1>9. \A x, s \in Req : Writing(x)' /\ Writing(s)' /\ EventOf(x)' = EventOf(s)' => x = s
  BY <1>1 DEF FilesKept
<1>. QED
  BY <1>6, <1>7, <1>8, <1>9 DEF FilesKept

(* The event of a request that has one to store.                           *)
LEMMA Storable ==
  ASSUME Typed, NEW r \in Req, pc[r] \in {"ingest"} \cup DumpRead
  PROVE  EventOf(r) \in EventKey /\ body[r] \in Body
  BY EventTyped DEF Typed, Stage, Waiting, OfDump, DumpRead, HasEvent

(* An event that comes without a file.                                     *)
LEMMA IngestFiles ==
  ASSUME Typed, FilesKept, [Next]_vars, NEW r \in Req, IngestEvent(r) \/ IngestEventFails(r)
  PROVE  FilesKept'
<1>1. /\ pc[r] = "ingest" /\ vault' = vault /\ ~Writing(r) /\ body[r].kind # "minidump"
      /\ \A s \in Req \ {r} : pc'[s] = pc[s]
      /\ ~Writing(r)'
  BY DEF Typed, Requests, Stage, Writing, IngestEvent, IngestEventFails, Answer, Goto
<1>2. CASE events' = events
  BY <1>1, <1>2, FilesQuiet DEF Writing
<1>3. CASE RowFree(r) /\ events[EventOf(r)] = NULL /\ Store(r)
  BY <1>1, <1>3, FilesStored, Storable
<1>. QED
  BY <1>2, <1>3 DEF IngestEvent, IngestEventFails

(* The transaction of a minidump opens: nobody else writes its event.      *)
LEMMA AppendFiles ==
  ASSUME Typed, FilesKept, [Next]_vars, NEW r \in Req, AppendEvent(r)
  PROVE  FilesKept'
<1>1. /\ pc[r] = "append" /\ vault' = vault /\ events' = events /\ ~Writing(r) /\ RowFree(r)
      /\ \A s \in Req \ {r} : pc'[s] = pc[s]
  BY DEF Typed, Requests, Writing, AppendEvent, Answer, Goto, dbVars
<1>2. CASE \E x \in Status : Answer(r, x)
  BY <1>1, <1>2, FilesQuiet DEF Writing, Answer, Goto, Typed, Requests
<1>3. CASE events[EventOf(r)] = NULL /\ Goto(r, "upload")
  <2>1. pc'[r] = "upload"
    BY <1>3 DEF Goto, Typed, Requests
  <2>2. \A s \in Req : Writing(s)' => (s = r \/ Writing(s)) /\ EventOf(s)' = EventOf(s)
    BY <1>1, Steady DEF Writing
  <2>3. \A s \in Req \ {r} : Writing(s) => EventOf(s) # EventOf(r)
    BY <1>1 DEF Typed, Stage, Writing, RowFree
  <2>4. Kept \subseteq Kept'
    BY <1>1, LostKept DEF Kept
  <2>5. \A e \in EventKey, x \in Req : events'[e] = x =>
          pc'[x] # "idle" /\ (body'[x].kind = "minidump" => <<e, x>> \in Kept')
    BY <1>1, <2>4, Steady DEF Stays, FilesKept
  <2>6. \A s \in Req : pc'[s] = "commit" => <<EventOf(s)', s>> \in Kept'
    BY <1>1, <2>1, <2>2, <2>4 DEF FilesKept, Writing
  <2>7. \A s \in Req : Writing(s)' => events'[EventOf(s)'] = NULL
    BY <1>1, <1>3, <2>2 DEF FilesKept
  <2>8. \A x, s \in Req : Writing(x)' /\ Writing(s)' /\ EventOf(x)' = EventOf(s)' => x = s
    BY <2>2, <2>3 DEF FilesKept
  <2>. QED
    BY <2>5, <2>6, <2>7, <2>8 DEF FilesKept
<1>. QED
  BY <1>2, <1>3 DEF AppendEvent, Status

(* The file is written over what is there: nobody else writes for the      *)
(* event, and it is stored by nobody.                                      *)
LEMMA UploadFiles ==
  ASSUME Typed, FilesKept, [Next]_vars, NEW r \in Req, UploadMinidump(r)
  PROVE  FilesKept'
<1>1. /\ pc[r] = "upload" /\ pc'[r] = "commit" /\ events' = events
      /\ \A s \in Req \ {r} : pc'[s] = pc[s]
  BY DEF Typed, Requests, UploadMinidump, Goto, dbVars
<1>2. \A s \in Req : Writing(s)' => Writing(s) /\ EventOf(s)' = EventOf(s)
  BY <1>1, Steady DEF Writing
<1>3. \A e \in EventKey : vault'[e] = IF e = EventOf(r) THEN r ELSE vault[e]
  BY DEF Typed, Rows, UploadMinidump, PutArtifact
<1>4. EventOf(r) \in EventKey /\ EventOf(r)' = EventOf(r)
  BY <1>1, <1>2, Storable DEF DumpRead, Writing
<1>5. \A e \in EventKey, s \in Req : <<e, s>> \in Kept /\ e # EventOf(r) => <<e, s>> \in Kept'
  BY <1>3, LostKept DEF Kept
<1>6. <<EventOf(r), r>> \in Kept'
  BY <1>3, <1>4 DEF Kept
<1>7. events[EventOf(r)] = NULL /\ NULL \notin Req
  BY <1>1, GatewayAssumption DEF FilesKept, Writing
<1>8. \A e \in EventKey, x \in Req : events'[e] = x =>
        pc'[x] # "idle" /\ (body'[x].kind = "minidump" => <<e, x>> \in Kept')
  BY <1>1, <1>5, <1>7, Steady DEF Stays, FilesKept
<1>9. \A s \in Req : pc'[s] = "commit" => <<EventOf(s)', s>> \in Kept'
  <2>. SUFFICES ASSUME NEW s \in Req \ {r}, pc'[s] = "commit" PROVE <<EventOf(s)', s>> \in Kept'
    BY <1>4, <1>6
  <2>1. pc[s] = "commit" /\ Writing(s) /\ Writing(r) /\ EventOf(s)' = EventOf(s)
    BY <1>1, <1>2 DEF Writing
  <2>2. EventOf(s) \in EventKey /\ EventOf(s) # EventOf(r) /\ <<EventOf(s), s>> \in Kept
    BY <2>1, Storable DEF FilesKept, DumpRead
  <2>. QED
    BY <1>5, <2>1, <2>2
<1>10. \A s \in Req : Writing(s)' => events'[EventOf(s)'] = NULL
  BY <1>1, <1>2 DEF FilesKept
<1>11. \A x, s \in Req : Writing(x)' /\ Writing(s)' /\ EventOf(x)' = EventOf(s)' => x = s
  BY <1>2 DEF FilesKept
<1>. QED
  BY <1>8, <1>9, <1>10, <1>11 DEF FilesKept

(* The end of a transaction: the file of the event that is stored now is   *)
(* its own, or the failed request explains why it will be gone.            *)
LEMMA CommitFiles ==
  ASSUME Typed, FilesKept, [Next]_vars, NEW r \in Req, CommitMinidump(r) \/ RollbackMinidump(r)
  PROVE  FilesKept'
<1>1. /\ pc[r] \in DumpRead /\ vault' = vault /\ ~Writing(r)'
      /\ \A s \in Req \ {r} : pc'[s] = pc[s]
  BY DEF Typed, Requests, Writing, CommitMinidump, RollbackMinidump, Answer, Goto, DumpRead
<1>2. CASE events' = events
  BY <1>1, <1>2, FilesQuiet DEF Writing
<1>3. CASE pc[r] = "commit" /\ Store(r)
  <2>1. events[EventOf(r)] = NULL
    BY <1>3 DEF FilesKept, Writing
  <2>. QED
    BY <1>1, <1>3, <2>1, FilesStored, Storable
<1>. QED
  BY <1>2, <1>3 DEF CommitMinidump, RollbackMinidump

(* The removal of a file, by whoever wrote it, is owned up to.             *)
LEMMA CleanupFiles ==
  ASSUME Typed, FilesKept, [Next]_vars, NEW r \in Req, CleanupStoredMinidump(r)
  PROVE  FilesKept'
<1>1. /\ pc[r] = "cleanup" /\ events' = events /\ pc'[r] = "done" /\ answer'[r] = 503
      /\ uploaded'[r] /\ \A s \in Req \ {r} : pc'[s] = pc[s]
  BY DEF Typed, Requests, Stage, CleanupStoredMinidump, Answer, Goto, dbVars
<1>2. \A s \in Req : Writing(s)' => Writing(s) /\ EventOf(s)' = EventOf(s)
  BY <1>1, Steady DEF Writing
<1>3. EventOf(r) \in EventKey /\ EventOf(r) \in Lost'
  BY <1>1, Storable, Steady DEF Lost, DumpRead
<1>4. \A e \in EventKey : vault'[e] = vault[e] \/ (e = EventOf(r) /\ vault'[e] = NULL)
  BY DEF Typed, Rows, CleanupStoredMinidump
<1>5. Kept \subseteq Kept'
  BY <1>3, <1>4, LostKept DEF Kept
<1>6. \A e \in EventKey, x \in Req : events'[e] = x =>
        pc'[x] # "idle" /\ (body'[x].kind = "minidump" => <<e, x>> \in Kept')
  BY <1>1, <1>5, Steady DEF Stays, FilesKept
<1>7. \A s \in Req : pc'[s] = "commit" => <<EventOf(s)', s>> \in Kept'
  BY <1>1, <1>2, <1>5 DEF FilesKept, Writing
<1>8. \A s \in Req : Writing(s)' => events'[EventOf(s)'] = NULL
  BY <1>1, <1>2 DEF FilesKept
<1>9. \A x, s \in Req : Writing(x)' /\ Writing(s)' /\ EventOf(x)' = EventOf(s)' => x = s
  BY <1>2 DEF FilesKept
<1>. QED
  BY <1>6, <1>7, <1>8, <1>9 DEF FilesKept

(* What is kept of the files holds at first, and in every step.            *)
LEMMA FilesInit == Init => FilesKept
<1>. SUFFICES ASSUME Init PROVE FilesKept
  OBVIOUS
<1>1. \A r \in Req : ~Writing(r) /\ pc[r] # "commit"
  BY DEF Init, Writing
<1>2. \A e \in EventKey : events[e] \notin Req
  BY GatewayAssumption DEF Init
<1>. QED
  BY <1>1, <1>2 DEF FilesKept

(* Every step keeps the files of stored events explained.                  *)
LEMMA FilesNext == Typed /\ FilesKept /\ [Next]_vars => FilesKept'
<1>. SUFFICES ASSUME Typed, FilesKept, [Next]_vars PROVE FilesKept'
  OBVIOUS
<1>1. ASSUME NEW r \in Req, NEW b \in Body, Arrive(r, b) PROVE FilesKept'
  <2>1. pc'[r] \in {"done", "limit", "reports"} /\ \A s \in Req \ {r} : pc'[s] = pc[s]
    BY <1>1 DEF Arrive, Answer, Goto, Typed, Requests
  <2>. QED
    BY <1>1, <2>1, FilesQuiet DEF Arrive, dbVars, Writing
<1>2. ASSUME NEW r \in Req,
             \/ CheckRateLimit(r) \/ CheckRateLimitFails(r) \/ IngestLogs(r) \/ IngestLogsFails(r)
             \/ SubmitUserReport(r) \/ SubmitUserReportFails(r) \/ WriteReceipt(r)
             \/ ReadMinidump(r)
      PROVE  FilesKept'
  <2>1. events' = events /\ vault' = vault
    BY <1>2 DEF CheckRateLimit, CheckRateLimitFails, IngestLogs, IngestLogsFails, SubmitUserReport,
                SubmitUserReportFails, WriteReceipt, ReadMinidump, dbVars
  <2>2. ~Writing(r)' /\ \A s \in Req \ {r} : pc'[s] = pc[s]
    BY <1>2 DEF CheckRateLimit, Pass, AfterLimit, CheckRateLimitFails, IngestLogs, IngestLogsFails,
                SubmitUserReport, SubmitUserReportFails, WriteReceipt, ReadMinidump, Answer, Goto,
                Typed, Requests, Writing
  <2>. QED
    BY <2>1, <2>2, FilesQuiet DEF Writing
<1>3. CASE UNCHANGED vars \/ Tick \/ Crash \/ \E r \in Req : Leave(r)
  <2>1. events' = events /\ vault' = vault
    BY <1>3 DEF vars, dbVars, Tick, Crash, Leave
  <2>2. \A s \in Req : pc'[s] = pc[s] \/ pc'[s] = "dead"
    BY <1>3 DEF vars, reqVars, Tick, Crash, Leave
  <2>. QED
    BY <2>1, <2>2, FilesQuiet DEF Writing
<1>. QED
  BY <1>1, <1>2, <1>3, IngestFiles, AppendFiles, UploadFiles, CommitFiles, CleanupFiles
  DEF Next, Handle

(* The file kept for a stored minidump is the one its own request wrote.   *)
THEOREM GatewayFileOfItsEvent == Spec => []FileOfItsEvent
<1>1. Typed /\ FilesKept => FileOfItsEvent
  <2>. SUFFICES ASSUME Typed, FilesKept, NEW e \in EventKey, events[e] # NULL,
                       body[events[e]].kind = "minidump"
                PROVE  vault[e] \in {NULL, events[e]}
    BY DEF FileOfItsEvent
  <2>1. <<e, events[e]>> \in Kept
    BY DEF Typed, Rows, FilesKept
  <2>. QED
    BY <2>1 DEF Kept
<1>. QED
  BY <1>1, TypedInit, TypedNext, FilesInit, FilesNext, PTL DEF Spec

(* It is missing only after a request for the same event failed.           *)
THEOREM GatewayFileLoss == Spec => []FileLossExplained
<1>1. Typed /\ FilesKept => FileLossExplained
  <2>. SUFFICES ASSUME Typed, FilesKept, NEW e \in EventKey, events[e] # NULL,
                       body[events[e]].kind = "minidump", vault[e] = NULL
                PROVE  e \in Lost
    BY DEF FileLossExplained, Lost
  <2>1. events[e] \in Req /\ <<e, events[e]>> \in Kept
    BY DEF Typed, Rows, FilesKept
  <2>. QED
    BY <2>1, GatewayAssumption DEF Kept
<1>. QED
  BY <1>1, TypedInit, TypedNext, FilesInit, FilesNext, PTL DEF Spec

-----------------------------------------------------------------------------
(* Rate limits.  The requests a window has let through are counted in its  *)
(* row, and are no more than the limit.                                    *)

Limited == {k \in Key : Policy[k] # NULL}

AdmittedTo(k, b) ==
  {r \in Req : admitted[r] /\ KeyOf(body[r]) = k
                 /\ rateLimitBucket(received[r], Policy[k].window) = b}

Counted ==
  \A k \in Limited, b \in Bucket :
    /\ Cardinality(AdmittedTo(k, b)) <= CountOf(k, b)
    /\ Cardinality(AdmittedTo(k, b)) <= Policy[k].limit

(* A count that is not there is zero.                                      *)
LEMMA CountTyped ==
  ASSUME Typed, NEW k \in Key, NEW b
  PROVE  CountOf(k, b) \in Nat
  BY DEF Typed, Rows, Counts, CountOf

(* Counting a request adds one to its row, and changes no other.           *)
LEMMA Incremented ==
  ASSUME Typed, NEW k \in Key, NEW b, incrementRateLimitBucket(k, b)
  PROVE  /\ CountOf(k, b)' = CountOf(k, b) + 1
         /\ \A l \in Key : \A c : <<l, c>> # <<k, b>> => CountOf(l, c)' = CountOf(l, c)
  BY DEF Typed, Rows, Counts, CountOf, incrementRateLimitBucket

(* The limits are numbers.                                                 *)
LEMMA LimitTyped ==
  ASSUME NEW k \in Limited
  PROVE  k \in Key /\ Policy[k].window \in Nat \ {0} /\ Policy[k].limit \in Nat
  BY GatewayAssumption DEF Limited

(* A step that lets no request through.                                    *)
LEMMA NoneAdmitted ==
  ASSUME Typed, Counted, admitted' = admitted,
         \A r \in Req : admitted[r] => body'[r] = body[r] /\ received'[r] = received[r],
         counts' = counts \/ \E k \in Key : \E b : incrementRateLimitBucket(k, b)
  PROVE  Counted'
<1>1. ASSUME NEW k \in Limited, NEW b \in Bucket
      PROVE  /\ AdmittedTo(k, b)' = AdmittedTo(k, b)
             /\ CountOf(k, b) \in Nat /\ CountOf(k, b)' \in Nat /\ CountOf(k, b)' >= CountOf(k, b)
             /\ Cardinality(AdmittedTo(k, b)) \in Nat
  <2>1. AdmittedTo(k, b)' = AdmittedTo(k, b)
    BY DEF AdmittedTo
  <2>2. CountOf(k, b) \in Nat
    BY LimitTyped, CountTyped
  <2>3. CountOf(k, b)' \in {CountOf(k, b), CountOf(k, b) + 1}
    <3>1. CASE counts' = counts
      BY <3>1 DEF CountOf
    <3>2. ASSUME NEW l \in Key, NEW c, incrementRateLimitBucket(l, c)
          PROVE  CountOf(k, b)' \in {CountOf(k, b), CountOf(k, b) + 1}
      <4>1. CASE <<k, b>> = <<l, c>>
        BY <3>2, <4>1, Incremented
      <4>2. CASE <<k, b>> # <<l, c>>
        BY <3>2, <4>2, Incremented, LimitTyped
      <4>. QED
        BY <4>1, <4>2
    <3>. QED
      BY <3>1, <3>2
  <2>5. Cardinality(AdmittedTo(k, b)) \in Nat
    BY GatewayAssumption, FS_Subset, FS_CardinalityType DEF AdmittedTo
  <2>. QED
    BY <2>1, <2>2, <2>3, <2>5
<1>. QED
  BY <1>1 DEF Counted

(* A request that is let through is counted, and was not among those of    *)
(* any window before.                                                      *)
LEMMA OneAdmitted ==
  ASSUME Typed, Counted, NEW r \in Req, CheckRateLimit(r), Pass(r), KeyOf(body[r]) \in Limited
  PROVE  Counted'
<1>. DEFINE k == KeyOf(body[r])
            b == rateLimitBucket(received[r], Policy[k].window)
<1>1. /\ k \in Key /\ b \in Bucket /\ Policy[k] # NULL
      /\ Policy[k].limit \in Nat
  BY LimitTyped, BucketTyped DEF Typed, Requests, Limited
<1>2. ~admitted[r] /\ admitted' = [admitted EXCEPT ![r] = TRUE]
      /\ body' = body /\ received' = received
  BY DEF Typed, Stage, CheckRateLimit, Pass
<1>3. incrementRateLimitBucket(k, b) /\ CountOf(k, b) + 1 <= Policy[k].limit
  BY <1>1, GatewayAssumption DEF CheckRateLimit, Pass, Answer, Goto, Typed, Requests, AfterLimit
<1>. HIDE DEF b, k
<1>4. ASSUME NEW l \in Limited, NEW c \in Bucket
      PROVE  /\ Cardinality(AdmittedTo(l, c))' <= CountOf(l, c)'
             /\ Cardinality(AdmittedTo(l, c))' <= Policy[l].limit
  <2>1. /\ IsFiniteSet(AdmittedTo(l, c))
        /\ Cardinality(AdmittedTo(l, c)) \in Nat
        /\ CountOf(l, c) \in Nat
    BY GatewayAssumption, FS_Subset, FS_CardinalityType, CountTyped, LimitTyped DEF AdmittedTo
  <2>2. CASE <<l, c>> = <<k, b>>
    <3>1. AdmittedTo(l, c)' = AdmittedTo(l, c) \cup {r} /\ r \notin AdmittedTo(l, c)
      BY <1>2, <2>2 DEF AdmittedTo, k, b, Typed, Requests
    <3>2. Cardinality(AdmittedTo(l, c)') = Cardinality(AdmittedTo(l, c)) + 1
      BY <2>1, <3>1, FS_AddElement
    <3>3. CountOf(l, c)' = CountOf(l, c) + 1
      BY <1>1, <1>3, <2>2, Incremented
    <3>. QED
      BY <1>1, <1>3, <2>1, <2>2, <3>2, <3>3 DEF Counted
  <2>3. CASE <<l, c>> # <<k, b>>
    <3>1. AdmittedTo(l, c)' = AdmittedTo(l, c)
      BY <1>2, <2>3 DEF AdmittedTo, k, b, Typed, Requests
    <3>2. CountOf(l, c)' = CountOf(l, c)
      BY <1>1, <1>3, <2>3, Incremented, LimitTyped
    <3>. QED
      BY <3>1, <3>2 DEF Counted
  <2>. QED
    BY <2>2, <2>3
<1>. QED
  BY <1>4 DEF Counted

(* The counts hold at first, and in every step.                            *)
LEMMA CountedInit == Init => Counted
<1>. SUFFICES ASSUME Init, NEW k \in Limited, NEW b \in Bucket
              PROVE  /\ Cardinality(AdmittedTo(k, b)) <= CountOf(k, b)
                     /\ Cardinality(AdmittedTo(k, b)) <= Policy[k].limit
  BY DEF Counted
<1>1. AdmittedTo(k, b) = {}
  BY DEF Init, AdmittedTo
<1>2. CountOf(k, b) = 0
  BY LimitTyped DEF Init, CountOf
<1>. QED
  BY <1>1, <1>2, LimitTyped, FS_EmptySet

(* Every step keeps the counts of a window above what it has let through.  *)
LEMMA CountedNext == Typed /\ Counted /\ [Next]_vars => Counted'
<1>. SUFFICES ASSUME Typed, Counted, [Next]_vars PROVE Counted'
  OBVIOUS
<1>1. ASSUME NEW r \in Req, NEW b \in Body, Arrive(r, b) PROVE Counted'
  <2>1. ~admitted[r]
    BY <1>1 DEF Typed, Stage, Arrive
  <2>. QED
    BY <1>1, <2>1, NoneAdmitted DEF Arrive, dbVars
<1>2. ASSUME NEW r \in Req, CheckRateLimit(r) PROVE Counted'
  <2>1. KeyOf(body[r]) \in Key /\ body' = body /\ received' = received
    BY <1>2, Accepted DEF Typed, Stage, CheckRateLimit, Waiting
  <2>2. CASE UNCHANGED admitted
    BY <1>2, <2>1, <2>2, NoneAdmitted DEF CheckRateLimit
  <2>3. CASE Pass(r) /\ KeyOf(body[r]) \in Limited
    BY <1>2, <2>3, OneAdmitted
  <2>4. CASE Pass(r) /\ KeyOf(body[r]) \notin Limited
    <3>1. counts' = counts
      BY <1>2, <2>1, <2>4 DEF CheckRateLimit, Limited
    <3>2. \A k \in Limited, b \in Bucket :
            /\ AdmittedTo(k, b)' = AdmittedTo(k, b)
            /\ CountOf(k, b)' = CountOf(k, b)
      BY <2>1, <2>4, <3>1 DEF AdmittedTo, CountOf, Pass, Typed, Requests
    <3>. QED
      BY <3>2 DEF Counted
  <2>. QED
    BY <1>2, <2>2, <2>3, <2>4 DEF CheckRateLimit
<1>3. ASSUME NEW r \in Req, CheckRateLimitFails(r) PROVE Counted'
  <2>1. KeyOf(body[r]) \in Key
    BY <1>3, Accepted DEF Typed, Stage, CheckRateLimitFails, Waiting
  <2>. QED
    BY <1>3, <2>1, NoneAdmitted DEF CheckRateLimitFails
<1>4. CASE counts' = counts /\ admitted' = admitted /\ body' = body /\ received' = received
  BY <1>4, NoneAdmitted
<1>5. ASSUME NEW r \in Req, Handle(r), ~CheckRateLimit(r), ~CheckRateLimitFails(r)
      PROVE  counts' = counts /\ admitted' = admitted /\ body' = body /\ received' = received
  BY <1>5 DEF Handle, IngestLogs, IngestLogsFails, IngestEvent, IngestEventFails,
     SubmitUserReport, SubmitUserReportFails, WriteReceipt, ReadMinidump, AppendEvent,
     UploadMinidump, CommitMinidump, RollbackMinidump, CleanupStoredMinidump, dbVars
<1>6. ASSUME UNCHANGED vars \/ Tick \/ Crash \/ \E r \in Req : Leave(r)
      PROVE  counts' = counts /\ admitted' = admitted /\ body' = body /\ received' = received
  BY <1>6 DEF vars, reqVars, dbVars, Tick, Crash, Leave
<1>. QED
  BY <1>1, <1>2, <1>3, <1>4, <1>5, <1>6 DEF Next

(* No window lets through more requests of a key than its limit.           *)
THEOREM GatewayRateLimit == Spec => []RateLimitHeld
<1>1. Counted => RateLimitHeld
  <2>. SUFFICES ASSUME Counted, NEW k \in Limited, NEW t \in 0 .. MaxTime
                PROVE  Cardinality(AdmittedTo(k, rateLimitBucket(t, Policy[k].window)))
                         <= Policy[k].limit
    BY DEF RateLimitHeld, AdmittedTo, Limited
  <2>1. rateLimitBucket(t, Policy[k].window) \in Bucket
    <3>1. t \in Nat
      BY GatewayAssumption
    <3>. QED
      BY <3>1, LimitTyped, BucketTyped
  <2>. QED
    BY <2>1 DEF Counted
<1>. QED
  BY <1>1, TypedInit, TypedNext, CountedInit, CountedNext, PTL DEF Spec

-----------------------------------------------------------------------------
(* Answers.  What a request in each stage has stored: nothing until its    *)
(* event or its logs are, then the reports it has come past.               *)

(* The rows of events, and of reports, that are there.                     *)
EventRows  == {e \in EventKey : events[e] # NULL}
ReportRows == {e \in EventKey : reports[e] # NULL}

Empty == {r \in Req : ~Stored(r)}

Whole ==
  {r \in Req :
    /\ HasEvent(body[r]) => EventOf(r) \in EventRows
    /\ logRows[r] = Len(LogsOf(body[r]))
    /\ \A i \in DOMAIN ReportsOf(body[r]) :
         <<ProjectOf(body[r]), ReportsOf(body[r])[i].event>> \in ReportRows}

Submitted(r) == Len(ReportsOf(body[r])) - Len(todo[r])

Ongoing ==
  {r \in Req :
    /\ HasEvent(body[r]) => EventOf(r) \in EventRows
    /\ Submitted(r) >= 0
    /\ \A i \in 1 .. Len(todo[r]) : todo[r][i] = ReportsOf(body[r])[Submitted(r) + i]
    /\ \A i \in 1 .. Submitted(r) :
         <<ProjectOf(body[r]), ReportsOf(body[r])[i].event>> \in ReportRows}

NothingYet == {"idle", "limit", "read", "logs", "ingest", "append", "upload", "commit"}

Told ==
  {r \in Req :
    /\ pc[r] \in NothingYet => r \in Empty
    /\ pc[r] \in Waiting \cup {"idle"} => logRows[r] = 0
    /\ pc[r] \in {"limit", "ingest"} => todo[r] = ReportsOf(body[r])
    /\ pc[r] = "reports" => r \in Ongoing
    /\ uploaded[r] /\ pc[r] = "done" => answer[r] \in {200, 503}
    /\ answer[r] = 200 => r \in Whole
    /\ answer[r] \in {403, 413, 415, 429} => r \in Empty /\ logRows[r] = 0 /\ ~uploaded[r]
    /\ answer[r] = 400 => (r \in Empty \/ ReportsOf(body[r]) # <<>>) /\ logRows[r] = 0}

AnswersHeld == Req \subseteq Told

(* What is stored stays, and belongs to the request that takes the step.   *)
Grows(r) ==
  /\ events' \in [EventKey -> Req \cup {NULL}]
  /\ reports' \in [EventKey -> Req \cup {NULL}]
  /\ \A e \in EventKey : /\ events'[e] = events[e] \/ events'[e] = r
                         /\ reports'[e] = reports[e] \/ reports'[e] = r
  /\ \A s \in Req \ {r} : logRows'[s] = logRows[s] /\ todo'[s] = todo[s]

(* Every step of a request does.                                           *)
LEMMA HandleGrows ==
  ASSUME Typed, NEW r \in Req, Handle(r) \/ Leave(r) \/ \E b \in Body : Arrive(r, b)
  PROVE  Grows(r)
<1>1. CASE events' = events /\ reports' = reports /\ logRows' = logRows
  <2>1. \A s \in Req \ {r} : todo'[s] = todo[s]
    BY DEF Typed, Requests, Handle, CheckRateLimit, CheckRateLimitFails, IngestLogs,
           IngestLogsFails, IngestEvent, IngestEventFails, SubmitUserReport,
           SubmitUserReportFails, WriteReceipt, ReadMinidump, AppendEvent, UploadMinidump,
           CommitMinidump, RollbackMinidump, CleanupStoredMinidump, Leave, Arrive
  <2>. QED
    BY <1>1, <2>1 DEF Typed, Rows, Grows
<1>2. CASE Store(r) /\ reports' = reports /\ logRows' = logRows /\ todo' = todo
  BY <1>2 DEF Typed, Rows, Grows, Store
<1>3. CASE /\ Write(r) /\ events' = events /\ logRows' = logRows
           /\ (todo' = todo \/ SubmitUserReport(r))
  BY <1>3 DEF Typed, Rows, Requests, Grows, Write, SubmitUserReport
<1>4. CASE events' = events /\ reports' = reports /\ (IngestLogs(r) \/ IngestLogsFails(r))
  BY <1>4 DEF Typed, Rows, Grows, IngestLogs, IngestLogsFails
<1>. QED
  BY <1>1, <1>2, <1>3, <1>4
  DEF Handle, CheckRateLimit, CheckRateLimitFails, IngestLogs, IngestLogsFails, IngestEvent,
      IngestEventFails, SubmitUserReport, SubmitUserReportFails, WriteReceipt, ReadMinidump,
      AppendEvent, UploadMinidump, CommitMinidump, RollbackMinidump, CleanupStoredMinidump, Leave,
      Arrive, dbVars

(* A request that has what it needs keeps it.                              *)
LEMMA WholeKept ==
  ASSUME NEW r \in Req, NEW s \in Req, Grows(s), body'[r] = body[r]
  PROVE  /\ logRows'[r] = logRows[r] /\ r \in Whole => r \in Whole'
         /\ todo'[r] = todo[r] /\ r \in Ongoing => r \in Ongoing'
<1>1. NULL \notin Req
  BY GatewayAssumption
<1>2. EventOf(r)' = EventOf(r)
  BY EventKept
<1>3. EventRows \subseteq EventRows' /\ ReportRows \subseteq ReportRows'
  BY <1>1 DEF Grows, EventRows, ReportRows
<1>4. logRows'[r] = logRows[r] /\ r \in Whole => r \in Whole'
  BY <1>2, <1>3 DEF Whole
<1>5. todo'[r] = todo[r] /\ r \in Ongoing => r \in Ongoing'
  BY <1>2, <1>3 DEF Ongoing, Submitted
<1>. QED
  BY <1>4, <1>5

(* One that takes no step keeps its part of the invariant.                 *)
LEMMA ToldKept ==
  ASSUME Typed, NEW r \in Told, NEW s \in Req \ {r}, Grows(s), body'[r] = body[r],
         pc'[r] = pc[r], answer'[r] = answer[r], uploaded'[r] = uploaded[r]
  PROVE  r \in Told'
<1>1. r \in Req /\ s # r
  BY DEF Told
<1>2. logRows'[r] = logRows[r] /\ todo'[r] = todo[r]
  BY <1>1 DEF Grows
<1>3. r \in Empty => r \in Empty'
  BY <1>1 DEF Empty, Stored, Grows
<1>4. (r \in Whole => r \in Whole') /\ (r \in Ongoing => r \in Ongoing')
  BY <1>1, <1>2, WholeKept
<1>. QED
  BY <1>1, <1>2, <1>3, <1>4 DEF Told

(* It touches nothing of the others.                                       *)
LEMMA HandleOnly ==
  ASSUME Typed, NEW r \in Req, Handle(r) \/ Leave(r) \/ \E b \in Body : Arrive(r, b)
  PROVE  Only(r)
  BY DEF Only, Typed, Requests, Handle, Answer, Goto, CheckRateLimit, Pass, AfterLimit,
         CheckRateLimitFails, IngestLogs, IngestLogsFails, IngestEvent, IngestEventFails,
         SubmitUserReport, SubmitUserReportFails, WriteReceipt, ReadMinidump, AppendEvent,
         UploadMinidump, CommitMinidump, RollbackMinidump, CleanupStoredMinidump, Unlock, Leave,
         Arrive

(* It is left to show what a step says of the request that takes it.       *)
LEMMA Telling ==
  ASSUME Typed, AnswersHeld, NEW r \in Req, r \in Told',
         Handle(r) \/ Leave(r) \/ \E b \in Body : Arrive(r, b)
  PROVE  AnswersHeld'
<1>1. Grows(r) /\ Only(r)
  BY HandleGrows, HandleOnly
<1>2. \A s \in Req \ {r} : s \in Told'
  BY <1>1, ToldKept DEF Only, AnswersHeld
<1>. QED
  BY <1>2 DEF AnswersHeld

(* A request that is answered.                                             *)
LEMMA ToldDone ==
  ASSUME Typed, NEW r \in Req, pc[r] # "idle", NEW x \in Status, Answer(r, x),
         uploaded'[r] => x \in {200, 503},
         x = 200 => r \in Whole',
         x \in {403, 413, 415, 429} => r \in Empty' /\ logRows'[r] = 0,
         x = 400 => (r \in Empty' \/ ReportsOf(body'[r]) # <<>>) /\ logRows'[r] = 0
  PROVE  r \in Told'
<1>1. pc'[r] = "done" /\ answer'[r] = x
  BY Answering
<1>. QED
  BY <1>1 DEF Told, NothingYet, Waiting

(* One that goes to its reports, with all of them left.                    *)
LEMMA ToldReports ==
  ASSUME Typed, NEW r \in Req, pc'[r] = "reports", answer'[r] = NULL, logRows'[r] = 0,
         body'[r] \in Body, Refusal(body'[r]) = NULL, todo'[r] = ReportsOf(body'[r]),
         HasEvent(body'[r]) => EventOf(r)' \in EventRows'
  PROVE  r \in Told'
<1>1. ReportsOf(body'[r]) \in Seq(UserReport)
  BY BodyRead
<1>2. Submitted(r)' = 0 /\ \A i \in 1 .. Len(todo'[r]) : 0 + i = i
  BY <1>1 DEF Submitted
<1>3. r \in Ongoing'
  BY <1>2 DEF Ongoing
<1>4. NULL \notin Status
  BY GatewayAssumption DEF Status
<1>. QED
  BY <1>3, <1>4 DEF Told, NothingYet, Status

(* One that goes on with nothing stored.                                   *)
LEMMA ToldNothing ==
  ASSUME Typed, NEW r \in Told, pc[r] \in NothingYet, pc'[r] \in NothingYet, answer' = answer,
         body'[r] = body[r], todo' = todo, logRows' = logRows, events' = events,
         reports' = reports, pc'[r] \in {"limit", "ingest"} => pc[r] \in {"limit", "ingest"}
  PROVE  r \in Told'
<1>1. r \in Req
  BY DEF Told
<1>2. r \in Empty /\ logRows[r] = 0
  BY DEF Told, NothingYet, Waiting
<1>3. r \in Empty'
  BY <1>2 DEF Empty, Stored
<1>4. answer'[r] = NULL
  BY <1>1 DEF Typed, Stage, NothingYet
<1>5. NULL \notin Status
  BY GatewayAssumption DEF Status
<1>. QED
  BY <1>1, <1>2, <1>3, <1>4, <1>5 DEF Told, NothingYet, Waiting, Status

(* What is known of a request in each stage.                               *)
LEMMA ToldFacts ==
  ASSUME Typed, NEW r \in Told
  PROVE  /\ r \in Req
         /\ pc[r] \in Waiting => /\ logRows[r] = 0 /\ answer[r] = NULL
                               /\ body[r] \in Body /\ Refusal(body[r]) = NULL
         /\ pc[r] \in Waiting \ {"cleanup", "reports"} => r \in Empty
         /\ pc[r] \in Waiting \ {"cleanup", "commit"} => ~uploaded[r]
         /\ pc[r] = "reports" => r \in Ongoing /\ LogsOf(body[r]) = <<>>
         /\ pc[r] = "ingest" => todo[r] = ReportsOf(body[r])
         /\ pc[r] = "logs" => LogsOf(body[r]) # <<>>
<1>1. r \in Req /\ Stage(r)
  BY DEF Told, Typed
<1>2. /\ pc[r] \in Waiting => logRows[r] = 0
      /\ pc[r] \in Waiting \ {"cleanup", "reports"} => r \in Empty
      /\ pc[r] = "reports" => r \in Ongoing
      /\ pc[r] = "ingest" => todo[r] = ReportsOf(body[r])
  BY DEF Told, NothingYet, Waiting
<1>3. /\ pc[r] \in Waiting => answer[r] = NULL /\ body[r] \in Body /\ Refusal(body[r]) = NULL
      /\ pc[r] \in Waiting \ {"cleanup", "commit"} => ~uploaded[r]
      /\ pc[r] = "reports" => LogsOf(body[r]) = <<>>
      /\ pc[r] = "logs" => LogsOf(body[r]) # <<>>
  BY <1>1 DEF Stage, Waiting
<1>. QED
  BY <1>1, <1>2, <1>3

(* A refused request has nothing stored; an accepted one, nothing yet.     *)
LEMMA ArriveTold ==
  ASSUME Typed, NEW r \in Told, NEW b \in Body, Arrive(r, b)
  PROVE  r \in Told'
<1>1. /\ r \in Req /\ pc[r] = "idle" /\ answer[r] = NULL /\ ~uploaded[r] /\ uploaded' = uploaded
      /\ body'[r] = b /\ r \in Empty /\ logRows[r] = 0
      /\ events' = events /\ reports' = reports /\ logRows' = logRows
  BY DEF Told, Typed, Requests, Stage, Arrive, NothingYet, dbVars
<1>2. r \in Empty'
  BY <1>1 DEF Empty, Stored
<1>3. NULL \notin Status
  BY GatewayAssumption DEF Status
<1>4. CASE pc'[r] = "done" /\ answer'[r] \in {400, 403, 413, 415}
  BY <1>1, <1>2, <1>4 DEF Told, NothingYet, Waiting
<1>5. CASE /\ Refusal(b) = NULL /\ answer' = answer
           /\ pc'[r] = IF HasEvent(b) \/ LogsOf(b) # <<>> THEN "limit" ELSE "reports"
           /\ todo' = [todo EXCEPT ![r] = ReportsOf(b)]
  <2>1. /\ pc'[r] = IF HasEvent(b) \/ LogsOf(b) # <<>> THEN "limit" ELSE "reports"
        /\ todo'[r] = ReportsOf(b) /\ answer'[r] = NULL
    BY <1>1, <1>5 DEF Typed, Requests
  <2>2. CASE pc'[r] = "limit"
    BY <1>1, <1>2, <1>3, <2>1, <2>2 DEF Told, NothingYet, Waiting, Status
  <2>3. CASE pc'[r] = "reports"
    BY <1>1, <1>5, <2>1, <2>3, ToldReports
  <2>. QED
    BY <2>1, <2>2, <2>3
<1>. QED
  BY <1>1, <1>4, <1>5, Arrived

(* A request over its limit has nothing stored.                            *)
LEMMA LimitTold ==
  ASSUME Typed, NEW r \in Told, CheckRateLimit(r) \/ CheckRateLimitFails(r)
  PROVE  r \in Told'
<1>1. /\ r \in Req /\ pc[r] = "limit" /\ ~uploaded[r] /\ uploaded' = uploaded
      /\ body' = body /\ r \in Empty /\ logRows[r] = 0 /\ todo' = todo
      /\ events' = events /\ reports' = reports /\ logRows' = logRows
  BY ToldFacts DEF CheckRateLimit, CheckRateLimitFails, Waiting
<1>2. r \in Empty'
  BY <1>1 DEF Empty, Stored
<1>3. CASE Pass(r)
  <2>1. pc'[r] \in {"read", "logs", "ingest"} /\ answer' = answer
    BY <1>1, <1>3, Going DEF Pass, AfterLimit, PC
  <2>. QED
    BY <1>1, <2>1, ToldNothing DEF NothingYet
<1>4. CASE Answer(r, 429) \/ Answer(r, 503)
  BY <1>1, <1>2, <1>4, ToldDone DEF Status
<1>. QED
  BY <1>3, <1>4 DEF CheckRateLimit, CheckRateLimitFails

(* Logs are stored together, and come without an event.                    *)
LEMMA LogsTold ==
  ASSUME Typed, NEW r \in Told, IngestLogs(r) \/ IngestLogsFails(r)
  PROVE  r \in Told'
<1>1. /\ r \in Req /\ pc[r] = "logs" /\ ~uploaded[r] /\ uploaded' = uploaded
      /\ body' = body /\ r \in Empty /\ logRows[r] = 0
      /\ events' = events /\ reports' = reports
      /\ body[r] \in Body /\ Refusal(body[r]) = NULL /\ LogsOf(body[r]) # <<>>
  BY ToldFacts DEF IngestLogs, IngestLogsFails, Waiting
<1>2. r \in Empty'
  BY <1>1 DEF Empty, Stored
<1>3. ~HasEvent(body[r]) /\ ReportsOf(body[r]) = <<>>
  BY <1>1, BodyRead
<1>4. CASE Answer(r, 200) /\ logRows' = [logRows EXCEPT ![r] = Len(LogsOf(body[r]))]
  <2>1. logRows'[r] = Len(LogsOf(body'[r]))
    BY <1>1, <1>4 DEF Typed, Rows
  <2>2. r \in Whole'
    BY <1>1, <1>3, <2>1 DEF Whole
  <2>. QED
    BY <1>1, <1>4, <2>2, ToldDone DEF Status
<1>5. CASE Answer(r, 429) /\ logRows' = logRows
  BY <1>1, <1>2, <1>5, ToldDone DEF Status
<1>6. CASE Answer(r, 503)
  BY <1>1, <1>6, ToldDone DEF Status
<1>. QED
  BY <1>4, <1>5, <1>6 DEF IngestLogs, IngestLogsFails

(* The event is there before the reports are come to.                      *)
LEMMA IngestTold ==
  ASSUME Typed, NEW r \in Told, IngestEvent(r) \/ IngestEventFails(r)
  PROVE  r \in Told'
<1>1. /\ r \in Req /\ pc[r] = "ingest" /\ ~uploaded[r] /\ uploaded' = uploaded
      /\ body' = body /\ r \in Empty /\ logRows[r] = 0 /\ todo' = todo
      /\ reports' = reports /\ logRows' = logRows /\ answer[r] = NULL
      /\ body[r] \in Body /\ Refusal(body[r]) = NULL /\ todo[r] = ReportsOf(body[r])
  BY ToldFacts DEF IngestEvent, IngestEventFails, Waiting
<1>2. CASE /\ Goto(r, "reports") /\ UNCHANGED answer
           /\ (Store(r) \/ (events[EventOf(r)] # NULL /\ events' = events))
  <2>1. EventOf(r) \in EventKey /\ EventOf(r)' = EventOf(r)
    BY <1>1, Storable, EventKept
  <2>2. events'[EventOf(r)] # NULL
    BY <1>1, <1>2, <2>1, GatewayAssumption DEF Store, Typed, Rows
  <2>3. EventOf(r)' \in EventRows'
    BY <2>1, <2>2 DEF EventRows
  <2>4. pc'[r] = "reports"
    BY <1>1, <1>2, Going DEF PC
  <2>. QED
    BY <1>1, <1>2, <2>3, <2>4, ToldReports
<1>3. CASE Answer(r, 429) /\ UNCHANGED events
  <2>1. r \in Empty'
    BY <1>1, <1>3 DEF Empty, Stored
  <2>. QED
    BY <1>1, <1>3, <2>1, ToldDone DEF Status
<1>4. CASE Answer(r, 503)
  BY <1>1, <1>4, ToldDone DEF Status
<1>. QED
  BY <1>2, <1>3, <1>4 DEF IngestEvent, IngestEventFails

(* A report that is stored is the next of the list.                        *)
LEMMA SubmitTold ==
  ASSUME Typed, NEW r \in Told, SubmitUserReport(r) \/ SubmitUserReportFails(r)
  PROVE  r \in Told'
<1>. DEFINE R == ReportsOf(body[r])
            q == todo[r]
<1>1. /\ r \in Req /\ pc[r] = "reports" /\ ~uploaded[r] /\ uploaded' = uploaded
      /\ body' = body /\ r \in Ongoing /\ logRows[r] = 0
      /\ events' = events /\ logRows' = logRows /\ answer[r] = NULL
      /\ body[r] \in Body /\ Refusal(body[r]) = NULL /\ q # <<>>
  BY ToldFacts DEF SubmitUserReport, SubmitUserReportFails, Waiting
<1>2. /\ R \in Seq(UserReport) /\ q \in Seq(UserReport) /\ Len(q) \in Nat \ {0}
      /\ Len(R) \in Nat /\ Len(q) <= Len(R)
  <2>1. R \in Seq(UserReport) /\ q \in Seq(UserReport)
    BY <1>1, BodyRead DEF Typed, Requests
  <2>2. Len(R) - Len(q) >= 0
    BY <1>1 DEF Ongoing, Submitted
  <2>. QED
    BY <1>1, <2>1, <2>2
<1>. DEFINE n == Len(R) - Len(q)
<1>3. n \in Nat /\ Submitted(r) = n
  BY <1>2 DEF Submitted
<1>4. /\ \A i \in 1 .. Len(q) : q[i] = R[n + i]
      /\ \A i \in 1 .. n : <<ProjectOf(body[r]), R[i].event>> \in ReportRows
      /\ HasEvent(body[r]) => EventOf(r) \in EventRows
  BY <1>1, <1>3 DEF Ongoing
<1>5. CASE Answer(r, 400)
  <2>1. R # <<>>
    BY <1>2
  <2>. QED
    BY <1>1, <1>5, <2>1, ToldDone DEF Status
<1>6. CASE /\ Write(r) /\ ReportKey(r) \in EventKey /\ UNCHANGED <<pc, answer>>
           /\ todo' = [todo EXCEPT ![r] = Tail(@)]
  <2>1. todo'[r] = Tail(q) /\ body'[r] = body[r]
    BY <1>1, <1>6 DEF Typed, Requests
  <2>2. ReportKey(r) = <<ProjectOf(body[r]), R[n + 1].event>>
    <3>1. Head(q) = q[1] /\ 1 \in 1 .. Len(q)
      BY <1>2
    <3>2. q[1] = R[n + 1]
      BY <1>4, <3>1
    <3>. QED
      BY <3>1, <3>2 DEF ReportKey
  <2>. HIDE DEF R, q, n
  <2>3. /\ Len(Tail(q)) = Len(q) - 1
        /\ \A i \in 1 .. Len(q) - 1 : Tail(q)[i] = q[i + 1]
    BY <1>2
  <2>4. Submitted(r)' = n + 1
    BY <1>2, <2>1, <2>3 DEF Submitted, R, n
  <2>5. ReportRows' = ReportRows \cup {ReportKey(r)}
    BY <1>1, <1>6, GatewayAssumption DEF ReportRows, Write, Typed, Rows
  <2>6. \A i \in 1 .. n + 1 : <<ProjectOf(body[r]), R[i].event>> \in ReportRows'
    BY <1>3, <1>4, <2>2, <2>5
  <2>7. \A i \in 1 .. Len(q) - 1 : Tail(q)[i] = R[n + 1 + i]
    <3>. SUFFICES ASSUME NEW i \in 1 .. Len(q) - 1 PROVE Tail(q)[i] = R[n + 1 + i]
      OBVIOUS
    <3>1. i + 1 \in 1 .. Len(q) /\ n + (i + 1) = n + 1 + i
      BY <1>2, <1>3
    <3>. QED
      BY <1>4, <2>3, <3>1
  <2>8. HasEvent(body[r]) => EventOf(r)' \in EventRows'
    BY <1>1, <1>4, EventKept DEF EventRows
  <2>9. r \in Ongoing'
    <3>1. ReportsOf(body'[r]) = R /\ Len(todo'[r]) = Len(q) - 1
      BY <2>1, <2>3 DEF R
    <3>. QED
      BY SMTT(30), <1>1, <1>3, <2>1, <2>4, <2>6, <2>7, <2>8, <3>1 DEF Ongoing
  <2>10. NULL \notin Status
    BY GatewayAssumption DEF Status
  <2>. QED
    BY <1>1, <1>6, <2>9, <2>10 DEF Told, NothingYet, Waiting, Status
<1>. QED
  BY <1>5, <1>6 DEF SubmitUserReport, SubmitUserReportFails

(* The last report was stored: everything is there.                        *)
LEMMA ReceiptTold ==
  ASSUME Typed, NEW r \in Told, WriteReceipt(r)
  PROVE  r \in Told'
<1>1. /\ r \in Req /\ pc[r] = "reports" /\ ~uploaded[r] /\ uploaded' = uploaded
      /\ body' = body /\ r \in Ongoing /\ logRows[r] = 0
      /\ events' = events /\ reports' = reports /\ logRows' = logRows
      /\ body[r] \in Body /\ Refusal(body[r]) = NULL /\ todo[r] = <<>>
      /\ LogsOf(body[r]) = <<>>
  BY ToldFacts DEF WriteReceipt, Waiting, dbVars
<1>2. ReportsOf(body[r]) \in Seq(UserReport)
  BY <1>1, BodyRead
<1>3. Submitted(r) = Len(ReportsOf(body[r]))
  BY <1>1, <1>2 DEF Submitted
<1>4. /\ HasEvent(body[r]) => EventOf(r) \in EventRows
      /\ \A i \in DOMAIN ReportsOf(body[r]) :
           <<ProjectOf(body[r]), ReportsOf(body[r])[i].event>> \in ReportRows
  BY <1>1, <1>2, <1>3 DEF Ongoing
<1>5. EventRows' = EventRows /\ ReportRows' = ReportRows /\ EventOf(r)' = EventOf(r)
  BY <1>1, EventKept DEF EventRows, ReportRows
<1>6. r \in Whole'
  BY <1>1, <1>4, <1>5 DEF Whole
<1>. QED
  BY <1>1, <1>6, ToldDone DEF WriteReceipt, Status

(* A minidump that cannot be read stores nothing.                          *)
LEMMA ReadTold ==
  ASSUME Typed, NEW r \in Told, ReadMinidump(r)
  PROVE  r \in Told'
<1>1. /\ r \in Req /\ pc[r] = "read" /\ ~uploaded[r] /\ uploaded' = uploaded
      /\ body' = body /\ r \in Empty /\ logRows[r] = 0 /\ todo' = todo
      /\ events' = events /\ reports' = reports /\ logRows' = logRows
  BY ToldFacts DEF ReadMinidump, Waiting, dbVars
<1>2. r \in Empty'
  BY <1>1 DEF Empty, Stored
<1>3. CASE Goto(r, "append") /\ UNCHANGED answer
  <2>1. pc'[r] = "append"
    BY <1>1, <1>3, Going DEF PC
  <2>. QED
    BY <1>1, <1>3, <2>1, ToldNothing DEF NothingYet
<1>4. CASE Answer(r, 413) \/ Answer(r, 400)
  BY <1>1, <1>2, <1>4, ToldDone DEF Status
<1>. QED
  BY <1>3, <1>4 DEF ReadMinidump

(* A minidump holds an event alone, and is whole once its event is there.  *)
LEMMA DumpWhole ==
  ASSUME Typed, NEW r \in Told, pc[r] \in DumpRead, body' = body, logRows' = logRows,
         EventOf(r) \in EventRows'
  PROVE  r \in Whole'
<1>1. body[r].kind = "minidump"
  BY ToldFacts DEF Typed, Stage, DumpRead, OfDump
<1>2. HasEvent(body[r]) /\ LogsOf(body[r]) = <<>> /\ ReportsOf(body[r]) = <<>>
  BY <1>1 DEF HasEvent, LogsOf, ReportsOf
<1>3. r \in Req /\ logRows'[r] = 0 /\ EventOf(r)' = EventOf(r)
  BY ToldFacts, EventKept DEF DumpRead, Waiting
<1>. QED
  BY <1>2, <1>3 DEF Whole

(* A minidump whose event is there needs nothing more.                     *)
LEMMA AppendTold ==
  ASSUME Typed, NEW r \in Told, AppendEvent(r)
  PROVE  r \in Told'
<1>1. /\ r \in Req /\ pc[r] = "append" /\ ~uploaded[r] /\ uploaded' = uploaded
      /\ body' = body /\ r \in Empty /\ logRows[r] = 0 /\ todo' = todo
      /\ events' = events /\ reports' = reports /\ logRows' = logRows
  BY ToldFacts DEF AppendEvent, Waiting, dbVars
<1>2. r \in Empty'
  BY <1>1 DEF Empty, Stored
<1>3. CASE Goto(r, "upload") /\ UNCHANGED answer
  <2>1. pc'[r] = "upload"
    BY <1>1, <1>3, Going DEF PC
  <2>. QED
    BY <1>1, <1>3, <2>1, ToldNothing DEF NothingYet
<1>4. CASE events[EventOf(r)] # NULL /\ Answer(r, 200)
  <2>1. EventOf(r) \in EventRows'
    BY <1>1, <1>4, Storable DEF EventRows, DumpRead
  <2>2. r \in Whole'
    BY <1>1, <2>1, DumpWhole DEF DumpRead
  <2>. QED
    BY <1>1, <1>4, <2>2, ToldDone DEF Status
<1>5. CASE Answer(r, 429)
  BY <1>1, <1>2, <1>5, ToldDone DEF Status
<1>. QED
  BY <1>3, <1>4, <1>5 DEF AppendEvent

(* A file without its event is nothing yet.                                *)
LEMMA UploadTold ==
  ASSUME Typed, NEW r \in Told, UploadMinidump(r)
  PROVE  r \in Told'
<1>1. /\ r \in Req /\ pc[r] = "upload" /\ body' = body /\ todo' = todo /\ answer' = answer
      /\ events' = events /\ reports' = reports /\ logRows' = logRows
  BY ToldFacts DEF UploadMinidump, dbVars
<1>2. pc'[r] = "commit"
  BY <1>1, Going DEF UploadMinidump, PC
<1>. QED
  BY <1>1, <1>2, ToldNothing DEF NothingYet

(* The event of a minidump is there once it is committed.                  *)
LEMMA CommitTold ==
  ASSUME Typed, NEW r \in Told,
         CommitMinidump(r) \/ RollbackMinidump(r) \/ CleanupStoredMinidump(r)
  PROVE  r \in Told'
<1>1. /\ r \in Req /\ pc[r] \in DumpRead /\ body' = body /\ logRows' = logRows
      /\ answer[r] = NULL /\ logRows[r] = 0
  BY ToldFacts
  DEF CommitMinidump, RollbackMinidump, CleanupStoredMinidump, DumpRead, Waiting, dbVars
<1>2. CASE CommitMinidump(r)
  <2>1. EventOf(r) \in EventRows'
    BY <1>1, <1>2, Storable, GatewayAssumption DEF CommitMinidump, Store, EventRows, Typed, Rows
  <2>2. r \in Whole'
    BY <1>1, <2>1, DumpWhole
  <2>. QED
    BY <1>1, <1>2, <2>2, ToldDone DEF CommitMinidump, Status, DumpRead
<1>3. CASE Answer(r, 503)
  BY <1>1, <1>3, ToldDone DEF Status, DumpRead
<1>4. CASE Goto(r, "cleanup") /\ UNCHANGED answer
  <2>1. pc'[r] = "cleanup"
    BY <1>1, <1>4, Going DEF PC
  <2>2. NULL \notin Status
    BY GatewayAssumption DEF Status
  <2>. QED
    BY <1>1, <1>4, <2>1, <2>2 DEF Told, NothingYet, Waiting, Status
<1>. QED
  BY <1>2, <1>3, <1>4 DEF RollbackMinidump, CleanupStoredMinidump

(* A step that leaves the rows and the requests, or ends them unanswered.  *)
LEMMA StoppedTold ==
  ASSUME Typed, NEW r \in Told, body' = body, todo' = todo, events' = events, reports' = reports,
         logRows' = logRows, uploaded' = uploaded, answer' = answer,
         pc'[r] = pc[r] \/ (pc[r] \notin {"idle", "done"} /\ pc'[r] = "dead")
  PROVE  r \in Told'
<1>1. r \in Req /\ EventOf(r)' = EventOf(r)
  BY EventKept DEF Told
<1>2. Empty' = Empty /\ EventRows' = EventRows /\ ReportRows' = ReportRows
  BY DEF Empty, Stored, EventRows, ReportRows
<1>3. (r \in Whole => r \in Whole') /\ (r \in Ongoing => r \in Ongoing')
  BY <1>1, <1>2 DEF Whole, Ongoing, Submitted
<1>4. CASE pc'[r] = pc[r]
  BY <1>1, <1>2, <1>3, <1>4 DEF Told
<1>5. CASE pc[r] \notin {"idle", "done"} /\ pc'[r] = "dead"
  <2>1. answer'[r] = NULL /\ NULL \notin Status
    BY ZenonT(30), <1>1, <1>5, GatewayAssumption DEF Typed, Stage, Status
  <2>. QED
    BY <1>1, <1>5, <2>1 DEF Told, NothingYet, Waiting, Status
<1>. QED
  BY <1>4, <1>5

(* The answers hold at first, and in every step.                           *)
LEMMA AnswersInit == Init => AnswersHeld
<1>. SUFFICES ASSUME Init, NEW r \in Req PROVE r \in Told
  BY DEF AnswersHeld
<1>1. pc[r] = "idle" /\ answer[r] = NULL /\ logRows[r] = 0
  BY DEF Init
<1>2. r \in Empty
  BY GatewayAssumption DEF Init, Empty, Stored
<1>3. NULL \notin Status
  BY GatewayAssumption DEF Status
<1>. QED
  BY <1>1, <1>2, <1>3 DEF Told, NothingYet, Waiting, Status

(* Every step keeps what a request has stored in its stage.                *)
LEMMA AnswersNext == Typed /\ AnswersHeld /\ [Next]_vars => AnswersHeld'
<1>. SUFFICES ASSUME Typed, AnswersHeld, [Next]_vars PROVE AnswersHeld'
  OBVIOUS
<1>1. ASSUME NEW r \in Req, Handle(r) \/ \E b \in Body : Arrive(r, b) PROVE AnswersHeld'
  <2>1. r \in Told
    BY DEF AnswersHeld
  <2>2. r \in Told'
    BY <1>1, <2>1, ArriveTold, LimitTold, LogsTold, IngestTold, SubmitTold, ReceiptTold, ReadTold,
       AppendTold, UploadTold, CommitTold DEF Handle
  <2>. QED
    BY <1>1, <2>2, Telling
<1>2. ASSUME UNCHANGED vars \/ Tick \/ Crash \/ \E r \in Req : Leave(r) PROVE AnswersHeld'
  <2>. SUFFICES ASSUME NEW r \in Req PROVE r \in Told'
    BY DEF AnswersHeld
  <2>1. r \in Told
    BY DEF AnswersHeld
  <2>2. /\ body' = body /\ todo' = todo /\ events' = events /\ reports' = reports
        /\ logRows' = logRows /\ uploaded' = uploaded /\ answer' = answer
        /\ pc'[r] = pc[r] \/ (pc[r] \notin {"idle", "done"} /\ pc'[r] = "dead")
    BY <1>2 DEF vars, dbVars, reqVars, Tick, Crash, Leave
  <2>. QED
    BY <2>1, <2>2, StoppedTold
<1>. QED
  BY <1>1, <1>2 DEF Next

(* What a client may conclude from the status it gets.                     *)
THEOREM GatewayAnswers == Spec => []AnswersTrue
<1>1. Typed /\ AnswersHeld => AnswersTrue
  <2>. SUFFICES ASSUME Typed, NEW r \in Req, r \in Told
                PROVE  /\ answer[r] = 200 => StoredAll(r)
                       /\ answer[r] \in {403, 413, 415, 429} =>
                            ~Stored(r) /\ logRows[r] = 0 /\ ~uploaded[r]
                       /\ answer[r] = 400 =>
                            (Stored(r) => ReportsOf(body[r]) # <<>>) /\ logRows[r] = 0
    BY DEF AnswersHeld, AnswersTrue
  <2>1. r \in Whole => StoredAll(r)
    BY DEF Whole, StoredAll, EventRows, ReportRows
  <2>. QED
    BY <2>1 DEF Told, Empty
<1>. QED
  BY <1>1, TypedInit, TypedNext, AnswersInit, AnswersNext, PTL DEF Spec

-----------------------------------------------------------------------------
(* What is read of envelopes, and the addresses of clients.                *)

(* An envelope is read as what it means, in whatever order its items come. *)
THEOREM GatewayReads == Spec => []EnvelopeRead
<1>1. Typed => EnvelopeRead
  <2>. SUFFICES ASSUME Typed, NEW r \in Req, body[r] # NULL, body[r].kind = "envelope"
                PROVE  LET env == body[r].data
                           s   == Parsed(body[r])
                       IN  /\ s.read <=> Readable(env)
                           /\ s.read =>
                                /\ s.hasEvent <=> OfType(env, EventItem) # {}
                                /\ s.logs # <<>> <=> OfType(env, LogItem) # {}
                                /\ Len(s.reports) = Cardinality(OfType(env, ReportItem))
    BY DEF EnvelopeRead
  <2>1. body[r] \in Body
    BY DEF Typed, Requests
  <2>. QED
    BY <2>1, RequestParsed
<1>. QED
  BY <1>1, TypedInit, TypedNext, PTL DEF Spec

(* An event that is stored is the one of the request that stored it.       *)
EventsKept ==
  \A e \in EventKey, r \in Req : events[e] = r =>
    pc[r] # "idle" /\ Refusal(body[r]) = NULL /\ HasEvent(body[r]) /\ EventOf(r) = e

(* A step stores an event for a request that has one to store.             *)
LEMMA Storer ==
  ASSUME Typed, [Next]_vars, NEW e \in EventKey, NEW r \in Req, events'[e] = r
  PROVE  events[e] = r \/ (EventOf(r) = e /\ pc[r] \in {"ingest", "commit"})
<1>1. ASSUME NEW s \in Req, Store(s), pc[s] \in {"ingest", "commit"}
      PROVE  events[e] = r \/ (EventOf(r) = e /\ pc[r] \in {"ingest", "commit"})
  <2>1. events'[e] = IF e = EventOf(s) THEN s ELSE events[e]
    BY <1>1 DEF Store, Typed, Rows
  <2>. QED
    BY <1>1, <2>1
<1>2. ASSUME NEW s \in Req, Handle(s)
      PROVE  events' = events \/ (Store(s) /\ pc[s] \in {"ingest", "commit"})
  BY <1>2 DEF Handle, CheckRateLimit, CheckRateLimitFails, IngestLogs, IngestLogsFails,
              IngestEvent, IngestEventFails, SubmitUserReport, SubmitUserReportFails, WriteReceipt,
              ReadMinidump, AppendEvent, UploadMinidump, CommitMinidump, RollbackMinidump,
              CleanupStoredMinidump, dbVars
<1>3. ASSUME UNCHANGED vars \/ Tick \/ Crash
             \/ \E s \in Req : Leave(s) \/ \E b \in Body : Arrive(s, b)
      PROVE  events' = events
  BY <1>3 DEF vars, dbVars, Tick, Crash, Leave, Arrive
<1>. QED
  BY <1>1, <1>2, <1>3 DEF Next

(* It stays so in every step.                                              *)
LEMMA EventsNext == Typed /\ EventsKept /\ [Next]_vars => EventsKept'
<1>. SUFFICES ASSUME Typed, EventsKept, [Next]_vars, NEW e \in EventKey, NEW r \in Req,
                     events'[e] = r
              PROVE  /\ pc'[r] # "idle" /\ Refusal(body'[r]) = NULL /\ HasEvent(body'[r])
                     /\ EventOf(r)' = e
  BY DEF EventsKept
<1>1. ASSUME EventOf(r) = e, pc[r] \in {"ingest", "commit"}
      PROVE  pc[r] # "idle" /\ Refusal(body[r]) = NULL /\ HasEvent(body[r]) /\ EventOf(r) = e
  <2>1. Stage(r)
    BY DEF Typed
  <2>2. Refusal(body[r]) = NULL
    BY <1>1, <2>1 DEF Stage, Waiting
  <2>3. HasEvent(body[r])
    BY <1>1, <2>1 DEF Stage, OfDump, HasEvent
  <2>. QED
    BY <1>1, <2>2, <2>3
<1>2. pc[r] # "idle" /\ Refusal(body[r]) = NULL /\ HasEvent(body[r]) /\ EventOf(r) = e
  BY <1>1, Storer DEF EventsKept
<1>3. pc'[r] # "idle" /\ body'[r] = body[r] /\ EventOf(r)' = EventOf(r)
  BY <1>2, Steady DEF Stays
<1>. QED
  BY <1>2, <1>3

(* Nothing is stored at first.                                             *)
LEMMA EventsInit == Init => EventsKept
  BY GatewayAssumption DEF Init, EventsKept

(* The tags of an event name an address only when the project keeps them,  *)
(* and then a public one of its payload.                                   *)
LEMMA TagsScrubbed ==
  ASSUME NEW scrub, NEW p
  PROVE  /\ eventTags(scrub, p) \cap {"address", "client_ip"} # {} => ~scrub
         /\ "client_ip" \in eventTags(scrub, p) =>
              "public" \in p.userIP \cup p.requestIP \cup p.addressTags
BY DEF eventTags, withoutClientIPTags, parseTags, clientIPTag, firstPublicClientIP,
       clientIPCandidates

(* The event of a request is made of one of its payloads.                  *)
LEMMA PayloadOf ==
  ASSUME NEW b \in Body, Refusal(b) = NULL, b.kind \in {"store", "envelope"}, HasEvent(b)
  PROVE  \E p \in PayloadsOf(b) : Parsed(b).event.tags = eventTags(ProjectOf(b) \in Scrub, p)
<1> DEFINE t == Parsed(b)
           scrub == ProjectOf(b) \in Scrub
<1>1. t.hasEvent
  BY DEF HasEvent
<1>2. CASE b.kind = "store"
  <2>1. t = parseStoreEvent(b)
    BY <1>2 DEF Parsed
  <2>2. EventRead("event", "", b.data)
    BY <1>1, <2>1 DEF parseStoreEvent, Refuse, Nothing
  <2>3. t.event = CanonicalEvent(ProjectOf(b), scrub, "event", "", b.data)
    BY <2>1, <2>2 DEF parseStoreEvent, Nothing
  <2> DEFINE none == ""
             type == "event"
  <2>4. t.event = CanonicalEvent(ProjectOf(b), scrub, type, none, b.data)
    BY <2>3
  <2>. HIDE DEF none, type, t, scrub
  <2>5. t.event.tags = eventTags(scrub, b.data)
    BY <2>4, CanonicalIs
  <2>6. b.data \in PayloadsOf(b)
    BY <1>2 DEF PayloadsOf
  <2>. QED
    BY <2>5, <2>6 DEF t, scrub
<1>3. CASE b.kind = "envelope"
  <2> DEFINE env == b.data
  <2>1. t.read
    <3>1. b.read \in {"ok", "encoding", "large", "gzip"}
      BY BodyAssumption
    <3>2. b.read = "ok"
      BY <1>3, <3>1, GatewayAssumption DEF Refusal, httpStatusForBodyError
    <3>3. Understood(b)
      BY <1>3, <3>2, GatewayAssumption DEF Refusal, KeyLookedUp
    <3>. QED
      BY <1>3, <3>3 DEF Understood
  <2>2. PICK i \in OfType(env, EventItem) :
          t.event = CanonicalEvent(ProjectOf(b), scrub, env.items[i].type, env.eventID,
                                   env.items[i].data)
    BY <1>1, <1>3, <2>1, RequestParsed
  <2>. HIDE DEF t, scrub
  <2>3. t.event.tags = eventTags(scrub, env.items[i].data)
    BY <2>2, CanonicalIs
  <2>4. env.items[i].data \in PayloadsOf(b)
    BY <1>3 DEF PayloadsOf
  <2>. QED
    BY <2>3, <2>4 DEF t, scrub
<1>. QED
  BY <1>2, <1>3

(* A project that scrubs addresses stores none of a client.                *)
THEOREM GatewayScrubs == Spec => []AddressesScrubbed
<1>1. Typed /\ EventsKept => AddressesScrubbed
  <2>. SUFFICES ASSUME Typed, EventsKept, NEW e \in EventKey, events[e] # NULL,
                       body[events[e]].kind \in {"store", "envelope"}
                PROVE  LET r == events[e]
                       IN  /\ ContentOf(r).tags \cap {"address", "client_ip"} # {}
                                => e[1] \notin Scrub
                           /\ "client_ip" \in ContentOf(r).tags
                                => \E p \in PayloadsOf(body[r]) :
                                     "public" \in p.userIP \cup p.requestIP \cup p.addressTags
    BY DEF AddressesScrubbed
  <2> DEFINE r == events[e]
             b == body[r]
  <2>1. r \in Req
    BY DEF Typed, Rows
  <2>2. pc[r] # "idle" /\ Refusal(b) = NULL /\ HasEvent(b) /\ EventOf(r) = e
    BY <2>1 DEF EventsKept
  <2>3. b \in Body
    BY <2>1, <2>2 DEF Typed, Stage
  <2>4. PICK p \in PayloadsOf(b) : Parsed(b).event.tags = eventTags(ProjectOf(b) \in Scrub, p)
    BY <2>2, <2>3, PayloadOf
  <2>5. ContentOf(r).tags = eventTags(ProjectOf(b) \in Scrub, p)
    BY <2>4 DEF ContentOf
  <2>6. e[1] = ProjectOf(b)
    <3>1. \A x : EventOf(x)[1] = ProjectOf(body[x])
      BY DEF EventOf
    <3>. QED
      BY <2>2, <3>1
  <2>. HIDE DEF r, b
  <2>7. /\ ContentOf(r).tags \cap {"address", "client_ip"} # {} => e[1] \notin Scrub
        /\ "client_ip" \in ContentOf(r).tags =>
             "public" \in p.userIP \cup p.requestIP \cup p.addressTags
    BY <2>5, <2>6, TagsScrubbed
  <2>. QED
    BY <2>7 DEF r, b
<1>. QED
  BY <1>1, TypedInit, TypedNext, EventsInit, EventsNext, PTL DEF Spec
=============================================================================
