---------------------------- MODULE AccessProofs ------------------------------
(***************************************************************************)
(* What module Access keeps, for any handlers, requests, installations and *)
(* bounds: its types and the stages of its handlers, and with them that a  *)
(* login state grants one session, that the audit log tells the truth of   *)
(* tokens, that identities stay linked, and that setups agree.             *)
(*                                                                         *)
(* Each of the four has an invariant of its own, which relates the rows to *)
(* what the handlers in a given stage have read or hold, and which every   *)
(* step preserves that keeps the types, whatever the other three do.       *)
(***************************************************************************)
EXTENDS Access, TLAPS, FiniteSetTheorems, SequenceTheorems

(* Texts; the provers do not know of a literal that it is a string.        *)
Text == STRING \cup {"operator@example.local", "change-me", "owner"}

Operator == [email : Text, password : Text, active : BOOLEAN, role : Text \X Text]

Session == [operator : Nat, state : Nat, live : BOOLEAN]

Token ==
  [name : {b.name : b \in Body}, scope : {"project_read", "project_admin"}, revoked : BOOLEAN]

PC ==
  {"idle", "check", "organization", "key", "commit", "password", "store", "logout", "session",
   "unknown", "provider", "state", "consume", "exchange", "userinfo", "lookup", "owner", "link",
   "grant", "create", "revoke", "resolve"}

AnswerText ==
  {"", "failed", "ok", "in", "out", "to issues", "forbidden", "shown", "to login", "to setup",
   "not found", "to provider", "bad gateway", "refused", "unauthorized", "unavailable"}

Status == {"open", "consumed", "expired"}

Handler ==
  [pc : PC, body : Body \cup {NULL}, operator : Nat, subject : Subject \cup {NULL},
   email : {Fold[e] : e \in Email} \cup {NULL}, made : Nat, key : KeyID \cup {NULL},
   answer : AnswerText]

(* The stages of a callback whose state was consumed.                      *)
Held == {"exchange", "userinfo", "lookup", "owner", "link", "grant"}

(* A handler that is busy has a request and no answer, and the stage it is *)
(* in belongs to the kind of the request.                                  *)
Staged(x) ==
  /\ x.pc # "idle" => x.body \in Body /\ x.answer = ""
  /\ x.pc \in {"check", "organization", "key", "commit"} => x.body.kind \in {"setup", "bootstrap"}
  /\ x.pc \in {"password", "store"} => x.body.kind \in {"setup", "login"}
  /\ x.pc = "session" => x.body.kind \in {"start", "page", "create", "revoke"}
  /\ x.pc = "provider" => x.body.kind \in {"start", "callback"}
  /\ x.pc = "commit" => x.key \in KeyID
  /\ x.pc = "userinfo" => x.subject \in Subject
  /\ x.pc \in Held \cup {"consume"} => x.body.state \in Nat

Handlers == h \in [Req -> Handler] /\ \A r \in Req : Staged(h[r])

Rows ==
  /\ operators \in Seq(Operator)
  /\ keys \subseteq KeyID
  /\ sessions \in Seq(Session)
  /\ states \in Seq(Status)
  /\ tokens \in Seq(Token)
  /\ accounts \in [Subject -> Email \cup {NULL}]
  /\ codes \subseteq Nat \X Subject

Typed == Rows /\ Handlers

(* The stages a request can begin in.                                      *)
LEMMA FirstSteps ==
  ASSUME NEW b \in Body
  PROVE  /\ FirstStep[b.kind] \in {"check", "organization", "password", "logout", "session",
                                   "provider", "resolve"}
         /\ FirstStep[b.kind] \in {"check", "organization"} => b.kind \in {"setup", "bootstrap"}
         /\ FirstStep[b.kind] = "password" => b.kind = "login"
         /\ FirstStep[b.kind] = "session" => b.kind \in {"start", "page", "create", "revoke"}
         /\ FirstStep[b.kind] = "provider" => b.kind = "callback"
  BY KindAssumption DEF FirstStep

(* Elements of sequences, and what replaces or joins them.                 *)
LEMMA SeqFacts ==
  ASSUME NEW S, NEW q \in Seq(S)
  PROVE  /\ Len(q) \in Nat
         /\ DOMAIN q = 1 .. Len(q)
         /\ \A i \in DOMAIN q : i \in Nat \ {0} /\ q[i] \in S
  OBVIOUS

(* Texts are strings, trimmed or replaced by a default.                    *)
LEMMA Texts ==
  ASSUME NEW b \in Body
  PROVE  /\ OperatorEmail(b) \in Text \ {""}
         /\ valueOr(b.password, "change-me") \in Text
         /\ Trim[b.email] \in Text
         /\ Trim[b.email] # "" => OperatorEmail(b) = Trim[b.email]
  BY AccessAssumption DEF OperatorEmail, valueOr, Text

(* What a bootstrap leaves of the operators: the one with its email, and   *)
(* the others with the emails they had.                                    *)
LEMMA Upserted ==
  ASSUME NEW b \in Body, operators \in Seq(Operator)
  PROVE  /\ upsertOperator(b) \in Seq(Operator)
         /\ DOMAIN operators \subseteq DOMAIN upsertOperator(b)
         /\ \A i \in DOMAIN operators : upsertOperator(b)[i].email = operators[i].email
         /\ \A i \in DOMAIN upsertOperator(b) \ DOMAIN operators :
              /\ upsertOperator(b)[i].email = OperatorEmail(b)
              /\ i = Len(operators) + 1
              /\ \A j \in DOMAIN operators : operators[j].email # OperatorEmail(b)
         /\ upsertOperator(b) # <<>>
<1>1. CASE \E i \in DOMAIN operators : operators[i].email = OperatorEmail(b)
  <2>. DEFINE e(i) == IF operators[i].email = OperatorEmail(b)
                        THEN [operators[i] EXCEPT !.role[2] = "owner"] ELSE operators[i]
  <2>1. upsertOperator(b) = [i \in 1 .. Len(operators) |-> e(i)]
    BY <1>1, SeqFacts DEF upsertOperator
  <2>2. \A i \in 1 .. Len(operators) : e(i) \in Operator /\ e(i).email = operators[i].email
    <3>1. SUFFICES ASSUME NEW i \in 1 .. Len(operators), operators[i] \in Operator
                   PROVE  e(i) \in Operator /\ e(i).email = operators[i].email
      BY SeqFacts
    <3>2. "owner" \in Text
      BY DEF Text
    <3>3. [operators[i].role EXCEPT ![2] = "owner"] \in Text \X Text
      BY <3>1, <3>2 DEF Operator
    <3>. QED
      BY <3>1, <3>3 DEF Operator
  <2>3. upsertOperator(b) \in Seq(Operator)
    <3>. HIDE DEF e
    <3>. QED
      BY <2>1, <2>2, IsASeq, SeqFacts
  <2>. QED
    BY <1>1, <2>1, <2>2, <2>3, SeqFacts
<1>2. CASE ~ \E i \in DOMAIN operators : operators[i].email = OperatorEmail(b)
  <2>. DEFINE o == [email |-> OperatorEmail(b), password |-> valueOr(b.password, "change-me"),
                    active |-> TRUE, role |-> <<"owner", "owner">>]
  <2>1. o \in Operator
    BY Texts DEF Operator, Text
  <2>2. o.email = OperatorEmail(b)
    OBVIOUS
  <2>3. upsertOperator(b) = Append(operators, o)
    BY <1>2 DEF upsertOperator
  <2>. HIDE DEF o
  <2>. QED
    BY <1>2, <2>1, <2>2, <2>3, SeqFacts
<1>. QED
  BY <1>1, <1>2

(* A session that ends keeps its operator and its state.                   *)
LEMMA EndedKeeps ==
  ASSUME NEW s, sessions \in Seq(Session)
  PROVE  /\ Ended(s) \in Seq(Session)
         /\ DOMAIN Ended(s) = DOMAIN sessions
         /\ \A t \in DOMAIN sessions : /\ Ended(s)[t].operator = sessions[t].operator
                                       /\ Ended(s)[t].state = sessions[t].state
<1>1. CASE s \in DOMAIN sessions
  <2>1. [sessions[s] EXCEPT !.live = FALSE] \in Session
    <3>1. sessions[s] \in Session
      BY <1>1, SeqFacts
    <3>. QED
      BY <3>1 DEF Session
  <2>2. s \in 1 .. Len(sessions)
    BY <1>1, SeqFacts
  <2>3. Ended(s) \in Seq(Session)
    BY <1>1, <2>1, <2>2, ExceptSeq DEF Ended
  <2>. QED
    BY <1>1, <2>3, SeqFacts DEF Ended, Session
<1>2. CASE s \notin DOMAIN sessions
  BY <1>2 DEF Ended
<1>. QED
  BY <1>1, <1>2

(* A handler that takes a step to a handler of its type and stage.         *)
LEMMA Becoming ==
  ASSUME Handlers, NEW r \in Req, NEW x \in Handler, Staged(x), Becomes(r, x)
  PROVE  Handlers'
  BY DEF Handlers, Becomes

(* One that answers drops its request.                                     *)
LEMMA Answering ==
  ASSUME Handlers, NEW r \in Req, NEW a \in AnswerText, Answer(r, a)
  PROVE  Handlers'
<1>. DEFINE x == [Idle EXCEPT !.answer = a]
<1>1. x \in Handler /\ Staged(x)
  BY DEF Handler, Idle, Staged, Held, PC, AnswerText
<1>. QED
  BY <1>1, Becoming DEF Answer

(* One that shows its answer keeps it.                                     *)
LEMMA Showing ==
  ASSUME Handlers, NEW r \in Req, NEW a \in AnswerText, NEW n \in Nat, Show(r, a, n)
  PROVE  Handlers'
<1>. DEFINE x == [h[r] EXCEPT !.pc = "idle", !.answer = a, !.made = n]
<1>1. "idle" \in PC
  BY DEF PC
<1>2. x \in Handler
  BY <1>1 DEF Handler, Handlers
<1>3. x.pc = "idle"
  BY DEF Handler, Handlers
<1>4. Staged(x)
  BY <1>3 DEF Staged, Held
<1>. QED
  BY <1>2, <1>4, Becoming DEF Show

(* One that goes on is busy, in a stage of its request.                    *)
LEMMA Going ==
  ASSUME Handlers, NEW r \in Req, NEW pc \in PC, h[r].pc # "idle",
         Staged([h[r] EXCEPT !.pc = pc]), Goto(r, pc)
  PROVE  Handlers'
<1>1. [h[r] EXCEPT !.pc = pc] \in Handler
  BY DEF Handler, Handlers
<1>. QED
  BY <1>1, Becoming DEF Goto

(* At first the rows are empty, or those of the installation, and no       *)
(* request is handled.                                                     *)
LEMMA TypedInit == Init => Typed
<1>. SUFFICES ASSUME Init PROVE Typed
  OBVIOUS
<1>1. PICK i \in Installed : operators = i.operators /\ sessions = i.sessions
                             /\ states = i.states /\ codes = i.codes
  BY DEF Init
<1>2. operators \in Seq(Operator)
  <2>1. [email : Email, password : STRING, active : BOOLEAN, role : Roles] \subseteq Operator
    BY AccessAssumption DEF Operator, Text
  <2>. QED
    BY <1>1, <2>1, AccessAssumption, SeqMonotonic
<1>3. sessions \in Seq(Session)
  <2>1. [operator : DOMAIN i.operators, state : {0}, live : {TRUE}] \subseteq Session
    <3>1. DOMAIN i.operators \subseteq Nat
      BY <1>1, <1>2, SeqFacts
    <3>2. {0} \subseteq Nat /\ {TRUE} \subseteq BOOLEAN
      OBVIOUS
    <3>. QED
      BY <3>1, <3>2 DEF Session
  <2>. QED
    BY <1>1, <2>1, AccessAssumption, SeqMonotonic
<1>4. states \in Seq(Status)
  <2>1. {"open"} \subseteq Status
    BY DEF Status
  <2>. QED
    BY <1>1, <2>1, AccessAssumption, SeqMonotonic
<1>5. codes \subseteq Nat \X Subject
  <2>1. codes \subseteq (DOMAIN states) \X Subject
    BY <1>1, AccessAssumption
  <2>2. DOMAIN states \subseteq Nat
    BY <1>4, SeqFacts
  <2>. QED
    BY <2>1, <2>2
<1>6. Rows
  <2>1. keys \subseteq KeyID
    BY DEF Init
  <2>2. accounts \in [Subject -> Email \cup {NULL}]
    BY AccessAssumption DEF Init
  <2>3. tokens \in Seq(Token)
    BY DEF Init
  <2>. QED
    BY <1>2, <1>3, <1>4, <1>5, <2>1, <2>2, <2>3 DEF Rows
<1>7. Handlers
  BY DEF Init, Handlers, Handler, Idle, Staged, Held, PC, AnswerText
<1>. QED
  BY <1>6, <1>7 DEF Typed

(* The fields a handler fills in.                                          *)
LEMMA Filling ==
  ASSUME Handlers, NEW r \in Req, NEW pc \in PC
  PROVE  /\ \A i \in Nat : [h[r] EXCEPT !.pc = pc, !.operator = i] \in Handler
         /\ \A k \in KeyID : [h[r] EXCEPT !.pc = pc, !.key = k] \in Handler
         /\ \A u \in Subject : [h[r] EXCEPT !.pc = pc, !.subject = u] \in Handler
         /\ \A e \in {Fold[d] : d \in Email} : [h[r] EXCEPT !.pc = pc, !.email = e] \in Handler
  BY DEF Handlers, Handler

(* A step of a request leaves its handler in a stage that fits what it     *)
(* has in memory.                                                          *)
LEMMA HandlersNext ==
  ASSUME Typed, NEW r \in Req, (\E b \in Body : Arrive(r, b)) \/ Statement(r) \/ Fails(r)
  PROVE  Handlers'
<1>. USE DEF Typed, PC, AnswerText
<1>1. CASE \E b \in Body : Arrive(r, b)
  <2>1. PICK b \in Body : Becomes(r, [Idle EXCEPT !.pc = FirstStep[b.kind], !.body = b])
    BY <1>1 DEF Arrive
  <2>. DEFINE x == [Idle EXCEPT !.pc = FirstStep[b.kind], !.body = b]
  <2>2. x \in Handler
    BY FirstSteps DEF Handler, Idle, PC, AnswerText
  <2>3. Staged(x)
    BY FirstSteps DEF Staged, Held, Idle
  <2>. QED
    BY <2>1, <2>2, <2>3, Becoming
<1>2. CASE IsBootstrapped(r)
  <2>1. Staged([h[r] EXCEPT !.pc = "organization"])
    BY <1>2 DEF Handlers, Handler, Staged, Held, IsBootstrapped
  <2>. QED
    BY <1>2, <2>1, Answering, Going DEF IsBootstrapped
<1>3. CASE upsertOrganization(r)
  <2>1. Staged([h[r] EXCEPT !.pc = "key"])
    BY <1>3 DEF Handlers, Handler, Staged, Held, upsertOrganization
  <2>. QED
    BY <1>3, <2>1, Answering, Going DEF upsertOrganization
<1>4. CASE ensureProjectKey(r)
  <2>1. PICK k \in KeyID : Becomes(r, [h[r] EXCEPT !.pc = "commit", !.key = k])
    BY <1>4 DEF ensureProjectKey, Rows
  <2>2. [h[r] EXCEPT !.pc = "commit", !.key = k] \in Handler
    BY Filling
  <2>3. Staged([h[r] EXCEPT !.pc = "commit", !.key = k])
    BY <1>4 DEF Handlers, Handler, Staged, Held, ensureProjectKey
  <2>. QED
    BY <2>1, <2>2, <2>3, Becoming
<1>5. CASE Bootstrap(r)
  <2>1. Staged([h[r] EXCEPT !.pc = "password"]) \/ h[r].body.kind # "setup"
    BY <1>5 DEF Handlers, Handler, Staged, Held, Bootstrap
  <2>. QED
    BY <1>5, <2>1, Answering, Going, Showing DEF Bootstrap
<1>6. CASE Login(r)
  <2>1. CASE \E i \in Nat : Becomes(r, [h[r] EXCEPT !.pc = "store", !.operator = i])
    <3>1. PICK i \in Nat : Becomes(r, [h[r] EXCEPT !.pc = "store", !.operator = i])
      BY <2>1
    <3>2. [h[r] EXCEPT !.pc = "store", !.operator = i] \in Handler
      BY Filling
    <3>3. Staged([h[r] EXCEPT !.pc = "store", !.operator = i])
      <4>1. h[r] \in Handler /\ Staged(h[r]) /\ h[r].pc = "password"
        BY <1>6 DEF Handlers, Login
      <4>. QED
        BY <4>1 DEF Handler, Staged, Held
    <3>. QED
      BY <3>1, <3>2, <3>3, Becoming
  <2>. QED
    BY <1>6, <2>1, Answering, SeqFacts DEF Login, Rows
<1>7. CASE storeSession(r)
  <2>1. Len(sessions) + 1 \in Nat
    BY SeqFacts DEF Rows
  <2>. QED
    BY <1>7, <2>1, Answering, Showing DEF storeSession, NewSession
<1>8. CASE DeleteSession(r)
  BY <1>8, Answering DEF DeleteSession
<1>9. CASE ResolveSession(r)
  <2>. DEFINE x(i) == [h[r] EXCEPT !.pc = h[r].body.kind, !.operator = i]
  <2>1. CASE \E i \in Nat : h[r].body.kind \in {"create", "revoke"} /\ Becomes(r, x(i))
    <3>1. PICK i \in Nat : h[r].body.kind \in {"create", "revoke"} /\ Becomes(r, x(i))
      BY <2>1
    <3>2. x(i) \in Handler
      BY <3>1, Filling
    <3>3. Staged(x(i))
      BY <1>9, <3>1 DEF Handlers, Handler, Staged, Held, ResolveSession
    <3>. QED
      BY <3>1, <3>2, <3>3, Becoming
  <2>2. SessionOf(h[r].body.session) \in Nat
    <3>1. \A s \in DOMAIN sessions : sessions[s] \in Session
      BY SeqFacts DEF Rows
    <3>. QED
      BY <3>1 DEF SessionOf, Session
  <2>3. h[r].body.kind \in {"start", "page", "create", "revoke"}
    BY <1>9 DEF Handlers, Staged, Held, ResolveSession
  <2>4. Staged([h[r] EXCEPT !.pc = "provider"]) \/ h[r].body.kind # "start"
    BY <1>9 DEF Handlers, Handler, Staged, Held, ResolveSession
  <2>5. Staged([h[r] EXCEPT !.pc = "unknown"])
    BY <1>9 DEF Handlers, Handler, Staged, Held, ResolveSession
  <2>. QED
    BY <1>9, <2>1, <2>2, <2>3, <2>4, <2>5, Answering, Going DEF ResolveSession
<1>10. CASE requireOperatorSession(r)
  BY <1>10, Answering DEF requireOperatorSession
<1>11. CASE oidcProviderFromRequest(r)
  <2>1. Staged([h[r] EXCEPT !.pc = "state"])
    BY <1>11 DEF Handlers, Handler, Staged, Held, oidcProviderFromRequest
  <2>2. Staged([h[r] EXCEPT !.pc = "consume"]) \/ h[r].body.state \notin DOMAIN states
    <3>1. h[r].body.state \in DOMAIN states => h[r].body.state \in Nat
      BY SeqFacts DEF Rows
    <3>. QED
      BY <1>11, <3>1 DEF Handlers, Handler, Staged, Held, oidcProviderFromRequest
  <2>. QED
    BY <1>11, <2>1, <2>2, Answering, Going DEF oidcProviderFromRequest
<1>12. CASE StoreOIDCLoginState(r)
  BY <1>12, Answering DEF StoreOIDCLoginState
<1>13. CASE ConsumeOIDCLoginState(r)
  <2>1. Staged([h[r] EXCEPT !.pc = "exchange"])
    BY <1>13 DEF Handlers, Handler, Staged, Held, ConsumeOIDCLoginState
  <2>. QED
    BY <1>13, <2>1, Answering, Going DEF ConsumeOIDCLoginState
<1>14. CASE exchangeOIDCToken(r)
  <2>1. CASE \E u \in Subject : Becomes(r, [h[r] EXCEPT !.pc = "userinfo", !.subject = u])
    <3>1. PICK u \in Subject : Becomes(r, [h[r] EXCEPT !.pc = "userinfo", !.subject = u])
      BY <2>1
    <3>2. [h[r] EXCEPT !.pc = "userinfo", !.subject = u] \in Handler
      BY Filling
    <3>3. Staged([h[r] EXCEPT !.pc = "userinfo", !.subject = u])
      BY <1>14 DEF Handlers, Handler, Staged, Held, exchangeOIDCToken
    <3>. QED
      BY <3>1, <3>2, <3>3, Becoming
  <2>. QED
    BY <1>14, <2>1, Answering, Going DEF exchangeOIDCToken, Rows
<1>15. CASE fetchOIDCUserInfo(r)
  <2>1. CASE \E e \in {Fold[d] : d \in Email} :
               Becomes(r, [h[r] EXCEPT !.pc = "lookup", !.email = e])
    <3>1. PICK e \in {Fold[d] : d \in Email} :
                 Becomes(r, [h[r] EXCEPT !.pc = "lookup", !.email = e])
      BY <2>1
    <3>2. [h[r] EXCEPT !.pc = "lookup", !.email = e] \in Handler
      BY Filling
    <3>3. Staged([h[r] EXCEPT !.pc = "lookup", !.email = e])
      BY <1>15 DEF Handlers, Handler, Staged, Held, fetchOIDCUserInfo
    <3>. QED
      BY <3>1, <3>2, <3>3, Becoming
  <2>. QED
    <3>1. accounts[h[r].subject] \in Email \cup {NULL}
      BY <1>15 DEF fetchOIDCUserInfo, Rows, Handlers, Staged, Held
    <3>. QED
      BY <1>15, <2>1, <3>1, Answering DEF fetchOIDCUserInfo
<1>16. CASE activeOperatorIDForEmail(r)
  <2>1. CASE \E i \in Nat : Becomes(r, [h[r] EXCEPT !.pc = "owner", !.operator = i])
    <3>1. PICK i \in Nat : Becomes(r, [h[r] EXCEPT !.pc = "owner", !.operator = i])
      BY <2>1
    <3>2. [h[r] EXCEPT !.pc = "owner", !.operator = i] \in Handler
      BY Filling
    <3>3. Staged([h[r] EXCEPT !.pc = "owner", !.operator = i])
      BY <1>16 DEF Handlers, Handler, Staged, Held, activeOperatorIDForEmail
    <3>. QED
      BY <3>1, <3>2, <3>3, Becoming
  <2>. QED
    BY <1>16, <2>1, Answering, SeqFacts DEF activeOperatorIDForEmail, Rows
<1>17. CASE ensureExternalIdentityOwner(r)
  <2>1. Staged([h[r] EXCEPT !.pc = "link"])
    BY <1>17 DEF Handlers, Handler, Staged, Held, ensureExternalIdentityOwner
  <2>. QED
    BY <1>17, <2>1, Answering, Going DEF ensureExternalIdentityOwner
<1>18. CASE upsertExternalIdentity(r)
  <2>1. Staged([h[r] EXCEPT !.pc = "grant"])
    BY <1>18 DEF Handlers, Handler, Staged, Held, upsertExternalIdentity
  <2>. QED
    BY <1>18, <2>1, Answering, Going DEF upsertExternalIdentity
<1>19. CASE LoginWithOIDCIdentity(r)
  <2>1. Len(sessions) + 1 \in Nat
    BY SeqFacts DEF Rows
  <2>. QED
    BY <1>19, <2>1, Answering, Showing DEF LoginWithOIDCIdentity, NewSession
<1>20. CASE CreateProjectToken(r)
  BY <1>20, Answering DEF CreateProjectToken
<1>21. CASE RevokeProjectToken(r)
  BY <1>21, Answering DEF RevokeProjectToken
<1>22. CASE ResolveProjectToken(r)
  BY <1>22, Answering DEF ResolveProjectToken
<1>23. CASE Fails(r)
  BY <1>23, Answering DEF Fails
<1>. QED
  BY <1>1, <1>2, <1>3, <1>4, <1>5, <1>6, <1>7, <1>8, <1>9, <1>10, <1>11, <1>12, <1>13,
     <1>14, <1>15, <1>16, <1>17, <1>18, <1>19, <1>20, <1>21, <1>22, <1>23 DEF Statement

(* A step of a request writes rows of their types.                         *)
LEMMA RowsNext ==
  ASSUME Typed, NEW r \in Req, (\E b \in Body : Arrive(r, b)) \/ Statement(r) \/ Fails(r)
  PROVE  Rows'
<1>. USE DEF Typed, Rows
<1>1. CASE UNCHANGED <<operators, keys, sessions, states, tokens, accounts, codes>>
  BY <1>1
<1>2. CASE Bootstrap(r)
  <2>1. h[r].body \in Body /\ h[r].key \in KeyID
    BY <1>2 DEF Bootstrap, Handlers, Staged, Held
  <2>. QED
    BY <1>2, <2>1, Upserted DEF Bootstrap, providerVars
<1>3. ASSUME NEW n, h[r].operator \in Nat, n \in Nat, NewSession(r, n)
      PROVE  sessions' \in Seq(Session)
  BY <1>3 DEF NewSession, Session
<1>4. h[r].operator \in Nat
  BY DEF Handlers, Handler
<1>5. CASE storeSession(r)
  BY <1>3, <1>4, <1>5 DEF storeSession, providerVars
<1>6. CASE LoginWithOIDCIdentity(r)
  BY <1>3, <1>4, <1>6 DEF LoginWithOIDCIdentity, Handlers, Staged, Held, providerVars
<1>7. CASE DeleteSession(r)
  BY <1>7, EndedKeeps DEF DeleteSession, providerVars
<1>8. CASE StoreOIDCLoginState(r)
  <2>1. "open" \in Status
    BY DEF Status
  <2>2. Append(states, "open") \in Seq(Status)
    BY <2>1
  <2>. QED
    BY <1>8, <2>2 DEF StoreOIDCLoginState, providerVars
<1>9. CASE ConsumeOIDCLoginState(r)
  <2>1. "consumed" \in Status
    BY DEF Status
  <2>2. \A s \in DOMAIN states : [states EXCEPT ![s] = "consumed"] \in Seq(Status)
    BY <2>1, SeqFacts, ExceptSeq
  <2>3. \A s : s \notin DOMAIN states => [states EXCEPT ![s] = "consumed"] = states
    BY SeqFacts
  <2>. QED
    BY <1>9, <2>2, <2>3 DEF ConsumeOIDCLoginState, providerVars
<1>10. CASE exchangeOIDCToken(r)
  BY <1>10 DEF exchangeOIDCToken, dbVars
<1>11. CASE CreateProjectToken(r)
  <2>1. h[r].body \in Body
    BY <1>11 DEF CreateProjectToken, Handlers, Staged
  <2>2. h[r].body.scope \in {"project_read", "project_admin"}
          => [name |-> h[r].body.name, scope |-> h[r].body.scope, revoked |-> FALSE] \in Token
    BY <2>1 DEF Token
  <2>3. \A t \in Token : Append(tokens, t) \in Seq(Token)
    OBVIOUS
  <2>. QED
    BY <1>11, <2>2, <2>3 DEF CreateProjectToken, providerVars
<1>12. CASE RevokeProjectToken(r)
  <2>1. ASSUME NEW t \in DOMAIN tokens
        PROVE  [tokens EXCEPT ![t].revoked = TRUE] \in Seq(Token)
    <3>1. tokens[t] \in Token /\ t \in 1 .. Len(tokens)
      BY SeqFacts
    <3>2. [tokens[t] EXCEPT !.revoked = TRUE] \in Token
      BY <3>1 DEF Token
    <3>. QED
      BY <3>1, <3>2, ExceptSeq
  <2>. QED
    BY <1>12, <2>1 DEF RevokeProjectToken, providerVars
<1>. QED
  BY <1>1, <1>2, <1>5, <1>6, <1>7, <1>8, <1>9, <1>10, <1>11, <1>12
     DEF Arrive, Statement, Fails, IsBootstrapped, upsertOrganization, ensureProjectKey, Login,
         ResolveSession, requireOperatorSession, oidcProviderFromRequest, fetchOIDCUserInfo,
         activeOperatorIDForEmail, ensureExternalIdentityOwner, upsertExternalIdentity,
         ResolveProjectToken, dbVars, providerVars

(* What comes from outside the handlers.                                   *)
LEMMA RowsOutside ==
  ASSUME Typed, UpsertOIDCProvider \/ Expire \/ Administer \/ Authorize \/ ChangeAccount
                \/ UNCHANGED vars
  PROVE  Rows' /\ UNCHANGED h
<1>. USE DEF Typed, Rows, Changes
<1>1. CASE UpsertOIDCProvider
  BY <1>1 DEF UpsertOIDCProvider, providerVars
<1>2. CASE Expire
  <2>1. ASSUME NEW s \in DOMAIN states
        PROVE  [states EXCEPT ![s] = "expired"] \in Seq(Status)
    <3>1. s \in 1 .. Len(states) /\ "expired" \in Status
      BY SeqFacts DEF Status
    <3>. QED
      BY <3>1, ExceptSeq
  <2>. QED
    BY <1>2, <2>1, EndedKeeps DEF Expire, providerVars
<1>3. CASE Administer
  <2>1. ASSUME NEW i \in DOMAIN operators, NEW o \in Operator
        PROVE  [operators EXCEPT ![i] = o] \in Seq(Operator)
    BY SeqFacts, ExceptSeq
  <2>2. ASSUME NEW i \in DOMAIN operators
        PROVE  /\ [operators EXCEPT ![i].active = ~@] \in Seq(Operator)
               /\ \A role \in Roles : [operators EXCEPT ![i].role = role] \in Seq(Operator)
    <3>1. operators[i] \in Operator
      BY SeqFacts
    <3>2. [operators[i] EXCEPT !.active = ~@] \in Operator
      BY <3>1 DEF Operator
    <3>3. \A role \in Roles : [operators[i] EXCEPT !.role = role] \in Operator
      BY <3>1, AccessAssumption DEF Operator, Text
    <3>. QED
      BY <2>1, <3>2, <3>3
  <2>. QED
    BY <1>3, <2>2 DEF Administer, providerVars
<1>4. CASE Authorize
  BY <1>4, SeqFacts DEF Authorize, dbVars
<1>5. CASE ChangeAccount
  BY <1>5 DEF ChangeAccount, dbVars
<1>6. CASE UNCHANGED vars
  BY <1>6 DEF vars, dbVars, providerVars
<1>. QED
  BY <1>1, <1>2, <1>3, <1>4, <1>5, <1>6

(* Every step keeps the types.                                             *)
LEMMA TypedNext == Typed /\ [Next]_vars => Typed'
<1>. SUFFICES ASSUME Typed, [Next]_vars PROVE Typed'
  OBVIOUS
<1>. USE DEF Typed
<1>1. CASE \E r \in Req : (\E b \in Body : Arrive(r, b)) \/ Statement(r) \/ Fails(r)
  BY <1>1, RowsNext, HandlersNext
<1>2. CASE UpsertOIDCProvider \/ Expire \/ Administer \/ Authorize \/ ChangeAccount
           \/ UNCHANGED vars
  <2>1. Rows' /\ UNCHANGED h
    BY <1>2, RowsOutside
  <2>. QED
    BY <2>1 DEF Handlers
<1>. QED
  BY <1>1, <1>2 DEF Next

(* Rows and handlers keep their types, and a busy handler is in a stage of *)
(* its request, whatever fails (the handlers of auth.go, oauth.go and      *)
(* tokens.go).                                                             *)
THEOREM TypeCorrect == Spec => []Typed
  BY TypedInit, TypedNext, PTL DEF Spec

-----------------------------------------------------------------------------
(* Where handlers go.                                                      *)

(* What each way to end a step does to its handler, and that it does       *)
(* nothing to the others.                                                  *)
LEMMA Moved ==
  ASSUME Typed, NEW r \in Req
  PROVE  /\ \A x : Becomes(r, x) => h'[r] = x /\ \A q \in Req \ {r} : h'[q] = h[q]
         /\ \A a : Answer(r, a) => /\ h'[r].pc = "idle" /\ h'[r].body = NULL /\ h'[r].answer = a
                                   /\ \A q \in Req \ {r} : h'[q] = h[q]
         /\ \A pc : Goto(r, pc) => /\ h'[r] = [h[r] EXCEPT !.pc = pc]
                                   /\ h'[r].pc = pc /\ h'[r].body = h[r].body
                                   /\ h'[r].answer = h[r].answer /\ h'[r].key = h[r].key
                                   /\ h'[r].subject = h[r].subject
                                   /\ h'[r].operator = h[r].operator
                                   /\ \A q \in Req \ {r} : h'[q] = h[q]
         /\ \A a, n : Show(r, a, n) => /\ h'[r].pc = "idle" /\ h'[r].body = h[r].body
                                       /\ h'[r].answer = a /\ h'[r].key = h[r].key
                                       /\ h'[r].made = n
                                       /\ \A q \in Req \ {r} : h'[q] = h[q]
  BY DEF Typed, Handlers, Handler, Becomes, Answer, Goto, Show, Idle

(* Who gets to a stage: the stages of a callback are gone through one      *)
(* after the other, those of a bootstrap as well, with the same request;   *)
(* only grants and bootstraps show an answer.                              *)
LEMMA Flow ==
  ASSUME Typed, NEW r \in Req, (\E b \in Body : Arrive(r, b)) \/ Statement(r) \/ Fails(r)
  PROVE  /\ \A q \in Req \ {r} : h'[q] = h[q]
         /\ h'[r].pc \in Held => /\ h'[r].body = h[r].body
                                 /\ h[r].pc \in Held \/ ConsumeOIDCLoginState(r)
         /\ h'[r].pc = "consume" => /\ h'[r].body.state \in DOMAIN states
                                    /\ h'[r].body.kind = "callback"
         /\ h'[r].pc = "grant" => upsertExternalIdentity(r)
         /\ h'[r].pc = "key" => upsertOrganization(r)
         /\ h'[r].pc = "commit" => ensureProjectKey(r)
         /\ h'[r].pc = "password" => Bootstrap(r) \/ h'[r].body.kind = "login"
         /\ h'[r].pc = "store" => Login(r)
         /\ h'[r].pc = "idle" /\ h'[r].body # NULL
              => Bootstrap(r) \/ storeSession(r) \/ LoginWithOIDCIdentity(r)
<1>1. CASE \E b \in Body : Arrive(r, b)
  <2>1. PICK b \in Body : Becomes(r, [Idle EXCEPT !.pc = FirstStep[b.kind], !.body = b])
    BY <1>1 DEF Arrive
  <2>. DEFINE x == [Idle EXCEPT !.pc = FirstStep[b.kind], !.body = b]
  <2>2. x.pc = FirstStep[b.kind]
    BY DEF Idle
  <2>3. h'[r] = x /\ \A q \in Req \ {r} : h'[q] = h[q]
    BY <2>1, Moved
  <2>. QED
    BY <2>2, <2>3, FirstSteps DEF Held
<1>2. CASE IsBootstrapped(r)
  <2>1. h'[r].pc \in {"idle", "organization"} 
        /\ h'[r].body = (IF h'[r].pc = "idle" THEN NULL ELSE h[r].body)
        /\ \A q \in Req \ {r} : h'[q] = h[q]
    <3>1. CASE Answer(r, "failed")
      BY <3>1, Moved
    <3>2. CASE Goto(r, "organization")
      <4>1. /\ h'[r].pc = "organization" /\ h'[r].body = h[r].body
            /\ \A q \in Req \ {r} : h'[q] = h[q]
        BY <3>2, Moved
      <4>. QED
        BY <4>1
    <3>. QED
      BY <1>2, <3>1, <3>2 DEF IsBootstrapped
  <2>. QED
    BY <1>2, <2>1 DEF Held
<1>3. CASE upsertOrganization(r)
  BY <1>3, Moved DEF upsertOrganization, Held
<1>4. CASE ensureProjectKey(r)
  <2>1. h'[r].pc \in {"commit"} 
        /\ h'[r].body = (IF h'[r].pc = "idle" THEN NULL ELSE h[r].body)
        /\ \A q \in Req \ {r} : h'[q] = h[q]
    <3>1. CASE \E k : Becomes(r, [h[r] EXCEPT !.pc = "commit", !.key = k])
      <4>1. PICK k : Becomes(r, [h[r] EXCEPT !.pc = "commit", !.key = k])
        BY <3>1
      <4>. QED
        BY <4>1 DEF Typed, Handlers, Handler, Becomes
    <3>. QED
      BY <1>4, <3>1 DEF ensureProjectKey
  <2>. QED
    BY <1>4, <2>1 DEF Held
<1>5. CASE Bootstrap(r)
  <2>1. h'[r].pc \in {"password", "idle"} /\ \A q \in Req \ {r} : h'[q] = h[q]
    <3>1. CASE Goto(r, "password")
      BY <3>1, Moved
    <3>2. CASE Show(r, "ok", 0)
      BY <3>2, Moved
    <3>3. CASE Answer(r, "failed")
      BY <3>3, Moved
    <3>. QED
      BY <1>5, <3>1, <3>2, <3>3 DEF Bootstrap
  <2>. QED
    BY <1>5, <2>1 DEF Held
<1>6. CASE Login(r)
  <2>1. h'[r].pc \in {"idle", "store"} 
        /\ h'[r].body = (IF h'[r].pc = "idle" THEN NULL ELSE h[r].body)
        /\ \A q \in Req \ {r} : h'[q] = h[q]
    <3>1. CASE Answer(r, "failed")
      BY <3>1, Moved
    <3>2. CASE \E i : Becomes(r, [h[r] EXCEPT !.pc = "store", !.operator = i])
      <4>1. PICK i : Becomes(r, [h[r] EXCEPT !.pc = "store", !.operator = i])
        BY <3>2
      <4>. QED
        BY <4>1 DEF Typed, Handlers, Handler, Becomes
    <3>. QED
      BY <1>6, <3>1, <3>2 DEF Login
  <2>. QED
    BY <1>6, <2>1 DEF Held
<1>7. CASE storeSession(r)
  BY <1>7, Moved DEF storeSession, Held, NewSession
<1>8. CASE DeleteSession(r)
  BY <1>8, Moved DEF DeleteSession, Held
<1>9. CASE ResolveSession(r)
  <2>1. CASE \E a : Answer(r, a)
    <3>1. h'[r].pc = "idle" /\ h'[r].body = NULL /\ \A q \in Req \ {r} : h'[q] = h[q]
      BY <2>1, Moved
    <3>. QED
      BY <3>1 DEF Held
  <2>2. CASE Goto(r, "provider") \/ Goto(r, "unknown")
    <3>1. h'[r].pc \in {"provider", "unknown"} /\ \A q \in Req \ {r} : h'[q] = h[q]
      BY <2>2, Moved
    <3>. QED
      BY <3>1 DEF Held
  <2>3. h[r].body.kind \in {"start", "page", "create", "revoke"}
    BY <1>9 DEF ResolveSession, Typed, Handlers, Staged
  <2>4. CASE h[r].body.kind = "start"
    BY <1>9, <2>1, <2>2, <2>4 DEF ResolveSession
  <2>5. CASE h[r].body.kind # "start" /\ SessionOf(h[r].body.session) = 0
    BY <1>9, <2>2, <2>5 DEF ResolveSession
  <2>6. CASE h[r].body.kind # "start" /\ SessionOf(h[r].body.session) # 0
    <3>1. CASE h[r].body.kind = "page"
      BY <1>9, <2>1, <2>6, <3>1 DEF ResolveSession
    <3>2. CASE h[r].body.kind # "page"
      <4>1. h[r].body.kind \in {"create", "revoke"}
        BY <2>3, <2>6, <3>2
      <4>2. \/ Answer(r, "forbidden")
            \/ Becomes(r, [h[r] EXCEPT !.pc = h[r].body.kind,
                                        !.operator = SessionOf(h[r].body.session)])
        BY <1>9, <2>6, <3>2 DEF ResolveSession
      <4>3. CASE Answer(r, "forbidden")
        BY <2>1, <4>3
      <4>4. CASE Becomes(r, [h[r] EXCEPT !.pc = h[r].body.kind,
                                         !.operator = SessionOf(h[r].body.session)])
        <5>1. h'[r].pc \in {"create", "revoke"} /\ \A q \in Req \ {r} : h'[q] = h[q]
          BY <4>1, <4>4 DEF Typed, Handlers, Handler, Becomes
        <5>. QED
          BY <5>1 DEF Held
      <4>. QED
        BY <4>2, <4>3, <4>4
    <3>. QED
      BY <3>1, <3>2
  <2>. QED
    BY <2>4, <2>5, <2>6
<1>10. CASE requireOperatorSession(r)
  BY <1>10, Moved DEF requireOperatorSession, Held
<1>11. CASE oidcProviderFromRequest(r)
  <2>1. states' = states
    BY <1>11 DEF oidcProviderFromRequest, dbVars
  <2>2. CASE \E a : Answer(r, a)
    <3>1. h'[r].pc = "idle" /\ h'[r].body = NULL /\ \A q \in Req \ {r} : h'[q] = h[q]
      BY <2>2, Moved
    <3>. QED
      BY <3>1 DEF Held
  <2>3. CASE /\ Goto(r, "consume") /\ h[r].body.kind = "callback"
             /\ h[r].body.state \in DOMAIN states
    <3>1. /\ h'[r].pc = "consume" /\ h'[r].body = h[r].body
          /\ \A q \in Req \ {r} : h'[q] = h[q]
      BY <2>3, Moved
    <3>. QED
      BY <2>1, <2>3, <3>1 DEF Held
  <2>4. h[r].body.kind \in {"start", "callback"}
    BY <1>11 DEF oidcProviderFromRequest, Typed, Handlers, Staged
  <2>5. CASE Goto(r, "state")
    <3>1. h'[r].pc = "state" /\ \A q \in Req \ {r} : h'[q] = h[q]
      BY <2>5, Moved
    <3>. QED
      BY <3>1 DEF Held
  <2>. QED
    BY <1>11, <2>2, <2>3, <2>4, <2>5 DEF oidcProviderFromRequest
<1>12. CASE StoreOIDCLoginState(r)
  BY <1>12, Moved DEF StoreOIDCLoginState, Held
<1>13. CASE ConsumeOIDCLoginState(r)
  <2>1. h'[r].pc \in {"exchange", "idle"} 
        /\ h'[r].body = (IF h'[r].pc = "idle" THEN NULL ELSE h[r].body)
        /\ \A q \in Req \ {r} : h'[q] = h[q]
    <3>1. CASE Goto(r, "exchange")
      <4>1. /\ h'[r].pc = "exchange" /\ h'[r].body = h[r].body
            /\ \A q \in Req \ {r} : h'[q] = h[q]
        BY <3>1, Moved
      <4>. QED
        BY <4>1
    <3>2. CASE Answer(r, "failed")
      BY <3>2, Moved
    <3>. QED
      BY <1>13, <3>1, <3>2 DEF ConsumeOIDCLoginState
  <2>. QED
    BY <1>13, <2>1 DEF Held
<1>14. CASE exchangeOIDCToken(r)
  <2>1. h'[r].pc \in {"idle", "userinfo"} 
        /\ h'[r].body = (IF h'[r].pc = "idle" THEN NULL ELSE h[r].body)
        /\ \A q \in Req \ {r} : h'[q] = h[q]
    <3>1. CASE Answer(r, "bad gateway")
      BY <3>1, Moved
    <3>2. CASE \E u : Becomes(r, [h[r] EXCEPT !.pc = "userinfo", !.subject = u])
      <4>1. PICK u : Becomes(r, [h[r] EXCEPT !.pc = "userinfo", !.subject = u])
        BY <3>2
      <4>. QED
        BY <4>1 DEF Typed, Handlers, Handler, Becomes
    <3>. QED
      BY <1>14, <3>1, <3>2 DEF exchangeOIDCToken
  <2>2. h[r].pc \in Held
    BY <1>14 DEF exchangeOIDCToken, Held
  <2>. QED
    BY <1>14, <2>1, <2>2 DEF Held
<1>15. CASE fetchOIDCUserInfo(r)
  <2>1. h'[r].pc \in {"idle", "lookup"} 
        /\ h'[r].body = (IF h'[r].pc = "idle" THEN NULL ELSE h[r].body)
        /\ \A q \in Req \ {r} : h'[q] = h[q]
    <3>1. CASE Answer(r, "failed")
      BY <3>1, Moved
    <3>2. CASE \E e : Becomes(r, [h[r] EXCEPT !.pc = "lookup", !.email = e])
      <4>1. PICK e : Becomes(r, [h[r] EXCEPT !.pc = "lookup", !.email = e])
        BY <3>2
      <4>. QED
        BY <4>1 DEF Typed, Handlers, Handler, Becomes
    <3>. QED
      BY <1>15, <3>1, <3>2 DEF fetchOIDCUserInfo
  <2>2. h[r].pc \in Held
    BY <1>15 DEF fetchOIDCUserInfo, Held
  <2>. QED
    BY <1>15, <2>1, <2>2 DEF Held
<1>16. CASE activeOperatorIDForEmail(r)
  <2>1. h'[r].pc \in {"idle", "owner"} 
        /\ h'[r].body = (IF h'[r].pc = "idle" THEN NULL ELSE h[r].body)
        /\ \A q \in Req \ {r} : h'[q] = h[q]
    <3>1. CASE Answer(r, "failed")
      BY <3>1, Moved
    <3>2. CASE \E i : Becomes(r, [h[r] EXCEPT !.pc = "owner", !.operator = i])
      <4>1. PICK i : Becomes(r, [h[r] EXCEPT !.pc = "owner", !.operator = i])
        BY <3>2
      <4>. QED
        BY <4>1 DEF Typed, Handlers, Handler, Becomes
    <3>. QED
      BY <1>16, <3>1, <3>2 DEF activeOperatorIDForEmail
  <2>2. h[r].pc \in Held
    BY <1>16 DEF activeOperatorIDForEmail, Held
  <2>. QED
    BY <1>16, <2>1, <2>2 DEF Held
<1>17. CASE ensureExternalIdentityOwner(r)
  <2>1. h'[r].pc \in {"idle", "link"} 
        /\ h'[r].body = (IF h'[r].pc = "idle" THEN NULL ELSE h[r].body)
        /\ \A q \in Req \ {r} : h'[q] = h[q]
    <3>1. CASE Answer(r, "failed")
      BY <3>1, Moved
    <3>2. CASE Goto(r, "link")
      <4>1. /\ h'[r].pc = "link" /\ h'[r].body = h[r].body
            /\ \A q \in Req \ {r} : h'[q] = h[q]
        BY <3>2, Moved
      <4>. QED
        BY <4>1
    <3>. QED
      BY <1>17, <3>1, <3>2 DEF ensureExternalIdentityOwner
  <2>2. h[r].pc \in Held
    BY <1>17 DEF ensureExternalIdentityOwner, Held
  <2>. QED
    BY <1>17, <2>1, <2>2 DEF Held
<1>18. CASE upsertExternalIdentity(r)
  <2>1. h'[r].pc \in {"idle", "grant"} 
        /\ h'[r].body = (IF h'[r].pc = "idle" THEN NULL ELSE h[r].body)
        /\ \A q \in Req \ {r} : h'[q] = h[q]
    <3>1. CASE Answer(r, "failed")
      BY <3>1, Moved
    <3>2. CASE Goto(r, "grant")
      <4>1. /\ h'[r].pc = "grant" /\ h'[r].body = h[r].body
            /\ \A q \in Req \ {r} : h'[q] = h[q]
        BY <3>2, Moved
      <4>. QED
        BY <4>1
    <3>. QED
      BY <1>18, <3>1, <3>2 DEF upsertExternalIdentity
  <2>2. h[r].pc \in Held
    BY <1>18 DEF upsertExternalIdentity, Held
  <2>. QED
    BY <1>18, <2>1, <2>2 DEF Held
<1>19. CASE LoginWithOIDCIdentity(r)
  BY <1>19, Moved DEF LoginWithOIDCIdentity, Held, NewSession
<1>20. CASE CreateProjectToken(r)
  BY <1>20, Moved DEF CreateProjectToken, Held
<1>21. CASE RevokeProjectToken(r)
  BY <1>21, Moved DEF RevokeProjectToken, Held
<1>22. CASE ResolveProjectToken(r)
  BY <1>22, Moved DEF ResolveProjectToken, Held
<1>23. CASE Fails(r)
  BY <1>23, Moved DEF Fails, Held
<1>. QED
  BY <1>1, <1>2, <1>3, <1>4, <1>5, <1>6, <1>7, <1>8, <1>9, <1>10, <1>11, <1>12, <1>13,
     <1>14, <1>15, <1>16, <1>17, <1>18, <1>19, <1>20, <1>21, <1>22, <1>23 DEF Statement

-----------------------------------------------------------------------------
(* States of logins.                                                       *)

(* A state that a session or a callback holds is consumed, and nobody else *)
(* holds it.                                                               *)
StatesHeld ==
  /\ StatesUsedOnce
  /\ \A s \in DOMAIN sessions :
       sessions[s].state # 0 => /\ sessions[s].state \in DOMAIN states
                                /\ states[sessions[s].state] = "consumed"
  /\ \A r \in Req :
       /\ h[r].pc = "consume" => h[r].body.state \in DOMAIN states
       /\ h[r].pc \in Held =>
            /\ h[r].body.state \in DOMAIN states
            /\ states[h[r].body.state] = "consumed"
            /\ \A s \in DOMAIN sessions : sessions[s].state # h[r].body.state
            /\ \A q \in Req \ {r} : h[q].pc \in Held => h[q].body.state # h[r].body.state

(* At first no login has been started.                                     *)
LEMMA StatesHeldInit == Init => StatesHeld
<1>. SUFFICES ASSUME Init PROVE StatesHeld
  OBVIOUS
<1>1. \A s \in DOMAIN sessions : sessions[s].state = 0
  <2>1. PICK i \in Installed : sessions = i.sessions
    BY DEF Init
  <2>. DEFINE S == [operator : DOMAIN i.operators, state : {0}, live : {TRUE}]
  <2>2. sessions \in Seq(S)
    BY <2>1, AccessAssumption
  <2>3. \A s \in DOMAIN sessions : sessions[s] \in S
    <3>. HIDE DEF S
    <3>. QED
      BY <2>2, SeqFacts
  <2>. QED
    BY <2>3
<1>2. \A r \in Req : h[r].pc = "idle"
  BY DEF Init, Idle
<1>. QED
  BY <1>1, <1>2 DEF StatesHeld, StatesUsedOnce, Held

(* What a step that makes no session and consumes no state leaves as it is.*)
LEMMA StatesFrame ==
  ASSUME Typed, Typed', StatesHeld, NEW r \in Req,
         (\E b \in Body : Arrive(r, b)) \/ Statement(r) \/ Fails(r),
         ~ConsumeOIDCLoginState(r),
         DOMAIN sessions' = DOMAIN sessions,
         \A s \in DOMAIN sessions : sessions'[s].state = sessions[s].state,
         \A s \in DOMAIN states : s \in DOMAIN states' /\ states'[s] = states[s]
  PROVE  StatesHeld'
<1>1. StatesUsedOnce'
  BY DEF StatesHeld, StatesUsedOnce
<1>2. \A q \in Req :
        /\ h'[q].pc = "consume" => h'[q].body.state \in DOMAIN states
        /\ h'[q].pc \in Held => h[q].pc \in Held /\ h'[q].body = h[q].body
  BY Flow DEF StatesHeld
<1>. QED
  BY <1>1, <1>2 DEF StatesHeld

(* A state is consumed by one update, which finds it open, so that no      *)
(* handler holds it yet.                                                   *)
LEMMA StatesHeldNext == Typed /\ Typed' /\ StatesHeld /\ [Next]_vars => StatesHeld'
<1>. SUFFICES ASSUME Typed, Typed', StatesHeld, [Next]_vars PROVE StatesHeld'
  OBVIOUS
<1>1. ASSUME NEW r \in Req, (\E b \in Body : Arrive(r, b)) \/ Statement(r) \/ Fails(r)
      PROVE  StatesHeld'
  <2>1. CASE UNCHANGED <<sessions, states>>
    <3>1. CASE ConsumeOIDCLoginState(r)
      <4>1. h'[r].pc = "idle" /\ \A q \in Req \ {r} : h'[q] = h[q]
        BY <1>1, <2>1, <3>1, Moved, SeqFacts DEF ConsumeOIDCLoginState, Typed, Rows, StatesHeld
      <4>. QED
        BY <2>1, <4>1 DEF StatesHeld, StatesUsedOnce, Held
    <3>. QED
      BY <1>1, <2>1, <3>1, StatesFrame
  <2>2. CASE ConsumeOIDCLoginState(r) /\ states' # states
    <3>. DEFINE t == h[r].body.state
    <3>1. /\ t \in DOMAIN states /\ states[t] = "open"
          /\ states' = [states EXCEPT ![t] = "consumed"] /\ sessions' = sessions
          /\ Goto(r, "exchange")
      BY <2>2 DEF ConsumeOIDCLoginState, StatesHeld
    <3>2. /\ h'[r].pc = "exchange" /\ h'[r].body = h[r].body
          /\ \A q \in Req \ {r} : h'[q] = h[q]
      BY <3>1, Moved
    <3>3. DOMAIN states' = DOMAIN states /\ states'[t] = "consumed"
          /\ \A s \in DOMAIN states : states[s] = "consumed" => states'[s] = "consumed"
      BY <3>1, SeqFacts DEF Typed, Rows
    <3>4. \A q \in Req \ {r} : h[q].pc \in Held => h[q].body.state # t
      BY <3>1 DEF StatesHeld
    <3>5. \A s \in DOMAIN sessions : sessions[s].state # t
      BY <3>1, SeqFacts DEF StatesHeld, Typed, Rows
    <3>6. StatesUsedOnce'
      BY <3>1 DEF StatesHeld, StatesUsedOnce
    <3>. QED
      BY <3>1, <3>2, <3>3, <3>4, <3>5, <3>6 DEF StatesHeld, Held
  <2>3. CASE storeSession(r)
    <3>1. /\ sessions' = Append(sessions, [operator |-> h[r].operator, state |-> 0, live |-> TRUE])
          /\ states' = states
      BY <2>3 DEF storeSession, NewSession
    <3>2. DOMAIN sessions' = DOMAIN sessions \cup {Len(sessions) + 1}
          /\ (\A s \in DOMAIN sessions : sessions'[s] = sessions[s])
          /\ sessions'[Len(sessions) + 1].state = 0
      BY <3>1 DEF Typed, Rows, Session
    <3>3. h'[r].pc = "idle" /\ \A q \in Req \ {r} : h'[q] = h[q]
      BY <2>3, Moved DEF storeSession, NewSession
    <3>4. StatesUsedOnce'
      BY <3>2 DEF StatesHeld, StatesUsedOnce
    <3>5. \A q \in Req : h'[q].pc \in Held \cup {"consume"} => q # r /\ h'[q] = h[q]
      BY <3>3 DEF Held
    <3>6. \A t \in DOMAIN states : t # 0
      BY SeqFacts DEF Typed, Rows
    <3>. QED
      BY <3>1, <3>2, <3>4, <3>5, <3>6 DEF StatesHeld
  <2>4. CASE LoginWithOIDCIdentity(r)
    <3>. DEFINE t == h[r].body.state
    <3>1. /\ sessions' = Append(sessions, [operator |-> h[r].operator, state |-> t, live |-> TRUE])
          /\ states' = states /\ h[r].pc \in Held
      BY <2>4 DEF LoginWithOIDCIdentity, NewSession, Held
    <3>2. DOMAIN sessions' = DOMAIN sessions \cup {Len(sessions) + 1}
          /\ (\A s \in DOMAIN sessions : sessions'[s] = sessions[s])
          /\ sessions'[Len(sessions) + 1].state = t
      BY <3>1 DEF Typed, Rows, Session
    <3>3. h'[r].pc = "idle" /\ \A q \in Req \ {r} : h'[q] = h[q]
      BY <2>4, Moved DEF LoginWithOIDCIdentity, NewSession
    <3>4. t \in DOMAIN states /\ states[t] = "consumed"
          /\ \A s \in DOMAIN sessions : sessions[s].state # t
      BY <3>1 DEF StatesHeld
    <3>5. StatesUsedOnce'
      BY <3>2, <3>4 DEF StatesHeld, StatesUsedOnce
    <3>6. \A q \in Req : h'[q].pc \in Held \cup {"consume"} => q # r /\ h'[q] = h[q]
      BY <3>3 DEF Held
    <3>7. \A q \in Req : h'[q].pc \in Held => h[q].body.state # t
      BY <3>1, <3>6 DEF StatesHeld
    <3>. QED
      BY <3>1, <3>2, <3>4, <3>5, <3>6, <3>7 DEF StatesHeld
  <2>5. CASE DeleteSession(r)
    <3>1. ~ConsumeOIDCLoginState(r) /\ states' = states
      BY <2>5 DEF DeleteSession, ConsumeOIDCLoginState
    <3>. QED
      BY <1>1, <2>5, <3>1, EndedKeeps, StatesFrame DEF DeleteSession, Typed, Rows
  <2>6. CASE StoreOIDCLoginState(r)
    <3>1. ~ConsumeOIDCLoginState(r) /\ sessions' = sessions /\ states' = Append(states, "open")
      BY <2>6 DEF StoreOIDCLoginState, ConsumeOIDCLoginState
    <3>2. \A s \in DOMAIN states : s \in DOMAIN states' /\ states'[s] = states[s]
      BY <3>1 DEF Typed, Rows
    <3>. QED
      BY <1>1, <3>1, <3>2, StatesFrame
  <2>. QED
    BY <1>1, <2>1, <2>2, <2>3, <2>4, <2>5, <2>6
       DEF Arrive, Statement, Fails, IsBootstrapped, upsertOrganization, ensureProjectKey,
           Bootstrap, Login, ResolveSession, requireOperatorSession, oidcProviderFromRequest,
           ConsumeOIDCLoginState, exchangeOIDCToken, fetchOIDCUserInfo, activeOperatorIDForEmail,
           ensureExternalIdentityOwner, upsertExternalIdentity, CreateProjectToken,
           RevokeProjectToken, ResolveProjectToken, dbVars
<1>2. CASE Expire
  <2>1. UNCHANGED h /\ DOMAIN sessions' = DOMAIN sessions
        /\ \A s \in DOMAIN sessions : sessions'[s].state = sessions[s].state
    BY <1>2, EndedKeeps DEF Expire, Changes, Typed, Rows
  <2>2. DOMAIN states' = DOMAIN states
        /\ \A s \in DOMAIN states : states[s] = "consumed" => states'[s] = "consumed"
    BY <1>2, SeqFacts DEF Expire, Typed, Rows
  <2>3. StatesUsedOnce'
    BY <2>1 DEF StatesHeld, StatesUsedOnce
  <2>. QED
    BY <2>1, <2>2, <2>3 DEF StatesHeld
<1>3. CASE UNCHANGED <<sessions, states, h>>
  BY <1>3 DEF StatesHeld, StatesUsedOnce
<1>. QED
  BY <1>1, <1>2, <1>3
     DEF Next, UpsertOIDCProvider, Administer, Authorize, ChangeAccount, Changes, vars, dbVars

(* A login that was started with the provider ends in one session at most, *)
(* however often and by whomever its callback is repeated                  *)
(* (ConsumeOIDCLoginState).                                                *)
THEOREM StatesAreUsedOnce == Spec => []StatesUsedOnce
<1>1. StatesHeld => StatesUsedOnce
  BY DEF StatesHeld
<1>. QED
  BY <1>1, TypedInit, TypedNext, StatesHeldInit, StatesHeldNext, PTL DEF Spec

-----------------------------------------------------------------------------
(* Links of identities.                                                    *)

(* A handler that is about to write a link holds the rows it found free.   *)
LinksHeld ==
  /\ \A u, v \in DOMAIN links : links[u] = links[v] => u = v
  /\ \A r \in Req :
       h[r].pc = "grant" =>
         /\ \/ h[r].subject \in DOMAIN links
            \/ \A u \in DOMAIN links : links[u] # h[r].operator
         /\ \A q \in Req \ {r} : h[q].pc = "grant" => /\ h[q].subject # h[r].subject
                                                      /\ h[q].operator # h[r].operator

(* At first no handler is about to link an account.                        *)
LEMMA LinksHeldInit == Init => LinksHeld
<1>. SUFFICES ASSUME Init PROVE LinksHeld
  OBVIOUS
<1>1. DOMAIN links = {}
  BY DEF Init
<1>2. \A r \in Req : h[r].pc = "idle"
  BY DEF Init, Idle
<1>. QED
  BY <1>1, <1>2 DEF LinksHeld

(* Two handlers cannot insert the same account or operator, and a link is  *)
(* not changed afterwards.                                                 *)
LEMMA LinksHeldNext ==
  Typed /\ LinksHeld /\ [Next]_vars
    => /\ LinksHeld'
       /\ \A u \in DOMAIN links : u \in DOMAIN links' /\ links'[u] = links[u]
<1>. SUFFICES ASSUME Typed, LinksHeld, [Next]_vars
              PROVE  /\ LinksHeld'
                     /\ \A u \in DOMAIN links : u \in DOMAIN links' /\ links'[u] = links[u]
  OBVIOUS
<1>1. ASSUME NEW r \in Req, (\E b \in Body : Arrive(r, b)) \/ Statement(r) \/ Fails(r)
      PROVE  /\ LinksHeld'
             /\ \A u \in DOMAIN links : u \in DOMAIN links' /\ links'[u] = links[u]
  <2>1. CASE upsertExternalIdentity(r)
    <3>1. links' = links
      BY <2>1 DEF upsertExternalIdentity, dbVars
    <3>2. \A q \in Req \ {r} : h'[q] = h[q]
      BY <1>1, Flow
    <3>3. CASE Answer(r, "failed")
      BY <3>1, <3>2, <3>3, Moved DEF LinksHeld
    <3>4. CASE Goto(r, "grant") /\ (\/ h[r].subject \in DOMAIN links
                                    \/ \A u \in DOMAIN links : links[u] # h[r].operator)
      <4>1. /\ h'[r].subject = h[r].subject /\ h'[r].operator = h[r].operator
        BY <3>4, Moved
      <4>2. \A q \in Req \ {r} : h[q].pc = "grant" => /\ h[q].subject # h[r].subject
                                                      /\ h[q].operator # h[r].operator
        BY <2>1 DEF upsertExternalIdentity, LinkLocked
      <4>. QED
        BY <3>1, <3>2, <3>4, <4>1, <4>2 DEF LinksHeld
    <3>. QED
      BY <2>1, <3>3, <3>4 DEF upsertExternalIdentity
  <2>2. CASE LoginWithOIDCIdentity(r)
    <3>. DEFINE u == h[r].subject
                o == h[r].operator
    <3>1. links' = Linked(u, o) /\ h[r].pc = "grant"
      BY <2>2 DEF LoginWithOIDCIdentity
    <3>2. h'[r].pc = "idle" /\ \A q \in Req \ {r} : h'[q] = h[q]
      BY <2>2, Moved DEF LoginWithOIDCIdentity, NewSession
    <3>3. CASE u \in DOMAIN links
      BY <3>1, <3>2, <3>3 DEF Linked, LinksHeld
    <3>4. CASE u \notin DOMAIN links
      <4>1. /\ DOMAIN links' = DOMAIN links \cup {u} /\ links'[u] = o
            /\ \A v \in DOMAIN links : links'[v] = links[v]
        BY <3>1, <3>4 DEF Linked, Put
      <4>2. \A v \in DOMAIN links : links[v] # o
        BY <3>1, <3>4 DEF LinksHeld
      <4>3. \A q \in Req : h'[q].pc = "grant"
              => q # r /\ h'[q] = h[q] /\ h[q].subject # u /\ h[q].operator # o
        BY <3>1, <3>2 DEF LinksHeld
      <4>. QED
        BY <4>1, <4>2, <4>3 DEF LinksHeld
    <3>. QED
      BY <3>3, <3>4
  <2>3. CASE links' = links /\ ~upsertExternalIdentity(r)
    <3>1. \A q \in Req : h'[q].pc = "grant" => h'[q] = h[q]
      BY <1>1, <2>3, Flow
    <3>. QED
      BY <2>3, <3>1 DEF LinksHeld
  <2>. QED
    BY <1>1, <2>1, <2>2, <2>3
       DEF Arrive, Statement, Fails, IsBootstrapped, upsertOrganization, ensureProjectKey,
           Bootstrap, Login, storeSession, DeleteSession, ResolveSession, requireOperatorSession,
           oidcProviderFromRequest, StoreOIDCLoginState, ConsumeOIDCLoginState,
           exchangeOIDCToken, fetchOIDCUserInfo, activeOperatorIDForEmail,
           ensureExternalIdentityOwner, CreateProjectToken, RevokeProjectToken,
           ResolveProjectToken, dbVars
<1>2. CASE UNCHANGED <<links, h>>
  BY <1>2 DEF LinksHeld
<1>. QED
  BY <1>1, <1>2
     DEF Next, UpsertOIDCProvider, Expire, Administer, Authorize, ChangeAccount, Changes, vars,
         dbVars

(* An account of the provider stays with the operator it was linked to,    *)
(* and an operator with the account, whichever logins run at once          *)
(* (upsertExternalIdentity).                                               *)
THEOREM IdentitiesAreKept == Spec => IdentityKept
<1>1. Typed /\ LinksHeld /\ [Next]_vars
        => [ /\ \A u \in DOMAIN links : u \in DOMAIN links' /\ links'[u] = links[u]
             /\ \A u, v \in DOMAIN links' : links'[u] = links'[v] => u = v ]_links
  BY LinksHeldNext DEF LinksHeld
<1>. QED
  BY <1>1, TypedInit, TypedNext, LinksHeldInit, LinksHeldNext, PTL DEF Spec, IdentityKept

-----------------------------------------------------------------------------
(* The audit log and the tokens.                                           *)

Made(t)    == IF t \in DOMAIN tokens THEN 1 ELSE 0
Revoked(t) == IF t \in DOMAIN tokens /\ tokens[t].revoked THEN 1 ELSE 0

NamesDiffer ==
  \A s, t \in DOMAIN tokens :
    tokens[s].name = tokens[t].name /\ ~tokens[s].revoked /\ ~tokens[t].revoked => s = t

(* What AuditTrue says, of every token there could be.                     *)
AuditHeld ==
  /\ \A t \in Nat : /\ Count("api_token_created", t) = Made(t)
                    /\ Count("api_token_revoked", t) = Revoked(t)
  /\ NamesDiffer

(* An event is counted, and the others are as they were.                   *)
LEMMA Counted ==
  ASSUME NEW kind, NEW n, audit' = Audited(audit, <<kind, n>>)
  PROVE  /\ Count(kind, n)' = Count(kind, n) + 1
         /\ \A k, t : <<k, t>> # <<kind, n>> => Count(k, t)' = Count(k, t)
<1>1. /\ DOMAIN audit' = DOMAIN audit \cup {<<kind, n>>}
      /\ <<kind, n>> \in DOMAIN audit => audit'[<<kind, n>>] = audit[<<kind, n>>] + 1
      /\ <<kind, n>> \notin DOMAIN audit => audit'[<<kind, n>>] = 1
      /\ \A e \in DOMAIN audit : e # <<kind, n>> => audit'[e] = audit[e]
  BY DEF Audited, Put
<1>2. Count(kind, n)' = Count(kind, n) + 1
  <2>1. 1 = 0 + 1
    OBVIOUS
  <2>. QED
    BY <1>1, <2>1 DEF Count
<1>3. ASSUME NEW k, NEW t, <<k, t>> # <<kind, n>>
      PROVE  Count(k, t)' = Count(k, t)
  <2>1. <<k, t>> \in DOMAIN audit' <=> <<k, t>> \in DOMAIN audit
    BY <1>1, <1>3
  <2>2. <<k, t>> \in DOMAIN audit => audit'[<<k, t>>] = audit[<<k, t>>]
    BY <1>1, <1>3
  <2>. QED
    BY <2>1, <2>2 DEF Count
<1>. QED
  BY <1>2, <1>3

(* At first no token and no row of the audit exists.                       *)
LEMMA AuditHeldInit == Init => AuditHeld
<1>. SUFFICES ASSUME Init PROVE AuditHeld
  OBVIOUS
<1>1. DOMAIN tokens = {} /\ DOMAIN audit = {}
  BY DEF Init
<1>. QED
  BY <1>1 DEF AuditHeld, NamesDiffer, Made, Revoked, Count

(* A token and the row about it are written together.                      *)
LEMMA AuditHeldNext == Typed /\ AuditHeld /\ [Next]_vars => AuditHeld'
<1>. SUFFICES ASSUME Typed, AuditHeld, [Next]_vars PROVE AuditHeld'
  OBVIOUS
<1>1. CASE UNCHANGED <<tokens, audit>>
  BY <1>1 DEF AuditHeld, NamesDiffer, Made, Revoked, Count
<1>2. ASSUME NEW r \in Req, Bootstrap(r) PROVE AuditHeld'
  <2>1. tokens' = tokens /\ audit' = Audited(audit, <<"bootstrap", 1>>)
    BY <1>2 DEF Bootstrap
  <2>2. \A t : /\ Count("api_token_created", t)' = Count("api_token_created", t)
               /\ Count("api_token_revoked", t)' = Count("api_token_revoked", t)
    <3>1. \A t : /\ <<"api_token_created", t>> # <<"bootstrap", 1>>
                 /\ <<"api_token_revoked", t>> # <<"bootstrap", 1>>
      OBVIOUS
    <3>. QED
      BY <2>1, <3>1, Counted
  <2>. QED
    BY <2>1, <2>2 DEF AuditHeld, NamesDiffer, Made, Revoked
<1>3. ASSUME NEW r \in Req, CreateProjectToken(r), ~UNCHANGED <<tokens, audit>>
      PROVE  AuditHeld'
  <2>. DEFINE n == Len(tokens) + 1
              made == [name |-> h[r].body.name, scope |-> h[r].body.scope, revoked |-> FALSE]
  <2>1. /\ tokens' = Append(tokens, made)
        /\ audit' = Audited(audit, <<"api_token_created", n>>)
        /\ ~NameTaken(h[r].body.name)
    BY <1>3 DEF CreateProjectToken
  <2>2. tokens \in Seq(Token) /\ n \in Nat /\ n \notin DOMAIN tokens
    BY SeqFacts DEF Typed, Rows
  <2>3. /\ DOMAIN tokens' = DOMAIN tokens \cup {n}
        /\ \A t \in DOMAIN tokens : tokens'[t] = tokens[t]
        /\ tokens'[n] = made
    <3>. HIDE DEF made
    <3>. QED
      BY <2>1, <2>2
  <2>4. \A t : /\ Count("api_token_created", t)'
                    = IF t = n THEN Count("api_token_created", t) + 1
                               ELSE Count("api_token_created", t)
               /\ Count("api_token_revoked", t)' = Count("api_token_revoked", t)
    <3>1. \A t : /\ <<"api_token_revoked", t>> # <<"api_token_created", n>>
                 /\ t # n => <<"api_token_created", t>> # <<"api_token_created", n>>
      OBVIOUS
    <3>. QED
      BY <2>1, <3>1, Counted
  <2>5. \A t \in Nat : /\ Made(t)' = IF t = n THEN Made(t) + 1 ELSE Made(t)
                       /\ Revoked(t)' = Revoked(t)
    <3>1. made.revoked = FALSE
      OBVIOUS
    <3>. HIDE DEF made
    <3>. QED
      BY <2>2, <2>3, <3>1 DEF Made, Revoked
  <2>6. NamesDiffer'
    <3>1. made.name = h[r].body.name
      OBVIOUS
    <3>. HIDE DEF made
    <3>. QED
      BY <2>1, <2>3, <3>1 DEF AuditHeld, NamesDiffer, NameTaken
  <2>. QED
    BY <2>4, <2>5, <2>6 DEF AuditHeld
<1>4. ASSUME NEW r \in Req, RevokeProjectToken(r), ~UNCHANGED <<tokens, audit>>
      PROVE  AuditHeld'
  <2>. DEFINE n == h[r].body.token
  <2>1. /\ n \in DOMAIN tokens /\ ~tokens[n].revoked
        /\ tokens' = [tokens EXCEPT ![n].revoked = TRUE]
        /\ audit' = Audited(audit, <<"api_token_revoked", n>>)
    BY <1>4 DEF RevokeProjectToken
  <2>2. n \in Nat /\ tokens[n] \in Token
    BY <2>1, SeqFacts DEF Typed, Rows
  <2>3. /\ DOMAIN tokens' = DOMAIN tokens
        /\ \A t \in DOMAIN tokens : t # n => tokens'[t] = tokens[t]
        /\ tokens'[n].revoked = TRUE
    BY <2>1, <2>2 DEF Token
  <2>4. \A t : /\ Count("api_token_revoked", t)'
                    = IF t = n THEN Count("api_token_revoked", t) + 1
                               ELSE Count("api_token_revoked", t)
               /\ Count("api_token_created", t)' = Count("api_token_created", t)
    <3>1. \A t : /\ <<"api_token_created", t>> # <<"api_token_revoked", n>>
                 /\ t # n => <<"api_token_revoked", t>> # <<"api_token_revoked", n>>
      OBVIOUS
    <3>. QED
      BY <2>1, <3>1, Counted
  <2>5. \A t \in Nat : /\ Made(t)' = Made(t)
                       /\ Revoked(t)' = IF t = n THEN Revoked(t) + 1 ELSE Revoked(t)
    BY <2>1, <2>2, <2>3 DEF Made, Revoked
  <2>6. NamesDiffer'
    BY <2>3 DEF AuditHeld, NamesDiffer
  <2>. QED
    BY <2>4, <2>5, <2>6 DEF AuditHeld
<1>. QED
  BY <1>1, <1>2, <1>3, <1>4
     DEF Next, Arrive, Statement, Fails, IsBootstrapped, upsertOrganization, ensureProjectKey,
         Login, storeSession, DeleteSession, ResolveSession, requireOperatorSession,
         oidcProviderFromRequest, StoreOIDCLoginState, ConsumeOIDCLoginState, exchangeOIDCToken,
         fetchOIDCUserInfo, activeOperatorIDForEmail, ensureExternalIdentityOwner,
         upsertExternalIdentity, LoginWithOIDCIdentity, ResolveProjectToken, UpsertOIDCProvider,
         Expire, Administer, Authorize, ChangeAccount, vars, dbVars

(* The audit log tells of each token once that it was made, once that it   *)
(* was revoked if it was, and of no other, whoever manages tokens at once  *)
(* and whatever was answered (CreateProjectToken, RevokeProjectToken).     *)
THEOREM TheAuditIsTrue == Spec => []AuditTrue
<1>1. AuditHeld => AuditTrue
  BY DEF AuditHeld, NamesDiffer, AuditTrue, Made, Revoked
<1>. QED
  BY <1>1, TypedInit, TypedNext, AuditHeldInit, AuditHeldNext, PTL DEF Spec

-----------------------------------------------------------------------------
(* Setups and bootstraps.                                                  *)

(* One bootstrap at a time is between its first statement and its commit.  *)
Inside == {"key", "commit"}

RowsAgree ==
  /\ \A i, j \in DOMAIN operators : operators[i].email = operators[j].email => i = j
  /\ \A i \in DOMAIN operators : operators[i].email # ""
  /\ operators = <<>> => keys = {}
  /\ operators # <<>> => \E k \in KeyID : keys = {k}

(* The operator at i is the one a setup asked for.                         *)
Asked(r, i) == i \in DOMAIN operators /\ operators[i].email = OperatorEmail(h[r].body)

(* What a handler has seen or shows is still so.                           *)
Agrees(r) ==
  /\ h[r].pc = "commit" => keys \in {{}, {h[r].key}}
  /\ h[r].pc \in {"password", "store"} /\ h[r].body.kind = "setup" => keys = {h[r].key}
  /\ h[r].pc = "store" /\ h[r].body.kind = "setup" => Asked(r, h[r].operator)
  /\ h[r].pc \in Held \cup {"consume"} => h[r].body.kind = "callback"
  /\ /\ h[r].pc = "idle" /\ h[r].body # NULL /\ h[r].body.kind \in {"setup", "bootstrap"}
     => keys = {h[r].key}
  /\ h[r].pc = "idle" /\ h[r].body # NULL /\ h[r].body.kind = "setup" /\ h[r].answer = "in"
     => h[r].made \in DOMAIN sessions /\ Asked(r, sessions[h[r].made].operator)

SetupHeld ==
  /\ RowsAgree
  /\ \A r \in Req : Agrees(r)
  /\ \A r, s \in Req : h[r].pc \in Inside /\ h[s].pc \in Inside => r = s

(* Operators and sessions stay, whoever's they are, and so does the key.   *)
RowsStay ==
  /\ \A i \in DOMAIN operators : i \in DOMAIN operators'
                               /\ operators'[i].email = operators[i].email
  /\ \A s \in DOMAIN sessions : s \in DOMAIN sessions'
                              /\ sessions'[s].operator = sessions[s].operator
  /\ \A k : keys = {k} => keys' = {k}

(* At first nobody is setting up, and rows of an installation agree.       *)
LEMMA SetupHeldInit == Init => SetupHeld
<1>. SUFFICES ASSUME Init PROVE SetupHeld
  OBVIOUS
<1>1. PICK i \in Installed : operators = i.operators
  BY DEF Init
<1>2. \A r \in Req : h[r].pc = "idle" /\ h[r].body = NULL
  BY DEF Init, Idle
<1>3. \A m \in DOMAIN operators : operators[m].email # ""
  <2>. DEFINE S == [email : Email, password : STRING, active : BOOLEAN, role : Roles]
  <2>1. operators \in Seq(S)
    BY <1>1, AccessAssumption
  <2>2. \A m \in DOMAIN operators : operators[m] \in S
    <3>. HIDE DEF S
    <3>. QED
      BY <2>1, SeqFacts
  <2>. QED
    BY <2>2, AccessAssumption
<1>4. \A m, n \in DOMAIN operators : operators[m].email = operators[n].email => m = n
  BY <1>1, EmailAssumption
<1>5. IF operators = <<>> THEN keys = {} ELSE \E k \in KeyID : keys = {k}
  BY DEF Init
<1>6. RowsAgree
  BY <1>3, <1>4, <1>5 DEF RowsAgree
<1>. QED
  BY <1>2, <1>6 DEF SetupHeld, Agrees, Inside, Held

(* A handler that does nothing stays in agreement with what stays.         *)
LEMMA AgreesStill ==
  ASSUME NEW r \in Req, Agrees(r), h'[r] = h[r], RowsStay,
         keys' = keys \/ h[r].pc # "commit"
  PROVE  Agrees(r)'
<1>1. \A i : Asked(r, i) => Asked(r, i)'
  BY DEF Asked, RowsStay, OperatorEmail, valueOr
<1>2. h[r].pc = "commit" => keys' \in {{}, {h[r].key}}
  BY DEF Agrees
<1>3. \A s \in DOMAIN sessions :
        Asked(r, sessions[s].operator) => s \in DOMAIN sessions'
                                          /\ Asked(r, sessions[s].operator)'
  BY <1>1 DEF RowsStay
<1>. QED
  BY <1>1, <1>2, <1>3 DEF Agrees, RowsStay

(* What a step of one handler has to show.                                 *)
LEMMA SetupFrame ==
  ASSUME Typed, SetupHeld, NEW r \in Req,
         (\E b \in Body : Arrive(r, b)) \/ Statement(r) \/ Fails(r),
         RowsAgree', RowsStay, Agrees(r)',
         keys' = keys \/ h[r].pc = "commit"
  PROVE  SetupHeld'
<1>1. \A q \in Req \ {r} : h'[q] = h[q]
  BY Flow
<1>2. \A q \in Req : Agrees(q)'
  <2>1. SUFFICES ASSUME NEW q \in Req \ {r} PROVE Agrees(q)'
    OBVIOUS
  <2>2. h[r].pc = "commit" => h[q].pc # "commit"
    BY DEF SetupHeld, Inside
  <2>3. Agrees(q)
    BY DEF SetupHeld
  <2>. QED
    BY <1>1, <2>2, <2>3, AgreesStill
<1>3. \A q, s \in Req : h'[q].pc \in Inside /\ h'[s].pc \in Inside => q = s
  <2>1. CASE h'[r].pc = "key"
    <3>1. \A q \in Req : h[q].pc \notin Inside
      BY <2>1, Flow DEF upsertOrganization, Inside
    <3>. QED
      BY <1>1, <3>1
  <2>2. CASE h'[r].pc = "commit"
    <3>1. h[r].pc \in Inside
      BY <2>2, Flow DEF ensureProjectKey, Inside
    <3>. QED
      BY <1>1, <3>1 DEF SetupHeld
  <2>3. CASE h'[r].pc \notin Inside
    BY <1>1, <2>3 DEF SetupHeld
  <2>. QED
    BY <2>1, <2>2, <2>3 DEF Inside
<1>. QED
  BY <1>2, <1>3 DEF SetupHeld

(* The commit of a bootstrap.                                              *)
LEMMA SetupBootstrap ==
  ASSUME Typed, SetupHeld, NEW r \in Req, Bootstrap(r)
  PROVE  SetupHeld'
<1>. DEFINE b == h[r].body
            k == h[r].key
<1>1. h[r].pc = "commit" /\ b \in Body /\ b.kind \in {"setup", "bootstrap"} /\ k \in KeyID
  BY DEF Bootstrap, Typed, Handlers, Staged
<1>2. operators' = upsertOperator(b) /\ keys' = keys \cup {k} /\ sessions' = sessions
  BY DEF Bootstrap
<1>3. keys \in {{}, {k}}
  BY <1>1 DEF SetupHeld, Agrees
<1>4. keys' = {k}
  BY <1>2, <1>3
<1>5. operators \in Seq(Operator)
  BY DEF Typed, Rows
<1>6. RowsAgree'
  <2>1. operators' # <<>>
    BY <1>1, <1>2, <1>5, Upserted
  <2>2. \A i \in DOMAIN operators : operators[i].email # ""
    BY DEF SetupHeld, RowsAgree
  <2>3. \A i \in DOMAIN operators' : operators'[i].email # ""
    BY <1>1, <1>2, <1>5, <2>2, Upserted, Texts
  <2>4. \A i, j \in DOMAIN operators : operators[i].email = operators[j].email => i = j
    BY DEF SetupHeld, RowsAgree
  <2>5. \A i, j \in DOMAIN operators' : operators'[i].email = operators'[j].email => i = j
    BY <1>1, <1>2, <1>5, <2>4, Upserted
  <2>. QED
    BY <1>1, <1>4, <2>1, <2>3, <2>5 DEF RowsAgree
<1>7. RowsStay
  <2>1. \A i \in DOMAIN operators : i \in DOMAIN operators'
                                 /\ operators'[i].email = operators[i].email
    BY <1>1, <1>2, <1>5, Upserted
  <2>2. \A l : keys = {l} => keys' = {l}
    BY <1>3, <1>4
  <2>. QED
    BY <1>2, <2>1, <2>2 DEF RowsStay
<1>8. Agrees(r)'
  <2>1. CASE Goto(r, "password")
    <3>1. h'[r].pc = "password" /\ h'[r].key = k
      BY <2>1, Moved
    <3>. QED
      BY <1>4, <3>1 DEF Agrees, Held
  <2>2. CASE Show(r, "ok", 0)
    <3>1. h'[r].pc = "idle" /\ h'[r].key = k /\ h'[r].answer = "ok"
      BY <2>2, Moved
    <3>. QED
      BY <1>4, <3>1 DEF Agrees, Held
  <2>3. CASE Answer(r, "failed")
    <3>1. h'[r].pc = "idle" /\ h'[r].body = NULL
      BY <2>3, Moved
    <3>. QED
      BY <3>1 DEF Agrees, Held
  <2>. QED
    BY <2>1, <2>2, <2>3 DEF Bootstrap
<1>. QED
  BY <1>1, <1>6, <1>7, <1>8, SetupFrame DEF Statement

(* A bootstrap takes the key that is there.                                *)
LEMMA SetupKey ==
  ASSUME Typed, SetupHeld, NEW r \in Req, ensureProjectKey(r)
  PROVE  SetupHeld'
<1>1. UNCHANGED <<operators, keys, sessions>>
  BY DEF ensureProjectKey, dbVars
<1>2. PICK k \in (IF keys # {} THEN keys ELSE KeyID) :
        Becomes(r, [h[r] EXCEPT !.pc = "commit", !.key = k])
  BY DEF ensureProjectKey
<1>3. h'[r].pc = "commit" /\ h'[r].key = k
  BY <1>2 DEF Becomes, Typed, Handlers, Handler
<1>4. keys \in {{}, {k}}
  BY <1>2 DEF SetupHeld, RowsAgree
<1>5. Agrees(r)'
  BY <1>1, <1>3, <1>4 DEF Agrees, Held
<1>6. RowsAgree' /\ RowsStay
  BY <1>1 DEF SetupHeld, RowsAgree, RowsStay
<1>. QED
  BY <1>1, <1>5, <1>6, SetupFrame DEF Statement

(* The login of a setup finds the operator that it asked for.              *)
LEMMA SetupLogin ==
  ASSUME Typed, SetupHeld, NEW r \in Req, Login(r)
  PROVE  SetupHeld'
<1>1. UNCHANGED <<operators, keys, sessions>> /\ h[r].pc = "password"
  BY DEF Login, dbVars
<1>2. RowsAgree' /\ RowsStay
  BY <1>1 DEF SetupHeld, RowsAgree, RowsStay
<1>3. CASE Answer(r, "failed")
  <2>1. h'[r].pc = "idle" /\ h'[r].body = NULL
    BY <1>3, Moved
  <2>2. Agrees(r)'
    BY <2>1 DEF Agrees, Held
  <2>. QED
    BY <1>1, <1>2, <2>2, SetupFrame DEF Statement
<1>4. CASE \E i \in DOMAIN operators :
             /\ operators[i].email = Trim[h[r].body.email]
             /\ Becomes(r, [h[r] EXCEPT !.pc = "store", !.operator = i])
  <2>1. PICK i \in DOMAIN operators :
               /\ operators[i].email = Trim[h[r].body.email]
               /\ Becomes(r, [h[r] EXCEPT !.pc = "store", !.operator = i])
    BY <1>4
  <2>2. /\ h'[r].pc = "store" /\ h'[r].operator = i
        /\ h'[r].body = h[r].body /\ h'[r].key = h[r].key
    BY <2>1 DEF Becomes, Typed, Handlers, Handler
  <2>3. h[r].body \in Body
    BY <1>1 DEF Typed, Handlers, Staged
  <2>4. operators[i].email # ""
    BY DEF SetupHeld, RowsAgree
  <2>5. operators[i].email = OperatorEmail(h[r].body)
    BY <2>1, <2>3, <2>4, Texts
  <2>6. h[r].body.kind = "setup" => keys = {h[r].key}
    BY <1>1 DEF SetupHeld, Agrees
  <2>7. Asked(r, i)'
    BY <1>1, <2>2, <2>5 DEF Asked, OperatorEmail, valueOr
  <2>8. Agrees(r)'
    BY <1>1, <2>2, <2>6, <2>7 DEF Agrees, Held
  <2>. QED
    BY <1>1, <1>2, <2>8, SetupFrame DEF Statement
<1>. QED
  BY <1>3, <1>4 DEF Login

(* A session is granted, by a setup or a login of either kind.             *)
LEMMA SetupSession ==
  ASSUME Typed, SetupHeld, NEW r \in Req, storeSession(r) \/ LoginWithOIDCIdentity(r)
  PROVE  SetupHeld'
<1>. DEFINE made == Len(sessions) + 1
<1>1. UNCHANGED <<operators, keys>>
  BY DEF storeSession, LoginWithOIDCIdentity
<1>2. PICK t : NewSession(r, t)
  BY DEF storeSession, LoginWithOIDCIdentity
<1>3. /\ \A s \in DOMAIN sessions : s \in DOMAIN sessions' /\ sessions'[s] = sessions[s]
      /\ made \in DOMAIN sessions' /\ sessions'[made].operator = h[r].operator
  <2>. DEFINE x == [operator |-> h[r].operator, state |-> t, live |-> TRUE]
  <2>1. sessions' = Append(sessions, x) /\ x.operator = h[r].operator
    BY <1>2 DEF NewSession
  <2>2. sessions \in Seq(Session)
    BY DEF Typed, Rows
  <2>. HIDE DEF x
  <2>. QED
    BY <2>1, <2>2
<1>4. RowsAgree' /\ RowsStay
  BY <1>1, <1>3 DEF SetupHeld, RowsAgree, RowsStay
<1>5. Agrees(r)'
  <2>1. CASE Answer(r, "failed")
    <3>1. h'[r].pc = "idle" /\ h'[r].body = NULL
      BY <2>1, Moved
    <3>. QED
      BY <3>1 DEF Agrees, Held
  <2>2. CASE Show(r, "in", made)
    <3>1. /\ h'[r].pc = "idle" /\ h'[r].body = h[r].body /\ h'[r].key = h[r].key
          /\ h'[r].made = made
      BY <2>2, Moved
    <3>2. h[r].body.kind # "bootstrap"
      BY DEF storeSession, LoginWithOIDCIdentity, Typed, Handlers, Staged, SetupHeld, Agrees,
             Held
    <3>3. h[r].body.kind = "setup" => keys = {h[r].key} /\ Asked(r, h[r].operator)
      BY DEF storeSession, LoginWithOIDCIdentity, SetupHeld, Agrees, Held
    <3>4. h'[r].made \in DOMAIN sessions' /\ sessions'[h'[r].made].operator = h[r].operator
      BY <1>3, <3>1
    <3>5. h[r].body.kind = "setup" => Asked(r, sessions[h[r].made].operator)'
      BY <1>1, <3>1, <3>3, <3>4 DEF Asked, OperatorEmail, valueOr
    <3>. QED
      BY <1>1, <3>1, <3>2, <3>3, <3>4, <3>5 DEF Agrees, Held
  <2>. QED
    BY <1>2, <2>1, <2>2 DEF NewSession
<1>. QED
  BY <1>1, <1>4, <1>5, SetupFrame DEF Statement

(* One bootstrap at a time is past the first upsert, and finds rows as     *)
(* the one before it left them.                                            *)
LEMMA SetupHeldNext == Typed /\ SetupHeld /\ [Next]_vars => SetupHeld'
<1>. SUFFICES ASSUME Typed, SetupHeld, [Next]_vars PROVE SetupHeld'
  OBVIOUS
<1>1. ASSUME NEW r \in Req, (\E b \in Body : Arrive(r, b)) \/ Statement(r) \/ Fails(r)
      PROVE  SetupHeld'
  <2>1. CASE Bootstrap(r) \/ ensureProjectKey(r) \/ Login(r) \/ storeSession(r)
             \/ LoginWithOIDCIdentity(r)
    BY <2>1, SetupBootstrap, SetupKey, SetupLogin, SetupSession
  <2>2. CASE /\ ~(Bootstrap(r) \/ ensureProjectKey(r) \/ Login(r) \/ storeSession(r)
                   \/ LoginWithOIDCIdentity(r))
             /\ UNCHANGED <<operators, keys>>
             /\ sessions' = sessions \/ sessions' = Ended(h[r].body.session)
    <3>1. \A s \in DOMAIN sessions : s \in DOMAIN sessions'
                                  /\ sessions'[s].operator = sessions[s].operator
      BY <2>2, EndedKeeps DEF Typed, Rows
    <3>2. RowsAgree' /\ RowsStay
      BY <2>2, <3>1 DEF SetupHeld, RowsAgree, RowsStay
    <3>3. h'[r].pc \in Held \cup {"consume"} => h'[r].body.kind = "callback"
      <4>1. h[r].pc \in Held \cup {"consume"} => h[r].body.kind = "callback"
        BY DEF SetupHeld, Agrees
      <4>2. CASE h'[r].pc \in Held
        BY <1>1, <4>1, <4>2, Flow DEF ConsumeOIDCLoginState
      <4>3. CASE h'[r].pc = "consume"
        BY <1>1, <4>3, Flow
      <4>. QED
        BY <4>2, <4>3
    <3>4. /\ h'[r].pc \notin {"commit", "store"}
          /\ h'[r].pc = "password" => h'[r].body.kind = "login"
          /\ h'[r].pc = "idle" => h'[r].body = NULL
      BY <1>1, <2>2, Flow
    <3>5. Agrees(r)'
      BY <3>3, <3>4 DEF Agrees
    <3>. QED
      BY <1>1, <2>2, <3>2, <3>5, SetupFrame
  <2>. QED
    BY <1>1, <2>1, <2>2
       DEF Arrive, Statement, Fails, IsBootstrapped, upsertOrganization, DeleteSession,
           ResolveSession, requireOperatorSession, oidcProviderFromRequest, StoreOIDCLoginState,
           ConsumeOIDCLoginState, exchangeOIDCToken, fetchOIDCUserInfo,
           activeOperatorIDForEmail, ensureExternalIdentityOwner, upsertExternalIdentity,
           CreateProjectToken, RevokeProjectToken, ResolveProjectToken, dbVars
<1>2. CASE UNCHANGED h /\ RowsAgree' /\ RowsStay /\ UNCHANGED keys
  <2>1. \A r \in Req : Agrees(r)'
    BY <1>2, AgreesStill DEF SetupHeld
  <2>. QED
    BY <1>2, <2>1 DEF SetupHeld
<1>3. CASE Administer
  <2>1. UNCHANGED <<h, keys, sessions>>
    BY <1>3 DEF Administer, Changes
  <2>2. /\ DOMAIN operators' = DOMAIN operators
        /\ \A i \in DOMAIN operators : operators'[i].email = operators[i].email
    <3>1. PICK i \in DOMAIN operators :
            \/ operators' = [operators EXCEPT ![i].active = ~@]
            \/ \E role \in Roles : operators' = [operators EXCEPT ![i].role = role]
      BY <1>3 DEF Administer
    <3>2. operators[i] \in Operator
      BY SeqFacts DEF Typed, Rows
    <3>. QED
      BY <3>1, <3>2 DEF Operator
  <2>3. operators' = <<>> <=> operators = <<>>
    <3>1. operators \in Seq(Operator) /\ operators' \in Seq(Operator)
      BY TypedNext DEF Typed, Rows
    <3>. QED
      BY <2>2, <3>1
  <2>. QED
    BY <1>2, <2>1, <2>2, <2>3 DEF SetupHeld, RowsAgree, RowsStay
<1>4. CASE Expire
  <2>1. UNCHANGED <<h, keys, operators>>
    BY <1>4 DEF Expire, Changes
  <2>2. \A s \in DOMAIN sessions : s \in DOMAIN sessions'
                                /\ sessions'[s].operator = sessions[s].operator
    BY <1>4, EndedKeeps DEF Expire, Typed, Rows
  <2>. QED
    BY <1>2, <2>1, <2>2 DEF SetupHeld, RowsAgree, RowsStay
<1>5. CASE UNCHANGED <<h, keys, operators, sessions>>
  BY <1>2, <1>5 DEF SetupHeld, RowsAgree, RowsStay
<1>. QED
  BY <1>1, <1>3, <1>4, <1>5
     DEF Next, UpsertOIDCProvider, Authorize, ChangeAccount, Changes, vars, dbVars

(* However many bootstraps run at once, an email names one operator, the   *)
(* project has one key, every setup and bootstrap that is through shows    *)
(* that key, and the session of a setup is of the operator it asked for    *)
(* (BootstrapOperator, bootstrapInTx).                                     *)
THEOREM SetupsAgree == Spec => []SetupTrue
<1>1. Typed /\ SetupHeld => SetupTrue
  <2>. SUFFICES ASSUME Typed, SetupHeld PROVE SetupTrue
    OBVIOUS
  <2>1. Installation => Cardinality(keys) = 1
    BY FS_Singleton DEF Installation, SetupHeld, RowsAgree
  <2>2. \A r \in Req : h[r].answer \in {"in", "ok"} => h[r].pc = "idle"
    BY DEF Typed, Handlers, Staged
  <2>. QED
    BY <2>1, <2>2 DEF SetupTrue, SetupHeld, RowsAgree, Agrees, Asked
<1>. QED
  BY <1>1, TypedInit, TypedNext, SetupHeldInit, SetupHeldNext, PTL DEF Spec
=============================================================================
