------------------------------- MODULE Access ---------------------------------
(***************************************************************************)
(* Who may come in: the setup of an installation, logins by password and   *)
(* by an OIDC provider, sessions, and the API tokens of the project.       *)
(*                                                                         *)
(* A handler is a sequence of SQL statements, each in a transaction of its *)
(* own unless a comment says otherwise; other handlers, operators at the   *)
(* database and the provider act between them.  A bootstrap first upserts  *)
(* the row of the organization, whose slug is always the default one, and  *)
(* that row stays locked to the commit.                                    *)
(*                                                                         *)
(* The ids and secrets of sessions, states and tokens are random and used  *)
(* once: here they are numbered as they are made.                          *)
(*                                                                         *)
(* There is one provider.  A login that was started has a state, signed    *)
(* and stored; the state stands for its verifier as well.                  *)
(***************************************************************************)
EXTENDS Naturals, Sequences, FiniteSets

CONSTANTS
  Req,         \* handlers that run at the same time
  Body,        \* what may be asked
  Trim,        \* texts that are typed, each with what trimming leaves
  Fold,        \* the emails, each with the form that letter case leaves
  Subject,     \* accounts of the provider
  Accounts,    \* and their emails at first
  KeyID,       \* random public keys
  Installed,   \* what may be there at first: operators, sessions, logins
               \* that were started, and codes the provider issued for them
  Roles,       \* roles that operators at the database give
  MaxRequests, MaxRows, MaxChanges,   \* bounds of requests, of rows that are made,
               \* and of changes from outside
  Faults,      \* whether calls fail and commits go unconfirmed
  NULL

Email == DOMAIN Fold

ASSUME AccessAssumption ==
  /\ \A i \in Installed :
       /\ i.operators \in Seq([email : Email, password : STRING, active : BOOLEAN, role : Roles])
       /\ i.sessions \in Seq([operator : DOMAIN i.operators, state : {0}, live : {TRUE}])
       /\ i.states \in Seq({"open"})
       /\ i.codes \subseteq (DOMAIN i.states) \X Subject
  /\ Email \subseteq STRING \ {""} /\ "operator@example.local" \in Email
  /\ Trim \in [DOMAIN Trim -> STRING] /\ Roles \subseteq STRING \X STRING
  /\ Accounts \in [Subject -> Email \cup {NULL}]
  /\ \A b \in Body : {b.email, b.password} \subseteq DOMAIN Trim
  /\ <<"owner", "owner">> \in Roles
  /\ {MaxRequests, MaxRows, MaxChanges} \subseteq Nat /\ Faults \in BOOLEAN

(* The column of the email is unique.                                      *)
ASSUME EmailAssumption ==
  \A i \in Installed : \A m, n \in DOMAIN i.operators :
    i.operators[m].email = i.operators[n].email => m = n

VARIABLES
  operators,  \* in the order of their creation, with the roles of their memberships
  keys,       \* active keys of the project
  sessions,   \* those ever granted: the operator, the state, 0 for a login by
              \* password, and whether the row is there and unexpired
  states,     \* oauth_login_states: "open", "consumed" or "expired"
  links,      \* operator_external_identities: the operator of each subject
  tokens,     \* api_tokens
  audit,      \* audit events of each kind and target
  provider,   \* whether the provider is enabled
  accounts,   \* the provider's: the email of each subject, NULL when not verified
  codes,      \* the provider's: codes it has issued and not yet redeemed
  served,     \* requests so far
  changes,    \* changes from outside so far
  h           \* the handlers

dbVars       == <<operators, keys, sessions, states, links, tokens, audit, provider>>
providerVars == <<accounts, codes>>
counters     == <<served, changes>>
vars         == <<dbVars, providerVars, counters, h>>

(* A handler with no request, and at first with no answer given.           *)
Idle ==
  [pc       |-> "idle",
   body     |-> NULL,
   operator |-> 0,      \* the operator that was found, 0 for none
   subject  |-> NULL,   \* the account the provider named
   email    |-> NULL,   \* and its email
   made     |-> 0,      \* the session that was made
   key      |-> NULL,   \* the key of the DSN that is shown
   answer   |-> ""]

Init ==
  /\ \E i \in Installed : /\ operators = i.operators
                          /\ sessions = i.sessions
                          /\ states = i.states
                          /\ codes = i.codes
  /\ keys \in (IF operators = <<>> THEN {{}} ELSE {{k} : k \in KeyID})
  /\ links = <<>>
  /\ tokens = <<>>
  /\ audit = <<>>
  /\ provider = TRUE
  /\ accounts = Accounts
  /\ served = 0
  /\ changes = 0
  /\ h = [r \in Req |-> Idle]

-----------------------------------------------------------------------------
Becomes(r, next) == h' = [h EXCEPT ![r] = next]
Goto(r, pc)      == Becomes(r, [h[r] EXCEPT !.pc = pc])
Answer(r, a)     == Becomes(r, [Idle EXCEPT !.answer = a])
Show(r, a, made) == Becomes(r, [h[r] EXCEPT !.pc = "idle", !.answer = a, !.made = made])

Put(f, k, v) == [x \in DOMAIN f \cup {k} |-> IF x = k THEN v ELSE f[x]]

Audited(f, k) == Put(f, k, IF k \in DOMAIN f THEN f[k] + 1 ELSE 1)

Installation == operators # <<>>

FirstStep ==
  [setup |-> "check", bootstrap |-> "organization", login |-> "password",
   logout |-> "logout", start |-> "session", callback |-> "provider",
   page |-> "session", create |-> "session", revoke |-> "session", api |-> "resolve"]

ASSUME KindAssumption == \A b \in Body : b.kind \in DOMAIN FirstStep

Arrive(r, b) ==
  /\ h[r].pc = "idle" /\ served < MaxRequests
  /\ served' = served + 1
  /\ Becomes(r, [Idle EXCEPT !.pc = FirstStep[b.kind], !.body = b])
  /\ UNCHANGED <<dbVars, providerVars, changes>>

-----------------------------------------------------------------------------
(* The setup, and the bootstrap command.                                   *)

IsBootstrapped(r) ==
  /\ h[r].pc = "check"
  /\ IF Installation THEN Answer(r, "failed") ELSE Goto(r, "organization")
  /\ UNCHANGED <<dbVars, providerVars, counters>>

(* Slip: the organization is inserted when it is missing, and not locked.  *)
upsertOrganizationUnlocked(r) ==
  /\ h[r].pc = "organization"
  /\ Goto(r, "key")
  /\ UNCHANGED <<dbVars, providerVars, counters>>

(* The row of the organization is locked by one bootstrap at a time.       *)
upsertOrganization(r) ==
  /\ h[r].pc = "organization"
  /\ \A s \in Req : h[s].pc \notin {"key", "commit"}
  /\ Goto(r, "key")
  /\ UNCHANGED <<dbVars, providerVars, counters>>

(* The active key of the project, or a new one.                            *)
ensureProjectKey(r) ==
  /\ h[r].pc = "key"
  /\ \E k \in (IF keys # {} THEN keys ELSE KeyID) :
       Becomes(r, [h[r] EXCEPT !.pc = "commit", !.key = k])
  /\ UNCHANGED <<dbVars, providerVars, counters>>

valueOr(value, fallback) == IF Trim[value] = "" THEN fallback ELSE Trim[value]

OperatorEmail(b) == valueOr(b.email, "operator@example.local")

(* An operator that exists keeps the password and the role in the          *)
(* organization, and is made an owner of the project.                      *)
upsertOperator(b) ==
  IF \E i \in DOMAIN operators : operators[i].email = OperatorEmail(b)
    THEN [i \in DOMAIN operators |->
            IF operators[i].email = OperatorEmail(b)
              THEN [operators[i] EXCEPT !.role[2] = "owner"] ELSE operators[i]]
    ELSE Append(operators, [email |-> OperatorEmail(b),
                            password |-> valueOr(b.password, "change-me"),
                            active |-> TRUE, role |-> <<"owner", "owner">>])

(* The end of the transaction.  A setup goes on to log its operator in.    *)
Bootstrap(r) ==
  /\ h[r].pc = "commit"
  /\ operators' = upsertOperator(h[r].body)
  /\ keys' = keys \cup {h[r].key}
  /\ audit' = Audited(audit, <<"bootstrap", 1>>)
  /\ \/ IF h[r].body.kind = "setup" THEN Goto(r, "password") ELSE Show(r, "ok", 0)
     \/ Faults /\ Answer(r, "failed")
  /\ UNCHANGED <<sessions, states, links, tokens, provider, providerVars, counters>>

-----------------------------------------------------------------------------
(* Sessions.                                                               *)

Login(r) ==
  /\ h[r].pc = "password"
  /\ LET b     == h[r].body
         found == {i \in DOMAIN operators : /\ operators[i].email = Trim[b.email]
                                            /\ operators[i].active
                                            /\ operators[i].password = b.password}
     IN  IF found = {}
           THEN Answer(r, "failed")
           ELSE \E i \in found : Becomes(r, [h[r] EXCEPT !.pc = "store", !.operator = i])
  /\ UNCHANGED <<dbVars, providerVars, counters>>

NewSession(r, state) ==
  /\ Len(sessions) < MaxRows
  /\ sessions' = Append(sessions, [operator |-> h[r].operator, state |-> state, live |-> TRUE])
  /\ \/ Show(r, "in", Len(sessions) + 1)
     \/ Faults /\ Answer(r, "failed")

storeSession(r) ==
  /\ h[r].pc = "store"
  /\ NewSession(r, 0)
  /\ UNCHANGED <<operators, keys, states, links, tokens, audit, provider, providerVars, counters>>

Ended(s) ==
  IF s \in DOMAIN sessions THEN [sessions EXCEPT ![s].live = FALSE] ELSE sessions

(* The error of the deletion is dropped.                                   *)
DeleteSession(r) ==
  /\ h[r].pc = "logout"
  /\ sessions' = Ended(h[r].body.session) \/ (Faults /\ UNCHANGED sessions)
  /\ Answer(r, "out")
  /\ UNCHANGED <<operators, keys, states, links, tokens, audit, provider, providerVars, counters>>

(* The operator of a session that is there, when the operator is active.   *)
SessionOf(s) ==
  IF s \in DOMAIN sessions /\ sessions[s].live /\ operators[sessions[s].operator].active
    THEN sessions[s].operator ELSE 0

Manages(role) == role[1] = "owner" \/ role[2] \in {"owner", "admin"}

Can(role, permission) ==
  permission # "" /\ (Manages(role) \/ (role[2] = "member" /\ permission = "read_project"))

PermissionOf(b) == IF b.kind = "page" THEN b.permission ELSE "manage_tokens"

(* Who comes with a session starts no other login.                         *)
ResolveSession(r) ==
  /\ h[r].pc = "session"
  /\ LET b == h[r].body
         i == SessionOf(b.session)
     IN  IF b.kind = "start"
           THEN IF i # 0 THEN Answer(r, "to issues") ELSE Goto(r, "provider")
         ELSE IF i = 0 THEN Goto(r, "unknown")
         ELSE IF ~Can(operators[i].role, PermissionOf(b)) THEN Answer(r, "forbidden")
         ELSE IF b.kind = "page" THEN Answer(r, "shown")
         ELSE Becomes(r, [h[r] EXCEPT !.pc = b.kind, !.operator = i])
  /\ UNCHANGED <<dbVars, providerVars, counters>>

requireOperatorSession(r) ==
  /\ h[r].pc = "unknown"
  /\ Answer(r, IF Installation THEN "to login" ELSE "to setup")
  /\ UNCHANGED <<dbVars, providerVars, counters>>

-----------------------------------------------------------------------------
(* The login by the provider.                                              *)

(* A callback needs a code and a state that this server signed.            *)
oidcProviderFromRequest(r) ==
  /\ h[r].pc = "provider"
  /\ LET b == h[r].body
     IN  IF ~provider THEN Answer(r, "not found")
         ELSE IF b.kind = "start" THEN Goto(r, "state")
         ELSE IF b.code = NULL \/ b.state \notin DOMAIN states THEN Answer(r, "failed")
         ELSE Goto(r, "consume")
  /\ UNCHANGED <<dbVars, providerVars, counters>>

StoreOIDCLoginState(r) ==
  /\ h[r].pc = "state"
  /\ Len(states) < MaxRows
  /\ states' = Append(states, "open")
  /\ Answer(r, "to provider")
  /\ UNCHANGED <<operators, keys, sessions, links, tokens, audit, provider, providerVars, counters>>

(* Slip: a state is read, and marked only when the login is through.       *)
ConsumeOIDCLoginStateLate(r) ==
  /\ h[r].pc = "consume"
  /\ IF states[h[r].body.state] = "open" THEN Goto(r, "exchange") ELSE Answer(r, "failed")
  /\ UNCHANGED <<dbVars, providerVars, counters>>

ConsumeOIDCLoginState(r) ==
  /\ h[r].pc = "consume"
  /\ LET s == h[r].body.state
     IN  IF states[s] = "open"
           THEN states' = [states EXCEPT ![s] = "consumed"] /\ Goto(r, "exchange")
           ELSE UNCHANGED states /\ Answer(r, "failed")
  /\ UNCHANGED <<operators, keys, sessions, links, tokens, audit, provider, providerVars, counters>>

(* The provider redeems a code once, for the verifier of the login it      *)
(* issued the code for.                                                    *)
exchangeOIDCToken(r) ==
  /\ h[r].pc = "exchange"
  /\ LET b == h[r].body
     IN  IF b.code \in codes /\ b.code[1] = b.state
           THEN /\ codes' = codes \ {b.code}
                /\ Becomes(r, [h[r] EXCEPT !.pc = "userinfo", !.subject = b.code[2]])
           ELSE UNCHANGED codes /\ Answer(r, "bad gateway")
  /\ UNCHANGED <<dbVars, accounts, counters>>

fetchOIDCUserInfo(r) ==
  /\ h[r].pc = "userinfo"
  /\ LET email == accounts[h[r].subject]
     IN  IF email = NULL THEN Answer(r, "failed")
         ELSE Becomes(r, [h[r] EXCEPT !.pc = "lookup", !.email = Fold[email]])
  /\ UNCHANGED <<dbVars, providerVars, counters>>

(* From here to the grant a transaction: the oldest active operator with   *)
(* that email, whatever the letters' case.                                 *)
activeOperatorIDForEmail(r) ==
  /\ h[r].pc = "lookup"
  /\ LET found == {i \in DOMAIN operators : operators[i].active
                                             /\ Fold[operators[i].email] = h[r].email}
     IN  IF found = {} THEN Answer(r, "failed")
         ELSE \E i \in found :
                /\ \A j \in found : i <= j
                /\ Becomes(r, [h[r] EXCEPT !.pc = "owner", !.operator = i])
  /\ UNCHANGED <<dbVars, providerVars, counters>>

ensureExternalIdentityOwner(r) ==
  /\ h[r].pc = "owner"
  /\ IF h[r].subject \in DOMAIN links /\ links[h[r].subject] # h[r].operator
       THEN Answer(r, "failed") ELSE Goto(r, "link")
  /\ UNCHANGED <<dbVars, providerVars, counters>>

LinkLocked(r) ==
  \E s \in Req \ {r} : h[s].pc = "grant" /\ (h[s].subject = h[r].subject
                                             \/ h[s].operator = h[r].operator)

(* Slip: the constraint on the operator of a provider is missing.          *)
upsertExternalIdentityOfAny(r) ==
  /\ h[r].pc = "link"
  /\ ~LinkLocked(r)
  /\ Goto(r, "grant")
  /\ UNCHANGED <<dbVars, providerVars, counters>>

(* It waits for another's row of the subject or of the operator.  The row  *)
(* of the subject is kept as it is; a second subject of an operator is     *)
(* refused by the database.                                                *)
upsertExternalIdentity(r) ==
  /\ h[r].pc = "link"
  /\ ~LinkLocked(r)
  /\ IF h[r].subject \notin DOMAIN links
        /\ \E u \in DOMAIN links : links[u] = h[r].operator
       THEN Answer(r, "failed") ELSE Goto(r, "grant")
  /\ UNCHANGED <<dbVars, providerVars, counters>>

Linked(subject, operator) ==
  IF subject \in DOMAIN links THEN links ELSE Put(links, subject, operator)

LoginWithOIDCIdentity(r) ==
  /\ h[r].pc = "grant"
  /\ links' = Linked(h[r].subject, h[r].operator)
  /\ NewSession(r, h[r].body.state)
  /\ UNCHANGED <<operators, keys, states, tokens, audit, provider, providerVars, counters>>

-----------------------------------------------------------------------------
(* API tokens: each change and its audit event in one transaction.         *)

NameTaken(name) == \E t \in DOMAIN tokens : tokens[t].name = name /\ ~tokens[t].revoked

CreateProjectToken(r) ==
  /\ h[r].pc = "create"
  /\ LET b == h[r].body
     IN  IF b.name = "" \/ b.scope \notin {"project_read", "project_admin"} \/ NameTaken(b.name)
           THEN Answer(r, "refused") /\ UNCHANGED <<tokens, audit>>
           ELSE /\ Len(tokens) < MaxRows
                /\ tokens' = Append(tokens, [name |-> b.name, scope |-> b.scope, revoked |-> FALSE])
                /\ audit' = Audited(audit, <<"api_token_created", Len(tokens) + 1>>)
                /\ Answer(r, "ok") \/ (Faults /\ Answer(r, "refused"))
  /\ UNCHANGED <<operators, keys, sessions, states, links, provider, providerVars, counters>>

(* Slip: a token that is revoked is revoked again.                         *)
RevokeProjectTokenAgain(r) ==
  /\ h[r].pc = "revoke"
  /\ LET t == h[r].body.token
     IN  IF t \notin DOMAIN tokens
           THEN Answer(r, "refused") /\ UNCHANGED <<tokens, audit>>
           ELSE /\ tokens' = [tokens EXCEPT ![t].revoked = TRUE]
                /\ audit' = Audited(audit, <<"api_token_revoked", t>>)
                /\ Answer(r, "ok") \/ (Faults /\ Answer(r, "refused"))
  /\ UNCHANGED <<operators, keys, sessions, states, links, provider, providerVars, counters>>

RevokeProjectToken(r) ==
  /\ h[r].pc = "revoke"
  /\ LET t == h[r].body.token
     IN  IF t \notin DOMAIN tokens \/ tokens[t].revoked
           THEN Answer(r, "refused") /\ UNCHANGED <<tokens, audit>>
           ELSE /\ tokens' = [tokens EXCEPT ![t].revoked = TRUE]
                /\ audit' = Audited(audit, <<"api_token_revoked", t>>)
                /\ Answer(r, "ok") \/ (Faults /\ Answer(r, "refused"))
  /\ UNCHANGED <<operators, keys, sessions, states, links, provider, providerVars, counters>>

Allows(scope, required) == scope = "project_admin" \/ scope = required

ResolveProjectToken(r) ==
  /\ h[r].pc = "resolve"
  /\ LET b == h[r].body
     IN  Answer(r, IF b.token = 0 THEN "unauthorized"
                   ELSE IF /\ b.token \in DOMAIN tokens
                           /\ ~tokens[b.token].revoked
                           /\ Allows(tokens[b.token].scope, b.scope)
                     THEN "ok" ELSE "forbidden")
  /\ UNCHANGED <<dbVars, providerVars, counters>>

-----------------------------------------------------------------------------
(* A statement fails, or the client is gone: nothing of it is kept.        *)
Fails(r) ==
  /\ Faults
  /\ h[r].pc \notin {"idle", "logout"}
  /\ Answer(r, "unavailable")
  /\ UNCHANGED <<dbVars, providerVars, counters>>

Changes == changes < MaxChanges /\ changes' = changes + 1 /\ UNCHANGED <<served, h>>

(* The command that configures the provider.                               *)
UpsertOIDCProvider ==
  /\ Changes
  /\ provider' = ~provider
  /\ UNCHANGED <<operators, keys, sessions, states, links, tokens, audit, providerVars>>

(* Time: a state is good for ten minutes, a session for thirty days.       *)
Expire ==
  /\ Changes
  /\ \/ \E s \in DOMAIN states : /\ states[s] = "open"
                                 /\ states' = [states EXCEPT ![s] = "expired"]
                                 /\ UNCHANGED sessions
     \/ \E s \in DOMAIN sessions : /\ sessions[s].live
                                   /\ sessions' = Ended(s)
                                   /\ UNCHANGED states
  /\ UNCHANGED <<operators, keys, links, tokens, audit, provider, providerVars>>

(* Operators at the database: no code changes a role, or who is active.    *)
Administer ==
  /\ Changes
  /\ \E i \in DOMAIN operators :
       \/ operators' = [operators EXCEPT ![i].active = ~@]
       \/ \E role \in Roles : /\ role # operators[i].role
                              /\ operators' = [operators EXCEPT ![i].role = role]
  /\ UNCHANGED <<keys, sessions, states, links, tokens, audit, provider, providerVars>>

(* The provider: an account agrees to a login, or has its email changed.   *)
Authorize ==
  /\ Changes
  /\ \E s \in DOMAIN states, u \in Subject : codes' = codes \cup {<<s, u>>}
  /\ UNCHANGED <<dbVars, accounts>>

ChangeAccount ==
  /\ Changes
  /\ \E u \in Subject, e \in Email \cup {NULL} : accounts' = [accounts EXCEPT ![u] = e]
  /\ UNCHANGED <<dbVars, codes>>

-----------------------------------------------------------------------------
Statement(r) ==
  \/ IsBootstrapped(r) \/ upsertOrganization(r) \/ ensureProjectKey(r) \/ Bootstrap(r)
  \/ Login(r) \/ storeSession(r) \/ DeleteSession(r)
  \/ ResolveSession(r) \/ requireOperatorSession(r)
  \/ oidcProviderFromRequest(r) \/ StoreOIDCLoginState(r) \/ ConsumeOIDCLoginState(r)
  \/ exchangeOIDCToken(r) \/ fetchOIDCUserInfo(r) \/ activeOperatorIDForEmail(r)
  \/ ensureExternalIdentityOwner(r) \/ upsertExternalIdentity(r) \/ LoginWithOIDCIdentity(r)
  \/ CreateProjectToken(r) \/ RevokeProjectToken(r) \/ ResolveProjectToken(r)

Next ==
  \/ \E r \in Req : (\E b \in Body : Arrive(r, b)) \/ Statement(r) \/ Fails(r)
  \/ UpsertOIDCProvider \/ Expire \/ Administer \/ Authorize \/ ChangeAccount

Spec == Init /\ [][Next]_vars

-----------------------------------------------------------------------------
(* However many bootstraps run at once, an email names one operator, the   *)
(* project has one key, every setup and bootstrap that is through shows    *)
(* that key, and the session of a setup is of the operator it asked for    *)
(* (BootstrapOperator, bootstrapInTx).                                     *)
SetupTrue ==
  /\ \A i, j \in DOMAIN operators : operators[i].email = operators[j].email => i = j
  /\ Installation => Cardinality(keys) = 1
  /\ \A r \in Req :
       LET b == h[r].body
       IN  /\ b # NULL /\ b.kind \in {"setup", "bootstrap"} /\ h[r].answer \in {"in", "ok"}
             => keys = {h[r].key}
           /\ b # NULL /\ b.kind = "setup" /\ h[r].answer = "in"
             => operators[sessions[h[r].made].operator].email = OperatorEmail(b)

(* A login that was started with the provider ends in one session at most, *)
(* however its callback is repeated (ConsumeOIDCLoginState).               *)
StatesUsedOnce ==
  \A s, t \in DOMAIN sessions :
    sessions[s].state # 0 /\ sessions[s].state = sessions[t].state => s = t

(* An account of the provider stays with the operator it was linked to,    *)
(* and an operator with the account, whatever becomes of their emails and  *)
(* whichever logins run at once (upsertExternalIdentity).                  *)
IdentityKept ==
  [][ /\ \A u \in DOMAIN links : u \in DOMAIN links' /\ links'[u] = links[u]
      /\ \A u, v \in DOMAIN links' : links'[u] = links'[v] => u = v ]_links

Count(action, t) == IF <<action, t>> \in DOMAIN audit THEN audit[<<action, t>>] ELSE 0

(* The audit log tells of each token once that it was made, once that it   *)
(* was revoked if it was, and of no other; and of the tokens that are not  *)
(* revoked no two have a name in common, whoever manages them at once and  *)
(* whatever was answered (CreateProjectToken, RevokeProjectToken).         *)
AuditTrue ==
  /\ \A t \in 1 .. MaxRows :
       /\ Count("api_token_created", t) = IF t \in DOMAIN tokens THEN 1 ELSE 0
       /\ Count("api_token_revoked", t)
            = IF t \in DOMAIN tokens /\ tokens[t].revoked THEN 1 ELSE 0
  /\ \A s, t \in DOMAIN tokens :
       tokens[s].name = tokens[t].name /\ ~tokens[s].revoked /\ ~tokens[t].revoked => s = t
=============================================================================
