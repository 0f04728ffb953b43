------------------------------ MODULE MCAccess --------------------------------
(***************************************************************************)
(* Access on an instance with two handlers at a time: two emails that      *)
(* differ in letter case and the default one, two accounts of the          *)
(* provider, an installation that is new and one with two operators.       *)
(***************************************************************************)
EXTENDS Access, TLC

CONSTANTS r1, r2, k1, k2, u1, u2

MCTrim == [ann |-> "ann", pass |-> "pass", Ann |-> "Ann"] @@ "pass " :> "pass" @@ "" :> ""

MCFold == [ann |-> "ann", Ann |-> "ann"] @@ "operator@example.local" :> "operator@example.local"

Owner  == <<"owner", "owner">>
Member == <<"member", "member">>

MCRoles == {Owner, Member}

New == [operators |-> <<>>, sessions |-> <<>>, states |-> <<>>, codes |-> {}]

Old ==
  [operators |-> <<[email |-> "ann", password |-> "pass", active |-> TRUE, role |-> Owner],
                   [email |-> "operator@example.local", password |-> "pass", active |-> TRUE,
                    role |-> Member]>>,
   sessions  |-> <<>>,
   states    |-> <<>>,
   codes     |-> {}]

InUse == [Old EXCEPT !.sessions = <<[operator |-> 1, state |-> 0, live |-> TRUE]>>]

Started == [Old EXCEPT !.states = <<"open", "open">>, !.codes = {1, 2} \X Subject]

MCInstalled == {New, Old, InUse, Started}

MCAccounts == u1 :> "Ann" @@ u2 :> "ann"

Nothing ==
  [kind |-> "", email |-> "", password |-> "", session |-> 0, state |-> 0,
   code |-> NULL, permission |-> "", name |-> "", scope |-> "", token |-> 0]

Setups ==
  {[Nothing EXCEPT !.kind = "setup", !.email = "ann", !.password = "pass"],
   [Nothing EXCEPT !.kind = "setup", !.email = "", !.password = "pass "],
   [Nothing EXCEPT !.kind = "bootstrap", !.email = "Ann"]}

Logins ==
  {[Nothing EXCEPT !.kind = "login", !.email = "ann", !.password = "pass"],
   [Nothing EXCEPT !.kind = "login", !.email = "Ann", !.password = "pass"]}

OfSessions ==
  {[Nothing EXCEPT !.kind = k, !.session = 1] : k \in {"logout", "start"}}
  \cup {[Nothing EXCEPT !.kind = "page", !.permission = p, !.session = s] :
          p \in {"read_project", ""}, s \in {0, 1}}

(* With a code of the login, of another one, and without a code.           *)
Callbacks ==
  {[Nothing EXCEPT !.kind = "callback", !.state = s, !.code = <<s, u>>] :
     s \in 1 .. MaxRows, u \in Subject}
  \cup {[Nothing EXCEPT !.kind = "callback", !.state = 1, !.code = c] : c \in {<<2, u1>>, NULL}}

OfTokens ==
  {[Nothing EXCEPT !.kind = "create", !.session = 1, !.name = n, !.scope = "project_read"] :
     n \in {"", "ci"}}
  \cup {[Nothing EXCEPT !.kind = "revoke", !.session = 1, !.token = 1]}
  \cup {[Nothing EXCEPT !.kind = "api", !.token = t, !.scope = c] :
          t \in {0, 1}, c \in {"project_read", "project_admin"}}

MCBody == Setups \cup Logins \cup OfSessions \cup Callbacks \cup OfTokens

Symmetry == Permutations(Req) \cup Permutations(KeyID)
=============================================================================
