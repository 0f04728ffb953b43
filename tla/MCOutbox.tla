------------------------------ MODULE MCOutbox ------------------------------
(* Instances of Outbox for TLC.                                            *)
EXTENDS Outbox, TLC

CONSTANTS w1, w2, d1, d2, r1, i1, i2

(* One provider, one task.                                                 *)
OneProvider == d1 :> "webhook"
OneTask == <<"webhook">>

(* The full task list of newWorker and a destination of every provider.    *)
AllDest == Provider
AllProviders == [d \in AllDest |-> d]

Symmetry == Permutations({w1, w2}) \cup Permutations({i1, i2})

(* The settings are done, every destination has an enabled rule, and the   *)
(* first issue was opened before the second destination was added.         *)
Configured ==
  /\ destinations = Dest /\ rules = Rule /\ actions = Rule \X Dest /\ opened = {i1}
  /\ status = [i \in Intent |-> IF i = <<d1, i1>> THEN "pending" ELSE "absent"]
  /\ attempts = [i \in Intent |-> 0]
  /\ nextAttempt = [i \in Intent |-> 0]
  /\ lockedUntil = [i \in Intent |-> NULL]
  /\ createdAt = [i \in Intent |-> 0]
  /\ pc = [w \in Worker |-> "idle"]
  /\ pos = [w \in Worker |-> 1]
  /\ batch = [w \in Worker |-> {}]
  /\ current = [w \in Worker |-> NULL]
  /\ outcome = [w \in Worker |-> "none"]
  /\ commandNow = [w \in Worker |-> 0]
  /\ now = 0
  /\ accepted = [i \in Intent |-> 0]
  /\ acked = [i \in Intent |-> 0]
  /\ claimedAt = [i \in Intent |-> 0]

(* One destination, of any provider, set up before the first issue.        *)
SetUpOne == SettingsStep /\ Cardinality(destinations') <= 1 /\ opened = {}

ProvidersSpec == Init /\ [][SetUpOne \/ RunStep]_vars

(* Two providers with a destination each, fair workers, and providers that *)
(* may never answer.                                                       *)
TwoTasks == <<"webhook", "email">>
TwoProviders == d1 :> "webhook" @@ d2 :> "email"

(* Whether a provider took a message that it did not acknowledge is the    *)
(* question of another run.                                                *)
NoAnswerLost == acked' = acked => accepted' = accepted

SilenceSpec == Configured /\ [][RunStep /\ NoAnswerLost]_vars /\ WorkerFairness
=============================================================================
