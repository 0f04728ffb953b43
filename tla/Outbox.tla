------------------------------- MODULE Outbox -------------------------------
(***************************************************************************)
(* The notification outbox: the rows of notification_intents, written by   *)
(* the ingest transaction when an issue is opened, and the worker          *)
(* processes that claim due rows, send them through a provider and mark    *)
(* the outcome.                                                            *)
(*                                                                         *)
(* A claim is one SQL statement (FOR UPDATE SKIP LOCKED inside an UPDATE)  *)
(* and so one atomic step; the network send and the mark that follows it   *)
(* are separate steps between which anything else may happen, including    *)
(* the end of the worker process.  The eight providers run the same        *)
(* control flow in eight copies of the code; each copy has its own         *)
(* actions here, which share the operators that say what a copy does.      *)
(*                                                                         *)
(* The unit of time is the minute: the lease of 60 seconds is 1.           *)
(***************************************************************************)
EXTENDS Naturals, Sequences, FiniteSets

CONSTANTS
  Worker,       \* worker processes (error-tracker worker, all-in-one)
  Dest,         \* destination rows of all the *_destinations tables
  ProviderOf,   \* the provider each destination belongs to
  Rule,         \* alert_rules rows with trigger 'issue_opened'
  Issue,        \* issues that may be opened
  Tasks,        \* the notification tasks of a worker, in the order it runs them
  Limit,        \* NotificationBatchSize: rows one claim may take
  Faults,       \* whether processes may die and database calls may fail
  MaxTime,      \* bound of the model: last value of the clock
  MaxAttempts,  \* bound of the model: claims of one intent
  NULL

(* newWorker: the order in which the provider tasks are registered.  The   *)
(* last two are registered only when their sender is configured.           *)
newWorker ==
  <<"webhook", "discord", "google_chat", "ntfy", "microsoft_teams", "zulip",
    "telegram", "email">>

Provider == {newWorker[k] : k \in 1..8}

Intent == Dest \X Issue

ASSUME OutboxAssumption ==
  /\ ProviderOf \in [Dest -> Provider]
  /\ Tasks \in Seq(Provider) /\ Len(Tasks) > 0
  /\ \A j, k \in 1..Len(Tasks) : j < k =>
       \E a, b \in 1..8 : a < b /\ Tasks[j] = newWorker[a] /\ Tasks[k] = newWorker[b]
  /\ Limit \in Nat \ {0}
  /\ Faults \in BOOLEAN
  /\ MaxTime \in Nat
  /\ MaxAttempts \in Nat
  /\ NULL \notin Intent
  /\ NULL \notin Nat

VARIABLES
  \* database
  destinations,  \* enabled destination rows
  rules,         \* enabled rules
  actions,       \* alert_rule_actions: pairs of a rule and a destination
  opened,        \* issues whose opening was committed
  status,        \* status of every intent, "absent" before its insert
  attempts,
  nextAttempt,   \* next_attempt_at
  lockedUntil,   \* locked_until
  createdAt,     \* created_at
  \* workers
  pc,            \* "idle", "task", "deliver", "mark", "down"
  pos,           \* index of the running task
  batch,         \* deliveries claimed and not yet handled
  current,       \* the delivery being handled
  outcome,       \* what the sender returned: "delivered" or "failed"
  commandNow,    \* the time of the running batch command, 0 between batches
  \* world
  now,
  accepted,      \* messages of an intent the provider accepted
  acked,         \* ... and told the worker so
  claimedAt      \* time of the last claim of an intent

dbVars     == <<destinations, rules, actions, opened>>
rowVars    == <<status, attempts, nextAttempt, lockedUntil, createdAt>>
workerVars == <<pc, pos, batch, current, outcome, commandNow>>
worldVars  == <<now, accepted, acked, claimedAt>>
vars       == <<dbVars, rowVars, workerVars, worldVars>>

Status == {"absent", "pending", "delivering", "delivered", "failed"}

TypeOK ==
  /\ destinations \subseteq Dest
  /\ rules \subseteq Rule
  /\ actions \subseteq Rule \X Dest
  /\ opened \subseteq Issue
  /\ status \in [Intent -> Status]
  /\ attempts \in [Intent -> Nat]
  /\ nextAttempt \in [Intent -> Nat]
  /\ lockedUntil \in [Intent -> Nat \cup {NULL}]
  /\ createdAt \in [Intent -> Nat]
  /\ pc \in [Worker -> {"idle", "task", "deliver", "mark", "down"}]
  /\ pos \in [Worker -> 1..Len(Tasks)]
  /\ batch \in [Worker -> SUBSET Intent]
  /\ current \in [Worker -> Intent \cup {NULL}]
  /\ outcome \in [Worker -> {"none", "delivered", "failed"}]
  /\ commandNow \in [Worker -> Nat]
  /\ now \in Nat
  /\ accepted \in [Intent -> Nat]
  /\ acked \in [Intent -> Nat]
  /\ claimedAt \in [Intent -> Nat]

Init ==
  /\ destinations = {} /\ rules = {} /\ actions = {} /\ opened = {}
  /\ status = [i \in Intent |-> "absent"]
  /\ attempts = [i \in Intent |-> 0]
  /\ nextAttempt = [i \in Intent |-> 0]
  /\ lockedUntil = [i \in Intent |-> NULL]
  /\ createdAt = [i \in Intent |-> 0]
  /\ pc = [w \in Worker |-> "idle"]
  /\ pos = [w \in Worker |-> 1]
  /\ batch = [w \in Worker |-> {}]
  /\ current = [w \in Worker |-> NULL]
  /\ outcome = [w \in Worker |-> "none"]
  /\ commandNow = [w \in Worker |-> 0]
  /\ now = 0
  /\ accepted = [i \in Intent |-> 0]
  /\ acked = [i \in Intent |-> 0]
  /\ claimedAt = [i \in Intent |-> 0]

-----------------------------------------------------------------------------
(* Settings: destinations and issue-opened rules.                          *)

(* Adding a destination is an upsert that leaves it enabled; no operation  *)
(* disables one.                                                           *)
AddDestination(d, p) ==
  /\ ProviderOf[d] = p
  /\ destinations' = destinations \cup {d}
  /\ UNCHANGED <<rules, actions, opened, rowVars, workerVars, worldVars>>

(* CreateIssueOpenedAlert: the destination must be enabled; the rule and   *)
(* its action are upserted, both enabled.                                  *)
CreateIssueOpenedAlert(r, d) ==
  /\ d \in destinations
  /\ rules' = rules \cup {r}
  /\ actions' = actions \cup {<<r, d>>}
  /\ UNCHANGED <<destinations, opened, rowVars, workerVars, worldVars>>

(* SetIssueOpenedAlertStatus: the rule exists iff it has an action.        *)
SetIssueOpenedAlertStatus(r, enabled) ==
  /\ \E d \in Dest : <<r, d>> \in actions
  /\ rules' = IF enabled THEN rules \cup {r} ELSE rules \ {r}
  /\ UNCHANGED <<destinations, actions, opened, rowVars, workerVars, worldVars>>

-----------------------------------------------------------------------------
(* The producer: the last statements of the ingest transaction.            *)

destinationActionsForIssueOpenedRules ==
  {d \in destinations : \E r \in rules : <<r, d>> \in actions}

(* The rows whose dedupe_key is free are inserted, the others kept.        *)
insertNotificationIntent(S) ==
  LET fresh == {i \in S : status[i] = "absent"}
      set(f, v) == [i \in Intent |-> IF i \in fresh THEN v ELSE f[i]]
  IN /\ status' = set(status, "pending")
     /\ attempts' = set(attempts, 0)
     /\ nextAttempt' = set(nextAttempt, now)
     /\ createdAt' = set(createdAt, now)
     /\ UNCHANGED lockedUntil

(* One committed ingest that created the issue; an issue is created once.  *)
EnqueueIssueOpened(iss) ==
  /\ iss \notin opened
  /\ opened' = opened \cup {iss}
  /\ insertNotificationIntent({<<d, iss>> : d \in destinationActionsForIssueOpenedRules})
  /\ UNCHANGED <<destinations, rules, actions, workerVars, worldVars>>

-----------------------------------------------------------------------------
(* The worker loop.                                                        *)

(* The ticker fires and the first task starts.                             *)
StartTick(w) ==
  /\ pc[w] = "idle"
  /\ pc' = [pc EXCEPT ![w] = "task"]
  /\ UNCHANGED <<dbVars, rowVars, pos, batch, current, outcome, commandNow, worldVars>>

(* Slip: the loop over the tasks runs past the last one.                   *)
NextTaskPastEnd(w) ==
  /\ commandNow' = [commandNow EXCEPT ![w] = 0]
  /\ IF pos[w] <= Len(Tasks)
       THEN /\ pos' = [pos EXCEPT ![w] = @ + 1]
            /\ pc' = [pc EXCEPT ![w] = "task"]
       ELSE /\ pos' = [pos EXCEPT ![w] = 1]
            /\ pc' = [pc EXCEPT ![w] = "idle"]

(* The running task returned nil: the next one starts, or the tick ends.   *)
NextTask(w) ==
  /\ commandNow' = [commandNow EXCEPT ![w] = 0]
  /\ IF pos[w] < Len(Tasks)
       THEN /\ pos' = [pos EXCEPT ![w] = @ + 1]
            /\ pc' = [pc EXCEPT ![w] = "task"]
       ELSE /\ pos' = [pos EXCEPT ![w] = 1]
            /\ pc' = [pc EXCEPT ![w] = "idle"]

(* The process ends: it was killed, it received SIGTERM (the cancelled     *)
(* context makes every later send, mark and claim of the batch fail), or a *)
(* task returned an error.  What it held in memory is gone.                *)
Exit(w) ==
  /\ pc' = [pc EXCEPT ![w] = "down"]
  /\ pos' = [pos EXCEPT ![w] = 1]
  /\ batch' = [batch EXCEPT ![w] = {}]
  /\ current' = [current EXCEPT ![w] = NULL]
  /\ outcome' = [outcome EXCEPT ![w] = "none"]
  /\ commandNow' = [commandNow EXCEPT ![w] = 0]

Stop(w) ==
  /\ Faults
  /\ pc[w] # "down"
  /\ Exit(w)
  /\ UNCHANGED <<dbVars, rowVars, worldVars>>

Restart(w) ==
  /\ pc[w] = "down"
  /\ pc' = [pc EXCEPT ![w] = "idle"]
  /\ UNCHANGED <<dbVars, rowVars, pos, batch, current, outcome, commandNow, worldVars>>

Tick ==
  /\ now < MaxTime
  /\ now' = now + 1
  /\ UNCHANGED <<dbVars, rowVars, workerVars, accepted, acked, claimedAt>>

-----------------------------------------------------------------------------
(* Claiming.                                                               *)

(* Slip: a 'delivering' row whose lease expired is taken as well.          *)
ClaimableByLease(p) ==
  {i \in Intent :
     /\ ProviderOf[i[1]] = p
     /\ i[1] \in destinations
     /\ status[i] \in {"pending", "failed", "delivering"}
     /\ nextAttempt[i] <= now
     /\ lockedUntil[i] = NULL \/ lockedUntil[i] < now
     /\ attempts[i] < MaxAttempts}

Claimable(p) ==
  {i \in Intent :
     /\ ProviderOf[i[1]] = p
     /\ i[1] \in destinations
     /\ status[i] \in {"pending", "failed"}
     /\ nextAttempt[i] <= now
     /\ lockedUntil[i] = NULL \/ lockedUntil[i] < now
     /\ attempts[i] < MaxAttempts}

(* ORDER BY created_at LIMIT: the oldest rows, ties broken arbitrarily.    *)
IsOldest(S, C) ==
  /\ S \subseteq C
  /\ Cardinality(S) <= Limit
  /\ S # C => Cardinality(S) = Limit
  /\ \A i \in S, j \in C \ S : createdAt[i] <= createdAt[j]

(* Slip: the claim does not count the attempt.                             *)
ClaimRowsUncounted(S) ==
  LET set(f, v) == [i \in Intent |-> IF i \in S THEN v ELSE f[i]]
  IN /\ status' = set(status, "delivering")
     /\ lockedUntil' = set(lockedUntil, now + 1)
     /\ claimedAt' = set(claimedAt, now)
     /\ UNCHANGED <<attempts, nextAttempt, createdAt>>

ClaimRows(S) ==
  LET set(f, v) == [i \in Intent |-> IF i \in S THEN v ELSE f[i]]
  IN /\ status' = set(status, "delivering")
     /\ attempts' = [i \in Intent |-> IF i \in S THEN attempts[i] + 1 ELSE attempts[i]]
     /\ lockedUntil' = set(lockedUntil, now + 1)
     /\ claimedAt' = set(claimedAt, now)
     /\ UNCHANGED <<nextAttempt, createdAt>>

(* Slip: the claim runs in a transaction that stays open until the batch   *)
(* is sent, and waits for the rows of others instead of skipping them.     *)
ClaimWaitsForLocks(w, p) ==
  /\ pc[w] = "task" /\ Tasks[pos[w]] = p
  /\ \A v \in Worker \ {w} : \A i \in batch[v] : ProviderOf[i[1]] # p
  /\ \E S \in SUBSET Claimable(p) :
       /\ IsOldest(S, Claimable(p))
       /\ ClaimRows(S)
       /\ batch' = [batch EXCEPT ![w] = S]
       /\ IF S = {}
            THEN NextTask(w)
            ELSE /\ pc' = [pc EXCEPT ![w] = "deliver"]
                 /\ commandNow' = [commandNow EXCEPT ![w] = now]
                 /\ UNCHANGED pos
  /\ UNCHANGED <<dbVars, current, outcome, now, accepted, acked>>

(* RunOnce of provider p up to the return of its claim.                    *)
Claim(w, p) ==
  /\ pc[w] = "task" /\ Tasks[pos[w]] = p
  /\ \E S \in SUBSET Claimable(p) :
       /\ IsOldest(S, Claimable(p))
       /\ ClaimRows(S)
       /\ batch' = [batch EXCEPT ![w] = S]
       /\ IF S = {}
            THEN NextTask(w)
            ELSE /\ pc' = [pc EXCEPT ![w] = "deliver"]
                 /\ commandNow' = [commandNow EXCEPT ![w] = now]
                 /\ UNCHANGED pos
  /\ UNCHANGED <<dbVars, current, outcome, now, accepted, acked>>

(* The claim committed but a claimed row does not scan into a delivery:    *)
(* the batch is dropped, the task fails and the worker ends.               *)
ScanFails(w, p) ==
  /\ Faults
  /\ pc[w] = "task" /\ Tasks[pos[w]] = p
  /\ \E S \in SUBSET Claimable(p) :
       /\ S # {}
       /\ IsOldest(S, Claimable(p))
       /\ ClaimRows(S)
  /\ Exit(w)
  /\ UNCHANGED <<dbVars, now, accepted, acked>>

-----------------------------------------------------------------------------
(* Sending.                                                                *)

Resolve(w, i, p, o, a, k) ==
  /\ pc[w] = "deliver" /\ Tasks[pos[w]] = p
  /\ i \in batch[w]
  /\ pc' = [pc EXCEPT ![w] = "mark"]
  /\ current' = [current EXCEPT ![w] = i]
  /\ outcome' = [outcome EXCEPT ![w] = o]
  /\ accepted' = [accepted EXCEPT ![i] = @ + a]
  /\ acked' = [acked EXCEPT ![i] = @ + k]
  /\ UNCHANGED <<dbVars, rowVars, pos, batch, commandNow, now, claimedAt>>

(* deliver*Delivery up to the mark.  Nothing is sent when the destination  *)
(* does not resolve or the message cannot be built.  A send ends in an     *)
(* acknowledgement, in a refusal or error, or in an error (a timeout, a    *)
(* lost response) although the provider did accept the message.            *)
Deliver(w, p) ==
  \E i \in Intent :
    \/ Resolve(w, i, p, "failed", 0, 0)
    \/ Resolve(w, i, p, "failed", 1, 0)
    \/ Resolve(w, i, p, "delivered", 1, 1)

-----------------------------------------------------------------------------
(* Marking.                                                                *)

(* Slip: a delivery that failed ends the batch.                            *)
HandledUntilFailure(w) ==
  LET rest == IF outcome[w] = "failed" THEN {} ELSE batch[w] \ {current[w]}
  IN /\ batch' = [batch EXCEPT ![w] = rest]
     /\ current' = [current EXCEPT ![w] = NULL]
     /\ outcome' = [outcome EXCEPT ![w] = "none"]
     /\ IF rest = {}
          THEN NextTask(w)
          ELSE /\ pc' = [pc EXCEPT ![w] = "deliver"]
               /\ UNCHANGED <<pos, commandNow>>

(* The delivery is handled: the next one of the batch, or the next task.   *)
Handled(w) ==
  LET rest == batch[w] \ {current[w]}
  IN /\ batch' = [batch EXCEPT ![w] = rest]
     /\ current' = [current EXCEPT ![w] = NULL]
     /\ outcome' = [outcome EXCEPT ![w] = "none"]
     /\ IF rest = {}
          THEN NextTask(w)
          ELSE /\ pc' = [pc EXCEPT ![w] = "deliver"]
               /\ UNCHANGED <<pos, commandNow>>

MarkDelivered(w, p) ==
  /\ pc[w] = "mark" /\ outcome[w] = "delivered" /\ Tasks[pos[w]] = p
  /\ status' = [status EXCEPT ![current[w]] = "delivered"]
  /\ lockedUntil' = [lockedUntil EXCEPT ![current[w]] = NULL]
  /\ Handled(w)
  /\ UNCHANGED <<dbVars, attempts, nextAttempt, createdAt, worldVars>>

(* 1 << k for the k the SQL expression admits.                             *)
Shift == <<1, 2, 4, 8, 16, 32, 64>>

AtMost(a, b) == IF a <= b THEN a ELSE b

(* Slip: the exponential part alone, without now() + 1 minute.             *)
BackoffExponentialOnly(n) == AtMost(60, Shift[1 + AtMost(IF n = 0 THEN 0 ELSE n - 1, 6)])

(* One minute, plus least(60, 1 << least(greatest(attempts - 1, 0), 6)).   *)
Backoff(n) == 1 + AtMost(60, Shift[1 + AtMost(IF n = 0 THEN 0 ELSE n - 1, 6)])

(* Slip: the failed mark is written with the status of another mark.       *)
MarkFailedAsDelivered(w, p) ==
  /\ pc[w] = "mark" /\ outcome[w] = "failed" /\ Tasks[pos[w]] = p
  /\ status' = [status EXCEPT ![current[w]] = "delivered"]
  /\ lockedUntil' = [lockedUntil EXCEPT ![current[w]] = NULL]
  /\ Handled(w)
  /\ UNCHANGED <<dbVars, attempts, nextAttempt, createdAt, worldVars>>

MarkFailed(w, p) ==
  /\ pc[w] = "mark" /\ outcome[w] = "failed" /\ Tasks[pos[w]] = p
  /\ status' = [status EXCEPT ![current[w]] = "failed"]
  /\ lockedUntil' = [lockedUntil EXCEPT ![current[w]] = NULL]
  /\ nextAttempt' = [nextAttempt EXCEPT
                       ![current[w]] = commandNow[w] + Backoff(attempts[current[w]])]
  /\ Handled(w)
  /\ UNCHANGED <<dbVars, attempts, createdAt, worldVars>>

(* The UPDATE of a mark fails.  Its error only changes the counts of the   *)
(* batch receipt, which nobody reads: the worker goes on.                  *)
MarkFails(w) ==
  /\ Faults
  /\ pc[w] = "mark"
  /\ Handled(w)
  /\ UNCHANGED <<dbVars, rowVars, worldVars>>

-----------------------------------------------------------------------------
(* The eight copies.                                                       *)

addTelegramDestinationForProject(d) == AddDestination(d, "telegram")
addWebhookDestinationForProject(d) == AddDestination(d, "webhook")
addEmailDestinationForProject(d) == AddDestination(d, "email")
addDiscordDestinationForProject(d) == AddDestination(d, "discord")
addGoogleChatDestinationForProject(d) == AddDestination(d, "google_chat")
addNtfyDestinationForProject(d) == AddDestination(d, "ntfy")
addTeamsDestinationForProject(d) == AddDestination(d, "microsoft_teams")
addZulipDestinationForProject(d) == AddDestination(d, "zulip")

AddAnyDestination(d) ==
  \/ addTelegramDestinationForProject(d)
  \/ addWebhookDestinationForProject(d)
  \/ addEmailDestinationForProject(d)
  \/ addDiscordDestinationForProject(d)
  \/ addGoogleChatDestinationForProject(d)
  \/ addNtfyDestinationForProject(d)
  \/ addTeamsDestinationForProject(d)
  \/ addZulipDestinationForProject(d)

ClaimTelegramDeliveries(w) == Claim(w, "telegram")
ClaimWebhookDeliveries(w) == Claim(w, "webhook")
ClaimEmailDeliveries(w) == Claim(w, "email")
ClaimDiscordDeliveries(w) == Claim(w, "discord")
ClaimGoogleChatDeliveries(w) == Claim(w, "google_chat")
ClaimNtfyDeliveries(w) == Claim(w, "ntfy")
ClaimTeamsDeliveries(w) == Claim(w, "microsoft_teams")
ClaimZulipDeliveries(w) == Claim(w, "zulip")

scanTelegramDelivery(w) == ScanFails(w, "telegram")
scanWebhookDelivery(w) == ScanFails(w, "webhook")
scanEmailDelivery(w) == ScanFails(w, "email")
scanDiscordDelivery(w) == ScanFails(w, "discord")
scanGoogleChatDelivery(w) == ScanFails(w, "google_chat")
scanNtfyDelivery(w) == ScanFails(w, "ntfy")
scanTeamsDelivery(w) == ScanFails(w, "microsoft_teams")
scanZulipDelivery(w) == ScanFails(w, "zulip")

deliverTelegramDelivery(w) == Deliver(w, "telegram")
deliverWebhookDelivery(w) == Deliver(w, "webhook")
deliverEmailDelivery(w) == Deliver(w, "email")
deliverDiscordDelivery(w) == Deliver(w, "discord")
deliverGoogleChatDelivery(w) == Deliver(w, "google_chat")
deliverNtfyDelivery(w) == Deliver(w, "ntfy")
deliverTeamsDelivery(w) == Deliver(w, "microsoft_teams")
deliverZulipDelivery(w) == Deliver(w, "zulip")

MarkTelegramDelivered(w) == MarkDelivered(w, "telegram")
MarkWebhookDelivered(w) == MarkDelivered(w, "webhook")
MarkEmailDelivered(w) == MarkDelivered(w, "email")
MarkDiscordDelivered(w) == MarkDelivered(w, "discord")
MarkGoogleChatDelivered(w) == MarkDelivered(w, "google_chat")
MarkNtfyDelivered(w) == MarkDelivered(w, "ntfy")
MarkTeamsDelivered(w) == MarkDelivered(w, "microsoft_teams")
MarkZulipDelivered(w) == MarkDelivered(w, "zulip")

MarkTelegramFailed(w) == MarkFailed(w, "telegram")
MarkWebhookFailed(w) == MarkFailed(w, "webhook")
MarkEmailFailed(w) == MarkFailed(w, "email")
MarkDiscordFailed(w) == MarkFailed(w, "discord")
MarkGoogleChatFailed(w) == MarkFailed(w, "google_chat")
MarkNtfyFailed(w) == MarkFailed(w, "ntfy")
MarkTeamsFailed(w) == MarkFailed(w, "microsoft_teams")
MarkZulipFailed(w) == MarkFailed(w, "zulip")

ClaimDeliveries(w) ==
  \/ ClaimTelegramDeliveries(w)
  \/ ClaimWebhookDeliveries(w)
  \/ ClaimEmailDeliveries(w)
  \/ ClaimDiscordDeliveries(w)
  \/ ClaimGoogleChatDeliveries(w)
  \/ ClaimNtfyDeliveries(w)
  \/ ClaimTeamsDeliveries(w)
  \/ ClaimZulipDeliveries(w)

ScanError(w) ==
  \/ scanTelegramDelivery(w)
  \/ scanWebhookDelivery(w)
  \/ scanEmailDelivery(w)
  \/ scanDiscordDelivery(w)
  \/ scanGoogleChatDelivery(w)
  \/ scanNtfyDelivery(w)
  \/ scanTeamsDelivery(w)
  \/ scanZulipDelivery(w)

DeliverDelivery(w) ==
  \/ deliverTelegramDelivery(w)
  \/ deliverWebhookDelivery(w)
  \/ deliverEmailDelivery(w)
  \/ deliverDiscordDelivery(w)
  \/ deliverGoogleChatDelivery(w)
  \/ deliverNtfyDelivery(w)
  \/ deliverTeamsDelivery(w)
  \/ deliverZulipDelivery(w)

MarkSent(w) ==
  \/ MarkTelegramDelivered(w)
  \/ MarkWebhookDelivered(w)
  \/ MarkEmailDelivered(w)
  \/ MarkDiscordDelivered(w)
  \/ MarkGoogleChatDelivered(w)
  \/ MarkNtfyDelivered(w)
  \/ MarkTeamsDelivered(w)
  \/ MarkZulipDelivered(w)

MarkUnsent(w) ==
  \/ MarkTelegramFailed(w)
  \/ MarkWebhookFailed(w)
  \/ MarkEmailFailed(w)
  \/ MarkDiscordFailed(w)
  \/ MarkGoogleChatFailed(w)
  \/ MarkNtfyFailed(w)
  \/ MarkTeamsFailed(w)
  \/ MarkZulipFailed(w)

WorkerStep(w) ==
  StartTick(w) \/ ClaimDeliveries(w) \/ DeliverDelivery(w) \/ MarkSent(w) \/ MarkUnsent(w)

WorkerFault(w) == Stop(w) \/ ScanError(w) \/ MarkFails(w)

SettingsStep ==
  \/ \E d \in Dest : AddAnyDestination(d)
  \/ \E r \in Rule, d \in Dest : CreateIssueOpenedAlert(r, d)
  \/ \E r \in Rule, enabled \in BOOLEAN : SetIssueOpenedAlertStatus(r, enabled)

RunStep ==
  \/ \E iss \in Issue : EnqueueIssueOpened(iss)
  \/ \E w \in Worker : WorkerStep(w) \/ WorkerFault(w) \/ Restart(w)
  \/ Tick

Next == SettingsStep \/ RunStep

Spec == Init /\ [][Next]_vars

(* The worker goroutine is scheduled, its statements return, and a process *)
(* that ended is started again by its supervisor.                          *)
WorkerFairness ==
  /\ \A w \in Worker :
       WF_vars(StartTick(w) \/ ClaimDeliveries(w) \/ MarkSent(w) \/ MarkUnsent(w))
  /\ \A w \in Worker : WF_vars(Restart(w))
  /\ WF_vars(Tick)

(* Nothing is assumed of the providers: the worker hands http.DefaultClient,*)
(* which has no timeout, to the senders, and a send that was started may   *)
(* never return.                                                           *)
FairSpec == Spec /\ WorkerFairness

-----------------------------------------------------------------------------
(* Properties.                                                             *)

Holds(w, i) == i \in batch[w]

(* Between a claim and its mark an intent belongs to one worker: no two    *)
(* workers hold it, its row is 'delivering', and the delivery a worker is  *)
(* handling is one it still holds (the claim statements and the marks).    *)
ExclusiveClaim ==
  /\ \A w \in Worker, i \in Intent : Holds(w, i) =>
       /\ status[i] = "delivering"
       /\ \A v \in Worker : Holds(v, i) => v = w
  /\ \A w \in Worker : pc[w] = "mark" => current[w] \in batch[w]

(* A worker that was told the provider took the message never lets it be   *)
(* sent again: whatever happens to the mark that should record it, the     *)
(* provider accepts no further copy.                                       *)
NoResendAfterAck ==
  [][\A i \in Intent : acked[i] > 0 => accepted'[i] = accepted[i]]_vars

(* The attempts column bounds what the outside has seen: every message a   *)
(* provider accepted is paid for by a counted attempt, no intent is        *)
(* acknowledged twice, and 'delivered' rows are the acknowledged ones.     *)
AttemptsCoverSends ==
  \A i \in Intent :
    /\ accepted[i] <= attempts[i]
    /\ acked[i] <= 1
    /\ status[i] = "delivered" => acked[i] = 1

(* A failing intent is tried again after 2, 3, 5, 9, 17, 33 and then every *)
(* 61 minutes at the earliest, counted from claim to claim: the mark       *)
(* computes the time from the start of its batch, and may itself come much *)
(* later, or after other workers have run their own batches.               *)
MinutesBeforeRetry == <<2, 3, 5, 9, 17, 33, 61>>

RetrySpacing ==
  [][\A i \in Intent :
       (attempts[i] > 0 /\ attempts'[i] # attempts[i])
         => now >= claimedAt[i] + MinutesBeforeRetry[AtMost(attempts[i], 7)]]_vars

(* A claimed row nobody works on any more (its worker ended, its mark      *)
(* failed, its batch did not scan) keeps its status for ever: locked_until *)
(* is written as a lease of 60 seconds, but no claim considers a           *)
(* 'delivering' row, so its expiry changes nothing.                        *)
Stranded(i) == status[i] = "delivering" /\ \A w \in Worker : ~Holds(w, i)

StrandedForever == [][\A i \in Intent : Stranded(i) => Stranded(i)']_vars

(* What a provider costs that never answers (newWorker, workflow.go).      *)
(* Without faults a claimed intent is settled, after its neighbours in the *)
(* batch that fail as after those that succeed, unless the worker that     *)
(* claimed it waits for ever in the send of it or of one before it.        *)
SettledUnlessSilent ==
  \A i \in Intent :
    status[i] = "delivering" ~>
      \/ status[i] \in {"delivered", "failed"}
      \/ \E w \in Worker : [](pc[w] = "deliver" /\ Holds(w, i))

(* And as long as one worker comes back from its sends, every intent that  *)
(* is due is claimed, of any provider the workers have a task for: a       *)
(* worker that waits for ever keeps the rows it holds, and no others.      *)
ClaimedByAnother ==
  (\E w \in Worker : []<>(pc[w] # "deliver")) =>
    \A p \in {Tasks[k] : k \in 1..Len(Tasks)} : \A i \in Intent :
      i \in Claimable(p) ~> status[i] \notin {"pending", "failed"}

SilenceContained == SettledUnlessSilent /\ ClaimedByAnother

-----------------------------------------------------------------------------
(* Refinement: the rows and the memory of the workers implement the        *)
(* life cycle.                                                             *)

Acknowledged(i) ==
  \E w \in Worker : pc[w] = "mark" /\ current[w] = i /\ outcome[w] = "delivered"

PhaseOf(i) ==
  CASE status[i] = "absent" -> "none"
    [] status[i] \in {"pending", "failed"} -> "queued"
    [] status[i] = "delivered" -> "done"
    [] Stranded(i) -> "lost"
    [] OTHER -> IF Acknowledged(i) THEN "acknowledged" ELSE "taken"

Lifecycle == INSTANCE IntentLifecycle WITH phase <- [i \in Intent |-> PhaseOf(i)]

(* Every step of the outbox is a step of the life cycle: an acknowledged   *)
(* notification never returns to the queue, a claimed one leaves the hands *)
(* of its worker only through a mark or a fault.                           *)
ImplementsLifecycle == Lifecycle!Spec

=============================================================================
