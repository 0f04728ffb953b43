---------------------------- MODULE OutboxProofs ----------------------------
(***************************************************************************)
(* Proofs about the outbox, for any number of workers, destinations,       *)
(* issues, rules and tasks, any batch size and any bounds.                 *)
(***************************************************************************)
EXTENDS Outbox, TLAPS

-----------------------------------------------------------------------------
(* Types.                                                                  *)

(* The delay that MarkFailed adds is the one an operator reads off the     *)
(* table MinutesBeforeRetry (the expression of Mark{P}Failed).             *)
LEMMA BackoffTable ==
  ASSUME NEW n \in Nat, n > 0
  PROVE  /\ AtMost(n, 7) \in 1..7
         /\ Backoff(n) = MinutesBeforeRetry[AtMost(n, 7)]
         /\ Backoff(n) \in Nat
<1>1. CASE n \in 1..7
  BY <1>1 DEF AtMost, Backoff, Shift, MinutesBeforeRetry
<1>2. CASE n > 7
  BY <1>2 DEF AtMost, Backoff, Shift, MinutesBeforeRetry
<1> QED
  BY <1>1, <1>2

(* The wait before a retry is a number.                                    *)
LEMMA BackoffNat ==
  ASSUME NEW n \in Nat
  PROVE  Backoff(n) \in Nat
<1>1. CASE n = 0
  BY <1>1 DEF AtMost, Backoff, Shift
<1> QED
  BY <1>1, BackoffTable

(* There are tasks, as many as a number says.                              *)
LEMMA TasksLength == Len(Tasks) \in Nat /\ Len(Tasks) > 0
BY OutboxAssumption DEF OutboxAssumption

(* A worker goes to its next task, or the round begins anew.               *)
LEMMA NextTaskType ==
  ASSUME TypeOK, NEW w \in Worker, NextTask(w)
  PROVE  /\ pc' \in [Worker -> {"idle", "task", "deliver", "mark", "down"}]
         /\ pos' \in [Worker -> 1..Len(Tasks)]
         /\ commandNow' \in [Worker -> Nat]
<1> USE TasksLength
<1>1. commandNow' \in [Worker -> Nat]
  BY DEF TypeOK, NextTask
<1>2. CASE pos[w] < Len(Tasks)
  <2>1. pos[w] + 1 \in 1..Len(Tasks)
    BY <1>2 DEF TypeOK
  <2> QED
    BY <1>1, <1>2, <2>1 DEF TypeOK, NextTask
<1>3. CASE ~(pos[w] < Len(Tasks))
  <2>1. 1 \in 1..Len(Tasks)
    OBVIOUS
  <2> QED
    BY <1>1, <1>3, <2>1 DEF TypeOK, NextTask
<1> QED
  BY <1>2, <1>3

(* The rows that a claim takes have an attempt more and a lease.           *)
LEMMA ClaimRowsType ==
  ASSUME TypeOK, NEW S \in SUBSET Intent, ClaimRows(S)
  PROVE  /\ status' \in [Intent -> Status]
         /\ attempts' \in [Intent -> Nat]
         /\ nextAttempt' \in [Intent -> Nat]
         /\ lockedUntil' \in [Intent -> Nat \cup {NULL}]
         /\ createdAt' \in [Intent -> Nat]
         /\ claimedAt' \in [Intent -> Nat]
BY DEF TypeOK, ClaimRows, Status

(* A claim keeps the types.                                                *)
LEMMA ClaimType ==
  ASSUME TypeOK, NEW w \in Worker, NEW p, Claim(w, p)
  PROVE  TypeOK'
<1>1. PICK S \in SUBSET Claimable(p) :
         /\ ClaimRows(S)
         /\ batch' = [batch EXCEPT ![w] = S]
         /\ IF S = {}
              THEN NextTask(w)
              ELSE /\ pc' = [pc EXCEPT ![w] = "deliver"]
                   /\ commandNow' = [commandNow EXCEPT ![w] = now]
                   /\ UNCHANGED pos
  BY DEF Claim
<1>2. S \in SUBSET Intent
  BY DEF Claimable
<1>3. /\ pc' \in [Worker -> {"idle", "task", "deliver", "mark", "down"}]
      /\ pos' \in [Worker -> 1..Len(Tasks)]
      /\ commandNow' \in [Worker -> Nat]
  BY <1>1, NextTaskType DEF TypeOK
<1>4. batch' \in [Worker -> SUBSET Intent]
  BY <1>1, <1>2 DEF TypeOK
<1>5. UNCHANGED <<dbVars, current, outcome, now, accepted, acked>>
  BY DEF Claim
<1> QED
  BY <1>1, <1>2, <1>3, <1>4, <1>5, ClaimRowsType DEF TypeOK, dbVars

(* A worker that ends has nothing in hand.                                 *)
LEMMA ExitType ==
  ASSUME TypeOK, NEW w \in Worker, Exit(w)
  PROVE  /\ pc' \in [Worker -> {"idle", "task", "deliver", "mark", "down"}]
         /\ pos' \in [Worker -> 1..Len(Tasks)]
         /\ batch' \in [Worker -> SUBSET Intent]
         /\ current' \in [Worker -> Intent \cup {NULL}]
         /\ outcome' \in [Worker -> {"none", "delivered", "failed"}]
         /\ commandNow' \in [Worker -> Nat]
BY TasksLength DEF TypeOK, Exit

(* A worker that has handled a row goes to the next of its batch, or to    *)
(* its next task.                                                          *)
LEMMA HandledType ==
  ASSUME TypeOK, NEW w \in Worker, Handled(w)
  PROVE  /\ pc' \in [Worker -> {"idle", "task", "deliver", "mark", "down"}]
         /\ pos' \in [Worker -> 1..Len(Tasks)]
         /\ batch' \in [Worker -> SUBSET Intent]
         /\ current' \in [Worker -> Intent \cup {NULL}]
         /\ outcome' \in [Worker -> {"none", "delivered", "failed"}]
         /\ commandNow' \in [Worker -> Nat]
<1> DEFINE rest == batch[w] \ {current[w]}
<1>1. /\ batch' = [batch EXCEPT ![w] = rest]
      /\ current' = [current EXCEPT ![w] = NULL]
      /\ outcome' = [outcome EXCEPT ![w] = "none"]
  BY DEF Handled
<1>2. rest \in SUBSET Intent
  BY DEF TypeOK
<1>3. /\ batch' \in [Worker -> SUBSET Intent]
      /\ current' \in [Worker -> Intent \cup {NULL}]
      /\ outcome' \in [Worker -> {"none", "delivered", "failed"}]
  BY <1>1, <1>2 DEF TypeOK
<1>4. CASE rest = {}
  <2>1. NextTask(w)
    BY <1>4 DEF Handled
  <2> QED
    BY <2>1, <1>3, NextTaskType
<1>5. CASE rest # {}
  <2>1. pc' = [pc EXCEPT ![w] = "deliver"] /\ UNCHANGED <<pos, commandNow>>
    BY <1>5 DEF Handled
  <2> QED
    BY <2>1, <1>3 DEF TypeOK
<1> QED
  BY <1>4, <1>5

(* A delivery keeps the types.                                             *)
LEMMA ResolveType ==
  ASSUME TypeOK, NEW w \in Worker, NEW p, Deliver(w, p)
  PROVE  TypeOK'
<1>1. PICK i \in Intent, o \in {"delivered", "failed"}, a \in 0..1, k \in 0..1 :
         Resolve(w, i, p, o, a, k)
  BY DEF Deliver
<1> USE <1>1 DEF Resolve, TypeOK
<1>2. /\ pc' \in [Worker -> {"idle", "task", "deliver", "mark", "down"}]
      /\ current' \in [Worker -> Intent \cup {NULL}]
      /\ outcome' \in [Worker -> {"none", "delivered", "failed"}]
  OBVIOUS
<1>3. accepted' \in [Intent -> Nat] /\ acked' \in [Intent -> Nat]
  OBVIOUS
<1> QED
  BY <1>2, <1>3 DEF dbVars, rowVars

(* The delivery being marked is an intent: a part of the invariant that    *)
(* the types of the marks need.                                            *)
MarkingCurrent == \A w \in Worker : pc[w] = "mark" => current[w] \in batch[w]

(* A mark keeps the types: it is of the row in hand.                       *)
LEMMA MarkType ==
  ASSUME TypeOK, MarkingCurrent, NEW w \in Worker, NEW p,
         MarkDelivered(w, p) \/ MarkFailed(w, p) \/ MarkFails(w)
  PROVE  TypeOK'
<1>1. Handled(w)
  BY DEF MarkDelivered, MarkFailed, MarkFails
<1>2. pc[w] = "mark"
  BY DEF MarkDelivered, MarkFailed, MarkFails
<1>3. current[w] \in Intent
  BY <1>2 DEF MarkingCurrent, TypeOK
<1>4. commandNow[w] + Backoff(attempts[current[w]]) \in Nat
  <2>1. attempts[current[w]] \in Nat /\ commandNow[w] \in Nat
    BY <1>3 DEF TypeOK
  <2>2. Backoff(attempts[current[w]]) \in Nat
    BY <2>1, BackoffNat, Zenon
  <2> QED
    BY <2>1, <2>2
<1>5. /\ status' \in [Intent -> Status]
      /\ lockedUntil' \in [Intent -> Nat \cup {NULL}]
      /\ nextAttempt' \in [Intent -> Nat]
  <2>1. CASE MarkDelivered(w, p)
    BY <2>1, <1>3 DEF MarkDelivered, TypeOK, Status
  <2>2. CASE MarkFailed(w, p)
    BY <2>2, <1>3, <1>4 DEF MarkFailed, TypeOK, Status
  <2>3. CASE MarkFails(w)
    BY <2>3 DEF MarkFails, TypeOK, rowVars
  <2> QED
    BY <2>1, <2>2, <2>3
<1>6. UNCHANGED <<dbVars, attempts, createdAt, worldVars>>
  BY DEF MarkDelivered, MarkFailed, MarkFails, rowVars
<1> QED
  BY <1>1, <1>5, <1>6, HandledType DEF TypeOK, dbVars, worldVars

(* New rows keep the types.                                                *)
LEMMA EnqueueType ==
  ASSUME TypeOK, NEW iss \in Issue, EnqueueIssueOpened(iss)
  PROVE  TypeOK'
<1>1. PICK S : insertNotificationIntent(S)
  BY DEF EnqueueIssueOpened
<1>2. /\ status' \in [Intent -> Status]
      /\ attempts' \in [Intent -> Nat]
      /\ nextAttempt' \in [Intent -> Nat]
      /\ lockedUntil' \in [Intent -> Nat \cup {NULL}]
      /\ createdAt' \in [Intent -> Nat]
  BY <1>1 DEF insertNotificationIntent, TypeOK, Status
<1> QED
  BY <1>2 DEF EnqueueIssueOpened, TypeOK, workerVars, worldVars

(* A claim whose answer cannot be read keeps the types.                    *)
LEMMA ScanFailsType ==
  ASSUME TypeOK, NEW w \in Worker, NEW p, ScanFails(w, p)
  PROVE  TypeOK'
<1>1. PICK S \in SUBSET Claimable(p) : ClaimRows(S)
  BY DEF ScanFails
<1>2. S \in SUBSET Intent
  BY DEF Claimable
<1>3. Exit(w) /\ UNCHANGED <<dbVars, now, accepted, acked>>
  BY DEF ScanFails
<1> QED
  BY <1>1, <1>2, <1>3, ClaimRowsType, ExitType DEF TypeOK, dbVars

-----------------------------------------------------------------------------
(* The steps.                                                              *)

(* Every copy of the delivery code is covered by the operators the copies  *)
(* share, so a fact about those is a fact about all eight.                 *)
LEMMA Copies ==
  ASSUME NEW w \in Worker, WorkerStep(w) \/ WorkerFault(w)
  PROVE  \/ StartTick(w) \/ Stop(w) \/ MarkFails(w)
         \/ \E p \in Provider :
              \/ Claim(w, p) \/ ScanFails(w, p) \/ Deliver(w, p)
              \/ MarkDelivered(w, p) \/ MarkFailed(w, p)
<1>1. /\ "telegram" \in Provider /\ "webhook" \in Provider /\ "email" \in Provider
      /\ "discord" \in Provider /\ "google_chat" \in Provider /\ "ntfy" \in Provider
      /\ "microsoft_teams" \in Provider /\ "zulip" \in Provider
  <2>1. \A k \in 1..8 : newWorker[k] \in Provider
    BY DEF Provider
  <2> QED
    BY <2>1 DEF newWorker
<1>2. ClaimDeliveries(w) => \E p \in Provider : Claim(w, p)
  BY <1>1, Zenon DEF ClaimDeliveries, ClaimTelegramDeliveries, ClaimWebhookDeliveries,
    ClaimEmailDeliveries, ClaimDiscordDeliveries, ClaimGoogleChatDeliveries,
    ClaimNtfyDeliveries, ClaimTeamsDeliveries, ClaimZulipDeliveries
<1>3. ScanError(w) => \E p \in Provider : ScanFails(w, p)
  BY <1>1, Zenon DEF ScanError, scanTelegramDelivery, scanWebhookDelivery,
    scanEmailDelivery, scanDiscordDelivery, scanGoogleChatDelivery,
    scanNtfyDelivery, scanTeamsDelivery, scanZulipDelivery
<1>4. DeliverDelivery(w) => \E p \in Provider : Deliver(w, p)
  BY <1>1, Zenon DEF DeliverDelivery, deliverTelegramDelivery, deliverWebhookDelivery,
    deliverEmailDelivery, deliverDiscordDelivery, deliverGoogleChatDelivery,
    deliverNtfyDelivery, deliverTeamsDelivery, deliverZulipDelivery
<1>5. MarkSent(w) => \E p \in Provider : MarkDelivered(w, p)
  BY <1>1, Zenon DEF MarkSent, MarkTelegramDelivered, MarkWebhookDelivered,
    MarkEmailDelivered, MarkDiscordDelivered, MarkGoogleChatDelivered,
    MarkNtfyDelivered, MarkTeamsDelivered, MarkZulipDelivered
<1>6. MarkUnsent(w) => \E p \in Provider : MarkFailed(w, p)
  BY <1>1, Zenon DEF MarkUnsent, MarkTelegramFailed, MarkWebhookFailed,
    MarkEmailFailed, MarkDiscordFailed, MarkGoogleChatFailed,
    MarkNtfyFailed, MarkTeamsFailed, MarkZulipFailed
<1> QED
  BY <1>2, <1>3, <1>4, <1>5, <1>6, Zenon DEF WorkerStep, WorkerFault

(* Steps that touch neither the rows, nor the messages, nor a worker that  *)
(* is at work.                                                             *)
Quiet ==
  /\ destinations' \subseteq Dest /\ rules' \subseteq Rule
  /\ actions' \subseteq Rule \X Dest /\ opened' \subseteq Issue
  /\ UNCHANGED <<rowVars, accepted, acked, claimedAt, batch, current, outcome, commandNow, pos>>
  /\ now' \in {now, now + 1}
  /\ pc' \in [Worker -> {"idle", "task", "deliver", "mark", "down"}]
  /\ \A w \in Worker : pc'[w] = pc[w] \/ (pc[w] \in {"idle", "down"} /\ pc'[w] \in {"idle", "task"})

(* Every step is one of these, as far as the invariant is concerned.       *)
LEMMA Steps ==
  ASSUME TypeOK, [Next]_vars
  PROVE  \/ Quiet
         \/ \E iss \in Issue : EnqueueIssueOpened(iss)
         \/ \E w \in Worker : Stop(w) \/ MarkFails(w)
         \/ \E w \in Worker, p \in Provider :
              \/ Claim(w, p) \/ ScanFails(w, p) \/ Deliver(w, p)
              \/ MarkDelivered(w, p) \/ MarkFailed(w, p)
<1>1. CASE UNCHANGED vars
  BY <1>1 DEF Quiet, vars, dbVars, rowVars, workerVars, worldVars, TypeOK
<1>2. CASE SettingsStep
  BY <1>2 DEF SettingsStep, AddAnyDestination, AddDestination,
    addTelegramDestinationForProject, addWebhookDestinationForProject,
    addEmailDestinationForProject, addDiscordDestinationForProject,
    addGoogleChatDestinationForProject, addNtfyDestinationForProject,
    addTeamsDestinationForProject, addZulipDestinationForProject, CreateIssueOpenedAlert,
    SetIssueOpenedAlertStatus, Quiet, workerVars, worldVars, TypeOK
<1>3. CASE Tick
  BY <1>3 DEF Tick, Quiet, dbVars, workerVars, TypeOK
<1>4. ASSUME NEW w \in Worker, StartTick(w) \/ Restart(w)
      PROVE  Quiet
  BY <1>4 DEF StartTick, Restart, Quiet, dbVars, worldVars, TypeOK
<1>5. ASSUME NEW w \in Worker, WorkerStep(w) \/ WorkerFault(w), ~StartTick(w)
      PROVE  \/ Stop(w) \/ MarkFails(w)
             \/ \E p \in Provider :
                  \/ Claim(w, p) \/ ScanFails(w, p) \/ Deliver(w, p)
                  \/ MarkDelivered(w, p) \/ MarkFailed(w, p)
  BY <1>5, Copies, Zenon
<1> QED
  BY <1>1, <1>2, <1>3, <1>4, <1>5, Zenon DEF Next, RunStep

(* A step that touches no row keeps the types.                             *)
LEMMA QuietType == TypeOK /\ Quiet => TypeOK'
BY DEF Quiet, TypeOK, rowVars

-----------------------------------------------------------------------------
(* The inductive invariant.                                                *)

(* What a worker holds is its own: the first part of ExclusiveClaim.       *)
Owned ==
  \A w \in Worker, i \in Intent : i \in batch[w] =>
    /\ status[i] = "delivering"
    /\ \A v \in Worker : i \in batch[v] => v = w

(* A worker that is not at a batch holds nothing.                          *)
IdleHoldsNothing ==
  \A w \in Worker : pc[w] \notin {"deliver", "mark"} => batch[w] = {}

(* An acknowledged intent is out of the queue, and whoever holds it is     *)
(* about to mark it.                                                       *)
Settled(i) ==
  acked[i] > 0 =>
    /\ status[i] \in {"delivering", "delivered"}
    /\ \A w \in Worker : i \in batch[w] =>
         pc[w] = "mark" /\ current[w] = i /\ outcome[w] = "delivered"

(* A held intent has an attempt left for the message not yet sent.         *)
Paid(i) ==
  /\ accepted[i] <= attempts[i]
  /\ acked[i] <= 1
  /\ status[i] = "delivered" => acked[i] = 1
  /\ status[i] = "absent" => accepted[i] = 0
  /\ \A w \in Worker :
       i \in batch[w] /\ ~(pc[w] = "mark" /\ current[w] = i) => accepted[i] < attempts[i]

(* A worker writes 'delivered' only for what was acknowledged.             *)
MarksTrue == \A w \in Worker : pc[w] = "mark" /\ outcome[w] = "delivered" => acked[current[w]] = 1

(* The clock readings: a batch runs at the time its rows were claimed, and *)
(* a failed row waits out its delay from there.                            *)
Timed(i) ==
  /\ status[i] \in {"absent", "pending"} => attempts[i] = 0
  /\ status[i] = "failed" =>
       /\ attempts[i] > 0
       /\ nextAttempt[i] = claimedAt[i] + Backoff(attempts[i])
  /\ \A w \in Worker : i \in batch[w] => attempts[i] > 0 /\ commandNow[w] = claimedAt[i]

IInv ==
  /\ TypeOK
  /\ MarkingCurrent
  /\ IdleHoldsNothing
  /\ Owned
  /\ MarksTrue
  /\ \A i \in Intent : Settled(i) /\ Paid(i) /\ Timed(i)

-----------------------------------------------------------------------------
(* What the building blocks of the actions do, worker by worker and intent *)
(* by intent.                                                              *)

(* A worker that goes to its next task marks nothing, and others stay      *)
(* where they are.                                                         *)
LEMMA NextTaskEffect ==
  ASSUME TypeOK, NEW w \in Worker, NextTask(w)
  PROVE  /\ pc'[w] \in {"idle", "task"}
         /\ \A v \in Worker \ {w} : pc'[v] = pc[v] /\ commandNow'[v] = commandNow[v]
BY DEF NextTask, TypeOK

(* A worker that has handled a row has one less, and others keep theirs.   *)
LEMMA HandledEffect ==
  ASSUME TypeOK, NEW w \in Worker, Handled(w)
  PROVE  /\ batch'[w] = batch[w] \ {current[w]}
         /\ pc'[w] # "mark"
         /\ batch'[w] # {} => commandNow'[w] = commandNow[w] /\ pc'[w] = "deliver"
         /\ \A v \in Worker \ {w} :
              /\ batch'[v] = batch[v] /\ pc'[v] = pc[v] /\ commandNow'[v] = commandNow[v]
              /\ current'[v] = current[v] /\ outcome'[v] = outcome[v]
<1>1. /\ batch'[w] = batch[w] \ {current[w]}
      /\ \A v \in Worker \ {w} :
           batch'[v] = batch[v] /\ current'[v] = current[v] /\ outcome'[v] = outcome[v]
  BY DEF Handled, TypeOK
<1>2. CASE batch'[w] = {}
  <2>1. NextTask(w)
    BY <1>1, <1>2 DEF Handled
  <2> QED
    BY <2>1, <1>1, <1>2, NextTaskEffect
<1>3. CASE batch'[w] # {}
  <2>1. pc' = [pc EXCEPT ![w] = "deliver"] /\ UNCHANGED <<pos, commandNow>>
    BY <1>1, <1>3 DEF Handled
  <2> QED
    BY <2>1, <1>1, <1>3 DEF TypeOK
<1> QED
  BY <1>2, <1>3

(* A worker that ends has no batch, and others keep theirs.                *)
LEMMA ExitEffect ==
  ASSUME TypeOK, NEW w \in Worker, Exit(w)
  PROVE  /\ batch'[w] = {} /\ pc'[w] = "down"
         /\ \A v \in Worker \ {w} :
              /\ batch'[v] = batch[v] /\ pc'[v] = pc[v] /\ commandNow'[v] = commandNow[v]
              /\ current'[v] = current[v] /\ outcome'[v] = outcome[v]
BY DEF Exit, TypeOK

(* The rows S that a claim statement takes.                                *)
Taken(S) ==
  /\ S \subseteq Intent
  /\ \A i \in S :
       /\ status[i] \in {"pending", "failed"} /\ nextAttempt[i] <= now
       /\ status'[i] = "delivering" /\ attempts'[i] = attempts[i] + 1 /\ claimedAt'[i] = now
  /\ \A i \in Intent \ S :
       status'[i] = status[i] /\ attempts'[i] = attempts[i] /\ claimedAt'[i] = claimedAt[i]
  /\ nextAttempt' = nextAttempt

(* The rows that are taken were pending or failed, and were due.           *)
LEMMA ClaimRowsEffect ==
  ASSUME TypeOK, NEW p, NEW S \in SUBSET Claimable(p), ClaimRows(S)
  PROVE  Taken(S)
<1>1. S \subseteq Intent /\ \A i \in S : status[i] \in {"pending", "failed"} /\ nextAttempt[i] <= now
  BY DEF Claimable
<1> QED
  BY <1>1 DEF ClaimRows, Taken

(* Who claims rows has them as its batch, and others keep theirs.          *)
LEMMA ClaimEffect ==
  ASSUME TypeOK, NEW w \in Worker, NEW p, Claim(w, p)
  PROVE  /\ \E S : /\ Taken(S)
                   /\ batch'[w] = S
                   /\ S # {} => commandNow'[w] = now
         /\ pc[w] = "task" /\ pc'[w] # "mark" /\ (batch'[w] # {} => pc'[w] = "deliver")
         /\ \A v \in Worker \ {w} :
              batch'[v] = batch[v] /\ pc'[v] = pc[v] /\ commandNow'[v] = commandNow[v]
         /\ UNCHANGED <<current, outcome, accepted, acked, now>>
<1>1. PICK S \in SUBSET Claimable(p) :
         /\ ClaimRows(S)
         /\ batch' = [batch EXCEPT ![w] = S]
         /\ IF S = {}
              THEN NextTask(w)
              ELSE /\ pc' = [pc EXCEPT ![w] = "deliver"]
                   /\ commandNow' = [commandNow EXCEPT ![w] = now]
                   /\ UNCHANGED pos
  BY DEF Claim
<1>2. Taken(S)
  BY <1>1, ClaimRowsEffect
<1>3. batch'[w] = S /\ \A v \in Worker \ {w} : batch'[v] = batch[v]
  BY <1>1 DEF TypeOK
<1>4. /\ pc'[w] # "mark"
      /\ S # {} => commandNow'[w] = now /\ pc'[w] = "deliver"
      /\ \A v \in Worker \ {w} : pc'[v] = pc[v] /\ commandNow'[v] = commandNow[v]
  <2>1. CASE S = {}
    BY <1>1, <2>1, NextTaskEffect
  <2>2. CASE S # {}
    BY <1>1, <2>2 DEF TypeOK
  <2> QED
    BY <2>1, <2>2
<1> QED
  BY <1>2, <1>3, <1>4 DEF Claim

(* A claim whose answer cannot be read takes rows, and nobody has them.    *)
LEMMA ScanFailsEffect ==
  ASSUME TypeOK, NEW w \in Worker, NEW p, ScanFails(w, p)
  PROVE  /\ \E S : Taken(S)
         /\ Exit(w) /\ UNCHANGED <<accepted, acked, now>>
<1>1. PICK S \in SUBSET Claimable(p) : ClaimRows(S)
  BY DEF ScanFails
<1>2. Taken(S)
  BY <1>1, ClaimRowsEffect
<1> QED
  BY <1>2 DEF ScanFails

(* A delivery sends the row in hand once at most, and knows no more than   *)
(* what was acknowledged.                                                  *)
LEMMA DeliverEffect ==
  ASSUME TypeOK, NEW w \in Worker, NEW p, Deliver(w, p)
  PROVE  \E i \in batch[w] :
           /\ pc[w] = "deliver" /\ pc'[w] = "mark" /\ current'[w] = i
           /\ \/ outcome'[w] = "failed" /\ accepted'[i] \in {accepted[i], accepted[i] + 1}
                                       /\ acked'[i] = acked[i]
              \/ outcome'[w] = "delivered" /\ accepted'[i] = accepted[i] + 1
                                          /\ acked'[i] = acked[i] + 1
           /\ \A j \in Intent \ {i} : accepted'[j] = accepted[j] /\ acked'[j] = acked[j]
           /\ \A v \in Worker \ {w} :
                pc'[v] = pc[v] /\ current'[v] = current[v] /\ outcome'[v] = outcome[v]
           /\ UNCHANGED <<rowVars, batch, commandNow, claimedAt, now>>
<1>1. PICK i \in Intent, o \in {"delivered", "failed"}, a \in 0..1, k \in 0..1 :
         /\ Resolve(w, i, p, o, a, k)
         /\ \/ o = "failed" /\ k = 0
            \/ o = "delivered" /\ a = 1 /\ k = 1
  BY DEF Deliver
<1>2. i \in batch[w] /\ i \in Intent
  BY <1>1 DEF Resolve
<1>3. /\ pc[w] = "deliver" /\ pc'[w] = "mark" /\ current'[w] = i /\ outcome'[w] = o
      /\ \A v \in Worker \ {w} :
           pc'[v] = pc[v] /\ current'[v] = current[v] /\ outcome'[v] = outcome[v]
  BY <1>1 DEF Resolve, TypeOK
<1>4. /\ accepted'[i] = accepted[i] + a /\ acked'[i] = acked[i] + k
      /\ \A j \in Intent \ {i} : accepted'[j] = accepted[j] /\ acked'[j] = acked[j]
  BY <1>1, <1>2 DEF Resolve, TypeOK
<1>5. UNCHANGED <<rowVars, batch, commandNow, claimedAt, now>>
  BY <1>1 DEF Resolve
<1>6. accepted[i] \in Nat /\ acked[i] \in Nat
  BY <1>2 DEF TypeOK
<1> QED
  BY <1>1, <1>2, <1>3, <1>4, <1>5, <1>6

(* What a mark writes: on success, on failure, and when it fails itself.   *)
LEMMA MarkEffect ==
  ASSUME TypeOK, MarkingCurrent, NEW w \in Worker, NEW p,
         MarkDelivered(w, p) \/ MarkFailed(w, p) \/ MarkFails(w)
  PROVE  /\ Handled(w) /\ pc[w] = "mark" /\ current[w] \in Intent
         /\ UNCHANGED <<attempts, worldVars>>
         /\ \A i \in Intent \ {current[w]} :
              status'[i] = status[i] /\ nextAttempt'[i] = nextAttempt[i]
         /\ \/ status'[current[w]] = status[current[w]]
            \/ outcome[w] = "delivered" /\ status'[current[w]] = "delivered"
            \/ /\ outcome[w] = "failed" /\ status'[current[w]] = "failed"
               /\ nextAttempt'[current[w]] = commandNow[w] + Backoff(attempts[current[w]])
<1>1. /\ Handled(w) /\ pc[w] = "mark" /\ UNCHANGED <<attempts, worldVars>>
  BY DEF MarkDelivered, MarkFailed, MarkFails, rowVars
<1>2. current[w] \in Intent
  BY <1>1 DEF MarkingCurrent, TypeOK
<1>3. CASE MarkDelivered(w, p)
  BY <1>1, <1>2, <1>3 DEF MarkDelivered, TypeOK
<1>4. CASE MarkFailed(w, p)
  BY <1>1, <1>2, <1>4 DEF MarkFailed, TypeOK
<1>5. CASE MarkFails(w)
  BY <1>1, <1>2, <1>5 DEF MarkFails, TypeOK, rowVars
<1> QED
  BY <1>3, <1>4, <1>5

-----------------------------------------------------------------------------
(* The invariant is inductive: one lemma per kind of step.                 *)

(* Times, attempts and sends are numbers.                                  *)
LEMMA Counters ==
  ASSUME TypeOK
  PROVE  /\ now \in Nat
         /\ \A i \in Intent : /\ attempts[i] \in Nat /\ accepted[i] \in Nat
                              /\ acked[i] \in Nat /\ claimedAt[i] \in Nat
BY DEF TypeOK

(* At first there is no row, and no worker is at work.                     *)
LEMMA InitIInv == Init => IInv
<1> SUFFICES ASSUME Init PROVE IInv
  OBVIOUS
<1>1. TypeOK
  BY TasksLength DEF Init, TypeOK, Status
<1>2. MarkingCurrent /\ IdleHoldsNothing /\ Owned /\ MarksTrue
  BY DEF Init, MarkingCurrent, IdleHoldsNothing, Owned, MarksTrue
<1>3. \A i \in Intent : Settled(i) /\ Paid(i) /\ Timed(i)
  BY DEF Init, Settled, Paid, Timed
<1> QED
  BY <1>1, <1>2, <1>3 DEF IInv

(* A step that touches no row keeps the invariant.                         *)
LEMMA QuietKeepsIInv == IInv /\ Quiet => IInv'
<1> SUFFICES ASSUME IInv, Quiet PROVE IInv'
  OBVIOUS
<1>1. TypeOK'
  BY QuietType DEF IInv
<1>2. MarkingCurrent' /\ MarksTrue' /\ IdleHoldsNothing'
  BY DEF IInv, Quiet, MarkingCurrent, MarksTrue, IdleHoldsNothing
<1>3. Owned'
  BY DEF IInv, Quiet, Owned, rowVars
<1>4. \A i \in Intent : Settled(i)' /\ Paid(i)' /\ Timed(i)'
  BY DEF IInv, Quiet, Settled, Paid, Timed, rowVars
<1> QED
  BY <1>1, <1>2, <1>3, <1>4 DEF IInv

(* A new row has been sent to nobody.                                      *)
LEMMA EnqueueKeepsIInv ==
  ASSUME IInv, NEW iss \in Issue, EnqueueIssueOpened(iss)
  PROVE  IInv'
<1>1. TypeOK
  BY DEF IInv
<1>2. TypeOK'
  BY <1>1, EnqueueType
<1>3. PICK S : insertNotificationIntent(S)
  BY DEF EnqueueIssueOpened
<1>4. \A i \in Intent :
        \/ status'[i] = status[i] /\ attempts'[i] = attempts[i] /\ nextAttempt'[i] = nextAttempt[i]
        \/ status[i] = "absent" /\ status'[i] = "pending" /\ attempts'[i] = 0
  BY <1>1, <1>3 DEF insertNotificationIntent, TypeOK
<1>5. UNCHANGED <<workerVars, worldVars>>
  BY DEF EnqueueIssueOpened
<1>6. MarkingCurrent' /\ IdleHoldsNothing' /\ Owned' /\ MarksTrue'
  BY <1>4, <1>5 DEF IInv, MarkingCurrent, IdleHoldsNothing, Owned, MarksTrue, workerVars, worldVars
<1>7. ASSUME NEW i \in Intent
      PROVE  Settled(i)' /\ Paid(i)' /\ Timed(i)'
  <2>1. Settled(i) /\ Paid(i) /\ Timed(i)
    BY DEF IInv
  <2>2. \A w \in Worker : i \in batch[w] => status[i] # "absent"
    BY DEF IInv, Owned
  <2> QED
    BY <1>1, <1>4, <1>5, <2>1, <2>2, Counters DEF Settled, Paid, Timed, workerVars, worldVars
<1> QED
  BY <1>2, <1>6, <1>7 DEF IInv

(* A claim takes rows that nobody has, because those in a batch are being  *)
(* delivered.                                                              *)
LEMMA ClaimKeepsIInv ==
  ASSUME IInv, NEW w \in Worker, NEW p, Claim(w, p)
  PROVE  IInv'
<1>1. TypeOK
  BY DEF IInv
<1>2. TypeOK'
  BY <1>1, ClaimType
<1>3. PICK S : Taken(S) /\ batch'[w] = S /\ (S # {} => commandNow'[w] = now)
  BY <1>1, ClaimEffect
<1>4. /\ pc[w] = "task" /\ pc'[w] # "mark" /\ (batch'[w] # {} => pc'[w] = "deliver")
      /\ \A v \in Worker \ {w} :
           batch'[v] = batch[v] /\ pc'[v] = pc[v] /\ commandNow'[v] = commandNow[v]
      /\ UNCHANGED <<current, outcome, accepted, acked, now>>
  BY <1>1, ClaimEffect
<1>5. MarkingCurrent' /\ MarksTrue' /\ IdleHoldsNothing'
  BY <1>3, <1>4 DEF IInv, MarkingCurrent, MarksTrue, IdleHoldsNothing
<1>6. Owned'
  BY <1>3, <1>4 DEF IInv, Owned, Taken
<1>7. ASSUME NEW i \in Intent
      PROVE  Settled(i)' /\ Paid(i)' /\ Timed(i)'
  <2>1. Settled(i) /\ Paid(i) /\ Timed(i)
    BY DEF IInv
  <2>2. CASE i \in S
    <3>1. /\ status[i] \in {"pending", "failed"} /\ status'[i] = "delivering"
          /\ attempts'[i] = attempts[i] + 1 /\ claimedAt'[i] = now
      BY <1>3, <2>2 DEF Taken
    <3>2. \A v \in Worker : i \in batch'[v] => v = w /\ commandNow'[v] = now
      BY <1>3, <1>4, <2>2, <3>1 DEF IInv, Owned
    <3>3. acked[i] = 0
      BY <1>1, <2>1, <3>1, Counters DEF Settled
    <3> QED
      BY <1>1, <1>4, <2>1, <3>1, <3>2, <3>3, Counters DEF Settled, Paid, Timed
  <2>3. CASE i \notin S
    <3>1. /\ status'[i] = status[i] /\ attempts'[i] = attempts[i]
          /\ claimedAt'[i] = claimedAt[i] /\ nextAttempt'[i] = nextAttempt[i]
      BY <1>3, <2>3 DEF Taken
    <3>2. \A v \in Worker : i \in batch'[v] => v # w
      BY <1>3, <2>3
    <3> QED
      BY <1>4, <2>1, <3>1, <3>2 DEF Settled, Paid, Timed
  <2> QED
    BY <2>2, <2>3
<1> QED
  BY <1>2, <1>5, <1>6, <1>7 DEF IInv

(* A worker ends and leaves its rows as they are, taken for good.          *)
LEMMA StopKeepsIInv ==
  ASSUME IInv, NEW w \in Worker, Stop(w)
  PROVE  IInv'
<1>1. TypeOK /\ Exit(w) /\ UNCHANGED <<dbVars, rowVars, worldVars>>
  BY DEF IInv, Stop
<1>2. TypeOK'
  BY <1>1, ExitType DEF TypeOK, dbVars, rowVars, worldVars
<1>3. /\ batch'[w] = {} /\ pc'[w] = "down"
      /\ \A v \in Worker \ {w} :
           /\ batch'[v] = batch[v] /\ pc'[v] = pc[v] /\ commandNow'[v] = commandNow[v]
           /\ current'[v] = current[v] /\ outcome'[v] = outcome[v]
  BY <1>1, ExitEffect
<1>4. MarkingCurrent' /\ IdleHoldsNothing' /\ Owned' /\ MarksTrue'
  BY <1>1, <1>3 DEF IInv, MarkingCurrent, IdleHoldsNothing, Owned, MarksTrue, rowVars, worldVars
<1>5. \A i \in Intent : Settled(i)' /\ Paid(i)' /\ Timed(i)'
  BY <1>1, <1>3 DEF IInv, Settled, Paid, Timed, rowVars, worldVars
<1> QED
  BY <1>2, <1>4, <1>5 DEF IInv

(* Rows whose claim cannot be read are taken for good.                     *)
LEMMA ScanFailsKeepsIInv ==
  ASSUME IInv, NEW w \in Worker, NEW p, ScanFails(w, p)
  PROVE  IInv'
<1>1. TypeOK
  BY DEF IInv
<1>2. TypeOK'
  BY <1>1, ScanFailsType
<1>3. PICK S : Taken(S)
  BY <1>1, ScanFailsEffect
<1>4. Exit(w) /\ UNCHANGED <<accepted, acked, now>>
  BY <1>1, ScanFailsEffect
<1>5. /\ batch'[w] = {} /\ pc'[w] = "down"
      /\ \A v \in Worker \ {w} :
           /\ batch'[v] = batch[v] /\ pc'[v] = pc[v] /\ commandNow'[v] = commandNow[v]
           /\ current'[v] = current[v] /\ outcome'[v] = outcome[v]
  BY <1>1, <1>4, ExitEffect
<1>6. MarkingCurrent' /\ MarksTrue' /\ IdleHoldsNothing'
  BY <1>4, <1>5 DEF IInv, MarkingCurrent, MarksTrue, IdleHoldsNothing
<1>7. Owned'
  BY <1>3, <1>5 DEF IInv, Owned, Taken
<1>8. ASSUME NEW i \in Intent
      PROVE  Settled(i)' /\ Paid(i)' /\ Timed(i)'
  <2>1. Settled(i) /\ Paid(i) /\ Timed(i)
    BY DEF IInv
  <2>2. CASE i \in S
    <3>1. /\ status[i] \in {"pending", "failed"} /\ status'[i] = "delivering"
          /\ attempts'[i] = attempts[i] + 1
      BY <1>3, <2>2 DEF Taken
    <3>2. \A v \in Worker : i \notin batch'[v]
      BY <1>5, <3>1 DEF IInv, Owned
    <3> QED
      BY <1>1, <1>4, <2>1, <3>1, <3>2, Counters DEF Settled, Paid, Timed
  <2>3. CASE i \notin S
    <3>1. /\ status'[i] = status[i] /\ attempts'[i] = attempts[i]
          /\ claimedAt'[i] = claimedAt[i] /\ nextAttempt'[i] = nextAttempt[i]
      BY <1>3, <2>3 DEF Taken
    <3> QED
      BY <1>4, <1>5, <2>1, <3>1 DEF Settled, Paid, Timed
  <2> QED
    BY <2>2, <2>3
<1> QED
  BY <1>2, <1>6, <1>7, <1>8 DEF IInv

(* A delivery is of a row that its worker alone has, not acknowledged      *)
(* before.                                                                 *)
LEMMA DeliverKeepsIInv ==
  ASSUME IInv, NEW w \in Worker, NEW p, Deliver(w, p)
  PROVE  IInv'
<1>1. TypeOK
  BY DEF IInv
<1>2. TypeOK'
  BY <1>1, ResolveType
<1>3. PICK c \in batch[w] :
        /\ pc[w] = "deliver" /\ pc'[w] = "mark" /\ current'[w] = c
        /\ \/ outcome'[w] = "failed" /\ accepted'[c] \in {accepted[c], accepted[c] + 1}
                                    /\ acked'[c] = acked[c]
           \/ outcome'[w] = "delivered" /\ accepted'[c] = accepted[c] + 1
                                       /\ acked'[c] = acked[c] + 1
        /\ \A j \in Intent \ {c} : accepted'[j] = accepted[j] /\ acked'[j] = acked[j]
        /\ \A v \in Worker \ {w} :
             pc'[v] = pc[v] /\ current'[v] = current[v] /\ outcome'[v] = outcome[v]
        /\ UNCHANGED <<rowVars, batch, commandNow, claimedAt, now>>
  BY <1>1, DeliverEffect
<1>4. c \in Intent /\ Settled(c) /\ Paid(c) /\ Timed(c)
  BY <1>1, <1>3 DEF IInv, TypeOK
<1>5. /\ status[c] = "delivering" /\ acked[c] = 0 /\ accepted[c] < attempts[c]
      /\ \A v \in Worker : c \in batch[v] => v = w
  BY <1>1, <1>3, <1>4, Counters DEF IInv, Owned, Settled, Paid
<1>6. \A v \in Worker \ {w} : pc[v] = "mark" => current[v] # c /\ current[v] \in Intent
  BY <1>1, <1>3, <1>5 DEF IInv, MarkingCurrent, TypeOK
<1>7. MarkingCurrent' /\ IdleHoldsNothing' /\ Owned'
  BY <1>3 DEF IInv, MarkingCurrent, IdleHoldsNothing, Owned, rowVars
<1>8. MarksTrue'
  BY <1>3, <1>5, <1>6 DEF IInv, MarksTrue
<1>9. ASSUME NEW i \in Intent
      PROVE  Settled(i)' /\ Paid(i)' /\ Timed(i)'
  <2>1. Settled(i) /\ Paid(i) /\ Timed(i)
    BY DEF IInv
  <2>2. CASE i = c
    BY <1>1, <1>3, <1>4, <1>5, <2>2, Counters DEF Settled, Paid, Timed, rowVars
  <2>3. CASE i # c
    <3>1. acked[i] > 0 => i \notin batch[w]
      BY <1>3, <2>1 DEF Settled
    <3> QED
      BY <1>3, <2>1, <2>3, <3>1 DEF Settled, Paid, Timed, rowVars
  <2> QED
    BY <2>2, <2>3
<1> QED
  BY <1>2, <1>7, <1>8, <1>9 DEF IInv

(* A mark is of the row in hand: delivered when it was acknowledged,       *)
(* failed when not; one that fails leaves the row taken for good.          *)
LEMMA MarkKeepsIInv ==
  ASSUME IInv, NEW w \in Worker, NEW p,
         MarkDelivered(w, p) \/ MarkFailed(w, p) \/ MarkFails(w)
  PROVE  IInv'
<1>1. TypeOK /\ MarkingCurrent
  BY DEF IInv
<1>2. TypeOK'
  BY <1>1, MarkType
<1> DEFINE c == current[w]
<1>3. /\ Handled(w) /\ pc[w] = "mark" /\ c \in Intent
      /\ UNCHANGED <<attempts, worldVars>>
      /\ \A i \in Intent \ {c} : status'[i] = status[i] /\ nextAttempt'[i] = nextAttempt[i]
      /\ \/ status'[c] = status[c]
         \/ outcome[w] = "delivered" /\ status'[c] = "delivered"
         \/ /\ outcome[w] = "failed" /\ status'[c] = "failed"
            /\ nextAttempt'[c] = commandNow[w] + Backoff(attempts[c])
  BY <1>1, MarkEffect
<1>4. /\ batch'[w] = batch[w] \ {c}
      /\ pc'[w] # "mark"
      /\ batch'[w] # {} => commandNow'[w] = commandNow[w] /\ pc'[w] = "deliver"
      /\ \A v \in Worker \ {w} :
           /\ batch'[v] = batch[v] /\ pc'[v] = pc[v] /\ commandNow'[v] = commandNow[v]
           /\ current'[v] = current[v] /\ outcome'[v] = outcome[v]
  BY <1>1, <1>3, HandledEffect
<1>5. c \in batch[w] /\ status[c] = "delivering" /\ \A v \in Worker \ {w} : c \notin batch[v]
  BY <1>1, <1>3 DEF IInv, MarkingCurrent, Owned
<1>6. UNCHANGED <<accepted, acked, claimedAt>>
  BY <1>3 DEF worldVars
<1>7. outcome[w] = "delivered" => acked[c] = 1
  BY <1>3 DEF IInv, MarksTrue
<1>8. MarkingCurrent' /\ MarksTrue' /\ IdleHoldsNothing'
  BY <1>4, <1>6 DEF IInv, MarkingCurrent, MarksTrue, IdleHoldsNothing
<1>9. Owned'
  BY <1>3, <1>4, <1>5 DEF IInv, Owned
<1>10. ASSUME NEW i \in Intent
       PROVE  Settled(i)' /\ Paid(i)' /\ Timed(i)'
  <2>1. Settled(i) /\ Paid(i) /\ Timed(i)
    BY DEF IInv
  <2>2. CASE i = c
    <3>1. \A v \in Worker : i \notin batch'[v]
      BY <1>4, <1>5, <2>2
    <3>2. attempts[i] > 0 /\ commandNow[w] = claimedAt[i]
      BY <1>5, <2>1, <2>2 DEF Timed
    <3>3. acked[i] > 0 => outcome[w] = "delivered"
      BY <1>5, <2>1, <2>2 DEF Settled
    <3> HIDE DEF c
    <3>4. Settled(i)'
      BY <1>3, <1>5, <1>6, <2>1, <2>2, <3>1, <3>3 DEF Settled
    <3>5. Paid(i)'
      BY <1>3, <1>5, <1>6, <1>7, <2>1, <2>2, <3>1 DEF Paid
    <3>6. Timed(i)'
      BY <1>3, <1>5, <1>6, <2>1, <2>2, <3>1, <3>2 DEF Timed
    <3> QED
      BY <3>4, <3>5, <3>6
  <2>3. CASE i # c
    <3>1. /\ status'[i] = status[i] /\ attempts'[i] = attempts[i]
          /\ nextAttempt'[i] = nextAttempt[i]
      BY <1>3, <2>3
    <3>2. acked[i] > 0 => i \notin batch[w]
      BY <2>1, <2>3 DEF Settled
    <3>3. i \in batch'[w] => i \in batch[w] /\ commandNow'[w] = commandNow[w]
      BY <1>4
    <3>4. i \in batch[w] => accepted[i] < attempts[i]
      BY <2>1, <2>3 DEF Paid
    <3>5. Settled(i)'
      BY <1>4, <1>6, <2>1, <3>1, <3>2, <3>3 DEF Settled
    <3>6. Paid(i)'
      BY <1>4, <1>6, <2>1, <3>1, <3>3, <3>4 DEF Paid
    <3>7. Timed(i)'
      BY <1>4, <1>6, <2>1, <3>1, <3>3 DEF Timed
    <3> QED
      BY <3>5, <3>6, <3>7
  <2> QED
    BY <2>2, <2>3
<1> QED
  BY <1>2, <1>8, <1>9, <1>10 DEF IInv

(* Every step keeps the invariant.                                         *)
LEMMA NextKeepsIInv == IInv /\ [Next]_vars => IInv'
<1> SUFFICES ASSUME IInv, [Next]_vars PROVE IInv'
  OBVIOUS
<1>1. TypeOK
  BY DEF IInv
<1>2. \/ Quiet
      \/ \E iss \in Issue : EnqueueIssueOpened(iss)
      \/ \E w \in Worker : Stop(w) \/ MarkFails(w)
      \/ \E w \in Worker, p \in Provider :
           \/ Claim(w, p) \/ ScanFails(w, p) \/ Deliver(w, p)
           \/ MarkDelivered(w, p) \/ MarkFailed(w, p)
  BY <1>1, Steps
<1> QED
  BY <1>2, QuietKeepsIInv, EnqueueKeepsIInv, ClaimKeepsIInv, StopKeepsIInv,
     ScanFailsKeepsIInv, DeliverKeepsIInv, MarkKeepsIInv, Zenon

(* The invariant holds throughout.                                         *)
LEMMA Invariant == Spec => []IInv
<1>1. Init => IInv
  BY InitIInv
<1>2. IInv /\ [Next]_vars => IInv'
  BY NextKeepsIInv
<1> QED
  BY <1>1, <1>2, PTL DEF Spec

-----------------------------------------------------------------------------
(* Invariants.                                                             *)

(* The rows and the memory of the workers have their types in every        *)
(* reachable state, the newWorker task index included.                     *)
THEOREM TypeCorrect == Spec => []TypeOK
<1>1. IInv => TypeOK
  BY DEF IInv
<1> QED
  BY <1>1, Invariant, PTL

(* SKIP LOCKED and the status test of the claim statements keep two        *)
(* workers from ever holding the same intent.                              *)
THEOREM ClaimsAreExclusive == Spec => []ExclusiveClaim
<1>1. IInv => ExclusiveClaim
  BY DEF IInv, ExclusiveClaim, Owned, MarkingCurrent, Holds
<1> QED
  BY <1>1, Invariant, PTL

(* The attempts column never falls behind what the providers were sent,    *)
(* and a row says 'delivered' only when a provider said so.                *)
THEOREM SendsAreCounted == Spec => []AttemptsCoverSends
<1>1. IInv => AttemptsCoverSends
  BY DEF IInv, AttemptsCoverSends, Paid
<1> QED
  BY <1>1, Invariant, PTL

-----------------------------------------------------------------------------
(* Action properties.                                                      *)

(* No step sends a row that was acknowledged.                              *)
LEMMA AckedStepStays ==
  IInv /\ [Next]_vars => \A i \in Intent : acked[i] > 0 => accepted'[i] = accepted[i]
<1> SUFFICES ASSUME IInv, [Next]_vars, NEW i \in Intent, acked[i] > 0
             PROVE  accepted'[i] = accepted[i]
  OBVIOUS
<1>1. TypeOK /\ MarkingCurrent /\ Settled(i)
  BY DEF IInv
<1>2. ASSUME NEW w \in Worker, NEW p, Deliver(w, p)
      PROVE  accepted'[i] = accepted[i]
  <2>1. PICK c \in batch[w] :
          pc[w] = "deliver" /\ \A j \in Intent \ {c} : accepted'[j] = accepted[j]
    BY <1>1, <1>2, DeliverEffect
  <2> QED
    BY <1>1, <2>1 DEF Settled
<1>3. ASSUME NEW w \in Worker, NEW p, Claim(w, p) \/ ScanFails(w, p)
      PROVE  accepted' = accepted
  BY <1>1, <1>3, ClaimEffect, ScanFailsEffect
<1>4. ASSUME NEW w \in Worker, NEW p,
             MarkDelivered(w, p) \/ MarkFailed(w, p) \/ MarkFails(w)
      PROVE  accepted' = accepted
  BY <1>1, <1>4, MarkEffect DEF worldVars
<1>5. (\E iss \in Issue : EnqueueIssueOpened(iss)) \/ (\E w \in Worker : Stop(w)) \/ Quiet
        => accepted' = accepted
  BY DEF EnqueueIssueOpened, Stop, Quiet, worldVars
<1> QED
  BY <1>1, <1>2, <1>3, <1>4, <1>5, Steps, Zenon

(* Once a provider acknowledged a message, no later step of any worker,    *)
(* whatever failed in between, makes a provider accept it again.           *)
THEOREM AcknowledgedOnce == Spec => NoResendAfterAck
<1>1. IInv /\ [Next]_vars => [\A i \in Intent : acked[i] > 0 => accepted'[i] = accepted[i]]_vars
  BY AckedStepStays
<1> QED
  BY <1>1, Invariant, PTL DEF Spec, NoResendAfterAck

(* No step takes a row again before the wait of its attempts is over.      *)
LEMMA RetryStepSpaced ==
  IInv /\ [Next]_vars =>
    \A i \in Intent : (attempts[i] > 0 /\ attempts'[i] # attempts[i])
      => now >= claimedAt[i] + MinutesBeforeRetry[AtMost(attempts[i], 7)]
<1> SUFFICES ASSUME IInv, [Next]_vars, NEW i \in Intent,
                    attempts[i] > 0, attempts'[i] # attempts[i]
             PROVE  now >= claimedAt[i] + MinutesBeforeRetry[AtMost(attempts[i], 7)]
  OBVIOUS
<1>1. TypeOK /\ MarkingCurrent /\ Timed(i)
  BY DEF IInv
<1>2. ASSUME NEW S, Taken(S)
      PROVE  now >= claimedAt[i] + MinutesBeforeRetry[AtMost(attempts[i], 7)]
  <2>1. status[i] \in {"pending", "failed"} /\ nextAttempt[i] <= now
    BY <1>2 DEF Taken
  <2>2. nextAttempt[i] = claimedAt[i] + Backoff(attempts[i])
    BY <1>1, <2>1 DEF Timed
  <2>3. attempts[i] \in Nat
    BY <1>1, Counters
  <2>4. Backoff(attempts[i]) = MinutesBeforeRetry[AtMost(attempts[i], 7)]
    BY <2>3, BackoffTable
  <2> QED
    BY <2>1, <2>2, <2>4
<1>3. ASSUME NEW w \in Worker, NEW p, Claim(w, p) \/ ScanFails(w, p)
      PROVE  \E S : Taken(S)
  BY <1>1, <1>3, ClaimEffect, ScanFailsEffect
<1>4. ASSUME NEW iss \in Issue, EnqueueIssueOpened(iss)
      PROVE  FALSE
  <2>1. PICK S : insertNotificationIntent(S)
    BY <1>4 DEF EnqueueIssueOpened
  <2>2. status[i] = "absent"
    BY <1>1, <2>1 DEF insertNotificationIntent, TypeOK
  <2> QED
    BY <1>1, <2>2 DEF Timed
<1>5. ASSUME NEW w \in Worker, NEW p,
             MarkDelivered(w, p) \/ MarkFailed(w, p) \/ MarkFails(w)
      PROVE  FALSE
  BY <1>1, <1>5, MarkEffect
<1>6. ASSUME NEW w \in Worker, NEW p, Deliver(w, p)
      PROVE  FALSE
  BY <1>1, <1>6, DeliverEffect DEF rowVars
<1>7. ASSUME (\E w \in Worker : Stop(w)) \/ Quiet
      PROVE  FALSE
  BY <1>7 DEF Stop, Quiet, rowVars
<1> QED
  BY <1>1, <1>2, <1>3, <1>4, <1>5, <1>6, <1>7, Steps, Zenon

(* Two claims of an intent are as far apart as the table says, although    *)
(* the mark in between is computed from the start of a batch and written   *)
(* at any later time.                                                      *)
THEOREM RetriesAreSpaced == Spec => RetrySpacing
<1>1. IInv /\ [Next]_vars =>
        [\A i \in Intent : (attempts[i] > 0 /\ attempts'[i] # attempts[i])
           => now >= claimedAt[i] + MinutesBeforeRetry[AtMost(attempts[i], 7)]]_vars
  BY RetryStepSpaced
<1> QED
  BY <1>1, Invariant, PTL DEF Spec, RetrySpacing

(* No step takes up a row that nobody has and that is being delivered.     *)
LEMMA StrandedStepStays ==
  IInv /\ [Next]_vars => \A i \in Intent : Stranded(i) => Stranded(i)'
<1> SUFFICES ASSUME IInv, [Next]_vars, NEW i \in Intent, Stranded(i)
             PROVE  Stranded(i)'
  OBVIOUS
<1>1. TypeOK /\ MarkingCurrent
  BY DEF IInv
<1>2. status[i] = "delivering" /\ \A w \in Worker : i \notin batch[w]
  BY DEF Stranded, Holds
<1>3. ASSUME NEW w \in Worker, NEW p, Claim(w, p)
      PROVE  Stranded(i)'
  <2>1. PICK S : Taken(S) /\ batch'[w] = S /\ \A v \in Worker \ {w} : batch'[v] = batch[v]
    BY <1>1, <1>3, ClaimEffect
  <2>2. i \notin S
    BY <1>2, <2>1 DEF Taken
  <2> QED
    BY <1>2, <2>1, <2>2 DEF Stranded, Holds, Taken
<1>4. ASSUME NEW w \in Worker, NEW p, ScanFails(w, p)
      PROVE  Stranded(i)'
  <2>1. PICK S : Taken(S)
    BY <1>1, <1>4, ScanFailsEffect
  <2>2. i \notin S
    BY <1>2, <2>1 DEF Taken
  <2>3. \A v \in Worker : batch'[v] \subseteq batch[v]
    BY <1>1, <1>4, ScanFailsEffect, ExitEffect
  <2> QED
    BY <1>2, <2>1, <2>2, <2>3 DEF Stranded, Holds, Taken
<1>5. ASSUME NEW w \in Worker, NEW p,
             MarkDelivered(w, p) \/ MarkFailed(w, p) \/ MarkFails(w)
      PROVE  Stranded(i)'
  <2>1. /\ Handled(w) /\ pc[w] = "mark"
        /\ \A j \in Intent \ {current[w]} : status'[j] = status[j]
    BY <1>1, <1>5, MarkEffect
  <2>2. current[w] # i
    BY <1>1, <1>2, <2>1 DEF MarkingCurrent
  <2>3. \A v \in Worker : batch'[v] \subseteq batch[v]
    BY <1>1, <2>1, HandledEffect
  <2> QED
    BY <1>2, <2>1, <2>2, <2>3 DEF Stranded, Holds
<1>6. ASSUME NEW w \in Worker, NEW p, Deliver(w, p)
      PROVE  Stranded(i)'
  BY <1>1, <1>2, <1>6, DeliverEffect DEF Stranded, Holds, rowVars
<1>7. ASSUME NEW w \in Worker, Stop(w)
      PROVE  Stranded(i)'
  <2>1. Exit(w) /\ UNCHANGED rowVars
    BY <1>7 DEF Stop
  <2> QED
    BY <1>1, <1>2, <2>1, ExitEffect DEF Stranded, Holds, rowVars
<1>8. ASSUME NEW iss \in Issue, EnqueueIssueOpened(iss)
      PROVE  Stranded(i)'
  <2>1. PICK S : insertNotificationIntent(S)
    BY <1>8 DEF EnqueueIssueOpened
  <2>2. status'[i] = "delivering"
    BY <1>1, <1>2, <2>1 DEF insertNotificationIntent, TypeOK
  <2> QED
    BY <1>2, <1>8, <2>2 DEF EnqueueIssueOpened, workerVars, Stranded, Holds
<1>9. ASSUME Quiet
      PROVE  Stranded(i)'
  BY <1>2, <1>9 DEF Quiet, rowVars, Stranded, Holds
<1> QED
  BY <1>1, <1>3, <1>4, <1>5, <1>6, <1>7, <1>8, <1>9, Steps, Zenon

(* The lease in locked_until frees nothing: a claimed row that lost its    *)
(* worker is never claimed, sent or marked again.                          *)
THEOREM StrandedStays == Spec => StrandedForever
<1>1. IInv /\ [Next]_vars => [\A i \in Intent : Stranded(i) => Stranded(i)']_vars
  BY StrandedStepStays
<1> QED
  BY <1>1, Invariant, PTL DEF Spec, StrandedForever

-----------------------------------------------------------------------------
(* Refinement of the life cycle.                                           *)

(* A step whose effect on the phases is that of one abstract move.         *)
LEMMA Moved ==
  ASSUME NEW S \in SUBSET Intent, NEW From, NEW to,
         \A i \in S : PhaseOf(i) \in From /\ PhaseOf(i)' = to,
         \A i \in Intent \ S : PhaseOf(i)' = PhaseOf(i)
  PROVE  Lifecycle!Move(S, From, to)
BY Zenon DEF Lifecycle!Move

(* When no row moves, the abstract state does not.                         *)
LEMMA Unmoved ==
  ASSUME \A i \in Intent : PhaseOf(i)' = PhaseOf(i)
  PROVE  [i \in Intent |-> PhaseOf(i)]' = [i \in Intent |-> PhaseOf(i)]
OBVIOUS

(* The phase is a matter of the status, of who holds the intent, and of    *)
(* who is about to mark it as delivered.                                   *)
LEMMA PhaseCases ==
  ASSUME NEW i \in Intent, status[i] \in Status
  PROVE  /\ status[i] = "absent" => PhaseOf(i) = "none"
         /\ status[i] \in {"pending", "failed"} => PhaseOf(i) = "queued"
         /\ status[i] = "delivered" => PhaseOf(i) = "done"
         /\ status[i] = "delivering" =>
              /\ Stranded(i) => PhaseOf(i) = "lost"
              /\ ~Stranded(i) /\ Acknowledged(i) => PhaseOf(i) = "acknowledged"
              /\ ~Stranded(i) /\ ~Acknowledged(i) => PhaseOf(i) = "taken"
BY DEF PhaseOf, Status, Stranded

(* The phase of a row after a step, by its status, its batch and its       *)
(* acknowledgement.                                                        *)
LEMMA PhaseCasesNext ==
  ASSUME NEW i \in Intent, status'[i] \in Status
  PROVE  /\ status'[i] = "absent" => PhaseOf(i)' = "none"
         /\ status'[i] \in {"pending", "failed"} => PhaseOf(i)' = "queued"
         /\ status'[i] = "delivered" => PhaseOf(i)' = "done"
         /\ status'[i] = "delivering" =>
              /\ Stranded(i)' => PhaseOf(i)' = "lost"
              /\ ~Stranded(i)' /\ Acknowledged(i)' => PhaseOf(i)' = "acknowledged"
              /\ ~Stranded(i)' /\ ~Acknowledged(i)' => PhaseOf(i)' = "taken"
BY DEF PhaseOf, Status, Stranded

(* A row with the same status, batch and acknowledgement is in the same    *)
(* phase.                                                                  *)
LEMMA PhaseKept ==
  ASSUME TypeOK, TypeOK', NEW i \in Intent,
         status'[i] = status[i],
         \A w \in Worker : i \in batch'[w] <=> i \in batch[w],
         Acknowledged(i)' <=> Acknowledged(i)
  PROVE  PhaseOf(i)' = PhaseOf(i)
<1>1. status[i] \in Status /\ status'[i] \in Status
  BY DEF TypeOK
<1>2. Stranded(i)' <=> Stranded(i)
  BY DEF Stranded, Holds
<1> QED
  BY <1>1, <1>2, PhaseCases, PhaseCasesNext DEF Status

(* A step that touches no row is a stutter of the abstract specification.  *)
LEMMA QuietRefines ==
  ASSUME IInv, IInv', Quiet
  PROVE  [i \in Intent |-> PhaseOf(i)]' = [i \in Intent |-> PhaseOf(i)]
<1>1. ASSUME NEW i \in Intent
      PROVE  PhaseOf(i)' = PhaseOf(i)
  <2>1. /\ status'[i] = status[i]
        /\ \A w \in Worker : i \in batch'[w] <=> i \in batch[w]
        /\ Acknowledged(i)' <=> Acknowledged(i)
    BY DEF Quiet, rowVars, Acknowledged
  <2> QED
    BY <2>1, PhaseKept DEF IInv
<1> QED
  BY <1>1, Unmoved

(* New rows are submitted.                                                 *)
LEMMA EnqueueRefines ==
  ASSUME IInv, IInv', NEW iss \in Issue, EnqueueIssueOpened(iss)
  PROVE  \E S \in SUBSET Intent : Lifecycle!Submit(S)
<1> DEFINE S == {i \in Intent : status'[i] # status[i]}
<1>1. TypeOK /\ TypeOK'
  BY DEF IInv
<1>2. PICK R : insertNotificationIntent(R)
  BY DEF EnqueueIssueOpened
<1>3. \A i \in S : status[i] = "absent" /\ status'[i] = "pending"
  BY <1>1, <1>2 DEF insertNotificationIntent, TypeOK
<1>4. \A i \in S : PhaseOf(i) \in {"none"} /\ PhaseOf(i)' = "queued"
  BY <1>1, <1>3, PhaseCases, PhaseCasesNext DEF Status
<1>5. ASSUME NEW i \in Intent \ S
      PROVE  PhaseOf(i)' = PhaseOf(i)
  <2>1. UNCHANGED <<batch, pc, current, outcome>>
    BY DEF EnqueueIssueOpened, workerVars
  <2>2. Acknowledged(i)' <=> Acknowledged(i)
    BY <2>1 DEF Acknowledged
  <2> QED
    BY <1>1, <2>1, <2>2, PhaseKept
<1> HIDE DEF S
<1>6. S \in SUBSET Intent
  BY DEF S
<1> QED
  BY <1>4, <1>5, <1>6, Moved DEF Lifecycle!Submit

(* A claim takes its rows.                                                 *)
LEMMA ClaimRefines ==
  ASSUME IInv, IInv', NEW w \in Worker, NEW p, Claim(w, p)
  PROVE  \E S \in SUBSET Intent : Lifecycle!Take(S)
<1>1. TypeOK /\ TypeOK'
  BY DEF IInv
<1>2. PICK S : Taken(S) /\ batch'[w] = S
  BY <1>1, ClaimEffect
<1>3. /\ pc[w] = "task" /\ pc'[w] # "mark"
      /\ \A v \in Worker \ {w} : batch'[v] = batch[v] /\ pc'[v] = pc[v]
      /\ UNCHANGED <<current, outcome>>
  BY <1>1, ClaimEffect
<1>4. batch[w] = {}
  BY <1>3 DEF IInv, IdleHoldsNothing
<1>5. \A i \in S : PhaseOf(i) \in {"queued"} /\ PhaseOf(i)' = "taken"
  <2>1. ASSUME NEW i \in S
        PROVE  PhaseOf(i) = "queued" /\ PhaseOf(i)' = "taken"
    <3>1. i \in Intent /\ status[i] \in {"pending", "failed"} /\ status'[i] = "delivering"
      BY <1>2, <2>1 DEF Taken
    <3>2. ~Stranded(i)'
      BY <1>2, <2>1 DEF Stranded, Holds
    <3>3. ~Acknowledged(i)'
      BY <1>2, <1>3, <2>1, <3>1 DEF IInv, Acknowledged, MarkingCurrent, Owned
    <3> QED
      BY <3>1, <3>2, <3>3, PhaseCases, PhaseCasesNext DEF Status
  <2> QED
    BY <2>1
<1>6. ASSUME NEW i \in Intent \ S
      PROVE  PhaseOf(i)' = PhaseOf(i)
  <2>1. status'[i] = status[i] /\ \A v \in Worker : i \in batch'[v] <=> i \in batch[v]
    BY <1>2, <1>3, <1>4 DEF Taken
  <2>2. Acknowledged(i)' <=> Acknowledged(i)
    BY <1>3 DEF Acknowledged
  <2> QED
    BY <1>1, <2>1, <2>2, PhaseKept
<1>7. S \in SUBSET Intent
  BY <1>2 DEF Taken
<1> QED
  BY <1>5, <1>6, <1>7, Moved DEF Lifecycle!Take

(* A claim that cannot be read takes its rows and loses them.              *)
LEMMA ScanFailsRefines ==
  ASSUME IInv, IInv', NEW w \in Worker, NEW p, ScanFails(w, p)
  PROVE  \E S \in SUBSET Intent : Lifecycle!TakeAndLose(S)
<1>1. TypeOK /\ TypeOK'
  BY DEF IInv
<1>2. PICK S : Taken(S)
  BY <1>1, ScanFailsEffect
<1>3. Exit(w) /\ pc[w] = "task"
  BY DEF ScanFails
<1>4. batch[w] = {}
  BY <1>3 DEF IInv, IdleHoldsNothing
<1>5. /\ batch'[w] = {} /\ pc'[w] = "down"
      /\ \A v \in Worker \ {w} :
           /\ batch'[v] = batch[v] /\ pc'[v] = pc[v]
           /\ current'[v] = current[v] /\ outcome'[v] = outcome[v]
  BY <1>1, <1>3, ExitEffect
<1>6. \A i \in S : PhaseOf(i) \in {"queued"} /\ PhaseOf(i)' = "lost"
  <2>1. ASSUME NEW i \in S
        PROVE  PhaseOf(i) = "queued" /\ PhaseOf(i)' = "lost"
    <3>1. i \in Intent /\ status[i] \in {"pending", "failed"} /\ status'[i] = "delivering"
      BY <1>2, <2>1 DEF Taken
    <3>2. Stranded(i)'
      BY <1>5, <3>1 DEF IInv, Owned, Stranded, Holds
    <3> QED
      BY <3>1, <3>2, PhaseCases, PhaseCasesNext DEF Status
  <2> QED
    BY <2>1
<1>7. ASSUME NEW i \in Intent \ S
      PROVE  PhaseOf(i)' = PhaseOf(i)
  <2>1. status'[i] = status[i] /\ \A v \in Worker : i \in batch'[v] <=> i \in batch[v]
    BY <1>2, <1>4, <1>5 DEF Taken
  <2>2. Acknowledged(i)' <=> Acknowledged(i)
    BY <1>3, <1>5 DEF Acknowledged
  <2> QED
    BY <1>1, <2>1, <2>2, PhaseKept
<1>8. S \in SUBSET Intent
  BY <1>2 DEF Taken
<1> QED
  BY <1>6, <1>7, <1>8, Moved DEF Lifecycle!TakeAndLose

(* A worker that ends loses its batch.                                     *)
LEMMA StopRefines ==
  ASSUME IInv, IInv', NEW w \in Worker, Stop(w)
  PROVE  \E S \in SUBSET Intent : Lifecycle!Lose(S)
<1>1. TypeOK /\ TypeOK' /\ MarkingCurrent /\ Owned
  BY DEF IInv
<1>2. Exit(w) /\ UNCHANGED rowVars
  BY DEF Stop
<1>3. /\ batch'[w] = {} /\ pc'[w] = "down"
      /\ \A v \in Worker \ {w} :
           /\ batch'[v] = batch[v] /\ pc'[v] = pc[v]
           /\ current'[v] = current[v] /\ outcome'[v] = outcome[v]
  BY <1>1, <1>2, ExitEffect
<1>4. batch[w] \in SUBSET Intent
  BY <1>1 DEF TypeOK
<1>5. \A i \in batch[w] : PhaseOf(i) \in {"taken", "acknowledged"} /\ PhaseOf(i)' = "lost"
  <2>1. ASSUME NEW i \in batch[w]
        PROVE  PhaseOf(i) \in {"taken", "acknowledged"} /\ PhaseOf(i)' = "lost"
    <3>1. i \in Intent /\ status[i] = "delivering" /\ status'[i] = "delivering" /\ ~Stranded(i)
      BY <1>1, <1>2, <1>4, <2>1 DEF Owned, Stranded, Holds, rowVars
    <3>2. Stranded(i)'
      BY <1>1, <1>3, <2>1, <3>1 DEF Owned, Stranded, Holds
    <3> QED
      BY <3>1, <3>2, PhaseCases, PhaseCasesNext DEF Status
  <2> QED
    BY <2>1
<1>6. ASSUME NEW i \in Intent \ batch[w]
      PROVE  PhaseOf(i)' = PhaseOf(i)
  <2>1. status'[i] = status[i] /\ \A v \in Worker : i \in batch'[v] <=> i \in batch[v]
    BY <1>2, <1>3 DEF rowVars
  <2>2. Acknowledged(i)' <=> Acknowledged(i)
    BY <1>1, <1>3 DEF Acknowledged, MarkingCurrent
  <2> QED
    BY <1>1, <2>1, <2>2, PhaseKept
<1> QED
  BY <1>4, <1>5, <1>6, Moved DEF Lifecycle!Lose

(* A delivery is an acknowledgement, or a stutter when there is none.      *)
LEMMA DeliverRefines ==
  ASSUME IInv, IInv', NEW w \in Worker, NEW p, Deliver(w, p)
  PROVE  \/ [i \in Intent |-> PhaseOf(i)]' = [i \in Intent |-> PhaseOf(i)]
         \/ \E i \in Intent : Lifecycle!Acknowledge(i)
<1>1. TypeOK /\ TypeOK' /\ MarkingCurrent /\ Owned
  BY DEF IInv
<1>2. PICK c \in batch[w] :
        /\ pc[w] = "deliver" /\ pc'[w] = "mark" /\ current'[w] = c
        /\ outcome'[w] \in {"failed", "delivered"}
        /\ \A v \in Worker \ {w} :
             pc'[v] = pc[v] /\ current'[v] = current[v] /\ outcome'[v] = outcome[v]
        /\ UNCHANGED <<rowVars, batch>>
  BY <1>1, DeliverEffect
<1>3. c \in Intent /\ status[c] = "delivering" /\ ~Stranded(c) /\ ~Stranded(c)'
  BY <1>1, <1>2 DEF Owned, Stranded, Holds, TypeOK
<1>4. \A i \in Intent \ {c} : PhaseOf(i)' = PhaseOf(i)
  <2>1. ASSUME NEW i \in Intent \ {c}
        PROVE  PhaseOf(i)' = PhaseOf(i)
    <3>1. status'[i] = status[i] /\ \A v \in Worker : i \in batch'[v] <=> i \in batch[v]
      BY <1>2 DEF rowVars
    <3>2. Acknowledged(i)' <=> Acknowledged(i)
      BY <1>2 DEF Acknowledged
    <3> QED
      BY <1>1, <3>1, <3>2, PhaseKept
  <2> QED
    BY <2>1
<1>5. ~Acknowledged(c)
  BY <1>1, <1>2, <1>3 DEF Acknowledged, MarkingCurrent, Owned
<1>6. \A v \in Worker \ {w} : ~(pc'[v] = "mark" /\ current'[v] = c)
  BY <1>1, <1>2, <1>3 DEF MarkingCurrent, Owned
<1>7. CASE outcome'[w] = "failed"
  <2>1. ~Acknowledged(c)'
    BY <1>6, <1>7 DEF Acknowledged
  <2>2. status'[c] = status[c] /\ \A v \in Worker : c \in batch'[v] <=> c \in batch[v]
    BY <1>2 DEF rowVars
  <2>3. PhaseOf(c)' = PhaseOf(c)
    BY <1>1, <1>3, <1>5, <2>1, <2>2, PhaseKept
  <2> QED
    BY <1>4, <2>3, Unmoved
<1>8. CASE outcome'[w] = "delivered"
  <2>1. Acknowledged(c)'
    BY <1>2, <1>8 DEF Acknowledged
  <2>2. status'[c] = "delivering"
    BY <1>2, <1>3 DEF rowVars
  <2>3. PhaseOf(c) \in {"taken"} /\ PhaseOf(c)' = "acknowledged"
    BY <1>3, <1>5, <2>1, <2>2, PhaseCases, PhaseCasesNext DEF Status
  <2>4. \A i \in {c} : PhaseOf(i) \in {"taken"} /\ PhaseOf(i)' = "acknowledged"
    BY <2>3
  <2>5. {c} \in SUBSET Intent
    BY <1>3
  <2>6. Lifecycle!Move({c}, {"taken"}, "acknowledged")
    BY <1>4, <2>4, <2>5, Moved
  <2> QED
    BY <1>3, <2>6 DEF Lifecycle!Acknowledge
<1> QED
  BY <1>2, <1>7, <1>8

(* A mark finishes a row or gives it back; one that fails loses the row.   *)
LEMMA MarkRefines ==
  ASSUME IInv, IInv', NEW w \in Worker, NEW p,
         MarkDelivered(w, p) \/ MarkFailed(w, p) \/ MarkFails(w)
  PROVE  \/ \E i \in Intent : Lifecycle!Finish(i) \/ Lifecycle!GiveBack(i)
         \/ \E S \in SUBSET Intent : Lifecycle!Lose(S)
<1>1. TypeOK /\ TypeOK' /\ MarkingCurrent /\ Owned
  BY DEF IInv
<1>2. PICK c \in Intent :
        /\ c = current[w]
        /\ Handled(w) /\ pc[w] = "mark"
        /\ \A i \in Intent \ {c} : status'[i] = status[i]
        /\ \/ status'[c] = status[c]
           \/ outcome[w] = "delivered" /\ status'[c] = "delivered"
           \/ outcome[w] = "failed" /\ status'[c] = "failed"
  BY <1>1, MarkEffect
<1>3. /\ batch'[w] = batch[w] \ {c}
      /\ pc'[w] # "mark"
      /\ \A v \in Worker \ {w} :
           /\ batch'[v] = batch[v] /\ pc'[v] = pc[v]
           /\ current'[v] = current[v] /\ outcome'[v] = outcome[v]
  BY <1>1, <1>2, HandledEffect
<1>4. /\ c \in batch[w] /\ status[c] = "delivering" /\ ~Stranded(c)
      /\ \A v \in Worker : c \in batch[v] => v = w
  BY <1>1, <1>2 DEF MarkingCurrent, Owned, Stranded, Holds
<1>5. Acknowledged(c) <=> outcome[w] = "delivered"
  BY <1>1, <1>2, <1>4 DEF Acknowledged, MarkingCurrent
<1>6. \A i \in Intent \ {c} : PhaseOf(i)' = PhaseOf(i)
  <2>1. ASSUME NEW i \in Intent \ {c}
        PROVE  PhaseOf(i)' = PhaseOf(i)
    <3>1. status'[i] = status[i] /\ \A v \in Worker : i \in batch'[v] <=> i \in batch[v]
      BY <1>2, <1>3
    <3>2. Acknowledged(i)' <=> Acknowledged(i)
      BY <1>2, <1>3 DEF Acknowledged
    <3> QED
      BY <1>1, <3>1, <3>2, PhaseKept
  <2> QED
    BY <2>1
<1>7. {c} \in SUBSET Intent
  OBVIOUS
<1>8. CASE status'[c] = status[c]
  <2>1. Stranded(c)'
    BY <1>3, <1>4, <1>8 DEF Stranded, Holds
  <2>2. PhaseOf(c) \in {"taken", "acknowledged"} /\ PhaseOf(c)' = "lost"
    BY <1>4, <1>8, <2>1, PhaseCases, PhaseCasesNext DEF Status
  <2>3. \A i \in {c} : PhaseOf(i) \in {"taken", "acknowledged"} /\ PhaseOf(i)' = "lost"
    BY <2>2
  <2>4. Lifecycle!Move({c}, {"taken", "acknowledged"}, "lost")
    BY <1>6, <1>7, <2>3, Moved
  <2> QED
    BY <1>7, <2>4 DEF Lifecycle!Lose
<1>9. CASE outcome[w] = "delivered" /\ status'[c] = "delivered"
  <2>1. PhaseOf(c) \in {"acknowledged"} /\ PhaseOf(c)' = "done"
    BY <1>4, <1>5, <1>9, PhaseCases, PhaseCasesNext DEF Status
  <2>2. \A i \in {c} : PhaseOf(i) \in {"acknowledged"} /\ PhaseOf(i)' = "done"
    BY <2>1
  <2>3. Lifecycle!Move({c}, {"acknowledged"}, "done")
    BY <1>6, <1>7, <2>2, Moved
  <2> QED
    BY <2>3 DEF Lifecycle!Finish
<1>10. CASE outcome[w] = "failed" /\ status'[c] = "failed"
  <2>1. PhaseOf(c) \in {"taken"} /\ PhaseOf(c)' = "queued"
    BY <1>4, <1>5, <1>10, PhaseCases, PhaseCasesNext DEF Status
  <2>2. \A i \in {c} : PhaseOf(i) \in {"taken"} /\ PhaseOf(i)' = "queued"
    BY <2>1
  <2>3. Lifecycle!Move({c}, {"taken"}, "queued")
    BY <1>6, <1>7, <2>2, Moved
  <2> QED
    BY <2>3 DEF Lifecycle!GiveBack
<1> QED
  BY <1>2, <1>8, <1>9, <1>10

(* The outbox implements the life cycle: an acknowledged notification ends *)
(* as done or lost and is never queued again, and every other intent a     *)
(* worker lets go of is queued again or lost through a fault.              *)
THEOREM OutboxImplementsLifecycle == Spec => ImplementsLifecycle
<1>1. Init => Lifecycle!Init
  <2> SUFFICES ASSUME Init PROVE Lifecycle!Init
    OBVIOUS
  <2>1. \A i \in Intent : PhaseOf(i) = "none"
    BY PhaseCases DEF Init, Status
  <2> QED
    BY <2>1 DEF Lifecycle!Init
<1>2. IInv /\ IInv' /\ [Next]_vars => [Lifecycle!Next]_([i \in Intent |-> PhaseOf(i)])
  <2> SUFFICES ASSUME IInv, IInv', [Next]_vars
               PROVE  \/ Lifecycle!Next
                      \/ [i \in Intent |-> PhaseOf(i)]' = [i \in Intent |-> PhaseOf(i)]
    OBVIOUS
  <2>1. TypeOK
    BY DEF IInv
  <2>2. ASSUME NEW iss \in Issue, EnqueueIssueOpened(iss)
        PROVE  Lifecycle!Next
    BY <2>2, EnqueueRefines DEF Lifecycle!Next
  <2>3. ASSUME NEW w \in Worker, NEW p, Claim(w, p)
        PROVE  Lifecycle!Next
    BY <2>3, ClaimRefines DEF Lifecycle!Next
  <2>4. ASSUME NEW w \in Worker, NEW p, ScanFails(w, p)
        PROVE  Lifecycle!Next
    BY <2>4, ScanFailsRefines DEF Lifecycle!Next
  <2>5. ASSUME NEW w \in Worker, Stop(w)
        PROVE  Lifecycle!Next
    BY <2>5, StopRefines DEF Lifecycle!Next
  <2>6. ASSUME NEW w \in Worker, NEW p, Deliver(w, p)
        PROVE  \/ Lifecycle!Next
               \/ [i \in Intent |-> PhaseOf(i)]' = [i \in Intent |-> PhaseOf(i)]
    BY <2>6, DeliverRefines DEF Lifecycle!Next
  <2>7. ASSUME NEW w \in Worker, NEW p,
               MarkDelivered(w, p) \/ MarkFailed(w, p) \/ MarkFails(w)
        PROVE  Lifecycle!Next
    BY <2>7, MarkRefines DEF Lifecycle!Next
  <2> QED
    BY <2>1, <2>2, <2>3, <2>4, <2>5, <2>6, <2>7, Steps, QuietRefines, Zenon
<1> QED
  BY <1>1, <1>2, Invariant, PTL DEF Spec, ImplementsLifecycle, Lifecycle!Spec
=============================================================================
