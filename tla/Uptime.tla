------------------------------- MODULE Uptime -------------------------------
(***************************************************************************)
(* Uptime monitors: workers claim due monitors with a lease, probe them    *)
(* and record the result; clients of a heartbeat monitor check in, and a   *)
(* worker records the timeout of one that is overdue.                      *)
(*                                                                         *)
(* Recording is a transaction that locks the monitor's row, reads its      *)
(* state and writes state, schedule and incident: one step takes the lock  *)
(* and reads, another writes and commits.  All times of a task run are the *)
(* one the run started with, however long it takes.                        *)
(*                                                                         *)
(* The unit of time is the minute, the least interval of a monitor; the    *)
(* clocks of the processes agree.                                          *)
(***************************************************************************)
EXTENDS Naturals, FiniteSets

CONSTANTS
  Worker,       \* worker processes
  Beat,         \* check-in requests served at the same time
  Http,         \* monitors of type 'http'
  Heartbeat,    \* monitors of type 'heartbeat'
  Interval,     \* interval of each monitor
  Grace,        \* heartbeat grace of each monitor
  Lease,        \* monitorCheckLease
  Limit,        \* monitors one claim may take
  MaxFaults,    \* bound of the model: crashes and failed statements
  MaxTime,      \* bound of the model: last value of the clock
  NULL

Monitor == Http \cup Heartbeat
Actor   == Worker \cup Beat

ASSUME UptimeAssumption ==
  /\ Worker \cap Beat = {}
  /\ Http \cap Heartbeat = {}
  /\ Interval \in [Monitor -> Nat \ {0}]
  /\ Grace \in [Monitor -> Nat]
  /\ Lease \in Nat \ {0}
  /\ Limit \in Nat \ {0}
  /\ MaxFaults \in Nat
  /\ MaxTime \in Nat
  /\ NULL \notin Monitor /\ NULL \notin Nat

VARIABLES
  \* uptime_monitors
  state,         \* current_state, "absent" before the insert
  nextCheck,     \* next_check_at
  lease,         \* check_lease_until
  lastChecked,   \* last_checked_at
  lastCheckIn,   \* last_check_in_at
  \* uptime_monitor_incidents
  incident,      \* opened_at of the monitor's open incident, or NULL
  \* workers and check-in requests
  pc,
  at,            \* the time an actor's run or request started with
  batch,         \* monitors a worker has claimed and not yet recorded
  target,        \* the monitor an actor is recording
  result,        \* the state it will record
  seen,          \* the state it read under the row lock
  \* world
  now,
  faults,        \* faults that have happened
  late,          \* monitors some worker still held when their lease ended
  crossed        \* monitors that checked in while a worker held them

rowVars   == <<state, nextCheck, lease, lastChecked, lastCheckIn, incident>>
actorVars == <<pc, at, batch, target, result, seen>>
worldVars == <<now, faults, late, crossed>>
vars      == <<rowVars, actorVars, worldVars>>

State == {"unknown", "up", "down"}

PC == {"idle", "claim", "probe", "record", "recording", "overdue", "timeout",
       "timingOut", "checkIn", "checkingIn", "stopped"}

TypeOK ==
  /\ state \in [Monitor -> State \cup {"absent"}]
  /\ nextCheck \in [Monitor -> Nat]
  /\ lease \in [Monitor -> Nat \cup {NULL}]
  /\ lastChecked \in [Monitor -> Nat \cup {NULL}]
  /\ lastCheckIn \in [Monitor -> Nat \cup {NULL}]
  /\ incident \in [Monitor -> Nat \cup {NULL}]
  /\ pc \in [Actor -> PC]
  /\ at \in [Actor -> Nat]
  /\ batch \in [Worker -> SUBSET Monitor]
  /\ target \in [Actor -> Monitor \cup {NULL}]
  /\ result \in [Actor -> State]
  /\ seen \in [Actor -> State]
  /\ now \in Nat
  /\ faults \in Nat
  /\ late \subseteq Monitor
  /\ crossed \subseteq Monitor

Init ==
  /\ state = [m \in Monitor |-> "absent"]
  /\ nextCheck = [m \in Monitor |-> 0]
  /\ lease = [m \in Monitor |-> NULL]
  /\ lastChecked = [m \in Monitor |-> NULL]
  /\ lastCheckIn = [m \in Monitor |-> NULL]
  /\ incident = [m \in Monitor |-> NULL]
  /\ pc = [a \in Actor |-> "idle"]
  /\ at = [a \in Actor |-> 0]
  /\ batch = [w \in Worker |-> {}]
  /\ target = [a \in Actor |-> NULL]
  /\ result = [a \in Actor |-> "unknown"]
  /\ seen = [a \in Actor |-> "unknown"]
  /\ now = 0
  /\ faults = 0
  /\ late = {}
  /\ crossed = {}

-----------------------------------------------------------------------------
(* Creation.                                                               *)

Insert(m, next) ==
  /\ state[m] = "absent"
  /\ state' = [state EXCEPT ![m] = "unknown"]
  /\ nextCheck' = [nextCheck EXCEPT ![m] = next]
  /\ UNCHANGED <<lease, lastChecked, lastCheckIn, incident, actorVars, worldVars>>

createHTTPMonitor(m) == m \in Http /\ Insert(m, now)

createHeartbeatMonitor(m) == m \in Heartbeat /\ Insert(m, now + Interval[m] + Grace[m])

-----------------------------------------------------------------------------
(* Row locks: a recording transaction holds the row of its target.         *)

Recording == {"recording", "timingOut", "checkingIn"}

RowFree(m, a) == \A b \in Actor \ {a} : pc[b] \in Recording => target[b] # m

(* Slip: the state is read without FOR UPDATE.                             *)
ReadStateUnlocked(a, to) ==
  /\ seen' = [seen EXCEPT ![a] = state[target[a]]]
  /\ pc' = [pc EXCEPT ![a] = to]
  /\ UNCHANGED <<rowVars, at, batch, target, result, worldVars>>

lockMonitorState(a, to) ==
  /\ RowFree(target[a], a)
  /\ seen' = [seen EXCEPT ![a] = state[target[a]]]
  /\ pc' = [pc EXCEPT ![a] = to]
  /\ UNCHANGED <<rowVars, at, batch, target, result, worldVars>>

-----------------------------------------------------------------------------
(* Claims.                                                                 *)

(* Slips: the lease is not looked at; a leased monitor is never taken.     *)
DueIgnoringLease(K, t) ==
  {m \in K : state[m] # "absent" /\ nextCheck[m] <= t
               /\ \A a \in Actor : pc[a] \in Recording => target[a] # m}

DueUnleased(K, t) ==
  {m \in K : state[m] # "absent" /\ nextCheck[m] <= t /\ lease[m] = NULL
               /\ \A a \in Actor : pc[a] \in Recording => target[a] # m}

(* Due at time t, not leased beyond it, and not locked (SKIP LOCKED).      *)
Due(K, t) ==
  {m \in K : /\ state[m] # "absent"
             /\ nextCheck[m] <= t
             /\ lease[m] = NULL \/ lease[m] <= t
             /\ \A a \in Actor : pc[a] \in Recording => target[a] # m}

(* ORDER BY next_check_at LIMIT, ties broken arbitrarily.                  *)
IsFirst(S, C) ==
  /\ S \subseteq C
  /\ Cardinality(S) <= Limit
  /\ S # C => Cardinality(S) = Limit
  /\ \A m \in S, n \in C \ S : nextCheck[m] <= nextCheck[n]

(* w takes the monitors of S; a worker that comes to the claim late holds  *)
(* them with a lease that has ended already.                               *)
Take(w, S) ==
  /\ lease' = [m \in Monitor |-> IF m \in S THEN at[w] + Lease ELSE lease[m]]
  /\ late' = IF at[w] + Lease <= now THEN late \cup S ELSE late
  /\ UNCHANGED <<state, nextCheck, lastChecked, lastCheckIn, incident, now, crossed>>

(* What a batch in hand is worked off with, and what follows an empty one. *)
Claim(w, K, here, work, next) ==
  /\ pc[w] = here
  /\ \E S \in SUBSET Due(K, at[w]) :
       /\ IsFirst(S, Due(K, at[w]))
       /\ Take(w, S)
       /\ batch' = [batch EXCEPT ![w] = S]
       /\ pc' = [pc EXCEPT ![w] = IF S = {} THEN next ELSE work]
  /\ UNCHANGED <<at, target, result, seen, faults>>

-----------------------------------------------------------------------------
(* The task run of a worker.                                               *)

StartRun(w) ==
  /\ pc[w] = "idle"
  /\ pc' = [pc EXCEPT ![w] = "claim"]
  /\ at' = [at EXCEPT ![w] = now]
  /\ UNCHANGED <<rowVars, batch, target, result, seen, worldVars>>

ClaimDueHTTPMonitors(w) == Claim(w, Http, "claim", "probe", "overdue")

(* The probe of a claimed monitor, which a time limit ends.                *)
checkHTTPMonitor(w) ==
  /\ pc[w] = "probe"
  /\ \E m \in batch[w], s \in {"up", "down"} :
       /\ target' = [target EXCEPT ![w] = m]
       /\ result' = [result EXCEPT ![w] = s]
  /\ pc' = [pc EXCEPT ![w] = "record"]
  /\ UNCHANGED <<rowVars, at, batch, seen, worldVars>>

ClaimOverdueHeartbeatMonitors(w) == Claim(w, Heartbeat, "overdue", "timeout", "idle")

heartbeatTimeoutObservation(w) ==
  /\ pc[w] = "timeout" /\ target[w] = NULL
  /\ \E m \in batch[w] : target' = [target EXCEPT ![w] = m]
  /\ result' = [result EXCEPT ![w] = "down"]
  /\ UNCHANGED <<rowVars, pc, at, batch, seen, worldVars>>

(* ensureOpenMonitorIncident keeps an incident that is open already.       *)
IncidentAfter(m, a) ==
  CASE seen[a] = result[a] -> incident[m]
    [] result[a] = "up"    -> NULL
    [] OTHER               -> IF incident[m] # NULL THEN incident[m] ELSE at[a]

updateMonitorAfterCheck(a, delay) ==
  LET m == target[a]
  IN /\ state' = [state EXCEPT ![m] = result[a]]
     /\ lastChecked' = [lastChecked EXCEPT ![m] = at[a]]
     /\ nextCheck' = [nextCheck EXCEPT ![m] = at[a] + delay]
     /\ lease' = [lease EXCEPT ![m] = NULL]
     /\ incident' = [incident EXCEPT ![m] = IncidentAfter(m, a)]

Forget(a) ==
  /\ target' = [target EXCEPT ![a] = NULL]
  /\ result' = [result EXCEPT ![a] = "unknown"]
  /\ seen' = [seen EXCEPT ![a] = "unknown"]

(* The monitor is recorded: the next of the batch, or what follows it.     *)
Recorded(w, more, next) ==
  LET rest == batch[w] \ {target[w]}
  IN /\ batch' = [batch EXCEPT ![w] = rest]
     /\ pc' = [pc EXCEPT ![w] = IF rest = {} THEN next ELSE more]
     /\ Forget(w)
     /\ UNCHANGED at

lockHTTPMonitor(w) == pc[w] = "record" /\ lockMonitorState(w, "recording")

RecordHTTPMonitorCheck(w) ==
  /\ pc[w] = "recording"
  /\ updateMonitorAfterCheck(w, Interval[target[w]])
  /\ Recorded(w, "probe", "overdue")
  /\ UNCHANGED <<lastCheckIn, worldVars>>

lockOverdueMonitor(w) ==
  pc[w] = "timeout" /\ target[w] # NULL /\ lockMonitorState(w, "timingOut")

(* The timeout is recorded whatever the row says by now.                   *)
RecordHeartbeatTimeout(w) ==
  /\ pc[w] = "timingOut"
  /\ updateMonitorAfterCheck(w, Interval[target[w]])
  /\ Recorded(w, "timeout", "idle")
  /\ UNCHANGED <<lastCheckIn, worldVars>>

-----------------------------------------------------------------------------
(* A check-in.                                                             *)

(* The handler takes the time; an unknown endpoint gets a 404.             *)
heartbeatCheckInHandler(b, m) ==
  /\ pc[b] = "idle"
  /\ m \in Heartbeat /\ state[m] # "absent"
  /\ pc' = [pc EXCEPT ![b] = "checkIn"]
  /\ at' = [at EXCEPT ![b] = now]
  /\ target' = [target EXCEPT ![b] = m]
  /\ result' = [result EXCEPT ![b] = "up"]
  /\ UNCHANGED <<rowVars, batch, seen, worldVars>>

lockHeartbeatMonitorStateByEndpoint(b) ==
  pc[b] = "checkIn" /\ lockMonitorState(b, "checkingIn")

Answered(b) ==
  /\ pc' = [pc EXCEPT ![b] = "idle"]
  /\ at' = [at EXCEPT ![b] = 0]
  /\ Forget(b)
  /\ UNCHANGED batch

RecordHeartbeatCheckIn(b) ==
  /\ pc[b] = "checkingIn"
  /\ updateMonitorAfterCheck(b, Interval[target[b]] + Grace[target[b]])
  /\ lastCheckIn' = [lastCheckIn EXCEPT ![target[b]] = at[b]]
  /\ crossed' = IF \E w \in Worker : target[b] \in batch[w]
                  THEN crossed \cup {target[b]} ELSE crossed
  /\ Answered(b)
  /\ UNCHANGED <<now, faults, late>>

-----------------------------------------------------------------------------
(* Faults and time.                                                        *)

Fault == faults < MaxFaults /\ faults' = faults + 1

(* The process ends: killed, or by the error of a claim or a record, which *)
(* fails the task and with it the worker.  An open transaction is undone.  *)
Exit(w) ==
  /\ pc' = [pc EXCEPT ![w] = "stopped"]
  /\ batch' = [batch EXCEPT ![w] = {}]
  /\ at' = [at EXCEPT ![w] = 0]
  /\ Forget(w)

Stop(w) ==
  /\ Fault
  /\ pc[w] # "stopped"
  /\ Exit(w)
  /\ UNCHANGED <<rowVars, now, late, crossed>>

(* The claim took effect but a row of it did not scan, or its result did   *)
(* not arrive.                                                             *)
ClaimLost(w, K, here) ==
  /\ pc[w] = here
  /\ Fault
  /\ \E S \in SUBSET Due(K, at[w]) :
       /\ S # {} /\ IsFirst(S, Due(K, at[w]))
       /\ lease' = [m \in Monitor |-> IF m \in S THEN at[w] + Lease ELSE lease[m]]
  /\ Exit(w)
  /\ UNCHANGED <<state, nextCheck, lastChecked, lastCheckIn, incident, now, late, crossed>>

(* The record was committed but the worker did not learn it.               *)
RecordUnconfirmed(w) ==
  /\ pc[w] \in {"recording", "timingOut"}
  /\ Fault
  /\ updateMonitorAfterCheck(w, Interval[target[w]])
  /\ Exit(w)
  /\ UNCHANGED <<lastCheckIn, now, late, crossed>>

Restart(w) ==
  /\ pc[w] = "stopped"
  /\ pc' = [pc EXCEPT ![w] = "idle"]
  /\ UNCHANGED <<rowVars, at, batch, target, result, seen, worldVars>>

(* A check-in fails and is undone.                                         *)
CheckInFails(b) ==
  /\ pc[b] \in {"checkIn", "checkingIn"}
  /\ Fault
  /\ Answered(b)
  /\ UNCHANGED <<rowVars, now, late, crossed>>

Holds(w, m) == m \in batch[w]

Tick ==
  /\ now < MaxTime
  /\ now' = now + 1
  /\ late' = late \cup {m \in Monitor : \E w \in Worker : Holds(w, m) /\ at[w] + Lease <= now + 1}
  /\ UNCHANGED <<rowVars, actorVars, faults, crossed>>

-----------------------------------------------------------------------------
LockStep(w) == lockHTTPMonitor(w) \/ lockOverdueMonitor(w)

WorkerStep(w) ==
  \/ StartRun(w) \/ ClaimDueHTTPMonitors(w) \/ checkHTTPMonitor(w)
  \/ RecordHTTPMonitorCheck(w) \/ ClaimOverdueHeartbeatMonitors(w)
  \/ heartbeatTimeoutObservation(w) \/ RecordHeartbeatTimeout(w) \/ Restart(w)

WorkerFault(w) ==
  \/ Stop(w) \/ ClaimLost(w, Http, "claim") \/ ClaimLost(w, Heartbeat, "overdue")
  \/ RecordUnconfirmed(w)

BeatStep(b) == lockHeartbeatMonitorStateByEndpoint(b) \/ RecordHeartbeatCheckIn(b)

Next ==
  \/ \E m \in Monitor : createHTTPMonitor(m) \/ createHeartbeatMonitor(m)
  \/ \E w \in Worker : WorkerStep(w) \/ LockStep(w) \/ WorkerFault(w)
  \/ \E b \in Beat, m \in Monitor : heartbeatCheckInHandler(b, m)
  \/ \E b \in Beat : BeatStep(b) \/ CheckInFails(b)
  \/ Tick

Spec == Init /\ [][Next]_vars

(* Workers are scheduled and restarted, probes have a timeout, row locks   *)
(* are granted in the order of the waits, transactions end.                *)
Fairness ==
  /\ \A w \in Worker : WF_vars(WorkerStep(w)) /\ SF_vars(LockStep(w))
  /\ \A b \in Beat : SF_vars(BeatStep(b))
  /\ WF_vars(Tick)

FairSpec == Spec /\ Fairness

-----------------------------------------------------------------------------
(* Properties.                                                             *)

(* A monitor has an open incident exactly while it is down, although state *)
(* and incident are written by different statements that act on a state    *)
(* read before them (recordHTTPMonitorCheckInTx and its two siblings).     *)
IncidentMirrorsState ==
  \A m \in Monitor : incident[m] # NULL <=> state[m] = "down"

(* An HTTP monitor is probed by one worker at a time, as long as no worker *)
(* has held it past the lease it took (check_lease_until).                 *)
ExclusiveProbe ==
  \A m \in Http \ late : \A v, w \in Worker : Holds(v, m) /\ Holds(w, m) => v = w

(* Results of an HTTP monitor are recorded in order and an interval apart, *)
(* and an incident is closed by a later result than the one it was opened  *)
(* by, as long as no worker overran its lease.                             *)
ResultsInOrder ==
  [][\A m \in Http \ late :
       /\ lastChecked'[m] # lastChecked[m] /\ lastChecked[m] # NULL
            => lastChecked'[m] >= lastChecked[m] + Interval[m]
       /\ incident[m] # NULL /\ incident'[m] = NULL
            => lastChecked'[m] > incident[m]]_vars

(* A heartbeat monitor that is down had missed its last check-in by more   *)
(* than the grace when it was judged, unless a check-in was recorded while *)
(* a worker held the monitor as overdue.                                   *)
WasOverdue(m) ==
  state[m] = "down" /\ lastCheckIn[m] # NULL
    => lastCheckIn[m] + Interval[m] + Grace[m] <= lastChecked[m]

TimeoutsJustified == \A m \in Heartbeat \ crossed : WasOverdue(m)

(* "check-ins mark up, overdue heartbeats mark down"                       *)
(* (web/templates/uptime.templ:150), without that exception.               *)
HeartbeatRule == \A m \in Heartbeat : WasOverdue(m)

(* A monitor that was claimed and lost is taken up again when the lease    *)
(* ends, whatever happened to the worker.                                  *)
Orphaned(m) == lease[m] # NULL /\ \A w \in Worker : ~Holds(w, m)

NoMonitorLost ==
  \A m \in Monitor :
    (Orphaned(m) /\ lease[m] <= MaxTime) ~> ~Orphaned(m)

=============================================================================
