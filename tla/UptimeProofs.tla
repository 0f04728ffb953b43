---------------------------- MODULE UptimeProofs ----------------------------
(***************************************************************************)
(* Proofs about uptime monitors, for any workers, requests and monitors,   *)
(* any intervals, graces, lease and batch size, with faults.               *)
(***************************************************************************)
EXTENDS Uptime, TLAPS

-----------------------------------------------------------------------------
(* The inductive invariant.                                                *)

(* What a worker holds at each step of its run ...                         *)
WorkerFits(w) ==
  /\ pc[w] \in PC \ {"checkIn", "checkingIn"}
  /\ pc[w] \in {"idle", "claim", "overdue", "stopped"} => batch[w] = {}
  /\ pc[w] \in {"idle", "claim", "probe", "overdue", "stopped"} => target[w] = NULL
  /\ pc[w] \in {"probe", "record", "recording"} => batch[w] \subseteq Http
  /\ pc[w] \in {"timeout", "timingOut"} => batch[w] \subseteq Heartbeat
  /\ pc[w] \in {"record", "recording", "timingOut"} => target[w] \in batch[w]
  /\ pc[w] = "timeout" /\ target[w] # NULL => target[w] \in batch[w]
  /\ pc[w] \in {"record", "recording"} => result[w] \in {"up", "down"}
  /\ pc[w] = "timingOut" \/ (pc[w] = "timeout" /\ target[w] # NULL) => result[w] = "down"
  /\ \A m \in batch[w] : state[m] # "absent"

(* ... and a check-in.                                                     *)
BeatFits(b) ==
  /\ pc[b] \in {"idle", "checkIn", "checkingIn"}
  /\ pc[b] # "idle" =>
       target[b] \in Heartbeat /\ state[target[b]] # "absent" /\ result[b] = "up"

Fits == (\A w \in Worker : WorkerFits(w)) /\ (\A b \in Beat : BeatFits(b))

(* A row has one writer, and its state is what the writer read.            *)
Locked ==
  \A a \in Actor : pc[a] \in Recording =>
    /\ seen[a] = state[target[a]]
    /\ \A b \in Actor \ {a} : pc[b] \in Recording => target[b] # target[a]

(* An HTTP monitor held in time is leased until its holder's time is over, *)
(* and was due when it was claimed.                                        *)
Leased ==
  \A m \in Http \ late : \A w \in Worker : Holds(w, m) =>
    /\ lease[m] = at[w] + Lease
    /\ now < at[w] + Lease
    /\ lastChecked[m] # NULL => lastChecked[m] + Interval[m] <= at[w]

(* The schedule of an HTTP monitor, and the past of its incident.          *)
Scheduled ==
  /\ \A m \in Http : lastChecked[m] # NULL => nextCheck[m] = lastChecked[m] + Interval[m]
  /\ \A m \in Http \ late : incident[m] # NULL =>
       lastChecked[m] # NULL /\ incident[m] <= lastChecked[m]

(* A heartbeat monitor is not due, and not held, before its last check-in  *)
(* is overdue.                                                             *)
Overdue(m, t) == lastCheckIn[m] # NULL => lastCheckIn[m] + Interval[m] + Grace[m] <= t

Awaited ==
  \A m \in Heartbeat \ crossed :
    /\ Overdue(m, nextCheck[m])
    /\ \A w \in Worker : Holds(w, m) => Overdue(m, at[w])

Past == \A a \in Actor : at[a] <= now

Untouched == \A m \in Monitor : state[m] = "absent" =>
  lastChecked[m] = NULL /\ lastCheckIn[m] = NULL

IInv ==
  /\ TypeOK /\ Fits /\ Locked /\ Past /\ Untouched
  /\ IncidentMirrorsState
  /\ ExclusiveProbe /\ Leased /\ Scheduled
  /\ Awaited /\ TimeoutsJustified

-----------------------------------------------------------------------------
(* The initial states.                                                     *)

(* No monitor exists and nobody is at work.                                *)
LEMMA Initially == Init => IInv
BY UptimeAssumption DEF Init, IInv, TypeOK, Fits, WorkerFits, BeatFits, Locked, Recording,
  Past,
  Untouched, IncidentMirrorsState, ExclusiveProbe, Leased, Scheduled, Awaited, Overdue,
  TimeoutsJustified, WasOverdue, Holds, PC, State, Actor, Monitor, UptimeAssumption

-----------------------------------------------------------------------------
(* Steps that write no row: what is said of rows and leases stays true.    *)

(* The rows, the batches and the times of the holders stay.                *)
Quiet ==
  /\ UNCHANGED <<rowVars, late, crossed>>
  /\ now' = now
  /\ \A w \in Worker : batch'[w] = batch[w] \/ batch'[w] = {}
  /\ \A w \in Worker : at'[w] = at[w] \/ batch'[w] = {}

(* A step that records nothing and claims nothing keeps all but its        *)
(* actor's own memory and locks.                                           *)
LEMMA QuietStep ==
  ASSUME IInv, Quiet, TypeOK'
  PROVE  /\ Untouched' /\ IncidentMirrorsState' /\ ExclusiveProbe' /\ Leased' /\ Scheduled'
         /\ Awaited' /\ TimeoutsJustified'
<1>1. Untouched' /\ IncidentMirrorsState' /\ Scheduled' /\ TimeoutsJustified'
  BY DEF IInv, Quiet, rowVars, Untouched, IncidentMirrorsState, Scheduled,
    TimeoutsJustified, WasOverdue
<1>2. ExclusiveProbe'
  BY DEF IInv, Quiet, ExclusiveProbe, Holds
<1>3. Leased'
  BY DEF IInv, Quiet, rowVars, Leased, Holds
<1>4. Awaited'
  BY DEF IInv, Quiet, rowVars, Awaited, Overdue, Holds
<1> QED
  BY <1>1, <1>2, <1>3, <1>4

(* A worker begins a run: its time is now, and it has claimed nothing      *)
(* yet.                                                                    *)
LEMMA StartRunKeeps ==
  ASSUME IInv, NEW w \in Worker, StartRun(w)
  PROVE  IInv'
<1>1. TypeOK'
  BY DEF IInv, TypeOK, StartRun, rowVars, worldVars, PC
<1>2. Quiet
  BY DEF IInv, Fits, WorkerFits, Quiet, StartRun, worldVars
<1>3. Fits'
  BY UptimeAssumption DEF IInv, Fits, WorkerFits, BeatFits, StartRun, rowVars, PC
<1>4. Locked'
  BY DEF IInv, Locked, Recording, StartRun, rowVars
<1>5. Past'
  BY DEF IInv, TypeOK, Past, StartRun, worldVars
<1> QED
  BY <1>1, <1>2, <1>3, <1>4, <1>5, QuietStep DEF IInv

(* A worker has the answer of a monitor of its batch.                      *)
LEMMA CheckHTTPKeeps ==
  ASSUME IInv, NEW w \in Worker, checkHTTPMonitor(w)
  PROVE  IInv'
<1>1. TypeOK'
  BY DEF IInv, TypeOK, checkHTTPMonitor, rowVars, worldVars, Actor, PC, State
<1>2. Quiet
  BY DEF Quiet, checkHTTPMonitor, worldVars
<1>3. Fits'
  BY DEF IInv, TypeOK, Fits, WorkerFits, BeatFits, checkHTTPMonitor, rowVars, PC
<1>4. Locked'
  BY DEF IInv, Locked, Recording, checkHTTPMonitor, rowVars
<1>5. Past'
  BY DEF IInv, Past, checkHTTPMonitor, worldVars
<1> QED
  BY <1>1, <1>2, <1>3, <1>4, <1>5, QuietStep DEF IInv

(* A worker takes its next overdue monitor.                                *)
LEMMA ObserveTimeoutKeeps ==
  ASSUME IInv, NEW w \in Worker, heartbeatTimeoutObservation(w)
  PROVE  IInv'
<1>1. TypeOK'
  BY DEF IInv, TypeOK, heartbeatTimeoutObservation, rowVars, worldVars, Actor, State
<1>2. Quiet
  BY DEF Quiet, heartbeatTimeoutObservation, worldVars
<1>3. Fits'
  BY DEF IInv, TypeOK, Fits, WorkerFits, BeatFits, heartbeatTimeoutObservation, rowVars
<1>4. Locked'
  BY DEF IInv, Locked, Recording, heartbeatTimeoutObservation, rowVars
<1>5. Past'
  BY DEF IInv, Past, heartbeatTimeoutObservation, worldVars
<1> QED
  BY <1>1, <1>2, <1>3, <1>4, <1>5, QuietStep DEF IInv

(* A worker starts again with an empty memory.                             *)
LEMMA RestartKeeps ==
  ASSUME IInv, NEW w \in Worker, Restart(w)
  PROVE  IInv'
<1>1. TypeOK'
  BY DEF IInv, TypeOK, Restart, rowVars, worldVars, PC
<1>2. Quiet
  BY DEF Quiet, Restart, worldVars
<1>3. Fits'
  BY DEF IInv, Fits, WorkerFits, BeatFits, Restart, rowVars, PC
<1>4. Locked'
  BY DEF IInv, Locked, Recording, Restart, rowVars
<1>5. Past'
  BY DEF IInv, Past, Restart, worldVars
<1> QED
  BY <1>1, <1>2, <1>3, <1>4, <1>5, QuietStep DEF IInv

(* A worker ends; its open transaction goes, and with it the lock.         *)
LEMMA StopKeeps ==
  ASSUME IInv, NEW w \in Worker, Stop(w)
  PROVE  IInv'
<1>1. TypeOK'
  BY DEF IInv, TypeOK, Stop, Exit, Forget, Fault, rowVars, Actor, PC, State
<1>2. Quiet
  BY DEF IInv, TypeOK, Quiet, Stop, Exit
<1>3. Fits'
  BY UptimeAssumption DEF IInv, TypeOK, Fits, WorkerFits, BeatFits, Stop, Exit, Forget,
    rowVars, Actor, PC
<1>4. Locked'
  BY DEF IInv, TypeOK, Locked, Recording, Stop, Exit, Forget, rowVars
<1>5. Past'
  BY DEF IInv, TypeOK, Past, Stop, Exit
<1> QED
  BY <1>1, <1>2, <1>3, <1>4, <1>5, QuietStep DEF IInv

(* A check-in arrives and takes its time.                                  *)
LEMMA HandlerKeeps ==
  ASSUME IInv, NEW b \in Beat, NEW m \in Monitor, heartbeatCheckInHandler(b, m)
  PROVE  IInv'
<1>1. TypeOK'
  BY DEF IInv, TypeOK, heartbeatCheckInHandler, rowVars, worldVars, PC, State
<1>2. Quiet
  BY UptimeAssumption DEF Quiet, heartbeatCheckInHandler, worldVars
<1>3. Fits'
  BY UptimeAssumption DEF IInv, TypeOK, Fits, WorkerFits, BeatFits,
    heartbeatCheckInHandler, rowVars
<1>4. Locked'
  BY DEF IInv, Locked, Recording, heartbeatCheckInHandler, rowVars
<1>5. Past'
  BY DEF IInv, TypeOK, Past, heartbeatCheckInHandler, worldVars
<1> QED
  BY <1>1, <1>2, <1>3, <1>4, <1>5, QuietStep DEF IInv

(* A check-in fails, and its lock goes.                                    *)
LEMMA CheckInFailsKeeps ==
  ASSUME IInv, NEW b \in Beat, CheckInFails(b)
  PROVE  IInv'
<1>1. TypeOK'
  BY DEF IInv, TypeOK, CheckInFails, Answered, Forget, Fault, rowVars, Actor, PC, State
<1>2. Quiet
  BY UptimeAssumption DEF Quiet, CheckInFails, Answered
<1>3. Fits'
  BY DEF IInv, TypeOK, Fits, WorkerFits, BeatFits, CheckInFails, Answered, Forget, rowVars
<1>4. Locked'
  BY DEF IInv, TypeOK, Locked, Recording, CheckInFails, Answered, Forget, rowVars
<1>5. Past'
  BY DEF IInv, TypeOK, Past, CheckInFails, Answered
<1> QED
  BY <1>1, <1>2, <1>3, <1>4, <1>5, QuietStep DEF IInv

(* Only an actor who finds the row free locks it, and sees what it is.     *)
LEMMA LockKeeps ==
  ASSUME IInv, NEW a \in Actor, a \in Worker => LockStep(a),
    a \in Beat => lockHeartbeatMonitorStateByEndpoint(a)
  PROVE  IInv'
<1>1. TypeOK'
  BY DEF IInv, TypeOK, Fits, WorkerFits, BeatFits, LockStep, lockHTTPMonitor,
    lockOverdueMonitor, lockHeartbeatMonitorStateByEndpoint, lockMonitorState, rowVars,
    worldVars, Actor, Monitor, PC
<1>2. Quiet
  BY DEF Quiet, LockStep, lockHTTPMonitor, lockOverdueMonitor,
    lockHeartbeatMonitorStateByEndpoint, lockMonitorState, worldVars, Actor
<1>3. Fits'
  BY DEF IInv, TypeOK, Fits, WorkerFits, BeatFits, LockStep, lockHTTPMonitor,
    lockOverdueMonitor, lockHeartbeatMonitorStateByEndpoint, lockMonitorState, rowVars,
    Actor, PC
<1>4. Locked'
  BY DEF IInv, TypeOK, Locked, LockStep, lockHTTPMonitor, lockOverdueMonitor,
    lockHeartbeatMonitorStateByEndpoint, lockMonitorState, RowFree, rowVars, Actor
<1>5. Past'
  BY DEF IInv, Past, LockStep, lockHTTPMonitor, lockOverdueMonitor,
    lockHeartbeatMonitorStateByEndpoint, lockMonitorState, worldVars, Actor
<1> QED
  BY <1>1, <1>2, <1>3, <1>4, <1>5, QuietStep DEF IInv

(* A monitor that is created was untouched before.                         *)
LEMMA InsertKeeps ==
  ASSUME IInv, NEW m \in Monitor, createHTTPMonitor(m) \/ createHeartbeatMonitor(m)
  PROVE  IInv'
<1>1. TypeOK'
  BY UptimeAssumption DEF IInv, TypeOK, State, createHTTPMonitor, createHeartbeatMonitor,
    Insert, actorVars, worldVars
<1>2. Fits'
  BY DEF IInv, TypeOK, Fits, WorkerFits, BeatFits, Monitor, createHTTPMonitor,
    createHeartbeatMonitor, Insert, actorVars
<1>3. Locked'
  BY DEF IInv, TypeOK, Locked, Recording, Fits, WorkerFits, BeatFits, Actor, Monitor,
    createHTTPMonitor, createHeartbeatMonitor, Insert, actorVars
<1>4. Past'
  BY DEF IInv, Past, createHTTPMonitor, createHeartbeatMonitor, Insert, actorVars, worldVars
<1>5. Untouched'
  BY DEF IInv, TypeOK, Untouched, createHTTPMonitor, createHeartbeatMonitor, Insert
<1>6. IncidentMirrorsState'
  BY DEF IInv, TypeOK, IncidentMirrorsState, createHTTPMonitor, createHeartbeatMonitor,
    Insert
<1>7. ExclusiveProbe'
  BY DEF IInv, ExclusiveProbe, Holds, createHTTPMonitor, createHeartbeatMonitor, Insert,
    actorVars, worldVars
<1>8. Leased'
  BY DEF IInv, Leased, Holds, createHTTPMonitor, createHeartbeatMonitor, Insert, actorVars,
    worldVars
<1>9. Scheduled'
  BY DEF IInv, TypeOK, Scheduled, Untouched, Monitor, createHTTPMonitor,
    createHeartbeatMonitor, Insert, worldVars
<1>10. Awaited'
  BY DEF IInv, TypeOK, Awaited, Overdue, Untouched, Holds, Monitor, createHTTPMonitor,
    createHeartbeatMonitor, Insert, actorVars, worldVars
<1>11. TimeoutsJustified'
  BY DEF IInv, TypeOK, TimeoutsJustified, WasOverdue, Monitor, createHTTPMonitor,
    createHeartbeatMonitor, Insert, worldVars
<1> QED
  BY <1>1, <1>2, <1>3, <1>4, <1>5, <1>6, <1>7, <1>8, <1>9, <1>10, <1>11 DEF IInv

(* Time only passes: leases may end, nothing else is said of now but       *)
(* bounds from above.                                                      *)
LEMMA TickKeeps ==
  ASSUME IInv, Tick
  PROVE  IInv'
<1>1. TypeOK'
  BY DEF IInv, TypeOK, Tick, rowVars, actorVars
<1>2. Fits'
  BY DEF IInv, Fits, WorkerFits, BeatFits, Tick, rowVars, actorVars
<1>3. Locked'
  BY DEF IInv, Locked, Tick, rowVars, actorVars
<1>4. Past'
  BY DEF IInv, TypeOK, Past, Tick, actorVars
<1>5. Untouched'
  BY DEF IInv, Untouched, Tick, rowVars
<1>6. IncidentMirrorsState'
  BY DEF IInv, IncidentMirrorsState, Tick, rowVars
<1>7. ExclusiveProbe'
  BY DEF IInv, ExclusiveProbe, Holds, Tick, actorVars
<1>8. Leased'
  BY UptimeAssumption DEF IInv, TypeOK, Leased, Holds, Actor, Tick, rowVars, actorVars
<1>9. Scheduled'
  BY DEF IInv, Scheduled, Tick, rowVars
<1>10. Awaited'
  BY DEF IInv, Awaited, Overdue, Holds, Tick, rowVars, actorVars
<1>11. TimeoutsJustified'
  BY DEF IInv, TimeoutsJustified, WasOverdue, Tick, rowVars
<1> QED
  BY <1>1, <1>2, <1>3, <1>4, <1>5, <1>6, <1>7, <1>8, <1>9, <1>10, <1>11 DEF IInv

(* A claim takes monitors that are due, so nobody else has the lease of    *)
(* one that is not late.                                                   *)
LEMMA ClaimHTTPKeeps ==
  ASSUME IInv, NEW w \in Worker, ClaimDueHTTPMonitors(w)
  PROVE  IInv'
<1>1. TypeOK'
  BY UptimeAssumption DEF IInv, TypeOK, Actor, Monitor, PC, ClaimDueHTTPMonitors, Claim,
    Due, Take
<1>2. Fits'
  BY DEF IInv, TypeOK, Fits, WorkerFits, BeatFits, Actor, PC, ClaimDueHTTPMonitors, Claim,
    Due, Take
<1>3. Locked'
  BY DEF IInv, Locked, Recording, ClaimDueHTTPMonitors, Claim, Take
<1>4. Past'
  BY DEF IInv, Past, ClaimDueHTTPMonitors, Claim, Take
<1>5. Untouched'
  BY DEF IInv, Untouched, ClaimDueHTTPMonitors, Claim, Take
<1>6. IncidentMirrorsState'
  BY DEF IInv, IncidentMirrorsState, ClaimDueHTTPMonitors, Claim, Take
<1>7. ExclusiveProbe'
  BY UptimeAssumption DEF IInv, TypeOK, ExclusiveProbe, Leased, Past, Holds, Actor,
    ClaimDueHTTPMonitors, Claim, Due, Take
<1>8. Leased'
  BY UptimeAssumption DEF IInv, TypeOK, Leased, Scheduled, Past, Holds, Actor, Monitor,
    ClaimDueHTTPMonitors, Claim, Due, Take
<1>9. Scheduled'
  BY DEF IInv, Scheduled, ClaimDueHTTPMonitors, Claim, Take
<1>10. Awaited'
  BY UptimeAssumption DEF IInv, Awaited, Overdue, Holds, ClaimDueHTTPMonitors, Claim, Due,
    Take
<1>11. TimeoutsJustified'
  BY DEF IInv, TimeoutsJustified, WasOverdue, ClaimDueHTTPMonitors, Claim, Take
<1> QED
  BY <1>1, <1>2, <1>3, <1>4, <1>5, <1>6, <1>7, <1>8, <1>9, <1>10, <1>11 DEF IInv

(* A claim of overdue heartbeats: what it takes was overdue at its time.   *)
LEMMA ClaimHeartbeatKeeps ==
  ASSUME IInv, NEW w \in Worker, ClaimOverdueHeartbeatMonitors(w)
  PROVE  IInv'
<1>1. TypeOK'
  BY UptimeAssumption DEF IInv, TypeOK, Actor, Monitor, PC, ClaimOverdueHeartbeatMonitors,
    Claim, Due, Take
<1>2. Fits'
  <2>1. ASSUME NEW v \in Worker PROVE WorkerFits(v)'
    <3>1. PICK S \in SUBSET Due(Heartbeat, at[w]) :
            batch' = [batch EXCEPT ![w] = S]
              /\ pc' = [pc EXCEPT ![w] = IF S = {} THEN "idle" ELSE "timeout"]
      BY DEF ClaimOverdueHeartbeatMonitors, Claim
    <3>2. S \subseteq Heartbeat /\ \A m \in S : state[m] # "absent"
      BY DEF Due
    <3>3. WorkerFits(v) /\ WorkerFits(w) /\ pc[w] = "overdue" /\ UNCHANGED <<state, target, result>>
      BY DEF IInv, Fits, ClaimOverdueHeartbeatMonitors, Claim, Take
    <3>4. CASE v = w
      <4>1. batch'[w] = S /\ pc'[w] = IF S = {} THEN "idle" ELSE "timeout"
        BY <3>1 DEF IInv, TypeOK, Actor
      <4>2. target[w] = NULL
        BY <3>3 DEF WorkerFits
      <4> QED
        BY <3>2, <3>3, <3>4, <4>1, <4>2 DEF WorkerFits, PC
    <3>5. CASE v # w
      BY <3>1, <3>3, <3>5 DEF WorkerFits, IInv, TypeOK, Actor
    <3> QED
      BY <3>4, <3>5
  <2>2. ASSUME NEW b \in Beat PROVE BeatFits(b)'
    BY DEF IInv, Fits, BeatFits, ClaimOverdueHeartbeatMonitors, Claim, Take
  <2> QED
    BY <2>1, <2>2 DEF Fits
<1>3. Locked'
  BY DEF IInv, Locked, Recording, ClaimOverdueHeartbeatMonitors, Claim, Take
<1>4. Past'
  BY DEF IInv, Past, ClaimOverdueHeartbeatMonitors, Claim, Take
<1>5. Untouched'
  BY DEF IInv, Untouched, ClaimOverdueHeartbeatMonitors, Claim, Take
<1>6. IncidentMirrorsState'
  BY DEF IInv, IncidentMirrorsState, ClaimOverdueHeartbeatMonitors, Claim, Take
<1>7. ExclusiveProbe'
  BY UptimeAssumption DEF IInv, ExclusiveProbe, Holds, ClaimOverdueHeartbeatMonitors,
    Claim, Due, Take
<1>8. Leased'
  BY UptimeAssumption DEF IInv, Leased, Holds, Monitor, ClaimOverdueHeartbeatMonitors,
    Claim, Due, Take
<1>9. Scheduled'
  BY DEF IInv, Scheduled, ClaimOverdueHeartbeatMonitors, Claim, Take
<1>10. Awaited'
  BY UptimeAssumption DEF IInv, TypeOK, Awaited, Overdue, Holds, Actor, Monitor,
    ClaimOverdueHeartbeatMonitors, Claim, Due, Take
<1>11. TimeoutsJustified'
  BY DEF IInv, TimeoutsJustified, WasOverdue, ClaimOverdueHeartbeatMonitors, Claim, Take
<1> QED
  BY <1>1, <1>2, <1>3, <1>4, <1>5, <1>6, <1>7, <1>8, <1>9, <1>10, <1>11 DEF IInv

(* A claim whose answer is lost leaves leases that nobody holds.           *)
LEMMA ClaimLostKeeps ==
  ASSUME IInv, NEW w \in Worker, NEW K \in {Http, Heartbeat}, NEW p \in PC, ClaimLost(w, K,
    p)
  PROVE  IInv'
<1>1. TypeOK'
  BY UptimeAssumption DEF IInv, TypeOK, Actor, PC, State, ClaimLost, Exit, Forget, Fault
<1>2. Fits'
  BY UptimeAssumption DEF IInv, TypeOK, Fits, WorkerFits, BeatFits, Actor, PC, ClaimLost,
    Exit, Forget
<1>3. Locked'
  BY DEF IInv, TypeOK, Locked, Recording, ClaimLost, Exit, Forget
<1>4. Past'
  BY DEF IInv, TypeOK, Past, ClaimLost, Exit
<1>5. Untouched'
  BY DEF IInv, Untouched, ClaimLost
<1>6. IncidentMirrorsState'
  BY DEF IInv, IncidentMirrorsState, ClaimLost
<1>7. ExclusiveProbe'
  BY DEF IInv, ExclusiveProbe, Holds, ClaimLost, Exit
<1>8. Leased'
  BY UptimeAssumption DEF IInv, TypeOK, Leased, Past, Holds, Actor, ClaimLost, Due, Exit
<1>9. Scheduled'
  BY DEF IInv, Scheduled, ClaimLost
<1>10. Awaited'
  BY DEF IInv, TypeOK, Awaited, Overdue, Holds, ClaimLost, Exit
<1>11. TimeoutsJustified'
  BY DEF IInv, TimeoutsJustified, WasOverdue, ClaimLost
<1> QED
  BY <1>1, <1>2, <1>3, <1>4, <1>5, <1>6, <1>7, <1>8, <1>9, <1>10, <1>11 DEF IInv

(* The result of a probe is recorded by the one that holds the lock and    *)
(* the lease.                                                              *)
LEMMA RecordHTTPKeeps ==
  ASSUME IInv, NEW w \in Worker, RecordHTTPMonitorCheck(w)
  PROVE  IInv'
<1>1. TypeOK'
  BY UptimeAssumption DEF IInv, TypeOK, Fits, WorkerFits, Actor, Monitor, PC, State,
    RecordHTTPMonitorCheck, updateMonitorAfterCheck, IncidentAfter, Recorded, Forget,
    worldVars
<1>2. Fits'
  BY DEF IInv, TypeOK, Fits, WorkerFits, BeatFits, Actor, PC, RecordHTTPMonitorCheck,
    updateMonitorAfterCheck, IncidentAfter, Recorded, Forget
<1>3. Locked'
  BY DEF IInv, TypeOK, Locked, Recording, Actor, RecordHTTPMonitorCheck,
    updateMonitorAfterCheck, Recorded, Forget
<1>4. Past'
  BY DEF IInv, Past, RecordHTTPMonitorCheck, Recorded, worldVars
<1>5. Untouched'
  BY DEF IInv, Untouched, Fits, WorkerFits, RecordHTTPMonitorCheck, updateMonitorAfterCheck
<1>6. IncidentMirrorsState'
  BY UptimeAssumption DEF IInv, TypeOK, IncidentMirrorsState, Locked, Recording, Fits,
    WorkerFits, Actor, RecordHTTPMonitorCheck, updateMonitorAfterCheck, IncidentAfter
<1>7. ExclusiveProbe'
  BY DEF IInv, ExclusiveProbe, Holds, RecordHTTPMonitorCheck, Recorded, worldVars
<1>8. Leased'
  BY DEF IInv, TypeOK, Leased, ExclusiveProbe, Holds, Fits, WorkerFits,
    RecordHTTPMonitorCheck, updateMonitorAfterCheck, Recorded, worldVars
<1>9. Scheduled'
  BY UptimeAssumption DEF IInv, TypeOK, Scheduled, Leased, Holds, Actor, Monitor, Fits,
    WorkerFits, RecordHTTPMonitorCheck, updateMonitorAfterCheck, IncidentAfter, worldVars
<1>10. Awaited'
  BY UptimeAssumption DEF IInv, Awaited, Overdue, Holds, Fits, WorkerFits,
    RecordHTTPMonitorCheck, updateMonitorAfterCheck, Recorded, worldVars
<1>11. TimeoutsJustified'
  BY UptimeAssumption DEF IInv, TimeoutsJustified, WasOverdue, Fits, WorkerFits,
    RecordHTTPMonitorCheck, updateMonitorAfterCheck, worldVars
<1> QED
  BY <1>1, <1>2, <1>3, <1>4, <1>5, <1>6, <1>7, <1>8, <1>9, <1>10, <1>11 DEF IInv

(* A timeout is recorded, whatever the row says by now.                    *)
LEMMA RecordTimeoutKeeps ==
  ASSUME IInv, NEW w \in Worker, RecordHeartbeatTimeout(w)
  PROVE  IInv'
<1>1. TypeOK'
  BY UptimeAssumption DEF IInv, TypeOK, Fits, WorkerFits, Actor, Monitor, PC, State,
    RecordHeartbeatTimeout, updateMonitorAfterCheck, IncidentAfter, Recorded, Forget,
    worldVars
<1>2. Fits'
  BY DEF IInv, TypeOK, Fits, WorkerFits, BeatFits, Actor, PC, RecordHeartbeatTimeout,
    updateMonitorAfterCheck, Recorded, Forget
<1>3. Locked'
  BY DEF IInv, TypeOK, Locked, Recording, Actor, RecordHeartbeatTimeout,
    updateMonitorAfterCheck, Recorded, Forget
<1>4. Past'
  BY DEF IInv, Past, RecordHeartbeatTimeout, Recorded, worldVars
<1>5. Untouched'
  BY DEF IInv, Untouched, Fits, WorkerFits, RecordHeartbeatTimeout, updateMonitorAfterCheck
<1>6. IncidentMirrorsState'
  BY UptimeAssumption DEF IInv, TypeOK, IncidentMirrorsState, Locked, Recording, Fits,
    WorkerFits, Actor, RecordHeartbeatTimeout, updateMonitorAfterCheck, IncidentAfter
<1>7. ExclusiveProbe'
  BY DEF IInv, ExclusiveProbe, Holds, RecordHeartbeatTimeout, Recorded, worldVars
<1>8. Leased'
  BY UptimeAssumption DEF IInv, Leased, Holds, Fits, WorkerFits, RecordHeartbeatTimeout,
    updateMonitorAfterCheck, Recorded, worldVars
<1>9. Scheduled'
  BY UptimeAssumption DEF IInv, Scheduled, Fits, WorkerFits, RecordHeartbeatTimeout,
    updateMonitorAfterCheck, worldVars
<1>10. Awaited'
  BY UptimeAssumption DEF IInv, TypeOK, Awaited, Overdue, Holds, Actor, Monitor, Fits,
    WorkerFits, RecordHeartbeatTimeout, updateMonitorAfterCheck, Recorded, worldVars
<1>11. TimeoutsJustified'
  BY DEF IInv, TypeOK, TimeoutsJustified, WasOverdue, Awaited, Overdue, Holds, Fits,
    WorkerFits, RecordHeartbeatTimeout, updateMonitorAfterCheck, worldVars
<1> QED
  BY <1>1, <1>2, <1>3, <1>4, <1>5, <1>6, <1>7, <1>8, <1>9, <1>10, <1>11 DEF IInv

(* A record that took effect without an answer does what one with an       *)
(* answer does.                                                            *)
LEMMA RecordUnconfirmedKeeps ==
  ASSUME IInv, NEW w \in Worker, RecordUnconfirmed(w)
  PROVE  IInv'
<1>1. TypeOK'
  BY UptimeAssumption DEF IInv, TypeOK, Fits, WorkerFits, Actor, Monitor, PC, State,
    RecordUnconfirmed, updateMonitorAfterCheck, IncidentAfter, Exit, Forget, Fault
<1>2. Fits'
  BY DEF IInv, TypeOK, Fits, WorkerFits, BeatFits, Actor, PC, RecordUnconfirmed,
    updateMonitorAfterCheck, Exit, Forget
<1>3. Locked'
  BY DEF IInv, TypeOK, Locked, Recording, Actor, RecordUnconfirmed,
    updateMonitorAfterCheck, Exit, Forget
<1>4. Past'
  BY DEF IInv, TypeOK, Past, RecordUnconfirmed, Exit
<1>5. Untouched'
  BY DEF IInv, Untouched, Fits, WorkerFits, RecordUnconfirmed, updateMonitorAfterCheck
<1>6. IncidentMirrorsState'
  BY UptimeAssumption DEF IInv, TypeOK, IncidentMirrorsState, Locked, Recording, Fits,
    WorkerFits, Actor, RecordUnconfirmed, updateMonitorAfterCheck, IncidentAfter
<1>7. ExclusiveProbe'
  BY DEF IInv, ExclusiveProbe, Holds, RecordUnconfirmed, Exit
<1>8. Leased'
  BY DEF IInv, TypeOK, Leased, ExclusiveProbe, Holds, Fits, WorkerFits, RecordUnconfirmed,
    updateMonitorAfterCheck, Exit
<1>9. Scheduled'
  BY UptimeAssumption DEF IInv, TypeOK, Scheduled, Leased, Holds, Actor, Monitor, Fits,
    WorkerFits, RecordUnconfirmed, updateMonitorAfterCheck, IncidentAfter
<1>10. Awaited'
  BY UptimeAssumption DEF IInv, TypeOK, Awaited, Overdue, Holds, Actor, Monitor, Fits,
    WorkerFits, RecordUnconfirmed, updateMonitorAfterCheck, Exit
<1>11. TimeoutsJustified'
  BY DEF IInv, TypeOK, TimeoutsJustified, WasOverdue, Awaited, Overdue, Holds, Fits,
    WorkerFits, RecordUnconfirmed, updateMonitorAfterCheck
<1> QED
  BY <1>1, <1>2, <1>3, <1>4, <1>5, <1>6, <1>7, <1>8, <1>9, <1>10, <1>11 DEF IInv

(* A check-in is recorded with the time at which it came.                  *)
LEMMA CheckInKeeps ==
  ASSUME IInv, NEW b \in Beat, RecordHeartbeatCheckIn(b)
  PROVE  IInv'
<1>1. TypeOK'
  BY UptimeAssumption DEF IInv, TypeOK, Fits, BeatFits, Actor, Monitor, PC, State,
    RecordHeartbeatCheckIn, updateMonitorAfterCheck, IncidentAfter, Answered, Forget
<1>2. Fits'
  BY DEF IInv, TypeOK, Fits, WorkerFits, BeatFits, RecordHeartbeatCheckIn,
    updateMonitorAfterCheck, IncidentAfter, Answered, Forget
<1>3. Locked'
  BY DEF IInv, TypeOK, Locked, Recording, Actor, RecordHeartbeatCheckIn,
    updateMonitorAfterCheck, Answered, Forget
<1>4. Past'
  BY DEF IInv, TypeOK, Past, RecordHeartbeatCheckIn, Answered
<1>5. Untouched'
  BY DEF IInv, Untouched, Fits, BeatFits, RecordHeartbeatCheckIn, updateMonitorAfterCheck
<1>6. IncidentMirrorsState'
  BY DEF IInv, TypeOK, IncidentMirrorsState, Fits, BeatFits, RecordHeartbeatCheckIn,
    updateMonitorAfterCheck, IncidentAfter
<1>7. ExclusiveProbe'
  BY DEF IInv, ExclusiveProbe, Holds, RecordHeartbeatCheckIn, Answered
<1>8. Leased'
  BY UptimeAssumption DEF IInv, Leased, Holds, Fits, BeatFits, RecordHeartbeatCheckIn,
    updateMonitorAfterCheck, Answered
<1>9. Scheduled'
  BY UptimeAssumption DEF IInv, Scheduled, Fits, BeatFits, RecordHeartbeatCheckIn,
    updateMonitorAfterCheck
<1>10. Awaited'
  BY UptimeAssumption DEF IInv, TypeOK, Awaited, Overdue, Holds, Actor, Monitor,
    RecordHeartbeatCheckIn, updateMonitorAfterCheck, Answered
<1>11. TimeoutsJustified'
  BY DEF IInv, TypeOK, TimeoutsJustified, WasOverdue, Fits, BeatFits,
    RecordHeartbeatCheckIn, updateMonitorAfterCheck
<1> QED
  BY <1>1, <1>2, <1>3, <1>4, <1>5, <1>6, <1>7, <1>8, <1>9, <1>10, <1>11 DEF IInv

-----------------------------------------------------------------------------
(* The invariant is kept by every step, and the theorems follow.           *)

(* The invariant is about the variables alone.                             *)
LEMMA Unchanged == IInv /\ UNCHANGED vars => IInv'
BY DEF vars, rowVars, actorVars, worldVars, IInv, TypeOK, Fits, WorkerFits, BeatFits,
  Locked, Recording, Past,
  Untouched, IncidentMirrorsState, ExclusiveProbe, Leased, Scheduled, Awaited, Overdue,
  TimeoutsJustified, WasOverdue, Holds

(* Every step keeps the invariant, action by action.                       *)
LEMMA EveryStep == IInv /\ [Next]_vars => IInv'
<1> SUFFICES ASSUME IInv, [Next]_vars PROVE IInv'
  OBVIOUS
<1>1. CASE \E m \in Monitor : createHTTPMonitor(m) \/ createHeartbeatMonitor(m)
  BY <1>1, InsertKeeps
<1>2. ASSUME NEW w \in Worker, WorkerStep(w) PROVE IInv'
  BY <1>2, StartRunKeeps, ClaimHTTPKeeps, CheckHTTPKeeps, RecordHTTPKeeps,
    ClaimHeartbeatKeeps,
    ObserveTimeoutKeeps, RecordTimeoutKeeps, RestartKeeps DEF WorkerStep
<1>3. ASSUME NEW w \in Worker, LockStep(w) PROVE IInv'
  BY <1>3, LockKeeps, UptimeAssumption DEF Actor
<1>4. ASSUME NEW w \in Worker, WorkerFault(w) PROVE IInv'
  BY <1>4, StopKeeps, ClaimLostKeeps, RecordUnconfirmedKeeps DEF WorkerFault, PC
<1>5. ASSUME NEW b \in Beat, NEW m \in Monitor, heartbeatCheckInHandler(b, m) PROVE IInv'
  BY <1>5, HandlerKeeps
<1>6. ASSUME NEW b \in Beat, BeatStep(b) \/ CheckInFails(b) PROVE IInv'
  BY <1>6, LockKeeps, CheckInKeeps, CheckInFailsKeeps, UptimeAssumption
    DEF BeatStep, Actor, UptimeAssumption
<1>7. CASE Tick
  BY <1>7, TickKeeps
<1>8. CASE UNCHANGED vars
  BY <1>8, Unchanged
<1> QED
  BY <1>1, <1>2, <1>3, <1>4, <1>5, <1>6, <1>7, <1>8 DEF Next

(* The invariant holds throughout.                                         *)
LEMMA Invariant == Spec => []IInv
<1> QED
  BY Initially, EveryStep, PTL DEF Spec

(* Rows and memory keep their types.                                       *)
THEOREM TypeCorrect == Spec => []TypeOK
<1>1. IInv => TypeOK
  BY DEF IInv
<1> QED
  BY <1>1, Invariant, PTL

(* State and incident of a monitor never disagree.                         *)
THEOREM IncidentsMirror == Spec => []IncidentMirrorsState
<1>1. IInv => IncidentMirrorsState
  BY DEF IInv
<1> QED
  BY <1>1, Invariant, PTL

(* Within their leases two workers never hold the same HTTP monitor.       *)
THEOREM ProbesAreExclusive == Spec => []ExclusiveProbe
<1>1. IInv => ExclusiveProbe
  BY DEF IInv
<1> QED
  BY <1>1, Invariant, PTL

(* A timeout no check-in crossed is one of an overdue monitor.             *)
THEOREM TimeoutsAreJustified == Spec => []TimeoutsJustified
<1>1. IInv => TimeoutsJustified
  BY DEF IInv
<1> QED
  BY <1>1, Invariant, PTL

-----------------------------------------------------------------------------
(* Order of the results: only a record changes last_checked_at or closes   *)
(* an incident, and only the holder of an HTTP monitor records it.         *)

InOrder ==
  \A m \in Http \ late :
    /\ lastChecked'[m] # lastChecked[m] /\ lastChecked[m] # NULL
         => lastChecked'[m] >= lastChecked[m] + Interval[m]
    /\ incident[m] # NULL /\ incident'[m] = NULL
         => lastChecked'[m] > incident[m]

(* One who holds a lease or the row of a heartbeat writes a time not       *)
(* before the last.                                                        *)
LEMMA WritesInOrder ==
  ASSUME IInv, NEW a \in Actor, NEW d \in Nat, updateMonitorAfterCheck(a, d),
         target[a] \in Heartbeat \/ (a \in Worker /\ target[a] \in batch[a])
  PROVE  InOrder
<1> SUFFICES ASSUME NEW m \in Http \ late
             PROVE  /\ lastChecked'[m] # lastChecked[m] /\ lastChecked[m] # NULL
                         => lastChecked'[m] >= lastChecked[m] + Interval[m]
                    /\ incident[m] # NULL /\ incident'[m] = NULL
                         => lastChecked'[m] > incident[m]
  BY DEF InOrder
<1>1. CASE target[a] # m
  BY <1>1 DEF updateMonitorAfterCheck
<1>2. CASE target[a] = m
  <2>1. a \in Worker /\ Holds(a, m)
    BY <1>2, UptimeAssumption DEF Holds
  <2>2. lastChecked[m] # NULL => lastChecked[m] + Interval[m] <= at[a]
    BY <2>1 DEF IInv, Leased
  <2>3. incident[m] # NULL => lastChecked[m] # NULL /\ incident[m] <= lastChecked[m]
    BY DEF IInv, Scheduled
  <2>4. lastChecked'[m] = at[a]
    BY <1>2 DEF updateMonitorAfterCheck, IInv, TypeOK, Monitor
  <2> QED
    BY <2>2, <2>3, <2>4, UptimeAssumption DEF IInv, TypeOK, Monitor
<1> QED
  BY <1>1, <1>2

(* No step writes a result before the last.                                *)
LEMMA StepsInOrder == IInv /\ [Next]_vars => InOrder
<1> SUFFICES ASSUME IInv, [Next]_vars PROVE InOrder
  OBVIOUS
<1>1. ASSUME UNCHANGED <<lastChecked, incident>> PROVE InOrder
  BY <1>1 DEF InOrder
<1>2. ASSUME NEW w \in Worker, RecordHTTPMonitorCheck(w) \/ RecordHeartbeatTimeout(w) \/ RecordUnconfirmed(w)
      PROVE  InOrder
  <2>1. target[w] \in batch[w] /\ target[w] \in Monitor /\ w \in Actor
    BY <1>2 DEF IInv, TypeOK, Fits, WorkerFits, RecordHTTPMonitorCheck,
      RecordHeartbeatTimeout,
      RecordUnconfirmed, Actor
  <2> QED
    BY <1>2, <2>1, WritesInOrder, UptimeAssumption
      DEF RecordHTTPMonitorCheck, RecordHeartbeatTimeout, RecordUnconfirmed, UptimeAssumption
<1>3. ASSUME NEW b \in Beat, RecordHeartbeatCheckIn(b) PROVE InOrder
  <2>1. target[b] \in Heartbeat /\ target[b] \in Monitor /\ b \in Actor
    BY <1>3 DEF IInv, Fits, BeatFits, RecordHeartbeatCheckIn, Actor, Monitor
  <2> QED
    BY <1>3, <2>1, WritesInOrder, UptimeAssumption DEF RecordHeartbeatCheckIn
<1> QED
  BY <1>1, <1>2, <1>3 DEF Next, vars, rowVars, createHTTPMonitor, createHeartbeatMonitor,
    Insert,
    WorkerStep, LockStep, WorkerFault, BeatStep, StartRun, ClaimDueHTTPMonitors,
    checkHTTPMonitor,
    ClaimOverdueHeartbeatMonitors, heartbeatTimeoutObservation, Restart, lockHTTPMonitor,
    lockOverdueMonitor, lockHeartbeatMonitorStateByEndpoint, lockMonitorState, Claim, Take,
    Stop,
    ClaimLost, heartbeatCheckInHandler, CheckInFails, Tick

(* Results of a monitor probed in time are an interval apart, and close    *)
(* incidents after they were opened.                                       *)
THEOREM ResultsAreOrdered == Spec => ResultsInOrder
<1>1. IInv /\ [Next]_vars => [InOrder]_vars
  BY StepsInOrder
<1> QED
  BY <1>1, Invariant, PTL DEF Spec, ResultsInOrder, InOrder
=============================================================================
