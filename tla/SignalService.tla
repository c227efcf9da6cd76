--------------------------- MODULE SignalService ---------------------------
(***************************************************************************)
(* The signal service of one data directory (mu_strategy/signal_service.py *)
(* and service_health.py): a supervisor that runs a refresh worker and     *)
(* then a scan worker as child processes, cycle after cycle, the health    *)
(* journal it writes, the liveness lock it holds, and the observation log  *)
(* the scan worker appends to.                                             *)
(*                                                                         *)
(* One symbol is watched.  The journal is replaced atomically; the log and *)
(* the journal are written under one publication lock, the fence, which a  *)
(* consumer may hold as well.  How an append reaches the disk is the       *)
(* subject of ObservationLog: here it takes effect, or fails and leaves    *)
(* the marker that makes the log invalid.                                  *)
(***************************************************************************)
EXTENDS Naturals, Sequences

CONSTANTS
    Signals,         \* identities of READY signals
    MaxRuns,
    MaxTime,         \* bound on the time and the faults together
    MaxFaults,       \* bound on the faults: failures, interrupts, kills,
                     \* timeouts, blocked scans and corrections of the clock
    EventLimit,      \* EVENT_LIMIT of the journal
    Budget,          \* from a journal entry to its deadline
    NoAction, Blocked, None

ASSUME SignalServiceAssumption ==
    /\ {MaxRuns, MaxTime, MaxFaults, Budget} \subseteq Nat
    /\ EventLimit \in Nat \ {0}
    /\ {NoAction, Blocked, None} \cap Signals = {}

VARIABLES
    now,
    log,             \* the committed cycles
    marker,          \* the log is marked invalid
    journal,         \* health.json
    sup,             \* the supervisor
    worker,          \* the child process of each run
    fence,           \* the holder of the publication lock
    faults,
    due              \* sequence numbers of all faults, recoveries and stops

serviceVars == <<now, log, marker, journal, sup, worker, fence, faults, due>>

-----------------------------------------------------------------------------
Runs == 1..MaxRuns
Times == 0..MaxTime
Outcomes == Signals \cup {NoAction, Blocked}

\* No two scans happen in one millisecond: a cycle is named by its time.
Cycles == [at : Times, outcome : Outcomes]

\* CycleHealth
Reports == [run : Runs, started : Times, completed : Times, refreshed : BOOLEAN,
            scan : {"persisted", "unpersisted", "failed"}, cycle : Cycles \cup {None}]

\* CycleHealth.problems
Problems(report) ==
    IF report = None THEN {}
    ELSE (IF report.refreshed THEN {} ELSE {"refresh"})
         \cup (IF report.scan = "persisted" THEN {} ELSE {report.scan})
         \cup (IF report.cycle # None /\ report.cycle.outcome = Blocked THEN {"blocked"} ELSE {})

Phases == {"idle", "refresh", "scan"}
EventKinds == {"started", "restarted", "fault", "recovered", "stopped", "interruption_acknowledged"}

\* ServiceState; run 0 says that no journal was ever written.
Journals ==
    [run : {0} \cup Runs, running : BOOLEAN, phase : Phases, started : Times, updated : Times,
     deadline : 0..(MaxTime + Budget), last : Reports \cup {None}, events : Seq(EventKinds), seq : Nat]

NoJournal == [run |-> 0, running |-> FALSE, phase |-> "idle", started |-> 0, updated |-> 0,
              deadline |-> 0, last |-> None, events |-> <<>>, seq |-> 0]

\* ServiceState.from_dict: what a write refuses after the clock went back.
Valid(j) ==
    /\ j.started <= j.updated /\ j.updated <= j.deadline
    /\ j.last # None =>
          /\ j.last.started <= j.last.completed
          /\ j.last.run = j.run => j.last.completed <= j.updated /\ j.started <= j.last.started

\* _event: the journal keeps the last EVENT_LIMIT events.
WithEvent(j, kind) ==
    LET all == Append(j.events, kind) IN
    [j EXCEPT !.seq = @ + 1,
              !.events = IF Len(all) > EventLimit THEN Tail(all) ELSE all]

Reportable == {"fault", "recovered", "stopped"}

Oldest(j) == j.seq - Len(j.events)

\* The sequence numbers of reportable events that the journal j adds to it.
NewlyDue(j) ==
    {n \in (Oldest(j) + 1)..j.seq : n > journal.seq /\ j.events[n - Oldest(j)] \in Reportable}

\* `state' is the ServiceState in memory, which the journal follows.
Off == [pc |-> "off", run |-> 0, started |-> 0, refreshed |-> FALSE, state |-> NoJournal]
NoWorker == [pc |-> "none", cycle |-> None, result |-> None]

\* A process that runs; one that is done waits to be reaped.
WorkerSteps == {"refreshing", "scanning", "made", "appending"}
Working(r) == worker[r].pc \in WorkerSteps

ServiceTypeOK ==
    /\ now \in Times
    /\ log \in Seq(Cycles) /\ marker \in BOOLEAN
    /\ journal \in Journals /\ Valid(journal) /\ Len(journal.events) <= EventLimit
    /\ sup.pc \in {"off", "begun", "idle", "refreshing", "scanning", "stopping"}
    /\ (sup.pc \in {"refreshing", "scanning"}) => worker[sup.run].pc # "none"
    /\ \A r \in Runs : worker[r].pc \in WorkerSteps \cup {"none", "done"}
    /\ faults \in 0..MaxFaults

ServiceInit ==
    /\ now = 0
    /\ log = <<>> /\ marker = FALSE
    /\ journal = NoJournal
    /\ sup = Off
    /\ worker = [r \in Runs |-> NoWorker]
    /\ fence = None
    /\ faults = 0
    /\ due = {}

-----------------------------------------------------------------------------
(* The supervisor                                                          *)

Fault ==
    /\ faults < MaxFaults /\ now + faults < MaxTime
    /\ faults' = faults + 1

NoFault == UNCHANGED faults

Alive == sup.pc \notin {"off", "begun"}

\* HealthStore.write, which waits for the fence.
Write(j) ==
    /\ fence = None
    /\ journal' = j
    /\ due' = due \cup NewlyDue(j)

\* A write that succeeds, is refused, or fails before or after it is visible;
\* after the last two the supervisor stops, with what it has in memory.
TryWrite(j, written) ==
    LET stopping == [sup EXCEPT !.pc = "stopping", !.state = j] IN
    \/ Valid(j) /\ Write(j) /\ sup' = [written EXCEPT !.state = j] /\ NoFault
    \/ ~ Valid(j) /\ sup' = stopping /\ UNCHANGED <<journal, due>> /\ NoFault
    \/ /\ Valid(j) /\ Fault /\ sup' = stopping
       /\ \/ Write(j)
          \/ fence = None /\ UNCHANGED <<journal, due>>

\* run: the journal of the new run is out before the liveness lock is taken.
\* After an interrupted child phase, it refuses to start.
StartOver ==
    WithEvent([journal EXCEPT !.run = @ + 1, !.running = TRUE, !.phase = "idle", !.started = now,
                              !.updated = now, !.deadline = now + Budget],
              IF journal.run = 0 THEN "started" ELSE "restarted")

\* Variant: the phase of the last run is not looked at.
BeginRegardless ==
    /\ sup.pc = "off" /\ journal.run < MaxRuns
    /\ \/ Write(StartOver) /\ NoFault
          /\ sup' = [Off EXCEPT !.pc = "begun", !.run = journal.run + 1, !.state = StartOver]
       \/ Write(StartOver) /\ Fault /\ UNCHANGED sup
    /\ UNCHANGED <<now, log, marker, worker, fence>>

Begin ==
    /\ sup.pc = "off" /\ journal.run < MaxRuns
    /\ ~ (journal.running /\ journal.phase # "idle")
    /\ \/ Write(StartOver) /\ NoFault
          /\ sup' = [Off EXCEPT !.pc = "begun", !.run = journal.run + 1, !.state = StartOver]
       \/ Write(StartOver) /\ Fault /\ UNCHANGED sup
    /\ UNCHANGED <<now, log, marker, worker, fence>>

Supervise ==
    /\ sup.pc = "begun"
    /\ sup' = [sup EXCEPT !.pc = "idle"]
    /\ UNCHANGED <<now, log, marker, journal, worker, fence, faults, due>>

\* _phase, before the child is started
InPhase(phase) == [sup.state EXCEPT !.phase = phase, !.updated = now, !.deadline = now + Budget]

Spawn(step) == worker' = [worker EXCEPT ![sup.run] = [NoWorker EXCEPT !.pc = step]]

\* The child starts once the phase is out.
StartRefresh ==
    /\ sup.pc = "idle"
    /\ TryWrite(InPhase("refresh"), [sup EXCEPT !.pc = "refreshing", !.started = now])
    /\ IF sup'.pc = "refreshing" THEN Spawn("refreshing") ELSE UNCHANGED worker
    /\ UNCHANGED <<now, log, marker, fence>>

\* The refresh has ended, and the scan follows whatever came of it.
StartScan ==
    /\ sup.pc = "refreshing" /\ worker[sup.run].pc = "done"
    /\ TryWrite(InPhase("scan"),
                [sup EXCEPT !.pc = "scanning", !.refreshed = worker[sup.run].result = "ok"])
    /\ Spawn(IF sup'.pc = "scanning" THEN "scanning" ELSE "none")
    /\ UNCHANGED <<now, log, marker, fence>>

\* CycleHealth of the cycle that ends, and the event if its problems are new.
CycleReport ==
    [run |-> sup.run, started |-> sup.started, completed |-> now, refreshed |-> sup.refreshed,
     scan |-> worker[sup.run].result, cycle |-> worker[sup.run].cycle]

CycleDone ==
    LET j == [sup.state EXCEPT !.last = CycleReport, !.phase = "idle", !.updated = now,
                             !.deadline = now + Budget]
        problems == Problems(CycleReport) IN
    IF problems = Problems(sup.state.last) THEN j
    ELSE WithEvent(j, IF problems = {} THEN "recovered" ELSE "fault")

FinishCycle ==
    /\ sup.pc = "scanning" /\ worker[sup.run].pc = "done"
    /\ TryWrite(CycleDone, [Off EXCEPT !.pc = "idle", !.run = sup.run])
    /\ worker' = [worker EXCEPT ![sup.run] = NoWorker]
    /\ UNCHANGED <<now, log, marker, fence>>

\* An interrupt, or an error of its own: the child is killed and reaped.
Interrupt ==
    /\ Alive /\ sup.pc # "stopping"
    /\ Fault
    /\ sup' = [sup EXCEPT !.pc = "stopping"]
    /\ worker' = [worker EXCEPT ![sup.run] = NoWorker]
    /\ fence' = IF fence = sup.run THEN None ELSE fence
    /\ UNCHANGED <<now, log, marker, journal, due>>

Stopped == WithEvent([sup.state EXCEPT !.running = FALSE, !.phase = "idle", !.updated = now,
                                       !.deadline = now], "stopped")

\* The finally of run; then the locks are released.  Its write may be refused
\* or fail as well, which is not counted as a fault.
Stop ==
    /\ sup.pc = "stopping"
    /\ \/ Valid(Stopped) /\ Write(Stopped)
       \/ (Valid(Stopped) => fence = None) /\ UNCHANGED <<journal, due>>
    /\ sup' = Off
    /\ UNCHANGED <<now, log, marker, worker, fence, faults>>

\* The supervisor is killed, and its child goes on.
Kill ==
    /\ sup.pc # "off" /\ Fault
    /\ sup' = Off
    /\ worker' = [worker EXCEPT ![sup.run] = IF Working(sup.run) THEN @ ELSE NoWorker]
    /\ UNCHANGED <<now, log, marker, journal, fence, due>>

\* recover_interrupted, after the operator has seen that all workers ended
Recover ==
    /\ sup.pc = "off" /\ \A r \in Runs : ~ Working(r)
    /\ journal.running /\ journal.phase # "idle"
    /\ LET updated == IF now > journal.updated THEN now ELSE journal.updated IN
       Write(WithEvent([journal EXCEPT !.running = FALSE, !.phase = "idle", !.updated = updated,
                                       !.deadline = updated], "interruption_acknowledged"))
    /\ UNCHANGED <<now, log, marker, sup, worker, fence, faults>>

-----------------------------------------------------------------------------
(* The workers                                                             *)

\* The end of a worker; one that lost its supervisor just goes away.
Ended(r, result) ==
    worker' = [worker EXCEPT ![r] =
        IF Alive /\ sup.run = r THEN [@ EXCEPT !.pc = "done", !.result = result] ELSE NoWorker]

Refresh(r) ==
    /\ worker[r].pc = "refreshing"
    /\ \/ Ended(r, "ok") /\ NoFault
       \/ Ended(r, "failed") /\ Fault
    /\ UNCHANGED <<now, log, marker, journal, sup, fence, due>>

\* scan_watchlist
Scan(r) ==
    /\ worker[r].pc = "scanning"
    /\ \E outcome \in Outcomes :
          /\ worker' = [worker EXCEPT ![r].pc = "made", ![r].cycle = [at |-> now, outcome |-> outcome]]
          /\ IF outcome = Blocked THEN Fault ELSE NoFault
    /\ \A i \in 1..Len(log) : log[i].at # now
    /\ journal.last # None /\ journal.last.cycle # None => journal.last.cycle.at # now
    /\ UNCHANGED <<now, log, marker, journal, sup, fence, due>>

\* append_cycle under the fence: an unresolved marker makes it fail.
StartAppend(r) ==
    /\ worker[r].pc = "made" /\ fence = None
    /\ IF marker THEN Ended(r, "unpersisted") /\ UNCHANGED <<marker, fence>>
       ELSE /\ worker' = [worker EXCEPT ![r].pc = "appending"]
            /\ marker' = TRUE /\ fence' = r
    /\ UNCHANGED <<now, log, journal, sup, faults, due>>

EndAppend(r) ==
    /\ worker[r].pc = "appending"
    /\ \/ /\ log' = Append(log, worker[r].cycle) /\ marker' = FALSE
          /\ Ended(r, "persisted") /\ NoFault
       \/ /\ UNCHANGED <<log, marker>>
          /\ Ended(r, "unpersisted") /\ Fault
    /\ fence' = None
    /\ UNCHANGED <<now, journal, sup, due>>

\* The child is killed for its timeout; a scan may have committed by then.
TimeOut(r) ==
    /\ Alive /\ sup.run = r /\ sup.pc \in {"refreshing", "scanning"}
    /\ \/ Working(r)
       \/ worker[r].pc = "done" /\ worker[r].result \in {"persisted", "ok"}
    /\ Fault
    /\ worker' = [worker EXCEPT ![r] = [NoWorker EXCEPT !.pc = "done", !.result = "failed"]]
    /\ fence' = IF fence = r THEN None ELSE fence
    /\ UNCHANGED <<now, log, marker, journal, sup, due>>

-----------------------------------------------------------------------------
(* The wall clock, which may be set back                                   *)

Tick ==
    /\ now + faults < MaxTime /\ now' = now + 1
    /\ UNCHANGED <<log, marker, journal, sup, worker, fence, faults, due>>

RollBack ==
    /\ now > 0 /\ now' = now - 1
    /\ faults < MaxFaults /\ faults' = faults + 1
    /\ UNCHANGED <<log, marker, journal, sup, worker, fence, due>>

ServiceNext ==
    \/ Begin \/ Supervise \/ StartRefresh \/ StartScan \/ FinishCycle
    \/ Interrupt \/ Stop \/ Kill \/ Recover
    \/ \E r \in Runs : Refresh(r) \/ Scan(r) \/ StartAppend(r) \/ EndAppend(r) \/ TimeOut(r)
    \/ Tick \/ RollBack

ServiceSpec == ServiceInit /\ [][ServiceNext]_serviceVars

-----------------------------------------------------------------------------
(* health_view of a journal, given whether the liveness lock is held       *)

Runtime(j, alive) ==
    IF j.run = 0 THEN "not_started"
    ELSE IF ~ j.running THEN "stopped"
    ELSE IF ~ alive
    THEN IF j.phase = "idle" /\ (j.last = None \/ j.last.run # j.run) /\ now \in j.updated..j.deadline
         THEN "starting" ELSE "interrupted"
    ELSE IF now \in j.updated..j.deadline THEN "running" ELSE "unresponsive"

Healthy(j, alive) ==
    /\ Runtime(j, alive) = "running"
    /\ j.last # None /\ j.last.run = j.run /\ Problems(j.last) = {}

-----------------------------------------------------------------------------
(* Properties                                                              *)

\* "Publish the active phase before spawning. A hard crash cannot leave an
\* unrecorded writer that a new supervisor silently runs beside" (comment in
\* SignalService._phase): of all runs, at most one has a worker, and it is the
\* one the journal names, as long as the operator recovers by what is true.
WorkersAlone ==
    \A r \in Runs : Working(r) => r = journal.run /\ journal.phase # "idle" /\ journal.running

=============================================================================
