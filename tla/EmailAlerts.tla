---------------------------- MODULE EmailAlerts ----------------------------
(***************************************************************************)
(* The e-mail alerts on top of the signal service: EmailAlerts.collect,    *)
(* which turns the observation log and the health journal into entry       *)
(* reminders, withdrawals and service notices, and the part of deliver     *)
(* that decides under the fence whether an entry may still be sent         *)
(* (mu_strategy/notifications/service.py).                                 *)
(*                                                                         *)
(* Collector and sender work in write transactions of one database, so     *)
(* they exclude each other except after a claim.  Of the outbox only what  *)
(* concerns entries is kept here; EmailOutbox has the rest.                *)
(***************************************************************************)
EXTENDS SignalService

CONSTANTS
    Sender,          \* as the holder of the fence
    Review,          \* from an observation to the end of its reminder
    RetryWindow      \* how long an unreadable log is waited for

ASSUME EmailAlertsAssumption ==
    /\ {Review, RetryWindow} \subseteq Nat
    /\ Sender \notin Runs \cup {None} /\ None \notin Runs \cup Cycles

VARIABLES
    box,             \* email.sqlite3
    col,             \* the collector
    snd              \* the sender

vars == <<serviceVars, box, col, snd>>

-----------------------------------------------------------------------------
(* A reminder, the stream of the symbol, and the database                  *)

Entries ==
    [signal : Signals, at : Times, state : {"pending", "unknown", "confirmed", "failed"},
     retryable : BOOLEAN, suppressed : BOOLEAN, accepted : BOOLEAN,
     withdrawal : {None, "mailed", "historical"}]

NoStream == [service |-> 0, at |-> 0, result |-> None, collection |-> 0,
             active |-> 0, key |-> None, seen |-> 0]

\* `cursor' and `last' are the log position and the cycle consumed last,
\* `events' the health cursor, `reported' the events that became a notice.
EmptyBox == [cursor |-> 0, last |-> None, stream |-> NoStream, entries |-> <<>>, events |-> 0,
             reported |-> {}, ready |-> FALSE, unreadable |-> None]

\* `first' is the journal as a snapshot read it first.
IdleCollector == [pc |-> "idle", batch |-> 0, first |-> NoJournal, holder |-> 0]
IdleSender == [pc |-> "idle", entry |-> 0]

TypeOK ==
    /\ ServiceTypeOK
    /\ fence \in Runs \cup {Sender, None}
    /\ box.cursor \in 0..Len(log) /\ box.entries \in Seq(Entries)
    /\ box.stream.active \in 0..Len(box.entries)
    /\ (box.stream.active = 0) = (box.stream.key = None)
    /\ box.events <= journal.seq
    /\ col.pc \in {"idle", "probe", "confirm", "unreadable", "lost"}
    /\ snd.pc \in {"idle", "claimed", "sending"}
    /\ (fence = Sender) = (snd.pc = "sending")

Init ==
    /\ ServiceInit
    /\ box = EmptyBox
    /\ col = IdleCollector
    /\ snd = IdleSender

-----------------------------------------------------------------------------
(* Lifecycle of a signal                                                   *)

\* Variant: only a confirmed entry counts as seen.
InvalidateUnlessConfirmed(b) ==
    LET e == b.stream.active IN
    [b EXCEPT !.entries[e].withdrawal =
                  IF b.entries[e].state = "confirmed" THEN "mailed" ELSE "historical",
              !.entries[e].suppressed = TRUE,
              !.stream.active = 0, !.stream.key = None]

\* _invalidate: the withdrawal of an entry that was definitely not accepted
\* is kept, and not mailed.
Invalidate(b) ==
    LET e == b.stream.active IN
    [b EXCEPT !.entries[e].withdrawal =
                  IF b.entries[e].state \in {"confirmed", "unknown"} THEN "mailed" ELSE "historical",
              !.entries[e].suppressed = TRUE,
              !.stream.active = 0, !.stream.key = None]

Expired(e) == now < e.at \/ now >= e.at + Review

NewEntry(b, c) ==
    LET e == [signal |-> c.outcome, at |-> c.at, state |-> "pending", retryable |-> FALSE,
              suppressed |-> FALSE, accepted |-> FALSE, withdrawal |-> None] IN
    [b EXCEPT !.entries = Append(@, [e EXCEPT !.suppressed = Expired(e)]),
              !.stream.active = Len(b.entries) + 1, !.stream.key = c.outcome, !.stream.seen = c.at]

\* The part of _observe after the checks of order.
Decide(b, c) ==
    IF c.outcome \in Signals
    THEN IF b.stream.key = c.outcome THEN [b EXCEPT !.stream.seen = c.at]
         ELSE NewEntry(IF b.stream.active # 0 THEN Invalidate(b) ELSE b, c)
    ELSE IF b.stream.active # 0 THEN Invalidate(b) ELSE b

\* A cycle that the journal vouches for begins an order of its own; a reminder
\* that was seen later than it is withdrawn first.
Rebases(b, service) == service # 0 /\ b.stream.service # service

Outdated(b, c, service) ==
    IF Rebases(b, service) /\ b.stream.active # 0 /\ c.at < b.stream.seen THEN Invalidate(b) ELSE b

Rebased(b, c, service) ==
    LET b0 == Outdated(b, c, service) IN
    IF Rebases(b, service)
    THEN [b0 EXCEPT !.stream.service = service, !.stream.at = 0, !.stream.result = None] ELSE b0

Heard(b, c, collection) ==
    [b EXCEPT !.stream.at = c.at, !.stream.result = c.outcome, !.stream.collection = collection]

\* _observe: `service' is the run of a cycle that the journal vouches for, or
\* 0.  What is out of order leaves no trace but a withdrawal before it.
Observe(b, c, service, collection) ==
    LET b1 == Rebased(b, c, service) IN
    IF c.at > now \/ c.at < b1.stream.at THEN Outdated(b, c, service)
    ELSE IF b1.stream.result # None /\ c.at = b1.stream.at
    THEN [b1 EXCEPT !.stream.collection = collection]
    ELSE Decide(Heard(b1, c, collection), c)

-----------------------------------------------------------------------------
(* Health                                                                  *)

\* Variant: a cursor behind the retained events goes on with the oldest.
GapIgnored(b, j) == FALSE

\* events_since raises: the cursor is outside the retained range, or the
\* journal that was there is gone.
Gap(b, j) == b.events \notin Oldest(j)..j.seq

\* _health_events
HealthEvents(b, j) ==
    LET new == {n \in (Oldest(j) + 1)..j.seq : n > b.events}
        Kind(n) == j.events[n - Oldest(j)] IN
    [b EXCEPT !.reported = @ \cup {n \in new : Kind(n) \in Reportable}, !.events = j.seq]

\* Whether the active reminder loses its source.
SourceLost(b, j, alive, caughtUp) ==
    LET last == j.last
        current == last # None /\ last.run = j.run
        failedAttempt ==
            /\ current /\ last.scan # "persisted"
            /\ \/ b.stream.collection \notin {0, last.run}
               \/ b.stream.at <= last.started
    IN  \/ Runtime(j, alive) \in {"stopped", "interrupted", "unresponsive"}
        \/ failedAttempt
        \/ caughtUp /\ current /\ ~ Healthy(j, alive)
        \/ now < b.stream.seen

\* The cycle the journal tells of, and its run while that is the current one.
Current(j) == IF j.last = None THEN None ELSE j.last.cycle
CurrentRun(j) == IF Current(j) # None /\ j.last.run = j.run THEN j.run ELSE 0

\* The next line of the log is consumed.
Consume(b, c, j) ==
    [Observe(b, c, IF c = Current(j) THEN CurrentRun(j) ELSE 0, j.run) EXCEPT
        !.last = c, !.cursor = @ + 1]

\* The loop over the lines up to position upTo
Consumed(b, upTo, j) ==
    LET after[n \in b.cursor..upTo] ==
            IF n = b.cursor THEN b ELSE Consume(after[n - 1], log[n], j)
    IN  after[upTo]

CaughtUpTo(b, j) == Current(j) # None /\ b.last = Current(j)

\* The log commits before the journal: a cycle may be vouched for on a later
\* poll that finds no new lines.
Vouched(b, j) ==
    IF CaughtUpTo(b, j) /\ CurrentRun(j) # 0 /\ b.stream.service # CurrentRun(j)
    THEN Observe(b, Current(j), CurrentRun(j), j.run) ELSE b

ReviewEnded(b) ==
    LET e == b.stream.active IN
    IF e # 0 /\ now >= b.entries[e].at + Review
    THEN [b EXCEPT !.entries[e].suppressed = TRUE] ELSE b

SourceChecked(b, j, alive, caughtUp) ==
    IF b.stream.active # 0 /\ SourceLost(b, j, alive, caughtUp) THEN Invalidate(b) ELSE b

\* collect, given the lines of the log and the snapshot of the journal
Collected(b, upTo, j, alive) ==
    LET b1 == Consumed(b, upTo, j)
        caughtUp == CaughtUpTo(b1, j)
        b2 == ReviewEnded(HealthEvents(Vouched(b1, j), j))
    IN  [SourceChecked(b2, j, alive, caughtUp) EXCEPT
            !.ready = Healthy(j, alive) /\ caughtUp, !.unreadable = None]

-----------------------------------------------------------------------------
(* The collector                                                           *)

\* The database is locked while a transaction is open.
Unlocked == col.pc \notin {"probe", "confirm"} /\ snd.pc # "sending"

\* The log is read first, then the health: a marker makes it unreadable.
StartCollect ==
    /\ col.pc = "idle" /\ Unlocked
    /\ col' = IF marker THEN [IdleCollector EXCEPT !.pc = "unreadable"]
              ELSE [IdleCollector EXCEPT !.pc = "probe", !.batch = Len(log), !.first = journal]
    /\ UNCHANGED <<serviceVars, box, snd>>

\* is_running, between two reads of the journal.  After three snapshots that
\* do not hold, the collector gives up.
Probe ==
    /\ col.pc = "probe"
    /\ col' \in {[col EXCEPT !.pc = "confirm", !.holder = IF Alive THEN sup.run ELSE 0],
                 IdleCollector}
    /\ UNCHANGED <<serviceVars, box, snd>>

\* Variant: the journal is not read again after the probe.
SnapshotUnconfirmed(c, j) == c

\* The journal becomes j, and never is the same twice: the second read will
\* tell, and the snapshot is tried again.
SnapshotBroken(c, j) ==
    IF c.pc \in {"probe", "confirm"}
    THEN [c EXCEPT !.pc = "probe", !.first = j, !.holder = 0] ELSE c

Collect ==
    /\ col.pc = "confirm"
    /\ IF Gap(box, col.first)
       THEN col' = [IdleCollector EXCEPT !.pc = "lost"] /\ UNCHANGED box
       ELSE /\ box' = Collected(box, col.batch, col.first, col.holder # 0)
            /\ col' = IdleCollector
    /\ UNCHANGED <<serviceVars, snd>>

\* source_unavailable
Unavailable(b) ==
    LET b1 == [b EXCEPT !.ready = FALSE] IN
    IF b1.stream.active # 0 THEN Invalidate(b1) ELSE b1

SourceUnavailable ==
    /\ col.pc = "lost" /\ Unlocked
    /\ box' = Unavailable(box)
    /\ col' = IdleCollector
    /\ UNCHANGED <<serviceVars, snd>>

\* observation_unavailable: an append may be going on, so the log is waited
\* for; the window starts again when the clock was set back.
ObservationUnavailable ==
    /\ col.pc = "unreadable" /\ Unlocked
    /\ LET since == IF box.unreadable = None \/ now < box.unreadable THEN now ELSE box.unreadable IN
       /\ box' = [box EXCEPT !.unreadable = since, !.ready = FALSE]
       /\ col' = IF now < since + RetryWindow THEN IdleCollector
                 ELSE [IdleCollector EXCEPT !.pc = "lost"]
    /\ UNCHANGED <<serviceVars, snd>>

\* reconcile_health: the operator acknowledges what of the health history may
\* be missing.
ReconcileHealth ==
    /\ Unlocked /\ journal.run # 0 /\ box.events # journal.seq
    /\ box' = [box EXCEPT !.events = journal.seq,
                          !.reported = @ \cup (due \cap (box.events + 1)..journal.seq)]
    /\ UNCHANGED <<serviceVars, col, snd>>

-----------------------------------------------------------------------------
(* The sender                                                              *)

Claimable(e) ==
    /\ ~ e.suppressed
    /\ e.state = "pending" \/ (e.state = "failed" /\ e.retryable)

Claim ==
    /\ snd.pc = "idle" /\ Unlocked
    /\ \E i \in DOMAIN box.entries :
          /\ Claimable(box.entries[i])
          /\ box' = [box EXCEPT !.entries[i].state = "unknown", !.entries[i].retryable = FALSE]
          /\ snd' = [pc |-> "claimed", entry |-> i]
    /\ UNCHANGED <<serviceVars, col>>

Entry == box.entries[snd.entry]

Deferred == [box EXCEPT !.entries[snd.entry].state = "pending"]
Suppressed == [Deferred EXCEPT !.entries[snd.entry].suppressed = TRUE]

\* Variant: the tail of the log is not looked at.
CaughtUpWithHealth ==
    /\ box.ready /\ Healthy(journal, Alive) /\ box.last = journal.last.cycle

\* The health is good, and log and health tell of the cycle consumed last.
CaughtUp ==
    /\ box.ready /\ Healthy(journal, Alive) /\ box.last = journal.last.cycle
    /\ ~ marker /\ box.cursor = Len(log)

StillDecided ==
    /\ journal.last.cycle.outcome = box.stream.key
    /\ box.stream.active = snd.entry

\* _prepare_entry under the fence, which is not waited for
Prepare ==
    /\ snd.pc = "claimed" /\ Unlocked
    /\ IF fence # None THEN box' = Deferred /\ snd' = IdleSender /\ UNCHANGED fence
       ELSE IF Entry.suppressed \/ Expired(Entry)
       THEN box' = Suppressed /\ snd' = IdleSender /\ UNCHANGED fence
       ELSE IF ~ CaughtUp THEN box' = Deferred /\ snd' = IdleSender /\ UNCHANGED fence
       ELSE IF ~ StillDecided THEN box' = Suppressed /\ snd' = IdleSender /\ UNCHANGED fence
       ELSE fence' = Sender /\ snd' = [snd EXCEPT !.pc = "sending"] /\ UNCHANGED box
    /\ UNCHANGED <<now, log, marker, journal, sup, worker, faults, due, col>>

\* _source_current_before_data, and the end of the review
MayStillBeSent == Healthy(journal, Alive) /\ ~ Expired(Entry)

Result(state, retryable, accepted) ==
    /\ box' = [box EXCEPT !.entries[snd.entry].state = state,
                          !.entries[snd.entry].retryable = retryable,
                          !.entries[snd.entry].accepted = @ \/ accepted]
    /\ snd' = IdleSender /\ fence' = None

\* SmtpTransport.send and the end of the transaction
Send ==
    /\ snd.pc = "sending"
    /\ \/ Result("failed", Expired(Entry) => ~ Healthy(journal, Alive), FALSE)
       \/ MayStillBeSent /\ Result("confirmed", FALSE, TRUE)
       \/ MayStillBeSent /\ \E accepted \in BOOLEAN : Result("unknown", FALSE, accepted)
    /\ UNCHANGED <<now, log, marker, journal, sup, worker, faults, due, col>>

\* Variant: the lock outlives the process.
SenderLeavesFence ==
    /\ snd.pc # "idle" /\ Fault
    /\ snd' = IdleSender
    /\ UNCHANGED <<now, log, marker, journal, sup, worker, fence, due, box, col>>

\* The sender is killed, and its open transaction undone.
SenderDies ==
    /\ snd.pc # "idle" /\ Fault
    /\ snd' = IdleSender
    /\ fence' = IF fence = Sender THEN None ELSE fence
    /\ UNCHANGED <<now, log, marker, journal, sup, worker, due, box, col>>

-----------------------------------------------------------------------------
Next ==
    \/ /\ ServiceNext
       /\ col' = IF journal' = journal THEN col ELSE SnapshotBroken(col, journal')
       /\ UNCHANGED <<box, snd>>
    \/ StartCollect \/ Probe \/ Collect \/ SourceUnavailable \/ ObservationUnavailable
    \/ ReconcileHealth
    \/ Claim \/ Prepare \/ Send \/ SenderDies

Spec == Init /\ [][Next]_vars

-----------------------------------------------------------------------------
(* Properties                                                              *)

\* An entry is accepted by the server only while it is what the service last
\* committed, to the log and to the journal, and the service is alive and in
\* time: nothing that withdraws it was committed before the body went out
\* (docs/email-alerts.md, publication lock; deliver, _prepare_entry).
SentEntryIsCurrent ==
    [][\A i \in DOMAIN box.entries : box'.entries[i].accepted /\ ~ box.entries[i].accepted =>
          /\ log # <<>> /\ ~ marker
          /\ log[Len(log)].outcome = box.entries[i].signal
          /\ journal.last.cycle = log[Len(log)]
          /\ journal.last.run = sup.run /\ now \in journal.updated..journal.deadline
          /\ now < box.entries[i].at + Review]_vars

\* An entry that may have reached its reader is the active one or its
\* withdrawal is mailed, however claims, deferrals and deaths of the sender
\* interleave with the end of the signal (_invalidate).
AcceptedIsActiveOrWithdrawn ==
    \A i \in DOMAIN box.entries : box.entries[i].accepted =>
        i = box.stream.active \/ box.entries[i].withdrawal = "mailed"

\* Every fault, recovery and stop up to the health cursor became a notice or
\* is acknowledged by the operator: a consumer that stays away too long never
\* passes over events in silence (docs/signal-service.md, events).
NoEventIsSkipped == \A n \in due : n <= box.events => n \in box.reported

\* The source counts as ready only for a cycle of the very run that held the
\* liveness lock: a supervisor that restarts between the reads of journal and
\* lock never endorses the scan of the run before it (HealthStore.snapshot).
ReadyIsEndorsed ==
    [][box'.ready /\ ~ box.ready =>
          /\ col.holder = journal.run
          /\ journal.last.run = journal.run]_vars
=============================================================================
