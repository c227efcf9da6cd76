-------------------------- MODULE EmailAlertsProofs --------------------------
(***************************************************************************)
(* The signal service never runs two workers, and the e-mail alerts on top *)
(* of it skip no event, endorse no run that is over, send nothing that is  *)
(* not current and withdraw what ended, for any signals, number of runs    *)
(* and faults, retained events and times.                                  *)
(***************************************************************************)
EXTENDS EmailAlerts, WellFoundedInduction, TLAPS

-----------------------------------------------------------------------------
(* The journal and the supervisor                                          *)

WorkerRecords ==
    [pc : WorkerSteps \cup {"none", "done"}, cycle : Cycles \cup {None},
     result : {None, "ok", "failed", "persisted", "unpersisted"}]

Supervisors ==
    [pc : {"off", "begun", "idle", "refreshing", "scanning", "stopping"}, run : {0} \cup Runs,
     started : Times, refreshed : BOOLEAN, state : Journals]

\* A journal, as a write or the memory of the supervisor has it.
WellFormed(j) ==
    /\ j \in Journals
    /\ Len(j.events) <= EventLimit /\ Len(j.events) <= j.seq
    /\ j.last # None =>
          /\ j.last.run <= j.run
          /\ j.last.scan = "persisted" => j.last.cycle \in Cycles

\* What j2 still retains of the events of j is what j says of them.
Extends(j, j2) ==
    /\ j.seq <= j2.seq /\ Oldest(j) <= Oldest(j2)
    /\ \A n \in 1..j.seq : n > Oldest(j2) =>
          j2.events[n - Oldest(j2)] = j.events[n - Oldest(j)]

ServiceTypes ==
    /\ now \in Times /\ faults \in 0..MaxFaults
    /\ log \in Seq(Cycles) /\ marker \in BOOLEAN
    /\ WellFormed(journal) /\ Valid(journal)
    /\ sup \in Supervisors /\ WellFormed(sup.state)
    /\ worker \in [Runs -> WorkerRecords]

\* The supervisor works on the run of the journal, and what it has in memory
\* is the journal, until a write fails.
SupervisorFollows ==
    /\ sup.pc # "off" => sup.run = journal.run /\ sup.run \in Runs /\ sup.state.run = sup.run
    /\ sup.pc \in {"begun", "idle", "refreshing", "scanning"} =>
          sup.state = journal /\ journal.running
    /\ sup.pc \in {"refreshing", "scanning"} => journal.phase # "idle"
    /\ sup.pc = "stopping" => Extends(journal, sup.state)

\* A worker has a phase in the journal, and a supervisor that waits for it or
\* none; its result is kept until it is reaped.
WorkerFollows ==
    /\ \A r \in Runs : Working(r) =>
          /\ r = journal.run /\ journal.phase # "idle" /\ journal.running
          /\ sup.pc \in {"off", "refreshing", "scanning"}
    /\ \A r \in Runs : worker[r].pc = "done" => r = sup.run /\ sup.pc \in {"refreshing", "scanning"}
    /\ sup.pc = "refreshing" =>
          \/ worker[sup.run].pc = "refreshing"
          \/ worker[sup.run].pc = "done" /\ worker[sup.run].result \in {"ok", "failed"}
    /\ sup.pc = "scanning" =>
          \/ worker[sup.run].pc \in {"scanning", "made", "appending"}
          \/ worker[sup.run].pc = "done" /\ worker[sup.run].result \in {"persisted", "unpersisted", "failed"}
    /\ \A r \in Runs :
          \/ worker[r].pc \in {"made", "appending"}
          \/ worker[r].pc = "done" /\ worker[r].result = "persisted"
          => worker[r].cycle \in Cycles
    /\ \A r \in Runs : worker[r].pc = "appending" => fence = r

\* An event that is due and still retained is of a kind that is reported.
EventsKept ==
    /\ due \subseteq 1..journal.seq
    /\ \A n \in due : n > Oldest(journal) => journal.events[n - Oldest(journal)] \in Reportable

ServiceInv == ServiceTypes /\ SupervisorFollows /\ WorkerFollows /\ EventsKept

-----------------------------------------------------------------------------
(* The database, the collector and the sender                              *)

Streams ==
    [service : {0} \cup Runs, at : Times, result : Outcomes \cup {None}, collection : {0} \cup Runs,
     active : Nat, key : Signals \cup {None}, seen : Times]

Boxes ==
    [cursor : Nat, last : Cycles \cup {None}, stream : Streams, entries : Seq(Entries),
     events : Nat, reported : SUBSET Nat, ready : BOOLEAN, unreadable : Times \cup {None}]

\* An entry that may have reached its reader is the active one or withdrawn
\* by mail; nothing but a claim that ended could say that it was refused.
BoxOK(b) ==
    /\ b \in Boxes
    /\ b.stream.active \in 0..Len(b.entries)
    /\ (b.stream.active = 0) = (b.stream.key = None)
    /\ b.stream.active # 0 => b.entries[b.stream.active].signal = b.stream.key
    /\ \A i \in 1..Len(b.entries) : b.entries[i].accepted =>
          /\ b.entries[i].state \in {"confirmed", "unknown"}
          /\ i = b.stream.active \/ b.entries[i].withdrawal = "mailed"

\* The last cycle consumed is the one at the cursor.
CursorFollows ==
    /\ box.cursor \in 0..Len(log)
    /\ box.cursor = 0 => box.last = None
    /\ box.cursor > 0 => box.last = log[box.cursor]

HealthFollows ==
    /\ box.events <= journal.seq
    /\ \A n \in due : n <= box.events => n \in box.reported

\* A snapshot that is not broken is the journal, and holds for its run.
CollectorFollows ==
    /\ col \in [pc : {"idle", "probe", "confirm", "unreadable", "lost"}, batch : Nat,
                first : Journals, holder : {0} \cup Runs]
    /\ col.pc \in {"probe", "confirm"} =>
          col.first = journal /\ col.batch \in box.cursor..Len(log)
    /\ col.pc = "confirm" /\ col.holder # 0 => col.holder = journal.run

\* While the sender sends, it holds the fence, the database and its entry.
SenderFollows ==
    /\ snd \in [pc : {"idle", "claimed", "sending"}, entry : Nat]
    /\ fence \in Runs \cup {Sender, None}
    /\ snd.pc # "idle" =>
          snd.entry \in 1..Len(box.entries) /\ ~ box.entries[snd.entry].accepted
    /\ (fence = Sender) = (snd.pc = "sending")
    /\ snd.pc = "sending" =>
          /\ col.pc \notin {"probe", "confirm"}
          /\ ~ marker /\ log # <<>> /\ box.cursor = Len(log)
          /\ journal.last # None /\ box.last = journal.last.cycle
          /\ journal.last.cycle.outcome = box.stream.key
          /\ box.stream.active = snd.entry

AlertsInv ==
    /\ ServiceInv
    /\ BoxOK(box) /\ CursorFollows /\ HealthFollows /\ CollectorFollows /\ SenderFollows

-----------------------------------------------------------------------------
(***************************************************************************)
(* Lemmas about the events of a journal.                                   *)
(***************************************************************************)

\* What a journal keeps besides its events.
SameButEvents(j, j2) ==
    /\ j2.run = j.run /\ j2.running = j.running /\ j2.phase = j.phase /\ j2.started = j.started
    /\ j2.updated = j.updated /\ j2.deadline = j.deadline /\ j2.last = j.last

\* A well-formed journal retains as many events as it may.
LEMMA OldestIsNat ==
    ASSUME NEW j, WellFormed(j)
    PROVE  /\ j.seq \in Nat /\ Len(j.events) \in 0..EventLimit /\ Len(j.events) \in Nat
           /\ Oldest(j) \in 0..j.seq /\ Oldest(j) + Len(j.events) = j.seq
           /\ j.events \in Seq(EventKinds)
BY SignalServiceAssumption DEF WellFormed, Journals, Oldest

\* An event more, and of the others the last EVENT_LIMIT.
LEMMA WithEventExtends ==
    ASSUME NEW j, WellFormed(j), NEW kind \in EventKinds
    PROVE  /\ WellFormed(WithEvent(j, kind))
           /\ Extends(j, WithEvent(j, kind))
           /\ SameButEvents(j, WithEvent(j, kind))
<1> DEFINE all == Append(j.events, kind)
           kept == IF Len(all) > EventLimit THEN Tail(all) ELSE all
           w == [j EXCEPT !.seq = @ + 1, !.events = kept]
<1>1. WithEvent(j, kind) = w
  BY DEF WithEvent
<1>2. /\ j \in Journals /\ j.seq \in Nat /\ j.events \in Seq(EventKinds)
      /\ Len(j.events) \in Nat /\ Len(j.events) <= EventLimit /\ Len(j.events) <= j.seq
  BY DEF WellFormed, Journals
<1>3. EventLimit \in Nat \ {0}
  BY SignalServiceAssumption
<1>4. /\ all \in Seq(EventKinds) /\ Len(all) = Len(j.events) + 1
      /\ \A i \in 1..Len(j.events) : all[i] = j.events[i]
  BY <1>2
<1>5. PICK gone \in {0, 1} :
         /\ kept \in Seq(EventKinds) /\ Len(kept) + gone = Len(j.events) + 1
         /\ Len(kept) <= EventLimit
         /\ \A i \in 1..Len(kept) : kept[i] = all[i + gone]
  <2> HIDE DEF all
  <2>1. CASE Len(all) > EventLimit
    <3>1. kept = Tail(all) /\ all # <<>>
      BY <1>2, <1>3, <1>4, <2>1
    <3>2. kept \in Seq(EventKinds) /\ Len(kept) = Len(all) - 1
      BY <1>4, <3>1
    <3>3. \A i \in 1..Len(kept) : kept[i] = all[i + 1]
      BY <1>4, <3>1, <3>2
    <3>4. Len(kept) + 1 = Len(j.events) + 1 /\ Len(kept) <= EventLimit
      BY <1>2, <1>4, <3>2
    <3> QED
      BY <3>2, <3>3, <3>4
  <2>2. CASE ~ (Len(all) > EventLimit)
    <3>1. kept = all
      BY <2>2
    <3>2. \A i \in 1..Len(kept) : kept[i] = all[i + 0]
      BY <1>4, <3>1
    <3>3. Len(kept) + 0 = Len(j.events) + 1 /\ Len(kept) <= EventLimit
      BY <1>2, <1>3, <1>4, <2>2, <3>1
    <3> QED
      BY <1>4, <3>1, <3>2, <3>3
  <2> QED
    BY <2>1, <2>2
<1> HIDE DEF all, kept
<1>6. Len(kept) \in Nat /\ Len(kept) <= j.seq + 1 /\ Len(kept) <= Len(j.events) + 1
  BY <1>2, <1>5
<1>7. kept \in Seq(EventKinds) /\ j.seq + 1 \in Nat
  BY <1>2, <1>5
<1>8. /\ w.run = j.run /\ w.running = j.running /\ w.phase = j.phase /\ w.started = j.started
      /\ w.updated = j.updated /\ w.deadline = j.deadline /\ w.last = j.last
      /\ w.seq = j.seq + 1 /\ w.events = kept /\ w \in Journals
  BY <1>2, <1>7 DEF Journals
<1> HIDE DEF w
<1>9. WellFormed(w)
  BY <1>5, <1>6, <1>8 DEF WellFormed
<1>10. Oldest(w) = (j.seq + 1) - Len(kept) /\ Oldest(j) = j.seq - Len(j.events)
  BY <1>8 DEF Oldest
<1>11. Oldest(w) = Oldest(j) + gone /\ Oldest(w) \in Nat /\ Oldest(j) \in Nat
  BY <1>2, <1>5, <1>6, <1>10
<1>12. ASSUME NEW n \in 1..j.seq, n > Oldest(w)
       PROVE  w.events[n - Oldest(w)] = j.events[n - Oldest(j)]
  <2>1. n - Oldest(w) \in 1..Len(kept)
    BY <1>2, <1>6, <1>10, <1>11, <1>12
  <2>2. (n - Oldest(w)) + gone = n - Oldest(j)
    BY <1>11
  <2>3. n - Oldest(j) \in 1..Len(j.events)
    <3>1. n \in Nat /\ n <= j.seq /\ j.seq \in Nat /\ Len(j.events) \in Nat
      BY <1>2
    <3>2. n > Oldest(j)
      BY <1>11, <1>12, <3>1
    <3> QED
      BY <1>10, <1>11, <3>1, <3>2
  <2>4. kept[n - Oldest(w)] = all[n - Oldest(j)]
    BY <1>5, <2>1, <2>2
  <2> QED
    BY <1>4, <1>8, <2>3, <2>4
<1>13. Extends(j, w)
  BY <1>2, <1>5, <1>8, <1>11, <1>12 DEF Extends
<1> QED
  BY <1>1, <1>8, <1>9, <1>13 DEF SameButEvents

\* Retained events stay as they were, however often some are added.
LEMMA ExtendsTransitive ==
    ASSUME NEW a, NEW b, NEW c, WellFormed(a), WellFormed(b), WellFormed(c),
           Extends(a, b), Extends(b, c)
    PROVE  Extends(a, c)
<1>1. a.seq \in Nat /\ b.seq \in Nat /\ c.seq \in Nat
      /\ Oldest(a) \in Nat /\ Oldest(b) \in Nat /\ Oldest(c) \in Nat
  BY OldestIsNat
<1>2. a.seq <= b.seq /\ b.seq <= c.seq /\ Oldest(a) <= Oldest(b) /\ Oldest(b) <= Oldest(c)
  BY DEF Extends
<1>3. a.seq <= c.seq /\ Oldest(a) <= Oldest(c)
  BY <1>1, <1>2
<1>4. ASSUME NEW n \in 1..a.seq, n > Oldest(c)
      PROVE  c.events[n - Oldest(c)] = a.events[n - Oldest(a)]
  <2>1. n \in 1..b.seq /\ n > Oldest(b)
    BY <1>1, <1>2, <1>4
  <2>2. c.events[n - Oldest(c)] = b.events[n - Oldest(b)]
    BY <1>4, <2>1 DEF Extends
  <2>3. b.events[n - Oldest(b)] = a.events[n - Oldest(a)]
    BY <2>1 DEF Extends
  <2> QED
    BY <2>2, <2>3
<1> QED
  BY <1>3, <1>4 DEF Extends

\* A journal with the same events.
LEMMA SameEventsExtend ==
    ASSUME NEW a, NEW b, WellFormed(a), b.seq = a.seq, b.events = a.events
    PROVE  Extends(a, b) /\ Extends(b, a)
BY OldestIsNat DEF Extends, Oldest

\* Whatever a write makes due is retained and reportable, and what was due
\* still is.
LEMMA WriteKeepsEvents ==
    ASSUME EventsKept, WellFormed(journal), NEW j, WellFormed(j), Extends(journal, j),
           journal' = j, due' = due \cup NewlyDue(j)
    PROVE  EventsKept'
<1>1. /\ j.seq \in Nat /\ Oldest(j) \in 0..j.seq
      /\ journal.seq \in Nat /\ Oldest(journal) \in 0..journal.seq
  BY OldestIsNat
<1>2. journal.seq <= j.seq /\ Oldest(journal) <= Oldest(j)
  BY DEF Extends
<1>3. ASSUME NEW n \in due
      PROVE  n \in 1..j.seq /\ (n > Oldest(j) => j.events[n - Oldest(j)] \in Reportable)
  <2>1. n \in 1..journal.seq
    BY <1>3 DEF EventsKept
  <2>2. ASSUME n > Oldest(j)
        PROVE  j.events[n - Oldest(j)] \in Reportable
    <3>1. j.events[n - Oldest(j)] = journal.events[n - Oldest(journal)]
      BY <2>1, <2>2 DEF Extends
    <3>2. n > Oldest(journal)
      BY <1>1, <1>2, <2>1, <2>2
    <3> QED
      BY <1>3, <3>1, <3>2 DEF EventsKept
  <2> QED
    BY <1>1, <1>2, <2>1, <2>2
<1>4. ASSUME NEW n \in NewlyDue(j)
      PROVE  n \in 1..j.seq /\ (n > Oldest(j) => j.events[n - Oldest(j)] \in Reportable)
  BY <1>1, <1>4 DEF NewlyDue
<1>5. /\ due' \subseteq 1..j.seq
      /\ \A n \in due' : n > Oldest(j) => j.events[n - Oldest(j)] \in Reportable
  BY <1>3, <1>4
<1>6. /\ due' \subseteq 1..journal'.seq
      /\ \A n \in due' : n > Oldest(journal') => journal'.events[n - Oldest(journal')] \in Reportable
  BY <1>5
<1>7. Oldest(journal)' = Oldest(journal')
  BY DEF Oldest
<1> QED
  BY <1>6 DEF EventsKept, Oldest

-----------------------------------------------------------------------------
(***************************************************************************)
(* Lemmas about the writes of the journal.                                 *)
(***************************************************************************)

\* Nothing was written yet.
LEMMA NoJournalWellFormed == WellFormed(NoJournal) /\ Valid(NoJournal)
<1>1. NoJournal \in Journals
  BY SignalServiceAssumption DEF NoJournal, Journals, Times, Phases
<1> QED
  BY <1>1, SignalServiceAssumption DEF WellFormed, NoJournal, Valid

\* The service before its first run.
LEMMA InitServiceInv == ServiceInit => ServiceInv
<1> SUFFICES ASSUME ServiceInit PROVE ServiceInv
  OBVIOUS
<1> USE DEF ServiceInit
<1>1. Off \in Supervisors
  BY NoJournalWellFormed, SignalServiceAssumption DEF Off, Supervisors, Times, WellFormed
<1>2. worker \in [Runs -> WorkerRecords]
  BY DEF NoWorker, WorkerRecords
<1>3. ServiceTypes
  <2>1. now \in Times /\ faults \in 0..MaxFaults
    BY SignalServiceAssumption DEF Times
  <2>2. log \in Seq(Cycles) /\ marker \in BOOLEAN
    <3>1. log \in Seq(Cycles)
      <4>1. log = <<>>
        OBVIOUS
      <4> QED
        BY <4>1
    <3>2. marker \in BOOLEAN
      <4>1. marker = FALSE
        OBVIOUS
      <4> QED
        BY <4>1, Zenon
    <3> QED
      BY <3>1, <3>2
  <2>3. WellFormed(journal) /\ Valid(journal)
    BY NoJournalWellFormed
  <2>4. sup \in Supervisors /\ sup.state = NoJournal
    BY <1>1 DEF Off
  <2> QED
    BY <1>2, <2>1, <2>2, <2>3, <2>4, NoJournalWellFormed DEF ServiceTypes
<1>4. SupervisorFollows
  BY DEF SupervisorFollows, Off
<1>5. WorkerFollows
  <2>1. \A r \in Runs : worker[r].pc = "none" /\ worker[r].result = None
    BY DEF NoWorker
  <2>2. sup.pc = "off"
    BY DEF Off
  <2> QED
    BY <2>1, <2>2 DEF WorkerFollows, Working, WorkerSteps
<1>6. EventsKept
  BY DEF EventsKept
<1> QED
  BY <1>3, <1>4, <1>5, <1>6 DEF ServiceInv

\* The state that changes with the journal: the same journal, or one that
\* extends it.
LEMMA SameEventsKept ==
    ASSUME EventsKept, journal' = journal, due' = due
    PROVE  EventsKept'
BY DEF EventsKept, Oldest

\* A write that extends the journal keeps what is said of its events.
LEMMA WriteEffect ==
    ASSUME ServiceInv, NEW j, WellFormed(j), Extends(journal, j), Write(j)
    PROVE  journal' = j /\ EventsKept' /\ fence = None
<1>1. journal' = j /\ due' = due \cup NewlyDue(j) /\ fence = None
  BY DEF Write
<1> QED
  BY <1>1, WriteKeepsEvents DEF ServiceInv, ServiceTypes

\* A fault is counted; without one the count stays.
LEMMA FaultsCounted ==
    ASSUME ServiceTypes, Fault \/ NoFault
    PROVE  faults' \in 0..MaxFaults
BY SignalServiceAssumption DEF ServiceTypes, Fault, NoFault, Times

\* A write succeeds, or leaves a supervisor that stops with what it wanted to
\* write, which the journal is or is not.
LEMMA TryWriteEffect ==
    ASSUME ServiceInv, NEW j, WellFormed(j), Extends(journal, j),
           NEW written, TryWrite(j, written)
    PROVE  /\ EventsKept' /\ WellFormed(journal') /\ Valid(journal') /\ faults' \in 0..MaxFaults
           /\ \/ sup' = [written EXCEPT !.state = j] /\ journal' = j
              \/ /\ sup' = [sup EXCEPT !.pc = "stopping", !.state = j]
                 /\ journal' = j \/ journal' = journal
                 /\ Extends(journal', j)
<1> USE DEF ServiceInv, ServiceTypes
<1>1. CASE Valid(j) /\ Write(j) /\ sup' = [written EXCEPT !.state = j] /\ NoFault
  BY <1>1, WriteEffect, FaultsCounted
<1>2. CASE /\ ~ Valid(j) /\ sup' = [sup EXCEPT !.pc = "stopping", !.state = j]
           /\ UNCHANGED <<journal, due>> /\ NoFault
  BY <1>2, SameEventsKept, FaultsCounted
<1>3. CASE /\ Valid(j) /\ Fault /\ sup' = [sup EXCEPT !.pc = "stopping", !.state = j]
           /\ Write(j)
  <2>1. journal' = j /\ EventsKept'
    BY <1>3, WriteEffect
  <2>2. Extends(j, j)
    BY SameEventsExtend
  <2> QED
    BY <1>3, <2>1, <2>2, FaultsCounted
<1>4. CASE /\ Valid(j) /\ Fault /\ sup' = [sup EXCEPT !.pc = "stopping", !.state = j]
           /\ UNCHANGED <<journal, due>>
  BY <1>4, SameEventsKept, FaultsCounted
<1> QED
  BY <1>1, <1>2, <1>3, <1>4 DEF TryWrite

\* The check of a journal does not look at its events.
LEMMA SameButEventsIsValid ==
    ASSUME NEW a, NEW b, SameButEvents(a, b), Valid(a)
    PROVE  Valid(b)
BY DEF SameButEvents, Valid

\* The journal of a new run: nothing that was reported can claim to be of it.
LEMMA StartOverFits ==
    ASSUME ServiceInv, journal.run < MaxRuns
    PROVE  /\ WellFormed(StartOver) /\ Valid(StartOver) /\ Extends(journal, StartOver)
           /\ StartOver.run = journal.run + 1 /\ StartOver.run \in Runs
           /\ StartOver.running = TRUE /\ StartOver.phase = "idle"
<1>1. PICK j0 : j0 = [journal EXCEPT !.run = @ + 1, !.running = TRUE, !.phase = "idle",
                                     !.started = now, !.updated = now, !.deadline = now + Budget]
  OBVIOUS
<1>2. PICK kind \in EventKinds : StartOver = WithEvent(j0, kind)
  <2>1. {"started", "restarted"} \subseteq EventKinds
    BY DEF EventKinds
  <2> QED
    BY <1>1, <2>1 DEF StartOver
<1>3. WellFormed(journal) /\ journal \in Journals /\ now \in Times
  BY DEF ServiceInv, ServiceTypes, WellFormed
<1>4. /\ journal.run \in Nat /\ journal.run + 1 \in Runs /\ now + Budget \in 0..(MaxTime + Budget)
      /\ now \in Nat /\ Budget \in Nat
  BY <1>3, SignalServiceAssumption DEF Journals, Runs, Times
<1>5. /\ j0.run = journal.run + 1 /\ j0.running = TRUE /\ j0.phase = "idle" /\ j0.started = now
      /\ j0.updated = now /\ j0.deadline = now + Budget /\ j0.last = journal.last
      /\ j0.events = journal.events /\ j0.seq = journal.seq /\ j0 \in Journals
  BY <1>1, <1>3, <1>4 DEF Journals, Phases
<1>6. j0.last # None => j0.last.run \in Nat /\ j0.last.run <= journal.run
  BY <1>3, <1>5 DEF Journals, Reports, Runs, WellFormed
<1>7. WellFormed(j0)
  BY <1>3, <1>4, <1>5, <1>6 DEF WellFormed
<1>8. Valid(journal)
  BY DEF ServiceInv, ServiceTypes
<1>9. Valid(j0)
  BY <1>4, <1>5, <1>6, <1>8 DEF Valid
<1>10. Extends(journal, j0)
  BY <1>3, <1>5, SameEventsExtend
<1>11. PICK w : w = WithEvent(j0, kind)
  OBVIOUS
<1>12. WellFormed(w) /\ Extends(j0, w) /\ SameButEvents(j0, w)
  BY <1>7, <1>11, WithEventExtends
<1>13. Extends(journal, w)
  BY <1>3, <1>7, <1>10, <1>12, ExtendsTransitive
<1>14. Valid(w)
  BY <1>9, <1>12, SameButEventsIsValid
<1>15. w.run = journal.run + 1 /\ w.running = TRUE /\ w.phase = "idle"
  BY <1>5, <1>12 DEF SameButEvents
<1> QED
  BY <1>2, <1>4, <1>11, <1>12, <1>13, <1>14, <1>15

\* An interrupted phase keeps a new run from beginning.
LEMMA BeginKeepsService ==
    ASSUME ServiceInv, Begin
    PROVE  ServiceInv'
<1>1. /\ sup.pc = "off" /\ journal.run < MaxRuns /\ ~ (journal.running /\ journal.phase # "idle")
      /\ now' = now /\ log' = log /\ marker' = marker /\ worker' = worker /\ fence' = fence
  BY DEF Begin
<1>2. PICK j : j = StartOver
  OBVIOUS
<1>3. /\ WellFormed(j) /\ Valid(j) /\ Extends(journal, j) /\ j.run \in Runs
      /\ j.running = TRUE /\ j.phase = "idle" /\ j.run = journal.run + 1
  BY <1>1, <1>2, StartOverFits
<1>4. Write(j) /\ (Fault \/ NoFault)
  BY <1>2 DEF Begin, Write, NewlyDue
<1>5. journal' = j /\ EventsKept' /\ faults' \in 0..MaxFaults
  BY <1>3, <1>4, WriteEffect, FaultsCounted DEF ServiceInv
<1>6. \/ sup' = [Off EXCEPT !.pc = "begun", !.run = journal.run + 1, !.state = j]
      \/ sup' = sup
  BY <1>2 DEF Begin
<1>7. \A r \in Runs : worker[r].pc \notin WorkerSteps \cup {"done"}
  <2>1. \A r \in Runs : ~ Working(r)
    BY <1>1 DEF ServiceInv, WorkerFollows
  <2> QED
    BY <1>1, <2>1 DEF ServiceInv, WorkerFollows, Working
<1>8. /\ sup' \in Supervisors /\ WellFormed(sup'.state)
      /\ sup'.pc = "off" \/ (sup'.pc = "begun" /\ sup'.run = j.run /\ sup'.state = j)
  <2>1. CASE sup' = sup
    BY <1>1, <2>1 DEF ServiceInv, ServiceTypes
  <2>2. CASE sup' = [Off EXCEPT !.pc = "begun", !.run = journal.run + 1, !.state = j]
    <3>1. sup' = [pc |-> "begun", run |-> j.run, started |-> 0, refreshed |-> FALSE, state |-> j]
      BY <1>3, <2>2 DEF Off
    <3>2. j \in Journals /\ 0 \in Times
      BY <1>3, SignalServiceAssumption DEF WellFormed, Times
    <3> QED
      BY <1>3, <3>1, <3>2 DEF Supervisors
  <2> QED
    BY <1>6, <2>1, <2>2
<1>9. ServiceTypes'
  BY <1>1, <1>3, <1>5, <1>8 DEF ServiceInv, ServiceTypes
<1>10. SupervisorFollows'
  BY <1>3, <1>5, <1>8 DEF SupervisorFollows
<1>11. WorkerFollows'
  <2>1. \A r \in Runs : worker'[r].pc \notin WorkerSteps \cup {"done"}
    BY <1>1, <1>7
  <2> QED
    BY <1>8, <2>1 DEF WorkerFollows, Working, WorkerSteps
<1> QED
  BY <1>5, <1>9, <1>10, <1>11 DEF ServiceInv

\* Of all runs, no worker runs or waits to be reaped.
Reaped == \A r \in Runs : worker[r].pc \notin WorkerSteps \cup {"done"}

\* Without a worker that has ended or is at work, the workers follow.
LEMMA ReapedFollows ==
    ASSUME Reaped', sup'.pc \notin {"refreshing", "scanning"}
    PROVE  WorkerFollows'
BY DEF Reaped, WorkerFollows, Working, WorkerSteps

\* No worker is at work unless the supervisor waits for one or is gone.
LEMMA NobodyWorks ==
    ASSUME ServiceInv, sup.pc \notin {"off", "refreshing", "scanning"}
    PROVE  Reaped
BY DEF ServiceInv, WorkerFollows, Reaped, Working

\* Next to a supervisor there is only the worker of its own run.
LEMMA OthersReaped ==
    ASSUME ServiceInv, sup.pc # "off"
    PROVE  /\ sup.run \in Runs /\ sup.run = journal.run
           /\ \A r \in Runs \ {sup.run} : worker[r].pc \notin WorkerSteps \cup {"done"}
BY DEF ServiceInv, SupervisorFollows, WorkerFollows, Working

\* A supervisor that stops, after all workers ended, with what it wanted to
\* write in memory.
LEMMA StoppingKeepsService ==
    ASSUME ServiceInv, sup.pc # "off", NEW j, WellFormed(j), j.run = journal.run,
           sup' = [sup EXCEPT !.pc = "stopping", !.state = j],
           journal' = j \/ journal' = journal, Extends(journal', j),
           WellFormed(journal'), Valid(journal'), faults' \in 0..MaxFaults, EventsKept',
           worker' \in [Runs -> WorkerRecords], Reaped',
           now' = now, log' = log, marker' = marker
    PROVE  ServiceInv'
<1>1. sup \in Supervisors /\ sup.run \in Runs /\ sup.run = journal.run
  BY DEF ServiceInv, ServiceTypes, SupervisorFollows
<1>2. /\ sup' \in Supervisors /\ sup'.pc = "stopping" /\ sup'.run = sup.run /\ sup'.state = j
  BY <1>1 DEF Supervisors, WellFormed
<1>3. ServiceTypes'
  BY <1>2 DEF ServiceInv, ServiceTypes
<1>4. SupervisorFollows'
  BY <1>1, <1>2 DEF SupervisorFollows
<1>5. WorkerFollows'
  BY <1>2, ReapedFollows
<1> QED
  BY <1>3, <1>4, <1>5 DEF ServiceInv

\* The supervisor takes the liveness lock.
LEMMA SuperviseKeepsService ==
    ASSUME ServiceInv, Supervise
    PROVE  ServiceInv'
<1>1. /\ sup.pc = "begun" /\ sup' = [sup EXCEPT !.pc = "idle"]
      /\ now' = now /\ log' = log /\ marker' = marker /\ journal' = journal
      /\ worker' = worker /\ fence' = fence /\ faults' = faults /\ due' = due
  BY DEF Supervise
<1>2. sup \in Supervisors
  BY DEF ServiceInv, ServiceTypes
<1>3. /\ sup' \in Supervisors /\ sup'.pc = "idle" /\ sup'.run = sup.run /\ sup'.state = sup.state
  BY <1>1, <1>2 DEF Supervisors
<1>4. ServiceTypes'
  BY <1>1, <1>3 DEF ServiceInv, ServiceTypes
<1>5. SupervisorFollows'
  BY <1>1, <1>3 DEF ServiceInv, SupervisorFollows
<1>6. Reaped'
  BY <1>1, NobodyWorks DEF Reaped
<1> QED
  BY <1>1, <1>3, <1>4, <1>5, <1>6, ReapedFollows, SameEventsKept DEF ServiceInv

\* The journal of a phase, written from memory.
LEMMA InPhaseFits ==
    ASSUME ServiceInv, sup.state = journal, NEW phase \in {"refresh", "scan"}
    PROVE  /\ WellFormed(InPhase(phase)) /\ Extends(journal, InPhase(phase))
           /\ InPhase(phase).run = journal.run /\ InPhase(phase).running = journal.running
           /\ InPhase(phase).phase = phase
<1>1. PICK j : j = InPhase(phase)
  OBVIOUS
<1>2. WellFormed(journal) /\ journal \in Journals /\ now \in Times
  BY DEF ServiceInv, ServiceTypes, WellFormed
<1>3. now + Budget \in 0..(MaxTime + Budget)
  BY <1>2, SignalServiceAssumption DEF Times
<1>4. j = [journal EXCEPT !.phase = phase, !.updated = now, !.deadline = now + Budget]
  BY <1>1 DEF InPhase
<1>5. /\ j.run = journal.run /\ j.running = journal.running /\ j.phase = phase /\ j.last = journal.last
      /\ j.events = journal.events /\ j.seq = journal.seq /\ j \in Journals
  BY <1>2, <1>3, <1>4 DEF Journals, Phases
<1>6. WellFormed(j)
  BY <1>2, <1>5 DEF WellFormed
<1>7. Extends(journal, j)
  BY <1>2, <1>5, SameEventsExtend
<1> QED
  BY <1>1, <1>5, <1>6, <1>7

\* The refresh starts once its phase is out, or not at all.
LEMMA StartRefreshKeepsService ==
    ASSUME ServiceInv, StartRefresh
    PROVE  ServiceInv'
<1>1. /\ sup.pc = "idle" /\ now' = now /\ log' = log /\ marker' = marker /\ fence' = fence
      /\ sup.state = journal /\ journal.running /\ sup.run = journal.run /\ sup.run \in Runs
      /\ sup \in Supervisors /\ now \in Times /\ worker \in [Runs -> WorkerRecords]
  BY DEF StartRefresh, ServiceInv, SupervisorFollows, ServiceTypes
<1>2. PICK j, written : j = InPhase("refresh") /\ written = [sup EXCEPT !.pc = "refreshing", !.started = now]
  OBVIOUS
<1>3. /\ WellFormed(j) /\ Extends(journal, j) /\ j.run = journal.run /\ j.running = journal.running
      /\ j.phase = "refresh"
  BY <1>1, <1>2, InPhaseFits
<1>4. TryWrite(j, written)
  BY <1>2 DEF StartRefresh, TryWrite, Write, NewlyDue
<1>5. /\ EventsKept' /\ WellFormed(journal') /\ Valid(journal') /\ faults' \in 0..MaxFaults
      /\ \/ sup' = [written EXCEPT !.state = j] /\ journal' = j
         \/ /\ sup' = [sup EXCEPT !.pc = "stopping", !.state = j]
            /\ journal' = j \/ journal' = journal
            /\ Extends(journal', j)
  BY <1>3, <1>4, TryWriteEffect
<1>6. Reaped
  BY <1>1, NobodyWorks
<1>7. CASE sup' = [written EXCEPT !.state = j] /\ journal' = j
  <2>1. /\ sup' \in Supervisors /\ sup'.pc = "refreshing" /\ sup'.run = sup.run /\ sup'.state = j
    BY <1>1, <1>2, <1>3, <1>7 DEF Supervisors, WellFormed
  <2>2. worker' = [worker EXCEPT ![sup.run] = [pc |-> "refreshing", cycle |-> None, result |-> None]]
    BY <2>1 DEF StartRefresh, Spawn, NoWorker
  <2>3. worker' \in [Runs -> WorkerRecords]
    BY <1>1, <2>2 DEF WorkerRecords, WorkerSteps
  <2>4. ServiceTypes'
    BY <1>1, <1>3, <1>5, <1>7, <2>1, <2>3 DEF ServiceInv, ServiceTypes
  <2>5. SupervisorFollows'
    BY <1>1, <1>3, <1>7, <2>1 DEF SupervisorFollows
  <2>6. /\ worker'[sup.run].pc = "refreshing"
        /\ \A r \in Runs \ {sup.run} : worker'[r].pc \notin WorkerSteps \cup {"done"}
    BY <1>1, <1>6, <2>2 DEF Reaped
  <2>7. WorkerFollows'
    BY <1>1, <1>3, <1>7, <2>1, <2>6 DEF WorkerFollows, Working, WorkerSteps
  <2> QED
    BY <1>5, <2>4, <2>5, <2>7 DEF ServiceInv
<1>8. CASE /\ sup' = [sup EXCEPT !.pc = "stopping", !.state = j]
           /\ journal' = j \/ journal' = journal
           /\ Extends(journal', j)
  <2>1. sup'.pc = "stopping"
    BY <1>1, <1>8 DEF Supervisors
  <2>2. worker' = worker
    BY <2>1 DEF StartRefresh
  <2>3. Reaped'
    BY <1>6, <2>2 DEF Reaped
  <2> QED
    BY <1>1, <1>3, <1>5, <1>8, <2>2, <2>3, StoppingKeepsService
<1> QED
  BY <1>5, <1>7, <1>8

\* The scan follows the refresh, whatever came of it.
LEMMA StartScanKeepsService ==
    ASSUME ServiceInv, StartScan
    PROVE  ServiceInv'
<1>1. /\ sup.pc = "refreshing" /\ now' = now /\ log' = log /\ marker' = marker /\ fence' = fence
      /\ sup.state = journal /\ journal.running /\ sup.run = journal.run /\ sup.run \in Runs
      /\ sup \in Supervisors /\ worker \in [Runs -> WorkerRecords]
  BY DEF StartScan, ServiceInv, SupervisorFollows, ServiceTypes
<1>2. PICK ok \in BOOLEAN : ok = (worker[sup.run].result = "ok")
  OBVIOUS
<1>3. PICK j, written : j = InPhase("scan") /\ written = [sup EXCEPT !.pc = "scanning", !.refreshed = ok]
  OBVIOUS
<1>4. /\ WellFormed(j) /\ Extends(journal, j) /\ j.run = journal.run /\ j.running = journal.running
      /\ j.phase = "scan"
  BY <1>1, <1>3, InPhaseFits
<1>5. TryWrite(j, written)
  BY <1>2, <1>3 DEF StartScan, TryWrite, Write, NewlyDue
<1>6. /\ EventsKept' /\ WellFormed(journal') /\ Valid(journal') /\ faults' \in 0..MaxFaults
      /\ \/ sup' = [written EXCEPT !.state = j] /\ journal' = j
         \/ /\ sup' = [sup EXCEPT !.pc = "stopping", !.state = j]
            /\ journal' = j \/ journal' = journal
            /\ Extends(journal', j)
  BY <1>4, <1>5, TryWriteEffect
<1>7. PICK step \in {"scanning", "none"} :
         /\ step = "scanning" <=> sup'.pc = "scanning"
         /\ worker' = [worker EXCEPT ![sup.run] = [pc |-> step, cycle |-> None, result |-> None]]
  <2>1. PICK step : step = IF sup'.pc = "scanning" THEN "scanning" ELSE "none"
    OBVIOUS
  <2>2. worker' = [worker EXCEPT ![sup.run] =
                      [NoWorker EXCEPT !.pc = IF sup'.pc = "scanning" THEN "scanning" ELSE "none"]]
    BY Zenon DEF StartScan, Spawn
  <2>3. worker' = [worker EXCEPT ![sup.run] = [NoWorker EXCEPT !.pc = step]]
    BY <2>1, <2>2
  <2>4. [NoWorker EXCEPT !.pc = step] = [pc |-> step, cycle |-> None, result |-> None]
    BY DEF NoWorker
  <2>5. worker' = [worker EXCEPT ![sup.run] = [pc |-> step, cycle |-> None, result |-> None]]
    BY <2>3, <2>4
  <2> QED
    BY <2>1, <2>5
<1>8. /\ worker' \in [Runs -> WorkerRecords] /\ worker'[sup.run].pc = step
      /\ \A r \in Runs \ {sup.run} : worker'[r].pc \notin WorkerSteps \cup {"done"}
  <2>1. \A r \in Runs \ {sup.run} : worker[r].pc \notin WorkerSteps \cup {"done"}
    BY <1>1, OthersReaped
  <2>2. [pc |-> step, cycle |-> None, result |-> None] \in WorkerRecords
    BY DEF WorkerRecords, WorkerSteps
  <2> QED
    BY <1>1, <1>7, <2>1, <2>2
<1>9. CASE sup' = [written EXCEPT !.state = j] /\ journal' = j
  <2>1. /\ sup' \in Supervisors /\ sup'.pc = "scanning" /\ sup'.run = sup.run /\ sup'.state = j
    BY <1>1, <1>3, <1>4, <1>9 DEF Supervisors, WellFormed
  <2>2. ServiceTypes'
    BY <1>1, <1>4, <1>6, <1>8, <1>9, <2>1 DEF ServiceInv, ServiceTypes
  <2>3. SupervisorFollows'
    BY <1>1, <1>4, <1>9, <2>1 DEF SupervisorFollows
  <2>4. step = "scanning"
    BY <1>7, <2>1
  <2>5. WorkerFollows'
    BY <1>1, <1>4, <1>8, <1>9, <2>1, <2>4 DEF WorkerFollows, Working, WorkerSteps
  <2> QED
    BY <1>6, <2>2, <2>3, <2>5 DEF ServiceInv
<1>10. CASE /\ sup' = [sup EXCEPT !.pc = "stopping", !.state = j]
            /\ journal' = j \/ journal' = journal
            /\ Extends(journal', j)
  <2>1. sup'.pc = "stopping"
    BY <1>1, <1>10 DEF Supervisors
  <2>2. step = "none"
    BY <1>7, <2>1
  <2>3. Reaped'
    BY <1>8, <2>2 DEF Reaped, WorkerSteps
  <2> QED
    BY <1>1, <1>4, <1>6, <1>8, <1>10, <2>3, StoppingKeepsService
<1> QED
  BY <1>6, <1>9, <1>10

\* The report of a cycle is complete, and names the run that made it.
LEMMA CycleDoneFits ==
    ASSUME ServiceInv, sup.pc = "scanning", worker[sup.run].pc = "done"
    PROVE  /\ WellFormed(CycleDone) /\ Extends(journal, CycleDone)
           /\ CycleDone.run = journal.run /\ CycleDone.running = journal.running
<1>1. /\ sup.state = journal /\ sup.run = journal.run /\ sup.run \in Runs
      /\ sup \in Supervisors /\ worker \in [Runs -> WorkerRecords] /\ now \in Times
      /\ WellFormed(journal) /\ journal \in Journals
  BY DEF ServiceInv, SupervisorFollows, ServiceTypes, WellFormed
<1>2. PICK report : report = CycleReport
  OBVIOUS
<1>3. /\ worker[sup.run].result \in {"persisted", "unpersisted", "failed"}
      /\ worker[sup.run].result = "persisted" => worker[sup.run].cycle \in Cycles
      /\ worker[sup.run].cycle \in Cycles \cup {None}
  <2>1. worker[sup.run].pc \notin {"scanning", "made", "appending"}
    OBVIOUS
  <2> QED
    BY <1>1, <2>1 DEF ServiceInv, WorkerFollows, WorkerRecords
<1>4. /\ report \in Reports /\ report.run = journal.run
      /\ report.scan = "persisted" => report.cycle \in Cycles
  BY <1>1, <1>2, <1>3 DEF CycleReport, Reports, Supervisors
<1>5. PICK j0 : j0 = [journal EXCEPT !.last = report, !.phase = "idle", !.updated = now,
                                     !.deadline = now + Budget]
  OBVIOUS
<1>6. now + Budget \in 0..(MaxTime + Budget)
  BY <1>1, SignalServiceAssumption DEF Times
<1>7. /\ j0.run = journal.run /\ j0.running = journal.running /\ j0.last = report
      /\ j0.events = journal.events /\ j0.seq = journal.seq /\ j0 \in Journals
  BY <1>1, <1>4, <1>5, <1>6 DEF Journals, Phases
<1>8. WellFormed(j0)
  <2>1. report.run <= journal.run
    BY <1>1, <1>4 DEF Runs
  <2> QED
    BY <1>1, <1>4, <1>7, <2>1 DEF WellFormed
<1>9. Extends(journal, j0)
  BY <1>1, <1>7, SameEventsExtend
<1>10. PICK kind \in EventKinds : CycleDone = j0 \/ CycleDone = WithEvent(j0, kind)
  <2>1. {"recovered", "fault"} \subseteq EventKinds
    BY DEF EventKinds
  <2> QED
    BY <1>1, <1>2, <1>5, <2>1 DEF CycleDone
<1>11. PICK w : w = WithEvent(j0, kind)
  OBVIOUS
<1>12. WellFormed(w) /\ Extends(j0, w) /\ w.run = j0.run /\ w.running = j0.running
  BY <1>8, <1>11, WithEventExtends DEF SameButEvents
<1>13. Extends(journal, w)
  BY <1>1, <1>8, <1>9, <1>12, ExtendsTransitive
<1> QED
  BY <1>7, <1>8, <1>9, <1>10, <1>11, <1>12, <1>13

\* The end of a cycle.
LEMMA FinishCycleKeepsService ==
    ASSUME ServiceInv, FinishCycle
    PROVE  ServiceInv'
<1>1. /\ sup.pc = "scanning" /\ worker[sup.run].pc = "done"
      /\ now' = now /\ log' = log /\ marker' = marker /\ fence' = fence
      /\ sup.state = journal /\ journal.running /\ sup.run = journal.run /\ sup.run \in Runs
      /\ sup \in Supervisors /\ worker \in [Runs -> WorkerRecords]
  BY DEF FinishCycle, ServiceInv, SupervisorFollows, ServiceTypes
<1>2. PICK j, written : j = CycleDone /\ written = [Off EXCEPT !.pc = "idle", !.run = sup.run]
  OBVIOUS
<1>3. /\ WellFormed(j) /\ Extends(journal, j) /\ j.run = journal.run /\ j.running = journal.running
  BY <1>1, <1>2, CycleDoneFits
<1>4. TryWrite(j, written)
  BY <1>2 DEF FinishCycle, TryWrite, Write, NewlyDue
<1>5. /\ EventsKept' /\ WellFormed(journal') /\ Valid(journal') /\ faults' \in 0..MaxFaults
      /\ \/ sup' = [written EXCEPT !.state = j] /\ journal' = j
         \/ /\ sup' = [sup EXCEPT !.pc = "stopping", !.state = j]
            /\ journal' = j \/ journal' = journal
            /\ Extends(journal', j)
  BY <1>3, <1>4, TryWriteEffect
<1>6. worker' \in [Runs -> WorkerRecords] /\ Reaped'
  <2>1. \A r \in Runs \ {sup.run} : worker[r].pc \notin WorkerSteps \cup {"done"}
    BY <1>1, OthersReaped
  <2>2. worker' = [worker EXCEPT ![sup.run] = [pc |-> "none", cycle |-> None, result |-> None]]
    BY DEF FinishCycle, NoWorker
  <2>3. [pc |-> "none", cycle |-> None, result |-> None] \in WorkerRecords
    BY DEF WorkerRecords, WorkerSteps
  <2> QED
    BY <1>1, <2>1, <2>2, <2>3 DEF Reaped, WorkerSteps
<1>7. CASE sup' = [written EXCEPT !.state = j] /\ journal' = j
  <2>1. sup' = [pc |-> "idle", run |-> sup.run, started |-> 0, refreshed |-> FALSE, state |-> j]
    BY <1>2, <1>7 DEF Off
  <2>2. /\ sup' \in Supervisors /\ sup'.pc = "idle" /\ sup'.run = sup.run /\ sup'.state = j
    BY <1>1, <1>3, <2>1, SignalServiceAssumption DEF Supervisors, WellFormed, Times
  <2>3. ServiceTypes'
    BY <1>1, <1>3, <1>5, <1>6, <1>7, <2>2 DEF ServiceInv, ServiceTypes
  <2>4. SupervisorFollows'
    BY <1>1, <1>3, <1>7, <2>2 DEF SupervisorFollows
  <2> QED
    BY <1>5, <1>6, <2>2, <2>3, <2>4, ReapedFollows DEF ServiceInv
<1>8. CASE /\ sup' = [sup EXCEPT !.pc = "stopping", !.state = j]
           /\ journal' = j \/ journal' = journal
           /\ Extends(journal', j)
  BY <1>1, <1>3, <1>5, <1>6, <1>8, StoppingKeepsService
<1> QED
  BY <1>5, <1>7, <1>8

\* An interrupted supervisor takes its child down first.
LEMMA InterruptKeepsService ==
    ASSUME ServiceInv, Interrupt
    PROVE  ServiceInv'
<1>1. /\ sup.pc \in {"idle", "refreshing", "scanning"} /\ Fault
      /\ now' = now /\ log' = log /\ marker' = marker /\ journal' = journal /\ due' = due
      /\ sup.state = journal /\ sup.run = journal.run /\ sup.run \in Runs
      /\ sup \in Supervisors /\ worker \in [Runs -> WorkerRecords]
      /\ WellFormed(journal) /\ Valid(journal)
  <2>1. sup.pc \in {"idle", "refreshing", "scanning"} /\ Fault
    BY DEF Interrupt, Alive, ServiceInv, ServiceTypes, Supervisors
  <2> QED
    BY <2>1 DEF Interrupt, ServiceInv, SupervisorFollows, ServiceTypes
<1>2. PICK j : j = journal
  OBVIOUS
<1>3. sup' = [sup EXCEPT !.pc = "stopping", !.state = j]
  BY <1>1, <1>2 DEF Interrupt, Supervisors
<1>4. worker' \in [Runs -> WorkerRecords] /\ Reaped'
  <2>1. \A r \in Runs \ {sup.run} : worker[r].pc \notin WorkerSteps \cup {"done"}
    BY <1>1, OthersReaped
  <2>2. worker' = [worker EXCEPT ![sup.run] = [pc |-> "none", cycle |-> None, result |-> None]]
    BY DEF Interrupt, NoWorker
  <2>3. [pc |-> "none", cycle |-> None, result |-> None] \in WorkerRecords
    BY DEF WorkerRecords, WorkerSteps
  <2> QED
    BY <1>1, <2>1, <2>2, <2>3 DEF Reaped, WorkerSteps
<1>5. EventsKept' /\ faults' \in 0..MaxFaults
  BY <1>1, SameEventsKept, FaultsCounted DEF ServiceInv
<1>6. Extends(journal', j)
  BY <1>1, <1>2, SameEventsExtend
<1> QED
  BY <1>1, <1>2, <1>3, <1>4, <1>5, <1>6, StoppingKeepsService

\* A service without a supervisor, whose workers are those that went on.
LEMMA OffKeepsService ==
    ASSUME ServiceInv, sup' = Off, WellFormed(journal'), Valid(journal'), EventsKept',
           faults' \in 0..MaxFaults, WorkerFollows', worker' \in [Runs -> WorkerRecords],
           now' = now, log' = log, marker' = marker
    PROVE  ServiceInv'
<1>1. /\ sup' \in Supervisors /\ sup'.pc = "off" /\ sup'.state = NoJournal
  BY NoJournalWellFormed, SignalServiceAssumption DEF Off, Supervisors, WellFormed, Times
<1>2. ServiceTypes'
  BY <1>1, NoJournalWellFormed DEF ServiceInv, ServiceTypes
<1>3. SupervisorFollows'
  BY <1>1 DEF SupervisorFollows
<1> QED
  BY <1>2, <1>3 DEF ServiceInv

\* The journal of a stop follows what the supervisor has in memory, whether
\* that was ever written or not.
LEMMA StoppedFits ==
    ASSUME ServiceInv, sup.pc = "stopping"
    PROVE  WellFormed(Stopped) /\ Extends(journal, Stopped)
<1>1. PICK j : j = sup.state
  OBVIOUS
<1>2. /\ WellFormed(j) /\ j \in Journals /\ now \in Times /\ WellFormed(journal)
      /\ Extends(journal, j)
  BY <1>1 DEF ServiceInv, ServiceTypes, WellFormed, SupervisorFollows
<1>3. PICK j0 : j0 = [j EXCEPT !.running = FALSE, !.phase = "idle", !.updated = now, !.deadline = now]
  OBVIOUS
<1>4. now \in 0..(MaxTime + Budget)
  BY <1>2, SignalServiceAssumption DEF Times
<1>5. /\ j0.run = j.run /\ j0.last = j.last /\ j0.events = j.events /\ j0.seq = j.seq
      /\ j0 \in Journals
  BY <1>2, <1>3, <1>4 DEF Journals, Phases
<1>6. WellFormed(j0)
  BY <1>2, <1>5 DEF WellFormed
<1>7. Extends(j, j0)
  BY <1>2, <1>5, SameEventsExtend
<1>8. PICK kind \in EventKinds : kind = "stopped"
  BY DEF EventKinds
<1>9. PICK w : w = WithEvent(j0, kind)
  OBVIOUS
<1>10. WellFormed(w) /\ Extends(j0, w)
  BY <1>6, <1>9, WithEventExtends
<1>11. Extends(j, w)
  BY <1>2, <1>6, <1>7, <1>10, ExtendsTransitive
<1>12. Extends(journal, w)
  BY <1>2, <1>10, <1>11, ExtendsTransitive
<1>13. Stopped = w
  BY <1>1, <1>3, <1>8, <1>9 DEF Stopped
<1> QED
  BY <1>10, <1>12, <1>13

\* The supervisor releases its locks, whatever came of its last write.
LEMMA StopKeepsService ==
    ASSUME ServiceInv, Stop
    PROVE  ServiceInv'
<1>1. /\ sup.pc = "stopping" /\ sup' = Off /\ now' = now /\ log' = log /\ marker' = marker
      /\ worker' = worker /\ fence' = fence /\ faults' = faults
  BY DEF Stop
<1>2. PICK j : j = Stopped
  OBVIOUS
<1>3. WellFormed(j) /\ Extends(journal, j)
  BY <1>1, <1>2, StoppedFits
<1>4. \/ Valid(j) /\ Write(j)
      \/ journal' = journal /\ due' = due
  BY <1>2 DEF Stop, Write, NewlyDue
<1>5. WellFormed(journal') /\ Valid(journal') /\ EventsKept'
  BY <1>3, <1>4, WriteEffect, SameEventsKept DEF ServiceInv, ServiceTypes
<1>6. Reaped'
  BY <1>1, NobodyWorks DEF Reaped
<1>7. sup'.pc = "off"
  BY <1>1 DEF Off
<1>8. WorkerFollows'
  BY <1>6, <1>7, ReapedFollows
<1> QED
  BY <1>1, <1>5, <1>8, OffKeepsService DEF ServiceInv, ServiceTypes

\* The child of a supervisor that is killed goes on, if it has not ended.
LEMMA KillKeepsService ==
    ASSUME ServiceInv, Kill
    PROVE  ServiceInv'
<1>1. /\ sup.pc # "off" /\ sup' = Off /\ Fault /\ now' = now /\ log' = log /\ marker' = marker
      /\ journal' = journal /\ fence' = fence /\ due' = due
      /\ worker \in [Runs -> WorkerRecords] /\ WellFormed(journal) /\ Valid(journal)
  BY DEF Kill, ServiceInv, ServiceTypes
<1>2. /\ sup.run \in Runs /\ sup.run = journal.run
      /\ \A r \in Runs \ {sup.run} : worker[r].pc \notin WorkerSteps \cup {"done"}
  BY <1>1, OthersReaped
<1>3. \/ Working(sup.run) /\ worker' = [worker EXCEPT ![sup.run] = worker[sup.run]]
      \/ ~ Working(sup.run) /\ worker' = [worker EXCEPT ![sup.run] = NoWorker]
  BY DEF Kill
<1>4. NoWorker \in WorkerRecords /\ NoWorker.pc = "none"
  BY DEF NoWorker, WorkerRecords
<1>5. worker' \in [Runs -> WorkerRecords]
  BY <1>1, <1>2, <1>3, <1>4
<1>6. sup'.pc = "off"
  BY <1>1 DEF Off
<1>7. WorkerFollows'
  <2>1. CASE Working(sup.run) /\ worker' = [worker EXCEPT ![sup.run] = worker[sup.run]]
    <3>1. worker' = worker
      BY <1>1, <2>1
    <3>2. \A r \in Runs : worker[r].pc # "done"
      BY <1>2, <2>1 DEF Working, WorkerSteps
    <3> QED
      BY <1>1, <1>6, <3>1, <3>2 DEF ServiceInv, WorkerFollows, Working
  <2>2. CASE ~ Working(sup.run) /\ worker' = [worker EXCEPT ![sup.run] = NoWorker]
    <3>1. Reaped'
      BY <1>1, <1>2, <1>4, <2>2 DEF Reaped, WorkerSteps
    <3> QED
      BY <1>6, <3>1, ReapedFollows
  <2> QED
    BY <1>3, <2>1, <2>2
<1>8. EventsKept' /\ faults' \in 0..MaxFaults
  BY <1>1, SameEventsKept, FaultsCounted DEF ServiceInv
<1> QED
  BY <1>1, <1>5, <1>7, <1>8, OffKeepsService

\* What recover_interrupted writes.
LEMMA RecoveredFits ==
    ASSUME ServiceInv, Recover
    PROVE  \E w : WellFormed(w) /\ Valid(w) /\ Extends(journal, w) /\ Write(w)
<1>1. WellFormed(journal) /\ journal \in Journals /\ now \in Times /\ Valid(journal)
  BY DEF ServiceInv, ServiceTypes, WellFormed
<1>2. PICK updated : updated = IF now > journal.updated THEN now ELSE journal.updated
  OBVIOUS
<1>3. PICK j0 : j0 = [journal EXCEPT !.running = FALSE, !.phase = "idle", !.updated = updated,
                                     !.deadline = updated]
  OBVIOUS
<1>4. /\ updated \in Times /\ updated \in 0..(MaxTime + Budget)
      /\ journal.updated \in Nat /\ journal.updated <= updated /\ updated \in Nat
  BY <1>1, <1>2, SignalServiceAssumption DEF Times, Journals
<1>5. /\ j0.run = journal.run /\ j0.last = journal.last /\ j0.events = journal.events
      /\ j0.seq = journal.seq /\ j0.updated = updated /\ j0.deadline = updated
      /\ j0.started = journal.started /\ j0 \in Journals
  BY <1>1, <1>3, <1>4 DEF Journals, Phases
<1>6. WellFormed(j0) /\ Extends(journal, j0)
  BY <1>1, <1>5, SameEventsExtend DEF WellFormed
<1>7. Valid(j0)
  <2>1. journal.started \in Nat /\ (journal.last # None => journal.last.completed \in Nat)
    BY <1>1 DEF Journals, Reports, Times
  <2> QED
    BY <1>1, <1>4, <1>5, <2>1 DEF Valid
<1>8. PICK kind \in EventKinds : kind = "interruption_acknowledged"
  BY DEF EventKinds
<1>9. PICK w : w = WithEvent(j0, kind)
  OBVIOUS
<1>10. WellFormed(w) /\ Extends(j0, w) /\ SameButEvents(j0, w)
  BY <1>6, <1>9, WithEventExtends
<1>11. Extends(journal, w) /\ Valid(w)
  BY <1>1, <1>6, <1>7, <1>10, ExtendsTransitive, SameButEventsIsValid
<1>12. Write(w)
  BY <1>2, <1>3, <1>8, <1>9 DEF Recover, Write, NewlyDue
<1> QED
  BY <1>10, <1>11, <1>12

\* The operator acknowledges an interruption once all workers have ended.
LEMMA RecoverKeepsService ==
    ASSUME ServiceInv, Recover
    PROVE  ServiceInv'
<1>1. /\ sup.pc = "off" /\ \A r \in Runs : ~ Working(r)
      /\ sup' = sup /\ now' = now /\ log' = log /\ marker' = marker
      /\ worker' = worker /\ fence' = fence /\ faults' = faults
  BY DEF Recover
<1>2. PICK w : WellFormed(w) /\ Valid(w) /\ Extends(journal, w) /\ Write(w)
  BY RecoveredFits
<1>3. journal' = w /\ EventsKept'
  BY <1>2, WriteEffect
<1>4. Reaped'
  BY <1>1 DEF ServiceInv, WorkerFollows, Reaped, Working
<1>5. ServiceTypes'
  BY <1>1, <1>2, <1>3 DEF ServiceInv, ServiceTypes
<1>6. SupervisorFollows'
  BY <1>1 DEF SupervisorFollows
<1> QED
  BY <1>1, <1>3, <1>4, <1>5, <1>6, ReapedFollows DEF ServiceInv

\* A step of the worker of run r, which leaves the journal alone.
LEMMA WorkerStepKeepsService ==
    ASSUME ServiceInv, NEW r \in Runs, NEW x \in WorkerRecords,
           worker' = [worker EXCEPT ![r] = x],
           sup' = sup, journal' = journal, due' = due, now' = now,
           log' \in Seq(Cycles), marker' \in BOOLEAN, faults' \in 0..MaxFaults,
           x.pc \in WorkerSteps => Working(r),
           x.pc = "done" => r = sup.run /\ sup.pc \in {"refreshing", "scanning"},
           sup.pc = "refreshing" /\ r = sup.run =>
              x.pc = "refreshing" \/ (x.pc = "done" /\ x.result \in {"ok", "failed"}),
           sup.pc = "scanning" /\ r = sup.run =>
              \/ x.pc \in {"scanning", "made", "appending"}
              \/ x.pc = "done" /\ x.result \in {"persisted", "unpersisted", "failed"},
           x.pc \in {"made", "appending"} \/ (x.pc = "done" /\ x.result = "persisted") => x.cycle \in Cycles,
           x.pc = "appending" => fence' = r,
           \A q \in Runs \ {r} : worker[q].pc = "appending" => fence' = q
    PROVE  ServiceInv'
<1>1. worker \in [Runs -> WorkerRecords]
  BY DEF ServiceInv, ServiceTypes
<1>2. worker'[r] = x /\ \A q \in Runs \ {r} : worker'[q] = worker[q]
  BY <1>1
<1>3. worker' \in [Runs -> WorkerRecords]
  BY <1>1
<1>4. ServiceTypes'
  BY <1>3 DEF ServiceInv, ServiceTypes
<1>5. SupervisorFollows'
  BY DEF ServiceInv, SupervisorFollows
<1>6. WorkerFollows'
  <2> USE DEF ServiceInv, WorkerFollows
  <2>1. ASSUME NEW q \in Runs, worker'[q].pc \in WorkerSteps
        PROVE  /\ q = journal.run /\ journal.phase # "idle" /\ journal.running
               /\ sup.pc \in {"off", "refreshing", "scanning"}
    <3>1. Working(q)
      BY <1>2, <2>1 DEF Working
    <3> QED
      BY <3>1
  <2>2. \A q \in Runs : worker'[q].pc = "done" => q = sup.run /\ sup.pc \in {"refreshing", "scanning"}
    BY <1>2
  <2>3. sup.pc = "refreshing" =>
          \/ worker'[sup.run].pc = "refreshing"
          \/ worker'[sup.run].pc = "done" /\ worker'[sup.run].result \in {"ok", "failed"}
    BY <1>2, OthersReaped
  <2>4. sup.pc = "scanning" =>
          \/ worker'[sup.run].pc \in {"scanning", "made", "appending"}
          \/ worker'[sup.run].pc = "done" /\ worker'[sup.run].result \in {"persisted", "unpersisted", "failed"}
    BY <1>2, OthersReaped
  <2>5. \A q \in Runs :
          \/ worker'[q].pc \in {"made", "appending"}
          \/ worker'[q].pc = "done" /\ worker'[q].result = "persisted"
          => worker'[q].cycle \in Cycles
    BY <1>2
  <2>6. \A q \in Runs : worker'[q].pc = "appending" => fence' = q
    BY <1>2
  <2> HIDE DEF ServiceInv
  <2> QED
    BY <2>1, <2>2, <2>3, <2>4, <2>5, <2>6 DEF Working
<1> QED
  BY <1>4, <1>5, <1>6, SameEventsKept DEF ServiceInv

\* What the steps of a worker make of its record.
LEMMA WorkerMakes ==
    ASSUME NEW w \in WorkerRecords, NEW x, NEW y
    PROVE  /\ [w EXCEPT !.pc = x] = [pc |-> x, cycle |-> w.cycle, result |-> w.result]
           /\ [w EXCEPT !.pc = x, !.cycle = y] = [pc |-> x, cycle |-> y, result |-> w.result]
<1>1. w = [pc |-> w.pc, cycle |-> w.cycle, result |-> w.result]
  BY DEF WorkerRecords
<1>2. PICK v : v = [w EXCEPT !.pc = x]
  OBVIOUS
<1>3. v = [pc |-> x, cycle |-> w.cycle, result |-> w.result]
  BY <1>1, <1>2
<1>4. [v EXCEPT !.cycle = y] = [pc |-> x, cycle |-> y, result |-> w.result]
  BY <1>3
<1> QED
  BY <1>2, <1>3, <1>4, Zenon

\* The record of a worker that ends.
LEMMA WorkerEnds ==
    ASSUME NEW w \in WorkerRecords, NEW x, NEW y
    PROVE  [w EXCEPT !.pc = x, !.result = y] = [pc |-> x, cycle |-> w.cycle, result |-> y]
<1>1. w = [pc |-> w.pc, cycle |-> w.cycle, result |-> w.result]
  BY DEF WorkerRecords
<1>2. PICK v : v = [w EXCEPT !.pc = x]
  OBVIOUS
<1>3. v = [pc |-> x, cycle |-> w.cycle, result |-> w.result]
  BY <1>1, <1>2
<1>4. [v EXCEPT !.result = y] = [pc |-> x, cycle |-> w.cycle, result |-> y]
  BY <1>3
<1> QED
  BY <1>2, <1>4, Zenon

\* A worker that ends: its result waits for the supervisor, if there is one.
LEMMA EndedEffect ==
    ASSUME ServiceInv, NEW r \in Runs, Working(r),
           NEW result \in {"ok", "failed", "persisted", "unpersisted"}, Ended(r, result)
    PROVE  \E x \in WorkerRecords :
              /\ worker' = [worker EXCEPT ![r] = x]
              /\ \/ /\ sup.pc \in {"refreshing", "scanning"} /\ r = sup.run
                    /\ x = [pc |-> "done", cycle |-> worker[r].cycle, result |-> result]
                 \/ sup.pc = "off" /\ x = NoWorker
<1>1. /\ r = journal.run /\ sup.pc \in {"off", "refreshing", "scanning"}
      /\ sup.pc # "off" => sup.run = r
      /\ worker \in [Runs -> WorkerRecords]
  BY DEF ServiceInv, WorkerFollows, SupervisorFollows, ServiceTypes
<1>2. CASE sup.pc \in {"refreshing", "scanning"}
  <2>1. worker' = [worker EXCEPT ![r] = [worker[r] EXCEPT !.pc = "done", !.result = result]]
    BY <1>1, <1>2 DEF Ended, Alive
  <2>2. [worker[r] EXCEPT !.pc = "done", !.result = result]
           = [pc |-> "done", cycle |-> worker[r].cycle, result |-> result]
    <3>1. worker[r] \in WorkerRecords
      BY <1>1
    <3> QED
      BY <3>1, WorkerEnds, Zenon
  <2>3. [pc |-> "done", cycle |-> worker[r].cycle, result |-> result] \in WorkerRecords
    BY <1>1 DEF WorkerRecords
  <2> QED
    <3>1. PICK x \in WorkerRecords : x = [pc |-> "done", cycle |-> worker[r].cycle, result |-> result]
      BY <2>3
    <3>2. worker' = [worker EXCEPT ![r] = x]
      BY <2>1, <2>2, <3>1
    <3> QED
      BY <1>1, <1>2, <3>1, <3>2
<1>3. CASE sup.pc = "off"
  <2>1. worker' = [worker EXCEPT ![r] = NoWorker]
    BY <1>3 DEF Ended, Alive
  <2>2. NoWorker \in WorkerRecords
    BY DEF NoWorker, WorkerRecords
  <2> QED
    BY <1>3, <2>1, <2>2
<1> QED
  BY <1>1, <1>2, <1>3

\* The fence is with the one worker that appends.
LEMMA OneAppends ==
    ASSUME ServiceInv, NEW r \in Runs, Working(r), NEW q \in Runs \ {r}
    PROVE  worker[q].pc # "appending"
BY DEF ServiceInv, WorkerFollows, Working, WorkerSteps

\* A refresh ends.
LEMMA RefreshKeepsService ==
    ASSUME ServiceInv, NEW r \in Runs, Refresh(r)
    PROVE  ServiceInv'
<1>1. /\ worker[r].pc = "refreshing" /\ now' = now /\ log' = log /\ marker' = marker
      /\ journal' = journal /\ sup' = sup /\ fence' = fence /\ due' = due
  BY DEF Refresh
<1>2. PICK result \in {"ok", "failed"} : Ended(r, result)
  BY DEF Refresh
<1>3. Working(r)
  BY <1>1 DEF Working, WorkerSteps
<1>4. PICK x \in WorkerRecords :
         /\ worker' = [worker EXCEPT ![r] = x]
         /\ \/ /\ sup.pc \in {"refreshing", "scanning"} /\ r = sup.run
               /\ x = [pc |-> "done", cycle |-> worker[r].cycle, result |-> result]
            \/ sup.pc = "off" /\ x = NoWorker
  BY <1>2, <1>3, EndedEffect
<1>5. faults' \in 0..MaxFaults /\ log \in Seq(Cycles) /\ marker \in BOOLEAN
  BY FaultsCounted DEF Refresh, ServiceInv, ServiceTypes
<1>6. sup.pc # "scanning"
  BY <1>1, <1>4 DEF ServiceInv, WorkerFollows
<1>7. x.pc \in {"done", "none"} /\ (x.pc = "done" => r = sup.run /\ x.result \in {"ok", "failed"})
  BY <1>4 DEF NoWorker
<1>8. sup.pc = "refreshing" => x.pc = "done"
  BY <1>4
<1>9. \A q \in Runs \ {r} : worker[q].pc # "appending"
  BY <1>3, OneAppends
<1>10. /\ x.pc \notin WorkerSteps
       /\ x.pc = "done" => r = sup.run /\ sup.pc \in {"refreshing", "scanning"}
       /\ x.pc = "done" => x.result \in {"ok", "failed"}
  BY <1>4, <1>7, <1>8 DEF NoWorker, WorkerSteps
<1>11. log' \in Seq(Cycles) /\ marker' \in BOOLEAN
  BY <1>1, <1>5
<1>12. /\ ~ (x.pc \in {"made", "appending"} \/ (x.pc = "done" /\ x.result = "persisted"))
       /\ x.pc # "appending"
  BY <1>10 DEF WorkerSteps
<1> QED
  BY <1>1, <1>4, <1>5, <1>6, <1>8, <1>9, <1>10, <1>11, <1>12, WorkerStepKeepsService

\* A scan makes a cycle of the time and an outcome.
LEMMA ScanKeepsService ==
    ASSUME ServiceInv, NEW r \in Runs, Scan(r)
    PROVE  ServiceInv'
<1>1. /\ worker[r].pc = "scanning" /\ now' = now /\ log' = log /\ marker' = marker
      /\ journal' = journal /\ sup' = sup /\ fence' = fence /\ due' = due
  BY DEF Scan
<1>2. PICK outcome \in Outcomes :
         worker' = [worker EXCEPT ![r].pc = "made", ![r].cycle = [at |-> now, outcome |-> outcome]]
  BY DEF Scan
<1>3. /\ worker \in [Runs -> WorkerRecords] /\ now \in Times
      /\ log \in Seq(Cycles) /\ marker \in BOOLEAN
  BY DEF ServiceInv, ServiceTypes
<1>4. faults' \in 0..MaxFaults
  <2>1. Fault \/ NoFault
    BY Zenon DEF Scan
  <2> QED
    BY <2>1, FaultsCounted DEF ServiceInv
<1>5. PICK x : x = [pc |-> "made", cycle |-> [at |-> now, outcome |-> outcome],
                    result |-> worker[r].result]
  OBVIOUS
<1>6. worker' = [worker EXCEPT ![r] = x]
  <2>1. worker[r] \in WorkerRecords
    BY <1>3
  <2>2. worker' = [worker EXCEPT ![r] =
                      [worker[r] EXCEPT !.pc = "made", !.cycle = [at |-> now, outcome |-> outcome]]]
    BY <1>2, <1>3
  <2>3. [worker[r] EXCEPT !.pc = "made", !.cycle = [at |-> now, outcome |-> outcome]] = x
    BY <1>5, <2>1, WorkerMakes, Zenon
  <2> QED
    BY <2>2, <2>3
<1>7. x \in WorkerRecords /\ x.pc = "made" /\ x.cycle \in Cycles
  BY <1>3, <1>5 DEF WorkerRecords, WorkerSteps, Cycles
<1>8. Working(r)
  BY <1>1 DEF Working, WorkerSteps
<1>9. \A q \in Runs \ {r} : worker[q].pc # "appending"
  BY <1>8, OneAppends
<1>10. ~ (sup.pc = "refreshing" /\ r = sup.run)
  BY <1>1 DEF ServiceInv, WorkerFollows
<1>11. log' \in Seq(Cycles) /\ marker' \in BOOLEAN
  BY <1>1, <1>3
<1> QED
  BY <1>1, <1>4, <1>6, <1>7, <1>8, <1>9, <1>10, <1>11, WorkerStepKeepsService

\* An append takes the fence, or fails at once.
LEMMA StartAppendKeepsService ==
    ASSUME ServiceInv, NEW r \in Runs, StartAppend(r)
    PROVE  ServiceInv'
<1>1. /\ worker[r].pc = "made" /\ fence = None /\ now' = now /\ log' = log
      /\ journal' = journal /\ sup' = sup /\ faults' = faults /\ due' = due
  BY DEF StartAppend
<1>2. /\ worker \in [Runs -> WorkerRecords] /\ faults' \in 0..MaxFaults
      /\ log \in Seq(Cycles) /\ marker \in BOOLEAN
  BY <1>1 DEF ServiceInv, ServiceTypes
<1>3. Working(r)
  BY <1>1 DEF Working, WorkerSteps
<1>4. \A q \in Runs \ {r} : worker[q].pc # "appending"
  BY <1>3, OneAppends
<1>5. ~ (sup.pc = "refreshing" /\ r = sup.run) /\ worker[r].cycle \in Cycles
  BY <1>1 DEF ServiceInv, WorkerFollows
<1>6. log' \in Seq(Cycles)
  BY <1>1, <1>2
<1>7. CASE Ended(r, "unpersisted") /\ marker' = marker
  <2>1. PICK x \in WorkerRecords :
         /\ worker' = [worker EXCEPT ![r] = x]
         /\ \/ /\ sup.pc \in {"refreshing", "scanning"} /\ r = sup.run
               /\ x = [pc |-> "done", cycle |-> worker[r].cycle, result |-> "unpersisted"]
            \/ sup.pc = "off" /\ x = NoWorker
    BY <1>3, <1>7, EndedEffect
  <2>2. /\ x.pc \notin WorkerSteps
        /\ x.pc = "done" => r = sup.run /\ sup.pc \in {"refreshing", "scanning"} /\ x.result = "unpersisted"
        /\ sup.pc = "scanning" => x.pc = "done"
    BY <2>1 DEF NoWorker, WorkerSteps
  <2>3. /\ ~ (x.pc \in {"made", "appending"} \/ (x.pc = "done" /\ x.result = "persisted"))
        /\ x.pc # "appending"
    BY <2>2 DEF WorkerSteps
  <2>4. marker' \in BOOLEAN
    BY <1>2, <1>7
  <2> QED
    BY <1>1, <1>2, <1>4, <1>5, <1>6, <2>1, <2>2, <2>3, <2>4, WorkerStepKeepsService
<1>8. CASE /\ worker' = [worker EXCEPT ![r].pc = "appending"]
           /\ marker' = TRUE /\ fence' = r
  <2>1. PICK x : x = [pc |-> "appending", cycle |-> worker[r].cycle, result |-> worker[r].result]
    OBVIOUS
  <2>2. worker' = [worker EXCEPT ![r] = x]
    <3>1. worker[r] \in WorkerRecords
      BY <1>2
    <3>2. worker' = [worker EXCEPT ![r] = [worker[r] EXCEPT !.pc = "appending"]]
      BY <1>8
    <3>3. [worker[r] EXCEPT !.pc = "appending"] = x
      BY <2>1, <3>1, WorkerMakes, Zenon
    <3> QED
      BY <3>2, <3>3
  <2>3. x \in WorkerRecords /\ x.pc = "appending" /\ x.cycle \in Cycles
    BY <1>2, <1>5, <2>1 DEF WorkerRecords, WorkerSteps
  <2>4. marker' \in BOOLEAN
    BY <1>8, Zenon
  <2> QED
    BY <1>1, <1>2, <1>3, <1>4, <1>5, <1>6, <1>8, <2>2, <2>3, <2>4, WorkerStepKeepsService
<1>9. \/ Ended(r, "unpersisted") /\ marker' = marker
      \/ worker' = [worker EXCEPT ![r].pc = "appending"] /\ marker' = TRUE /\ fence' = r
  BY Zenon DEF StartAppend
<1> QED
  BY <1>7, <1>8, <1>9

\* It ends with the cycle in the log, or with the marker left behind.
LEMMA EndAppendKeepsService ==
    ASSUME ServiceInv, NEW r \in Runs, EndAppend(r)
    PROVE  ServiceInv'
<1>1. /\ worker[r].pc = "appending" /\ now' = now
      /\ journal' = journal /\ sup' = sup /\ due' = due
  BY DEF EndAppend
<1>2. PICK result \in {"persisted", "unpersisted"} :
         /\ Ended(r, result)
         /\ \/ log' = Append(log, worker[r].cycle) /\ marker' = FALSE
            \/ log' = log /\ marker' = marker
         /\ Fault \/ NoFault
  BY Zenon DEF EndAppend
<1>3. /\ worker \in [Runs -> WorkerRecords] /\ faults' \in 0..MaxFaults
      /\ log \in Seq(Cycles) /\ marker \in BOOLEAN
  BY <1>2, FaultsCounted DEF ServiceInv, ServiceTypes
<1>4. Working(r)
  BY <1>1 DEF Working, WorkerSteps
<1>5. \A q \in Runs \ {r} : worker[q].pc # "appending"
  BY <1>4, OneAppends
<1>6. ~ (sup.pc = "refreshing" /\ r = sup.run) /\ worker[r].cycle \in Cycles
  BY <1>1 DEF ServiceInv, WorkerFollows
<1>7. log' \in Seq(Cycles)
  BY <1>2, <1>3, <1>6
<1>8. marker' \in BOOLEAN
  BY <1>2, <1>3, Zenon
<1>9. PICK x \in WorkerRecords :
         /\ worker' = [worker EXCEPT ![r] = x]
         /\ \/ /\ sup.pc \in {"refreshing", "scanning"} /\ r = sup.run
               /\ x = [pc |-> "done", cycle |-> worker[r].cycle, result |-> result]
            \/ sup.pc = "off" /\ x = NoWorker
  BY <1>2, <1>4, EndedEffect
<1>10. /\ x.pc \notin WorkerSteps
       /\ x.pc = "done" => /\ r = sup.run /\ sup.pc \in {"refreshing", "scanning"}
                           /\ x.cycle = worker[r].cycle /\ x.result = result
       /\ sup.pc = "scanning" => x.pc = "done"
  BY <1>9 DEF NoWorker, WorkerSteps
<1>11. /\ (x.pc \in {"made", "appending"} \/ (x.pc = "done" /\ x.result = "persisted")) => x.cycle \in Cycles
       /\ x.pc # "appending"
  BY <1>6, <1>10 DEF WorkerSteps
<1> QED
  BY <1>1, <1>3, <1>5, <1>6, <1>7, <1>8, <1>9, <1>10, <1>11, WorkerStepKeepsService

\* A worker is killed when its time is over, or just after it has ended.
LEMMA TimeOutKeepsService ==
    ASSUME ServiceInv, NEW r \in Runs, TimeOut(r)
    PROVE  ServiceInv'
<1>1. /\ sup.run = r /\ sup.pc \in {"refreshing", "scanning"} /\ Fault
      /\ now' = now /\ log' = log /\ marker' = marker /\ journal' = journal /\ sup' = sup /\ due' = due
  BY DEF TimeOut
<1>2. /\ worker \in [Runs -> WorkerRecords] /\ faults' \in 0..MaxFaults
      /\ log \in Seq(Cycles) /\ marker \in BOOLEAN
  BY <1>1, FaultsCounted DEF ServiceInv, ServiceTypes
<1>3. PICK x : x = [pc |-> "done", cycle |-> None, result |-> "failed"]
  OBVIOUS
<1>4. worker' = [worker EXCEPT ![r] = x]
  <2>1. worker' = [worker EXCEPT ![r] = [NoWorker EXCEPT !.pc = "done", !.result = "failed"]]
    BY DEF TimeOut
  <2>2. [NoWorker EXCEPT !.pc = "done", !.result = "failed"] = x
    <3>1. NoWorker \in WorkerRecords /\ NoWorker.cycle = None
      BY DEF NoWorker, WorkerRecords
    <3>2. [NoWorker EXCEPT !.pc = "done", !.result = "failed"]
             = [pc |-> "done", cycle |-> NoWorker.cycle, result |-> "failed"]
      BY <3>1, WorkerEnds, Zenon
    <3> QED
      BY <1>3, <3>1, <3>2
  <2> QED
    BY <2>1, <2>2
<1>5. x \in WorkerRecords /\ x.pc = "done" /\ x.result = "failed"
  BY <1>3 DEF WorkerRecords
<1>6. \A q \in Runs \ {r} : worker[q].pc \notin WorkerSteps \cup {"done"}
  BY <1>1, OthersReaped
<1>7. \A q \in Runs \ {r} : worker[q].pc # "appending"
  BY <1>6 DEF WorkerSteps
<1>8. log' \in Seq(Cycles) /\ marker' \in BOOLEAN
  BY <1>1, <1>2
<1>9. x.pc \notin WorkerSteps
  BY <1>5 DEF WorkerSteps
<1> QED
  BY <1>1, <1>2, <1>4, <1>5, <1>7, <1>8, <1>9, WorkerStepKeepsService

\* A step that touches at most the clock, the faults and the fence, and the
\* fence only while nobody appends.
LEMMA QuietStepKeepsService ==
    ASSUME ServiceInv, now' \in Times, faults' \in 0..MaxFaults,
           log' = log, marker' = marker, journal' = journal, sup' = sup, worker' = worker, due' = due,
           \A r \in Runs : worker[r].pc = "appending" => fence' = r
    PROVE  ServiceInv'
<1>1. ServiceTypes'
  BY DEF ServiceInv, ServiceTypes
<1>2. SupervisorFollows'
  BY DEF ServiceInv, SupervisorFollows
<1>3. WorkerFollows'
  BY DEF ServiceInv, WorkerFollows, Working
<1> QED
  BY <1>1, <1>2, <1>3, SameEventsKept DEF ServiceInv

\* The clock goes on or is set back.
LEMMA ClockKeepsService ==
    ASSUME ServiceInv, Tick \/ RollBack
    PROVE  ServiceInv'
<1>1. /\ log' = log /\ marker' = marker /\ journal' = journal /\ sup' = sup /\ worker' = worker
      /\ fence' = fence /\ due' = due
  BY DEF Tick, RollBack
<1>2. now \in 0..MaxTime /\ faults \in 0..MaxFaults /\ MaxTime \in Nat /\ MaxFaults \in Nat
  BY SignalServiceAssumption DEF ServiceInv, ServiceTypes, Times
<1>3. \/ now' = now + 1 /\ now + faults < MaxTime /\ faults' = faults
      \/ now > 0 /\ now' = now - 1 /\ faults < MaxFaults /\ faults' = faults + 1
  BY DEF Tick, RollBack
<1>4. now' \in 0..MaxTime /\ faults' \in 0..MaxFaults
  BY <1>2, <1>3
<1>5. now' \in Times
  BY <1>4 DEF Times
<1>6. \A r \in Runs : worker[r].pc = "appending" => fence' = r
  BY <1>1 DEF ServiceInv, WorkerFollows
<1> QED
  BY <1>1, <1>4, <1>5, <1>6, QuietStepKeepsService

\* Every step of the service keeps its invariant.
LEMMA ServiceNextKeepsService ==
    ASSUME ServiceInv, ServiceNext
    PROVE  ServiceInv'
<1>1. CASE Begin
  BY <1>1, BeginKeepsService
<1>2. CASE Supervise
  BY <1>2, SuperviseKeepsService
<1>3. CASE StartRefresh
  BY <1>3, StartRefreshKeepsService
<1>4. CASE StartScan
  BY <1>4, StartScanKeepsService
<1>5. CASE FinishCycle
  BY <1>5, FinishCycleKeepsService
<1>6. CASE Interrupt
  BY <1>6, InterruptKeepsService
<1>7. CASE Stop
  BY <1>7, StopKeepsService
<1>8. CASE Kill
  BY <1>8, KillKeepsService
<1>9. CASE Recover
  BY <1>9, RecoverKeepsService
<1>10. CASE \E r \in Runs : Refresh(r) \/ Scan(r) \/ StartAppend(r) \/ EndAppend(r) \/ TimeOut(r)
  BY <1>10, RefreshKeepsService, ScanKeepsService, StartAppendKeepsService, EndAppendKeepsService,
     TimeOutKeepsService
<1>11. CASE Tick \/ RollBack
  BY <1>11, ClockKeepsService
<1> QED
  BY <1>1, <1>2, <1>3, <1>4, <1>5, <1>6, <1>7, <1>8, <1>9, <1>10, <1>11 DEF ServiceNext

\* So does a step of somebody else.
LEMMA ServiceStutters ==
    ASSUME ServiceInv, UNCHANGED serviceVars
    PROVE  ServiceInv'
BY QuietStepKeepsService DEF serviceVars, ServiceInv, ServiceTypes, WorkerFollows

\* The service by itself, without its consumers, keeps the invariant.
LEMMA ServiceSpecInv == ServiceSpec => []ServiceInv
<1>1. ServiceInv /\ [ServiceNext]_serviceVars => ServiceInv'
  BY ServiceNextKeepsService, ServiceStutters
<1> QED
  BY <1>1, InitServiceInv, PTL DEF ServiceSpec

\* The invariant says in particular that the workers are alone.
LEMMA ServiceInvIsAlone == ServiceInv => WorkersAlone
  BY DEF ServiceInv, WorkerFollows, WorkersAlone

\* A new supervisor never runs beside a writer that a crash left unrecorded:
\* of all runs, however many, at most one has a worker, the one the journal
\* names (SignalService._phase).
THEOREM ServiceRunsOneWorker == ServiceSpec => []WorkersAlone
<1> QED
  BY ServiceSpecInv, ServiceInvIsAlone, PTL

-----------------------------------------------------------------------------
(***************************************************************************)
(* Lemmas about the life of a reminder.                                    *)
(***************************************************************************)

\* What is not the entries of a database.
SameButEntries(b, b2) ==
    /\ b2.cursor = b.cursor /\ b2.last = b.last /\ b2.stream = b.stream /\ b2.events = b.events
    /\ b2.reported = b.reported /\ b2.ready = b.ready /\ b2.unreadable = b.unreadable

\* What is neither its entries nor its stream.
SameLog(b, b2) ==
    /\ b2.cursor = b.cursor /\ b2.last = b.last /\ b2.events = b.events /\ b2.reported = b.reported

\* A database in order, with the entries of b and possibly more, of which the
\* same were accepted.
Grows(b, b2) ==
    /\ BoxOK(b2)
    /\ Len(b.entries) <= Len(b2.entries)
    /\ \A i \in 1..Len(b.entries) : b2.entries[i].accepted = b.entries[i].accepted

\* The types a database in order has.
LEMMA BoxTypes ==
    ASSUME NEW b, BoxOK(b)
    PROVE  /\ b \in Boxes /\ b.entries \in Seq(Entries) /\ Len(b.entries) \in Nat
           /\ b.stream \in Streams /\ b.stream.active \in Nat /\ b.stream.active \in 0..Len(b.entries)
           /\ b.cursor \in Nat /\ b.events \in Nat /\ b.reported \in SUBSET Nat
BY DEF BoxOK, Boxes, Streams

\* Databases grow step by step.
LEMMA GrowsTransitive ==
    ASSUME NEW a, NEW b, NEW c, a.entries \in Seq(Entries), BoxOK(b), Grows(a, b), Grows(b, c)
    PROVE  Grows(a, c)
<1>1. Len(a.entries) \in Nat /\ Len(b.entries) \in Nat /\ Len(c.entries) \in Nat
  BY BoxTypes DEF Grows
<1>2. Len(a.entries) <= Len(c.entries) /\ 1..Len(a.entries) \subseteq 1..Len(b.entries)
  BY <1>1 DEF Grows
<1> QED
  BY <1>2 DEF Grows

\* An entry changes, and is as it must be.
LEMMA EntryChanges ==
    ASSUME NEW b, BoxOK(b), NEW e \in 1..Len(b.entries), NEW x \in Entries,
           x.signal = b.entries[e].signal,
           x.accepted => /\ x.state \in {"confirmed", "unknown"}
                         /\ e = b.stream.active \/ x.withdrawal = "mailed",
           NEW b2, b2 = [b EXCEPT !.entries = [b.entries EXCEPT ![e] = x]]
    PROVE  /\ BoxOK(b2) /\ SameButEntries(b, b2) /\ Len(b2.entries) = Len(b.entries)
           /\ b2.entries[e] = x /\ \A i \in 1..Len(b.entries) \ {e} : b2.entries[i] = b.entries[i]
<1>1. b \in Boxes /\ b.entries \in Seq(Entries) /\ Len(b.entries) \in Nat
  BY BoxTypes
<1>2. PICK s : s = [b.entries EXCEPT ![e] = x]
  OBVIOUS
<1>3. /\ s \in Seq(Entries) /\ Len(s) = Len(b.entries) /\ s[e] = x
      /\ \A i \in 1..Len(b.entries) \ {e} : s[i] = b.entries[i]
  BY <1>1, <1>2
<1>4. b2 = [b EXCEPT !.entries = s]
  BY <1>2
<1>5. b2 \in Boxes /\ SameButEntries(b, b2) /\ b2.entries = s
  BY <1>1, <1>3, <1>4 DEF Boxes, SameButEntries
<1>6. BoxOK(b2)
  <2>1. b2.stream = b.stream
    BY <1>5 DEF SameButEntries
  <2>2. /\ b2.stream.active \in 0..Len(s) /\ (b2.stream.active = 0) = (b2.stream.key = None)
    BY <1>3, <2>1 DEF BoxOK
  <2>3. b2.stream.active # 0 => s[b2.stream.active].signal = b2.stream.key
    BY <1>1, <1>3, <2>1 DEF BoxOK
  <2>4. \A i \in 1..Len(s) : s[i].accepted =>
           /\ s[i].state \in {"confirmed", "unknown"}
           /\ i = b2.stream.active \/ s[i].withdrawal = "mailed"
    BY <1>3, <2>1 DEF BoxOK
  <2> QED
    BY <1>5, <2>2, <2>3, <2>4 DEF BoxOK
<1> QED
  BY <1>3, <1>5, <1>6

\* The active reminder is over.
LEMMA ActiveEnds ==
    ASSUME NEW b, BoxOK(b), NEW e \in 1..Len(b.entries), b.stream.active = e,
           b.entries[e].accepted => b.entries[e].withdrawal = "mailed",
           NEW b2, b2 = [b EXCEPT !.stream.active = 0, !.stream.key = None]
    PROVE  /\ BoxOK(b2) /\ SameLog(b, b2) /\ b2.entries = b.entries
<1>1. b \in Boxes /\ b.entries \in Seq(Entries) /\ Len(b.entries) \in Nat /\ b.stream \in Streams
  BY BoxTypes
<1>2. PICK s1, s2 : s1 = [b.stream EXCEPT !.active = 0] /\ s2 = [s1 EXCEPT !.key = None]
  OBVIOUS
<1>3. s1 \in Streams /\ s1.active = 0
  BY <1>1, <1>2 DEF Streams
<1>4. s2 \in Streams /\ s2.active = 0 /\ s2.key = None
  BY <1>2, <1>3 DEF Streams
<1>5. b2 \in Boxes /\ SameLog(b, b2) /\ b2.entries = b.entries /\ b2.stream = s2
  <2>1. PICK b1 : b1 = [b EXCEPT !.stream = s1]
    OBVIOUS
  <2>2. b1 \in Boxes /\ SameLog(b, b1) /\ b1.entries = b.entries /\ b1.stream = s1
    BY <1>1, <1>3, <2>1 DEF Boxes, SameLog
  <2>3. b1 = [b EXCEPT !.stream.active = 0]
    BY <1>2, <2>1
  <2>4. b2 = [b1 EXCEPT !.stream.key = None]
    BY <2>3
  <2>5. b2 = [b1 EXCEPT !.stream = s2]
    BY <1>2, <2>2, <2>4
  <2> QED
    BY <1>4, <2>2, <2>5 DEF Boxes, SameLog
<1>6. BoxOK(b2)
  BY <1>1, <1>4, <1>5 DEF BoxOK
<1> QED
  BY <1>5, <1>6

\* _invalidate: what may have reached its reader is withdrawn by mail.
LEMMA InvalidateEffect ==
    ASSUME NEW b, BoxOK(b), b.stream.active # 0
    PROVE  Grows(b, Invalidate(b)) /\ SameLog(b, Invalidate(b))
           /\ Invalidate(b).stream.active = 0
<1>1. PICK e : e = b.stream.active
  OBVIOUS
<1>2. /\ e \in 1..Len(b.entries) /\ b.entries \in Seq(Entries) /\ b.entries[e] \in Entries
      /\ Len(b.entries) \in Nat
  BY <1>1, BoxTypes
<1>3. PICK w \in {"mailed", "historical"} :
         w = IF b.entries[e].state \in {"confirmed", "unknown"} THEN "mailed" ELSE "historical"
  OBVIOUS
<1>4. PICK x1 : x1 = [b.entries[e] EXCEPT !.withdrawal = w]
  OBVIOUS
<1>5. /\ x1 \in Entries /\ x1.withdrawal = w /\ x1.signal = b.entries[e].signal
      /\ x1.state = b.entries[e].state /\ x1.accepted = b.entries[e].accepted
  BY <1>2, <1>4 DEF Entries
<1>6. /\ b.entries[e].accepted => b.entries[e].state \in {"confirmed", "unknown"}
  BY <1>2 DEF BoxOK
<1>7. x1.accepted => x1.state \in {"confirmed", "unknown"} /\ x1.withdrawal = "mailed"
  BY <1>3, <1>5, <1>6, Zenon
<1>8. PICK b1 : b1 = [b EXCEPT !.entries = [b.entries EXCEPT ![e] = x1]]
  OBVIOUS
<1>9. /\ BoxOK(b1) /\ SameButEntries(b, b1) /\ Len(b1.entries) = Len(b.entries) /\ b1.entries[e] = x1
      /\ \A i \in 1..Len(b.entries) \ {e} : b1.entries[i] = b.entries[i]
  BY <1>2, <1>5, <1>7, <1>8, EntryChanges
<1>10. PICK x2 : x2 = [x1 EXCEPT !.suppressed = TRUE]
  OBVIOUS
<1>11. /\ x2 \in Entries /\ x2.withdrawal = w /\ x2.signal = x1.signal
       /\ x2.state = x1.state /\ x2.accepted = x1.accepted
  BY <1>5, <1>10 DEF Entries
<1>12. PICK b2 : b2 = [b1 EXCEPT !.entries = [b1.entries EXCEPT ![e] = x2]]
  OBVIOUS
<1>13. x2.accepted => x2.state \in {"confirmed", "unknown"} /\ x2.withdrawal = "mailed"
  BY <1>5, <1>7, <1>11
<1>14. /\ BoxOK(b2) /\ SameButEntries(b1, b2) /\ Len(b2.entries) = Len(b1.entries) /\ b2.entries[e] = x2
       /\ \A i \in 1..Len(b1.entries) \ {e} : b2.entries[i] = b1.entries[i]
  BY <1>2, <1>9, <1>11, <1>12, <1>13, EntryChanges
<1>15. PICK b3 : b3 = [b2 EXCEPT !.stream.active = 0, !.stream.key = None]
  OBVIOUS
<1>16. BoxOK(b3) /\ SameLog(b2, b3) /\ b3.entries = b2.entries
  BY <1>1, <1>2, <1>9, <1>13, <1>14, <1>15, ActiveEnds DEF SameButEntries
<1>17. Invalidate(b) = b3
  <2>1. b1 = [b EXCEPT !.entries[e].withdrawal = w]
    BY <1>4, <1>8
  <2>2. b2 = [b1 EXCEPT !.entries[e].suppressed = TRUE]
    BY <1>9, <1>10, <1>12
  <2> QED
    BY <1>1, <1>3, <1>15, <2>1, <2>2 DEF Invalidate
<1>18. SameLog(b, b3)
  BY <1>9, <1>14, <1>16 DEF SameLog, SameButEntries
<1>19. b3.stream.active = 0
  <2>1. b2 \in Boxes
    BY <1>14 DEF BoxOK
  <2> QED
    BY <1>15, <2>1 DEF Boxes, Streams
<1>20. \A i \in 1..Len(b.entries) : b3.entries[i].accepted = b.entries[i].accepted
  BY <1>5, <1>9, <1>11, <1>14, <1>16
<1> QED
  BY <1>2, <1>9, <1>14, <1>16, <1>17, <1>18, <1>19, <1>20 DEF Grows

\* The stream changes, but not what is active.
LEMMA StreamChanges ==
    ASSUME NEW b, BoxOK(b), NEW s \in Streams, s.active = b.stream.active, s.key = b.stream.key,
           NEW b2, b2 = [b EXCEPT !.stream = s]
    PROVE  Grows(b, b2) /\ SameLog(b, b2) /\ b2.stream = s
<1>1. b \in Boxes /\ Len(b.entries) \in Nat
  BY BoxTypes
<1>2. b2 \in Boxes /\ SameLog(b, b2) /\ b2.stream = s /\ b2.entries = b.entries
  BY <1>1 DEF Boxes, SameLog
<1>3. BoxOK(b2)
  BY <1>2 DEF BoxOK
<1> QED
  BY <1>1, <1>2, <1>3 DEF Grows

\* A database that is left alone.
LEMMA GrowsReflexive ==
    ASSUME NEW b, BoxOK(b)
    PROVE  Grows(b, b) /\ SameLog(b, b)
BY BoxTypes DEF Grows, SameLog

\* What several steps leave alone.
LEMMA SameLogTransitive ==
    ASSUME NEW a, NEW b, NEW c, SameLog(a, b), SameLog(b, c)
    PROVE  SameLog(a, c)
BY DEF SameLog

\* The entry of a new signal, where nothing is active.
LEMMA NewEntryEffect ==
    ASSUME NEW b, BoxOK(b), b.stream.active = 0, NEW c \in Cycles, c.outcome \in Signals
    PROVE  Grows(b, NewEntry(b, c)) /\ SameLog(b, NewEntry(b, c))
<1>1. /\ b \in Boxes /\ b.entries \in Seq(Entries) /\ Len(b.entries) \in Nat /\ b.stream \in Streams
      /\ c.at \in Times
  BY BoxTypes DEF Cycles
<1>2. PICK e : e = [signal |-> c.outcome, at |-> c.at, state |-> "pending", retryable |-> FALSE,
                    suppressed |-> FALSE, accepted |-> FALSE, withdrawal |-> None]
  OBVIOUS
<1>3. PICK late \in BOOLEAN : late = Expired(e)
  BY Zenon DEF Expired
<1>4. PICK x : x = [e EXCEPT !.suppressed = late]
  OBVIOUS
<1>5. x \in Entries /\ x.accepted = FALSE /\ x.signal = c.outcome
  <2>1. x = [signal |-> c.outcome, at |-> c.at, state |-> "pending", retryable |-> FALSE,
             suppressed |-> late, accepted |-> FALSE, withdrawal |-> None]
    BY <1>2, <1>4
  <2> QED
    BY <1>1, <2>1 DEF Entries
<1>6. PICK s : s = Append(b.entries, x)
  OBVIOUS
<1>7. PICK n : n = Len(b.entries) + 1
  OBVIOUS
<1>8. /\ s \in Seq(Entries) /\ Len(s) = n /\ n \in Nat \ {0} /\ s[n] = x
      /\ \A i \in 1..Len(b.entries) : s[i] = b.entries[i]
  BY <1>1, <1>5, <1>6, <1>7
<1>9. PICK s1, s2, s3 : /\ s1 = [b.stream EXCEPT !.active = n]
                        /\ s2 = [s1 EXCEPT !.key = c.outcome]
                        /\ s3 = [s2 EXCEPT !.seen = c.at]
  OBVIOUS
<1>10. s1 \in Streams /\ s1.active = n
  BY <1>1, <1>8, <1>9 DEF Streams
<1>11. s2 \in Streams /\ s2.active = n /\ s2.key = c.outcome
  BY <1>9, <1>10 DEF Streams
<1>12. s3 \in Streams /\ s3.active = n /\ s3.key = c.outcome
  BY <1>1, <1>9, <1>11 DEF Streams
<1>13. PICK b1, b2, b3, b4 : /\ b1 = [b EXCEPT !.entries = s]
                             /\ b2 = [b1 EXCEPT !.stream = s1]
                             /\ b3 = [b2 EXCEPT !.stream = s2]
                             /\ b4 = [b3 EXCEPT !.stream = s3]
  OBVIOUS
<1>14. b1 \in Boxes /\ SameLog(b, b1) /\ b1.entries = s /\ b1.stream = b.stream
  BY <1>1, <1>8, <1>13 DEF Boxes, SameLog
<1>15. b2 \in Boxes /\ SameLog(b1, b2) /\ b2.entries = s /\ b2.stream = s1
  BY <1>10, <1>13, <1>14 DEF Boxes, SameLog
<1>16. b3 \in Boxes /\ SameLog(b2, b3) /\ b3.entries = s /\ b3.stream = s2
  BY <1>11, <1>13, <1>15 DEF Boxes, SameLog
<1>17. b4 \in Boxes /\ SameLog(b3, b4) /\ b4.entries = s /\ b4.stream = s3
  BY <1>12, <1>13, <1>16 DEF Boxes, SameLog
<1>18. b4 = NewEntry(b, c)
  <2>1. b2 = [b1 EXCEPT !.stream.active = n]
    BY <1>9, <1>13, <1>14
  <2>2. b3 = [b2 EXCEPT !.stream.key = c.outcome]
    BY <1>9, <1>13, <1>15
  <2>3. b4 = [b3 EXCEPT !.stream.seen = c.at]
    BY <1>9, <1>13, <1>16
  <2> QED
    <3>1. NewEntry(b, c) = [b EXCEPT !.entries = Append(b.entries, [e EXCEPT !.suppressed = Expired(e)]),
                                    !.stream.active = Len(b.entries) + 1, !.stream.key = c.outcome,
                                    !.stream.seen = c.at]
      BY <1>2, Zenon DEF NewEntry
    <3>2. NewEntry(b, c) = [b EXCEPT !.entries = s, !.stream.active = n, !.stream.key = c.outcome,
                                    !.stream.seen = c.at]
      BY <1>3, <1>4, <1>6, <1>7, <3>1, Zenon
    <3>3. [b EXCEPT !.entries = s, !.stream.active = n, !.stream.key = c.outcome, !.stream.seen = c.at]
             = [b1 EXCEPT !.stream.active = n, !.stream.key = c.outcome, !.stream.seen = c.at]
      BY <1>13, Zenon
    <3>4. [b1 EXCEPT !.stream.active = n, !.stream.key = c.outcome, !.stream.seen = c.at] = b4
      BY <2>1, <2>2, <2>3, Zenon
    <3> QED
      BY <3>2, <3>3, <3>4
<1>19. SameLog(b, b4)
  BY <1>14, <1>15, <1>16, <1>17 DEF SameLog
<1>20. BoxOK(b4)
  <2>1. /\ b4.stream.active = n /\ b4.stream.key = c.outcome /\ b4.entries = s
    BY <1>12, <1>17
  <2>2. c.outcome # None
    BY SignalServiceAssumption
  <2>3. n \in 0..Len(s) /\ (n = 0) = (c.outcome = None) /\ s[n].signal = c.outcome
    BY <1>5, <1>8, <2>2
  <2>4. \A i \in 1..Len(s) : s[i].accepted =>
           /\ s[i].state \in {"confirmed", "unknown"}
           /\ i = n \/ s[i].withdrawal = "mailed"
    <3>1. \A i \in 1..Len(b.entries) : b.entries[i].accepted =>
             /\ b.entries[i].state \in {"confirmed", "unknown"}
             /\ i = 0 \/ b.entries[i].withdrawal = "mailed"
      BY DEF BoxOK
    <3>2. 1..Len(s) = 1..Len(b.entries) \cup {n}
      BY <1>1, <1>7, <1>8
    <3>3. ASSUME NEW i \in 1..Len(b.entries), s[i].accepted
          PROVE  s[i].state \in {"confirmed", "unknown"} /\ s[i].withdrawal = "mailed"
      <4>1. s[i] = b.entries[i] /\ i # 0
        BY <1>8
      <4> QED
        BY <3>1, <3>3, <4>1
    <3>4. ~ s[n].accepted
      BY <1>5, <1>8
    <3> QED
      BY <3>2, <3>3, <3>4
  <2> QED
    BY <1>17, <2>1, <2>3, <2>4 DEF BoxOK
<1>21. Grows(b, b4)
  BY <1>1, <1>7, <1>8, <1>17, <1>20 DEF Grows
<1> QED
  BY <1>18, <1>19, <1>21

\* Whatever a cycle says, the entries that were accepted are accounted for.
LEMMA DecideEffect ==
    ASSUME NEW b, BoxOK(b), NEW c \in Cycles
    PROVE  Grows(b, Decide(b, c)) /\ SameLog(b, Decide(b, c))
<1>1. b \in Boxes /\ b.stream \in Streams /\ c.at \in Times /\ b.entries \in Seq(Entries)
  BY BoxTypes DEF Cycles
<1>2. PICK over : over = IF b.stream.active # 0 THEN Invalidate(b) ELSE b
  OBVIOUS
<1>3. Grows(b, over) /\ SameLog(b, over) /\ over.stream.active = 0
  BY <1>2, InvalidateEffect, GrowsReflexive
<1>4. CASE c.outcome \in Signals /\ b.stream.key = c.outcome
  <2>1. Decide(b, c) = [b EXCEPT !.stream.seen = c.at]
    BY <1>4 DEF Decide
  <2>2. PICK s : s = [b.stream EXCEPT !.seen = c.at]
    OBVIOUS
  <2>3. s \in Streams /\ s.active = b.stream.active /\ s.key = b.stream.key
    BY <1>1, <2>2 DEF Streams
  <2>4. Decide(b, c) = [b EXCEPT !.stream = s]
    BY <2>1, <2>2
  <2> QED
    BY <2>3, <2>4, StreamChanges
<1>5. CASE c.outcome \in Signals /\ b.stream.key # c.outcome
  <2>1. Decide(b, c) = NewEntry(over, c)
    BY <1>2, <1>5 DEF Decide
  <2>2. BoxOK(over)
    BY <1>3 DEF Grows
  <2>3. Grows(over, NewEntry(over, c)) /\ SameLog(over, NewEntry(over, c))
    BY <1>3, <1>5, <2>2, NewEntryEffect
  <2>4. PICK new : new = NewEntry(over, c)
    OBVIOUS
  <2>5. Grows(b, new) /\ SameLog(b, new)
    BY <1>1, <1>3, <2>2, <2>3, <2>4, GrowsTransitive, SameLogTransitive
  <2> QED
    BY <2>1, <2>4, <2>5
<1>6. CASE c.outcome \notin Signals
  <2>1. Decide(b, c) = over
    BY <1>2, <1>6 DEF Decide
  <2> QED
    BY <1>3, <2>1
<1> QED
  BY <1>4, <1>5, <1>6

\* _observe: whatever the order of the cycles, and whoever vouches for them.
LEMMA ObserveEffect ==
    ASSUME NEW b, BoxOK(b), NEW c \in Cycles,
           NEW service \in {0} \cup Runs, NEW collection \in {0} \cup Runs
    PROVE  Grows(b, Observe(b, c, service, collection)) /\ SameLog(b, Observe(b, c, service, collection))
<1>1. PICK new : new = Observe(b, c, service, collection)
  OBVIOUS
<1>3. PICK b0 : b0 = Outdated(b, c, service)
  OBVIOUS
<1>4. Grows(b, b0) /\ SameLog(b, b0)
  BY <1>3, InvalidateEffect, GrowsReflexive DEF Outdated
<1>5. BoxOK(b0) /\ b0 \in Boxes /\ b0.stream \in Streams /\ b.entries \in Seq(Entries)
      /\ c.at \in Times /\ c.outcome \in Outcomes
  BY <1>4, BoxTypes DEF Grows, Cycles
<1>6. PICK b1 : b1 = Rebased(b, c, service)
  OBVIOUS
<1>7. Grows(b0, b1) /\ SameLog(b0, b1)
  <2>1. CASE Rebases(b, service)
    <3>1. PICK s1, s2, s3 : /\ s1 = [b0.stream EXCEPT !.service = service]
                            /\ s2 = [s1 EXCEPT !.at = 0]
                            /\ s3 = [s2 EXCEPT !.result = None]
      OBVIOUS
    <3>2. s1 \in Streams /\ s1.active = b0.stream.active /\ s1.key = b0.stream.key
      BY <1>5, <3>1 DEF Streams
    <3>3. s2 \in Streams /\ s2.active = b0.stream.active /\ s2.key = b0.stream.key
      <4>1. 0 \in Times
        BY SignalServiceAssumption DEF Times
      <4> QED
        BY <3>1, <3>2, <4>1 DEF Streams
    <3>4. s3 \in Streams /\ s3.active = b0.stream.active /\ s3.key = b0.stream.key
      BY <3>1, <3>3 DEF Streams
    <3>5. PICK a1, a2, a3 : /\ a1 = [b0 EXCEPT !.stream = s1]
                            /\ a2 = [a1 EXCEPT !.stream = s2]
                            /\ a3 = [a2 EXCEPT !.stream = s3]
      OBVIOUS
    <3>6. Grows(b0, a1) /\ SameLog(b0, a1) /\ a1.stream = s1
      BY <1>5, <3>2, <3>5, StreamChanges
    <3>7. Grows(a1, a2) /\ SameLog(a1, a2) /\ a2.stream = s2
      <4>1. BoxOK(a1) /\ s2.active = a1.stream.active /\ s2.key = a1.stream.key
        BY <3>2, <3>3, <3>6 DEF Grows
      <4> QED
        BY <3>3, <3>5, <4>1, StreamChanges
    <3>8. Grows(a2, a3) /\ SameLog(a2, a3)
      <4>1. BoxOK(a2) /\ s3.active = a2.stream.active /\ s3.key = a2.stream.key
        BY <3>3, <3>4, <3>7 DEF Grows
      <4> QED
        BY <3>4, <3>5, <4>1, StreamChanges
    <3>9. b0.entries \in Seq(Entries) /\ BoxOK(a1) /\ BoxOK(a2)
      BY <1>5, <3>6, <3>7, BoxTypes DEF Grows
    <3>10. Grows(b0, a3) /\ SameLog(b0, a3)
      BY <3>6, <3>7, <3>8, <3>9, GrowsTransitive, SameLogTransitive
    <3>11. a1 = [b0 EXCEPT !.stream.service = service]
      BY <3>1, <3>5
    <3>12. a2 = [a1 EXCEPT !.stream.at = 0]
      BY <3>1, <3>5, <3>6
    <3>13. a3 = [a2 EXCEPT !.stream.result = None]
      BY <3>1, <3>5, <3>7
    <3>14. b1 = [b0 EXCEPT !.stream.service = service, !.stream.at = 0, !.stream.result = None]
      BY <1>3, <1>6, <2>1, Zenon DEF Rebased
    <3>15. b1 = a3
      BY <3>11, <3>12, <3>13, <3>14, Zenon
    <3> QED
      BY <3>10, <3>15
  <2>2. CASE ~ Rebases(b, service)
    <3>1. b1 = b0
      BY <1>3, <1>6, <2>2 DEF Rebased
    <3> QED
      BY <1>5, <3>1, GrowsReflexive
  <2> QED
    BY <2>1, <2>2
<1>8. BoxOK(b1) /\ b1 \in Boxes /\ b1.stream \in Streams
  BY <1>7, BoxTypes DEF Grows
<1>9. Grows(b, b1) /\ SameLog(b, b1)
  BY <1>4, <1>5, <1>7, GrowsTransitive, SameLogTransitive
<1>10. PICK told : told = [b1 EXCEPT !.stream.collection = collection]
  OBVIOUS
<1>11. Grows(b1, told) /\ SameLog(b1, told)
  <2>1. PICK s : s = [b1.stream EXCEPT !.collection = collection]
    OBVIOUS
  <2>2. s \in Streams /\ s.active = b1.stream.active /\ s.key = b1.stream.key
    BY <1>8, <2>1 DEF Streams
  <2>3. told = [b1 EXCEPT !.stream = s]
    BY <1>10, <2>1
  <2> QED
    BY <1>8, <2>2, <2>3, StreamChanges
<1>12. PICK heard : heard = Heard(b1, c, collection)
  OBVIOUS
<1>13. Grows(b1, heard) /\ SameLog(b1, heard)
  <2>1. PICK s1, s2, s3 : /\ s1 = [b1.stream EXCEPT !.at = c.at]
                          /\ s2 = [s1 EXCEPT !.result = c.outcome]
                          /\ s3 = [s2 EXCEPT !.collection = collection]
    OBVIOUS
  <2>2. s1 \in Streams /\ s1.active = b1.stream.active /\ s1.key = b1.stream.key
    BY <1>5, <1>8, <2>1 DEF Streams
  <2>3. s2 \in Streams /\ s2.active = b1.stream.active /\ s2.key = b1.stream.key
    BY <1>5, <2>1, <2>2 DEF Streams
  <2>4. s3 \in Streams /\ s3.active = b1.stream.active /\ s3.key = b1.stream.key
    BY <2>1, <2>3 DEF Streams
  <2>5. PICK a1, a2, a3 : /\ a1 = [b1 EXCEPT !.stream = s1]
                          /\ a2 = [a1 EXCEPT !.stream = s2]
                          /\ a3 = [a2 EXCEPT !.stream = s3]
    OBVIOUS
  <2>6. Grows(b1, a1) /\ SameLog(b1, a1) /\ a1.stream = s1
    BY <1>8, <2>2, <2>5, StreamChanges
  <2>7. Grows(a1, a2) /\ SameLog(a1, a2) /\ a2.stream = s2
    <3>1. BoxOK(a1) /\ s2.active = a1.stream.active /\ s2.key = a1.stream.key
      BY <2>2, <2>3, <2>6 DEF Grows
    <3> QED
      BY <2>3, <2>5, <3>1, StreamChanges
  <2>8. Grows(a2, a3) /\ SameLog(a2, a3)
    <3>1. BoxOK(a2) /\ s3.active = a2.stream.active /\ s3.key = a2.stream.key
      BY <2>3, <2>4, <2>7 DEF Grows
    <3> QED
      BY <2>4, <2>5, <3>1, StreamChanges
  <2>9. b1.entries \in Seq(Entries) /\ BoxOK(a1) /\ BoxOK(a2)
    BY <1>8, <2>6, <2>7, BoxTypes DEF Grows
  <2>10. Grows(b1, a3) /\ SameLog(b1, a3)
    BY <2>6, <2>7, <2>8, <2>9, GrowsTransitive, SameLogTransitive
  <2>11. a1 = [b1 EXCEPT !.stream.at = c.at]
    BY <2>1, <2>5
  <2>12. a2 = [a1 EXCEPT !.stream.result = c.outcome]
    BY <2>1, <2>5, <2>6
  <2>13. a3 = [a2 EXCEPT !.stream.collection = collection]
    BY <2>1, <2>5, <2>7
  <2>14. heard = a3
    BY <1>12, <2>11, <2>12, <2>13, Zenon DEF Heard
  <2> QED
    BY <2>10, <2>14
<1>14. \/ new = b0
       \/ new = told
       \/ new = Decide(heard, c)
  <2>1. Observe(b, c, service, collection) =
           IF c.at > now \/ c.at < b1.stream.at THEN b0
           ELSE IF b1.stream.result # None /\ c.at = b1.stream.at THEN told
           ELSE Decide(heard, c)
    BY <1>3, <1>6, <1>10, <1>12, Zenon DEF Observe
  <2> QED
    BY <1>1, <2>1
<1>15. PICK decided : decided = Decide(heard, c)
  OBVIOUS
<1>16. Grows(heard, decided) /\ SameLog(heard, decided)
  BY <1>13, <1>15, DecideEffect DEF Grows
<1>17. Grows(b, told) /\ SameLog(b, told)
  BY <1>5, <1>8, <1>9, <1>11, GrowsTransitive, SameLogTransitive
<1>18. Grows(b, heard) /\ SameLog(b, heard) /\ BoxOK(heard)
  BY <1>5, <1>8, <1>9, <1>13, GrowsTransitive, SameLogTransitive DEF Grows
<1>19. Grows(b, decided) /\ SameLog(b, decided)
  BY <1>5, <1>16, <1>18, GrowsTransitive, SameLogTransitive
<1> QED
  BY <1>1, <1>4, <1>14, <1>15, <1>17, <1>19

-----------------------------------------------------------------------------
(***************************************************************************)
(* Lemmas about a collection.                                              *)
(***************************************************************************)

\* A set of natural numbers has a least member.
LEMMA LeastMember ==
    ASSUME NEW S \in SUBSET Nat, S # {}
    PROVE  \E m \in S : \A k \in S : m <= k
<1> DEFINE R == OpToRel(<, Nat)
<1>1. IsWellFoundedOn(R, Nat)
  BY NatLessThanWellFounded
<1>2. \A x, y \in Nat : <<x, y>> \in R <=> x < y
  BY DEF OpToRel
<1> HIDE DEF R
<1>3. PICK m \in S : \A k \in S : ~ (<<k, m>> \in R)
  BY <1>1, WFMin
<1>4. \A k \in S : ~ (k < m)
  BY <1>2, <1>3
<1>5. \A k \in S : m <= k
  BY <1>4
<1> QED
  BY <1>5

\* Health cursor and notices stay as they are.
SameHealth(b, b2) == b2.events = b.events /\ b2.reported = b.reported

\* One line of the log is consumed.
LEMMA ConsumeEffect ==
    ASSUME NEW b, BoxOK(b), NEW c \in Cycles, NEW j \in Journals
    PROVE  /\ Grows(b, Consume(b, c, j)) /\ SameHealth(b, Consume(b, c, j))
           /\ Consume(b, c, j).cursor = b.cursor + 1 /\ Consume(b, c, j).last = c
<1>1. PICK run \in {0} \cup Runs : run = IF c = Current(j) THEN CurrentRun(j) ELSE 0
  BY DEF CurrentRun, Journals
<1>2. j.run \in {0} \cup Runs
  BY DEF Journals
<1>3. PICK b1 : b1 = Observe(b, c, run, j.run)
  OBVIOUS
<1>4. Grows(b, b1) /\ SameLog(b, b1)
  BY <1>1, <1>2, <1>3, ObserveEffect
<1>5. b1 \in Boxes /\ BoxOK(b1) /\ b.cursor \in Nat /\ Len(b.entries) \in Nat
  BY <1>4, BoxTypes DEF Grows
<1>6. PICK b2, b3 : b2 = [b1 EXCEPT !.last = c] /\ b3 = [b2 EXCEPT !.cursor = b2.cursor + 1]
  OBVIOUS
<1>7. /\ b2 \in Boxes /\ b2.last = c /\ b2.cursor = b.cursor /\ b2.events = b.events
      /\ b2.reported = b.reported /\ b2.entries = b1.entries /\ b2.stream = b1.stream
  BY <1>4, <1>5, <1>6 DEF Boxes, SameLog
<1>8. b2.cursor + 1 \in Nat
  BY <1>5, <1>7
<1>9. /\ b3 \in Boxes /\ b3.last = c /\ b3.cursor = b.cursor + 1 /\ b3.events = b.events
      /\ b3.reported = b.reported /\ b3.entries = b1.entries /\ b3.stream = b1.stream
  BY <1>6, <1>7, <1>8 DEF Boxes
<1>10. Grows(b, b3)
  BY <1>4, <1>5, <1>9 DEF Grows, BoxOK
<1>11. Consume(b, c, j) = b3
  <2>1. Consume(b, c, j) = [b1 EXCEPT !.last = c, !.cursor = @ + 1]
    BY <1>1, <1>3, Zenon DEF Consume
  <2> QED
    BY <1>6, <2>1
<1> QED
  BY <1>9, <1>10, <1>11 DEF SameHealth

\* Consumed is a loop: what it says of position n follows from n - 1.
LEMMA ConsumedIsLoop ==
    ASSUME NEW b, NEW j, NEW upTo \in Nat, b.cursor \in 0..upTo
    PROVE  \E f : /\ Consumed(b, upTo, j) = f[upTo]
                  /\ f[b.cursor] = b
                  /\ \A n \in (b.cursor + 1)..upTo : f[n] = Consume(f[n - 1], log[n], j)
<1> DEFINE lo == b.cursor
           Loop(f, m) == f = [n \in lo..m |-> IF n = lo THEN b ELSE Consume(f[n - 1], log[n], j)]
<1>1. lo \in Nat /\ lo <= upTo
  OBVIOUS
<1>2. \E f : Loop(f, lo)
  <2>1. PICK f : f = [n \in lo..lo |-> b]
    OBVIOUS
  <2>2. Loop(f, lo)
    BY <1>1, <2>1
  <2> QED
    BY <2>2
<1>3. ASSUME NEW m \in lo..upTo, NEW f, Loop(f, m)
      PROVE  \E g : Loop(g, m + 1)
  <2>1. PICK g : g = [n \in lo..(m + 1) |-> IF n = m + 1 THEN Consume(f[m], log[m + 1], j) ELSE f[n]]
    OBVIOUS
  <2>2. m \in Nat /\ lo <= m
    BY <1>1
  <2>3. g[m + 1] = Consume(g[m], log[m + 1], j) /\ m + 1 # lo
    BY <1>1, <2>1, <2>2
  <2>4. ASSUME NEW n \in lo..m
        PROVE  g[n] = IF n = lo THEN b ELSE Consume(g[n - 1], log[n], j)
    <3>1. g[n] = f[n] /\ f[n] = IF n = lo THEN b ELSE Consume(f[n - 1], log[n], j)
      BY <1>1, <1>3, <2>1, <2>2
    <3>2. n # lo => g[n - 1] = f[n - 1]
      BY <1>1, <2>1, <2>2
    <3> QED
      BY <3>1, <3>2
  <2>5. \A n \in lo..(m + 1) : n \in lo..m \/ n = m + 1
    BY <1>1, <2>2
  <2>6. \A n \in lo..(m + 1) : g[n] = IF n = lo THEN b ELSE Consume(g[n - 1], log[n], j)
    <3>1. (m + 1) - 1 = m
      BY <2>2
    <3> QED
      BY <2>3, <2>4, <2>5, <3>1
  <2>7. Loop(g, m + 1)
    BY <2>1, <2>6
  <2> QED
    BY <2>7
<1>4. PICK bad : bad = {m \in lo..upTo : ~ \E f : Loop(f, m)}
  OBVIOUS
<1>5. bad = {}
  <2>1. SUFFICES ASSUME bad # {} PROVE FALSE
    OBVIOUS
  <2>2. bad \in SUBSET Nat
    BY <1>1, <1>4
  <2>3. PICK m \in bad : \A k \in bad : m <= k
    BY <2>1, <2>2, LeastMember
  <2>4. m \in lo..upTo /\ ~ \E f : Loop(f, m)
    BY <1>4
  <2>5. m # lo
    BY <1>2, <2>4
  <2>6. m - 1 \in lo..upTo /\ ~ (m <= m - 1) /\ (m - 1) + 1 = m
    BY <1>1, <2>4, <2>5
  <2>7. m - 1 \notin bad
    BY <2>3, <2>6
  <2> HIDE DEF Loop
  <2>8. PICK f : Loop(f, m - 1)
    BY <1>4, <2>6, <2>7
  <2>9. \E g : Loop(g, (m - 1) + 1)
    BY <1>3, <2>6, <2>8
  <2> QED
    BY <2>4, <2>6, <2>9
<1>6. PICK f : f = CHOOSE h : Loop(h, upTo)
  OBVIOUS
<1>7. Loop(f, upTo)
  <2> HIDE DEF Loop
  <2>1. \E h : Loop(h, upTo)
    BY <1>1, <1>4, <1>5
  <2> QED
    BY <1>6, <2>1
<1>8. Consumed(b, upTo, j) = f[upTo]
  BY <1>6, Zenon DEF Consumed
<1>9. f[lo] = b /\ \A n \in (lo + 1)..upTo : f[n] = Consume(f[n - 1], log[n], j)
  BY <1>1, <1>7
<1> QED
  BY <1>8, <1>9

\* All lines up to a position are consumed, and no other.
LEMMA ConsumedEffect ==
    ASSUME NEW b, BoxOK(b), NEW j \in Journals, log \in Seq(Cycles), NEW upTo \in b.cursor..Len(log)
    PROVE  /\ Grows(b, Consumed(b, upTo, j)) /\ SameHealth(b, Consumed(b, upTo, j))
           /\ Consumed(b, upTo, j).cursor = upTo
           /\ \/ upTo = b.cursor /\ Consumed(b, upTo, j).last = b.last
              \/ upTo > b.cursor /\ Consumed(b, upTo, j).last = log[upTo]
<1>1. PICK lo : lo = b.cursor
  OBVIOUS
<1>2. /\ lo \in Nat /\ upTo \in Nat /\ lo <= upTo /\ b.cursor \in 0..upTo /\ b.entries \in Seq(Entries)
      /\ Len(log) \in Nat /\ upTo <= Len(log)
  BY <1>1, BoxTypes
<1>3. PICK f : /\ Consumed(b, upTo, j) = f[upTo]
               /\ f[lo] = b
               /\ \A n \in (lo + 1)..upTo : f[n] = Consume(f[n - 1], log[n], j)
  BY <1>1, <1>2, ConsumedIsLoop
<1> DEFINE Good(n) == /\ Grows(b, f[n]) /\ SameHealth(b, f[n]) /\ f[n].cursor = n
                      /\ \/ n = lo /\ f[n].last = b.last
                         \/ n > lo /\ f[n].last = log[n]
<1>4. Good(lo)
  BY <1>1, <1>3, GrowsReflexive DEF SameHealth
<1>5. ASSUME NEW n \in (lo + 1)..upTo, Good(n - 1)
      PROVE  Good(n)
  <2>1. PICK x, c : x = f[n - 1] /\ c = log[n]
    OBVIOUS
  <2>2. c \in Cycles
    <3>1. n \in 1..Len(log)
      BY <1>2
    <3> QED
      BY <2>1, <3>1
  <2>3. BoxOK(x) /\ x.cursor = n - 1 /\ Grows(b, x) /\ SameHealth(b, x)
    BY <1>5, <2>1 DEF Grows
  <2>4. f[n] = Consume(x, c, j)
    BY <1>3, <1>5, <2>1
  <2>5. Grows(x, f[n]) /\ SameHealth(x, f[n]) /\ f[n].cursor = (n - 1) + 1 /\ f[n].last = log[n]
    BY <2>1, <2>2, <2>3, <2>4, ConsumeEffect
  <2>6. PICK y : y = f[n]
    OBVIOUS
  <2>7. Grows(b, y)
    BY <1>2, <2>3, <2>5, <2>6, GrowsTransitive
  <2>8. SameHealth(b, y)
    BY <2>3, <2>5, <2>6 DEF SameHealth
  <2>9. (n - 1) + 1 = n /\ n > lo
    BY <1>2
  <2> QED
    BY <2>5, <2>6, <2>7, <2>8, <2>9
<1>6. PICK bad : bad = {n \in lo..upTo : ~ Good(n)}
  OBVIOUS
<1>7. bad = {}
  <2>1. SUFFICES ASSUME bad # {} PROVE FALSE
    OBVIOUS
  <2> HIDE DEF Good
  <2>2. bad \in SUBSET Nat
    BY <1>2, <1>6
  <2>3. PICK m \in bad : \A k \in bad : m <= k
    BY <2>1, <2>2, LeastMember
  <2>4. m \in lo..upTo /\ ~ Good(m)
    BY <1>6
  <2>5. m # lo
    BY <1>4, <2>4
  <2>6. m - 1 \in lo..upTo /\ ~ (m <= m - 1) /\ m \in (lo + 1)..upTo
    BY <1>2, <2>4, <2>5
  <2>7. m - 1 \notin bad
    BY <2>3, <2>6
  <2> QED
    BY <1>5, <1>6, <2>4, <2>6, <2>7
<1>8. Good(upTo)
  <2> HIDE DEF Good
  <2>1. upTo \in lo..upTo
    BY <1>2
  <2> QED
    BY <1>6, <1>7, <2>1
<1> QED
  BY <1>1, <1>3, <1>8

\* The cycle of the journal is read once more when the journal vouches for it.
LEMMA VouchedEffect ==
    ASSUME NEW b, BoxOK(b), NEW j \in Journals
    PROVE  Grows(b, Vouched(b, j)) /\ SameLog(b, Vouched(b, j))
<1>1. CASE CaughtUpTo(b, j) /\ CurrentRun(j) # 0 /\ b.stream.service # CurrentRun(j)
  <2>1. PICK c, run : c = Current(j) /\ run = CurrentRun(j)
    OBVIOUS
  <2>2. c \in Cycles /\ run \in {0} \cup Runs /\ j.run \in {0} \cup Runs
    BY <1>1, <2>1 DEF CaughtUpTo, Current, CurrentRun, Journals, Reports
  <2>3. PICK collection : collection = j.run
    OBVIOUS
  <2>4. Vouched(b, j) = Observe(b, c, run, collection)
    BY <1>1, <2>1, <2>3 DEF Vouched
  <2> QED
    BY <2>2, <2>3, <2>4, ObserveEffect
<1>2. CASE ~ (CaughtUpTo(b, j) /\ CurrentRun(j) # 0 /\ b.stream.service # CurrentRun(j))
  BY <1>2, GrowsReflexive DEF Vouched
<1> QED
  BY <1>1, <1>2

\* The reportable events from the health cursor on.
NewEvents(b, j) ==
    {n \in (Oldest(j) + 1)..j.seq : n > b.events /\ j.events[n - Oldest(j)] \in Reportable}

\* The health cursor goes to the end of the journal, past no event in silence.
LEMMA HealthEventsEffect ==
    ASSUME NEW b, BoxOK(b), NEW j, WellFormed(j)
    PROVE  /\ Grows(b, HealthEvents(b, j))
           /\ HealthEvents(b, j).cursor = b.cursor /\ HealthEvents(b, j).last = b.last
           /\ HealthEvents(b, j).events = j.seq
           /\ HealthEvents(b, j).reported = b.reported \cup NewEvents(b, j)
<1>1. /\ b \in Boxes /\ Len(b.entries) \in Nat /\ j.seq \in Nat /\ Oldest(j) \in 0..j.seq
      /\ b.reported \in SUBSET Nat
  BY BoxTypes, OldestIsNat
<1>2. PICK new : new = NewEvents(b, j)
  OBVIOUS
<1>3. new \in SUBSET Nat /\ b.reported \cup new \in SUBSET Nat
  BY <1>1, <1>2 DEF NewEvents
<1>4. PICK b1, b2 : b1 = [b EXCEPT !.reported = b.reported \cup new] /\ b2 = [b1 EXCEPT !.events = j.seq]
  OBVIOUS
<1>5. /\ b1 \in Boxes /\ b1.cursor = b.cursor /\ b1.last = b.last /\ b1.entries = b.entries
      /\ b1.stream = b.stream /\ b1.reported = b.reported \cup new
  BY <1>1, <1>3, <1>4 DEF Boxes
<1>6. /\ b2 \in Boxes /\ b2.cursor = b.cursor /\ b2.last = b.last /\ b2.entries = b.entries
      /\ b2.stream = b.stream /\ b2.reported = b.reported \cup new /\ b2.events = j.seq
  BY <1>1, <1>4, <1>5 DEF Boxes
<1>7. Grows(b, b2)
  BY <1>1, <1>6 DEF Grows, BoxOK
<1>8. HealthEvents(b, j) = b2
  <2>1. {n \in {m \in (Oldest(j) + 1)..j.seq : m > b.events} : j.events[n - Oldest(j)] \in Reportable} = new
    BY <1>2 DEF NewEvents
  <2>2. HealthEvents(b, j) =
           [b EXCEPT !.reported = b.reported \cup {n \in {m \in (Oldest(j) + 1)..j.seq : m > b.events} :
                                                     j.events[n - Oldest(j)] \in Reportable},
                     !.events = j.seq]
    BY Zenon DEF HealthEvents
  <2> QED
    BY <1>4, <2>1, <2>2, Zenon
<1> QED
  BY <1>2, <1>6, <1>7, <1>8

\* The review of the active entry may be over.
LEMMA ReviewEndedEffect ==
    ASSUME NEW b, BoxOK(b)
    PROVE  Grows(b, ReviewEnded(b)) /\ SameLog(b, ReviewEnded(b))
<1>1. CASE b.stream.active # 0 /\ now >= b.entries[b.stream.active].at + Review
  <2>1. PICK e : e = b.stream.active
    OBVIOUS
  <2>2. /\ e \in 1..Len(b.entries) /\ b.entries \in Seq(Entries) /\ b.entries[e] \in Entries
        /\ Len(b.entries) \in Nat
    BY <1>1, <2>1, BoxTypes
  <2>3. PICK x : x = [b.entries[e] EXCEPT !.suppressed = TRUE]
    OBVIOUS
  <2>4. /\ x \in Entries /\ x.signal = b.entries[e].signal /\ x.state = b.entries[e].state
        /\ x.accepted = b.entries[e].accepted /\ x.withdrawal = b.entries[e].withdrawal
    BY <2>2, <2>3 DEF Entries
  <2>5. PICK b2 : b2 = [b EXCEPT !.entries = [b.entries EXCEPT ![e] = x]]
    OBVIOUS
  <2>6. x.accepted => /\ x.state \in {"confirmed", "unknown"}
                      /\ e = b.stream.active \/ x.withdrawal = "mailed"
    BY <2>2, <2>4 DEF BoxOK
  <2>7. /\ BoxOK(b2) /\ SameButEntries(b, b2) /\ Len(b2.entries) = Len(b.entries)
        /\ b2.entries[e] = x /\ \A i \in 1..Len(b.entries) \ {e} : b2.entries[i] = b.entries[i]
    BY <2>2, <2>4, <2>5, <2>6, EntryChanges
  <2>8. Grows(b, b2) /\ SameLog(b, b2)
    BY <2>2, <2>4, <2>7 DEF Grows, SameLog, SameButEntries
  <2>9. ReviewEnded(b) = [b EXCEPT !.entries[e].suppressed = TRUE]
    BY <1>1, <2>1 DEF ReviewEnded
  <2>10. ReviewEnded(b) = b2
    BY <2>3, <2>5, <2>9
  <2> QED
    BY <2>8, <2>10
<1>2. CASE ~ (b.stream.active # 0 /\ now >= b.entries[b.stream.active].at + Review)
  BY <1>2, GrowsReflexive DEF ReviewEnded
<1> QED
  BY <1>1, <1>2

\* The active reminder may lose its source.
LEMMA SourceCheckedEffect ==
    ASSUME NEW b, BoxOK(b), NEW j, NEW alive, NEW caughtUp
    PROVE  Grows(b, SourceChecked(b, j, alive, caughtUp)) /\ SameLog(b, SourceChecked(b, j, alive, caughtUp))
BY InvalidateEffect, GrowsReflexive DEF SourceChecked

\* A collection leaves the database in order, at the end of the lines it was
\* given and of the journal, with every reportable event in between noticed.
LEMMA CollectedEffect ==
    ASSUME NEW b, BoxOK(b), NEW j, WellFormed(j), log \in Seq(Cycles),
           NEW upTo \in b.cursor..Len(log), NEW alive \in BOOLEAN
    PROVE  \E b2 : /\ b2 = Collected(b, upTo, j, alive)
                   /\ Grows(b, b2) /\ b2.cursor = upTo
                   /\ \/ upTo = b.cursor /\ b2.last = b.last
                      \/ upTo > b.cursor /\ b2.last = log[upTo]
                   /\ b2.events = j.seq /\ b2.reported = b.reported \cup NewEvents(b, j)
                   /\ b2.ready => Healthy(j, alive)
<1>1. j \in Journals /\ b.entries \in Seq(Entries)
  BY BoxTypes DEF WellFormed
<1>2. PICK b1 : b1 = Consumed(b, upTo, j)
  OBVIOUS
<1>3. /\ Grows(b, b1) /\ SameHealth(b, b1) /\ b1.cursor = upTo /\ BoxOK(b1)
      /\ \/ upTo = b.cursor /\ b1.last = b.last
         \/ upTo > b.cursor /\ b1.last = log[upTo]
  BY <1>1, <1>2, ConsumedEffect DEF Grows
<1>4. PICK b2 : b2 = Vouched(b1, j)
  OBVIOUS
<1>5. Grows(b1, b2) /\ SameLog(b1, b2) /\ BoxOK(b2)
  BY <1>1, <1>3, <1>4, VouchedEffect DEF Grows
<1>6. PICK b3 : b3 = HealthEvents(b2, j)
  OBVIOUS
<1>7. /\ Grows(b2, b3) /\ b3.cursor = b2.cursor /\ b3.last = b2.last /\ b3.events = j.seq
      /\ b3.reported = b2.reported \cup NewEvents(b2, j) /\ BoxOK(b3)
  BY <1>5, <1>6, HealthEventsEffect DEF Grows
<1>8. PICK b4 : b4 = ReviewEnded(b3)
  OBVIOUS
<1>9. Grows(b3, b4) /\ SameLog(b3, b4) /\ BoxOK(b4)
  BY <1>7, <1>8, ReviewEndedEffect DEF Grows
<1>10. PICK caughtUp : caughtUp = CaughtUpTo(b1, j)
  OBVIOUS
<1>11. PICK b5 : b5 = SourceChecked(b4, j, alive, caughtUp)
  OBVIOUS
<1>12. Grows(b4, b5) /\ SameLog(b4, b5) /\ BoxOK(b5)
  BY <1>9, <1>11, SourceCheckedEffect DEF Grows
<1>13. PICK ready \in BOOLEAN : ready = (Healthy(j, alive) /\ CaughtUpTo(b1, j))
  BY Zenon DEF Healthy, CaughtUpTo
<1>14. PICK b6, b7 : b6 = [b5 EXCEPT !.ready = ready] /\ b7 = [b6 EXCEPT !.unreadable = None]
  OBVIOUS
<1>15. b5 \in Boxes
  BY <1>12 DEF BoxOK
<1>16. b6 \in Boxes /\ SameLog(b5, b6) /\ b6.entries = b5.entries /\ b6.stream = b5.stream
       /\ b6.ready = ready
  BY <1>14, <1>15 DEF Boxes, SameLog
<1>17. b7 \in Boxes /\ SameLog(b6, b7) /\ b7.entries = b5.entries /\ b7.stream = b5.stream
       /\ b7.ready = ready
  BY <1>14, <1>16 DEF Boxes, SameLog
<1>18. Grows(b5, b7)
  <2>1. Len(b5.entries) \in Nat
    BY <1>12, BoxTypes
  <2> QED
    BY <1>12, <1>17, <2>1 DEF Grows, BoxOK
<1>19. Collected(b, upTo, j, alive) = b7
  <2>1. b5 = SourceChecked(ReviewEnded(HealthEvents(Vouched(b1, j), j)), j, alive, CaughtUpTo(b1, j))
    BY <1>4, <1>6, <1>8, <1>10, <1>11, Zenon
  <2>2. Collected(b, upTo, j, alive) =
           [SourceChecked(ReviewEnded(HealthEvents(Vouched(b1, j), j)), j, alive, CaughtUpTo(b1, j)) EXCEPT
               !.ready = Healthy(j, alive) /\ CaughtUpTo(b1, j), !.unreadable = None]
    BY <1>2, Zenon DEF Collected
  <2>3. Collected(b, upTo, j, alive) = [b5 EXCEPT !.ready = ready, !.unreadable = None]
    BY <1>13, <2>1, <2>2, Zenon
  <2> QED
    BY <1>14, <2>3, Zenon
<1>20. Grows(b, b7)
  <2>1. Grows(b, b2)
    BY <1>1, <1>3, <1>5, GrowsTransitive
  <2>2. Grows(b, b3)
    BY <1>1, <1>5, <1>7, <2>1, GrowsTransitive
  <2>3. Grows(b, b4)
    BY <1>1, <1>7, <1>9, <2>2, GrowsTransitive
  <2>4. Grows(b, b5)
    BY <1>1, <1>9, <1>12, <2>3, GrowsTransitive
  <2> QED
    BY <1>1, <1>12, <1>18, <2>4, GrowsTransitive
<1>21. /\ b7.cursor = upTo /\ b7.last = b1.last /\ b7.events = j.seq
       /\ b7.reported = b2.reported \cup NewEvents(b2, j)
  BY <1>3, <1>5, <1>7, <1>9, <1>12, <1>16, <1>17 DEF SameLog
<1>22. b2.events = b.events /\ b2.reported = b.reported
  BY <1>3, <1>5 DEF SameLog, SameHealth
<1>23. NewEvents(b2, j) = NewEvents(b, j)
  BY <1>22 DEF NewEvents
<1>24. b7.ready => Healthy(j, alive)
  BY <1>13, <1>17, Zenon
<1>25. \/ upTo = b.cursor /\ b7.last = b.last
       \/ upTo > b.cursor /\ b7.last = log[upTo]
  BY <1>3, <1>21
<1> QED
  BY <1>19, <1>20, <1>21, <1>22, <1>23, <1>24, <1>25

-----------------------------------------------------------------------------
(***************************************************************************)
(* What a step of the service does to what the alerts depend on.           *)
(***************************************************************************)

\* The journal stays, or a write that waited for the fence extends it.
JournalGrows ==
    \/ journal' = journal /\ due' = due
    \/ /\ fence = None /\ journal.seq <= journal'.seq
       /\ \A n \in due' : n \in due \/ (n \in Nat /\ n > journal.seq)

\* Log and marker stay, or a worker is at the log.
LogGrows ==
    \/ log' = log /\ marker' = marker
    \/ /\ fence \in Runs \cup {None}
       /\ log' = log \/ \E c \in Cycles : log' = Append(log, c)

\* The fence is taken when it is free, and given back by who has it.
FencePasses == fence' = fence \/ (fence \in Runs \cup {None} /\ fence' \in Runs \cup {None})

ServiceEffect == JournalGrows /\ LogGrows /\ FencePasses

\* A write waited for the fence, and what it adds is new.
LEMMA WriteGrows ==
    ASSUME ServiceInv, NEW j, WellFormed(j), Extends(journal, j), Write(j)
    PROVE  JournalGrows
<1>1. journal' = j /\ due' = due \cup NewlyDue(j) /\ fence = None
  BY DEF Write
<1>2. Oldest(j) \in Nat /\ j.seq \in Nat /\ journal.seq <= j.seq
  BY OldestIsNat DEF Extends
<1>3. \A n \in NewlyDue(j) : n \in Nat /\ n > journal.seq
  BY <1>2 DEF NewlyDue
<1> QED
  BY <1>1, <1>2, <1>3 DEF JournalGrows

\* So did one that may have failed.
LEMMA TryWriteGrows ==
    ASSUME ServiceInv, NEW j, WellFormed(j), Extends(journal, j), NEW written, TryWrite(j, written)
    PROVE  JournalGrows
<1>1. Write(j) \/ (journal' = journal /\ due' = due)
  BY DEF TryWrite
<1> QED
  BY <1>1, WriteGrows DEF JournalGrows

\* A step of the supervisor, of its operator, or its death.
LEMMA SupervisorEffect ==
    ASSUME ServiceInv,
           \/ Begin \/ Supervise \/ StartRefresh \/ StartScan \/ FinishCycle
           \/ Interrupt \/ Stop \/ Kill \/ Recover
    PROVE  ServiceEffect
<1> USE DEF ServiceEffect, LogGrows, FencePasses
<1>1. CASE Begin
  <2>1. PICK j : j = StartOver
    OBVIOUS
  <2>2. WellFormed(j) /\ Extends(journal, j)
    BY <1>1, <2>1, StartOverFits DEF Begin
  <2>3. Write(j)
    BY <1>1, <2>1 DEF Begin, Write, NewlyDue
  <2> QED
    BY <1>1, <2>2, <2>3, WriteGrows DEF Begin
<1>2. CASE Supervise
  BY <1>2 DEF Supervise, JournalGrows
<1>3. CASE StartRefresh
  <2>1. PICK j, written : /\ j = InPhase("refresh")
                          /\ written = [sup EXCEPT !.pc = "refreshing", !.started = now]
    OBVIOUS
  <2>2. sup.pc = "idle" /\ TryWrite(j, written)
    BY <1>3, <2>1 DEF StartRefresh, TryWrite, Write, NewlyDue
  <2>3. sup.state = journal
    BY <2>2 DEF ServiceInv, SupervisorFollows
  <2>4. WellFormed(j) /\ Extends(journal, j)
    BY <2>1, <2>3, InPhaseFits
  <2> QED
    BY <1>3, <2>2, <2>4, TryWriteGrows DEF StartRefresh
<1>4. CASE StartScan
  <2>1. PICK j, written : /\ j = InPhase("scan")
                          /\ written = [sup EXCEPT !.pc = "scanning",
                                                   !.refreshed = worker[sup.run].result = "ok"]
    OBVIOUS
  <2>2. sup.pc = "refreshing" /\ TryWrite(j, written)
    BY <1>4, <2>1 DEF StartScan, TryWrite, Write, NewlyDue
  <2>3. sup.state = journal
    BY <2>2 DEF ServiceInv, SupervisorFollows
  <2>4. WellFormed(j) /\ Extends(journal, j)
    BY <2>1, <2>3, InPhaseFits
  <2> QED
    BY <1>4, <2>2, <2>4, TryWriteGrows DEF StartScan
<1>5. CASE FinishCycle
  <2>1. PICK j, written : j = CycleDone /\ written = [Off EXCEPT !.pc = "idle", !.run = sup.run]
    OBVIOUS
  <2>2. /\ sup.pc = "scanning" /\ worker[sup.run].pc = "done" /\ TryWrite(j, written)
    BY <1>5, <2>1 DEF FinishCycle, TryWrite, Write, NewlyDue
  <2>3. WellFormed(j) /\ Extends(journal, j)
    BY <2>1, <2>2, CycleDoneFits
  <2> QED
    BY <1>5, <2>2, <2>3, TryWriteGrows DEF FinishCycle
<1>6. CASE Interrupt
  <2>1. sup.pc # "off"
    BY <1>6 DEF Interrupt, Alive
  <2>2. sup.run \in Runs
    BY <2>1 DEF ServiceInv, SupervisorFollows
  <2> QED
    BY <1>6, <2>2 DEF Interrupt, JournalGrows
<1>7. CASE Stop
  <2>1. PICK j : j = Stopped
    OBVIOUS
  <2>2. WellFormed(j) /\ Extends(journal, j)
    BY <1>7, <2>1, StoppedFits DEF Stop
  <2>3. Write(j) \/ (journal' = journal /\ due' = due)
    BY <1>7, <2>1 DEF Stop, Write, NewlyDue
  <2>4. JournalGrows
    BY <2>2, <2>3, WriteGrows DEF JournalGrows
  <2> QED
    BY <1>7, <2>4 DEF Stop
<1>8. CASE Kill
  BY <1>8 DEF Kill, JournalGrows
<1>9. CASE Recover
  <2>1. PICK w : WellFormed(w) /\ Valid(w) /\ Extends(journal, w) /\ Write(w)
    BY <1>9, RecoveredFits
  <2>2. JournalGrows
    BY <2>1, WriteGrows
  <2> QED
    BY <1>9, <2>2 DEF Recover
<1> QED
  BY <1>1, <1>2, <1>3, <1>4, <1>5, <1>6, <1>7, <1>8, <1>9

\* A worker touches the log and the fence only while it appends.
LEMMA WorkerEffect ==
    ASSUME ServiceInv,
           NEW r \in Runs, Refresh(r) \/ Scan(r) \/ StartAppend(r) \/ EndAppend(r) \/ TimeOut(r)
    PROVE  ServiceEffect
<1>1. journal' = journal /\ due' = due
  BY Zenon DEF Refresh, Scan, StartAppend, EndAppend, TimeOut
<1>2. CASE Refresh(r)
  BY <1>1, <1>2 DEF Refresh, ServiceEffect, JournalGrows, LogGrows, FencePasses
<1>3. CASE Scan(r)
  <2>1. log' = log /\ marker' = marker /\ fence' = fence
    BY <1>3 DEF Scan
  <2> QED
    BY <1>1, <2>1 DEF ServiceEffect, JournalGrows, LogGrows, FencePasses
<1>4. CASE StartAppend(r)
  <2>1. fence = None /\ log' = log /\ (fence' = fence \/ fence' = r)
    BY <1>4, Zenon DEF StartAppend
  <2> QED
    BY <1>1, <2>1 DEF ServiceEffect, JournalGrows, LogGrows, FencePasses
<1>5. CASE EndAppend(r)
  <2>1. worker[r].pc = "appending" /\ fence' = None
        /\ (log' = log \/ log' = Append(log, worker[r].cycle))
    BY <1>5, Zenon DEF EndAppend
  <2>2. fence = r /\ worker[r].cycle \in Cycles
    BY <2>1 DEF ServiceInv, WorkerFollows
  <2> QED
    BY <1>1, <2>1, <2>2 DEF ServiceEffect, JournalGrows, LogGrows, FencePasses
<1>6. CASE TimeOut(r)
  <2>1. log' = log /\ marker' = marker /\ fence' = IF fence = r THEN None ELSE fence
    BY <1>6, Zenon DEF TimeOut
  <2> QED
    BY <1>1, <2>1 DEF ServiceEffect, JournalGrows, LogGrows, FencePasses
<1> QED
  BY <1>2, <1>3, <1>4, <1>5, <1>6

\* Every step of the service.
LEMMA ServiceNextEffect ==
    ASSUME ServiceInv, ServiceNext
    PROVE  ServiceEffect
<1>1. CASE \E r \in Runs : Refresh(r) \/ Scan(r) \/ StartAppend(r) \/ EndAppend(r) \/ TimeOut(r)
  BY <1>1, WorkerEffect
<1>2. CASE Tick \/ RollBack
  BY <1>2 DEF Tick, RollBack, ServiceEffect, JournalGrows, LogGrows, FencePasses
<1> QED
  BY <1>1, <1>2, SupervisorEffect DEF ServiceNext

-----------------------------------------------------------------------------
(***************************************************************************)
(* The steps of the service, as the alerts see them.                       *)
(***************************************************************************)

\* Nothing becomes accepted, and the source does not become ready.
NothingAccepted == \A i \in DOMAIN box.entries : box'.entries[i].accepted => box.entries[i].accepted
NotMadeReady == box'.ready => box.ready

\* Log and journal only grow, so the cursors stay within them.
LEMMA ServiceStepKeepsCursors ==
    ASSUME AlertsInv, ServiceInv', ServiceEffect, box' = box
    PROVE  CursorFollows' /\ HealthFollows' /\ Len(log) <= Len(log')
<1>1. /\ log \in Seq(Cycles) /\ Len(log) \in Nat /\ box.cursor \in 0..Len(log) /\ box.cursor \in Nat
      /\ box.events \in Nat /\ journal.seq \in Nat /\ journal'.seq \in Nat
  BY OldestIsNat, BoxTypes DEF AlertsInv, CursorFollows, ServiceInv, ServiceTypes
<1>2. /\ log' \in Seq(Cycles) /\ Len(log) <= Len(log')
      /\ \A i \in 1..Len(log) : log'[i] = log[i]
  BY <1>1 DEF ServiceEffect, LogGrows
<1>3. CursorFollows'
  BY <1>1, <1>2 DEF AlertsInv, CursorFollows
<1>4. HealthFollows'
  <2>1. box.events <= journal.seq /\ \A n \in due : n <= box.events => n \in box.reported
    BY DEF AlertsInv, HealthFollows
  <2>2. CASE journal' = journal /\ due' = due
    BY <2>1, <2>2 DEF HealthFollows
  <2>3. CASE /\ journal.seq <= journal'.seq
             /\ \A n \in due' : n \in due \/ (n \in Nat /\ n > journal.seq)
    BY <1>1, <2>1, <2>3 DEF HealthFollows
  <2> QED
    BY <2>2, <2>3 DEF ServiceEffect, JournalGrows
<1> QED
  BY <1>2, <1>3, <1>4

\* A snapshot of a journal that changed is tried again.
LEMMA ServiceStepKeepsCollector ==
    ASSUME AlertsInv, ServiceInv', Len(log) <= Len(log'), log' \in Seq(Cycles), box' = box,
           col' = IF journal' = journal THEN col ELSE SnapshotBroken(col, journal')
    PROVE  CollectorFollows' /\ (col.pc \notin {"probe", "confirm"} => col' = col)
<1>1. /\ col \in [pc : {"idle", "probe", "confirm", "unreadable", "lost"}, batch : Nat,
                first : Journals, holder : {0} \cup Runs]
      /\ col.pc \in {"probe", "confirm"} => col.first = journal /\ col.batch \in box.cursor..Len(log)
      /\ col.pc = "confirm" /\ col.holder # 0 => col.holder = journal.run
  BY DEF AlertsInv, CollectorFollows
<1>2. /\ journal' \in Journals /\ Len(log) \in Nat /\ Len(log') \in Nat /\ box.cursor \in Nat
  BY BoxTypes DEF ServiceInv, ServiceTypes, WellFormed, AlertsInv
<1>3. CASE col' = col /\ (journal' = journal \/ col.pc \notin {"probe", "confirm"})
  BY <1>1, <1>2, <1>3 DEF CollectorFollows
<1>4. CASE col.pc \in {"probe", "confirm"} /\ journal' # journal
  <2>1. PICK c1 : c1 = [col EXCEPT !.pc = "probe"]
    OBVIOUS
  <2>2. PICK c2 : c2 = [c1 EXCEPT !.first = journal']
    OBVIOUS
  <2>3. PICK c3 : c3 = [c2 EXCEPT !.holder = 0]
    OBVIOUS
  <2>4. /\ c1 \in [pc : {"idle", "probe", "confirm", "unreadable", "lost"}, batch : Nat,
                first : Journals, holder : {0} \cup Runs]
        /\ c1.pc = "probe" /\ c1.batch = col.batch
    BY <1>1, <2>1
  <2>5. /\ c2 \in [pc : {"idle", "probe", "confirm", "unreadable", "lost"}, batch : Nat,
                first : Journals, holder : {0} \cup Runs]
        /\ c2.pc = "probe" /\ c2.batch = col.batch /\ c2.first = journal'
    BY <1>2, <2>2, <2>4
  <2>6. /\ c3 \in [pc : {"idle", "probe", "confirm", "unreadable", "lost"}, batch : Nat,
                first : Journals, holder : {0} \cup Runs]
        /\ c3.pc = "probe" /\ c3.batch = col.batch /\ c3.first = journal'
    BY <2>3, <2>5
  <2>7. col' = [col EXCEPT !.pc = "probe", !.first = journal', !.holder = 0]
    BY <1>4 DEF SnapshotBroken
  <2>8. col' = c3
    BY <2>1, <2>2, <2>3, <2>7
  <2> QED
    BY <1>1, <1>2, <1>4, <2>6, <2>8 DEF CollectorFollows
<1>5. (journal' = journal \/ col.pc \notin {"probe", "confirm"}) => col' = col
  BY DEF SnapshotBroken
<1> QED
  BY <1>3, <1>4, <1>5

\* While the sender holds the fence, nothing it relies on changes.
LEMMA ServiceStepKeepsSender ==
    ASSUME AlertsInv, ServiceEffect, box' = box, snd' = snd,
           col.pc \notin {"probe", "confirm"} => col' = col
    PROVE  SenderFollows'
<1>1. Sender \notin Runs \cup {None}
  BY EmailAlertsAssumption
<1>2. SenderFollows
  BY DEF AlertsInv
<1>3. fence' \in Runs \cup {Sender, None} /\ (fence' = Sender) = (snd'.pc = "sending")
  BY <1>1, <1>2 DEF SenderFollows, ServiceEffect, FencePasses
<1>4. snd' \in [pc : {"idle", "claimed", "sending"}, entry : Nat]
      /\ (snd'.pc # "idle" => snd'.entry \in 1..Len(box'.entries) /\ ~ box'.entries[snd'.entry].accepted)
  BY <1>2 DEF SenderFollows
<1>5. CASE fence = Sender
  <2>1. log' = log /\ marker' = marker /\ journal' = journal
    BY <1>1, <1>5 DEF ServiceEffect, LogGrows, JournalGrows
  <2>2. col' = col
    BY <1>2, <1>5 DEF SenderFollows
  <2> QED
    BY <1>2, <1>3, <1>4, <1>5, <2>1, <2>2 DEF SenderFollows
<1>6. CASE fence # Sender
  BY <1>2, <1>3, <1>4, <1>6 DEF SenderFollows
<1> QED
  BY <1>5, <1>6

\* Any step of the service.
LEMMA ServiceStepKeepsAlerts ==
    ASSUME AlertsInv, ServiceNext,
           col' = IF journal' = journal THEN col ELSE SnapshotBroken(col, journal'),
           box' = box, snd' = snd
    PROVE  AlertsInv' /\ NothingAccepted /\ NotMadeReady
<1>1. ServiceInv' /\ ServiceEffect
  BY ServiceNextKeepsService, ServiceNextEffect DEF AlertsInv
<1>2. CursorFollows' /\ HealthFollows' /\ Len(log) <= Len(log')
  BY <1>1, ServiceStepKeepsCursors
<1>3. log' \in Seq(Cycles)
  BY <1>1 DEF ServiceInv, ServiceTypes
<1>4. CollectorFollows' /\ (col.pc \notin {"probe", "confirm"} => col' = col)
  BY <1>1, <1>2, <1>3, ServiceStepKeepsCollector
<1>5. SenderFollows'
  BY <1>1, <1>4, ServiceStepKeepsSender
<1>6. BoxOK(box)'
  BY DEF AlertsInv, BoxOK
<1> QED
  BY <1>1, <1>2, <1>4, <1>5, <1>6 DEF AlertsInv, NothingAccepted, NotMadeReady

-----------------------------------------------------------------------------
(***************************************************************************)
(* The steps of the collector.                                             *)
(***************************************************************************)

\* A step between the sends, of the collector or of a claim that is given
\* back: the entries grow and the claimed one is left as it is.
LEMMA DatabaseStepKeepsSender ==
    ASSUME AlertsInv, UNCHANGED serviceVars, snd' = snd, Grows(box, box'), snd.pc # "sending"
    PROVE  SenderFollows' /\ NothingAccepted
<1>1. box.entries \in Seq(Entries) /\ Len(box.entries) \in Nat /\ Len(box'.entries) \in Nat
  BY BoxTypes DEF AlertsInv, Grows
<1>2. fence' = fence
  BY DEF serviceVars
<1>3. SenderFollows
  BY DEF AlertsInv
<1>4. NothingAccepted
  BY <1>1 DEF Grows, NothingAccepted
<1>5. snd.pc # "idle" =>
         snd.entry \in 1..Len(box'.entries) /\ ~ box'.entries[snd.entry].accepted
  BY <1>1, <1>3 DEF Grows, SenderFollows
<1> QED
  BY <1>2, <1>3, <1>4, <1>5 DEF SenderFollows

\* The collector looks at the log and at the journal.
LEMMA SnapshotKeepsAlerts ==
    ASSUME AlertsInv, StartCollect \/ Probe
    PROVE  AlertsInv' /\ NothingAccepted /\ NotMadeReady
<1>1. UNCHANGED serviceVars /\ box' = box /\ snd' = snd /\ snd.pc # "sending"
  BY DEF StartCollect, Probe, Unlocked, AlertsInv, SenderFollows
<1>2. ServiceInv' /\ BoxOK(box)' /\ CursorFollows' /\ HealthFollows'
  BY <1>1, ServiceStutters DEF AlertsInv, BoxOK, CursorFollows, HealthFollows, serviceVars
<1>3. log' = log /\ journal' = journal
  BY <1>1 DEF serviceVars
<1>4. CollectorFollows
  BY DEF AlertsInv
<1>5. CollectorFollows'
  <2>1. CASE StartCollect
    <3>1. /\ journal \in Journals /\ Len(log) \in Nat /\ box.cursor \in 0..Len(log)
      BY DEF AlertsInv, ServiceInv, ServiceTypes, WellFormed, CursorFollows
    <3>2. IdleCollector = [pc |-> "idle", batch |-> 0, first |-> NoJournal, holder |-> 0]
          /\ NoJournal \in Journals
      BY NoJournalWellFormed DEF IdleCollector, WellFormed
    <3>3. CASE col' = [IdleCollector EXCEPT !.pc = "unreadable"]
      BY <3>2, <3>3 DEF CollectorFollows
    <3>4. CASE col' = [IdleCollector EXCEPT !.pc = "probe", !.batch = Len(log), !.first = journal]
      <4>1. col' = [pc |-> "probe", batch |-> Len(log), first |-> journal, holder |-> 0]
        BY <3>2, <3>4
      <4> QED
        BY <1>1, <1>3, <3>1, <4>1 DEF CollectorFollows
    <3>5. \/ col' = [IdleCollector EXCEPT !.pc = "unreadable"]
          \/ col' = [IdleCollector EXCEPT !.pc = "probe", !.batch = Len(log), !.first = journal]
      BY <2>1, Zenon DEF StartCollect
    <3> QED
      BY <3>3, <3>4, <3>5
  <2>2. CASE Probe
    <3>1. CASE col' = IdleCollector
      BY <3>1, NoJournalWellFormed DEF CollectorFollows, IdleCollector, WellFormed
    <3>2. CASE col' = [col EXCEPT !.pc = "confirm", !.holder = IF Alive THEN sup.run ELSE 0]
      <4>1. PICK h : h = IF Alive THEN sup.run ELSE 0
        OBVIOUS
      <4>2. /\ sup.run \in {0} \cup Runs /\ (Alive => sup.run = journal.run)
        BY DEF AlertsInv, ServiceInv, ServiceTypes, SupervisorFollows, Supervisors, Alive
      <4>3. h \in {0} \cup Runs /\ (h # 0 => h = journal.run)
        BY <4>1, <4>2
      <4>4. PICK c1, c2 : c1 = [col EXCEPT !.pc = "confirm"] /\ c2 = [c1 EXCEPT !.holder = h]
        OBVIOUS
      <4>5. /\ c1 \in [pc : {"idle", "probe", "confirm", "unreadable", "lost"}, batch : Nat,
                       first : Journals, holder : {0} \cup Runs]
            /\ c1.pc = "confirm" /\ c1.batch = col.batch /\ c1.first = col.first
        BY <1>4, <4>4 DEF CollectorFollows
      <4>6. /\ c2 \in [pc : {"idle", "probe", "confirm", "unreadable", "lost"}, batch : Nat,
                       first : Journals, holder : {0} \cup Runs]
            /\ c2.pc = "confirm" /\ c2.batch = col.batch /\ c2.first = col.first /\ c2.holder = h
        BY <4>3, <4>4, <4>5
      <4>7. col' = c2
        BY <3>2, <4>1, <4>4
      <4> QED
        BY <1>1, <1>3, <1>4, <2>2, <4>3, <4>6, <4>7 DEF CollectorFollows, Probe
    <3> QED
      BY <2>2, <3>1, <3>2 DEF Probe
  <2> QED
    BY <2>1, <2>2
<1>6. SenderFollows'
  <2>1. SenderFollows
    BY DEF AlertsInv
  <2>2. fence' = fence
    BY <1>1 DEF serviceVars
  <2> QED
    BY <1>1, <2>1, <2>2 DEF SenderFollows
<1> QED
  BY <1>1, <1>2, <1>5, <1>6 DEF AlertsInv, NothingAccepted, NotMadeReady

\* What a collection needs of the collector and of the journal, to make the
\* source ready only for the run that holds the lock.
LEMMA HealthyForHolder ==
    ASSUME AlertsInv, col.pc = "confirm", Healthy(col.first, col.holder # 0)
    PROVE  col.holder = journal.run /\ journal.last.run = journal.run
<1>1. col.first = journal /\ (col.holder # 0 => col.holder = journal.run)
  BY DEF AlertsInv, CollectorFollows
<1>2. col.holder # 0 /\ col.first.last.run = col.first.run
  BY DEF Healthy, Runtime
<1> QED
  BY <1>1, <1>2

\* A collection of what the log and a confirmed snapshot say.
LEMMA CollectKeepsAlerts ==
    ASSUME AlertsInv, Collect
    PROVE  /\ AlertsInv' /\ NothingAccepted
           /\ box'.ready /\ ~ box.ready => col.holder = journal.run /\ journal.last.run = journal.run
<1>1. UNCHANGED serviceVars /\ snd' = snd /\ col.pc = "confirm" /\ snd.pc # "sending"
  BY DEF Collect, AlertsInv, SenderFollows
<1>2. /\ ServiceInv' /\ log' = log /\ journal' = journal /\ due' = due
  BY <1>1, ServiceStutters DEF AlertsInv, serviceVars
<1>3. CollectorFollows'
  <2>1. \/ col' = IdleCollector \/ col' = [IdleCollector EXCEPT !.pc = "lost"]
    BY Zenon DEF Collect
  <2> QED
    BY <2>1, NoJournalWellFormed DEF CollectorFollows, IdleCollector, WellFormed
<1>4. /\ BoxOK(box) /\ box.entries \in Seq(Entries) /\ Len(box.entries) \in Nat
      /\ box.cursor \in Nat /\ box.events \in Nat /\ box.reported \in SUBSET Nat
  BY BoxTypes DEF AlertsInv
<1>5. CASE box' = box
  <2>1. SenderFollows' /\ NothingAccepted
    BY <1>1, <1>4, <1>5, GrowsReflexive, DatabaseStepKeepsSender
  <2>2. CursorFollows' /\ HealthFollows' /\ BoxOK(box)'
    BY <1>2, <1>5 DEF AlertsInv, CursorFollows, HealthFollows, BoxOK
  <2> QED
    BY <1>2, <1>3, <1>5, <2>1, <2>2 DEF AlertsInv
<1>6. CASE ~ Gap(box, col.first) /\ box' = Collected(box, col.batch, col.first, col.holder # 0)
  <2>1. PICK j, upTo : j = col.first /\ upTo = col.batch
    OBVIOUS
  <2>2. PICK alive \in BOOLEAN : alive = (col.holder # 0)
    BY Zenon
  <2>3. /\ j = journal /\ WellFormed(j) /\ log \in Seq(Cycles) /\ upTo \in box.cursor..Len(log)
        /\ Len(log) \in Nat
    BY <1>1, <2>1 DEF AlertsInv, CollectorFollows, ServiceInv, ServiceTypes
  <2>4. PICK b, b2 :
           /\ b = box /\ b2 = Collected(b, upTo, j, alive)
           /\ Grows(b, b2) /\ b2.cursor = upTo
           /\ \/ upTo = b.cursor /\ b2.last = b.last
              \/ upTo > b.cursor /\ b2.last = log[upTo]
           /\ b2.events = j.seq /\ b2.reported = b.reported \cup NewEvents(b, j)
           /\ b2.ready => Healthy(j, alive)
    <3>1. PICK b : b = box
      OBVIOUS
    <3>2. BoxOK(b) /\ upTo \in b.cursor..Len(log)
      BY <1>4, <2>3, <3>1
    <3> QED
      BY <2>3, <3>1, <3>2, CollectedEffect
  <2>5. box' = b2
    BY <1>6, <2>1, <2>2, <2>4, Zenon
  <2>6. SenderFollows' /\ NothingAccepted /\ BoxOK(box)'
    <3>1. Grows(box, box')
      BY <2>4, <2>5
    <3> QED
      BY <1>1, <3>1, DatabaseStepKeepsSender DEF Grows
  <2>7. CursorFollows'
    BY <1>2, <1>4, <2>3, <2>4, <2>5 DEF AlertsInv, CursorFollows
  <2>8. HealthFollows'
    <3>1. box.events \in Oldest(journal)..journal.seq
      BY <1>6, <2>1, <2>3 DEF Gap
    <3>2. /\ due \subseteq 1..journal.seq /\ journal.seq \in Nat /\ Oldest(journal) \in Nat
          /\ \A n \in due : n > Oldest(journal) => journal.events[n - Oldest(journal)] \in Reportable
          /\ \A n \in due : n <= box.events => n \in box.reported
      BY <2>3, OldestIsNat DEF AlertsInv, ServiceInv, EventsKept, HealthFollows
    <3>3. ASSUME NEW n \in due, n \notin box.reported
          PROVE  n \in NewEvents(box, journal)
      BY <1>4, <3>1, <3>2, <3>3 DEF NewEvents
    <3>4. box'.events = journal.seq /\ \A n \in due : n \in box'.reported
      BY <2>3, <2>4, <2>5, <3>3
    <3> QED
      BY <1>2, <3>2, <3>4 DEF HealthFollows
  <2>9. box'.ready => col.holder = journal.run /\ journal.last.run = journal.run
    <3>1. box'.ready => Healthy(j, alive)
      BY <2>4, <2>5, Zenon
    <3>2. box'.ready => Healthy(col.first, col.holder # 0)
      BY <2>1, <2>2, <3>1, Zenon
    <3> QED
      BY <1>1, <3>2, HealthyForHolder
  <2> QED
    BY <1>2, <1>3, <2>6, <2>7, <2>8, <2>9 DEF AlertsInv
<1>7. box' = box \/ (~ Gap(box, col.first) /\ box' = Collected(box, col.batch, col.first, col.holder # 0))
  BY Zenon DEF Collect
<1> QED
  BY <1>5, <1>6, <1>7

\* A withdrawal leaves alone whether the source is ready.
LEMMA InvalidateKeepsReady ==
    ASSUME NEW b \in Boxes
    PROVE  Invalidate(b).ready = b.ready
<1>1. PICK e : e = b.stream.active
  OBVIOUS
<1>2. PICK w : w = IF b.entries[e].state \in {"confirmed", "unknown"} THEN "mailed" ELSE "historical"
  OBVIOUS
<1>3. PICK b1 : b1 = [b EXCEPT !.entries[e].withdrawal = w]
  OBVIOUS
<1>4. PICK b2 : b2 = [b1 EXCEPT !.entries[e].suppressed = TRUE]
  OBVIOUS
<1>5. PICK b3 : b3 = [b2 EXCEPT !.stream.active = 0]
  OBVIOUS
<1>6. PICK b4 : b4 = [b3 EXCEPT !.stream.key = None]
  OBVIOUS
<1>7. Invalidate(b) = b4
  BY <1>1, <1>2, <1>3, <1>4, <1>5, <1>6 DEF Invalidate
<1>8. DOMAIN b = {"cursor", "last", "stream", "entries", "events", "reported", "ready", "unreadable"}
  BY DEF Boxes
<1>9. b1.ready = b.ready /\ DOMAIN b1 = DOMAIN b
  BY <1>3, <1>8
<1>10. b2.ready = b1.ready /\ DOMAIN b2 = DOMAIN b
  BY <1>4, <1>8, <1>9
<1>11. b3.ready = b2.ready /\ DOMAIN b3 = DOMAIN b
  BY <1>5, <1>8, <1>10
<1>12. b4.ready = b3.ready
  BY <1>6, <1>8, <1>11
<1> QED
  BY <1>7, <1>9, <1>10, <1>11, <1>12

\* A step that writes neither the log position nor the health position.
LEMMA WithdrawalKeepsAlerts ==
    ASSUME AlertsInv, UNCHANGED serviceVars, snd' = snd, snd.pc # "sending",
           NEW b, box' = b, Grows(box, b), SameLog(box, b), b.ready => box.ready,
           CollectorFollows'
    PROVE  AlertsInv' /\ NothingAccepted /\ NotMadeReady
<1>1. ServiceInv' /\ log' = log /\ journal' = journal /\ due' = due
  BY ServiceStutters DEF AlertsInv, serviceVars
<1>2. SenderFollows' /\ NothingAccepted
  BY DatabaseStepKeepsSender
<1>3. CursorFollows' /\ HealthFollows' /\ BoxOK(box)'
  BY <1>1 DEF AlertsInv, CursorFollows, HealthFollows, SameLog, Grows, BoxOK
<1> QED
  BY <1>1, <1>2, <1>3 DEF AlertsInv, NotMadeReady

\* The collector rests, or has found the log or the history unreadable.
LEMMA RestingFollows ==
    ASSUME \/ col' = IdleCollector
           \/ col' = [IdleCollector EXCEPT !.pc = "lost"]
    PROVE  CollectorFollows'
<1>1. IdleCollector = [pc |-> "idle", batch |-> 0, first |-> NoJournal, holder |-> 0]
      /\ NoJournal \in Journals
  BY NoJournalWellFormed DEF IdleCollector, WellFormed
<1> QED
  BY <1>1 DEF CollectorFollows

\* The source is not ready any more.
LEMMA NotReadyEffect ==
    ASSUME NEW b, BoxOK(b), NEW b1, b1 = [b EXCEPT !.ready = FALSE]
    PROVE  Grows(b, b1) /\ SameLog(b, b1) /\ ~ b1.ready
<1>1. b \in Boxes /\ Len(b.entries) \in Nat
  BY BoxTypes
<1>2. /\ b1 \in Boxes /\ SameLog(b, b1) /\ b1.entries = b.entries /\ b1.stream = b.stream
      /\ b1.ready = FALSE
  BY <1>1 DEF Boxes, SameLog
<1>3. Grows(b, b1)
  BY <1>1, <1>2 DEF Grows, BoxOK
<1>4. ~ b1.ready
  BY <1>2, Zenon
<1> QED
  BY <1>2, <1>3, <1>4

\* The source is lost: the active reminder is withdrawn.
LEMMA SourceUnavailableKeepsAlerts ==
    ASSUME AlertsInv, SourceUnavailable
    PROVE  AlertsInv' /\ NothingAccepted /\ NotMadeReady
<1>1. UNCHANGED serviceVars /\ snd' = snd /\ snd.pc # "sending" /\ col' = IdleCollector
      /\ box' = Unavailable(box)
  BY DEF SourceUnavailable, Unlocked
<1>2. CollectorFollows'
  BY <1>1, RestingFollows
<1>3. PICK b, b1 : b = box /\ b1 = [b EXCEPT !.ready = FALSE]
  OBVIOUS
<1>4. BoxOK(b) /\ b.entries \in Seq(Entries)
  BY <1>3, BoxTypes DEF AlertsInv
<1>5. Grows(b, b1) /\ SameLog(b, b1) /\ ~ b1.ready /\ b1 \in Boxes /\ BoxOK(b1)
  BY <1>3, <1>4, NotReadyEffect DEF Grows, BoxOK
<1>6. PICK b2 : b2 = IF b1.stream.active # 0 THEN Invalidate(b1) ELSE b1
  OBVIOUS
<1>7. Grows(b1, b2) /\ SameLog(b1, b2)
  BY <1>5, <1>6, InvalidateEffect, GrowsReflexive
<1>8. ~ b2.ready
  BY <1>5, <1>6, InvalidateKeepsReady, Zenon
<1>9. Grows(b, b2) /\ SameLog(b, b2)
  BY <1>4, <1>5, <1>7, GrowsTransitive, SameLogTransitive
<1>10. box' = b2
  BY <1>1, <1>3, <1>6, Zenon DEF Unavailable
<1> QED
  BY <1>1, <1>2, <1>3, <1>8, <1>9, <1>10, WithdrawalKeepsAlerts

\* The log is unreadable: the source is not ready until it can be read.
LEMMA ObservationUnavailableKeepsAlerts ==
    ASSUME AlertsInv, ObservationUnavailable
    PROVE  AlertsInv' /\ NothingAccepted /\ NotMadeReady
<1>1. UNCHANGED serviceVars /\ snd' = snd /\ snd.pc # "sending"
  BY DEF ObservationUnavailable, Unlocked
<1>2. PICK since : /\ since = IF box.unreadable = None \/ now < box.unreadable THEN now ELSE box.unreadable
                   /\ box' = [box EXCEPT !.unreadable = since, !.ready = FALSE]
                   /\ col' = IF now < since + RetryWindow THEN IdleCollector
                             ELSE [IdleCollector EXCEPT !.pc = "lost"]
  BY Zenon DEF ObservationUnavailable
<1>3. CollectorFollows'
  BY <1>2, RestingFollows
<1>4. PICK b, b1, b2 : /\ b = box /\ b1 = [b EXCEPT !.unreadable = since]
                       /\ b2 = [b1 EXCEPT !.ready = FALSE]
  OBVIOUS
<1>5. BoxOK(b) /\ b \in Boxes /\ b.entries \in Seq(Entries) /\ now \in Times
  BY <1>4, BoxTypes DEF AlertsInv, ServiceInv, ServiceTypes
<1>6. since \in Times
  BY <1>2, <1>4, <1>5 DEF Boxes
<1>7. /\ b1 \in Boxes /\ SameLog(b, b1) /\ b1.entries = b.entries /\ b1.stream = b.stream
  BY <1>4, <1>5, <1>6 DEF Boxes, SameLog
<1>8. Grows(b, b1) /\ BoxOK(b1)
  <2>1. Len(b.entries) \in Nat
    BY <1>5, BoxTypes
  <2> QED
    BY <1>5, <1>7, <2>1 DEF Grows, BoxOK
<1>9. Grows(b1, b2) /\ SameLog(b1, b2) /\ ~ b2.ready
  BY <1>4, <1>8, NotReadyEffect
<1>10. Grows(b, b2) /\ SameLog(b, b2)
  BY <1>5, <1>7, <1>8, <1>9, GrowsTransitive, SameLogTransitive
<1>11. box' = b2
  BY <1>2, <1>4
<1> QED
  BY <1>1, <1>3, <1>4, <1>9, <1>10, <1>11, WithdrawalKeepsAlerts

\* The operator acknowledges the events that may be missing.
LEMMA ReconcileHealthKeepsAlerts ==
    ASSUME AlertsInv, ReconcileHealth
    PROVE  AlertsInv' /\ NothingAccepted /\ NotMadeReady
<1>1. UNCHANGED serviceVars /\ snd' = snd /\ snd.pc # "sending" /\ col' = col
      /\ col.pc \notin {"probe", "confirm"}
  BY DEF ReconcileHealth, Unlocked
<1>2. ServiceInv' /\ log' = log /\ journal' = journal /\ due' = due
  BY <1>1, ServiceStutters DEF AlertsInv, serviceVars
<1>3. PICK new : new = due \cap (box.events + 1)..journal.seq
  OBVIOUS
<1>4. /\ due \subseteq 1..journal.seq /\ journal.seq \in Nat /\ new \in SUBSET Nat
  BY <1>3, OldestIsNat DEF AlertsInv, ServiceInv, ServiceTypes, EventsKept
<1>5. PICK b, b1, b2 : /\ b = box /\ b1 = [b EXCEPT !.events = journal.seq]
                       /\ b2 = [b1 EXCEPT !.reported = b.reported \cup new]
  OBVIOUS
<1>6. BoxOK(b) /\ b \in Boxes /\ Len(b.entries) \in Nat /\ b.reported \in SUBSET Nat /\ b.events \in Nat
  BY <1>5, BoxTypes DEF AlertsInv
<1>7. /\ b1 \in Boxes /\ b1.entries = b.entries /\ b1.stream = b.stream /\ b1.events = journal.seq
      /\ b1.reported = b.reported /\ b1.cursor = b.cursor /\ b1.last = b.last /\ b1.ready = b.ready
  BY <1>4, <1>5, <1>6 DEF Boxes
<1>8. /\ b2 \in Boxes /\ b2.entries = b.entries /\ b2.stream = b.stream /\ b2.events = journal.seq
      /\ b2.reported = b.reported \cup new /\ b2.cursor = b.cursor /\ b2.last = b.last
      /\ b2.ready = b.ready
  BY <1>4, <1>5, <1>6, <1>7 DEF Boxes
<1>9. box' = b2
  <2>1. box' = [box EXCEPT !.events = journal.seq,
                           !.reported = @ \cup (due \cap (box.events + 1)..journal.seq)]
    BY DEF ReconcileHealth
  <2> QED
    BY <1>3, <1>5, <1>7, <2>1
<1>10. Grows(box, box')
  BY <1>5, <1>6, <1>8, <1>9 DEF Grows, BoxOK
<1>11. CursorFollows' /\ BoxOK(box)'
  BY <1>2, <1>5, <1>8, <1>9, <1>10 DEF AlertsInv, CursorFollows, Grows
<1>12. HealthFollows'
  <2>1. ASSUME NEW n \in due, n \notin box.reported
        PROVE  n \in new
    BY <1>3, <1>4, <1>5, <1>6, <2>1 DEF AlertsInv, HealthFollows
  <2> QED
    BY <1>2, <1>4, <1>5, <1>8, <1>9, <2>1 DEF HealthFollows
<1>13. CollectorFollows'
  BY <1>1, <1>2 DEF AlertsInv, CollectorFollows
<1>14. SenderFollows' /\ NothingAccepted
  BY <1>1, <1>10, DatabaseStepKeepsSender
<1>15. NotMadeReady
  BY <1>5, <1>8, <1>9, Zenon DEF NotMadeReady
<1> QED
  BY <1>2, <1>11, <1>12, <1>13, <1>14, <1>15 DEF AlertsInv

-----------------------------------------------------------------------------
(***************************************************************************)
(* The steps of the sender.                                                *)
(***************************************************************************)

\* An entry is written, and whether it was accepted is left alone.
LEMMA EntryWritten ==
    ASSUME NEW b, BoxOK(b), NEW e \in 1..Len(b.entries), NEW x \in Entries,
           x.signal = b.entries[e].signal, x.accepted = b.entries[e].accepted,
           ~ b.entries[e].accepted,
           NEW b2, b2 = [b EXCEPT !.entries = [b.entries EXCEPT ![e] = x]]
    PROVE  /\ BoxOK(b2) /\ Grows(b, b2) /\ SameButEntries(b, b2) /\ SameLog(b, b2)
           /\ Len(b2.entries) = Len(b.entries) /\ b2.entries[e] = x
<1>1. b \in Boxes /\ Len(b.entries) \in Nat
  BY BoxTypes
<1>2. /\ BoxOK(b2) /\ SameButEntries(b, b2) /\ Len(b2.entries) = Len(b.entries) /\ b2.entries[e] = x
      /\ \A i \in 1..Len(b.entries) \ {e} : b2.entries[i] = b.entries[i]
  BY EntryChanges
<1>3. \A i \in 1..Len(b.entries) : b2.entries[i].accepted = b.entries[i].accepted
  BY <1>2
<1> QED
  BY <1>1, <1>2, <1>3 DEF Grows, SameLog, SameButEntries

\* A claim takes an entry that nobody accepted.
LEMMA ClaimKeepsAlerts ==
    ASSUME AlertsInv, Claim
    PROVE  AlertsInv' /\ NothingAccepted /\ NotMadeReady
<1>1. UNCHANGED serviceVars /\ col' = col /\ snd.pc = "idle" /\ col.pc \notin {"probe", "confirm"}
  BY DEF Claim, Unlocked
<1>2. PICK i \in DOMAIN box.entries :
         /\ Claimable(box.entries[i])
         /\ box' = [box EXCEPT !.entries[i].state = "unknown", !.entries[i].retryable = FALSE]
         /\ snd' = [pc |-> "claimed", entry |-> i]
  BY DEF Claim
<1>3. PICK b : b = box
  OBVIOUS
<1>4. BoxOK(b) /\ b \in Boxes /\ b.entries \in Seq(Entries) /\ Len(b.entries) \in Nat
  BY <1>3, BoxTypes DEF AlertsInv
<1>5. i \in 1..Len(b.entries) /\ b.entries[i] \in Entries
  BY <1>2, <1>3, <1>4
<1>6. ~ b.entries[i].accepted
  BY <1>2, <1>3, <1>4, <1>5 DEF Claimable, BoxOK
<1>7. PICK x1, x2 : x1 = [b.entries[i] EXCEPT !.state = "unknown"] /\ x2 = [x1 EXCEPT !.retryable = FALSE]
  OBVIOUS
<1>8. /\ x1 \in Entries /\ x1.signal = b.entries[i].signal /\ x1.accepted = b.entries[i].accepted
  BY <1>5, <1>7 DEF Entries
<1>9. /\ x2 \in Entries /\ x2.signal = x1.signal /\ x2.accepted = x1.accepted
  BY <1>7, <1>8 DEF Entries
<1>10. PICK b1 : b1 = [b EXCEPT !.entries = [b.entries EXCEPT ![i] = x1]]
  OBVIOUS
<1>11. /\ BoxOK(b1) /\ Grows(b, b1) /\ SameButEntries(b, b1) /\ SameLog(b, b1)
       /\ Len(b1.entries) = Len(b.entries) /\ b1.entries[i] = x1
  BY <1>4, <1>5, <1>6, <1>8, <1>10, EntryWritten, SMTT(30)
<1>12. PICK b2 : b2 = [b1 EXCEPT !.entries = [b1.entries EXCEPT ![i] = x2]]
  OBVIOUS
<1>13. /\ BoxOK(b2) /\ Grows(b1, b2) /\ SameButEntries(b1, b2) /\ SameLog(b1, b2)
       /\ Len(b2.entries) = Len(b1.entries) /\ b2.entries[i] = x2
  BY <1>5, <1>6, <1>8, <1>9, <1>11, <1>12, EntryWritten
<1>14. box' = b2
  <2>1. b1 = [box EXCEPT !.entries[i].state = "unknown"]
    BY <1>3, <1>7, <1>10
  <2>2. b2 = [b1 EXCEPT !.entries[i].retryable = FALSE]
    BY <1>7, <1>11, <1>12
  <2> QED
    BY <1>2, <2>1, <2>2
<1>15. Grows(box, box') /\ SameLog(box, box') /\ box'.ready = box.ready
  BY <1>3, <1>4, <1>11, <1>13, <1>14, GrowsTransitive, SameLogTransitive DEF SameButEntries
<1>16. ServiceInv' /\ log' = log /\ journal' = journal /\ due' = due /\ fence' = fence
  BY <1>1, ServiceStutters DEF AlertsInv, serviceVars
<1>17. CursorFollows' /\ HealthFollows' /\ BoxOK(box)' /\ CollectorFollows'
  BY <1>1, <1>15, <1>16 DEF AlertsInv, CursorFollows, HealthFollows, CollectorFollows, SameLog, Grows, BoxOK
<1>18. SenderFollows'
  <2>1. SenderFollows
    BY DEF AlertsInv
  <2>2. i \in 1..Len(box'.entries) /\ ~ box'.entries[i].accepted /\ i \in Nat
    BY <1>4, <1>5, <1>6, <1>8, <1>9, <1>11, <1>13, <1>14
  <2> QED
    BY <1>1, <1>2, <1>16, <2>1, <2>2 DEF SenderFollows
<1>19. NothingAccepted /\ NotMadeReady
  BY <1>3, <1>4, <1>15 DEF Grows, NothingAccepted, NotMadeReady
<1> QED
  BY <1>16, <1>17, <1>18, <1>19 DEF AlertsInv

\* A claim that is given back, and one that is not sent any more.
LEMMA ReleaseEffect ==
    ASSUME AlertsInv, snd.pc # "idle"
    PROVE  /\ Grows(box, Deferred) /\ SameLog(box, Deferred) /\ Deferred.ready = box.ready
           /\ Grows(box, Suppressed) /\ SameLog(box, Suppressed) /\ Suppressed.ready = box.ready
<1>1. PICK b, e : b = box /\ e = snd.entry
  OBVIOUS
<1>2. BoxOK(b) /\ b \in Boxes /\ b.entries \in Seq(Entries) /\ Len(b.entries) \in Nat
  BY <1>1, BoxTypes DEF AlertsInv
<1>3. e \in 1..Len(b.entries) /\ b.entries[e] \in Entries /\ ~ b.entries[e].accepted
  BY <1>1, <1>2 DEF AlertsInv, SenderFollows
<1>4. PICK x1, x2 : x1 = [b.entries[e] EXCEPT !.state = "pending"] /\ x2 = [x1 EXCEPT !.suppressed = TRUE]
  OBVIOUS
<1>5. /\ x1 \in Entries /\ x1.signal = b.entries[e].signal /\ x1.accepted = b.entries[e].accepted
  BY <1>3, <1>4 DEF Entries
<1>6. /\ x2 \in Entries /\ x2.signal = x1.signal /\ x2.accepted = x1.accepted
  BY <1>4, <1>5 DEF Entries
<1>7. PICK b1 : b1 = [b EXCEPT !.entries = [b.entries EXCEPT ![e] = x1]]
  OBVIOUS
<1>8. /\ BoxOK(b1) /\ Grows(b, b1) /\ SameButEntries(b, b1) /\ SameLog(b, b1)
      /\ Len(b1.entries) = Len(b.entries) /\ b1.entries[e] = x1
  BY <1>2, <1>3, <1>5, <1>7, EntryWritten
<1>9. PICK b2 : b2 = [b1 EXCEPT !.entries = [b1.entries EXCEPT ![e] = x2]]
  OBVIOUS
<1>10. /\ BoxOK(b2) /\ Grows(b1, b2) /\ SameButEntries(b1, b2) /\ SameLog(b1, b2)
  BY <1>3, <1>5, <1>6, <1>8, <1>9, EntryWritten
<1>11. Deferred = b1
  BY <1>1, <1>4, <1>7 DEF Deferred
<1>12. Suppressed = b2
  BY <1>1, <1>4, <1>8, <1>9, <1>11 DEF Suppressed
<1>13. Grows(b, b2) /\ SameLog(b, b2)
  BY <1>2, <1>8, <1>10, GrowsTransitive, SameLogTransitive
<1> QED
  BY <1>1, <1>8, <1>10, <1>11, <1>12, <1>13 DEF SameButEntries

\* What the sender finds under the fence.
LEMMA CaughtUpMeans ==
    ASSUME AlertsInv, CaughtUp
    PROVE  /\ ~ marker /\ log # <<>> /\ box.cursor = Len(log)
           /\ journal.last # None /\ box.last = journal.last.cycle
<1>1. /\ ~ marker /\ box.cursor = Len(log) /\ box.last = journal.last.cycle
      /\ journal.last # None /\ Problems(journal.last) = {}
  BY DEF CaughtUp, Healthy
<1>2. journal.last.scan = "persisted"
  BY <1>1 DEF Problems
<1>3. journal.last.cycle \in Cycles
  BY <1>1, <1>2 DEF AlertsInv, ServiceInv, ServiceTypes, WellFormed
<1>4. box.last # None
  BY <1>1, <1>3, EmailAlertsAssumption
<1>5. log # <<>>
  BY <1>1, <1>4 DEF AlertsInv, CursorFollows
<1> QED
  BY <1>1, <1>5

\* Nobody appends while the fence is not with a run.
LEMMA NobodyAppends ==
    ASSUME ServiceInv, fence \notin Runs
    PROVE  \A r \in Runs : worker[r].pc # "appending"
BY DEF ServiceInv, WorkerFollows

\* The sender takes the fence for what is current, or gives the claim back.
LEMMA PrepareKeepsAlerts ==
    ASSUME AlertsInv, Prepare
    PROVE  AlertsInv' /\ NothingAccepted /\ NotMadeReady
<1>1. /\ snd.pc = "claimed" /\ col.pc \notin {"probe", "confirm"} /\ col' = col
      /\ now' = now /\ log' = log /\ marker' = marker /\ journal' = journal /\ sup' = sup
      /\ worker' = worker /\ faults' = faults /\ due' = due
  BY DEF Prepare, Unlocked
<1>2. \/ /\ (box' = Deferred \/ box' = Suppressed)
         /\ snd' = IdleSender /\ fence' = fence
      \/ /\ fence = None /\ CaughtUp /\ StillDecided
         /\ fence' = Sender /\ snd' = [snd EXCEPT !.pc = "sending"] /\ box' = box
  BY Zenon DEF Prepare
<1>3. SenderFollows /\ BoxOK(box) /\ box.entries \in Seq(Entries) /\ Len(box.entries) \in Nat
  BY BoxTypes DEF AlertsInv
<1>4. ServiceInv'
  <2>1. now \in Times /\ faults \in 0..MaxFaults
        /\ \A r \in Runs : worker[r].pc = "appending" => fence = r
    BY DEF AlertsInv, ServiceInv, ServiceTypes, WorkerFollows
  <2>2. fence = None => \A r \in Runs : worker[r].pc # "appending"
    BY EmailAlertsAssumption, NobodyAppends DEF AlertsInv
  <2>3. \A r \in Runs : worker[r].pc = "appending" => fence' = r
    BY <1>2, <2>1, <2>2
  <2> QED
    BY <1>1, <2>1, <2>3, QuietStepKeepsService DEF AlertsInv
<1>5. CASE /\ (box' = Deferred \/ box' = Suppressed)
           /\ snd' = IdleSender /\ fence' = fence
  <2>1. Grows(box, box') /\ SameLog(box, box') /\ box'.ready = box.ready
    BY <1>1, <1>5, ReleaseEffect
  <2>2. CursorFollows' /\ HealthFollows' /\ BoxOK(box)' /\ CollectorFollows'
    BY <1>1, <2>1 DEF AlertsInv, CursorFollows, HealthFollows, CollectorFollows, SameLog, Grows, BoxOK
  <2>3. SenderFollows'
    BY <1>1, <1>3, <1>5 DEF SenderFollows, IdleSender
  <2>4. NothingAccepted /\ NotMadeReady
    BY <1>3, <2>1 DEF Grows, NothingAccepted, NotMadeReady
  <2> QED
    BY <1>4, <2>2, <2>3, <2>4 DEF AlertsInv
<1>6. CASE /\ fence = None /\ CaughtUp /\ StillDecided
           /\ fence' = Sender /\ snd' = [snd EXCEPT !.pc = "sending"] /\ box' = box
  <2>1. CursorFollows' /\ HealthFollows' /\ BoxOK(box)' /\ CollectorFollows'
    BY <1>1, <1>6 DEF AlertsInv, CursorFollows, HealthFollows, CollectorFollows, BoxOK
  <2>2. /\ ~ marker /\ log # <<>> /\ box.cursor = Len(log)
        /\ journal.last # None /\ box.last = journal.last.cycle
    BY <1>6, CaughtUpMeans
  <2>3. journal.last.cycle.outcome = box.stream.key /\ box.stream.active = snd.entry
    BY <1>6 DEF StillDecided
  <2>4. /\ snd' \in [pc : {"idle", "claimed", "sending"}, entry : Nat]
        /\ snd'.pc = "sending" /\ snd'.entry = snd.entry
    BY <1>3, <1>6 DEF SenderFollows
  <2>5. snd.entry \in 1..Len(box.entries) /\ ~ box.entries[snd.entry].accepted
    BY <1>1, <1>3 DEF SenderFollows
  <2>6. SenderFollows'
    BY <1>1, <1>6, <2>2, <2>3, <2>4, <2>5 DEF SenderFollows
  <2> QED
    BY <1>4, <1>6, <2>1, <2>6 DEF AlertsInv, NothingAccepted, NotMadeReady
<1> QED
  BY <1>2, <1>5, <1>6

\* The step that hands the body to the server, with what comes of it.
LEMMA SendResults ==
    ASSUME AlertsInv, Send
    PROVE  \E state \in {"failed", "confirmed", "unknown"}, retryable \in BOOLEAN, accepted \in BOOLEAN :
              /\ Result(state, retryable, accepted)
              /\ accepted => state \in {"confirmed", "unknown"} /\ MayStillBeSent
<1>1. CASE Result("failed", Expired(Entry) => ~ Healthy(journal, Alive), FALSE)
  <2>1. PICK retryable \in BOOLEAN : retryable = (Expired(Entry) => ~ Healthy(journal, Alive))
    BY Zenon
  <2>2. Result("failed", retryable, FALSE)
    BY <1>1, <2>1, Zenon
  <2> QED
    BY <2>2
<1>2. CASE MayStillBeSent /\ Result("confirmed", FALSE, TRUE)
  BY <1>2, Zenon
<1>3. CASE MayStillBeSent /\ \E accepted \in BOOLEAN : Result("unknown", FALSE, accepted)
  BY <1>3, Zenon
<1> QED
  BY <1>1, <1>2, <1>3, Zenon DEF Send

\* What a reader may rely on when an entry is accepted.
EntryIsCurrent(i) ==
    /\ log # <<>> /\ ~ marker
    /\ log[Len(log)].outcome = box.entries[i].signal
    /\ journal.last.cycle = log[Len(log)]
    /\ journal.last.run = sup.run /\ now \in journal.updated..journal.deadline
    /\ now < box.entries[i].at + Review

\* The fence and the open transaction keep what Prepare found.
LEMMA SendingIsCurrent ==
    ASSUME AlertsInv, snd.pc = "sending", MayStillBeSent
    PROVE  EntryIsCurrent(snd.entry)
<1>1. /\ ~ marker /\ log # <<>> /\ box.cursor = Len(log) /\ box.last = journal.last.cycle
      /\ journal.last.cycle.outcome = box.stream.key /\ box.stream.active = snd.entry
      /\ snd.entry \in 1..Len(box.entries)
  BY DEF AlertsInv, SenderFollows
<1>2. log \in Seq(Cycles) /\ Len(log) \in Nat /\ Len(log) > 0
  BY <1>1 DEF AlertsInv, ServiceInv, ServiceTypes
<1>3. box.last = log[Len(log)]
  BY <1>1, <1>2 DEF AlertsInv, CursorFollows
<1>4. box.entries \in Seq(Entries) /\ Len(box.entries) \in Nat
  BY BoxTypes DEF AlertsInv
<1>5. box.entries[snd.entry].signal = box.stream.key
  BY <1>1, <1>4 DEF AlertsInv, BoxOK
<1>6. Runtime(journal, Alive) = "running" /\ journal.last.run = journal.run
  BY Zenon DEF MayStillBeSent, Healthy
<1>7. Alive /\ now \in journal.updated..journal.deadline
  BY <1>6 DEF Runtime
<1>8. sup.run = journal.run
  BY <1>7 DEF AlertsInv, ServiceInv, SupervisorFollows, Alive
<1>9. now < Entry.at + Review
  <2>1. Entry.at \in Nat /\ now \in Nat /\ Review \in Nat
    <3>1. Times \subseteq Nat /\ Review \in Nat
      BY EmailAlertsAssumption, SignalServiceAssumption DEF Times
    <3>2. now \in Times
      BY DEF AlertsInv, ServiceInv, ServiceTypes
    <3>3. box.entries[snd.entry] \in Entries
      BY <1>1, <1>4
    <3>4. box.entries[snd.entry].at \in Times
      BY <3>3 DEF Entries
    <3> QED
      BY <3>1, <3>2, <3>4 DEF Entry
  <2> QED
    BY <2>1 DEF MayStillBeSent, Expired
<1> QED
  BY <1>1, <1>3, <1>5, <1>6, <1>7, <1>8, <1>9 DEF EntryIsCurrent, Entry

\* The body goes out, or does not, and the transaction ends.
LEMMA SendKeepsAlerts ==
    ASSUME AlertsInv, Send
    PROVE  /\ AlertsInv' /\ NotMadeReady
           /\ \A i \in DOMAIN box.entries :
                 box'.entries[i].accepted /\ ~ box.entries[i].accepted => EntryIsCurrent(i)
<1>1. /\ snd.pc = "sending" /\ col' = col
      /\ now' = now /\ log' = log /\ marker' = marker /\ journal' = journal /\ sup' = sup
      /\ worker' = worker /\ faults' = faults /\ due' = due
  BY DEF Send
<1>2. PICK state \in {"failed", "confirmed", "unknown"}, retryable \in BOOLEAN, accepted \in BOOLEAN :
         /\ Result(state, retryable, accepted)
         /\ accepted => state \in {"confirmed", "unknown"} /\ MayStillBeSent
  BY SendResults
<1>3. snd' = IdleSender /\ fence' = None
  BY <1>2 DEF Result
<1>4. PICK b, e : b = box /\ e = snd.entry
  OBVIOUS
<1>5. BoxOK(b) /\ b \in Boxes /\ b.entries \in Seq(Entries) /\ Len(b.entries) \in Nat
  BY <1>4, BoxTypes DEF AlertsInv
<1>6. /\ e \in 1..Len(b.entries) /\ b.entries[e] \in Entries /\ ~ b.entries[e].accepted
      /\ e = b.stream.active /\ fence = Sender
  BY <1>1, <1>4, <1>5 DEF AlertsInv, SenderFollows
<1>7. PICK now1 \in BOOLEAN : now1 = (b.entries[e].accepted \/ accepted)
  BY Zenon
<1>8. PICK x1, x2, x3 : /\ x1 = [b.entries[e] EXCEPT !.state = state]
                        /\ x2 = [x1 EXCEPT !.retryable = retryable]
                        /\ x3 = [x2 EXCEPT !.accepted = now1]
  OBVIOUS
<1>9. /\ x1 \in Entries /\ x1.signal = b.entries[e].signal /\ x1.accepted = b.entries[e].accepted
      /\ x1.state = state
  BY <1>6, <1>8 DEF Entries
<1>10. /\ x2 \in Entries /\ x2.signal = x1.signal /\ x2.accepted = x1.accepted /\ x2.state = state
  BY <1>8, <1>9 DEF Entries
<1>11. /\ x3 \in Entries /\ x3.signal = x2.signal /\ x3.accepted = now1 /\ x3.state = state
  BY <1>7, <1>8, <1>10 DEF Entries
<1>12. x1.accepted => FALSE
  BY <1>6, <1>9, Zenon
<1>13. x3.accepted => x3.state \in {"confirmed", "unknown"} /\ MayStillBeSent
  BY <1>2, <1>6, <1>7, <1>11, Zenon
<1>14. PICK b1 : b1 = [b EXCEPT !.entries = [b.entries EXCEPT ![e] = x1]]
  OBVIOUS
<1>15. /\ BoxOK(b1) /\ SameButEntries(b, b1) /\ Len(b1.entries) = Len(b.entries) /\ b1.entries[e] = x1
       /\ \A i \in 1..Len(b.entries) \ {e} : b1.entries[i] = b.entries[i]
  BY <1>5, <1>6, <1>9, <1>12, <1>14, EntryChanges, SMTT(30)
<1>16. PICK b2 : b2 = [b1 EXCEPT !.entries = [b1.entries EXCEPT ![e] = x2]]
  OBVIOUS
<1>17. x2.accepted => FALSE
  BY <1>10, <1>12, Zenon
<1>18. /\ BoxOK(b2) /\ SameButEntries(b1, b2) /\ Len(b2.entries) = Len(b1.entries) /\ b2.entries[e] = x2
       /\ \A i \in 1..Len(b1.entries) \ {e} : b2.entries[i] = b1.entries[i]
  BY <1>6, <1>10, <1>15, <1>16, <1>17, EntryChanges
<1>19. PICK b3 : b3 = [b2 EXCEPT !.entries = [b2.entries EXCEPT ![e] = x3]]
  OBVIOUS
<1>20. b2.stream = b.stream
  BY <1>15, <1>18 DEF SameButEntries
<1>21. /\ BoxOK(b3) /\ SameButEntries(b2, b3) /\ Len(b3.entries) = Len(b2.entries) /\ b3.entries[e] = x3
       /\ \A i \in 1..Len(b2.entries) \ {e} : b3.entries[i] = b2.entries[i]
  BY <1>6, <1>11, <1>13, <1>15, <1>18, <1>19, <1>20, EntryChanges
<1>22. box' = b3
  <2>1. b1 = [box EXCEPT !.entries[e].state = state]
    BY <1>4, <1>8, <1>14
  <2>2. b2 = [b1 EXCEPT !.entries[e].retryable = retryable]
    BY <1>8, <1>15, <1>16
  <2>3. b3 = [b2 EXCEPT !.entries[e].accepted = now1]
    BY <1>8, <1>18, <1>19
  <2>4. box' = [box EXCEPT !.entries[e].state = state, !.entries[e].retryable = retryable,
                           !.entries[e].accepted = @ \/ accepted]
    BY <1>2, <1>4 DEF Result
  <2>5. box' = [b2 EXCEPT !.entries[e].accepted = @ \/ accepted]
    BY <2>1, <2>2, <2>4
  <2>6. b2.entries[e].accepted = b.entries[e].accepted
    BY <1>9, <1>10, <1>18
  <2>7. box' = [b2 EXCEPT !.entries[e].accepted = b.entries[e].accepted \/ accepted]
    BY <2>5, <2>6
  <2> QED
    BY <1>7, <2>3, <2>7, Zenon
<1>23. /\ SameButEntries(b, b3) /\ SameLog(b, b3) /\ b3.ready = b.ready
  BY <1>15, <1>18, <1>21 DEF SameButEntries, SameLog
<1>24. \A i \in 1..Len(b.entries) \ {e} : b3.entries[i] = b.entries[i]
  BY <1>15, <1>18, <1>21
<1>25. ServiceInv'
  <2>1. now \in Times /\ faults \in 0..MaxFaults
    BY DEF AlertsInv, ServiceInv, ServiceTypes
  <2>2. \A r \in Runs : worker[r].pc # "appending"
    BY <1>6, EmailAlertsAssumption, NobodyAppends DEF AlertsInv
  <2> QED
    BY <1>1, <2>1, <2>2, QuietStepKeepsService DEF AlertsInv
<1>26. CursorFollows' /\ HealthFollows' /\ BoxOK(box)' /\ CollectorFollows'
  BY <1>1, <1>4, <1>21, <1>22, <1>23
  DEF AlertsInv, CursorFollows, HealthFollows, CollectorFollows, SameLog, BoxOK
<1>27. SenderFollows'
  <2>1. Sender # None
    BY EmailAlertsAssumption
  <2>2. snd' \in [pc : {"idle", "claimed", "sending"}, entry : Nat] /\ snd'.pc = "idle"
    BY <1>3 DEF IdleSender
  <2> QED
    BY <1>3, <2>1, <2>2 DEF SenderFollows
<1>28. NotMadeReady
  BY <1>4, <1>22, <1>23, Zenon DEF NotMadeReady
<1>29. ASSUME NEW i \in DOMAIN box.entries, box'.entries[i].accepted, ~ box.entries[i].accepted
       PROVE  EntryIsCurrent(i)
  <2>1. i = e
    BY <1>4, <1>5, <1>22, <1>24, <1>29
  <2>2. MayStillBeSent
    BY <1>13, <1>15, <1>18, <1>21, <1>22, <1>29, <2>1
  <2> QED
    BY <1>1, <1>4, <2>1, <2>2, SendingIsCurrent
<1> QED
  BY <1>25, <1>26, <1>27, <1>28, <1>29 DEF AlertsInv

\* A sender that is killed gives back the fence.
LEMMA SenderDiesKeepsAlerts ==
    ASSUME AlertsInv, SenderDies
    PROVE  AlertsInv' /\ NothingAccepted /\ NotMadeReady
<1>1. /\ snd' = IdleSender /\ fence' = IF fence = Sender THEN None ELSE fence
      /\ now' = now /\ log' = log /\ marker' = marker /\ journal' = journal /\ sup' = sup
      /\ worker' = worker /\ due' = due /\ box' = box /\ col' = col /\ Fault
  BY DEF SenderDies
<1>2. ServiceInv'
  <2>1. now \in Times /\ faults' \in 0..MaxFaults
    BY <1>1, FaultsCounted DEF AlertsInv, ServiceInv, ServiceTypes
  <2>2. \A r \in Runs : worker[r].pc = "appending" => fence' = r
    BY <1>1, EmailAlertsAssumption DEF AlertsInv, ServiceInv, WorkerFollows
  <2> QED
    BY <1>1, <2>1, <2>2, QuietStepKeepsService DEF AlertsInv
<1>3. CursorFollows' /\ HealthFollows' /\ BoxOK(box)' /\ CollectorFollows'
  BY <1>1 DEF AlertsInv, CursorFollows, HealthFollows, CollectorFollows, BoxOK
<1>4. SenderFollows'
  <2>1. SenderFollows /\ Sender # None
    BY EmailAlertsAssumption DEF AlertsInv
  <2>2. snd' \in [pc : {"idle", "claimed", "sending"}, entry : Nat] /\ snd'.pc = "idle"
    BY <1>1 DEF IdleSender
  <2> QED
    BY <1>1, <2>1, <2>2 DEF SenderFollows
<1> QED
  BY <1>1, <1>2, <1>3, <1>4 DEF AlertsInv, NothingAccepted, NotMadeReady

-----------------------------------------------------------------------------
(***************************************************************************)
(* The theorems of the alerts.                                             *)
(***************************************************************************)

\* The initial state.
LEMMA InitAlertsInv == Init => AlertsInv
<1> SUFFICES ASSUME Init
             PROVE  AlertsInv
  OBVIOUS
<1>1. /\ ServiceInit /\ box = EmptyBox /\ col = IdleCollector /\ snd = IdleSender
      /\ log = <<>> /\ journal = NoJournal /\ due = {} /\ fence = None
  BY DEF Init, ServiceInit
<1>2. ServiceInv
  BY <1>1, InitServiceInv
<1>3. 0 \in Times /\ NoJournal \in Journals /\ NoJournal.seq = 0
  BY NoJournalWellFormed, SignalServiceAssumption DEF Times, WellFormed, NoJournal
<1>4. NoStream \in Streams /\ NoStream.active = 0 /\ NoStream.key = None
  BY <1>3 DEF NoStream, Streams
<1>5. /\ EmptyBox.cursor = 0 /\ EmptyBox.last = None /\ EmptyBox.stream = NoStream
      /\ EmptyBox.entries = <<>> /\ EmptyBox.events = 0 /\ EmptyBox.reported = {}
  BY DEF EmptyBox
<1>6. EmptyBox \in Boxes
  BY <1>4 DEF EmptyBox, Boxes
<1>7. BoxOK(box)
  BY <1>1, <1>4, <1>5, <1>6 DEF BoxOK
<1>8. CursorFollows /\ HealthFollows
  BY <1>1, <1>3, <1>5 DEF CursorFollows, HealthFollows
<1>9. CollectorFollows
  BY <1>1, <1>3 DEF CollectorFollows, IdleCollector
<1>10. SenderFollows
  BY <1>1, EmailAlertsAssumption DEF SenderFollows, IdleSender
<1> QED
  BY <1>2, <1>7, <1>8, <1>9, <1>10 DEF AlertsInv

\* One step: the invariant is kept, only Send makes an entry accepted, and
\* only Collect makes the source ready.
StepIsSound ==
    /\ AlertsInv'
    /\ \A i \in DOMAIN box.entries :
          box'.entries[i].accepted /\ ~ box.entries[i].accepted => EntryIsCurrent(i)
    /\ box'.ready /\ ~ box.ready => col.holder = journal.run /\ journal.last.run = journal.run

\* A step that neither accepts an entry nor makes the source ready.
LEMMA QuietIsSound ==
    ASSUME AlertsInv', NothingAccepted, NotMadeReady
    PROVE  StepIsSound
BY DEF StepIsSound, NothingAccepted, NotMadeReady

\* Every step, one by one.
LEMMA NextIsSound ==
    ASSUME AlertsInv, [Next]_vars
    PROVE  StepIsSound
<1>1. CASE /\ ServiceNext
           /\ col' = IF journal' = journal THEN col ELSE SnapshotBroken(col, journal')
           /\ UNCHANGED <<box, snd>>
  BY <1>1, ServiceStepKeepsAlerts, QuietIsSound
<1>2. CASE StartCollect \/ Probe
  BY <1>2, SnapshotKeepsAlerts, QuietIsSound
<1>3. CASE Collect
  BY <1>3, CollectKeepsAlerts DEF StepIsSound, NothingAccepted
<1>4. CASE SourceUnavailable
  BY <1>4, SourceUnavailableKeepsAlerts, QuietIsSound
<1>5. CASE ObservationUnavailable
  BY <1>5, ObservationUnavailableKeepsAlerts, QuietIsSound
<1>6. CASE ReconcileHealth
  BY <1>6, ReconcileHealthKeepsAlerts, QuietIsSound
<1>7. CASE Claim
  BY <1>7, ClaimKeepsAlerts, QuietIsSound
<1>8. CASE Prepare
  BY <1>8, PrepareKeepsAlerts, QuietIsSound
<1>9. CASE Send
  BY <1>9, SendKeepsAlerts DEF StepIsSound, NotMadeReady
<1>10. CASE SenderDies
  BY <1>10, SenderDiesKeepsAlerts, QuietIsSound
<1>11. CASE UNCHANGED vars
  <2>1. UNCHANGED serviceVars /\ box' = box /\ col' = col /\ snd' = snd
    BY <1>11 DEF vars
  <2>2. ServiceInv'
    BY <2>1, ServiceStutters DEF AlertsInv
  <2>3. /\ log' = log /\ marker' = marker /\ journal' = journal /\ fence' = fence /\ due' = due
    BY <2>1 DEF serviceVars
  <2>4. CursorFollows' /\ HealthFollows' /\ BoxOK(box)' /\ CollectorFollows'
    BY <2>1, <2>3 DEF AlertsInv, CursorFollows, HealthFollows, CollectorFollows, BoxOK
  <2>5. SenderFollows'
    BY <2>1, <2>3 DEF AlertsInv, SenderFollows
  <2> QED
    BY <2>1, <2>2, <2>4, <2>5, QuietIsSound DEF AlertsInv, NothingAccepted, NotMadeReady
<1> QED
  BY <1>1, <1>2, <1>3, <1>4, <1>5, <1>6, <1>7, <1>8, <1>9, <1>10, <1>11 DEF Next

\* The invariant of the service and of the alerts on top of it, in every
\* reachable state (collect, deliver, HealthStore and the workers).
THEOREM SpecAlertsInv == Spec => []AlertsInv
<1>1. AlertsInv /\ [Next]_vars => AlertsInv'
  BY NextIsSound DEF StepIsSound
<1> QED
  BY <1>1, InitAlertsInv, PTL DEF Spec

\* Every variable has its type, and the cursors of the database stay within
\* the log and the journal (EmailAlerts.collect).
THEOREM SpecTypeOK == Spec => []TypeOK
<1>1. AlertsInv => TypeOK
  <2> SUFFICES ASSUME AlertsInv
               PROVE  TypeOK
    OBVIOUS
  <2>1. /\ now \in Times /\ faults \in 0..MaxFaults /\ log \in Seq(Cycles) /\ marker \in BOOLEAN
        /\ journal \in Journals /\ Valid(journal) /\ Len(journal.events) <= EventLimit
    BY DEF AlertsInv, ServiceInv, ServiceTypes, WellFormed
  <2>2. sup.pc \in {"off", "begun", "idle", "refreshing", "scanning", "stopping"}
        /\ \A r \in Runs : worker[r].pc \in WorkerSteps \cup {"none", "done"}
    BY DEF AlertsInv, ServiceInv, ServiceTypes, Supervisors, WorkerRecords
  <2>3. sup.pc \in {"refreshing", "scanning"} => worker[sup.run].pc # "none"
    BY DEF AlertsInv, ServiceInv, WorkerFollows
  <2>4. ServiceTypeOK
    BY <2>1, <2>2, <2>3 DEF ServiceTypeOK
  <2>5. /\ box.entries \in Seq(Entries) /\ box.stream.active \in 0..Len(box.entries)
        /\ (box.stream.active = 0) = (box.stream.key = None)
    BY BoxTypes DEF AlertsInv, BoxOK
  <2>6. box.cursor \in 0..Len(log) /\ box.events <= journal.seq
    BY DEF AlertsInv, CursorFollows, HealthFollows
  <2>7. col.pc \in {"idle", "probe", "confirm", "unreadable", "lost"}
    BY DEF AlertsInv, CollectorFollows
  <2>8. /\ snd.pc \in {"idle", "claimed", "sending"} /\ (fence = Sender) = (snd.pc = "sending")
        /\ fence \in Runs \cup {Sender, None}
    BY DEF AlertsInv, SenderFollows
  <2> QED
    BY <2>4, <2>5, <2>6, <2>7, <2>8 DEF TypeOK
<1> QED
  BY <1>1, SpecAlertsInv, PTL

\* Of all runs at most one has a worker, the one the journal names, also
\* while consumers take the fence (SignalService._phase).
THEOREM SpecWorkersAlone == Spec => []WorkersAlone
<1>1. AlertsInv => WorkersAlone
  BY ServiceInvIsAlone DEF AlertsInv
<1> QED
  BY <1>1, SpecAlertsInv, PTL

\* An entry that may have reached its reader is the active one or its
\* withdrawal is mailed (_invalidate).
THEOREM SpecAcceptedIsActiveOrWithdrawn == Spec => []AcceptedIsActiveOrWithdrawn
<1>1. AlertsInv => AcceptedIsActiveOrWithdrawn
  <2> SUFFICES ASSUME AlertsInv
               PROVE  AcceptedIsActiveOrWithdrawn
    OBVIOUS
  <2>1. DOMAIN box.entries = 1..Len(box.entries)
    BY BoxTypes DEF AlertsInv
  <2> QED
    BY <2>1 DEF AlertsInv, BoxOK, AcceptedIsActiveOrWithdrawn
<1> QED
  BY <1>1, SpecAlertsInv, PTL

\* Every fault, recovery and stop up to the health cursor became a notice,
\* however long the consumer stayed away (events_since).
THEOREM SpecNoEventIsSkipped == Spec => []NoEventIsSkipped
<1>1. AlertsInv => NoEventIsSkipped
  BY DEF AlertsInv, HealthFollows, NoEventIsSkipped
<1> QED
  BY <1>1, SpecAlertsInv, PTL

\* An entry is accepted only while it is what log and journal last told of,
\* the service lives and the review goes on (_prepare_entry, deliver).
THEOREM SpecSentEntryIsCurrent == Spec => SentEntryIsCurrent
<1>1. AlertsInv /\ [Next]_vars =>
         [\A i \in DOMAIN box.entries : box'.entries[i].accepted /\ ~ box.entries[i].accepted =>
            /\ log # <<>> /\ ~ marker
            /\ log[Len(log)].outcome = box.entries[i].signal
            /\ journal.last.cycle = log[Len(log)]
            /\ journal.last.run = sup.run /\ now \in journal.updated..journal.deadline
            /\ now < box.entries[i].at + Review]_vars
  BY NextIsSound DEF StepIsSound, EntryIsCurrent
<1> QED
  BY <1>1, SpecAlertsInv, PTL DEF Spec, SentEntryIsCurrent

\* The source becomes ready only for a cycle of the very run that held the
\* liveness lock between two equal reads of the journal (HealthStore.snapshot).
THEOREM SpecReadyIsEndorsed == Spec => ReadyIsEndorsed
<1>1. AlertsInv /\ [Next]_vars =>
         [box'.ready /\ ~ box.ready =>
            /\ col.holder = journal.run
            /\ journal.last.run = journal.run]_vars
  BY NextIsSound DEF StepIsSound
<1> QED
  BY <1>1, SpecAlertsInv, PTL DEF Spec, ReadyIsEndorsed
=============================================================================
