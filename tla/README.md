# TLA+ models of mu_strategy

This directory holds the formal models of the parts of `mu_strategy` whose
correctness depends on the order of things: processes that interleave on a
SQLite file, appends that a crash interrupts, results that arrive late.  Each
module is translated from the Python source; `PROJECT.json` names, for every
definition, the lines it stands for.

Contents: [the system](#the-system) - [what makes it hard](#what-makes-it-hard) -
[modules](#modules) - [runs](#runs) - [proofs](#proofs) -
[what the models show](#what-the-models-show) - [limits](#limits) - [plan](#plan)

## The system

The program watches a list of perpetual swaps, evaluates a Fibonacci entry
strategy on trusted candles, records what it saw, mails reminders to the person
who trades, and keeps the tables from which a later stage will place orders
itself.  Its parts, with the state each keeps (paths are under `src/mu_strategy/`):

| part | source | state | operations | correct when | module |
|---|---|---|---|---|---|
| Execution store | `execution/store.py`, `audit.py` | SQLite tables `intents`, `action_selections`, `reservations`, `audit_events` | `record_intent`, `reserve_mutation`, `transition_reservation`, `load_*`, `read_events` | a reserved action never changes its revision; one mutation key, one broker request; the audit stream replays the tables | ExecutionStore, ActionFence |
| Order intents | `execution/intents.py`, `plan.py` | none: values and their fingerprints | `classify_intent_revision`, the factories | what counts as a new revision | ExecutionStore (classification only) |
| Execution dispatch | not built yet; the store's states and `docs/execution-roadmap.md` describe it | memory of a dispatcher process | claim, transport, report, recover, retry | no order is sent twice, the stored state never understates what was sent | ExecutionDispatch |
| Observation log | `observations.py`, `file_locks.py`, `fs_durability.py` | `observations.jsonl`, `.invalid`, `.lock` | `append_cycle`, `read_cycles`, `read_batch` | what was acknowledged survives a crash and is read; what was read never disappears | ObservationLog |
| E-mail outbox | `notifications/store.py`, `smtp.py`, `service.py` (`deliver`) | tables `outbox`, `delivery_history` | `enqueue`, `suppress`, `claim`, `finish`, `defer_unstarted`, `resolve`, `retry_failed` | no mail is accepted twice unless an operator errs; at most three bodies per row; no body for a suppressed row | EmailOutbox |
| Alert collection | `notifications/service.py`, `commands/email_alerts.py` | tables `streams`, `metadata`, `consumed_cycles` | one polling transaction (`collect`), `source_unavailable`, `observation_unavailable`, `reconcile_health`, `_prepare_entry` | a stale entry is never mailed; a mailed entry that ends is withdrawn by mail; no service event is passed over | EmailAlerts |
| Signal service | `signal_service.py`, `service_health.py` | `health.json`, `service.lock`, `supervisor.lock` | `run`, `_cycle`, `_phase`, `recover_interrupted`, `snapshot` | workers are never doubled; a snapshot never mixes two runs | SignalService |
| Scan cycle | `scan_cycle.py`, `readonly_scan.py`, `stage0.py` | one pass in memory | `scan_symbol`, `observations` | one typed observation per symbol whatever fails | SignalService (its outcome) |
| Trusted market data store | `market_data/trusted_data/store.py`, `validation.py`, `contracts.py` | `segments/`, `generations/`, `current.json` | `write_segmented_dataset`, `commit_generation_publication`, reading by segment | a published generation always verifies, also after a crash | TrustedStore, SnapshotRegister |
| Refresh and load | `market_data/trusted_data/refresh.py`, `load.py`, `evaluate.py`, `windowing.py`, `policy.py` | none of its own | `execute` of either | a reader sees one complete generation | TrustedStore |
| Artifact publication | `research/strategy_artifact_publication.py` | artifact, pending marker, commit witness, temporary file | publish, recover, read | an artifact once committed is never lost or replaced | ArtifactPublication, WriteOnce |
| Strategy releases | `research/strategy_releases.py`, `commands/promote_strategy_release.py` and the commands around it | candidate and release files | build, capture of an approval, promotion, resolution | only what was reviewed is resolved | StrategyReleases |
| Manual positions | `manual_positions.py`, `position_management.py` | tables of fill, state and management revisions | `save`, `save_state`, `save_management` | replay never oversells; a retried form counts once; a confirmation goes stale with its facts | ManualLedger |
| Demo trading | `demo_trading.py`, `live/okx.py`, `commands/okx_demo_loop.py` | none of its own; the broker's orders | `run_once` | no duplicate exposure, the limit is kept | DemoTrading |
| Backtest and position rules | `backtest.py`, `strategies/position_rules.py`, `live_exit.py` | a position in memory | per-candle step, `tighten_stop`, `decide_pyramid_add`, `evaluate_exit` | stops only rise, the observers agree with the backtest | BacktestPosition |
| Signals and entry scan | `strategy.py`, `entry/scanner.py`, `indicators.py` | none | pure functions of candles | the scan asks for the order the backtest has pending | EntryOrders |
| Trading calendar | `core/trading_calendar.py` | a table of sessions | `is_open` | - | none: an input of two modules |
| Signal review pages | `signal_review*.py`, `signal_feedback.py`, `viz/` | one feedback file | rendering, one append | - | none: presentation |
| Research and reports | `experiments/`, `walk_forward.py`, `reporting.py` | none | batch computations, HTML | - | none: out of reach (floating point) |

How they interact: a supervisor runs a refresh child and a scan child one after
the other.  The refresh publishes a generation of market data, the scan reads it
and appends one cycle to the observation log, and the supervisor then writes the
health journal; both writes take the lock `observations.jsonl.lock`, called the fence
in the models.  A separate
process polls log and journal, turns them into outbox rows, and sends under the
same lock.  The manual ledger reads outbox events as the source of a position.
The execution store is called by nobody yet; its methods carry the whole contract.

## What makes it hard

Two processes share a SQLite file and commit between each other's statements;
readers of files take no lock; a process may be killed, and the machine may stop,
between any two system calls; a network call ends without an answer; an answer
arrives after somebody else has written the attempt off.  `PROJECT.json` lists
these hazards at the lines where they bite, with the properties that cover them.

## Modules

**ExecutionStore** models `SQLiteExecutionStore`.  The variables `intents`,
`selections`, `reservations` are sets of rows, `audit` maps an action to its event
sequence, and `reader` holds calls of `load_action_selection` in progress.

* A writing method is one `BEGIN IMMEDIATE` transaction: a call that succeeds is one
  step, a call that is refused, or dies before `COMMIT`, is none.  `RecordIntent` is
  the disjunction of the three outcomes of `record_intent` (created, reused,
  superseded); `ReserveMutation` and `TransitionReservation` are the paths of the
  other two that write.  Their guards are the checks that raise.
* Callers are not processes here: any legal call may come at any time, so every
  caller that works from an old copy is covered.
* A revision is named by its fingerprint, and the functions `ActionOf`, `LeverageOf`
  give what the fingerprint covers.  A mutation id is the record of its hash inputs,
  so equal ids mean equal inputs; the digest that the code does truncate, the client
  order ID, is `ClientIdOf`, which may collide.
* `load_action_selection` opens a connection and no transaction, so it is two steps
  (`ReadSelection`, `ReadBindings`) with anything in between.  The same helper called
  inside a transaction is the predicate `SelectionBound`.

**ActionFence** is the promise behind it: per action a register whose value changes
only under the next version, until it is locked.  `ExecutionStore!Fence` instantiates
it with the selection rows (`fenceChoice`, `fenceVersion`, `fenceLocked`).

**ExecutionDispatch** EXTENDS the store with the processes its states were made for:
dispatchers that claim, hand over to the broker, report, crash, hang; a recovery that
classifies an attempt as unknown although its dispatcher may still run; an operator
who invalidates or retries.  A report may be repeated under its event id because its
answer was lost.  These processes are not in the repository; they are external and
use only the store's methods.

**ObservationLog** models `JsonlObservationRepository` on a file system with a cache
(`cache`: what running processes see) and a durable part (`disk`).  Each system call
of `append_cycle` that matters for durability or visibility is an action of a writer:
directory creation (before the lock), marker, its fsync, fsync of created directories,
the line in two pieces, fsync of the file, fsync of a new directory entry, unlink of
the marker, fsync.  `Raise` is an `OSError` at any of them, with the attempt to restore
the marker where the code makes one; `Die` is a kill; `Crash` keeps, of everything not
fsynced, any part; `Repair` is the operator's.  `read_batch` takes no lock and is
`StartRead`, `ReadLine`, `EndOfBatch`, `RejectRead`, `ReturnBatch`.

**EmailOutbox** models table `outbox` of `NotificationStore`, the senders that run
`EmailAlerts.deliver` on it, `SmtpTransport.send`, and the operator.

* `deliver` works on a row in two transactions.  `Claim` is the first and commits the row
  as unknown with its attempt counted.  The second looks at the row again: `Skip`,
  `Defer` and `Drop` are the ways it ends without transport (each one step, since nothing
  else can happen inside a transaction), `Open` is the way it goes on, holding `lock`, the
  write lock of the database, through `FailBeforeBody` or `SendBody` until `Finish`.
* `SendBody` is the body and its reply at once, because no other step can see the time
  between them: the server takes the message or not (`taken`), and the sender hears the
  truth, nothing, or, with `UnreadableReply`, a line without a code.
* `Die` is a kill, or `database is locked` after sqlite3's timeout, at any point; it rolls
  back the open transaction.  `bodies` and `accepted` count what reached the server, and
  exist in the model only.
* The operator's `Resolve` follows the documentation: the outcome is what really happened
  at that moment.  `RetryFailed` asks for no evidence, as in the code.
* Time is the question whether `next_attempt_ms` has passed (`due`, `Elapse`).  What
  `_prepare_entry` finds in log and journal is open: it may defer, drop or go on at will.

**SignalService** models the supervisor with its child processes, the health journal,
the liveness lock and the observation log as far as the service sees it.

* `journal` is `health.json`, replaced atomically; `sup` is the supervisor with the state it
  has in memory, `worker` the child of each run (an orphan keeps its run number), `fence` the
  holder of `observations.jsonl.lock`.  `TryWrite` is `HealthStore.write` with its outcomes:
  written, refused by the validation (which happens after the clock went back), or failed
  before or after the file became visible; the last three stop the supervisor.
* `Begin`, `Supervise`, `StartRefresh`, `StartScan`, `FinishCycle`, `Stop` are `run`, `_cycle`
  and `_phase` in the order of the code: the phase is written before the child exists, the
  journal of a run before the liveness lock is held.  `Interrupt`, `Kill`, `TimeOut`,
  `RollBack` are what comes from outside, each a counted fault; `Recover` is
  `recover_interrupted`, done by an operator who has seen that the workers ended.
* `Runtime` and `Healthy` are `health_view`.  `ServiceSpec` is the service alone.

**EmailAlerts** EXTENDS it with the two halves of `EmailAlerts`: `collect` and the last
decision of `deliver`.

* The collector reads the log (`StartCollect`), then a snapshot of the journal: a read, a probe
  of the liveness lock, a second read (`Probe`, `Collect`).  A journal never is the same
  twice, so a write in between is what the second read finds (`SnapshotBroken`).  `Collected`
  is the transaction: `Observe` folded over the new cycles (stream rebase, order checks,
  `Decide`), `HealthEvents`, expiry, and the withdrawal if the source is lost.
* `SourceUnavailable`, `ObservationUnavailable`, `ReconcileHealth` are the other three
  transactions.  `Prepare` is `_prepare_entry` under the fence, with its five ends; `Send`
  the conversation while fence and database are held.
* `box.reported` and `due` exist in the model only: events that became a notice, events that had to.

**TrustedStore** models one series of one symbol on disk, with the refreshers that grow it and
the readers that take no lock.

* A run of candles is a function from consecutive times to versions; `files` and `pointer`
  are what processes see, `disk` and `diskPointer` what a machine crash leaves.
* A refresh is `Start` (pin the current generation), `Fetch` (reuse the prior data, or fetch what is missing,
  or everything), `Enter` (the lock of the dataset), per month `WriteMonth` or `RefuseMonth` and `SyncSegment`, then
  `FinishSegments`, `Verify`, `ReplaceCurrent`, `SyncCurrent`.  `MayCreate` and `MayGrow` are the checks of
  `write_segmented_dataset`: a prefix stays, a month is adjacent to its neighbours, partial
  and canonical files of one month agree.
* A load is `OpenContext` and one `ReadSegment` per reference.  `Tick` and `Correct` are the
  exchange: another candle, and one that it changes afterwards.

**SnapshotRegister** is the promise behind it: a register that names one complete generation;
a reader gets exactly the rows of the generation it pinned or nothing; a restart may bring back an earlier
one.  `TrustedStore!Register` is the instance.

**ArtifactPublication** models every call of publish and recover as a process with one action per
system call, in the order of the code, from the look at the witness to the removal of the marker and its restoration when
that fails.  A file is named by the call that created it; `fs` says what each directory entry
names, `disk` what it names if the machine stops, and `Survivors` what may be left.  Two publishers may be at any two steps.
`Read` is `_read_committed_artifact` between them.  **WriteOnce** is the promise: a path is bound
to one content once; a success or an answer is about that content.

**ManualLedger** models the three tables of the ledger as sequences, and the pages that
write to them.  A page (`OpenCreate`, ..., `OpenManagement`) fixes what the operator saw as the
lengths of the tables at that moment; `Save`, `SaveState`, `SaveManagement` are its submission, at any
later time and again and again.  `Replays` is `_project`; `Reviewable` the gate of `review_position`.

**DemoTrading** models `run_once` call by call: `ReadPositions`, `ReadOrders`, `ScanSymbol`, `Expire`
(with `ExpireRefused`, `ExpireLost`), `Place` (with `PlaceLost`, `PlaceBlocked`), `FinishRound`, `Abort`.  The account moves between
any two of them: `Fill`, `PartialFill`, `Close`.

**EntryOrders** puts side by side the pending order of a second pullback in
`run_backtest` (`FillEntry`, `KeepWaiting`, `LookForSignal`, `Manage`) and its derivation from
the candles alone in `scan_entry` (`Scan`), for the same candles.

**BacktestPosition** follows one position candle by candle (`EnterPosition`, `HoldPosition`,
`ExitPosition`) under every stop tightening, with integer prices and quotients rounded down.
`ConfirmState` takes the snapshot that the rule review holds against every later candle, with the leverage and the stop the operator confirms; `Observed` is what
`observe_okx_position` derives from an exchange row.

**StrategyReleases** models building, review, promotion and resolution.  The reviews of the pull request
change between the two reads of `capture_verified_approval` (`ReadCandidate`, `FetchPullRequest`, `FetchReview`,
`PublishRelease`); candidate and release files may be edited or copied by hand (`EditedCandidates`, `EditedReleases`, `FoundFiles`).  A digest is the content it was computed from.

**MCTradingComponents** checks the last six side by side.  They share no variable and call
each other never while an operation is under way, so a behaviour belongs to one of them and the others stay in an initial state.

**ExecutionStoreProofs**, **ExecutionDispatchProofs**, **EmailOutboxProofs**, **ObservationLogProofs**, **TrustedStoreProofs**,
**ArtifactPublicationProofs**, **EmailAlertsProofs** (signal service and alerts) and **TradingProofs** (demo loop, entry scan,
backtest position, manual ledger and releases) hold the theorems.

The other MC modules only give constants their values and bounds.  Definitions whose comment starts
with "Variant:" are not part of any specification: each is a definition of the model
with a plausible mistake in it, used to see that a property would notice.

## Runs

| run | module | states | shows |
|---|---|---|---|
| `execution_store_tables` | MCExecutionStore | 0.9 M | five calls in any order on two actions (one with two revisions), one lineage, two cancel reasons, colliding client order IDs, one reader: tables consistent and replayable, `ActionFence` implemented |
| `execution_store_torn_read` | MCExecutionStore | counterexample | `load_action_selection` reports corruption that is not there |
| `execution_dispatch` | MCExecutionDispatch | 5.5 M | two dispatchers, one action with two revisions, eight events: at most one transport, the state never understates |
| `observation_log` | MCObservationLog | 0.17 M | two writers, three cycles, batches of two, two crashes: what was acknowledged survives and is read |
| `observation_log_new_directory` | MCObservationLog | counterexample | an acknowledged cycle without a durable directory |
| `email_outbox` | MCEmailOutbox | 1.3 M | two senders, two rows of either kind, three attempts, one deferral, an operator |
| `email_outbox_unreadable_reply` | MCEmailOutbox | counterexample | a row says failed although its mail was accepted |
| `email_alerts` | MCEmailAlerts | 5.6 M | service, collector and sender together: no doubled worker, no stale entry mailed, every ended entry withdrawn, no event passed over, no snapshot of two runs |
| `trusted_store` | MCTrustedStore | 0.9 M | two refreshers, a reader, three generations: what was published reads back, a closed month is complete, `SnapshotRegister` implemented |
| `trusted_store_unsynced_segment` | MCTrustedStore | counterexample | the current generation refers to a file that is not durable |
| `trading_components` | MCTradingComponents | 1.2 M | publication (implements `WriteOnce`), ledger, demo loop, entry orders, positions and releases, each alone |
| `demo_trading_over_limit` | DemoTrading | counterexample | a round that starts over the limit places another order |

*Bounds.*  `EventIds` bounds the successful calls of the store: five are a record, a
supersession, two reservations and a transition, or the shortest ways to two cancels
of a lineage, to a reservation next to a stale reader, and to colliding orders.  The
dispatch run has eight, enough for record, reserve, claim, a report "not sent", retry,
a second claim, and the late report of the first attempt.  Event ids are handed out in
order in the MC modules, which loses nothing: the store compares them for equality
only.  In the log, two writers and three cycles give an append next to a failed one
and a later successful one, a batch limit of two makes a cursor fall inside the log,
and a second crash meets what the first one left.  In the outbox, three attempts are the
number in the code; two senders are one that works and one that claims, dies or resumes
around it; two rows are one that waits and one that stands before it.

In `email_alerts`, two signals let one replace the other; one fault (a kill, an interrupt, a timeout, a
failed write, a failed worker, a blocked scan or a clock set back) next to a tick of the clock is the
shortest way to each hazard, and two runs are a restart.  `MaxTime` bounds time and faults together, and
`RunsAndCycles` allows three cycles in one run or two cycles over two runs.  The journal keeps two events
(100 in the code), so that a consumer falls behind; `Review` is two units, so that a reminder expires within the run and another does not.

In `trusted_store`, months of two candles give a boundary at every second candle, three
generations a refresh on top of a refresh on top of a first one; `Budget` trades the number of months
against faults and corrections.  Every refresh of the run asks for the same number of days, because with several the states are too many;
the theorems of `TrustedStoreProofs` are for any `DaysChoices`.  In `trading_components`: two calls of publish or recover with
their own contents and two faults, enough for a failed cleanup and a crash, or two crashes; four forms on two positions (open, append,
and the two confirmations, or two stale ones); three symbols for two places; five candles for a waiting time of two, so
that an order lives, expires or fills and another comes; prices around an entry at 1000 on which every rule and all additions happen;
a confirmed leverage below, at and above the configured one (`ActualLeverages`) and a confirmed stop below or above the carried one (`ConfirmedStops`);
two commits, one written by the reviewer, one edit of a file, one release.  `MaxRegained` is 0 there: a cancel of a cycle that
started over the limit happens in `demo_trading_over_limit` only.

*Symmetry.*  Dispatchers are interchangeable in the dispatch run, writers and cycles in
the directory run, signals in `email_alerts`, refreshers in `trusted_store` (safety only).  In
`trading_components` the components use the same model values as publishers, contents, positions, signals and symbols,
so that one group of permutations is sound for all.  The runs with a liveness property use none.

*Fairness* is stated by two modules.  In `ObservationLog` a writer that has a system call to make
makes it (weak fairness of `Proceed`), and the reader is polled again and again (weak
fairness of `Read`; the loop of `commands/email_alerts.py` never stops polling).  No
fairness is assumed of `Begin`, `Raise`, `Die`, `Crash` or `Repair`.  Because an append
under way turns a reader away, `AckedIsConsumed` is conditional on the marker being gone
from some point on: a writer busy at each poll may starve the reader, and an
unrepaired marker does so by design.  In `EmailOutbox` each sender that can take a step
takes one (weak fairness of `Deliver`: `commands/email_alerts.py` polls again and again,
and a killed sender is started again) and time passes (weak fairness of `Elapse`).  `Die`
and the operator are not fair, and `MaxDeferrals` is an assumption of the liveness
property: an entry whose source never catches up is deferred until it expires, which this model
leaves to `Drop`.  The other modules state safety only: a service may stop, a refresh may
fail for ever, and nothing in the code retries them.

*Deadlock* is checked where the bounded instance has no end: in the store runs and in those of the log.  In the others all events,
generations, calls or forms may be used up.

## Proofs

The theorems of `ExecutionStoreProofs` hold for all constants that satisfy
`ConstantsAssumption` (the functions are typed, `None` is not a fingerprint); the last one also uses
`NoneAssumption` (`None` is not the identity of a mutation: an event without one is none of a reservation).

* `SpecTypeOK`: `TypeOK` is inductive.  One lemma per action; the length of an audit
  stream and the position in it are never needed, only that appending keeps `Seq`.
* `SpecStoreConsistent`: `TypeOK /\ StoreConsistent` is inductive.  The keys are unique
  because each insertion is guarded by absence; the bindings hold because a selection
  changes only when its action has no reservation (`Classify` with the fence bit), and
  a first reservation sets the bit in the same step.  This is why the bit is needed: without
  it the step that supersedes breaks the binding of an existing reservation.
* `SpecOneLiveCancelPerLineage`, `SpecClientOrderIdsDistinct`: from the same invariant,
  with one argument each for the step that reserves and, for cancels, for the table of
  transitions: `rejected` is terminal, so a cancel that freed the slot never takes it again.
* `SpecReservedAnswerNeverStale`: a row with the bit set is never removed.
* `SpecImplementsFence`: under `StoreConsistent` an action has one row, so the `CHOOSE`
  in the refinement mapping is that row, and each call is a `Select`, a `Lock`, or a stutter.
* `SpecAuditReplaysTables`: each call appends one event to the stream of one action.  `AuditInv` says which event is the last that
  selects (`SelectionsReplayed`) and the last of each mutation (`ReservationsReplayed`), that every event has its rows in the tables, and
  that a stream is coherent: nothing is selected after a mutation, and a change of state starts from the state before it.

The theorems of `EmailOutboxProofs` hold for all constants that satisfy
`OutboxAssumption`.  They rest on one invariant, `ClaimInv`: the types; a row with a
result has had an attempt; a sender's claim is never newer than its row; the sender in
its second transaction has the lock and still holds its claim; no two senders hold the
same attempt of a row.  The last part is what makes the comparison of state and attempt
number enough, and it needs the second and third parts when `defer_unstarted` gives an
attempt back, because the number is then used again: only the newest attempt is ever given
back, by the one sender that holds it.

* `SpecTypeOK`: from `ClaimInv`; the type of `attempts` is the limit `MaxAttempts`.
* `SpecAttemptsCoverBodies`: with `BodyInv`, which says that an attempt held and not yet
  used has been counted.  With the type of `attempts` it is the limit of bodies per row.
* `SpecAcceptedAtMostOnce`, `SpecStateTellsWhatWasAccepted`: with `AcceptInv`, which
  relates the memory of a sender to the server.  Both assume `~ UnreadableReply`; the run
  `email_outbox_unreadable_reply` shows that the second is false without it.
* `SpecSuppressedIsNotSent`: with `OpenInv`; nothing is suppressed while the lock is held.

**`ExecutionDispatchProofs`** needs no further assumption.  Every step of a dispatcher, of the recovery or of the
operator that touches the tables is one call of the store, so `DispatchSpec => Spec` (`DispatchImplementsStore`)
and all theorems about the store hold of the composition.  On top of it, `DispatchInv` says who may still do something about
an attempt: a dispatcher *holds* one while it has claimed it, or has a result whose event id the ledger has not seen.
At most one dispatcher holds a mutation (`OneHolder`); a holder's mutation is in flight in the table and
what the holder knows is true (`HoldersKnow`: claimed means not sent, "not sent" means not sent, an answer means sent);
what was sent has a row (`SentIsReserved`).  A retry needs a state that only a report of "not sent" reaches, and that
report was the holder's last deed: this is why `SpecAtMostOneTransport` and `SpecStateTellsWhatWasSent` hold for any number
of dispatchers and events.  `SpecSentRevisionStaysSelected` combines it with `StoreConsistent`.

**`TradingProofs`** has the theorems of five components of `MCTradingComponents`.  Those of the demo loop assume `DemoAssumption` (the limits are naturals).

* `DemoOneOrderPerSymbol`, for any symbols, signals and limits.  The account moves under the loop, so the
  property is not a guard: the invariant `OrderInv` says that a cycle that may enter anything has read every order that is still pending
  (`OrdersWereSeen`), that it asks for one entry of a symbol and only after scanning it (`EntriesAreScanned`), and carries this
  through fills, refused and lost answers.
* `DemoCountedExposure` is about cardinalities.  Positions are read before orders, and an order that fills in between is seen as neither
  or as both; `PositionsWereOrders` says that a position that appeared since then was an order when the orders were read, or is one that no
  cycle saw (`unseen`).  Hence what was read covers what counts (`CapacityIsLeft`), and what
  counts and the places left together stay within the limit and the places given back (`CountWithin`).  The four are `CountInv`, which is inductive
  next to `OrderInv`.
* `EntryScanAgreesWithBacktest`, for any series of candles, levels and tolerance, assumes
  `WaitBars <= LookbackBars`, which the run satisfies (with a shorter lookback the scan takes the minimum of both and misses
  orders that are still live).  `EntryInv` says that the order of every signal the backtest looked at is pending, has been filled
  within its time, or has expired; the scan's window has exactly the length of that time.

* `BacktestShadowIsExact`, for any prices, rules, margins and thresholds, assumes `BacktestPositionAssumption`; the part of it that
  matters says that the margin of the first stage buys at least one unit at every price (in the code units are fractions and this always
  holds).  `PositionInv` says that a position has its initial stop until its first addition, whatever tightening was applied to it on how many
  candles: no rule reaches a stop at the first stage, and a transition leads from the initial stop to itself (`AtFirstStop`).
* The manual ledger assumes `FormsAssumption` and nothing else.  `LedgerInv` says that a page showed rows that were there
  (`ShownIsPast`), that a fill is named by the page it came from and so belongs to one position (`FillsHavePages`), and that each
  confirmation names the fills and the state its page showed (`StatesHavePages`, `ManagementsHavePages`).  If the newest fill of a
  position is still the one a page showed, no fill of it came since and the replay gives the same: hence
  `LedgerReviewedAsShown`.  `LedgerFormsCountOnce` takes `FormsInv`:
  a correction names the version it was rendered for and is saved only while that version is the latest of its fill, so a version
  is replaced by at most one form, and what the replay takes of a fill is the one form that no other replaces.
* The releases assume `ReleasesAssumption`.  `ReleasesInv` says that an approval nobody edited has the words its reviewer
  submitted (`ReviewsAreSpoken`), and that a promotion at the publishing step, and every release file, holds a snapshot of such an approval with its own
  digest.  A file edited by hand then resolves only if its digest fits, so it has the snapshot that was reviewed:
  `ReleasesResolvedWasReviewed`.  This rests on the digest of a snapshot being injective.

**`ObservationLogProofs`** assumes `LogAssumption` (the batch limit is positive, `None` is not a process).  `LogInv` follows the holder of the
lock through `append_cycle` (`ProgressOf`): at each step of a call it says whether the marker is durable, whether the line is whole and synced, and
whether the directory entry is.  `SpecAmbiguityIsMarked` follows from it: the order of the fsync calls is what
keeps `ChangeIsMarked`.  `SpecConsumedStays` and `SpecAckedSurvives` have the hypothesis `DirectoryThere`, as the run that checks them; without
it the second is false (`observation_log_new_directory`).  `SurvivalInv` adds that acknowledged and consumed cycles are among the
durable lines.  The reader has no lock; a batch under way is a part of the visible log, and its second look at the marker
makes that part durable, because a marker that is absent means that nothing is in doubt.

**`ArtifactPublicationProofs`** assumes `ArtifactPublicationAssumption`: some content exists, and `None` and `Legacy` are neither calls nor
contents.  It is for any number of calls, readers, contents and faults.  `PubInv` has four parts.

* `FilesInv`: what is durable of the final file is what is visible (`FinalIsPart`); a witness, visible or durable, has a whole record and a durable
  final file of its content (`WitnessesProve`); a final file that the protocol installed is bound by a durable witness or by a durable marker
  of its content (`FinalIsBound`).
* `CallsInv`: what each call may rely on at each of its steps.  The marker is a lock that outlives its holder: who is past creating it, or found it after a
  crash, holds it (`MarkerOf`), so what it read of the final file and of the witness stays true (`FinalOf`, `WitnessOf`).
* `Alone`: a call that recovers is the only one running, and no two calls are at the same time about to take back the witness and to remove the marker.
* `ReadersInv`: what a reader has in hand between its looks.

`SpecWitnessProvesFinal` and `SpecNeverLegacyShape` follow from the invariant.  `SpecRecoveryRefusesOnlyConflicts` needs
`RecoveriesInv` besides: a recovery runs alone, so what it found stays as it found it, and whether the witness was there decides which of
its branches it is in (`RecoveryOf`); each of its steps then succeeds unless a fault strikes or the files are `Irrecoverable`.  `SpecImplementsWriteOnce` maps the content of the
durable final file to the register of `WriteOnce`: the step that makes the final file durable binds the path, nothing that happens later, a crash included,
rebinds it, and what is reported or answered is the bound content because `WitnessesProve` relates the witness to it.

**`EmailAlertsProofs`** has the signal service and the alerts on top of it.  It assumes `SignalServiceAssumption` and `EmailAlertsAssumption`
(limits and times are naturals, at least one event is retained, and the names of signals, runs, sender and `None` differ), and is for any signals, number of runs,
faults, retained events and times.

* `ServiceRunsOneWorker` is about the service alone, from `ServiceInv`.  A worker outlives its supervisor, so the argument goes through the journal:
  who works has its run and its phase there (`WorkerFollows`), the supervisor has in memory what the journal says until a write fails
  (`SupervisorFollows`), and a new run is refused while the journal names a phase.  The part about events (`EventsKept`) needs that every write, also the one of
  a supervisor that stops after a failed write, extends the journal: what is still retained of the old events stays at its place (`Extends`).
* `AlertsInv` is `ServiceInv` with what relates log, journal, database, collector and sender.  `BoxOK`: an entry that may have reached
  its reader is active or withdrawn by mail.  `CursorFollows`: the last cycle consumed is the one at the log cursor; that the loop of `collect` keeps this for
  any number of lines is an induction over the position (`ConsumedEffect`).  `HealthFollows`: what is due up to the health cursor is noticed; a gap in
  the journal stops the collection, hence `SpecNoEventIsSkipped`.  `CollectorFollows`: a confirmed snapshot is the journal,
  and if somebody held the lock between its two reads, it was the run it names: hence `SpecReadyIsEndorsed`.
* `SenderFollows`: from `Prepare` to the result, fence and open transaction keep everything the decision was based on.  No writer of log or
  journal goes on without the fence (`JournalGrows`, `LogGrows`), and no collection without the database.  What is left to check before the
  body goes out is the clock and the life of the supervisor, which is what `_source_current_before_data` does: hence `SpecSentEntryIsCurrent`.

**`TrustedStoreProofs`** assumes `TrustedStoreAssumption`: positive times and month length, and `None` is not a generation, a
refresher or the name of a partial file.  It is for any number of refreshers, readers and months, any requested
days, listings and corrections, and several faults.

* `SpecTypeOK`: from `StoreInv`, which is `FileInv /\ GenerationsInv`.  `FileInv` says that stored rows are runs without a gap, and that a
  canonical file starts with its month and another one where its name says (`IsFile`); that what is durable is a consistent part of what is
  visible (`DiskIsPart`); and what a refresher may rely on between `Fetch` and `FinishSegments`: the file in which an incremental candidate begins is there
  (`HasFile`, `HasMonths`), although it was looked at without the lock, and what was evaluated begins with its first reference (`HasSeries`).
  `GenerationsInv` says that a generation belongs to one refresher until it is published, and that the pointers and the pins of readers name published ones.
* `SpecImplementsRegister`: from `StoreInv`.  `ReplaceCurrent` maps to a publication, `OpenContext` and the last `ReadSegment` to the reader's steps, `Crash`
  to a restart; everything else, including a refresher that dies, is a stutter.
* `SpecRepresentationsAgree`: a file only grows by rows that the guard compared with the other files of the month, under the lock; a crash
  leaves a part of what was there.
* `SpecPublishedStayReadable`: `KeptInv`.  A manifest is verified before it is published, and until then its refresher holds what it has
  evaluated (`Holds`).  A file under a manifest only grows at its end, and only while no later month exists; a closed reference is followed by a later
  canonical file (`Linked`), so its file does not grow, and an open one reads a prefix.  Visible and durable files differ in the one file that the
  holder of the lock has replaced and not synced (`OneUnsynced`); no manifest refers to it yet in what it adds.
* `SpecClosedMonthsAreComplete`: `CompleteInv` says it of the visible and of the durable files.  A month is created adjacent to the end of the latest one
  before it, which therefore is complete; and it comes before a later one only if it is complete itself: all months of a candidate but its last are, and for
  the last `LastIsComplete` carries what `NextAdjacent` has seen on entering the lock.

Only model-checked: `ReviewNeverEarlier`.  It rests on the average price, and with it the liquidation risk, not falling when a
position is added to above its anchor.  That is true of the prices the run uses and not of all prices: after a gap of about ten times
the anchor, an addition that is cheaper than an earlier one lowers the average below that of the snapshot.  A theorem would need a
hypothesis on the distance between prices, and induction over the fills for a sum of quotients.
`NoRowWaitsForEver` and `AckedIsConsumed` are liveness, which the prover cannot reach.  The type
invariants of outbox, dispatch and trusted store are proved and therefore not checked by a run.

## What the models show

1. `load_action_selection` may raise `ExecutionStoreInvariantError` on sound tables
   (`execution_store_torn_read`).  Reading inside one transaction, as every other caller
   does, removes the case.
2. The entries of a new log directory are flushed only by the call that created it; when
   that call fails first, cycles acknowledged later may vanish with the directory
   (`observation_log_new_directory`).  `docs/stage0-observations.md:65` promises the
   flush before the cycle is appended.  `HealthStore.prepare` repairs such a directory.
3. A reply to the message body without a reply code is written as `failed`, which
   `docs/email-alerts.md:80` calls definitely not accepted (`email_outbox_unreadable_reply`).
   `smtplib.getreply` reports it as code -1, and `send` takes it for a refusal; the row is
   not retried by itself, but an operator may, without being asked for evidence.
4. A month file that its writer left without a directory sync (killed, or the sync failed) is taken as it is
   by the next refresh, which publishes a generation that refers to it; after a machine crash the current
   generation may not verify (`trusted_store_unsynced_segment`).
   `docs/plans/2026-07-28-trusted-generation-segmented-storage-design.md:263` says that every referenced slice
   was durable.  The properties of `trusted_store` are therefore stated for histories without such a file (`orphaned`).
5. The demo loop counts a partially filled order twice and cuts the remaining capacity off at zero, and every
   confirmed cancel then adds a place: from one over the limit it may place one order more than the limit
   (`demo_trading_over_limit`; `docs/demo-guide.md:64`).
6. Otherwise the components keep what they promise, with remarks a reader of the code may want to know:
   a cancel left `invalidated` holds its lineage's slot for ever (`docs/execution-roadmap.md:466` leaves the question open);
   a returned batch may contain a cycle whose `append_cycle` raised, if its line was
   already durable and the restored marker could not be written;
   a refresh over several months that dies, next to one that asked for fewer days, leaves months without a file between
   canonical ones: what is kept is that a month another one follows is complete (`ClosedMonthsAreComplete`), not that the files
   follow each other;
   `resolve` names a row and no attempt, so that an operator who checked an earlier attempt
   can declare a later one failed, and the guarantee of a single mail ends there;
   a torn strategy marker, or a final file with a second link, is refused by every later recovery until somebody removes it;
   the evidence of a review in a release is protected by its digest only, so that whoever recomputes the digests by hand can change
   it, and `ResolvedWasReviewed` is about files whose snapshot was changed without its digest.

## Limits

*Everywhere.*  Schema checks, JSON, hashing and decimal arithmetic are not modelled; a digest is taken to be
injective except the truncated client order ID.  `_initialize`, and everything a corrupted or foreign
database or file could contain, is left out: the models start from what the code itself creates.
SQLite transactions are atomic and serialised.  fsync is taken to do what it promises.

*Signal service and alerts.*  One symbol; several symbols, changes of the watchlist, a cycle that is in the log twice,
`runtime_changed` notices, a corrupt health file, a machine crash and the repair of a marker are left out, and so are two scans in
the same millisecond.  The operator's `resolve` and `retry_failed` are in EmailOutbox only.

*Trusted store.*  One data set of one symbol and interval.  The import of flat generations, the legacy layout, derived
intervals and the classification of freshness are left out.

*Ledger.*  Prices, labels, units, notes and the choice of a rule template are left out.

*Demo loop.*  A request whose answer was lost was executed at once or never will be; a confirmed cancel is done; nobody else
places orders of the bot.  Leverage, sizes and the dry run are left out.

*Strategy.*  In EntryOrders, scan and backtest see the same indicators, whose values are inputs; entries on the next candle
and the last candle of the data are left out.  In BacktestPosition, fees, equity, the close at the end of the data, an unavailable
calendar and the curves of a stop transition other than the linear one are; a review exists under the baseline rule only, as in the code.
Whoever confirms more leverage than configured, or a higher stop than the strategy carried, gets the earlier exit that follows from it:
`ReviewNeverEarlier` speaks of the other confirmations.

*Releases.*  Publishing is one step (ArtifactPublication has its steps); the state of git is an input, looked at once, after the
modules are loaded; time is in hours; the repository coordinates, record ids, total return, drawdown and case folding
are left out, and so are conclusions over several candidates.

Not modelled: `core/trading_calendar.py` is a table evaluated minute by minute, and its answer is an input; the signal review pages
render what the stores hold; experiments, walk-forward and reports are batch computations in floating point without state between calls.
Two hazards listed in `PROJECT.json` have no property, with the reason there: `resolve` after a slow send, and a
refresh that publishes on top of an older prior.

## Plan

Done: the modules and theorems above.  What would come next, in this order:

1. EmailAlerts with two symbols and a watchlist that changes, and a cycle that the log holds twice.
2. An abstract specification for the outbox (a mail with at most one acceptance, whose state
   is known or unknown), which EmailOutbox implements.
3. The migration of flat generations in TrustedStore.
