---------------------------- MODULE TrustedStore ----------------------------
(***************************************************************************)
(* The trusted market data of one symbol and interval: the shared UTC-month *)
(* segment files, the generations whose manifests freeze slices of them,   *)
(* and the pointer current.json (mu_strategy/market_data/trusted_data:     *)
(* store.py, refresh.py, evaluate.py, windowing.py, load.py).              *)
(*                                                                         *)
(* Refreshers fetch candles, grow the segments under the dataset lock,     *)
(* write and verify a manifest, and replace the pointer.  Readers take no  *)
(* lock.  A file replaced by os.replace is visible at once and durable     *)
(* when its directory is synced: `files' and `pointer' are what processes  *)
(* see, `disk' and `diskPointer' what a machine crash leaves.              *)
(*                                                                         *)
(* A candle is its time and a version of its values; a run of candles is a *)
(* function from consecutive times to versions, and stands for its own     *)
(* hash.  Time 1..Times counts intervals; a month has MonthLength of them. *)
(***************************************************************************)
EXTENDS Integers, FiniteSets, FiniteSetsExt, Sequences

CONSTANTS
    Refreshers, Readers, Generations,
    Times,           \* the last candle there will be
    MonthLength,
    Listings,        \* what may be the first candle the exchange has
    DaysChoices,     \* the days a refresh may ask for
    MaxShortfall,    \* bound on the candles missing at the start of a history
    Correctable,     \* the candles the provider may change, once, afterwards
    MaxFaults,       \* bound on kills, failed directory syncs and machine crashes
    None

ASSUME TrustedStoreAssumption ==
    /\ Times \in Nat \ {0} /\ MonthLength \in Nat \ {0}
    /\ Listings \subseteq 1..Times
    /\ DaysChoices \subseteq Nat \ {0}
    /\ MaxShortfall \in Nat /\ Correctable \subseteq 1..Times /\ MaxFaults \in Nat
    /\ None \notin Generations \cup Refreshers \cup [month : Nat, start : Nat]

VARIABLES
    confirmed,       \* the last candle the provider has confirmed
    listing,         \* the first candle the exchange has
    market,          \* the version of each candle at the provider
    files, disk,     \* the segment files: seen, durable
    pointer, diskPointer,
    manifests,       \* generation -> manifest
    published,       \* generations the pointer ever named
    lock,            \* the refresher in the dataset's writer lock
    refresher, reader,
    faults,
    orphaned         \* a replaced file was left unsynced by its writer

provider == <<confirmed, listing, market>>
store == <<files, disk, pointer, diskPointer, manifests, published, lock>>
trouble == <<faults, orphaned>>
vars == <<provider, store, refresher, reader, trouble>>

-----------------------------------------------------------------------------
(* Candles, months, files                                                  *)

Month(t) == (t - 1) \div MonthLength + 1
Months == 1..Month(Times)

NoRows == <<>>
Lo(rows) == Min(DOMAIN rows)
Hi(rows) == Max(DOMAIN rows)
Part(rows, times) == [t \in DOMAIN rows \cap times |-> rows[t]]

\* What is held, continued by other rows.
Joined(held, rows) ==
    [t \in DOMAIN held \cup DOMAIN rows |-> IF t \in DOMAIN held THEN held[t] ELSE rows[t]]

InMonth(m) == {t \in 1..Times : Month(t) = m}
MonthsOf(rows) == {Month(t) : t \in DOMAIN rows}
MidMonth(t) == Month(t - 1) = Month(t) /\ t > 1

\* Two runs of candles say the same of the times they share.
Agree(a, b) == \A t \in DOMAIN a \cap DOMAIN b : a[t] = b[t]

\* A segment file is the canonical one of a month, or starts in its middle.
Canonical(m) == [month |-> m, start |-> 0]
Partial(m, t) == [month |-> m, start |-> t]
Sources == {Canonical(m) : m \in Months} \cup {Partial(Month(t), t) : t \in 1..Times}

Exists(s) == files[s] # NoRows
CanonicalMonths == {m \in Months : Exists(Canonical(m))}

\* The generation's reference to a slice of a file.
Reference(s, rows, closed) ==
    [source |-> s, start |-> Lo(rows) - Lo(files[s]), rows |-> rows, closed |-> closed]

\* _read_csv_slice and the checks of _read_segmented_dataset on one reference.
ReferenceReads(fs, ref) ==
    LET file == fs[ref.source] IN
    /\ file # NoRows
    /\ Lo(file) + ref.start = Lo(ref.rows)
    /\ Hi(ref.rows) <= Hi(file)
    /\ Part(file, DOMAIN ref.rows) = ref.rows
    /\ ref.closed => Hi(ref.rows) = Hi(file)

\* A source that is not canonical may only be the first, and bears its start.
AllowedSource(manifest, i) ==
    LET ref == manifest.refs[i] IN
    \/ ref.source.start = 0
    \/ i = 1 /\ ref.source.start = Lo(ref.rows) - ref.start

GenerationReads(fs, manifest) ==
    \A i \in DOMAIN manifest.refs :
        AllowedSource(manifest, i) /\ ReferenceReads(fs, manifest.refs[i])

\* Beside the references a manifest has the hash of the whole series.
NoManifest == [refs |-> <<>>, rows |-> NoRows, usable |-> FALSE, days |-> 0, covered |-> FALSE]

\* assess_requested_coverage: one interval of slack at the start.
Covered(rows, days) == Lo(rows) <= Hi(rows) - days + 1

\* prune_candles_to_window
Window(rows, days) == Part(rows, (Hi(rows) - days)..Hi(rows))

-----------------------------------------------------------------------------
(* Processes                                                               *)

IdleRefresher ==
    [pc |-> "idle", gen |-> None, prior |-> NoManifest, days |-> 0, candidate |-> NoRows,
     full |-> FALSE, partial |-> None, listed |-> FALSE, months |-> {},
     usable |-> FALSE, refs |-> <<>>]

IdleReader == [pc |-> "idle", gen |-> None, next |-> 1, rows |-> NoRows]

\* Generations whose directory an unfinished refresh has taken.
Taken == published \cup {refresher[r].gen : r \in Refreshers}

TypeOK ==
    /\ listing \in Listings /\ confirmed \in 0..Times /\ market \in [1..Times -> {0, 1}]
    /\ DOMAIN files = Sources /\ DOMAIN disk = Sources
    /\ \A s \in Sources : \A f \in {files[s], disk[s]} :
           f # NoRows => /\ DOMAIN f = Lo(f)..Hi(f)
                         /\ MonthsOf(f) = {s.month}
                         /\ s.start # 0 => Lo(f) = s.start
    /\ pointer \in published \cup {None} /\ diskPointer \in published \cup {None}
    /\ published \subseteq Generations /\ DOMAIN manifests = Generations
    /\ lock \in Refreshers \cup {None}
    /\ \A r \in Refreshers :
           /\ DOMAIN refresher[r] = DOMAIN IdleRefresher
           /\ refresher[r].gen \in Generations \cup {None}
           /\ (lock = r) <=> refresher[r].pc \in {"month", "sync"}
    /\ \A r \in Readers : reader[r].gen \in published \cup {None}

Init ==
    /\ listing \in Listings /\ confirmed = listing - 1
    /\ market = [t \in 1..Times |-> 0]
    /\ files = [s \in Sources |-> NoRows] /\ disk = files
    /\ pointer = None /\ diskPointer = None
    /\ manifests = [g \in Generations |-> NoManifest]
    /\ published = {} /\ lock = None
    /\ refresher = [r \in Refreshers |-> IdleRefresher]
    /\ reader = [r \in Readers |-> IdleReader]
    /\ faults = 0 /\ orphaned = FALSE

-----------------------------------------------------------------------------
(* The provider                                                            *)

Tick ==
    /\ confirmed < Times
    /\ confirmed' = confirmed + 1
    /\ UNCHANGED <<listing, market, store, refresher, reader, trouble>>

Correct(t) ==
    /\ t \in Correctable \cap (listing..confirmed)
    /\ market[t] = 0
    /\ market' = [market EXCEPT ![t] = 1]
    /\ UNCHANGED <<confirmed, listing, store, refresher, reader, trouble>>

-----------------------------------------------------------------------------
(* Refresh: fetch and evaluate                                             *)

\* A failed refresh leaves what it wrote; its generation is never named.
Abort(r) == refresher' = [refresher EXCEPT ![r] = IdleRefresher]

\* execute: the previous manifest is read once, the generation prepared.
Start(r) ==
    /\ refresher[r].pc = "idle"
    /\ Generations \ Taken # {}
    /\ \E days \in DaysChoices :
         refresher' = [refresher EXCEPT ![r] =
            [IdleRefresher EXCEPT !.pc = "started", !.days = days,
                !.gen = CHOOSE g \in Generations \ Taken : TRUE,
                !.prior = IF pointer = None THEN NoManifest ELSE manifests[pointer]]]
    /\ UNCHANGED <<provider, store, reader, trouble>>

\* The universe cannot be read, or the candidate is refused by validation or
\* was never fetched: a generation without segments is published.
PublishNothing(r) ==
    /\ refresher[r].pc = "started"
    /\ refresher' = [refresher EXCEPT ![r].pc = "evaluated"]
    /\ UNCHANGED <<provider, store, reader, trouble>>

\* _load_reusable_prior_dataset; reading the prior may fail.
PriorReads(r) == GenerationReads(files, refresher[r].prior)

Reusable(r) ==
    LET prior == refresher[r].prior IN
    /\ prior.usable
    /\ PriorReads(r)
    /\ \/ Covered(prior.rows, refresher[r].days)
       \/ ~ prior.covered /\ prior.days >= refresher[r].days

PartialStart(manifest) ==
    IF manifest.refs[1].source.start = 0 THEN None ELSE manifest.refs[1].source

Provided(from) == [t \in from..confirmed |-> market[t]]

\* _fetch_dataset_candidate: the incremental fetch starts at the last candle
\* but one that is held, and its rows replace the held ones; if it fails, the
\* held ones are evaluated again.  Without a prior, the full history is asked
\* for, with a month of lookbehind; the provider may know less of it.
Fetched(r) ==
    LET held == refresher[r].prior.rows
        since == Max({Lo(held), Hi(held) - 1})
        wanted == Max({listing, confirmed - refresher[r].days - MonthLength})
    IN  IF Reusable(r)
        THEN {held, Joined(Provided(since), held)}
        ELSE {Provided(from) : from \in wanted..Min({confirmed, wanted + MaxShortfall})}

\* verified_listing_month_start: a start in the middle of a month is proved by
\* the exchange's listing time.  It looks at the files without the lock.
ListingVerified(r, rows) ==
    LET first == Month(Lo(Window(rows, refresher[r].days))) IN
    /\ ~ Reusable(r)
    /\ Covered(Window(rows, refresher[r].days), refresher[r].days)
    /\ MidMonth(Lo(rows)) /\ Month(Lo(rows)) = first
    /\ ~ Exists(Canonical(first))
    /\ Lo(rows) = listing

\* The candidate passed evaluation; the listing time may be unknown.
Fetch(r) ==
    /\ refresher[r].pc = "started"
    /\ Reusable(r) \/ confirmed >= listing
    /\ \E rows \in Fetched(r), proof \in BOOLEAN :
         /\ proof => ListingVerified(r, rows)
         /\ refresher' = [refresher EXCEPT ![r] = [@ EXCEPT
               !.pc = "fetched", !.candidate = rows, !.full = ~ Reusable(r),
               !.partial = IF Reusable(r) THEN PartialStart(refresher[r].prior) ELSE None,
               !.listed = proof]]
    /\ UNCHANGED <<provider, store, reader, trouble>>

-----------------------------------------------------------------------------
(* Refresh: segments, under the dataset lock                               *)

Candidate(r, m) == Part(refresher[r].candidate, InMonth(m))
Logical(r) == Window(refresher[r].candidate, refresher[r].days)
FirstMonth(r) == Month(Lo(Logical(r)))
IsCovered(r) == Covered(Logical(r), refresher[r].days)
StartsMidMonth(r) == MidMonth(Lo(Logical(r)))

Isolates(r) == ~ IsCovered(r) \/ refresher[r].listed
Reuses(r, m) ==
    /\ refresher[r].partial # None
    /\ m = FirstMonth(r) /\ refresher[r].partial.month = m

\* Earlier months of the candidate are kept only from the last stored one on,
\* and only while the first logical month is to be a new canonical one.
RetainedMonths(r) ==
    LET earlier == {m \in MonthsOf(refresher[r].candidate) : m < FirstMonth(r)}
        stored == earlier \cap CanonicalMonths
        elsewhere == StartsMidMonth(r) /\ (refresher[r].partial # None \/ Isolates(r))
    IN  IF stored = {} \/ Exists(Canonical(FirstMonth(r))) \/ elsewhere THEN {}
        ELSE {m \in earlier : m >= Max(stored)}

PhysicalMonths(r) ==
    RetainedMonths(r) \cup {m \in MonthsOf(refresher[r].candidate) : m >= FirstMonth(r)}

\* The file a month of the candidate belongs to.
SourceOf(r, m) ==
    IF Exists(Canonical(m)) THEN Canonical(m)
    ELSE IF Reuses(r, m) THEN refresher[r].partial
    ELSE IF Isolates(r) /\ m = FirstMonth(r) /\ StartsMidMonth(r)
    THEN Partial(m, Lo(Candidate(r, m)))
    ELSE Canonical(m)

\* _validate_next_canonical_segment_adjacency, for the candidate's last month.
NextAdjacent(r) ==
    LET m == Max(PhysicalMonths(r))
        later == {n \in CanonicalMonths : n > m}
    IN  SourceOf(r, m) = Canonical(m) /\ ~ Exists(Canonical(m)) /\ later # {}
        => Lo(files[Canonical(Min(later))]) = Hi(Candidate(r, m)) + 1

\* Variant: a new month may follow an incomplete one.
PreviousUnchecked(r, m) == TRUE

\* _validate_previous_canonical_segment_adjacency
PreviousAdjacent(r, m) ==
    LET earlier == {n \in CanonicalMonths : n < m} IN
    earlier # {} => Lo(Candidate(r, m)) = Hi(files[Canonical(Max(earlier))]) + 1

\* Variant: the other files of the month are not looked at.
OthersUnchecked(r, m) == TRUE

\* _validate_other_segment_representation_overlaps
OthersAgree(r, m) ==
    \A s \in Sources : s.month = m /\ s # SourceOf(r, m) => Agree(files[s], Candidate(r, m))

\* A file that is not there yet.
MayCreate(r, m) ==
    /\ ~ Exists(SourceOf(r, m))
    /\ SourceOf(r, m) # refresher[r].partial
    /\ SourceOf(r, m) = Canonical(m) =>
           /\ ~ (refresher[r].full /\ IsCovered(r) /\ m = FirstMonth(r)
                 /\ MidMonth(Lo(Candidate(r, m))))
           /\ PreviousAdjacent(r, m)
    /\ OthersAgree(r, m)

Suffix(r, m) ==
    Part(Candidate(r, m), (Hi(files[SourceOf(r, m)]) + 1)..Times)

\* What a month's file gets: all of the candidate, or what follows its end.
Growth(r, m) == IF Exists(SourceOf(r, m)) THEN Suffix(r, m) ELSE Candidate(r, m)

\* A file that is there keeps every candle it has, and grows only at its end
\* and only while no later canonical month exists.
MayGrow(r, m) ==
    /\ Exists(SourceOf(r, m))
    /\ Agree(files[SourceOf(r, m)], Candidate(r, m))
    /\ OthersAgree(r, m)
    /\ Suffix(r, m) # NoRows =>
           /\ \A n \in CanonicalMonths : n <= m
           /\ Lo(Suffix(r, m)) = Hi(files[SourceOf(r, m)]) + 1

\* Variant: the lock outlives its holder's section.
UnlockForgotten(r) == UNCHANGED lock

Unlock(r) == lock' = IF lock = r THEN None ELSE lock

Enter(r) ==
    /\ refresher[r].pc = "fetched"
    /\ lock = None
    /\ IF NextAdjacent(r)
       THEN /\ lock' = r
            /\ refresher' = [refresher EXCEPT ![r].pc = "month", ![r].months = PhysicalMonths(r)]
       ELSE Abort(r) /\ UNCHANGED lock
    /\ UNCHANGED <<provider, files, disk, pointer, diskPointer, manifests, published, reader, trouble>>

\* Variant: the file is replaced by the candidate's rows alone.
WriteCandidateOnly(r) ==
    /\ refresher[r].pc = "month"
    /\ refresher[r].months # {}
    /\ LET m == Min(refresher[r].months) IN
       /\ MayCreate(r, m) \/ MayGrow(r, m)
       /\ files' = [files EXCEPT ![SourceOf(r, m)] = Candidate(r, m)]
       /\ refresher' = [refresher EXCEPT ![r].pc = "sync", ![r].months = @ \ {m}]
    /\ UNCHANGED <<provider, disk, pointer, diskPointer, manifests, published, lock, reader, trouble>>

\* One month: the file is replaced, to be synced next, or found complete.
WriteMonth(r) ==
    /\ refresher[r].pc = "month"
    /\ refresher[r].months # {}
    /\ LET m == Min(refresher[r].months) IN
       /\ MayCreate(r, m) \/ MayGrow(r, m)
       /\ IF Exists(SourceOf(r, m)) /\ Suffix(r, m) = NoRows
          THEN /\ refresher' = [refresher EXCEPT ![r].months = @ \ {m}]
               /\ UNCHANGED files
          ELSE /\ files' = [files EXCEPT ![SourceOf(r, m)] = Joined(@, Growth(r, m))]
               /\ refresher' = [refresher EXCEPT ![r].pc = "sync", ![r].months = @ \ {m}]
    /\ UNCHANGED <<provider, disk, pointer, diskPointer, manifests, published, lock, reader, trouble>>

\* A correction, a gap or an unproved start: months already written stay.
RefuseMonth(r) ==
    /\ refresher[r].pc = "month"
    /\ refresher[r].months # {}
    /\ LET m == Min(refresher[r].months) IN ~ MayCreate(r, m) /\ ~ MayGrow(r, m)
    /\ Abort(r) /\ Unlock(r)
    /\ UNCHANGED <<provider, files, disk, pointer, diskPointer, manifests, published, reader, trouble>>

\* fsync_directory makes every entry of the dataset's directory durable.
SyncSegment(r) ==
    /\ refresher[r].pc = "sync"
    /\ disk' = files
    /\ refresher' = [refresher EXCEPT ![r].pc = "month"]
    /\ UNCHANGED <<provider, files, pointer, diskPointer, manifests, published, lock, reader, trouble>>

SyncSegmentFails(r) ==
    /\ refresher[r].pc = "sync"
    /\ faults < MaxFaults
    /\ faults' = faults + 1
    /\ orphaned' = TRUE
    /\ Abort(r) /\ Unlock(r)
    /\ UNCHANGED <<provider, files, disk, pointer, diskPointer, manifests, published, reader>>

LogicalMonths(r) == MonthsOf(Logical(r))
Slice(r, m) == Part(Logical(r), InMonth(m))
ReferenceFor(r, m) == Reference(SourceOf(r, m), Slice(r, m), m # Max(LogicalMonths(r)))

\* The references of the logical window, or a refusal: every slice is in its
\* file, and ends it unless it is the last.
FinishSegments(r) ==
    /\ refresher[r].pc = "month"
    /\ refresher[r].months = {}
    /\ LET first == FirstMonth(r)
           refs == [i \in 1..Cardinality(LogicalMonths(r)) |-> ReferenceFor(r, first + i - 1)]
       IN  IF \A i \in DOMAIN refs : ReferenceReads(files, refs[i])
           THEN refresher' = [refresher EXCEPT ![r].pc = "evaluated", ![r].refs = refs,
                                               ![r].usable = TRUE]
           ELSE Abort(r)
    /\ Unlock(r)
    /\ UNCHANGED <<provider, files, disk, pointer, diskPointer, manifests, published, reader, trouble>>

-----------------------------------------------------------------------------
(* Refresh: publication                                                    *)

ManifestOf(r) ==
    [refs |-> refresher[r].refs, usable |-> refresher[r].usable,
     rows |-> IF refresher[r].usable THEN Logical(r) ELSE NoRows, days |-> refresher[r].days,
     covered |-> refresher[r].usable /\ IsCovered(r)]

\* write_generation_manifest and verify_generation: the segments are read
\* again, outside the lock.
Verify(r) ==
    /\ refresher[r].pc = "evaluated"
    /\ IF GenerationReads(files, ManifestOf(r))
       THEN /\ manifests' = [manifests EXCEPT ![refresher[r].gen] = ManifestOf(r)]
            /\ refresher' = [refresher EXCEPT ![r] =
                                [IdleRefresher EXCEPT !.pc = "verified", !.gen = refresher[r].gen]]
       ELSE Abort(r) /\ UNCHANGED manifests
    /\ UNCHANGED <<provider, files, disk, pointer, diskPointer, published, lock, reader, trouble>>

\* replace_current: os.replace is the commit point.
ReplaceCurrent(r) ==
    /\ refresher[r].pc = "verified"
    /\ pointer' = refresher[r].gen
    /\ published' = published \cup {pointer'}
    /\ refresher' = [refresher EXCEPT ![r].pc = "replaced"]
    /\ UNCHANGED <<provider, files, disk, diskPointer, manifests, lock, reader, trouble>>

SyncCurrent(r) ==
    /\ refresher[r].pc = "replaced"
    /\ diskPointer' = pointer
    /\ refresher' = [refresher EXCEPT ![r] = IdleRefresher]
    /\ UNCHANGED <<provider, files, disk, pointer, manifests, published, lock, reader, trouble>>

\* A failed sync of the pointer's directory is a warning.
SyncCurrentFails(r) ==
    /\ refresher[r].pc = "replaced"
    /\ faults < MaxFaults
    /\ faults' = faults + 1
    /\ refresher' = [refresher EXCEPT ![r] = IdleRefresher]
    /\ UNCHANGED <<provider, store, reader, orphaned>>

-----------------------------------------------------------------------------
(* Faults                                                                  *)

\* The process is killed, or an OSError or listing metadata that cannot be had
\* ends the refresh.
Die(r) ==
    /\ refresher[r].pc # "idle"
    /\ faults < MaxFaults
    /\ faults' = faults + 1
    /\ orphaned' = (orphaned \/ refresher[r].pc = "sync")
    /\ Abort(r) /\ Unlock(r)
    /\ UNCHANGED <<provider, files, disk, pointer, diskPointer, manifests, published, reader>>

\* Every directory entry that was not synced may be the old or the new one.
Crash ==
    /\ faults < MaxFaults
    /\ faults' = faults + 1
    /\ \E lost \in SUBSET {s \in Sources : files[s] # disk[s]} :
           files' = [s \in Sources |-> IF s \in lost THEN disk[s] ELSE files[s]]
    /\ disk' = files'
    /\ pointer' \in {pointer, diskPointer}
    /\ diskPointer' = pointer'
    /\ lock' = None
    /\ refresher' = [r \in Refreshers |-> IdleRefresher]
    /\ reader' = [r \in Readers |-> IdleReader]
    /\ UNCHANGED <<provider, manifests, published, orphaned>>

-----------------------------------------------------------------------------
(* Load                                                                    *)

\* _open_context_result: the pointer is read once.
OpenContext(r) ==
    /\ reader[r].pc \in {"idle", "done"}
    /\ pointer # None
    /\ manifests[pointer].usable
    /\ reader' = [reader EXCEPT ![r] = [IdleReader EXCEPT !.pc = "reading", !.gen = pointer]]
    /\ UNCHANGED <<provider, store, refresher, trouble>>

\* Variant: each segment is looked up in the generation that is current by now,
\* if that one has as many.
PinnedLatest(r) ==
    manifests[IF reader[r].next \in DOMAIN manifests[pointer].refs THEN pointer ELSE reader[r].gen]

Pinned(r) == manifests[reader[r].gen]

\* One reference of the pinned manifest is read from its file; with the last
\* one the consumer has the rows.
ReadSegment(r) ==
    /\ reader[r].pc = "reading"
    /\ LET i == reader[r].next
           ref == Pinned(r).refs[i]
           rows == Joined(reader[r].rows, Part(files[ref.source], DOMAIN ref.rows))
       IN  reader' = [reader EXCEPT ![r] =
              IF /\ AllowedSource(Pinned(r), i) /\ ReferenceReads(files, ref)
                 /\ i = Len(Pinned(r).refs) => rows = Pinned(r).rows
              THEN [@ EXCEPT !.pc = IF i = Len(Pinned(r).refs) THEN "done" ELSE "reading",
                             !.next = i + 1, !.rows = rows]
              ELSE IdleReader]
    /\ UNCHANGED <<provider, store, refresher, trouble>>

-----------------------------------------------------------------------------
Refresh(r) ==
    \/ Start(r) \/ PublishNothing(r) \/ Fetch(r)
    \/ Enter(r) \/ WriteMonth(r) \/ RefuseMonth(r) \/ SyncSegment(r) \/ SyncSegmentFails(r)
    \/ FinishSegments(r) \/ Verify(r) \/ ReplaceCurrent(r) \/ SyncCurrent(r) \/ SyncCurrentFails(r)
    \/ Die(r)

Load(r) == OpenContext(r) \/ ReadSegment(r)

Next ==
    \/ Tick \/ Crash
    \/ \E t \in Correctable : Correct(t)
    \/ \E r \in Refreshers : Refresh(r)
    \/ \E r \in Readers : Load(r)

Spec == Init /\ [][Next]_vars

-----------------------------------------------------------------------------
(* Properties                                                              *)

\* Every generation that was ever current is read back exactly, now and after
\* a crash, although other refreshes grow the files it shares: growth keeps a
\* prefix, and a closed slice keeps ending its file.
PublishedStayReadable ==
    ~ orphaned => \A g \in published :
                      GenerationReads(files, manifests[g]) /\ GenerationReads(disk, manifests[g])

\* Every slice the current generation refers to is durable
\* (docs/plans/2026-07-28-trusted-generation-segmented-storage-design.md:263).
CommittedSlicesDurable ==
    pointer # None => GenerationReads(disk, manifests[pointer])

\* A canonical month is only ever followed by a later one when it is complete
\* (docs/plans/2026-07-28-trusted-generation-segmented-storage-design.md:144),
\* whoever wrote them, however far back each was asked to go and in whatever
\* order refreshes failed: what is missing between two of them is whole months.
ClosedMonthsAreComplete ==
    ~ orphaned => \A m, n \in CanonicalMonths :
        m < n => DOMAIN files[Canonical(m)] = InMonth(m)

\* Partial and canonical files of a month never contradict each other.
RepresentationsAgree ==
    \A a, b \in Sources : a.month = b.month => Agree(files[a], files[b])

\* The store is a register of complete generations.
Register == INSTANCE SnapshotRegister WITH
    current <- pointer,
    contents <- [g \in published |-> manifests[g].rows],
    pinned <- [r \in Readers |-> reader[r].gen],
    answer <- [r \in Readers |-> IF reader[r].pc = "done" THEN reader[r].rows ELSE None]

ImplementsRegister == Register!Spec
=============================================================================
