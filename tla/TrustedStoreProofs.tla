------------------------- MODULE TrustedStoreProofs -------------------------
(***************************************************************************)
(* Theorems about TrustedStore, for any refreshers, readers, generations,  *)
(* months, requested days and faults.                                      *)
(***************************************************************************)
EXTENDS TrustedStore, WellFoundedInduction, FiniteSetTheorems, TLAPS

-----------------------------------------------------------------------------
(* The state.                                                              *)

\* Runs of consecutive candles.
Runs ==
    {f \in UNION {[D -> {0, 1}] : D \in SUBSET (1..Times)} :
        \A a, b \in DOMAIN f : a..b \subseteq DOMAIN f}

References == [source : Sources, start : Int, rows : Runs, closed : BOOLEAN]

\* The first reference bears the first candle.  A closed one is followed by a
\* reference to the canonical file of a later month.
Linked(refs) ==
    \A i \in DOMAIN refs :
        /\ DOMAIN refs[i].rows # {}
        /\ refs[i].closed =>
               /\ i + 1 \in DOMAIN refs
               /\ \E n \in Months : n > refs[i].source.month /\ refs[i + 1].source = Canonical(n)

Begins(refs, rows) ==
    /\ DOMAIN rows # {} /\ 1 \in DOMAIN refs
    /\ refs[1].source.month = Month(Lo(rows)) /\ Lo(refs[1].rows) = Lo(rows)

Manifests ==
    {man \in [refs : Seq(References), rows : Runs, usable : BOOLEAN, days : Nat, covered : BOOLEAN] :
        Linked(man.refs) /\ (man.usable => Begins(man.refs, man.rows))}

Phases == {"idle", "started", "fetched", "month", "sync", "evaluated", "verified", "replaced"}

RefresherStates ==
    [pc : Phases, gen : Generations \cup {None}, prior : Manifests, days : Nat, candidate : Runs,
     full : BOOLEAN, partial : Sources \cup {None}, listed : BOOLEAN, months : SUBSET Months,
     usable : BOOLEAN, refs : {refs \in Seq(References) : Linked(refs)}]

IsReaderState(q) ==
    /\ q = [field \in {"pc", "gen", "next", "rows"} |-> q[field]]
    /\ q.pc \in {"idle", "reading", "done"} /\ q.gen \in Generations \cup {None}

StoreTypes ==
    /\ listing \in 1..Times /\ confirmed \in 0..Times /\ market \in [1..Times -> {0, 1}]
    /\ files \in [Sources -> Runs] /\ disk \in [Sources -> Runs]
    /\ pointer \in Generations \cup {None} /\ diskPointer \in Generations \cup {None}
    /\ manifests \in [Generations -> Manifests] /\ published \subseteq Generations
    /\ lock \in Refreshers \cup {None}
    /\ refresher \in [Refreshers -> RefresherStates]
    /\ reader = [r \in Readers |-> reader[r]] /\ \A r \in Readers : IsReaderState(reader[r])
    /\ faults \in Nat /\ orphaned \in BOOLEAN

\* A canonical file starts with its month, another one where its name says.
IsFile(s, f) ==
    /\ \A t \in DOMAIN f : Month(t) = s.month
    /\ s.start = 0 => \A t \in DOMAIN f : \A u \in InMonth(s.month) : u <= t => u \in DOMAIN f
    /\ s.start # 0 => \A t \in DOMAIN f : s.start <= t /\ s.start \in DOMAIN f

FilesAreNamed == \A s \in Sources : IsFile(s, files[s]) /\ IsFile(s, disk[s])

\* What is durable is a part of what is seen.
DiskIsPart == \A s \in Sources : DOMAIN disk[s] \subseteq DOMAIN files[s] /\ Agree(disk[s], files[s])

LockIsHeld == \A r \in Refreshers : lock = r <=> refresher[r].pc \in {"month", "sync"}

Begun(r) == refresher[r].pc \in {"fetched", "month", "sync"}

CandidateMonth(r) == Month(Lo(refresher[r].candidate))

\* The file in which an incremental candidate begins is there.
HasFile(r) ==
    Begun(r) =>
        /\ DOMAIN refresher[r].candidate # {}
        /\ refresher[r].full => refresher[r].partial = None
        /\ refresher[r].partial = None /\ ~ refresher[r].full => Exists(Canonical(CandidateMonth(r)))
        /\ refresher[r].partial # None =>
               /\ Exists(refresher[r].partial)
               /\ refresher[r].partial.month = CandidateMonth(r)
               /\ refresher[r].partial.start \in 1..Lo(refresher[r].candidate)

\* What is left to write in the lock.
HasMonths(r) ==
    refresher[r].pc \in {"month", "sync"} =>
        \A m \in refresher[r].months :
            /\ m \in MonthsOf(refresher[r].candidate)
            /\ m < FirstMonth(r) /\ m = CandidateMonth(r) => Exists(Canonical(m))

\* What was evaluated is a series.
HasSeries(r) ==
    refresher[r].usable =>
        /\ refresher[r].pc = "evaluated" /\ DOMAIN refresher[r].candidate # {}
        /\ Begins(refresher[r].refs, Logical(r))

CandidatesAreHeld == \A r \in Refreshers : HasFile(r) /\ HasMonths(r) /\ HasSeries(r)

FileInv == StoreTypes /\ FilesAreNamed /\ DiskIsPart /\ LockIsHeld /\ CandidatesAreHeld

LastMonth(r) == Month(Hi(refresher[r].candidate))

Complete(fs) ==
    \A m, n \in Months :
        m < n /\ DOMAIN fs[Canonical(m)] # {} /\ DOMAIN fs[Canonical(n)] # {} =>
            InMonth(m) \subseteq DOMAIN fs[Canonical(m)]

\* The candidate's last month is complete if another one follows it.
HasEnd(r) ==
    refresher[r].pc \in {"month", "sync"} =>
        \A m \in Months :
            /\ m = LastMonth(r) /\ SourceOf(r, m) = Canonical(m) /\ ~ Exists(Canonical(m))
            /\ \E n \in CanonicalMonths : n > m
            => InMonth(m) \subseteq 1..Hi(refresher[r].candidate)

LastIsComplete == \A r \in Refreshers : HasEnd(r)

\* Only the file that was replaced last may be unsynced.
OneUnsynced ==
    ~ orphaned =>
        /\ (\A r \in Refreshers : refresher[r].pc # "sync") => disk = files
        /\ \E s \in Sources : \A x \in Sources : x # s => disk[x] = files[x]

Reads(fs, refs) == \A i \in DOMAIN refs : ReferenceReads(fs, refs[i])

AllAllowed(man) == \A i \in DOMAIN man.refs : AllowedSource(man, i)

\* What a refresh holds is kept: references, or a manifest it has verified.
Holds(r) ==
    /\ refresher[r].pc = "evaluated" => Reads(files, refresher[r].refs) /\ Reads(disk, refresher[r].refs)
    /\ refresher[r].pc = "verified" => GenerationReads(files, manifests[refresher[r].gen])
                                       /\ GenerationReads(disk, manifests[refresher[r].gen])

KeptInv == PublishedStayReadable /\ (~ orphaned => \A r \in Refreshers : Holds(r))

CompleteInv == ~ orphaned => Complete(files) /\ Complete(disk)

\* The generation of a refresh is its own until it is published.
Unpublished == {"started", "fetched", "month", "sync", "evaluated", "verified"}

OwnsGeneration(r) ==
    /\ refresher[r].pc \in Unpublished => refresher[r].gen \in Generations \ published
    /\ refresher[r].pc # "evaluated" => refresher[r].refs = <<>>
    /\ \A q \in Refreshers \ {r} : refresher[q].gen = refresher[r].gen => refresher[q].gen = None

\* A reader has pinned a published generation, and gives its rows or none.
HasPinned(r) ==
    /\ reader[r].gen \in published \cup {None}
    /\ reader[r].pc # "idle" => reader[r].gen # None
    /\ reader[r].pc = "done" => reader[r].rows = manifests[reader[r].gen].rows

GenerationsInv ==
    /\ pointer \in published \cup {None} /\ diskPointer \in published \cup {None}
    /\ \A r \in Refreshers : OwnsGeneration(r)
    /\ \A r \in Readers : HasPinned(r)

-----------------------------------------------------------------------------
(* Least and greatest elements, months, runs.                              *)

\* The least of some naturals is one of them.
LEMMA MinIsLeast ==
    ASSUME NEW S \in SUBSET Nat, S # {}
    PROVE  Min(S) \in S /\ \A x \in S : Min(S) <= x
<1> DEFINE R == OpToRel(<, Nat)
<1>1. IsWellFoundedOn(R, Nat)
  BY NatLessThanWellFounded
<1>2. \A x, y \in Nat : <<x, y>> \in R <=> x < y
  BY DEF OpToRel
<1> HIDE DEF R
<1>3. PICK x \in S : \A y \in S : ~ (<<y, x>> \in R)
  BY <1>1, WFMin
<1>4. ASSUME NEW y \in S PROVE x <= y
  <2>1. x \in Nat /\ y \in Nat /\ ~ (<<y, x>> \in R)
    BY <1>3
  <2>2. ~ (y < x)
    BY <1>2, <2>1, Zenon
  <2> QED
    BY <2>1, <2>2
<1> QED
  BY <1>4 DEF Min

\* The greatest of some naturals up to n is one of them.
LEMMA MaxIsGreatest ==
    ASSUME NEW n \in Nat, NEW S \in SUBSET (0..n), S # {}
    PROVE  Max(S) \in S /\ \A x \in S : x <= Max(S)
<1> DEFINE D == {x \in Nat : n - x \in S}
<1>1. D # {}
  <2>1. PICK x \in S : TRUE
    OBVIOUS
  <2>2. n - x \in Nat /\ n - (n - x) = x
    OBVIOUS
  <2> QED
    BY <2>1, <2>2
<1>2. Min(D) \in D /\ \A x \in D : Min(D) <= x
  <2>1. D \in SUBSET Nat
    OBVIOUS
  <2> HIDE DEF D
  <2> QED
    BY <1>1, <2>1, MinIsLeast
<1>3. PICK x \in S : \A y \in S : y <= x
  <2> DEFINE least == Min(D)
  <2>1. least \in Nat /\ n - least \in S /\ \A x \in D : least <= x
    BY <1>2
  <2> HIDE DEF least
  <2>2. ASSUME NEW y \in S PROVE y <= n - least
    <3>1. n - y \in Nat /\ n - (n - y) = y
      OBVIOUS
    <3>2. least <= n - y
      BY <2>1, <3>1
    <3> QED
      BY <2>1, <3>2
  <2> QED
    BY <2>1, <2>2
<1> QED
  BY <1>3 DEF Max

LEMMA MonthIsNat == \A t \in 1..Times : Month(t) \in Months
<1> SUFFICES ASSUME NEW t \in 1..Times PROVE Month(t) \in Months
  OBVIOUS
<1>1. Month(t) \in Nat \ {0} /\ Month(Times) \in Nat /\ Month(t) <= Month(Times)
  BY TrustedStoreAssumption DEF Month
<1> QED
  BY <1>1 DEF Months

LEMMA MonthsAscend ==
    /\ \A t, u \in 1..Times : t <= u => Month(t) <= Month(u)
    /\ \A t \in 1..Times : t + 1 \in 1..Times => Month(t + 1) \in {Month(t), Month(t) + 1}
<1>1. \A t, u \in 1..Times : t <= u => Month(t) <= Month(u)
  BY TrustedStoreAssumption DEF Month
<1>2. \A t \in 1..Times : Month(t + 1) \in {Month(t), Month(t) + 1}
  BY TrustedStoreAssumption DEF Month
<1> QED
  BY <1>1, <1>2

LEMMA MonthsAreNat == Months \subseteq Nat \ {0}
BY TrustedStoreAssumption DEF Months, Month

LEMMA MonthBounds ==
    /\ Month(Times) \in Nat /\ Months \in SUBSET (0..Month(Times))
    /\ \A a, b \in Months : a..b \subseteq Months
<1>1. Month(Times) \in Nat
  BY TrustedStoreAssumption DEF Month
<1> DEFINE last == Month(Times)
<1>2. Months = 1..last
  BY DEF Months
<1> HIDE DEF last
<1>3. last \in Nat
  BY <1>1 DEF last
<1>4. Months \in SUBSET (0..last) /\ \A a, b \in Months : a..b \subseteq Months
  BY <1>2, <1>3
<1> QED
  BY <1>1, <1>4 DEF last

\* A run is a function on consecutive candles.
LEMMA RunsAre ==
    \A f : f \in Runs <=> /\ DOMAIN f \subseteq 1..Times
                         /\ f \in [DOMAIN f -> {0, 1}]
                         /\ \A a, b \in DOMAIN f : a..b \subseteq DOMAIN f
BY DEF Runs

LEMMA RunBounds ==
    ASSUME NEW f \in Runs, DOMAIN f # {}
    PROVE  /\ Lo(f) \in DOMAIN f /\ Hi(f) \in DOMAIN f /\ Lo(f) \in 1..Times /\ Hi(f) \in 1..Times
           /\ DOMAIN f = Lo(f)..Hi(f)
<1> USE TrustedStoreAssumption
<1>1. DOMAIN f \subseteq 1..Times /\ \A a, b \in DOMAIN f : a..b \subseteq DOMAIN f
  BY RunsAre
<1>2. Lo(f) \in DOMAIN f /\ \A x \in DOMAIN f : Lo(f) <= x
  BY <1>1, MinIsLeast DEF Lo
<1>3. Hi(f) \in DOMAIN f /\ \A x \in DOMAIN f : x <= Hi(f)
  <2>1. DOMAIN f \in SUBSET (0..Times)
    BY <1>1
  <2> QED
    BY <2>1, MaxIsGreatest DEF Hi
<1>4. Lo(f) \in 1..Times /\ Hi(f) \in 1..Times
  BY <1>1, <1>2, <1>3
<1>5. ASSUME NEW t PROVE t \in DOMAIN f <=> t \in Lo(f)..Hi(f)
  <2>1. t \in DOMAIN f => t \in 1..Times /\ Lo(f) <= t /\ t <= Hi(f)
    BY <1>1, <1>2, <1>3
  <2>2. Lo(f)..Hi(f) \subseteq DOMAIN f
    BY <1>1, <1>2, <1>3
  <2> QED
    BY <1>4, <2>1, <2>2
<1> QED
  BY <1>2, <1>3, <1>4, <1>5

LEMMA PartIsRun ==
    ASSUME NEW f \in Runs, NEW S,
           \A a, b \in S : a \in Int /\ b \in Int /\ a..b \subseteq S
    PROVE  Part(f, S) \in Runs /\ DOMAIN Part(f, S) = DOMAIN f \cap S
<1>1. DOMAIN Part(f, S) = DOMAIN f \cap S /\ Part(f, S) \in [DOMAIN f \cap S -> {0, 1}]
  BY RunsAre DEF Part
<1>2. \A a, b \in DOMAIN f \cap S : a..b \subseteq DOMAIN f \cap S
  BY RunsAre
<1> QED
  BY <1>1, <1>2, RunsAre

LEMMA MonthIsRange ==
    ASSUME NEW m PROVE \A a, b \in InMonth(m) : a \in Int /\ b \in Int /\ a..b \subseteq InMonth(m)
<1> SUFFICES ASSUME NEW a \in InMonth(m), NEW b \in InMonth(m), NEW c \in a..b
             PROVE  c \in InMonth(m)
  BY DEF InMonth
<1>1. a \in 1..Times /\ b \in 1..Times /\ c \in 1..Times /\ a <= c /\ c <= b
  BY TrustedStoreAssumption DEF InMonth
<1>2. Month(a) = m /\ Month(b) = m
  BY DEF InMonth
<1>3. Month(c) = m
  <2>1. Month(a) <= Month(c) /\ Month(c) <= Month(b)
    BY <1>1, MonthsAscend
  <2>2. Month(a) \in Nat /\ Month(b) \in Nat /\ Month(c) \in Nat
    BY <1>1, MonthIsNat, MonthsAreNat
  <2> QED
    BY <1>2, <2>1, <2>2
<1> QED
  BY <1>1, <1>3 DEF InMonth

LEMMA MonthPart ==
    ASSUME NEW f \in Runs, NEW m
    PROVE  Part(f, InMonth(m)) \in Runs /\ DOMAIN Part(f, InMonth(m)) = DOMAIN f \cap InMonth(m)
BY MonthIsRange, PartIsRun

LEMMA RangePart ==
    ASSUME NEW f \in Runs, NEW a \in Int, NEW b \in Int
    PROVE  Part(f, a..b) \in Runs /\ DOMAIN Part(f, a..b) = DOMAIN f \cap a..b
<1>1. \A x, y \in a..b : x \in Int /\ y \in Int /\ x..y \subseteq a..b
  OBVIOUS
<1> QED
  BY <1>1, PartIsRun

LEMMA JoinedDomain ==
    \A f, g : /\ DOMAIN Joined(f, g) = DOMAIN f \cup DOMAIN g
              /\ \A t \in DOMAIN f : Joined(f, g)[t] = f[t]
              /\ \A t \in DOMAIN g : t \notin DOMAIN f => Joined(f, g)[t] = g[t]
BY DEF Joined

LEMMA JoinedIsRun ==
    ASSUME NEW f \in Runs, NEW g \in Runs,
           \A a, b \in DOMAIN f \cup DOMAIN g : a..b \subseteq DOMAIN f \cup DOMAIN g
    PROVE  Joined(f, g) \in Runs
<1>1. Joined(f, g) \in [DOMAIN f \cup DOMAIN g -> {0, 1}]
  BY RunsAre DEF Joined
<1>2. DOMAIN f \cup DOMAIN g \subseteq 1..Times
  BY RunsAre
<1> QED
  BY <1>1, <1>2, RunsAre, JoinedDomain

LEMMA EmptyRun == NoRows \in Runs /\ DOMAIN NoRows = {} /\ \A f \in Runs : f # NoRows <=> DOMAIN f # {}
<1>1. DOMAIN NoRows = {}
  BY DEF NoRows
<1>2. NoRows \in [{} -> {0, 1}]
  BY DEF NoRows
<1>3. \A f \in Runs : DOMAIN f = {} => f = NoRows
  BY <1>1, <1>2, RunsAre DEF NoRows
<1> QED
  BY <1>1, <1>2, <1>3, RunsAre

LEMMA SourcesAre ==
    /\ \A s \in Sources : s.month \in Months /\ s.start \in Nat
    /\ \A s \in Sources : s = [month |-> s.month, start |-> s.start] /\ s # None
    /\ \A m \in Months : Canonical(m) \in Sources /\ Canonical(m).month = m /\ Canonical(m).start = 0
    /\ \A s \in Sources : s.start = 0 => s = Canonical(s.month)
    /\ \A t \in 1..Times : Partial(Month(t), t) \in Sources
<1>1. \A s \in Sources : /\ s.month \in Months /\ s.start \in Nat
                         /\ s = [month |-> s.month, start |-> s.start]
  BY MonthIsNat DEF Sources, Canonical, Partial
<1>2. \A s \in Sources : s # None
  BY <1>1, MonthsAreNat, TrustedStoreAssumption
<1>3. \A s \in Sources : s.start = 0 => s = Canonical(s.month)
  BY <1>1 DEF Canonical
<1> QED
  BY <1>1, <1>2, <1>3 DEF Sources, Canonical, Partial

LEMMA WindowRun ==
    ASSUME NEW f \in Runs, DOMAIN f # {}, NEW d \in Nat
    PROVE  /\ Window(f, d) \in Runs /\ DOMAIN Window(f, d) = DOMAIN f \cap (Hi(f) - d)..Hi(f)
           /\ DOMAIN Window(f, d) # {} /\ Hi(Window(f, d)) = Hi(f)
           /\ Lo(Window(f, d)) \in Lo(f)..Hi(f)
           /\ Lo(Window(f, d)) # Lo(f) => Lo(Window(f, d)) = Hi(f) - d
<1>1. /\ Lo(f) \in 1..Times /\ Hi(f) \in 1..Times /\ Lo(f) \in DOMAIN f /\ Hi(f) \in DOMAIN f
      /\ DOMAIN f = Lo(f)..Hi(f)
  BY RunBounds
<1>2. Window(f, d) \in Runs /\ DOMAIN Window(f, d) = DOMAIN f \cap (Hi(f) - d)..Hi(f)
  <2>1. Hi(f) - d \in Int /\ Hi(f) \in Int
    BY <1>1
  <2>2. \A a, b \in Int : Part(f, a..b) \in Runs /\ DOMAIN Part(f, a..b) = DOMAIN f \cap a..b
    BY RangePart
  <2> QED
    BY <2>1, <2>2 DEF Window
<1>3. Hi(f) \in DOMAIN Window(f, d)
  BY <1>1, <1>2
<1> DEFINE w == Window(f, d)
<1> HIDE DEF w
<1>4. /\ Lo(w) \in DOMAIN w /\ Hi(w) \in DOMAIN w /\ Lo(w) \in 1..Times /\ Hi(w) \in 1..Times
      /\ DOMAIN w = Lo(w)..Hi(w)
  BY <1>2, <1>3, RunBounds DEF w
<1>5. Hi(w) = Hi(f) /\ Lo(w) \in Lo(f)..Hi(f)
  BY <1>1, <1>2, <1>3, <1>4 DEF w
<1>6. ASSUME Lo(w) # Lo(f) PROVE Lo(w) = Hi(f) - d
  <2>1. Lo(w) - 1 \notin DOMAIN w
    BY <1>4
  <2>2. Lo(w) - 1 \in DOMAIN f
    BY <1>1, <1>5, <1>6
  <2>3. Lo(w) \in (Hi(f) - d)..Hi(f) /\ Lo(w) - 1 \notin (Hi(f) - d)..Hi(f)
    BY <1>2, <1>4, <2>1, <2>2 DEF w
  <2> QED
    BY <1>1, <1>4, <2>3
<1> QED
  BY <1>2, <1>3, <1>5, <1>6 DEF w

-----------------------------------------------------------------------------
(* Types.                                                                  *)

LEMMA NoManifestIsTyped == NoManifest \in Manifests
<1>1. <<>> \in Seq(References) /\ Linked(<<>>)
  BY DEF Linked
<1> QED
  BY <1>1, EmptyRun DEF NoManifest, Manifests

LEMMA IdleIsTyped == IdleRefresher \in RefresherStates /\ IsReaderState(IdleReader)
<1>1. <<>> \in {refs \in Seq(References) : Linked(refs)}
  BY DEF Linked
<1> QED
  BY <1>1, NoManifestIsTyped, EmptyRun
     DEF IdleRefresher, IdleReader, RefresherStates, IsReaderState, Phases

LEMMA InitTypes == Init => StoreTypes
<1> SUFFICES ASSUME Init PROVE StoreTypes
  OBVIOUS
<1>1. listing \in 1..Times /\ confirmed \in 0..Times
  BY TrustedStoreAssumption DEF Init
<1>2. market \in [1..Times -> {0, 1}]
  BY DEF Init
<1>3. files \in [Sources -> Runs] /\ disk \in [Sources -> Runs]
  BY EmptyRun DEF Init
<1>4. manifests \in [Generations -> Manifests]
  BY NoManifestIsTyped DEF Init
<1>5. /\ refresher \in [Refreshers -> RefresherStates]
      /\ reader = [r \in Readers |-> reader[r]] /\ \A r \in Readers : IsReaderState(reader[r])
  BY IdleIsTyped DEF Init
<1> QED
  BY <1>1, <1>2, <1>3, <1>4, <1>5 DEF Init, StoreTypes

LEMMA InitFiles == Init => FileInv /\ RepresentationsAgree
<1> SUFFICES ASSUME Init PROVE FileInv /\ RepresentationsAgree
  OBVIOUS
<1>1. StoreTypes
  BY InitTypes
<1>2. \A s \in Sources : DOMAIN files[s] = {} /\ DOMAIN disk[s] = {}
  BY EmptyRun DEF Init
<1>3. \A r \in Refreshers : refresher[r].pc = "idle" /\ ~ refresher[r].usable
  BY DEF Init, IdleRefresher
<1>4. lock = None /\ None \notin Refreshers
  BY TrustedStoreAssumption DEF Init
<1>5. FilesAreNamed /\ DiskIsPart /\ RepresentationsAgree
  BY <1>2 DEF FilesAreNamed, DiskIsPart, RepresentationsAgree, IsFile, Agree
<1>6. LockIsHeld /\ CandidatesAreHeld
  BY <1>3, <1>4 DEF LockIsHeld, CandidatesAreHeld, HasFile, HasMonths, HasSeries, Begun
<1> QED
  BY <1>1, <1>5, <1>6 DEF FileInv

\* A step of one refresher that only adds to the files leaves what the others
\* hold as it was.
LEMMA OthersHold ==
    ASSUME FileInv, NEW r \in Refreshers, NEW new \in RefresherStates,
           refresher' = [refresher EXCEPT ![r] = new],
           \A s \in Sources : Exists(s) => Exists(s)'
    PROVE  /\ refresher' \in [Refreshers -> RefresherStates]
           /\ refresher'[r] = new
           /\ \A q \in Refreshers : q # r => refresher'[q] = refresher[q]
           /\ \A q \in Refreshers : q # r => HasFile(q)' /\ HasMonths(q)' /\ HasSeries(q)'
<1>1. refresher \in [Refreshers -> RefresherStates]
  BY DEF FileInv, StoreTypes
<1>2. /\ refresher' \in [Refreshers -> RefresherStates] /\ refresher'[r] = new
      /\ \A q \in Refreshers : q # r => refresher'[q] = refresher[q]
  BY <1>1
<1>3. ASSUME NEW q \in Refreshers, q # r PROVE HasFile(q)' /\ HasMonths(q)' /\ HasSeries(q)'
  <2>1. refresher'[q] = refresher[q]
    BY <1>2, <1>3
  <2>2. HasFile(q) /\ HasMonths(q) /\ HasSeries(q)
    BY DEF FileInv, CandidatesAreHeld
  <2>3. /\ refresher[q].candidate \in Runs /\ refresher[q].partial \in Sources \cup {None}
        /\ refresher[q].months \subseteq Months
    BY <1>1 DEF RefresherStates
  <2>4. HasFile(q)'
    <3>1. ASSUME Begun(q) PROVE CandidateMonth(q) \in Months
      BY <2>2, <2>3, <3>1, RunBounds, MonthIsNat DEF CandidateMonth, HasFile
    <3>2. \A m \in Months : Exists(Canonical(m)) => Exists(Canonical(m))'
      BY SourcesAre
    <3>3. Begun(q)' = Begun(q) /\ CandidateMonth(q)' = CandidateMonth(q)
      BY <2>1 DEF Begun, CandidateMonth
    <3> QED
      BY <2>1, <2>2, <2>3, <3>1, <3>2, <3>3 DEF HasFile
  <2>5. HasMonths(q)'
    <3>1. \A m \in Months : Exists(Canonical(m)) => Exists(Canonical(m))'
      BY SourcesAre
    <3>2. FirstMonth(q)' = FirstMonth(q) /\ CandidateMonth(q)' = CandidateMonth(q)
      BY <2>1 DEF FirstMonth, Logical, CandidateMonth
    <3> QED
      BY <2>1, <2>2, <2>3, <3>1, <3>2 DEF HasMonths
  <2>6. HasSeries(q)'
    BY <2>1, <2>2 DEF HasSeries, Logical
  <2> QED
    BY <2>4, <2>5, <2>6
<1> QED
  BY <1>2, <1>3

\* A step of a refresher that writes no segment.
LEMMA QuietStep ==
    ASSUME FileInv, NEW r \in Refreshers, NEW new \in RefresherStates,
           refresher' = [refresher EXCEPT ![r] = new],
           files' = files, disk' = disk \/ disk' = files,
           StoreTypes', LockIsHeld', HasFile(r)', HasMonths(r)', HasSeries(r)'
    PROVE  FileInv'
<1>1. \A s \in Sources : Exists(s) => Exists(s)'
  BY DEF Exists
<1>2. \A q \in Refreshers : q # r => HasFile(q)' /\ HasMonths(q)' /\ HasSeries(q)'
  BY <1>1, OthersHold
<1>3. CandidatesAreHeld'
  BY <1>2 DEF CandidatesAreHeld
<1>4. FilesAreNamed'
  BY DEF FileInv, FilesAreNamed
<1>5. DiskIsPart'
  BY DEF FileInv, DiskIsPart, Agree
<1> QED
  BY <1>3, <1>4, <1>5 DEF FileInv

LEMMA IdleHolds ==
    ASSUME NEW r \in Refreshers, ~ Begun(r)'
    PROVE  HasFile(r)' /\ HasMonths(r)'
BY DEF HasFile, HasMonths, Begun

\* Only an evaluated series is called usable.
LEMMA NotUsable ==
    ASSUME FileInv, NEW r \in Refreshers, refresher[r].pc # "evaluated"
    PROVE  ~ refresher[r].usable
BY DEF FileInv, CandidatesAreHeld, HasSeries

\* The lock follows its holder.
LEMMA LockStays ==
    ASSUME FileInv, NEW r \in Refreshers, NEW new \in RefresherStates,
           refresher' = [refresher EXCEPT ![r] = new], lock' = lock,
           refresher[r].pc \in {"month", "sync"} <=> new.pc \in {"month", "sync"}
    PROVE  LockIsHeld'
<1>1. refresher \in [Refreshers -> RefresherStates]
  BY DEF FileInv, StoreTypes
<1>2. refresher'[r] = new /\ \A q \in Refreshers : q # r => refresher'[q] = refresher[q]
  BY <1>1
<1> QED
  BY <1>2 DEF FileInv, LockIsHeld

LEMMA LockIsLeft ==
    ASSUME FileInv, NEW r \in Refreshers, NEW new \in RefresherStates,
           refresher' = [refresher EXCEPT ![r] = new], Unlock(r), new.pc \notin {"month", "sync"}
    PROVE  LockIsHeld'
<1>1. refresher \in [Refreshers -> RefresherStates]
  BY DEF FileInv, StoreTypes
<1>2. refresher'[r] = new /\ \A q \in Refreshers : q # r => refresher'[q] = refresher[q]
  BY <1>1
<1>3. None \notin Refreshers
  BY TrustedStoreAssumption
<1> QED
  BY <1>2, <1>3 DEF FileInv, LockIsHeld, Unlock

LEMMA MaxOfTwo ==
    ASSUME NEW a \in Int, NEW b \in Int
    PROVE  Max({a, b}) \in {a, b} /\ a <= Max({a, b}) /\ b <= Max({a, b})
<1>1. \E x \in {a, b} : \A y \in {a, b} : x >= y
  BY a <= b \/ b <= a
<1> QED
  BY <1>1 DEF Max

LEMMA MinOfTwo ==
    ASSUME NEW a \in Int, NEW b \in Int
    PROVE  Min({a, b}) \in {a, b} /\ Min({a, b}) <= a /\ Min({a, b}) <= b
<1>1. \E x \in {a, b} : \A y \in {a, b} : x <= y
  BY a <= b \/ b <= a
<1> QED
  BY <1>1 DEF Min

\* What the provider has.
LEMMA ProvidedIsRun ==
    ASSUME StoreTypes, NEW from \in 1..Times
    PROVE  Provided(from) \in Runs /\ DOMAIN Provided(from) = from..confirmed
<1>1. DOMAIN Provided(from) = from..confirmed
  BY DEF Provided
<1>2. from..confirmed \subseteq 1..Times
  BY TrustedStoreAssumption DEF StoreTypes
<1>3. Provided(from) \in [from..confirmed -> {0, 1}]
  BY <1>2 DEF Provided, StoreTypes
<1>4. \A a, b \in from..confirmed : a..b \subseteq from..confirmed
  <2>1. from \in Int /\ confirmed \in Int
    BY DEF StoreTypes
  <2> HIDE <1>2
  <2> QED
    BY <2>1
<1> QED
  BY <1>1, <1>2, <1>3, <1>4, RunsAre

\* A prior's series, and what was added to its end.
LEMMA HeldRows ==
    ASSUME StoreTypes, NEW held \in Runs, DOMAIN held # {}
    PROVE  LET since == Max({Lo(held), Hi(held) - 1})
               rows == Joined(Provided(since), held)
           IN  rows \in Runs /\ DOMAIN rows # {} /\ Lo(rows) = Lo(held)
<1> DEFINE since == Max({Lo(held), Hi(held) - 1})
           rows == Joined(Provided(since), held)
<1>1. /\ Lo(held) \in 1..Times /\ Hi(held) \in 1..Times /\ Lo(held) \in DOMAIN held
      /\ DOMAIN held = Lo(held)..Hi(held)
  BY RunBounds
<1>2. since \in Lo(held)..Hi(held)
  <2>1. Lo(held) \in Int /\ Hi(held) - 1 \in Int /\ Lo(held) <= Hi(held)
    BY <1>1
  <2>2. since \in {Lo(held), Hi(held) - 1} /\ Lo(held) <= since
    BY <2>1, MaxOfTwo
  <2> HIDE DEF since
  <2> QED
    BY <1>1, <2>1, <2>2
<1> HIDE DEF since
<1>3. since \in 1..Times
  BY <1>1, <1>2, TrustedStoreAssumption
<1>4. Provided(since) \in Runs /\ DOMAIN Provided(since) = since..confirmed
  BY <1>3, ProvidedIsRun
<1>5. DOMAIN rows = (since..confirmed) \cup (Lo(held)..Hi(held))
  BY <1>1, <1>4, JoinedDomain
<1>6. confirmed \in Int
  BY DEF StoreTypes
<1>7. \A a, b \in (since..confirmed) \cup (Lo(held)..Hi(held)) :
          a..b \subseteq (since..confirmed) \cup (Lo(held)..Hi(held))
  BY <1>1, <1>2, <1>6
<1>8. rows \in Runs
  BY <1>1, <1>4, <1>7, JoinedIsRun
<1>9. Lo(held) \in DOMAIN rows /\ \A t \in DOMAIN rows : Lo(held) <= t
  BY <1>1, <1>2, <1>5, <1>6
<1> HIDE DEF rows
<1>10. Lo(rows) = Lo(held)
  <2>1. Lo(rows) \in DOMAIN rows /\ DOMAIN rows = Lo(rows)..Hi(rows) /\ Lo(rows) \in 1..Times
    BY <1>8, <1>9, RunBounds
  <2> QED
    BY <1>1, <1>9, <2>1
<1> QED
  BY <1>8, <1>9, <1>10 DEF rows, since

-----------------------------------------------------------------------------
(* Each step keeps the files and what the refreshers hold.                 *)

LEMMA StartKeeps == ASSUME FileInv, NEW r \in Refreshers, Start(r) PROVE FileInv'
<1>1. StoreTypes
  BY DEF FileInv
<1>2. PICK days \in DaysChoices : refresher' = [refresher EXCEPT ![r] =
            [IdleRefresher EXCEPT !.pc = "started", !.days = days,
                !.gen = CHOOSE g \in Generations \ Taken : TRUE,
                !.prior = IF pointer = None THEN NoManifest ELSE manifests[pointer]]]
  BY DEF Start
<1> DEFINE g == CHOOSE g \in Generations \ Taken : TRUE
           prior == IF pointer = None THEN NoManifest ELSE manifests[pointer]
           new == [IdleRefresher EXCEPT !.pc = "started", !.days = days, !.gen = g, !.prior = prior]
<1>3. g \in Generations
  BY DEF Start
<1>4. prior \in Manifests
  BY <1>1, NoManifestIsTyped DEF StoreTypes
<1>5. days \in Nat
  BY TrustedStoreAssumption
<1> HIDE DEF g, prior
<1>6. new \in RefresherStates /\ new.pc = "started" /\ ~ new.usable
  BY <1>3, <1>4, <1>5, IdleIsTyped DEF RefresherStates, Phases, IdleRefresher
<1>7. refresher' = [refresher EXCEPT ![r] = new]
  BY <1>2 DEF g, prior
<1> HIDE DEF new
<1>8. refresher \in [Refreshers -> RefresherStates]
  BY <1>1 DEF StoreTypes
<1>9. refresher'[r] = new /\ refresher' \in [Refreshers -> RefresherStates]
  BY <1>6, <1>7, <1>8
<1>10. UNCHANGED <<provider, store, reader, trouble>>
  BY DEF Start
<1>11. StoreTypes'
  BY <1>1, <1>9, <1>10 DEF StoreTypes, provider, store, trouble
<1>12. LockIsHeld'
  BY <1>6, <1>7, <1>10, LockStays DEF Start, store
<1>13. HasFile(r)' /\ HasMonths(r)' /\ HasSeries(r)'
  BY <1>6, <1>9, IdleHolds DEF Begun, HasSeries
<1> QED
  BY <1>6, <1>7, <1>10, <1>11, <1>12, <1>13, QuietStep DEF store

\* A refresher goes on to another phase.
LEMMA PhaseStep ==
    ASSUME FileInv, NEW r \in Refreshers, NEW pc \in Phases
    PROVE  LET new == [refresher[r] EXCEPT !.pc = pc]
           IN  /\ new \in RefresherStates
               /\ new = [refresher[r] EXCEPT !.pc = pc] /\ new.pc = pc
               /\ \A next : next = [refresher EXCEPT ![r].pc = pc] <=> next = [refresher EXCEPT ![r] = new]
<1>1. refresher \in [Refreshers -> RefresherStates]
  BY DEF FileInv, StoreTypes
<1> QED
  BY <1>1 DEF RefresherStates

LEMMA PublishNothingKeeps == ASSUME FileInv, NEW r \in Refreshers, PublishNothing(r) PROVE FileInv'
<1> DEFINE new == [refresher[r] EXCEPT !.pc = "evaluated"]
<1>1. new \in RefresherStates /\ new.pc = "evaluated" /\ refresher' = [refresher EXCEPT ![r] = new]
  BY PhaseStep DEF PublishNothing, Phases
<1>2. StoreTypes /\ refresher \in [Refreshers -> RefresherStates]
  BY DEF FileInv, StoreTypes
<1>8. ~ new.usable
  BY <1>2, NotUsable DEF PublishNothing, RefresherStates
<1> HIDE DEF new
<1>3. refresher'[r] = new /\ refresher' \in [Refreshers -> RefresherStates]
  BY <1>1, <1>2
<1>4. UNCHANGED <<provider, store, reader, trouble>>
  BY DEF PublishNothing
<1>5. StoreTypes'
  BY <1>2, <1>3, <1>4 DEF StoreTypes, provider, store, trouble
<1>6. LockIsHeld'
  BY <1>1, <1>4, LockStays DEF PublishNothing, store
<1>7. HasFile(r)' /\ HasMonths(r)' /\ HasSeries(r)'
  BY <1>1, <1>3, <1>8, IdleHolds DEF Begun, HasSeries
<1> QED
  BY <1>1, <1>4, <1>5, <1>6, <1>7, QuietStep DEF store

\* The file in which a reusable prior begins.
LEMMA PriorHasFile ==
    ASSUME FileInv, NEW r \in Refreshers, Reusable(r)
    PROVE  LET prior == refresher[r].prior
               partial == PartialStart(prior)
               m == Month(Lo(prior.rows))
           IN  /\ prior.rows \in Runs /\ DOMAIN prior.rows # {} /\ m \in Months
               /\ partial \in Sources \cup {None}
               /\ partial = None => Exists(Canonical(m))
               /\ partial # None => /\ Exists(partial) /\ partial.month = m
                                    /\ partial.start \in 1..Lo(prior.rows)
<1> DEFINE prior == refresher[r].prior
           first == prior.refs[1]
           partial == PartialStart(prior)
           m == Month(Lo(prior.rows))
<1>1. StoreTypes /\ refresher[r] \in RefresherStates
  BY DEF FileInv, StoreTypes
<1>2. prior \in Manifests
  BY <1>1 DEF RefresherStates
<1>3. prior.usable /\ GenerationReads(files, prior)
  BY DEF Reusable, PriorReads
<1> HIDE DEF prior
<1>4. prior.refs \in Seq(References) /\ prior.rows \in Runs /\ Begins(prior.refs, prior.rows)
  BY <1>2, <1>3 DEF Manifests
<1>5. /\ 1 \in DOMAIN prior.refs /\ first \in References
      /\ first.source.month = m /\ Lo(first.rows) = Lo(prior.rows)
  BY <1>4 DEF Begins
<1>6. Linked(prior.refs) /\ DOMAIN first.rows # {}
  BY <1>2, <1>5 DEF Manifests, Linked
<1>7. ReferenceReads(files, first)
  BY <1>3, <1>5 DEF GenerationReads
<1> HIDE DEF first
<1>8. /\ first.source \in Sources /\ first.rows \in Runs
  BY <1>5 DEF References
<1> DEFINE file == files[first.source]
<1>9. file \in Runs /\ file # NoRows /\ IsFile(first.source, file)
  BY <1>1, <1>7, <1>8 DEF StoreTypes, ReferenceReads, FileInv, FilesAreNamed
<1>10. Part(file, DOMAIN first.rows) = first.rows
  BY <1>7 DEF ReferenceReads
<1> HIDE DEF file
<1>11. DOMAIN first.rows \subseteq DOMAIN file
  BY <1>10 DEF Part
<1>12. Lo(first.rows) \in DOMAIN first.rows /\ Lo(first.rows) \in 1..Times
  BY <1>6, <1>8, RunBounds
<1>13. DOMAIN prior.rows # {}
  BY <1>4 DEF Begins
<1>14. m \in Months
  BY <1>5, <1>12, MonthIsNat
<1>15. partial = IF first.source.start = 0 THEN None ELSE first.source
  BY DEF PartialStart, first
<1>16. Exists(first.source)
  BY <1>9 DEF file, Exists
<1>17. first.source.start \in Nat /\ first.source # None
  BY <1>8, SourcesAre
<1>18. first.source.start = 0 => first.source = Canonical(m)
  BY <1>5, <1>8, SourcesAre
<1>19. first.source.start # 0 => first.source.start \in 1..Lo(prior.rows)
  BY <1>5, <1>9, <1>11, <1>12, <1>17 DEF IsFile
<1> HIDE DEF partial, m
<1>20. /\ partial \in Sources \cup {None}
       /\ partial = None => Exists(Canonical(m))
       /\ partial # None => /\ Exists(partial) /\ partial.month = m
                            /\ partial.start \in 1..Lo(prior.rows)
  BY <1>5, <1>8, <1>15, <1>16, <1>17, <1>18, <1>19
<1> QED
  BY <1>4, <1>13, <1>14, <1>20 DEF prior, partial, m

\* What a refresh may have fetched.
LEMMA FetchedRows ==
    ASSUME FileInv, NEW r \in Refreshers, Fetch(r), NEW rows \in Fetched(r)
    PROVE  /\ rows \in Runs /\ DOMAIN rows # {}
           /\ Reusable(r) => Lo(rows) = Lo(refresher[r].prior.rows)
<1>1. StoreTypes
  BY DEF FileInv
<1>2. CASE Reusable(r)
  <2> DEFINE held == refresher[r].prior.rows
             since == Max({Lo(held), Hi(held) - 1})
  <2>1. held \in Runs /\ DOMAIN held # {}
    BY <1>2, PriorHasFile
  <2>2. rows = held \/ rows = Joined(Provided(since), held)
    BY <1>2 DEF Fetched
  <2>3. CASE rows = held
    BY <2>1, <2>3
  <2>4. CASE rows = Joined(Provided(since), held)
    BY <1>1, <2>1, <2>4, HeldRows
  <2> QED
    BY <2>2, <2>3, <2>4
<1>3. CASE ~ Reusable(r)
  <2> DEFINE back == confirmed - refresher[r].days - MonthLength
             wanted == Max({listing, back})
             latest == Min({confirmed, wanted + MaxShortfall})
  <2>1. PICK from \in wanted..latest : rows = Provided(from)
    BY <1>3 DEF Fetched
  <2>2. /\ confirmed \in Int /\ confirmed <= Times /\ listing \in Int /\ 1 <= listing
        /\ refresher[r].days \in Int
        /\ Times \in Int /\ MonthLength \in Int /\ MaxShortfall \in Int
    BY <1>1, TrustedStoreAssumption DEF StoreTypes, RefresherStates
  <2>3. back \in Int
    BY <2>2
  <2> HIDE DEF back
  <2>4. wanted \in Int /\ listing <= wanted
    BY <2>2, <2>3, MaxOfTwo
  <2> HIDE DEF wanted
  <2>5. latest \in Int /\ latest <= confirmed
    <3> DEFINE end == wanted + MaxShortfall
    <3>1. end \in Int /\ confirmed \in Int
      BY <2>2, <2>4
    <3> HIDE DEF end
    <3>2. Min({confirmed, end}) \in {confirmed, end} /\ Min({confirmed, end}) <= confirmed
      BY <3>1, MinOfTwo
    <3> QED
      BY <3>1, <3>2 DEF end
  <2> HIDE DEF latest
  <2>6. from \in 1..Times /\ from <= confirmed
    BY <2>1, <2>2, <2>4, <2>5
  <2>7. rows \in Runs /\ DOMAIN rows = from..confirmed
    BY <1>1, <2>1, <2>6, ProvidedIsRun
  <2> QED
    BY <1>3, <2>2, <2>6, <2>7
<1> QED
  BY <1>2, <1>3

LEMMA FetchKeeps == ASSUME FileInv, NEW r \in Refreshers, Fetch(r) PROVE FileInv'
<1>1. StoreTypes /\ refresher \in [Refreshers -> RefresherStates]
  BY DEF FileInv, StoreTypes
<1>2. PICK rows \in Fetched(r), proof \in BOOLEAN :
         refresher' = [refresher EXCEPT ![r] = [@ EXCEPT
               !.pc = "fetched", !.candidate = rows, !.full = ~ Reusable(r),
               !.partial = IF Reusable(r) THEN PartialStart(refresher[r].prior) ELSE None,
               !.listed = proof]]
  BY DEF Fetch
<1> DEFINE full == ~ Reusable(r)
           partial == IF Reusable(r) THEN PartialStart(refresher[r].prior) ELSE None
           new == [refresher[r] EXCEPT !.pc = "fetched", !.candidate = rows, !.full = full,
                                       !.partial = partial, !.listed = proof]
<1>3. rows \in Runs /\ DOMAIN rows # {} /\ (Reusable(r) => Lo(rows) = Lo(refresher[r].prior.rows))
  BY FetchedRows
<1>4. full \in BOOLEAN
  BY DEF Reusable
<1>5. /\ partial \in Sources \cup {None}
      /\ full => partial = None
      /\ ~ full /\ partial = None => Exists(Canonical(Month(Lo(rows))))
      /\ partial # None => /\ Exists(partial) /\ partial.month = Month(Lo(rows))
                           /\ partial.start \in 1..Lo(rows)
  <2>1. CASE Reusable(r)
    BY <1>3, <2>1, PriorHasFile
  <2>2. CASE ~ Reusable(r)
    BY <2>2
  <2> QED
    BY <2>1, <2>2
<1>6. refresher' = [refresher EXCEPT ![r] = new]
  BY <1>1, <1>2
<1> HIDE DEF full, partial
<1>7. /\ new \in RefresherStates /\ new.pc = "fetched" /\ new.candidate = rows /\ new.full = full
      /\ new.partial = partial /\ ~ new.usable
  <2>1. ~ refresher[r].usable
    BY NotUsable DEF Fetch
  <2> QED
    BY <1>1, <1>3, <1>4, <1>5, <2>1 DEF RefresherStates, Phases
<1> HIDE DEF new
<1>8. refresher'[r] = new /\ refresher' \in [Refreshers -> RefresherStates]
  BY <1>1, <1>6, <1>7
<1>9. UNCHANGED <<provider, store, reader, trouble>>
  BY DEF Fetch
<1>10. StoreTypes'
  BY <1>1, <1>8, <1>9 DEF StoreTypes, provider, store, trouble
<1>11. LockIsHeld'
  BY <1>6, <1>7, <1>9, LockStays DEF Fetch, store
<1>12. files' = files /\ disk' = disk
  BY <1>9 DEF store
<1>13. HasFile(r)'
  <2>1. \A s : Exists(s)' = Exists(s)
    BY <1>12 DEF Exists
  <2>2. CandidateMonth(r)' = Month(Lo(rows))
    BY <1>7, <1>8 DEF CandidateMonth
  <2> QED
    BY <1>3, <1>5, <1>7, <1>8, <2>1, <2>2 DEF HasFile
<1>14. HasMonths(r)' /\ HasSeries(r)'
  BY <1>7, <1>8 DEF HasMonths, HasSeries
<1> QED
  BY <1>6, <1>7, <1>10, <1>11, <1>12, <1>13, <1>14, QuietStep

\* A refresher that stops holds nothing.
LEMMA AbortStep ==
    ASSUME FileInv, NEW r \in Refreshers, Abort(r)
    PROVE  /\ refresher' = [refresher EXCEPT ![r] = IdleRefresher]
           /\ IdleRefresher \in RefresherStates /\ IdleRefresher.pc = "idle"
           /\ refresher'[r] = IdleRefresher /\ refresher' \in [Refreshers -> RefresherStates]
           /\ HasFile(r)' /\ HasMonths(r)' /\ HasSeries(r)'
<1>1. refresher \in [Refreshers -> RefresherStates]
  BY DEF FileInv, StoreTypes
<1>2. IdleRefresher \in RefresherStates /\ IdleRefresher.pc = "idle" /\ ~ IdleRefresher.usable
  BY IdleIsTyped DEF IdleRefresher
<1>3. /\ refresher' = [refresher EXCEPT ![r] = IdleRefresher]
      /\ refresher'[r] = IdleRefresher /\ refresher' \in [Refreshers -> RefresherStates]
  BY <1>1, <1>2 DEF Abort
<1>4. HasFile(r)' /\ HasMonths(r)' /\ HasSeries(r)'
  BY <1>2, <1>3, IdleHolds DEF Begun, HasSeries
<1> QED
  BY <1>2, <1>3, <1>4

\* The steps after which a refresh is over.
LEMMA AbortKeeps ==
    ASSUME FileInv, NEW r \in Refreshers, Abort(r), Unlock(r),
           UNCHANGED <<provider, files, disk, pointer, diskPointer, manifests, published, reader>>,
           faults' \in Nat, orphaned' \in BOOLEAN
    PROVE  FileInv'
<1>1. StoreTypes'
  BY AbortStep DEF FileInv, StoreTypes, provider, Unlock
<1>2. LockIsHeld'
  BY AbortStep, LockIsLeft
<1> QED
  BY <1>1, <1>2, AbortStep, QuietStep

LEMMA DieKeeps == ASSUME FileInv, NEW r \in Refreshers, Die(r) PROVE FileInv'
<1>1. faults' \in Nat /\ orphaned' \in BOOLEAN
  BY DEF FileInv, StoreTypes, Die
<1> QED
  BY <1>1, AbortKeeps DEF Die

LEMMA RefuseMonthKeeps == ASSUME FileInv, NEW r \in Refreshers, RefuseMonth(r) PROVE FileInv'
<1>1. faults' \in Nat /\ orphaned' \in BOOLEAN
  BY DEF FileInv, StoreTypes, RefuseMonth, trouble
<1> QED
  BY <1>1, AbortKeeps DEF RefuseMonth

LEMMA SyncSegmentFailsKeeps ==
    ASSUME FileInv, NEW r \in Refreshers, SyncSegmentFails(r) PROVE FileInv'
<1>1. faults' \in Nat /\ orphaned' \in BOOLEAN
  BY DEF FileInv, StoreTypes, SyncSegmentFails
<1> QED
  BY <1>1, AbortKeeps DEF SyncSegmentFails

LEMMA SyncSegmentKeeps == ASSUME FileInv, NEW r \in Refreshers, SyncSegment(r) PROVE FileInv'
<1> DEFINE new == [refresher[r] EXCEPT !.pc = "month"]
<1>1. /\ new \in RefresherStates /\ new.pc = "month" /\ refresher' = [refresher EXCEPT ![r] = new]
      /\ new = [refresher[r] EXCEPT !.pc = "month"]
  BY PhaseStep DEF SyncSegment, Phases
<1> HIDE DEF new
<1>2. StoreTypes /\ refresher \in [Refreshers -> RefresherStates]
  BY DEF FileInv, StoreTypes
<1>3. refresher'[r] = new /\ refresher' \in [Refreshers -> RefresherStates]
  BY <1>1, <1>2
<1>4. /\ disk' = files /\ files' = files /\ lock' = lock
      /\ UNCHANGED <<provider, pointer, diskPointer, manifests, published, lock, reader, trouble>>
  BY DEF SyncSegment
<1>5. StoreTypes'
  BY <1>2, <1>3, <1>4 DEF StoreTypes, provider, trouble
<1>6. refresher[r].pc = "sync"
  BY DEF SyncSegment
<1>7. LockIsHeld'
  BY <1>1, <1>4, <1>6, LockStays
<1>8. \A s : Exists(s)' = Exists(s)
  BY <1>4 DEF Exists
<1>9. /\ new.full = refresher[r].full /\ new.partial = refresher[r].partial
      /\ new.candidate = refresher[r].candidate /\ new.days = refresher[r].days
      /\ new.months = refresher[r].months /\ ~ new.usable
  BY <1>1, <1>2, <1>6, NotUsable DEF RefresherStates
<1>10. CandidateMonth(r)' = CandidateMonth(r) /\ FirstMonth(r)' = FirstMonth(r)
  BY <1>3, <1>9 DEF CandidateMonth, FirstMonth, Logical
<1>11. HasFile(r)
  BY DEF FileInv, CandidatesAreHeld
<1>12. HasFile(r)'
  BY <1>1, <1>3, <1>6, <1>8, <1>9, <1>10, <1>11 DEF HasFile, Begun
<1>13. HasMonths(r)
  BY DEF FileInv, CandidatesAreHeld
<1>14. HasMonths(r)' /\ HasSeries(r)'
  BY <1>1, <1>3, <1>6, <1>8, <1>9, <1>10, <1>13 DEF HasMonths, HasSeries
<1> QED
  BY <1>1, <1>4, <1>5, <1>7, <1>12, <1>14, QuietStep

\* What a refresh publishes is a manifest.
LEMMA ManifestIsTyped ==
    ASSUME FileInv, NEW r \in Refreshers, refresher[r].pc = "evaluated"
    PROVE  ManifestOf(r) \in Manifests
<1>1. refresher[r] \in RefresherStates
  BY DEF FileInv, StoreTypes
<1>2. HasSeries(r)
  BY DEF FileInv, CandidatesAreHeld
<1> DEFINE refs == refresher[r].refs
           rows == IF refresher[r].usable THEN Logical(r) ELSE NoRows
           covered == refresher[r].usable /\ IsCovered(r)
<1>3. refs \in Seq(References) /\ Linked(refs)
  BY <1>1 DEF RefresherStates
<1>4. refresher[r].usable => Begins(refs, rows)
  BY <1>2 DEF HasSeries
<1>5. rows \in Runs
  <2>1. CASE refresher[r].usable
    BY <1>1, <1>2, <2>1, WindowRun DEF HasSeries, Logical, RefresherStates
  <2>2. CASE ~ refresher[r].usable
    BY <2>2, EmptyRun
  <2> QED
    BY <2>1, <2>2
<1>6. covered \in BOOLEAN /\ refresher[r].usable \in BOOLEAN /\ refresher[r].days \in Nat
  BY <1>1 DEF RefresherStates, IsCovered, Covered
<1>7. ManifestOf(r) = [refs |-> refs, usable |-> refresher[r].usable, rows |-> rows,
                       days |-> refresher[r].days, covered |-> covered]
  BY DEF ManifestOf
<1> HIDE DEF refs, rows, covered
<1> QED
  BY <1>3, <1>4, <1>5, <1>6, <1>7 DEF Manifests

LEMMA VerifyKeeps == ASSUME FileInv, NEW r \in Refreshers, Verify(r) PROVE FileInv'
<1>1. StoreTypes /\ refresher \in [Refreshers -> RefresherStates] /\ refresher[r].pc = "evaluated"
  BY DEF FileInv, StoreTypes, Verify
<1>2. UNCHANGED <<provider, files, disk, pointer, diskPointer, published, lock, reader, trouble>>
  BY DEF Verify
<1>3. CASE GenerationReads(files, ManifestOf(r))
  <2> DEFINE gen == refresher[r].gen
             man == ManifestOf(r)
             new == [IdleRefresher EXCEPT !.pc = "verified", !.gen = gen]
  <2>1. /\ manifests' = [manifests EXCEPT ![gen] = man]
        /\ refresher' = [refresher EXCEPT ![r] = new]
    BY <1>3 DEF Verify
  <2>2. man \in Manifests /\ gen \in Generations \cup {None}
    BY <1>1, ManifestIsTyped DEF RefresherStates
  <2> HIDE DEF man, gen
  <2>3. new \in RefresherStates /\ new.pc = "verified" /\ ~ new.usable
    BY <2>2, IdleIsTyped DEF RefresherStates, Phases, IdleRefresher
  <2> HIDE DEF new
  <2>4. refresher'[r] = new /\ refresher' \in [Refreshers -> RefresherStates]
    BY <1>1, <2>1, <2>3
  <2>5. manifests' \in [Generations -> Manifests]
    BY <1>1, <2>1, <2>2 DEF StoreTypes
  <2>6. StoreTypes'
    BY <1>1, <1>2, <2>4, <2>5 DEF StoreTypes, provider, trouble
  <2>7. LockIsHeld'
    BY <1>1, <1>2, <2>1, <2>3, LockStays
  <2>8. HasFile(r)' /\ HasMonths(r)' /\ HasSeries(r)'
    BY <2>3, <2>4, IdleHolds DEF Begun, HasSeries
  <2> QED
    BY <1>2, <2>1, <2>3, <2>6, <2>7, <2>8, QuietStep
<1>4. CASE ~ GenerationReads(files, ManifestOf(r))
  <2>1. Abort(r) /\ UNCHANGED manifests
    BY <1>4 DEF Verify
  <2>2. StoreTypes'
    BY <1>1, <1>2, <2>1, AbortStep DEF StoreTypes, provider, trouble
  <2>3. LockIsHeld'
    BY <1>1, <1>2, <2>1, AbortStep, LockStays
  <2> QED
    BY <1>2, <2>1, <2>2, <2>3, AbortStep, QuietStep
<1> QED
  BY <1>3, <1>4

LEMMA ReplaceCurrentKeeps == ASSUME FileInv, NEW r \in Refreshers, ReplaceCurrent(r), refresher[r].gen # None PROVE FileInv'
<1> DEFINE new == [refresher[r] EXCEPT !.pc = "replaced"]
<1>1. new \in RefresherStates /\ new.pc = "replaced" /\ refresher' = [refresher EXCEPT ![r] = new]
  BY PhaseStep DEF ReplaceCurrent, Phases
<1>2. StoreTypes /\ refresher \in [Refreshers -> RefresherStates]
  BY DEF FileInv, StoreTypes
<1>3. ~ new.usable
  BY <1>2, NotUsable DEF ReplaceCurrent, RefresherStates
<1> HIDE DEF new
<1>4. refresher'[r] = new /\ refresher' \in [Refreshers -> RefresherStates]
  BY <1>1, <1>2
<1>5. /\ pointer' = refresher[r].gen /\ published' = published \cup {pointer'}
      /\ UNCHANGED <<provider, files, disk, diskPointer, manifests, lock, reader, trouble>>
  BY DEF ReplaceCurrent
<1>6. pointer' \in Generations
  BY <1>2, <1>5 DEF RefresherStates
<1>7. StoreTypes'
  BY <1>2, <1>4, <1>5, <1>6 DEF StoreTypes, provider, trouble
<1>8. LockIsHeld'
  BY <1>1, <1>5, LockStays DEF ReplaceCurrent
<1>9. HasFile(r)' /\ HasMonths(r)' /\ HasSeries(r)'
  BY <1>1, <1>3, <1>4, IdleHolds DEF Begun, HasSeries
<1> QED
  BY <1>1, <1>5, <1>7, <1>8, <1>9, QuietStep

LEMMA SyncCurrentKeeps ==
    ASSUME FileInv, NEW r \in Refreshers, SyncCurrent(r) \/ SyncCurrentFails(r)
    PROVE  FileInv'
<1>1. /\ Abort(r) /\ refresher[r].pc = "replaced"
      /\ diskPointer' \in {diskPointer, pointer} /\ faults' \in Nat
      /\ UNCHANGED <<provider, files, disk, pointer, manifests, published, lock, reader, orphaned>>
  BY DEF SyncCurrent, SyncCurrentFails, Abort, store, trouble, FileInv, StoreTypes
<1>2. StoreTypes'
  BY <1>1, AbortStep DEF FileInv, StoreTypes, provider
<1>3. LockIsHeld'
  BY <1>1, AbortStep, LockStays
<1> QED
  BY <1>1, <1>2, <1>3, AbortStep, QuietStep

LEMMA ProviderKeeps ==
    ASSUME FileInv, Tick \/ \E t \in Correctable : Correct(t)
    PROVE  FileInv'
<1>1. StoreTypes
  BY DEF FileInv
<1>2. UNCHANGED <<store, refresher, reader, trouble, listing>>
  BY DEF Tick, Correct
<1>3. confirmed' \in 0..Times /\ market' \in [1..Times -> {0, 1}]
  BY <1>1, TrustedStoreAssumption DEF StoreTypes, Tick, Correct
<1>4. StoreTypes'
  BY <1>1, <1>2, <1>3 DEF StoreTypes, store, trouble
<1>5. FilesAreNamed' /\ DiskIsPart' /\ LockIsHeld'
  BY <1>2 DEF FileInv, FilesAreNamed, DiskIsPart, LockIsHeld, Agree, store
<1>6. CandidatesAreHeld'
  <2> SUFFICES ASSUME NEW r \in Refreshers PROVE (HasFile(r) /\ HasMonths(r) /\ HasSeries(r))'
    BY DEF CandidatesAreHeld
  <2>1. HasFile(r) /\ HasMonths(r) /\ HasSeries(r)
    BY DEF FileInv, CandidatesAreHeld
  <2>2. HasFile(r)'
    BY <1>2, <2>1 DEF HasFile, Begun, CandidateMonth, Exists, store
  <2>3. HasMonths(r)'
    BY <1>2, <2>1 DEF HasMonths, FirstMonth, Logical, CandidateMonth, Exists, store
  <2>4. HasSeries(r)'
    BY <1>2, <2>1 DEF HasSeries, Logical
  <2> QED
    BY <2>2, <2>3, <2>4
<1> QED
  BY <1>4, <1>5, <1>6 DEF FileInv

LEMMA LoadTypes ==
    ASSUME StoreTypes, NEW r \in Readers, Load(r)
    PROVE  reader' = [q \in Readers |-> reader'[q]] /\ \A q \in Readers : IsReaderState(reader'[q])
<1>1. /\ reader = [q \in Readers |-> reader[q]] /\ \A q \in Readers : IsReaderState(reader[q])
      /\ pointer \in Generations \cup {None}
  BY DEF StoreTypes
<1>2. ASSUME NEW new, IsReaderState(new), reader' = [reader EXCEPT ![r] = new]
      PROVE  reader' = [q \in Readers |-> reader'[q]] /\ \A q \in Readers : IsReaderState(reader'[q])
  <2>1. /\ reader'[r] = new /\ \A q \in Readers : q # r => reader'[q] = reader[q]
        /\ DOMAIN reader' = Readers
    BY <1>1, <1>2
  <2>2. reader' = [q \in Readers |-> reader'[q]]
    BY <1>1, <1>2
  <2> QED
    BY <1>1, <1>2, <2>1, <2>2
<1>3. CASE OpenContext(r)
  <2> DEFINE new == [IdleReader EXCEPT !.pc = "reading", !.gen = pointer]
  <2>2. reader' = [reader EXCEPT ![r] = new]
    BY <1>3 DEF OpenContext
  <2>3. IsReaderState(new)
    BY <1>1, IdleIsTyped DEF IsReaderState
  <2> HIDE DEF new
  <2> QED
    BY <1>2, <2>2, <2>3
<1>4. CASE ReadSegment(r)
  <2> DEFINE i == reader[r].next
             ref == Pinned(r).refs[i]
             rows == Joined(reader[r].rows, Part(files[ref.source], DOMAIN ref.rows))
             pc == IF i = Len(Pinned(r).refs) THEN "done" ELSE "reading"
             read == [reader[r] EXCEPT !.pc = pc, !.next = i + 1, !.rows = rows]
             test == /\ AllowedSource(Pinned(r), i) /\ ReferenceReads(files, ref)
                     /\ i = Len(Pinned(r).refs) => rows = Pinned(r).rows
             new == IF test THEN read ELSE IdleReader
  <2>1. reader' = [reader EXCEPT ![r] = new]
    BY <1>4, Zenon DEF ReadSegment
  <2>2. IsReaderState(read)
    <3>1. pc \in {"idle", "reading", "done"}
      OBVIOUS
    <3> HIDE DEF pc, rows, i
    <3> QED
      BY <1>1, <3>1 DEF IsReaderState
  <2> HIDE DEF read, test
  <2>3. IsReaderState(new)
    BY <2>2, IdleIsTyped
  <2> HIDE DEF new
  <2> QED
    BY <1>2, <2>1, <2>3
<1> QED
  BY <1>3, <1>4 DEF Load

LEMMA LoadKeeps == ASSUME FileInv, NEW r \in Readers, Load(r) PROVE FileInv'
<1>1. UNCHANGED <<provider, store, refresher, trouble>>
  BY DEF Load, OpenContext, ReadSegment
<1>2. StoreTypes'
  BY <1>1, LoadTypes DEF FileInv, StoreTypes, provider, store, trouble
<1>3. FilesAreNamed' /\ DiskIsPart' /\ LockIsHeld'
  BY <1>1 DEF FileInv, FilesAreNamed, DiskIsPart, LockIsHeld, Agree, store
<1>4. CandidatesAreHeld'
  <2> SUFFICES ASSUME NEW q \in Refreshers PROVE (HasFile(q) /\ HasMonths(q) /\ HasSeries(q))'
    BY DEF CandidatesAreHeld
  <2>1. HasFile(q) /\ HasMonths(q) /\ HasSeries(q)
    BY DEF FileInv, CandidatesAreHeld
  <2>2. HasFile(q)'
    BY <1>1, <2>1 DEF HasFile, Begun, CandidateMonth, Exists, store
  <2>3. HasMonths(q)'
    BY <1>1, <2>1 DEF HasMonths, FirstMonth, Logical, CandidateMonth, Exists, store
  <2>4. HasSeries(q)'
    BY <1>1, <2>1 DEF HasSeries, Logical
  <2> QED
    BY <2>2, <2>3, <2>4
<1> QED
  BY <1>2, <1>3, <1>4 DEF FileInv

LEMMA CrashKeeps == ASSUME FileInv, Crash PROVE FileInv'
<1>1. StoreTypes
  BY DEF FileInv
<1>2. /\ refresher' = [r \in Refreshers |-> IdleRefresher]
      /\ reader' = [r \in Readers |-> IdleReader]
      /\ disk' = files' /\ lock' = None /\ faults' = faults + 1
      /\ pointer' \in {pointer, diskPointer} /\ diskPointer' = pointer'
      /\ UNCHANGED <<provider, manifests, published, orphaned>>
  BY DEF Crash
<1>3. PICK lost \in SUBSET {s \in Sources : files[s] # disk[s]} :
          files' = [s \in Sources |-> IF s \in lost THEN disk[s] ELSE files[s]]
  BY DEF Crash
<1>4. \A s \in Sources : files'[s] = files[s] \/ files'[s] = disk[s]
  BY <1>3
<1>5. files' \in [Sources -> Runs]
  BY <1>1, <1>3 DEF StoreTypes
<1>6. refresher' \in [Refreshers -> RefresherStates]
  BY <1>2, IdleIsTyped
<1>7. reader' = [r \in Readers |-> reader'[r]] /\ \A r \in Readers : IsReaderState(reader'[r])
  BY <1>2, IdleIsTyped
<1>8. StoreTypes'
  BY <1>1, <1>2, <1>5, <1>6, <1>7 DEF StoreTypes, provider
<1>9. FilesAreNamed'
  BY <1>2, <1>4 DEF FileInv, FilesAreNamed
<1>10. DiskIsPart'
  BY <1>2 DEF DiskIsPart, Agree
<1>11. \A r \in Refreshers : refresher'[r].pc = "idle" /\ ~ refresher'[r].usable
  BY <1>2 DEF IdleRefresher
<1>12. LockIsHeld'
  BY <1>2, <1>11, TrustedStoreAssumption DEF LockIsHeld
<1>13. CandidatesAreHeld'
  BY <1>11 DEF CandidatesAreHeld, HasFile, HasMonths, HasSeries, Begun
<1> QED
  BY <1>8, <1>9, <1>10, <1>12, <1>13 DEF FileInv

-----------------------------------------------------------------------------
(* The steps under the dataset lock.                                       *)

\* A candidate, its logical window and its months.
LEMMA CandidateRuns ==
    ASSUME FileInv, NEW r \in Refreshers, Begun(r)
    PROVE  LET c == refresher[r].candidate
               w == Logical(r)
           IN  /\ c \in Runs /\ DOMAIN c # {} /\ Lo(c) \in 1..Times /\ Hi(c) \in 1..Times
               /\ DOMAIN c = Lo(c)..Hi(c)
               /\ w \in Runs /\ DOMAIN w # {} /\ DOMAIN w = Lo(w)..Hi(w)
               /\ Hi(w) = Hi(c) /\ Lo(w) \in Lo(c)..Hi(c)
               /\ ~ IsCovered(r) => Lo(w) = Lo(c)
               /\ CandidateMonth(r) \in Months /\ FirstMonth(r) \in Months /\ LastMonth(r) \in Months
               /\ MonthsOf(c) \subseteq CandidateMonth(r)..LastMonth(r)
               /\ CandidateMonth(r) <= FirstMonth(r) /\ FirstMonth(r) <= LastMonth(r)
<1> DEFINE c == refresher[r].candidate
           w == Logical(r)
<1>1. refresher[r] \in RefresherStates /\ HasFile(r)
  BY DEF FileInv, StoreTypes, CandidatesAreHeld
<1>2. c \in Runs /\ DOMAIN c # {} /\ refresher[r].days \in Nat
  BY <1>1 DEF RefresherStates, HasFile
<1>3. w = Window(c, refresher[r].days)
  BY DEF Logical
<1> HIDE DEF c, w
<1>4. Lo(c) \in DOMAIN c /\ Lo(c) \in 1..Times /\ Hi(c) \in 1..Times /\ DOMAIN c = Lo(c)..Hi(c)
  BY <1>2, RunBounds
<1>5. /\ w \in Runs /\ DOMAIN w # {} /\ Hi(w) = Hi(c) /\ Lo(w) \in Lo(c)..Hi(c)
      /\ Lo(w) # Lo(c) => Lo(w) = Hi(c) - refresher[r].days
  BY <1>2, <1>3, WindowRun
<1>6. DOMAIN w = Lo(w)..Hi(w) /\ Lo(w) \in 1..Times
  BY <1>5, RunBounds
<1>7. ~ IsCovered(r) => Lo(w) = Lo(c)
  <2>1. IsCovered(r) <=> Lo(w) <= Hi(w) - refresher[r].days + 1
    BY DEF IsCovered, Covered, w
  <2>2. Hi(c) \in Int /\ refresher[r].days \in Int
    BY <1>2, <1>4
  <2> QED
    BY <1>5, <2>1, <2>2
<1>8. CandidateMonth(r) = Month(Lo(c)) /\ FirstMonth(r) = Month(Lo(w)) /\ LastMonth(r) = Month(Hi(c))
  BY DEF CandidateMonth, FirstMonth, LastMonth, c, w
<1>9. CandidateMonth(r) \in Months /\ FirstMonth(r) \in Months /\ LastMonth(r) \in Months
  BY <1>4, <1>6, <1>8, MonthIsNat
<1>10. CandidateMonth(r) <= FirstMonth(r) /\ FirstMonth(r) <= LastMonth(r)
  BY <1>4, <1>5, <1>6, <1>8, MonthsAscend
<1>11. MonthsOf(c) \subseteq CandidateMonth(r)..LastMonth(r)
  <2> SUFFICES ASSUME NEW t \in DOMAIN c PROVE Month(t) \in CandidateMonth(r)..LastMonth(r)
    BY DEF MonthsOf
  <2>1. t \in 1..Times /\ Lo(c) <= t /\ t <= Hi(c)
    BY <1>2, <1>4, RunsAre
  <2>2. Month(Lo(c)) <= Month(t) /\ Month(t) <= Month(Hi(c)) /\ Month(t) \in Nat
    BY <1>4, <2>1, MonthsAscend, MonthIsNat, MonthsAreNat
  <2> QED
    BY <1>8, <1>9, <2>2, MonthsAreNat
<1> QED
  BY <1>2, <1>4, <1>5, <1>6, <1>7, <1>9, <1>10, <1>11 DEF c, w

\* A month's candles of the candidate.
LEMMA CandidatePart ==
    ASSUME FileInv, NEW r \in Refreshers, Begun(r), NEW m \in MonthsOf(refresher[r].candidate)
    PROVE  LET c == Candidate(r, m)
           IN  /\ c \in Runs /\ DOMAIN c = DOMAIN refresher[r].candidate \cap InMonth(m)
               /\ DOMAIN c # {} /\ Lo(c) \in DOMAIN c /\ Lo(c) \in 1..Times /\ Hi(c) \in 1..Times
               /\ DOMAIN c = Lo(c)..Hi(c) /\ Month(Lo(c)) = m /\ m \in Months
               /\ m = CandidateMonth(r) => Lo(c) = Lo(refresher[r].candidate)
<1> DEFINE all == refresher[r].candidate
           c == Candidate(r, m)
<1>1. all \in Runs /\ DOMAIN all = Lo(all)..Hi(all) /\ Lo(all) \in 1..Times /\ Lo(all) \in DOMAIN all
  BY CandidateRuns, RunBounds
<1>2. c = Part(all, InMonth(m))
  BY DEF Candidate
<1>3. CandidateMonth(r) = Month(Lo(all))
  BY DEF CandidateMonth
<1>4. PICK t \in DOMAIN all : Month(t) = m
  BY DEF MonthsOf
<1> HIDE DEF all, c
<1>5. c \in Runs /\ DOMAIN c = DOMAIN all \cap InMonth(m)
  BY <1>1, <1>2, MonthPart
<1>6. t \in DOMAIN c /\ m \in Months
  BY <1>1, <1>4, <1>5, RunsAre, MonthIsNat DEF InMonth
<1>7. Lo(c) \in DOMAIN c /\ Lo(c) \in 1..Times /\ Hi(c) \in 1..Times /\ DOMAIN c = Lo(c)..Hi(c)
  BY <1>5, <1>6, RunBounds
<1>8. Month(Lo(c)) = m
  BY <1>5, <1>7 DEF InMonth
<1>9. m = CandidateMonth(r) => Lo(c) = Lo(all)
  <2> SUFFICES ASSUME m = CandidateMonth(r) PROVE Lo(c) = Lo(all)
    OBVIOUS
  <2>1. Lo(all) \in DOMAIN c
    BY <1>1, <1>3, <1>5 DEF InMonth
  <2>2. Lo(c) <= Lo(all) /\ Lo(all) <= Lo(c)
    BY <1>1, <1>5, <1>7, <2>1
  <2> QED
    BY <1>1, <1>7, <2>2
<1> QED
  BY <1>5, <1>6, <1>7, <1>8, <1>9 DEF all, c

\* The file a month belongs to: another than the canonical one only for the
\* first logical month, and not after its candles.
LEMMA SourceOfMonth ==
    ASSUME FileInv, NEW r \in Refreshers, Begun(r), NEW m \in MonthsOf(refresher[r].candidate)
    PROVE  LET s == SourceOf(r, m)
           IN  /\ s \in Sources /\ s.month = m
               /\ s.start = 0 => s = Canonical(m)
               /\ s.start # 0 => /\ m = FirstMonth(r) /\ ~ Exists(Canonical(m))
                                 /\ s = refresher[r].partial \/ s.start = Lo(Candidate(r, m))
                                 /\ \A t \in DOMAIN Candidate(r, m) : s.start <= t
<1> DEFINE s == SourceOf(r, m)
           c == Candidate(r, m)
<1>1. /\ c \in Runs /\ DOMAIN c \subseteq DOMAIN refresher[r].candidate
      /\ Lo(c) \in 1..Times /\ DOMAIN c = Lo(c)..Hi(c) /\ Month(Lo(c)) = m /\ m \in Months
      /\ Hi(c) \in 1..Times
  BY CandidatePart
<1>2. Canonical(m) \in Sources /\ Canonical(m).month = m /\ Canonical(m).start = 0
  BY <1>1, SourcesAre
<1>3. CASE s = Canonical(m)
  BY <1>2, <1>3
<1>4. CASE s # Canonical(m) /\ Reuses(r, m)
  <2>1. ~ Exists(Canonical(m)) /\ s = refresher[r].partial
    BY <1>4 DEF SourceOf
  <2>2. s # None /\ m = FirstMonth(r) /\ s.month = m
    BY <1>4, <2>1 DEF Reuses
  <2>3. HasFile(r) /\ refresher[r] \in RefresherStates
    BY DEF FileInv, StoreTypes, CandidatesAreHeld
  <2>4. s \in Sources
    BY <2>1, <2>2, <2>3 DEF RefresherStates
  <2>5. s.start \in 1..Lo(refresher[r].candidate)
    BY <2>1, <2>2, <2>3 DEF HasFile
  <2>6. /\ DOMAIN refresher[r].candidate = Lo(refresher[r].candidate)..Hi(refresher[r].candidate)
        /\ Lo(refresher[r].candidate) \in 1..Times
    BY CandidateRuns
  <2>7. \A t \in DOMAIN c : s.start <= t
    BY <1>1, <2>5, <2>6
  <2>8. s.start # 0
    BY <2>5
  <2> QED
    BY <2>1, <2>2, <2>4, <2>7, <2>8
<1>5. CASE s # Canonical(m) /\ ~ Reuses(r, m)
  <2>1. /\ ~ Exists(Canonical(m)) /\ m = FirstMonth(r) /\ s = Partial(m, Lo(c))
    BY <1>5 DEF SourceOf
  <2>2. s \in Sources
    BY <1>1, <2>1, SourcesAre
  <2>3. s.month = m /\ s.start = Lo(c)
    BY <2>1 DEF Partial
  <2> QED
    BY <1>1, <2>1, <2>2, <2>3
<1> QED
  BY <1>3, <1>4, <1>5

\* The months that are written start with one that is there, or with the first
\* logical one, and end with the candidate's last.
LEMMA PhysicalMonthsAre ==
    ASSUME FileInv, NEW r \in Refreshers, Begun(r)
    PROVE  /\ PhysicalMonths(r) \subseteq MonthsOf(refresher[r].candidate)
           /\ PhysicalMonths(r) \subseteq Months
           /\ \A m \in PhysicalMonths(r) :
                  m < FirstMonth(r) /\ m = CandidateMonth(r) => Exists(Canonical(m))
<1> DEFINE all == MonthsOf(refresher[r].candidate)
           earlier == {m \in all : m < FirstMonth(r)}
           stored == earlier \cap CanonicalMonths
<1>1. all \subseteq CandidateMonth(r)..LastMonth(r) /\ CandidateMonth(r) \in Months /\ LastMonth(r) \in Months
  BY CandidateRuns
<1>2. all \subseteq Months
  BY <1>1, MonthBounds
<1>3. ASSUME NEW m \in RetainedMonths(r)
      PROVE  m \in all /\ stored # {} /\ m \in {k \in earlier : k >= Max(stored)}
  BY DEF RetainedMonths
<1> HIDE DEF all
<1>4. ASSUME NEW m \in RetainedMonths(r), m = CandidateMonth(r) PROVE Exists(Canonical(m))
  <2>1. stored # {} /\ m \in earlier /\ m >= Max(stored)
    BY <1>3
  <2>2. Month(Times) \in Nat /\ stored \in SUBSET (0..Month(Times))
    BY <1>2, MonthBounds
  <2>3. Max(stored) \in stored
    BY <2>1, <2>2, MaxIsGreatest
  <2>4. m <= Max(stored) /\ m \in Nat /\ Max(stored) \in Nat
    <3>1. Max(stored) \in all
      BY <2>3
    <3>2. Max(stored) \in CandidateMonth(r)..LastMonth(r)
      BY <1>1, <3>1
    <3>3. m \in Nat /\ Max(stored) \in Nat
      BY <1>1, <1>2, <1>4, <3>1, MonthsAreNat
    <3> QED
      BY <1>4, <3>2, <3>3
  <2>5. m \in stored
    BY <2>1, <2>3, <2>4
  <2> QED
    BY <2>5 DEF CanonicalMonths
<1>5. PhysicalMonths(r) = RetainedMonths(r) \cup {m \in all : m >= FirstMonth(r)}
  BY DEF PhysicalMonths, all
<1>6. FirstMonth(r) \in Nat
  BY CandidateRuns, MonthsAreNat
<1>7. PhysicalMonths(r) \subseteq all
  BY <1>3, <1>5
<1>8. ASSUME NEW m \in PhysicalMonths(r), m < FirstMonth(r), m = CandidateMonth(r)
      PROVE  Exists(Canonical(m))
  <2>1. m \in Nat
    BY <1>2, <1>7, MonthsAreNat
  <2>2. m \in RetainedMonths(r)
    BY <1>5, <1>6, <1>8, <2>1
  <2> QED
    BY <1>4, <1>8, <2>2
<1> QED
  BY <1>2, <1>7, <1>8 DEF all

LEMMA EnterKeeps == ASSUME FileInv, NEW r \in Refreshers, Enter(r) PROVE FileInv'
<1>1. StoreTypes /\ refresher \in [Refreshers -> RefresherStates] /\ refresher[r].pc = "fetched"
  BY DEF FileInv, StoreTypes, Enter
<1>2. /\ lock = None
      /\ UNCHANGED <<provider, files, disk, pointer, diskPointer, manifests, published, reader, trouble>>
  BY DEF Enter
<1>3. CASE ~ NextAdjacent(r)
  <2>1. Abort(r) /\ lock' = lock
    BY <1>3 DEF Enter
  <2>2. StoreTypes'
    BY <1>1, <1>2, <2>1, AbortStep DEF StoreTypes, provider, trouble
  <2>3. LockIsHeld'
    BY <1>1, <2>1, AbortStep, LockStays
  <2> QED
    BY <1>2, <2>1, <2>2, <2>3, AbortStep, QuietStep
<1>4. CASE NextAdjacent(r)
  <2> DEFINE months == PhysicalMonths(r)
             new == [refresher[r] EXCEPT !.pc = "month", !.months = months]
  <2>1. Begun(r)
    BY <1>1 DEF Begun
  <2>2. /\ months \subseteq MonthsOf(refresher[r].candidate) /\ months \subseteq Months
        /\ \A m \in months : m < FirstMonth(r) /\ m = CandidateMonth(r) => Exists(Canonical(m))
    BY <2>1, PhysicalMonthsAre
  <2>3. lock' = r /\ refresher' = [refresher EXCEPT ![r].pc = "month", ![r].months = months]
    BY <1>4 DEF Enter
  <2> HIDE DEF months
  <2>4. refresher' = [refresher EXCEPT ![r] = new]
    BY <1>1, <2>3
  <2>5. /\ new \in RefresherStates /\ new.pc = "month" /\ new.months = months
        /\ new.full = refresher[r].full /\ new.partial = refresher[r].partial
        /\ new.candidate = refresher[r].candidate /\ new.days = refresher[r].days
        /\ ~ new.usable
    <3>1. ~ refresher[r].usable
      BY <1>1, NotUsable
    <3> QED
      BY <1>1, <2>2, <3>1 DEF RefresherStates, Phases
  <2> HIDE DEF new
  <2>6. /\ refresher'[r] = new /\ refresher' \in [Refreshers -> RefresherStates]
        /\ \A q \in Refreshers : q # r => refresher'[q] = refresher[q]
    BY <1>1, <2>4, <2>5
  <2>7. StoreTypes'
    BY <1>1, <1>2, <2>3, <2>6 DEF StoreTypes, provider, trouble
  <2>8. LockIsHeld'
    <3>1. \A q \in Refreshers : lock = q <=> refresher[q].pc \in {"month", "sync"}
      BY DEF FileInv, LockIsHeld
    <3>2. None \notin Refreshers
      BY TrustedStoreAssumption
    <3> QED
      BY <1>2, <2>3, <2>5, <2>6, <3>1, <3>2 DEF LockIsHeld
  <2>9. \A s : Exists(s)' = Exists(s)
    BY <1>2 DEF Exists
  <2>10. CandidateMonth(r)' = CandidateMonth(r) /\ FirstMonth(r)' = FirstMonth(r)
    BY <2>5, <2>6 DEF CandidateMonth, FirstMonth, Logical
  <2>11. HasFile(r)
    BY DEF FileInv, CandidatesAreHeld
  <2>12. HasFile(r)'
    BY <2>1, <2>5, <2>6, <2>9, <2>10, <2>11 DEF HasFile
  <2>13. HasMonths(r)' /\ HasSeries(r)'
    BY <2>2, <2>5, <2>6, <2>9, <2>10 DEF HasMonths, HasSeries
  <2> QED
    BY <1>2, <2>4, <2>5, <2>7, <2>8, <2>12, <2>13, QuietStep
<1> QED
  BY <1>3, <1>4

-----------------------------------------------------------------------------
(* What is written.                                                        *)

\* The candles of a month above those its file has.
LEMMA SuffixIs ==
    ASSUME FileInv, NEW r \in Refreshers, Begun(r), NEW m \in MonthsOf(refresher[r].candidate),
           Exists(SourceOf(r, m))
    PROVE  LET f == files[SourceOf(r, m)]
               c == Candidate(r, m)
               x == Suffix(r, m)
           IN  /\ f \in Runs /\ DOMAIN f # {} /\ Hi(f) \in 1..Times /\ DOMAIN f = Lo(f)..Hi(f)
               /\ Lo(f) \in 1..Times
               /\ x \in Runs /\ DOMAIN x = {t \in DOMAIN c : t > Hi(f)}
               /\ x # NoRows => Lo(x) \in DOMAIN x /\ \A t \in DOMAIN x : Lo(x) <= t
<1> DEFINE f == files[SourceOf(r, m)]
           c == Candidate(r, m)
           x == Suffix(r, m)
<1>1. f \in Runs /\ f # NoRows
  BY SourceOfMonth DEF FileInv, StoreTypes, Exists
<1>2. c \in Runs
  BY CandidatePart
<1>3. x = Part(c, (Hi(f) + 1)..Times)
  BY DEF Suffix
<1> HIDE DEF f, c, x
<1>4. DOMAIN f # {} /\ Hi(f) \in 1..Times /\ Lo(f) \in 1..Times /\ DOMAIN f = Lo(f)..Hi(f)
  BY <1>1, EmptyRun, RunBounds
<1>5. Hi(f) + 1 \in Int /\ Times \in Int /\ Hi(f) \in Int
  BY <1>4, TrustedStoreAssumption
<1>6. x \in Runs /\ DOMAIN x = DOMAIN c \cap (Hi(f) + 1)..Times
  <2> DEFINE a == Hi(f) + 1
  <2>1. a \in Int /\ Times \in Int
    BY <1>5
  <2> HIDE DEF a
  <2>2. Part(c, a..Times) \in Runs /\ DOMAIN Part(c, a..Times) = DOMAIN c \cap a..Times
    BY <1>2, <2>1, RangePart
  <2> QED
    BY <1>3, <2>2 DEF a
<1>7. \A t \in DOMAIN c : t \in 1..Times
  BY <1>2, RunsAre
<1>8. DOMAIN x = {t \in DOMAIN c : t > Hi(f)}
  BY <1>5, <1>6, <1>7
<1>9. x # NoRows => Lo(x) \in DOMAIN x /\ \A t \in DOMAIN x : Lo(x) <= t
  <2> SUFFICES ASSUME x # NoRows PROVE Lo(x) \in DOMAIN x /\ \A t \in DOMAIN x : Lo(x) <= t
    OBVIOUS
  <2>1. Lo(x) \in DOMAIN x /\ DOMAIN x = Lo(x)..Hi(x)
    BY <1>6, EmptyRun, RunBounds
  <2> QED
    BY <2>1
<1> QED
  BY <1>1, <1>4, <1>6, <1>8, <1>9 DEF f, c, x

\* A file that is created is named after what it has.
LEMMA CreatedFile ==
    ASSUME FileInv, NEW r \in Refreshers, refresher[r].pc = "month", NEW m \in refresher[r].months,
           MayCreate(r, m)
    PROVE  IsFile(SourceOf(r, m), Candidate(r, m))
<1> DEFINE s == SourceOf(r, m)
           all == refresher[r].candidate
           c == Candidate(r, m)
<1>1. Begun(r) /\ refresher[r] \in RefresherStates
  BY DEF Begun, FileInv, StoreTypes
<1>2. HasMonths(r) /\ HasFile(r)
  BY DEF FileInv, CandidatesAreHeld
<1>3. m \in MonthsOf(all) /\ (m < FirstMonth(r) /\ m = CandidateMonth(r) => Exists(Canonical(m)))
  BY <1>2 DEF HasMonths
<1>4. /\ c \in Runs /\ DOMAIN c = DOMAIN all \cap InMonth(m)
      /\ DOMAIN c # {} /\ Lo(c) \in DOMAIN c /\ Lo(c) \in 1..Times /\ Hi(c) \in 1..Times
      /\ DOMAIN c = Lo(c)..Hi(c) /\ Month(Lo(c)) = m /\ m \in Months
      /\ m = CandidateMonth(r) => Lo(c) = Lo(all)
  BY <1>1, <1>3, CandidatePart
<1>5. /\ s \in Sources /\ s.month = m
      /\ s.start = 0 => s = Canonical(m)
      /\ s.start # 0 => /\ m = FirstMonth(r) /\ ~ Exists(Canonical(m))
                        /\ s = refresher[r].partial \/ s.start = Lo(c)
                        /\ \A t \in DOMAIN c : s.start <= t
  BY <1>1, <1>3, SourceOfMonth
<1>6. ~ Exists(s) /\ s # refresher[r].partial
  BY DEF MayCreate
<1>7. /\ all \in Runs /\ DOMAIN all = Lo(all)..Hi(all) /\ Lo(all) \in 1..Times /\ Hi(all) \in 1..Times
      /\ CandidateMonth(r) \in Months /\ FirstMonth(r) \in Months
      /\ MonthsOf(all) \subseteq CandidateMonth(r)..LastMonth(r)
      /\ CandidateMonth(r) <= FirstMonth(r) /\ LastMonth(r) \in Months
      /\ ~ IsCovered(r) => Lo(Logical(r)) = Lo(all)
  BY <1>1, CandidateRuns
<1>8. CandidateMonth(r) = Month(Lo(all))
  BY DEF CandidateMonth
<1>9. \A t \in DOMAIN c : Month(t) = s.month
  BY <1>4, <1>5 DEF InMonth
<1>10. CASE s.start # 0
  <2>1. s.start = Lo(c)
    BY <1>5, <1>6, <1>10
  <2> QED
    BY <1>4, <1>5, <1>9, <1>10, <2>1 DEF IsFile
<1>11. CASE s.start = 0
  <2>1. s = Canonical(m)
    BY <1>5, <1>11
  <2> SUFFICES ASSUME NEW t \in DOMAIN c, NEW u \in InMonth(m), u <= t
               PROVE  u \in DOMAIN c
    BY <1>5, <1>9, <1>11 DEF IsFile
  <2>2. u \in 1..Times /\ t \in 1..Times /\ Month(u) = m /\ Month(t) = m /\ t \in DOMAIN all
    BY <1>4, RunsAre DEF InMonth
  <2>3. CASE m # CandidateMonth(r)
    <3>1. ~ (u <= Lo(all))
      <4>1. CandidateMonth(r) < m
        <5>1. m \in Nat /\ CandidateMonth(r) \in Nat /\ LastMonth(r) \in Nat
          BY <1>4, <1>7, MonthsAreNat
        <5>2. m \in CandidateMonth(r)..LastMonth(r)
          BY <1>3, <1>7
        <5> QED
          BY <2>3, <5>1, <5>2
      <4>3. m \in Nat /\ CandidateMonth(r) \in Nat
        BY <1>4, <1>7, MonthsAreNat
      <4>2. u <= Lo(all) => m <= CandidateMonth(r)
        BY <1>7, <1>8, <2>2, MonthsAscend
      <4> QED
        BY <4>1, <4>2, <4>3
    <3> QED
      BY <1>4, <1>7, <2>2, <3>1
  <2>4. CASE m = CandidateMonth(r)
    <3>1. m = FirstMonth(r)
      <4>1. ~ (m < FirstMonth(r))
        BY <1>3, <1>6, <2>1, <2>4
      <4>2. m \in Nat /\ FirstMonth(r) \in Nat
        BY <1>4, <1>7, MonthsAreNat
      <4>3. CandidateMonth(r) <= FirstMonth(r)
        BY <1>7
      <4> QED
        BY <2>4, <4>1, <4>2, <4>3
    <3>2. refresher[r].full
      <4> SUFFICES ASSUME ~ refresher[r].full PROVE FALSE
        OBVIOUS
      <4>1. refresher[r].partial # None /\ refresher[r].partial.month = m
            /\ refresher[r].partial.start \in 1..Lo(all)
        BY <1>1, <1>2, <1>6, <2>1, <2>4 DEF HasFile
      <4>2. Reuses(r, m)
        BY <3>1, <4>1 DEF Reuses
      <4>3. s = refresher[r].partial
        BY <1>6, <2>1, <4>2 DEF SourceOf
      <4> QED
        BY <1>6, <4>3
    <3>3. ~ MidMonth(Lo(all))
      <4>1. CASE IsCovered(r)
        BY <1>4, <2>1, <2>4, <3>1, <3>2, <4>1 DEF MayCreate
      <4>2. CASE ~ IsCovered(r)
        <5>1. refresher[r].partial = None
          BY <1>1, <1>2, <3>2 DEF HasFile
        <5>2. Isolates(r) /\ ~ Reuses(r, m)
          BY <4>2, <5>1 DEF Isolates, Reuses
        <5>3. ~ StartsMidMonth(r)
          <6> SUFFICES ASSUME StartsMidMonth(r) PROVE FALSE
            OBVIOUS
          <6>1. s = Partial(m, Lo(c))
            BY <1>6, <2>1, <3>1, <5>2 DEF SourceOf
          <6>2. s.start = Lo(c)
            BY <6>1 DEF Partial
          <6> QED
            BY <1>4, <1>11, <6>2
        <5> QED
          BY <1>7, <4>2, <5>3 DEF StartsMidMonth
      <4> QED
        BY <4>1, <4>2
    <3>4. Lo(all) <= u
      <4> SUFFICES ASSUME u < Lo(all) PROVE FALSE
        BY <1>7, <2>2
      <4>1. Lo(all) > 1 /\ Lo(all) - 1 \in 1..Times /\ u <= Lo(all) - 1
        BY <1>7, <2>2, TrustedStoreAssumption
      <4>2. Month(u) <= Month(Lo(all) - 1) /\ Month(Lo(all) - 1) <= Month(Lo(all))
        BY <1>7, <2>2, <4>1, MonthsAscend
      <4>3. Month(Lo(all) - 1) \in Nat /\ m \in Nat
        BY <1>4, <4>1, MonthIsNat, MonthsAreNat
      <4>4. Month(Lo(all) - 1) = Month(Lo(all))
        BY <1>8, <2>2, <2>4, <4>2, <4>3
      <4> QED
        BY <3>3, <4>1, <4>4 DEF MidMonth
    <3> QED
      BY <1>4, <1>7, <2>2, <3>4
  <2> QED
    BY <2>3, <2>4
<1> QED
  BY <1>10, <1>11

\* A file that grows keeps its start, and what it gets follows its end.
LEMMA GrownFile ==
    ASSUME FileInv, NEW r \in Refreshers, Begun(r), NEW m \in MonthsOf(refresher[r].candidate),
           MayGrow(r, m), Suffix(r, m) # NoRows
    PROVE  LET s == SourceOf(r, m)
               f == files[s]
               g == Joined(f, Suffix(r, m))
           IN  /\ g \in Runs /\ IsFile(s, g)
               /\ \A t \in DOMAIN g : t \in DOMAIN f \/ t > Hi(f)
<1> DEFINE s == SourceOf(r, m)
           f == files[s]
           c == Candidate(r, m)
           x == Suffix(r, m)
           g == Joined(f, x)
<1>1. /\ c \in Runs /\ DOMAIN c = DOMAIN refresher[r].candidate \cap InMonth(m)
      /\ DOMAIN c = Lo(c)..Hi(c) /\ Lo(c) \in 1..Times /\ Hi(c) \in 1..Times
  BY CandidatePart
<1>2. /\ s \in Sources /\ s.month = m
      /\ s.start # 0 => \A t \in DOMAIN c : s.start <= t
  BY SourceOfMonth
<1>3. Exists(s) /\ Lo(x) = Hi(f) + 1
  BY DEF MayGrow
<1>4. /\ f \in Runs /\ DOMAIN f # {} /\ Hi(f) \in 1..Times /\ DOMAIN f = Lo(f)..Hi(f)
      /\ Lo(f) \in 1..Times /\ DOMAIN x = {t \in DOMAIN c : t > Hi(f)}
      /\ Lo(x) \in DOMAIN x /\ \A t \in DOMAIN x : Lo(x) <= t
  BY <1>3, SuffixIs
<1>5. IsFile(s, f)
  BY <1>2 DEF FileInv, FilesAreNamed
<1>7. DOMAIN f \cup DOMAIN x = DOMAIN g /\ x \in Runs
  BY <1>3, JoinedDomain, SuffixIs
<1> HIDE DEF s, f, c, x, g
<1>6. \A t \in DOMAIN g : t \in DOMAIN f \/ t \in DOMAIN x
  BY <1>7
<1>8. \A t \in DOMAIN c : Month(t) = m /\ t \in InMonth(m) /\ t \in 1..Times
  BY <1>1, RunsAre DEF InMonth
<1>9. \A t \in DOMAIN f : Month(t) = m /\ t \in InMonth(m) /\ t \in 1..Times
  BY <1>2, <1>4, <1>5, RunsAre DEF InMonth, IsFile
<1>10. \A t \in DOMAIN x : t \in DOMAIN c /\ t > Hi(f)
  BY <1>4
<1>11. \A t \in DOMAIN g : t \in DOMAIN f \/ t > Hi(f)
  BY <1>6, <1>10
<1>12. \A t \in DOMAIN x : Hi(f) + 1..t \subseteq DOMAIN x
  <2> SUFFICES ASSUME NEW t \in DOMAIN x, NEW u \in Hi(f) + 1..t PROVE u \in DOMAIN x
    OBVIOUS
  <2>1. Hi(f) + 1 \in DOMAIN c /\ t \in DOMAIN c
    BY <1>3, <1>4
  <2>2. u \in DOMAIN c
    BY <1>1, <1>4, <1>8, <2>1
  <2> QED
    BY <1>4, <1>8, <2>2
<1>13. \A a, b \in DOMAIN g : a..b \subseteq DOMAIN g
  <2> SUFFICES ASSUME NEW a \in DOMAIN g, NEW b \in DOMAIN g, NEW u \in a..b PROVE u \in DOMAIN g
    OBVIOUS
  <2>1. a \in 1..Times /\ b \in 1..Times
    BY <1>6, <1>8, <1>9, <1>10
  <2>2. u \in Int /\ a <= u /\ u <= b
    BY <2>1
  <2>3. Lo(f) <= a
    BY <1>4, <1>11, <2>1
  <2>4. CASE u <= Hi(f)
    <3>1. u \in Lo(f)..Hi(f)
      BY <1>4, <2>1, <2>2, <2>3, <2>4
    <3> QED
      BY <1>4, <1>7, <3>1
  <2>5. CASE u > Hi(f)
    <3>1. b \in DOMAIN x /\ b > Hi(f)
      BY <1>4, <1>6, <2>1, <2>2, <2>5
    <3>2. u \in Hi(f) + 1..b
      BY <1>4, <2>2, <2>5
    <3> QED
      BY <1>7, <1>12, <3>1, <3>2
  <2> QED
    BY <1>4, <2>2, <2>4, <2>5
<1>14. g \in Runs
  <2>1. \A a, b \in DOMAIN f \cup DOMAIN x : a..b \subseteq DOMAIN f \cup DOMAIN x
    BY <1>7, <1>13
  <2> QED
    BY <1>4, <1>7, <2>1, JoinedIsRun DEF g
<1>15. IsFile(s, g)
  <2>1. \A t \in DOMAIN g : Month(t) = s.month
    BY <1>2, <1>6, <1>8, <1>9, <1>10
  <2>2. ASSUME s.start = 0, NEW t \in DOMAIN g, NEW u \in InMonth(s.month), u <= t
        PROVE  u \in DOMAIN g
    <3>1. u \in 1..Times /\ t \in 1..Times
      BY <1>6, <1>8, <1>9, <1>10 DEF InMonth
    <3>2. CASE u <= Hi(f)
      <4>1. Hi(f) \in DOMAIN f
        BY <1>4
      <4> QED
        BY <1>5, <1>7, <2>2, <3>2, <4>1 DEF IsFile
    <3>3. CASE u > Hi(f)
      <4>1. t \in DOMAIN x /\ t > Hi(f)
        BY <1>4, <1>6, <2>2, <3>1, <3>3
      <4>2. u \in Hi(f) + 1..t
        BY <1>4, <2>2, <3>1, <3>3
      <4> QED
        BY <1>7, <1>12, <4>1, <4>2
    <3> QED
      BY <1>4, <3>1, <3>2, <3>3
  <2>3. ASSUME s.start # 0, NEW t \in DOMAIN g PROVE s.start <= t /\ s.start \in DOMAIN g
    BY <1>2, <1>4, <1>5, <1>6, <1>7, <1>10, <2>3 DEF IsFile
  <2> QED
    BY <2>1, <2>2, <2>3 DEF IsFile
<1> QED
  BY <1>11, <1>14, <1>15 DEF s, f, x, g

\* What a file gets is the candidate's.
LEMMA GrowthIsPart ==
    ASSUME NEW r \in Refreshers, NEW m
    PROVE  \A t \in DOMAIN Growth(r, m) :
              t \in DOMAIN Candidate(r, m) /\ Growth(r, m)[t] = Candidate(r, m)[t]
<1>1. \A rows, times : \A t \in DOMAIN Part(rows, times) :
         t \in DOMAIN rows /\ Part(rows, times)[t] = rows[t]
  BY DEF Part
<1>2. CASE Exists(SourceOf(r, m))
  BY <1>1, <1>2 DEF Growth, Suffix
<1>3. CASE ~ Exists(SourceOf(r, m))
  BY <1>3 DEF Growth
<1> QED
  BY <1>2, <1>3

\* What a step writes: the month's file, created or grown.
LEMMA WrittenFile ==
    ASSUME FileInv, NEW r \in Refreshers, refresher[r].pc = "month", NEW m \in refresher[r].months,
           MayCreate(r, m) \/ MayGrow(r, m),
           ~ (Exists(SourceOf(r, m)) /\ Suffix(r, m) = NoRows)
    PROVE  LET s == SourceOf(r, m)
               f == files[s]
               g == Joined(f, Growth(r, m))
           IN  /\ m \in MonthsOf(refresher[r].candidate) /\ s \in Sources /\ s.month = m
               /\ g \in Runs /\ DOMAIN g # {} /\ IsFile(s, g)
               /\ Exists(s) => /\ MayGrow(r, m) /\ Suffix(r, m) # NoRows
                               /\ \A t \in DOMAIN g : t \in DOMAIN f \/ t > Hi(f)
               /\ ~ Exists(s) => /\ MayCreate(r, m) /\ DOMAIN g = DOMAIN Candidate(r, m)
<1> DEFINE s == SourceOf(r, m)
           f == files[s]
           c == Candidate(r, m)
           g == Joined(f, Growth(r, m))
<1>1. Begun(r)
  BY DEF Begun
<1>2. m \in MonthsOf(refresher[r].candidate)
  BY DEF FileInv, CandidatesAreHeld, HasMonths
<1>3. s \in Sources /\ s.month = m
  BY <1>1, <1>2, SourceOfMonth
<1>4. c \in Runs /\ DOMAIN c # {} /\ f \in Runs
  BY <1>1, <1>2, <1>3, CandidatePart DEF FileInv, StoreTypes
<1>5. /\ Exists(s) => g = Joined(f, Suffix(r, m))
      /\ ~ Exists(s) => g = Joined(f, c) /\ DOMAIN g = DOMAIN f \cup DOMAIN c
  BY JoinedDomain DEF Growth
<1>6. CASE Exists(s)
  <2>1. MayGrow(r, m) /\ Suffix(r, m) # NoRows
    BY <1>6 DEF MayCreate
  <2>2. g \in Runs /\ IsFile(s, g) /\ \A t \in DOMAIN g : t \in DOMAIN f \/ t > Hi(f)
    BY <1>1, <1>2, <1>5, <1>6, <2>1, GrownFile
  <2>3. DOMAIN f # {} /\ DOMAIN f \subseteq DOMAIN g
    <3>1. f # NoRows
      BY <1>6 DEF Exists
    <3>2. DOMAIN g = DOMAIN f \cup DOMAIN Growth(r, m)
      BY JoinedDomain
    <3> HIDE DEF f, g
    <3> QED
      BY <1>4, <3>1, <3>2, EmptyRun
  <2> QED
    BY <1>2, <1>3, <1>6, <2>1, <2>2, <2>3
<1>7. CASE ~ Exists(s)
  <2>1. MayCreate(r, m)
    BY <1>7 DEF MayGrow
  <2>2. DOMAIN f = {}
    BY <1>7, EmptyRun DEF Exists
  <2>3. IsFile(s, c)
    BY <2>1, CreatedFile
  <2>4. DOMAIN g = DOMAIN c
    BY <1>5, <1>7, <2>2
  <2>5. g \in Runs
    <3>1. \A a, b \in DOMAIN f \cup DOMAIN c : a..b \subseteq DOMAIN f \cup DOMAIN c
      BY <1>4, <2>2, RunsAre
    <3> QED
      BY <1>4, <1>5, <1>7, <3>1, JoinedIsRun
  <2>6. IsFile(s, g)
    BY <2>3, <2>4 DEF IsFile
  <2> QED
    BY <1>2, <1>3, <1>4, <1>7, <2>1, <2>4, <2>5, <2>6
<1> QED
  BY <1>6, <1>7

LEMMA WriteMonthKeeps == ASSUME FileInv, NEW r \in Refreshers, WriteMonth(r) PROVE FileInv'
<1> DEFINE m == Min(refresher[r].months)
           s == SourceOf(r, m)
           g == Joined(files[s], Growth(r, m))
           left == refresher[r].months \ {m}
           skips == Exists(s) /\ Suffix(r, m) = NoRows
           pc == IF skips THEN "month" ELSE "sync"
           new == [refresher[r] EXCEPT !.pc = pc, !.months = left]
<1>1. /\ StoreTypes /\ refresher \in [Refreshers -> RefresherStates] /\ refresher[r].pc = "month"
      /\ refresher[r] \in RefresherStates
  BY DEF FileInv, StoreTypes, WriteMonth
<1>2. /\ refresher[r].months # {} /\ (MayCreate(r, m) \/ MayGrow(r, m))
      /\ UNCHANGED <<provider, disk, pointer, diskPointer, manifests, published, lock, reader, trouble>>
      /\ IF skips
         THEN /\ refresher' = [refresher EXCEPT ![r].months = @ \ {m}]
              /\ UNCHANGED files
         ELSE /\ files' = [files EXCEPT ![s] = Joined(@, Growth(r, m))]
              /\ refresher' = [refresher EXCEPT ![r].pc = "sync", ![r].months = @ \ {m}]
  BY DEF WriteMonth
<1>3. refresher' = [refresher EXCEPT ![r] = new]
  <2>1. CASE skips
    <3>1. pc = refresher[r].pc
      BY <1>1, <2>1
    <3>2. new = [refresher[r] EXCEPT !.months = left]
      <4>1. \A q \in RefresherStates :
               \A x : [q EXCEPT !.pc = q.pc, !.months = x] = [q EXCEPT !.months = x]
        BY DEF RefresherStates
      <4> HIDE DEF left, pc
      <4> QED
        BY <1>1, <3>1, <4>1
    <3> HIDE DEF new, pc
    <3>3. refresher' = [refresher EXCEPT ![r].months = left]
      BY <1>2, <2>1
    <3> HIDE DEF left
    <3> QED
      BY <1>1, <3>2, <3>3
  <2>2. CASE ~ skips
    <3>1. refresher' = [refresher EXCEPT ![r].pc = "sync", ![r].months = left] /\ pc = "sync"
      BY <1>2, <2>2
    <3> HIDE DEF left, pc
    <3> QED
      BY <1>1, <3>1
  <2> QED
    BY <2>1, <2>2
<1>4. /\ files' = IF skips THEN files ELSE [files EXCEPT ![s] = g]
  BY <1>2
<1>5. m \in refresher[r].months
  <2>1. refresher[r].months \in SUBSET Nat
    BY <1>1, MonthsAreNat DEF RefresherStates
  <2> QED
    BY <1>2, <2>1, MinIsLeast
<1>6. ~ skips => /\ s \in Sources /\ g \in Runs /\ DOMAIN g # {} /\ IsFile(s, g)
  BY <1>1, <1>2, <1>5, WrittenFile
<1>7. DOMAIN files[s] \subseteq DOMAIN g /\ \A t \in DOMAIN files[s] : g[t] = files[s][t]
  <2> HIDE DEF s
  <2> QED
    BY DEF Joined
<1>8. left \subseteq Months /\ pc \in {"month", "sync"}
  BY <1>1 DEF RefresherStates
<1>9. ~ refresher[r].usable
  BY <1>1, NotUsable
<1> HIDE DEF m, s, g, left, skips, pc
<1>10. /\ new \in RefresherStates /\ new.pc \in {"month", "sync"} /\ new.months = left
       /\ new.full = refresher[r].full /\ new.partial = refresher[r].partial
       /\ new.candidate = refresher[r].candidate /\ new.days = refresher[r].days
       /\ ~ new.usable
  BY <1>1, <1>8, <1>9 DEF RefresherStates, Phases
<1> HIDE DEF new
<1>11. refresher'[r] = new /\ refresher' \in [Refreshers -> RefresherStates]
  BY <1>1, <1>3, <1>10
<1>12. files' \in [Sources -> Runs]
  BY <1>1, <1>4, <1>6 DEF StoreTypes
<1>13. StoreTypes'
  BY <1>1, <1>2, <1>11, <1>12 DEF StoreTypes, provider, trouble
<1>14. \A x \in Sources : files'[x] = files[x] \/ (~ skips /\ x = s /\ files'[x] = g)
  BY <1>1, <1>4, <1>6 DEF StoreTypes
<1>15. FilesAreNamed'
  BY <1>2, <1>6, <1>14 DEF FileInv, FilesAreNamed
<1>16. DiskIsPart'
  BY <1>2, <1>7, <1>14 DEF FileInv, DiskIsPart, Agree
<1>17. \A x \in Sources : Exists(x) => Exists(x)'
  BY <1>6, <1>14, EmptyRun DEF Exists
<1>18. LockIsHeld'
  BY <1>1, <1>2, <1>3, <1>10, LockStays
<1>19. \A q \in Refreshers : q # r => HasFile(q)' /\ HasMonths(q)' /\ HasSeries(q)'
  BY <1>3, <1>10, <1>17, OthersHold
<1>20. CandidateMonth(r)' = CandidateMonth(r) /\ FirstMonth(r)' = FirstMonth(r)
  BY <1>10, <1>11 DEF CandidateMonth, FirstMonth, Logical
<1>21. HasFile(r) /\ HasMonths(r) /\ Begun(r) /\ CandidateMonth(r) \in Months
  BY <1>1, CandidateRuns DEF FileInv, CandidatesAreHeld, Begun
<1>22. \A k \in Months : Canonical(k) \in Sources
  BY SourcesAre
<1>23. HasFile(r)'
  BY <1>1, <1>10, <1>11, <1>17, <1>20, <1>21, <1>22 DEF HasFile, RefresherStates
<1>24. HasMonths(r)'
  BY <1>1, <1>8, <1>10, <1>11, <1>17, <1>20, <1>21, <1>22 DEF HasMonths, left
<1>25. HasSeries(r)'
  BY <1>10, <1>11 DEF HasSeries
<1>26. CandidatesAreHeld'
  BY <1>19, <1>23, <1>24, <1>25 DEF CandidatesAreHeld
<1> QED
  BY <1>13, <1>15, <1>16, <1>18, <1>26 DEF FileInv

-----------------------------------------------------------------------------
(* The references of a series.                                             *)

\* A run of candles has some of every month between its ends.
LEMMA MonthsOfRun ==
    ASSUME NEW w \in Runs, DOMAIN w # {}
    PROVE  MonthsOf(w) = Month(Lo(w))..Month(Hi(w))
<1>1. /\ Lo(w) \in 1..Times /\ Hi(w) \in 1..Times /\ DOMAIN w = Lo(w)..Hi(w)
      /\ Lo(w) \in DOMAIN w /\ Hi(w) \in DOMAIN w
  BY RunBounds
<1>2. \A t \in DOMAIN w : t \in 1..Times /\ Lo(w) <= t /\ t <= Hi(w)
  BY <1>1, RunsAre
<1>3. \A t \in 1..Times : Month(t) \in Nat
  BY MonthIsNat, MonthsAreNat
<1>4. ASSUME NEW t \in DOMAIN w PROVE Month(t) \in Month(Lo(w))..Month(Hi(w))
  <2>1. Month(Lo(w)) <= Month(t) /\ Month(t) <= Month(Hi(w))
    BY <1>1, <1>2, MonthsAscend
  <2> QED
    BY <1>1, <1>2, <1>3, <2>1
<1>5. ASSUME NEW k \in Month(Lo(w))..Month(Hi(w)) PROVE \E t \in DOMAIN w : Month(t) = k
  <2> DEFINE S == {t \in DOMAIN w : k <= Month(t)}
  <2>1. S \in SUBSET Nat /\ Hi(w) \in S
    BY <1>1, <1>2, <1>3
  <2>2. Min(S) \in S /\ \A t \in S : Min(S) <= t
    BY <2>1, MinIsLeast
  <2> DEFINE t == Min(S)
  <2>3. t \in DOMAIN w /\ k <= Month(t) /\ t \in 1..Times /\ Month(t) \in Nat
    BY <1>2, <1>3, <2>2
  <2>4. \A u \in DOMAIN w : u < t => Month(u) < k
    <3> SUFFICES ASSUME NEW u \in DOMAIN w, u < t, ~ (Month(u) < k) PROVE FALSE
      OBVIOUS
    <3>1. Month(u) \in Nat /\ k \in Int /\ u \in Nat
      BY <1>1, <1>2, <1>3
    <3>2. u \in S
      BY <3>1
    <3>3. t <= u
      BY <2>2, <3>2
    <3> HIDE DEF t
    <3> QED
      BY <2>3, <3>1, <3>3
  <2> HIDE DEF t, S
  <2>5. k \in Int /\ Month(Lo(w)) <= k
    BY <1>1, <1>3
  <2>6. CASE t = Lo(w)
    BY <2>3, <2>5, <2>6
  <2>7. CASE t # Lo(w)
    <3>1. t - 1 \in DOMAIN w /\ t - 1 \in 1..Times /\ t - 1 < t
      BY <1>1, <1>2, <2>3, <2>7
    <3>2. Month(t - 1) < k
      BY <2>4, <3>1
    <3>3. Month((t - 1) + 1) \in {Month(t - 1), Month(t - 1) + 1} /\ (t - 1) + 1 = t
      BY <2>3, <3>1, MonthsAscend
    <3>4. Month(t - 1) \in Nat
      BY <1>3, <3>1
    <3> QED
      BY <2>3, <2>5, <3>2, <3>3, <3>4
  <2> QED
    BY <2>6, <2>7
<1> QED
  BY <1>4, <1>5 DEF MonthsOf

\* The references that FinishSegments checks.
SegmentReferences(r) ==
    [i \in 1..Cardinality(LogicalMonths(r)) |-> ReferenceFor(r, FirstMonth(r) + i - 1)]

LEMMA ReferencesAreLinked ==
    ASSUME FileInv, NEW r \in Refreshers, Begun(r), Reads(files, SegmentReferences(r))
    PROVE  LET refs == SegmentReferences(r)
           IN  refs \in Seq(References) /\ Linked(refs) /\ Begins(refs, Logical(r))
<1> DEFINE refs == SegmentReferences(r)
           w == Logical(r)
           first == FirstMonth(r)
           last == Month(Hi(w))
           n == last - first + 1
<1>1. /\ w \in Runs /\ DOMAIN w # {} /\ DOMAIN w = Lo(w)..Hi(w)
      /\ first \in Months /\ refresher[r].candidate \in Runs
      /\ DOMAIN refresher[r].candidate = Lo(refresher[r].candidate)..Hi(refresher[r].candidate)
      /\ Hi(w) = Hi(refresher[r].candidate) /\ Lo(w) \in Lo(refresher[r].candidate)..Hi(refresher[r].candidate)
      /\ last \in Months /\ first <= last /\ Lo(refresher[r].candidate) \in 1..Times
      /\ Hi(refresher[r].candidate) \in 1..Times
  BY CandidateRuns DEF LastMonth
<1>2. first = Month(Lo(w))
  BY DEF FirstMonth
<1>3. LogicalMonths(r) = first..last
  BY <1>1, <1>2, MonthsOfRun DEF LogicalMonths
<1>4. first \in Nat /\ last \in Nat /\ n \in Nat /\ n >= 1
  <2>1. first \in Nat /\ last \in Nat /\ first <= last
    <3> HIDE DEF first, last
    <3> QED
      BY <1>1, MonthsAreNat
  <2> HIDE DEF first, last
  <2> QED
    BY <2>1
<1>5. Cardinality(LogicalMonths(r)) = n
  BY <1>3, <1>4, FS_Interval
<1>6. Max(LogicalMonths(r)) = last
  <2>1. first..last \in SUBSET (0..last) /\ first..last # {} /\ last \in first..last
    BY <1>1, <1>4
  <2>2. Max(first..last) \in first..last /\ \A x \in first..last : x <= Max(first..last)
    BY <1>4, <2>1, MaxIsGreatest
  <2>3. last <= Max(first..last)
    BY <2>1, <2>2
  <2> QED
    BY <1>3, <1>4, <2>2, <2>3
<1>7. refs = [i \in 1..n |-> ReferenceFor(r, first + i - 1)]
  BY <1>5 DEF SegmentReferences
<1>8. DOMAIN w \subseteq DOMAIN refresher[r].candidate
  BY <1>1
<1>9. first..last \subseteq MonthsOf(refresher[r].candidate)
  <2>1. MonthsOf(w) = first..last
    BY <1>3 DEF LogicalMonths
  <2> QED
    BY <1>8, <2>1 DEF MonthsOf
<1>10. Lo(w) \in DOMAIN w
  BY <1>1, RunBounds
<1> HIDE DEF refs, w, n, last, first
<1> DEFINE ref(i) == ReferenceFor(r, first + i - 1)
<1>11. ASSUME NEW i \in 1..n
       PROVE  /\ first + i - 1 \in first..last
              /\ i + 1 \in 1..n => first + (i + 1) - 1 \in first..last /\ first + (i + 1) - 1 > first + i - 1
              /\ first + i - 1 = last <=> i = n
  BY <1>4 DEF n
<1>12. ASSUME NEW i \in 1..n
       PROVE  /\ ref(i) \in References /\ DOMAIN ref(i).rows # {}
              /\ ref(i).source = SourceOf(r, first + i - 1)
              /\ ref(i).source.month = first + i - 1
              /\ ref(i).rows = Slice(r, first + i - 1)
              /\ ref(i).closed <=> i # n
  <2> DEFINE k == first + i - 1
             s == SourceOf(r, k)
             rows == Slice(r, k)
  <2>1. k \in MonthsOf(refresher[r].candidate) /\ k \in MonthsOf(w)
    BY <1>3, <1>9, <1>11 DEF LogicalMonths, w
  <2>2. s \in Sources /\ s.month = k
    BY <2>1, SourceOfMonth
  <2>3. rows = Part(w, InMonth(k))
    BY DEF Slice, w
  <2>4. PICK t \in DOMAIN w : Month(t) = k
    BY <2>1 DEF MonthsOf
  <2>5. t \in InMonth(k)
    BY <1>1, <2>4, RunsAre DEF InMonth
  <2>6. rows \in Runs /\ DOMAIN rows # {}
    <3> HIDE DEF rows, k
    <3>1. Part(w, InMonth(k)) \in Runs /\ DOMAIN Part(w, InMonth(k)) = DOMAIN w \cap InMonth(k)
      BY <1>1, MonthPart
    <3> QED
      BY <2>3, <2>4, <2>5, <3>1
  <2>7. ref(i) = [source |-> s, start |-> Lo(rows) - Lo(files[s]), rows |-> rows,
                  closed |-> k # last]
    BY <1>6 DEF ReferenceFor, Reference
  <2>8. ref(i) = refs[i]
    BY <1>7
  <2>9. ReferenceReads(files, ref(i))
    BY <1>7, <2>8 DEF Reads, refs
  <2> HIDE DEF k, s, rows, ref
  <2>10. files[s] # NoRows
    BY <2>7, <2>9 DEF ReferenceReads
  <2>11. Lo(files[s]) \in 1..Times
    BY <2>2, <2>10, EmptyRun, RunBounds DEF FileInv, StoreTypes
  <2>12. Lo(rows) \in 1..Times
    BY <2>6, RunBounds
  <2>13. Lo(rows) - Lo(files[s]) \in Int
    BY <2>11, <2>12
  <2>14. ref(i) \in References
    BY <2>2, <2>6, <2>7, <2>13 DEF References
  <2>15. (k # last) <=> i # n
    BY <1>11 DEF k
  <2>16. ref(i).source = s /\ ref(i).rows = rows /\ ref(i).closed = (k # last)
    BY <2>7
  <2>17. ref(i).source = SourceOf(r, first + i - 1) /\ s.month = first + i - 1
    BY <2>2, <2>16 DEF k, s
  <2>18. ref(i).rows = Slice(r, first + i - 1)
    BY <2>16 DEF k, rows
  <2> QED
    BY <2>6, <2>14, <2>15, <2>16, <2>17, <2>18
<1>13. \A i \in 1..n : refs[i] = ref(i)
  BY <1>7
<1>14. refs \in Seq(References)
  <2>1. \A i \in 1..n : ref(i) \in References
    BY <1>12
  <2> HIDE DEF ref
  <2>2. refs \in [1..n -> References]
    BY <1>7, <2>1 DEF ref
  <2> QED
    BY <1>4, <2>2
<1>15. DOMAIN refs = 1..n
  BY <1>7
<1> HIDE DEF ref
<1>16. Linked(refs)
  <2> SUFFICES ASSUME NEW i \in 1..n
               PROVE  /\ DOMAIN refs[i].rows # {}
                      /\ refs[i].closed =>
                           /\ i + 1 \in 1..n
                           /\ \E k \in Months : k > refs[i].source.month /\ refs[i + 1].source = Canonical(k)
    BY <1>15 DEF Linked
  <2>1. DOMAIN refs[i].rows # {} /\ refs[i].source.month = first + i - 1 /\ (refs[i].closed <=> i # n)
    BY <1>12, <1>13
  <2> SUFFICES ASSUME i # n
               PROVE  /\ i + 1 \in 1..n
                      /\ \E k \in Months : k > first + i - 1 /\ refs[i + 1].source = Canonical(k)
    BY <2>1
  <2>2. i + 1 \in 1..n
    BY <1>4
  <2> DEFINE k == first + (i + 1) - 1
  <2>3. refs[i + 1].source = SourceOf(r, k)
    BY <1>12, <1>13, <2>2
  <2>4. k \in first..last /\ k > first + i - 1
    BY <1>11, <2>2
  <2>5. k \in Months
    BY <1>1, <2>4, MonthBounds
  <2>6. k # first /\ k \in MonthsOf(refresher[r].candidate)
    BY <1>4, <1>9, <2>4
  <2>7. SourceOf(r, k).start = 0
    BY <2>6, SourceOfMonth DEF first
  <2>8. SourceOf(r, k) = Canonical(k)
    BY <2>6, <2>7, SourceOfMonth
  <2> HIDE DEF k
  <2> QED
    BY <2>2, <2>3, <2>4, <2>5, <2>8
<1>17. Begins(refs, w)
  <2>1. 1 \in 1..n /\ first + 1 - 1 = first
    BY <1>4
  <2>2. refs[1].source.month = first /\ refs[1].rows = Slice(r, first) /\ DOMAIN refs[1].rows # {}
    BY <1>12, <1>13, <2>1
  <2>3. refs[1].rows = Part(w, InMonth(first))
    BY <2>2 DEF Slice, w
  <2> DEFINE p == Part(w, InMonth(first))
  <2>4. p \in Runs /\ DOMAIN p = DOMAIN w \cap InMonth(first) /\ DOMAIN p # {}
    BY <1>1, <2>2, <2>3, MonthPart
  <2> HIDE DEF p
  <2>5. Lo(w) \in DOMAIN p
    BY <1>1, <1>2, <1>10, <2>4, RunsAre DEF InMonth
  <2>6. Lo(p) \in DOMAIN p /\ DOMAIN p = Lo(p)..Hi(p) /\ Lo(p) \in 1..Times
    BY <2>4, RunBounds
  <2>7. Lo(p) = Lo(w)
    BY <1>1, <2>4, <2>5, <2>6
  <2> QED
    BY <1>1, <1>2, <1>15, <2>1, <2>2, <2>3, <2>7 DEF Begins, p
<1> QED
  BY <1>14, <1>16, <1>17 DEF refs, w

\* A refresh that is done with the segments has their references, or is over.
LEMMA FinishedSegments ==
    ASSUME FileInv, NEW r \in Refreshers, FinishSegments(r)
    PROVE  LET new == [refresher[r] EXCEPT !.pc = "evaluated", !.refs = SegmentReferences(r),
                                           !.usable = TRUE]
           IN  /\ Begun(r) /\ refresher[r].pc = "month" /\ Unlock(r)
               /\ UNCHANGED <<provider, files, disk, pointer, diskPointer, manifests, published, reader, trouble>>
               /\ \/ Abort(r)
                  \/ /\ Reads(files, SegmentReferences(r))
                     /\ new \in RefresherStates /\ refresher' = [refresher EXCEPT ![r] = new]
<1> DEFINE refs == SegmentReferences(r)
           new == [refresher[r] EXCEPT !.pc = "evaluated", !.refs = refs, !.usable = TRUE]
<1>1. /\ refresher \in [Refreshers -> RefresherStates] /\ refresher[r].pc = "month"
      /\ refresher[r] \in RefresherStates
  BY DEF FileInv, StoreTypes, FinishSegments
<1>2. /\ Unlock(r)
      /\ UNCHANGED <<provider, files, disk, pointer, diskPointer, manifests, published, reader, trouble>>
      /\ IF \A i \in DOMAIN refs : ReferenceReads(files, refs[i])
         THEN refresher' = [refresher EXCEPT ![r].pc = "evaluated", ![r].refs = refs, ![r].usable = TRUE]
         ELSE Abort(r)
  BY DEF FinishSegments, SegmentReferences
<1>3. Begun(r)
  BY <1>1 DEF Begun
<1>4. CASE Reads(files, refs)
  <2>1. refs \in Seq(References) /\ Linked(refs)
    BY <1>3, <1>4, ReferencesAreLinked
  <2> HIDE DEF refs
  <2>2. refresher' = [refresher EXCEPT ![r].pc = "evaluated", ![r].refs = refs, ![r].usable = TRUE]
    BY <1>2, <1>4 DEF Reads
  <2>3. refresher' = [refresher EXCEPT ![r] = new]
    BY <1>1, <2>2
  <2>4. new \in RefresherStates
    BY <1>1, <2>1 DEF RefresherStates, Phases
  <2> QED
    BY <1>1, <1>2, <1>3, <1>4, <2>3, <2>4 DEF refs
<1>5. CASE ~ Reads(files, refs)
  BY <1>1, <1>2, <1>3, <1>5 DEF Reads
<1> QED
  BY <1>4, <1>5

LEMMA FinishSegmentsKeeps == ASSUME FileInv, NEW r \in Refreshers, FinishSegments(r) PROVE FileInv'
<1> DEFINE refs == SegmentReferences(r)
           new == [refresher[r] EXCEPT !.pc = "evaluated", !.refs = refs, !.usable = TRUE]
<1>1. /\ refresher \in [Refreshers -> RefresherStates] /\ StoreTypes /\ refresher[r] \in RefresherStates
  BY DEF FileInv, StoreTypes
<1>2. /\ Begun(r) /\ refresher[r].pc = "month" /\ Unlock(r)
      /\ UNCHANGED <<provider, files, disk, pointer, diskPointer, manifests, published, reader, trouble>>
  BY FinishedSegments
<1>3. CASE Abort(r)
  <2>1. faults' \in Nat /\ orphaned' \in BOOLEAN
    BY <1>1, <1>2 DEF StoreTypes, trouble
  <2> QED
    BY <1>2, <1>3, <2>1, AbortKeeps
<1>4. CASE /\ Reads(files, refs)
           /\ new \in RefresherStates /\ refresher' = [refresher EXCEPT ![r] = new]
  <2>1. Begins(refs, Logical(r))
    BY <1>2, <1>4, ReferencesAreLinked
  <2>2. DOMAIN refresher[r].candidate # {}
    BY <1>2, CandidateRuns
  <2>3. /\ new.pc = "evaluated" /\ new.refs = refs /\ new.candidate = refresher[r].candidate
        /\ new.days = refresher[r].days
    <3> HIDE DEF refs
    <3> QED
      BY <1>1 DEF RefresherStates
  <2> HIDE DEF new, refs
  <2>4. refresher'[r] = new /\ refresher' \in [Refreshers -> RefresherStates]
    BY <1>1, <1>4
  <2>5. Logical(r)' = Logical(r)
    BY <2>3, <2>4 DEF Logical
  <2>6. HasSeries(r)'
    BY <2>1, <2>2, <2>3, <2>4, <2>5 DEF HasSeries
  <2>7. HasFile(r)' /\ HasMonths(r)'
    BY <2>3, <2>4, IdleHolds DEF Begun
  <2>8. LockIsHeld'
    BY <1>2, <1>4, <2>3, LockIsLeft
  <2>9. lock' \in Refreshers \cup {None}
    BY <1>1, <1>2 DEF Unlock, StoreTypes
  <2>10. StoreTypes'
    BY <1>1, <1>2, <2>4, <2>9 DEF StoreTypes, provider, trouble
  <2> QED
    BY <1>2, <1>4, <2>6, <2>7, <2>8, <2>10, QuietStep
<1> QED
  BY <1>3, <1>4, FinishedSegments

-----------------------------------------------------------------------------
(* Generations.                                                            *)

\* A refresh that goes on keeps its generation, and one that ends has none.
LEMMA OwnersStay ==
    ASSUME FileInv, GenerationsInv, NEW r \in Refreshers, NEW new \in RefresherStates,
           refresher' = [refresher EXCEPT ![r] = new],
           new.gen \in {refresher[r].gen, None},
           new.pc \in Unpublished => refresher[r].pc \in Unpublished /\ new.gen = refresher[r].gen,
           new.pc # "evaluated" => new.refs = <<>>,
           UNCHANGED published
    PROVE  \A q \in Refreshers : OwnsGeneration(q)'
<1>1. refresher \in [Refreshers -> RefresherStates]
  BY DEF FileInv, StoreTypes
<1>2. refresher'[r] = new /\ \A q \in Refreshers : q # r => refresher'[q] = refresher[q]
  BY <1>1
<1>3. \A q \in Refreshers : OwnsGeneration(q)
  BY DEF GenerationsInv
<1> QED
  BY <1>2, <1>3 DEF OwnsGeneration

\* Readers see no change in a step that leaves what is published alone.
LEMMA PinsStay ==
    ASSUME GenerationsInv, UNCHANGED reader, published \subseteq published',
           \A g \in published : manifests'[g] = manifests[g], None \notin published
    PROVE  \A r \in Readers : HasPinned(r)'
BY DEF GenerationsInv, HasPinned

LEMMA PublishedAre == ASSUME FileInv PROVE None \notin published /\ published \subseteq Generations
BY TrustedStoreAssumption DEF FileInv, StoreTypes

LEMMA NoRefs ==
    ASSUME FileInv, GenerationsInv, NEW r \in Refreshers, refresher[r].pc # "evaluated"
    PROVE  refresher[r].refs = <<>>
BY DEF GenerationsInv, OwnsGeneration

\* Steps of a refresh before it has a manifest, and its end.
LEMMA RefreshOwns ==
    ASSUME FileInv, GenerationsInv, NEW r \in Refreshers, NEW new \in RefresherStates,
           refresher' = [refresher EXCEPT ![r] = new],
           new.gen \in {refresher[r].gen, None},
           new.pc \in Unpublished => refresher[r].pc \in Unpublished /\ new.gen = refresher[r].gen,
           new.pc # "evaluated" => new.refs = <<>>,
           UNCHANGED <<published, manifests, reader, pointer>>,
           diskPointer' \in {pointer, diskPointer}
    PROVE  GenerationsInv'
<1>1. \A q \in Refreshers : OwnsGeneration(q)'
  BY OwnersStay
<1>2. \A q \in Readers : HasPinned(q)'
  BY PinsStay, PublishedAre
<1> QED
  BY <1>1, <1>2 DEF GenerationsInv

LEMMA AbortOwns ==
    ASSUME FileInv, GenerationsInv, NEW r \in Refreshers, Abort(r),
           UNCHANGED <<published, manifests, reader, pointer>>,
           diskPointer' \in {pointer, diskPointer}
    PROVE  GenerationsInv'
<1>1. /\ refresher' = [refresher EXCEPT ![r] = IdleRefresher]
      /\ IdleRefresher \in RefresherStates
  BY AbortStep
<1>2. IdleRefresher.gen = None /\ IdleRefresher.pc \notin Unpublished /\ IdleRefresher.refs = <<>>
  BY DEF IdleRefresher, Unpublished
<1> QED
  BY <1>1, <1>2, RefreshOwns

LEMMA StartOwns == ASSUME FileInv, GenerationsInv, NEW r \in Refreshers, Start(r) PROVE GenerationsInv'
<1>1. refresher \in [Refreshers -> RefresherStates]
  BY DEF FileInv, StoreTypes
<1> DEFINE gen == CHOOSE g \in Generations \ Taken : TRUE
<1>2. UNCHANGED <<provider, store, reader, trouble>> /\ gen \in Generations \ Taken
  BY DEF Start
<1>3. PICK days \in DaysChoices :
         refresher' = [refresher EXCEPT ![r] =
            [IdleRefresher EXCEPT !.pc = "started", !.days = days, !.gen = gen,
                !.prior = IF pointer = None THEN NoManifest ELSE manifests[pointer]]]
  BY DEF Start
<1> HIDE DEF gen
<1>4. refresher'[r].gen = gen /\ refresher'[r].refs = <<>>
  BY <1>1, <1>3 DEF IdleRefresher
<1>5. \A q \in Refreshers : q # r => refresher'[q] = refresher[q] /\ refresher[q].gen # gen
  BY <1>1, <1>2, <1>3 DEF Taken
<1>6. gen \notin published /\ gen \in Generations /\ published' = published
  BY <1>2 DEF Taken, store
<1>7. \A q \in Refreshers : OwnsGeneration(q)
  BY DEF GenerationsInv
<1>8. \A q \in Refreshers : OwnsGeneration(q)'
  BY <1>4, <1>5, <1>6, <1>7 DEF OwnsGeneration
<1>9. \A q \in Readers : HasPinned(q)'
  BY <1>2, PinsStay, PublishedAre DEF store
<1> QED
  BY <1>2, <1>8, <1>9 DEF GenerationsInv, store

LEMMA PublishNothingOwns ==
    ASSUME FileInv, GenerationsInv, NEW r \in Refreshers, PublishNothing(r) PROVE GenerationsInv'
<1> DEFINE new == [refresher[r] EXCEPT !.pc = "evaluated"]
<1>1. refresher[r] \in RefresherStates /\ refresher[r].pc = "started"
  BY DEF FileInv, StoreTypes, PublishNothing
<1>2. new \in RefresherStates /\ new.pc = "evaluated" /\ refresher' = [refresher EXCEPT ![r] = new]
  BY PhaseStep DEF PublishNothing, Phases
<1>3. new.gen = refresher[r].gen
  BY <1>1 DEF RefresherStates
<1> HIDE DEF new
<1> QED
  BY <1>1, <1>2, <1>3, RefreshOwns DEF PublishNothing, store, Unpublished

LEMMA FetchOwns ==
    ASSUME FileInv, FileInv', GenerationsInv, NEW r \in Refreshers, Fetch(r) PROVE GenerationsInv'
<1>1. /\ refresher \in [Refreshers -> RefresherStates] /\ refresher[r].pc = "started"
      /\ refresher[r] \in RefresherStates /\ refresher'[r] \in RefresherStates
  BY DEF FileInv, StoreTypes, Fetch
<1>2. UNCHANGED <<provider, store, reader, trouble>>
  BY DEF Fetch
<1>3. PICK rows \in Fetched(r), proof \in BOOLEAN :
         refresher' = [refresher EXCEPT ![r] = [@ EXCEPT
               !.pc = "fetched", !.candidate = rows, !.full = ~ Reusable(r),
               !.partial = IF Reusable(r) THEN PartialStart(refresher[r].prior) ELSE None,
               !.listed = proof]]
  BY DEF Fetch
<1> DEFINE new == refresher'[r]
<1>4. refresher' = [refresher EXCEPT ![r] = new]
  BY <1>1, <1>3
<1>5. new.pc = "fetched" /\ new.gen = refresher[r].gen /\ new.refs = refresher[r].refs
  <2> DEFINE full == ~ Reusable(r)
             part == IF Reusable(r) THEN PartialStart(refresher[r].prior) ELSE None
  <2>1. new = [refresher[r] EXCEPT !.pc = "fetched", !.candidate = rows, !.full = full,
                                   !.partial = part, !.listed = proof]
    BY <1>1, <1>3
  <2> HIDE DEF new, full, part
  <2> QED
    BY <1>1, <2>1 DEF RefresherStates
<1>6. refresher[r].refs = <<>>
  BY <1>1, NoRefs
<1> HIDE DEF new
<1>7. new \in RefresherStates
  BY <1>1 DEF new
<1> QED
  BY <1>1, <1>2, <1>4, <1>5, <1>6, <1>7, RefreshOwns DEF store, Unpublished

\* The steps under the lock.
LEMMA LockOwns ==
    ASSUME FileInv, FileInv', GenerationsInv, NEW r \in Refreshers,
           Enter(r) \/ WriteMonth(r) \/ SyncSegment(r)
    PROVE  GenerationsInv'
<1>1. /\ refresher \in [Refreshers -> RefresherStates] /\ refresher[r].pc \in Unpublished \ {"evaluated"}
      /\ refresher[r] \in RefresherStates /\ refresher'[r] \in RefresherStates
  BY DEF FileInv, StoreTypes, Enter, WriteMonth, SyncSegment, Unpublished
<1>2. UNCHANGED <<published, manifests, reader, pointer, diskPointer>>
  BY DEF Enter, WriteMonth, SyncSegment
<1>3. CASE Abort(r)
  BY <1>2, <1>3, AbortOwns
<1>4. CASE ~ Abort(r)
  <2> DEFINE new == refresher'[r]
  <2>1. /\ refresher' = [refresher EXCEPT ![r] = new]
        /\ new.pc \in Phases \ {"evaluated"} /\ new.gen = refresher[r].gen /\ new.refs = refresher[r].refs
    <3>1. CASE Enter(r)
      <4>1. refresher' = [refresher EXCEPT ![r].pc = "month", ![r].months = PhysicalMonths(r)]
        BY <1>4, <3>1 DEF Enter
      <4> QED
        BY <1>1, <4>1 DEF RefresherStates, Phases
    <3>2. CASE WriteMonth(r)
      <4> DEFINE left == refresher[r].months \ {Min(refresher[r].months)}
      <4>1. \/ refresher' = [refresher EXCEPT ![r].months = left]
            \/ refresher' = [refresher EXCEPT ![r].pc = "sync", ![r].months = left]
        BY <3>2 DEF WriteMonth
      <4>2. refresher[r].pc = "month"
        BY <3>2 DEF WriteMonth
      <4> HIDE DEF left
      <4>3. CASE refresher' = [refresher EXCEPT ![r].months = left]
        <5>1. new = [refresher[r] EXCEPT !.months = left]
          BY <1>1, <4>3
        <5> HIDE DEF new
        <5>2. new.pc = "month" /\ new.gen = refresher[r].gen /\ new.refs = refresher[r].refs
          BY <1>1, <4>2, <5>1 DEF RefresherStates
        <5> QED
          BY <1>1, <4>3, <5>1, <5>2 DEF Phases
      <4>4. CASE refresher' = [refresher EXCEPT ![r].pc = "sync", ![r].months = left]
        <5>1. new = [refresher[r] EXCEPT !.pc = "sync", !.months = left]
          BY <1>1, <4>4
        <5> HIDE DEF new
        <5>2. new.pc = "sync" /\ new.gen = refresher[r].gen /\ new.refs = refresher[r].refs
          BY <1>1, <5>1 DEF RefresherStates
        <5> QED
          BY <1>1, <4>4, <5>1, <5>2 DEF Phases
      <4> QED
        BY <4>1, <4>3, <4>4
    <3>3. CASE SyncSegment(r)
      <4>1. refresher' = [refresher EXCEPT ![r].pc = "month"]
        BY <3>3 DEF SyncSegment
      <4> QED
        BY <1>1, <4>1 DEF RefresherStates, Phases
    <3> QED
      BY <3>1, <3>2, <3>3
  <2>2. refresher[r].refs = <<>>
    BY <1>1, NoRefs
  <2>3. new \in RefresherStates
    BY <1>1
  <2> HIDE DEF new
  <2> QED
    BY <1>1, <1>2, <2>1, <2>2, <2>3, RefreshOwns
<1> QED
  BY <1>3, <1>4

LEMMA FinishOwns ==
    ASSUME FileInv, GenerationsInv, NEW r \in Refreshers, FinishSegments(r) PROVE GenerationsInv'
<1> DEFINE refs == SegmentReferences(r)
           new == [refresher[r] EXCEPT !.pc = "evaluated", !.refs = refs, !.usable = TRUE]
<1>1. /\ refresher[r].pc = "month" /\ UNCHANGED <<published, manifests, reader, pointer, diskPointer>>
      /\ refresher[r] \in RefresherStates
  BY FinishedSegments DEF FileInv, StoreTypes
<1>2. CASE Abort(r)
  BY <1>1, <1>2, AbortOwns
<1>3. CASE new \in RefresherStates /\ refresher' = [refresher EXCEPT ![r] = new]
  <2> HIDE DEF refs
  <2>1. new.pc = "evaluated" /\ new.gen = refresher[r].gen
    BY <1>1 DEF RefresherStates
  <2> HIDE DEF new
  <2> QED
    BY <1>1, <1>3, <2>1, RefreshOwns DEF Unpublished
<1> QED
  BY <1>2, <1>3, FinishedSegments

\* A generation that is verified is nobody else's and not published.
LEMMA VerifyOwns ==
    ASSUME FileInv, GenerationsInv, NEW r \in Refreshers, Verify(r)
    PROVE  GenerationsInv' /\ \A g \in published : manifests'[g] = manifests[g]
<1>1. /\ refresher \in [Refreshers -> RefresherStates] /\ refresher[r].pc = "evaluated"
      /\ refresher[r] \in RefresherStates /\ manifests \in [Generations -> Manifests]
  BY DEF FileInv, StoreTypes, Verify
<1>2. UNCHANGED <<provider, files, disk, pointer, diskPointer, published, lock, reader, trouble>>
  BY DEF Verify
<1>3. refresher[r].gen \in Generations \ published
  BY <1>1 DEF GenerationsInv, OwnsGeneration, Unpublished
<1>4. CASE Abort(r) /\ UNCHANGED manifests
  BY <1>2, <1>4, AbortOwns
<1>5. CASE ~ (Abort(r) /\ UNCHANGED manifests)
  <2> DEFINE gen == refresher[r].gen
             man == ManifestOf(r)
             new == [IdleRefresher EXCEPT !.pc = "verified", !.gen = gen]
  <2>1. /\ manifests' = [manifests EXCEPT ![gen] = man]
        /\ refresher' = [refresher EXCEPT ![r] = new]
    BY <1>5 DEF Verify
  <2> HIDE DEF man
  <2>2. \A g \in published : manifests'[g] = manifests[g]
    BY <1>1, <1>3, <2>1
  <2>3. new \in RefresherStates /\ new.pc = "verified" /\ new.gen = gen /\ new.refs = <<>>
    BY <1>1, IdleIsTyped DEF RefresherStates, Phases, IdleRefresher
  <2> HIDE DEF new
  <2>4. \A q \in Refreshers : OwnsGeneration(q)'
    BY <1>1, <1>2, <2>1, <2>3, OwnersStay DEF Unpublished
  <2>5. \A q \in Readers : HasPinned(q)'
    BY <1>2, <2>2, PinsStay, PublishedAre
  <2> QED
    BY <1>2, <2>2, <2>4, <2>5 DEF GenerationsInv
<1> QED
  BY <1>4, <1>5

LEMMA ReplaceOwns ==
    ASSUME FileInv, GenerationsInv, NEW r \in Refreshers, ReplaceCurrent(r)
    PROVE  /\ GenerationsInv'
           /\ refresher[r].gen \in Generations \ published
           /\ pointer' = refresher[r].gen /\ published' = published \cup {refresher[r].gen}
<1> DEFINE gen == refresher[r].gen
<1>1. /\ refresher \in [Refreshers -> RefresherStates] /\ refresher[r].pc = "verified"
      /\ refresher[r] \in RefresherStates
  BY DEF FileInv, StoreTypes, ReplaceCurrent
<1>2. /\ pointer' = gen /\ published' = published \cup {gen}
      /\ refresher' = [refresher EXCEPT ![r].pc = "replaced"]
      /\ UNCHANGED <<provider, files, disk, diskPointer, manifests, lock, reader, trouble>>
  BY DEF ReplaceCurrent
<1>3. \A q \in Refreshers : OwnsGeneration(q)
  BY DEF GenerationsInv
<1>4. gen \in Generations \ published
  BY <1>1, <1>3 DEF OwnsGeneration, Unpublished
<1>5. /\ refresher'[r].pc = "replaced" /\ refresher'[r].gen = gen /\ refresher'[r].refs = <<>>
      /\ \A q \in Refreshers : q # r => refresher'[q] = refresher[q]
  BY <1>1, <1>2, NoRefs DEF RefresherStates
<1>6. gen # None
  BY <1>4, TrustedStoreAssumption
<1> HIDE DEF gen
<1>7. \A q \in Refreshers : q # r => refresher[q].gen # gen
  BY <1>3, <1>6 DEF OwnsGeneration, gen
<1>8. \A q \in Refreshers : OwnsGeneration(q)'
  <2>1. OwnsGeneration(r)'
    BY <1>3, <1>5, <1>7 DEF OwnsGeneration, Unpublished, gen
  <2>2. ASSUME NEW q \in Refreshers, q # r PROVE OwnsGeneration(q)'
    <3>1. refresher'[q] = refresher[q] /\ OwnsGeneration(q) /\ refresher[q].gen # gen
      BY <1>3, <1>5, <1>7, <2>2
    <3>2. \A p \in Refreshers \ {q} : refresher'[p].gen = refresher'[q].gen => refresher'[p].gen = None
      BY <1>5, <3>1 DEF OwnsGeneration
    <3>3. refresher'[q].pc \in Unpublished => refresher'[q].gen \in Generations \ published'
      BY <1>2, <3>1 DEF OwnsGeneration, gen
    <3> QED
      BY <3>1, <3>2, <3>3 DEF OwnsGeneration
  <2> QED
    BY <2>1, <2>2
<1>9. \A q \in Readers : HasPinned(q)'
  BY <1>2, PinsStay, PublishedAre
<1> QED
  BY <1>2, <1>4, <1>8, <1>9 DEF GenerationsInv, gen

LEMMA SyncCurrentOwns ==
    ASSUME FileInv, GenerationsInv, NEW r \in Refreshers, SyncCurrent(r) \/ SyncCurrentFails(r)
    PROVE  GenerationsInv'
BY AbortOwns DEF SyncCurrent, SyncCurrentFails, Abort, store

LEMMA CrashOwns == ASSUME FileInv, GenerationsInv, Crash PROVE GenerationsInv'
<1>1. /\ refresher' = [r \in Refreshers |-> IdleRefresher]
      /\ reader' = [r \in Readers |-> IdleReader]
      /\ pointer' \in {pointer, diskPointer} /\ diskPointer' = pointer'
      /\ UNCHANGED <<manifests, published>>
  BY DEF Crash
<1>2. /\ IdleRefresher.pc \notin Unpublished /\ IdleRefresher.gen = None /\ IdleRefresher.refs = <<>>
      /\ IdleReader.pc = "idle" /\ IdleReader.gen = None
  BY DEF IdleRefresher, IdleReader, Unpublished
<1>3. \A r \in Refreshers : OwnsGeneration(r)'
  BY <1>1, <1>2 DEF OwnsGeneration
<1>4. \A r \in Readers : HasPinned(r)'
  BY <1>1, <1>2 DEF HasPinned
<1> QED
  BY <1>1, <1>3, <1>4 DEF GenerationsInv

\* What a load gives: the rows of the generation it has pinned, or nothing.
LEMMA LoadPins ==
    ASSUME FileInv, GenerationsInv, NEW r \in Readers, Load(r)
    PROVE  /\ GenerationsInv' /\ UNCHANGED <<provider, store, refresher, trouble>>
           /\ DOMAIN reader' = Readers /\ \A q \in Readers : q # r => reader'[q] = reader[q]
           /\ \/ /\ pointer # None /\ reader'[r].gen = pointer /\ reader'[r].pc = "reading"
              \/ /\ reader[r].pc = "reading" /\ reader'[r].gen = reader[r].gen
                 /\ reader'[r].pc \in {"reading", "done"}
              \/ reader'[r].gen = None /\ reader'[r].pc = "idle"
<1>1. /\ reader = [q \in Readers |-> reader[q]] /\ IsReaderState(reader[r])
      /\ GenerationsInv /\ HasPinned(r)
  BY DEF FileInv, StoreTypes, GenerationsInv
<1>2. UNCHANGED <<provider, store, refresher, trouble>>
  BY DEF Load, OpenContext, ReadSegment
<1> DEFINE new == reader'[r]
<1>3. /\ DOMAIN reader' = Readers /\ \A q \in Readers : q # r => reader'[q] = reader[q]
      /\ HasPinned(r)'
      /\ \/ pointer # None /\ new.gen = pointer /\ new.pc = "reading"
         \/ /\ reader[r].pc = "reading" /\ new.gen = reader[r].gen /\ new.pc \in {"reading", "done"}
         \/ new.gen = None /\ new.pc = "idle"
  <2>1. CASE OpenContext(r)
    <3>1. pointer # None /\ reader' = [reader EXCEPT ![r] = [IdleReader EXCEPT !.pc = "reading", !.gen = pointer]]
      BY <2>1 DEF OpenContext
    <3>2. /\ DOMAIN reader' = Readers /\ \A q \in Readers : q # r => reader'[q] = reader[q]
          /\ new.gen = pointer /\ new.pc = "reading"
      BY <1>1, <3>1 DEF IdleReader
    <3>3. HasPinned(r)'
      BY <1>1, <1>2, <3>1, <3>2 DEF HasPinned, GenerationsInv, store
    <3> QED
      BY <3>1, <3>2, <3>3
  <2>2. CASE ReadSegment(r)
    <3> DEFINE i == reader[r].next
               ref == Pinned(r).refs[i]
               rows == Joined(reader[r].rows, Part(files[ref.source], DOMAIN ref.rows))
               last == i = Len(Pinned(r).refs)
               pc == IF last THEN "done" ELSE "reading"
               read == [reader[r] EXCEPT !.pc = pc, !.next = i + 1, !.rows = rows]
               test == /\ AllowedSource(Pinned(r), i) /\ ReferenceReads(files, ref)
                       /\ last => rows = Pinned(r).rows
    <3>1. reader[r].pc = "reading" /\ reader' = [reader EXCEPT ![r] = IF test THEN read ELSE IdleReader]
      BY <2>2, Zenon DEF ReadSegment
    <3>2. /\ read.pc = pc /\ read.gen = reader[r].gen /\ read.rows = rows
      <4> HIDE DEF pc, rows, i
      <4> QED
        BY <1>1 DEF IsReaderState
    <3>3. pc \in {"reading", "done"} /\ (pc = "done" => last)
      OBVIOUS
    <3>4. test => (last => rows = manifests[reader[r].gen].rows)
      BY DEF Pinned
    <3> HIDE DEF read, test, pc, last, rows, i
    <3>5. DOMAIN reader' = Readers /\ \A q \in Readers : q # r => reader'[q] = reader[q]
      BY <1>1, <3>1
    <3>6. CASE test
      <4>1. new = read
        BY <1>1, <3>1, <3>6
      <4>2. HasPinned(r)'
        BY <1>1, <1>2, <3>1, <3>2, <3>3, <3>4, <3>6, <4>1 DEF HasPinned, store
      <4> QED
        BY <3>1, <3>2, <3>3, <3>5, <4>1, <4>2
    <3>7. CASE ~ test
      <4>1. new = IdleReader
        BY <1>1, <3>1, <3>7
      <4>2. new.gen = None /\ new.pc = "idle"
        BY <4>1 DEF IdleReader
      <4> QED
        BY <3>5, <4>2 DEF HasPinned
    <3> QED
      BY <3>6, <3>7
  <2> QED
    BY <2>1, <2>2 DEF Load
<1>4. GenerationsInv'
  <2>1. \A q \in Readers : HasPinned(q)'
    BY <1>1, <1>2, <1>3 DEF HasPinned, GenerationsInv, store
  <2> QED
    BY <1>1, <1>2, <2>1 DEF GenerationsInv, OwnsGeneration, store
<1> QED
  BY <1>2, <1>3, <1>4

-----------------------------------------------------------------------------
(* Every step.                                                             *)

\* What the files and the refreshes rest on.
StoreInv == FileInv /\ GenerationsInv

LEMMA InitStore == Init => StoreInv
<1> SUFFICES ASSUME Init PROVE GenerationsInv
  BY InitFiles DEF StoreInv
<1>1. /\ pointer = None /\ diskPointer = None /\ published = {}
      /\ refresher = [r \in Refreshers |-> IdleRefresher]
      /\ reader = [r \in Readers |-> IdleReader]
  BY DEF Init
<1>2. /\ IdleRefresher.pc \notin Unpublished /\ IdleRefresher.gen = None /\ IdleRefresher.refs = <<>>
      /\ IdleReader.pc = "idle" /\ IdleReader.gen = None
  BY DEF IdleRefresher, IdleReader, Unpublished
<1> QED
  BY <1>1, <1>2 DEF GenerationsInv, OwnsGeneration, HasPinned

LEMMA RefreshKeepsStore == ASSUME StoreInv, NEW r \in Refreshers, Refresh(r) PROVE StoreInv'
<1> USE DEF StoreInv
<1>1. CASE Start(r)
  BY <1>1, StartKeeps, StartOwns
<1>2. CASE PublishNothing(r)
  BY <1>2, PublishNothingKeeps, PublishNothingOwns
<1>3. CASE Fetch(r)
  BY <1>3, FetchKeeps, FetchOwns
<1>4. CASE Enter(r)
  BY <1>4, EnterKeeps, LockOwns
<1>5. CASE WriteMonth(r)
  BY <1>5, WriteMonthKeeps, LockOwns
<1>6. CASE RefuseMonth(r)
  BY <1>6, RefuseMonthKeeps, AbortOwns DEF RefuseMonth
<1>7. CASE SyncSegment(r)
  BY <1>7, SyncSegmentKeeps, LockOwns
<1>8. CASE SyncSegmentFails(r)
  BY <1>8, SyncSegmentFailsKeeps, AbortOwns DEF SyncSegmentFails
<1>9. CASE FinishSegments(r)
  BY <1>9, FinishSegmentsKeeps, FinishOwns
<1>10. CASE Verify(r)
  BY <1>10, VerifyKeeps, VerifyOwns
<1>11. CASE ReplaceCurrent(r)
  <2>1. refresher[r].gen # None
    BY <1>11, ReplaceOwns, TrustedStoreAssumption
  <2> QED
    BY <1>11, <2>1, ReplaceCurrentKeeps, ReplaceOwns
<1>12. CASE SyncCurrent(r) \/ SyncCurrentFails(r)
  BY <1>12, SyncCurrentKeeps, SyncCurrentOwns
<1>13. CASE Die(r)
  BY <1>13, DieKeeps, AbortOwns DEF Die
<1> QED
  BY <1>1, <1>2, <1>3, <1>4, <1>5, <1>6, <1>7, <1>8, <1>9, <1>10, <1>11, <1>12, <1>13 DEF Refresh

LEMMA OtherStepsKeepStore ==
    ASSUME StoreInv,
           \/ Tick \/ Crash \/ UNCHANGED vars
           \/ \E t \in Correctable : Correct(t)
           \/ \E r \in Readers : Load(r)
    PROVE  StoreInv'
<1> USE DEF StoreInv
<1>1. CASE Tick \/ \E t \in Correctable : Correct(t)
  <2>1. UNCHANGED <<store, refresher, reader>>
    BY <1>1 DEF Tick, Correct
  <2>2. GenerationsInv'
    BY <2>1 DEF GenerationsInv, OwnsGeneration, HasPinned, store
  <2> QED
    BY <1>1, <2>2, ProviderKeeps
<1>2. CASE Crash
  BY <1>2, CrashKeeps, CrashOwns
<1>3. CASE \E r \in Readers : Load(r)
  BY <1>3, LoadKeeps, LoadPins
<1>4. CASE UNCHANGED vars
  <2>1. GenerationsInv'
    BY <1>4 DEF GenerationsInv, OwnsGeneration, HasPinned, vars, store
  <2>2. FileInv'
    BY <1>4 DEF vars, provider, store, trouble, FileInv, StoreTypes, FilesAreNamed, DiskIsPart, LockIsHeld,
                CandidatesAreHeld, HasFile, HasMonths, HasSeries, Begun, CandidateMonth, FirstMonth,
                Logical, Exists, Agree
  <2> QED
    BY <2>1, <2>2
<1> QED
  BY <1>1, <1>2, <1>3, <1>4

LEMMA StepKeepsStore == StoreInv /\ [Next]_vars => StoreInv'
BY RefreshKeepsStore, OtherStepsKeepStore DEF Next

LEMMA SpecStoreInv == Spec => []StoreInv
BY InitStore, StepKeepsStore, PTL DEF Spec

LEMMA ListingStays == [Next]_vars => listing' = listing
BY DEF Next, vars, provider, Tick, Correct, Crash, Refresh, Start, PublishNothing, Fetch, Enter, WriteMonth,
       RefuseMonth, SyncSegment, SyncSegmentFails, FinishSegments, Verify, ReplaceCurrent, SyncCurrent,
       SyncCurrentFails, Die, Load, OpenContext, ReadSegment

\* The state has its types, a file the times of its month, and the lock is held
\* by the refresh that is in the segments and by no other.
THEOREM SpecTypeOK == Spec => []TypeOK
<1>1. StoreInv /\ listing \in Listings => TypeOK
  <2> SUFFICES ASSUME StoreInv, listing \in Listings PROVE TypeOK
    OBVIOUS
  <2>1. FileInv /\ GenerationsInv /\ StoreTypes
    BY DEF StoreInv, FileInv
  <2>2. ASSUME NEW s \in Sources, NEW f \in {files[s], disk[s]}, f # NoRows
        PROVE  /\ DOMAIN f = Lo(f)..Hi(f)
               /\ MonthsOf(f) = {s.month}
               /\ s.start # 0 => Lo(f) = s.start
    <3>1. f \in Runs /\ IsFile(s, f) /\ DOMAIN f # {}
      BY <2>1, <2>2, EmptyRun DEF StoreTypes, FileInv, FilesAreNamed
    <3>2. /\ DOMAIN f = Lo(f)..Hi(f) /\ Lo(f) \in DOMAIN f /\ Lo(f) \in 1..Times /\ s.start \in Nat
      BY <3>1, RunBounds, SourcesAre
    <3>3. MonthsOf(f) = {s.month}
      BY <3>1 DEF IsFile, MonthsOf
    <3>4. s.start # 0 => Lo(f) = s.start
      BY <3>1, <3>2 DEF IsFile
    <3> QED
      BY <3>2, <3>3, <3>4
  <2>3. /\ DOMAIN files = Sources /\ DOMAIN disk = Sources /\ DOMAIN manifests = Generations
        /\ published \subseteq Generations /\ lock \in Refreshers \cup {None}
        /\ confirmed \in 0..Times /\ market \in [1..Times -> {0, 1}]
    BY <2>1 DEF StoreTypes
  <2>4. ASSUME NEW r \in Refreshers
        PROVE  /\ DOMAIN refresher[r] = DOMAIN IdleRefresher
               /\ refresher[r].gen \in Generations \cup {None}
               /\ (lock = r) <=> refresher[r].pc \in {"month", "sync"}
    <3>1. refresher[r] \in RefresherStates
      BY <2>1 DEF StoreTypes
    <3> QED
      BY <2>1, <3>1 DEF RefresherStates, IdleRefresher, FileInv, LockIsHeld
  <2>5. /\ pointer \in published \cup {None} /\ diskPointer \in published \cup {None}
        /\ \A r \in Readers : reader[r].gen \in published \cup {None}
    BY <2>1 DEF GenerationsInv, HasPinned
  <2> QED
    BY <2>2, <2>3, <2>4, <2>5 DEF TypeOK
<1>2. Init => listing \in Listings
  BY DEF Init
<1>3. listing \in Listings /\ [Next]_vars => (listing \in Listings)'
  BY ListingStays
<1> QED
  BY <1>1, <1>2, <1>3, SpecStoreInv, PTL DEF Spec

-----------------------------------------------------------------------------
(* The store is a register of complete generations.                        *)

Contents == [g \in published |-> manifests[g].rows]
PinnedBy == [r \in Readers |-> reader[r].gen]
AnswerTo(r) == IF reader[r].pc = "done" THEN reader[r].rows ELSE None
Answers == [r \in Readers |-> AnswerTo(r)]

\* The register does not see a step that leaves the pointer, what is published
\* and the readers alone.
LEMMA RegisterStays ==
    ASSUME UNCHANGED <<pointer, published, reader>>,
           \A g \in published : manifests'[g] = manifests[g]
    PROVE  UNCHANGED Register!vars
<1>1. Contents' = Contents /\ PinnedBy' = PinnedBy /\ Answers' = Answers
  BY DEF Contents, PinnedBy, Answers, AnswerTo
<1> QED
  BY <1>1 DEF Register!vars, Contents, PinnedBy, Answers, AnswerTo

LEMMA RefreshIsRegister ==
    ASSUME StoreInv, NEW r \in Refreshers, Refresh(r) PROVE [Register!Next]_Register!vars
<1>1. CASE ReplaceCurrent(r)
  <2>. PICK gen \in Generations : gen = refresher[r].gen
    BY <1>1, ReplaceOwns DEF StoreInv
  <2>1. /\ gen \in Generations \ published /\ pointer' = gen /\ published' = published \cup {gen}
        /\ UNCHANGED <<manifests, reader>>
    BY <1>1, ReplaceOwns DEF StoreInv, ReplaceCurrent
  <2>2. DOMAIN Contents = published /\ DOMAIN Contents' = published \cup {gen}
    BY <2>1 DEF Contents
  <2>3. \A h \in published : Contents'[h] = Contents[h]
    BY <2>1 DEF Contents
  <2>4. PinnedBy' = PinnedBy /\ Answers' = Answers
    BY <2>1 DEF PinnedBy, Answers, AnswerTo
  <2>5. Register!Publish(gen)
    BY <2>1, <2>2, <2>3, <2>4 DEF Register!Publish, Contents, PinnedBy, Answers, AnswerTo
  <2> QED
    BY <2>1, <2>5 DEF Register!Next
<1>2. CASE Verify(r)
  BY <1>2, VerifyOwns, RegisterStays DEF StoreInv, Verify
<1>3. CASE ~ ReplaceCurrent(r) /\ ~ Verify(r)
  <2>1. UNCHANGED <<pointer, published, reader, manifests>>
    BY <1>3 DEF Refresh, Start, PublishNothing, Fetch, Enter, WriteMonth, RefuseMonth, SyncSegment,
                SyncSegmentFails, FinishSegments, SyncCurrent, SyncCurrentFails, Die, store
  <2> QED
    BY <2>1, RegisterStays
<1> QED
  BY <1>1, <1>2, <1>3

LEMMA LoadIsRegister ==
    ASSUME StoreInv, NEW r \in Readers, Load(r) PROVE [Register!Next]_Register!vars
<1>1. /\ GenerationsInv' /\ UNCHANGED <<provider, store, refresher, trouble>>
      /\ DOMAIN reader' = Readers /\ \A q \in Readers : q # r => reader'[q] = reader[q]
      /\ \/ /\ pointer # None /\ reader'[r].gen = pointer /\ reader'[r].pc = "reading"
         \/ /\ reader[r].pc = "reading" /\ reader'[r].gen = reader[r].gen
            /\ reader'[r].pc \in {"reading", "done"}
         \/ reader'[r].gen = None /\ reader'[r].pc = "idle"
  BY LoadPins DEF StoreInv
<1>2. pointer' = pointer /\ published' = published /\ manifests' = manifests /\ Contents' = Contents
  BY <1>1 DEF store, Contents
<1>3. /\ PinnedBy \in [Readers -> {PinnedBy[q] : q \in Readers}]
      /\ PinnedBy' = [PinnedBy EXCEPT ![r] = reader'[r].gen]
  BY <1>1 DEF PinnedBy
<1>4. \A q \in Readers : q # r => AnswerTo(q)' = AnswerTo(q)
  BY <1>1 DEF AnswerTo
<1>5. Answers' = [Answers EXCEPT ![r] = AnswerTo(r)']
  <2>1. Answers = [q \in Readers |-> AnswerTo(q)] /\ Answers' = [q \in Readers |-> AnswerTo(q)']
    BY DEF Answers
  <2> HIDE DEF AnswerTo
  <2> QED
    BY <1>4, <2>1
<1>6. HasPinned(r) /\ HasPinned(r)'
  BY <1>1 DEF StoreInv, GenerationsInv
<1>7. CASE pointer # None /\ reader'[r].gen = pointer /\ reader'[r].pc = "reading"
  <2>1. AnswerTo(r)' = None
    BY <1>7 DEF AnswerTo
  <2>2. PinnedBy' = [PinnedBy EXCEPT ![r] = pointer] /\ Answers' = [Answers EXCEPT ![r] = None]
    BY <1>3, <1>5, <1>7, <2>1
  <2>3. Register!Pin(r)
    BY <1>2, <1>7, <2>2 DEF Register!Pin, Contents, PinnedBy, Answers, AnswerTo
  <2> QED
    BY <2>3 DEF Register!Next
<1>8. CASE reader'[r].gen = None /\ reader'[r].pc = "idle"
  <2>1. AnswerTo(r)' = None
    BY <1>8 DEF AnswerTo
  <2>2. PinnedBy' = [PinnedBy EXCEPT ![r] = None] /\ Answers' = [Answers EXCEPT ![r] = None]
    BY <1>3, <1>5, <1>8, <2>1
  <2>3. Register!Refuse(r)
    BY <1>2, <2>2 DEF Register!Refuse, Contents, PinnedBy, Answers, AnswerTo
  <2> QED
    BY <2>3 DEF Register!Next
<1>9. CASE reader[r].pc = "reading" /\ reader'[r].gen = reader[r].gen /\ reader'[r].pc = "reading"
  <2>1. AnswerTo(r)' = AnswerTo(r)
    BY <1>9 DEF AnswerTo
  <2>2. \A q \in Readers : AnswerTo(q)' = AnswerTo(q) /\ reader'[q].gen = reader[q].gen
    BY <1>1, <1>4, <1>9, <2>1
  <2>3. Answers' = Answers
    <3> HIDE DEF AnswerTo
    <3> QED
      BY <2>2 DEF Answers
  <2>4. PinnedBy' = PinnedBy
    BY <2>2 DEF PinnedBy
  <2> QED
    BY <1>2, <2>3, <2>4 DEF Register!vars, Contents, PinnedBy, Answers, AnswerTo
<1>10. CASE reader[r].pc = "reading" /\ reader'[r].gen = reader[r].gen /\ reader'[r].pc = "done"
  <2> DEFINE gen == reader[r].gen
  <2>1. gen # None /\ gen \in published
    BY <1>6, <1>10 DEF HasPinned
  <2>2. AnswerTo(r)' = Contents[gen]
    BY <1>2, <1>6, <1>10, <2>1 DEF HasPinned, AnswerTo, Contents
  <2>3. PinnedBy[r] = gen
    BY DEF PinnedBy
  <2>4. PinnedBy' = PinnedBy
    BY <1>1, <1>10 DEF PinnedBy
  <2> HIDE DEF gen
  <2>5. Answers' = [Answers EXCEPT ![r] = Contents[PinnedBy[r]]]
    BY <1>5, <2>2, <2>3
  <2>6. Register!Answer(r)
    BY <1>2, <2>1, <2>3, <2>4, <2>5 DEF Register!Answer, Contents, PinnedBy, Answers, AnswerTo
  <2> QED
    BY <2>6 DEF Register!Next
<1> QED
  BY <1>1, <1>7, <1>8, <1>9, <1>10

LEMMA CrashIsRegister == ASSUME StoreInv, Crash PROVE [Register!Next]_Register!vars
<1>1. /\ reader' = [r \in Readers |-> IdleReader] /\ pointer' \in {pointer, diskPointer}
      /\ UNCHANGED <<manifests, published>>
  BY DEF Crash
<1>2. /\ pointer' \in published \cup {None} /\ published \subseteq Generations
  BY <1>1 DEF StoreInv, GenerationsInv, FileInv, StoreTypes
<1>3. Contents' = Contents /\ DOMAIN Contents = published
  BY <1>1 DEF Contents
<1>4. PinnedBy' = [r \in Readers |-> None] /\ Answers' = [r \in Readers |-> None]
  BY <1>1 DEF PinnedBy, Answers, AnswerTo, IdleReader
<1>. PICK g \in Generations \cup {None} : g = pointer'
  BY <1>2
<1>5. Register!Restart(g)
  BY <1>2, <1>3, <1>4 DEF Register!Restart, Contents, PinnedBy, Answers, AnswerTo
<1> QED
  BY <1>5 DEF Register!Next

\* The store is a register of complete generations: each is published once and
\* never changes, and a reader that pinned one gets exactly its rows or
\* nothing, whatever refreshes, crashes and failures come between.
THEOREM SpecImplementsRegister == Spec => ImplementsRegister
<1>1. Init => Register!Init
  <2> SUFFICES ASSUME Init PROVE Register!Init
    OBVIOUS
  <2>1. pointer = None /\ published = {} /\ reader = [r \in Readers |-> IdleReader]
    BY DEF Init
  <2>2. Contents = <<>> /\ PinnedBy = [r \in Readers |-> None] /\ Answers = [r \in Readers |-> None]
    BY <2>1 DEF Contents, PinnedBy, Answers, AnswerTo, IdleReader
  <2> QED
    BY <2>1, <2>2 DEF Register!Init, Contents, PinnedBy, Answers, AnswerTo
<1>2. StoreInv /\ [Next]_vars => [Register!Next]_Register!vars
  <2> SUFFICES ASSUME StoreInv, [Next]_vars PROVE [Register!Next]_Register!vars
    OBVIOUS
  <2>1. CASE Tick \/ (\E t \in Correctable : Correct(t)) \/ UNCHANGED vars
    <3>1. UNCHANGED <<pointer, published, reader, manifests>>
      BY <2>1 DEF Tick, Correct, vars, store
    <3> QED
      BY <3>1, RegisterStays
  <2> QED
    BY <2>1, RefreshIsRegister, LoadIsRegister, CrashIsRegister DEF Next
<1> QED
  BY <1>1, <1>2, SpecStoreInv, PTL DEF Spec, ImplementsRegister, Register!Spec

-----------------------------------------------------------------------------
(* The files of a month agree.                                             *)

\* What a step does to the files: one of them is created, or grows.
LEMMA MonthIsWritten ==
    ASSUME FileInv, NEW r \in Refreshers, WriteMonth(r), files' # files
    PROVE  \E m \in refresher[r].months :
              /\ refresher[r].pc = "month" /\ refresher'[r].pc = "sync"
              /\ MayCreate(r, m) \/ MayGrow(r, m)
              /\ ~ (Exists(SourceOf(r, m)) /\ Suffix(r, m) = NoRows)
              /\ files' = [files EXCEPT ![SourceOf(r, m)] =
                              Joined(files[SourceOf(r, m)], Growth(r, m))]
<1> DEFINE m == Min(refresher[r].months)
<1>1. /\ refresher \in [Refreshers -> RefresherStates] /\ refresher[r].pc = "month"
      /\ refresher[r] \in RefresherStates /\ refresher[r].months # {}
      /\ (MayCreate(r, m) \/ MayGrow(r, m)) /\ ~ (Exists(SourceOf(r, m)) /\ Suffix(r, m) = NoRows)
      /\ files' = [files EXCEPT ![SourceOf(r, m)] = Joined(@, Growth(r, m))]
      /\ refresher' = [refresher EXCEPT ![r].pc = "sync", ![r].months = @ \ {m}]
  BY DEF FileInv, StoreTypes, WriteMonth
<1>2. m \in refresher[r].months
  <2>1. refresher[r].months \in SUBSET Nat
    BY <1>1, MonthsAreNat DEF RefresherStates
  <2> QED
    BY <1>1, <2>1, MinIsLeast
<1> HIDE DEF m
<1>3. refresher'[r].pc = "sync"
  BY <1>1 DEF RefresherStates
<1>4. files' = [files EXCEPT ![SourceOf(r, m)] = Joined(files[SourceOf(r, m)], Growth(r, m))]
  BY <1>1
<1> QED
  BY <1>1, <1>2, <1>3, <1>4

LEMMA WriteAgrees ==
    ASSUME FileInv, RepresentationsAgree, NEW r \in Refreshers, WriteMonth(r)
    PROVE  RepresentationsAgree'
<1>1. CASE files' = files
  BY <1>1 DEF RepresentationsAgree, Agree
<1>2. CASE files' # files
  <2>. PICK m \in refresher[r].months :
            /\ refresher[r].pc = "month"
            /\ MayCreate(r, m) \/ MayGrow(r, m)
            /\ ~ (Exists(SourceOf(r, m)) /\ Suffix(r, m) = NoRows)
            /\ files' = [files EXCEPT ![SourceOf(r, m)] =
                            Joined(files[SourceOf(r, m)], Growth(r, m))]
    BY <1>2, MonthIsWritten
  <2> DEFINE s == SourceOf(r, m)
             c == Growth(r, m)
             g == Joined(files[s], c)
  <2>1. s \in Sources /\ s.month = m /\ files \in [Sources -> Runs]
    BY WrittenFile DEF FileInv, StoreTypes
  <2>2. files'[s] = g /\ \A x \in Sources : x # s => files'[x] = files[x]
    BY <2>1
  <2>3. \A x \in Sources : x.month = m /\ x # s => Agree(files[x], c)
    <3>1. \A x \in Sources : x.month = m /\ x # s => Agree(files[x], Candidate(r, m))
      BY DEF MayCreate, MayGrow, OthersAgree
    <3> QED
      BY <3>1, GrowthIsPart DEF Agree
  <2>4. \A x \in Sources : x.month = m => Agree(files[x], files[s])
    BY <2>1 DEF RepresentationsAgree
  <2> HIDE DEF s, c
  <2>5. /\ DOMAIN g = DOMAIN files[s] \cup DOMAIN c
        /\ \A t \in DOMAIN files[s] : g[t] = files[s][t]
        /\ \A t \in DOMAIN c : t \notin DOMAIN files[s] => g[t] = c[t]
    BY DEF Joined
  <2> HIDE DEF g
  <2>6. \A x \in Sources : x.month = m /\ x # s => Agree(files[x], g)
    BY <2>3, <2>4, <2>5 DEF Agree
  <2>7. ASSUME NEW a \in Sources, NEW b \in Sources, a.month = b.month
        PROVE  Agree(files'[a], files'[b])
    <3>1. CASE a = s /\ b = s
      BY <3>1 DEF Agree
    <3>2. CASE a = s /\ b # s
      BY <2>1, <2>2, <2>6, <2>7, <3>2 DEF Agree
    <3>3. CASE a # s /\ b = s
      BY <2>1, <2>2, <2>6, <2>7, <3>3
    <3>4. CASE a # s /\ b # s
      BY <2>2, <2>7, <3>4 DEF RepresentationsAgree
    <3> QED
      BY <3>1, <3>2, <3>3, <3>4
  <2> QED
    BY <2>7 DEF RepresentationsAgree
<1> QED
  BY <1>1, <1>2

LEMMA CrashAgrees == ASSUME FileInv, RepresentationsAgree, Crash PROVE RepresentationsAgree'
<1>1. PICK lost \in SUBSET {s \in Sources : files[s] # disk[s]} :
          files' = [s \in Sources |-> IF s \in lost THEN disk[s] ELSE files[s]]
  BY DEF Crash
<1>2. \A s \in Sources : /\ DOMAIN files'[s] \subseteq DOMAIN files[s]
                         /\ \A t \in DOMAIN files'[s] : files'[s][t] = files[s][t]
  BY <1>1 DEF FileInv, DiskIsPart, Agree
<1> QED
  BY <1>2 DEF RepresentationsAgree, Agree

\* The steps that leave the files alone.
LEMMA FilesStay ==
    ASSUME [Next]_vars, \A r \in Refreshers : ~ WriteMonth(r), ~ Crash
    PROVE  UNCHANGED files
<1>1. CASE \E r \in Refreshers : Refresh(r)
  BY <1>1 DEF Refresh, Start, PublishNothing, Fetch, Enter, RefuseMonth, SyncSegment,
              SyncSegmentFails, FinishSegments, Verify, ReplaceCurrent, SyncCurrent, SyncCurrentFails,
              Die, store
<1>2. CASE \E r \in Readers : Load(r)
  BY <1>2 DEF Load, OpenContext, ReadSegment, store
<1>3. CASE Tick \/ (\E t \in Correctable : Correct(t)) \/ UNCHANGED vars
  BY <1>3 DEF Tick, Correct, store, vars
<1> QED
  BY <1>1, <1>2, <1>3 DEF Next

\* Whatever refreshes write, correct or fail to write, the files of a month
\* never contradict each other.
THEOREM SpecRepresentationsAgree == Spec => []RepresentationsAgree
<1>1. Init => RepresentationsAgree
  BY InitFiles
<1>2. StoreInv /\ RepresentationsAgree /\ [Next]_vars => RepresentationsAgree'
  <2> SUFFICES ASSUME StoreInv, RepresentationsAgree, [Next]_vars PROVE RepresentationsAgree'
    OBVIOUS
  <2>1. CASE \E r \in Refreshers : WriteMonth(r)
    BY <2>1, WriteAgrees DEF StoreInv
  <2>2. CASE Crash
    BY <2>2, CrashAgrees DEF StoreInv
  <2>3. CASE (\A r \in Refreshers : ~ WriteMonth(r)) /\ ~ Crash
    BY <2>3, FilesStay DEF RepresentationsAgree, Agree
  <2> QED
    BY <2>1, <2>2, <2>3
<1> QED
  BY <1>1, <1>2, SpecStoreInv, PTL DEF Spec

-----------------------------------------------------------------------------
(* What was published is read back.                                        *)

LEMMA GenerationReadsIs ==
    \A fs, man : GenerationReads(fs, man) <=> AllAllowed(man) /\ Reads(fs, man.refs)
BY DEF GenerationReads, AllAllowed, Reads

\* A slice of a file is a slice of what the file grows into, at the same place.
LEMMA GrownSlice ==
    ASSUME NEW f \in Runs, NEW g \in Runs, NEW rows \in Runs, DOMAIN f # {}, DOMAIN rows # {},
           DOMAIN f \subseteq DOMAIN g, \A t \in DOMAIN f : g[t] = f[t],
           \A t \in DOMAIN g : t \in DOMAIN f \/ t > Hi(f),
           Part(f, DOMAIN rows) = rows
    PROVE  Lo(g) = Lo(f) /\ Hi(f) <= Hi(g) /\ Part(g, DOMAIN rows) = rows
<1>1. /\ Lo(f) \in 1..Times /\ Hi(f) \in 1..Times /\ DOMAIN f = Lo(f)..Hi(f)
      /\ Lo(f) \in DOMAIN f /\ Hi(f) \in DOMAIN f
  BY RunBounds
<1>2. DOMAIN g # {}
  BY <1>1
<1>3. /\ Lo(g) \in 1..Times /\ Hi(g) \in 1..Times /\ DOMAIN g = Lo(g)..Hi(g) /\ Lo(g) \in DOMAIN g
  BY <1>2, RunBounds
<1>4. Lo(g) = Lo(f) /\ Hi(f) <= Hi(g)
  BY <1>1, <1>3
<1>5. DOMAIN rows \subseteq DOMAIN f
  <2>1. DOMAIN Part(f, DOMAIN rows) = DOMAIN f \cap DOMAIN rows
    BY DEF Part
  <2> QED
    BY <2>1
<1>6. Part(g, DOMAIN rows) = Part(f, DOMAIN rows)
  <2>1. DOMAIN g \cap DOMAIN rows = DOMAIN rows /\ DOMAIN f \cap DOMAIN rows = DOMAIN rows
    BY <1>5
  <2> QED
    BY <1>5, <2>1 DEF Part
<1> QED
  BY <1>4, <1>6

\* References are read from the files that a step has created or grown: a file
\* whose end closes a slice is followed by another one, and does not grow.
LEMMA WriteReads ==
    ASSUME FileInv, NEW r \in Refreshers, WriteMonth(r),
           NEW refs \in Seq(References), Linked(refs), Reads(files, refs)
    PROVE  Reads(files, refs)'
<1> SUFFICES ASSUME NEW i \in DOMAIN refs, files' # files PROVE ReferenceReads(files', refs[i])
  BY DEF Reads
<1>. PICK m \in refresher[r].months :
          /\ refresher[r].pc = "month"
          /\ MayCreate(r, m) \/ MayGrow(r, m)
          /\ ~ (Exists(SourceOf(r, m)) /\ Suffix(r, m) = NoRows)
          /\ files' = [files EXCEPT ![SourceOf(r, m)] =
                          Joined(files[SourceOf(r, m)], Growth(r, m))]
  BY MonthIsWritten
<1> DEFINE s == SourceOf(r, m)
           f == files[s]
           g == Joined(f, Growth(r, m))
           ref == refs[i]
<1>1. /\ s \in Sources /\ s.month = m /\ g \in Runs
      /\ Exists(s) => /\ MayGrow(r, m) /\ Suffix(r, m) # NoRows
                      /\ \A t \in DOMAIN g : t \in DOMAIN f \/ t > Hi(f)
  BY WrittenFile
<1>2. files \in [Sources -> Runs]
  BY DEF FileInv, StoreTypes
<1>3. files'[s] = g /\ \A x \in Sources : x # s => files'[x] = files[x]
  BY <1>1, <1>2
<1>4. ref \in References
  OBVIOUS
<1>5. ref.source \in Sources /\ ref.rows \in Runs /\ DOMAIN ref.rows # {}
  <2>1. DOMAIN ref.rows # {}
    BY DEF Linked
  <2> HIDE DEF ref
  <2> QED
    BY <1>4, <2>1 DEF References
<1>6. ReferenceReads(files, ref)
  BY DEF Reads
<1>7. DOMAIN f \subseteq DOMAIN g /\ \A t \in DOMAIN f : g[t] = f[t]
  <2> HIDE DEF f
  <2> QED
    BY DEF Joined
<1>8. CASE ref.source # s
  <2>1. \A x \in Sources : x # s => files'[x] = files[x]
    BY <1>3
  <2> HIDE DEF ref, s
  <2>2. files'[ref.source] = files[ref.source]
    BY <1>5, <1>8, <2>1
  <2> QED
    BY <1>6, <2>2 DEF ReferenceReads, ref
<1>9. CASE ref.source = s
  <2>1. Exists(s)
    BY <1>6, <1>9 DEF ReferenceReads, Exists
  <2>2. f \in Runs /\ DOMAIN f # {} /\ f # NoRows
    BY <1>1, <1>2, <2>1, EmptyRun DEF Exists
  <2>3. ~ ref.closed
    <3> SUFFICES ASSUME ref.closed PROVE FALSE
      OBVIOUS
    <3>1. PICK n \in Months : i + 1 \in DOMAIN refs /\ n > m /\ refs[i + 1].source = Canonical(n)
      BY <1>1, <1>9 DEF Linked
    <3>2. files[Canonical(n)] # NoRows
      BY <3>1 DEF Reads, ReferenceReads
    <3>3. n \in CanonicalMonths
      BY <3>2 DEF CanonicalMonths, Exists
    <3>4. n <= m
      BY <1>1, <2>1, <3>3 DEF MayGrow
    <3>5. n \in Nat /\ m \in Nat
      BY <1>1, SourcesAre, MonthsAreNat
    <3> QED
      BY <3>1, <3>4, <3>5
  <2>4. /\ Lo(f) + ref.start = Lo(ref.rows) /\ Hi(ref.rows) <= Hi(f)
        /\ Part(f, DOMAIN ref.rows) = ref.rows
    BY <1>6, <1>9 DEF ReferenceReads
  <2>5. \A t \in DOMAIN g : t \in DOMAIN f \/ t > Hi(f)
    BY <1>1, <2>1
  <2>6. files'[ref.source] = g
    BY <1>3, <1>9
  <2> HIDE DEF s, f, g, ref
  <2>7. Lo(g) = Lo(f) /\ Hi(f) <= Hi(g) /\ Part(g, DOMAIN ref.rows) = ref.rows
    BY <1>1, <1>5, <1>7, <2>2, <2>4, <2>5, GrownSlice
  <2>8. g # NoRows
    BY <1>1, <1>7, <2>2, EmptyRun
  <2>9. Hi(ref.rows) \in Int /\ Hi(f) \in Int /\ Hi(g) \in Int
    BY <1>1, <1>5, <1>7, <2>2, RunBounds
  <2> QED
    BY <2>3, <2>4, <2>6, <2>7, <2>8, <2>9 DEF ReferenceReads, ref
<1> QED
  BY <1>8, <1>9

\* A crash leaves a file as it was seen or as it was durable.
LEMMA CrashReads ==
    ASSUME FileInv, Crash, NEW refs \in Seq(References), Reads(files, refs), Reads(disk, refs)
    PROVE  Reads(files, refs)' /\ Reads(disk, refs)'
<1>1. PICK lost \in SUBSET {s \in Sources : files[s] # disk[s]} :
          files' = [s \in Sources |-> IF s \in lost THEN disk[s] ELSE files[s]]
  BY DEF Crash
<1>2. ASSUME NEW i \in DOMAIN refs PROVE ReferenceReads(files', refs[i])
  <2>1. refs[i] \in References
    OBVIOUS
  <2>2. refs[i].source \in Sources
    BY <2>1 DEF References
  <2>3. files'[refs[i].source] = files[refs[i].source] \/ files'[refs[i].source] = disk[refs[i].source]
    BY <1>1, <2>2
  <2>4. ReferenceReads(files, refs[i]) /\ ReferenceReads(disk, refs[i])
    BY DEF Reads
  <2> QED
    BY <2>3, <2>4 DEF ReferenceReads
<1>3. disk' = files'
  BY DEF Crash
<1> QED
  BY <1>2, <1>3 DEF Reads

\* References that are read before a step are read after it.
ReadsLast ==
    \A refs \in Seq(References) :
        Linked(refs) /\ Reads(files, refs) /\ Reads(disk, refs) => (Reads(files, refs) /\ Reads(disk, refs))'

\* What is kept stays so in a step of one refresh that names no generation.
LEMMA KeptStays ==
    ASSUME StoreInv, KeptInv, NEW r \in Refreshers, ReadsLast, published' = published,
           \A g \in published : manifests'[g] = manifests[g],
           \A q \in Refreshers \ {r} :
               /\ refresher'[q] = refresher[q]
               /\ refresher[q].pc = "verified" => manifests'[refresher[q].gen] = manifests[refresher[q].gen],
           ~ orphaned' => ~ orphaned /\ Holds(r)'
    PROVE  KeptInv'
<1> SUFFICES ASSUME ~ orphaned' PROVE KeptInv'
  BY DEF KeptInv, PublishedStayReadable
<1>1. /\ ~ orphaned /\ Holds(r)'
      /\ \A g \in published : GenerationReads(files, manifests[g]) /\ GenerationReads(disk, manifests[g])
      /\ \A q \in Refreshers : Holds(q)
  BY DEF KeptInv, PublishedStayReadable
<1>2. /\ manifests \in [Generations -> Manifests] /\ published \subseteq Generations
      /\ refresher \in [Refreshers -> RefresherStates]
  BY DEF StoreInv, FileInv, StoreTypes
<1>3. \A g \in Generations : manifests[g].refs \in Seq(References) /\ Linked(manifests[g].refs)
  BY <1>2 DEF Manifests
<1>4. ASSUME NEW g \in Generations,
             GenerationReads(files, manifests[g]), GenerationReads(disk, manifests[g])
      PROVE  GenerationReads(files', manifests[g]) /\ GenerationReads(disk', manifests[g])
  <2>1. AllAllowed(manifests[g]) /\ Reads(files, manifests[g].refs) /\ Reads(disk, manifests[g].refs)
    BY <1>4, GenerationReadsIs
  <2>. PICK refs \in Seq(References) : refs = manifests[g].refs
    BY <1>3
  <2>2. (Reads(files, refs) /\ Reads(disk, refs))'
    BY <1>3, <2>1 DEF ReadsLast
  <2>3. Reads(files', manifests[g].refs) /\ Reads(disk', manifests[g].refs)
    BY <2>2
  <2> QED
    BY <2>1, <2>3, GenerationReadsIs
<1>5. \A g \in published' : GenerationReads(files', manifests'[g]) /\ GenerationReads(disk', manifests'[g])
  BY <1>1, <1>2, <1>4
<1>6. ASSUME NEW q \in Refreshers, q # r PROVE Holds(q)'
  <2>1. refresher'[q] = refresher[q] /\ Holds(q)
    BY <1>1, <1>6
  <2>2. CASE refresher[q].pc = "evaluated"
    <3>1. Reads(files, refresher[q].refs) /\ Reads(disk, refresher[q].refs)
      BY <2>1, <2>2 DEF Holds
    <3>. PICK refs \in Seq(References) : refs = refresher[q].refs /\ Linked(refs)
      BY <1>2 DEF RefresherStates
    <3>2. (Reads(files, refs) /\ Reads(disk, refs))'
      BY <3>1 DEF ReadsLast
    <3>3. Reads(files', refresher'[q].refs) /\ Reads(disk', refresher'[q].refs)
      BY <2>1, <3>2
    <3> QED
      BY <2>1, <2>2, <3>3 DEF Holds
  <2>3. CASE refresher[q].pc = "verified"
    <3>1. refresher[q].gen \in Generations
      BY <2>3 DEF StoreInv, GenerationsInv, OwnsGeneration, Unpublished
    <3>2. GenerationReads(files', manifests[refresher[q].gen]) /\ GenerationReads(disk', manifests[refresher[q].gen])
      BY <1>4, <2>1, <2>3, <3>1 DEF Holds
    <3>3. manifests'[refresher'[q].gen] = manifests[refresher[q].gen]
      BY <1>6, <2>1, <2>3
    <3> QED
      BY <2>1, <2>3, <3>2, <3>3 DEF Holds
  <2>4. CASE refresher[q].pc \notin {"evaluated", "verified"}
    BY <2>1, <2>4 DEF Holds
  <2> QED
    BY <2>2, <2>3, <2>4
<1>7. \A q \in Refreshers : Holds(q)'
  BY <1>1, <1>6
<1> QED
  BY <1>5, <1>7 DEF KeptInv, PublishedStayReadable

LEMMA ReadsLastWhenQuiet == ASSUME files' = files, disk' = disk \/ disk' = files PROVE ReadsLast
BY DEF ReadsLast, Reads

\* Whoever is to write a month finds every file durable.
LEMMA SyncedInTheLock ==
    ASSUME FileInv, OneUnsynced, ~ orphaned, NEW r \in Refreshers, refresher[r].pc = "month"
    PROVE  disk = files
<1>1. \A q \in Refreshers : refresher[q].pc # "sync"
  BY DEF FileInv, LockIsHeld
<1> QED
  BY <1>1 DEF OneUnsynced

\* What a step of a refresh does to the others, and to whether it is in a sync.
LEMMA RefreshSteps ==
    ASSUME StoreInv, NEW r \in Refreshers, Refresh(r)
    PROVE  /\ \A q \in Refreshers \ {r} : refresher'[q] = refresher[q]
           /\ ~ orphaned' => ~ orphaned
           /\ refresher[r].pc = "sync" => orphaned' \/ (disk' = files /\ files' = files)
<1>1. refresher \in [Refreshers -> RefresherStates]
  BY DEF StoreInv, FileInv, StoreTypes
<1> DEFINE Others == \A q \in Refreshers \ {r} : refresher'[q] = refresher[q]
<1>2. \A new : refresher' = [refresher EXCEPT ![r] = new] => Others
  BY <1>1
<1>3. Abort(r) => Others
  BY <1>2 DEF Abort
<1>4. CASE Start(r) \/ PublishNothing(r) \/ ReplaceCurrent(r)
  <2>1. Others
    BY <1>1, <1>4 DEF Start, PublishNothing, ReplaceCurrent
  <2>2. UNCHANGED trouble /\ refresher[r].pc \in {"idle", "started", "verified"}
    BY <1>4 DEF Start, PublishNothing, ReplaceCurrent
  <2> QED
    BY <2>1, <2>2 DEF trouble
<1>5. CASE Fetch(r)
  <2>. PICK rows \in Fetched(r), proof \in BOOLEAN :
           refresher' = [refresher EXCEPT ![r] = [@ EXCEPT
                 !.pc = "fetched", !.candidate = rows, !.full = ~ Reusable(r),
                 !.partial = IF Reusable(r) THEN PartialStart(refresher[r].prior) ELSE None,
                 !.listed = proof]]
    BY <1>5 DEF Fetch
  <2> DEFINE full == ~ Reusable(r)
             part == IF Reusable(r) THEN PartialStart(refresher[r].prior) ELSE None
             new == [refresher[r] EXCEPT !.pc = "fetched", !.candidate = rows, !.full = full,
                                         !.partial = part, !.listed = proof]
  <2>2. refresher' = [refresher EXCEPT ![r] = new]
    OBVIOUS
  <2> HIDE DEF new
  <2>1. Others
    BY <1>1, <2>2
  <2> QED
    BY <1>5, <2>1 DEF Fetch, trouble
<1>6. CASE Enter(r) \/ SyncSegment(r)
  <2>1. Others
    BY <1>1, <1>3, <1>6 DEF Enter, SyncSegment
  <2> QED
    BY <1>6, <2>1 DEF Enter, SyncSegment, trouble
<1>7. CASE WriteMonth(r)
  <2> DEFINE left == refresher[r].months \ {Min(refresher[r].months)}
  <2>1. \/ refresher' = [refresher EXCEPT ![r].months = left]
        \/ refresher' = [refresher EXCEPT ![r].pc = "sync", ![r].months = left]
    BY <1>7 DEF WriteMonth
  <2> HIDE DEF left
  <2>2. Others
    BY <1>1, <2>1
  <2> QED
    BY <1>7, <2>2 DEF WriteMonth, trouble
<1>8. CASE RefuseMonth(r) \/ SyncCurrent(r) \/ SyncCurrentFails(r)
  <2>1. Abort(r)
    BY <1>8 DEF RefuseMonth, SyncCurrent, SyncCurrentFails, Abort
  <2> QED
    BY <1>3, <1>8, <2>1 DEF RefuseMonth, SyncCurrent, SyncCurrentFails, trouble, Abort
<1>9. CASE SyncSegmentFails(r) \/ Die(r)
  BY <1>3, <1>9 DEF SyncSegmentFails, Die
<1>10. CASE FinishSegments(r)
  <2>1. Others
    BY <1>2, <1>3, <1>10, FinishedSegments DEF StoreInv
  <2> QED
    BY <1>10, <2>1 DEF FinishSegments, trouble
<1>11. CASE Verify(r)
  <2> DEFINE new == [IdleRefresher EXCEPT !.pc = "verified", !.gen = refresher[r].gen]
  <2>1. refresher' = [refresher EXCEPT ![r] = new] \/ Abort(r)
    BY <1>11 DEF Verify
  <2>2. Others
    BY <1>2, <1>3, <2>1
  <2> QED
    BY <1>11, <2>2 DEF Verify, trouble
<1> QED
  BY <1>4, <1>5, <1>6, <1>7, <1>8, <1>9, <1>10, <1>11 DEF Refresh

LEMMA RefreshSyncs ==
    ASSUME StoreInv, OneUnsynced, NEW r \in Refreshers, Refresh(r) PROVE OneUnsynced'
<1> SUFFICES ASSUME ~ orphaned' PROVE OneUnsynced'
  BY DEF OneUnsynced
<1>1. /\ \A q \in Refreshers \ {r} : refresher'[q] = refresher[q]
      /\ ~ orphaned
      /\ refresher[r].pc = "sync" => disk' = files /\ files' = files
  BY RefreshSteps
<1>2. PICK s0 \in Sources : \A x \in Sources : x # s0 => disk[x] = files[x]
  BY <1>1 DEF OneUnsynced
<1>3. CASE disk' = files'
  BY <1>2, <1>3 DEF OneUnsynced
<1>4. CASE WriteMonth(r)
  <2>1. disk = files /\ disk' = disk
    BY <1>1, <1>4, SyncedInTheLock DEF StoreInv, WriteMonth
  <2>2. CASE files' = files
    BY <1>3, <2>1, <2>2
  <2>3. CASE files' # files
    <3>. PICK m \in refresher[r].months :
              /\ refresher[r].pc = "month" /\ refresher'[r].pc = "sync"
              /\ MayCreate(r, m) \/ MayGrow(r, m)
              /\ ~ (Exists(SourceOf(r, m)) /\ Suffix(r, m) = NoRows)
              /\ files' = [files EXCEPT ![SourceOf(r, m)] =
                              Joined(files[SourceOf(r, m)], Growth(r, m))]
      BY <1>4, <2>3, MonthIsWritten DEF StoreInv
    <3>1. SourceOf(r, m) \in Sources
      BY WrittenFile DEF StoreInv
    <3>. PICK s \in Sources : s = SourceOf(r, m)
      BY <3>1
    <3>2. \A x \in Sources : x # s => files'[x] = files[x]
      BY DEF StoreInv, FileInv, StoreTypes
    <3> QED
      BY <2>1, <3>2 DEF OneUnsynced
  <2> QED
    BY <2>2, <2>3
<1>5. CASE ~ WriteMonth(r) /\ disk' # files'
  <2>1. UNCHANGED <<files, disk>>
    BY <1>5 DEF Refresh, Start, PublishNothing, Fetch, Enter, RefuseMonth, SyncSegment,
                SyncSegmentFails, FinishSegments, Verify, ReplaceCurrent, SyncCurrent, SyncCurrentFails,
                Die, store
  <2>2. refresher[r].pc # "sync"
    BY <1>1, <1>5, <2>1
  <2>3. PICK q \in Refreshers : refresher[q].pc = "sync"
    BY <1>1, <1>5, <2>1 DEF OneUnsynced
  <2>4. refresher'[q].pc = "sync"
    BY <1>1, <2>2, <2>3
  <2> QED
    BY <1>2, <2>1, <2>4 DEF OneUnsynced
<1> QED
  BY <1>3, <1>4, <1>5

LEMMA InitSyncs == Init => OneUnsynced
<1> SUFFICES ASSUME Init PROVE OneUnsynced
  OBVIOUS
<1>1. 1 \in 1..Times
  BY TrustedStoreAssumption
<1>2. Partial(Month(1), 1) \in Sources
  BY <1>1, SourcesAre
<1>3. disk = files
  BY DEF Init
<1> QED
  BY <1>2, <1>3 DEF OneUnsynced

LEMMA StepSyncs == StoreInv /\ OneUnsynced /\ [Next]_vars => OneUnsynced'
<1> SUFFICES ASSUME StoreInv, OneUnsynced, [Next]_vars PROVE OneUnsynced'
  OBVIOUS
<1>1. CASE \E r \in Refreshers : Refresh(r)
  BY <1>1, RefreshSyncs
<1>2. CASE Crash
  <2>1. disk' = files' /\ orphaned' = orphaned
    BY <1>2 DEF Crash
  <2> QED
    BY <2>1 DEF OneUnsynced
<1>3. CASE Tick \/ (\E t \in Correctable : Correct(t)) \/ UNCHANGED vars \/ \E r \in Readers : Load(r)
  <2>1. UNCHANGED <<store, refresher, trouble>>
    BY <1>3 DEF Tick, Correct, vars, Load, OpenContext, ReadSegment
  <2> QED
    BY <2>1 DEF OneUnsynced, store, trouble
<1> QED
  BY <1>1, <1>2, <1>3 DEF Next

\* The steps of a refresh that leave it without references or a manifest.
LEMMA PassiveKeeps ==
    ASSUME StoreInv, KeptInv, NEW r \in Refreshers, Refresh(r), ReadsLast,
           UNCHANGED <<manifests, published>>,
           refresher'[r].pc \notin {"evaluated", "verified"}
    PROVE  KeptInv'
<1>1. Holds(r)'
  BY DEF Holds
<1> QED
  BY <1>1, RefreshSteps, KeptStays

LEMMA AbortHoldsNone ==
    ASSUME FileInv, NEW r \in Refreshers, Abort(r)
    PROVE  refresher'[r].pc \notin {"evaluated", "verified"}
BY AbortStep

LEMMA QuietKeepsKept ==
    ASSUME StoreInv, KeptInv, NEW r \in Refreshers,
           \/ Start(r) \/ Fetch(r) \/ Enter(r) \/ RefuseMonth(r) \/ SyncSegment(r)
           \/ SyncSegmentFails(r) \/ SyncCurrent(r) \/ SyncCurrentFails(r) \/ Die(r)
    PROVE  KeptInv'
<1>1. FileInv /\ refresher \in [Refreshers -> RefresherStates]
  BY DEF StoreInv, FileInv, StoreTypes
<1>2. UNCHANGED <<manifests, published, files>> /\ (disk' = disk \/ disk' = files)
  BY DEF Start, Fetch, Enter, RefuseMonth, SyncSegment, SyncSegmentFails, SyncCurrent,
         SyncCurrentFails, Die, store
<1>3. ReadsLast
  BY <1>2, ReadsLastWhenQuiet
<1>4. refresher'[r].pc \notin {"evaluated", "verified"}
  <2>1. CASE Start(r)
    BY <1>1, <2>1 DEF Start, IdleRefresher
  <2>2. CASE Fetch(r)
    <3>. PICK rows \in Fetched(r), proof \in BOOLEAN :
             refresher' = [refresher EXCEPT ![r] = [@ EXCEPT
                   !.pc = "fetched", !.candidate = rows, !.full = ~ Reusable(r),
                   !.partial = IF Reusable(r) THEN PartialStart(refresher[r].prior) ELSE None,
                   !.listed = proof]]
      BY <2>2 DEF Fetch
    <3> DEFINE full == ~ Reusable(r)
               part == IF Reusable(r) THEN PartialStart(refresher[r].prior) ELSE None
    <3>1. refresher'[r] = [refresher[r] EXCEPT !.pc = "fetched", !.candidate = rows, !.full = full,
                                               !.partial = part, !.listed = proof]
      BY <1>1
    <3> HIDE DEF full, part
    <3> QED
      BY <1>1, <3>1 DEF RefresherStates
  <2>3. CASE Enter(r)
    <3>1. Abort(r) \/ refresher' = [refresher EXCEPT ![r].pc = "month", ![r].months = PhysicalMonths(r)]
      BY <2>3 DEF Enter
    <3> QED
      BY <1>1, <3>1, AbortHoldsNone DEF RefresherStates
  <2>4. CASE SyncSegment(r)
    BY <1>1, <2>4 DEF SyncSegment, RefresherStates
  <2>5. CASE RefuseMonth(r) \/ SyncSegmentFails(r) \/ SyncCurrent(r) \/ SyncCurrentFails(r) \/ Die(r)
    <3>1. Abort(r)
      BY <2>5 DEF RefuseMonth, SyncSegmentFails, SyncCurrent, SyncCurrentFails, Die, Abort
    <3> QED
      BY <1>1, <3>1, AbortHoldsNone
  <2> QED
    BY <2>1, <2>2, <2>3, <2>4, <2>5
<1>5. Refresh(r)
  BY DEF Refresh
<1> QED
  BY <1>2, <1>3, <1>4, <1>5, PassiveKeeps

LEMMA PublishNothingKeepsKept ==
    ASSUME StoreInv, KeptInv, NEW r \in Refreshers, PublishNothing(r) PROVE KeptInv'
<1>1. /\ refresher \in [Refreshers -> RefresherStates] /\ FileInv /\ GenerationsInv
      /\ refresher[r].pc = "started"
  BY DEF StoreInv, FileInv, StoreTypes, PublishNothing
<1>2. refresher[r].refs = <<>>
  BY <1>1, NoRefs
<1>3. UNCHANGED <<files, disk, manifests, published>> /\ refresher' = [refresher EXCEPT ![r].pc = "evaluated"]
  BY DEF PublishNothing, store
<1>4. refresher'[r].pc = "evaluated" /\ refresher'[r].refs = <<>>
  BY <1>1, <1>2, <1>3 DEF RefresherStates
<1>5. Holds(r)'
  BY <1>4 DEF Holds, Reads
<1>6. Refresh(r) /\ ReadsLast
  BY <1>3, ReadsLastWhenQuiet DEF Refresh
<1> QED
  BY <1>3, <1>5, <1>6, RefreshSteps, KeptStays

LEMMA WriteKeepsKept ==
    ASSUME StoreInv, KeptInv, NEW r \in Refreshers, WriteMonth(r) PROVE KeptInv'
<1>1. /\ refresher \in [Refreshers -> RefresherStates] /\ FileInv /\ refresher[r].pc = "month"
      /\ UNCHANGED <<disk, manifests, published>>
  BY DEF StoreInv, FileInv, StoreTypes, WriteMonth
<1>2. ReadsLast
  BY <1>1, WriteReads DEF ReadsLast, Reads
<1>3. refresher'[r].pc \notin {"evaluated", "verified"}
  <2> DEFINE left == refresher[r].months \ {Min(refresher[r].months)}
  <2>1. \/ refresher' = [refresher EXCEPT ![r].months = left]
        \/ refresher' = [refresher EXCEPT ![r].pc = "sync", ![r].months = left]
    BY DEF WriteMonth
  <2> HIDE DEF left
  <2>2. CASE refresher' = [refresher EXCEPT ![r].months = left]
    BY <1>1, <2>2 DEF RefresherStates
  <2>3. CASE refresher' = [refresher EXCEPT ![r].pc = "sync", ![r].months = left]
    BY <1>1, <2>3 DEF RefresherStates
  <2> QED
    BY <2>1, <2>2, <2>3
<1>4. Refresh(r)
  BY DEF Refresh
<1> QED
  BY <1>1, <1>2, <1>3, <1>4, PassiveKeeps

\* The references that leave the lock are durable: every file in it was synced.
LEMMA FinishKeepsKept ==
    ASSUME StoreInv, OneUnsynced, KeptInv, NEW r \in Refreshers, FinishSegments(r) PROVE KeptInv'
<1> DEFINE refs == SegmentReferences(r)
           new == [refresher[r] EXCEPT !.pc = "evaluated", !.refs = refs, !.usable = TRUE]
<1>1. /\ refresher \in [Refreshers -> RefresherStates] /\ FileInv /\ refresher[r] \in RefresherStates
      /\ refresher[r].pc = "month" /\ UNCHANGED <<files, disk, manifests, published, trouble>>
  BY FinishedSegments DEF StoreInv, FileInv, StoreTypes
<1>2. Refresh(r) /\ ReadsLast
  BY <1>1, ReadsLastWhenQuiet DEF Refresh
<1>3. CASE Abort(r)
  BY <1>1, <1>2, <1>3, AbortHoldsNone, PassiveKeeps
<1>4. CASE Reads(files, refs) /\ refresher' = [refresher EXCEPT ![r] = new]
  <2>1. ~ orphaned => disk = files
    BY <1>1, SyncedInTheLock
  <2>2. new.pc = "evaluated" /\ new.refs = refs
    <3> HIDE DEF refs
    <3> QED
      BY <1>1 DEF RefresherStates
  <2> HIDE DEF new, refs
  <2>3. refresher'[r].pc = "evaluated" /\ refresher'[r].refs = refs
    BY <1>1, <1>4, <2>2
  <2>4. ~ orphaned => Reads(files', refresher'[r].refs) /\ Reads(disk', refresher'[r].refs)
    BY <1>1, <1>4, <2>1, <2>3
  <2>5. ~ orphaned => Holds(r)'
    BY <2>3, <2>4 DEF Holds
  <2> QED
    BY <1>1, <1>2, <2>5, RefreshSteps, KeptStays DEF trouble
<1> QED
  BY <1>3, <1>4, FinishedSegments DEF StoreInv

LEMMA VerifyKeepsKept ==
    ASSUME StoreInv, KeptInv, NEW r \in Refreshers, Verify(r) PROVE KeptInv'
<1>1. /\ refresher \in [Refreshers -> RefresherStates] /\ FileInv /\ refresher[r] \in RefresherStates
      /\ refresher[r].pc = "evaluated" /\ UNCHANGED <<files, disk, published, trouble>>
      /\ manifests \in [Generations -> Manifests] /\ GenerationsInv
  BY DEF StoreInv, FileInv, StoreTypes, Verify
<1>2. Refresh(r) /\ ReadsLast
  BY <1>1, ReadsLastWhenQuiet DEF Refresh
<1>3. CASE Abort(r) /\ UNCHANGED manifests
  BY <1>1, <1>2, <1>3, AbortHoldsNone, PassiveKeeps
<1>4. CASE ~ (Abort(r) /\ UNCHANGED manifests)
  <2> DEFINE gen == refresher[r].gen
             man == ManifestOf(r)
             new == [IdleRefresher EXCEPT !.pc = "verified", !.gen = gen]
  <2>1. /\ GenerationReads(files, man) /\ manifests' = [manifests EXCEPT ![gen] = man]
        /\ refresher' = [refresher EXCEPT ![r] = new]
    BY <1>4 DEF Verify
  <2>2. man.refs = refresher[r].refs
    BY DEF ManifestOf
  <2>3. gen \in Generations \ published /\ gen # None
    BY <1>1, TrustedStoreAssumption DEF GenerationsInv, OwnsGeneration, Unpublished
  <2>4. \A q \in Refreshers \ {r} : refresher[q].gen # gen
    BY <1>1, <2>3 DEF GenerationsInv, OwnsGeneration
  <2>5. new.pc = "verified" /\ new.gen = gen
    BY DEF IdleRefresher
  <2> HIDE DEF man, new, gen
  <2>6. refresher'[r].pc = "verified" /\ refresher'[r].gen = gen
    BY <1>1, <2>1, <2>5
  <2>7. manifests'[gen] = man /\ \A g \in Generations \ {gen} : manifests'[g] = manifests[g]
    BY <1>1, <2>1, <2>3
  <2>8. ~ orphaned => GenerationReads(disk, man)
    <3> SUFFICES ASSUME ~ orphaned PROVE GenerationReads(disk, man)
      OBVIOUS
    <3>1. Reads(disk, refresher[r].refs)
      BY <1>1 DEF KeptInv, Holds
    <3>2. AllAllowed(man)
      BY <2>1, GenerationReadsIs
    <3> QED
      BY <2>2, <3>1, <3>2, GenerationReadsIs
  <2>9. ~ orphaned => Holds(r)'
    BY <1>1, <2>1, <2>6, <2>7, <2>8 DEF Holds
  <2>10. ASSUME NEW q \in Refreshers \ {r}, refresher[q].pc = "verified"
         PROVE  manifests'[refresher[q].gen] = manifests[refresher[q].gen]
    <3>1. refresher[q].gen \in Generations
      BY <1>1, <2>10 DEF GenerationsInv, OwnsGeneration, Unpublished
    <3> QED
      BY <2>4, <2>7, <3>1
  <2>11. \A g \in published : manifests'[g] = manifests[g]
    BY <2>3, <2>7, <1>1 DEF FileInv, StoreTypes
  <2> QED
    BY <1>1, <1>2, <2>9, <2>10, <2>11, RefreshSteps, KeptStays DEF trouble
<1> QED
  BY <1>3, <1>4

LEMMA ReplaceKeepsKept ==
    ASSUME StoreInv, KeptInv, NEW r \in Refreshers, ReplaceCurrent(r) PROVE KeptInv'
<1>1. /\ refresher \in [Refreshers -> RefresherStates] /\ GenerationsInv /\ FileInv
      /\ refresher[r].pc = "verified" /\ UNCHANGED <<files, disk, manifests, trouble>>
      /\ refresher' = [refresher EXCEPT ![r].pc = "replaced"]
      /\ published' = published \cup {refresher[r].gen}
  BY ReplaceOwns DEF StoreInv, FileInv, StoreTypes, ReplaceCurrent
<1>2. refresher'[r].pc = "replaced" /\ \A q \in Refreshers \ {r} : refresher'[q] = refresher[q]
  BY <1>1 DEF RefresherStates
<1> SUFFICES ASSUME ~ orphaned PROVE KeptInv'
  BY <1>1 DEF KeptInv, PublishedStayReadable, trouble
<1>3. \A q \in Refreshers : Holds(q)
  BY DEF KeptInv
<1>4. \A g \in published' : GenerationReads(files', manifests'[g]) /\ GenerationReads(disk', manifests'[g])
  BY <1>1, <1>3 DEF KeptInv, PublishedStayReadable, Holds
<1>5. \A q \in Refreshers : Holds(q)'
  <2>1. Holds(r)'
    BY <1>2 DEF Holds
  <2>2. ASSUME NEW q \in Refreshers \ {r} PROVE Holds(q)'
    BY <1>1, <1>2, <1>3 DEF Holds, Reads
  <2> QED
    BY <2>1, <2>2
<1> QED
  BY <1>4, <1>5 DEF KeptInv, PublishedStayReadable

LEMMA CrashKeepsKept == ASSUME StoreInv, KeptInv, Crash PROVE KeptInv'
<1>1. /\ UNCHANGED <<manifests, published, orphaned>> /\ disk' = files'
      /\ refresher' = [r \in Refreshers |-> IdleRefresher]
      /\ manifests \in [Generations -> Manifests] /\ published \subseteq Generations
  BY DEF Crash, StoreInv, FileInv, StoreTypes
<1> SUFFICES ASSUME ~ orphaned PROVE KeptInv'
  BY <1>1 DEF KeptInv, PublishedStayReadable
<1>2. ASSUME NEW g \in published
      PROVE  GenerationReads(files', manifests[g]) /\ GenerationReads(disk', manifests[g])
  <2>1. /\ AllAllowed(manifests[g]) /\ Reads(files, manifests[g].refs) /\ Reads(disk, manifests[g].refs)
    BY GenerationReadsIs DEF KeptInv, PublishedStayReadable
  <2>. PICK refs \in Seq(References) : refs = manifests[g].refs
    BY <1>1 DEF Manifests
  <2>2. Reads(files, refs)' /\ Reads(disk, refs)'
    BY <2>1, CrashReads DEF StoreInv
  <2>3. Reads(files', manifests[g].refs) /\ Reads(disk', manifests[g].refs)
    BY <2>2
  <2> QED
    BY <2>1, <2>3, GenerationReadsIs
<1>3. \A r \in Refreshers : Holds(r)'
  BY <1>1 DEF Holds, IdleRefresher
<1> QED
  BY <1>1, <1>2, <1>3 DEF KeptInv, PublishedStayReadable

LEMMA StepKeepsKept == StoreInv /\ OneUnsynced /\ KeptInv /\ [Next]_vars => KeptInv'
<1> SUFFICES ASSUME StoreInv, OneUnsynced, KeptInv, [Next]_vars PROVE KeptInv'
  OBVIOUS
<1>1. ASSUME NEW r \in Refreshers, Refresh(r) PROVE KeptInv'
  BY <1>1, QuietKeepsKept, PublishNothingKeepsKept, WriteKeepsKept, FinishKeepsKept, VerifyKeepsKept,
     ReplaceKeepsKept DEF Refresh
<1>2. CASE Tick \/ (\E t \in Correctable : Correct(t)) \/ UNCHANGED vars \/ \E r \in Readers : Load(r)
  <2>1. UNCHANGED <<store, refresher, trouble>>
    BY <1>2 DEF Tick, Correct, vars, Load, OpenContext, ReadSegment
  <2> QED
    BY <2>1 DEF KeptInv, PublishedStayReadable, Holds, Reads, store, trouble
<1> QED
  BY <1>1, <1>2, CrashKeepsKept DEF Next

\* Unless a writer left a replaced file unsynced, every generation that was
\* ever current is read back exactly, before and after a crash, although later
\* refreshes grow the files it shares: a slice keeps its place in a file that
\* grows, and a file whose end closes a slice is followed by another and
\* does not grow any more.
THEOREM SpecPublishedStayReadable == Spec => []PublishedStayReadable
<1>1. Init => KeptInv
  BY DEF Init, KeptInv, PublishedStayReadable, Holds, IdleRefresher
<1>2. KeptInv => PublishedStayReadable
  BY DEF KeptInv
<1> QED
  BY <1>1, <1>2, InitSyncs, StepSyncs, StepKeepsKept, SpecStoreInv, PTL DEF Spec

-----------------------------------------------------------------------------
(* Closed months are complete.                                             *)

\* A month ends where a later one begins.
LEMMA MonthEnds ==
    ASSUME NEW m \in Months, NEW t \in 1..Times, Month(t) > m
    PROVE  \A u \in InMonth(m) : u \in 1..Times /\ u <= t - 1
<1> SUFFICES ASSUME NEW u \in InMonth(m), ~ (u <= t - 1) PROVE FALSE
  BY DEF InMonth
<1>1. u \in 1..Times /\ Month(u) = m
  BY DEF InMonth
<1>2. t <= u
  BY <1>1
<1>3. Month(t) <= Month(u)
  BY <1>1, <1>2, MonthsAscend
<1>4. Month(t) \in Nat /\ m \in Nat
  BY MonthIsNat, MonthsAreNat
<1> QED
  BY <1>1, <1>3, <1>4

\* A month below the last one that is written is written to its end.
LEMMA EndOfPart ==
    ASSUME FileInv, NEW r \in Refreshers, Begun(r), NEW m \in MonthsOf(refresher[r].candidate),
           IsFile(Canonical(m), Candidate(r, m)),
           InMonth(m) \subseteq 1..Hi(refresher[r].candidate)
    PROVE  InMonth(m) \subseteq DOMAIN Candidate(r, m)
<1> DEFINE all == refresher[r].candidate
           c == Candidate(r, m)
<1>1. /\ DOMAIN all = Lo(all)..Hi(all) /\ Lo(all) \in 1..Times /\ Hi(all) \in 1..Times
  BY CandidateRuns
<1>2. DOMAIN c = DOMAIN all \cap InMonth(m) /\ Lo(c) \in DOMAIN c /\ Lo(c) \in 1..Times
  BY CandidatePart
<1>3. /\ Canonical(m).start = 0 /\ Canonical(m).month = m
  BY DEF Canonical
<1> SUFFICES ASSUME NEW u \in InMonth(m) PROVE u \in DOMAIN c
  OBVIOUS
<1>4. u \in 1..Times /\ u <= Hi(all)
  BY <1>1 DEF InMonth
<1> HIDE DEF all
<1>5. CASE u <= Lo(c)
  BY <1>2, <1>3, <1>5 DEF IsFile
<1>6. CASE ~ (u <= Lo(c))
  <2>1. Lo(c) >= Lo(all)
    BY <1>1, <1>2
  <2> HIDE DEF c
  <2>2. u \in DOMAIN all
    BY <1>1, <1>2, <1>4, <1>6, <2>1
  <2> QED
    BY <1>2, <2>2
<1> QED
  BY <1>5, <1>6

\* A file ends with its month where a later month follows it at once.
LEMMA EndOfFile ==
    ASSUME NEW m \in Months, NEW f \in Runs, DOMAIN f # {}, IsFile(Canonical(m), f),
           NEW t \in 1..Times, t = Hi(f) + 1, Month(t) > m
    PROVE  InMonth(m) \subseteq DOMAIN f
<1>1. Hi(f) \in DOMAIN f /\ Hi(f) \in 1..Times
  BY RunBounds
<1>2. Canonical(m).start = 0 /\ Canonical(m).month = m
  BY DEF Canonical
<1>3. \A u \in InMonth(m) : u \in 1..Times /\ u <= Hi(f)
  <2>1. \A u \in InMonth(m) : u \in 1..Times /\ u <= t - 1
    BY MonthEnds
  <2>2. t - 1 = Hi(f)
    BY <1>1
  <2> QED
    BY <2>1, <2>2
<1> QED
  BY <1>1, <1>2, <1>3 DEF IsFile

\* The segments are entered only if the candidate's last month is complete or
\* the last one.
LEMMA EnteredEnd ==
    ASSUME FileInv, NEW r \in Refreshers, refresher[r].pc = "fetched", NextAdjacent(r),
           NEW m \in Months, m = LastMonth(r), SourceOf(r, m) = Canonical(m), ~ Exists(Canonical(m)),
           NEW n \in CanonicalMonths, n > m
    PROVE  InMonth(m) \subseteq 1..Hi(refresher[r].candidate)
<1> DEFINE all == refresher[r].candidate
           later == {k \in CanonicalMonths : k > m}
           next == Min(later)
           f == files[Canonical(next)]
           c == Candidate(r, m)
<1>1. Begun(r)
  BY DEF Begun
<1>2. /\ all \in Runs /\ DOMAIN all # {} /\ Hi(all) \in 1..Times /\ Hi(all) \in DOMAIN all
      /\ MonthsOf(all) \subseteq CandidateMonth(r)..LastMonth(r)
      /\ CandidateMonth(r) \in Months /\ FirstMonth(r) \in Months /\ FirstMonth(r) <= LastMonth(r)
      /\ \A t \in DOMAIN all : t <= Hi(all)
  <2>1. /\ all \in Runs /\ DOMAIN all # {} /\ Hi(all) \in 1..Times
        /\ MonthsOf(all) \subseteq CandidateMonth(r)..LastMonth(r)
        /\ CandidateMonth(r) \in Months /\ FirstMonth(r) \in Months /\ FirstMonth(r) <= LastMonth(r)
        /\ DOMAIN all = Lo(all)..Hi(all)
    BY <1>1, CandidateRuns
  <2> HIDE DEF all
  <2>2. Hi(all) \in DOMAIN all
    BY <2>1, RunBounds
  <2> QED
    BY <2>1, <2>2
<1>3. m \in MonthsOf(all)
  BY <1>2 DEF LastMonth, MonthsOf
<1>4. Max(PhysicalMonths(r)) = m
  <2>1. m \in PhysicalMonths(r)
    BY <1>2, <1>3 DEF PhysicalMonths
  <2>2. PhysicalMonths(r) \subseteq MonthsOf(all) /\ PhysicalMonths(r) \subseteq Months
    BY <1>1, PhysicalMonthsAre
  <2>3. PhysicalMonths(r) \in SUBSET (0..Month(Times)) /\ Month(Times) \in Nat
    BY <2>2, MonthBounds
  <2>4. Max(PhysicalMonths(r)) \in PhysicalMonths(r) /\ m <= Max(PhysicalMonths(r))
    BY <2>1, <2>3, MaxIsGreatest
  <2>5. Max(PhysicalMonths(r)) \in CandidateMonth(r)..m
    BY <1>2, <2>2, <2>4
  <2>6. CandidateMonth(r) \in Nat /\ m \in Nat
    BY <1>2, MonthsAreNat
  <2> QED
    BY <2>4, <2>5, <2>6
<1>5. n \in later
  OBVIOUS
<1>6. Lo(f) = Hi(c) + 1
  BY <1>4, <1>5 DEF NextAdjacent
<1>7. next \in later
  <2>1. later \in SUBSET Nat
    BY MonthsAreNat DEF CanonicalMonths
  <2> HIDE DEF later
  <2> QED
    BY <1>5, <2>1, MinIsLeast
<1>8. next \in Months /\ next > m /\ Exists(Canonical(next))
  BY <1>7 DEF CanonicalMonths
<1> HIDE DEF next, later
<1>9. Canonical(next) \in Sources /\ Canonical(next).month = next
  BY <1>8, SourcesAre
<1>10. f \in Runs /\ DOMAIN f # {} /\ IsFile(Canonical(next), f)
  BY <1>8, <1>9, EmptyRun DEF FileInv, StoreTypes, FilesAreNamed, Exists
<1> HIDE DEF f
<1>11. Lo(f) \in DOMAIN f /\ Lo(f) \in 1..Times
  BY <1>10, RunBounds
<1>12. Month(Lo(f)) > m
  BY <1>8, <1>9, <1>10, <1>11 DEF IsFile
<1>13. \A u \in InMonth(m) : u \in 1..Times /\ u <= Lo(f) - 1
  BY <1>11, <1>12, MonthEnds
<1>14. c \in Runs /\ DOMAIN c # {} /\ DOMAIN c \subseteq DOMAIN all
  BY <1>1, <1>3, CandidatePart
<1> HIDE DEF c, all
<1>15. Hi(c) \in DOMAIN c /\ Hi(c) \in 1..Times
  BY <1>14, RunBounds
<1>16. Hi(c) <= Hi(all)
  BY <1>2, <1>14, <1>15
<1> QED
  BY <1>2, <1>6, <1>13, <1>15, <1>16 DEF all

\* Where a month's file is depends on the canonical one alone, once the
\* candidate is there.
LEMMA SourceStays ==
    ASSUME NEW r \in Refreshers, NEW m, Exists(Canonical(m))' = Exists(Canonical(m)),
           refresher'[r].candidate = refresher[r].candidate, refresher'[r].days = refresher[r].days,
           refresher'[r].partial = refresher[r].partial, refresher'[r].listed = refresher[r].listed
    PROVE  SourceOf(r, m)' = SourceOf(r, m)
<1>1. /\ Logical(r)' = Logical(r) /\ FirstMonth(r)' = FirstMonth(r) /\ Candidate(r, m)' = Candidate(r, m)
  BY DEF Logical, FirstMonth, Candidate
<1>2. Reuses(r, m)' = Reuses(r, m) /\ Isolates(r)' = Isolates(r) /\ StartsMidMonth(r)' = StartsMidMonth(r)
  BY <1>1 DEF Reuses, Isolates, StartsMidMonth, IsCovered
<1> QED
  BY <1>1, <1>2 DEF SourceOf

\* In the lock the candidate stays what it was.
LEMMA CandidateStays ==
    ASSUME StoreInv, NEW r \in Refreshers, (Enter(r) /\ NextAdjacent(r)) \/ WriteMonth(r) \/ SyncSegment(r)
    PROVE  /\ refresher'[r].candidate = refresher[r].candidate /\ refresher'[r].days = refresher[r].days
           /\ refresher'[r].partial = refresher[r].partial /\ refresher'[r].listed = refresher[r].listed
<1>1. refresher \in [Refreshers -> RefresherStates]
  BY DEF StoreInv, FileInv, StoreTypes
<1>2. \E months :
         \/ refresher' = [refresher EXCEPT ![r].months = months]
         \/ refresher' = [refresher EXCEPT ![r].pc = "month"]
         \/ refresher' = [refresher EXCEPT ![r].pc = "month", ![r].months = months]
         \/ refresher' = [refresher EXCEPT ![r].pc = "sync", ![r].months = months]
  <2> DEFINE left == refresher[r].months \ {Min(refresher[r].months)}
  <2>1. \/ refresher' = [refresher EXCEPT ![r].months = left]
        \/ refresher' = [refresher EXCEPT ![r].pc = "month"]
        \/ refresher' = [refresher EXCEPT ![r].pc = "month", ![r].months = PhysicalMonths(r)]
        \/ refresher' = [refresher EXCEPT ![r].pc = "sync", ![r].months = left]
    BY DEF Enter, WriteMonth, SyncSegment
  <2> HIDE DEF left
  <2> QED
    BY <2>1
<1>. PICK months :
         \/ refresher' = [refresher EXCEPT ![r].months = months]
         \/ refresher' = [refresher EXCEPT ![r].pc = "month"]
         \/ refresher' = [refresher EXCEPT ![r].pc = "month", ![r].months = months]
         \/ refresher' = [refresher EXCEPT ![r].pc = "sync", ![r].months = months]
  BY <1>2
<1>3. \/ refresher'[r] = [refresher[r] EXCEPT !.months = months]
      \/ refresher'[r] = [refresher[r] EXCEPT !.pc = "month"]
      \/ refresher'[r] = [refresher[r] EXCEPT !.pc = "month", !.months = months]
      \/ refresher'[r] = [refresher[r] EXCEPT !.pc = "sync", !.months = months]
  BY <1>1
<1> QED
  BY <1>1, <1>3 DEF RefresherStates

LEMMA EndStays ==
    ASSUME NEW r \in Refreshers, HasEnd(r), refresher[r].pc \in {"month", "sync"}, files' = files,
           refresher'[r].candidate = refresher[r].candidate, refresher'[r].days = refresher[r].days,
           refresher'[r].partial = refresher[r].partial, refresher'[r].listed = refresher[r].listed
    PROVE  HasEnd(r)'
<1>1. \A s : Exists(s)' = Exists(s)
  BY DEF Exists
<1>2. \A m : SourceOf(r, m)' = SourceOf(r, m)
  BY <1>1, SourceStays
<1>3. CanonicalMonths' = CanonicalMonths /\ LastMonth(r)' = LastMonth(r)
  BY <1>1 DEF CanonicalMonths, LastMonth
<1> QED
  BY <1>1, <1>2, <1>3 DEF HasEnd

\* The writer of a month adds no later month than its last.
LEMMA WriteEnds ==
    ASSUME StoreInv, NEW r \in Refreshers, WriteMonth(r), HasEnd(r) PROVE HasEnd(r)'
<1>1. FileInv /\ refresher[r].pc = "month"
  BY DEF StoreInv, WriteMonth
<1>2. CASE files' = files
  BY <1>1, <1>2, CandidateStays, EndStays
<1>3. CASE files' # files
  <2>. PICK k \in refresher[r].months :
          /\ refresher[r].pc = "month"
          /\ MayCreate(r, k) \/ MayGrow(r, k)
          /\ ~ (Exists(SourceOf(r, k)) /\ Suffix(r, k) = NoRows)
          /\ files' = [files EXCEPT ![SourceOf(r, k)] =
                          Joined(files[SourceOf(r, k)], Growth(r, k))]
    BY <1>1, <1>3, MonthIsWritten
  <2>. PICK s \in Sources : s = SourceOf(r, k)
    BY <1>1, WrittenFile
  <2> DEFINE g == Joined(files[s], Growth(r, k))
  <2>1. /\ s \in Sources /\ s.month = k /\ files \in [Sources -> Runs] /\ DOMAIN g # {} /\ g \in Runs
        /\ k \in MonthsOf(refresher[r].candidate)
    BY <1>1, WrittenFile DEF FileInv, StoreTypes
  <2>2. files'[s] = g /\ \A x \in Sources : x # s => files'[x] = files[x]
    BY <2>1
  <2>3. Exists(s)' /\ \A x \in Sources : x # s => Exists(x)' = Exists(x)
    BY <2>1, <2>2, EmptyRun DEF Exists
  <2> HIDE DEF g
  <2> SUFFICES ASSUME NEW m \in Months, (m = LastMonth(r))', (SourceOf(r, m) = Canonical(m))',
                      (~ Exists(Canonical(m)))', NEW n \in Months, (n \in CanonicalMonths)', n > m
               PROVE  (InMonth(m) \subseteq 1..Hi(refresher[r].candidate))'
    BY DEF HasEnd, CanonicalMonths
  <2>4. m = LastMonth(r)
    BY CandidateStays DEF LastMonth
  <2>5. Canonical(m) \in Sources /\ Canonical(n) \in Sources /\ Canonical(n).month = n
    BY SourcesAre
  <2>6. Canonical(m) # s
    BY <2>3
  <2>7. Exists(Canonical(m))' = Exists(Canonical(m))
    BY <2>3, <2>5, <2>6
  <2>8. SourceOf(r, m) = Canonical(m)
    <3>1. SourceOf(r, m)' = SourceOf(r, m)
      BY <2>7, CandidateStays, SourceStays
    <3> QED
      BY <3>1
  <2>9. k <= m
    <3>1. Begun(r)
      BY DEF Begun
    <3>2. MonthsOf(refresher[r].candidate) \subseteq CandidateMonth(r)..LastMonth(r)
          /\ CandidateMonth(r) \in Nat /\ m \in Nat
      BY <1>1, <3>1, CandidateRuns, MonthsAreNat
    <3> QED
      BY <2>1, <2>4, <3>2
  <2>10. Canonical(n) # s
    <3>1. n \in Nat /\ m \in Nat /\ k \in Nat
      BY <2>1, SourcesAre, MonthsAreNat
    <3> QED
      BY <2>1, <2>5, <2>9, <3>1
  <2>11. n \in CanonicalMonths
    BY <2>3, <2>5, <2>10 DEF CanonicalMonths
  <2>12. InMonth(m) \subseteq 1..Hi(refresher[r].candidate)
    BY <1>1, <2>4, <2>7, <2>8, <2>11 DEF HasEnd
  <2> QED
    BY <2>12, CandidateStays
<1> QED
  BY <1>2, <1>3

LEMMA RefreshEnds ==
    ASSUME StoreInv, StoreInv', LastIsComplete, NEW r \in Refreshers, Refresh(r) PROVE LastIsComplete'
<1>1. /\ FileInv /\ \A q \in Refreshers : lock = q <=> refresher[q].pc \in {"month", "sync"}
      /\ \A q \in Refreshers : lock' = q <=> refresher'[q].pc \in {"month", "sync"}
      /\ None \notin Refreshers
  BY TrustedStoreAssumption DEF StoreInv, FileInv, LockIsHeld
<1>2. ~ WriteMonth(r) => files' = files
  BY DEF Refresh, Start, PublishNothing, Fetch, Enter, RefuseMonth, SyncSegment,
         SyncSegmentFails, FinishSegments, Verify, ReplaceCurrent, SyncCurrent, SyncCurrentFails,
         Die, store
<1>3. \A q \in Refreshers : HasEnd(q)
  BY DEF LastIsComplete
<1>4. ASSUME NEW q \in Refreshers, q # r PROVE HasEnd(q)'
  <2>1. refresher'[q] = refresher[q]
    BY <1>4, RefreshSteps
  <2>2. CASE refresher[q].pc \notin {"month", "sync"}
    BY <2>1, <2>2 DEF HasEnd
  <2>3. CASE refresher[q].pc \in {"month", "sync"}
    <3>1. ~ WriteMonth(r)
      BY <1>1, <1>4, <2>3 DEF WriteMonth
    <3> QED
      BY <1>2, <1>3, <2>1, <2>3, <3>1, EndStays
  <2> QED
    BY <2>2, <2>3
<1>5. HasEnd(r)'
  <2>1. CASE Start(r) \/ PublishNothing(r) \/ Fetch(r) \/ Verify(r) \/ ReplaceCurrent(r)
             \/ SyncCurrent(r) \/ SyncCurrentFails(r)
    <3>1. lock' = lock /\ refresher[r].pc \notin {"month", "sync"}
      BY <2>1 DEF Start, PublishNothing, Fetch, Verify, ReplaceCurrent, SyncCurrent, SyncCurrentFails, store
    <3> QED
      BY <1>1, <3>1 DEF HasEnd
  <2>2. CASE RefuseMonth(r) \/ SyncSegmentFails(r) \/ Die(r) \/ FinishSegments(r)
    <3>1. Unlock(r)
      BY <2>2 DEF RefuseMonth, SyncSegmentFails, Die, FinishSegments
    <3>2. lock' # r
      BY <1>1, <3>1 DEF Unlock
    <3> QED
      BY <1>1, <3>2 DEF HasEnd
  <2>3. CASE Enter(r) /\ ~ NextAdjacent(r)
    <3>1. lock' = None
      BY <2>3 DEF Enter
    <3> QED
      BY <1>1, <3>1 DEF HasEnd
  <2>4. CASE Enter(r) /\ NextAdjacent(r)
    <3>1. refresher[r].pc = "fetched"
      BY <2>4 DEF Enter
    <3>2. /\ refresher'[r].candidate = refresher[r].candidate /\ refresher'[r].days = refresher[r].days
          /\ refresher'[r].partial = refresher[r].partial /\ refresher'[r].listed = refresher[r].listed
      BY <2>4, CandidateStays
    <3>3. \A s : Exists(s)' = Exists(s)
      BY <1>2, <3>1 DEF Exists, WriteMonth
    <3>4. \A m : SourceOf(r, m)' = SourceOf(r, m)
      BY <3>2, <3>3, SourceStays
    <3>5. CanonicalMonths' = CanonicalMonths /\ LastMonth(r)' = LastMonth(r)
      BY <3>2, <3>3 DEF CanonicalMonths, LastMonth
    <3>6. \A m \in Months :
            /\ m = LastMonth(r) /\ SourceOf(r, m) = Canonical(m) /\ ~ Exists(Canonical(m))
            /\ \E n \in CanonicalMonths : n > m
            => InMonth(m) \subseteq 1..Hi(refresher[r].candidate)
      BY <1>1, <2>4, <3>1, EnteredEnd
    <3> QED
      BY <3>2, <3>3, <3>4, <3>5, <3>6 DEF HasEnd
  <2>5. CASE WriteMonth(r)
    BY <1>3, <2>5, WriteEnds
  <2>6. CASE SyncSegment(r)
    BY <1>2, <1>3, <2>6, CandidateStays, EndStays DEF SyncSegment
  <2> QED
    BY <2>1, <2>2, <2>3, <2>4, <2>5, <2>6 DEF Refresh
<1> QED
  BY <1>4, <1>5 DEF LastIsComplete

LEMMA StepEnds == StoreInv /\ StoreInv' /\ LastIsComplete /\ [Next]_vars => LastIsComplete'
<1> SUFFICES ASSUME StoreInv, StoreInv', LastIsComplete, [Next]_vars PROVE LastIsComplete'
  OBVIOUS
<1>1. CASE Crash
  BY <1>1 DEF Crash, LastIsComplete, HasEnd, IdleRefresher
<1>2. CASE Tick \/ (\E t \in Correctable : Correct(t)) \/ UNCHANGED vars \/ \E r \in Readers : Load(r)
  <2>1. UNCHANGED <<files, refresher>>
    BY <1>2 DEF Tick, Correct, vars, Load, OpenContext, ReadSegment, store
  <2>2. ASSUME NEW r \in Refreshers PROVE HasEnd(r)'
    <3>1. HasEnd(r)
      BY DEF LastIsComplete
    <3>2. CASE refresher[r].pc \in {"month", "sync"}
      BY <2>1, <3>1, <3>2, EndStays
    <3>3. CASE refresher[r].pc \notin {"month", "sync"}
      BY <2>1, <3>3 DEF HasEnd
    <3> QED
      BY <3>2, <3>3
  <2> QED
    BY <2>2 DEF LastIsComplete
<1> QED
  BY <1>1, <1>2, RefreshEnds DEF Next

\* A canonical file that is created below a later one is complete, and the one
\* before it is; one that has a later one does not grow.
LEMMA WriteCompletes ==
    ASSUME StoreInv, LastIsComplete, NEW r \in Refreshers, WriteMonth(r), Complete(files)
    PROVE  Complete(files')
<1>1. FileInv /\ refresher[r].pc = "month" /\ Begun(r) /\ HasEnd(r)
  BY DEF StoreInv, WriteMonth, Begun, LastIsComplete
<1> SUFFICES ASSUME files' # files, NEW m \in Months, NEW n \in Months, m < n,
                    DOMAIN files'[Canonical(m)] # {}, DOMAIN files'[Canonical(n)] # {}
             PROVE  InMonth(m) \subseteq DOMAIN files'[Canonical(m)]
  BY DEF Complete
<1>. PICK k \in refresher[r].months :
        /\ refresher[r].pc = "month"
        /\ MayCreate(r, k) \/ MayGrow(r, k)
        /\ ~ (Exists(SourceOf(r, k)) /\ Suffix(r, k) = NoRows)
        /\ files' = [files EXCEPT ![SourceOf(r, k)] =
                        Joined(files[SourceOf(r, k)], Growth(r, k))]
  BY <1>1, MonthIsWritten
<1> DEFINE s == SourceOf(r, k)
           c == Candidate(r, k)
           g == Joined(files[s], Growth(r, k))
<1>2. /\ s \in Sources /\ s.month = k /\ files \in [Sources -> Runs] /\ IsFile(s, g)
      /\ k \in MonthsOf(refresher[r].candidate)
      /\ Exists(s) => MayGrow(r, k) /\ Suffix(r, k) # NoRows
      /\ ~ Exists(s) => MayCreate(r, k) /\ DOMAIN g = DOMAIN c
  BY <1>1, WrittenFile DEF FileInv, StoreTypes
<1>3. files'[s] = g /\ \A x \in Sources : x # s => files'[x] = files[x]
  BY <1>2
<1>4. /\ Canonical(m) \in Sources /\ Canonical(n) \in Sources /\ Canonical(k) \in Sources
      /\ Canonical(m).month = m /\ Canonical(n).month = n
      /\ m \in Nat /\ n \in Nat /\ k \in Nat /\ k \in Months
  BY <1>2, SourcesAre, MonthsAreNat
<1>5. \A x \in Months : DOMAIN files[Canonical(x)] # {} <=> x \in CanonicalMonths
  BY <1>2, SourcesAre, EmptyRun DEF CanonicalMonths, Exists
<1>6. ASSUME NEW x \in Months, NEW y \in Months, x < y, x \in CanonicalMonths, y \in CanonicalMonths
      PROVE  InMonth(x) \subseteq DOMAIN files[Canonical(x)]
  BY <1>5, <1>6 DEF Complete
<1>7. DOMAIN files[s] \subseteq DOMAIN g
  BY DEF Joined
<1> HIDE DEF g
<1>8. CASE Canonical(m) # s /\ Canonical(n) # s
  BY <1>3, <1>4, <1>5, <1>6, <1>8
<1>9. CASE Canonical(m) = s
  <2>1. m = k /\ Canonical(n) # s
    BY <1>2, <1>4, <1>9
  <2>2. n \in CanonicalMonths
    BY <1>3, <1>4, <1>5, <2>1
  <2>3. CASE Exists(s)
    <3>1. n <= k
      BY <1>2, <2>2, <2>3 DEF MayGrow
    <3> QED
      BY <1>4, <2>1, <3>1
  <2>4. CASE ~ Exists(s)
    <3>1. DOMAIN files'[Canonical(m)] = DOMAIN c
      BY <1>2, <1>3, <1>9, <2>4
    <3>2. IsFile(Canonical(m), c)
      BY <1>2, <1>9, <2>4, <3>1, CreatedFile, <1>1
    <3>3. InMonth(m) \subseteq 1..Hi(refresher[r].candidate)
      <4>1. /\ Hi(refresher[r].candidate) \in 1..Times /\ LastMonth(r) \in Months
            /\ MonthsOf(refresher[r].candidate) \subseteq CandidateMonth(r)..LastMonth(r)
            /\ CandidateMonth(r) \in Months
        BY <1>1, CandidateRuns
      <4>2. m <= LastMonth(r) /\ LastMonth(r) \in Nat
        BY <1>2, <2>1, <4>1, MonthsAreNat
      <4>3. CASE m = LastMonth(r)
        <5>1. SourceOf(r, m) = Canonical(m) /\ ~ Exists(Canonical(m))
          BY <1>9, <2>1, <2>4
        <5> QED
          BY <1>1, <2>2, <4>3, <5>1, <1>4 DEF HasEnd
      <4>4. CASE m # LastMonth(r)
        <5> DEFINE end == Hi(refresher[r].candidate)
        <5>1. end \in 1..Times /\ Month(end) > m
          BY <1>4, <4>1, <4>2, <4>4 DEF LastMonth
        <5> HIDE DEF end
        <5>2. \A u \in InMonth(m) : u \in 1..Times /\ u <= end - 1
          BY <5>1, MonthEnds
        <5>3. \A u \in InMonth(m) : u \in 1..end
          BY <5>1, <5>2
        <5> QED
          BY <5>3 DEF end
      <4> QED
        BY <4>3, <4>4
    <3>4. InMonth(m) \subseteq DOMAIN c
      BY <1>1, <1>2, <2>1, <3>2, <3>3, EndOfPart
    <3> QED
      BY <3>1, <3>4
  <2> QED
    BY <2>3, <2>4
<1>10. CASE Canonical(n) = s
  <2>1. n = k /\ Canonical(m) # s
    BY <1>2, <1>4, <1>10
  <2>2. m \in CanonicalMonths /\ files'[Canonical(m)] = files[Canonical(m)]
    BY <1>3, <1>4, <1>5, <2>1
  <2>3. CASE Exists(s)
    <3>1. n \in CanonicalMonths
      BY <1>10, <2>3 DEF CanonicalMonths
    <3> QED
      BY <1>6, <2>2, <3>1
  <2>4. CASE ~ Exists(s)
    <3> DEFINE earlier == {x \in CanonicalMonths : x < k}
               last == Max(earlier)
    <3>1. m \in earlier
      BY <2>1, <2>2
    <3>2. SourceOf(r, k) = Canonical(k)
      BY <1>10, <2>1
    <3>3. PreviousAdjacent(r, k)
      BY <1>2, <2>4, <3>2 DEF MayCreate
    <3>4. Lo(c) = Hi(files[Canonical(last)]) + 1
      BY <3>1, <3>3 DEF PreviousAdjacent
    <3>5. last \in earlier /\ m <= last
      <4>1. earlier \in SUBSET (0..Month(Times)) /\ Month(Times) \in Nat
        BY MonthBounds DEF CanonicalMonths
      <4> HIDE DEF earlier
      <4> QED
        BY <3>1, <4>1, MaxIsGreatest
    <3>6. last \in CanonicalMonths /\ last < k /\ last \in Months /\ last \in Nat
      BY <3>5, MonthsAreNat DEF CanonicalMonths
    <3> HIDE DEF last, earlier
    <3>7. CASE m < last
      BY <1>6, <2>2, <3>6, <3>7
    <3>8. CASE m = last
      <4> DEFINE f == files[Canonical(m)]
      <4>1. f \in Runs /\ DOMAIN f # {} /\ IsFile(Canonical(m), f)
        BY <1>1, <1>2, <1>4, <1>5, <2>2 DEF FileInv, FilesAreNamed
      <4>2. Lo(c) \in 1..Times /\ Month(Lo(c)) = k
        BY <1>1, <1>2, CandidatePart
      <4>3. Lo(c) = Hi(f) + 1
        BY <3>4, <3>8
      <4>4. Month(Lo(c)) > m
        BY <1>4, <2>1, <4>2
      <4> HIDE DEF f
      <4>5. InMonth(m) \subseteq DOMAIN f
        BY <4>1, <4>2, <4>3, <4>4, EndOfFile
      <4> QED
        BY <2>2, <4>5 DEF f
    <3> QED
      BY <1>4, <3>5, <3>6, <3>7, <3>8
  <2> QED
    BY <2>3, <2>4
<1> QED
  BY <1>8, <1>9, <1>10

LEMMA StepCompletes ==
    StoreInv /\ OneUnsynced /\ LastIsComplete /\ CompleteInv /\ [Next]_vars => CompleteInv'
<1> SUFFICES ASSUME StoreInv, OneUnsynced, LastIsComplete, CompleteInv, [Next]_vars, ~ orphaned'
             PROVE  Complete(files') /\ Complete(disk')
  BY DEF CompleteInv
<1>1. CASE \E r \in Refreshers : Refresh(r)
  <2>. PICK r \in Refreshers : Refresh(r)
    BY <1>1
  <2>1. ~ orphaned
    BY RefreshSteps
  <2>2. Complete(files) /\ Complete(disk)
    BY <2>1 DEF CompleteInv
  <2>3. CASE WriteMonth(r)
    <3>1. disk' = disk
      BY <2>3 DEF WriteMonth
    <3> QED
      BY <2>2, <2>3, <3>1, WriteCompletes
  <2>4. CASE ~ WriteMonth(r)
    <3>1. files' = files /\ (disk' = disk \/ disk' = files)
      BY <2>4 DEF Refresh, Start, PublishNothing, Fetch, Enter, RefuseMonth, SyncSegment,
                  SyncSegmentFails, FinishSegments, Verify, ReplaceCurrent, SyncCurrent, SyncCurrentFails,
                  Die, store
    <3> QED
      BY <2>2, <3>1
  <2> QED
    BY <2>3, <2>4
<1>2. CASE Crash
  <2>1. disk' = files' /\ orphaned' = orphaned
    BY <1>2 DEF Crash
  <2>2. Complete(files) /\ Complete(disk)
    BY <2>1 DEF CompleteInv
  <2>3. PICK s \in Sources : \A x \in Sources : x # s => disk[x] = files[x]
    BY <2>1 DEF OneUnsynced
  <2>4. PICK lost \in SUBSET {x \in Sources : files[x] # disk[x]} :
          files' = [x \in Sources |-> IF x \in lost THEN disk[x] ELSE files[x]]
    BY <1>2 DEF Crash
  <2>5. files \in [Sources -> Runs] /\ disk \in [Sources -> Runs]
    BY DEF StoreInv, FileInv, StoreTypes
  <2>6. CASE s \in lost
    <3>1. files' = disk
      BY <2>3, <2>4, <2>5, <2>6
    <3> QED
      BY <2>1, <2>2, <3>1
  <2>7. CASE s \notin lost
    <3>1. files' = files
      BY <2>3, <2>4, <2>5, <2>7
    <3> QED
      BY <2>1, <2>2, <3>1
  <2> QED
    BY <2>6, <2>7
<1>3. CASE Tick \/ (\E t \in Correctable : Correct(t)) \/ UNCHANGED vars \/ \E r \in Readers : Load(r)
  <2>1. UNCHANGED <<store, trouble>>
    BY <1>3 DEF Tick, Correct, vars, Load, OpenContext, ReadSegment
  <2> QED
    BY <2>1 DEF CompleteInv, store, trouble
<1> QED
  BY <1>1, <1>2, <1>3 DEF Next

\* Unless a writer left a replaced file unsynced, a canonical month that a later
\* one follows has every candle it will ever have, however far back refreshes
\* were asked to go and in whatever order they failed.
THEOREM SpecClosedMonthsAreComplete == Spec => []ClosedMonthsAreComplete
<1>1. Init => LastIsComplete /\ CompleteInv
  <2> SUFFICES ASSUME Init PROVE LastIsComplete /\ CompleteInv
    OBVIOUS
  <2>1. LastIsComplete
    BY DEF Init, LastIsComplete, HasEnd, IdleRefresher
  <2>2. files = [s \in Sources |-> NoRows] /\ disk = files
    BY DEF Init
  <2>3. \A m \in Months : DOMAIN files[Canonical(m)] = {}
    BY <2>2, SourcesAre, EmptyRun
  <2> QED
    BY <2>1, <2>2, <2>3 DEF CompleteInv, Complete
<1>2. StoreInv /\ CompleteInv => ClosedMonthsAreComplete
  <2> SUFFICES ASSUME StoreInv, CompleteInv, ~ orphaned,
                      NEW m \in CanonicalMonths, NEW n \in CanonicalMonths, m < n
               PROVE  DOMAIN files[Canonical(m)] = InMonth(m)
    BY DEF ClosedMonthsAreComplete
  <2>1. /\ m \in Months /\ n \in Months /\ Canonical(m) \in Sources /\ Canonical(n) \in Sources
        /\ Canonical(m).month = m
    BY SourcesAre DEF CanonicalMonths
  <2>2. files \in [Sources -> Runs] /\ IsFile(Canonical(m), files[Canonical(m)])
    BY <2>1 DEF StoreInv, FileInv, StoreTypes, FilesAreNamed
  <2>3. DOMAIN files[Canonical(m)] # {} /\ DOMAIN files[Canonical(n)] # {}
    BY <2>1, <2>2, EmptyRun DEF CanonicalMonths, Exists
  <2>4. InMonth(m) \subseteq DOMAIN files[Canonical(m)]
    BY <2>1, <2>3 DEF CompleteInv, Complete
  <2>5. DOMAIN files[Canonical(m)] \subseteq InMonth(m)
    BY <2>1, <2>2, RunsAre DEF IsFile, InMonth
  <2> QED
    BY <2>4, <2>5
<1> QED
  BY <1>1, <1>2, InitSyncs, StepSyncs, StepEnds, StepCompletes, SpecStoreInv, PTL DEF Spec
=============================================================================
