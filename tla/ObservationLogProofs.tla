------------------------ MODULE ObservationLogProofs ------------------------
(***************************************************************************)
(* What the observation log keeps through failures and crashes, for any    *)
(* number of processes, cycles and crashes: the marker stands whenever a   *)
(* line is incomplete or not durable, and, where the directory was there   *)
(* to begin with, what was acknowledged or consumed is never lost.         *)
(***************************************************************************)
EXTENDS ObservationLog, TLAPS

Held == Steps \ {"idle", "lock"}

\* Only the holder of the lock is past the creation of the marker.
LockHeld == \A w \in Writers : writer[w].pc \in Held => lock = w

\* A call under way appends a cycle.
CallsHaveCycles == \A w \in Writers : writer[w].pc # "idle" => writer[w].cycle \in Cycles

MarkerStands == cache.marker /\ disk.marker

LinesDurable == ~ cache.torn /\ disk.lines = Len(cache.log)

\* Of what is visible, the file exists, and the durable part is a part.
DiskIsPart ==
    /\ disk.lines <= Len(cache.log)
    /\ disk.entry => cache.entry
    /\ (cache.torn \/ Len(cache.log) > 0) => cache.entry

\* Anything that a crash may change is marked.
ChangeIsMarked ==
    (~ LinesDurable \/ cache.entry # disk.entry) => MarkerStands

\* The last line is the cycle of the call.
LastIsOf(w) == Len(cache.log) > 0 /\ cache.log[Len(cache.log)] = writer[w].cycle

\* How far a call has come with its line, at each of its steps.
ProgressOf(w) ==
    LET pc == writer[w].pc IN
    /\ pc \in {"sync_marker", "sync_parents", "write"} =>
          cache.marker /\ LinesDurable /\ cache.entry = disk.entry
    /\ pc \in {"sync_parents", "write", "write_rest", "flush", "sync_entry", "unmark"} =>
          MarkerStands
    /\ pc \in {"write_rest", "flush"} => cache.entry /\ (writer[w].fresh \/ disk.entry)
    /\ pc = "flush" => ~ cache.torn
    /\ pc \in {"sync_entry", "unmark", "commit"} => LinesDurable
    /\ pc \in {"flush", "sync_entry", "unmark", "commit"} => LastIsOf(w)
    /\ pc \in {"unmark", "commit"} => disk.entry

Progress == \A w \in Writers : ProgressOf(w)

LogInv == TypeOK /\ LockHeld /\ CallsHaveCycles /\ DiskIsPart /\ ChangeIsMarked /\ Progress

\* The durable lines hold the cycle.
IsDurable(c) == \E i \in 1..disk.lines : cache.log[i] = c

\* What was acknowledged is durable.
AckedDurable == \A c \in acked : disk.entry /\ IsDurable(c)

\* The consumer has read durable lines, and is reading the log's.
ConsumedDurable ==
    LET n == Len(reader.consumed)
        m == Len(reader.seen)
    IN  /\ n <= disk.lines
        /\ n > 0 => disk.entry
        /\ \A i \in 1..n : reader.consumed[i] = cache.log[i]
        /\ reader.pc # "idle" =>
              /\ n + m <= Len(cache.log)
              /\ \A i \in 1..m : reader.seen[i] = cache.log[n + i]

SurvivalInv == disk.dir /\ AckedDurable /\ ConsumedDurable

-----------------------------------------------------------------------------
(* A step of one process.                                                  *)

CacheType ==
    [dir : {"absent", "there"}, marker : BOOLEAN, entry : BOOLEAN, log : Seq(Cycles),
     torn : BOOLEAN]

DiskType == [dir : BOOLEAN, marker : BOOLEAN, entry : BOOLEAN, lines : Nat]

CallType == [pc : Steps, cycle : Cycles \cup {None}, made : BOOLEAN, fresh : BOOLEAN]

ReaderType == [pc : {"idle", "reading", "check"}, seen : Seq(Cycles), consumed : Seq(Cycles)]

LEMMA Types ==
    TypeOK <=>
        /\ cache \in CacheType /\ disk \in DiskType
        /\ lock \in Writers \cup {None}
        /\ writer \in [Writers -> CallType]
        /\ reader \in ReaderType
        /\ acked \subseteq Cycles /\ failed \subseteq Cycles /\ crashes \in 0..MaxCrashes
  BY DEF TypeOK, CacheType, DiskType, CallType, ReaderType

LEMMA TypesAfter ==
    ASSUME cache' \in CacheType, disk' \in DiskType, lock' \in Writers \cup {None},
           writer' \in [Writers -> CallType], reader' \in ReaderType,
           acked' \subseteq Cycles, failed' \subseteq Cycles, crashes' \in 0..MaxCrashes
    PROVE  TypeOK'
  BY DEF TypeOK, CacheType, DiskType, CallType, ReaderType

\* Goto moves one call and leaves what it is about.
LEMMA GotoMoves ==
    ASSUME TypeOK, NEW w \in Writers, NEW pc \in Steps, Goto(w, pc)
    PROVE  /\ writer' \in [Writers -> CallType]
           /\ writer'[w].pc = pc /\ writer'[w].cycle = writer[w].cycle
           /\ writer'[w].fresh = writer[w].fresh
           /\ \A v \in Writers \ {w} : writer'[v] = writer[v]
  <1>1. writer \in [Writers -> CallType]
    BY Types
  <1>2. writer[w] \in CallType
    BY <1>1
  <1>3. [writer[w] EXCEPT !.pc = pc] \in CallType
    BY <1>2 DEF CallType
  <1>4. writer' = [writer EXCEPT ![w] = [writer[w] EXCEPT !.pc = pc]]
    BY DEF Goto
  <1> QED
    BY <1>1, <1>2, <1>3, <1>4 DEF CallType

\* While a call holds the lock, the others are idle or wait for it.
LEMMA OthersWait ==
    ASSUME LockHeld, NEW w \in Writers, writer[w].pc \in Held
    PROVE  \A v \in Writers \ {w} : writer[v].pc \notin Held
  BY DEF LockHeld

\* A call that is idle or waits has nothing to show.
LEMMA NoProgress ==
    ASSUME NEW v, writer[v].pc \notin Held
    PROVE  ProgressOf(v)
  BY DEF ProgressOf, Held, Steps

\* The holder's own progress is the progress of all.
LEMMA HolderSteps ==
    ASSUME LockHeld, CallsHaveCycles, NEW w \in Writers, writer[w].pc \in Held,
           \A v \in Writers \ {w} : writer'[v] = writer[v],
           writer'[w].pc \in Held => lock' = lock,
           writer'[w].pc # "idle" => writer'[w].cycle = writer[w].cycle,
           ProgressOf(w)'
    PROVE  LockHeld' /\ CallsHaveCycles' /\ Progress'
  <1>1. \A v \in Writers \ {w} : writer[v].pc \notin Held
    BY OthersWait
  <1>2. LockHeld'
    BY <1>1 DEF LockHeld
  <1>3. CallsHaveCycles'
    BY DEF CallsHaveCycles, Held
  <1>4. ASSUME NEW v \in Writers \ {w}
        PROVE  ProgressOf(v)'
    BY <1>1 DEF ProgressOf, Held, Steps
  <1> QED
    BY <1>2, <1>3, <1>4 DEF Progress

\* The steps under the lock that leave the log as it is.
LEMMA SyncMarkerKeeps ==
    ASSUME LogInv, NEW w \in Writers, SyncMarker(w)
    PROVE  LogInv'
  <1> USE Types DEF LogInv
  <1>1. Goto(w, "sync_parents") /\ writer[w].pc = "sync_marker" /\ ProgressOf(w)
    BY DEF SyncMarker, Progress
  <1>2. /\ writer' \in [Writers -> CallType]
        /\ writer'[w].pc = "sync_parents" /\ writer'[w].cycle = writer[w].cycle
        /\ \A v \in Writers \ {w} : writer'[v] = writer[v]
    BY <1>1, GotoMoves DEF Steps
  <1>3. /\ disk' \in DiskType /\ disk'.marker = cache.marker /\ disk'.entry = cache.entry
        /\ disk'.lines = disk.lines
    BY DEF SyncMarker, SyncDirectory, CacheType, DiskType
  <1>4. TypeOK'
    BY <1>2, <1>3, TypesAfter DEF SyncMarker
  <1>5. DiskIsPart' /\ ChangeIsMarked'
    BY <1>3 DEF SyncMarker, DiskIsPart, ChangeIsMarked, LinesDurable, MarkerStands
  <1>6. ProgressOf(w)'
    BY <1>1, <1>2, <1>3 DEF SyncMarker, ProgressOf, LinesDurable, MarkerStands
  <1>7. LockHeld' /\ CallsHaveCycles' /\ Progress'
    BY <1>1, <1>2, <1>6, HolderSteps DEF SyncMarker, Held, Steps
  <1> QED
    BY <1>4, <1>5, <1>7

LEMMA SyncParentsKeeps ==
    ASSUME LogInv, NEW w \in Writers, SyncParents(w)
    PROVE  LogInv'
  <1> USE Types DEF LogInv
  <1>1. Goto(w, "write") /\ writer[w].pc = "sync_parents" /\ ProgressOf(w)
    BY DEF SyncParents, Progress
  <1>2. /\ writer' \in [Writers -> CallType]
        /\ writer'[w].pc = "write" /\ writer'[w].cycle = writer[w].cycle
        /\ \A v \in Writers \ {w} : writer'[v] = writer[v]
    BY <1>1, GotoMoves DEF Steps
  <1>3. /\ disk' \in DiskType /\ disk'.marker = disk.marker /\ disk'.entry = disk.entry
        /\ disk'.lines = disk.lines
    <2>1. writer[w].made \in BOOLEAN
      BY DEF CallType
    <2> QED
      BY <2>1 DEF SyncParents, DiskType
  <1>4. TypeOK'
    BY <1>2, <1>3, TypesAfter DEF SyncParents
  <1>5. DiskIsPart' /\ ChangeIsMarked'
    BY <1>3 DEF SyncParents, DiskIsPart, ChangeIsMarked, LinesDurable, MarkerStands
  <1>6. ProgressOf(w)'
    BY <1>1, <1>2, <1>3 DEF SyncParents, ProgressOf, LinesDurable, MarkerStands
  <1>7. LockHeld' /\ CallsHaveCycles' /\ Progress'
    BY <1>1, <1>2, <1>6, HolderSteps DEF SyncParents, Held, Steps
  <1> QED
    BY <1>4, <1>5, <1>7

LEMMA WriteSomeKeeps ==
    ASSUME LogInv, NEW w \in Writers, WriteSome(w)
    PROVE  LogInv'
  <1> USE Types DEF LogInv
  <1>1. writer[w].pc = "write" /\ ProgressOf(w)
    BY DEF WriteSome, Progress
  <1>2. /\ writer' \in [Writers -> CallType]
        /\ writer'[w].pc = "write_rest" /\ writer'[w].cycle = writer[w].cycle
        /\ writer'[w].fresh = ~ cache.entry
        /\ \A v \in Writers \ {w} : writer'[v] = writer[v]
    <2> DEFINE fresh == ~ cache.entry
               moved == [writer[w] EXCEPT !.pc = "write_rest", !.fresh = fresh]
    <2>1. writer[w] \in CallType /\ fresh \in BOOLEAN
      OBVIOUS
    <2>2. writer' = [writer EXCEPT ![w] = moved]
      BY DEF WriteSome
    <2> HIDE DEF fresh
    <2>3. /\ moved \in CallType /\ moved.pc = "write_rest" /\ moved.cycle = writer[w].cycle
          /\ moved.fresh = fresh
      BY <2>1 DEF CallType, Steps
    <2> HIDE DEF moved
    <2>4. QED
      BY <2>2, <2>3 DEF fresh
  <1>3. /\ cache' \in CacheType /\ cache'.marker = cache.marker /\ cache'.entry
        /\ cache'.log = cache.log /\ cache'.torn
    BY DEF WriteSome, CacheType
  <1>4. TypeOK'
    BY <1>2, <1>3, TypesAfter DEF WriteSome
  <1>5. DiskIsPart' /\ ChangeIsMarked'
    BY <1>1, <1>3 DEF WriteSome, DiskIsPart, ChangeIsMarked, LinesDurable, MarkerStands,
       ProgressOf
  <1>6. ProgressOf(w)'
    BY <1>1, <1>2, <1>3 DEF WriteSome, ProgressOf, LinesDurable, MarkerStands
  <1>7. LockHeld' /\ CallsHaveCycles' /\ Progress'
    BY <1>1, <1>2, <1>6, HolderSteps DEF WriteSome, Held, Steps
  <1> QED
    BY <1>4, <1>5, <1>7

LEMMA WriteRestKeeps ==
    ASSUME LogInv, NEW w \in Writers, WriteRest(w)
    PROVE  LogInv'
  <1> USE Types DEF LogInv
  <1>1. Goto(w, "flush") /\ writer[w].pc = "write_rest" /\ ProgressOf(w)
    BY DEF WriteRest, Progress
  <1>2. /\ writer' \in [Writers -> CallType]
        /\ writer'[w].pc = "flush" /\ writer'[w].cycle = writer[w].cycle
        /\ writer'[w].fresh = writer[w].fresh
        /\ \A v \in Writers \ {w} : writer'[v] = writer[v]
    BY <1>1, GotoMoves DEF Steps
  <1>3. /\ cache' \in CacheType /\ cache'.marker = cache.marker /\ cache'.entry = cache.entry
        /\ ~ cache'.torn /\ cache'.log = Append(cache.log, writer[w].cycle)
    <2> DEFINE log == Append(cache.log, writer[w].cycle)
    <2>1. writer[w].cycle \in Cycles
      BY <1>1 DEF CallsHaveCycles
    <2>2. log \in Seq(Cycles)
      BY <2>1 DEF CacheType
    <2>3. cache' = [cache EXCEPT !.log = log, !.torn = FALSE]
      BY DEF WriteRest
    <2> HIDE DEF log
    <2>4. /\ cache' \in CacheType /\ cache'.marker = cache.marker /\ cache'.entry = cache.entry
          /\ ~ cache'.torn /\ cache'.log = log
      BY <2>2, <2>3 DEF CacheType
    <2> QED
      BY <2>4 DEF log
  <1>4. /\ Len(cache'.log) = Len(cache.log) + 1 /\ Len(cache.log) \in Nat
        /\ cache'.log[Len(cache'.log)] = writer[w].cycle
    <2>1. cache.log \in Seq(Cycles)
      BY DEF CacheType
    <2> QED
      BY <1>3, <2>1
  <1>5. TypeOK'
    BY <1>2, <1>3, TypesAfter DEF WriteRest
  <1>6. DiskIsPart' /\ ChangeIsMarked'
    <2>1. disk.lines \in Nat
      BY DEF DiskType
    <2> QED
      BY <1>1, <1>3, <1>4, <2>1 DEF WriteRest, DiskIsPart, ChangeIsMarked, LinesDurable,
         MarkerStands, ProgressOf
  <1>7. ProgressOf(w)'
    BY <1>1, <1>2, <1>3, <1>4 DEF WriteRest, ProgressOf, LinesDurable, MarkerStands, LastIsOf
  <1>8. LockHeld' /\ CallsHaveCycles' /\ Progress'
    BY <1>1, <1>2, <1>7, HolderSteps DEF WriteRest, Held, Steps
  <1> QED
    BY <1>5, <1>6, <1>8

LEMMA FlushKeeps ==
    ASSUME LogInv, NEW w \in Writers, Flush(w)
    PROVE  LogInv'
  <1> USE Types DEF LogInv
  <1> DEFINE next == IF writer[w].fresh THEN "sync_entry" ELSE "unmark"
  <1>1. Goto(w, next) /\ writer[w].pc = "flush" /\ ProgressOf(w)
    BY DEF Flush, Progress
  <1>2. /\ writer' \in [Writers -> CallType]
        /\ writer'[w].pc = next /\ writer'[w].cycle = writer[w].cycle
        /\ \A v \in Writers \ {w} : writer'[v] = writer[v]
    BY <1>1, GotoMoves DEF Steps
  <1>3. /\ disk' \in DiskType /\ disk'.marker = disk.marker /\ disk'.entry = disk.entry
        /\ disk'.lines = Len(cache.log)
    BY DEF Flush, DiskType, CacheType
  <1>4. TypeOK'
    BY <1>2, <1>3, TypesAfter DEF Flush
  <1>5. DiskIsPart' /\ ChangeIsMarked'
    BY <1>1, <1>3 DEF Flush, DiskIsPart, ChangeIsMarked, LinesDurable, MarkerStands, CacheType,
       ProgressOf
  <1>6. ProgressOf(w)'
    BY <1>1, <1>2, <1>3 DEF Flush, ProgressOf, LinesDurable, MarkerStands, LastIsOf
  <1>7. LockHeld' /\ CallsHaveCycles' /\ Progress'
    BY <1>1, <1>2, <1>6, HolderSteps DEF Flush, Held, Steps
  <1> QED
    BY <1>4, <1>5, <1>7

LEMMA SyncEntryKeeps ==
    ASSUME LogInv, NEW w \in Writers, SyncEntry(w)
    PROVE  LogInv'
  <1> USE Types DEF LogInv
  <1>1. Goto(w, "unmark") /\ writer[w].pc = "sync_entry" /\ ProgressOf(w)
    BY DEF SyncEntry, Progress
  <1>2. /\ writer' \in [Writers -> CallType]
        /\ writer'[w].pc = "unmark" /\ writer'[w].cycle = writer[w].cycle
        /\ \A v \in Writers \ {w} : writer'[v] = writer[v]
    BY <1>1, GotoMoves DEF Steps
  <1>3. /\ disk' \in DiskType /\ disk'.marker = cache.marker /\ disk'.entry = cache.entry
        /\ disk'.lines = disk.lines
    BY DEF SyncEntry, SyncDirectory, CacheType, DiskType
  <1>4. TypeOK'
    BY <1>2, <1>3, TypesAfter DEF SyncEntry
  <1>5. DiskIsPart' /\ ChangeIsMarked'
    BY <1>3 DEF SyncEntry, DiskIsPart, ChangeIsMarked, LinesDurable, MarkerStands
  <1>6. cache.entry
    BY <1>1 DEF ProgressOf, LastIsOf, DiskIsPart
  <1>7. ProgressOf(w)'
    BY <1>1, <1>2, <1>3, <1>6 DEF SyncEntry, ProgressOf, LinesDurable, MarkerStands, LastIsOf
  <1>8. LockHeld' /\ CallsHaveCycles' /\ Progress'
    BY <1>1, <1>2, <1>7, HolderSteps DEF SyncEntry, Held, Steps
  <1> QED
    BY <1>4, <1>5, <1>8

LEMMA UnmarkKeeps ==
    ASSUME LogInv, NEW w \in Writers, Unmark(w)
    PROVE  LogInv'
  <1> USE Types DEF LogInv
  <1>1. Goto(w, "commit") /\ writer[w].pc = "unmark" /\ ProgressOf(w)
    BY DEF Unmark, Progress
  <1>2. /\ writer' \in [Writers -> CallType]
        /\ writer'[w].pc = "commit" /\ writer'[w].cycle = writer[w].cycle
        /\ \A v \in Writers \ {w} : writer'[v] = writer[v]
    BY <1>1, GotoMoves DEF Steps
  <1>3. /\ cache' \in CacheType /\ cache'.entry = cache.entry
        /\ cache'.log = cache.log /\ cache'.torn = cache.torn
    BY DEF Unmark, CacheType
  <1>4. TypeOK'
    BY <1>2, <1>3, TypesAfter DEF Unmark
  <1>5. cache.entry = disk.entry
    BY <1>1 DEF ProgressOf, LastIsOf, DiskIsPart, CacheType, DiskType
  <1>6. DiskIsPart' /\ ChangeIsMarked'
    BY <1>1, <1>3, <1>5 DEF Unmark, DiskIsPart, ChangeIsMarked, LinesDurable, MarkerStands,
       ProgressOf
  <1>7. ProgressOf(w)'
    BY <1>1, <1>2, <1>3 DEF Unmark, ProgressOf, LinesDurable, MarkerStands, LastIsOf
  <1>8. LockHeld' /\ CallsHaveCycles' /\ Progress'
    BY <1>1, <1>2, <1>7, HolderSteps DEF Unmark, Held, Steps
  <1> QED
    BY <1>4, <1>6, <1>8

LEMMA CommitKeeps ==
    ASSUME LogInv, NEW w \in Writers, Commit(w)
    PROVE  LogInv'
  <1> USE Types DEF LogInv
  <1>1. writer[w].pc = "commit" /\ ProgressOf(w)
    BY DEF Commit, Progress
  <1>2. writer[w].cycle \in Cycles
    BY <1>1 DEF CallsHaveCycles
  <1>3. /\ writer' \in [Writers -> CallType] /\ writer'[w].pc = "idle"
        /\ \A v \in Writers \ {w} : writer'[v] = writer[v]
    <2>1. Idle \in CallType /\ Idle.pc = "idle"
      BY DEF Idle, CallType, Steps
    <2> QED
      BY <2>1 DEF Commit
  <1>4. /\ disk' \in DiskType /\ disk'.marker = cache.marker /\ disk'.entry = cache.entry
        /\ disk'.lines = disk.lines
    BY DEF Commit, SyncDirectory, CacheType, DiskType
  <1>5. TypeOK'
    BY <1>2, <1>3, <1>4, TypesAfter DEF Commit
  <1>6. DiskIsPart' /\ ChangeIsMarked'
    BY <1>1, <1>4 DEF Commit, DiskIsPart, ChangeIsMarked, LinesDurable, MarkerStands, ProgressOf
  <1>7. ProgressOf(w)'
    BY <1>3 DEF ProgressOf
  <1>8. LockHeld' /\ CallsHaveCycles' /\ Progress'
    BY <1>1, <1>3, <1>7, HolderSteps DEF Held, Steps
  <1> QED
    BY <1>5, <1>6, <1>8

\* A step elsewhere that leaves the file system leaves a call's progress.
LEMMA ProgressKept ==
    ASSUME NEW v, ProgressOf(v), writer'[v] = writer[v],
           cache'.marker = cache.marker, cache'.entry = cache.entry,
           cache'.log = cache.log, cache'.torn = cache.torn,
           disk'.marker = disk.marker, disk'.entry = disk.entry, disk'.lines = disk.lines
    PROVE  ProgressOf(v)'
  BY DEF ProgressOf, MarkerStands, LinesDurable, LastIsOf

LEMMA BeginKeeps ==
    ASSUME LogInv, NEW w \in Writers, NEW c \in Cycles, Begin(w, c)
    PROVE  LogInv'
  <1> USE Types DEF LogInv
  <1> DEFINE call == [pc |-> "lock", cycle |-> c, fresh |-> FALSE, made |-> cache.dir = "absent"]
  <1>1. call \in CallType /\ call.pc = "lock" /\ call.cycle = c
    BY DEF CallType, Steps
  <1>2. writer' = [writer EXCEPT ![w] = call]
    BY DEF Begin
  <1> HIDE DEF call
  <1>3. /\ writer' \in [Writers -> CallType]
        /\ writer'[w].pc = "lock" /\ writer'[w].cycle = c
        /\ \A v \in Writers \ {w} : writer'[v] = writer[v]
    BY <1>1, <1>2
  <1>4. /\ cache' \in CacheType /\ cache'.marker = cache.marker /\ cache'.entry = cache.entry
        /\ cache'.log = cache.log /\ cache'.torn = cache.torn
    BY DEF Begin, CacheType
  <1>5. TypeOK'
    BY <1>3, <1>4, TypesAfter DEF Begin
  <1>6. DiskIsPart' /\ ChangeIsMarked'
    BY <1>4 DEF Begin, DiskIsPart, ChangeIsMarked, LinesDurable, MarkerStands
  <1>7. LockHeld' /\ CallsHaveCycles'
    BY <1>3 DEF Begin, LockHeld, CallsHaveCycles, Held, Steps
  <1>8. Progress'
    <2>1. ASSUME NEW v \in Writers
          PROVE  ProgressOf(v)'
      <3>1. CASE v = w
        BY <1>3, <3>1 DEF ProgressOf
      <3>2. CASE v # w
        BY <1>3, <1>4, <3>2, ProgressKept DEF Begin, Progress
      <3> QED
        BY <3>1, <3>2
    <2> QED
      BY <2>1 DEF Progress
  <1> QED
    BY <1>5, <1>6, <1>7, <1>8

LEMMA CreateMarkerKeeps ==
    ASSUME LogInv, NEW w \in Writers, CreateMarker(w)
    PROVE  LogInv'
  <1> USE Types DEF LogInv
  <1>1. Goto(w, "sync_marker") /\ writer[w].pc = "lock" /\ lock = None /\ lock' = w
        /\ ~ cache.marker /\ UNCHANGED disk
    BY DEF CreateMarker
  <1>2. /\ writer' \in [Writers -> CallType]
        /\ writer'[w].pc = "sync_marker" /\ writer'[w].cycle = writer[w].cycle
        /\ \A v \in Writers \ {w} : writer'[v] = writer[v]
    BY <1>1, GotoMoves DEF Steps
  <1>3. /\ cache' \in CacheType /\ cache'.marker /\ cache'.entry = cache.entry
        /\ cache'.log = cache.log /\ cache'.torn = cache.torn
    BY DEF CreateMarker, CacheType
  <1>4. TypeOK'
    BY <1>1, <1>2, <1>3, TypesAfter DEF CreateMarker
  <1>5. \A v \in Writers : writer[v].pc \notin Held
    BY <1>1, LogAssumption DEF LockHeld
  <1>6. LinesDurable /\ cache.entry = disk.entry
    BY <1>1 DEF ChangeIsMarked, MarkerStands
  <1>7. DiskIsPart' /\ ChangeIsMarked'
    BY <1>1, <1>3, <1>6 DEF DiskIsPart, ChangeIsMarked, LinesDurable, MarkerStands
  <1>8. LockHeld' /\ CallsHaveCycles'
    BY <1>1, <1>2, <1>5 DEF LockHeld, CallsHaveCycles
  <1>9. Progress'
    <2>1. ProgressOf(w)'
      BY <1>1, <1>2, <1>3, <1>6 DEF ProgressOf, LinesDurable
    <2>2. ASSUME NEW v \in Writers \ {w}
          PROVE  ProgressOf(v)'
      BY <1>2, <1>5 DEF ProgressOf, Held, Steps
    <2> QED
      BY <2>1, <2>2 DEF Progress
  <1> QED
    BY <1>4, <1>7, <1>8, <1>9

\* A call that raises or is killed leaves the lines as they are.
LEMMA EndKeeps ==
    ASSUME LogInv, NEW w \in Writers, Raise(w) \/ Die(w)
    PROVE  LogInv'
  <1> USE Types DEF LogInv
  <1>1. /\ writer' \in [Writers -> CallType] /\ writer'[w].pc = "idle"
        /\ \A v \in Writers \ {w} : writer'[v] = writer[v]
    <2>1. Idle \in CallType /\ Idle.pc = "idle"
      BY DEF Idle, CallType, Steps
    <2> QED
      BY <2>1 DEF Raise, Die
  <1>2. /\ writer[w].pc # "idle" /\ Release(w) /\ UNCHANGED <<disk, reader, acked, crashes>>
        /\ failed' \subseteq failed \cup {writer[w].cycle}
    BY DEF Raise, Die
  <1>3. failed' \subseteq Cycles
    BY <1>2 DEF CallsHaveCycles
  <1>4. \/ UNCHANGED cache
        \/ /\ writer[w].pc = "commit" /\ cache' \in CacheType /\ cache'.entry = cache.entry
           /\ cache'.log = cache.log /\ cache'.torn = cache.torn
    BY DEF Raise, Die, CacheType
  <1>5. TypeOK'
    BY <1>1, <1>2, <1>3, <1>4, TypesAfter DEF Release
  <1>6. ProgressOf(w)
    BY DEF Progress
  <1>7. writer[w].pc = "commit" => LinesDurable /\ cache.entry = disk.entry
    BY <1>6 DEF ProgressOf, LastIsOf, DiskIsPart, CacheType, DiskType
  <1>8. DiskIsPart' /\ ChangeIsMarked'
    BY <1>2, <1>4, <1>7 DEF DiskIsPart, ChangeIsMarked, LinesDurable, MarkerStands
  <1>9. LockHeld' /\ CallsHaveCycles'
    BY <1>1, <1>2 DEF LockHeld, CallsHaveCycles, Held, Release
  <1>10. Progress'
    <2>1. ProgressOf(w)'
      BY <1>1 DEF ProgressOf
    <2>2. ASSUME NEW v \in Writers \ {w}
          PROVE  ProgressOf(v)'
      <3>1. CASE UNCHANGED cache
        BY <1>1, <1>2, <3>1, ProgressKept DEF Progress
      <3>2. CASE writer[w].pc = "commit"
        <4>1. writer[v].pc \notin Held
          BY <3>2, OthersWait DEF Held, Steps
        <4> QED
          BY <1>1, <4>1 DEF ProgressOf, Held, Steps
      <3> QED
        BY <1>4, <3>1, <3>2
    <2> QED
      BY <2>1, <2>2 DEF Progress
  <1> QED
    BY <1>5, <1>8, <1>9, <1>10

\* The reader has a line to read, so it is one of the log.
LEMMA LineIsThere ==
    ASSUME TypeOK, reader.pc = "reading", Position < Len(cache.log)
    PROVE  /\ Position + 1 \in 1..Len(cache.log)
           /\ cache.log[Position + 1] \in Cycles
  <1>1. /\ cache.log \in Seq(Cycles)
        /\ Len(reader.consumed) \in Nat /\ Len(reader.seen) \in Nat
    BY Types DEF CacheType, ReaderType
  <1>2. \A s \in Seq(Cycles) : Len(s) \in Nat /\ \A i \in 1..Len(s) : s[i] \in Cycles
    OBVIOUS
  <1>3. Position \in Nat
    <2>1. \A m, n \in Nat : m + n \in Nat
      OBVIOUS
    <2> QED
      BY ONLY <1>1, <2>1 DEF Position
  <1>4. Len(cache.log) \in Nat
    BY <1>1
  <1>5. Position + 1 \in 1..Len(cache.log)
    BY <1>3, <1>4
  <1> QED
    BY <1>1, <1>2, <1>5

LEMMA ReadKeeps ==
    ASSUME LogInv, Read
    PROVE  LogInv'
  <1> USE Types DEF LogInv
  <1>1. UNCHANGED <<cache, disk, lock, writer, acked, failed, crashes>>
    BY DEF Read, StartRead, ReadLine, EndOfBatch, RejectRead, ReturnBatch
  <1>2. reader \in ReaderType
    OBVIOUS
  <1>3. reader' \in ReaderType
    <2>1. <<>> \in Seq(Cycles)
      OBVIOUS
    <2>2. CASE ReadLine
      <3> DEFINE line == cache.log[Position + 1]
      <3>1. line \in Cycles
        BY <2>2, LineIsThere DEF ReadLine
      <3> HIDE DEF line
      <3>2. Append(reader.seen, line) \in Seq(Cycles)
        BY <1>2, <3>1 DEF ReaderType
      <3>3. reader' = [reader EXCEPT !.seen = Append(reader.seen, line)]
        BY <2>2 DEF ReadLine, line
      <3> QED
        BY <1>2, <3>2, <3>3 DEF ReaderType
    <2>3. CASE ReturnBatch
      <3>1. reader.consumed \o reader.seen \in Seq(Cycles)
        BY <1>2 DEF ReaderType
      <3> QED
        BY <2>1, <2>3, <3>1 DEF ReturnBatch, ReaderType
    <2>4. CASE StartRead \/ EndOfBatch \/ RejectRead
      BY <1>2, <2>1, <2>4 DEF StartRead, EndOfBatch, RejectRead, ReaderType
    <2> QED
      BY <2>2, <2>3, <2>4 DEF Read
  <1>4. TypeOK'
    BY <1>1, <1>3, TypesAfter
  <1>5. \A v \in Writers : ProgressOf(v)'
    BY <1>1, ProgressKept DEF Progress
  <1> QED
    BY <1>1, <1>4, <1>5 DEF LockHeld, CallsHaveCycles, DiskIsPart, ChangeIsMarked, Progress,
       LinesDurable, MarkerStands

\* What a crash leaves: the same lines up to one that is not before the last
\* durable one, if the file is still there.
LEMMA CrashLeaves ==
    ASSUME LogInv, Crash
    PROVE  /\ cache' \in CacheType /\ disk' \in DiskType
           /\ disk'.marker = cache'.marker /\ disk'.entry = cache'.entry
           /\ disk'.lines = Len(cache'.log)
           /\ (cache'.torn \/ Len(cache'.log) > 0) => cache'.entry
           /\ disk'.lines <= Len(cache.log)
           /\ \A i \in 1..disk'.lines : cache'.log[i] = cache.log[i]
           /\ disk.dir => disk'.dir /\ (disk.entry => cache'.entry /\ disk.lines <= disk'.lines)
           /\ cache'.torn => cache'.marker
  <1> USE Types DEF LogInv
  <1> DEFINE absent == [dir |-> "absent", marker |-> FALSE, entry |-> FALSE,
                        log |-> <<>>, torn |-> FALSE]
             part(n) == SubSeq(cache.log, 1, n)
  <1>1. PICK left \in Survivors :
           /\ cache' = left
           /\ disk' = [dir |-> left.dir = "there", marker |-> left.marker,
                       entry |-> left.entry, lines |-> Len(left.log)]
    BY DEF Crash
  <1>2. /\ cache.log \in Seq(Cycles) /\ Len(cache.log) \in Nat
        /\ disk.lines \in Nat /\ disk.lines <= Len(cache.log)
    BY DEF CacheType, DiskType, DiskIsPart
  <1>3. CASE left = absent /\ ~ disk.dir
    <2>1. <<>> \in Seq(Cycles) /\ Len(<<>>) = 0
      OBVIOUS
    <2>2. absent \in CacheType
      BY <2>1 DEF CacheType
    <2>3. disk' = [dir |-> FALSE, marker |-> FALSE, entry |-> FALSE, lines |-> 0]
      BY <1>1, <1>3, <2>1
    <2>4. disk' \in DiskType
      BY <2>3 DEF DiskType
    <2> QED
      BY <1>1, <1>2, <1>3, <2>1, <2>2, <2>3, <2>4
  <1>4. CASE left # absent \/ disk.dir
    <2>1. PICK marker \in {cache.marker, disk.marker}, entry \in {cache.entry, disk.entry},
               n \in disk.lines..Len(cache.log), torn \in BOOLEAN :
             left = [dir |-> "there", marker |-> marker, entry |-> entry,
                     log |-> IF entry THEN part(n) ELSE <<>>,
                     torn |-> torn /\ entry /\ (cache.torn \/ n < Len(cache.log))]
      BY <1>4 DEF Survivors
    <2> DEFINE log == IF entry THEN part(n) ELSE <<>>
               half == torn /\ entry /\ (cache.torn \/ n < Len(cache.log))
    <2>2. /\ part(n) \in Seq(Cycles) /\ Len(part(n)) = n
          /\ \A i \in 1..n : part(n)[i] = cache.log[i]
          /\ n \in Nat /\ n <= Len(cache.log)
      BY <1>2
    <2>3. <<>> \in Seq(Cycles) /\ Len(<<>>) = 0
      OBVIOUS
    <2> HIDE DEF part
    <2>4. /\ log \in Seq(Cycles) /\ Len(log) \in 0..n
          /\ Len(log) > 0 => entry
          /\ \A i \in 1..Len(log) : log[i] = cache.log[i]
          /\ entry => Len(log) = n
      BY <2>2, <2>3
    <2>5. marker \in BOOLEAN /\ entry \in BOOLEAN /\ half \in BOOLEAN
      BY DEF CacheType, DiskType
    <2>6. half => marker
      <3>1. half => MarkerStands
        BY <1>2, <2>2 DEF ChangeIsMarked, LinesDurable
      <3> QED
        BY <3>1 DEF MarkerStands
    <2>7. half => entry
      OBVIOUS
    <2>8. disk.entry => entry
      BY DEF DiskIsPart
    <2> HIDE DEF log, half
    <2>9. left = [dir |-> "there", marker |-> marker, entry |-> entry, log |-> log,
                  torn |-> half]
      BY <2>1 DEF log, half
    <2>10. cache' \in CacheType
      BY <1>1, <2>4, <2>5, <2>9 DEF CacheType
    <2>11. disk' = [dir |-> TRUE, marker |-> marker, entry |-> entry, lines |-> Len(log)]
      BY <1>1, <2>9
    <2>12. disk' \in DiskType
      BY <2>4, <2>5, <2>11 DEF DiskType
    <2>13. Len(log) <= Len(cache.log) /\ (disk.entry => disk.lines <= Len(log))
      BY <1>2, <2>2, <2>4, <2>8
    <2> QED
      BY <1>1, <2>4, <2>6, <2>7, <2>8, <2>9, <2>10, <2>11, <2>12, <2>13
  <1> QED
    BY <1>1, <1>3, <1>4 DEF Survivors

LEMMA CrashKeeps ==
    ASSUME LogInv, Crash
    PROVE  LogInv'
  <1> USE Types DEF LogInv
  <1>1. /\ cache' \in CacheType /\ disk' \in DiskType
        /\ disk'.marker = cache'.marker /\ disk'.entry = cache'.entry
        /\ disk'.lines = Len(cache'.log)
        /\ (cache'.torn \/ Len(cache'.log) > 0) => cache'.entry
        /\ cache'.torn => cache'.marker
    BY CrashLeaves
  <1>2. /\ writer' \in [Writers -> CallType]
        /\ \A v \in Writers : writer'[v].pc = "idle"
    <2>1. Idle \in CallType /\ Idle.pc = "idle"
      BY DEF Idle, CallType, Steps
    <2> QED
      BY <2>1 DEF Crash
  <1>3. reader' \in ReaderType
    <2>1. <<>> \in Seq(Cycles)
      OBVIOUS
    <2> QED
      BY <2>1 DEF Crash, ReaderType
  <1>4. crashes' \in 0..MaxCrashes
    BY LogAssumption DEF Crash
  <1>5. TypeOK'
    BY <1>1, <1>2, <1>3, <1>4, TypesAfter DEF Crash
  <1>6. LockHeld' /\ CallsHaveCycles' /\ Progress'
    BY <1>2 DEF LockHeld, CallsHaveCycles, Progress, ProgressOf, Held
  <1>7. DiskIsPart' /\ ChangeIsMarked'
    <2>1. Len(cache'.log) \in Nat
      BY <1>1 DEF CacheType
    <2> QED
      BY <1>1, <2>1 DEF DiskIsPart, ChangeIsMarked, LinesDurable, MarkerStands
  <1> QED
    BY <1>5, <1>6, <1>7

\* The repair cuts off what is torn and leaves nothing for a crash to change.
LEMMA RepairKeeps ==
    ASSUME LogInv, Repair
    PROVE  LogInv'
  <1> USE Types DEF LogInv
  <1>1. /\ cache' \in CacheType /\ ~ cache'.torn /\ cache'.entry = cache.entry
        /\ cache'.log = cache.log
    BY DEF Repair, CacheType
  <1>2. Len(cache.log) \in Nat
    BY DEF CacheType
  <1>3. /\ disk' \in DiskType /\ disk'.entry = cache.entry /\ disk'.lines = Len(cache.log)
    BY <1>2 DEF Repair, DiskType, CacheType
  <1>4. TypeOK'
    BY <1>1, <1>3, TypesAfter DEF Repair
  <1>5. DiskIsPart' /\ ChangeIsMarked'
    BY <1>1, <1>2, <1>3 DEF DiskIsPart, ChangeIsMarked, LinesDurable
  <1>6. \A v \in Writers : writer[v].pc \notin Held
    BY LogAssumption DEF Repair, LockHeld
  <1>7. LockHeld' /\ CallsHaveCycles' /\ Progress'
    BY <1>6 DEF Repair, LockHeld, CallsHaveCycles, Progress, ProgressOf, Held, Steps
  <1> QED
    BY <1>4, <1>5, <1>7

LEMMA UnchangedKeeps ==
    ASSUME LogInv, UNCHANGED vars
    PROVE  LogInv'
  BY DEF vars, LogInv, TypeOK, LockHeld, CallsHaveCycles, DiskIsPart, ChangeIsMarked, Progress,
     ProgressOf, LinesDurable, MarkerStands, LastIsOf, Held

\* Every step of writers, reader, crashes and repairs.
LEMMA LogStep == LogInv /\ [Next]_vars => LogInv'
  <1> SUFFICES ASSUME LogInv, [Next]_vars
               PROVE  LogInv'
    OBVIOUS
  <1>1. ASSUME NEW w \in Writers, Proceed(w)
        PROVE  LogInv'
    BY <1>1, CreateMarkerKeeps, SyncMarkerKeeps, SyncParentsKeeps, WriteSomeKeeps,
       WriteRestKeeps, FlushKeeps, SyncEntryKeeps, UnmarkKeeps, CommitKeeps DEF Proceed
  <1> QED
    BY <1>1, BeginKeeps, EndKeeps, ReadKeeps, CrashKeeps, RepairKeeps, UnchangedKeeps DEF Next

LEMMA LogInit == Init => LogInv
  <1> SUFFICES ASSUME Init
               PROVE  LogInv
    OBVIOUS
  <1>1. <<>> \in Seq(Cycles) /\ Len(<<>>) = 0
    OBVIOUS
  <1>2. TypeOK
    BY <1>1, LogAssumption DEF Init, TypeOK, Idle, Steps
  <1>3. \A w \in Writers : writer[w].pc = "idle"
    BY DEF Init, Idle
  <1> QED
    BY <1>1, <1>2, <1>3 DEF Init, LogInv, LockHeld, CallsHaveCycles, DiskIsPart, ChangeIsMarked,
       LinesDurable, Progress, ProgressOf, Held

\* The invariant of the writers and of the disk (append_cycle).
THEOREM SpecLogInv == Spec => []LogInv
  BY LogInit, LogStep, PTL DEF Spec

\* Whenever a line is incomplete or not yet durable the marker stands, in the
\* cache and on disk: the order of the fsync calls in append_cycle, with any
\* of them failing and the machine stopping anywhere.
THEOREM SpecAmbiguityIsMarked == Spec => []AmbiguityIsMarked
  <1>1. LogInv => AmbiguityIsMarked
    <2> SUFFICES ASSUME LogInv, cache.torn \/ disk.lines < Len(cache.log)
                 PROVE  cache.marker /\ disk.marker
      BY DEF AmbiguityIsMarked
    <2>1. disk.lines \in Nat /\ Len(cache.log) \in Nat
      BY Types DEF LogInv, CacheType, DiskType
    <2> QED
      BY <2>1 DEF LogInv, ChangeIsMarked, LinesDurable, MarkerStands
  <1> QED
    BY <1>1, SpecLogInv, PTL

-----------------------------------------------------------------------------
(* What was acknowledged or consumed survives, on an existing directory.   *)

\* Durable lines and the log only grow.
LEMMA SurvivalKept ==
    ASSUME LogInv, SurvivalInv, disk'.dir, disk.entry => disk'.entry,
           disk'.lines \in Nat, disk.lines <= disk'.lines,
           Len(cache'.log) \in Nat, Len(cache.log) <= Len(cache'.log),
           \A i \in 1..Len(cache.log) : cache'.log[i] = cache.log[i]
    PROVE  /\ reader' = reader => ConsumedDurable'
           /\ acked' = acked => AckedDurable'
           /\ \A c : IsDurable(c) => IsDurable(c)'
  <1>1. /\ disk.lines \in Nat /\ Len(cache.log) \in Nat /\ disk.lines <= Len(cache.log)
        /\ Len(reader.consumed) \in Nat /\ Len(reader.seen) \in Nat
    BY Types DEF LogInv, DiskIsPart, CacheType, DiskType, ReaderType
  <1>2. \A i \in 1..disk.lines : i \in 1..disk'.lines /\ cache'.log[i] = cache.log[i]
    BY <1>1
  <1>3. \A c : IsDurable(c) => IsDurable(c)'
    BY <1>2 DEF IsDurable
  <1>4. acked' = acked => AckedDurable'
    BY <1>3 DEF SurvivalInv, AckedDurable
  <1>5. ASSUME reader' = reader
        PROVE  ConsumedDurable'
    <2> DEFINE n == Len(reader.consumed)
               m == Len(reader.seen)
    <2>1. /\ n <= disk.lines /\ (n > 0 => disk.entry)
          /\ \A i \in 1..n : reader.consumed[i] = cache.log[i]
      BY DEF SurvivalInv, ConsumedDurable
    <2>2. reader.pc # "idle" =>
              /\ n + m <= Len(cache.log)
              /\ \A i \in 1..m : reader.seen[i] = cache.log[n + i]
      BY DEF SurvivalInv, ConsumedDurable
    <2>3. n \in Nat /\ m \in Nat
      BY <1>1
    <2> HIDE DEF n, m
    <2>4. n <= disk'.lines /\ \A i \in 1..n : reader.consumed[i] = cache'.log[i]
      <3>1. n <= disk'.lines /\ n <= Len(cache.log)
        BY <1>1, <2>1, <2>3
      <3>2. \A i \in 1..n : i \in 1..Len(cache.log)
        BY <1>1, <2>3, <3>1
      <3> QED
        BY <2>1, <3>1, <3>2
    <2>5. ASSUME reader.pc # "idle"
          PROVE  /\ n + m <= Len(cache'.log)
                 /\ \A i \in 1..m : reader.seen[i] = cache'.log[n + i]
      <3>1. \A i \in 1..m : n + i \in 1..Len(cache.log)
        BY <1>1, <2>2, <2>3, <2>5
      <3> QED
        BY <1>1, <2>2, <2>3, <2>5, <3>1
    <2> QED
      BY <1>5, <2>1, <2>4, <2>5 DEF ConsumedDurable, n, m
  <1> QED
    BY <1>3, <1>4, <1>5

\* The steps of a call that do not acknowledge, and the repair.
LEMMA QuietSurvival ==
    ASSUME LogInv, SurvivalInv,
           \/ Repair
           \/ \E w \in Writers :
                 \/ \E c \in Cycles : Begin(w, c)
                 \/ CreateMarker(w) \/ SyncMarker(w) \/ SyncParents(w) \/ WriteSome(w)
                 \/ WriteRest(w) \/ Flush(w) \/ SyncEntry(w) \/ Unmark(w)
                 \/ Raise(w) \/ Die(w)
    PROVE  SurvivalInv'
  <1>1. /\ cache \in CacheType /\ disk \in DiskType /\ Len(cache.log) \in Nat
        /\ disk.lines <= Len(cache.log) /\ (disk.entry => cache.entry)
    BY Types DEF LogInv, CacheType, DiskIsPart
  <1>2. acked' = acked /\ reader' = reader
    BY DEF Repair, Begin, CreateMarker, SyncMarker, SyncParents, WriteSome, WriteRest, Flush,
       SyncEntry, Unmark, Raise, Die
  <1>3. /\ disk'.dir
        /\ disk.entry => disk'.entry
        /\ disk'.lines \in {disk.lines, Len(cache.log)}
    BY <1>1 DEF Repair, Begin, CreateMarker, SyncMarker, SyncParents, WriteSome, WriteRest,
       Flush, SyncEntry, Unmark, Raise, Die, SyncDirectory, DiskType, SurvivalInv
  <1>4. /\ Len(cache'.log) \in Nat /\ Len(cache.log) <= Len(cache'.log)
        /\ \A i \in 1..Len(cache.log) : cache'.log[i] = cache.log[i]
    <2>1. CASE \E w \in Writers : WriteRest(w)
      <3>1. PICK w \in Writers : WriteRest(w)
        BY <2>1
      <3>2. writer[w].cycle \in Cycles
        BY <3>1 DEF LogInv, CallsHaveCycles, WriteRest
      <3> DEFINE cycle == writer[w].cycle
      <3>3. cache'.log = Append(cache.log, cycle)
        BY <1>1, <3>1 DEF WriteRest, CacheType
      <3>4. \A s \in Seq(Cycles) : \A c \in Cycles :
               /\ Len(Append(s, c)) = Len(s) + 1
               /\ \A i \in 1..Len(s) : Append(s, c)[i] = s[i]
        OBVIOUS
      <3>5. cache.log \in Seq(Cycles)
        BY <1>1 DEF CacheType
      <3> HIDE DEF cycle
      <3>6. cycle \in Cycles
        BY <3>2 DEF cycle
      <3>7. /\ Len(cache'.log) = Len(cache.log) + 1
            /\ \A i \in 1..Len(cache.log) : cache'.log[i] = cache.log[i]
        BY <3>3, <3>4, <3>5, <3>6
      <3> QED
        BY <1>1, <3>7
    <2>2. CASE ~ \E w \in Writers : WriteRest(w)
      <3>1. cache'.log = cache.log
        BY <1>1, <2>2 DEF Repair, Begin, CreateMarker, SyncMarker, SyncParents, WriteSome,
           Flush, SyncEntry, Unmark, Raise, Die, CacheType
      <3> QED
        BY <1>1, <3>1
    <2> QED
      BY <2>1, <2>2
  <1>5. disk'.lines \in Nat /\ disk.lines <= disk'.lines
    BY <1>1, <1>3 DEF DiskType
  <1> QED
    BY <1>2, <1>3, <1>4, <1>5, SurvivalKept DEF SurvivalInv

\* A cycle is acknowledged when its line and the file's entry are durable.
LEMMA CommitSurvival ==
    ASSUME LogInv, SurvivalInv, NEW w \in Writers, Commit(w)
    PROVE  SurvivalInv'
  <1>1. /\ cache \in CacheType /\ disk \in DiskType /\ Len(cache.log) \in Nat
        /\ disk.lines <= Len(cache.log) /\ (disk.entry => cache.entry)
    BY Types DEF LogInv, CacheType, DiskIsPart
  <1>2. /\ cache' = cache /\ reader' = reader
        /\ acked' = acked \cup {writer[w].cycle}
    BY DEF Commit
  <1>3. ProgressOf(w) /\ writer[w].pc = "commit"
    BY DEF LogInv, Progress, Commit
  <1>4. disk.entry /\ LinesDurable /\ LastIsOf(w)
    BY <1>3 DEF ProgressOf
  <1>5. disk'.dir /\ disk'.entry /\ disk'.lines = disk.lines
    BY <1>1, <1>4 DEF Commit, SyncDirectory, DiskType, SurvivalInv
  <1>6. IsDurable(writer[w].cycle)
    BY <1>1, <1>4 DEF IsDurable, LinesDurable, LastIsOf
  <1>7. ConsumedDurable' /\ \A c : IsDurable(c) => IsDurable(c)'
    BY <1>1, <1>2, <1>5, SurvivalKept DEF DiskType
  <1>8. AckedDurable'
    BY <1>2, <1>5, <1>6, <1>7 DEF AckedDurable, SurvivalInv
  <1> QED
    BY <1>5, <1>7, <1>8 DEF SurvivalInv

\* The second marker check: only durable lines are returned.
LEMMA ReadSurvival ==
    ASSUME LogInv, SurvivalInv, Read
    PROVE  SurvivalInv'
  <1> DEFINE n == Len(reader.consumed)
             m == Len(reader.seen)
  <1>1. UNCHANGED <<cache, disk, acked>>
    BY DEF Read, StartRead, ReadLine, EndOfBatch, RejectRead, ReturnBatch
  <1>2. disk.dir' /\ AckedDurable'
    BY <1>1 DEF SurvivalInv, AckedDurable, IsDurable
  <1>3. /\ cache.log \in Seq(Cycles) /\ Len(cache.log) \in Nat
        /\ disk.lines \in Nat /\ disk.lines <= Len(cache.log)
        /\ reader \in ReaderType
        /\ reader.consumed \in Seq(Cycles) /\ reader.seen \in Seq(Cycles)
    BY Types DEF LogInv, DiskIsPart, CacheType, DiskType, ReaderType
  <1>4. n \in Nat /\ m \in Nat
    BY <1>3
  <1>5. /\ n <= disk.lines /\ (n > 0 => disk.entry)
        /\ \A i \in 1..n : reader.consumed[i] = cache.log[i]
    BY DEF SurvivalInv, ConsumedDurable
  <1>6. reader.pc # "idle" =>
            /\ n + m <= Len(cache.log)
            /\ \A i \in 1..m : reader.seen[i] = cache.log[n + i]
    BY DEF SurvivalInv, ConsumedDurable
  <1>7. CASE StartRead \/ RejectRead
    <2>1. reader'.consumed = reader.consumed /\ reader'.seen = <<>>
      BY <1>3, <1>7 DEF StartRead, RejectRead, ReaderType
    <2>2. Len(<<>>) = 0
      OBVIOUS
    <2> DEFINE k == Len(reader'.seen)
    <2>3. k = 0
      BY <2>1, <2>2
    <2> HIDE DEF n, k
    <2>4. /\ n + k <= Len(cache.log)
          /\ \A i \in 1..k : reader'.seen[i] = cache.log[n + i]
      BY <1>3, <1>4, <1>5, <2>3
    <2>5. ConsumedDurable'
      BY <1>1, <1>5, <2>1, <2>4 DEF ConsumedDurable, n, k
    <2> QED
      BY <1>2, <2>5 DEF SurvivalInv
  <1>8. CASE EndOfBatch
    <2>1. reader'.consumed = reader.consumed /\ reader'.seen = reader.seen
      BY <1>3, <1>8 DEF EndOfBatch, ReaderType
    <2>2. reader.pc # "idle"
      BY <1>8 DEF EndOfBatch
    <2>3. ConsumedDurable'
      BY <1>1, <1>5, <1>6, <2>1, <2>2 DEF ConsumedDurable
    <2> QED
      BY <1>2, <2>3 DEF SurvivalInv
  <1>9. CASE ReadLine
    <2> DEFINE line == cache.log[Position + 1]
               seen == Append(reader.seen, line)
               k == Len(seen)
    <2>1. reader.pc # "idle" /\ Position < Len(cache.log)
      BY <1>9 DEF ReadLine
    <2>2. line \in Cycles
      BY <1>9, LineIsThere DEF ReadLine, LogInv
    <2>3. reader'.consumed = reader.consumed /\ reader'.seen = seen
      BY <1>3, <1>9 DEF ReadLine, ReaderType
    <2>4. line = cache.log[n + m + 1] /\ n + m < Len(cache.log)
      BY <2>1 DEF Position
    <2> HIDE DEF line
    <2>5. \A s \in Seq(Cycles) : \A c \in Cycles :
             /\ Len(Append(s, c)) = Len(s) + 1
             /\ Append(s, c)[Len(s) + 1] = c
             /\ \A i \in 1..Len(s) : Append(s, c)[i] = s[i]
      OBVIOUS
    <2>6. /\ k = m + 1 /\ seen[m + 1] = line
          /\ \A i \in 1..m : seen[i] = reader.seen[i]
      BY <1>3, <2>2, <2>5
    <2> HIDE DEF seen, n, m
    <2>7. \A i \in 1..k : seen[i] = cache.log[n + i]
      <3> SUFFICES ASSUME NEW i \in 1..k
                   PROVE  seen[i] = cache.log[n + i]
        OBVIOUS
      <3>1. i \in 1..m \/ i = m + 1
        BY <1>4, <2>6
      <3>2. CASE i \in 1..m
        BY <1>6, <2>1, <2>6, <3>2
      <3>3. CASE i = m + 1
        <4>1. n + i = n + m + 1
          BY <1>4, <3>3
        <4> QED
          BY <2>4, <2>6, <3>3, <4>1
      <3> QED
        BY <3>1, <3>2, <3>3
    <2>8. n + k <= Len(cache.log)
      BY <1>3, <1>4, <2>4, <2>6
    <2>9. ConsumedDurable'
      BY <1>1, <1>5, <2>3, <2>7, <2>8 DEF ConsumedDurable, n, k
    <2> QED
      BY <1>2, <2>9 DEF SurvivalInv
  <1>10. CASE ReturnBatch
    <2> DEFINE batch == reader.consumed \o reader.seen
               k == Len(batch)
    <2>1. reader.pc # "idle" /\ ~ cache.marker
      BY <1>10 DEF ReturnBatch
    <2>2. LinesDurable /\ cache.entry = disk.entry
      BY <2>1 DEF LogInv, ChangeIsMarked, MarkerStands
    <2>3. reader'.pc = "idle" /\ reader'.consumed = batch
      BY <1>10 DEF ReturnBatch
    <2>4. \A s, t \in Seq(Cycles) :
             /\ Len(s \o t) = Len(s) + Len(t)
             /\ \A i \in 1..Len(s) + Len(t) :
                   (s \o t)[i] = IF i <= Len(s) THEN s[i] ELSE t[i - Len(s)]
      OBVIOUS
    <2>5. /\ k = n + m
          /\ \A i \in 1..n + m : batch[i] = IF i <= n THEN reader.consumed[i]
                                            ELSE reader.seen[i - n]
      BY <1>3, <2>4
    <2> HIDE DEF batch, n, m
    <2>6. \A i \in 1..k : batch[i] = cache.log[i]
      <3> SUFFICES ASSUME NEW i \in 1..k
                   PROVE  batch[i] = cache.log[i]
        OBVIOUS
      <3>1. CASE i <= n
        BY <1>4, <1>5, <2>5, <3>1
      <3>2. CASE ~ (i <= n)
        <4>1. i - n \in 1..m /\ n + (i - n) = i
          BY <1>4, <2>5, <3>2
        <4> QED
          BY <1>6, <2>1, <2>5, <3>2, <4>1
      <3> QED
        BY <3>1, <3>2
    <2>7. k <= disk.lines
      BY <1>6, <2>1, <2>2, <2>5 DEF LinesDurable
    <2>8. k > 0 => disk.entry
      BY <1>3, <1>4, <2>2, <2>5, <2>7 DEF LogInv, DiskIsPart
    <2>9. ConsumedDurable'
      BY <1>1, <2>3, <2>6, <2>7, <2>8 DEF ConsumedDurable, k
    <2> QED
      BY <1>2, <2>9 DEF SurvivalInv
  <1> QED
    BY <1>7, <1>8, <1>9, <1>10 DEF Read

LEMMA CrashSurvival ==
    ASSUME LogInv, SurvivalInv, Crash
    PROVE  SurvivalInv'
  <1>1. /\ disk'.dir /\ disk'.entry = cache'.entry
        /\ cache' \in CacheType /\ disk' \in DiskType
        /\ \A i \in 1..disk'.lines : cache'.log[i] = cache.log[i]
        /\ disk.entry => cache'.entry /\ disk.lines <= disk'.lines
    BY CrashLeaves DEF SurvivalInv
  <1>2. acked' = acked
    BY DEF Crash
  <1>3. disk.lines \in Nat /\ disk'.lines \in Nat /\ reader \in ReaderType
    BY <1>1, Types DEF LogInv, DiskType
  <1>4. reader'.pc = "idle" /\ reader'.consumed = reader.consumed
    BY <1>3 DEF Crash, ReaderType
  <1>5. AckedDurable'
    <2> SUFFICES ASSUME NEW c \in acked
                 PROVE  disk'.entry /\ IsDurable(c)'
      BY <1>2 DEF AckedDurable
    <2>1. disk.entry /\ IsDurable(c)
      BY DEF SurvivalInv, AckedDurable
    <2>2. PICK i \in 1..disk.lines : cache.log[i] = c
      BY <2>1 DEF IsDurable
    <2>3. i \in 1..disk'.lines
      BY <1>1, <1>3, <2>1
    <2>4. cache'.log[i] = c
      BY <1>1, <2>2, <2>3
    <2> QED
      BY <1>1, <2>1, <2>3, <2>4 DEF IsDurable
  <1>6. ConsumedDurable'
    <2> DEFINE n == Len(reader.consumed)
    <2>1. /\ n <= disk.lines /\ (n > 0 => disk.entry)
          /\ \A i \in 1..n : reader.consumed[i] = cache.log[i]
      BY DEF SurvivalInv, ConsumedDurable
    <2>2. n \in Nat
      BY <1>3 DEF ReaderType
    <2> HIDE DEF n
    <2>3. n <= disk'.lines /\ (n > 0 => disk'.entry)
      BY <1>1, <1>3, <2>1, <2>2
    <2>4. \A i \in 1..n : i \in 1..disk'.lines
      BY <1>3, <2>2, <2>3
    <2>5. \A i \in 1..n : reader.consumed[i] = cache'.log[i]
      BY <1>1, <2>1, <2>4
    <2> QED
      BY <1>4, <2>3, <2>5 DEF ConsumedDurable, n
  <1> QED
    BY <1>1, <1>5, <1>6 DEF SurvivalInv

LEMMA SurvivalStep == LogInv /\ SurvivalInv /\ [Next]_vars => SurvivalInv'
  <1> SUFFICES ASSUME LogInv, SurvivalInv, [Next]_vars
               PROVE  SurvivalInv'
    OBVIOUS
  <1>1. CASE UNCHANGED vars
    BY <1>1 DEF vars, SurvivalInv, AckedDurable, ConsumedDurable, IsDurable
  <1> QED
    BY <1>1, QuietSurvival, CommitSurvival, ReadSurvival, CrashSurvival DEF Next, Proceed

LEMMA SurvivalInit == DirectoryThere /\ Init => SurvivalInv
  <1> SUFFICES ASSUME DirectoryThere, Init
               PROVE  SurvivalInv
    OBVIOUS
  <1>1. Len(<<>>) = 0
    OBVIOUS
  <1> QED
    BY <1>1 DEF Init, SurvivalInv, AckedDurable, ConsumedDurable

\* With the log's directory in place from the start, everything acknowledged
\* or consumed is durable in every reachable state.
THEOREM SpecSurvivalInv == DirectoryThere => (Spec => []SurvivalInv)
  BY SurvivalInit, SurvivalStep, SpecLogInv, PTL DEF Spec

LEMMA PrefixByElements ==
    ASSUME NEW s \in Seq(Cycles), NEW t \in Seq(Cycles), Len(s) <= Len(t),
           \A i \in 1..Len(s) : s[i] = t[i]
    PROVE  IsPrefix(s, t)
  <1>1. SubSeq(s, 1, Len(s)) = SubSeq(t, 1, Len(s))
    OBVIOUS
  <1> QED
    BY <1>1 DEF IsPrefix

\* What read_batch returned stays a prefix of the log through every failure
\* and crash, so the anchored cursor of a consumer keeps its boundary.
THEOREM SpecConsumedStays == DirectoryThere => (Spec => []ConsumedStays)
  <1>1. LogInv /\ SurvivalInv => ConsumedStays
    <2> SUFFICES ASSUME LogInv, SurvivalInv
                 PROVE  IsPrefix(reader.consumed, cache.log)
      BY DEF ConsumedStays
    <2>1. /\ reader.consumed \in Seq(Cycles) /\ cache.log \in Seq(Cycles)
          /\ disk.lines \in Nat /\ disk.lines <= Len(cache.log)
      BY Types DEF LogInv, DiskIsPart, CacheType, DiskType, ReaderType
    <2>2. /\ Len(reader.consumed) <= disk.lines
          /\ \A i \in 1..Len(reader.consumed) : reader.consumed[i] = cache.log[i]
      BY DEF SurvivalInv, ConsumedDurable
    <2> QED
      BY <2>1, <2>2, PrefixByElements
  <1> QED
    BY <1>1, SpecLogInv, SpecSurvivalInv, PTL

\* A cycle whose append_cycle returned is on the durable part of the disk
\* ever after, whatever fails, is killed or crashes later.
THEOREM SpecAckedSurvives == DirectoryThere => (Spec => []AckedSurvives)
  <1>1. LogInv /\ SurvivalInv => AckedSurvives
    <2> SUFFICES ASSUME LogInv, SurvivalInv, NEW c \in acked
                 PROVE  /\ disk.dir /\ disk.entry
                        /\ c \in ToSet(SubSeq(cache.log, 1, disk.lines))
      BY DEF AckedSurvives
    <2>1. /\ cache.log \in Seq(Cycles) /\ disk.lines \in Nat
          /\ disk.lines <= Len(cache.log)
      BY Types DEF LogInv, DiskIsPart, CacheType, DiskType
    <2>2. disk.dir /\ disk.entry /\ \E i \in 1..disk.lines : cache.log[i] = c
      BY DEF SurvivalInv, AckedDurable, IsDurable
    <2>3. \A s \in Seq(Cycles) : \A n \in Nat : n <= Len(s) =>
             /\ DOMAIN SubSeq(s, 1, n) = 1..n
             /\ \A i \in 1..n : SubSeq(s, 1, n)[i] = s[i]
      OBVIOUS
    <2> QED
      BY <2>1, <2>2, <2>3 DEF ToSet
  <1> QED
    BY <1>1, SpecLogInv, SpecSurvivalInv, PTL
=============================================================================
