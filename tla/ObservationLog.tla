---------------------------- MODULE ObservationLog ----------------------------
(***************************************************************************)
(* JsonlObservationRepository of mu_strategy/observations.py: the Stage 0  *)
(* observation log, appended to by scan processes under a file lock and    *)
(* read without the lock by read_batch, on a file system that keeps what   *)
(* was fsynced and may keep or lose anything else when the machine stops.  *)
(*                                                                         *)
(* The log, its marker <log>.invalid and its lock live in one directory.   *)
(* cache is what running processes see, disk what surely survives; a crash *)
(* leaves, for each item, either.  A cycle is one line of the log; torn    *)
(* says that a further, incomplete line follows the complete ones.         *)
(***************************************************************************)
EXTENDS Integers, Sequences, SequencesExt

CONSTANTS
    Cycles,          \* cycles to be appended; bounds the append_cycle calls
    Writers,         \* processes calling append_cycle
    BatchLimit,      \* limit of read_batch
    MaxCrashes,      \* bound on machine crashes
    DirectoryThere,  \* whether the log's directory exists to begin with
    None

ASSUME LogAssumption ==
    /\ BatchLimit \in Nat \ {0}
    /\ MaxCrashes \in Nat
    /\ DirectoryThere \in BOOLEAN
    /\ None \notin Writers

VARIABLES
    cache,           \* [dir, marker, entry, log, torn]: the visible file system
    disk,            \* [dir, marker, entry, lines]: the part made durable
    lock,            \* holder of publication_fence
    writer,          \* append_cycle calls in progress
    reader,          \* the read_batch call in progress, and its SQLite cursor
    acked,           \* cycles whose append_cycle returned
    failed,          \* cycles whose append_cycle raised
    crashes

vars == <<cache, disk, lock, writer, reader, acked, failed, crashes>>

Steps == {"idle", "lock", "sync_marker", "sync_parents", "write", "write_rest", "flush",
          "sync_entry", "unmark", "commit"}

Idle == [pc |-> "idle", cycle |-> None, made |-> FALSE, fresh |-> FALSE]

Started == acked \cup failed \cup {writer[w].cycle : w \in Writers} \cup ToSet(cache.log)

TypeOK ==
    /\ cache \in [dir : {"absent", "there"}, marker : BOOLEAN, entry : BOOLEAN,
                  log : Seq(Cycles), torn : BOOLEAN]
    /\ disk \in [dir : BOOLEAN, marker : BOOLEAN, entry : BOOLEAN, lines : Nat]
    /\ lock \in Writers \cup {None}
    /\ writer \in [Writers -> [pc : Steps, cycle : Cycles \cup {None},
                               made : BOOLEAN, fresh : BOOLEAN]]
    /\ reader \in [pc : {"idle", "reading", "check"}, seen : Seq(Cycles),
                   consumed : Seq(Cycles)]
    /\ acked \subseteq Cycles
    /\ failed \subseteq Cycles
    /\ crashes \in 0..MaxCrashes

-----------------------------------------------------------------------------
(* append_cycle                                                            *)

Goto(w, pc) == writer' = [writer EXCEPT ![w].pc = pc]

\* fsync of the directory makes both directory entries durable.
SyncDirectory == disk' = [disk EXCEPT !.marker = cache.marker, !.entry = cache.entry]

\* _create_parent_directories, before the lock is taken: only a call that
\* found the directory missing remembers to make its entry durable.
Begin(w, c) ==
    /\ writer[w].pc = "idle"
    /\ c \notin Started
    /\ writer' = [writer EXCEPT ![w] = [pc |-> "lock", cycle |-> c, fresh |-> FALSE,
                                        made |-> cache.dir = "absent"]]
    /\ cache' = [cache EXCEPT !.dir = "there"]
    /\ UNCHANGED <<disk, lock, reader, acked, failed, crashes>>

\* The marker is created exclusively, under the lock; an unresolved one
\* makes the call fail instead.
CreateMarker(w) ==
    /\ writer[w].pc = "lock"
    /\ lock = None
    /\ ~ cache.marker
    /\ lock' = w
    /\ cache' = [cache EXCEPT !.marker = TRUE]
    /\ Goto(w, "sync_marker")
    /\ UNCHANGED <<disk, reader, acked, failed, crashes>>

SyncMarker(w) ==
    /\ writer[w].pc = "sync_marker"
    /\ SyncDirectory
    /\ Goto(w, "sync_parents")
    /\ UNCHANGED <<cache, lock, reader, acked, failed, crashes>>

\* _fsync_created_directory_entries
SyncParents(w) ==
    /\ writer[w].pc = "sync_parents"
    /\ disk' = [disk EXCEPT !.dir = @ \/ writer[w].made]
    /\ Goto(w, "write")
    /\ UNCHANGED <<cache, lock, reader, acked, failed, crashes>>

\* The buffered line reaches the file piecewise.
WriteSome(w) ==
    /\ writer[w].pc = "write"
    /\ cache' = [cache EXCEPT !.entry = TRUE, !.torn = TRUE]
    /\ writer' = [writer EXCEPT ![w].pc = "write_rest", ![w].fresh = ~ cache.entry]
    /\ UNCHANGED <<disk, lock, reader, acked, failed, crashes>>

WriteRest(w) ==
    /\ writer[w].pc = "write_rest"
    /\ cache' = [cache EXCEPT !.log = Append(@, writer[w].cycle), !.torn = FALSE]
    /\ Goto(w, "flush")
    /\ UNCHANGED <<disk, lock, reader, acked, failed, crashes>>

\* Variant: the line is left to the page cache.
SkipFlush(w) ==
    /\ writer[w].pc = "flush"
    /\ Goto(w, IF writer[w].fresh THEN "sync_entry" ELSE "unmark")
    /\ UNCHANGED <<cache, disk, lock, reader, acked, failed, crashes>>

Flush(w) ==
    /\ writer[w].pc = "flush"
    /\ disk' = [disk EXCEPT !.lines = Len(cache.log)]
    /\ Goto(w, IF writer[w].fresh THEN "sync_entry" ELSE "unmark")
    /\ UNCHANGED <<cache, lock, reader, acked, failed, crashes>>

SyncEntry(w) ==
    /\ writer[w].pc = "sync_entry"
    /\ SyncDirectory
    /\ Goto(w, "unmark")
    /\ UNCHANGED <<cache, lock, reader, acked, failed, crashes>>

Unmark(w) ==
    /\ writer[w].pc = "unmark"
    /\ cache' = [cache EXCEPT !.marker = FALSE]
    /\ Goto(w, "commit")
    /\ UNCHANGED <<disk, lock, reader, acked, failed, crashes>>

Commit(w) ==
    /\ writer[w].pc = "commit"
    /\ SyncDirectory
    /\ acked' = acked \cup {writer[w].cycle}
    /\ writer' = [writer EXCEPT ![w] = Idle]
    /\ lock' = None
    /\ UNCHANGED <<cache, reader, failed, crashes>>

Release(w) == lock' = IF lock = w THEN None ELSE lock

\* Variant: the failure is recorded after the call was forgotten.
RaiseForgotten(w) ==
    /\ writer[w].pc # "idle"
    /\ writer' = [writer EXCEPT ![w] = Idle]
    /\ failed' = failed \cup {writer'[w].cycle}
    /\ Release(w)
    /\ UNCHANGED <<cache, disk, reader, acked, crashes>>

\* Any system call raises OSError, or the marker is found in place; only a
\* failed removal of the marker is followed by an attempt to restore it,
\* which may fail as well and is then ignored.
Raise(w) ==
    /\ writer[w].pc # "idle"
    /\ \/ writer[w].pc # "commit" /\ UNCHANGED cache
       \/ \E restored \in BOOLEAN :
             /\ writer[w].pc = "commit"
             /\ cache' = [cache EXCEPT !.marker = restored]
    /\ failed' = failed \cup {writer[w].cycle}
    /\ writer' = [writer EXCEPT ![w] = Idle]
    /\ Release(w)
    /\ UNCHANGED <<disk, reader, acked, crashes>>

\* The process is killed; the lock goes with it, its files stay as they are.
Die(w) ==
    /\ writer[w].pc # "idle"
    /\ writer' = [writer EXCEPT ![w] = Idle]
    /\ Release(w)
    /\ UNCHANGED <<cache, disk, reader, acked, failed, crashes>>

-----------------------------------------------------------------------------
(* read_batch: neither the lock nor a snapshot, but the marker is checked  *)
(* before and after the lines are read.  A call that raises changes        *)
(* nothing; the caller commits returned lines and cursor together.         *)

Boundary ==
    LET n == Len(reader.consumed) IN
    n > 0 => Len(cache.log) >= n /\ cache.log[n] = reader.consumed[n]

StartRead ==
    /\ reader.pc = "idle"
    /\ ~ cache.marker
    /\ Boundary
    /\ reader' = [reader EXCEPT !.pc = "reading", !.seen = <<>>]
    /\ UNCHANGED <<cache, disk, lock, writer, acked, failed, crashes>>

Position == Len(reader.consumed) + Len(reader.seen)

ReadLine ==
    /\ reader.pc = "reading"
    /\ Len(reader.seen) < BatchLimit
    /\ Position < Len(cache.log)
    /\ reader' = [reader EXCEPT !.seen = Append(@, cache.log[Position + 1])]
    /\ UNCHANGED <<cache, disk, lock, writer, acked, failed, crashes>>

EndOfBatch ==
    /\ reader.pc = "reading"
    /\ \/ Len(reader.seen) = BatchLimit
       \/ Position >= Len(cache.log) /\ ~ cache.torn
    /\ reader' = [reader EXCEPT !.pc = "check"]
    /\ UNCHANGED <<cache, disk, lock, writer, acked, failed, crashes>>

RejectRead ==
    /\ \/ reader.pc = "reading" /\ Len(reader.seen) < BatchLimit
          /\ Position >= Len(cache.log) /\ cache.torn
       \/ reader.pc = "check" /\ cache.marker
    /\ reader' = [reader EXCEPT !.pc = "idle", !.seen = <<>>]
    /\ UNCHANGED <<cache, disk, lock, writer, acked, failed, crashes>>

\* Variant: the marker is checked only before the lines are read.
ReturnUnchecked ==
    /\ reader.pc = "check"
    /\ reader' = [pc |-> "idle", seen |-> <<>>, consumed |-> reader.consumed \o reader.seen]
    /\ UNCHANGED <<cache, disk, lock, writer, acked, failed, crashes>>

\* Variant: the consumer's cursor is not advanced with the lines.
ReturnWithoutCursor ==
    /\ reader.pc = "check"
    /\ ~ cache.marker
    /\ reader' = [reader EXCEPT !.pc = "idle", !.seen = <<>>]
    /\ UNCHANGED <<cache, disk, lock, writer, acked, failed, crashes>>

ReturnBatch ==
    /\ reader.pc = "check"
    /\ ~ cache.marker
    /\ reader' = [pc |-> "idle", seen |-> <<>>, consumed |-> reader.consumed \o reader.seen]
    /\ UNCHANGED <<cache, disk, lock, writer, acked, failed, crashes>>

-----------------------------------------------------------------------------
(* The environment                                                         *)

\* What may be left of the visible file system when the machine stops: each
\* item that was not fsynced is kept or lost, the last lines in part, and
\* with an undurable directory possibly everything.
Survivors ==
    {[dir |-> "there", marker |-> marker, entry |-> entry,
      log |-> IF entry THEN SubSeq(cache.log, 1, n) ELSE <<>>,
      torn |-> torn /\ entry /\ (cache.torn \/ n < Len(cache.log))] :
        marker \in {cache.marker, disk.marker}, entry \in {cache.entry, disk.entry},
        n \in disk.lines..Len(cache.log), torn \in BOOLEAN}
    \cup (IF disk.dir THEN {} ELSE
             {[dir |-> "absent", marker |-> FALSE, entry |-> FALSE,
               log |-> <<>>, torn |-> FALSE]})

Crash ==
    /\ crashes < MaxCrashes
    /\ crashes' = crashes + 1
    /\ \E left \in Survivors :
          /\ cache' = left
          /\ disk' = [dir |-> left.dir = "there", marker |-> left.marker,
                      entry |-> left.entry, lines |-> Len(left.log)]
    /\ writer' = [w \in Writers |-> Idle]
    /\ lock' = None
    /\ reader' = [reader EXCEPT !.pc = "idle", !.seen = <<>>]
    /\ UNCHANGED <<acked, failed>>

\* The operator inspects a log left invalid while nothing runs: an incomplete
\* last line is cut off and the marker removed, both durably.
Repair ==
    /\ cache.marker
    /\ lock = None
    /\ cache' = [cache EXCEPT !.marker = FALSE, !.torn = FALSE]
    /\ disk' = [disk EXCEPT !.marker = FALSE, !.entry = cache.entry, !.lines = Len(cache.log)]
    /\ failed' = failed \ ToSet(cache.log)
    /\ UNCHANGED <<lock, writer, reader, acked, crashes>>

-----------------------------------------------------------------------------

Init ==
    /\ cache = [dir |-> IF DirectoryThere THEN "there" ELSE "absent", marker |-> FALSE,
                entry |-> FALSE, log |-> <<>>, torn |-> FALSE]
    /\ disk = [dir |-> DirectoryThere, marker |-> FALSE, entry |-> FALSE, lines |-> 0]
    /\ lock = None
    /\ writer = [w \in Writers |-> Idle]
    /\ reader = [pc |-> "idle", seen |-> <<>>, consumed |-> <<>>]
    /\ acked = {}
    /\ failed = {}
    /\ crashes = 0

Proceed(w) ==
    \/ CreateMarker(w) \/ SyncMarker(w) \/ SyncParents(w) \/ WriteSome(w) \/ WriteRest(w)
    \/ Flush(w) \/ SyncEntry(w) \/ Unmark(w) \/ Commit(w)

Read == StartRead \/ ReadLine \/ EndOfBatch \/ RejectRead \/ ReturnBatch

Next ==
    \/ \E w \in Writers : (\E c \in Cycles : Begin(w, c)) \/ Proceed(w) \/ Raise(w) \/ Die(w)
    \/ Read
    \/ Crash
    \/ Repair

Spec == Init /\ [][Next]_vars

\* A call under way goes on, and the alert process polls the log again and
\* again; appending, failing, dying, crashing and repairing are up to chance.
Fairness == WF_vars(Read) /\ \A w \in Writers : WF_vars(Proceed(w))

FairSpec == Spec /\ Fairness

-----------------------------------------------------------------------------
(* Properties                                                              *)

\* Whenever a line is incomplete or not yet durable, the marker stands, in
\* the cache for readers and on disk for whoever comes after a crash: the
\* order of the fsync calls in append_cycle.
AmbiguityIsMarked ==
    (cache.torn \/ disk.lines < Len(cache.log)) => cache.marker /\ disk.marker

\* A batch that was returned stays a prefix of the log through every failure
\* and crash, so the anchored cursor of a consumer never loses its boundary
\* (the second marker check of read_batch).
ConsumedStays == IsPrefix(reader.consumed, cache.log)

\* A cycle whose append_cycle returned survives every crash.
AckedSurvives ==
    \A c \in acked : disk.dir /\ disk.entry /\ c \in ToSet(SubSeq(cache.log, 1, disk.lines))

\* A cycle once acknowledged reaches the consumer, provided the marker does
\* not stand in the way again and again (a failure nobody repairs, or an
\* append under way at every poll).
AckedIsConsumed ==
    (<>[] ~ cache.marker) => \A c \in Cycles : c \in acked ~> c \in ToSet(reader.consumed)
=============================================================================
