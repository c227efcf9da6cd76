------------------------ MODULE ArtifactPublication ------------------------
(***************************************************************************)
(* Publication, recovery and reading of one strategy artifact              *)
(* (mu_strategy/research/strategy_artifact_publication.py): the final      *)
(* file, the pending marker that bars readers, and the commit witness, a   *)
(* hard link to the marker.                                                *)
(*                                                                         *)
(* Every Publisher is one call of publish_strategy_artifact or             *)
(* recover_strategy_artifact.  A file is named by the call that created    *)
(* it: `fs' says which file each directory entry names, `disk' which one   *)
(* it names after a machine crash if nothing more is synced.               *)
(***************************************************************************)
EXTENDS Naturals, FiniteSets

CONSTANTS
    Publishers, Readers, Contents,
    MaxFaults,       \* bound on failed system calls, kills and machine crashes
    Legacy,          \* a final file older than the protocol
    None

ASSUME ArtifactPublicationAssumption ==
    /\ MaxFaults \in Nat /\ Contents # {}
    /\ None \notin Contents \cup Publishers /\ Legacy \notin Publishers \cup {None}

VARIABLES
    legacyContent,   \* the content of the file older than the protocol, or None
    fs, disk,
    proc, reader,
    faults

vars == <<legacyContent, fs, disk, proc, reader, faults>>

-----------------------------------------------------------------------------
(* Files                                                                   *)

\* `temps' are the temporary names, `made' that the parent directories exist,
\* on disk that they are durable up to the anchor.
Entries == [final : Publishers \cup {Legacy, None}, marker : Publishers \cup {None},
            witness : Publishers \cup {None}, temps : SUBSET Publishers, made : BOOLEAN]

NoEntries == [final |-> None, marker |-> None, witness |-> None, temps |-> {}, made |-> FALSE]

\* `mine' is the call whose record this one holds its own.
Fresh == [pc |-> "ready", recovers |-> FALSE, content |-> None, count |-> 0, whole |-> FALSE,
          mine |-> None, created |-> FALSE, seen |-> <<>>, conflict |-> FALSE]

Steps == {"witness", "committed", "flush", "confirm", "pending", "absent", "adopt", "mark",
          "record", "anchor", "recheck", "install", "retire", "final", "verify", "link", "seal",
          "sealed", "unmark", "removed", "restore", "restored", "finish", "finishing", "finished"}

IdleReader == [pc |-> "idle", witness |-> None, answer |-> None]

Content(file) == IF file = Legacy THEN legacyContent ELSE proc[file].content

\* _publication_record_bytes; a record that is not whole does not parse.
Record(file) == [content |-> proc[file].content, count |-> proc[file].count]
Whole(file) == file # None /\ proc[file].whole

\* The final file is a single regular one: its temporary name is gone.
SingleLink == fs.final # None /\ fs.final \notin fs.temps

Identical(p) == SingleLink /\ Content(fs.final) = proc[p].content

\* _read_committed_artifact
CommittedAgrees ==
    Whole(fs.witness) /\ SingleLink /\ Record(fs.witness).content = Content(fs.final)

TypeOK ==
    /\ legacyContent \in Contents \cup {None}
    /\ fs \in Entries /\ disk \in Entries
    /\ \A p \in Publishers :
           /\ DOMAIN proc[p] = DOMAIN Fresh
           /\ proc[p].pc \in Steps \cup {"ready", "ok", "failed", "dead"}
           /\ proc[p].content \in Contents \cup {None}
           /\ proc[p].mine \in (IF proc[p].pc = "ready" THEN {None} ELSE Publishers)
           /\ proc[p].pc = "ready" => p \notin {fs.final, fs.marker, fs.witness} \cup fs.temps
    /\ \A r \in Readers : reader[r].answer \in Contents \cup {None}
    /\ faults \in 0..MaxFaults

Init ==
    /\ legacyContent \in Contents \cup {None}
    /\ fs = IF legacyContent = None THEN NoEntries
            ELSE [NoEntries EXCEPT !.final = Legacy, !.made = TRUE]
    /\ disk = fs
    /\ proc = [p \in Publishers |-> Fresh]
    /\ reader = [r \in Readers |-> IdleReader]
    /\ faults = 0

-----------------------------------------------------------------------------
(* Steps of a call                                                         *)

Running(p) == proc[p].pc \in Steps
At(p, pc) == proc[p].pc = pc
Goto(p, pc) == proc' = [proc EXCEPT ![p].pc = pc]

\* The call raises; its temporary name is removed if it is still there.
Raise(p) ==
    /\ Goto(p, "failed")
    /\ fs' = [fs EXCEPT !.temps = @ \ {p}]

Return(p) ==
    /\ Goto(p, IF proc[p].conflict THEN "failed" ELSE "ok")
    /\ fs' = [fs EXCEPT !.temps = @ \ {p}]

Fault == faults < MaxFaults /\ faults' = faults + 1
NoFault == UNCHANGED faults

\* fsync_directory of the artifact's directory
Synced(entries) == [entries EXCEPT !.made = disk.made]

\* _fsync_directory_entries_to_anchor after it
SyncedToAnchor(entries) == [entries EXCEPT !.made = TRUE]

\* A step that succeeds if its check does, and raises otherwise.
Check(p, holds, next) ==
    /\ IF holds THEN Goto(p, next) /\ UNCHANGED fs ELSE Raise(p)
    /\ UNCHANGED <<legacyContent, disk, reader, faults>>

\* A directory sync, to the anchor or not; a failed one may have done part.
Sync(p, toAnchor, next) ==
    /\ \/ /\ disk' = IF toAnchor THEN SyncedToAnchor(fs) ELSE Synced(fs)
          /\ Goto(p, next) /\ UNCHANGED fs /\ NoFault
       \/ /\ disk' \in {disk, Synced(fs)}
          /\ Raise(p) /\ Fault
    /\ UNCHANGED <<legacyContent, reader>>

\* _create_parent_directories.  An operator recovers when the other writers
\* have stopped, and starts none meanwhile.
Begin(p, recovers, c) ==
    /\ At(p, "ready")
    /\ \A q \in Publishers : Running(q) => ~ recovers /\ ~ proc[q].recovers
    /\ proc' = [proc EXCEPT ![p] = [@ EXCEPT !.pc = "witness", !.recovers = recovers,
                  !.content = c, !.count = IF fs.made THEN 0 ELSE 1, !.mine = p]]
    /\ fs' = [fs EXCEPT !.made = @ \/ ~ recovers]
    /\ UNCHANGED <<legacyContent, disk, reader, faults>>

SeeWitness(p) ==
    /\ At(p, "witness")
    /\ Goto(p, IF fs.witness # None THEN "committed" ELSE "pending")
    /\ UNCHANGED <<legacyContent, fs, disk, reader, faults>>

\* _require_committed_artifact, or _require_recoverable_committed_artifact: a
\* recovery may meet the marker of its own content.
CommittedIsMine(p) ==
    /\ CommittedAgrees /\ Identical(p)
    /\ \/ fs.marker = None
       \/ /\ proc[p].recovers /\ Whole(fs.marker)
          /\ Record(fs.marker).content = Record(fs.witness).content

SeeCommitted(p) == At(p, "committed") /\ Check(p, CommittedIsMine(p), "flush")
FlushCommitted(p) == At(p, "flush") /\ Sync(p, TRUE, "confirm")

ConfirmCommitted(p) ==
    /\ At(p, "confirm")
    /\ IF ~ CommittedIsMine(p) THEN Raise(p)
       ELSE IF proc[p].recovers THEN Goto(p, "unmark") /\ UNCHANGED fs ELSE Return(p)
    /\ UNCHANGED <<legacyContent, disk, reader, faults>>

\* Variant: recovery compares the marker with the record it would write itself,
\* which counts the directories that this call has created.
TakeOverOwnRecord(p) ==
    /\ At(p, "pending")
    /\ \/ /\ fs.marker = None
          /\ IF proc[p].recovers
             THEN /\ proc' = [proc EXCEPT ![p].recovers = FALSE, ![p].pc = "witness",
                                          ![p].count = IF fs.made THEN 0 ELSE 1]
                  /\ fs' = [fs EXCEPT !.made = TRUE]
             ELSE Goto(p, "absent") /\ UNCHANGED fs
       \/ /\ fs.marker # None
          /\ IF proc[p].recovers /\ Whole(fs.marker) /\ Record(fs.marker) = Record(p)
             THEN /\ proc' = [proc EXCEPT ![p].mine = fs.marker, ![p].pc = "anchor"]
                  /\ UNCHANGED fs
             ELSE Raise(p)
    /\ UNCHANGED <<legacyContent, disk, reader, faults>>

\* Publication raises at a marker; recovery takes a whole one of its content
\* over, and without one does as publication.
SeePending(p) ==
    /\ At(p, "pending")
    /\ \/ /\ fs.marker = None
          /\ IF proc[p].recovers
             THEN /\ proc' = [proc EXCEPT ![p].recovers = FALSE, ![p].pc = "witness",
                                          ![p].count = IF fs.made THEN 0 ELSE 1]
                  /\ fs' = [fs EXCEPT !.made = TRUE]
             ELSE Goto(p, "absent") /\ UNCHANGED fs
       \/ /\ fs.marker # None
          /\ IF proc[p].recovers /\ Whole(fs.marker)
                /\ Record(fs.marker).content = proc[p].content
             THEN /\ proc' = [proc EXCEPT ![p].mine = fs.marker, ![p].pc = "anchor"]
                  /\ UNCHANGED fs
             ELSE Raise(p)
    /\ UNCHANGED <<legacyContent, disk, reader, faults>>

\* A final file without marker and witness is adopted if it is identical.
SeeFinal(p) ==
    /\ At(p, "absent")
    /\ IF fs.final = None
       THEN /\ Goto(p, "mark")
            /\ fs' = [fs EXCEPT !.temps = @ \cup {p}]
       ELSE IF Identical(p) THEN Goto(p, "adopt") /\ UNCHANGED fs ELSE Raise(p)
    /\ UNCHANGED <<legacyContent, disk, reader, faults>>

Adopt(p) ==
    /\ At(p, "adopt")
    /\ \/ disk' = SyncedToAnchor(fs) /\ Return(p) /\ NoFault
       \/ disk' \in {disk, Synced(fs)} /\ Raise(p) /\ Fault
    /\ UNCHANGED <<legacyContent, reader>>

\* Opened exclusively, and empty until it is written.
CreateMarker(p) ==
    /\ At(p, "mark")
    /\ IF fs.marker # None THEN Raise(p)
       ELSE /\ Goto(p, "record")
            /\ fs' = [fs EXCEPT !.marker = p]
    /\ UNCHANGED <<legacyContent, disk, reader, faults>>

\* Written and synced; a failure removes the marker if the call still owns it.
WriteRecord(p) ==
    /\ At(p, "record")
    /\ \/ /\ proc' = [proc EXCEPT ![p].whole = TRUE, ![p].pc = "anchor"]
          /\ UNCHANGED <<fs, disk>> /\ NoFault
       \/ /\ Goto(p, "failed")
          /\ \E gone \in BOOLEAN :
                fs' = [fs EXCEPT !.temps = @ \ {p},
                                 !.marker = IF gone /\ @ = p THEN None ELSE @]
          /\ disk' \in {disk, Synced(fs')}
          /\ Fault
    /\ UNCHANGED <<legacyContent, reader>>

\* Variant: the marker is not made durable before the final file is installed.
LeaveMarkerUnsynced(p) ==
    /\ At(p, "anchor")
    /\ Check(p, TRUE, IF proc[p].recovers THEN "install" ELSE "recheck")

SyncMarker(p) ==
    /\ At(p, "anchor")
    /\ Sync(p, TRUE, IF proc[p].recovers THEN "install" ELSE "recheck")

SeeConcurrentCommit(p) ==
    /\ At(p, "recheck")
    /\ Goto(p, IF fs.witness # None THEN "finish" ELSE "install")
    /\ UNCHANGED <<legacyContent, fs, disk, reader, faults>>

\* _install_final_without_overwrite: a hard link, which overwrites nothing.
Install(p) ==
    /\ At(p, "install")
    /\ \/ /\ fs.final # None
          /\ IF Identical(p) THEN Goto(p, "final") /\ UNCHANGED fs ELSE Raise(p)
          /\ NoFault
       \/ /\ fs.final = None
          /\ Goto(p, "retire")
          /\ fs' = [fs EXCEPT !.final = p, !.temps = @ \cup {p}]
          /\ NoFault
       \/ fs.final = None /\ Raise(p) /\ Fault
    /\ UNCHANGED <<legacyContent, disk, reader>>

RetireTemporary(p) ==
    /\ At(p, "retire")
    /\ \/ /\ Goto(p, "final")
          /\ fs' = [fs EXCEPT !.temps = @ \ {p}]
          /\ NoFault
       \/ /\ Goto(p, "failed")
          /\ fs' \in {fs, [fs EXCEPT !.temps = @ \ {p}]}
          /\ Fault
    /\ UNCHANGED <<legacyContent, disk, reader>>

\* Variant: the witness is linked before the final file's entry is durable.
SkipSync(p) == At(p, "final") /\ Check(p, TRUE, "verify")

SyncFinal(p) == At(p, "final") /\ Sync(p, FALSE, "verify")
VerifyFinal(p) == At(p, "verify") /\ Check(p, Identical(p), "link")

IsMine(p, file) == Whole(file) /\ Record(file) = Record(proc[p].mine)

\* _establish_commit_witness
LinkWitness(p) ==
    /\ At(p, "link")
    /\ \/ /\ fs.witness # None
          /\ IF IsMine(p, fs.witness) THEN Goto(p, "seal") /\ UNCHANGED fs ELSE Raise(p)
          /\ NoFault
       \/ /\ fs.witness = None /\ fs.marker # None
          /\ proc' = [proc EXCEPT ![p].created = TRUE, ![p].pc = "seal"]
          /\ fs' = [fs EXCEPT !.witness = fs.marker]
          /\ NoFault
       \/ fs.witness = None /\ fs.marker = None /\ Raise(p) /\ NoFault
       \/ fs.witness = None /\ Raise(p) /\ Fault
    /\ UNCHANGED <<legacyContent, disk, reader>>

\* A failed sync takes the witness back, as far as that goes.
SyncWitness(p) ==
    /\ At(p, "seal")
    /\ \/ disk' = Synced(fs) /\ Goto(p, "sealed") /\ UNCHANGED fs /\ NoFault
       \/ /\ Goto(p, "failed")
          /\ \E undone \in BOOLEAN :
                fs' = [fs EXCEPT !.temps = @ \ {p},
                                 !.witness = IF undone /\ proc[p].created THEN None ELSE @]
          /\ disk' \in {disk, Synced(fs), Synced(fs')}
          /\ Fault
    /\ UNCHANGED <<legacyContent, reader>>

CheckWitness(p) == At(p, "sealed") /\ Check(p, IsMine(p, fs.witness), "unmark")

\* _finish_publication_against_concurrent_commit
Finish(p) ==
    /\ At(p, "finish")
    /\ IF IsMine(p, fs.marker) /\ CommittedAgrees
       THEN /\ proc' = [proc EXCEPT ![p].pc = "finishing",
                                    ![p].seen = <<Record(fs.witness), Content(fs.final)>>]
            /\ UNCHANGED fs
       ELSE Raise(p)
    /\ UNCHANGED <<legacyContent, disk, reader, faults>>

SyncConcurrentCommit(p) == At(p, "finishing") /\ Sync(p, FALSE, "finished")

ConfirmConcurrentCommit(p) ==
    /\ At(p, "finished")
    /\ IF /\ CommittedAgrees /\ proc[p].seen = <<Record(fs.witness), Content(fs.final)>>
          /\ IsMine(p, fs.marker)
       THEN /\ proc' = [proc EXCEPT ![p].pc = "unmark",
                                    ![p].conflict = Content(fs.final) # proc[p].content]
            /\ UNCHANGED fs
       ELSE Raise(p)
    /\ UNCHANGED <<legacyContent, disk, reader, faults>>

-----------------------------------------------------------------------------
(* Removal of the marker                                                   *)

RemoveMarker(p) ==
    /\ At(p, "unmark")
    /\ \/ fs.marker = None /\ Return(p) /\ NoFault
       \/ /\ fs.marker # None
          /\ fs' = [fs EXCEPT !.marker = None]
          /\ Goto(p, "removed") /\ NoFault
       \/ fs.marker # None /\ Goto(p, "restore") /\ UNCHANGED fs /\ Fault
    /\ UNCHANGED <<legacyContent, disk, reader>>

SyncRemoval(p) ==
    /\ At(p, "removed")
    /\ \/ disk' = Synced(fs) /\ Return(p) /\ NoFault
       \/ disk' \in {disk, Synced(fs)} /\ Goto(p, "restore") /\ UNCHANGED fs /\ Fault
    /\ UNCHANGED <<legacyContent, reader>>

\* _restore_pending_marker_best_effort: from the witness, by link or by copy.
RestoreMarker(p) ==
    /\ At(p, "restore")
    /\ \/ /\ fs.marker = None
          /\ fs' = [fs EXCEPT !.marker = fs.witness]
          /\ disk' = Synced(fs') /\ NoFault
       \/ /\ fs.marker = None
          /\ fs' \in {fs, [fs EXCEPT !.marker = fs.witness]}
          /\ UNCHANGED disk /\ Fault
       \/ fs.marker # None /\ UNCHANGED fs /\ disk' = Synced(fs) /\ NoFault
       \/ fs.marker # None /\ UNCHANGED <<fs, disk>> /\ Fault
    /\ Goto(p, "restored")
    /\ UNCHANGED <<legacyContent, reader>>

\* With the marker back the call raises; without it, it is as good as removed.
AfterRestore(p) ==
    /\ At(p, "restored")
    /\ \/ fs.marker # None /\ Raise(p) /\ UNCHANGED disk /\ NoFault
       \/ fs.marker = None /\ Return(p) /\ disk' = Synced(fs) /\ NoFault
       \/ fs.marker = None /\ Return(p) /\ UNCHANGED disk /\ Fault
    /\ UNCHANGED <<legacyContent, reader>>

-----------------------------------------------------------------------------
(* Reading: read_strategy_artifact_text                                    *)

StartRead(r) ==
    /\ reader[r].pc = "idle"
    /\ fs.marker = None
    /\ reader' = [reader EXCEPT ![r] = [IdleReader EXCEPT !.pc = "witness"]]
    /\ UNCHANGED <<legacyContent, fs, disk, proc, faults>>

ReadWitness(r) ==
    /\ reader[r].pc = "witness"
    /\ reader' = [reader EXCEPT ![r].witness = fs.witness, ![r].pc = "text"]
    /\ UNCHANGED <<legacyContent, fs, disk, proc, faults>>

\* The text, bound by the witness if there was one; or an error.
ReadText(r) ==
    /\ reader[r].pc = "text"
    /\ reader' = [reader EXCEPT ![r] =
          IF SingleLink /\ (reader[r].witness # None => CommittedAgrees)
          THEN [@ EXCEPT !.answer = Content(fs.final), !.pc = "recheck"]
          ELSE IdleReader]
    /\ UNCHANGED <<legacyContent, fs, disk, proc, faults>>

RecheckWitness(r) ==
    /\ reader[r].pc = "recheck"
    /\ reader' = [reader EXCEPT ![r] =
          IF fs.witness = reader[r].witness THEN [@ EXCEPT !.pc = "barrier"] ELSE IdleReader]
    /\ UNCHANGED <<legacyContent, fs, disk, proc, faults>>

\* Variant: the marker is looked for once only, before reading.
SkipBarrier(r) ==
    /\ reader[r].pc = "barrier"
    /\ reader' = [reader EXCEPT ![r].pc = "answered"]
    /\ UNCHANGED <<legacyContent, fs, disk, proc, faults>>

RecheckMarker(r) ==
    /\ reader[r].pc = "barrier"
    /\ reader' = [reader EXCEPT ![r] =
          IF fs.marker = None THEN [@ EXCEPT !.pc = "answered"] ELSE IdleReader]
    /\ UNCHANGED <<legacyContent, fs, disk, proc, faults>>

ReadAgain(r) ==
    /\ reader[r].pc = "answered"
    /\ reader' = [reader EXCEPT ![r] = IdleReader]
    /\ UNCHANGED <<legacyContent, fs, disk, proc, faults>>

-----------------------------------------------------------------------------
(* Faults                                                                  *)

\* A record that was written but not synced may be read whole.
Die(p) ==
    /\ Running(p)
    /\ \E whole \in (IF At(p, "record") THEN BOOLEAN ELSE {proc[p].whole}) :
          proc' = [proc EXCEPT ![p].pc = "dead", ![p].whole = whole]
    /\ Fault
    /\ UNCHANGED <<legacyContent, fs, disk, reader>>

\* Every entry is the old or the new one; without a durable parent all may go.
Survivors ==
    {[final |-> f, marker |-> m, witness |-> w, temps |-> (fs.temps \cap disk.temps) \cup t, made |-> TRUE] :
        f \in {fs.final, disk.final}, m \in {fs.marker, disk.marker},
        w \in {fs.witness, disk.witness}, t \in SUBSET (fs.temps \cup disk.temps)}
    \cup (IF disk.made THEN {} ELSE {NoEntries})

Crash ==
    /\ Fault
    /\ fs' \in Survivors /\ disk' = fs'
    /\ proc' = [p \in Publishers |-> IF Running(p) THEN [proc[p] EXCEPT !.pc = "dead"] ELSE proc[p]]
    /\ reader' = [r \in Readers |-> IdleReader]
    /\ UNCHANGED legacyContent

-----------------------------------------------------------------------------
Publish(p) ==
    \/ \E c \in Contents, recovers \in BOOLEAN : Begin(p, recovers, c)
    \/ SeeWitness(p) \/ SeeCommitted(p) \/ FlushCommitted(p) \/ ConfirmCommitted(p)
    \/ SeePending(p) \/ SeeFinal(p) \/ Adopt(p)
    \/ CreateMarker(p) \/ WriteRecord(p) \/ SyncMarker(p) \/ SeeConcurrentCommit(p)
    \/ Install(p) \/ RetireTemporary(p) \/ SyncFinal(p) \/ VerifyFinal(p)
    \/ LinkWitness(p) \/ SyncWitness(p) \/ CheckWitness(p)
    \/ Finish(p) \/ SyncConcurrentCommit(p) \/ ConfirmConcurrentCommit(p)
    \/ RemoveMarker(p) \/ SyncRemoval(p) \/ RestoreMarker(p) \/ AfterRestore(p)
    \/ Die(p)

Read(r) ==
    \/ StartRead(r) \/ ReadWitness(r) \/ ReadText(r)
    \/ RecheckWitness(r) \/ RecheckMarker(r) \/ ReadAgain(r)

Next ==
    \/ Crash
    \/ \E p \in Publishers : Publish(p)
    \/ \E r \in Readers : Read(r)

Spec == Init /\ [][Next]_vars

-----------------------------------------------------------------------------
(* Properties                                                              *)

\* What is seen, and whatever a machine crash may leave of it.
Views == {fs} \cup Survivors

\* "A failed pre-commit publication cannot fall through to legacy shape"
\* (docs/strategy-release-provenance.md:74): a final file the protocol
\* installed never stands without marker or witness, however the calls and
\* their cleanups interleave, fail or are cut off.
NeverLegacyShape ==
    legacyContent = None =>
        \A v \in Views : v.final # None => v.marker # None \/ v.witness # None

\* A witness proves the final file: wherever the witness survives, the file it
\* was written for is there with its content.
WitnessProvesFinal ==
    \A v \in Views : v.witness # None =>
        /\ Whole(v.witness) /\ v.final # None
        /\ Record(v.witness).content = Content(v.final)

\* What recovery cannot complete: a doubled link, a marker that was not written
\* whole, and a marker or a witness of another content.
Irrecoverable(p) ==
    \/ fs.final # None /\ ~ SingleLink
    \/ fs.marker # None /\ ~ Whole(fs.marker)
    \/ \E file \in {fs.marker, fs.witness} \ {None} : Record(file).content # proc[p].content

\* "Explicitly complete a failed publication after verifying its exact bytes"
\* (recover_strategy_artifact): wherever earlier calls failed, died or lost what
\* was not synced, a recovery that meets no failure of its own (restored: the
\* removal of the marker has failed) gives up on nothing else.
RecoveryRefusesOnlyConflicts ==
    [][\A p \in Publishers :
          proc[p].recovers /\ Running(p) /\ ~ At(p, "restored")
            /\ At(p, "failed")' /\ UNCHANGED faults
              => Irrecoverable(p)]_vars

\* The path is bound when the final file is durable: successes and answers
\* are about the one content it is bound to.
WriteOnceRegister == INSTANCE WriteOnce WITH
    bound <- IF disk.final = None THEN None ELSE Content(disk.final),
    acked <- [p \in Publishers |-> IF proc[p].pc = "ok" THEN proc[p].content ELSE None],
    answer <- [r \in Readers |-> IF reader[r].pc = "answered" THEN reader[r].answer ELSE None]

ImplementsWriteOnce == WriteOnceRegister!Spec
=============================================================================
