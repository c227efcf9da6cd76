---------------------- MODULE ArtifactPublicationProofs ----------------------
(***************************************************************************)
(* What the publication of a strategy artifact guarantees, for any number  *)
(* of calls, readers, contents, failed system calls, kills and crashes.    *)
(* The marker is a lock that outlives its holder: who is past creating it  *)
(* is alone with the final name and the witness, and lets go of it only    *)
(* when the witness is durable.                                            *)
(***************************************************************************)
EXTENDS ArtifactPublication, TLAPS

Stops == {"ready", "ok", "failed", "dead"}

Records == [content : Contents \cup {None}, count : {0, 1}]

ProcStates ==
    [pc : Steps \cup Stops, recovers : BOOLEAN, content : Contents \cup {None}, count : {0, 1},
     whole : BOOLEAN, mine : Publishers \cup {None}, created : BOOLEAN,
     seen : {<<>>} \cup (Records \X (Contents \cup {None})), conflict : BOOLEAN]

ReaderStates ==
    [pc : {"idle", "witness", "text", "recheck", "barrier", "answered"},
     witness : Publishers \cup {None}, answer : Contents \cup {None}]

PubTypes ==
    /\ legacyContent \in Contents \cup {None}
    /\ fs \in Entries /\ disk \in Entries
    /\ proc \in [Publishers -> ProcStates]
    /\ reader \in [Readers -> ReaderStates]
    /\ faults \in 0..MaxFaults

-----------------------------------------------------------------------------
(* The files.                                                              *)

\* The witness is there, and durable.
Sealed == fs.witness # None /\ disk.witness # None

\* The final file is there once and for all, and durable before any witness.
FinalIsPart == disk.final \in {None, fs.final}

WitnessesProve ==
    \A w \in {fs.witness, disk.witness} : w # None =>
        /\ Whole(w) /\ fs.final # None /\ disk.final = fs.final
        /\ Content(w) = Content(fs.final)

\* What the protocol installed is bound by a durable witness, or by a durable
\* marker of its content.
FinalIsBound ==
    fs.final # None /\ legacyContent = None =>
        \/ Sealed
        \/ /\ fs.marker = disk.marker /\ Whole(fs.marker)
           /\ Content(fs.marker) = Content(fs.final)

FinalIsMade == fs.final # None => disk.made

LegacyStays ==
    IF legacyContent = None THEN fs.final # Legacy
    ELSE /\ fs.final = Legacy /\ disk.final = Legacy
         /\ {fs.marker, fs.witness, disk.marker, disk.witness} = {None}

Names == {fs.final, fs.marker, fs.witness, disk.final, disk.marker, disk.witness}

\* A file belongs to a call that has begun.
FilesAreBegun ==
    \A p \in Publishers :
        IF proc[p].pc = "ready" THEN proc[p] = Fresh /\ p \notin Names \cup fs.temps \cup disk.temps
        ELSE proc[p].content \in Contents /\ proc[p].mine \in Publishers

FilesInv ==
    /\ FinalIsPart /\ WitnessesProve /\ FinalIsBound /\ FinalIsMade /\ LegacyStays
    /\ FilesAreBegun

-----------------------------------------------------------------------------
(* The calls.                                                              *)

HoldingSteps ==
    {"record", "anchor", "recheck", "install", "retire", "final", "verify", "link", "seal",
     "sealed", "finish", "finishing", "finished"}

PastAnchor == HoldingSteps \ {"record", "anchor"}

\* After these a call may still remove the marker, or has.
SealedSteps == {"unmark", "removed", "restore", "restored"}

\* The call has the marker to itself.
Holds(p) == proc[p].pc \in HoldingSteps \/ (proc[p].pc = "unmark" /\ ~ proc[p].recovers)

MarkerOf(p) ==
    /\ Holds(p) =>
          /\ fs.marker = proc[p].mine /\ proc[p].mine # None
          /\ ~ proc[p].recovers => proc[p].mine = p
          /\ Content(proc[p].mine) = proc[p].content
    /\ proc[p].pc \in HoldingSteps \ {"record"} => Whole(proc[p].mine)
    /\ proc[p].pc \in PastAnchor => disk.marker = proc[p].mine /\ disk.made

FinalOf(p) ==
    LET pc == proc[p].pc IN
    /\ pc \in {"record", "anchor", "recheck"} /\ ~ proc[p].recovers /\ fs.final # None => Sealed
    /\ pc = "install" /\ ~ proc[p].recovers => fs.final = None
    /\ pc \in {"adopt", "retire", "final", "verify", "link", "seal", "sealed"} => fs.final # None
    /\ pc \in {"verify", "link", "seal", "sealed"} => disk.final = fs.final
    /\ \/ pc \in {"adopt", "link", "seal", "sealed"}
       \/ pc \in SealedSteps /\ ~ proc[p].conflict
       => Content(fs.final) = proc[p].content

WitnessOf(p) ==
    LET pc == proc[p].pc IN
    /\ pc = "seal" => fs.witness # None
    /\ pc \in {"flush", "confirm"} /\ proc[p].recovers => fs.witness # None
    /\ pc = "confirm" /\ proc[p].recovers => Sealed
    /\ pc \in {"sealed", "finish", "finishing", "finished"} \cup SealedSteps => Sealed
    /\ pc \in Steps \ ({"seal", "sealed"} \cup SealedSteps) => ~ proc[p].created

CallOf(p) ==
    /\ proc[p].pc \in {"absent", "adopt", "mark", "record", "recheck", "finish", "finishing", "finished"}
          => ~ proc[p].recovers
    /\ proc[p].pc \in {"witness", "committed", "flush", "confirm", "pending", "absent", "adopt",
                       "mark", "record"}
          => ~ proc[p].whole /\ proc[p].mine = p
    /\ MarkerOf(p) /\ FinalOf(p) /\ WitnessOf(p)
    /\ legacyContent # None => proc[p].pc \in Stops \cup {"witness", "pending", "absent", "adopt"}

CallsInv == \A p \in Publishers : CallOf(p)

\* A recovery is alone, and so is who may still take the witness back.
Alone ==
    \A p, q \in Publishers : p # q =>
        /\ proc[p].recovers /\ Running(p) => ~ Running(q)
        /\ proc[p].pc = "seal" /\ proc[p].created => proc[q].pc \notin SealedSteps

ReaderOf(r) ==
    /\ reader[r].pc \in {"recheck", "barrier"} =>
          fs.final # None /\ reader[r].answer = Content(fs.final)
    /\ reader[r].pc = "answered" => disk.final # None

ReadersInv == \A r \in Readers : ReaderOf(r)

PubInv == PubTypes /\ FilesInv /\ CallsInv /\ Alone /\ ReadersInv

-----------------------------------------------------------------------------
(* Steps that leave the entries as they are.                               *)

Went(p, pc) ==
    /\ proc' \in [Publishers -> ProcStates]
    /\ \A q \in Publishers : q # p => proc'[q] = proc[q]
    /\ proc'[p].pc = pc
    /\ proc'[p].recovers = proc[p].recovers /\ proc'[p].content = proc[p].content
    /\ proc'[p].count = proc[p].count /\ proc'[p].whole = proc[p].whole
    /\ proc'[p].mine = proc[p].mine /\ proc'[p].created = proc[p].created
    /\ proc'[p].seen = proc[p].seen /\ proc'[p].conflict = proc[p].conflict

SameEntries(p) ==
    /\ fs' \in Entries
    /\ fs'.final = fs.final /\ fs'.marker = fs.marker /\ fs'.witness = fs.witness
    /\ fs'.temps \subseteq fs.temps \cup {p}

SyncsDisk ==
    /\ disk' \in Entries
    /\ \/ /\ disk'.final = disk.final /\ disk'.marker = disk.marker /\ disk'.witness = disk.witness
       \/ /\ disk'.final = fs.final /\ disk'.marker = fs.marker /\ disk'.witness = fs.witness
    /\ disk.made => disk'.made
    /\ disk'.temps \subseteq disk.temps \cup fs.temps

KeepsFiles(p) ==
    /\ UNCHANGED <<legacyContent, reader>> /\ faults' \in 0..MaxFaults
    /\ proc' \in [Publishers -> ProcStates]
    /\ \A q \in Publishers : q # p => proc'[q] = proc[q]
    /\ proc[p].whole => proc'[p].whole
    /\ proc[p].pc # "ready" => proc'[p].content = proc[p].content
    /\ proc'[p].pc # "ready" /\ proc'[p].content \in Contents /\ proc'[p].mine \in Publishers

\* At most the marker moves.
Steady(p) ==
    /\ KeepsFiles(p)
    /\ fs' \in Entries /\ disk' \in Entries
    /\ fs'.final = fs.final /\ fs'.witness = fs.witness
    /\ \/ disk'.final = disk.final /\ disk'.witness = disk.witness
       \/ disk'.final = fs.final /\ disk'.witness = fs.witness
    /\ disk.made => disk'.made
    /\ Names' \subseteq Names \cup {p, None}
    /\ fs'.temps \cup disk'.temps \subseteq fs.temps \cup disk.temps \cup {p}

Quiet(p) == KeepsFiles(p) /\ SameEntries(p) /\ SyncsDisk

\* Who is alone stays alone.
StaysAlone(p) ==
    /\ proc'[p].recovers /\ Running(p)' =>
          \/ proc[p].recovers /\ Running(p)
          \/ \A q \in Publishers : q # p => ~ Running(q)
    /\ Running(p)' =>
          \/ Running(p)
          \/ \A q \in Publishers : q # p => ~ (Running(q) /\ proc[q].recovers)
    /\ proc'[p].pc = "seal" /\ proc'[p].created =>
          \/ proc[p].pc = "seal" /\ proc[p].created
          \/ \A q \in Publishers : q # p => proc[q].pc \notin SealedSteps
    /\ proc'[p].pc \in SealedSteps =>
          \/ proc[p].pc \in SealedSteps
          \/ \A q \in Publishers : q # p => ~ (proc[q].pc = "seal" /\ proc[q].created)

\* A file that has a name keeps its bytes.
LEMMA FilesStay ==
    ASSUME PubInv, NEW p \in Publishers, KeepsFiles(p), NEW f \in Names, f # None
    PROVE  Content(f)' = Content(f) /\ (f # Legacy /\ Whole(f) => Whole(f)')
<1> USE DEF PubInv
<1>1. f \in Publishers \cup {Legacy}
  BY DEF Names, PubTypes, Entries
<1>2. f = p => proc[p].pc # "ready"
  BY DEF FilesInv, FilesAreBegun
<1>3. f = Legacy => f \notin Publishers
  BY ArtifactPublicationAssumption
<1>4. CASE f = p
  BY <1>2, <1>3, <1>4 DEF KeepsFiles, Content, Whole
<1>5. CASE f = Legacy
  BY <1>5 DEF KeepsFiles, Content
<1>6. CASE f # p /\ f # Legacy
  <2>1. proc'[f] = proc[f]
    BY <1>1, <1>6 DEF KeepsFiles
  <2> QED
    BY <1>6, <2>1 DEF Content, Whole
<1> QED
  BY <1>4, <1>5, <1>6

LEMMA FinalStays ==
    ASSUME PubInv, NEW p \in Publishers, KeepsFiles(p), fs'.final = fs.final, fs.final # None
    PROVE  Content(fs.final)' = Content(fs.final)
<1>1. fs.final \in Names
  BY DEF Names
<1> QED
  BY <1>1, FilesStay DEF Content

\* The holder's record is a file that has a name.
LEMMA MineStays ==
    ASSUME PubInv, NEW p \in Publishers, KeepsFiles(p), NEW q \in Publishers, Holds(q),
           proc'[q].mine = proc[q].mine
    PROVE  /\ Content(proc[q].mine)' = Content(proc[q].mine)
           /\ Whole(proc[q].mine) => Whole(proc[q].mine)'
<1>1. fs.marker = proc[q].mine /\ fs.marker \in Names /\ fs.marker # None
  BY DEF PubInv, CallsInv, CallOf, MarkerOf, Names
<1>2. fs.marker # Legacy
  BY ArtifactPublicationAssumption DEF PubInv, PubTypes, Entries
<1> QED
  BY <1>1, <1>2, FilesStay DEF Content, Whole

\* What is known of the files stays known.
LEMMA SteadyFiles ==
    ASSUME PubInv, NEW p \in Publishers, Steady(p)
    PROVE  FinalIsPart' /\ WitnessesProve' /\ FinalIsMade' /\ FilesAreBegun' /\ (Sealed => Sealed')
<1> USE DEF PubInv
<1>1. \A f \in Names : f # None =>
         Content(f)' = Content(f) /\ (f # Legacy /\ Whole(f) => Whole(f)')
  BY FilesStay DEF Steady
<1>2. FinalIsPart'
  BY DEF FilesInv, FinalIsPart, Steady
<1>3. WitnessesProve'
  <2> SUFFICES ASSUME NEW w \in {fs'.witness, disk'.witness}, w # None
               PROVE  /\ Whole(w)' /\ fs'.final # None /\ disk'.final = fs'.final
                      /\ Content(w)' = Content(fs.final)'
    BY DEF WitnessesProve
  <2>1. w \in {fs.witness, disk.witness} /\ fs'.final = fs.final
    BY DEF Steady
  <2>2. Whole(w) /\ fs.final # None /\ disk.final = fs.final /\ Content(w) = Content(fs.final)
    BY <2>1 DEF FilesInv, WitnessesProve
  <2>3. w \in Names /\ fs.final \in Names /\ w # Legacy
    BY <2>1, ArtifactPublicationAssumption DEF Names, PubTypes, Entries
  <2>4. disk'.final = fs'.final
    BY <2>1, <2>2 DEF Steady
  <2>5. Content(fs.final)' = Content(fs.final)
    BY <1>1, <2>1, <2>2, <2>3 DEF Content
  <2> QED
    BY <1>1, <2>1, <2>2, <2>3, <2>4, <2>5
<1>4. FinalIsMade'
  BY DEF FilesInv, FinalIsMade, Steady
<1>5. FilesAreBegun'
  <2> SUFFICES ASSUME NEW q \in Publishers
               PROVE  IF proc'[q].pc = "ready"
                      THEN proc'[q] = Fresh /\ q \notin Names' \cup fs'.temps \cup disk'.temps
                      ELSE proc'[q].content \in Contents /\ proc'[q].mine \in Publishers
    BY DEF FilesAreBegun
  <2>1. CASE q = p
    BY <2>1 DEF Steady, KeepsFiles
  <2>2. CASE q # p
    BY <2>2, ArtifactPublicationAssumption DEF Steady, KeepsFiles, FilesInv, FilesAreBegun
  <2> QED
    BY <2>1, <2>2
<1> QED
  BY <1>2, <1>3, <1>4, <1>5 DEF Sealed, Steady

LEMMA SteadyReaders ==
    ASSUME PubInv, NEW p \in Publishers, KeepsFiles(p), fs'.final = fs.final,
           disk'.final \in {disk.final, fs.final}
    PROVE  ReadersInv'
<1> USE DEF PubInv
<1>1. fs.final # None => Content(fs.final)' = Content(fs.final)
  BY FinalStays
<1>2. disk.final # None => disk'.final # None
  BY DEF FilesInv, FinalIsPart
<1> QED
  BY <1>1, <1>2 DEF ReadersInv, ReaderOf, KeepsFiles

\* Nor does another call lose what it knows of them.
LEMMA SteadyOthers ==
    ASSUME PubInv, NEW p \in Publishers, Steady(p), NEW q \in Publishers, q # p
    PROVE  FinalOf(q)' /\ WitnessOf(q)' /\ (MarkerOf(q)' => CallOf(q)')
<1> USE DEF PubInv
<1>1. proc'[q] = proc[q] /\ CallOf(q)
  BY DEF Steady, KeepsFiles, CallsInv
<1>2. fs'.final = fs.final /\ fs'.witness = fs.witness /\ legacyContent' = legacyContent
  BY DEF Steady, KeepsFiles
<1>3. fs.final # None => Content(fs.final)' = Content(fs.final)
  BY <1>2, FinalStays DEF Steady
<1>4. Sealed => Sealed'
  BY SteadyFiles
<1>5. disk.final = fs.final => disk'.final = fs.final
  BY DEF Steady
<1>6. proc[q].pc \in SealedSteps \cup {"adopt", "link", "seal", "sealed"} => fs.final # None
  BY <1>1 DEF FilesInv, WitnessesProve, CallOf, WitnessOf, FinalOf, Sealed
<1>7. \/ proc[q].pc \in {"adopt", "link", "seal", "sealed"}
      \/ proc[q].pc \in SealedSteps /\ ~ proc[q].conflict
      => Content(fs.final)' = proc'[q].content
  BY <1>1, <1>3, <1>6 DEF CallOf, FinalOf
<1>8. /\ proc'[q].pc \in {"record", "anchor", "recheck"} /\ ~ proc'[q].recovers /\ fs'.final # None
           => Sealed'
      /\ proc'[q].pc = "install" /\ ~ proc'[q].recovers => fs'.final = None
      /\ proc'[q].pc \in {"adopt", "retire", "final", "verify", "link", "seal", "sealed"}
           => fs'.final # None
      /\ proc'[q].pc \in {"verify", "link", "seal", "sealed"} => disk'.final = fs'.final
  BY <1>1, <1>2, <1>4, <1>5 DEF CallOf, FinalOf
<1>9. FinalOf(q)'
  BY <1>1, <1>7, <1>8 DEF FinalOf
<1>10. WitnessOf(q)'
  BY <1>1, <1>2, <1>4 DEF CallOf, WitnessOf
<1> QED
  BY <1>1, <1>2, <1>9, <1>10 DEF CallOf

LEMMA QuietIsSteady ==
    ASSUME NEW p \in Publishers, Quiet(p)
    PROVE  Steady(p)
BY DEF Steady, Quiet, SameEntries, SyncsDisk, Names

LEMMA QuietFiles ==
    ASSUME PubInv, NEW p \in Publishers, Quiet(p)
    PROVE  FilesInv'
<1> USE DEF PubInv
<1>1. FinalIsBound'
  <2> SUFFICES ASSUME fs'.final # None, legacyContent' = None
               PROVE  \/ Sealed'
                      \/ /\ fs'.marker = disk'.marker /\ Whole(fs.marker)'
                         /\ Content(fs.marker)' = Content(fs.final)'
    BY DEF FinalIsBound
  <2>1. fs'.final = fs.final /\ fs'.marker = fs.marker /\ legacyContent = None
    BY DEF Quiet, KeepsFiles, SameEntries
  <2>2. CASE Sealed
    BY <2>2, QuietIsSteady, SteadyFiles
  <2>3. CASE fs.marker = disk.marker /\ Whole(fs.marker) /\ Content(fs.marker) = Content(fs.final)
    <3>1. fs.marker \in Names /\ fs.final \in Names /\ fs.marker \notin {None, Legacy}
      BY <2>3, ArtifactPublicationAssumption DEF Names, Whole, PubTypes, Entries
    <3>2. Content(fs.marker)' = Content(fs.marker) /\ Content(fs.final)' = Content(fs.final)
          /\ Whole(fs.marker)'
      BY <2>1, <2>3, <3>1, FilesStay DEF Quiet, Content, Whole
    <3>3. fs'.marker = disk'.marker
      BY <2>1, <2>3 DEF Quiet, SyncsDisk
    <3> QED
      BY <2>1, <2>3, <3>2, <3>3
  <2> QED
    BY <2>1, <2>2, <2>3 DEF FilesInv, FinalIsBound
<1>2. LegacyStays'
  BY DEF FilesInv, LegacyStays, Quiet, KeepsFiles, SameEntries, SyncsDisk
<1> QED
  BY <1>1, <1>2, QuietIsSteady, SteadyFiles DEF FilesInv

LEMMA QuietOthers ==
    ASSUME PubInv, NEW p \in Publishers, Quiet(p), NEW q \in Publishers, q # p
    PROVE  CallOf(q)'
<1> USE DEF PubInv
<1>1. proc'[q] = proc[q] /\ CallOf(q) /\ fs'.marker = fs.marker
  BY DEF Quiet, KeepsFiles, SameEntries, CallsInv
<1>2. disk.made => disk'.made
  BY DEF Quiet, SyncsDisk
<1>3. Holds(q)' = Holds(q)
  BY <1>1 DEF Holds
<1>4. Holds(q) => /\ Content(proc[q].mine)' = Content(proc[q].mine)
                  /\ Whole(proc[q].mine) => Whole(proc[q].mine)'
  BY <1>1, MineStays DEF Quiet
<1>5. disk.marker = fs.marker => disk'.marker = fs.marker
  BY DEF Quiet, SyncsDisk
<1>6. proc[q].pc \in HoldingSteps => Holds(q)
  BY DEF Holds
<1>7. proc[q].pc \in PastAnchor => proc[q].pc \in HoldingSteps
  BY DEF PastAnchor
<1>8. Holds(q)' => /\ fs'.marker = proc'[q].mine /\ proc'[q].mine # None
                   /\ ~ proc'[q].recovers => proc'[q].mine = q
                   /\ Content(proc[q].mine)' = proc'[q].content
  BY <1>1, <1>3, <1>4 DEF CallOf, MarkerOf
<1>9. proc'[q].pc \in HoldingSteps \ {"record"} => Whole(proc[q].mine)'
  BY <1>1, <1>4, <1>6 DEF CallOf, MarkerOf
<1>10. proc'[q].pc \in PastAnchor => disk'.marker = proc'[q].mine /\ disk'.made
  BY <1>1, <1>2, <1>5, <1>6, <1>7 DEF CallOf, MarkerOf
<1>11. MarkerOf(q)'
  BY <1>8, <1>9, <1>10 DEF MarkerOf
<1> QED
  BY <1>11, QuietIsSteady, SteadyOthers

LEMMA StayingAlone ==
    ASSUME Alone, NEW p \in Publishers, StaysAlone(p),
           \A q \in Publishers : q # p => proc'[q] = proc[q]
    PROVE  Alone'
<1> SUFFICES ASSUME NEW a \in Publishers, NEW b \in Publishers, a # b
             PROVE  /\ proc'[a].recovers /\ Running(a)' => ~ Running(b)'
                    /\ proc'[a].pc = "seal" /\ proc'[a].created => proc'[b].pc \notin SealedSteps
  BY DEF Alone
<1>1. CASE a = p
  BY <1>1 DEF Alone, StaysAlone, Running
<1>2. CASE b = p
  BY <1>2 DEF Alone, StaysAlone, Running
<1>3. CASE a # p /\ b # p
  BY <1>3 DEF Alone, Running
<1> QED
  BY <1>1, <1>2, <1>3

\* What is left to show of a quiet step is what it means for its own call.
LEMMA QuietKeeps ==
    ASSUME PubInv, NEW p \in Publishers, Quiet(p), CallOf(p)', StaysAlone(p)
    PROVE  PubInv'
<1>1. PubTypes'
  BY DEF PubInv, PubTypes, Quiet, KeepsFiles, SameEntries, SyncsDisk
<1>2. CallsInv'
  BY QuietOthers DEF CallsInv
<1>3. Alone'
  BY StayingAlone DEF PubInv, Quiet, KeepsFiles
<1>4. ReadersInv'
  BY SteadyReaders DEF Quiet, SameEntries, SyncsDisk
<1> QED
  BY <1>1, <1>2, <1>3, QuietFiles, <1>4 DEF PubInv

\* A call that stops leaves nothing to show.
LEMMA EndingKeeps ==
    ASSUME PubInv, NEW p \in Publishers, Quiet(p), proc'[p].pc \in {"ok", "failed", "dead"}
    PROVE  PubInv'
<1>1. CallOf(p)'
  BY DEF CallOf, MarkerOf, FinalOf, WitnessOf, Holds, HoldingSteps, PastAnchor, SealedSteps, Stops, Steps
<1>2. StaysAlone(p)
  BY DEF StaysAlone, Running, Steps, SealedSteps
<1> QED
  BY <1>1, <1>2, QuietKeeps

-----------------------------------------------------------------------------
(* The ways a step moves its call, the entries and the disk.               *)

LEMMA Going ==
    ASSUME PubTypes, NEW p \in Publishers, NEW pc \in Steps \cup Stops, Goto(p, pc)
    PROVE  Went(p, pc)
<1>1. proc[p] \in ProcStates /\ proc'[p] = [proc[p] EXCEPT !.pc = pc]
      /\ \A q \in Publishers : q # p => proc'[q] = proc[q]
  BY DEF PubTypes, Goto
<1>2. proc'[p] \in ProcStates
  BY <1>1 DEF ProcStates
<1>3. proc' \in [Publishers -> ProcStates]
  BY <1>1, <1>2 DEF Goto, PubTypes
<1> QED
  BY <1>1, <1>3 DEF Went, ProcStates

LEMMA Syncing ==
    ASSUME PubTypes, disk' \in {disk, Synced(fs), SyncedToAnchor(fs)}
    PROVE  SyncsDisk
BY DEF PubTypes, Entries, Synced, SyncedToAnchor, SyncsDisk

LEMMA Dropping ==
    ASSUME PubTypes, NEW p \in Publishers,
           fs' \in {fs, [fs EXCEPT !.temps = @ \ {p}], [fs EXCEPT !.temps = @ \cup {p}]}
    PROVE  SameEntries(p)
BY DEF PubTypes, Entries, SameEntries

LEMMA Faulting ==
    ASSUME PubTypes, Fault \/ NoFault
    PROVE  faults' \in 0..MaxFaults
BY ArtifactPublicationAssumption DEF PubTypes, Fault, NoFault

LEMMA RunningHas ==
    ASSUME PubInv, NEW p \in Publishers, Running(p)
    PROVE  proc[p].content \in Contents /\ proc[p].mine \in Publishers /\ proc[p].pc # "ready"
BY DEF PubInv, FilesInv, FilesAreBegun, Running, Steps

LEMMA QuietBecause ==
    ASSUME PubInv, NEW p \in Publishers, Running(p),
           NEW pc \in (Steps \cup Stops) \ {"ready"}, Went(p, pc),
           SameEntries(p), SyncsDisk, UNCHANGED <<legacyContent, reader>>, faults' \in 0..MaxFaults
    PROVE  Quiet(p)
BY RunningHas DEF Quiet, KeepsFiles, Went

LEMMA RaiseKeeps ==
    ASSUME PubInv, NEW p \in Publishers, Running(p), Raise(p),
           disk' \in {disk, Synced(fs), SyncedToAnchor(fs)},
           UNCHANGED <<legacyContent, reader>>, Fault \/ NoFault
    PROVE  PubInv'
<1>1. Went(p, "failed")
  BY Going DEF PubInv, Raise, Stops
<1>2. Quiet(p)
  BY <1>1, Syncing, Dropping, Faulting, QuietBecause DEF PubInv, Raise, Stops
<1> QED
  BY <1>1, <1>2, EndingKeeps DEF Went

LEMMA ReturnKeeps ==
    ASSUME PubInv, NEW p \in Publishers, Running(p), Return(p),
           disk' \in {disk, Synced(fs), SyncedToAnchor(fs)},
           UNCHANGED <<legacyContent, reader>>, Fault \/ NoFault
    PROVE  PubInv'
<1>1. PICK pc \in {"ok", "failed"} : Goto(p, pc)
  BY DEF Return
<1>2. Went(p, pc)
  BY <1>1, Going DEF PubInv, Stops
<1>3. Quiet(p)
  BY <1>2, Syncing, Dropping, Faulting, QuietBecause DEF PubInv, Return, Stops
<1> QED
  BY <1>2, <1>3, EndingKeeps DEF Went

\* Who is alone with the marker is the only one: it bears the name of its
\* holder, or a recovery holds it and nobody else runs.
LEMMA OneHolder ==
    ASSUME PubInv, NEW p \in Publishers, NEW q \in Publishers, Holds(p), Holds(q)
    PROVE  p = q
<1> SUFFICES ASSUME p # q PROVE FALSE
  OBVIOUS
<1>1. Running(p) /\ Running(q)
  BY DEF Holds, Running, HoldingSteps, Steps
<1>2. ~ proc[p].recovers /\ ~ proc[q].recovers
  BY <1>1 DEF PubInv, Alone
<1> QED
  BY <1>2 DEF PubInv, CallsInv, CallOf, MarkerOf

\* A call that goes on without a change to the files.
LEMMA MoveIsQuiet ==
    ASSUME PubInv, NEW p \in Publishers, Running(p), NEW pc \in Steps, Goto(p, pc),
           fs' \in {fs, [fs EXCEPT !.temps = @ \ {p}], [fs EXCEPT !.temps = @ \cup {p}]},
           disk' \in {disk, Synced(fs), SyncedToAnchor(fs)},
           UNCHANGED <<legacyContent, reader>>, Fault \/ NoFault
    PROVE  /\ Quiet(p) /\ Went(p, pc)
           /\ fs'.final = fs.final /\ fs'.marker = fs.marker /\ fs'.witness = fs.witness
           /\ fs.final # None => Content(fs.final)' = Content(fs.final)
<1>1. Went(p, pc)
  BY Going DEF PubInv
<1>2. Quiet(p)
  BY <1>1, Syncing, Dropping, Faulting, QuietBecause DEF PubInv, Stops, Steps
<1>3. fs'.final = fs.final /\ fs'.marker = fs.marker /\ fs'.witness = fs.witness
  BY <1>2 DEF Quiet, KeepsFiles, SameEntries
<1> QED
  BY <1>1, <1>2, <1>3, FinalStays DEF Quiet

-----------------------------------------------------------------------------
(* The steps of a call before it has the marker.                           *)

LEMMA SeeWitnessKeeps ==
    ASSUME PubInv, NEW p \in Publishers, SeeWitness(p)
    PROVE  PubInv'
<1>0. Running(p)
  BY DEF SeeWitness, At, Running, Steps
<1>1. PICK pc \in {"committed", "pending"} :
         Goto(p, pc) /\ (pc = "committed" => fs.witness # None)
  BY DEF SeeWitness
<1>2. Quiet(p) /\ Went(p, pc)
  BY <1>0, <1>1, MoveIsQuiet DEF SeeWitness, NoFault, Steps
<1>3. CallOf(p)'
  BY <1>1, <1>2 DEF PubInv, CallsInv, FilesInv, LegacyStays, SeeWitness, At, Went, CallOf, MarkerOf,
     FinalOf, WitnessOf, Holds, HoldingSteps, PastAnchor, SealedSteps, Steps, Stops
<1>4. StaysAlone(p)
  BY <1>0, <1>1, <1>2 DEF StaysAlone, Went, Running, SealedSteps
<1> QED
  BY <1>2, <1>3, <1>4, QuietKeeps

LEMMA SeeCommittedKeeps ==
    ASSUME PubInv, NEW p \in Publishers, SeeCommitted(p)
    PROVE  PubInv'
<1>0. Running(p)
  BY DEF SeeCommitted, At, Running, Steps
<1>1. CASE Raise(p)
  BY <1>0, <1>1, RaiseKeeps DEF SeeCommitted, Check, NoFault
<1>2. CASE Goto(p, "flush") /\ UNCHANGED fs /\ CommittedIsMine(p)
  <2>1. Quiet(p) /\ Went(p, "flush") /\ fs'.witness = fs.witness
    BY <1>0, <1>2, MoveIsQuiet DEF SeeCommitted, Check, NoFault, Steps
  <2>2. fs.witness # None
    BY <1>2 DEF CommittedIsMine, CommittedAgrees, Whole
  <2>3. CallOf(p)'
    BY <2>1, <2>2 DEF PubInv, CallsInv, FilesInv, LegacyStays, SeeCommitted, Check, At, Went, CallOf,
       MarkerOf, FinalOf, WitnessOf, Holds, HoldingSteps, PastAnchor, SealedSteps, Steps, Stops
  <2>4. StaysAlone(p)
    BY <1>0, <2>1 DEF StaysAlone, Went, Running, SealedSteps
  <2> QED
    BY <2>1, <2>3, <2>4, QuietKeeps
<1> QED
  BY <1>1, <1>2 DEF SeeCommitted, Check

LEMMA FlushCommittedKeeps ==
    ASSUME PubInv, NEW p \in Publishers, FlushCommitted(p)
    PROVE  PubInv'
<1>0. Running(p)
  BY DEF FlushCommitted, At, Running, Steps
<1>1. CASE Raise(p) /\ Fault /\ disk' \in {disk, Synced(fs)}
  BY <1>0, <1>1, RaiseKeeps DEF FlushCommitted, Sync
<1>2. CASE disk' = SyncedToAnchor(fs) /\ Goto(p, "confirm") /\ UNCHANGED fs /\ NoFault
  <2>1. Quiet(p) /\ Went(p, "confirm") /\ fs'.witness = fs.witness
    BY <1>0, <1>2, MoveIsQuiet DEF FlushCommitted, Sync, Steps
  <2>2. disk'.witness = fs.witness
    BY <1>2 DEF SyncedToAnchor, PubInv, PubTypes, Entries
  <2>3. CallOf(p)'
    BY <2>1, <2>2 DEF PubInv, CallsInv, FilesInv, LegacyStays, FlushCommitted, Sync, At, Went, CallOf,
       MarkerOf, FinalOf, WitnessOf, Holds, HoldingSteps, PastAnchor, SealedSteps, Steps, Stops, Sealed
  <2>4. StaysAlone(p)
    BY <1>0, <2>1 DEF StaysAlone, Went, Running, SealedSteps
  <2> QED
    BY <2>1, <2>3, <2>4, QuietKeeps
<1> QED
  BY <1>1, <1>2 DEF FlushCommitted, Sync

LEMMA ConfirmCommittedKeeps ==
    ASSUME PubInv, NEW p \in Publishers, ConfirmCommitted(p)
    PROVE  PubInv'
<1>0. Running(p)
  BY DEF ConfirmCommitted, At, Running, Steps
<1>1. CASE Raise(p)
  BY <1>0, <1>1, RaiseKeeps DEF ConfirmCommitted, NoFault
<1>2. CASE Return(p)
  BY <1>0, <1>2, ReturnKeeps DEF ConfirmCommitted, NoFault
<1>3. CASE Goto(p, "unmark") /\ UNCHANGED fs /\ CommittedIsMine(p) /\ proc[p].recovers
  <2>1. /\ Quiet(p) /\ Went(p, "unmark") /\ fs'.witness = fs.witness /\ fs'.final = fs.final
        /\ fs.final # None => Content(fs.final)' = Content(fs.final)
    BY <1>0, <1>3, MoveIsQuiet DEF ConfirmCommitted, NoFault, Steps
  <2>2. Content(fs.final) = proc[p].content /\ fs.final # None
    BY <1>3 DEF CommittedIsMine, Identical, SingleLink
  <2>3. Sealed /\ disk' = disk
    BY <1>3 DEF ConfirmCommitted, PubInv, CallsInv, CallOf, WitnessOf, At
  <2>4. Sealed' /\ Content(fs.final)' = proc'[p].content
    BY <2>1, <2>2, <2>3 DEF Sealed, Went
  <2>5. CallOf(p)'
    BY <1>3, <2>1, <2>4 DEF PubInv, CallsInv, ConfirmCommitted, At, Went, CallOf,
       MarkerOf, FinalOf, WitnessOf, Holds, HoldingSteps, PastAnchor, SealedSteps, Steps, Stops
  <2>6. \A q \in Publishers : q # p => ~ Running(q)
    BY <1>0, <1>3 DEF PubInv, Alone
  <2>7. StaysAlone(p)
    BY <1>0, <2>1, <2>6 DEF StaysAlone, Went, Running, SealedSteps, Steps
  <2> QED
    BY <2>1, <2>5, <2>7, QuietKeeps
<1> QED
  BY <1>1, <1>2, <1>3 DEF ConfirmCommitted

LEMMA SeePendingKeeps ==
    ASSUME PubInv, NEW p \in Publishers, SeePending(p)
    PROVE  PubInv'
<1>0. Running(p) /\ proc[p].pc = "pending" /\ proc[p] \in ProcStates
  BY DEF SeePending, At, Running, Steps, PubInv, PubTypes
<1>1. CASE Raise(p)
  BY <1>0, <1>1, RaiseKeeps DEF SeePending, NoFault
<1>2. CASE Goto(p, "absent") /\ UNCHANGED fs /\ ~ proc[p].recovers
  <2>1. Quiet(p) /\ Went(p, "absent")
    BY <1>0, <1>2, MoveIsQuiet DEF SeePending, NoFault, Steps
  <2>2. CallOf(p)'
    BY <1>0, <1>2, <2>1 DEF PubInv, CallsInv, Went, CallOf, MarkerOf, FinalOf, WitnessOf, Holds,
       HoldingSteps, PastAnchor, SealedSteps, Steps, Stops
  <2>3. StaysAlone(p)
    BY <1>0, <1>2, <2>1 DEF StaysAlone, Went, Running, SealedSteps
  <2> QED
    BY <2>1, <2>2, <2>3, QuietKeeps
<1>3. CASE /\ proc' = [proc EXCEPT ![p].recovers = FALSE, ![p].pc = "witness",
                                   ![p].count = IF fs.made THEN 0 ELSE 1]
           /\ fs' = [fs EXCEPT !.made = TRUE]
  <2>1. /\ proc'[p] \in ProcStates /\ \A q \in Publishers : q # p => proc'[q] = proc[q]
        /\ proc'[p].pc = "witness" /\ ~ proc'[p].recovers /\ proc'[p].whole = proc[p].whole
        /\ proc'[p].content = proc[p].content /\ proc'[p].mine = proc[p].mine
        /\ proc'[p].created = proc[p].created
    BY <1>0, <1>3 DEF ProcStates, PubInv, PubTypes, Steps
  <2>2. proc' \in [Publishers -> ProcStates]
    BY <1>3, <2>1 DEF PubInv, PubTypes
  <2>3. SameEntries(p) /\ SyncsDisk /\ faults' \in 0..MaxFaults
    BY <1>3 DEF SameEntries, SyncsDisk, PubInv, PubTypes, Entries, SeePending
  <2>4. Quiet(p)
    BY <1>0, <2>1, <2>2, <2>3, RunningHas DEF Quiet, KeepsFiles, SeePending
  <2>5. CallOf(p)'
    BY <1>0, <2>1, <2>4 DEF PubInv, CallsInv, Quiet, KeepsFiles, CallOf, MarkerOf, FinalOf, WitnessOf, Holds,
       HoldingSteps, PastAnchor, SealedSteps, Steps, Stops
  <2>6. StaysAlone(p)
    BY <1>0, <2>1 DEF StaysAlone, Running, SealedSteps
  <2> QED
    BY <2>4, <2>5, <2>6, QuietKeeps
<1>4. CASE /\ proc' = [proc EXCEPT ![p].mine = fs.marker, ![p].pc = "anchor"] /\ UNCHANGED fs
           /\ proc[p].recovers /\ Whole(fs.marker) /\ Record(fs.marker).content = proc[p].content
  <2>1. fs.marker \in Publishers /\ fs.marker \in Names /\ fs.marker # None /\ fs.marker # Legacy
    BY <1>4, ArtifactPublicationAssumption DEF Whole, Names, PubInv, PubTypes, Entries
  <2>2. /\ proc'[p] \in ProcStates /\ \A q \in Publishers : q # p => proc'[q] = proc[q]
        /\ proc'[p].pc = "anchor" /\ proc'[p].recovers = proc[p].recovers
        /\ proc'[p].whole = proc[p].whole /\ proc'[p].content = proc[p].content
        /\ proc'[p].mine = fs.marker /\ proc'[p].created = proc[p].created
    BY <1>0, <1>4, <2>1 DEF ProcStates, PubInv, PubTypes, Steps
  <2>3. proc' \in [Publishers -> ProcStates]
    BY <1>4, <2>2 DEF PubInv, PubTypes
  <2>4. SameEntries(p) /\ SyncsDisk /\ faults' \in 0..MaxFaults
    BY <1>4 DEF SameEntries, SyncsDisk, PubInv, PubTypes, Entries, SeePending
  <2>5. Quiet(p)
    BY <1>0, <2>1, <2>2, <2>3, <2>4, RunningHas DEF Quiet, KeepsFiles, SeePending
  <2>6. Content(fs.marker)' = Content(fs.marker) /\ Whole(fs.marker)'
    BY <1>4, <2>1, <2>5, FilesStay DEF Quiet, Content, Whole
  <2>7. Content(fs.marker) = proc[p].content
    BY <1>4, <2>1 DEF Record, Content
  <2>8. legacyContent = None
    BY <2>1 DEF PubInv, FilesInv, LegacyStays
  <2>9. CallOf(p)'
    BY <1>0, <1>4, <2>1, <2>2, <2>5, <2>6, <2>7, <2>8 DEF PubInv, CallsInv, Quiet, KeepsFiles, CallOf, MarkerOf,
       FinalOf, WitnessOf, Holds, HoldingSteps, PastAnchor, SealedSteps, Steps, Stops, Content, Whole
  <2>10. StaysAlone(p)
    BY <1>0, <2>2 DEF StaysAlone, Running, SealedSteps
  <2> QED
    BY <2>5, <2>9, <2>10, QuietKeeps
<1> QED
  BY <1>1, <1>2, <1>3, <1>4 DEF SeePending

LEMMA SeeFinalKeeps ==
    ASSUME PubInv, NEW p \in Publishers, SeeFinal(p)
    PROVE  PubInv'
<1>0. Running(p)
  BY DEF SeeFinal, At, Running, Steps
<1>1. CASE Raise(p)
  BY <1>0, <1>1, RaiseKeeps DEF SeeFinal, NoFault
<1>2. CASE Goto(p, "mark") /\ fs' = [fs EXCEPT !.temps = @ \cup {p}] /\ fs.final = None
  <2>1. Quiet(p) /\ Went(p, "mark")
    BY <1>0, <1>2, MoveIsQuiet DEF SeeFinal, NoFault, Steps
  <2>2. legacyContent' = None
    BY <1>2, <2>1, ArtifactPublicationAssumption DEF PubInv, FilesInv, LegacyStays, Quiet, KeepsFiles
  <2>3. CallOf(p)'
    BY <2>1, <2>2 DEF PubInv, CallsInv, SeeFinal, At, Went, CallOf, MarkerOf,
       FinalOf, WitnessOf, Holds, HoldingSteps, PastAnchor, SealedSteps, Steps, Stops
  <2>4. StaysAlone(p)
    BY <1>0, <2>1 DEF StaysAlone, Went, Running, SealedSteps
  <2> QED
    BY <2>1, <2>3, <2>4, QuietKeeps
<1>3. CASE Goto(p, "adopt") /\ UNCHANGED fs /\ Identical(p)
  <2>1. /\ Quiet(p) /\ Went(p, "adopt") /\ fs'.final = fs.final
        /\ fs.final # None => Content(fs.final)' = Content(fs.final)
    BY <1>0, <1>3, MoveIsQuiet DEF SeeFinal, NoFault, Steps
  <2>2. fs.final # None /\ Content(fs.final) = proc[p].content
    BY <1>3 DEF Identical, SingleLink
  <2>3. CallOf(p)'
    BY <2>1, <2>2 DEF PubInv, CallsInv, SeeFinal, At, Went, CallOf, MarkerOf,
       FinalOf, WitnessOf, Holds, HoldingSteps, PastAnchor, SealedSteps, Steps, Stops
  <2>4. StaysAlone(p)
    BY <1>0, <2>1 DEF StaysAlone, Went, Running, SealedSteps
  <2> QED
    BY <2>1, <2>3, <2>4, QuietKeeps
<1> QED
  BY <1>1, <1>2, <1>3 DEF SeeFinal

LEMMA AdoptKeeps ==
    ASSUME PubInv, NEW p \in Publishers, Adopt(p)
    PROVE  PubInv'
BY RaiseKeeps, ReturnKeeps DEF Adopt, At, Running, Steps

LEMMA BeginKeeps ==
    ASSUME PubInv, NEW p \in Publishers, NEW recovers \in BOOLEAN, NEW c \in Contents,
           Begin(p, recovers, c)
    PROVE  PubInv'
<1>1. proc[p] = Fresh /\ ~ Running(p)
  BY DEF Begin, At, PubInv, FilesInv, FilesAreBegun, Fresh, Running, Steps
<1>2. /\ proc'[p] \in ProcStates /\ \A q \in Publishers : q # p => proc'[q] = proc[q]
      /\ proc'[p].pc = "witness" /\ proc'[p].recovers = recovers
      /\ ~ proc[p].whole /\ ~ proc'[p].whole
      /\ proc'[p].content = c /\ proc'[p].mine = p /\ ~ proc'[p].created
  <2>1. proc[p] \in ProcStates
    BY DEF PubInv, PubTypes
  <2>2. proc'[p] = [proc[p] EXCEPT !.pc = "witness", !.recovers = recovers,
                      !.content = c, !.count = IF fs.made THEN 0 ELSE 1, !.mine = p]
    BY DEF Begin, PubInv, PubTypes
  <2>3. proc'[p] \in ProcStates
    BY <2>1, <2>2 DEF ProcStates, Steps
  <2>4. ~ proc[p].whole /\ ~ proc[p].created
    BY <1>1 DEF Fresh
  <2> QED
    BY <2>1, <2>2, <2>3, <2>4 DEF Begin, ProcStates, PubInv, PubTypes
<1>3. proc' \in [Publishers -> ProcStates]
  BY <1>2 DEF Begin, PubInv, PubTypes
<1>4. SameEntries(p) /\ SyncsDisk /\ faults' \in 0..MaxFaults
  BY DEF SameEntries, SyncsDisk, PubInv, PubTypes, Entries, Begin
<1>5. Quiet(p)
  BY <1>2, <1>3, <1>4 DEF Quiet, KeepsFiles, Begin, At
<1>6. CallOf(p)'
  BY <1>2 DEF CallOf, MarkerOf, FinalOf, WitnessOf, Holds, HoldingSteps, PastAnchor, SealedSteps,
     Steps, Stops
<1>7. StaysAlone(p)
  BY <1>2 DEF Begin, StaysAlone, Running, SealedSteps
<1> QED
  BY <1>5, <1>6, <1>7, QuietKeeps

-----------------------------------------------------------------------------
(* The steps of a call that holds the marker.                              *)

\* A quiet step leaves the holder its marker.
LEMMA HolderStays ==
    ASSUME PubInv, NEW p \in Publishers, Quiet(p), NEW pc \in Steps, Went(p, pc), Holds(p)
    PROVE  /\ fs'.marker = proc'[p].mine /\ proc'[p].mine # None
           /\ ~ proc'[p].recovers => proc'[p].mine = p
           /\ Content(proc[p].mine)' = proc'[p].content
           /\ Whole(proc[p].mine) => Whole(proc[p].mine)'
           /\ disk.marker = proc[p].mine => disk'.marker = proc'[p].mine
           /\ disk.made => disk'.made
           /\ legacyContent' = None
<1>1. /\ fs.marker = proc[p].mine /\ proc[p].mine # None
      /\ ~ proc[p].recovers => proc[p].mine = p
      /\ Content(proc[p].mine) = proc[p].content
  BY DEF PubInv, CallsInv, CallOf, MarkerOf
<1>2. Content(proc[p].mine)' = Content(proc[p].mine)
      /\ (Whole(proc[p].mine) => Whole(proc[p].mine)')
  BY MineStays DEF Went, Quiet
<1>3. legacyContent = None
  BY <1>1 DEF PubInv, FilesInv, LegacyStays
<1> QED
  BY <1>1, <1>2, <1>3 DEF Went, Quiet, KeepsFiles, SameEntries, SyncsDisk

LEMMA SyncMarkerKeeps ==
    ASSUME PubInv, NEW p \in Publishers, SyncMarker(p)
    PROVE  PubInv'
<1>0. Running(p) /\ Holds(p) /\ proc[p].pc = "anchor"
  BY DEF SyncMarker, At, Running, Steps, Holds, HoldingSteps
<1>1. CASE Raise(p) /\ Fault /\ disk' \in {disk, Synced(fs)}
  BY <1>0, <1>1, RaiseKeeps DEF SyncMarker, Sync
<1>2. ASSUME NEW pc \in {"install", "recheck"}, pc = (IF proc[p].recovers THEN "install" ELSE "recheck"),
             disk' = SyncedToAnchor(fs), Goto(p, pc), UNCHANGED fs, NoFault
      PROVE  PubInv'
  <2>1. /\ Quiet(p) /\ Went(p, pc) /\ fs'.final = fs.final /\ fs'.witness = fs.witness
        /\ fs.final # None => Content(fs.final)' = Content(fs.final)
    BY <1>0, <1>2, MoveIsQuiet DEF SyncMarker, Sync, Steps
  <2>2. CallOf(p) /\ FilesInv
    BY DEF PubInv, CallsInv
  <2>3. /\ disk'.final = fs.final /\ disk'.marker = fs.marker /\ disk'.witness = fs.witness
        /\ disk'.made = TRUE
    BY <1>2 DEF SyncedToAnchor, PubInv, PubTypes, Entries
  <2>4. MarkerOf(p)'
    BY <1>0, <1>2, <2>1, <2>2, <2>3, HolderStays DEF Went, CallOf, MarkerOf, Holds, HoldingSteps, PastAnchor, Steps
  <2>5. FinalOf(p)' /\ WitnessOf(p)'
    BY <1>0, <1>2, <2>1, <2>2, <2>3 DEF Went, CallOf, FinalOf, WitnessOf, SealedSteps, Steps, Sealed
  <2>6. CallOf(p)'
    BY <1>0, <1>2, <2>1, <2>2, <2>4, <2>5, HolderStays DEF Went, CallOf, Steps
  <2>7. StaysAlone(p)
    BY <1>0, <1>2, <2>1 DEF StaysAlone, Went, Running, SealedSteps
  <2> QED
    BY <2>1, <2>6, <2>7, QuietKeeps
<1> QED
  BY <1>1, <1>2 DEF SyncMarker, Sync

LEMMA SyncFinalKeeps ==
    ASSUME PubInv, NEW p \in Publishers, SyncFinal(p)
    PROVE  PubInv'
<1>0. Running(p) /\ Holds(p) /\ proc[p].pc = "final"
  BY DEF SyncFinal, At, Running, Steps, Holds, HoldingSteps
<1>1. CASE Raise(p) /\ Fault /\ disk' \in {disk, Synced(fs)}
  BY <1>0, <1>1, RaiseKeeps DEF SyncFinal, Sync
<1>2. ASSUME NEW pc \in {"verify"}, disk' = Synced(fs), Goto(p, pc), UNCHANGED fs, NoFault
      PROVE  PubInv'
  <2>1. /\ Quiet(p) /\ Went(p, pc) /\ fs'.final = fs.final /\ fs'.witness = fs.witness
        /\ fs.final # None => Content(fs.final)' = Content(fs.final)
    BY <1>0, <1>2, MoveIsQuiet DEF SyncFinal, Sync, Steps
  <2>2. CallOf(p) /\ FilesInv
    BY DEF PubInv, CallsInv
  <2>3. /\ disk'.final = fs.final /\ disk'.marker = fs.marker /\ disk'.witness = fs.witness
        /\ disk'.made = disk.made
    BY <1>2 DEF Synced, PubInv, PubTypes, Entries
  <2>4. MarkerOf(p)'
    BY <1>0, <1>2, <2>1, <2>2, <2>3, HolderStays DEF Went, CallOf, MarkerOf, Holds, HoldingSteps, PastAnchor, Steps
  <2>5. FinalOf(p)' /\ WitnessOf(p)'
    BY <1>0, <1>2, <2>1, <2>2, <2>3 DEF Went, CallOf, FinalOf, WitnessOf, SealedSteps, Steps, Sealed
  <2>6. CallOf(p)'
    BY <1>0, <1>2, <2>1, <2>2, <2>4, <2>5, HolderStays DEF Went, CallOf, Steps
  <2>7. StaysAlone(p)
    BY <1>0, <1>2, <2>1 DEF StaysAlone, Went, Running, SealedSteps
  <2> QED
    BY <2>1, <2>6, <2>7, QuietKeeps
<1> QED
  BY <1>1, <1>2 DEF SyncFinal, Sync

LEMMA SyncConcurrentCommitKeeps ==
    ASSUME PubInv, NEW p \in Publishers, SyncConcurrentCommit(p)
    PROVE  PubInv'
<1>0. Running(p) /\ Holds(p) /\ proc[p].pc = "finishing"
  BY DEF SyncConcurrentCommit, At, Running, Steps, Holds, HoldingSteps
<1>1. CASE Raise(p) /\ Fault /\ disk' \in {disk, Synced(fs)}
  BY <1>0, <1>1, RaiseKeeps DEF SyncConcurrentCommit, Sync
<1>2. ASSUME NEW pc \in {"finished"}, disk' = Synced(fs), Goto(p, pc), UNCHANGED fs, NoFault
      PROVE  PubInv'
  <2>1. /\ Quiet(p) /\ Went(p, pc) /\ fs'.final = fs.final /\ fs'.witness = fs.witness
        /\ fs.final # None => Content(fs.final)' = Content(fs.final)
    BY <1>0, <1>2, MoveIsQuiet DEF SyncConcurrentCommit, Sync, Steps
  <2>2. CallOf(p) /\ FilesInv
    BY DEF PubInv, CallsInv
  <2>3. /\ disk'.final = fs.final /\ disk'.marker = fs.marker /\ disk'.witness = fs.witness
        /\ disk'.made = disk.made
    BY <1>2 DEF Synced, PubInv, PubTypes, Entries
  <2>4. MarkerOf(p)'
    BY <1>0, <1>2, <2>1, <2>2, <2>3, HolderStays DEF Went, CallOf, MarkerOf, Holds, HoldingSteps, PastAnchor, Steps
  <2>5. FinalOf(p)' /\ WitnessOf(p)'
    BY <1>0, <1>2, <2>1, <2>2, <2>3 DEF Went, CallOf, FinalOf, WitnessOf, SealedSteps, Steps, Sealed
  <2>6. CallOf(p)'
    BY <1>0, <1>2, <2>1, <2>2, <2>4, <2>5, HolderStays DEF Went, CallOf, Steps
  <2>7. StaysAlone(p)
    BY <1>0, <1>2, <2>1 DEF StaysAlone, Went, Running, SealedSteps
  <2> QED
    BY <2>1, <2>6, <2>7, QuietKeeps
<1> QED
  BY <1>1, <1>2 DEF SyncConcurrentCommit, Sync

LEMMA SeeConcurrentCommitKeeps ==
    ASSUME PubInv, NEW p \in Publishers, SeeConcurrentCommit(p)
    PROVE  PubInv'
<1>0. Running(p) /\ Holds(p) /\ proc[p].pc = "recheck"
  BY DEF SeeConcurrentCommit, At, Running, Steps, Holds, HoldingSteps
<1>1. PICK pc \in {"finish", "install"} :
         Goto(p, pc) /\ (pc = "finish" <=> fs.witness # None)
  BY DEF SeeConcurrentCommit
<1>2. /\ Quiet(p) /\ Went(p, pc) /\ fs'.final = fs.final /\ fs'.witness = fs.witness
  BY <1>0, <1>1, MoveIsQuiet DEF SeeConcurrentCommit, NoFault, Steps
<1>3. CallOf(p) /\ FilesInv /\ UNCHANGED disk
  BY DEF PubInv, CallsInv, SeeConcurrentCommit
<1>4. fs.final # None => Sealed
  BY <1>0, <1>3 DEF CallOf, FinalOf
<1>5. fs.witness # None => Sealed
  BY <1>3, <1>4 DEF FilesInv, WitnessesProve
<1>6. MarkerOf(p)'
  BY <1>0, <1>1, <1>2, <1>3, HolderStays DEF Went, CallOf, MarkerOf, Holds, HoldingSteps, PastAnchor, Steps
<1>7. FinalOf(p)' /\ WitnessOf(p)'
  BY <1>0, <1>1, <1>2, <1>3, <1>4, <1>5 DEF Went, CallOf, FinalOf, WitnessOf, SealedSteps, Steps, Sealed
<1>8. CallOf(p)'
  BY <1>0, <1>1, <1>2, <1>3, <1>6, <1>7, HolderStays DEF Went, CallOf, Steps
<1>9. StaysAlone(p)
  BY <1>0, <1>1, <1>2 DEF StaysAlone, Went, Running, SealedSteps
<1> QED
  BY <1>2, <1>8, <1>9, QuietKeeps

LEMMA RetireTemporaryKeeps ==
    ASSUME PubInv, NEW p \in Publishers, RetireTemporary(p)
    PROVE  PubInv'
<1>0. Running(p) /\ Holds(p) /\ proc[p].pc = "retire"
  BY DEF RetireTemporary, At, Running, Steps, Holds, HoldingSteps
<1>1. CASE Goto(p, "failed") /\ fs' \in {fs, [fs EXCEPT !.temps = @ \ {p}]} /\ Fault
  <2>1. Went(p, "failed")
    BY <1>1, Going DEF PubInv, Stops
  <2>2. Quiet(p)
    BY <1>0, <1>1, <2>1, Syncing, Dropping, Faulting, QuietBecause DEF PubInv, RetireTemporary, Stops
  <2> QED
    BY <2>1, <2>2, EndingKeeps DEF Went
<1>2. CASE Goto(p, "final") /\ fs' = [fs EXCEPT !.temps = @ \ {p}] /\ NoFault
  <2>1. /\ Quiet(p) /\ Went(p, "final") /\ fs'.final = fs.final /\ fs'.witness = fs.witness
    BY <1>0, <1>2, MoveIsQuiet DEF RetireTemporary, Steps
  <2>2. CallOf(p) /\ UNCHANGED disk
    BY DEF PubInv, CallsInv, RetireTemporary
  <2>3. MarkerOf(p)'
    BY <1>0, <2>1, <2>2, HolderStays DEF Went, CallOf, MarkerOf, Holds, HoldingSteps, PastAnchor, Steps
  <2>4. FinalOf(p)' /\ WitnessOf(p)'
    BY <1>0, <2>1, <2>2 DEF Went, CallOf, FinalOf, WitnessOf, SealedSteps, Steps, Sealed
  <2>5. CallOf(p)'
    BY <1>0, <2>1, <2>3, <2>4, HolderStays DEF Went, CallOf, Steps
  <2>6. StaysAlone(p)
    BY <1>0, <2>1 DEF StaysAlone, Went, Running, SealedSteps
  <2> QED
    BY <2>1, <2>5, <2>6, QuietKeeps
<1> QED
  BY <1>1, <1>2 DEF RetireTemporary

LEMMA VerifyFinalKeeps ==
    ASSUME PubInv, NEW p \in Publishers, VerifyFinal(p)
    PROVE  PubInv'
<1>0. Running(p) /\ Holds(p) /\ proc[p].pc = "verify"
  BY DEF VerifyFinal, At, Running, Steps, Holds, HoldingSteps
<1>1. CASE Raise(p)
  BY <1>0, <1>1, RaiseKeeps DEF VerifyFinal, Check, NoFault
<1>2. CASE Goto(p, "link") /\ UNCHANGED fs /\ Identical(p)
  <2>1. /\ Quiet(p) /\ Went(p, "link") /\ fs'.final = fs.final /\ fs'.witness = fs.witness
        /\ fs.final # None => Content(fs.final)' = Content(fs.final)
    BY <1>0, <1>2, MoveIsQuiet DEF VerifyFinal, Check, NoFault, Steps
  <2>2. CallOf(p) /\ UNCHANGED disk /\ fs.final # None /\ Content(fs.final) = proc[p].content
    BY <1>2 DEF PubInv, CallsInv, VerifyFinal, Check, Identical, SingleLink
  <2>3. MarkerOf(p)'
    BY <1>0, <2>1, <2>2, HolderStays DEF Went, CallOf, MarkerOf, Holds, HoldingSteps, PastAnchor, Steps
  <2>4. FinalOf(p)' /\ WitnessOf(p)'
    BY <1>0, <2>1, <2>2 DEF Went, CallOf, FinalOf, WitnessOf, SealedSteps, Steps, Sealed
  <2>5. CallOf(p)'
    BY <1>0, <2>1, <2>3, <2>4, HolderStays DEF Went, CallOf, Steps
  <2>6. StaysAlone(p)
    BY <1>0, <2>1 DEF StaysAlone, Went, Running, SealedSteps
  <2> QED
    BY <2>1, <2>5, <2>6, QuietKeeps
<1> QED
  BY <1>1, <1>2 DEF VerifyFinal, Check

\* Before the marker goes the witness is durable, and nobody else is about to
\* take it back.
LEMMA CheckWitnessKeeps ==
    ASSUME PubInv, NEW p \in Publishers, CheckWitness(p)
    PROVE  PubInv'
<1>0. Running(p) /\ Holds(p) /\ proc[p].pc = "sealed"
  BY DEF CheckWitness, At, Running, Steps, Holds, HoldingSteps
<1>1. CASE Raise(p)
  BY <1>0, <1>1, RaiseKeeps DEF CheckWitness, Check, NoFault
<1>2. CASE Goto(p, "unmark") /\ UNCHANGED fs
  <2>1. /\ Quiet(p) /\ Went(p, "unmark") /\ fs'.final = fs.final /\ fs'.witness = fs.witness
        /\ fs.final # None => Content(fs.final)' = Content(fs.final)
    BY <1>0, <1>2, MoveIsQuiet DEF CheckWitness, Check, NoFault, Steps
  <2>2. CallOf(p) /\ UNCHANGED disk
    BY DEF PubInv, CallsInv, CheckWitness, Check
  <2>3. MarkerOf(p)'
    BY <1>0, <2>1, <2>2, HolderStays DEF Went, CallOf, MarkerOf, Holds, HoldingSteps, PastAnchor, Steps
  <2>4. FinalOf(p)' /\ WitnessOf(p)'
    BY <1>0, <2>1, <2>2 DEF Went, CallOf, FinalOf, WitnessOf, SealedSteps, Steps, Sealed
  <2>5. CallOf(p)'
    BY <1>0, <2>1, <2>3, <2>4, HolderStays DEF Went, CallOf, Steps
  <2>6. \A q \in Publishers : q # p => proc[q].pc # "seal"
    BY <1>0, OneHolder DEF Holds, HoldingSteps
  <2>7. StaysAlone(p)
    BY <1>0, <2>1, <2>6 DEF StaysAlone, Went, Running
  <2> QED
    BY <2>1, <2>5, <2>7, QuietKeeps
<1> QED
  BY <1>1, <1>2 DEF CheckWitness, Check

LEMMA FinishKeeps ==
    ASSUME PubInv, NEW p \in Publishers, Finish(p)
    PROVE  PubInv'
<1>0. Running(p) /\ Holds(p) /\ proc[p].pc = "finish" /\ proc[p] \in ProcStates
  BY DEF Finish, At, Running, Steps, Holds, HoldingSteps, PubInv, PubTypes
<1>1. CASE Raise(p)
  BY <1>0, <1>1, RaiseKeeps DEF Finish, NoFault
<1>2. CASE /\ CommittedAgrees /\ UNCHANGED fs
           /\ proc' = [proc EXCEPT ![p].pc = "finishing",
                                   ![p].seen = <<Record(fs.witness), Content(fs.final)>>]
  <2> DEFINE seen == <<Record(fs.witness), Content(fs.final)>>
  <2>1. seen \in Records \X (Contents \cup {None})
    <3>1. fs.witness \in Publishers /\ fs.final \in Publishers \cup {Legacy}
      BY <1>2 DEF CommittedAgrees, Whole, SingleLink, PubInv, PubTypes, Entries
    <3>2. Record(fs.witness) \in Records
      BY <3>1 DEF Record, Records, PubInv, PubTypes, ProcStates
    <3>3. Content(fs.final) \in Contents \cup {None}
      BY <3>1 DEF Content, PubInv, PubTypes, ProcStates
    <3> QED
      BY <3>2, <3>3
  <2> HIDE DEF seen
  <2>2. proc' = [proc EXCEPT ![p].pc = "finishing", ![p].seen = seen]
    BY <1>2 DEF seen
  <2>3. proc'[p] \in ProcStates
    BY <1>0, <2>1, <2>2 DEF ProcStates, PubInv, PubTypes, Steps
  <2>4. /\ \A q \in Publishers : q # p => proc'[q] = proc[q]
        /\ proc'[p].pc = "finishing" /\ proc'[p].recovers = proc[p].recovers
        /\ proc'[p].whole = proc[p].whole /\ proc'[p].content = proc[p].content
        /\ proc'[p].mine = proc[p].mine /\ proc'[p].created = proc[p].created
    BY <1>0, <2>2 DEF ProcStates, PubInv, PubTypes
  <2>5. proc' \in [Publishers -> ProcStates]
    BY <2>2, <2>3 DEF PubInv, PubTypes
  <2>6. SameEntries(p) /\ SyncsDisk /\ faults' \in 0..MaxFaults /\ fs' = fs /\ disk' = disk
    BY <1>2 DEF SameEntries, SyncsDisk, PubInv, PubTypes, Entries, Finish
  <2>7. Quiet(p)
    BY <1>0, <2>4, <2>5, <2>6, RunningHas DEF Quiet, KeepsFiles, Finish
  <2>8. CallOf(p) /\ legacyContent = None
    BY <1>0 DEF PubInv, CallsInv, CallOf, Steps, Stops
  <2>9. fs.marker = proc[p].mine /\ proc[p].mine # None /\ Whole(proc[p].mine)
    BY <1>0, <2>8 DEF CallOf, MarkerOf, HoldingSteps
  <2>10. fs.marker \in Names /\ fs.marker # Legacy
    BY ArtifactPublicationAssumption DEF Names, PubInv, PubTypes, Entries
  <2>11. Content(proc[p].mine)' = Content(proc[p].mine) /\ Whole(proc[p].mine)'
    BY <2>4, <2>6, <2>7, <2>9, <2>10, FilesStay DEF Quiet, Content, Whole
  <2>12. MarkerOf(p)'
    BY <1>0, <2>4, <2>6, <2>8, <2>9, <2>11
       DEF CallOf, MarkerOf, Holds, HoldingSteps, PastAnchor, Content, Whole
  <2>13. FinalOf(p)' /\ WitnessOf(p)'
    BY <1>0, <2>4, <2>6, <2>8 DEF CallOf, FinalOf, WitnessOf, SealedSteps, Steps, Sealed
  <2>14. CallOf(p)'
    BY <1>0, <2>4, <2>7, <2>8, <2>12, <2>13 DEF CallOf, Quiet, KeepsFiles
  <2>15. StaysAlone(p)
    BY <1>0, <2>4 DEF StaysAlone, Running, SealedSteps
  <2> QED
    BY <2>7, <2>14, <2>15, QuietKeeps
<1> QED
  BY <1>1, <1>2 DEF Finish

LEMMA ConfirmConcurrentCommitKeeps ==
    ASSUME PubInv, NEW p \in Publishers, ConfirmConcurrentCommit(p)
    PROVE  PubInv'
<1>0. Running(p) /\ Holds(p) /\ proc[p].pc = "finished" /\ proc[p] \in ProcStates
  BY DEF ConfirmConcurrentCommit, At, Running, Steps, Holds, HoldingSteps, PubInv, PubTypes
<1>1. CASE Raise(p)
  BY <1>0, <1>1, RaiseKeeps DEF ConfirmConcurrentCommit, NoFault
<1>2. CASE /\ UNCHANGED fs
           /\ proc' = [proc EXCEPT ![p].pc = "unmark",
                                   ![p].conflict = Content(fs.final) # proc[p].content]
  <2>1. /\ proc'[p] \in ProcStates /\ \A q \in Publishers : q # p => proc'[q] = proc[q]
        /\ proc'[p].pc = "unmark" /\ proc'[p].recovers = proc[p].recovers
        /\ proc'[p].whole = proc[p].whole /\ proc'[p].content = proc[p].content
        /\ proc'[p].mine = proc[p].mine /\ proc'[p].created = proc[p].created
        /\ ~ proc'[p].conflict => Content(fs.final) = proc[p].content
    BY <1>0, <1>2 DEF ProcStates, PubInv, PubTypes, Steps
  <2>2. proc' \in [Publishers -> ProcStates]
    BY <1>2, <2>1 DEF PubInv, PubTypes
  <2>3. SameEntries(p) /\ SyncsDisk /\ faults' \in 0..MaxFaults /\ fs' = fs /\ disk' = disk
    BY <1>2 DEF SameEntries, SyncsDisk, PubInv, PubTypes, Entries, ConfirmConcurrentCommit
  <2>4. Quiet(p)
    BY <1>0, <2>1, <2>2, <2>3, RunningHas DEF Quiet, KeepsFiles, ConfirmConcurrentCommit
  <2>5. CallOf(p) /\ legacyContent = None /\ Sealed /\ FilesInv
    BY <1>0 DEF PubInv, CallsInv, CallOf, WitnessOf, Steps, Stops
  <2>6. fs.marker = proc[p].mine /\ proc[p].mine # None /\ ~ proc[p].recovers
    BY <1>0, <2>5 DEF CallOf, MarkerOf
  <2>7. fs.marker \in Names /\ fs.marker # Legacy /\ fs.final \in Names /\ fs.final # None
    BY <2>5, ArtifactPublicationAssumption
       DEF Names, PubInv, PubTypes, Entries, FilesInv, WitnessesProve, Sealed
  <2>8. /\ Content(proc[p].mine)' = Content(proc[p].mine)
        /\ Content(fs.final)' = Content(fs.final)
    BY <2>1, <2>3, <2>4, <2>6, <2>7, FilesStay DEF Quiet, Content
  <2>9. MarkerOf(p)'
    BY <1>0, <2>1, <2>3, <2>5, <2>6, <2>8
       DEF CallOf, MarkerOf, Holds, HoldingSteps, PastAnchor, Content
  <2>10. FinalOf(p)' /\ WitnessOf(p)'
    BY <1>0, <2>1, <2>3, <2>5, <2>8 DEF CallOf, FinalOf, WitnessOf, SealedSteps, Steps, Sealed
  <2>11. CallOf(p)'
    BY <1>0, <2>1, <2>4, <2>5, <2>9, <2>10 DEF CallOf, Quiet, KeepsFiles
  <2>12. \A q \in Publishers : q # p => proc[q].pc # "seal"
    BY <1>0, OneHolder DEF Holds, HoldingSteps
  <2>13. StaysAlone(p)
    BY <1>0, <2>1, <2>12 DEF StaysAlone, Running
  <2> QED
    BY <2>4, <2>11, <2>13, QuietKeeps
<1> QED
  BY <1>1, <1>2 DEF ConfirmConcurrentCommit

LEMMA DieKeeps ==
    ASSUME PubInv, NEW p \in Publishers, Die(p)
    PROVE  PubInv'
<1>0. Running(p) /\ proc[p] \in ProcStates
  BY DEF Die, PubInv, PubTypes
<1>1. PICK whole \in (IF At(p, "record") THEN BOOLEAN ELSE {proc[p].whole}) :
         proc' = [proc EXCEPT ![p].pc = "dead", ![p].whole = whole]
  BY DEF Die
<1>2. whole \in BOOLEAN /\ (~ At(p, "record") => whole = proc[p].whole)
  BY <1>0, <1>1 DEF ProcStates
<1>3. proc[p].whole => whole
  BY <1>2 DEF PubInv, CallsInv, CallOf, At
<1>4. /\ proc'[p] \in ProcStates /\ \A q \in Publishers : q # p => proc'[q] = proc[q]
      /\ proc'[p].pc = "dead" /\ proc'[p].whole = whole
      /\ proc'[p].content = proc[p].content /\ proc'[p].mine = proc[p].mine
  BY <1>0, <1>1, <1>2 DEF ProcStates, PubInv, PubTypes, Stops
<1>5. proc' \in [Publishers -> ProcStates]
  BY <1>1, <1>4 DEF PubInv, PubTypes
<1>6. SameEntries(p) /\ SyncsDisk /\ faults' \in 0..MaxFaults
  BY Faulting DEF SameEntries, SyncsDisk, PubInv, PubTypes, Entries, Die
<1>7. Quiet(p)
  BY <1>0, <1>3, <1>4, <1>5, <1>6, RunningHas DEF Quiet, KeepsFiles, Die
<1> QED
  BY <1>4, <1>7, EndingKeeps

\* A call that has removed the marker has left a durable witness of its content.
LEMMA SyncRemovalKeeps ==
    ASSUME PubInv, NEW p \in Publishers, SyncRemoval(p)
    PROVE  PubInv'
<1>0. Running(p) /\ proc[p].pc = "removed"
  BY DEF SyncRemoval, At, Running, Steps
<1>1. CASE disk' = Synced(fs) /\ Return(p) /\ NoFault
  BY <1>0, <1>1, ReturnKeeps DEF SyncRemoval
<1>2. CASE disk' \in {disk, Synced(fs)} /\ Goto(p, "restore") /\ UNCHANGED fs /\ Fault
  <2>1. /\ Quiet(p) /\ Went(p, "restore") /\ fs'.final = fs.final /\ fs'.witness = fs.witness
        /\ fs.final # None => Content(fs.final)' = Content(fs.final)
    BY <1>0, <1>2, MoveIsQuiet DEF SyncRemoval, Steps
  <2>2. CallOf(p) /\ FilesInv /\ Sealed
    BY <1>0 DEF PubInv, CallsInv, CallOf, WitnessOf, SealedSteps
  <2>3. Sealed' /\ fs.final # None
    BY <2>1, <2>2 DEF Sealed, Quiet, KeepsFiles, SyncsDisk, FilesInv, WitnessesProve
  <2>4. CallOf(p)'
    BY <1>0, <2>1, <2>2, <2>3 DEF Went, Quiet, KeepsFiles, CallOf, MarkerOf, FinalOf, WitnessOf, Holds,
       HoldingSteps, PastAnchor, SealedSteps, Steps, Stops
  <2>5. StaysAlone(p)
    BY <1>0, <2>1 DEF StaysAlone, Went, Running, SealedSteps
  <2> QED
    BY <2>1, <2>4, <2>5, QuietKeeps
<1> QED
  BY <1>1, <1>2 DEF SyncRemoval

LEMMA AfterRestoreKeeps ==
    ASSUME PubInv, NEW p \in Publishers, AfterRestore(p)
    PROVE  PubInv'
BY RaiseKeeps, ReturnKeeps DEF AfterRestore, At, Running, Steps

-----------------------------------------------------------------------------
(* The steps that move the marker.                                         *)

LEMMA RemarkKeeps ==
    ASSUME PubInv, NEW p \in Publishers, Steady(p), legacyContent = None, fs.final # None => Sealed,
           \A q \in Publishers : q # p => ~ Holds(q), CallOf(p)', StaysAlone(p)
    PROVE  PubInv'
<1>1. PubTypes'
  BY DEF PubInv, PubTypes, Steady, KeepsFiles
<1>2. FilesInv'
  BY SteadyFiles DEF PubInv, FilesInv, FinalIsBound, LegacyStays, Steady, KeepsFiles
<1>3. CallsInv'
  <2> SUFFICES ASSUME NEW q \in Publishers, q # p PROVE CallOf(q)'
    BY DEF CallsInv
  <2>1. proc'[q] = proc[q] /\ ~ Holds(q)
    BY DEF Steady, KeepsFiles
  <2>2. MarkerOf(q)'
    BY <2>1 DEF MarkerOf, Holds, PastAnchor
  <2> QED
    BY <2>2, SteadyOthers
<1>4. Alone'
  BY StayingAlone DEF PubInv, Steady, KeepsFiles
<1>5. ReadersInv'
  BY SteadyReaders DEF Steady
<1> QED
  BY <1>1, <1>2, <1>3, <1>4, <1>5 DEF PubInv

\* The marker is created where there was none, so nobody held it, and what
\* stands at the final name is sealed.
LEMMA CreateMarkerKeeps ==
    ASSUME PubInv, NEW p \in Publishers, CreateMarker(p)
    PROVE  PubInv'
<1>0. Running(p) /\ proc[p].pc = "mark"
  BY DEF CreateMarker, At, Running, Steps
<1>1. CASE Raise(p)
  BY <1>0, <1>1, RaiseKeeps DEF CreateMarker, NoFault
<1>2. CASE fs.marker = None /\ Goto(p, "record") /\ fs' = [fs EXCEPT !.marker = p]
  <2>1. Went(p, "record")
    BY <1>2, Going DEF PubInv, Steps
  <2>2. CallOf(p) /\ FilesInv /\ PubTypes /\ legacyContent = None
    BY <1>0 DEF PubInv, CallsInv, CallOf, Stops
  <2>3. fs.final # None => Sealed
    BY <1>2, <2>2 DEF FilesInv, FinalIsBound, Whole
  <2>4. \A q \in Publishers : ~ Holds(q)
    BY <1>2 DEF PubInv, CallsInv, CallOf, MarkerOf
  <2>5. KeepsFiles(p)
    BY <1>0, <2>1, <2>2, RunningHas DEF KeepsFiles, Went, CreateMarker, PubTypes
  <2>6. /\ fs' \in Entries /\ fs'.marker = p /\ fs'.final = fs.final /\ fs'.witness = fs.witness
        /\ fs'.temps = fs.temps /\ disk' = disk
    BY <1>2, <2>2 DEF PubTypes, Entries, CreateMarker
  <2>7. Steady(p)
    BY <2>2, <2>5, <2>6 DEF Steady, PubTypes, Names
  <2>8. Content(p)' = proc'[p].content /\ p # None
    BY ArtifactPublicationAssumption DEF Content
  <2>9. CallOf(p)'
    BY <1>0, <2>1, <2>2, <2>3, <2>6, <2>7, <2>8, SteadyFiles DEF Went, Steady, KeepsFiles, CallOf, MarkerOf,
       FinalOf, WitnessOf, Holds, HoldingSteps, PastAnchor, SealedSteps, Steps, Stops
  <2>10. StaysAlone(p)
    BY <1>0, <2>1 DEF StaysAlone, Went, Running, SealedSteps
  <2> QED
    BY <2>2, <2>3, <2>4, <2>7, <2>9, <2>10, RemarkKeeps
<1> QED
  BY <1>1, <1>2 DEF CreateMarker

\* Until its record is whole the marker binds nothing, so it may go again.
LEMMA WriteRecordKeeps ==
    ASSUME PubInv, NEW p \in Publishers, WriteRecord(p)
    PROVE  PubInv'
<1>a. proc[p].pc = "record" /\ UNCHANGED <<legacyContent, reader>>
  BY Zenon DEF WriteRecord, At
<1>0. Running(p) /\ Holds(p) /\ proc[p].pc = "record" /\ proc[p] \in ProcStates
  BY <1>a DEF Running, Steps, Holds, HoldingSteps, PubInv, PubTypes
<1>1. /\ CallOf(p) /\ FilesInv /\ PubTypes /\ legacyContent = None
      /\ fs.marker = p /\ proc[p].mine = p /\ ~ proc[p].whole /\ ~ proc[p].recovers
      /\ p \notin {None, Legacy} /\ Content(p) = proc[p].content
  BY <1>0, ArtifactPublicationAssumption DEF PubInv, CallsInv, CallOf, MarkerOf, Stops
<1>2. fs.final # None => Sealed
  BY <1>1 DEF FilesInv, FinalIsBound, Whole
<1>3. CASE proc' = [proc EXCEPT ![p].whole = TRUE, ![p].pc = "anchor"] /\ UNCHANGED <<fs, disk>> /\ NoFault
  <2>1. /\ proc'[p] \in ProcStates /\ \A q \in Publishers : q # p => proc'[q] = proc[q]
        /\ proc'[p].pc = "anchor" /\ proc'[p].recovers = proc[p].recovers
        /\ proc'[p].whole = TRUE /\ proc'[p].content = proc[p].content
        /\ proc'[p].mine = proc[p].mine /\ proc'[p].created = proc[p].created
    BY <1>0, <1>1, <1>3 DEF ProcStates, PubTypes, Steps
  <2>2. proc' \in [Publishers -> ProcStates]
    BY <1>1, <1>3, <2>1 DEF PubTypes
  <2>3. KeepsFiles(p)
    BY <1>0, <1>1, <1>3, <1>a, <2>1, <2>2, RunningHas, Faulting DEF KeepsFiles
  <2>4. Quiet(p)
    BY <1>1, <1>3, <2>3 DEF Quiet, SameEntries, SyncsDisk, PubTypes
  <2>5. Content(p)' = proc[p].content /\ Whole(p)'
    BY <1>1, <2>1 DEF Content, Whole
  <2>6. Sealed => Sealed'
    BY <1>3 DEF Sealed
  <2>7. CallOf(p)'
    BY <1>0, <1>1, <1>2, <1>3, <2>1, <2>3, <2>5, <2>6 DEF KeepsFiles, CallOf, MarkerOf,
       FinalOf, WitnessOf, Holds, HoldingSteps, PastAnchor, SealedSteps, Steps, Stops, Content, Whole
  <2>8. StaysAlone(p)
    BY <1>0, <2>1 DEF StaysAlone, Running, SealedSteps
  <2> QED
    BY <2>4, <2>7, <2>8, QuietKeeps
<1>4. ASSUME NEW gone \in BOOLEAN, Goto(p, "failed"), Fault,
             fs' = [fs EXCEPT !.temps = @ \ {p}, !.marker = IF gone /\ @ = p THEN None ELSE @],
             disk' \in {disk, Synced(fs')}
      PROVE  PubInv'
  <2>1. Went(p, "failed")
    BY <1>1, <1>4, Going DEF Stops
  <2>2. \A q \in Publishers : q # p => ~ Holds(q)
    BY <1>0, OneHolder
  <2>3. KeepsFiles(p)
    BY <1>0, <1>1, <1>4, <1>a, <2>1, RunningHas, Faulting DEF KeepsFiles, Went
  <2>4. /\ fs' \in Entries /\ fs'.marker \in {fs.marker, None} /\ fs'.final = fs.final
        /\ fs'.witness = fs.witness /\ fs'.temps \subseteq fs.temps
    BY <1>1, <1>4 DEF PubTypes, Entries
  <2>5. /\ disk' \in Entries /\ disk'.marker \in {disk.marker, fs'.marker} /\ disk'.made = disk.made
        /\ \/ disk'.final = disk.final /\ disk'.witness = disk.witness /\ disk'.temps = disk.temps
           \/ disk'.final = fs.final /\ disk'.witness = fs.witness /\ disk'.temps = fs'.temps
    BY <1>1, <1>4, <2>4 DEF PubTypes, Entries, Synced
  <2>6. Steady(p)
    BY <2>3, <2>4, <2>5 DEF Steady, Names
  <2>7. CallOf(p)'
    BY <2>1 DEF Went, CallOf, MarkerOf, FinalOf, WitnessOf, Holds, HoldingSteps, PastAnchor, SealedSteps,
       Stops, Steps
  <2>8. StaysAlone(p)
    BY <2>1 DEF StaysAlone, Went, Running, Steps, SealedSteps
  <2> QED
    BY <1>1, <1>2, <2>2, <2>6, <2>7, <2>8, RemarkKeeps
<1> QED
  BY <1>3, <1>4, Zenon DEF WriteRecord

\* The marker goes when the witness is durable.
LEMMA RemoveMarkerKeeps ==
    ASSUME PubInv, NEW p \in Publishers, RemoveMarker(p)
    PROVE  PubInv'
<1>0. Running(p) /\ proc[p].pc = "unmark"
  BY DEF RemoveMarker, At, Running, Steps
<1>1. CASE Return(p) /\ NoFault
  BY <1>0, <1>1, ReturnKeeps DEF RemoveMarker
<1>2. CASE fs.marker # None /\ fs' = [fs EXCEPT !.marker = None] /\ Goto(p, "removed") /\ NoFault
  <2>1. Went(p, "removed")
    BY <1>2, Going DEF PubInv, Steps
  <2>2. CallOf(p) /\ FilesInv /\ PubTypes /\ legacyContent = None /\ Sealed
    BY <1>0 DEF PubInv, CallsInv, CallOf, WitnessOf, SealedSteps, Stops
  <2>3. \A q \in Publishers : q # p => ~ Holds(q)
    <3> SUFFICES ASSUME NEW q \in Publishers, q # p, Holds(q) PROVE FALSE
      OBVIOUS
    <3>1. Running(q)
      BY DEF Holds, Running, HoldingSteps, Steps
    <3>2. ~ proc[p].recovers
      BY <1>0, <3>1 DEF PubInv, Alone
    <3> QED
      BY <1>0, <3>2, OneHolder DEF Holds
  <2>4. KeepsFiles(p)
    BY <1>0, <1>2, <2>1, <2>2, RunningHas, Faulting DEF KeepsFiles, Went, RemoveMarker
  <2>5. /\ fs' \in Entries /\ fs'.marker = None /\ fs'.final = fs.final /\ fs'.witness = fs.witness
        /\ fs'.temps = fs.temps /\ disk' = disk
    BY <1>2, <2>2 DEF PubTypes, Entries, RemoveMarker
  <2>6. Steady(p)
    BY <2>2, <2>4, <2>5 DEF Steady, PubTypes, Names
  <2>7. fs.final # None => Content(fs.final)' = Content(fs.final)
    BY <2>4, <2>5, FinalStays
  <2>8. fs.final # None
    BY <2>2 DEF FilesInv, WitnessesProve, Sealed
  <2>9. CallOf(p)'
    BY <1>0, <2>1, <2>2, <2>4, <2>5, <2>6, <2>7, <2>8, SteadyFiles DEF Went, KeepsFiles, CallOf, MarkerOf,
       FinalOf, WitnessOf, Holds, HoldingSteps, PastAnchor, SealedSteps, Steps, Stops
  <2>10. StaysAlone(p)
    BY <1>0, <2>1 DEF StaysAlone, Went, Running, SealedSteps
  <2> QED
    BY <2>2, <2>3, <2>6, <2>9, <2>10, RemarkKeeps
<1>3. CASE Goto(p, "restore") /\ UNCHANGED fs /\ Fault
  <2>1. /\ Quiet(p) /\ Went(p, "restore") /\ fs'.final = fs.final /\ fs'.witness = fs.witness
        /\ fs.final # None => Content(fs.final)' = Content(fs.final)
    BY <1>0, <1>3, MoveIsQuiet DEF RemoveMarker, Steps
  <2>2. CallOf(p) /\ FilesInv /\ Sealed /\ UNCHANGED disk
    BY <1>0 DEF PubInv, CallsInv, CallOf, WitnessOf, SealedSteps, RemoveMarker
  <2>3. Sealed' /\ fs.final # None
    BY <2>1, <2>2 DEF Sealed, FilesInv, WitnessesProve
  <2>4. CallOf(p)'
    BY <1>0, <2>1, <2>2, <2>3 DEF Went, Quiet, KeepsFiles, CallOf, MarkerOf, FinalOf, WitnessOf, Holds,
       HoldingSteps, PastAnchor, SealedSteps, Steps, Stops
  <2>5. StaysAlone(p)
    BY <1>0, <2>1 DEF StaysAlone, Went, Running, SealedSteps
  <2> QED
    BY <2>1, <2>4, <2>5, QuietKeeps
<1> QED
  BY <1>1, <1>2, <1>3 DEF RemoveMarker

\* It comes back only where there is none, as a name of the witness.
LEMMA RestoreMarkerKeeps ==
    ASSUME PubInv, NEW p \in Publishers, RestoreMarker(p)
    PROVE  PubInv'
<1>0. Running(p) /\ proc[p].pc = "restore" /\ Goto(p, "restored") /\ Went(p, "restored")
  BY Going DEF RestoreMarker, At, Running, Steps, PubInv
<1>1. CallOf(p) /\ FilesInv /\ PubTypes /\ legacyContent = None /\ Sealed /\ fs.final # None
  BY <1>0 DEF PubInv, CallsInv, CallOf, WitnessOf, SealedSteps, Stops, FilesInv, WitnessesProve, Sealed
<1>2. KeepsFiles(p)
  BY <1>0, <1>1, RunningHas, Faulting DEF KeepsFiles, Went, RestoreMarker
<1>3. StaysAlone(p)
  BY <1>0 DEF StaysAlone, Went, Running, SealedSteps
<1>4. CASE fs.marker # None
  <2>1. Quiet(p) /\ fs'.final = fs.final /\ fs'.witness = fs.witness
    BY <1>1, <1>2, <1>4, Syncing, Dropping DEF Quiet, RestoreMarker
  <2>2. Content(fs.final)' = Content(fs.final) /\ Sealed'
    BY <1>1, <1>2, <2>1, FinalStays, QuietIsSteady, SteadyFiles
  <2>3. CallOf(p)'
    BY <1>0, <1>1, <2>1, <2>2 DEF Went, Quiet, KeepsFiles, CallOf, MarkerOf, FinalOf, WitnessOf, Holds,
       HoldingSteps, PastAnchor, SealedSteps, Steps, Stops
  <2> QED
    BY <1>3, <2>1, <2>3, QuietKeeps
<1>5. CASE fs.marker = None
  <2>1. \A q \in Publishers : ~ Holds(q)
    BY <1>5 DEF PubInv, CallsInv, CallOf, MarkerOf
  <2>2. /\ fs' \in Entries /\ fs'.final = fs.final /\ fs'.witness = fs.witness /\ fs'.temps = fs.temps
        /\ fs'.marker \in {fs.marker, fs.witness}
    BY <1>1, <1>5 DEF RestoreMarker, PubTypes, Entries
  <2>3. /\ disk' \in Entries /\ disk'.made = disk.made
        /\ \/ disk'.final = disk.final /\ disk'.witness = disk.witness /\ disk'.temps = disk.temps
              /\ disk'.marker = disk.marker
           \/ disk'.final = fs.final /\ disk'.witness = fs.witness /\ disk'.temps = fs.temps
              /\ disk'.marker = fs'.marker
    BY <1>1, <1>5, <2>2 DEF RestoreMarker, PubTypes, Entries, Synced
  <2>4. Steady(p)
    BY <1>2, <2>2, <2>3 DEF Steady, Names
  <2>5. Content(fs.final)' = Content(fs.final) /\ Sealed'
    BY <1>1, <1>2, <2>2, <2>4, FinalStays, SteadyFiles
  <2>6. CallOf(p)'
    BY <1>0, <1>1, <1>2, <2>2, <2>5 DEF Went, KeepsFiles, CallOf, MarkerOf, FinalOf, WitnessOf, Holds,
       HoldingSteps, PastAnchor, SealedSteps, Steps, Stops
  <2> QED
    BY <1>1, <1>3, <2>1, <2>4, <2>6, RemarkKeeps
<1> QED
  BY <1>4, <1>5

-----------------------------------------------------------------------------
(* The steps that bind: the final file, then the witness.                  *)

\* Another call knows of the final file and the witness only what it holds
\* the marker for, or what a witness already proves.
LEMMA InstallKeeps ==
    ASSUME PubInv, NEW p \in Publishers, Install(p)
    PROVE  PubInv'
<1>0. Running(p) /\ Holds(p) /\ proc[p].pc = "install"
  BY DEF Install, At, Running, Steps, Holds, HoldingSteps
<1>1. /\ CallOf(p) /\ FilesInv /\ PubTypes /\ legacyContent = None
      /\ fs.marker = proc[p].mine /\ disk.marker = fs.marker /\ Whole(fs.marker) /\ disk.made
      /\ Content(fs.marker) = proc[p].content /\ proc[p].mine # None
      /\ ~ proc[p].recovers => proc[p].mine = p
  BY <1>0 DEF PubInv, CallsInv, CallOf, MarkerOf, Stops, HoldingSteps, PastAnchor
<1>2. CASE Raise(p) /\ (Fault \/ NoFault)
  BY <1>0, <1>2, RaiseKeeps DEF Install
<1>3. CASE fs.final # None /\ Goto(p, "final") /\ UNCHANGED fs /\ NoFault
  <2>1. /\ Quiet(p) /\ Went(p, "final") /\ fs'.final = fs.final /\ fs'.witness = fs.witness
    BY <1>0, <1>3, MoveIsQuiet DEF Install, Steps
  <2>2. UNCHANGED disk
    BY DEF Install
  <2>3. MarkerOf(p)'
    BY <1>0, <1>1, <2>1, <2>2, HolderStays DEF Went, CallOf, MarkerOf, Holds, HoldingSteps, PastAnchor, Steps
  <2>4. FinalOf(p)' /\ WitnessOf(p)'
    BY <1>0, <1>1, <1>3, <2>1, <2>2 DEF Went, CallOf, FinalOf, WitnessOf, SealedSteps, Steps, Sealed
  <2>5. CallOf(p)'
    BY <1>0, <1>1, <2>1, <2>3, <2>4, HolderStays DEF Went, CallOf, Steps
  <2>6. StaysAlone(p)
    BY <1>0, <2>1 DEF StaysAlone, Went, Running, SealedSteps
  <2> QED
    BY <2>1, <2>5, <2>6, QuietKeeps
<1>4. CASE /\ fs.final = None /\ Goto(p, "retire") /\ NoFault
           /\ fs' = [fs EXCEPT !.final = p, !.temps = @ \cup {p}]
  <2>1. Went(p, "retire")
    BY <1>1, <1>4, Going DEF Steps
  <2>2. \A q \in Publishers : q # p => ~ Holds(q)
    BY <1>0, OneHolder
  <2>3. KeepsFiles(p)
    BY <1>0, <1>1, <1>4, <2>1, RunningHas, Faulting DEF KeepsFiles, Went, Install
  <2>4. /\ fs' \in Entries /\ fs'.final = p /\ fs'.marker = fs.marker /\ fs'.witness = fs.witness
        /\ fs'.temps = fs.temps \cup {p} /\ disk' = disk
    BY <1>1, <1>4 DEF PubTypes, Entries, Install
  <2>5. disk.final = None /\ fs.witness = None /\ disk.witness = None
    BY <1>1, <1>4 DEF FilesInv, FinalIsPart, WitnessesProve
  <2>6. PubTypes'
    BY <1>1, <2>3, <2>4 DEF PubTypes, KeepsFiles
  <2>7. p # None /\ p # Legacy /\ Content(p)' = proc'[p].content
    BY ArtifactPublicationAssumption DEF Content
  <2>8. fs.marker \in Names /\ fs.marker # Legacy /\ fs.marker # None
    BY <1>1, ArtifactPublicationAssumption DEF Names, PubTypes, Entries
  <2>9. Content(fs.marker)' = proc'[p].content /\ Whole(fs.marker)'
    BY <1>1, <2>1, <2>3, <2>4, <2>8, FilesStay DEF Went, Content, Whole
  <2>10. FinalIsPart' /\ WitnessesProve' /\ FinalIsMade'
    BY <1>1, <2>4, <2>5 DEF FinalIsPart, WitnessesProve, FinalIsMade
  <2>11. FinalIsBound'
    BY <1>1, <2>4, <2>7, <2>9 DEF FinalIsBound, Content
  <2>12. LegacyStays'
    BY <1>1, <2>3, <2>4, <2>7 DEF LegacyStays, KeepsFiles
  <2>13. FilesAreBegun'
    <3> SUFFICES ASSUME NEW q \in Publishers
                 PROVE  IF proc'[q].pc = "ready"
                        THEN proc'[q] = Fresh /\ q \notin Names' \cup fs'.temps \cup disk'.temps
                        ELSE proc'[q].content \in Contents /\ proc'[q].mine \in Publishers
      BY DEF FilesAreBegun
    <3>1. CASE q = p
      BY <2>3, <3>1 DEF KeepsFiles
    <3>2. CASE q # p
      BY <1>1, <2>3, <2>4, <3>2 DEF KeepsFiles, FilesInv, FilesAreBegun, Names
    <3> QED
      BY <3>1, <3>2
  <2>14. CallOf(p)'
    BY <1>0, <1>1, <2>1, <2>3, <2>4, <2>7, <2>9 DEF Went, KeepsFiles, CallOf, MarkerOf, FinalOf, WitnessOf, Holds,
       HoldingSteps, PastAnchor, SealedSteps, Steps, Stops, Content, Whole
  <2>15. ASSUME NEW q \in Publishers, q # p PROVE CallOf(q)'
    <3>1. proc'[q] = proc[q] /\ CallOf(q) /\ ~ Holds(q)
      BY <2>2, <2>3, <2>15 DEF KeepsFiles, PubInv, CallsInv
    <3>2. proc[q].pc \notin SealedSteps /\ proc[q].pc # "adopt"
      BY <1>4, <2>5, <3>1 DEF CallOf, WitnessOf, FinalOf, Sealed
    <3>3. proc[q].pc \notin HoldingSteps
      BY <3>1 DEF Holds
    <3>4. MarkerOf(q)' /\ FinalOf(q)'
      BY <3>1, <3>2, <3>3 DEF MarkerOf, FinalOf, Holds, HoldingSteps, PastAnchor
    <3>5. WitnessOf(q)'
      BY <2>4, <3>1 DEF CallOf, WitnessOf, Sealed
    <3> QED
      BY <2>3, <3>1, <3>4, <3>5 DEF CallOf, KeepsFiles
  <2>16. StaysAlone(p)
    BY <1>0, <2>1 DEF StaysAlone, Went, Running, SealedSteps
  <2>17. Alone'
    BY <2>3, <2>16, StayingAlone DEF PubInv, KeepsFiles
  <2>18. ReadersInv'
    BY <1>4, <2>3, <2>5 DEF PubInv, ReadersInv, ReaderOf, KeepsFiles
  <2> QED
    BY <2>6, <2>10, <2>11, <2>12, <2>13, <2>14, <2>15, <2>17, <2>18 DEF PubInv, FilesInv, CallsInv
<1> QED
  BY <1>2, <1>3, <1>4 DEF Install

LEMMA LinkWitnessKeeps ==
    ASSUME PubInv, NEW p \in Publishers, LinkWitness(p)
    PROVE  PubInv'
<1>0. Running(p) /\ Holds(p) /\ proc[p].pc = "link" /\ proc[p] \in ProcStates
  BY DEF LinkWitness, At, Running, Steps, Holds, HoldingSteps, PubInv, PubTypes
<1>1. /\ CallOf(p) /\ FilesInv /\ PubTypes /\ legacyContent = None
      /\ fs.marker = proc[p].mine /\ disk.marker = fs.marker /\ Whole(fs.marker) /\ disk.made
      /\ Content(fs.marker) = proc[p].content /\ proc[p].mine # None
      /\ ~ proc[p].recovers => proc[p].mine = p
      /\ fs.final # None /\ disk.final = fs.final /\ Content(fs.final) = proc[p].content
  BY <1>0 DEF PubInv, CallsInv, CallOf, MarkerOf, FinalOf, Stops, HoldingSteps, PastAnchor
<1>2. CASE Raise(p) /\ (Fault \/ NoFault)
  BY <1>0, <1>2, RaiseKeeps DEF LinkWitness
<1>3. CASE fs.witness # None /\ Goto(p, "seal") /\ UNCHANGED fs /\ NoFault
  <2>1. /\ Quiet(p) /\ Went(p, "seal") /\ fs'.final = fs.final /\ fs'.witness = fs.witness
        /\ fs.final # None => Content(fs.final)' = Content(fs.final)
    BY <1>0, <1>3, MoveIsQuiet DEF LinkWitness, Steps
  <2>2. UNCHANGED disk /\ ~ proc'[p].created
    BY <1>0, <1>1, <2>1 DEF LinkWitness, Went, CallOf, WitnessOf, Steps, SealedSteps
  <2>3. MarkerOf(p)'
    BY <1>0, <1>1, <2>1, <2>2, HolderStays DEF Went, CallOf, MarkerOf, Holds, HoldingSteps, PastAnchor, Steps
  <2>4. FinalOf(p)' /\ WitnessOf(p)'
    BY <1>0, <1>1, <1>3, <2>1, <2>2 DEF Went, CallOf, FinalOf, WitnessOf, SealedSteps, Steps, Sealed
  <2>5. CallOf(p)'
    BY <1>0, <1>1, <2>1, <2>3, <2>4, HolderStays DEF Went, CallOf, Steps
  <2>6. StaysAlone(p)
    BY <1>0, <2>1, <2>2 DEF StaysAlone, Went, Running, SealedSteps
  <2> QED
    BY <2>1, <2>5, <2>6, QuietKeeps
<1>4. CASE /\ fs.witness = None /\ fs.marker # None /\ NoFault
           /\ proc' = [proc EXCEPT ![p].created = TRUE, ![p].pc = "seal"]
           /\ fs' = [fs EXCEPT !.witness = fs.marker]
  <2>1. /\ proc'[p] \in ProcStates /\ \A q \in Publishers : q # p => proc'[q] = proc[q]
        /\ proc'[p].pc = "seal" /\ proc'[p].recovers = proc[p].recovers
        /\ proc'[p].whole = proc[p].whole /\ proc'[p].content = proc[p].content
        /\ proc'[p].mine = proc[p].mine
    BY <1>0, <1>1, <1>4 DEF ProcStates, PubTypes, Steps
  <2>2. proc' \in [Publishers -> ProcStates]
    BY <1>1, <1>4, <2>1 DEF PubTypes
  <2>3. KeepsFiles(p)
    BY <1>0, <1>1, <1>4, <2>1, <2>2, RunningHas, Faulting DEF KeepsFiles, LinkWitness
  <2>4. \A q \in Publishers : q # p => ~ Holds(q)
    BY <1>0, OneHolder
  <2>5. /\ fs' \in Entries /\ fs'.final = fs.final /\ fs'.marker = fs.marker /\ fs'.witness = fs.marker
        /\ fs'.temps = fs.temps /\ disk' = disk
    BY <1>1, <1>4 DEF PubTypes, Entries, LinkWitness
  <2>6. PubTypes'
    BY <1>1, <2>3, <2>5 DEF PubTypes, KeepsFiles
  <2>7. \A f \in Names : f # None =>
           Content(f)' = Content(f) /\ (f # Legacy /\ Whole(f) => Whole(f)')
    BY <2>3, FilesStay
  <2>8. {fs.marker, fs.final, disk.witness} \subseteq Names /\ fs.marker \notin {None, Legacy}
        /\ disk.witness # Legacy
    BY <1>1, ArtifactPublicationAssumption DEF Names, PubTypes, Entries
  <2>9. Content(fs.marker)' = Content(fs.marker) /\ Whole(fs.marker)' /\ Content(fs.final)' = Content(fs.final)
    BY <1>1, <2>5, <2>7, <2>8 DEF Content, Whole
  <2>10. FinalIsPart' /\ FinalIsMade'
    BY <1>1, <2>5 DEF FilesInv, FinalIsPart, FinalIsMade
  <2>11. WitnessesProve'
    <3> SUFFICES ASSUME NEW w \in {fs'.witness, disk'.witness}, w # None
                 PROVE  /\ Whole(w)' /\ fs'.final # None /\ disk'.final = fs'.final
                        /\ Content(w)' = Content(fs.final)'
      BY DEF WitnessesProve
    <3>1. w \in Names /\ w # Legacy /\ Whole(w) /\ Content(w) = Content(fs.final)
      BY <1>1, <2>5, <2>8 DEF FilesInv, WitnessesProve
    <3> QED
      BY <1>1, <2>5, <2>7, <2>9, <3>1
  <2>12. FinalIsBound'
    BY <1>1, <2>5, <2>9 DEF FinalIsBound, Content, Whole
  <2>13. LegacyStays'
    BY <1>1, <2>3, <2>5 DEF FilesInv, LegacyStays, KeepsFiles
  <2>14. FilesAreBegun'
    <3> SUFFICES ASSUME NEW q \in Publishers
                 PROVE  IF proc'[q].pc = "ready"
                        THEN proc'[q] = Fresh /\ q \notin Names' \cup fs'.temps \cup disk'.temps
                        ELSE proc'[q].content \in Contents /\ proc'[q].mine \in Publishers
      BY DEF FilesAreBegun
    <3>1. CASE q = p
      BY <2>3, <3>1 DEF KeepsFiles
    <3>2. CASE q # p
      BY <1>1, <2>3, <2>5, <3>2 DEF KeepsFiles, FilesInv, FilesAreBegun, Names
    <3> QED
      BY <3>1, <3>2
  <2>15. CallOf(p)'
    BY <1>0, <1>1, <2>1, <2>3, <2>5, <2>9 DEF KeepsFiles, CallOf, MarkerOf, FinalOf, WitnessOf, Holds,
       HoldingSteps, PastAnchor, SealedSteps, Steps, Stops, Content, Whole
  <2>16. ASSUME NEW q \in Publishers, q # p PROVE CallOf(q)' /\ proc[q].pc \notin SealedSteps
    <3>1. proc'[q] = proc[q] /\ CallOf(q) /\ ~ Holds(q)
      BY <2>3, <2>4, <2>16 DEF KeepsFiles, PubInv, CallsInv
    <3>2. proc[q].pc \notin SealedSteps
      BY <1>4, <3>1 DEF CallOf, WitnessOf, Sealed
    <3>3. proc[q].pc \notin HoldingSteps
      BY <3>1 DEF Holds
    <3>4. MarkerOf(q)' /\ FinalOf(q)'
      BY <1>1, <2>5, <2>9, <3>1, <3>2, <3>3 DEF CallOf, MarkerOf, FinalOf, Holds, HoldingSteps, PastAnchor
    <3>5. WitnessOf(q)'
      BY <1>4, <2>5, <2>8, <3>1 DEF CallOf, WitnessOf, Sealed
    <3> QED
      BY <2>3, <3>1, <3>2, <3>4, <3>5 DEF CallOf, KeepsFiles
  <2>17. StaysAlone(p)
    BY <1>0, <2>1, <2>16 DEF StaysAlone, Running, SealedSteps
  <2>18. Alone'
    BY <2>3, <2>17, StayingAlone DEF PubInv, KeepsFiles
  <2>19. ReadersInv'
    BY <2>3, <2>5, SteadyReaders
  <2> QED
    BY <2>6, <2>10, <2>11, <2>12, <2>13, <2>14, <2>15, <2>16, <2>18, <2>19 DEF PubInv, FilesInv, CallsInv
<1> QED
  BY <1>2, <1>3, <1>4 DEF LinkWitness

\* Who takes the witness back still has the marker, durably, and nobody has
\* relied on the witness.
LEMMA SyncWitnessKeeps ==
    ASSUME PubInv, NEW p \in Publishers, SyncWitness(p)
    PROVE  PubInv'
<1>0. Running(p) /\ Holds(p) /\ proc[p].pc = "seal" /\ UNCHANGED <<legacyContent, reader>>
  BY Zenon DEF SyncWitness, At, Running, Steps, Holds, HoldingSteps
<1>1. /\ CallOf(p) /\ FilesInv /\ PubTypes /\ legacyContent = None
      /\ fs.marker = proc[p].mine /\ disk.marker = fs.marker /\ Whole(fs.marker) /\ disk.made
      /\ Content(fs.marker) = proc[p].content /\ proc[p].mine # None
      /\ fs.final # None /\ disk.final = fs.final /\ Content(fs.final) = proc[p].content
      /\ fs.witness # None
  BY <1>0 DEF PubInv, CallsInv, CallOf, MarkerOf, FinalOf, WitnessOf, Stops, HoldingSteps, PastAnchor
<1>2. CASE disk' = Synced(fs) /\ Goto(p, "sealed") /\ UNCHANGED fs /\ NoFault
  <2>1. /\ Quiet(p) /\ Went(p, "sealed") /\ fs'.final = fs.final /\ fs'.witness = fs.witness
        /\ fs.final # None => Content(fs.final)' = Content(fs.final)
    BY <1>0, <1>2, MoveIsQuiet DEF Steps
  <2>2. disk'.final = fs.final /\ disk'.marker = fs.marker /\ disk'.witness = fs.witness
        /\ disk'.made = disk.made
    BY <1>1, <1>2 DEF Synced, PubTypes, Entries
  <2>3. MarkerOf(p)'
    BY <1>0, <1>1, <2>1, <2>2, HolderStays DEF Went, CallOf, MarkerOf, Holds, HoldingSteps, PastAnchor, Steps
  <2>4. FinalOf(p)' /\ WitnessOf(p)'
    BY <1>0, <1>1, <2>1, <2>2 DEF Went, CallOf, FinalOf, WitnessOf, SealedSteps, Steps, Sealed
  <2>5. CallOf(p)'
    BY <1>0, <1>1, <2>1, <2>3, <2>4, HolderStays DEF Went, CallOf, Steps
  <2>6. StaysAlone(p)
    BY <1>0, <2>1 DEF StaysAlone, Went, Running, SealedSteps
  <2> QED
    BY <2>1, <2>5, <2>6, QuietKeeps
<1>3. ASSUME NEW undone \in BOOLEAN, Goto(p, "failed"), Fault,
             fs' = [fs EXCEPT !.temps = @ \ {p},
                              !.witness = IF undone /\ proc[p].created THEN None ELSE @],
             disk' \in {disk, Synced(fs), Synced(fs')}
      PROVE  PubInv'
  <2>1. Went(p, "failed")
    BY <1>1, <1>3, Going DEF Stops
  <2>2. KeepsFiles(p)
    BY <1>0, <1>1, <1>3, <2>1, RunningHas, Faulting DEF KeepsFiles, Went
  <2>3. /\ fs' \in Entries /\ fs'.final = fs.final /\ fs'.marker = fs.marker
        /\ fs'.witness = (IF undone /\ proc[p].created THEN None ELSE fs.witness)
        /\ fs'.temps \subseteq fs.temps
    BY <1>1, <1>3 DEF PubTypes, Entries
  <2>4. /\ disk' \in Entries /\ disk'.final = fs.final /\ disk'.marker = fs.marker /\ disk'.made = disk.made
        /\ disk'.witness \in {disk.witness, fs.witness, fs'.witness}
        /\ disk'.temps \subseteq fs.temps \cup disk.temps
        /\ (undone /\ proc[p].created) \/ disk'.witness \in {disk.witness, fs.witness}
    BY <1>1, <1>3, <2>3 DEF PubTypes, Entries, Synced
  <2>5. CASE ~ (undone /\ proc[p].created)
    <3>1. SyncsDisk /\ SameEntries(p)
      BY <1>1, <2>3, <2>4, <2>5 DEF SyncsDisk, SameEntries
    <3>2. Quiet(p)
      BY <2>2, <3>1 DEF Quiet
    <3> QED
      BY <2>1, <3>2, EndingKeeps DEF Went
  <2>6. CASE undone /\ proc[p].created
    <3>1. PubTypes'
      BY <1>1, <2>2, <2>3, <2>4 DEF PubTypes, KeepsFiles
    <3>2. \A f \in Names : f # None =>
             Content(f)' = Content(f) /\ (f # Legacy /\ Whole(f) => Whole(f)')
      BY <2>2, FilesStay
    <3>3. {fs.marker, fs.final, fs.witness, disk.witness} \subseteq Names
          /\ fs.marker \notin {None, Legacy} /\ Legacy \notin {fs.witness, disk.witness}
      BY <1>1, ArtifactPublicationAssumption DEF Names, PubTypes, Entries
    <3>4. Content(fs.marker)' = Content(fs.marker) /\ Whole(fs.marker)' /\ Content(fs.final)' = Content(fs.final)
      BY <1>1, <2>3, <3>2, <3>3 DEF Content, Whole
    <3>5. FinalIsPart' /\ FinalIsMade'
      BY <1>1, <2>3, <2>4 DEF FilesInv, FinalIsPart, FinalIsMade
    <3>6. WitnessesProve'
      <4> SUFFICES ASSUME NEW w \in {fs'.witness, disk'.witness}, w # None
                   PROVE  /\ Whole(w)' /\ fs'.final # None /\ disk'.final = fs'.final
                          /\ Content(w)' = Content(fs.final)'
        BY DEF WitnessesProve
      <4>1. w \in {fs.witness, disk.witness}
        BY <2>3, <2>4
      <4>2. w \in Names /\ w # Legacy /\ Whole(w) /\ Content(w) = Content(fs.final)
        BY <1>1, <3>3, <4>1 DEF FilesInv, WitnessesProve
      <4> QED
        BY <1>1, <2>3, <2>4, <3>2, <3>4, <4>2
    <3>7. FinalIsBound'
      BY <1>1, <2>3, <2>4, <3>4 DEF FinalIsBound, Content, Whole
    <3>8. LegacyStays'
      BY <1>1, <2>2, <2>3 DEF FilesInv, LegacyStays, KeepsFiles
    <3>9. FilesAreBegun'
      <4>1. Names' \subseteq Names \cup {None}
        BY <2>3, <2>4 DEF Names
      <4> SUFFICES ASSUME NEW q \in Publishers
                   PROVE  IF proc'[q].pc = "ready"
                          THEN proc'[q] = Fresh /\ q \notin Names' \cup fs'.temps \cup disk'.temps
                          ELSE proc'[q].content \in Contents /\ proc'[q].mine \in Publishers
        BY DEF FilesAreBegun
      <4>2. CASE q = p
        BY <2>2, <4>2 DEF KeepsFiles
      <4>3. CASE q # p
        BY <1>1, <2>2, <2>3, <2>4, <4>1, <4>3, ArtifactPublicationAssumption
           DEF KeepsFiles, FilesInv, FilesAreBegun
      <4> QED
        BY <4>2, <4>3
    <3>10. CallOf(p)'
      BY <2>1 DEF Went, CallOf, MarkerOf, FinalOf, WitnessOf, Holds, HoldingSteps, PastAnchor, SealedSteps,
         Stops, Steps
    <3>11. ASSUME NEW q \in Publishers, q # p PROVE CallOf(q)'
      <4>1. proc'[q] = proc[q] /\ CallOf(q) /\ ~ Holds(q)
        BY <1>0, <2>2, <3>11, OneHolder DEF KeepsFiles, PubInv, CallsInv
      <4>2. proc[q].pc \notin SealedSteps /\ ~ (proc[q].recovers /\ Running(q))
        BY <1>0, <2>6, <3>11 DEF PubInv, Alone
      <4>3. proc[q].pc \notin HoldingSteps
        BY <4>1 DEF Holds
      <4>4. MarkerOf(q)' /\ FinalOf(q)'
        BY <1>1, <2>3, <3>4, <4>1, <4>2, <4>3 DEF CallOf, MarkerOf, FinalOf, Holds, HoldingSteps, PastAnchor
      <4>5. WitnessOf(q)'
        BY <4>1, <4>2, <4>3 DEF CallOf, WitnessOf, Running, Steps, HoldingSteps
      <4> QED
        BY <2>2, <4>1, <4>4, <4>5 DEF CallOf, KeepsFiles
    <3>12. StaysAlone(p)
      BY <2>1 DEF StaysAlone, Went, Running, Steps, SealedSteps
    <3>13. Alone'
      BY <2>2, <3>12, StayingAlone DEF PubInv, KeepsFiles
    <3>14. ReadersInv'
      BY <2>2, <2>3, <2>4, SteadyReaders
    <3> QED
      BY <3>1, <3>5, <3>6, <3>7, <3>8, <3>9, <3>10, <3>11, <3>13, <3>14 DEF PubInv, FilesInv, CallsInv
  <2> QED
    BY <2>5, <2>6
<1> QED
  BY <1>2, <1>3, Zenon DEF SyncWitness

-----------------------------------------------------------------------------
(* A machine crash, and the readers.                                       *)

LEMMA SurvivorIs ==
    ASSUME PubTypes, NEW v \in Survivors
    PROVE  \/ /\ ~ disk.made /\ v = NoEntries
           \/ /\ v \in Entries /\ v.final \in {fs.final, disk.final} /\ v.made
              /\ v.marker \in {fs.marker, disk.marker} /\ v.witness \in {fs.witness, disk.witness}
              /\ v.temps \subseteq fs.temps \cup disk.temps
<1> USE DEF PubTypes
<1>1. CASE v \in (IF disk.made THEN {} ELSE {NoEntries})
  BY <1>1
<1>2. CASE \E f \in {fs.final, disk.final}, m \in {fs.marker, disk.marker},
              w \in {fs.witness, disk.witness}, t \in SUBSET (fs.temps \cup disk.temps) :
              v = [final |-> f, marker |-> m, witness |-> w,
                   temps |-> (fs.temps \cap disk.temps) \cup t, made |-> TRUE]
  <2>1. PICK f \in {fs.final, disk.final}, m \in {fs.marker, disk.marker},
             w \in {fs.witness, disk.witness}, t \in SUBSET (fs.temps \cup disk.temps) :
             v = [final |-> f, marker |-> m, witness |-> w,
                  temps |-> (fs.temps \cap disk.temps) \cup t, made |-> TRUE]
    BY <1>2
  <2>2. (fs.temps \cap disk.temps) \cup t \in SUBSET Publishers
    BY DEF Entries
  <2>3. f \in Publishers \cup {Legacy, None} /\ m \in Publishers \cup {None} /\ w \in Publishers \cup {None}
    BY DEF Entries
  <2>4. v \in Entries
    BY <2>1, <2>2, <2>3 DEF Entries
  <2> QED
    BY <2>1, <2>4
<1> QED
  BY <1>1, <1>2 DEF Survivors

LEMMA CrashKeeps ==
    ASSUME PubInv, Crash
    PROVE  PubInv'
<1> USE DEF PubInv
<1>1. /\ faults' \in 0..MaxFaults /\ legacyContent' = legacyContent /\ disk' = fs'
      /\ \A r \in Readers : reader'[r] = IdleReader
      /\ reader' \in [Readers -> ReaderStates]
  BY Faulting, ArtifactPublicationAssumption DEF Crash, IdleReader, ReaderStates
<1>2. \/ ~ disk.made /\ fs' = NoEntries
      \/ /\ fs' \in Entries /\ fs'.final \in {fs.final, disk.final} /\ fs'.made
         /\ fs'.marker \in {fs.marker, disk.marker} /\ fs'.witness \in {fs.witness, disk.witness}
         /\ fs'.temps \subseteq fs.temps \cup disk.temps
  BY SurvivorIs DEF Crash
<1>3. \A p \in Publishers :
         /\ proc'[p] \in ProcStates
         /\ proc'[p].pc = (IF Running(p) THEN "dead" ELSE proc[p].pc)
         /\ proc'[p].content = proc[p].content /\ proc'[p].mine = proc[p].mine
         /\ proc'[p].whole = proc[p].whole
         /\ ~ Running(p) => proc'[p] = proc[p]
  <2> SUFFICES ASSUME NEW p \in Publishers
               PROVE  /\ proc'[p] \in ProcStates
                      /\ proc'[p].pc = (IF Running(p) THEN "dead" ELSE proc[p].pc)
                      /\ proc'[p].content = proc[p].content /\ proc'[p].mine = proc[p].mine
                      /\ proc'[p].whole = proc[p].whole
                      /\ ~ Running(p) => proc'[p] = proc[p]
    OBVIOUS
  <2>1. proc[p] \in ProcStates
    BY DEF PubTypes
  <2>2. proc'[p] = IF Running(p) THEN [proc[p] EXCEPT !.pc = "dead"] ELSE proc[p]
    BY DEF Crash
  <2> QED
    BY <2>1, <2>2 DEF ProcStates, Stops
<1>4. proc' \in [Publishers -> ProcStates]
  BY <1>3 DEF Crash
<1>5. PubTypes'
  <2>1. NoEntries \in Entries
    BY DEF NoEntries, Entries
  <2> QED
    BY <1>1, <1>2, <1>4, <2>1 DEF PubTypes
<1>6. \A f \in Publishers : proc'[f].content = proc[f].content /\ (Whole(f) => Whole(f)')
  BY <1>3 DEF Whole
<1>7. \A p \in Publishers : proc'[p].pc \in Stops
  BY <1>3 DEF PubTypes, ProcStates, Running, Stops
<1>8. CallsInv'
  BY <1>7 DEF CallsInv, CallOf, MarkerOf, FinalOf, WitnessOf, Holds, HoldingSteps, PastAnchor, SealedSteps,
     Stops, Steps
<1>9. Alone'
  BY <1>7 DEF Alone, Running, Stops, Steps
<1>10. ReadersInv'
  BY <1>1 DEF ReadersInv, ReaderOf, IdleReader
<1>11. CASE ~ disk.made /\ fs' = NoEntries
  <2>1. fs.final = None
    BY <1>11 DEF FilesInv, FinalIsMade
  <2>2. legacyContent = None
    BY <2>1, ArtifactPublicationAssumption DEF FilesInv, LegacyStays
  <2>3. /\ fs'.final = None /\ fs'.marker = None /\ fs'.witness = None /\ fs'.temps = {}
    BY <1>11 DEF NoEntries
  <2>4. FinalIsPart' /\ WitnessesProve' /\ FinalIsBound' /\ FinalIsMade' /\ LegacyStays'
    BY <1>1, <2>2, <2>3, ArtifactPublicationAssumption
       DEF FinalIsPart, WitnessesProve, FinalIsBound, FinalIsMade, LegacyStays
  <2>5. FilesAreBegun'
    BY <1>1, <1>3, <2>3, ArtifactPublicationAssumption DEF FilesInv, FilesAreBegun, Names, Running, Steps
  <2> QED
    BY <1>5, <1>8, <1>9, <1>10, <2>4, <2>5 DEF FilesInv
<1>12. CASE /\ fs' \in Entries /\ fs'.final \in {fs.final, disk.final} /\ fs'.made
            /\ fs'.marker \in {fs.marker, disk.marker} /\ fs'.witness \in {fs.witness, disk.witness}
            /\ fs'.temps \subseteq fs.temps \cup disk.temps
  <2>1. fs'.final # None => fs'.final = fs.final
    BY <1>12 DEF FilesInv, FinalIsPart
  <2>2. \A f \in Names : f # None => Content(f)' = Content(f) /\ (f # Legacy /\ Whole(f) => Whole(f)')
    BY <1>1, <1>6 DEF Names, PubTypes, Entries, Content
  <2>3. FinalIsPart' /\ FinalIsMade'
    BY <1>1, <1>12 DEF FinalIsPart, FinalIsMade
  <2>4. WitnessesProve'
    <3> SUFFICES ASSUME NEW w \in {fs'.witness, disk'.witness}, w # None
                 PROVE  /\ Whole(w)' /\ fs'.final # None /\ disk'.final = fs'.final
                        /\ Content(w)' = Content(fs.final)'
      BY DEF WitnessesProve
    <3>1. w \in {fs.witness, disk.witness}
      BY <1>1, <1>12
    <3>2. Whole(w) /\ fs.final # None /\ disk.final = fs.final /\ Content(w) = Content(fs.final)
      BY <3>1 DEF FilesInv, WitnessesProve
    <3>3. w \in Names /\ w # Legacy /\ fs.final \in Names
      BY <3>1, ArtifactPublicationAssumption DEF Names, PubTypes, Entries
    <3>4. fs'.final = fs.final
      BY <1>12, <3>2
    <3>5. Content(fs.final)' = Content(fs.final)
      BY <2>2, <3>2, <3>3, <3>4 DEF Content
    <3> QED
      BY <1>1, <2>2, <3>2, <3>3, <3>4, <3>5
  <2>5. FinalIsBound'
    <3> SUFFICES ASSUME fs'.final # None, legacyContent' = None
                 PROVE  \/ Sealed'
                        \/ /\ fs'.marker = disk'.marker /\ Whole(fs.marker)'
                           /\ Content(fs.marker)' = Content(fs.final)'
      BY DEF FinalIsBound
    <3>1. fs'.final = fs.final /\ fs.final # None /\ legacyContent = None
      BY <1>1, <2>1
    <3>2. CASE Sealed
      BY <1>1, <1>12, <3>2 DEF Sealed
    <3>3. CASE fs.marker = disk.marker /\ Whole(fs.marker) /\ Content(fs.marker) = Content(fs.final)
      <4>1. fs'.marker = fs.marker /\ fs.marker \in Names /\ fs.final \in Names /\ fs.marker \notin {None, Legacy}
        BY <1>12, <3>3, ArtifactPublicationAssumption DEF Whole, Names, PubTypes, Entries
      <4>2. Content(fs.marker)' = Content(fs.marker) /\ Whole(fs.marker)' /\ Content(fs.final)' = Content(fs.final)
        BY <2>2, <3>1, <3>3, <4>1 DEF Content, Whole
      <4> QED
        BY <1>1, <3>3, <4>1, <4>2
    <3> QED
      BY <3>1, <3>2, <3>3 DEF FilesInv, FinalIsBound
  <2>6. LegacyStays'
    <3>1. CASE legacyContent = None
      BY <1>1, <1>12, <3>1, ArtifactPublicationAssumption DEF FilesInv, FinalIsPart, LegacyStays
    <3>2. CASE legacyContent # None
      BY <1>1, <1>12, <3>2 DEF FilesInv, LegacyStays
    <3> QED
      BY <3>1, <3>2
  <2>7. FilesAreBegun'
    <3>1. Names' \subseteq Names /\ fs'.temps \cup disk'.temps \subseteq fs.temps \cup disk.temps
      BY <1>1, <1>12 DEF Names
    <3> SUFFICES ASSUME NEW q \in Publishers
                 PROVE  IF proc'[q].pc = "ready"
                        THEN proc'[q] = Fresh /\ q \notin Names' \cup fs'.temps \cup disk'.temps
                        ELSE proc'[q].content \in Contents /\ proc'[q].mine \in Publishers
      BY DEF FilesAreBegun
    <3>2. proc'[q].pc = "ready" => proc[q].pc = "ready" /\ proc'[q] = proc[q]
      BY <1>3
    <3>3. proc'[q].pc # "ready" => proc[q].pc # "ready"
      BY <1>3 DEF Running, Steps
    <3> QED
      BY <1>3, <3>1, <3>2, <3>3 DEF FilesInv, FilesAreBegun
  <2> QED
    BY <1>5, <1>8, <1>9, <1>10, <2>3, <2>4, <2>5, <2>6, <2>7 DEF FilesInv
<1> QED
  BY <1>2, <1>11, <1>12

\* A reader takes the text from a final file that stays what it is; it answers
\* when no marker bars it, so when the file is bound by a durable witness or
\* older than the protocol.
LEMMA ReadKeeps ==
    ASSUME PubInv, NEW r \in Readers, Read(r)
    PROVE  PubInv'
<1> USE DEF PubInv
<1>1. UNCHANGED <<legacyContent, fs, disk, proc, faults>>
  BY DEF Read, StartRead, ReadWitness, ReadText, RecheckWitness, RecheckMarker, ReadAgain
<1>2. FilesInv' /\ CallsInv' /\ Alone'
  BY <1>1 DEF FilesInv, FinalIsPart, WitnessesProve, FinalIsBound, FinalIsMade, LegacyStays, FilesAreBegun,
     Names, Sealed, Whole, Content, CallsInv, CallOf, MarkerOf, FinalOf, WitnessOf, Holds, Alone, Running
<1>3. reader[r] \in ReaderStates
  BY DEF PubTypes
<1>4. IdleReader \in ReaderStates /\ IdleReader.pc = "idle"
  BY DEF IdleReader, ReaderStates
<1>5. Content(fs.final)' = Content(fs.final)
  BY <1>1 DEF Content
<1>6. /\ reader'[r] \in ReaderStates /\ ReaderOf(r)'
      /\ reader' = [reader EXCEPT ![r] = reader'[r]]
  <2>1. CASE StartRead(r)
    BY <1>3, <2>1 DEF StartRead, IdleReader, ReaderStates, ReaderOf, PubTypes
  <2>2. CASE ReadWitness(r)
    BY <1>3, <2>2 DEF ReadWitness, ReaderStates, ReaderOf, PubTypes, Entries
  <2>3. CASE ReadText(r)
    <3>1. CASE SingleLink /\ (reader[r].witness # None => CommittedAgrees)
      <4>1. fs.final # None /\ fs.final \in Publishers \cup {Legacy}
        BY <3>1 DEF SingleLink, PubTypes, Entries
      <4>2. Content(fs.final) \in Contents \cup {None}
        BY <4>1 DEF Content, PubTypes, ProcStates
      <4>3. reader' = [reader EXCEPT ![r] = [@ EXCEPT !.answer = Content(fs.final), !.pc = "recheck"]]
        BY <2>3, <3>1 DEF ReadText
      <4>4. /\ reader'[r] = [reader[r] EXCEPT !.answer = Content(fs.final), !.pc = "recheck"]
        BY <4>3 DEF PubTypes
      <4>5. reader'[r] \in ReaderStates /\ reader'[r].pc = "recheck" /\ reader'[r].answer = Content(fs.final)
        BY <1>3, <4>2, <4>4 DEF ReaderStates
      <4> QED
        BY <1>1, <1>5, <4>1, <4>3, <4>4, <4>5 DEF ReaderOf, PubTypes
    <3>2. CASE ~ (SingleLink /\ (reader[r].witness # None => CommittedAgrees))
      BY <1>4, <2>3, <3>2 DEF ReadText, ReaderOf, PubTypes
    <3> QED
      BY <3>1, <3>2
  <2>4. CASE RecheckWitness(r)
    <3>1. CASE fs.witness = reader[r].witness
      <4>1. ReaderOf(r)
        BY DEF ReadersInv
      <4>2. reader'[r] = [reader[r] EXCEPT !.pc = "barrier"]
        BY <2>4, <3>1 DEF RecheckWitness, PubTypes
      <4>3. reader'[r] \in ReaderStates /\ reader'[r].pc = "barrier" /\ reader'[r].answer = reader[r].answer
        BY <1>3, <4>2 DEF ReaderStates
      <4> QED
        BY <1>1, <1>5, <2>4, <3>1, <4>1, <4>3 DEF RecheckWitness, ReaderOf, PubTypes
    <3>2. CASE fs.witness # reader[r].witness
      BY <1>4, <2>4, <3>2 DEF RecheckWitness, ReaderOf, PubTypes
    <3> QED
      BY <3>1, <3>2
  <2>5. CASE RecheckMarker(r)
    <3>1. CASE fs.marker = None
      <4>1. fs.final # None
        BY <2>5 DEF RecheckMarker, ReadersInv, ReaderOf
      <4>2. disk.final # None
        BY <3>1, <4>1 DEF FilesInv, FinalIsBound, LegacyStays, WitnessesProve, Sealed, Whole
      <4>3. reader'[r] = [reader[r] EXCEPT !.pc = "answered"]
        BY <2>5, <3>1 DEF RecheckMarker, PubTypes
      <4>4. reader'[r] \in ReaderStates /\ reader'[r].pc = "answered"
        BY <1>3, <4>3 DEF ReaderStates
      <4> QED
        BY <1>1, <2>5, <3>1, <4>2, <4>4 DEF RecheckMarker, ReaderOf, PubTypes
    <3>2. CASE fs.marker # None
      BY <1>4, <2>5, <3>2 DEF RecheckMarker, ReaderOf, PubTypes
    <3> QED
      BY <3>1, <3>2
  <2>6. CASE ReadAgain(r)
    BY <1>4, <2>6 DEF ReadAgain, ReaderOf, PubTypes
  <2> QED
    BY <2>1, <2>2, <2>3, <2>4, <2>5, <2>6 DEF Read
<1>7. PubTypes'
  BY <1>1, <1>6 DEF PubTypes
<1>8. ReadersInv'
  <2> SUFFICES ASSUME NEW q \in Readers, q # r PROVE ReaderOf(q)'
    BY <1>6 DEF ReadersInv
  <2>1. reader'[q] = reader[q] /\ ReaderOf(q)
    BY <1>6 DEF PubTypes, ReadersInv
  <2> QED
    BY <1>1, <1>5, <2>1 DEF ReaderOf
<1> QED
  BY <1>2, <1>7, <1>8

-----------------------------------------------------------------------------
(* The invariant.                                                          *)

LEMMA PubInit == Init => PubInv
<1> SUFFICES ASSUME Init PROVE PubInv
  OBVIOUS
<1> USE DEF Init
<1>1. Fresh \in ProcStates /\ Fresh.pc = "ready" /\ ~ Fresh.recovers
  BY DEF Fresh, ProcStates, Stops
<1>2. IdleReader \in ReaderStates /\ IdleReader.pc = "idle"
  BY DEF IdleReader, ReaderStates
<1>3. fs \in Entries /\ fs.marker = None /\ fs.witness = None /\ fs.temps = {} /\ disk = fs
      /\ fs.final = (IF legacyContent = None THEN None ELSE Legacy) /\ (legacyContent # None => fs.made)
  BY DEF NoEntries, Entries
<1>4. PubTypes
  BY <1>1, <1>2, <1>3, ArtifactPublicationAssumption DEF PubTypes
<1>5. FilesInv
  BY <1>1, <1>3, ArtifactPublicationAssumption DEF FilesInv, FinalIsPart, WitnessesProve, FinalIsBound,
     FinalIsMade, LegacyStays, FilesAreBegun, Names
<1>6. CallsInv
  BY <1>1 DEF CallsInv, CallOf, MarkerOf, FinalOf, WitnessOf, Holds, HoldingSteps, PastAnchor, SealedSteps,
     Stops, Steps
<1>7. Alone
  BY <1>1 DEF Alone
<1>8. ReadersInv
  BY <1>2 DEF ReadersInv, ReaderOf
<1> QED
  BY <1>4, <1>5, <1>6, <1>7, <1>8 DEF PubInv

LEMMA PubStep == PubInv /\ [Next]_vars => PubInv'
<1> SUFFICES ASSUME PubInv, [Next]_vars PROVE PubInv'
  OBVIOUS
<1>1. CASE Crash
  BY <1>1, CrashKeeps
<1>2. ASSUME NEW p \in Publishers, Publish(p) PROVE PubInv'
  BY <1>2, BeginKeeps, SeeWitnessKeeps, SeeCommittedKeeps, FlushCommittedKeeps, ConfirmCommittedKeeps,
     SeePendingKeeps, SeeFinalKeeps, AdoptKeeps, CreateMarkerKeeps, WriteRecordKeeps, SyncMarkerKeeps,
     SeeConcurrentCommitKeeps, InstallKeeps, RetireTemporaryKeeps, SyncFinalKeeps, VerifyFinalKeeps,
     LinkWitnessKeeps, SyncWitnessKeeps, CheckWitnessKeeps, FinishKeeps, SyncConcurrentCommitKeeps,
     ConfirmConcurrentCommitKeeps, RemoveMarkerKeeps, SyncRemovalKeeps, RestoreMarkerKeeps,
     AfterRestoreKeeps, DieKeeps
     DEF Publish
<1>3. ASSUME NEW r \in Readers, Read(r) PROVE PubInv'
  BY <1>3, ReadKeeps
<1>4. CASE UNCHANGED vars
  BY <1>4 DEF vars, PubInv, PubTypes, FilesInv, FinalIsPart, WitnessesProve, FinalIsBound, FinalIsMade,
     LegacyStays, FilesAreBegun, Names, Sealed, Whole, Content, CallsInv, CallOf, MarkerOf, FinalOf,
     WitnessOf, Holds, Alone, Running, ReadersInv, ReaderOf
<1> QED
  BY <1>1, <1>2, <1>3, <1>4 DEF Next

\* The invariant of the files and of the calls, whatever crashes at which step
\* (publish_durable_exclusive).
THEOREM SpecPubInv == Spec => []PubInv
BY PubInit, PubStep, PTL DEF Spec

\* Type correctness of files, calls and readers.
THEOREM SpecTypeOK == Spec => []TypeOK
<1>1. PubInv => TypeOK
  BY DEF PubInv, PubTypes, ProcStates, ReaderStates, FilesInv, FilesAreBegun, Names, TypeOK, Stops, Fresh
<1> QED
  BY <1>1, SpecPubInv, PTL

\* A machine crash keeps what is known of the files, whatever it leaves.
LEMMA ViewsAre ==
    ASSUME PubInv, NEW v \in Views
    PROVE  /\ v.final # None => v.final = fs.final
           /\ v.witness \in {None, fs.witness, disk.witness}
           /\ v.witness # None => v.final = fs.final
           /\ Sealed /\ v.final # None => v.witness # None
           /\ fs.marker = disk.marker /\ v.final # None => v.marker = fs.marker
<1>1. CASE v = fs
  BY <1>1 DEF Sealed, PubInv, FilesInv
<1>2. CASE v = NoEntries
  BY <1>2 DEF NoEntries
<1>3. CASE /\ v \in Entries /\ v.final \in {fs.final, disk.final}
           /\ v.marker \in {fs.marker, disk.marker} /\ v.witness \in {fs.witness, disk.witness}
  BY <1>3 DEF Sealed, PubInv, FilesInv, FinalIsPart, WitnessesProve
<1> QED
  BY <1>1, <1>2, <1>3, SurvivorIs DEF Views, PubInv

\* A final file the protocol installed never stands without marker or witness,
\* whatever cleanups interleave, fail or are cut off, and whatever a machine
\* crash leaves of the directory.
THEOREM SpecNeverLegacyShape == Spec => []NeverLegacyShape
<1>1. PubInv => NeverLegacyShape
  BY ViewsAre DEF NeverLegacyShape, PubInv, FilesInv, FinalIsBound, Whole
<1> QED
  BY <1>1, SpecPubInv, PTL

\* A witness proves the final file, wherever the witness survives.
THEOREM SpecWitnessProvesFinal == Spec => []WitnessProvesFinal
<1>1. ASSUME PubInv PROVE WitnessProvesFinal
  <2> SUFFICES ASSUME NEW v \in Views, v.witness # None
               PROVE  /\ Whole(v.witness) /\ v.final # None
                      /\ Record(v.witness).content = Content(v.final)
    BY DEF WitnessProvesFinal
  <2>1. v.witness \in {fs.witness, disk.witness} /\ v.final = fs.final
    BY <1>1, ViewsAre
  <2>2. v.witness # Legacy
    BY <1>1, <2>1, ArtifactPublicationAssumption DEF PubInv, PubTypes, Entries
  <2> QED
    BY <1>1, <2>1, <2>2 DEF PubInv, FilesInv, WitnessesProve, Content, Record
<1> QED
  BY <1>1, SpecPubInv, PTL

-----------------------------------------------------------------------------
(***************************************************************************)
(* A recovery is refused for a cause.  It is alone, so what it saw of the  *)
(* marker and of the witness stays as it was; and without a witness a      *)
(* final file is of the marker's content.                                  *)
(***************************************************************************)

Recovering(p) == proc[p].recovers /\ Running(p)

RecoveryOf(p) ==
    Recovering(p) =>
        /\ ~ proc[p].conflict
        /\ proc[p].pc = "committed" => fs.witness # None
        /\ proc[p].pc \in {"pending", "anchor", "install", "retire", "final", "verify", "link"}
              => fs.witness = None
        /\ proc[p].pc \in {"seal", "sealed"} => fs.witness = proc[p].mine

RecoveriesInv == \A p \in Publishers : RecoveryOf(p)

\* This step fails a recovery.
GivesUp(p) ==
    /\ Recovering(p) /\ ~ At(p, "restored")
    /\ At(p, "failed")' /\ UNCHANGED faults

\* While a call recovers no other one takes a step or begins.
LEMMA OnlyItself ==
    ASSUME PubInv, NEW p \in Publishers, Recovering(p), NEW q \in Publishers, Publish(q)
    PROVE  q = p
<1> SUFFICES ASSUME q # p PROVE FALSE
  OBVIOUS
<1>1. ~ Running(q)
  BY DEF Recovering, PubInv, Alone
<1>2. \A c, recovers : ~ Begin(q, recovers, c)
  BY DEF Recovering, Begin
<1> QED
  BY <1>1, <1>2 DEF Publish, Running, Steps, At, SeeWitness, SeeCommitted, FlushCommitted,
     ConfirmCommitted, SeePending, SeeFinal, Adopt, CreateMarker, WriteRecord, SyncMarker,
     SeeConcurrentCommit, Install, RetireTemporary, SyncFinal, VerifyFinal, LinkWitness, SyncWitness,
     CheckWitness, Finish, SyncConcurrentCommit, ConfirmConcurrentCommit, RemoveMarker, SyncRemoval,
     RestoreMarker, AfterRestore, Die

\* A step is one of its call's own, and makes no recovery of a publication.
LEMMA StepIsItsOwn ==
    ASSUME PubInv, NEW p \in Publishers, Publish(p)
    PROVE  /\ \A q \in Publishers : q # p => proc'[q] = proc[q]
           /\ Running(p) /\ ~ proc[p].recovers => ~ proc'[p].recovers
<1>0. proc[p] \in ProcStates /\ proc \in [Publishers -> ProcStates]
  BY DEF PubInv, PubTypes
<1>1. ASSUME NEW pc, Goto(p, pc)
      PROVE  (\A q \in Publishers : q # p => proc'[q] = proc[q]) /\ proc'[p].recovers = proc[p].recovers
  BY <1>0, <1>1 DEF Goto, ProcStates
<1>2. CASE \E c \in Contents, recovers \in BOOLEAN : Begin(p, recovers, c)
  BY <1>0, <1>2 DEF Begin, At, Running, Steps
<1>3. CASE \/ SeeWitness(p) \/ SeeCommitted(p) \/ FlushCommitted(p) \/ ConfirmCommitted(p)
           \/ SeeFinal(p) \/ Adopt(p) \/ CreateMarker(p) \/ SyncMarker(p) \/ SeeConcurrentCommit(p)
           \/ Install(p) \/ RetireTemporary(p) \/ SyncFinal(p) \/ VerifyFinal(p) \/ SyncWitness(p)
           \/ CheckWitness(p) \/ SyncConcurrentCommit(p)
           \/ RemoveMarker(p) \/ SyncRemoval(p) \/ RestoreMarker(p) \/ AfterRestore(p)
  <2>1. \E pc : Goto(p, pc)
    BY <1>3 DEF SeeWitness, SeeCommitted, FlushCommitted, ConfirmCommitted, SeeFinal, Adopt, CreateMarker,
       SyncMarker, SeeConcurrentCommit, Install, RetireTemporary, SyncFinal, VerifyFinal, SyncWitness,
       CheckWitness, SyncConcurrentCommit, RemoveMarker, SyncRemoval, RestoreMarker, AfterRestore,
       Check, Sync, Raise, Return
  <2> QED
    BY <1>1, <2>1
<1>4. CASE SeePending(p)
  <2>1. CASE \E pc : Goto(p, pc)
    BY <1>1, <2>1
  <2>2. CASE proc' = [proc EXCEPT ![p].recovers = FALSE, ![p].pc = "witness",
                                  ![p].count = IF fs.made THEN 0 ELSE 1]
    BY <1>0, <2>2 DEF ProcStates
  <2>3. CASE proc' = [proc EXCEPT ![p].mine = fs.marker, ![p].pc = "anchor"]
    BY <1>0, <2>3 DEF ProcStates
  <2> QED
    BY <1>4, <2>1, <2>2, <2>3 DEF SeePending, Raise
<1>5. CASE WriteRecord(p) \/ Die(p)
  <2>1. CASE \E pc : Goto(p, pc)
    BY <1>1, <2>1
  <2>2. CASE \E whole, pc : proc' = [proc EXCEPT ![p].whole = whole, ![p].pc = pc]
    BY <1>0, <2>2 DEF ProcStates
  <2>3. CASE \E whole, pc : proc' = [proc EXCEPT ![p].pc = pc, ![p].whole = whole]
    BY <1>0, <2>3 DEF ProcStates
  <2> QED
    BY <1>5, <2>1, <2>2, <2>3 DEF WriteRecord, Die
<1>6. CASE LinkWitness(p)
  <2>1. CASE \E pc : Goto(p, pc)
    BY <1>1, <2>1
  <2>2. CASE proc' = [proc EXCEPT ![p].created = TRUE, ![p].pc = "seal"]
    BY <1>0, <2>2 DEF ProcStates
  <2> QED
    BY <1>6, <2>1, <2>2 DEF LinkWitness, Raise
<1>7. CASE Finish(p)
  <2>1. CASE \E pc : Goto(p, pc)
    BY <1>1, <2>1
  <2>2. CASE \E was : proc' = [proc EXCEPT ![p].pc = "finishing", ![p].seen = was]
    BY <1>0, <2>2 DEF ProcStates
  <2> QED
    BY <1>7, <2>1, <2>2 DEF Finish, Raise
<1>8. CASE ConfirmConcurrentCommit(p)
  <2>1. CASE \E pc : Goto(p, pc)
    BY <1>1, <2>1
  <2>2. CASE \E other : proc' = [proc EXCEPT ![p].pc = "unmark", ![p].conflict = other]
    BY <1>0, <2>2 DEF ProcStates
  <2> QED
    BY <1>8, <2>1, <2>2 DEF ConfirmConcurrentCommit, Raise
<1> QED
  BY <1>2, <1>3, <1>4, <1>5, <1>6, <1>7, <1>8 DEF Publish

LEMMA FaultCounts ==
    ASSUME PubInv, Fault
    PROVE  faults' # faults
BY ArtifactPublicationAssumption DEF PubInv, PubTypes, Fault

\* A call that was stopped or has failed owes nothing.
LEMMA RaisedOwesNothing ==
    ASSUME PubInv, NEW p \in Publishers, Raise(p)
    PROVE  RecoveryOf(p)'
<1>1. Went(p, "failed")
  BY Going DEF PubInv, Raise, Stops
<1> QED
  BY <1>1 DEF Went, RecoveryOf, Recovering, Running, Steps

LEMMA ReturnSucceedsAlone ==
    ASSUME PubInv, NEW p \in Publishers, ~ proc[p].conflict, Return(p)
    PROVE  RecoveryOf(p)' /\ ~ At(p, "failed")'
<1>1. Went(p, "ok")
  BY Going DEF PubInv, Return, Stops
<1> QED
  BY <1>1 DEF Went, RecoveryOf, Recovering, Running, Steps, At

LEMMA GoesOn ==
    ASSUME PubInv, NEW p \in Publishers, NEW pc \in Steps, Goto(p, pc), Recovering(p), RecoveryOf(p),
           fs'.witness = fs.witness,
           pc = "committed" => fs.witness # None,
           pc \in {"pending", "anchor", "install", "retire", "final", "verify", "link"}
              => fs.witness = None,
           pc \in {"seal", "sealed"} => fs.witness = proc[p].mine
    PROVE  RecoveryOf(p)' /\ ~ At(p, "failed")'
<1>1. Went(p, pc)
  BY Going DEF PubInv
<1> QED
  BY <1>1 DEF Went, RecoveryOf, At, Steps

\* A recovery that found the witness finds what it proves.
LEMMA CommittedOrNot ==
    ASSUME PubInv, NEW p \in Publishers, fs.witness # None, proc[p].recovers, ~ Irrecoverable(p)
    PROVE  CommittedIsMine(p)
<1>1. /\ Whole(fs.witness) /\ fs.final # None /\ Content(fs.witness) = Content(fs.final)
  BY DEF PubInv, FilesInv, WitnessesProve
<1>2. fs.witness \in Publishers /\ fs.witness # Legacy
  BY ArtifactPublicationAssumption DEF PubInv, PubTypes, Entries
<1>3. Record(fs.witness).content = proc[p].content
  BY <1>2 DEF Irrecoverable
<1>4. Record(fs.witness).content = Content(fs.final)
  BY <1>1, <1>2 DEF Record, Content
<1>5. SingleLink
  BY <1>1 DEF Irrecoverable
<1>6. fs.marker # None => Whole(fs.marker) /\ Record(fs.marker).content = proc[p].content
  BY DEF Irrecoverable
<1> QED
  BY <1>1, <1>3, <1>4, <1>5, <1>6 DEF CommittedIsMine, CommittedAgrees, Identical

\* Without a witness a final file is of the content of the marker.
LEMMA PendingOrNot ==
    ASSUME PubInv, NEW p \in Publishers, Holds(p), fs.witness = None, fs.final # None, ~ Irrecoverable(p)
    PROVE  Identical(p)
<1>1. fs.marker = proc[p].mine /\ fs.marker # None /\ Content(proc[p].mine) = proc[p].content
  BY DEF PubInv, CallsInv, CallOf, MarkerOf
<1>2. legacyContent = None
  BY <1>1 DEF PubInv, FilesInv, LegacyStays
<1>3. Content(fs.marker) = Content(fs.final)
  BY <1>2 DEF PubInv, FilesInv, FinalIsBound, Sealed
<1>4. SingleLink
  BY DEF Irrecoverable
<1> QED
  BY <1>1, <1>3, <1>4 DEF Identical

\* One step of a recovery.
LEMMA RecoveryStep ==
    ASSUME PubInv, NEW p \in Publishers, Recovering(p), RecoveryOf(p), Publish(p)
    PROVE  RecoveryOf(p)' /\ (GivesUp(p) => Irrecoverable(p))
<1> USE DEF At
<1>0. Running(p) /\ proc[p].recovers /\ ~ proc[p].conflict /\ proc[p] \in ProcStates /\ proc[p].pc # "ready"
  BY DEF Recovering, RecoveryOf, PubInv, PubTypes, Running, Steps
<1>1. \A c \in Contents, recovers \in BOOLEAN : ~ Begin(p, recovers, c)
  BY <1>0 DEF Begin
<1>2. /\ ~ SeeFinal(p) /\ ~ Adopt(p) /\ ~ CreateMarker(p) /\ ~ WriteRecord(p)
      /\ ~ SeeConcurrentCommit(p) /\ ~ Finish(p) /\ ~ SyncConcurrentCommit(p) /\ ~ ConfirmConcurrentCommit(p)
  BY <1>0 DEF PubInv, CallsInv, CallOf, SeeFinal, Adopt, CreateMarker, WriteRecord, SeeConcurrentCommit,
     Finish, SyncConcurrentCommit, ConfirmConcurrentCommit
<1>3. CASE SeeWitness(p)
  <2>1. PICK pc \in {"committed", "pending"} :
           Goto(p, pc) /\ (pc = "committed" => fs.witness # None) /\ (pc = "pending" => fs.witness = None)
    BY <1>3 DEF SeeWitness
  <2>2. fs'.witness = fs.witness
    BY <1>3 DEF SeeWitness
  <2> QED
    BY <2>1, <2>2, GoesOn DEF GivesUp, Steps
<1>4. CASE SeeCommitted(p)
  <2>1. fs.witness # None
    BY <1>4 DEF SeeCommitted, RecoveryOf
  <2>2. CASE CommittedIsMine(p)
    <3>1. Goto(p, "flush") /\ fs'.witness = fs.witness
      BY <1>4, <2>2 DEF SeeCommitted, Check
    <3> QED
      BY <3>1, GoesOn DEF GivesUp, Steps
  <2>3. CASE ~ CommittedIsMine(p)
    BY <1>0, <1>4, <2>1, <2>3, CommittedOrNot, RaisedOwesNothing DEF SeeCommitted, Check
  <2> QED
    BY <2>2, <2>3
<1>5. CASE FlushCommitted(p)
  <2>1. CASE Raise(p) /\ Fault
    BY <2>1, RaisedOwesNothing, FaultCounts DEF GivesUp
  <2>2. CASE Goto(p, "confirm") /\ fs' = fs
    BY <2>2, GoesOn DEF GivesUp, Steps
  <2> QED
    BY <1>5, <2>1, <2>2 DEF FlushCommitted, Sync
<1>6. CASE ConfirmCommitted(p)
  <2>1. fs.witness # None
    BY <1>0, <1>6 DEF ConfirmCommitted, PubInv, CallsInv, CallOf, WitnessOf
  <2>2. CASE CommittedIsMine(p)
    <3>1. Goto(p, "unmark") /\ fs' = fs
      BY <1>0, <1>6, <2>2 DEF ConfirmCommitted
    <3> QED
      BY <3>1, GoesOn DEF GivesUp, Steps
  <2>3. CASE ~ CommittedIsMine(p)
    BY <1>0, <1>6, <2>1, <2>3, CommittedOrNot, RaisedOwesNothing DEF ConfirmCommitted
  <2> QED
    BY <2>2, <2>3
<1>7. CASE SeePending(p)
  <2>1. fs.witness = None
    BY <1>7 DEF SeePending, RecoveryOf
  <2>2. CASE fs.marker = None
    <3>1. proc'[p].pc = "witness" /\ ~ proc'[p].recovers
      BY <1>0, <1>7, <2>2 DEF SeePending, PubInv, PubTypes, ProcStates
    <3> QED
      BY <3>1 DEF RecoveryOf, Recovering, GivesUp
  <2>3. CASE fs.marker # None /\ Whole(fs.marker) /\ Record(fs.marker).content = proc[p].content
    <3>1. /\ proc'[p].pc = "anchor" /\ proc'[p].conflict = proc[p].conflict
          /\ fs'.witness = fs.witness
      BY <1>0, <1>7, <2>3 DEF SeePending, PubInv, PubTypes, ProcStates
    <3> QED
      BY <1>0, <2>1, <3>1 DEF RecoveryOf, GivesUp
  <2>4. CASE fs.marker # None /\ ~ (Whole(fs.marker) /\ Record(fs.marker).content = proc[p].content)
    <3>1. Irrecoverable(p)
      BY <2>4 DEF Irrecoverable
    <3>2. Raise(p)
      BY <1>7, <2>4 DEF SeePending
    <3> QED
      BY <3>1, <3>2, RaisedOwesNothing
  <2> QED
    BY <2>2, <2>3, <2>4
<1>8. CASE SyncMarker(p)
  <2>1. CASE Raise(p) /\ Fault
    BY <2>1, RaisedOwesNothing, FaultCounts DEF GivesUp
  <2>2. CASE Goto(p, "install") /\ fs' = fs
    <3>1. fs.witness = None
      BY <1>8 DEF SyncMarker, RecoveryOf
    <3> QED
      BY <2>2, <3>1, GoesOn DEF GivesUp, Steps
  <2> QED
    BY <1>0, <1>8, <2>1, <2>2 DEF SyncMarker, Sync
<1>9. CASE Install(p)
  <2>1. fs.witness = None /\ Holds(p)
    BY <1>9 DEF Install, RecoveryOf, Holds, HoldingSteps
  <2>2. CASE Raise(p) /\ Fault
    BY <2>2, RaisedOwesNothing, FaultCounts DEF GivesUp
  <2>3. CASE Raise(p) /\ fs.final # None /\ ~ Identical(p)
    BY <2>1, <2>3, RaisedOwesNothing, PendingOrNot
  <2>4. CASE Goto(p, "final") /\ fs' = fs
    BY <2>1, <2>4, GoesOn DEF GivesUp, Steps
  <2>5. CASE Goto(p, "retire") /\ fs' = [fs EXCEPT !.final = p, !.temps = @ \cup {p}]
    <3>1. fs'.witness = fs.witness
      BY <2>5 DEF PubInv, PubTypes, Entries
    <3> QED
      BY <2>1, <2>5, <3>1, GoesOn DEF GivesUp, Steps
  <2> QED
    BY <1>9, <2>2, <2>3, <2>4, <2>5 DEF Install
<1>10. CASE RetireTemporary(p)
  <2>1. fs.witness = None
    BY <1>10 DEF RetireTemporary, RecoveryOf
  <2>2. CASE Goto(p, "final") /\ fs' = [fs EXCEPT !.temps = @ \ {p}]
    <3>1. fs'.witness = fs.witness
      BY <2>2 DEF PubInv, PubTypes, Entries
    <3> QED
      BY <2>1, <2>2, <3>1, GoesOn DEF GivesUp, Steps
  <2>3. CASE Goto(p, "failed") /\ Fault
    <3>1. Went(p, "failed")
      BY <2>3, Going DEF PubInv, Stops
    <3> QED
      BY <2>3, <3>1, FaultCounts DEF Went, RecoveryOf, Recovering, Running, Steps, GivesUp
  <2> QED
    BY <1>10, <2>2, <2>3 DEF RetireTemporary
<1>11. CASE SyncFinal(p)
  <2>1. fs.witness = None
    BY <1>11 DEF SyncFinal, RecoveryOf
  <2>2. CASE Raise(p) /\ Fault
    BY <2>2, RaisedOwesNothing, FaultCounts DEF GivesUp
  <2>3. CASE Goto(p, "verify") /\ fs' = fs
    BY <2>1, <2>3, GoesOn DEF GivesUp, Steps
  <2> QED
    BY <1>11, <2>2, <2>3 DEF SyncFinal, Sync
<1>12. CASE VerifyFinal(p)
  <2>1. fs.witness = None /\ Holds(p)
    BY <1>12 DEF VerifyFinal, RecoveryOf, Holds, HoldingSteps
  <2>2. fs.final # None
    BY <1>12 DEF VerifyFinal, PubInv, CallsInv, CallOf, FinalOf
  <2>3. CASE Raise(p) /\ ~ Identical(p)
    BY <2>1, <2>2, <2>3, RaisedOwesNothing, PendingOrNot
  <2>4. CASE Goto(p, "link") /\ fs' = fs
    BY <2>1, <2>4, GoesOn DEF GivesUp, Steps
  <2> QED
    BY <1>12, <2>3, <2>4 DEF VerifyFinal, Check
<1>13. CASE LinkWitness(p)
  <2>1. fs.witness = None /\ fs.marker = proc[p].mine /\ fs.marker # None
    BY <1>13 DEF LinkWitness, RecoveryOf, PubInv, CallsInv, CallOf, MarkerOf, Holds, HoldingSteps
  <2>2. CASE Raise(p) /\ Fault
    BY <2>2, RaisedOwesNothing, FaultCounts DEF GivesUp
  <2>3. CASE /\ proc' = [proc EXCEPT ![p].created = TRUE, ![p].pc = "seal"]
             /\ fs' = [fs EXCEPT !.witness = fs.marker]
    <3>1. /\ proc'[p].pc = "seal" /\ proc'[p].conflict = proc[p].conflict
          /\ proc'[p].mine = proc[p].mine /\ fs'.witness = fs.marker
      BY <1>0, <2>3 DEF PubInv, PubTypes, ProcStates, Entries
    <3> QED
      BY <1>0, <2>1, <3>1 DEF RecoveryOf, GivesUp
  <2> QED
    BY <1>13, <2>1, <2>2, <2>3 DEF LinkWitness
<1>14. CASE SyncWitness(p)
  <2>1. fs.witness = proc[p].mine
    BY <1>14 DEF SyncWitness, RecoveryOf
  <2>2. CASE Goto(p, "sealed") /\ fs' = fs
    BY <2>1, <2>2, GoesOn DEF GivesUp, Steps
  <2>3. CASE Goto(p, "failed") /\ Fault
    <3>1. Went(p, "failed")
      BY <2>3, Going DEF PubInv, Stops
    <3> QED
      BY <2>3, <3>1, FaultCounts DEF Went, RecoveryOf, Recovering, Running, Steps, GivesUp
  <2> QED
    BY <1>14, <2>2, <2>3 DEF SyncWitness
<1>15. CASE CheckWitness(p)
  <2>1. fs.witness = proc[p].mine /\ Whole(proc[p].mine)
    BY <1>15 DEF CheckWitness, RecoveryOf, PubInv, CallsInv, CallOf, MarkerOf, HoldingSteps
  <2>2. Goto(p, "unmark") /\ fs' = fs
    BY <1>15, <2>1 DEF CheckWitness, Check, IsMine
  <2> QED
    BY <2>2, GoesOn DEF GivesUp, Steps
<1>16. CASE RemoveMarker(p)
  <2>1. CASE Return(p)
    BY <1>0, <2>1, ReturnSucceedsAlone DEF GivesUp
  <2>2. CASE fs' = [fs EXCEPT !.marker = None] /\ Goto(p, "removed")
    <3>1. fs'.witness = fs.witness
      BY <2>2 DEF PubInv, PubTypes, Entries
    <3> QED
      BY <2>2, <3>1, GoesOn DEF GivesUp, Steps
  <2>3. CASE fs' = fs /\ Goto(p, "restore")
    BY <2>3, GoesOn DEF GivesUp, Steps
  <2> QED
    BY <1>16, <2>1, <2>2, <2>3 DEF RemoveMarker
<1>17. CASE SyncRemoval(p)
  <2>1. CASE Return(p)
    BY <1>0, <2>1, ReturnSucceedsAlone DEF GivesUp
  <2>2. CASE fs' = fs /\ Goto(p, "restore")
    BY <2>2, GoesOn DEF GivesUp, Steps
  <2> QED
    BY <1>17, <2>1, <2>2 DEF SyncRemoval
<1>18. CASE RestoreMarker(p)
  <2>1. Goto(p, "restored") /\ fs'.witness = fs.witness
    BY <1>18 DEF RestoreMarker, PubInv, PubTypes, Entries
  <2> QED
    BY <2>1, GoesOn DEF GivesUp, Steps
<1>19. CASE AfterRestore(p)
  <2>1. ~ GivesUp(p)
    BY <1>19 DEF AfterRestore, GivesUp
  <2>2. Raise(p) \/ Return(p)
    BY <1>19 DEF AfterRestore
  <2> QED
    BY <1>0, <2>1, <2>2, RaisedOwesNothing, ReturnSucceedsAlone
<1>20. CASE Die(p)
  <2>1. proc'[p].pc = "dead"
    BY <1>0, <1>20 DEF Die, PubInv, PubTypes, ProcStates
  <2> QED
    BY <2>1 DEF RecoveryOf, Recovering, Running, Steps, GivesUp
<1> QED
  BY <1>1, <1>2, <1>3, <1>4, <1>5, <1>6, <1>7, <1>8, <1>9, <1>10, <1>11, <1>12, <1>13, <1>14, <1>15,
     <1>16, <1>17, <1>18, <1>19, <1>20 DEF Publish

\* A call that was not recovering does so only by beginning, with nothing seen.
LEMMA RecoveryBegins ==
    ASSUME PubInv, NEW p \in Publishers, ~ Recovering(p), Publish(p)
    PROVE  RecoveryOf(p)'
<1> SUFFICES ASSUME Recovering(p)' PROVE RecoveryOf(p)'
  BY DEF RecoveryOf
<1>1. PICK c \in Contents, recovers \in BOOLEAN : Begin(p, recovers, c)
  <2>1. CASE Running(p)
    <3>1. ~ proc[p].recovers
      BY <2>1 DEF Recovering
    <3>2. ~ proc'[p].recovers
      BY <2>1, <3>1, StepIsItsOwn
    <3> QED
      BY <3>2 DEF Recovering
  <2>2. CASE ~ Running(p)
    BY <2>2 DEF Publish, Running, Steps, At, SeeWitness, SeeCommitted, FlushCommitted,
       ConfirmCommitted, SeePending, SeeFinal, Adopt, CreateMarker, WriteRecord, SyncMarker,
       SeeConcurrentCommit, Install, RetireTemporary, SyncFinal, VerifyFinal, LinkWitness, SyncWitness,
       CheckWitness, Finish, SyncConcurrentCommit, ConfirmConcurrentCommit, RemoveMarker, SyncRemoval,
       RestoreMarker, AfterRestore, Die
  <2> QED
    BY <2>1, <2>2
<1>2. proc[p] = Fresh /\ DOMAIN proc = Publishers
  BY <1>1 DEF Begin, At, PubInv, PubTypes, FilesInv, FilesAreBegun
<1>3. proc'[p].pc = "witness" /\ ~ proc'[p].conflict
  BY <1>1, <1>2 DEF Begin, Fresh
<1> QED
  BY <1>3 DEF RecoveryOf

\* For any number of calls, failures, kills and crashes, and any contents: a
\* recovery that meets no failure of its own gives up only on a doubled link,
\* on a marker that was not written whole, or on a marker or a witness of
\* another content (recover_strategy_artifact).
THEOREM SpecRecoveryRefusesOnlyConflicts == Spec => RecoveryRefusesOnlyConflicts
<1>1. Init => RecoveriesInv
  BY DEF Init, Fresh, RecoveriesInv, RecoveryOf
<1>2. PubInv /\ RecoveriesInv /\ [Next]_vars => RecoveriesInv'
  <2> SUFFICES ASSUME PubInv, RecoveriesInv, [Next]_vars, NEW p \in Publishers
               PROVE  RecoveryOf(p)'
    BY DEF RecoveriesInv
  <2>1. CASE Crash
    BY <2>1 DEF Crash, RecoveryOf, Recovering, Running, Steps, PubInv, PubTypes, ProcStates
  <2>2. ASSUME NEW q \in Publishers, Publish(q) PROVE RecoveryOf(p)'
    <3>1. CASE q = p
      BY <2>2, <3>1, RecoveryStep, RecoveryBegins DEF RecoveriesInv
    <3>2. CASE q # p
      <4>1. ~ Recovering(p)
        BY <2>2, <3>2, OnlyItself
      <4>2. proc'[p] = proc[p]
        BY <2>2, <3>2, StepIsItsOwn
      <4> QED
        BY <4>1, <4>2 DEF RecoveryOf, Recovering, Running
    <3> QED
      BY <3>1, <3>2
  <2>3. CASE proc' = proc /\ fs' = fs
    BY <2>3 DEF RecoveriesInv, RecoveryOf, Recovering, Running
  <2>4. ASSUME NEW r \in Readers, Read(r) PROVE proc' = proc /\ fs' = fs
    BY <2>4 DEF Read, StartRead, ReadWitness, ReadText, RecheckWitness, RecheckMarker, ReadAgain
  <2> QED
    BY <2>1, <2>2, <2>3, <2>4 DEF Next, vars
<1>3. ASSUME PubInv, RecoveriesInv, [Next]_vars, NEW p \in Publishers, GivesUp(p)
      PROVE  Irrecoverable(p)
  <2>1. CASE Crash
    BY <1>3, <2>1, FaultCounts DEF Crash, GivesUp
  <2>2. ASSUME NEW q \in Publishers, Publish(q) PROVE Irrecoverable(p)
    <3>1. q = p
      BY <1>3, <2>2, OnlyItself DEF GivesUp
    <3> QED
      BY <1>3, <2>2, <3>1, RecoveryStep DEF RecoveriesInv, GivesUp
  <2>3. proc' # proc
    BY <1>3 DEF GivesUp, Recovering, Running, Steps, At
  <2>4. ASSUME NEW r \in Readers, Read(r) PROVE proc' = proc
    BY <2>4 DEF Read, StartRead, ReadWitness, ReadText, RecheckWitness, RecheckMarker, ReadAgain
  <2> QED
    BY <1>3, <2>1, <2>2, <2>3, <2>4 DEF Next, vars
<1>4. PubInv /\ RecoveriesInv /\ [Next]_vars
        => [\A p \in Publishers :
               proc[p].recovers /\ Running(p) /\ ~ At(p, "restored")
                 /\ At(p, "failed")' /\ UNCHANGED faults
                   => Irrecoverable(p)]_vars
  BY <1>3 DEF GivesUp, Recovering
<1> QED
  BY <1>1, <1>2, <1>4, SpecPubInv, PTL DEF Spec, RecoveryRefusesOnlyConflicts

-----------------------------------------------------------------------------
(* The path is written once.                                               *)

Bound == IF disk.final = None THEN None ELSE Content(disk.final)

Acked == [p \in Publishers |-> IF proc[p].pc = "ok" THEN proc[p].content ELSE None]

Answers == [r \in Readers |-> IF reader[r].pc = "answered" THEN reader[r].answer ELSE None]

LEMMA BoundIs ==
    ASSUME PubInv, disk.final # None
    PROVE  disk.final = fs.final /\ Bound = Content(fs.final) /\ Bound \in Contents /\ Bound # None
<1> USE DEF PubInv
<1>1. disk.final = fs.final /\ Bound = Content(fs.final)
  BY DEF FilesInv, FinalIsPart, Bound
<1>2. CASE fs.final = Legacy
  BY <1>1, <1>2, ArtifactPublicationAssumption DEF PubTypes, FilesInv, LegacyStays, Content
<1>3. CASE fs.final # Legacy
  <2>1. fs.final \in Publishers /\ fs.final \in Names
    BY <1>1, <1>3 DEF PubTypes, Entries, Names
  <2>2. proc[fs.final].content \in Contents
    BY <2>1 DEF FilesInv, FilesAreBegun
  <2> QED
    BY <1>1, <1>3, <2>2, ArtifactPublicationAssumption DEF Content
<1> QED
  BY <1>2, <1>3

\* What every step of a call leaves alone.
Binds(p) ==
    /\ UNCHANGED <<legacyContent, reader>>
    /\ \A q \in Publishers : q # p => proc'[q] = proc[q]
    /\ proc[p].pc # "ready" => proc'[p].content = proc[p].content
    /\ proc[p].pc # "ok"
    /\ disk'.final \in {disk.final, fs.final}
    /\ fs.final # None => fs'.final = fs.final

LEMMA GotoOwns ==
    ASSUME PubTypes, NEW p \in Publishers, NEW pc, Goto(p, pc)
    PROVE  /\ \A q \in Publishers : q # p => proc'[q] = proc[q]
           /\ proc'[p].content = proc[p].content /\ proc'[p].pc = pc
BY DEF PubTypes, ProcStates, Goto

\* A call that moves, with or without a sync, and does not report success.
LEMMA MovesBind ==
    ASSUME PubTypes, NEW p \in Publishers, proc[p].pc # "ok",
           NEW pc, Goto(p, pc), pc # "ok", fs'.final = fs.final,
           disk' \in {disk, Synced(fs), SyncedToAnchor(fs)}, UNCHANGED <<legacyContent, reader>>
    PROVE  Binds(p) /\ proc'[p].pc # "ok"
<1>1. disk'.final \in {disk.final, fs.final}
  BY DEF PubTypes, Entries, Synced, SyncedToAnchor
<1> QED
  BY <1>1, GotoOwns DEF Binds

LEMMA RaiseBinds ==
    ASSUME PubTypes, NEW p \in Publishers, proc[p].pc # "ok", Raise(p),
           disk' \in {disk, Synced(fs), SyncedToAnchor(fs)}, UNCHANGED <<legacyContent, reader>>
    PROVE  Binds(p) /\ proc'[p].pc # "ok"
<1>1. fs'.final = fs.final
  BY DEF Raise, PubTypes, Entries
<1> QED
  BY <1>1, MovesBind DEF Raise

\* A call reports success of the content at the final name, which is durable.
Succeeds(p) ==
    /\ Binds(p)
    /\ proc'[p].pc = "ok" => disk'.final = fs.final /\ Content(fs.final) = proc[p].content
                             /\ fs.final # None /\ proc[p].pc # "ready"

LEMMA ReturnSucceeds ==
    ASSUME PubTypes, NEW p \in Publishers, proc[p].pc \notin {"ok", "ready"}, Return(p),
           disk' \in {disk, Synced(fs), SyncedToAnchor(fs)}, UNCHANGED <<legacyContent, reader>>,
           fs.final # None, disk.final = fs.final \/ disk' # disk,
           ~ proc[p].conflict => Content(fs.final) = proc[p].content
    PROVE  Succeeds(p)
<1>1. PICK pc : Goto(p, pc) /\ (pc = "ok" => ~ proc[p].conflict)
  BY DEF Return
<1>2. fs'.final = fs.final
  BY DEF Return, PubTypes, Entries
<1>3. disk'.final = fs.final
  BY DEF PubTypes, Entries, Synced, SyncedToAnchor
<1> QED
  BY <1>1, <1>2, <1>3, GotoOwns DEF Succeeds, Binds

LEMMA PublishSucceeds ==
    ASSUME PubInv, NEW p \in Publishers, Publish(p)
    PROVE  Succeeds(p)
<1>0. PubTypes /\ FilesInv /\ CallOf(p)
  BY DEF PubInv, CallsInv
<1>1. ASSUME NEW c \in Contents, NEW recovers \in BOOLEAN, Begin(p, recovers, c) PROVE Succeeds(p)
  <2>1. \A q \in Publishers : q # p => proc'[q] = proc[q]
    BY <1>0, <1>1 DEF Begin, PubTypes
  <2>2. proc'[p].pc = "witness" /\ fs'.final = fs.final
    BY <1>0, <1>1 DEF Begin, PubTypes, ProcStates, Entries
  <2> QED
    BY <1>1, <2>1, <2>2 DEF Succeeds, Binds, Begin, At
<1>2. CASE SeeWitness(p) \/ SeeConcurrentCommit(p)
  BY <1>0, <1>2, MovesBind DEF SeeWitness, SeeConcurrentCommit, Succeeds, At
<1>3. CASE SeeCommitted(p) \/ VerifyFinal(p) \/ CheckWitness(p)
  BY <1>0, <1>3, MovesBind, RaiseBinds DEF SeeCommitted, VerifyFinal, CheckWitness, Check, Succeeds, At
<1>4. CASE FlushCommitted(p) \/ SyncFinal(p) \/ SyncConcurrentCommit(p)
  BY <1>0, <1>4, MovesBind, RaiseBinds DEF FlushCommitted, SyncFinal, SyncConcurrentCommit, Sync, Succeeds, At
<1>5. CASE SyncMarker(p)
  BY <1>0, <1>5, MovesBind, RaiseBinds DEF SyncMarker, Sync, Succeeds, At
<1>6. CASE ConfirmCommitted(p)
  <2>1. CASE Return(p) /\ CommittedIsMine(p)
    <3>1. fs.witness # None /\ fs.final # None /\ Content(fs.final) = proc[p].content
      BY <2>1 DEF CommittedIsMine, CommittedAgrees, Identical, SingleLink, Whole
    <3>2. disk.final = fs.final
      BY <1>0, <3>1 DEF FilesInv, WitnessesProve
    <3> QED
      BY <1>0, <1>6, <2>1, <3>1, <3>2, ReturnSucceeds DEF ConfirmCommitted, At
  <2>2. CASE Raise(p) \/ (Goto(p, "unmark") /\ UNCHANGED fs)
    BY <1>0, <1>6, <2>2, MovesBind, RaiseBinds DEF ConfirmCommitted, Succeeds, At
  <2> QED
    BY <1>6, <2>1, <2>2 DEF ConfirmCommitted
<1>7. CASE SeePending(p)
  <2>1. CASE Raise(p) \/ (Goto(p, "absent") /\ UNCHANGED fs)
    BY <1>0, <1>7, <2>1, MovesBind, RaiseBinds DEF SeePending, Succeeds, At
  <2>2. CASE /\ proc' = [proc EXCEPT ![p].recovers = FALSE, ![p].pc = "witness",
                                     ![p].count = IF fs.made THEN 0 ELSE 1]
             /\ fs' = [fs EXCEPT !.made = TRUE]
    BY <1>0, <1>7, <2>2 DEF SeePending, Succeeds, Binds, At, PubTypes, ProcStates, Entries
  <2>3. CASE proc' = [proc EXCEPT ![p].mine = fs.marker, ![p].pc = "anchor"] /\ UNCHANGED fs
    BY <1>0, <1>7, <2>3 DEF SeePending, Succeeds, Binds, At, PubTypes, ProcStates
  <2> QED
    BY <1>7, <2>1, <2>2, <2>3 DEF SeePending
<1>8. CASE SeeFinal(p)
  <2>1. CASE Raise(p) \/ (Goto(p, "adopt") /\ UNCHANGED fs)
    BY <1>0, <1>8, <2>1, MovesBind, RaiseBinds DEF SeeFinal, Succeeds, At
  <2>2. CASE Goto(p, "mark") /\ fs' = [fs EXCEPT !.temps = @ \cup {p}]
    <3>1. fs'.final = fs.final
      BY <1>0, <2>2 DEF PubTypes, Entries
    <3> QED
      BY <1>0, <1>8, <2>2, <3>1, MovesBind DEF SeeFinal, Succeeds, At
  <2> QED
    BY <1>8, <2>1, <2>2 DEF SeeFinal
<1>9. CASE Adopt(p)
  <2>1. fs.final # None /\ Content(fs.final) = proc[p].content
        /\ proc[p].pc \notin {"ok", "ready"}
    BY <1>0, <1>9 DEF Adopt, At, CallOf, FinalOf
  <2>2. CASE Raise(p) /\ disk' \in {disk, Synced(fs)}
    BY <1>0, <1>9, <2>1, <2>2, RaiseBinds DEF Adopt, Succeeds
  <2>3. CASE Return(p) /\ disk' = SyncedToAnchor(fs)
    <3>1. disk.final = fs.final \/ disk' # disk
      BY <1>0, <2>3 DEF SyncedToAnchor, PubTypes, Entries
    <3> QED
      BY <1>0, <1>9, <2>1, <2>3, <3>1, ReturnSucceeds DEF Adopt
  <2> QED
    BY <1>9, <2>2, <2>3 DEF Adopt
<1>10. CASE CreateMarker(p)
  <2>1. fs'.final = fs.final
    BY <1>0, <1>10 DEF CreateMarker, Raise, PubTypes, Entries
  <2> QED
    BY <1>0, <1>10, <2>1, MovesBind, RaiseBinds DEF CreateMarker, Succeeds, At
<1>11. CASE WriteRecord(p)
  <2>1. proc[p].pc = "record" /\ UNCHANGED <<legacyContent, reader>>
    BY <1>11, Zenon DEF WriteRecord, At
  <2>2. CASE proc' = [proc EXCEPT ![p].whole = TRUE, ![p].pc = "anchor"] /\ UNCHANGED <<fs, disk>>
    BY <1>0, <2>1, <2>2 DEF Succeeds, Binds, PubTypes, ProcStates
  <2>3. ASSUME NEW gone \in BOOLEAN, Goto(p, "failed"),
               fs' = [fs EXCEPT !.temps = @ \ {p}, !.marker = IF gone /\ @ = p THEN None ELSE @],
               disk' \in {disk, Synced(fs')}
        PROVE  Succeeds(p)
    <3>1. fs'.final = fs.final
      BY <1>0, <2>3 DEF PubTypes, Entries
    <3>2. disk'.final \in {disk.final, fs.final}
      BY <1>0, <2>3, <3>1 DEF PubTypes, Entries, Synced
    <3> QED
      BY <1>0, <2>1, <2>3, <3>1, <3>2, GotoOwns DEF Succeeds, Binds
  <2> QED
    BY <1>11, <2>2, <2>3, Zenon DEF WriteRecord
<1>12. CASE Install(p)
  <2>1. fs.final # None => fs'.final = fs.final
    BY <1>0, <1>12 DEF Install, Raise, PubTypes, Entries
  <2>2. \E pc \in {"final", "retire", "failed"} : Goto(p, pc)
    BY <1>12 DEF Install, Raise
  <2> QED
    BY <1>0, <1>12, <2>1, <2>2, GotoOwns DEF Install, Succeeds, Binds, At
<1>13. CASE RetireTemporary(p)
  <2>1. fs'.final = fs.final
    BY <1>0, <1>13 DEF RetireTemporary, PubTypes, Entries
  <2> QED
    BY <1>0, <1>13, <2>1, MovesBind DEF RetireTemporary, Succeeds, At
<1>14. CASE LinkWitness(p)
  <2>1. CASE Raise(p) \/ (Goto(p, "seal") /\ UNCHANGED fs)
    BY <1>0, <1>14, <2>1, MovesBind, RaiseBinds DEF LinkWitness, Succeeds, At
  <2>2. CASE /\ proc' = [proc EXCEPT ![p].created = TRUE, ![p].pc = "seal"]
             /\ fs' = [fs EXCEPT !.witness = fs.marker]
    BY <1>0, <1>14, <2>2 DEF LinkWitness, Succeeds, Binds, At, PubTypes, ProcStates, Entries
  <2> QED
    BY <1>14, <2>1, <2>2 DEF LinkWitness
<1>15. CASE SyncWitness(p)
  <2>1. proc[p].pc = "seal" /\ UNCHANGED <<legacyContent, reader>>
    BY <1>15, Zenon DEF SyncWitness, At
  <2>2. CASE disk' = Synced(fs) /\ Goto(p, "sealed") /\ UNCHANGED fs
    BY <1>0, <2>1, <2>2, MovesBind DEF Succeeds
  <2>3. ASSUME NEW undone \in BOOLEAN, Goto(p, "failed"),
               fs' = [fs EXCEPT !.temps = @ \ {p},
                                !.witness = IF undone /\ proc[p].created THEN None ELSE @],
               disk' \in {disk, Synced(fs), Synced(fs')}
        PROVE  Succeeds(p)
    <3>1. fs'.final = fs.final
      BY <1>0, <2>3 DEF PubTypes, Entries
    <3>2. disk'.final \in {disk.final, fs.final}
      BY <1>0, <2>3, <3>1 DEF PubTypes, Entries, Synced
    <3> QED
      BY <1>0, <2>1, <2>3, <3>1, <3>2, GotoOwns DEF Succeeds, Binds
  <2> QED
    BY <1>15, <2>2, <2>3, Zenon DEF SyncWitness
<1>16. CASE Finish(p)
  <2>1. CASE Raise(p)
    BY <1>0, <1>16, <2>1, RaiseBinds DEF Finish, Succeeds, At
  <2>2. CASE /\ UNCHANGED fs
             /\ proc' = [proc EXCEPT ![p].pc = "finishing",
                                     ![p].seen = <<Record(fs.witness), Content(fs.final)>>]
    BY <1>0, <1>16, <2>2 DEF Finish, Succeeds, Binds, At, PubTypes, ProcStates
  <2> QED
    BY <1>16, <2>1, <2>2 DEF Finish
<1>17. CASE ConfirmConcurrentCommit(p)
  <2>1. CASE Raise(p)
    BY <1>0, <1>17, <2>1, RaiseBinds DEF ConfirmConcurrentCommit, Succeeds, At
  <2>2. CASE /\ UNCHANGED fs
             /\ proc' = [proc EXCEPT ![p].pc = "unmark",
                                     ![p].conflict = Content(fs.final) # proc[p].content]
    BY <1>0, <1>17, <2>2 DEF ConfirmConcurrentCommit, Succeeds, Binds, At, PubTypes, ProcStates
  <2> QED
    BY <1>17, <2>1, <2>2 DEF ConfirmConcurrentCommit
<1>18. ASSUME proc[p].pc \in SealedSteps
       PROVE  /\ fs.final # None /\ disk.final = fs.final /\ proc[p].pc \notin {"ok", "ready"}
              /\ ~ proc[p].conflict => Content(fs.final) = proc[p].content
  BY <1>0, <1>18 DEF SealedSteps, CallOf, FinalOf, WitnessOf, Sealed, FilesInv, WitnessesProve
<1>19. CASE RemoveMarker(p)
  <2>1. proc[p].pc \in SealedSteps /\ disk' = disk /\ UNCHANGED <<legacyContent, reader>>
    BY <1>19 DEF RemoveMarker, At, SealedSteps
  <2>2. CASE Return(p)
    BY <1>0, <1>18, <2>1, <2>2, ReturnSucceeds
  <2>3. CASE Goto(p, "removed") /\ fs' = [fs EXCEPT !.marker = None]
    <3>1. fs'.final = fs.final
      BY <1>0, <2>3 DEF PubTypes, Entries
    <3> QED
      BY <1>0, <1>18, <2>1, <2>3, <3>1, MovesBind DEF Succeeds
  <2>4. CASE Goto(p, "restore") /\ UNCHANGED fs
    BY <1>0, <1>18, <2>1, <2>4, MovesBind DEF Succeeds
  <2> QED
    BY <1>19, <2>2, <2>3, <2>4 DEF RemoveMarker
<1>20. CASE SyncRemoval(p)
  <2>1. proc[p].pc \in SealedSteps /\ disk' \in {disk, Synced(fs)} /\ UNCHANGED <<legacyContent, reader>>
    BY <1>20 DEF SyncRemoval, At, SealedSteps
  <2>2. CASE Return(p)
    BY <1>0, <1>18, <2>1, <2>2, ReturnSucceeds
  <2>3. CASE Goto(p, "restore") /\ UNCHANGED fs
    BY <1>0, <1>18, <2>1, <2>3, MovesBind DEF Succeeds
  <2> QED
    BY <1>20, <2>2, <2>3 DEF SyncRemoval
<1>21. CASE RestoreMarker(p)
  <2>1. proc[p].pc \in SealedSteps /\ Goto(p, "restored") /\ UNCHANGED <<legacyContent, reader>>
    BY <1>21 DEF RestoreMarker, At, SealedSteps
  <2>2. fs'.final = fs.final
    BY <1>0, <1>21 DEF RestoreMarker, PubTypes, Entries
  <2>3. disk'.final \in {disk.final, fs.final}
    BY <1>0, <1>21, <2>2 DEF RestoreMarker, Synced, PubTypes, Entries
  <2> QED
    BY <1>0, <1>18, <2>1, <2>2, <2>3, GotoOwns DEF Succeeds, Binds
<1>22. CASE AfterRestore(p)
  <2>1. proc[p].pc \in SealedSteps /\ disk' \in {disk, Synced(fs)} /\ UNCHANGED <<legacyContent, reader>>
    BY <1>22 DEF AfterRestore, At, SealedSteps
  <2>2. CASE Return(p)
    BY <1>0, <1>18, <2>1, <2>2, ReturnSucceeds
  <2>3. CASE Raise(p)
    BY <1>0, <1>18, <2>1, <2>3, RaiseBinds DEF Succeeds
  <2> QED
    BY <1>22, <2>2, <2>3 DEF AfterRestore
<1>23. CASE Die(p)
  <2>1. PICK whole : proc' = [proc EXCEPT ![p].pc = "dead", ![p].whole = whole]
    BY <1>23 DEF Die
  <2>2. /\ \A q \in Publishers : q # p => proc'[q] = proc[q]
        /\ proc'[p].content = proc[p].content /\ proc'[p].pc = "dead"
    BY <1>0, <2>1 DEF PubTypes, ProcStates
  <2> QED
    BY <1>23, <2>2 DEF Die, Running, Steps, Succeeds, Binds
<1> QED
  BY <1>1, <1>2, <1>3, <1>4, <1>5, <1>6, <1>7, <1>8, <1>9, <1>10, <1>11, <1>12, <1>13, <1>14, <1>15,
     <1>16, <1>17, <1>19, <1>20, <1>21, <1>22, <1>23 DEF Publish

\* What binds the path stays: its entry, and the bytes of its file.
LEMMA BoundStays ==
    ASSUME PubInv, PubInv', disk.final # None, disk'.final # None,
           fs'.final = fs.final, legacyContent' = legacyContent,
           \A q \in Publishers : proc[q].pc # "ready" => proc'[q].content = proc[q].content
    PROVE  Bound' = Bound
<1>1. disk.final = fs.final /\ disk'.final = fs.final
  BY BoundIs DEF PubInv, FilesInv, FinalIsPart
<1>2. fs.final \in Publishers => proc[fs.final].pc # "ready"
  <2>1. fs.final \in Names
    BY DEF Names
  <2> QED
    BY <2>1 DEF PubInv, FilesInv, FilesAreBegun
<1>3. fs.final = Legacy \/ fs.final \in Publishers
  BY <1>1 DEF PubInv, PubTypes, Entries
<1> QED
  BY <1>1, <1>2, <1>3 DEF Bound, Content

LEMMA WriteOnceInit ==
    ASSUME Init
    PROVE  Acked = [p \in Publishers |-> None] /\ Answers = [r \in Readers |-> None]
BY DEF Init, Acked, Answers, Fresh, IdleReader

\* A step of a call binds the path if it was not bound, and reports success of
\* what it is bound to.
LEMMA PublishWritesOnce ==
    ASSUME PubInv, PubInv', NEW p \in Publishers, Publish(p)
    PROVE  /\ Answers' = Answers
           /\ Bound # None => Bound' = Bound
           /\ \/ Acked' = Acked
              \/ Bound' # None /\ Acked' = [Acked EXCEPT ![p] = Bound']
<1>1. Succeeds(p) /\ Binds(p)
  BY PublishSucceeds DEF Succeeds
<1>2. Answers' = Answers
  BY <1>1 DEF Answers, Binds
<1>3. \A q \in Publishers : proc[q].pc # "ready" => proc'[q].content = proc[q].content
  BY <1>1 DEF Binds
<1>4. disk.final # None => fs.final # None /\ disk'.final # None /\ fs'.final = fs.final
  BY <1>1, BoundIs DEF Binds
<1>5. Bound # None => Bound' = Bound
  BY <1>1, <1>3, <1>4, BoundStays DEF Bound, Binds
<1>6. CASE proc'[p].pc # "ok"
  <2>1. \A q \in Publishers : (proc'[q].pc = "ok" <=> proc[q].pc = "ok")
                              /\ (proc[q].pc = "ok" => proc'[q].content = proc[q].content)
    BY <1>1, <1>6 DEF Binds
  <2>2. Acked' = Acked
    BY <2>1 DEF Acked
  <2> QED
    BY <1>2, <1>5, <2>2
<1>7. CASE proc'[p].pc = "ok"
  <2>1. disk'.final = fs.final /\ Content(fs.final) = proc[p].content /\ fs.final # None
    BY <1>1, <1>7 DEF Succeeds
  <2>2. fs'.final = fs.final /\ proc[p].pc # "ready"
    BY <1>1, <1>7, <2>1 DEF Succeeds, Binds
  <2>3. Bound' = Content(fs.final)'
    BY <2>1, <2>2, BoundIs DEF PubInv, Bound, Content
  <2>4. Content(fs.final)' = Content(fs.final)
    <3>1. fs.final \in Names
      BY DEF Names
    <3>2. fs.final \in Publishers => proc[fs.final].pc # "ready"
      BY <3>1 DEF PubInv, FilesInv, FilesAreBegun
    <3>3. fs.final = Legacy \/ fs.final \in Publishers
      BY <2>1 DEF PubInv, PubTypes, Entries
    <3> QED
      BY <1>1, <1>3, <2>2, <3>2, <3>3 DEF Content, Binds
  <2>5. proc'[p].content = Bound' /\ Bound' # None
    <3>1. proc[p].content \in Contents
      BY <2>2 DEF PubInv, FilesInv, FilesAreBegun
    <3> QED
      BY <1>3, <2>1, <2>2, <2>3, <2>4, <3>1, ArtifactPublicationAssumption
  <2>6. \A q \in Publishers : q # p => proc'[q] = proc[q]
    BY <1>1 DEF Binds
  <2>7. Acked' = [Acked EXCEPT ![p] = Bound']
    BY <1>7, <2>5, <2>6 DEF Acked
  <2> QED
    BY <1>2, <1>5, <2>5, <2>7
<1> QED
  BY <1>2, <1>5, <1>6, <1>7

\* A machine crash may bind the path; then nobody had an answer.
LEMMA CrashWritesOnce ==
    ASSUME PubInv, PubInv', Crash
    PROVE  /\ Acked' = Acked
           /\ Answers' = [r \in Readers |-> None]
           /\ Bound # None => Bound' = Bound
           /\ Bound = None => Answers = [r \in Readers |-> None]
<1>1. \A p \in Publishers : proc'[p].content = proc[p].content /\ (proc'[p].pc = "ok" <=> proc[p].pc = "ok")
  <2> SUFFICES ASSUME NEW p \in Publishers
               PROVE  proc'[p].content = proc[p].content /\ (proc'[p].pc = "ok" <=> proc[p].pc = "ok")
    OBVIOUS
  <2>1. proc[p] \in ProcStates
    BY DEF PubInv, PubTypes
  <2>2. proc'[p] = IF Running(p) THEN [proc[p] EXCEPT !.pc = "dead"] ELSE proc[p]
    BY DEF Crash
  <2>3. Running(p) => proc[p].pc # "ok"
    BY DEF Running, Steps
  <2> QED
    BY <2>1, <2>2, <2>3 DEF ProcStates
<1>2. Acked' = Acked
  BY <1>1 DEF Acked
<1>3. Answers' = [r \in Readers |-> None]
  BY DEF Crash, Answers, IdleReader
<1>4. Bound # None => Bound' = Bound
  <2> SUFFICES ASSUME Bound # None PROVE Bound' = Bound
    OBVIOUS
  <2>1. disk.final # None /\ disk.final = fs.final
    BY BoundIs DEF Bound
  <2>2. disk.made
    BY <2>1 DEF PubInv, FilesInv, FinalIsMade
  <2>3. fs'.final = fs.final /\ disk'.final = fs.final
    BY <2>1, <2>2, SurvivorIs DEF Crash, PubInv
  <2> QED
    BY <1>1, <2>1, <2>3, BoundStays DEF Crash
<1>5. Bound = None => Answers = [r \in Readers |-> None]
  BY BoundIs DEF Answers, PubInv, ReadersInv, ReaderOf
<1> QED
  BY <1>2, <1>3, <1>4, <1>5

\* A reader is given the content the path is bound to.
LEMMA ReadWritesOnce ==
    ASSUME PubInv, PubInv', NEW r \in Readers, Read(r)
    PROVE  /\ Bound' = Bound /\ Acked' = Acked
           /\ \/ Bound # None /\ Answers' = [Answers EXCEPT ![r] = Bound]
              \/ Answers' = [Answers EXCEPT ![r] = None]
              \/ Answers' = Answers
<1>1. UNCHANGED <<legacyContent, fs, disk, proc, faults>>
  BY DEF Read, StartRead, ReadWitness, ReadText, RecheckWitness, RecheckMarker, ReadAgain
<1>2. Bound' = Bound /\ Acked' = Acked
  BY <1>1 DEF Bound, Acked, Content
<1>3. reader \in [Readers -> ReaderStates] /\ reader[r] \in ReaderStates
  BY DEF PubInv, PubTypes
<1>4. ASSUME NEW x, reader' = [reader EXCEPT ![r] = x]
      PROVE  /\ reader'[r] = x
             /\ Answers' = [Answers EXCEPT ![r] = IF x.pc = "answered" THEN x.answer ELSE None]
  BY <1>3, <1>4 DEF Answers
<1>5. reader[r].pc # "answered" => Answers = [Answers EXCEPT ![r] = None]
  BY DEF Answers
<1>6. CASE RecheckMarker(r) /\ fs.marker = None
  <2>1. reader' = [reader EXCEPT ![r] = [reader[r] EXCEPT !.pc = "answered"]]
    BY <1>3, <1>6 DEF RecheckMarker
  <2>2. [reader[r] EXCEPT !.pc = "answered"].pc = "answered"
        /\ [reader[r] EXCEPT !.pc = "answered"].answer = reader[r].answer
    BY <1>3 DEF ReaderStates
  <2>3. reader[r].answer = Content(fs.final)
    BY <1>6 DEF RecheckMarker, PubInv, ReadersInv, ReaderOf
  <2>4. disk'.final # None
    <3>1. reader'[r].pc = "answered"
      BY <1>3, <2>1, <2>2
    <3> QED
      BY <3>1 DEF PubInv, ReadersInv, ReaderOf
  <2>5. Bound = Content(fs.final) /\ Bound # None
    BY <1>1, <2>4, BoundIs
  <2>6. Answers' = [Answers EXCEPT ![r] = Bound]
    BY <1>4, <2>1, <2>2, <2>3, <2>5
  <2> QED
    BY <1>2, <2>5, <2>6
<1>7. CASE ~ (RecheckMarker(r) /\ fs.marker = None)
  <2>1. \E x : reader' = [reader EXCEPT ![r] = x] /\ x.pc # "answered"
    <3>1. IdleReader.pc = "idle"
      BY DEF IdleReader
    <3>2. CASE StartRead(r)
      <4>1. [IdleReader EXCEPT !.pc = "witness"].pc = "witness"
        BY DEF IdleReader
      <4>2. reader' = [reader EXCEPT ![r] = [IdleReader EXCEPT !.pc = "witness"]]
        BY <3>2 DEF StartRead
      <4> QED
        BY <4>1, <4>2
    <3>3. CASE ReadWitness(r)
      <4>1. reader' = [reader EXCEPT ![r] = [reader[r] EXCEPT !.witness = fs.witness, !.pc = "text"]]
        BY <1>3, <3>3 DEF ReadWitness
      <4>2. [reader[r] EXCEPT !.witness = fs.witness, !.pc = "text"].pc = "text"
        BY <1>3 DEF ReaderStates
      <4> QED
        BY <4>1, <4>2
    <3>4. CASE ReadText(r)
      <4>1. [reader[r] EXCEPT !.answer = Content(fs.final), !.pc = "recheck"].pc = "recheck"
        BY <1>3 DEF ReaderStates
      <4>2. \/ reader' = [reader EXCEPT ![r] = [reader[r] EXCEPT !.answer = Content(fs.final), !.pc = "recheck"]]
            \/ reader' = [reader EXCEPT ![r] = IdleReader]
        BY <1>3, <3>4 DEF ReadText
      <4> QED
        BY <3>1, <4>1, <4>2
    <3>5. CASE RecheckWitness(r)
      <4>1. [reader[r] EXCEPT !.pc = "barrier"].pc = "barrier"
        BY <1>3 DEF ReaderStates
      <4>2. \/ reader' = [reader EXCEPT ![r] = [reader[r] EXCEPT !.pc = "barrier"]]
            \/ reader' = [reader EXCEPT ![r] = IdleReader]
        BY <1>3, <3>5 DEF RecheckWitness
      <4> QED
        BY <3>1, <4>1, <4>2
    <3>6. CASE RecheckMarker(r)
      BY <1>7, <3>1, <3>6 DEF RecheckMarker
    <3>7. CASE ReadAgain(r)
      BY <3>1, <3>7 DEF ReadAgain
    <3> QED
      BY <3>2, <3>3, <3>4, <3>5, <3>6, <3>7 DEF Read
  <2> QED
    BY <1>2, <1>4, <2>1
<1> QED
  BY <1>6, <1>7

\* The path is bound once and for good to one content: successes and answers
\* are about it, across failed calls, kills and machine crashes.
THEOREM SpecImplementsWriteOnce == Spec => ImplementsWriteOnce
<1>1. Init => WriteOnceRegister!Init
  BY WriteOnceInit DEF WriteOnceRegister!Init, Acked, Answers
<1>2. ASSUME PubInv, PubInv', [Next]_vars PROVE [WriteOnceRegister!Next]_(WriteOnceRegister!vars)
  <2>1. ASSUME NEW p \in Publishers, Publish(p)
        PROVE  [WriteOnceRegister!Next]_(WriteOnceRegister!vars)
    BY <1>2, <2>1, PublishWritesOnce
       DEF WriteOnceRegister!Next, WriteOnceRegister!vars, WriteOnceRegister!Bind, WriteOnceRegister!Ack,
           Bound, Acked, Answers
  <2>2. ASSUME NEW r \in Readers, Read(r)
        PROVE  [WriteOnceRegister!Next]_(WriteOnceRegister!vars)
    BY <1>2, <2>2, ReadWritesOnce
       DEF WriteOnceRegister!Next, WriteOnceRegister!vars, WriteOnceRegister!Answer, WriteOnceRegister!Forget,
           Bound, Acked, Answers
  <2>3. CASE Crash
    BY <1>2, <2>3, CrashWritesOnce
       DEF WriteOnceRegister!Next, WriteOnceRegister!vars, WriteOnceRegister!Bind, WriteOnceRegister!Forget,
           Bound, Acked, Answers
  <2>4. CASE UNCHANGED vars
    BY <2>4 DEF vars, WriteOnceRegister!vars, Content
  <2> QED
    BY <1>2, <2>1, <2>2, <2>3, <2>4 DEF Next
<1> QED
  BY <1>1, <1>2, SpecPubInv, PTL DEF Spec, ImplementsWriteOnce, WriteOnceRegister!Spec
=============================================================================
