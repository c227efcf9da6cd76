--------------------------- MODULE ExecutionStore ---------------------------
(***************************************************************************)
(* SQLiteExecutionStore of mu_strategy/execution/store.py: the durable     *)
(* tables intents, action_selections, reservations and audit_events, and   *)
(* the three writing operations on them.                                   *)
(*                                                                         *)
(* Every writing method is one BEGIN IMMEDIATE transaction that commits or *)
(* rolls back as a whole, so a successful call is one step and a refused   *)
(* call (or a crash before COMMIT) is no step at all.  The callers are not *)
(* modelled as processes: a call may come at any time with any legal       *)
(* argument, which covers every caller working from a stale copy of an     *)
(* intent, a selection or a reservation.  The reading method               *)
(* load_action_selection is different: it opens no transaction and issues  *)
(* one SELECT after the other, so it is a process with a step per SELECT.  *)
(*                                                                         *)
(* An intent revision is named by its fingerprint: intent_id is "oi1_"     *)
(* followed by the fingerprint, and the fingerprint covers every field     *)
(* except created_at_ms.  An action stands for the pair (environment,      *)
(* business_action_id); the fingerprint covers both, hence ActionOf.       *)
(***************************************************************************)
EXTENDS Integers, Sequences

CONSTANTS
    Actions,         \* business actions, each bound to one environment
    Fingerprints,    \* intent revisions
    Times,           \* values of created_at_ms, outside the fingerprint
    Scans,           \* source_scan_id values
    Lineages,        \* order_lineage_id values
    Reasons,         \* pairs of a cancel reason code and a policy version
    Leverages,       \* leverage settings
    ClientIds,       \* truncated OKX client order IDs
    EventIds,        \* event_id values; bounds the successful calls
    Readers,         \* callers of load_action_selection
    ActionOf,        \* the action a revision belongs to
    LeverageOf,      \* the leverage a revision asks for
    ClientIdOf,      \* clOrdId of an action's submit key; truncation may collide
    None             \* SQL NULL, and "no row"

ASSUME ConstantsAssumption ==
    /\ ActionOf \in [Fingerprints -> Actions]
    /\ LeverageOf \in [Fingerprints -> Leverages]
    /\ ClientIdOf \in [Actions -> ClientIds]
    /\ None \notin Fingerprints

VARIABLES
    intents,         \* rows of the table intents
    selections,      \* rows of the table action_selections
    reservations,    \* rows of the table reservations
    audit,           \* audit_events of an action, in sequence order
    reader           \* load_action_selection calls in progress

tables == <<intents, selections, reservations, audit>>
vars == <<intents, selections, reservations, audit, reader>>

-----------------------------------------------------------------------------
(* Identities and rows                                                     *)

\* _ALLOWED_RESERVATION_TRANSITIONS, as the set of (old, new) pairs.
AllowedTransitions ==
    {<<"reserved", "dispatching">>, <<"reserved", "invalidated">>,
     <<"dispatching", "acknowledged">>, <<"dispatching", "rejected">>,
     <<"dispatching", "not_sent_failed">>, <<"dispatching", "unknown">>,
     <<"not_sent_failed", "reserved">>}

ReservationStates ==
    {"reserved", "dispatching", "acknowledged", "rejected",
     "not_sent_failed", "unknown", "invalidated"}

\* Mutation identities: the hash inputs of submit_mutation_action_id,
\* leverage_mutation_action_id and cancel_mutation_action_id.
SubmitId(a) == [op |-> "submit_entry", action |-> a, detail |-> None]

LeverageId(f) ==
    [op |-> "configure_leverage", action |-> ActionOf[f], detail |-> LeverageOf[f]]

CancelId(a, l, r) == [op |-> "cancel_order", action |-> a, detail |-> <<l, r>>]

MutationIds ==
    [op : {"submit_entry"}, action : Actions, detail : {None}]
    \cup [op : {"configure_leverage"}, action : Actions, detail : Leverages]
    \cup [op : {"cancel_order"}, action : Actions, detail : Lineages \X Reasons]

\* An event of an intent carries no mutation.
ASSUME NoneAssumption == None \notin MutationIds

\* The identities _validate_mutation_action accepts for revision f and lineage l.
IdsFor(f, l) ==
    {SubmitId(ActionOf[f]), LeverageId(f)}
        \cup {CancelId(ActionOf[f], l, r) : r \in Reasons}

IntentRow == [fp : Fingerprints, created : Times, source : Scans]

SelectionRow ==
    [action : Actions, fp : Fingerprints, version : Nat \ {0}, reserved : BOOLEAN]

ReservationRow ==
    [id : MutationIds, fp : Fingerprints, lineage : Lineages, state : ReservationStates]

EventTypes ==
    {"intent.created", "intent.reused", "intent.superseded",
     "idempotency.reserved", "idempotency.reservation_state_changed"}

\* The envelope fields and payloads of ExecutionAuditEvent a reader can replay.
Event ==
    [id : EventIds, type : EventTypes, fp : Fingerprints, source : Scans,
     version : Nat, mutation : MutationIds \cup {None},
     old : ReservationStates \cup {None}, new : ReservationStates \cup {None}]

NoEvent == [version |-> 0, mutation |-> None, old |-> None, new |-> None]

ReaderState ==
    [pc : {"idle", "selected", "returned", "failed"}, row : SelectionRow \cup {None}]

TypeOK ==
    /\ intents \subseteq IntentRow
    /\ selections \subseteq SelectionRow
    /\ reservations \subseteq ReservationRow
    /\ audit \in [Actions -> Seq(Event)]
    /\ reader \in [Readers -> ReaderState]

-----------------------------------------------------------------------------
(* What the loading helpers check                                          *)

ReservationsOf(a) == {r \in reservations : r.id.action = a}

\* _load_action_selection_connection: the fence bit and every reservation of
\* the action agree with the selected revision.
SelectionBound(row) ==
    /\ \E i \in intents : i.fp = row.fp
    /\ ActionOf[row.fp] = row.action
    /\ row.reserved <=> ReservationsOf(row.action) # {}
    /\ \A r \in ReservationsOf(row.action) : r.fp = row.fp

\* _validate_reservation_binding: a reservation row belongs to the reserved
\* selection of its action.
ReservationBound(r) ==
    /\ \E i \in intents : i.fp = r.fp
    /\ ActionOf[r.fp] = r.id.action
    /\ \E row \in selections :
          /\ row.action = r.id.action
          /\ row.fp = r.fp
          /\ row.reserved
          /\ SelectionBound(row)
    /\ r.id \in IdsFor(r.fp, r.lineage)

\* Variant: an ambiguous cancel no longer holds its lineage's slot.
CancelSlotFreeAfterUnknown(l) ==
    \A r \in reservations :
        (r.id.op = "cancel_order" /\ r.lineage = l) => r.state \in {"rejected", "unknown"}

\* _require_cancel_slot: every cancel of the lineage so far was rejected.
CancelSlotFree(l) ==
    \A r \in reservations :
        (r.id.op = "cancel_order" /\ r.lineage = l) =>
            (ReservationBound(r) /\ r.state = "rejected")

\* Variant: the collision of truncated client order IDs goes unnoticed.
ClientIdUnchecked(a) == a \in Actions

\* UNIQUE client_order_id: no other submit reservation has the clOrdId of a.
ClientIdFree(a) ==
    \A r \in reservations :
        r.id.op = "submit_entry" => ClientIdOf[r.id.action] # ClientIdOf[a]

\* _require_no_orphaned_action_evidence
NoOrphanedEvidence(a) ==
    /\ ~ \E i \in intents : ActionOf[i.fp] = a
    /\ ReservationsOf(a) = {}
    /\ audit[a] = <<>>

\* Variant: the reservation bit is not looked at.
ClassifyIgnoringReservation(row, f) == IF row.fp = f THEN "reuse" ELSE "supersede"

\* classify_intent_revision for the selected row and a candidate revision.
Classify(row, f) ==
    CASE row.fp = f -> "reuse"
      [] row.fp # f /\ row.reserved -> "conflict"
      [] OTHER -> "supersede"

-----------------------------------------------------------------------------
(* The audit stream                                                        *)

EventIdUsed(e) == \E a \in Actions : \E i \in DOMAIN audit[a] : audit[a][i].id = e

\* Variant: event_id is not unique.
AppendRepeatableEvent(f, e, type, scan, payload) ==
    audit' = [audit EXCEPT ![ActionOf[f]] =
                    Append(@, [id |-> e, type |-> type, fp |-> f, source |-> scan,
                               version |-> payload.version, mutation |-> payload.mutation,
                               old |-> payload.old, new |-> payload.new])]

\* _append_event: the next sequence number of the action's stream, refused
\* (and with it the whole transaction) when the event_id was used before.
AppendEvent(f, e, type, scan, payload) ==
    /\ ~ EventIdUsed(e)
    /\ audit' = [audit EXCEPT ![ActionOf[f]] =
                    Append(@, [id |-> e, type |-> type, fp |-> f, source |-> scan,
                               version |-> payload.version, mutation |-> payload.mutation,
                               old |-> payload.old, new |-> payload.new])]

\* _insert_or_verify_intent: insert the row, or find the same bytes there.
InsertOrVerify(f, t, scan) ==
    \/ /\ ~ \E i \in intents : i.fp = f
       /\ intents' = intents \cup {[fp |-> f, created |-> t, source |-> scan]}
    \/ /\ \E i \in intents : i.fp = f /\ i.created = t
       /\ UNCHANGED intents

-----------------------------------------------------------------------------
(* record_intent                                                           *)

\* Variant: versions start at 0.
CreateIntentFromZero(f, t, scan, e) ==
    LET a == ActionOf[f] IN
    /\ ~ \E row \in selections : row.action = a
    /\ NoOrphanedEvidence(a)
    /\ InsertOrVerify(f, t, scan)
    /\ selections' = selections \cup
          {[action |-> a, fp |-> f, version |-> 0, reserved |-> FALSE]}
    /\ AppendEvent(f, e, "intent.created", scan, NoEvent)
    /\ UNCHANGED <<reservations, reader>>

CreateIntent(f, t, scan, e) ==
    LET a == ActionOf[f] IN
    /\ ~ \E row \in selections : row.action = a
    /\ NoOrphanedEvidence(a)
    /\ InsertOrVerify(f, t, scan)
    /\ selections' = selections \cup
          {[action |-> a, fp |-> f, version |-> 1, reserved |-> FALSE]}
    /\ AppendEvent(f, e, "intent.created", scan, [NoEvent EXCEPT !.version = 1])
    /\ UNCHANGED <<reservations, reader>>

\* An exact duplicate is only audited, also after a reservation.
ReuseIntent(row, f, scan, e) ==
    /\ SelectionBound(row)
    /\ Classify(row, f) = "reuse"
    /\ AppendEvent(f, e, "intent.reused", scan, NoEvent)
    /\ UNCHANGED <<intents, selections, reservations, reader>>

\* Variant: the selection keeps its version when its revision changes.
SupersedeKeepingVersion(row, f, t, scan, e) ==
    /\ SelectionBound(row)
    /\ Classify(row, f) = "supersede"
    /\ InsertOrVerify(f, t, scan)
    /\ selections' = (selections \ {row}) \cup {[row EXCEPT !.fp = f]}
    /\ AppendEvent(f, e, "intent.superseded", scan,
                   [NoEvent EXCEPT !.version = row.version])
    /\ UNCHANGED <<reservations, reader>>

SupersedeIntent(row, f, t, scan, e) ==
    /\ SelectionBound(row)
    /\ Classify(row, f) = "supersede"
    /\ InsertOrVerify(f, t, scan)
    /\ selections' = (selections \ {row}) \cup
          {[action |-> row.action, fp |-> f, version |-> row.version + 1,
            reserved |-> row.reserved]}
    /\ AppendEvent(f, e, "intent.superseded", scan,
                   [NoEvent EXCEPT !.version = row.version + 1])
    /\ UNCHANGED <<reservations, reader>>

RecordIntent(f, t, scan, e) ==
    \/ CreateIntent(f, t, scan, e)
    \/ \E row \in selections :
          /\ row.action = ActionOf[f]
          /\ \/ ReuseIntent(row, f, scan, e)
             \/ SupersedeIntent(row, f, t, scan, e)

-----------------------------------------------------------------------------
(* reserve_mutation: a call for an existing reservation returns it or is   *)
(* refused, and changes nothing either way.                                *)

\* Variant: the reservation is written without flipping the fence bit.
ReserveWithoutFence(f, t, id, l, e) ==
    /\ id \in IdsFor(f, l)
    /\ ~ \E r \in reservations : r.id = id
    /\ id.op = "submit_entry" => ClientIdFree(id.action)
    /\ id.op = "cancel_order" => CancelSlotFree(l)
    /\ \E row \in selections, i \in intents :
          /\ row.action = ActionOf[f] /\ row.fp = f
          /\ SelectionBound(row)
          /\ i.fp = f /\ i.created = t
          /\ AppendEvent(f, e, "idempotency.reserved", i.source,
                         [NoEvent EXCEPT !.mutation = id, !.new = "reserved"])
    /\ reservations' = reservations \cup
          {[id |-> id, fp |-> f, lineage |-> l, state |-> "reserved"]}
    /\ UNCHANGED <<intents, selections, reader>>

ReserveMutation(f, t, id, l, e) ==
    /\ id \in IdsFor(f, l)
    /\ ~ \E r \in reservations : r.id = id
    /\ id.op = "submit_entry" => ClientIdFree(id.action)
    /\ id.op = "cancel_order" => CancelSlotFree(l)
    /\ \E row \in selections, i \in intents :
          /\ row.action = ActionOf[f] /\ row.fp = f
          /\ SelectionBound(row)
          /\ i.fp = f /\ i.created = t
          /\ selections' = (selections \ {row}) \cup {[row EXCEPT !.reserved = TRUE]}
          /\ AppendEvent(f, e, "idempotency.reserved", i.source,
                         [NoEvent EXCEPT !.mutation = id, !.new = "reserved"])
    /\ reservations' = reservations \cup
          {[id |-> id, fp |-> f, lineage |-> l, state |-> "reserved"]}
    /\ UNCHANGED <<intents, reader>>

-----------------------------------------------------------------------------
(* transition_reservation                                                  *)

\* Variant: the update does not compare the expected state.
TransitionWithoutCompare(id, old, new, e) ==
    /\ <<old, new>> \in AllowedTransitions
    /\ \E r \in reservations, i \in intents :
          /\ r.id = id
          /\ ReservationBound(r)
          /\ i.fp = r.fp
          /\ reservations' = (reservations \ {r}) \cup {[r EXCEPT !.state = new]}
          /\ AppendEvent(r.fp, e, "idempotency.reservation_state_changed", i.source,
                         [NoEvent EXCEPT !.mutation = id, !.old = old, !.new = new])
    /\ UNCHANGED <<intents, selections, reader>>

TransitionReservation(id, old, new, e) ==
    /\ <<old, new>> \in AllowedTransitions
    /\ \E r \in reservations, i \in intents :
          /\ r.id = id /\ r.state = old
          /\ ReservationBound(r)
          /\ i.fp = r.fp
          /\ reservations' = (reservations \ {r}) \cup {[r EXCEPT !.state = new]}
          /\ AppendEvent(r.fp, e, "idempotency.reservation_state_changed", i.source,
                         [NoEvent EXCEPT !.mutation = id, !.old = old, !.new = new])
    /\ UNCHANGED <<intents, selections, reader>>

-----------------------------------------------------------------------------
(* load_action_selection outside a transaction: the row first, and in a    *)
(* later snapshot the intent and the reservations it is checked against.   *)
(* (Intents are never deleted, so reading the intent in the second step    *)
(* answers as reading it between the two would.)                           *)

ReadSelection(r, a) ==
    /\ reader[r].pc = "idle"
    /\ \/ /\ ~ \E row \in selections : row.action = a
          /\ reader' = [reader EXCEPT ![r] = [pc |-> "returned", row |-> None]]
       \/ \E row \in selections :
             /\ row.action = a
             /\ reader' = [reader EXCEPT ![r] = [pc |-> "selected", row |-> row]]
    /\ UNCHANGED tables

ReadBindings(r) ==
    /\ reader[r].pc = "selected"
    /\ reader' = [reader EXCEPT ![r].pc =
                    IF SelectionBound(reader[r].row) THEN "returned" ELSE "failed"]
    /\ UNCHANGED tables

\* The caller drops the answer (or the ExecutionStoreInvariantError).
DropAnswer(r) ==
    /\ reader[r].pc \in {"returned", "failed"}
    /\ reader' = [reader EXCEPT ![r] = [pc |-> "idle", row |-> None]]
    /\ UNCHANGED tables

-----------------------------------------------------------------------------

Init ==
    /\ intents = {}
    /\ selections = {}
    /\ reservations = {}
    /\ audit = [a \in Actions |-> <<>>]
    /\ reader = [r \in Readers |-> [pc |-> "idle", row |-> None]]

Write(e) ==
    \/ \E f \in Fingerprints, t \in Times, scan \in Scans : RecordIntent(f, t, scan, e)
    \/ \E f \in Fingerprints, t \in Times, l \in Lineages :
          \E id \in IdsFor(f, l) : ReserveMutation(f, t, id, l, e)
    \/ \E r \in reservations, change \in AllowedTransitions :
          TransitionReservation(r.id, change[1], change[2], e)

Read(r) ==
    \/ \E a \in Actions : ReadSelection(r, a)
    \/ ReadBindings(r)
    \/ DropAnswer(r)

Next ==
    \/ \E e \in EventIds : Write(e)
    \/ \E r \in Readers : Read(r)

Spec == Init /\ [][Next]_vars

-----------------------------------------------------------------------------
(* Properties                                                              *)

\* No sequence of legal calls, by any callers in any order, brings the
\* tables into a state that the store itself reports as corrupt: the primary
\* keys hold, and the checks behind every ExecutionStoreInvariantError of
\* _load_action_selection_connection and _validate_reservation_binding pass.
StoreConsistent ==
    /\ \A i, j \in intents : i.fp = j.fp => i = j
    /\ \A row, other \in selections : row.action = other.action => row = other
    /\ \A r, q \in reservations : r.id = q.id => r = q
    /\ \A row \in selections : SelectionBound(row)
    /\ \A r \in reservations : ReservationBound(r)

Selecting == {"intent.created", "intent.superseded"}

\* The audit ledger is authoritative: replaying an action's events gives the
\* selection row and every reservation state, every event of a mutation
\* carries the scan its revision was first recorded from, consecutive state
\* changes of a mutation fit together, and nothing is superseded after a
\* reservation (_append_event in record_intent, reserve_mutation and
\* transition_reservation).
AuditReplaysTables ==
    /\ \A row \in selections :
          \E i \in DOMAIN audit[row.action] :
             LET ev == audit[row.action][i] IN
             /\ ev.type \in Selecting /\ ev.fp = row.fp /\ ev.version = row.version
             /\ \A j \in DOMAIN audit[row.action] :
                   j > i => audit[row.action][j].type \notin Selecting
    /\ \A r \in reservations :
          \E i \in DOMAIN audit[r.id.action] :
             /\ audit[r.id.action][i].mutation = r.id
             /\ audit[r.id.action][i].new = r.state
             /\ \A j \in DOMAIN audit[r.id.action] :
                   j > i => audit[r.id.action][j].mutation # r.id
    /\ \A a \in Actions : \A i \in DOMAIN audit[a] :
          LET ev == audit[a][i] IN
          /\ \E row \in selections : row.action = a
          /\ ev.mutation # None =>
                /\ \E r \in reservations : r.id = ev.mutation
                /\ \A row \in intents : row.fp = ev.fp => ev.source = row.source
                /\ \A j \in DOMAIN audit[a] :
                      j > i => audit[a][j].type \notin Selecting
          /\ ev.old # None =>
                \E j \in DOMAIN audit[a] :
                   /\ j < i
                   /\ audit[a][j].mutation = ev.mutation /\ audit[a][j].new = ev.old
                   /\ \A k \in DOMAIN audit[a] :
                         (j < k /\ k < i) => audit[a][k].mutation # ev.mutation

\* At most one cancel command of an order lineage is in any state but
\* rejected, across actions, reasons and later transitions of older cancels
\* (_require_cancel_slot and the transition table).
OneLiveCancelPerLineage ==
    \A r, q \in reservations :
        /\ r.id.op = "cancel_order" /\ q.id.op = "cancel_order"
        /\ r.lineage = q.lineage
        /\ r.state # "rejected" /\ q.state # "rejected"
        => r = q

\* Two reserved entry submissions never share a client order ID, although
\* the ID is a truncated digest of the key (okx_client_order_id_for).
ClientOrderIdsDistinct ==
    \A r, q \in reservations :
        /\ r.id.op = "submit_entry" /\ q.id.op = "submit_entry"
        /\ ClientIdOf[r.id.action] = ClientIdOf[q.id.action]
        => r = q

\* An answer of load_action_selection that says the action is reserved stays
\* true however late the caller uses it; only an unreserved answer can be
\* stale (the fence makes a reserved selection immutable).
ReservedAnswerNeverStale ==
    \A r \in Readers :
        (reader[r].row # None /\ reader[r].row.reserved) => reader[r].row \in selections

\* ExecutionStoreInvariantError means persisted corruption (store.py:819-829),
\* so load_action_selection never raises it on tables no one corrupted.
ReadReportsNoCorruption == \A r \in Readers : reader[r].pc # "failed"

\* The tables implement the abstract fence: selection rows are its register.
RowOf(a) == CHOOSE row \in selections : row.action = a

HasRow(a) == \E row \in selections : row.action = a

Choice(a) == IF HasRow(a) THEN RowOf(a).fp ELSE None

Version(a) == IF HasRow(a) THEN RowOf(a).version ELSE 0

Locked(a) == HasRow(a) /\ RowOf(a).reserved

fenceChoice == [a \in Actions |-> Choice(a)]

fenceVersion == [a \in Actions |-> Version(a)]

fenceLocked == [a \in Actions |-> Locked(a)]

Fence == INSTANCE ActionFence WITH
    choice <- fenceChoice, version <- fenceVersion, locked <- fenceLocked

\* The execution store implements ActionFence: a reserved selection is
\* frozen, and every change of an unreserved one carries the next version.
ImplementsFence == Fence!FenceSpec
=============================================================================
