------------------------- MODULE ExecutionStoreProofs -------------------------
(***************************************************************************)
(* Theorems of ExecutionStore for every number of actions, revisions,      *)
(* lineages, events and readers.  TypeOK /\ StoreConsistent is inductive;  *)
(* the other invariants and the implementation of ActionFence follow from  *)
(* it and from one more step argument each.                                *)
(***************************************************************************)
EXTENDS ExecutionStore, TLAPS

\* A write is one of the five ways a table changes.
LEMMA NextCases ==
    ASSUME NEW P, Next,
           \A f \in Fingerprints, t \in Times, scan \in Scans, e \in EventIds :
              CreateIntent(f, t, scan, e) => P,
           \A row \in selections, f \in Fingerprints, scan \in Scans, e \in EventIds :
              ReuseIntent(row, f, scan, e) => P,
           \A row \in selections, f \in Fingerprints, t \in Times, scan \in Scans,
              e \in EventIds :
              (row.action = ActionOf[f] /\ SupersedeIntent(row, f, t, scan, e)) => P,
           \A f \in Fingerprints, t \in Times, l \in Lineages, e \in EventIds :
              \A id \in IdsFor(f, l) : ReserveMutation(f, t, id, l, e) => P,
           \A r \in reservations, change \in AllowedTransitions, e \in EventIds :
              TransitionReservation(r.id, change[1], change[2], e) => P,
           \A r \in Readers : Read(r) => P
    PROVE  P
  BY DEF Next, Write, RecordIntent

\* The identities computed for a revision and a lineage are mutation identities.
LEMMA IdsForType ==
    ASSUME NEW f \in Fingerprints, NEW l \in Lineages
    PROVE  IdsFor(f, l) \subseteq MutationIds
  <1>1. ActionOf[f] \in Actions /\ LeverageOf[f] \in Leverages
    BY ConstantsAssumption
  <1>2. QED
    BY <1>1 DEF IdsFor, MutationIds, SubmitId, LeverageId, CancelId

-----------------------------------------------------------------------------
(* Type correctness                                                        *)

LEMMA AppendType ==
    ASSUME TypeOK, NEW f \in Fingerprints, NEW e \in EventIds, NEW type \in EventTypes,
           NEW scan \in Scans, NEW payload, AppendEvent(f, e, type, scan, payload),
           payload.version \in Nat, payload.mutation \in MutationIds \cup {None},
           payload.old \in ReservationStates \cup {None},
           payload.new \in ReservationStates \cup {None}
    PROVE  audit' \in [Actions -> Seq(Event)]
  <1> DEFINE ev == [id |-> e, type |-> type, fp |-> f, source |-> scan,
                    version |-> payload.version, mutation |-> payload.mutation,
                    old |-> payload.old, new |-> payload.new]
  <1>1. ev \in Event
    BY DEF Event
  <1>2. ActionOf[f] \in Actions
    BY ConstantsAssumption
  <1>3. audit' = [audit EXCEPT ![ActionOf[f]] = Append(@, ev)]
    BY DEF AppendEvent
  <1> HIDE DEF ev
  <1>4. Append(audit[ActionOf[f]], ev) \in Seq(Event)
    BY <1>1, <1>2 DEF TypeOK
  <1>5. QED
    BY <1>2, <1>3, <1>4 DEF TypeOK

LEMMA TypeInit == Init => TypeOK
  BY DEF Init, TypeOK, ReaderState

LEMMA CreateType ==
    ASSUME TypeOK, NEW f \in Fingerprints, NEW t \in Times, NEW scan \in Scans,
           NEW e \in EventIds, CreateIntent(f, t, scan, e)
    PROVE  TypeOK'
  <1>1. intents' \subseteq IntentRow
    BY DEF CreateIntent, InsertOrVerify, TypeOK, IntentRow
  <1>2. selections' \subseteq SelectionRow
    <2>1. [action |-> ActionOf[f], fp |-> f, version |-> 1, reserved |-> FALSE]
             \in SelectionRow
      BY ConstantsAssumption DEF SelectionRow
    <2>2. QED
      BY <2>1 DEF CreateIntent, TypeOK
  <1>3. audit' \in [Actions -> Seq(Event)]
    <2> DEFINE payload == [NoEvent EXCEPT !.version = 1]
    <2>1. /\ payload.version \in Nat /\ payload.mutation = None
          /\ payload.old = None /\ payload.new = None
      BY DEF NoEvent
    <2>2. AppendEvent(f, e, "intent.created", scan, payload)
      BY DEF CreateIntent
    <2> HIDE DEF payload
    <2>3. QED
      BY <2>1, <2>2, AppendType DEF EventTypes
  <1>4. QED
    BY <1>1, <1>2, <1>3 DEF CreateIntent, TypeOK

LEMMA ReuseType ==
    ASSUME TypeOK, NEW row \in selections, NEW f \in Fingerprints, NEW scan \in Scans,
           NEW e \in EventIds, ReuseIntent(row, f, scan, e)
    PROVE  TypeOK'
  <1>1. NoEvent.version \in Nat /\ NoEvent.mutation = None /\ NoEvent.old = None
        /\ NoEvent.new = None
    BY DEF NoEvent
  <1>2. AppendEvent(f, e, "intent.reused", scan, NoEvent)
    BY DEF ReuseIntent
  <1>3. audit' \in [Actions -> Seq(Event)]
    BY <1>1, <1>2, AppendType DEF EventTypes
  <1>4. QED
    BY <1>3 DEF ReuseIntent, TypeOK

LEMMA SupersedeType ==
    ASSUME TypeOK, NEW row \in selections, NEW f \in Fingerprints, NEW t \in Times,
           NEW scan \in Scans, NEW e \in EventIds, SupersedeIntent(row, f, t, scan, e)
    PROVE  TypeOK'
  <1>1. row \in SelectionRow
    BY DEF TypeOK
  <1>2. intents' \subseteq IntentRow
    BY DEF SupersedeIntent, InsertOrVerify, TypeOK, IntentRow
  <1>3. selections' \subseteq SelectionRow
    <2>1. /\ row.action \in Actions /\ row.reserved \in BOOLEAN
          /\ row.version + 1 \in Nat \ {0}
      BY <1>1 DEF SelectionRow
    <2>2. [action |-> row.action, fp |-> f, version |-> row.version + 1,
           reserved |-> row.reserved] \in SelectionRow
      BY <2>1 DEF SelectionRow
    <2>3. QED
      BY <2>2 DEF SupersedeIntent, TypeOK
  <1>4. audit' \in [Actions -> Seq(Event)]
    <2> DEFINE payload == [NoEvent EXCEPT !.version = row.version + 1]
    <2>1. /\ payload.version \in Nat /\ payload.mutation = None
          /\ payload.old = None /\ payload.new = None
      BY <1>1 DEF NoEvent, SelectionRow
    <2>2. AppendEvent(f, e, "intent.superseded", scan, payload)
      BY DEF SupersedeIntent
    <2> HIDE DEF payload
    <2>3. QED
      BY <2>1, <2>2, AppendType DEF EventTypes
  <1>5. QED
    BY <1>2, <1>3, <1>4 DEF SupersedeIntent, TypeOK

LEMMA ReserveType ==
    ASSUME TypeOK, NEW f \in Fingerprints, NEW t \in Times, NEW l \in Lineages,
           NEW e \in EventIds, NEW id, id \in IdsFor(f, l), ReserveMutation(f, t, id, l, e)
    PROVE  TypeOK'
  <1>1. id \in MutationIds
    BY IdsForType
  <1>2. PICK row \in selections, i \in intents :
          /\ selections' = (selections \ {row}) \cup {[row EXCEPT !.reserved = TRUE]}
          /\ AppendEvent(f, e, "idempotency.reserved", i.source,
                         [NoEvent EXCEPT !.mutation = id, !.new = "reserved"])
    BY DEF ReserveMutation
  <1>3. row \in SelectionRow /\ i \in IntentRow
    BY DEF TypeOK
  <1>4. selections' \subseteq SelectionRow
    <2>1. [row EXCEPT !.reserved = TRUE] \in SelectionRow
      BY <1>3 DEF SelectionRow
    <2>2. QED
      BY <1>2, <2>1 DEF TypeOK
  <1>5. reservations' \subseteq ReservationRow
    <2>1. [id |-> id, fp |-> f, lineage |-> l, state |-> "reserved"] \in ReservationRow
      BY <1>1 DEF ReservationRow, ReservationStates
    <2>2. QED
      BY <2>1 DEF ReserveMutation, TypeOK
  <1>6. audit' \in [Actions -> Seq(Event)]
    <2> DEFINE payload == [NoEvent EXCEPT !.mutation = id, !.new = "reserved"]
    <2>1. /\ payload.version \in Nat /\ payload.mutation = id
          /\ payload.old = None /\ payload.new = "reserved"
      BY DEF NoEvent
    <2>2. AppendEvent(f, e, "idempotency.reserved", i.source, payload)
      BY <1>2
    <2>3. i.source \in Scans
      BY <1>3 DEF IntentRow
    <2> HIDE DEF payload
    <2>4. QED
      BY <1>1, <2>1, <2>2, <2>3, AppendType DEF EventTypes, ReservationStates
  <1>7. QED
    BY <1>4, <1>5, <1>6 DEF ReserveMutation, TypeOK

LEMMA TransitionType ==
    ASSUME TypeOK, NEW id, NEW old, NEW new, <<old, new>> \in AllowedTransitions,
           NEW e \in EventIds, TransitionReservation(id, old, new, e)
    PROVE  TypeOK'
  <1>1. old \in ReservationStates /\ new \in ReservationStates
    BY DEF AllowedTransitions, ReservationStates
  <1>2. PICK r \in reservations, i \in intents :
          /\ r.id = id
          /\ reservations' = (reservations \ {r}) \cup {[r EXCEPT !.state = new]}
          /\ AppendEvent(r.fp, e, "idempotency.reservation_state_changed", i.source,
                         [NoEvent EXCEPT !.mutation = id, !.old = old, !.new = new])
    BY DEF TransitionReservation
  <1>3. r \in ReservationRow /\ i \in IntentRow
    BY DEF TypeOK
  <1>4. reservations' \subseteq ReservationRow
    <2>1. [r EXCEPT !.state = new] \in ReservationRow
      BY <1>1, <1>3 DEF ReservationRow
    <2>2. QED
      BY <1>2, <2>1 DEF TypeOK
  <1>5. audit' \in [Actions -> Seq(Event)]
    <2> DEFINE payload == [NoEvent EXCEPT !.mutation = id, !.old = old, !.new = new]
    <2>1. /\ payload.version \in Nat /\ payload.mutation = id
          /\ payload.old = old /\ payload.new = new
      BY DEF NoEvent
    <2>2. AppendEvent(r.fp, e, "idempotency.reservation_state_changed", i.source, payload)
      BY <1>2
    <2>3. i.source \in Scans /\ r.fp \in Fingerprints /\ id \in MutationIds
      BY <1>2, <1>3 DEF IntentRow, ReservationRow
    <2> HIDE DEF payload
    <2>4. QED
      BY <1>1, <2>1, <2>2, <2>3, AppendType DEF EventTypes
  <1>6. QED
    BY <1>4, <1>5 DEF TransitionReservation, TypeOK

LEMMA ReadType ==
    ASSUME TypeOK, NEW r \in Readers, Read(r)
    PROVE  TypeOK'
  <1>1. UNCHANGED tables
    BY DEF Read, ReadSelection, ReadBindings, DropAnswer
  <1>2. reader' \in [Readers -> ReaderState]
    <2>1. reader[r] \in ReaderState /\ reader \in [Readers -> ReaderState]
      BY DEF TypeOK
    <2>2. ASSUME NEW a \in Actions, ReadSelection(r, a)
          PROVE  reader' \in [Readers -> ReaderState]
      BY <2>1, <2>2 DEF ReadSelection, ReaderState, TypeOK
    <2>3. ASSUME ReadBindings(r)
          PROVE  reader' \in [Readers -> ReaderState]
      <3>1. PICK answer \in {"returned", "failed"} :
               reader' = [reader EXCEPT ![r].pc = answer]
        BY <2>3 DEF ReadBindings
      <3>2. QED
        BY <2>1, <3>1 DEF ReaderState
    <2>4. ASSUME DropAnswer(r)
          PROVE  reader' \in [Readers -> ReaderState]
      BY <2>1, <2>4 DEF DropAnswer, ReaderState
    <2>5. QED
      BY <2>2, <2>3, <2>4 DEF Read
  <1>3. QED
    BY <1>1, <1>2 DEF tables, TypeOK

\* Every operation keeps the tables well typed.
LEMMA TypeStep == TypeOK /\ [Next]_vars => TypeOK'
  <1>1. ASSUME TypeOK, Next
        PROVE  TypeOK'
    <2>1. ASSUME NEW r \in reservations, NEW change \in AllowedTransitions,
                 NEW e \in EventIds, TransitionReservation(r.id, change[1], change[2], e)
          PROVE  TypeOK'
      <3>1. <<change[1], change[2]>> \in AllowedTransitions
        BY <2>1 DEF TransitionReservation
      <3>2. QED
        BY <1>1, <2>1, <3>1, TransitionType
    <2>2. QED
      BY <1>1, <2>1, NextCases, CreateType, ReuseType, SupersedeType, ReserveType,
         ReadType
  <1>2. ASSUME TypeOK, UNCHANGED vars
        PROVE  TypeOK'
    BY <1>2 DEF vars, TypeOK
  <1>3. QED
    BY <1>1, <1>2

\* Every table row, event and read in progress has its type: what the SQL
\* CHECK constraints and ExecutionAuditEvent demand of each write.
THEOREM SpecTypeOK == Spec => []TypeOK
  BY TypeInit, TypeStep, PTL DEF Spec

-----------------------------------------------------------------------------
(* Consistency of the tables                                               *)

\* The parts of StoreConsistent, to be proved one by one.
IntentKeys == \A i, j \in intents : i.fp = j.fp => i = j

SelectionKeys == \A row, other \in selections : row.action = other.action => row = other

ReservationKeys == \A r, q \in reservations : r.id = q.id => r = q

SelectionsBound == \A row \in selections : SelectionBound(row)

ReservationsBound == \A r \in reservations : ReservationBound(r)

LEMMA ConsistentParts ==
    StoreConsistent <=>
        IntentKeys /\ SelectionKeys /\ ReservationKeys /\ SelectionsBound /\ ReservationsBound
  BY DEF StoreConsistent, IntentKeys, SelectionKeys, ReservationKeys, SelectionsBound,
         ReservationsBound

\* Recording an intent never loses or duplicates a row of the table intents.
LEMMA InsertKeeps ==
    ASSUME TypeOK, IntentKeys, NEW f \in Fingerprints, NEW t \in Times, NEW scan \in Scans,
           InsertOrVerify(f, t, scan)
    PROVE  /\ intents \subseteq intents'
           /\ \E i \in intents' : i.fp = f
           /\ IntentKeys'
  <1> DEFINE new == [fp |-> f, created |-> t, source |-> scan]
  <1>1. new.fp = f
    OBVIOUS
  <1> HIDE DEF new
  <1>2. CASE /\ ~ \E i \in intents : i.fp = f
             /\ intents' = intents \cup {new}
    BY <1>1, <1>2 DEF IntentKeys
  <1>3. CASE UNCHANGED intents /\ \E i \in intents : i.fp = f
    BY <1>3 DEF IntentKeys
  <1>4. QED
    BY <1>2, <1>3 DEF InsertOrVerify, new

\* A row stays bound while the reservations of its action stay as they are.
LEMMA SelectionStaysBound ==
    ASSUME NEW row, SelectionBound(row), intents \subseteq intents',
           ReservationsOf(row.action)' = ReservationsOf(row.action)
    PROVE  SelectionBound(row)'
  BY DEF SelectionBound

\* A reservation stays bound as long as its action's row is there and bound.
LEMMA ReservationStaysBound ==
    ASSUME NEW r, ReservationBound(r), intents \subseteq intents',
           NEW row \in selections', row.action = r.id.action, row.fp = r.fp,
           row.reserved, SelectionBound(row)'
    PROVE  ReservationBound(r)'
  BY DEF ReservationBound

LEMMA CreateConsistent ==
    ASSUME TypeOK, StoreConsistent, NEW f \in Fingerprints, NEW t \in Times,
           NEW scan \in Scans, NEW e \in EventIds, CreateIntent(f, t, scan, e)
    PROVE  StoreConsistent'
  <1> DEFINE new == [action |-> ActionOf[f], fp |-> f, version |-> 1, reserved |-> FALSE]
  <1>1. IntentKeys /\ SelectionKeys /\ ReservationKeys /\ SelectionsBound /\ ReservationsBound
    BY ConsistentParts
  <1>2. /\ \A row \in selections : row.action # ActionOf[f]
        /\ ReservationsOf(ActionOf[f]) = {}
        /\ selections' = selections \cup {new}
        /\ UNCHANGED reservations
    BY DEF CreateIntent, NoOrphanedEvidence
  <1>3. /\ intents \subseteq intents'
        /\ \E i \in intents' : i.fp = f
        /\ IntentKeys'
    BY <1>1, InsertKeeps DEF CreateIntent
  <1>4. SelectionKeys'
    <2>1. new.action = ActionOf[f]
      OBVIOUS
    <2> HIDE DEF new
    <2>2. QED
      BY <1>1, <1>2, <2>1 DEF SelectionKeys
  <1>5. ReservationKeys'
    BY <1>1, <1>2 DEF ReservationKeys
  <1>6. SelectionsBound'
    <2>1. ASSUME NEW row \in selections
          PROVE  SelectionBound(row)'
      BY <1>1, <1>2, <1>3, SelectionStaysBound DEF SelectionsBound, ReservationsOf
    <2>2. SelectionBound(new)'
      BY <1>2, <1>3 DEF SelectionBound, ReservationsOf
    <2>3. QED
      BY <1>2, <2>1, <2>2 DEF SelectionsBound
  <1>7. ReservationsBound'
    <2>1. ASSUME NEW r \in reservations
          PROVE  ReservationBound(r)'
      <3>1. PICK row \in selections :
               row.action = r.id.action /\ row.fp = r.fp /\ row.reserved
        BY <1>1 DEF ReservationsBound, ReservationBound
      <3>2. SelectionBound(row)' /\ row \in selections'
        BY <1>2, <1>6 DEF SelectionsBound
      <3>3. QED
        BY <1>1, <1>3, <3>1, <3>2, ReservationStaysBound DEF ReservationsBound
    <2>2. QED
      BY <1>2, <2>1 DEF ReservationsBound
  <1>8. QED
    BY <1>3, <1>4, <1>5, <1>6, <1>7 DEF StoreConsistent, IntentKeys, SelectionKeys,
       ReservationKeys, SelectionsBound, ReservationsBound

\* Reads, exact duplicates and stuttering leave the three tables alone.
LEMMA UnchangedConsistent ==
    ASSUME StoreConsistent, UNCHANGED <<intents, selections, reservations>>
    PROVE  StoreConsistent'
  <1>1. \A row : SelectionBound(row) => SelectionBound(row)'
    BY DEF SelectionBound, ReservationsOf
  <1>2. \A r : ReservationBound(r) => ReservationBound(r)'
    <2> SUFFICES ASSUME NEW r, ReservationBound(r) PROVE ReservationBound(r)'
      OBVIOUS
    <2>1. PICK row \in selections :
             row.action = r.id.action /\ row.fp = r.fp /\ row.reserved /\ SelectionBound(row)
      BY DEF ReservationBound
    <2>2. r.id \in IdsFor(r.fp, r.lineage)
      BY DEF ReservationBound
    <2>3. QED
      BY <1>1, <2>1, <2>2 DEF ReservationBound
  <1>3. QED
    BY <1>1, <1>2 DEF StoreConsistent

LEMMA SupersedeConsistent ==
    ASSUME TypeOK, StoreConsistent, NEW row \in selections, NEW f \in Fingerprints,
           NEW t \in Times, NEW scan \in Scans, NEW e \in EventIds,
           row.action = ActionOf[f], SupersedeIntent(row, f, t, scan, e)
    PROVE  StoreConsistent'
  <1> DEFINE new == [action |-> row.action, fp |-> f, version |-> row.version + 1,
                     reserved |-> row.reserved]
  <1>1. IntentKeys /\ SelectionKeys /\ ReservationKeys /\ SelectionsBound /\ ReservationsBound
    BY ConsistentParts
  <1>2. row \in SelectionRow
    BY DEF TypeOK
  <1>3. ~ row.reserved
    BY <1>2 DEF SupersedeIntent, Classify, SelectionRow
  <1>4. ReservationsOf(row.action) = {}
    BY <1>3 DEF SupersedeIntent, SelectionBound
  <1>5. /\ selections' = (selections \ {row}) \cup {new}
        /\ UNCHANGED reservations
    BY DEF SupersedeIntent
  <1>6. /\ intents \subseteq intents'
        /\ \E i \in intents' : i.fp = f
        /\ IntentKeys'
    BY <1>1, InsertKeeps DEF SupersedeIntent
  <1>7. SelectionKeys'
    BY <1>1, <1>5 DEF SelectionKeys
  <1>8. ReservationKeys'
    BY <1>1, <1>5 DEF ReservationKeys
  <1>9. SelectionsBound'
    <2>1. ASSUME NEW other \in selections
          PROVE  SelectionBound(other)'
      BY <1>1, <1>5, <1>6, SelectionStaysBound DEF SelectionsBound, ReservationsOf
    <2>2. SelectionBound(new)'
      BY <1>3, <1>4, <1>5, <1>6 DEF SelectionBound, ReservationsOf
    <2>3. QED
      BY <1>5, <2>1, <2>2 DEF SelectionsBound
  <1>10. ReservationsBound'
    <2>1. ASSUME NEW r \in reservations
          PROVE  ReservationBound(r)'
      <3>1. PICK other \in selections :
               other.action = r.id.action /\ other.fp = r.fp /\ other.reserved
        BY <1>1 DEF ReservationsBound, ReservationBound
      <3>2. other # row
        BY <1>3, <3>1
      <3>3. SelectionBound(other)' /\ other \in selections'
        BY <1>5, <1>9, <3>2 DEF SelectionsBound
      <3>4. QED
        BY <1>1, <1>6, <3>1, <3>3, ReservationStaysBound DEF ReservationsBound
    <2>2. QED
      BY <1>5, <2>1 DEF ReservationsBound
  <1>11. QED
    BY <1>6, <1>7, <1>8, <1>9, <1>10 DEF StoreConsistent, IntentKeys, SelectionKeys,
       ReservationKeys, SelectionsBound, ReservationsBound

LEMMA ReserveConsistent ==
    ASSUME TypeOK, StoreConsistent, NEW f \in Fingerprints, NEW t \in Times,
           NEW l \in Lineages, NEW e \in EventIds, NEW id, id \in IdsFor(f, l),
           ReserveMutation(f, t, id, l, e)
    PROVE  StoreConsistent'
  <1>1. IntentKeys /\ SelectionKeys /\ ReservationKeys /\ SelectionsBound /\ ReservationsBound
    BY ConsistentParts
  <1>2. PICK row \in selections :
          /\ row.action = ActionOf[f] /\ row.fp = f
          /\ SelectionBound(row)
          /\ selections' = (selections \ {row}) \cup {[row EXCEPT !.reserved = TRUE]}
    BY DEF ReserveMutation
  <1> DEFINE locked == [row EXCEPT !.reserved = TRUE]
             new == [id |-> id, fp |-> f, lineage |-> l, state |-> "reserved"]
  <1>3. row \in SelectionRow
    BY DEF TypeOK
  <1>4. locked.action = row.action /\ locked.fp = f /\ locked.reserved
    BY <1>2, <1>3 DEF SelectionRow
  <1>5. id.action = row.action
    BY <1>2 DEF IdsFor, SubmitId, LeverageId, CancelId
  <1>6. new.id = id /\ new.fp = f /\ new.lineage = l
    OBVIOUS
  <1>7. /\ selections' = (selections \ {row}) \cup {locked}
        /\ reservations' = reservations \cup {new}
        /\ \A r \in reservations : r.id # id
        /\ UNCHANGED intents
    BY <1>2 DEF ReserveMutation
  <1> HIDE DEF locked, new
  <1>8. IntentKeys'
    BY <1>1, <1>7 DEF IntentKeys
  <1>9. SelectionKeys'
    BY <1>1, <1>4, <1>7 DEF SelectionKeys
  <1>10. ReservationKeys'
    BY <1>1, <1>6, <1>7 DEF ReservationKeys
  <1>11. SelectionBound(locked)'
    <2>1. ReservationsOf(row.action)' = ReservationsOf(row.action) \cup {new}
      BY <1>5, <1>6, <1>7 DEF ReservationsOf
    <2>2. QED
      BY <1>2, <1>4, <1>6, <1>7, <2>1 DEF SelectionBound
  <1>12. ASSUME NEW other \in selections, other # row
         PROVE  SelectionBound(other)' /\ other \in selections'
    <2>1. other.action # row.action
      BY <1>1, <1>12 DEF SelectionKeys
    <2>2. ReservationsOf(other.action)' = ReservationsOf(other.action)
      BY <1>5, <1>6, <1>7, <2>1 DEF ReservationsOf
    <2>3. QED
      BY <1>1, <1>7, <1>12, <2>2, SelectionStaysBound DEF SelectionsBound
  <1>13. SelectionsBound'
    BY <1>7, <1>11, <1>12 DEF SelectionsBound
  <1>14. ReservationsBound'
    <2>1. ReservationBound(new)'
      BY <1>2, <1>4, <1>5, <1>6, <1>7, <1>11 DEF ReservationBound, SelectionBound, IdsFor,
         SubmitId, LeverageId, CancelId
    <2>2. ASSUME NEW r \in reservations
          PROVE  ReservationBound(r)'
      <3>1. PICK other \in selections :
               other.action = r.id.action /\ other.fp = r.fp /\ other.reserved
        BY <1>1 DEF ReservationsBound, ReservationBound
      <3>2. CASE other = row
        BY <1>1, <1>2, <1>4, <1>7, <1>11, <3>1, <3>2, ReservationStaysBound
           DEF ReservationsBound
      <3>3. CASE other # row
        BY <1>1, <1>7, <1>12, <3>1, <3>3, ReservationStaysBound DEF ReservationsBound
      <3>4. QED
        BY <3>2, <3>3
    <2>3. QED
      BY <1>7, <2>1, <2>2 DEF ReservationsBound
  <1>15. QED
    BY <1>8, <1>9, <1>10, <1>13, <1>14 DEF StoreConsistent, IntentKeys, SelectionKeys,
       ReservationKeys, SelectionsBound, ReservationsBound

LEMMA TransitionConsistent ==
    ASSUME TypeOK, StoreConsistent, NEW id, NEW old, NEW new, NEW e \in EventIds,
           TransitionReservation(id, old, new, e)
    PROVE  StoreConsistent'
  <1>1. IntentKeys /\ SelectionKeys /\ ReservationKeys /\ SelectionsBound /\ ReservationsBound
    BY ConsistentParts
  <1>2. PICK r \in reservations :
          reservations' = (reservations \ {r}) \cup {[r EXCEPT !.state = new]}
    BY DEF TransitionReservation
  <1> DEFINE moved == [r EXCEPT !.state = new]
  <1>3. r \in ReservationRow
    BY DEF TypeOK
  <1>4. moved.id = r.id /\ moved.fp = r.fp /\ moved.lineage = r.lineage
    BY <1>3 DEF ReservationRow
  <1>5. /\ reservations' = (reservations \ {r}) \cup {moved}
        /\ UNCHANGED <<intents, selections>>
    BY <1>2 DEF TransitionReservation
  <1> HIDE DEF moved
  <1>6. IntentKeys' /\ SelectionKeys'
    BY <1>1, <1>5 DEF IntentKeys, SelectionKeys
  <1>7. ReservationKeys'
    BY <1>1, <1>4, <1>5 DEF ReservationKeys
  <1>8. ASSUME NEW row \in selections
        PROVE  SelectionBound(row)'
    <2>1. SelectionBound(row)
      BY <1>1 DEF SelectionsBound
    <2>2. ReservationsOf(row.action)' = {} <=> ReservationsOf(row.action) = {}
      BY <1>4, <1>5 DEF ReservationsOf
    <2>3. \A q \in ReservationsOf(row.action)' : q.fp = row.fp
      BY <1>4, <1>5, <2>1 DEF SelectionBound, ReservationsOf
    <2>4. QED
      BY <1>5, <2>1, <2>2, <2>3 DEF SelectionBound
  <1>9. SelectionsBound'
    BY <1>5, <1>8 DEF SelectionsBound
  <1>10. ReservationsBound'
    <2>1. ASSUME NEW q \in reservations
          PROVE  ReservationBound(q)'
      <3>1. PICK row \in selections :
               row.action = q.id.action /\ row.fp = q.fp /\ row.reserved
        BY <1>1 DEF ReservationsBound, ReservationBound
      <3>2. QED
        BY <1>1, <1>5, <1>8, <3>1, ReservationStaysBound DEF ReservationsBound
    <2>2. ReservationBound(moved)'
      <3>1. ReservationBound(r)'
        BY <2>1
      <3>2. QED
        BY <1>4, <3>1 DEF ReservationBound
    <2>3. QED
      BY <1>5, <2>1, <2>2 DEF ReservationsBound
  <1>11. QED
    BY <1>6, <1>7, <1>9, <1>10 DEF StoreConsistent, IntentKeys, SelectionKeys,
       ReservationKeys, SelectionsBound, ReservationsBound

\* Every step of the store keeps its tables well typed and consistent.
LEMMA StepConsistent ==
    ASSUME TypeOK, StoreConsistent, [Next]_vars
    PROVE  StoreConsistent'
  <1>1. CASE Next
    <2>1. ASSUME NEW row \in selections, NEW f \in Fingerprints, NEW scan \in Scans,
                 NEW e \in EventIds, ReuseIntent(row, f, scan, e)
          PROVE  StoreConsistent'
      BY <2>1, UnchangedConsistent DEF ReuseIntent
    <2>2. ASSUME NEW r \in Readers, Read(r)
          PROVE  StoreConsistent'
      <3>1. UNCHANGED <<intents, selections, reservations>>
        BY <2>2 DEF Read, ReadSelection, ReadBindings, DropAnswer, tables
      <3>2. QED
        BY <3>1, UnchangedConsistent
    <2>3. QED
      BY <1>1, <2>1, <2>2, NextCases, CreateConsistent, SupersedeConsistent,
         ReserveConsistent, TransitionConsistent
  <1>2. CASE UNCHANGED vars
    <2>1. UNCHANGED <<intents, selections, reservations>>
      BY <1>2 DEF vars
    <2>2. QED
      BY <2>1, UnchangedConsistent
  <1>3. QED
    BY <1>1, <1>2

\* The store never reports its own tables as corrupt, whatever legal calls
\* were made: the invariants behind every ExecutionStoreInvariantError of
\* _load_action_selection_connection and _validate_reservation_binding hold.
THEOREM SpecStoreConsistent == Spec => []StoreConsistent
  <1>1. Init => StoreConsistent
    BY DEF Init, StoreConsistent
  <1>2. TypeOK /\ StoreConsistent /\ [Next]_vars => StoreConsistent'
    BY StepConsistent
  <1>3. QED
    BY <1>1, <1>2, SpecTypeOK, PTL DEF Spec

-----------------------------------------------------------------------------
(* Cancel slots, client order IDs and answers of concurrent reads          *)

\* How the table reservations changes: not at all, by one new reserved row
\* that passed the checks of its operation, or by one row changing state.
LEMMA ReservationSteps ==
    ASSUME TypeOK, StoreConsistent, Next
    PROVE  \/ UNCHANGED reservations
           \/ \E new :
                 /\ reservations' = reservations \cup {new}
                 /\ new.id.op = "submit_entry" => ClientIdFree(new.id.action)
                 /\ new.id.op = "cancel_order" => CancelSlotFree(new.lineage)
           \/ \E r \in reservations : \E moved :
                 /\ reservations' = (reservations \ {r}) \cup {moved}
                 /\ moved.id = r.id /\ moved.lineage = r.lineage
                 /\ r.state # "rejected"
  <1> DEFINE Goal ==
          \/ UNCHANGED reservations
          \/ \E new :
                /\ reservations' = reservations \cup {new}
                /\ new.id.op = "submit_entry" => ClientIdFree(new.id.action)
                /\ new.id.op = "cancel_order" => CancelSlotFree(new.lineage)
          \/ \E r \in reservations : \E moved :
                /\ reservations' = (reservations \ {r}) \cup {moved}
                /\ moved.id = r.id /\ moved.lineage = r.lineage
                /\ r.state # "rejected"
  <1>1. ASSUME NEW f \in Fingerprints, NEW t \in Times, NEW l \in Lineages,
               NEW e \in EventIds, NEW id, ReserveMutation(f, t, id, l, e)
        PROVE  Goal
    <2> DEFINE new == [id |-> id, fp |-> f, lineage |-> l, state |-> "reserved"]
    <2>1. new.id = id /\ new.lineage = l
      OBVIOUS
    <2>2. /\ reservations' = reservations \cup {new}
          /\ id.op = "submit_entry" => ClientIdFree(id.action)
          /\ id.op = "cancel_order" => CancelSlotFree(l)
      BY <1>1 DEF ReserveMutation
    <2> HIDE DEF new
    <2>3. QED
      BY <2>1, <2>2
  <1>2. ASSUME NEW r \in reservations, NEW change \in AllowedTransitions,
               NEW e \in EventIds, TransitionReservation(r.id, change[1], change[2], e)
        PROVE  Goal
    <2>1. PICK q \in reservations :
             /\ q.state = change[1]
             /\ reservations' = (reservations \ {q}) \cup {[q EXCEPT !.state = change[2]]}
      BY <1>2 DEF TransitionReservation
    <2> DEFINE moved == [q EXCEPT !.state = change[2]]
    <2>2. moved.id = q.id /\ moved.lineage = q.lineage
      BY DEF TypeOK, ReservationRow
    <2>3. q.state # "rejected"
      BY <2>1 DEF AllowedTransitions
    <2> HIDE DEF moved
    <2>4. reservations' = (reservations \ {q}) \cup {moved}
      BY <2>1 DEF moved
    <2>5. QED
      BY <2>2, <2>3, <2>4
  <1>3. ASSUME UNCHANGED reservations
        PROVE  Goal
    BY <1>3
  <1>4. ASSUME NEW r \in Readers, Read(r)
        PROVE  Goal
    BY <1>4 DEF Read, ReadSelection, ReadBindings, DropAnswer, tables
  <1> HIDE DEF Goal
  <1>5. /\ \A f \in Fingerprints, t \in Times, scan \in Scans, e \in EventIds :
              CreateIntent(f, t, scan, e) => Goal
        /\ \A row \in selections, f \in Fingerprints, scan \in Scans, e \in EventIds :
              ReuseIntent(row, f, scan, e) => Goal
        /\ \A row \in selections, f \in Fingerprints, t \in Times, scan \in Scans,
              e \in EventIds : SupersedeIntent(row, f, t, scan, e) => Goal
    BY <1>3 DEF CreateIntent, ReuseIntent, SupersedeIntent
  <1>6. Goal
    BY <1>1, <1>2, <1>4, <1>5, NextCases
  <1>7. QED
    BY <1>6 DEF Goal

\* A second cancel of a lineage is reserved only after every older one was
\* rejected, and no rejected one ever comes back: _require_cancel_slot and
\* _ALLOWED_RESERVATION_TRANSITIONS together admit one live cancel.
THEOREM SpecOneLiveCancelPerLineage == Spec => []OneLiveCancelPerLineage
  <1>1. Init => OneLiveCancelPerLineage
    BY DEF Init, OneLiveCancelPerLineage
  <1>2. TypeOK /\ StoreConsistent /\ OneLiveCancelPerLineage /\ [Next]_vars
           => OneLiveCancelPerLineage'
    <2>1. ASSUME OneLiveCancelPerLineage, UNCHANGED reservations
          PROVE  OneLiveCancelPerLineage'
      BY <2>1 DEF OneLiveCancelPerLineage
    <2>2. ASSUME OneLiveCancelPerLineage, NEW new,
                 reservations' = reservations \cup {new},
                 new.id.op = "cancel_order" => CancelSlotFree(new.lineage)
          PROVE  OneLiveCancelPerLineage'
      BY <2>2 DEF OneLiveCancelPerLineage, CancelSlotFree
    <2>3. ASSUME OneLiveCancelPerLineage, NEW r \in reservations, NEW moved,
                 reservations' = (reservations \ {r}) \cup {moved},
                 moved.id = r.id, moved.lineage = r.lineage, r.state # "rejected"
          PROVE  OneLiveCancelPerLineage'
      BY <2>3 DEF OneLiveCancelPerLineage
    <2>4. CASE UNCHANGED vars
      BY <2>1, <2>4 DEF vars
    <2>5. QED
      BY <2>1, <2>2, <2>3, <2>4, ReservationSteps
  <1>3. QED
    BY <1>1, <1>2, SpecTypeOK, SpecStoreConsistent, PTL DEF Spec

\* The UNIQUE client_order_id of the table reservations: two submissions are
\* never reserved under one truncated OKX client order ID.
THEOREM SpecClientOrderIdsDistinct == Spec => []ClientOrderIdsDistinct
  <1>1. Init => ClientOrderIdsDistinct
    BY DEF Init, ClientOrderIdsDistinct
  <1>2. TypeOK /\ StoreConsistent /\ ClientOrderIdsDistinct /\ [Next]_vars
           => ClientOrderIdsDistinct'
    <2>1. ASSUME ClientOrderIdsDistinct, UNCHANGED reservations
          PROVE  ClientOrderIdsDistinct'
      BY <2>1 DEF ClientOrderIdsDistinct
    <2>2. ASSUME ClientOrderIdsDistinct, NEW new,
                 reservations' = reservations \cup {new},
                 new.id.op = "submit_entry" => ClientIdFree(new.id.action)
          PROVE  ClientOrderIdsDistinct'
      BY <2>2 DEF ClientOrderIdsDistinct, ClientIdFree
    <2>3. ASSUME ClientOrderIdsDistinct, NEW r \in reservations, NEW moved,
                 reservations' = (reservations \ {r}) \cup {moved}, moved.id = r.id
          PROVE  ClientOrderIdsDistinct'
      BY <2>3 DEF ClientOrderIdsDistinct
    <2>4. CASE UNCHANGED vars
      BY <2>1, <2>4 DEF vars
    <2>5. QED
      BY <2>1, <2>2, <2>3, <2>4, ReservationSteps
  <1>3. QED
    BY <1>1, <1>2, SpecTypeOK, SpecStoreConsistent, PTL DEF Spec

\* A reserved selection is immutable: its row survives every step.
LEMMA ReservedRowStays ==
    ASSUME TypeOK, Next, NEW kept \in selections, kept.reserved
    PROVE  kept \in selections'
  <1>1. ASSUME NEW row \in selections, NEW f \in Fingerprints, NEW t \in Times,
               NEW scan \in Scans, NEW e \in EventIds, SupersedeIntent(row, f, t, scan, e)
        PROVE  kept \in selections'
    <2>1. row.reserved \in BOOLEAN
      BY DEF TypeOK, SelectionRow
    <2>2. row # kept
      BY <1>1, <2>1 DEF SupersedeIntent, Classify
    <2>3. QED
      BY <1>1, <2>2 DEF SupersedeIntent
  <1>2. ASSUME NEW f \in Fingerprints, NEW t \in Times, NEW l \in Lineages,
               NEW e \in EventIds, NEW id, ReserveMutation(f, t, id, l, e)
        PROVE  kept \in selections'
    <2>1. PICK row \in selections :
             selections' = (selections \ {row}) \cup {[row EXCEPT !.reserved = TRUE]}
      BY <1>2 DEF ReserveMutation
    <2>2. kept = row => [row EXCEPT !.reserved = TRUE] = row
      BY DEF TypeOK, SelectionRow
    <2>3. QED
      BY <2>1, <2>2
  <1>3. ASSUME NEW r \in Readers, Read(r)
        PROVE  kept \in selections'
    BY <1>3 DEF Read, ReadSelection, ReadBindings, DropAnswer, tables
  <1>4. /\ \A f \in Fingerprints, t \in Times, scan \in Scans, e \in EventIds :
              CreateIntent(f, t, scan, e) => kept \in selections'
        /\ \A row \in selections, f \in Fingerprints, scan \in Scans, e \in EventIds :
              ReuseIntent(row, f, scan, e) => kept \in selections'
        /\ \A id, old, new : \A e \in EventIds :
              TransitionReservation(id, old, new, e) => kept \in selections'
    BY DEF CreateIntent, ReuseIntent, TransitionReservation
  <1>5. QED
    BY <1>1, <1>2, <1>3, <1>4, NextCases

\* The writing methods do not touch the calls reading at the time.
LEMMA WritesLeaveReader ==
    ASSUME Next
    PROVE  UNCHANGED reader \/ \E r \in Readers : Read(r)
  <1>1. /\ \A f, t, scan, e : CreateIntent(f, t, scan, e) => UNCHANGED reader
        /\ \A row, f, scan, e : ReuseIntent(row, f, scan, e) => UNCHANGED reader
        /\ \A row, f, t, scan, e : SupersedeIntent(row, f, t, scan, e) => UNCHANGED reader
        /\ \A f, t, id, l, e : ReserveMutation(f, t, id, l, e) => UNCHANGED reader
        /\ \A id, old, new, e : TransitionReservation(id, old, new, e) => UNCHANGED reader
    BY DEF CreateIntent, ReuseIntent, SupersedeIntent, ReserveMutation,
       TransitionReservation
  <1>2. QED
    BY <1>1, NextCases

\* An answer of load_action_selection that says "reserved" is true for good,
\* however many writers work between its SELECTs and its use.
THEOREM SpecReservedAnswerNeverStale == Spec => []ReservedAnswerNeverStale
  <1>1. Init => ReservedAnswerNeverStale
    BY DEF Init, ReservedAnswerNeverStale
  <1>2. TypeOK /\ ReservedAnswerNeverStale /\ [Next]_vars => ReservedAnswerNeverStale'
    <2> SUFFICES ASSUME TypeOK, ReservedAnswerNeverStale, [Next]_vars, NEW p \in Readers,
                        reader'[p].row # None, reader'[p].row.reserved
                 PROVE  reader'[p].row \in selections'
      BY DEF ReservedAnswerNeverStale
    <2>1. CASE reader'[p].row = reader[p].row
      <3>1. reader[p].row \in selections
        BY <2>1 DEF ReservedAnswerNeverStale
      <3>2. CASE Next
        BY <2>1, <3>1, <3>2, ReservedRowStays
      <3>3. CASE UNCHANGED vars
        BY <2>1, <3>1, <3>3 DEF vars
      <3>4. QED
        BY <3>2, <3>3
    <2>2. CASE reader'[p].row # reader[p].row
      <3>1. reader \in [Readers -> ReaderState]
        BY DEF TypeOK
      <3>2. ~ UNCHANGED reader
        BY <2>2
      <3>3. PICK r \in Readers : Read(r)
        BY <3>2, WritesLeaveReader DEF vars
      <3>4. UNCHANGED selections
        BY <3>3 DEF Read, ReadSelection, ReadBindings, DropAnswer, tables
      <3>5. ASSUME ReadBindings(r)
            PROVE  FALSE
        <4>1. PICK answer : reader' = [reader EXCEPT ![r].pc = answer]
          BY <3>5 DEF ReadBindings
        <4>2. reader'[p].row = reader[p].row
          BY <3>1, <4>1 DEF ReaderState
        <4>3. QED
          BY <2>2, <4>2
      <3>6. ASSUME NEW answer \in ReaderState, reader' = [reader EXCEPT ![r] = answer],
                   answer.row = None \/ answer.row \in selections
            PROVE  reader'[p].row \in selections'
        BY <2>2, <3>1, <3>4, <3>6
      <3>7. ASSUME DropAnswer(r)
            PROVE  reader'[p].row \in selections'
        <4> DEFINE answer == [pc |-> "idle", row |-> None]
        <4>1. answer.row = None /\ answer \in ReaderState
          BY DEF ReaderState
        <4>2. reader' = [reader EXCEPT ![r] = answer]
          BY <3>7 DEF DropAnswer
        <4> HIDE DEF answer
        <4>3. QED
          BY <3>6, <4>1, <4>2
      <3>8. ASSUME NEW a \in Actions, ReadSelection(r, a)
            PROVE  reader'[p].row \in selections'
        <4>1. CASE reader' = [reader EXCEPT ![r] = [pc |-> "returned", row |-> None]]
          <5> DEFINE answer == [pc |-> "returned", row |-> None]
          <5>1. answer.row = None /\ answer \in ReaderState
            BY DEF ReaderState
          <5>2. reader' = [reader EXCEPT ![r] = answer]
            BY <4>1
          <5> HIDE DEF answer
          <5>3. QED
            BY <3>6, <5>1, <5>2
        <4>2. ASSUME NEW row \in selections,
                     reader' = [reader EXCEPT ![r] = [pc |-> "selected", row |-> row]]
              PROVE  reader'[p].row \in selections'
          <5> DEFINE answer == [pc |-> "selected", row |-> row]
          <5>1. answer.row = row /\ answer \in ReaderState
            BY DEF ReaderState, TypeOK
          <5>2. reader' = [reader EXCEPT ![r] = answer]
            BY <4>2
          <5> HIDE DEF answer
          <5>3. QED
            BY <3>6, <5>1, <5>2
        <4>3. QED
          BY <3>8, <4>1, <4>2 DEF ReadSelection
      <3>9. QED
        BY <3>3, <3>5, <3>7, <3>8 DEF Read
    <2>3. QED
      BY <2>1, <2>2
  <1>3. QED
    BY <1>1, <1>2, SpecTypeOK, PTL DEF Spec

-----------------------------------------------------------------------------
(* The store implements ActionFence                                        *)

\* The primary key makes CHOOSE in RowOf a function of the action.
LEMMA RowOfKey ==
    ASSUME SelectionKeys, NEW row \in selections
    PROVE  HasRow(row.action) /\ RowOf(row.action) = row
  BY DEF SelectionKeys, HasRow, RowOf

\* A step that leaves the row of an action alone leaves its fence alone.
LEMMA FenceKept ==
    ASSUME SelectionKeys, SelectionKeys', NEW a,
           \A row : row.action = a => (row \in selections' <=> row \in selections)
    PROVE  Choice(a)' = Choice(a) /\ Version(a)' = Version(a) /\ Locked(a)' = Locked(a)
  <1>1. CASE \E row \in selections : row.action = a
    <2>1. PICK row \in selections : row.action = a
      BY <1>1
    <2>2. HasRow(a) /\ RowOf(a) = row
      BY <2>1, RowOfKey
    <2>3. HasRow(a)' /\ RowOf(a)' = row
      BY <2>1 DEF SelectionKeys, HasRow, RowOf
    <2>4. QED
      BY <2>2, <2>3 DEF Choice, Version, Locked
  <1>2. CASE ~ \E row \in selections : row.action = a
    <2>1. ~ HasRow(a) /\ ~ HasRow(a)'
      BY <1>2 DEF HasRow
    <2>2. QED
      BY <2>1 DEF Choice, Version, Locked
  <1>3. QED
    BY <1>1, <1>2

\* What a step does to the table action_selections, as the fence sees it:
\* nothing, a first row, a new revision of an unreserved row, or the bit.
LEMMA SelectionSteps ==
    ASSUME TypeOK, StoreConsistent, Next
    PROVE  \/ UNCHANGED selections
           \/ \E new :
                 /\ new.fp \in Fingerprints /\ new.action = ActionOf[new.fp]
                 /\ new.version = 1 /\ new.reserved = FALSE
                 /\ \A row \in selections : row.action # new.action
                 /\ selections' = selections \cup {new}
           \/ \E row \in selections : \E new :
                 /\ new.action = row.action
                 /\ selections' = (selections \ {row}) \cup {new}
                 /\ \/ /\ new.fp \in Fingerprints /\ new.action = ActionOf[new.fp]
                       /\ new.fp # row.fp /\ new.version = row.version + 1
                       /\ ~ row.reserved /\ new.reserved = FALSE
                    \/ /\ new.fp = row.fp /\ new.version = row.version
                       /\ new.reserved = TRUE
  <1> DEFINE First(new) ==
          /\ new.fp \in Fingerprints /\ new.action = ActionOf[new.fp]
          /\ new.version = 1 /\ new.reserved = FALSE
          /\ \A row \in selections : row.action # new.action
          /\ selections' = selections \cup {new}
             Later(row, new) ==
          /\ new.action = row.action
          /\ selections' = (selections \ {row}) \cup {new}
          /\ \/ /\ new.fp \in Fingerprints /\ new.action = ActionOf[new.fp]
                /\ new.fp # row.fp /\ new.version = row.version + 1
                /\ ~ row.reserved /\ new.reserved = FALSE
             \/ /\ new.fp = row.fp /\ new.version = row.version
                /\ new.reserved = TRUE
             Goal ==
          \/ UNCHANGED selections
          \/ \E new : First(new)
          \/ \E row \in selections : \E new : Later(row, new)
  <1>1. ASSUME NEW f \in Fingerprints, NEW t \in Times, NEW scan \in Scans,
               NEW e \in EventIds, CreateIntent(f, t, scan, e)
        PROVE  Goal
    <2> DEFINE new == [action |-> ActionOf[f], fp |-> f, version |-> 1, reserved |-> FALSE]
    <2>1. First(new)
      BY <1>1 DEF CreateIntent
    <2>2. QED
      BY <2>1
  <1>2. ASSUME NEW row \in selections, NEW f \in Fingerprints, NEW t \in Times,
               NEW scan \in Scans, NEW e \in EventIds, row.action = ActionOf[f],
               SupersedeIntent(row, f, t, scan, e)
        PROVE  Goal
    <2> DEFINE new == [action |-> row.action, fp |-> f, version |-> row.version + 1,
                       reserved |-> row.reserved]
    <2>1. row.reserved \in BOOLEAN
      BY DEF TypeOK, SelectionRow
    <2>2. ~ row.reserved /\ row.fp # f
      BY <1>2, <2>1 DEF SupersedeIntent, Classify
    <2>3. row.reserved = FALSE
      BY <2>1, <2>2
    <2>4. Later(row, new)
      BY <1>2, <2>2, <2>3 DEF SupersedeIntent
    <2> HIDE DEF new, Later
    <2>5. QED
      BY <2>4
  <1>3. ASSUME NEW f \in Fingerprints, NEW t \in Times, NEW l \in Lineages,
               NEW e \in EventIds, NEW id, ReserveMutation(f, t, id, l, e)
        PROVE  Goal
    <2>1. PICK row \in selections :
             selections' = (selections \ {row}) \cup {[row EXCEPT !.reserved = TRUE]}
      BY <1>3 DEF ReserveMutation
    <2> DEFINE new == [row EXCEPT !.reserved = TRUE]
    <2>2. /\ new.action = row.action /\ new.fp = row.fp /\ new.version = row.version
          /\ new.reserved = TRUE
      BY DEF TypeOK, SelectionRow
    <2>3. selections' = (selections \ {row}) \cup {new}
      BY <2>1
    <2> HIDE DEF new
    <2>4. Later(row, new)
      BY <2>2, <2>3
    <2>5. QED
      BY <2>4
  <1>4. ASSUME UNCHANGED selections
        PROVE  Goal
    BY <1>4
  <1> HIDE DEF Goal, First, Later
  <1>5. /\ \A row \in selections, f \in Fingerprints, scan \in Scans, e \in EventIds :
              ReuseIntent(row, f, scan, e) => Goal
        /\ \A id, old, new : \A e \in EventIds :
              TransitionReservation(id, old, new, e) => Goal
        /\ \A r \in Readers : Read(r) => Goal
    BY <1>4 DEF ReuseIntent, TransitionReservation, Read, ReadSelection, ReadBindings,
       DropAnswer, tables
  <1>6. Goal
    BY <1>1, <1>2, <1>3, <1>5, NextCases
  <1>7. QED
    BY <1>6 DEF Goal, First, Later

\* The abstract variables change at one action when every other keeps its own.
LEMMA FenceUpdate ==
    ASSUME NEW b \in Actions,
           \A a \in Actions : a # b =>
              Choice(a)' = Choice(a) /\ Version(a)' = Version(a) /\ Locked(a)' = Locked(a)
    PROVE  /\ fenceChoice' = [fenceChoice EXCEPT ![b] = Choice(b)']
           /\ fenceVersion' = [fenceVersion EXCEPT ![b] = Version(b)']
           /\ fenceLocked' = [fenceLocked EXCEPT ![b] = Locked(b)']
           /\ fenceChoice[b] = Choice(b) /\ fenceVersion[b] = Version(b)
           /\ fenceLocked[b] = Locked(b)
  BY DEF fenceChoice, fenceVersion, fenceLocked

\* Updating a function to the value it has is no update.
LEMMA SameUpdate ==
    ASSUME NEW b \in Actions
    PROVE  /\ [fenceChoice EXCEPT ![b] = Choice(b)] = fenceChoice
           /\ [fenceVersion EXCEPT ![b] = Version(b)] = fenceVersion
           /\ [fenceLocked EXCEPT ![b] = Locked(b)] = fenceLocked
  BY DEF fenceChoice, fenceVersion, fenceLocked

\* The detailed store implements the abstract fence: the selection row of an
\* action is its register, only an unreserved revision is ever replaced, each
\* time under the next version, and the first reservation locks it for good.
THEOREM SpecImplementsFence == Spec => ImplementsFence
  <1>1. Init => Fence!FenceInit
    BY DEF Init, Fence!FenceInit, HasRow, Choice, Version, Locked, fenceChoice,
       fenceVersion, fenceLocked
  <1>2. ASSUME TypeOK, StoreConsistent, StoreConsistent', [Next]_vars
        PROVE  [Fence!FenceNext]_Fence!fenceVars
    <2> DEFINE Same(a) ==
            Choice(a)' = Choice(a) /\ Version(a)' = Version(a) /\ Locked(a)' = Locked(a)
    <2>1. SelectionKeys /\ SelectionKeys'
      BY <1>2, ConsistentParts DEF StoreConsistent, SelectionKeys
    <2>2. ASSUME UNCHANGED selections
          PROVE  [Fence!FenceNext]_Fence!fenceVars
      <3>1. \A a \in Actions : Same(a)
        BY <2>1, <2>2, FenceKept
      <3>2. QED
        BY <3>1 DEF Fence!fenceVars, fenceChoice, fenceVersion, fenceLocked
    <2>3. ASSUME NEW new, new.fp \in Fingerprints, new.action = ActionOf[new.fp],
                 new.version = 1, new.reserved = FALSE,
                 \A row \in selections : row.action # new.action,
                 selections' = selections \cup {new}
          PROVE  Fence!Select(new.fp)
      <3>1. new.action \in Actions /\ new.fp # None
        BY <2>3, ConstantsAssumption
      <3>2. /\ Choice(new.action) = None /\ Version(new.action) = 0
            /\ Locked(new.action) = FALSE
        BY <2>3 DEF HasRow, Choice, Version, Locked
      <3>3. HasRow(new.action)' /\ RowOf(new.action)' = new
        BY <2>1, <2>3 DEF SelectionKeys, HasRow, RowOf
      <3>4. /\ Choice(new.action)' = new.fp /\ Version(new.action)' = 1
            /\ Locked(new.action)' = FALSE
        BY <2>3, <3>3 DEF Choice, Version, Locked
      <3>5. ASSUME NEW a \in Actions, a # new.action
            PROVE  Same(a)
        BY <2>1, <2>3, <3>5, FenceKept
      <3>6. fenceLocked' = fenceLocked
        <4>1. Locked(new.action)' = Locked(new.action)
          BY <3>2, <3>4
        <4>2. fenceLocked' = [fenceLocked EXCEPT ![new.action] = Locked(new.action)]
          BY <3>1, <3>5, <4>1, FenceUpdate
        <4>3. QED
          BY <3>1, <4>2, SameUpdate
      <3>7. QED
        BY <2>3, <3>1, <3>2, <3>4, <3>5, <3>6, FenceUpdate DEF Fence!Select
    <2>4. ASSUME NEW row \in selections, NEW new, new.action = row.action,
                 selections' = (selections \ {row}) \cup {new}
          PROVE  /\ row.action \in Actions /\ row.fp \in Fingerprints /\ row.version \in Nat
                 /\ Choice(row.action) = row.fp /\ Version(row.action) = row.version
                 /\ Locked(row.action) <=> row.reserved
                 /\ Choice(row.action)' = new.fp /\ Version(row.action)' = new.version
                 /\ Locked(row.action)' <=> new.reserved
                 /\ \A a \in Actions : a # row.action => Same(a)
      <3>1. row.action \in Actions /\ row.fp \in Fingerprints /\ row.version \in Nat
            /\ row.reserved \in BOOLEAN
        BY <1>2 DEF TypeOK, SelectionRow
      <3>2. HasRow(row.action) /\ RowOf(row.action) = row
        BY <2>1, RowOfKey
      <3>3. HasRow(row.action)' /\ RowOf(row.action)' = new
        BY <2>1, <2>4 DEF SelectionKeys, HasRow, RowOf
      <3>4. ASSUME NEW a \in Actions, a # row.action
            PROVE  Same(a)
        BY <2>1, <2>4, <3>4, FenceKept
      <3>5. QED
        BY <3>1, <3>2, <3>3, <3>4 DEF Choice, Version, Locked
    <2>5. ASSUME NEW row \in selections, NEW new, new.action = row.action,
                 selections' = (selections \ {row}) \cup {new},
                 new.fp \in Fingerprints, new.action = ActionOf[new.fp],
                 new.fp # row.fp, new.version = row.version + 1, ~ row.reserved,
                 new.reserved = FALSE
          PROVE  Fence!Select(new.fp)
      <3>1. /\ row.action \in Actions /\ ~ Locked(row.action)
            /\ Choice(row.action) = row.fp /\ Choice(row.action)' = new.fp
            /\ Version(row.action)' = Version(row.action) + 1
            /\ \A a \in Actions : a # row.action => Same(a)
        BY <2>4, <2>5
      <3>2. Locked(row.action)' = Locked(row.action)
        BY <2>4, <2>5 DEF Locked
      <3>3. fenceLocked' = fenceLocked
        BY <3>1, <3>2, FenceUpdate, SameUpdate
      <3>4. QED
        BY <2>5, <3>1, <3>3, FenceUpdate DEF Fence!Select
    <2>6. ASSUME NEW row \in selections, NEW new, new.action = row.action,
                 selections' = (selections \ {row}) \cup {new},
                 new.fp = row.fp, new.version = row.version, new.reserved = TRUE
          PROVE  [Fence!FenceNext]_Fence!fenceVars
      <3>1. /\ row.action \in Actions /\ Choice(row.action) # None
            /\ Locked(row.action) <=> row.reserved
            /\ Choice(row.action)' = Choice(row.action)
            /\ Version(row.action)' = Version(row.action)
            /\ \A a \in Actions : a # row.action => Same(a)
        BY <2>4, <2>6, ConstantsAssumption
      <3>2. Locked(row.action)' = TRUE
        BY <2>4, <2>6 DEF Locked
      <3>3. fenceChoice' = fenceChoice /\ fenceVersion' = fenceVersion
        BY <3>1, FenceUpdate, SameUpdate
      <3>4. CASE row.reserved
        <4>1. Locked(row.action) = TRUE
          BY <3>1, <3>4 DEF Locked
        <4>2. fenceLocked' = fenceLocked
          BY <3>1, <3>2, <4>1, FenceUpdate, SameUpdate
        <4>3. QED
          BY <3>3, <4>2 DEF Fence!fenceVars
      <3>5. CASE ~ row.reserved
        <4>1. Fence!Lock(row.action)
          BY <3>1, <3>2, <3>3, <3>5, FenceUpdate DEF Fence!Lock
        <4>2. QED
          BY <3>1, <4>1 DEF Fence!FenceNext
      <3>6. QED
        BY <3>4, <3>5
    <2>7. CASE Next
      BY <1>2, <2>2, <2>3, <2>5, <2>6, <2>7, SelectionSteps DEF Fence!FenceNext
    <2>8. CASE UNCHANGED vars
      BY <2>2, <2>8 DEF vars
    <2>9. QED
      BY <1>2, <2>7, <2>8
  <1>3. QED
    BY <1>1, <1>2, SpecTypeOK, SpecStoreConsistent, PTL
       DEF Spec, ImplementsFence, Fence!FenceSpec

-----------------------------------------------------------------------------
(***************************************************************************)
(* The audit ledger replays the tables, for every number of actions,       *)
(* revisions, mutations and events: each operation appends one event to    *)
(* the stream of one action, and what that event says of the selection or  *)
(* of a mutation is what the operation wrote into the tables.              *)
(***************************************************************************)

\* The last event that selects a revision names revision f and version v.
Selects(s, f, v) ==
    \E i \in 1..Len(s) :
        /\ s[i].type \in Selecting /\ s[i].fp = f /\ s[i].version = v
        /\ \A j \in 1..Len(s) : j > i => s[j].type \notin Selecting

\* The last event of mutation m leaves it in state st.
LeavesIn(s, m, st) ==
    \E i \in 1..Len(s) :
        /\ s[i].mutation = m /\ s[i].new = st
        /\ \A j \in 1..Len(s) : j > i => s[j].mutation # m

\* Nothing is selected after a mutation, and a change of state starts from
\* the state that the mutation's event before it has left.
Coherent(s) ==
    \A i \in 1..Len(s) :
        /\ s[i].mutation # None => \A j \in 1..Len(s) : j > i => s[j].type \notin Selecting
        /\ s[i].old # None =>
              \E j \in 1..Len(s) :
                 /\ j < i
                 /\ s[j].mutation = s[i].mutation /\ s[j].new = s[i].old
                 /\ \A k \in 1..Len(s) :
                       (j < k /\ k < i) => s[k].mutation # s[i].mutation

\* An event of an action stands for rows that are there.
EventBacked(a, ev) ==
    /\ \E row \in selections : row.action = a
    /\ ev.mutation # None =>
          /\ ev.mutation.action = a
          /\ \E r \in reservations : r.id = ev.mutation
          /\ \E row \in intents : row.fp = ev.fp /\ row.source = ev.source

StreamsOk ==
    \A a \in Actions :
        /\ Coherent(audit[a])
        /\ \A i \in 1..Len(audit[a]) : EventBacked(a, audit[a][i])

SelectionsReplayed == \A row \in selections : Selects(audit[row.action], row.fp, row.version)

ReservationsReplayed == \A r \in reservations : LeavesIn(audit[r.id.action], r.id, r.state)

AuditInv == SelectionsReplayed /\ ReservationsReplayed /\ StreamsOk

-----------------------------------------------------------------------------
(* One more event in a stream.                                             *)

LEMMA OneMore ==
    ASSUME NEW s \in Seq(Event), NEW ev \in Event
    PROVE  /\ Len(s) \in Nat
           /\ Len(Append(s, ev)) = Len(s) + 1
           /\ \A i \in 1..Len(s) : Append(s, ev)[i] = s[i]
           /\ Append(s, ev)[Len(s) + 1] = ev
  OBVIOUS

\* An event that selects is the last one that does.
LEMMA SelectsNew ==
    ASSUME NEW s \in Seq(Event), NEW ev \in Event, ev.type \in Selecting
    PROVE  Selects(Append(s, ev), ev.fp, ev.version)
  <1> DEFINE longer == Append(s, ev)
  <1>1. Len(s) \in Nat /\ Len(longer) = Len(s) + 1 /\ longer[Len(s) + 1] = ev
    BY OneMore
  <1> HIDE DEF longer
  <1>2. \A j \in 1..Len(longer) : ~ (j > Len(s) + 1)
    BY <1>1
  <1>3. Len(s) + 1 \in 1..Len(longer)
    BY <1>1
  <1>4. Selects(longer, ev.fp, ev.version)
    BY <1>1, <1>2, <1>3 DEF Selects
  <1>5. QED
    BY <1>4 DEF longer

\* Another event leaves the last selection alone.
LEMMA SelectsKept ==
    ASSUME NEW s \in Seq(Event), NEW ev \in Event, ev.type \notin Selecting,
           NEW f, NEW v, Selects(s, f, v)
    PROVE  Selects(Append(s, ev), f, v)
  <1> DEFINE longer == Append(s, ev)
  <1>1. /\ Len(s) \in Nat /\ Len(longer) = Len(s) + 1 /\ longer[Len(s) + 1] = ev
        /\ \A i \in 1..Len(s) : longer[i] = s[i]
    BY OneMore
  <1> HIDE DEF longer
  <1>2. PICK i \in 1..Len(s) :
           /\ s[i].type \in Selecting /\ s[i].fp = f /\ s[i].version = v
           /\ \A j \in 1..Len(s) : j > i => s[j].type \notin Selecting
    BY DEF Selects
  <1>3. ASSUME NEW j \in 1..Len(longer), j > i
        PROVE  longer[j].type \notin Selecting
    <2>1. j = Len(s) + 1 \/ j \in 1..Len(s)
      BY <1>1
    <2>2. QED
      BY <1>1, <1>2, <1>3, <2>1
  <1>4. i \in 1..Len(longer) /\ longer[i] = s[i]
    BY <1>1
  <1>5. Selects(longer, f, v)
    BY <1>2, <1>3, <1>4 DEF Selects
  <1>6. QED
    BY <1>5 DEF longer

\* An event of a mutation is its last one.
LEMMA LeavesNew ==
    ASSUME NEW s \in Seq(Event), NEW ev \in Event
    PROVE  LeavesIn(Append(s, ev), ev.mutation, ev.new)
  <1> DEFINE longer == Append(s, ev)
  <1>1. Len(s) \in Nat /\ Len(longer) = Len(s) + 1 /\ longer[Len(s) + 1] = ev
    BY OneMore
  <1> HIDE DEF longer
  <1>2. \A j \in 1..Len(longer) : ~ (j > Len(s) + 1)
    BY <1>1
  <1>3. Len(s) + 1 \in 1..Len(longer)
    BY <1>1
  <1>4. LeavesIn(longer, ev.mutation, ev.new)
    BY <1>1, <1>2, <1>3 DEF LeavesIn
  <1>5. QED
    BY <1>4 DEF longer

\* An event of something else leaves the mutation where it was.
LEMMA LeavesKept ==
    ASSUME NEW s \in Seq(Event), NEW ev \in Event, NEW m, NEW st,
           ev.mutation # m, LeavesIn(s, m, st)
    PROVE  LeavesIn(Append(s, ev), m, st)
  <1> DEFINE longer == Append(s, ev)
  <1>1. /\ Len(s) \in Nat /\ Len(longer) = Len(s) + 1 /\ longer[Len(s) + 1] = ev
        /\ \A i \in 1..Len(s) : longer[i] = s[i]
    BY OneMore
  <1> HIDE DEF longer
  <1>2. PICK i \in 1..Len(s) :
           /\ s[i].mutation = m /\ s[i].new = st
           /\ \A j \in 1..Len(s) : j > i => s[j].mutation # m
    BY DEF LeavesIn
  <1>3. ASSUME NEW j \in 1..Len(longer), j > i
        PROVE  longer[j].mutation # m
    <2>1. j = Len(s) + 1 \/ j \in 1..Len(s)
      BY <1>1
    <2>2. QED
      BY <1>1, <1>2, <1>3, <2>1
  <1>4. i \in 1..Len(longer) /\ longer[i] = s[i]
    BY <1>1
  <1>5. LeavesIn(longer, m, st)
    BY <1>2, <1>3, <1>4 DEF LeavesIn
  <1>6. QED
    BY <1>5 DEF longer

\* A stream stays coherent if nothing is selected after a mutation and a
\* change of state starts where the mutation was left.
LEMMA CoherentKept ==
    ASSUME NEW s \in Seq(Event), NEW ev \in Event, Coherent(s),
           ev.type \in Selecting => \A i \in 1..Len(s) : s[i].mutation = None,
           ev.old # None => LeavesIn(s, ev.mutation, ev.old)
    PROVE  Coherent(Append(s, ev))
  <1> DEFINE longer == Append(s, ev)
             last == Len(s) + 1
  <1>1. /\ Len(s) \in Nat /\ Len(longer) = last /\ longer[last] = ev
        /\ \A i \in 1..Len(s) : longer[i] = s[i]
    BY OneMore
  <1>2. /\ last \in 1..Len(longer)
        /\ 1..Len(s) \subseteq 1..Len(longer)
        /\ \A i \in 1..Len(longer) : i = last \/ (i \in 1..Len(s) /\ i < last)
    BY <1>1
  <1> HIDE DEF longer, last
  <1>3. ASSUME NEW i \in 1..Len(longer), longer[i].mutation # None,
               NEW j \in 1..Len(longer), j > i
        PROVE  longer[j].type \notin Selecting
    <2>1. i \in 1..Len(s)
      BY <1>1, <1>2, <1>3 DEF last
    <2>2. CASE j = last
      BY <1>1, <1>3, <2>1, <2>2
    <2>3. CASE j \in 1..Len(s)
      BY <1>1, <1>3, <2>1, <2>3 DEF Coherent
    <2>4. QED
      BY <1>2, <2>2, <2>3
  <1>4. ASSUME NEW i \in 1..Len(longer), longer[i].old # None
        PROVE  \E j \in 1..Len(longer) :
                  /\ j < i
                  /\ longer[j].mutation = longer[i].mutation /\ longer[j].new = longer[i].old
                  /\ \A k \in 1..Len(longer) :
                        (j < k /\ k < i) => longer[k].mutation # longer[i].mutation
    <2>1. CASE i = last
      <3>1. PICK j \in 1..Len(s) :
               /\ s[j].mutation = ev.mutation /\ s[j].new = ev.old
               /\ \A k \in 1..Len(s) : k > j => s[k].mutation # ev.mutation
        BY <1>1, <1>4, <2>1 DEF LeavesIn
      <3>2. j \in 1..Len(longer) /\ j < last
        BY <1>1 DEF last
      <3>3. ASSUME NEW k \in 1..Len(longer), j < k, k < last
            PROVE  longer[k].mutation # ev.mutation
        <4>1. k \in 1..Len(s) /\ k > j
          BY <1>1, <3>3 DEF last
        <4>2. QED
          BY <1>1, <3>1, <4>1
      <3>4. QED
        BY <1>1, <2>1, <3>1, <3>2, <3>3
    <2>2. CASE i \in 1..Len(s)
      <3>1. longer[i] = s[i]
        BY <1>1, <2>2
      <3>2. PICK j \in 1..Len(s) :
               /\ j < i
               /\ s[j].mutation = s[i].mutation /\ s[j].new = s[i].old
               /\ \A k \in 1..Len(s) : (j < k /\ k < i) => s[k].mutation # s[i].mutation
        BY <1>4, <2>2, <3>1 DEF Coherent
      <3>3. ASSUME NEW k \in 1..Len(longer), j < k, k < i
            PROVE  longer[k].mutation # s[i].mutation
        <4>1. k \in 1..Len(s)
          BY <1>1, <2>2, <3>3 DEF last
        <4>2. QED
          BY <1>1, <3>2, <3>3, <4>1
      <3>4. j \in 1..Len(longer) /\ longer[j] = s[j]
        BY <1>1, <1>2
      <3>5. QED
        BY <3>1, <3>2, <3>3, <3>4
    <2>3. QED
      BY <1>2, <2>1, <2>2
  <1>5. Coherent(longer)
    BY <1>3, <1>4 DEF Coherent
  <1>6. QED
    BY <1>5 DEF longer

-----------------------------------------------------------------------------
(* One more event of the store.                                            *)

\* The operation appends one event to the stream of one action.
LEMMA OneStreamGrows ==
    ASSUME TypeOK, TypeOK', NEW f \in Fingerprints, NEW e, NEW type, NEW scan, NEW payload,
           AppendEvent(f, e, type, scan, payload)
    PROVE  /\ ActionOf[f] \in Actions
           /\ \A a \in Actions : audit[a] \in Seq(Event)
           /\ \A a \in Actions : a # ActionOf[f] => audit'[a] = audit[a]
           /\ \E ev \in Event :
                 /\ audit'[ActionOf[f]] = Append(audit[ActionOf[f]], ev)
                 /\ ev.type = type /\ ev.fp = f /\ ev.source = scan
                 /\ ev.version = payload.version /\ ev.mutation = payload.mutation
                 /\ ev.old = payload.old /\ ev.new = payload.new
  <1> DEFINE a == ActionOf[f]
             ev == [id |-> e, type |-> type, fp |-> f, source |-> scan,
                    version |-> payload.version, mutation |-> payload.mutation,
                    old |-> payload.old, new |-> payload.new]
  <1>1. /\ ev.type = type /\ ev.fp = f /\ ev.source = scan
        /\ ev.version = payload.version /\ ev.mutation = payload.mutation
        /\ ev.old = payload.old /\ ev.new = payload.new
    OBVIOUS
  <1>2. audit' = [audit EXCEPT ![a] = Append(@, ev)]
    BY DEF AppendEvent
  <1> HIDE DEF ev
  <1>3. a \in Actions
    BY ConstantsAssumption
  <1>4. audit \in [Actions -> Seq(Event)] /\ audit' \in [Actions -> Seq(Event)]
    BY DEF TypeOK
  <1>5. audit'[a] = Append(audit[a], ev)
    BY <1>2, <1>3, <1>4
  <1>6. ev \in Event
    <2>1. audit[a] \in Seq(Event) /\ Append(audit[a], ev) \in Seq(Event)
      BY <1>3, <1>4, <1>5
    <2>2. Len(audit[a]) \in Nat /\ Len(Append(audit[a], ev)) = Len(audit[a]) + 1
          /\ Append(audit[a], ev)[Len(audit[a]) + 1] = ev
      BY <2>1
    <2>3. QED
      BY <2>1, <2>2
  <1>7. \A b \in Actions : b # a => audit'[b] = audit[b]
    BY <1>2, <1>4
  <1>8. QED
    BY <1>1, <1>3, <1>4, <1>5, <1>6, <1>7

\* The streams stay in order under an event that stands for what is in the
\* tables after the step.
LEMMA StreamsKept ==
    ASSUME TypeOK, StreamsOk, NEW a \in Actions, NEW ev \in Event,
           audit[a] \in Seq(Event), audit'[a] = Append(audit[a], ev),
           \A b \in Actions : b # a => audit'[b] = audit[b],
           intents \subseteq intents',
           \A row \in selections : \E new \in selections' : new.action = row.action,
           \A r \in reservations : \E new \in reservations' : new.id = r.id,
           ev.type \in Selecting => ReservationsOf(a) = {},
           ev.old # None => LeavesIn(audit[a], ev.mutation, ev.old),
           EventBacked(a, ev)'
    PROVE  StreamsOk'
  <1>1. \A b : \A old : EventBacked(b, old) => EventBacked(b, old)'
    <2>1. ASSUME NEW b, NEW old, EventBacked(b, old)
          PROVE  EventBacked(b, old)'
      <3>1. \E row \in selections' : row.action = b
        BY <2>1 DEF EventBacked
      <3>2. old.mutation # None => \E r \in reservations' : r.id = old.mutation
        BY <2>1 DEF EventBacked
      <3>3. QED
        BY <2>1, <3>1, <3>2 DEF EventBacked
    <2>2. QED
      BY <2>1
  <1>2. Coherent(audit[a]) /\ \A i \in 1..Len(audit[a]) : EventBacked(a, audit[a][i])
    BY DEF StreamsOk
  <1>3. ev.type \in Selecting => \A i \in 1..Len(audit[a]) : audit[a][i].mutation = None
    BY <1>2 DEF EventBacked, ReservationsOf
  <1>4. Coherent(audit'[a])
    BY <1>2, <1>3, CoherentKept
  <1>5. (\A i \in 1..Len(audit[a]) : EventBacked(a, audit[a][i]))'
    <2>1. /\ Len(audit[a]) \in Nat /\ Len(audit'[a]) = Len(audit[a]) + 1
          /\ audit'[a][Len(audit[a]) + 1] = ev
          /\ \A i \in 1..Len(audit[a]) : audit'[a][i] = audit[a][i]
      BY OneMore
    <2>2. ASSUME NEW i \in 1..Len(audit'[a])
          PROVE  EventBacked(a, audit[a][i])'
      <3>1. CASE i = Len(audit[a]) + 1
        BY <2>1, <3>1 DEF EventBacked
      <3>2. CASE i \in 1..Len(audit[a])
        <4>1. PICK old : old = audit[a][i]
          OBVIOUS
        <4>2. EventBacked(a, old)'
          BY <1>1, <1>2, <3>2, <4>1
        <4>3. audit'[a][i] = old
          BY <2>1, <3>2, <4>1
        <4>4. QED
          BY <4>2, <4>3 DEF EventBacked
      <3>3. QED
        BY <2>1, <3>1, <3>2
    <2>3. QED
      BY <2>2
  <1>6. ASSUME NEW b \in Actions, b # a
        PROVE  (Coherent(audit[b]) /\ \A i \in 1..Len(audit[b]) : EventBacked(b, audit[b][i]))'
    <2>1. audit'[b] = audit[b]
      BY <1>6
    <2>2. Coherent(audit'[b])
      BY <2>1 DEF StreamsOk
    <2>3. ASSUME NEW i \in 1..Len(audit'[b])
          PROVE  EventBacked(b, audit[b][i])'
      <3>1. PICK old : old = audit[b][i]
        OBVIOUS
      <3>2. EventBacked(b, old)'
        BY <1>1, <2>1, <2>3, <3>1 DEF StreamsOk
      <3>3. audit'[b][i] = old
        BY <2>1, <3>1
      <3>4. QED
        BY <3>2, <3>3 DEF EventBacked
    <2>4. QED
      BY <2>2, <2>3
  <1>7. QED
    BY <1>4, <1>5, <1>6 DEF StreamsOk

-----------------------------------------------------------------------------
(* The operations.                                                         *)

\* The stream of another action says what it said.
LEMMA OtherStreams ==
    ASSUME AuditInv, NEW a, \A b \in Actions : b # a => audit'[b] = audit[b]
    PROVE  /\ \A row \in selections :
                 row.action \in Actions \ {a} =>
                     Selects(audit'[row.action], row.fp, row.version)
           /\ \A r \in reservations :
                 r.id.action \in Actions \ {a} =>
                     LeavesIn(audit'[r.id.action], r.id, r.state)
  BY DEF AuditInv, SelectionsReplayed, ReservationsReplayed

\* Rows are about actions and mutations of their types.
LEMMA RowTypes ==
    ASSUME TypeOK
    PROVE  /\ \A row \in selections : row.action \in Actions
           /\ \A r \in reservations : r.id \in MutationIds /\ r.id.action \in Actions
                                      /\ r.fp \in Fingerprints
  BY DEF TypeOK, SelectionRow, ReservationRow, MutationIds

LEMMA CreateReplayed ==
    ASSUME TypeOK, TypeOK', StoreConsistent, AuditInv, NEW f \in Fingerprints, NEW t \in Times,
           NEW scan \in Scans, NEW e \in EventIds, CreateIntent(f, t, scan, e)
    PROVE  AuditInv'
  <1> DEFINE a == ActionOf[f]
             payload == [NoEvent EXCEPT !.version = 1]
             new == [action |-> a, fp |-> f, version |-> 1, reserved |-> FALSE]
  <1>1. payload.version = 1 /\ payload.mutation = None /\ payload.old = None
    BY DEF NoEvent
  <1>2. new.action = a /\ new.fp = f /\ new.version = 1
    OBVIOUS
  <1>3. /\ AppendEvent(f, e, "intent.created", scan, payload)
        /\ \A row \in selections : row.action # a
        /\ ReservationsOf(a) = {}
        /\ selections' = selections \cup {new}
        /\ UNCHANGED reservations
    BY DEF CreateIntent, NoOrphanedEvidence
  <1>4. intents \subseteq intents'
    BY ConsistentParts, InsertKeeps DEF CreateIntent
  <1> HIDE DEF payload, new
  <1>5. PICK ev \in Event :
           /\ audit'[a] = Append(audit[a], ev)
           /\ ev.type = "intent.created" /\ ev.fp = f
           /\ ev.version = 1 /\ ev.mutation = None /\ ev.old = None
    BY <1>1, <1>3, OneStreamGrows
  <1>6. /\ a \in Actions
        /\ \A b \in Actions : audit[b] \in Seq(Event)
        /\ \A b \in Actions : b # a => audit'[b] = audit[b]
    BY <1>3, OneStreamGrows
  <1>7. \A r \in reservations : r.id.action # a
    BY <1>3 DEF ReservationsOf
  <1> HIDE DEF a
  <1>8. SelectionsReplayed'
    <2>1. Selects(audit'[a], f, 1)
      BY <1>5, <1>6, SelectsNew DEF Selecting
    <2>2. ASSUME NEW row \in selections
          PROVE  Selects(audit'[row.action], row.fp, row.version)
      BY <1>3, <1>6, OtherStreams, RowTypes
    <2>3. QED
      BY <1>2, <1>3, <2>1, <2>2 DEF SelectionsReplayed
  <1>9. ReservationsReplayed'
    BY <1>3, <1>6, <1>7, OtherStreams, RowTypes DEF ReservationsReplayed
  <1>10. StreamsOk'
    <2>1. EventBacked(a, ev)'
      BY <1>2, <1>3, <1>5 DEF EventBacked
    <2>2. \A row \in selections : \E other \in selections' : other.action = row.action
      BY <1>3
    <2>3. \A r \in reservations : \E other \in reservations' : other.id = r.id
      BY <1>3
    <2>4. QED
      BY <1>3, <1>4, <1>5, <1>6, <2>1, <2>2, <2>3, StreamsKept DEF AuditInv
  <1>11. QED
    BY <1>8, <1>9, <1>10 DEF AuditInv

LEMMA ReuseReplayed ==
    ASSUME TypeOK, TypeOK', AuditInv, NEW row \in selections, NEW f \in Fingerprints,
           NEW scan \in Scans, NEW e \in EventIds, ReuseIntent(row, f, scan, e)
    PROVE  AuditInv'
  <1> DEFINE a == ActionOf[f]
  <1>1. NoEvent.mutation = None /\ NoEvent.old = None
    BY DEF NoEvent
  <1>2. /\ AppendEvent(f, e, "intent.reused", scan, NoEvent)
        /\ SelectionBound(row)
        /\ row.fp = f
        /\ UNCHANGED <<intents, selections, reservations>>
    BY DEF ReuseIntent, Classify
  <1>3. row.action = a
    BY <1>2 DEF SelectionBound
  <1>4. PICK ev \in Event :
           /\ audit'[a] = Append(audit[a], ev)
           /\ ev.type = "intent.reused" /\ ev.mutation = None /\ ev.old = None
    BY <1>1, <1>2, OneStreamGrows
  <1>5. /\ a \in Actions
        /\ \A b \in Actions : audit[b] \in Seq(Event)
        /\ \A b \in Actions : b # a => audit'[b] = audit[b]
    BY <1>2, OneStreamGrows
  <1>6. ev.type \notin Selecting
    BY <1>4 DEF Selecting
  <1> HIDE DEF a
  <1>7. SelectionsReplayed'
    <2>1. ASSUME NEW other \in selections, other.action = a
          PROVE  Selects(audit'[a], other.fp, other.version)
      <3>1. Selects(audit[a], other.fp, other.version)
        BY <2>1 DEF AuditInv, SelectionsReplayed
      <3>2. QED
        BY <1>4, <1>5, <1>6, <3>1, SelectsKept
    <2>2. QED
      BY <1>2, <1>5, <2>1, OtherStreams, RowTypes DEF SelectionsReplayed
  <1>8. ReservationsReplayed'
    <2>1. ASSUME NEW r \in reservations, r.id.action = a
          PROVE  LeavesIn(audit'[a], r.id, r.state)
      <3>1. LeavesIn(audit[a], r.id, r.state)
        BY <2>1 DEF AuditInv, ReservationsReplayed
      <3>2. ev.mutation # r.id
        BY <1>4, NoneAssumption, RowTypes
      <3>3. QED
        BY <1>4, <1>5, <3>1, <3>2, LeavesKept
    <2>2. QED
      BY <1>2, <1>5, <2>1, OtherStreams, RowTypes DEF ReservationsReplayed
  <1>9. StreamsOk'
    <2>1. EventBacked(a, ev)'
      BY <1>2, <1>3, <1>4 DEF EventBacked
    <2>2. \A other \in selections : \E new \in selections' : new.action = other.action
      BY <1>2
    <2>3. \A r \in reservations : \E other \in reservations' : other.id = r.id
      BY <1>2
    <2>4. QED
      BY <1>2, <1>4, <1>5, <1>6, <2>1, <2>2, <2>3, StreamsKept DEF AuditInv
  <1>10. QED
    BY <1>7, <1>8, <1>9 DEF AuditInv

LEMMA SupersedeReplayed ==
    ASSUME TypeOK, TypeOK', StoreConsistent, AuditInv, NEW row \in selections,
           NEW f \in Fingerprints, NEW t \in Times, NEW scan \in Scans, NEW e \in EventIds,
           row.action = ActionOf[f], SupersedeIntent(row, f, t, scan, e)
    PROVE  AuditInv'
  <1> DEFINE a == ActionOf[f]
             v == row.version + 1
             payload == [NoEvent EXCEPT !.version = v]
             new == [action |-> row.action, fp |-> f, version |-> v, reserved |-> row.reserved]
  <1>1. payload.version = v /\ payload.mutation = None /\ payload.old = None
    BY DEF NoEvent
  <1>2. new.action = a /\ new.fp = f /\ new.version = v
    OBVIOUS
  <1>3. /\ AppendEvent(f, e, "intent.superseded", scan, payload)
        /\ selections' = (selections \ {row}) \cup {new}
        /\ UNCHANGED reservations
    BY DEF SupersedeIntent
  <1>4. intents \subseteq intents'
    BY ConsistentParts, InsertKeeps DEF SupersedeIntent
  <1> HIDE DEF payload, new, v
  <1>5. ReservationsOf(a) = {}
    <2>1. row.reserved \in BOOLEAN
      BY DEF TypeOK, SelectionRow
    <2>2. QED
      BY <2>1 DEF SupersedeIntent, Classify, SelectionBound
  <1>6. PICK ev \in Event :
           /\ audit'[a] = Append(audit[a], ev)
           /\ ev.type = "intent.superseded" /\ ev.fp = f
           /\ ev.version = v /\ ev.mutation = None /\ ev.old = None
    BY <1>1, <1>3, OneStreamGrows
  <1>7. /\ a \in Actions
        /\ \A b \in Actions : audit[b] \in Seq(Event)
        /\ \A b \in Actions : b # a => audit'[b] = audit[b]
    BY <1>3, OneStreamGrows
  <1>8. \A r \in reservations : r.id.action # a
    BY <1>5 DEF ReservationsOf
  <1>9. \A other \in selections : other # row => other.action # a
    BY DEF StoreConsistent
  <1> HIDE DEF a
  <1>10. SelectionsReplayed'
    <2>1. Selects(audit'[a], f, v)
      BY <1>6, <1>7, SelectsNew DEF Selecting
    <2>2. ASSUME NEW other \in selections, other # row
          PROVE  Selects(audit'[other.action], other.fp, other.version)
      BY <1>7, <1>9, <2>2, OtherStreams, RowTypes
    <2>3. QED
      BY <1>2, <1>3, <2>1, <2>2 DEF SelectionsReplayed
  <1>11. ReservationsReplayed'
    BY <1>3, <1>7, <1>8, OtherStreams, RowTypes DEF ReservationsReplayed
  <1>12. StreamsOk'
    <2>1. EventBacked(a, ev)'
      BY <1>2, <1>3, <1>6 DEF EventBacked
    <2>2. \A other \in selections : \E kept \in selections' : kept.action = other.action
      BY <1>2, <1>3 DEF a
    <2>3. \A r \in reservations : \E other \in reservations' : other.id = r.id
      BY <1>3
    <2>4. QED
      BY <1>4, <1>5, <1>6, <1>7, <2>1, <2>2, <2>3, StreamsKept DEF AuditInv
  <1>13. QED
    BY <1>10, <1>11, <1>12 DEF AuditInv

LEMMA ReserveReplayed ==
    ASSUME TypeOK, TypeOK', StoreConsistent, AuditInv, NEW f \in Fingerprints,
           NEW t \in Times, NEW l \in Lineages, NEW e \in EventIds, NEW id,
           id \in IdsFor(f, l), ReserveMutation(f, t, id, l, e)
    PROVE  AuditInv'
  <1> DEFINE a == ActionOf[f]
             payload == [NoEvent EXCEPT !.mutation = id, !.new = "reserved"]
             new == [id |-> id, fp |-> f, lineage |-> l, state |-> "reserved"]
  <1>1. payload.mutation = id /\ payload.old = None /\ payload.new = "reserved"
    BY DEF NoEvent
  <1>2. new.id = id /\ new.fp = f /\ new.state = "reserved"
    OBVIOUS
  <1>3. PICK row \in selections, i \in intents :
          /\ row.action = ActionOf[f]
          /\ i.fp = f
          /\ selections' = (selections \ {row}) \cup {[row EXCEPT !.reserved = TRUE]}
          /\ AppendEvent(f, e, "idempotency.reserved", i.source, payload)
    BY DEF ReserveMutation
  <1>4. /\ reservations' = reservations \cup {new}
        /\ \A r \in reservations : r.id # id
        /\ UNCHANGED intents
    BY DEF ReserveMutation
  <1> DEFINE locked == [row EXCEPT !.reserved = TRUE]
  <1>5. locked.action = row.action /\ locked.fp = row.fp /\ locked.version = row.version
    BY DEF TypeOK, SelectionRow
  <1>6. selections' = (selections \ {row}) \cup {locked}
    BY <1>3
  <1>7. id.action = a
    BY DEF IdsFor, SubmitId, LeverageId, CancelId
  <1> HIDE DEF payload, new, locked
  <1>8. PICK ev \in Event :
           /\ audit'[a] = Append(audit[a], ev)
           /\ ev.type = "idempotency.reserved" /\ ev.fp = f /\ ev.source = i.source
           /\ ev.mutation = id /\ ev.old = None /\ ev.new = "reserved"
    BY <1>1, <1>3, OneStreamGrows
  <1>9. /\ a \in Actions
        /\ \A b \in Actions : audit[b] \in Seq(Event)
        /\ \A b \in Actions : b # a => audit'[b] = audit[b]
    BY <1>3, OneStreamGrows
  <1>10. ev.type \notin Selecting
    BY <1>8 DEF Selecting
  <1> HIDE DEF a
  <1>11. SelectionsReplayed'
    <2>1. ASSUME NEW other \in selections
          PROVE  Selects(audit'[other.action], other.fp, other.version)
      <3>1. CASE other.action = a
        <4>1. Selects(audit[a], other.fp, other.version)
          BY <3>1 DEF AuditInv, SelectionsReplayed
        <4>2. QED
          BY <1>8, <1>9, <1>10, <3>1, <4>1, SelectsKept
      <3>2. CASE other.action # a
        BY <1>9, <3>2, OtherStreams, RowTypes
      <3>3. QED
        BY <3>1, <3>2
    <2>2. QED
      BY <1>5, <1>6, <2>1 DEF SelectionsReplayed
  <1>12. ReservationsReplayed'
    <2>1. LeavesIn(audit'[a], id, "reserved")
      BY <1>8, <1>9, LeavesNew
    <2>2. ASSUME NEW r \in reservations
          PROVE  LeavesIn(audit'[r.id.action], r.id, r.state)
      <3>1. CASE r.id.action = a
        <4>1. LeavesIn(audit[a], r.id, r.state)
          BY <3>1 DEF AuditInv, ReservationsReplayed
        <4>2. QED
          BY <1>4, <1>8, <1>9, <3>1, <4>1, LeavesKept
      <3>2. CASE r.id.action # a
        BY <1>9, <3>2, OtherStreams, RowTypes
      <3>3. QED
        BY <3>1, <3>2
    <2>3. QED
      BY <1>2, <1>4, <1>7, <2>1, <2>2 DEF ReservationsReplayed, a
  <1>13. StreamsOk'
    <2>1. EventBacked(a, ev)'
      BY <1>2, <1>3, <1>4, <1>5, <1>6, <1>7, <1>8 DEF EventBacked, a
    <2>2. \A other \in selections : \E kept \in selections' : kept.action = other.action
      BY <1>5, <1>6
    <2>3. \A r \in reservations : \E other \in reservations' : other.id = r.id
      BY <1>4
    <2>4. QED
      BY <1>4, <1>8, <1>9, <1>10, <2>1, <2>2, <2>3, StreamsKept DEF AuditInv
  <1>14. QED
    BY <1>11, <1>12, <1>13 DEF AuditInv

LEMMA TransitionReplayed ==
    ASSUME TypeOK, TypeOK', StoreConsistent, AuditInv, NEW id, NEW old, NEW new,
           NEW e \in EventIds, TransitionReservation(id, old, new, e)
    PROVE  AuditInv'
  <1> DEFINE payload == [NoEvent EXCEPT !.mutation = id, !.old = old, !.new = new]
             a == id.action
  <1>1. payload.mutation = id /\ payload.old = old /\ payload.new = new
    BY DEF NoEvent
  <1>2. PICK r \in reservations, i \in intents :
          /\ r.id = id /\ r.state = old
          /\ ReservationBound(r)
          /\ i.fp = r.fp
          /\ reservations' = (reservations \ {r}) \cup {[r EXCEPT !.state = new]}
          /\ AppendEvent(r.fp, e, "idempotency.reservation_state_changed", i.source, payload)
    BY DEF TransitionReservation
  <1> DEFINE moved == [r EXCEPT !.state = new]
  <1>3. moved.id = id /\ moved.fp = r.fp /\ moved.state = new
    BY <1>2 DEF TypeOK, ReservationRow
  <1>4. /\ reservations' = (reservations \ {r}) \cup {moved}
        /\ UNCHANGED <<intents, selections>>
    BY <1>2 DEF TransitionReservation
  <1>5. ActionOf[r.fp] = a /\ \E row \in selections : row.action = a
    BY <1>2 DEF ReservationBound
  <1> HIDE DEF payload, moved
  <1>6. r.fp \in Fingerprints
    BY RowTypes
  <1>7. PICK ev \in Event :
           /\ audit'[a] = Append(audit[a], ev)
           /\ ev.type = "idempotency.reservation_state_changed"
           /\ ev.fp = r.fp /\ ev.source = i.source
           /\ ev.mutation = id /\ ev.old = old /\ ev.new = new
    BY <1>1, <1>2, <1>5, <1>6, OneStreamGrows
  <1>8. /\ a \in Actions
        /\ \A b \in Actions : audit[b] \in Seq(Event)
        /\ \A b \in Actions : b # a => audit'[b] = audit[b]
    BY <1>2, <1>5, <1>6, OneStreamGrows
  <1>9. ev.type \notin Selecting
    BY <1>7 DEF Selecting
  <1>10. LeavesIn(audit[a], id, old)
    BY <1>2 DEF AuditInv, ReservationsReplayed
  <1>11. \A q \in reservations : q # r => q.id # id
    BY <1>2 DEF StoreConsistent
  <1>12. SelectionsReplayed'
    <2>1. ASSUME NEW other \in selections
          PROVE  Selects(audit'[other.action], other.fp, other.version)
      <3>1. CASE other.action = a
        <4>1. Selects(audit[a], other.fp, other.version)
          BY <3>1 DEF AuditInv, SelectionsReplayed
        <4>2. QED
          BY <1>7, <1>8, <1>9, <3>1, <4>1, SelectsKept
      <3>2. CASE other.action # a
        BY <1>8, <3>2, OtherStreams, RowTypes
      <3>3. QED
        BY <3>1, <3>2
    <2>2. QED
      BY <1>4, <2>1 DEF SelectionsReplayed
  <1>13. ReservationsReplayed'
    <2>1. LeavesIn(audit'[a], id, new)
      BY <1>7, <1>8, LeavesNew
    <2>2. ASSUME NEW q \in reservations, q # r
          PROVE  LeavesIn(audit'[q.id.action], q.id, q.state)
      <3>1. CASE q.id.action = a
        <4>1. LeavesIn(audit[a], q.id, q.state)
          BY <3>1 DEF AuditInv, ReservationsReplayed
        <4>2. QED
          BY <1>7, <1>8, <1>11, <2>2, <3>1, <4>1, LeavesKept
      <3>2. CASE q.id.action # a
        BY <1>8, <3>2, OtherStreams, RowTypes
      <3>3. QED
        BY <3>1, <3>2
    <2>3. QED
      BY <1>3, <1>4, <2>1, <2>2 DEF ReservationsReplayed
  <1>14. StreamsOk'
    <2>1. EventBacked(a, ev)'
      BY <1>2, <1>3, <1>4, <1>5, <1>7 DEF EventBacked
    <2>2. \A other \in selections : \E kept \in selections' : kept.action = other.action
      BY <1>4
    <2>3. \A q \in reservations : \E other \in reservations' : other.id = q.id
      BY <1>2, <1>3, <1>4
    <2>4. QED
      BY <1>4, <1>7, <1>8, <1>9, <1>10, <2>1, <2>2, <2>3, StreamsKept DEF AuditInv
  <1>15. QED
    BY <1>12, <1>13, <1>14 DEF AuditInv

-----------------------------------------------------------------------------

\* Reads and stuttering leave tables and ledger alone.
LEMMA UnchangedReplayed ==
    ASSUME AuditInv, UNCHANGED tables
    PROVE  AuditInv'
  BY DEF AuditInv, SelectionsReplayed, ReservationsReplayed, StreamsOk, EventBacked, tables

LEMMA StepReplayed ==
    ASSUME TypeOK, TypeOK', StoreConsistent, AuditInv, [Next]_vars
    PROVE  AuditInv'
  <1>1. CASE Next
    <2>1. ASSUME NEW r \in Readers, Read(r)
          PROVE  AuditInv'
      <3>1. UNCHANGED tables
        BY <2>1 DEF Read, ReadSelection, ReadBindings, DropAnswer
      <3>2. QED
        BY <3>1, UnchangedReplayed
    <2>2. QED
      BY <1>1, <2>1, NextCases, CreateReplayed, ReuseReplayed, SupersedeReplayed,
         ReserveReplayed, TransitionReplayed
  <1>2. CASE UNCHANGED vars
    <2>1. UNCHANGED tables
      BY <1>2 DEF vars, tables
    <2>2. QED
      BY <2>1, UnchangedReplayed
  <1>3. QED
    BY <1>1, <1>2

LEMMA AuditInvSuffices ==
    ASSUME TypeOK, StoreConsistent, AuditInv
    PROVE  AuditReplaysTables
  <1>1. /\ \A row \in selections : row.action \in Actions
        /\ \A r \in reservations : r.id.action \in Actions
    BY RowTypes
  <1>2. \A a \in Actions : audit[a] \in Seq(Event)
    BY DEF TypeOK
  <1>3. \A a \in Actions : DOMAIN audit[a] = 1..Len(audit[a])
    <2>1. ASSUME NEW s \in Seq(Event)
          PROVE  DOMAIN s = 1..Len(s)
      OBVIOUS
    <2>2. QED
      BY <1>2, <2>1
  <1>4. \A row \in selections :
          \E i \in DOMAIN audit[row.action] :
             LET ev == audit[row.action][i] IN
             /\ ev.type \in Selecting /\ ev.fp = row.fp /\ ev.version = row.version
             /\ \A j \in DOMAIN audit[row.action] :
                   j > i => audit[row.action][j].type \notin Selecting
    BY <1>1, <1>3 DEF AuditInv, SelectionsReplayed, Selects
  <1>5. \A r \in reservations :
          \E i \in DOMAIN audit[r.id.action] :
             /\ audit[r.id.action][i].mutation = r.id
             /\ audit[r.id.action][i].new = r.state
             /\ \A j \in DOMAIN audit[r.id.action] :
                   j > i => audit[r.id.action][j].mutation # r.id
    BY <1>1, <1>3 DEF AuditInv, ReservationsReplayed, LeavesIn
  <1>6. ASSUME NEW a \in Actions, NEW i \in DOMAIN audit[a]
        PROVE  LET ev == audit[a][i] IN
               /\ \E row \in selections : row.action = a
               /\ ev.mutation # None =>
                     /\ \E r \in reservations : r.id = ev.mutation
                     /\ \A row \in intents : row.fp = ev.fp => ev.source = row.source
                     /\ \A j \in DOMAIN audit[a] :
                           j > i => audit[a][j].type \notin Selecting
               /\ ev.old # None =>
                     \E j \in DOMAIN audit[a] :
                        /\ j < i
                        /\ audit[a][j].mutation = ev.mutation /\ audit[a][j].new = ev.old
                        /\ \A k \in DOMAIN audit[a] :
                              (j < k /\ k < i) => audit[a][k].mutation # ev.mutation
    <2>1. Coherent(audit[a]) /\ EventBacked(a, audit[a][i])
      BY <1>3, <1>6 DEF AuditInv, StreamsOk
    <2>2. audit[a][i].mutation # None =>
             \A row \in intents : row.fp = audit[a][i].fp => audit[a][i].source = row.source
      BY <2>1 DEF EventBacked, StoreConsistent
    <2>3. QED
      BY <1>3, <1>6, <2>1, <2>2 DEF Coherent, EventBacked
  <1>7. QED
    BY <1>4, <1>5, <1>6 DEF AuditReplaysTables

\* The audit ledger is authoritative: whoever replays an action's events gets
\* the selection row and the state of every reservation, consecutive changes
\* of a mutation fit, and nothing is superseded after a reservation.
THEOREM SpecAuditReplaysTables == Spec => []AuditReplaysTables
  <1>1. Init => AuditInv
    BY DEF Init, AuditInv, SelectionsReplayed, ReservationsReplayed, StreamsOk, Coherent
  <1>2. TypeOK /\ TypeOK' /\ StoreConsistent /\ AuditInv /\ [Next]_vars => AuditInv'
    BY StepReplayed
  <1>3. TypeOK /\ StoreConsistent /\ AuditInv => AuditReplaysTables
    BY AuditInvSuffices
  <1>4. QED
    BY <1>1, <1>2, <1>3, SpecTypeOK, SpecStoreConsistent, PTL DEF Spec
=============================================================================
