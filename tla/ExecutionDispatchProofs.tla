---------------------- MODULE ExecutionDispatchProofs -----------------------
(***************************************************************************)
(* The dispatchers, the recovery and the operator use the store's methods  *)
(* only, so every theorem about the store holds of the composition; and    *)
(* the compare-and-swap on the state together with the unique event_id     *)
(* makes each mutation reach the broker at most once.                      *)
(***************************************************************************)
EXTENDS ExecutionDispatch, ExecutionStoreProofs

\* A dispatcher that is not idle works on a mutation; one that has a result
\* has drawn the event of its report.
DispatchersTyped ==
    /\ dispatcher \in [Dispatchers -> DispatcherState]
    /\ \A d \in Dispatchers :
          /\ dispatcher[d].pc # "idle" => dispatcher[d].id \in MutationIds
          /\ dispatcher[d].pc = "result" => dispatcher[d].event \in EventIds
                                            /\ dispatcher[d].outcome \in Outcomes

\* The dispatcher may still do something about the attempt: send it, or write
\* its result under an event that the ledger has not seen.
Holds(d) ==
    \/ dispatcher[d].pc = "claimed"
    \/ dispatcher[d].pc = "result" /\ ~ EventIdUsed(dispatcher[d].event)

InFlight(id) == \E r \in reservations : r.id = id /\ r.state \in {"dispatching", "unknown"}

OneHolder ==
    \A c, d \in Dispatchers :
        Holds(c) /\ Holds(d) /\ dispatcher[c].id = dispatcher[d].id => c = d

\* What a holder knows is true: an attempt it has not sent was not sent, and
\* neither was one it is about to report as not sent.
HolderKnows(d) ==
    LET times == sent[dispatcher[d].id] IN
    /\ InFlight(dispatcher[d].id)
    /\ dispatcher[d].pc = "claimed" => times = 0
    /\ dispatcher[d].pc = "result" =>
          /\ dispatcher[d].outcome \in {"acknowledged", "rejected"} => times = 1
          /\ dispatcher[d].outcome = "not_sent_failed" => times = 0

HoldersKnow == \A d \in Dispatchers : Holds(d) => HolderKnows(d)

SentIsReserved ==
    \A id \in MutationIds : sent[id] > 0 => \E r \in reservations : r.id = id

DispatchInv ==
    /\ DispatchersTyped
    /\ sent \in [MutationIds -> Nat]
    /\ OneHolder
    /\ HoldersKnow
    /\ SentIsReserved
    /\ AtMostOneTransport
    /\ StateTellsWhatWasSent

-----------------------------------------------------------------------------
(* The composition uses the store's methods.                               *)

LEMMA IdleTyped == Idle \in DispatcherState /\ Idle.pc = "idle"
  BY DEF Idle, DispatcherState

LEMMA TypedInit == DispatchInit => DispatchersTyped
  BY IdleTyped DEF DispatchInit, DispatchersTyped

LEMMA ClaimedTyped ==
    ASSUME NEW id \in MutationIds
    PROVE  LET new == [Idle EXCEPT !.pc = "claimed", !.id = id] IN
           new \in DispatcherState /\ new.pc = "claimed" /\ new.id = id
  BY DEF Idle, DispatcherState

\* A transport ends in a result, and the result agrees with what the broker got.
LEMMA TransportEffect ==
    ASSUME DispatchersTyped, NEW d \in Dispatchers, NEW e \in EventIds, Transport(d, e)
    PROVE  /\ dispatcher[d].pc = "claimed"
           /\ dispatcher' \in [Dispatchers -> DispatcherState]
           /\ dispatcher'[d].pc = "result" /\ dispatcher'[d].event = e
           /\ dispatcher'[d].id = dispatcher[d].id
           /\ \A c \in Dispatchers : c # d => dispatcher'[c] = dispatcher[c]
           /\ dispatcher'[d].outcome \in Outcomes
           /\ \E received \in {0, 1} :
                 /\ dispatcher'[d].outcome \in {"acknowledged", "rejected"} => received = 1
                 /\ dispatcher'[d].outcome = "not_sent_failed" => received = 0
                 /\ sent' = [sent EXCEPT ![dispatcher[d].id] = @ + received]
<1>1. dispatcher \in [Dispatchers -> DispatcherState] /\ dispatcher[d].pc = "claimed"
  BY DEF DispatchersTyped, Transport
<1>2. PICK outcome \in Outcomes, received \in {0, 1} :
         /\ outcome \in {"acknowledged", "rejected"} => received = 1
         /\ outcome = "not_sent_failed" => received = 0
         /\ sent' = [sent EXCEPT ![dispatcher[d].id] = @ + received]
         /\ dispatcher' = [dispatcher EXCEPT ![d].pc = "result",
                                             ![d].outcome = outcome, ![d].event = e]
  BY DEF Transport
<1>3. dispatcher' \in [Dispatchers -> DispatcherState]
  BY <1>1, <1>2 DEF DispatcherState
<1>4. /\ dispatcher'[d].pc = "result" /\ dispatcher'[d].event = e
      /\ dispatcher'[d].id = dispatcher[d].id /\ dispatcher'[d].outcome = outcome
      /\ \A c \in Dispatchers : c # d => dispatcher'[c] = dispatcher[c]
  BY <1>1, <1>2 DEF DispatcherState
<1> QED
  BY <1>1, <1>2, <1>3, <1>4

\* Every step keeps the memory of the dispatchers well formed.
LEMMA TypedStep ==
    ASSUME DispatchersTyped, TypeOK, [DispatchNext]_dispatchVars
    PROVE  DispatchersTyped'
<1>1. ASSUME UNCHANGED dispatcher PROVE DispatchersTyped'
  BY <1>1 DEF DispatchersTyped
<1>2. ASSUME NEW d \in Dispatchers, NEW r \in reservations, NEW e \in EventIds, Claim(d, r, e)
      PROVE  DispatchersTyped'
  <2>1. r.id \in MutationIds
    BY DEF TypeOK, ReservationRow
  <2>2. PICK new \in DispatcherState :
           /\ new.pc = "claimed" /\ new.id = r.id
           /\ dispatcher' = [dispatcher EXCEPT ![d] = new]
    BY <1>2, <2>1, ClaimedTyped DEF Claim
  <2> QED
    BY <2>1, <2>2 DEF DispatchersTyped
<1>3. ASSUME NEW d \in Dispatchers, NEW e \in EventIds, Transport(d, e)
      PROVE  DispatchersTyped'
  <2>1. dispatcher' \in [Dispatchers -> DispatcherState]
    BY <1>3, TransportEffect
  <2>2. /\ dispatcher'[d].id \in MutationIds /\ dispatcher'[d].pc = "result"
        /\ dispatcher'[d].event = e /\ dispatcher'[d].outcome \in Outcomes
    BY <1>3, TransportEffect DEF DispatchersTyped
  <2>3. \A c \in Dispatchers : c # d => dispatcher'[c] = dispatcher[c]
    BY <1>3, TransportEffect
  <2> QED
    BY <2>1, <2>2, <2>3 DEF DispatchersTyped
<1>4. ASSUME NEW d \in Dispatchers, Leave(d) PROVE DispatchersTyped'
  BY <1>4, IdleTyped DEF Leave, DispatchersTyped
<1> QED
  BY <1>1, <1>2, <1>3, <1>4
  DEF DispatchNext, dispatchVars, WithEvent, Prepare, Report, Recover, Retry, Invalidate

LEMMA TransitionIsNext ==
    ASSUME NEW r \in reservations, NEW e \in EventIds, NEW old, NEW new,
           TransitionReservation(r.id, old, new, e)
    PROVE  Next
<1>1. <<old, new>> \in AllowedTransitions
  BY DEF TransitionReservation
<1>2. \E change \in AllowedTransitions : TransitionReservation(r.id, change[1], change[2], e)
  <2> WITNESS <<old, new>> \in AllowedTransitions
  <2> QED
    OBVIOUS
<1> QED
  BY <1>2 DEF Next, Write

\* A step of the composition is a call of the store or leaves it alone.
LEMMA DispatchStepIsStoreStep ==
    ASSUME DispatchersTyped, [DispatchNext]_dispatchVars
    PROVE  [Next]_vars
<1>1. ASSUME NEW d \in Dispatchers, Report(d) PROVE Next
  <2>1. PICK r \in reservations : r.id = dispatcher[d].id
    BY <1>1 DEF Report, TransitionReservation
  <2> QED
    BY <1>1, <2>1, TransitionIsNext DEF Report, DispatchersTyped
<1>2. ASSUME NEW e \in EventIds, Prepare(e) PROVE Next
  BY <1>2 DEF Prepare, Next, Write
<1>3. ASSUME NEW d \in Dispatchers, NEW r \in reservations, NEW e \in EventIds,
             Claim(d, r, e) \/ Recover(r, e) \/ Retry(r, e) \/ Invalidate(r, e)
      PROVE  Next
  BY <1>3, TransitionIsNext DEF Claim, Recover, Retry, Invalidate
<1>4. ASSUME NEW r \in reservations, NEW e \in EventIds,
             Recover(r, e) \/ Retry(r, e) \/ Invalidate(r, e)
      PROVE  Next
  BY <1>4, TransitionIsNext DEF Recover, Retry, Invalidate
<1> QED
  BY <1>1, <1>2, <1>3, <1>4
  DEF DispatchNext, dispatchVars, WithEvent, Transport, Leave

\* Whatever dispatchers, recovery and operator do is a sequence of legal calls
\* of the store, so that all theorems about Spec hold of DispatchSpec.
THEOREM DispatchImplementsStore == DispatchSpec => Spec
<1>1. DispatchInit => Init /\ TypeOK /\ StoreConsistent /\ DispatchersTyped
  BY TypeInit, TypedInit DEF DispatchInit, Init, StoreConsistent
<1>2. TypeOK /\ DispatchersTyped /\ [DispatchNext]_dispatchVars
         => [Next]_vars /\ DispatchersTyped'
  BY DispatchStepIsStoreStep, TypedStep
<1>3. TypeOK /\ [Next]_vars => TypeOK'
  BY TypeStep
<1> QED
  BY <1>1, <1>2, <1>3, PTL DEF DispatchSpec, Spec

-----------------------------------------------------------------------------
(* What a call of the store does to reservations and to the used events.   *)

\* An event id is used once, and stays used.
LEMMA AppendUses ==
    ASSUME TypeOK, NEW f \in Fingerprints, NEW e, NEW type, NEW scan, NEW payload,
           AppendEvent(f, e, type, scan, payload)
    PROVE  /\ ~ EventIdUsed(e)
           /\ EventIdUsed(e)'
           /\ \A x : EventIdUsed(x) => EventIdUsed(x)'
<1> DEFINE a == ActionOf[f]
           ev == [id |-> e, type |-> type, fp |-> f, source |-> scan,
                  version |-> payload.version, mutation |-> payload.mutation,
                  old |-> payload.old, new |-> payload.new]
<1>1. a \in Actions /\ audit[a] \in Seq(Event) /\ audit \in [Actions -> Seq(Event)]
  BY ConstantsAssumption DEF TypeOK
<1>2. ~ EventIdUsed(e) /\ audit' = [audit EXCEPT ![a] = Append(@, ev)] /\ ev.id = e
  BY DEF AppendEvent
<1> HIDE DEF a, ev
<1>3. audit'[a] = Append(audit[a], ev) /\ \A b \in Actions : b # a => audit'[b] = audit[b]
  BY <1>1, <1>2
<1>4. /\ Len(audit[a]) + 1 \in DOMAIN audit'[a]
      /\ audit'[a][Len(audit[a]) + 1] = ev
      /\ \A i \in DOMAIN audit[a] : i \in DOMAIN audit'[a] /\ audit'[a][i] = audit[a][i]
  BY <1>1, <1>3
<1>5. EventIdUsed(e)'
  BY <1>1, <1>2, <1>4 DEF EventIdUsed
<1>6. ASSUME NEW x, EventIdUsed(x) PROVE EventIdUsed(x)'
  <2>1. PICK b \in Actions : \E i \in DOMAIN audit[b] : audit[b][i].id = x
    BY <1>6 DEF EventIdUsed
  <2>2. PICK i \in DOMAIN audit[b] : audit[b][i].id = x
    BY <2>1
  <2>3. i \in DOMAIN audit'[b] /\ audit'[b][i] = audit[b][i]
    BY <1>3, <1>4, <2>2
  <2> QED
    BY <2>2, <2>3 DEF EventIdUsed
<1> QED
  BY <1>2, <1>5, <1>6

\* A transition moves the one row of its mutation from the expected state.
LEMMA TransitionEffect ==
    ASSUME TypeOK, ReservationKeys, NEW id, NEW old, NEW new, NEW e,
           TransitionReservation(id, old, new, e)
    PROVE  /\ \E r \in reservations : r.id = id /\ r.state = old
           /\ \E q \in reservations' : q.id = id
           /\ \A q \in reservations' : q.id = id => q.state = new
           /\ \A q : q.id # id => (q \in reservations' <=> q \in reservations)
           /\ ~ EventIdUsed(e) /\ EventIdUsed(e)'
           /\ \A x : EventIdUsed(x) => EventIdUsed(x)'
<1>1. PICK r \in reservations, i \in intents :
         /\ r.id = id /\ r.state = old
         /\ reservations' = (reservations \ {r}) \cup {[r EXCEPT !.state = new]}
         /\ AppendEvent(r.fp, e, "idempotency.reservation_state_changed", i.source,
                        [NoEvent EXCEPT !.mutation = id, !.old = old, !.new = new])
  BY DEF TransitionReservation
<1> DEFINE moved == [r EXCEPT !.state = new]
<1>2. moved.id = id /\ moved.state = new /\ r.fp \in Fingerprints
  BY <1>1 DEF TypeOK, ReservationRow
<1> HIDE DEF moved
<1>3. reservations' = (reservations \ {r}) \cup {moved}
  BY <1>1 DEF moved
<1>4. /\ ~ EventIdUsed(e) /\ EventIdUsed(e)'
      /\ \A x : EventIdUsed(x) => EventIdUsed(x)'
  BY <1>1, <1>2, AppendUses
<1>5. \A q \in reservations : q.id = id => q = r
  BY <1>1 DEF ReservationKeys
<1> QED
  BY <1>1, <1>2, <1>3, <1>4, <1>5

\* Recording adds no reservation; reserving adds one of a new mutation.
LEMMA PrepareEffect ==
    ASSUME TypeOK, NEW e \in EventIds, Prepare(e)
    PROVE  /\ reservations \subseteq reservations'
           /\ \A q \in reservations' \ reservations :
                 q.state = "reserved" /\ \A r \in reservations : r.id # q.id
           /\ \A x : EventIdUsed(x) => EventIdUsed(x)'
<1>1. ASSUME NEW f \in Fingerprints, NEW t \in Times, NEW scan \in Scans,
             RecordIntent(f, t, scan, e)
      PROVE  UNCHANGED reservations /\ \A x : EventIdUsed(x) => EventIdUsed(x)'
  <2>1. UNCHANGED reservations
    BY <1>1 DEF RecordIntent, CreateIntent, ReuseIntent, SupersedeIntent
  <2>2. \E type, payload : AppendEvent(f, e, type, scan, payload)
    BY <1>1 DEF RecordIntent, CreateIntent, ReuseIntent, SupersedeIntent
  <2> QED
    BY <2>1, <2>2, AppendUses
<1>2. ASSUME NEW f \in Fingerprints, NEW t \in Times, NEW l \in Lineages,
             NEW id \in IdsFor(f, l), ReserveMutation(f, t, id, l, e)
      PROVE  /\ reservations \subseteq reservations'
             /\ \A q \in reservations' \ reservations :
                   q.state = "reserved" /\ \A r \in reservations : r.id # q.id
             /\ \A x : EventIdUsed(x) => EventIdUsed(x)'
  <2>1. \A r \in reservations : r.id # id
    BY <1>2 DEF ReserveMutation
  <2>2. reservations' = reservations \cup
           {[id |-> id, fp |-> f, lineage |-> l, state |-> "reserved"]}
    BY <1>2 DEF ReserveMutation
  <2>3. \E type, scan, payload : AppendEvent(f, e, type, scan, payload)
    BY <1>2 DEF ReserveMutation
  <2>4. \A x : EventIdUsed(x) => EventIdUsed(x)'
    BY <2>3, AppendUses
  <2> QED
    BY <2>1, <2>2, <2>4
<1> QED
  BY <1>1, <1>2 DEF Prepare

-----------------------------------------------------------------------------
(* The invariant.                                                          *)

LEMMA InitInv == DispatchInit => DispatchInv
<1> SUFFICES ASSUME DispatchInit PROVE DispatchInv
  OBVIOUS
<1>1. \A d \in Dispatchers : dispatcher[d].pc = "idle"
  BY IdleTyped DEF DispatchInit
<1>2. \A id \in MutationIds : sent[id] = 0
  BY DEF DispatchInit
<1>3. reservations = {} /\ sent \in [MutationIds -> Nat]
  BY DEF DispatchInit, Init
<1> QED
  BY <1>1, <1>2, <1>3, TypedInit
  DEF DispatchInv, OneHolder, HoldersKnow, Holds, SentIsReserved, AtMostOneTransport,
      StateTellsWhatWasSent

\* A step that neither touches the dispatchers nor the broker, loses no
\* reservation and forgets no event: nobody becomes a holder by it.
LEMMA QuietStep ==
    ASSUME DispatchInv, DispatchersTyped', UNCHANGED <<dispatcher, sent>>,
           \A x : EventIdUsed(x) => EventIdUsed(x)',
           \A r \in reservations : \E q \in reservations' : q.id = r.id,
           \A d \in Dispatchers : Holds(d) /\ Holds(d)' => InFlight(dispatcher[d].id)',
           StateTellsWhatWasSent'
    PROVE  DispatchInv'
<1>1. \A d \in Dispatchers : Holds(d)' => Holds(d)
  BY DEF Holds
<1>2. OneHolder'
  BY <1>1 DEF DispatchInv, OneHolder
<1>3. HoldersKnow'
  BY <1>1 DEF DispatchInv, HoldersKnow, HolderKnows
<1>4. SentIsReserved'
  BY DEF DispatchInv, SentIsReserved
<1>5. AtMostOneTransport'
  BY DEF DispatchInv, AtMostOneTransport
<1> QED
  BY <1>2, <1>3, <1>4, <1>5 DEF DispatchInv

\* New reservations are reserved, and their mutations were never sent.
LEMMA PrepareKeeps ==
    ASSUME DispatchInv, DispatchersTyped', TypeOK, TypeOK', NEW e \in EventIds, Prepare(e)
    PROVE  DispatchInv'
<1>1. UNCHANGED <<dispatcher, sent>>
  BY DEF Prepare
<1>2. \A d \in Dispatchers : InFlight(dispatcher[d].id) => InFlight(dispatcher[d].id)'
  BY <1>1, PrepareEffect DEF InFlight
<1>3. \A d \in Dispatchers : Holds(d) => InFlight(dispatcher[d].id)
  BY DEF DispatchInv, HoldersKnow, HolderKnows
<1>4. StateTellsWhatWasSent'
  <2> SUFFICES ASSUME NEW q \in reservations', q \notin reservations
               PROVE  q.state = "reserved" /\ sent[q.id] = 0
    BY <1>1 DEF DispatchInv, StateTellsWhatWasSent
  <2>1. q.id \in MutationIds /\ q.state = "reserved"
    BY PrepareEffect DEF TypeOK, ReservationRow
  <2>2. sent[q.id] \in Nat /\ ~ (sent[q.id] > 0)
    BY <2>1, PrepareEffect DEF DispatchInv, SentIsReserved
  <2> QED
    BY <2>1, <2>2
<1> QED
  BY <1>1, <1>2, <1>3, <1>4, PrepareEffect, QuietStep

\* Moves that need no dispatcher: an attempt in flight becomes unknown, one
\* proved not sent is reserved again, a reserved one is invalidated.
LEMMA MoveKeeps ==
    ASSUME DispatchInv, DispatchersTyped', TypeOK, TypeOK', ReservationKeys,
           NEW r \in reservations, NEW e \in EventIds,
           Recover(r, e) \/ Retry(r, e) \/ Invalidate(r, e)
    PROVE  DispatchInv'
<1>1. UNCHANGED <<dispatcher, sent>>
  BY DEF Recover, Retry, Invalidate
<1>2. PICK old \in {"dispatching", "not_sent_failed", "reserved"},
           new \in {"unknown", "reserved", "invalidated"} :
         /\ TransitionReservation(r.id, old, new, e)
         /\ old = "dispatching" <=> new = "unknown"
  BY DEF Recover, Retry, Invalidate
<1>3. PICK p \in reservations : p.id = r.id /\ p.state = old
  BY <1>2, TransitionEffect
<1>4. /\ \E q \in reservations' : q.id = r.id
      /\ \A q \in reservations' : q.id = r.id => q.state = new
      /\ \A q : q.id # r.id => (q \in reservations' <=> q \in reservations)
      /\ \A x : EventIdUsed(x) => EventIdUsed(x)'
  BY <1>2, TransitionEffect
<1>5. \A s \in reservations : \E q \in reservations' : q.id = s.id
  BY <1>4
<1>6. \A d \in Dispatchers : InFlight(dispatcher[d].id) => InFlight(dispatcher[d].id)'
  <2> SUFFICES ASSUME NEW d \in Dispatchers, NEW q \in reservations, q.id = dispatcher[d].id,
                      q.state \in {"dispatching", "unknown"}
               PROVE  InFlight(dispatcher[d].id)'
    BY DEF InFlight
  <2>1. CASE q.id = r.id
    <3>1. q.state = old
      BY <1>3, <2>1 DEF ReservationKeys
    <3>2. new = "unknown"
      BY <1>2, <3>1
    <3> QED
      BY <1>1, <1>4, <2>1, <3>2 DEF InFlight
  <2>2. CASE q.id # r.id
    BY <1>1, <1>4, <2>2 DEF InFlight
  <2> QED
    BY <2>1, <2>2
<1>7. \A d \in Dispatchers : Holds(d) => InFlight(dispatcher[d].id)
  BY DEF DispatchInv, HoldersKnow, HolderKnows
<1>8. StateTellsWhatWasSent'
  <2> SUFFICES ASSUME NEW q \in reservations'
               PROVE  /\ q.state \in {"reserved", "invalidated", "not_sent_failed"} => sent[q.id] = 0
                      /\ q.state \in {"acknowledged", "rejected"} => sent[q.id] = 1
    BY <1>1 DEF StateTellsWhatWasSent
  <2>1. CASE q.id = r.id
    <3>1. q.state = new
      BY <1>4, <2>1
    <3>2. new # "unknown" => sent[p.id] = 0
      BY <1>2, <1>3 DEF DispatchInv, StateTellsWhatWasSent
    <3> QED
      BY <1>3, <2>1, <3>1, <3>2
  <2>2. CASE q.id # r.id
    BY <1>4, <2>2 DEF DispatchInv, StateTellsWhatWasSent
  <2> QED
    BY <2>1, <2>2
<1> QED
  BY <1>1, <1>4, <1>5, <1>6, <1>7, <1>8, QuietStep

\* The report of a holder says what happened, and ends the attempt.
LEMMA ReportKeeps ==
    ASSUME DispatchInv, DispatchersTyped', TypeOK, TypeOK', ReservationKeys,
           NEW d \in Dispatchers, Report(d)
    PROVE  DispatchInv'
<1> DEFINE id == dispatcher[d].id
           outcome == dispatcher[d].outcome
           event == dispatcher[d].event
<1>1. /\ UNCHANGED <<dispatcher, sent>> /\ dispatcher[d].pc = "result"
      /\ TransitionReservation(id, "dispatching", outcome, event)
  BY DEF Report
<1>2. id \in MutationIds /\ outcome \in Outcomes
  BY <1>1 DEF DispatchInv, DispatchersTyped
<1>3. Holds(d) /\ ~ Holds(d)'
  BY <1>1, TransitionEffect DEF Holds
<1>4. /\ outcome \in {"acknowledged", "rejected"} => sent[id] = 1
      /\ outcome = "not_sent_failed" => sent[id] = 0
  BY <1>1, <1>3 DEF DispatchInv, HoldersKnow, HolderKnows
<1> HIDE DEF id, outcome, event
<1>5. /\ \E q \in reservations' : q.id = id
      /\ \A q \in reservations' : q.id = id => q.state = outcome
      /\ \A q : q.id # id => (q \in reservations' <=> q \in reservations)
      /\ \A x : EventIdUsed(x) => EventIdUsed(x)'
  BY <1>1, TransitionEffect
<1>6. \A s \in reservations : \E q \in reservations' : q.id = s.id
  BY <1>5
<1>7. ASSUME NEW c \in Dispatchers, Holds(c), Holds(c)' PROVE InFlight(dispatcher[c].id)'
  <2>1. dispatcher[c].id # id
    BY <1>3, <1>7 DEF DispatchInv, OneHolder, id
  <2>2. PICK q \in reservations : q.id = dispatcher[c].id /\ q.state \in {"dispatching", "unknown"}
    BY <1>7 DEF DispatchInv, HoldersKnow, HolderKnows, InFlight
  <2> QED
    BY <1>1, <1>5, <2>1, <2>2 DEF InFlight
<1>8. StateTellsWhatWasSent'
  <2> SUFFICES ASSUME NEW q \in reservations'
               PROVE  /\ q.state \in {"reserved", "invalidated", "not_sent_failed"} => sent[q.id] = 0
                      /\ q.state \in {"acknowledged", "rejected"} => sent[q.id] = 1
    BY <1>1 DEF StateTellsWhatWasSent
  <2>1. CASE q.id = id
    BY <1>2, <1>4, <1>5, <2>1 DEF Outcomes
  <2>2. CASE q.id # id
    BY <1>5, <2>2 DEF DispatchInv, StateTellsWhatWasSent
  <2> QED
    BY <2>1, <2>2
<1> QED
  BY <1>1, <1>5, <1>6, <1>7, <1>8, QuietStep

\* A claim succeeds only where nobody holds the mutation and it was not sent.
LEMMA ClaimKeeps ==
    ASSUME DispatchInv, DispatchersTyped', TypeOK, TypeOK', ReservationKeys,
           NEW d \in Dispatchers, NEW r \in reservations, NEW e \in EventIds, Claim(d, r, e)
    PROVE  DispatchInv'
<1>1. r.id \in MutationIds
  BY DEF TypeOK, ReservationRow
<1>2. /\ dispatcher'[d].pc = "claimed" /\ dispatcher'[d].id = r.id
      /\ \A c \in Dispatchers : c # d => dispatcher'[c] = dispatcher[c]
  <2>1. PICK new \in DispatcherState :
           /\ new.pc = "claimed" /\ new.id = r.id
           /\ dispatcher' = [dispatcher EXCEPT ![d] = new]
    BY <1>1, ClaimedTyped DEF Claim
  <2> QED
    BY <2>1 DEF DispatchInv, DispatchersTyped
<1>3. PICK p \in reservations : p.id = r.id /\ p.state = "reserved"
  BY TransitionEffect DEF Claim
<1>4. /\ \E q \in reservations' : q.id = r.id
      /\ \A q \in reservations' : q.id = r.id => q.state = "dispatching"
      /\ \A q : q.id # r.id => (q \in reservations' <=> q \in reservations)
      /\ \A x : EventIdUsed(x) => EventIdUsed(x)'
  BY TransitionEffect DEF Claim
<1>5. sent' = sent /\ sent[r.id] = 0
  BY <1>3 DEF Claim, DispatchInv, StateTellsWhatWasSent
<1>6. ASSUME NEW c \in Dispatchers, Holds(c)', c # d
      PROVE  Holds(c) /\ dispatcher[c].id # r.id
  <2>1. Holds(c)
    BY <1>2, <1>4, <1>6 DEF Holds
  <2>2. InFlight(dispatcher[c].id)
    BY <2>1 DEF DispatchInv, HoldersKnow, HolderKnows
  <2> QED
    BY <1>3, <2>1, <2>2 DEF InFlight, ReservationKeys
<1>7. OneHolder'
  BY <1>2, <1>6 DEF DispatchInv, OneHolder
<1>8. HoldersKnow'
  <2> SUFFICES ASSUME NEW c \in Dispatchers, Holds(c)' PROVE HolderKnows(c)'
    BY DEF HoldersKnow
  <2>1. CASE c = d
    BY <1>2, <1>4, <1>5, <2>1 DEF HolderKnows, InFlight
  <2>2. CASE c # d
    <3>1. HolderKnows(c) /\ dispatcher[c].id # r.id /\ dispatcher'[c] = dispatcher[c]
      BY <1>2, <1>6, <2>2 DEF DispatchInv, HoldersKnow
    <3>2. InFlight(dispatcher[c].id)'
      BY <1>4, <3>1 DEF HolderKnows, InFlight
    <3> QED
      BY <1>5, <3>1, <3>2 DEF HolderKnows
  <2> QED
    BY <2>1, <2>2
<1>9. SentIsReserved'
  <2> SUFFICES ASSUME NEW id \in MutationIds, sent[id] > 0
               PROVE  \E q \in reservations' : q.id = id
    BY <1>5 DEF SentIsReserved
  <2>1. PICK q \in reservations : q.id = id
    BY DEF DispatchInv, SentIsReserved
  <2> QED
    BY <1>4, <2>1
<1>10. StateTellsWhatWasSent' /\ AtMostOneTransport'
  BY <1>4, <1>5 DEF DispatchInv, StateTellsWhatWasSent, AtMostOneTransport
<1> QED
  BY <1>5, <1>7, <1>8, <1>9, <1>10 DEF DispatchInv

\* A holder sends an attempt that was not sent, whose row is in flight.
LEMMA TransportKeeps ==
    ASSUME DispatchInv, DispatchersTyped', ReservationKeys,
           NEW d \in Dispatchers, NEW e \in EventIds, Transport(d, e)
    PROVE  DispatchInv'
<1> DEFINE id == dispatcher[d].id
<1>1. UNCHANGED <<reservations, audit>>
  BY DEF Transport, vars
<1>2. /\ dispatcher[d].pc = "claimed" /\ dispatcher'[d].id = id
      /\ dispatcher'[d].pc = "result"
      /\ \A c \in Dispatchers : c # d => dispatcher'[c] = dispatcher[c]
  BY TransportEffect DEF DispatchInv
<1>3. PICK received \in {0, 1} :
         /\ dispatcher'[d].outcome \in {"acknowledged", "rejected"} => received = 1
         /\ dispatcher'[d].outcome = "not_sent_failed" => received = 0
         /\ sent' = [sent EXCEPT ![id] = @ + received]
  BY TransportEffect DEF DispatchInv
<1>4. Holds(d) /\ id \in MutationIds
  BY <1>2 DEF Holds, DispatchInv, DispatchersTyped
<1>5. sent[id] = 0 /\ InFlight(id)
  BY <1>2, <1>4 DEF DispatchInv, HoldersKnow, HolderKnows
<1> HIDE DEF id
<1>6. sent'[id] = received /\ \A x \in MutationIds : x # id => sent'[x] = sent[x]
  BY <1>3, <1>4, <1>5 DEF DispatchInv
<1>7. sent' \in [MutationIds -> Nat]
  BY <1>3, <1>4, <1>5 DEF DispatchInv
<1>8. \A c \in Dispatchers : Holds(c)' => Holds(c) /\ dispatcher'[c].id = dispatcher[c].id
  BY <1>1, <1>2, <1>4 DEF Holds, EventIdUsed, id
<1>9. OneHolder'
  BY <1>8 DEF DispatchInv, OneHolder
<1>10. HoldersKnow'
  <2> SUFFICES ASSUME NEW c \in Dispatchers, Holds(c)' PROVE HolderKnows(c)'
    BY DEF HoldersKnow
  <2>1. CASE c = d
    BY <1>1, <1>2, <1>3, <1>5, <1>6, <2>1 DEF HolderKnows, InFlight
  <2>2. CASE c # d
    <3>1. dispatcher[c].id # id /\ dispatcher[c].id \in MutationIds
      BY <1>4, <1>8, <2>2 DEF DispatchInv, OneHolder, DispatchersTyped, Holds, id
    <3>2. HolderKnows(c) /\ dispatcher'[c] = dispatcher[c]
      BY <1>2, <1>8, <2>2 DEF DispatchInv, HoldersKnow
    <3> QED
      BY <1>1, <1>6, <3>1, <3>2 DEF HolderKnows, InFlight
  <2> QED
    BY <2>1, <2>2
<1>11. SentIsReserved'
  BY <1>1, <1>5, <1>6 DEF DispatchInv, SentIsReserved, InFlight
<1>12. AtMostOneTransport'
  BY <1>6 DEF DispatchInv, AtMostOneTransport
<1>13. StateTellsWhatWasSent'
  <2> SUFFICES ASSUME NEW q \in reservations
               PROVE  /\ q.state \in {"reserved", "invalidated", "not_sent_failed"} => sent'[q.id] = 0
                      /\ q.state \in {"acknowledged", "rejected"} => sent'[q.id] = 1
    BY <1>1 DEF StateTellsWhatWasSent
  <2>1. CASE q.id = id
    BY <1>5, <2>1 DEF InFlight, ReservationKeys
  <2>2. CASE q.id # id
    BY <1>3, <2>2 DEF DispatchInv, StateTellsWhatWasSent
  <2> QED
    BY <2>1, <2>2
<1> QED
  BY <1>7, <1>9, <1>10, <1>11, <1>12, <1>13 DEF DispatchInv

\* A dispatcher that leaves or crashes holds nothing any more.
LEMMA LeaveKeeps ==
    ASSUME DispatchInv, DispatchersTyped', NEW d \in Dispatchers, Leave(d)
    PROVE  DispatchInv'
<1>1. UNCHANGED <<reservations, audit, sent>>
  BY DEF Leave, vars
<1>2. dispatcher'[d].pc = "idle" /\ \A c \in Dispatchers : c # d => dispatcher'[c] = dispatcher[c]
  BY IdleTyped DEF Leave, DispatchInv, DispatchersTyped
<1>3. \A c \in Dispatchers : Holds(c)' => Holds(c) /\ dispatcher'[c] = dispatcher[c]
  BY <1>1, <1>2 DEF Holds, EventIdUsed
<1> QED
  BY <1>1, <1>3
  DEF DispatchInv, OneHolder, HoldersKnow, HolderKnows, InFlight, SentIsReserved,
      AtMostOneTransport, StateTellsWhatWasSent

LEMMA DispatchStep ==
    ASSUME DispatchInv, TypeOK, StoreConsistent, [DispatchNext]_dispatchVars
    PROVE  DispatchInv'
<1>1. DispatchersTyped' /\ TypeOK' /\ ReservationKeys
  BY TypedStep, DispatchStepIsStoreStep, TypeStep, ConsistentParts DEF DispatchInv
<1>2. ASSUME NEW e \in EventIds, Prepare(e) PROVE DispatchInv'
  BY <1>1, <1>2, PrepareKeeps
<1>3. ASSUME NEW d \in Dispatchers, NEW e \in EventIds, Transport(d, e) PROVE DispatchInv'
  BY <1>1, <1>3, TransportKeeps
<1>4. ASSUME NEW d \in Dispatchers, NEW r \in reservations, NEW e \in EventIds, Claim(d, r, e)
      PROVE  DispatchInv'
  BY <1>1, <1>4, ClaimKeeps
<1>5. ASSUME NEW r \in reservations, NEW e \in EventIds,
             Recover(r, e) \/ Retry(r, e) \/ Invalidate(r, e)
      PROVE  DispatchInv'
  BY <1>1, <1>5, MoveKeeps
<1>6. ASSUME NEW d \in Dispatchers, Report(d) PROVE DispatchInv'
  BY <1>1, <1>6, ReportKeeps
<1>7. ASSUME NEW d \in Dispatchers, Leave(d) PROVE DispatchInv'
  BY <1>1, <1>7, LeaveKeeps
<1>8. CASE UNCHANGED dispatchVars
  BY <1>8
  DEF dispatchVars, vars, DispatchInv, DispatchersTyped, OneHolder, HoldersKnow, HolderKnows,
      Holds, EventIdUsed, InFlight, SentIsReserved, AtMostOneTransport, StateTellsWhatWasSent
<1> QED
  BY <1>2, <1>3, <1>4, <1>5, <1>6, <1>7, <1>8 DEF DispatchNext, WithEvent

\* The invariant holds in every reachable state, next to those of the store.
LEMMA DispatchInvariant == DispatchSpec => [](DispatchInv /\ TypeOK /\ StoreConsistent)
<1>1. DispatchInv /\ TypeOK /\ StoreConsistent /\ [DispatchNext]_dispatchVars => DispatchInv'
  BY DispatchStep
<1> QED
  BY InitInv, <1>1, DispatchImplementsStore, SpecTypeOK, SpecStoreConsistent, PTL
  DEF DispatchSpec

\* Tables, memories of the dispatchers and the count of requests have their types.
THEOREM SpecDispatchTypeOK == DispatchSpec => []DispatchTypeOK
<1>1. DispatchInv /\ TypeOK => DispatchTypeOK
  BY DEF DispatchInv, DispatchersTyped, DispatchTypeOK
<1> QED
  BY <1>1, DispatchInvariant, PTL

\* Whatever is retried, recovered or reported twice, by any number of
\* dispatchers, no mutation reaches the broker twice (transition_reservation
\* compares the expected state, and its event_id is unique).
THEOREM SpecAtMostOneTransport == DispatchSpec => []AtMostOneTransport
<1>1. DispatchInv => AtMostOneTransport
  BY DEF DispatchInv
<1> QED
  BY <1>1, DispatchInvariant, PTL

\* The state of a reservation never claims less than what happened.
THEOREM SpecStateTellsWhatWasSent == DispatchSpec => []StateTellsWhatWasSent
<1>1. DispatchInv => StateTellsWhatWasSent
  BY DEF DispatchInv
<1> QED
  BY <1>1, DispatchInvariant, PTL

\* What was sent belongs to the revision that is selected for good: the
\* reservation is there, and the store binds it to the reserved selection.
THEOREM SpecSentRevisionStaysSelected == DispatchSpec => []SentRevisionStaysSelected
<1>1. DispatchInv /\ StoreConsistent => SentRevisionStaysSelected
  <2> SUFFICES ASSUME DispatchInv, StoreConsistent, NEW id \in MutationIds, sent[id] > 0
               PROVE  \E r \in reservations, row \in selections :
                         r.id = id /\ row.action = id.action /\ row.fp = r.fp /\ row.reserved
    BY DEF SentRevisionStaysSelected
  <2>1. PICK r \in reservations : r.id = id
    BY DEF DispatchInv, SentIsReserved
  <2>2. ReservationBound(r)
    BY DEF StoreConsistent
  <2> QED
    BY <2>1, <2>2 DEF ReservationBound
<1> QED
  BY <1>1, DispatchInvariant, PTL
=============================================================================
