-------------------------- MODULE ExecutionDispatch --------------------------
(***************************************************************************)
(* The execution store together with the processes its lifecycle was made  *)
(* for: dispatchers that claim a reserved mutation, hand it to the broker, *)
(* and write the result back.  No dispatcher exists in the repository yet  *)
(* (the store is the only part built); the processes here use the store's  *)
(* methods the way its state names and docs/execution-roadmap.md lay down: *)
(* claim before transport, report the typed result, retry only what was    *)
(* proved not sent, classify an in-flight attempt as unknown on restart.   *)
(* A dispatcher may crash or hang at any point, several may run at once,   *)
(* a recovery may take a hung one for dead, and a report whose answer was  *)
(* lost is called again with the same event_id.                            *)
(***************************************************************************)
EXTENDS ExecutionStore

CONSTANT Dispatchers

VARIABLES
    dispatcher,      \* what each dispatcher process holds in memory
    sent             \* how often the broker received each mutation

dispatchVars == <<vars, dispatcher, sent>>

Idle == [pc |-> "idle", id |-> None, outcome |-> None, event |-> None]

Outcomes == {"acknowledged", "rejected", "not_sent_failed", "unknown"}

DispatcherState ==
    [pc : {"idle", "claimed", "result"}, id : MutationIds \cup {None},
     outcome : Outcomes \cup {None}, event : EventIds \cup {None}]

\* Callers draw event ids from one generator, so a fresh one is neither in
\* the ledger nor held for a report that has yet to be written.
Fresh(e) == ~ EventIdUsed(e) /\ \A d \in Dispatchers : dispatcher[d].event # e

-----------------------------------------------------------------------------

Claim(d, r, e) ==
    /\ dispatcher[d].pc = "idle"
    /\ TransitionReservation(r.id, "reserved", "dispatching", e)
    /\ dispatcher' = [dispatcher EXCEPT ![d] = [Idle EXCEPT !.pc = "claimed", !.id = r.id]]
    /\ UNCHANGED sent

\* The broker call: an acknowledged or rejected request was received, one
\* proved not sent was not, and an ambiguous one may have been.
Transport(d, e) ==
    /\ dispatcher[d].pc = "claimed"
    /\ \E outcome \in Outcomes, received \in {0, 1} :
          /\ outcome \in {"acknowledged", "rejected"} => received = 1
          /\ outcome = "not_sent_failed" => received = 0
          /\ sent' = [sent EXCEPT ![dispatcher[d].id] = @ + received]
          /\ dispatcher' = [dispatcher EXCEPT ![d].pc = "result",
                                              ![d].outcome = outcome, ![d].event = e]
    /\ UNCHANGED vars

\* The result write; repeated under the same event_id while its answer is
\* not known.
Report(d) ==
    /\ dispatcher[d].pc = "result"
    /\ TransitionReservation(dispatcher[d].id, "dispatching",
                             dispatcher[d].outcome, dispatcher[d].event)
    /\ UNCHANGED <<dispatcher, sent>>

\* The dispatcher learns that its report was written or refused, or crashes.
Leave(d) ==
    /\ dispatcher[d].pc # "idle"
    /\ dispatcher' = [dispatcher EXCEPT ![d] = Idle]
    /\ UNCHANGED <<vars, sent>>

\* Restart: an attempt in flight without a result is unknown.
Recover(r, e) ==
    /\ TransitionReservation(r.id, "dispatching", "unknown", e)
    /\ UNCHANGED <<dispatcher, sent>>

Retry(r, e) ==
    /\ TransitionReservation(r.id, "not_sent_failed", "reserved", e)
    /\ UNCHANGED <<dispatcher, sent>>

Invalidate(r, e) ==
    /\ TransitionReservation(r.id, "reserved", "invalidated", e)
    /\ UNCHANGED <<dispatcher, sent>>

Prepare(e) ==
    /\ \/ \E f \in Fingerprints, t \in Times, scan \in Scans : RecordIntent(f, t, scan, e)
       \/ \E f \in Fingerprints, t \in Times, l \in Lineages :
             \E id \in IdsFor(f, l) : ReserveMutation(f, t, id, l, e)
    /\ UNCHANGED <<dispatcher, sent>>

-----------------------------------------------------------------------------

DispatchInit ==
    /\ Init
    /\ dispatcher = [d \in Dispatchers |-> Idle]
    /\ sent = [id \in MutationIds |-> 0]

WithEvent(e) ==
    \/ Prepare(e)
    \/ \E d \in Dispatchers : Transport(d, e)
    \/ \E r \in reservations :
          \/ \E d \in Dispatchers : Claim(d, r, e)
          \/ Recover(r, e)
          \/ Retry(r, e)
          \/ Invalidate(r, e)

DispatchNext ==
    \/ \E e \in EventIds : Fresh(e) /\ WithEvent(e)
    \/ \E d \in Dispatchers : Report(d) \/ Leave(d)

DispatchSpec == DispatchInit /\ [][DispatchNext]_dispatchVars

-----------------------------------------------------------------------------
(* Properties                                                              *)

DispatchTypeOK ==
    /\ TypeOK
    /\ dispatcher \in [Dispatchers -> DispatcherState]
    /\ sent \in [MutationIds -> Nat]

\* One reservation key reaches the broker at most once, whatever is retried,
\* recovered or reported twice: the compare-and-swap on expected_state and
\* the unique event_id of transition_reservation together keep the late
\* report of an old attempt from reopening a newer one.
AtMostOneTransport == \A id \in MutationIds : sent[id] <= 1

\* The persisted state never claims less than happened: a mutation that may
\* still be sent, was invalidated or proved unsent has not reached the
\* broker, and one recorded as acknowledged or rejected has.
StateTellsWhatWasSent ==
    \A r \in reservations :
        /\ r.state \in {"reserved", "invalidated", "not_sent_failed"} => sent[r.id] = 0
        /\ r.state \in {"acknowledged", "rejected"} => sent[r.id] = 1

\* What reached the broker belongs to the revision that is selected, now and
\* for good, so no order of a superseded revision is ever sent.
SentRevisionStaysSelected ==
    \A id \in MutationIds :
        sent[id] > 0 =>
            \E r \in reservations, row \in selections :
                r.id = id /\ row.action = id.action /\ row.fp = r.fp /\ row.reserved
=============================================================================
