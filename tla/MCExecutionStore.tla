-------------------------- MODULE MCExecutionStore --------------------------
(***************************************************************************)
(* Small instances of ExecutionStore: two revisions of one action and one  *)
(* of a second action, whose submit keys truncate to the same clOrdId.     *)
(***************************************************************************)
EXTENDS ExecutionStore, FiniteSets, TLC

CONSTANTS a1, a2, f1, f2, g1, lev, c1

MCActionOf == f1 :> a1 @@ f2 :> a1 @@ g1 :> a2
MCLeverageOf == [f \in Fingerprints |-> lev]
MCClientIdOf == [a \in Actions |-> c1]

\* The store only asks whether an event_id was used before, so it is enough
\* to hand the ids out in order; a reused one is refused and changes nothing.
EventsWritten == Cardinality({<<a, i>> \in Actions \X EventIds : i \in DOMAIN audit[a]})

MCNext ==
    \/ \E e \in EventIds : e = EventsWritten + 1 /\ Write(e)
    \/ \E r \in Readers : Read(r)

MCSpec == Init /\ [][MCNext]_vars
=============================================================================
