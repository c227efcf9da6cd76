------------------------- MODULE MCExecutionDispatch -------------------------
(***************************************************************************)
(* A small instance of ExecutionDispatch: one action with two revisions,   *)
(* two dispatchers and enough events for a retry after a proved no-send.   *)
(***************************************************************************)
EXTENDS ExecutionDispatch, FiniteSets, TLC

CONSTANTS a1, f1, f2, lev, c1

MCActionOf == [f \in Fingerprints |-> a1]
MCLeverageOf == [f \in Fingerprints |-> lev]
MCClientIdOf == [a \in Actions |-> c1]

\* Which fresh id a caller draws makes no difference: take the first.
MCNext ==
    \/ \E e \in EventIds :
          /\ Fresh(e)
          /\ \A other \in EventIds : other < e => ~ Fresh(other)
          /\ WithEvent(e)
    \/ \E d \in Dispatchers : Report(d) \/ Leave(d)

MCSpec == DispatchInit /\ [][MCNext]_dispatchVars

Symmetry == Permutations(Dispatchers)
=============================================================================
