----------------------------- MODULE ActionFence -----------------------------
(***************************************************************************)
(* What the execution store promises of a business action, with no tables, *)
(* transactions or audit: a register that holds one intent revision, whose *)
(* value may be replaced, each time under a higher version, until a broker *)
(* mutation is reserved, and never afterwards.  ExecutionStore implements  *)
(* it (the selection fence of record_intent and reserve_mutation).         *)
(***************************************************************************)
EXTENDS Naturals

CONSTANTS Actions, Fingerprints, ActionOf, None

VARIABLES choice, version, locked

fenceVars == <<choice, version, locked>>

FenceInit ==
    /\ choice = [a \in Actions |-> None]
    /\ version = [a \in Actions |-> 0]
    /\ locked = [a \in Actions |-> FALSE]

\* A revision is selected for the first time, or takes another one's place.
Select(f) ==
    LET a == ActionOf[f] IN
    /\ ~ locked[a]
    /\ choice[a] # f
    /\ choice' = [choice EXCEPT ![a] = f]
    /\ version' = [version EXCEPT ![a] = @ + 1]
    /\ UNCHANGED locked

\* The first mutation reservation fixes the selected revision for good.
Lock(a) ==
    /\ choice[a] # None
    /\ ~ locked[a]
    /\ locked' = [locked EXCEPT ![a] = TRUE]
    /\ UNCHANGED <<choice, version>>

FenceNext ==
    \/ \E f \in Fingerprints : Select(f)
    \/ \E a \in Actions : Lock(a)

FenceSpec == FenceInit /\ [][FenceNext]_fenceVars
=============================================================================
