--------------------------- MODULE MCObservationLog ---------------------------
(***************************************************************************)
(* A small instance of ObservationLog: two processes, three cycles.        *)
(***************************************************************************)
EXTENDS ObservationLog, TLC

Symmetry == Permutations(Writers) \cup Permutations(Cycles)
=============================================================================
