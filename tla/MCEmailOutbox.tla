----------------------------- MODULE MCEmailOutbox -----------------------------
(***************************************************************************)
(* A small instance of EmailOutbox: two senders, two rows.                 *)
(***************************************************************************)
EXTENDS EmailOutbox, TLC

Symmetry == Permutations(Senders)
=============================================================================
