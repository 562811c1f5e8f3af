----------------------------- MODULE MCTransfers -----------------------------
(* Instances of Transfers for TLC.                                         *)
EXTENDS Transfers, TLC

(* No step and no invariant tells one thread from another. *)
Symmetry == Permutations(Threads)
=============================================================================
