---------------------------- MODULE MCRoleLookup ----------------------------
(* Instances of RoleLookup for TLC.                                        *)
EXTENDS RoleLookup, TLC

(* No step and no invariant tells one thread from another. *)
Symmetry == Permutations(Threads)
=============================================================================
