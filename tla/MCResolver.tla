----------------------------- MODULE MCResolver -----------------------------
(* Instances of ResolverHistory for TLC: the directory d1 is /a, the file   *)
(* f1 is /a/b, and a third uid may be handed out.                           *)
EXTENDS ResolverHistory, TLC

CONSTANTS d1, f1, f2, a, b

FreeNode == [status |-> "free", kind |-> "file", parent |-> Root, name |-> a, filled |-> FALSE]

MCUids == {d1, f1, f2}
MCNames == {a, b}
MCPaths == {<<a>>, <<a, b>>}

MCInitTree ==
  [u \in MCUids |->
     CASE u = d1 -> [FreeNode EXCEPT !.status = "live", !.kind = "dir"]
       [] u = f1 -> [FreeNode EXCEPT !.status = "live", !.parent = d1, !.name = b]
       [] OTHER -> FreeNode]

(* No step and no invariant tells one thread from another. *)
Symmetry == Permutations(Workers)
=============================================================================
