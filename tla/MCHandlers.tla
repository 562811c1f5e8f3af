----------------------------- MODULE MCHandlers -----------------------------
(* What the handler instances share: d1 is the directory /a, f1 the file   *)
(* /b, and the other uids may be handed out.                               *)
EXTENDS Sequences

CONSTANTS Root, d1, f1, f2, f3, a, b, c

FreeNode == [status |-> "free", kind |-> "file", parent |-> Root, name |-> a, filled |-> FALSE]

DirNode == [FreeNode EXCEPT !.status = "live", !.kind = "dir"]
FileNode(d, n) == [FreeNode EXCEPT !.status = "live", !.parent = d, !.name = n, !.filled = TRUE]

Asks(m, p) == [method |-> m, path |-> p, dest |-> <<>>, overwrite |-> TRUE, deep |-> TRUE]
Shallow(r) == [r EXCEPT !.deep = FALSE]
To(m, p, q) == [Asks(m, p) EXCEPT !.dest = q]
Gently(r) == [r EXCEPT !.overwrite = FALSE]

pA == <<a>>
pB == <<b>>
pC == <<c>>
pAA == <<a, a>>
pAB == <<a, b>>
pCB == <<c, b>>
=============================================================================
