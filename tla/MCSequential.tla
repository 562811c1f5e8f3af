---------------------------- MODULE MCSequential ----------------------------
(* Instances of SequentialHandlers for TLC.                                *)
EXTENDS SequentialHandlers, TLC

CONSTANTS d1, f1, f2, f3, a, b, c

MC == INSTANCE MCHandlers

(* /a is a directory and /b a file.  Only /a is ever a directory, and it   *)
(* is neither moved nor copied.                                            *)
FileUids == {d1, f1, f2, f3}
FilePaths == {MC!pA, MC!pB, MC!pAA, MC!pAB}
FileTree == (d1 :> MC!DirNode) @@ (f1 :> MC!FileNode(Root, b))
              @@ [u \in {f2, f3} |-> MC!FreeNode]
FileRequests ==
  {MC!Asks(m, p) : m \in {"PUT", "DELETE"}, p \in {MC!pA, MC!pB, MC!pAB}}
  \cup {MC!Asks("MKCOL", MC!pA), MC!Asks("PROPFIND", MC!pA), MC!Asks("PROPFIND", <<>>),
        MC!Shallow(MC!Asks("PROPFIND", MC!pA)), MC!Asks("DELETE", <<>>),
        MC!Asks("GET", MC!pAB), MC!Asks("HEAD", MC!pAB), MC!Asks("LOCK", MC!pAB),
        MC!To("COPY", MC!pB, MC!pAB), MC!To("COPY", MC!pB, MC!pAA),
        MC!To("COPY", MC!pAB, MC!pAB),
        MC!To("MOVE", MC!pB, MC!pAB), MC!To("MOVE", MC!pAB, MC!pB),
        MC!To("MOVE", MC!pAB, MC!pAA), MC!To("MOVE", MC!pB, MC!pAA),
        MC!To("MOVE", MC!pB, MC!pA),
        MC!Gently(MC!To("MOVE", MC!pB, MC!pAB)), MC!Gently(MC!To("COPY", MC!pB, MC!pAB))}

(* The directory /a holds the file /a/b, and is moved to /c. *)
DirUids == {d1, f1, f2}
DirPaths == {MC!pA, MC!pAB, MC!pC, MC!pCB}
DirTree == (d1 :> MC!DirNode) @@ (f1 :> MC!FileNode(d1, b)) @@ (f2 :> MC!FreeNode)
DirRequests == {MC!Asks("GET", MC!pAB), MC!Asks("GET", MC!pCB), MC!To("MOVE", MC!pA, MC!pC)}
=============================================================================
