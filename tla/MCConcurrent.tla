---------------------------- MODULE MCConcurrent ----------------------------
(* Instances of ConcurrentHandlers for TLC.                                *)
EXTENDS ConcurrentHandlers, TLC

CONSTANTS d1, f1, f2, f3, a, b, c

MC == INSTANCE MCHandlers

(* The directory /a holds the file /a/b; nodes are created, written,       *)
(* listed and deleted, never renamed or moved.                             *)
StillUids == {d1, f1, f2}
StillPaths == {MC!pA, MC!pAB}
StillTree == (d1 :> MC!DirNode) @@ (f1 :> MC!FileNode(d1, b)) @@ (f2 :> MC!FreeNode)
StillRequests ==
  {MC!Asks("PUT", MC!pAB), MC!Asks("DELETE", MC!pA), MC!Asks("DELETE", MC!pAB),
   MC!Asks("MKCOL", MC!pA), MC!Asks("PROPFIND", MC!pA)}

(* The file /b is copied to /a while /c is put next to it. *)
CopyUids == {f1, f2, f3}
CopyPaths == {MC!pA, MC!pB, MC!pC}
CopyTree == (f1 :> MC!FileNode(Root, b)) @@ [u \in {f2, f3} |-> MC!FreeNode]
CopyRequests == {MC!To("COPY", MC!pB, MC!pA), MC!Asks("PUT", MC!pC)}
=============================================================================
