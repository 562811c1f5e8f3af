------------------------------ MODULE MCFaulty ------------------------------
(* An instance of WebDAVHandlers itself: what holds while RPCs fail,       *)
(* answers are lost and another client changes the tree.                   *)
EXTENDS WebDAVHandlers, TLC

CONSTANTS d1, f1, f2, f3, a, b, c

MC == INSTANCE MCHandlers

(* The file /b goes into the directory /a, or takes its place, and comes   *)
(* back, between requests of the other methods.                            *)
FaultUids == {d1, f1, f2}
FaultPaths == {MC!pA, MC!pB, MC!pAB}
FaultTree == (d1 :> MC!DirNode) @@ (f1 :> MC!FileNode(Root, b)) @@ (f2 :> MC!FreeNode)
FaultRequests ==
  {MC!To("COPY", MC!pB, MC!pA), MC!To("MOVE", MC!pAB, MC!pB),
   MC!Gently(MC!To("MOVE", MC!pB, MC!pAB)), MC!Gently(MC!To("MOVE", MC!pB, MC!pA)),
   MC!Asks("PUT", MC!pAB), MC!Asks("DELETE", <<>>),
   MC!Asks("PROPFIND", MC!pA), MC!Asks("GET", MC!pB)}
=============================================================================
