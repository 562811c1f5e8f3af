------------------------- MODULE ConcurrentHandlers -------------------------
(***************************************************************************)
(* Requests on several threads, with RPCs that fail or whose answers are   *)
(* lost, and other clients of the service.  History variables say what     *)
(* each request's path has covered since it came, and which node its Copy  *)
(* has made.                                                               *)
(***************************************************************************)
EXTENDS WebDAVHandlers

VARIABLES under,      \* per thread: the nodes at or below what its subject path denoted
          copied      \* per thread: the node that its Copy has created

vars == <<handlerVars, under, copied>>

Below(t, p) == UNION {Subtree(t, u) : u \in Denoted(t, p)}

CInit ==
  /\ JobInit
  /\ under = [w \in Workers |-> {}]
  /\ copied = [w \in Workers |-> NoUid]

(* A request that may remove something looks at its subject at every       *)
(* instant.                                                                *)
Removing(r) == r.method \in {"DELETE", "COPY", "MOVE"}

Seen(w, j) ==
  IF j.pc \in {"idle", "replied"} \/ ~Removing(j.req) THEN {}
  ELSE IF Does(w, "idle") \/ tree' # tree
       THEN under[w] \cup Below(tree', IF j.req.method = "DELETE" THEN j.req.path ELSE j.req.dest)
       ELSE under[w]

Made(w, j) ==
  IF j.pc \in {"idle", "replied"} THEN NoUid
  ELSE IF j.pc = "after" /\ Does(w, "copy")
       THEN CHOOSE u \in Uids : tree'[u] # tree[u]
       ELSE copied[w]

History ==
  /\ under' = [w \in Workers |-> Seen(w, job'[w])]
  /\ copied' = [w \in Workers |-> Made(w, job'[w])]

CNext == HandlerNext /\ History

Spec == CInit /\ [][CNext]_vars

-----------------------------------------------------------------------------
Acts(w) == job'[w] # job[w]
Dies(u) == tree[u].status = "live" /\ tree'[u].status = "gone"

(* A DELETE, or a COPY or MOVE that overwrites, removes only nodes that    *)
(* were at or below what its path denoted, at some instant of the request: *)
(* neither a stale cache entry, nor a recursive removal that other         *)
(* requests interleave with, reaches outside (removeTreeRecursive and its  *)
(* callers in webdav_server.cpp).                                          *)
RemovesOnlyItsSubject ==
  [][\A w \in Workers : Acts(w) => \A u \in Uids : Dies(u) => u \in under[w]]_vars

(* A cache entry whose node is live is right, also while handlers, walks   *)
(* and evictions race for the map: while nothing is renamed or moved, no   *)
(* update of the map is late (path_resolver.cpp).                          *)
CacheIsExact ==
  \A p \in Paths : cache[p] \in Uids /\ IsLive(tree, cache[p]) => Denotes(tree, p, cache[p])

Replied(w, method, statuses) ==
  Does(w, "replied") /\ Req(w).method = method /\ job[w].status \in statuses

(* A PUT that is answered with success has stored its body in a file that  *)
(* the path leads to, unless a later DELETE has removed that: never in a   *)
(* node that a racing request has put elsewhere (handlePut).               *)
SavedIsThere ==
  \A w \in Workers : Replied(w, "PUT", {201, 204}) =>
     \/ tree[job[w].uid].status = "gone"
     \/ tree[job[w].uid].filled /\ Denotes(tree, Req(w).path, job[w].uid)

(* A DELETE that is answered with success has removed the node it found,   *)
(* and the whole of its subtree, though others create in it meanwhile      *)
(* (handleDelete).                                                         *)
DeletedIsGone ==
  \A w \in Workers : Replied(w, "DELETE", {204}) =>
     /\ tree[job[w].uid].status = "gone"
     /\ Children(tree, job[w].uid) = {}

(* A COPY renames the node that it has created, whatever else appears next *)
(* to it: "stay correct when names collide ... diff to find the new node   *)
(* and rename it" (webdav_server.cpp:1179-1182).                           *)
CopyRenamesItsCopy ==
  \A w \in Workers : Does(w, "rename") /\ Is(w, {"COPY"}) => job[w].uid = copied[w]
=============================================================================
