------------------------- MODULE SequentialHandlers -------------------------
(***************************************************************************)
(* One request at a time, by one bridge: every handler, with its many RPCs *)
(* and the cache that earlier requests have left, must come to the tree    *)
(* and the status that a reference definition computes in one go from the  *)
(* tree the request found.  The reference knows nothing of the cache.      *)
(***************************************************************************)
EXTENDS WebDAVHandlers

VARIABLE begun        \* history: the tree when the thread's request came

sequentialVars == <<handlerVars, begun>>

SInit == JobInit /\ begun = [w \in Workers |-> InitTree]

SNext ==
  /\ HandlerNext
  /\ begun' = [w \in Workers |-> IF Does(w, "idle") THEN tree ELSE begun[w]]

SequentialSpec == SInit /\ [][SNext]_sequentialVars

-----------------------------------------------------------------------------
(* The reference.  Sibling names are unique, so that a path denotes one    *)
(* node at most.                                                           *)
NodeAt(t, p) ==
  IF Denoted(t, p) = {} THEN NoUid ELSE CHOOSE u \in Denoted(t, p) : TRUE

Cleared(t, u) == IF u = NoUid THEN t ELSE Removed(t, u)

Outcome(t, s) == [tree |-> t, status |-> s]
OneOf(trees, s, otherwise) ==
  IF trees = {} THEN {otherwise} ELSE {Outcome(t, s) : t \in trees}

CreatedAt(t, d, n, k) ==
  {Created(t, u, d, n, k) : u \in {v \in Uids : CanCreate(t, v, d, n, k)}}

FilledAt(t, d, n) ==
  {Filled(Created(t, u, d, n, "file"), u) : u \in {v \in Uids : CanCreate(t, v, d, n, "file")}}

Reading(t, r) ==
  LET u == NodeAt(t, r.path)
  IN  {Outcome(t, IF u = NoUid THEN (IF r.method = "LOCK" THEN 201 ELSE 404)
                  ELSE IF r.method = "PROPFIND" THEN 207
                  ELSE IF r.method = "GET" /\ ~IsFile(t, u) THEN 500 ELSE 200)}

Deleting(t, r) ==
  LET u == NodeAt(t, r.path)
  IN  {IF u \in {NoUid, Root} THEN Outcome(t, 404) ELSE Outcome(Cleared(t, u), 204)}

Creating(t, r) ==
  LET u == NodeAt(t, r.path)
      d == NodeAt(t, Parent(r.path))
      n == Base(r.path)
  IN  IF d = NoUid THEN {Outcome(t, 409)}
      ELSE IF r.method = "MKCOL" THEN OneOf(CreatedAt(t, d, n, "dir"), 201, Outcome(t, 500))
      ELSE IF u = NoUid THEN OneOf(FilledAt(t, d, n), 201, Outcome(t, 500))
      ELSE {IF IsFile(t, u) THEN Outcome(Filled(t, u), 204) ELSE Outcome(t, 500)}

(* t is the tree without the destination. *)
Relocating(t, r) ==
  LET u == NodeAt(t, r.path)
      d == NodeAt(t, Parent(r.dest))
      n == Base(r.dest)
  IN  IF u \in {NoUid, Root} THEN {Outcome(t, 404)}
      ELSE IF r.method = "MOVE" /\ Parent(r.path) = Parent(r.dest)
        THEN {Outcome(Renamed(t, u, n), 201)}
      ELSE IF d = NoUid THEN {Outcome(t, 409)}
      ELSE IF r.method = "MOVE"
        THEN {IF CanMove(t, u, d) THEN Outcome(Renamed(Moved(t, u, d), u, n), 201)
              ELSE Outcome(t, 500)}
      ELSE OneOf({Renamed(Copied(t, u, d, v), v, n) : v \in {x \in Uids : CanCopy(t, u, d, x)}},
                 201, Outcome(t, 500))

Outcomes(t, r) ==
  CASE r.method \in {"GET", "HEAD", "PROPFIND", "LOCK"} -> Reading(t, r)
    [] r.method = "DELETE" -> Deleting(t, r)
    [] r.method \in {"PUT", "MKCOL"} -> Creating(t, r)
    [] OTHER ->
         IF NodeAt(t, r.dest) # NoUid /\ ~r.overwrite THEN {Outcome(t, 412)}
         ELSE Relocating(Cleared(t, NodeAt(t, r.dest)), r)

-----------------------------------------------------------------------------
(* Every answer, and the tree it leaves, is one the reference allows: the  *)
(* cache never changes what a request means, a listing diff finds the copy, *)
(* a recursive removal removes a subtree and nothing else, and a request   *)
(* that is turned away changes nothing (the handlers of webdav_server.cpp, *)
(* one at a time).                                                         *)
OutcomeIsAllowed ==
  \A w \in Workers : Does(w, "replied") =>
     LET o == Outcome(tree, job[w].status)
     IN  o \in Outcomes(begun[w], Req(w)) \cup {Outcome(begun[w], 401)}

(* Between requests, an entry that would pass the resolver's verification  *)
(* is right: the path leads to the node.  "A node moved to a different     *)
(* parent under the same name is not caught here; same-process MOVE        *)
(* updates the cache directly" (path_resolver.cpp:82-84).                  *)
RestingCacheIsRight ==
  (\A w \in Workers : Does(w, "idle")) =>
     \A p \in Paths : cache[p] # NoUid /\ HasName(tree, cache[p], Base(p)) =>
        Denotes(tree, p, cache[p])
=============================================================================
