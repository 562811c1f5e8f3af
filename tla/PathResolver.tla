---------------------------- MODULE PathResolver ----------------------------
(***************************************************************************)
(* PathResolver of src/src/path_resolver.cpp: the per-process cache from   *)
(* paths to uids, shared by every request thread, and resolvePath, the     *)
(* walk that fills it.  The mutex is held for one lookup or one update of  *)
(* the map only; the RPCs of a resolution run outside it, so that other    *)
(* threads and other clients of the service come between any two steps.    *)
(* One step here is one RPC or one critical section.                       *)
(*                                                                         *)
(* Paths are the segment sequences of normalised paths, of one tenant: the *)
(* cache key is tenant and path, and the handlers never pass an empty      *)
(* tenant, so that the "" tenant fallback of the lookup finds only the     *)
(* constructor's root entry, which no non-root path looks up.              *)
(***************************************************************************)
EXTENDS FileEngineCore

CONSTANTS Workers,      \* threads of the HTTP server's pool
          Paths,        \* the non-root paths that are ever asked for
          RpcFaults,    \* may an RPC fail although the service could serve it?
          InitTree,     \* the tree when the process starts
          MaxForeign    \* bound: mutations by other clients of the service

ASSUME PathsArePrefixClosed ==
  /\ Paths \subseteq Seq(Names) \ {<<>>}
  /\ \A p \in Paths : \A i \in 1..Len(p) : SubSeq(p, 1, i) \in Paths
ASSUME RpcFaultsIsBoolean == RpcFaults \in BOOLEAN
ASSUME InitTreeIsTree == InitTree \in Tree
ASSUME InitTreeIsSound == IsRooted(InitTree) /\ (UniqueNames => SiblingsDiffer(InitTree))
ASSUME MaxForeignIsNat == MaxForeign \in Nat

VARIABLES tree,     \* the service's nodes
          cache,    \* path_to_uuid_map_
          call,     \* per thread: the resolvePath call it is in
          foreign   \* mutations other clients have made so far

resolverVars == <<tree, cache, call, foreign>>

RootPath == <<>>
Base(p) == p[Len(p)]
Prefix(p, i) == SubSeq(p, 1, i)

Phases == {"idle", "lookup", "verify", "evict", "list", "map", "done"}

(* uid is `cached` up to the verification and `current_uuid` in the walk,  *)
(* depth the segments of the path the walk has matched; in phase "done"    *)
(* uid is the result, NoUid for std::nullopt.                              *)
Call ==
  {c \in [phase : Phases, path : Paths \cup {RootPath}, uid : Dirs \cup {NoUid}, depth : Nat] :
     /\ c.path = RootPath => c.phase \in {"idle", "done"}
     /\ c.depth <= Len(c.path)
     /\ c.phase = "list" => c.depth < Len(c.path)
     /\ c.phase = "map" => c.depth > 0}

NoCall == [phase |-> "idle", path |-> RootPath, uid |-> NoUid, depth |-> 0]

Init ==
  /\ tree = InitTree
  /\ cache = [p \in Paths |-> NoUid]
  /\ call = [w \in Workers |-> NoCall]
  /\ foreign = 0

TypeOK ==
  /\ tree \in Tree
  /\ cache \in [Paths -> Dirs \cup {NoUid}]
  /\ call \in [Workers -> Call]
  /\ foreign \in Nat

-----------------------------------------------------------------------------
(* createPathMapping and removePathMapping, each under the mutex. *)
MapPath(p, u) == cache' = [cache EXCEPT ![p] = u]
UnmapPath(p) == cache' = [cache EXCEPT ![p] = NoUid]

At(w, phase) == call[w].phase = phase

(* The call of w goes on with these values. *)
Goto(w, phase, uid, depth) ==
  call' = [call EXCEPT ![w] =
    [phase |-> phase, path |-> call[w].path, uid |-> uid, depth |-> depth]]

(* The root resolves to the empty uid without a lookup. *)
Started(p) == [phase |-> IF p = RootPath THEN "done" ELSE "lookup",
               path |-> p, uid |-> Root, depth |-> 0]

StartResolve(w, p) ==
  /\ At(w, "idle")
  /\ call' = [call EXCEPT ![w] = Started(p)]

(* The cache fast path, in one critical section. *)
LookupHit(w) ==
  /\ At(w, "lookup")
  /\ cache[call[w].path] # NoUid
  /\ Goto(w, "verify", cache[call[w].path], 0)
  /\ UNCHANGED <<tree, cache, foreign>>

LookupMiss(w) ==
  /\ At(w, "lookup")
  /\ cache[call[w].path] = NoUid
  /\ Goto(w, "list", Root, 0)
  /\ UNCHANGED <<tree, cache, foreign>>

(* Mutant: a hit is trusted when the node exists, whatever its name. *)
VerifyHitOfAnyName(w) ==
  /\ At(w, "verify")
  /\ IsLive(tree, call[w].uid)
  /\ Goto(w, "done", call[w].uid, 0)
  /\ UNCHANGED <<tree, cache, foreign>>

(* Stat finds the cached uid, still under the path's last name. *)
VerifyHit(w) ==
  /\ At(w, "verify")
  /\ HasName(tree, call[w].uid, Base(call[w].path))
  /\ Goto(w, "done", call[w].uid, 0)
  /\ UNCHANGED <<tree, cache, foreign>>

(* Mutant: a stale hit is answered with "no such path". *)
VerifyMissIsFinal(w) ==
  /\ At(w, "verify")
  /\ RpcFaults \/ ~HasName(tree, call[w].uid, Base(call[w].path))
  /\ Goto(w, "done", NoUid, 0)
  /\ UNCHANGED <<tree, cache, foreign>>

(* Mutant: a stale hit is looked up again without being dropped. *)
VerifyMissRetries(w) ==
  /\ At(w, "verify")
  /\ RpcFaults \/ ~HasName(tree, call[w].uid, Base(call[w].path))
  /\ Goto(w, "lookup", Root, 0)
  /\ UNCHANGED <<tree, cache, foreign>>

(* Mutant: when Stat fails, the cached uid is trusted. *)
VerifyMissTrusts(w) ==
  /\ At(w, "verify")
  /\ RpcFaults \/ ~HasName(tree, call[w].uid, Base(call[w].path))
  /\ Goto(w, "done", call[w].uid, 0)
  /\ UNCHANGED <<tree, cache, foreign>>

(* Stat finds no such node or another name, fails, or throws. *)
VerifyMiss(w) ==
  /\ At(w, "verify")
  /\ RpcFaults \/ ~HasName(tree, call[w].uid, Base(call[w].path))
  /\ Goto(w, "evict", call[w].uid, 0)
  /\ UNCHANGED <<tree, cache, foreign>>

(* The stale entry is dropped, whichever uid it holds by now, and the walk *)
(* starts at the root.                                                     *)
Evict(w) ==
  /\ At(w, "evict")
  /\ UnmapPath(call[w].path)
  /\ Goto(w, "list", Root, 0)
  /\ UNCHANGED <<tree, foreign>>

(* Mutant: names are not compared. *)
MatchesAnyName(w) == Children(tree, call[w].uid)

(* The entries of the current uid that have the next name. *)
Matches(w) == ChildrenNamed(tree, call[w].uid, call[w].path[call[w].depth + 1])

(* ListDirectory holds an entry of the next name: the first of them, in    *)
(* the service's order, is taken.                                          *)
ListFound(w) ==
  /\ At(w, "list")
  /\ IsLive(tree, call[w].uid)
  /\ \E u \in Matches(w) : Goto(w, "map", u, call[w].depth + 1)
  /\ UNCHANGED <<tree, cache, foreign>>

(* ListDirectory fails or throws, or no entry has the next name. *)
ListMissing(w) ==
  /\ At(w, "list")
  /\ RpcFaults \/ ~IsLive(tree, call[w].uid) \/ Matches(w) = {}
  /\ Goto(w, "done", NoUid, call[w].depth)
  /\ UNCHANGED <<tree, cache, foreign>>

(* Mutant: the walk does not stop at the last segment. *)
MapPrefixNeverDone(w) ==
  /\ At(w, "map")
  /\ MapPath(Prefix(call[w].path, call[w].depth), call[w].uid)
  /\ Goto(w, "list", call[w].uid, call[w].depth)
  /\ UNCHANGED <<tree, foreign>>

(* Mutant: each level is recorded under the whole path. *)
MapWholePath(w) ==
  /\ At(w, "map")
  /\ MapPath(call[w].path, call[w].uid)
  /\ Goto(w, IF call[w].depth = Len(call[w].path) THEN "done" ELSE "list",
          call[w].uid, call[w].depth)
  /\ UNCHANGED <<tree, foreign>>

(* Every prefix the walk has matched is cached, in a later critical        *)
(* section than the listing it comes from.                                 *)
MapPrefix(w) ==
  /\ At(w, "map")
  /\ MapPath(Prefix(call[w].path, call[w].depth), call[w].uid)
  /\ Goto(w, IF call[w].depth = Len(call[w].path) THEN "done" ELSE "list",
          call[w].uid, call[w].depth)
  /\ UNCHANGED <<tree, foreign>>

ResolveStep(w) ==
  \/ LookupHit(w)
  \/ LookupMiss(w)
  \/ VerifyHit(w)
  \/ VerifyMiss(w)
  \/ Evict(w)
  \/ ListFound(w)
  \/ ListMissing(w)
  \/ MapPrefix(w)

-----------------------------------------------------------------------------
(* The service's other clients (the REST bridge, the rendition service,    *)
(* other WebDAV bridges): one RPC that this process does not see.  Copies  *)
(* are left out: one next to its source would have its name.               *)
ForeignChange ==
  \/ \E u \in Uids, d \in Dirs, n \in Names, k \in Kinds :
        CanCreate(tree, u, d, n, k) /\ tree' = Created(tree, u, d, n, k)
  \/ \E u \in Uids :
        /\ CanRemoveFile(tree, u) \/ CanRemoveDirectory(tree, u)
        /\ tree' = Removed(tree, u)
  \/ \E u \in Uids : CanUndelete(tree, u) /\ tree' = Undeleted(tree, u)
  \/ \E u \in Uids, n \in Names : CanRename(tree, u, n) /\ tree' = Renamed(tree, u, n)
  \/ \E u \in Uids, d \in Dirs : CanMove(tree, u, d) /\ tree' = Moved(tree, u, d)

Foreign ==
  /\ foreign < MaxForeign
  /\ foreign' = foreign + 1
  /\ ForeignChange
  /\ UNCHANGED <<cache, call>>
=============================================================================
