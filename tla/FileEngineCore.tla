--------------------------- MODULE FileEngineCore ---------------------------
(***************************************************************************)
(* The file service behind the bridge, as the bridge sees it over gRPC.    *)
(* It is not part of this repository: every operator here is what the      *)
(* callers in src/src/webdav_server.cpp and src/src/path_resolver.cpp      *)
(* assume of the RPC of the same name in proto/fileservice.proto.          *)
(*                                                                         *)
(* A tree is a function from uids to nodes.  A uid is never reused: it is  *)
(* "free" until some RPC creates its node, then "live", then (a soft       *)
(* delete) "gone", from which UndeleteFile may bring it back.  The root is *)
(* the empty uid in the code and has no node of its own.                   *)
(***************************************************************************)
EXTENDS Integers, Sequences, FiniteSets

CONSTANTS Root,         \* the empty uid
          Uids,         \* every uid the service may ever hand out
          Names,        \* the names of path segments
          UniqueNames   \* does the service refuse a second sibling of a name?

ASSUME RootIsNoNode == Root \notin Uids
ASSUME UniqueNamesIsBoolean == UniqueNames \in BOOLEAN

NoUid == "no uid"       \* std::nullopt where a uid is expected
ASSUME NoUidIsNoUid == NoUid \notin Uids \cup {Root}

Dirs == Uids \cup {Root}
Kinds == {"file", "dir"}

Node == [status : {"free", "live", "gone"}, kind : Kinds,
         parent : Dirs, name : Names, filled : BOOLEAN]

Tree == [Uids -> Node]

-----------------------------------------------------------------------------
(* What a caller can observe. *)

IsLive(t, u) == u = Root \/ (u \in Uids /\ t[u].status = "live")

IsDir(t, u) == u = Root \/ (u \in Uids /\ t[u].status = "live" /\ t[u].kind = "dir")

IsFile(t, u) == u \in Uids /\ t[u].status = "live" /\ t[u].kind = "file"

(* A directory holds any node.  A file holds files, its renditions, which  *)
(* are put below it by path like anything else (test_webdav.sh:203-218).   *)
CanHold(t, d, k) == IsDir(t, d) \/ (IsFile(t, d) /\ k = "file")

Children(t, d) == {u \in Uids : t[u].status = "live" /\ t[u].parent = d}

ChildrenNamed(t, d, n) == {u \in Children(t, d) : t[u].name = n}

(* Stat answers with a node of this name. *)
HasName(t, u, n) == u \in Uids /\ t[u].status = "live" /\ t[u].name = n

(* u and everything under it: the least set that holds u and the children  *)
(* of its members.                                                         *)
Subtree(t, u) ==
  {x \in Dirs : \A S \in SUBSET Dirs :
      (u \in S /\ \A y \in Uids : t[y].status = "live" /\ t[y].parent \in S => y \in S)
        => x \in S}

(* The nodes that path p, a sequence of names, leads to from the root: one *)
(* level below those of the path that is one name shorter.                 *)
Denoted(t, p) ==
  LET level[i \in 0..Len(p)] ==
        IF i = 0 THEN {Root} ELSE UNION {ChildrenNamed(t, d, p[i]) : d \in level[i - 1]}
  IN  level[Len(p)]

Denotes(t, p, u) == u \in Denoted(t, p)

(* The links that matter to a path: <<d, n, u>> says u is the child n of d. *)
Links(t, p) ==
  {l \in Dirs \X {p[i] : i \in 1..Len(p)} \X Uids : l[3] \in ChildrenNamed(t, l[1], l[2])}

(* Every node has its place below one that may hold it, and the names in   *)
(* one place differ if the service sees to it.                             *)
IsRooted(t) == \A u \in Uids : t[u].status = "live" => CanHold(t, t[u].parent, t[u].kind)

SiblingsDiffer(t) ==
  \A d \in Dirs, n \in Names : \A u, v \in ChildrenNamed(t, d, n) : u = v

-----------------------------------------------------------------------------
(* What an RPC does when it is carried out, and when it is.                *)

NameIsFree(t, d, n) == UniqueNames => ChildrenNamed(t, d, n) = {}

CanCreate(t, u, d, n, k) == t[u].status = "free" /\ CanHold(t, d, k) /\ NameIsFree(t, d, n)

(* Touch and MakeDirectory *)
Created(t, u, d, n, k) ==
  [t EXCEPT ![u] = [status |-> "live", kind |-> k, parent |-> d, name |-> n,
                    filled |-> FALSE]]

CanFill(t, u) == IsFile(t, u)

(* StreamFileUpload commits a version *)
Filled(t, u) == [t EXCEPT ![u].filled = TRUE]

CanRemoveFile(t, u) == IsFile(t, u)

CanRemoveDirectory(t, u) == IsDir(t, u) /\ u # Root /\ Children(t, u) = {}

(* RemoveFile and RemoveDirectory; renditions end with their file. *)
Removed(t, u) ==
  [x \in Uids |-> IF x \in Subtree(t, u) THEN [t[x] EXCEPT !.status = "gone"] ELSE t[x]]

CanUndelete(t, u) == /\ t[u].status = "gone" /\ CanHold(t, t[u].parent, t[u].kind)
                     /\ NameIsFree(t, t[u].parent, t[u].name)

Undeleted(t, u) == [t EXCEPT ![u].status = "live"]

CanRename(t, u, n) ==
  /\ IsLive(t, u) /\ u # Root
  /\ t[u].name = n \/ NameIsFree(t, t[u].parent, n)

Renamed(t, u, n) == [t EXCEPT ![u].name = n]

CanMove(t, u, d) ==
  /\ IsLive(t, u) /\ u # Root /\ CanHold(t, d, t[u].kind)
  /\ d \notin Subtree(t, u)
  /\ t[u].parent = d \/ NameIsFree(t, d, t[u].name)

Moved(t, u, d) == [t EXCEPT ![u].parent = d]

(* The copy keeps the name of the source, also next to the source itself,  *)
(* which is what handleCopy relies on when it renames the copy afterwards. *)
(* Only the copied node is modelled, not the nodes below it.               *)
CanCopy(t, u, d, v) ==
  IsLive(t, u) /\ u # Root /\ CanHold(t, d, t[u].kind) /\ t[v].status = "free"

Copied(t, u, d, v) == [t EXCEPT ![v] = [t[u] EXCEPT !.parent = d]]
=============================================================================
