-------------------------- MODULE SequentialProofs --------------------------
(***************************************************************************)
(* That the handlers, with their caches and their many RPCs, do what the   *)
(* reference of SequentialHandlers computes from the tree in one go, for   *)
(* every tree, every set of uids, names and paths and every sequence of    *)
(* requests: of one thread, without failures and other writers, with names *)
(* that the service keeps unique, and MOVEs whose source has no cached     *)
(* path below it.                                                          *)
(***************************************************************************)
EXTENDS HandlersProofs, SequentialHandlers

(* No path that is ever asked for goes through p. *)
NothingBelow(p) == \A q \in Paths : Len(p) < Len(q) => Prefix(q, Len(p)) # p

(* The assumption: one thread, whose RPCs do not fail, and nobody else;    *)
(* names are unique, and MOVE takes no directory with paths in it.         *)
Alone ==
  /\ UniqueNames /\ ~RpcFaults /\ MaxForeign = 0
  /\ Workers # {} /\ \A v, w \in Workers : v = w
  /\ \A r \in Requests : r.method = "MOVE" /\ r.path # RootPath => NothingBelow(r.path)

-----------------------------------------------------------------------------
(* The invariant: b is the tree that the request found, t the tree now. *)

WellFormed(t) == t \in Tree /\ IsRooted(t) /\ SiblingsDiffer(t)

SubjectOf(r) == IF r.method \in {"COPY", "MOVE"} THEN r.dest ELSE r.path

(* A resolution knows where its prefix leads, and answers what the tree is. *)
CallIsExact(t, c) ==
  /\ c.phase = "verify" => Right(t, c.path, c.uid)
  /\ c.phase \in {"list", "map"} => c.uid \in Denoted(t, Prefix(c.path, c.depth))
  /\ c.phase = "done" =>
       IF c.uid = NoUid THEN Denoted(t, c.path) = {} ELSE c.uid \in Denoted(t, c.path)

ResolvingPoints == {"target", "parent", "dest", "source", "dparent"}

Asked(j) ==
  IF j.pc = "parent" THEN Parent(j.req.path)
  ELSE IF j.pc = "dest" THEN j.req.dest
  ELSE IF j.pc = "dparent" THEN Parent(j.req.dest)
  ELSE j.req.path

CallFits(t, j, c) ==
  c.phase # "idle" => j.pc \in ResolvingPoints /\ c.path = Asked(j) /\ CallIsExact(t, c)

(* What each point serves. *)
MethodFits(j) ==
  /\ j.pc = "target" => j.req.method \in {"GET", "HEAD", "DELETE", "PROPFIND", "LOCK", "PUT"}
  /\ j.pc = "parent" => j.req.method \in {"PUT", "MKCOL"}
  /\ j.pc = "download" => j.req.method = "GET"
  /\ j.pc \in {"list", "map entries"} => j.req.method = "PROPFIND"
  /\ j.pc \in {"touch", "upload"} => j.req.method = "PUT"
  /\ j.pc = "mkdir" => j.req.method = "MKCOL"
  /\ j.pc \in {"move", "forget"} => j.req.method = "MOVE"
  /\ j.pc = "map" => j.req.method \in {"PUT", "MKCOL", "COPY", "MOVE"}

(* Nothing is changed yet. *)
FoundHere == {"download", "list", "map entries", "stat", "remove file"}
UntouchedPoints == FoundHere \cup {"target", "parent", "dest", "touch", "mkdir"}

IsUntouched(b, t, j) ==
  /\ j.pc \in UntouchedPoints => t = b
  /\ j.pc \in FoundHere => j.uid \in Denoted(b, SubjectOf(j.req))
  /\ j.pc = "remove file" => IsFile(b, j.uid)
  /\ NeedsParent(j) => j.par \in Denoted(b, Parent(j.req.path))
  /\ j.pc \in {"target", "parent"} => ~j.fresh
  /\ j.pc = "touch" => j.fresh /\ Denoted(b, j.req.path) = {}
  /\ j.pc = "map entries" =>
       \A e \in j.entries : Append(j.req.path, e.name) \in Paths
                            /\ e.uid \in Denoted(b, Append(j.req.path, e.name))

(* A PUT has made its file, or has found it. *)
MadeBy(b, t, r, u) ==
  /\ u \in Uids /\ Denoted(b, r.path) = {}
  /\ \E d \in Denoted(b, Parent(r.path)) :
        /\ CanCreate(b, u, d, Base(r.path), "file")
        /\ t = Created(b, u, d, Base(r.path), "file")

IsUploading(b, t, j) ==
  j.pc = "upload" =>
    IF j.fresh THEN MadeBy(b, t, j.req, j.uid)
    ELSE t = b /\ j.uid \in Denoted(b, j.req.path) /\ Denoted(b, Parent(j.req.path)) # {}

(* A removal: what is not as it was is gone, and was below u. *)
Ended(n) == [n EXCEPT !.status = "gone"]

Emptying(b, t, u) ==
  \A x \in Uids : t[x] = b[x] \/ (x \in Subtree(b, u) /\ t[x] = Ended(b[x]))

AtLevel(t, d, n) == \E q \in Seq(Names) : Len(q) = n /\ d \in Denoted(t, q)

Left(f) == {e.uid : e \in f.todo}

(* The next activation's directory, or none. *)
Entered(s, i) == IF i = Len(s) THEN {} ELSE {s[i + 1].dir}

(* An activation's directory lives, below the one before it, and holds     *)
(* what is left of its listing and the next one's, and nothing else.       *)
FrameHolds(b, t, n, u, s, i) ==
  /\ s[i].dir \in Subtree(b, u) /\ s[i].dir \in Uids /\ IsDir(t, s[i].dir)
  /\ AtLevel(t, s[i].dir, n + i)
  /\ s[i].todo \subseteq Listing(t, s[i].dir)
  /\ IF s[i].listed THEN Children(t, s[i].dir) \subseteq Left(s[i]) \cup Entered(s, i)
     ELSE s[i].todo = {} /\ i = Len(s)
  /\ Entered(s, i) \subseteq Children(t, s[i].dir) \ Left(s[i])

IsRemoving(b, t, j) ==
  /\ j.pc = "remove tree" =>
       /\ j.uid \in Denoted(b, SubjectOf(j.req)) /\ Emptying(b, t, j.uid)
       /\ j.stack[1].dir = j.uid
       /\ \A i \in 1..Len(j.stack) :
            FrameHolds(b, t, Len(SubjectOf(j.req)) - 1, j.uid, j.stack, i)
  /\ j.pc = "drop" =>
       /\ t = Cleared(b, NodeAt(b, SubjectOf(j.req)))
       /\ NodeAt(b, SubjectOf(j.req)) \in Uids

(* The tree without the destination, where a COPY or MOVE begins. *)
Ready(b, r) == Cleared(b, NodeAt(b, r.dest))
IsReady(b, r) == NodeAt(b, r.dest) = NoUid \/ r.overwrite
PureRename(r) == r.method = "MOVE" /\ Parent(r.path) = Parent(r.dest)

PlacedPoints == {"before", "copy", "move", "after"}

IsRelocating(b, t, j) ==
  LET r == j.req
      C == Ready(b, r)
  IN  /\ j.pc \in {"source", "dparent", "rename"} \cup PlacedPoints => IsReady(b, r)
      /\ j.pc \in {"source", "dparent", "before", "copy", "move"} => t = C
      /\ j.pc \in {"dparent"} \cup PlacedPoints => j.uid \in Denoted(C, r.path) \cap Uids
      /\ j.pc \in PlacedPoints => j.par \in Denoted(C, Parent(r.dest))
      /\ j.pc \in {"dparent", "move"} => ~PureRename(r)
      /\ j.pc \in {"before", "after"} => Base(r.dest) # Base(r.path)
      /\ j.pc = "copy" /\ Base(r.dest) # Base(r.path) /\ IsLive(t, j.par) =>
           j.before = Children(t, j.par)
      /\ j.pc = "after" =>
           /\ j.before = Children(C, j.par)
           /\ \E v \in Uids : CanCopy(C, j.uid, j.par, v) /\ t = Copied(C, j.uid, j.par, v)

IsCopyRenaming(b, t, j) ==
  LET r == j.req
      C == Ready(b, r)
  IN  /\ Base(r.dest) # Base(r.path) /\ j.uid \in Uids
      /\ \E u \in Denoted(C, r.path) \cap Uids, d \in Denoted(C, Parent(r.dest)) :
           CanCopy(C, u, d, j.uid) /\ t = Copied(C, u, d, j.uid)

IsMoveRenaming(b, t, j) ==
  LET r == j.req
      C == Ready(b, r)
  IN  /\ j.uid \in Denoted(C, r.path) \cap Uids
      /\ IF PureRename(r) THEN t = C
         ELSE /\ Base(r.dest) # Base(r.path)
              /\ \E d \in Denoted(C, Parent(r.dest)) :
                   CanMove(C, j.uid, d) /\ t = Moved(C, j.uid, d)

IsRenaming(b, t, j) ==
  j.pc = "rename" => IF j.req.method = "MOVE" THEN IsMoveRenaming(b, t, j)
                     ELSE IsCopyRenaming(b, t, j)

(* The tree is one that the reference allows. *)
MapStatus(j) == IF j.req.method = "PUT" /\ ~j.fresh THEN 204 ELSE 201

IsDone(b, t, j) ==
  /\ j.pc = "map" => /\ j.uid \in Denoted(t, SubjectOf(j.req))
                     /\ Outcome(t, MapStatus(j)) \in Outcomes(b, j.req)
  /\ j.pc = "forget" => /\ j.uid \in Denoted(t, SubjectOf(j.req))
                        /\ Outcome(t, 201) \in Outcomes(b, j.req)
  /\ j.pc = "replied" =>
       Outcome(t, j.status) \in Outcomes(b, j.req) \cup {Outcome(b, 401)}

JobIsExact(b, t, j) ==
  /\ MethodFits(j)
  /\ IsUntouched(b, t, j)
  /\ IsUploading(b, t, j)
  /\ IsRemoving(b, t, j)
  /\ IsRelocating(b, t, j)
  /\ IsRenaming(b, t, j)
  /\ IsDone(b, t, j)

(* Two nodes share a name while a copy has not been renamed, and the entry *)
(* of a source is wrong until it is forgotten.                             *)
CacheFits(b, t, m, j) ==
  IF j.pc \in {"after", "rename"} THEN CacheIsRight(Ready(b, j.req), m)
  ELSE IF j.pc = "forget" THEN CacheIsRight(t, [m EXCEPT ![j.req.path] = NoUid])
  ELSE CacheIsRight(t, m)

Exact(b, t, m, j, c) ==
  /\ j.pc # "idle" => WellFormed(b)
  /\ j.pc \notin {"after", "rename"} => WellFormed(t)
  /\ CacheFits(b, t, m, j)
  /\ CallFits(t, j, c)
  /\ JobIsExact(b, t, j)

AloneInv ==
  /\ HandlersInv
  /\ \A w \in Workers : Exact(begun[w], tree, cache, job[w], call[w])
-----------------------------------------------------------------------------
(* Paths *)

LEMMA LastFacts ==
  ASSUME NEW p \in Seq(Names), p # RootPath
  PROVE  /\ Len(p) \in Nat \ {0} /\ Len(p) - 1 \in Nat /\ (Len(p) - 1) + 1 = Len(p)
         /\ Parent(p) = Prefix(p, Len(p) - 1)
         /\ Parent(p) \in Seq(Names) /\ Len(Parent(p)) = Len(p) - 1
         /\ Base(p) \in Names
         /\ p = Append(Parent(p), Base(p))
<1>1. Len(p) \in Nat \ {0} /\ Len(p) - 1 \in Nat /\ (Len(p) - 1) + 1 = Len(p)
  BY DEF RootPath
<1>2. Parent(p) = Prefix(p, Len(p) - 1)
  BY DEF Parent
<1>3. Len(p) - 1 \in 0..Len(p)
  BY <1>1
<1>4. Parent(p) \in Seq(Names) /\ Len(Parent(p)) = Len(p) - 1
  BY <1>2, <1>3, PrefixFacts
<1>5. Base(p) \in Names
  BY <1>1 DEF Base
<1>6. p = Append(SubSeq(p, 1, Len(p) - 1), p[Len(p)])
  BY <1>1
<1>7. p = Append(Parent(p), Base(p))
  BY <1>2, <1>6, Zenon DEF Prefix, Base
<1> QED
  BY <1>1, <1>2, <1>4, <1>5, <1>7

(* Where a path leads is one name below where its parent leads. *)
LEMMA DenotedBelow ==
  ASSUME NEW t, NEW p \in Seq(Names), p # RootPath, NEW u
  PROVE  /\ u \in Denoted(t, p) => u \in Uids /\ t[u].status = "live" /\ t[u].name = Base(p)
                                   /\ t[u].parent \in Denoted(t, Parent(p))
         /\ u \in Uids /\ t[u].status = "live" /\ t[u].name = Base(p)
              /\ t[u].parent \in Denoted(t, Parent(p)) => u \in Denoted(t, p)
<1>1. Denoted(t, p) = UNION {ChildrenNamed(t, d, Base(p)) : d \in Denoted(t, Parent(p))}
  BY DenotedLast, LastFacts
<1> QED
  BY <1>1, ChildFacts

(* A node is on one path only. *)
LEMMA PathIsOne ==
  ASSUME NEW t, NEW p \in Seq(Names), NEW q \in Seq(Names), NEW u,
         u \in Denoted(t, p), u \in Denoted(t, q)
  PROVE  p = q
<1> DEFINE One(r) == \A s \in Seq(Names) : \A v : v \in Denoted(t, r) /\ v \in Denoted(t, s) => r = s
           S == {k \in Nat : \A r \in Seq(Names) : Len(r) = k => One(r)}
<1>1. ASSUME NEW r \in Seq(Names), NEW s \in Seq(Names), NEW v \in Denoted(t, r), v \in Denoted(t, s)
      PROVE  r = RootPath <=> s = RootPath
  BY <1>1, DenotedType, DirsFacts
<1>2. 0 \in S
  <2>1. \A r \in Seq(Names) : Len(r) = 0 => r = RootPath
    BY DEF RootPath
  <2> QED
    BY <1>1, <2>1
<1>3. ASSUME NEW k \in S PROVE k + 1 \in S
  <2>1. k \in Nat
    OBVIOUS
  <2> SUFFICES ASSUME NEW r \in Seq(Names), Len(r) = k + 1, NEW s \in Seq(Names),
                      NEW v, v \in Denoted(t, r), v \in Denoted(t, s)
               PROVE  r = s
    BY <2>1
  <2>2. r # RootPath
    BY <2>1 DEF RootPath
  <2>3. s # RootPath
    BY <1>1, <2>2
  <2>4. /\ t[v].name = Base(r) /\ t[v].parent \in Denoted(t, Parent(r))
        /\ t[v].name = Base(s) /\ t[v].parent \in Denoted(t, Parent(s))
    BY <2>2, <2>3, DenotedBelow
  <2>5. Parent(r) \in Seq(Names) /\ Len(Parent(r)) = k /\ Parent(s) \in Seq(Names)
    BY <2>1, <2>2, <2>3, LastFacts
  <2>6. Parent(r) = Parent(s)
    BY <2>4, <2>5
  <2>7. r = Append(Parent(r), Base(r)) /\ s = Append(Parent(s), Base(s))
    BY <2>2, <2>3, LastFacts
  <2> QED
    BY <2>4, <2>6, <2>7
<1> HIDE DEF S
<1>4. S = Nat
  <2>1. S \in SUBSET Nat
    BY DEF S
  <2> QED
    BY <1>2, <1>3, <2>1, SetInduction
<1>5. Len(p) \in S
  BY <1>4
<1> QED
  BY <1>5 DEF S

(* The node at a path. *)
LEMMA NodeAtFacts ==
  ASSUME NEW t, SiblingsDiffer(t), NEW p \in Seq(Names)
  PROVE  /\ \A u \in Denoted(t, p) : NodeAt(t, p) = u /\ u # NoUid /\ u \in Dirs
         /\ Denoted(t, p) = {} <=> NodeAt(t, p) = NoUid
         /\ NodeAt(t, p) # NoUid => NodeAt(t, p) \in Denoted(t, p)
<1>1. \A u \in Denoted(t, p) : u # NoUid /\ u \in Dirs
  BY DenotedType, DirsFacts
<1>2. \A u, v \in Denoted(t, p) : u = v
  BY PrefixFacts, DenotedIsOne
<1>3. Denoted(t, p) # {} => NodeAt(t, p) \in Denoted(t, p)
  BY DEF NodeAt
<1>4. Denoted(t, p) = {} => NodeAt(t, p) = NoUid
  BY DEF NodeAt
<1> QED
  BY <1>1, <1>2, <1>3, <1>4

(* A change of the node at p alone leaves every path that does not go      *)
(* through p leading where it led.                                         *)
LEMMA RouteKept ==
  ASSUME NEW t, NEW s, NEW p \in Seq(Names), NEW u \in Denoted(t, p),
         \A v \in Uids : v # u => s[v] = t[v],
         NEW q \in Seq(Names), \A k \in 0..Len(q) : Prefix(q, k) # p,
         NEW v \in Denoted(t, q)
  PROVE  v \in Denoted(s, q)
<1>1. Len(q) \in Nat /\ Prefix(q, 0) = RootPath /\ Prefix(q, Len(q)) = q
      /\ \A k \in 0..Len(q) : Prefix(q, k) \in Seq(Names)
  BY PrefixFacts
<1> DEFINE In(i) == Denoted(t, Prefix(q, i)) \subseteq Denoted(s, Prefix(q, i))
           S == {i \in Nat : i <= Len(q) => In(i)}
<1>2. 0 \in S
  BY <1>1, DenotedRoot
<1>3. ASSUME NEW i \in S PROVE i + 1 \in S
  <2>1. i \in Nat
    OBVIOUS
  <2> SUFFICES ASSUME i + 1 <= Len(q) PROVE In(i + 1)
    BY <2>1
  <2>2. In(i)
    BY <1>1, <2>1
  <2>3. i + 1 \in 0..Len(q)
    BY <1>1, <2>1
  <2>4. /\ Denoted(t, Prefix(q, i + 1)) =
             UNION {ChildrenNamed(t, d, q[i + 1]) : d \in Denoted(t, Prefix(q, i))}
        /\ Denoted(s, Prefix(q, i + 1)) =
             UNION {ChildrenNamed(s, d, q[i + 1]) : d \in Denoted(s, Prefix(q, i))}
    BY <2>1, DenotedNext
  <2> HIDE DEF S
  <2> SUFFICES ASSUME NEW x \in Denoted(t, Prefix(q, i + 1))
               PROVE  x \in Denoted(s, Prefix(q, i + 1))
    OBVIOUS
  <2>5. x # u
    BY <1>1, <2>3, PathIsOne
  <2>6. PICK d \in Denoted(t, Prefix(q, i)) : x \in ChildrenNamed(t, d, q[i + 1])
    BY <2>4
  <2>7. x \in Uids /\ s[x] = t[x]
    BY <2>5, <2>6, ChildFacts
  <2>8. x \in ChildrenNamed(s, d, q[i + 1])
    BY <2>6, <2>7, ChildFacts
  <2> QED
    BY <2>2, <2>4, <2>8
<1>4. S \in SUBSET Nat
  OBVIOUS
<1> HIDE DEF S
<1>5. S = Nat
  BY <1>2, <1>3, <1>4, SetInduction
<1>6. Len(q) \in S
  BY <1>1, <1>5
<1> QED
  BY <1>1, <1>6 DEF S

-----------------------------------------------------------------------------
(* A removal *)

LEMMA NothingIsCleared ==
  ASSUME NEW t \in Tree
  PROVE  Cleared(t, NoUid) = t
BY DEF Cleared

LEMMA EndedNode ==
  ASSUME NEW n \in Node
  PROVE  /\ Ended(n) \in Node /\ Ended(n).status = "gone"
         /\ Ended(n).kind = n.kind /\ Ended(n).parent = n.parent
         /\ Ended(n).name = n.name /\ Ended(n).filled = n.filled
         /\ Ended(Ended(n)) = Ended(n)
BY DEF Ended, Node

(* A live node's subtree lives. *)
LEMMA SubtreeLives ==
  ASSUME NEW t, NEW u \in Uids, t[u].status = "live"
  PROVE  \A x \in Subtree(t, u) : x \in Uids /\ t[x].status = "live"
<1> DEFINE S == {x \in Uids : t[x].status = "live"}
<1>1. S \in SUBSET Dirs /\ u \in S
  BY DirsFacts
<1>2. \A y \in Uids : t[y].status = "live" /\ t[y].parent \in S => y \in S
  OBVIOUS
<1> HIDE DEF S
<1>3. Subtree(t, u) \subseteq S
  BY <1>1, <1>2, SubtreeIsLeast
<1> QED
  BY <1>3 DEF S

LEMMA ClearedNodes ==
  ASSUME NEW t \in Tree, NEW u \in Uids, t[u].status = "live", NEW x \in Uids
  PROVE  /\ Cleared(t, u) \in Tree
         /\ x \in Subtree(t, u) => Cleared(t, u)[x] = Ended(t[x])
                                   /\ Cleared(t, u)[x].status = "gone"
         /\ x \notin Subtree(t, u) => Cleared(t, u)[x] = t[x]
         /\ Cleared(t, u)[x].kind = t[x].kind /\ Cleared(t, u)[x].parent = t[x].parent
         /\ Cleared(t, u)[x].name = t[x].name /\ Cleared(t, u)[x].filled = t[x].filled
<1>1. u # NoUid
  BY DirsFacts
<1>2. \A y \in Uids : Cleared(t, u)[y] = IF y \in Subtree(t, u) THEN Ended(t[y]) ELSE t[y]
  BY <1>1 DEF Cleared, Removed, Ended
<1>3. \A y \in Uids : t[y] \in Node /\ Ended(t[y]) \in Node
  BY EndedNode DEF Tree
<1>4. Cleared(t, u) = [y \in Uids |-> Cleared(t, u)[y]]
  BY <1>1 DEF Cleared, Removed
<1>5. Cleared(t, u) \in Tree
  BY <1>2, <1>3, <1>4 DEF Tree
<1>6. t[x] \in Node
  BY <1>3
<1>7. CASE x \in Subtree(t, u)
  <2>1. Cleared(t, u)[x] = Ended(t[x])
    BY <1>2, <1>7
  <2> QED
    BY <1>5, <1>6, <1>7, <2>1, EndedNode
<1>8. CASE x \notin Subtree(t, u)
  BY <1>2, <1>5, <1>8
<1> QED
  BY <1>7, <1>8

(* What is at a path, where it is. *)
LEMMA FoundFacts ==
  ASSUME NEW t \in Tree, NEW p \in Seq(Names), NEW u \in Denoted(t, p) \cap Uids
  PROVE  /\ p # RootPath /\ u # NoUid /\ u # Root /\ u \in Dirs
         /\ t[u].status = "live" /\ t[u].name = Base(p)
         /\ t[u].parent \in Denoted(t, Parent(p))
<1>1. p # RootPath
  BY DenotedRoot, DirsFacts
<1> QED
  BY <1>1, DenotedBelow, DirsFacts

LEMMA ClearedFacts ==
  ASSUME NEW t, WellFormed(t), NEW p \in Seq(Names), NEW u \in Denoted(t, p) \cap Uids
  PROVE  LET C == Cleared(t, u)
         IN  WellFormed(C) /\ Kept(t, C) /\ Denoted(C, p) = {}
<1> DEFINE C == Cleared(t, u)
<1>1. t \in Tree /\ t[u].status = "live" /\ p # RootPath /\ u \in Dirs
  BY FoundFacts DEF WellFormed
<1>2. /\ C \in Tree
      /\ \A x \in Uids : /\ x \in Subtree(t, u) => C[x].status = "gone"
                         /\ x \notin Subtree(t, u) => C[x] = t[x]
                         /\ C[x].kind = t[x].kind /\ C[x].parent = t[x].parent
                         /\ C[x].name = t[x].name /\ C[x].filled = t[x].filled
  BY <1>1, ClearedNodes
<1>3. \A x \in Subtree(t, u) : x \in Uids /\ t[x].status = "live"
  BY <1>1, SubtreeLives
<1>4. u \in Subtree(t, u)
      /\ \A v \in Uids : t[v].status = "live" /\ t[v].parent \in Subtree(t, u) => v \in Subtree(t, u)
  BY <1>1, SubtreeHolds
<1> HIDE DEF C
<1>5. Kept(t, C)
  BY <1>2, <1>3 DEF Kept
<1>6. IsRooted(C)
  BY <1>1, CoreStaysRooted, DirsFacts DEF C, Cleared, WellFormed
<1>7. \A d, n : ChildrenNamed(C, d, n) \subseteq ChildrenNamed(t, d, n)
  BY <1>2, ChildFacts
<1>8. SiblingsDiffer(C)
  BY <1>7 DEF SiblingsDiffer, WellFormed
<1>9. Denoted(C, p) = {}
  <2> SUFFICES ASSUME NEW v \in Denoted(C, p) PROVE FALSE
    OBVIOUS
  <2>1. Len(p) \in 0..Len(p) /\ Prefix(p, Len(p)) = p
    BY PrefixFacts
  <2>2. AddsOnlyFresh(t, C)
    BY <1>7 DEF AddsOnlyFresh
  <2>3. Denoted(C, p) \subseteq Denoted(t, p)
    BY <2>1, <2>2, DenotedIsStable DEF WellFormed
  <2>4. v = u
    BY <2>3, NodeAtFacts DEF WellFormed
  <2>5. C[v].status = "live"
    BY <1>1, DenotedBelow
  <2> QED
    BY <1>2, <1>4, <2>4, <2>5
<1> QED
  BY <1>2, <1>5, <1>6, <1>8, <1>9 DEF WellFormed, C

(* When what was removed is what was below u, and u is gone, it is all of  *)
(* it: a node that lives has a parent that lives.                          *)
LEMMA EmptiedIsCleared ==
  ASSUME NEW b \in Tree, NEW t \in Tree, IsRooted(t), NEW u \in Uids, b[u].status = "live",
         Emptying(b, t, u), t[u].status = "gone"
  PROVE  t = Cleared(b, u)
<1> DEFINE S == {x \in Uids : t[x].status = "gone"}
<1>1. \A x \in Uids : /\ b[x] \in Node /\ t[x] \in Node
                      /\ \/ t[x] = b[x]
                         \/ x \in Subtree(b, u) /\ t[x] = Ended(b[x])
  BY DEF Emptying, Tree
<1>2. \A x \in Uids : t[x].parent = b[x].parent
  BY <1>1, EndedNode
<1>3. \A x \in Uids : b[x].status = "live" => t[x].status \in {"live", "gone"}
  BY <1>1, EndedNode
<1>4. \A y \in Uids : b[y].status = "live" /\ b[y].parent \in S => y \in S
  <2> SUFFICES ASSUME NEW y \in Uids, b[y].status = "live", b[y].parent \in S, t[y].status = "live"
               PROVE  FALSE
    BY <1>3
  <2>1. IsLive(t, b[y].parent)
    BY <1>2, RootedFacts
  <2> QED
    BY <2>1, DirsFacts DEF IsLive
<1>5. S \in SUBSET Dirs /\ u \in S
  BY DirsFacts
<1> HIDE DEF S
<1>6. Subtree(b, u) \subseteq S
  BY <1>4, <1>5, SubtreeIsLeast
<1>7. ASSUME NEW x \in Uids PROVE t[x] = Cleared(b, u)[x]
  <2>1. CASE x \in Subtree(b, u)
    <3>1. t[x].status = "gone"
      BY <1>6, <2>1 DEF S
    <3>2. b[x].status = "live"
      BY <2>1, SubtreeLives
    <3>3. t[x] = Ended(b[x])
      BY <1>1, <3>1, <3>2
    <3> QED
      BY <2>1, <3>3, ClearedNodes
  <2>2. CASE x \notin Subtree(b, u)
    BY <1>1, <2>2, ClearedNodes
  <2> QED
    BY <2>1, <2>2
<1>8. Cleared(b, u) \in Tree
  BY ClearedNodes
<1> QED
  BY <1>7, <1>8 DEF Tree

LEMMA RemovalEmpties ==
  ASSUME NEW b \in Tree, NEW t \in Tree, NEW u \in Dirs, Emptying(b, t, u),
         NEW x \in Uids, x \in Subtree(b, u)
  PROVE  Emptying(b, Removed(t, x), u)
<1>1. \A y \in Uids : b[y] \in Node /\ t[y] \in Node
  BY DEF Tree
<1>2. ASSUME NEW y \in Uids PROVE y \in Subtree(t, x) => Removed(t, x)[y] = Ended(t[y])
  BY DEF Removed, Ended
<1>3. ASSUME NEW y \in Uids PROVE t[y] = b[y] \/ t[y] = Ended(b[y])
  BY DEF Emptying
<1>4. Subtree(t, x) \subseteq Subtree(b, u)
  <2>1. \A y \in Uids : t[y].status = "live" => t[y] = b[y]
    BY <1>1, <1>3, EndedNode
  <2>2. \A y \in Uids : t[y].status = "live" /\ t[y].parent \in Subtree(b, u) => y \in Subtree(b, u)
    BY <2>1, SubtreeHolds
  <2>3. Subtree(b, u) \in SUBSET Dirs
    BY SubtreeHolds
  <2> QED
    BY <2>2, <2>3, SubtreeIsLeast
<1>5. ASSUME NEW y \in Uids, y \in Subtree(t, x) PROVE Removed(t, x)[y] = Ended(b[y])
  BY <1>1, <1>2, <1>3, <1>5, EndedNode
<1>6. \A y \in Uids : y \notin Subtree(t, x) => Removed(t, x)[y] = t[y]
  BY NodesGone
<1> QED
  BY <1>4, <1>5, <1>6 DEF Emptying

LEMMA FileIsCleared ==
  ASSUME NEW b, NEW u, IsFile(b, u)
  PROVE  Removed(b, u) = Cleared(b, u)
BY DirsFacts DEF Cleared, IsFile

(* Below a file are its renditions, their renditions, and no directory:    *)
(* what else is in a file's subtree has its parent there.                  *)
LEMMA FileSubtree ==
  ASSUME NEW t \in Tree, IsRooted(t), NEW u, IsFile(t, u)
  PROVE  \A x \in Subtree(t, u) : /\ IsFile(t, x)
                                  /\ x # u => t[x].parent \in Subtree(t, u)
<1> DEFINE S == {x \in Uids : IsFile(t, x) /\ (x # u => t[x].parent \in Subtree(t, u))}
<1>1. u \in Uids /\ u \in Dirs
  BY DirsFacts DEF IsFile
<1>2. S \in SUBSET Dirs /\ u \in S
  BY <1>1, DirsFacts
<1>3. ASSUME NEW y \in Uids, t[y].status = "live", t[y].parent \in S PROVE y \in S
  <2>1. IsFile(t, t[y].parent) /\ t[y].parent \in Subtree(t, u)
    <3>1. IsFile(t, t[y].parent)
      BY <1>3
    <3>2. t[y].parent = u \/ t[t[y].parent].parent \in Subtree(t, u)
      BY <1>3
    <3>3. u \in Subtree(t, u)
      BY <1>1, SubtreeHolds
    <3>4. t[y].parent \in Subtree(t, u)
      BY <1>1, <3>1, <3>2, <3>3, SubtreeHolds DEF IsFile
    <3> QED
      BY <3>1, <3>4
  <2>2. IsFile(t, y)
    BY <1>3, <2>1, DirsFacts, RootedFacts DEF CanHold, IsDir, IsFile
  <2> QED
    BY <2>1, <2>2
<1> HIDE DEF S
<1>4. Subtree(t, u) \subseteq S
  BY <1>2, <1>3, SubtreeIsLeast
<1> QED
  BY <1>4 DEF S

(* The removal of a file, or of an empty directory, leaves the directories *)
(* other than that one, and their children but for what is removed.        *)
LEMMA LeavesDirectories ==
  ASSUME NEW t \in Tree, IsRooted(t), NEW x, CanRemoveFile(t, x) \/ CanRemoveDirectory(t, x)
  PROVE  /\ x \in Uids /\ t[x].status = "live" /\ x \in Subtree(t, x)
         /\ \A d \in Uids : IsDir(t, d) /\ d # x => Removed(t, x)[d] = t[d]
         /\ \A v \in Uids : t[v].status = "live" /\ IsDir(t, t[v].parent) /\ v # x =>
              Removed(t, x)[v] = t[v]
<1>1. x \in Uids /\ t[x].status = "live" /\ x \in Dirs
  BY DirsFacts DEF CanRemoveFile, CanRemoveDirectory, IsFile, IsDir
<1>2. x \in Subtree(t, x)
  BY <1>1, SubtreeHolds
<1>3. CASE IsFile(t, x)
  <2>1. ASSUME NEW d \in Uids, IsDir(t, d) PROVE d \notin Subtree(t, x)
    BY <1>3, <2>1, FileSubtree, DirsFacts DEF IsDir, IsFile
  <2>2. ASSUME NEW v \in Uids, IsDir(t, t[v].parent), v # x PROVE v \notin Subtree(t, x)
    <3> SUFFICES ASSUME v \in Subtree(t, x) PROVE FALSE
      OBVIOUS
    <3>1. t[v].parent \in Subtree(t, x)
      BY <1>3, <2>2, FileSubtree
    <3>2. IsFile(t, t[v].parent)
      BY <1>3, <3>1, FileSubtree
    <3> QED
      BY <2>2, <3>2, DirsFacts DEF IsDir, IsFile
  <2> QED
    BY <1>1, <1>2, <2>1, <2>2, NodesGone
<1>4. CASE ~IsFile(t, x)
  <2>1. Subtree(t, x) = {x}
    BY <1>1, <1>4, ChildlessSubtree DEF CanRemoveFile, CanRemoveDirectory
  <2> QED
    BY <1>1, <1>2, <2>1, NodesGone
<1> QED
  BY <1>3, <1>4

-----------------------------------------------------------------------------
(* What an RPC leaves is well-formed. *)

LEMMA WellKept ==
  ASSUME UniqueNames, NEW t, WellFormed(t), NEW u \in Uids
  PROVE  /\ \A d \in Dirs, n \in Names, k \in Kinds :
              CanCreate(t, u, d, n, k) => WellFormed(Created(t, u, d, n, k))
         /\ WellFormed(Filled(t, u))
         /\ \A n \in Names : CanRename(t, u, n) => WellFormed(Renamed(t, u, n))
         /\ \A d \in Dirs : CanMove(t, u, d) => WellFormed(Moved(t, u, d))
<1> USE DEF WellFormed
<1>1. ASSUME NEW d \in Dirs, NEW n \in Names, NEW k \in Kinds, CanCreate(t, u, d, n, k)
      PROVE  WellFormed(Created(t, u, d, n, k))
  <2>1. BringsAtMost(u, t, Created(t, u, d, n, k))
    BY <1>1, CreatedBrings
  <2>2. Created(t, u, d, n, k) \in Tree
    BY <1>1, CoreKeepsTree
  <2> QED
    BY <1>1, <2>1, <2>2, BroughtIsFresh, CoreStaysRooted
<1>2. t[u].name \in Names /\ t[u].kind \in Kinds /\ t[u].parent \in Dirs
  BY NodeFacts
<1>3. Filled(t, u) \in Tree
  BY <1>2, CoreKeepsTree
<1>4. WellFormed(Filled(t, u))
  BY <1>3, FilledBrings, BroughtIsFresh, CoreStaysRooted
<1>5. ASSUME NEW n \in Names, CanRename(t, u, n) PROVE WellFormed(Renamed(t, u, n))
  <2>1. Renamed(t, u, n) \in Tree
    BY <1>2, CoreKeepsTree
  <2>2. BringsAtMost(u, t, Renamed(t, u, n))
    BY <1>5, RenamedBrings
  <2> QED
    BY <2>1, <2>2, BroughtIsFresh, CoreStaysRooted
<1>6. ASSUME NEW d \in Dirs, CanMove(t, u, d) PROVE WellFormed(Moved(t, u, d))
  <2>1. Moved(t, u, d) \in Tree
    BY <1>2, CoreKeepsTree
  <2>2. BringsAtMost(u, t, Moved(t, u, d))
    BY <1>6, MovedBrings
  <2> QED
    BY <1>6, <2>1, <2>2, BroughtIsFresh, CoreStaysRooted
<1> QED
  BY <1>1, <1>4, <1>5, <1>6

(* To rename a node to the name that it has is nothing. *)
LEMMA SameName ==
  ASSUME NEW t \in Tree, NEW u \in Uids, NEW n, t[u].name = n
  PROVE  Renamed(t, u, n) = t
<1>1. t[u] \in Node /\ [t[u] EXCEPT !.name = n] = t[u]
  BY DEF Tree, Node
<1> QED
  BY <1>1 DEF Renamed, Tree

-----------------------------------------------------------------------------
(* The destination *)

LEMMA ReadyFacts ==
  ASSUME NEW b, WellFormed(b), NEW r, r.dest \in Paths
  PROVE  /\ WellFormed(Ready(b, r)) /\ Kept(b, Ready(b, r))
         /\ Denoted(Ready(b, r), r.dest) = {}
         /\ Denoted(b, r.dest) = {} => Ready(b, r) = b
<1>1. r.dest \in Seq(Names) /\ r.dest # RootPath
  BY PathFacts
<1>2. SiblingsDiffer(b) /\ b \in Tree
  BY DEF WellFormed
<1>3. CASE NodeAt(b, r.dest) = NoUid
  <2>1. Ready(b, r) = b
    BY <1>2, <1>3, NothingIsCleared DEF Ready
  <2>2. Kept(b, b)
    BY DEF Kept
  <2>3. Denoted(b, r.dest) = {}
    BY <1>1, <1>2, <1>3, NodeAtFacts
  <2> QED
    BY <2>1, <2>2, <2>3
<1>4. CASE NodeAt(b, r.dest) # NoUid
  <2>1. NodeAt(b, r.dest) \in Denoted(b, r.dest)
    BY <1>1, <1>2, <1>4, NodeAtFacts
  <2>2. NodeAt(b, r.dest) \in Uids
    BY <1>1, <2>1, DenotedBelow
  <2> QED
    BY <1>1, <2>1, <2>2, ClearedFacts DEF Ready
<1> QED
  BY <1>3, <1>4

(* Nothing is at the destination: no child of its parent has its name. *)
LEMMA NameIsLeft ==
  ASSUME NEW t, NEW q \in Paths, Denoted(t, q) = {}, NEW d \in Denoted(t, Parent(q))
  PROVE  ChildrenNamed(t, d, Base(q)) = {}
<1>1. q \in Seq(Names) /\ q # RootPath
  BY PathFacts
<1>2. ASSUME NEW x \in ChildrenNamed(t, d, Base(q)) PROVE FALSE
  <2>1. x \in Uids /\ t[x].status = "live" /\ t[x].parent = d /\ t[x].name = Base(q)
    BY <1>2, ChildFacts
  <2>2. x \in Denoted(t, q)
    BY <1>1, <2>1, DenotedBelow
  <2> QED
    BY <2>2
<1> QED
  BY <1>2

(* A path that is asked for does not go through one with nothing below it. *)
LEMMA NotThrough ==
  ASSUME NEW p \in Paths, NothingBelow(p), NEW q \in Paths
  PROVE  /\ q # p => \A k \in 0..Len(q) : Prefix(q, k) # p
         /\ \A k \in 0..Len(Parent(q)) : Prefix(Parent(q), k) # p
         /\ Parent(q) # p
<1>1. p \in Seq(Names) /\ q \in Seq(Names) /\ q # RootPath /\ p # RootPath /\ Len(p) # 0
  BY PathFacts
<1>2. Len(q) \in Nat \ {0} /\ Len(p) \in Nat
  BY <1>1, PathFacts
<1>3. ASSUME NEW k \in 0..Len(q), k # Len(q) PROVE Prefix(q, k) # p
  <2> SUFFICES ASSUME Prefix(q, k) = p PROVE FALSE
    OBVIOUS
  <2>1. Len(p) = k
    BY <1>1, PrefixFacts
  <2> QED
    BY <1>2, <1>3, <2>1 DEF NothingBelow
<1>4. Prefix(q, Len(q)) = q
  BY <1>1, PrefixFacts
<1>5. Parent(q) = Prefix(q, Len(q) - 1) /\ Len(Parent(q)) = Len(q) - 1 /\ Parent(q) \in Seq(Names)
  BY <1>1, LastFacts
<1>6. ASSUME NEW k \in 0..Len(Parent(q)) PROVE Prefix(Parent(q), k) # p
  <2>1. k \in Nat /\ k <= Len(q) - 1 /\ k \in 0..Len(q) /\ k # Len(q) /\ Len(q) - 1 \in 0..Len(q)
    BY <1>2, <1>5, <1>6
  <2> DEFINE m == Len(q) - 1
  <2>a. m \in 0..Len(q) /\ Parent(q) = Prefix(q, m)
    BY <1>5, <2>1
  <2> HIDE DEF m
  <2>b. \A i \in 1..m : Prefix(q, m)[i] = q[i]
    BY <1>1, <2>a, PrefixFacts
  <2>2. \A i \in 1..(Len(q) - 1) : Parent(q)[i] = q[i]
    BY <2>a, <2>b DEF m
  <2>3. Prefix(Parent(q), k) = Prefix(q, k)
    <3>1. /\ Prefix(Parent(q), k) \in Seq(Names) /\ Len(Prefix(Parent(q), k)) = k
          /\ \A i \in 1..k : Prefix(Parent(q), k)[i] = Parent(q)[i]
      BY <1>5, <1>6, PrefixFacts
    <3>2. /\ Prefix(q, k) \in Seq(Names) /\ Len(Prefix(q, k)) = k
          /\ \A i \in 1..k : Prefix(q, k)[i] = q[i]
      BY <1>1, <2>1, PrefixFacts
    <3>3. \A i \in 1..k : i \in 1..(Len(q) - 1)
      BY <1>2, <2>1
    <3>4. \A i \in 1..k : Prefix(Parent(q), k)[i] = Prefix(q, k)[i]
      BY <2>2, <3>1, <3>2, <3>3
    <3> HIDE DEF Prefix
    <3> QED
      BY <2>1, <3>1, <3>2, <3>4
  <2> QED
    BY <1>3, <2>1, <2>3
<1>7. Parent(q) # p
  <2>1. Len(q) - 1 \in 0..Len(q) /\ Len(q) - 1 # Len(q)
    BY <1>2
  <2> QED
    BY <1>3, <1>5, <2>1
<1> QED
  BY <1>3, <1>4, <1>6, <1>7

(* A node that was moved or renamed is where it was to be, and the map is  *)
(* right but for its source.                                               *)
LEMMA RelocatedFacts ==
  ASSUME NEW t \in Tree, NEW s \in Tree, NEW p \in Paths, NothingBelow(p), NEW q \in Paths,
         NEW u \in Denoted(t, p) \cap Uids, NEW d \in Denoted(t, Parent(q)),
         BecomesNode(s, t, u, "live", t[u].kind, d, Base(q))
  PROVE  u \in Denoted(s, q)
<1>1. p \in Seq(Names) /\ q \in Seq(Names) /\ q # RootPath /\ Parent(q) \in Seq(Names)
  BY PathFacts, LastFacts
<1>2. \A v \in Uids : v # u => s[v] = t[v]
  BY DEF BecomesNode
<1>3. d \in Denoted(s, Parent(q))
  BY <1>1, <1>2, NotThrough, RouteKept
<1>4. s[u].status = "live" /\ s[u].parent = d /\ s[u].name = Base(q)
  BY DEF BecomesNode
<1> QED
  BY <1>1, <1>3, <1>4, DenotedBelow

LEMMA CacheForgets ==
  ASSUME NEW t \in Tree, NEW s \in Tree, NEW p \in Paths, NothingBelow(p),
         NEW u \in Denoted(t, p) \cap Uids, \A v \in Uids : v # u => s[v] = t[v],
         NEW m, m \in [Paths -> Dirs \cup {NoUid}], CacheIsRight(t, m)
  PROVE  CacheIsRight(s, [m EXCEPT ![p] = NoUid])
<1>1. p \in Seq(Names)
  BY PathFacts
<1>2. t[u].status = "live"
  BY <1>1, FoundFacts
<1> SUFFICES ASSUME NEW q \in Paths, q # p, m[q] # NoUid PROVE Right(s, q, m[q])
  BY DEF CacheIsRight
<1>3. Right(t, q, m[q]) /\ q \in Seq(Names) /\ q # RootPath
  BY PathFacts DEF CacheIsRight
<1>4. m[q] # u
  <2> SUFFICES ASSUME m[q] = u PROVE FALSE
    OBVIOUS
  <2>1. u \in Denoted(t, q)
    BY <1>2, <1>3 DEF Right, IsLive
  <2> QED
    BY <1>1, <1>3, <2>1, PathIsOne
<1>5. m[q] \in Dirs /\ (m[q] \in Uids => s[m[q]] = t[m[q]])
  BY <1>3, <1>4 DEF Right
<1>6. ASSUME IsLive(s, m[q]) PROVE m[q] \in Denoted(s, q)
  <2>1. m[q] \in Denoted(t, q)
    BY <1>3, <1>5, <1>6 DEF Right, IsLive
  <2>2. \A k \in 0..Len(q) : Prefix(q, k) # p
    BY NotThrough
  <2> QED
    BY <1>1, <1>3, <2>1, <2>2, RouteKept
<1> QED
  BY <1>3, <1>5, <1>6 DEF Right

-----------------------------------------------------------------------------
(* A copy, and what is renamed or moved. *)

LEMMA CopiedFacts ==
  ASSUME NEW t, WellFormed(t), NEW u \in Uids, NEW d \in Dirs, NEW v \in Uids,
         CanCopy(t, u, d, v), NEW s, s = Copied(t, u, d, v)
  PROVE  /\ s \in Tree /\ IsRooted(s) /\ Kept(t, s)
         /\ \A x \in Uids : x # v => s[x] = t[x]
         /\ s[v].status = "live" /\ s[v].parent = d /\ s[v].name = t[u].name
         /\ Children(s, d) = Children(t, d) \cup {v} /\ v \notin Children(t, d)
         /\ IsLive(s, d)
<1>1. t \in Tree /\ t[u] \in Node /\ t[u].status = "live" /\ t[v].status = "free" /\ u # v
  BY DirsFacts, NodeFacts DEF WellFormed, CanCopy, IsLive
<1>2. s \in Tree
  BY <1>1, CopyKeepsTree
<1>3. \A x \in Uids : x # v => s[x] = t[x]
  BY <1>1 DEF Copied, Tree
<1>4. s[v] = [t[u] EXCEPT !.parent = d]
  BY <1>1 DEF Copied, Tree
<1>5. s[v].status = "live" /\ s[v].parent = d /\ s[v].name = t[u].name
  BY <1>1, <1>4 DEF Node
<1>6. Kept(t, s)
  BY <1>1, <1>3 DEF Kept
<1>7. \A x, k : CanHold(t, x, k) => CanHold(s, x, k)
  BY <1>1, <1>3 DEF CanHold, IsDir, IsFile
<1>8. CanHold(s, d, s[v].kind) /\ IsLive(s, d)
  <2>1. s[v].kind = t[u].kind
    BY <1>1, <1>4 DEF Node
  <2> QED
    BY <1>7, <2>1, HolderFacts DEF CanCopy
<1>9. IsRooted(s)
  <2> SUFFICES ASSUME NEW x \in Uids, s[x].status = "live"
               PROVE  CanHold(s, s[x].parent, s[x].kind)
    BY DEF IsRooted
  <2>1. CASE x = v
    BY <1>5, <1>8, <2>1
  <2>2. CASE x # v
    BY <1>3, <1>7, <2>2 DEF WellFormed, IsRooted
  <2> QED
    BY <2>1, <2>2
<1>10. Children(s, d) = Children(t, d) \cup {v} /\ v \notin Children(t, d)
  BY <1>1, <1>3, <1>5 DEF Children
<1> QED
  BY <1>2, <1>3, <1>5, <1>6, <1>8, <1>9, <1>10

(* The copy under its new name, where nothing had that name. *)
LEMMA CopyIsNamed ==
  ASSUME NEW t, WellFormed(t), NEW q \in Paths, Denoted(t, q) = {},
         NEW u \in Uids, NEW d \in Denoted(t, Parent(q)), NEW v \in Uids,
         CanCopy(t, u, d, v), NEW s, s = Copied(t, u, d, v),
         NEW f, f = Renamed(s, v, Base(q))
  PROVE  /\ WellFormed(f) /\ Kept(t, f) /\ v \in Denoted(f, q)
         /\ t[u].name # Base(q) => CanRename(s, v, Base(q))
         /\ t[u].name = Base(q) => f = s
<1>1. /\ t \in Tree /\ q \in Seq(Names) /\ q # RootPath /\ Base(q) \in Names
      /\ Parent(q) \in Seq(Names)
  BY PathFacts, LastFacts DEF WellFormed
<1>2. d \in Dirs /\ v # Root
  BY <1>1, DenotedType, DirsFacts
<1>3. /\ s \in Tree /\ IsRooted(s) /\ Kept(t, s)
      /\ \A x \in Uids : x # v => s[x] = t[x]
      /\ s[v].status = "live" /\ s[v].parent = d /\ s[v].name = t[u].name
      /\ t[v].status = "free"
  BY <1>2, CopiedFacts DEF CanCopy
<1>4. BecomesNode(f, s, v, s[v].status, s[v].kind, s[v].parent, Base(q))
  BY <1>3, RenamedBecomes
<1>5. /\ \A x \in Uids : x # v => f[x] = t[x]
      /\ f[v].status = "live" /\ f[v].parent = d /\ f[v].name = Base(q)
      /\ f[v].kind = s[v].kind
  BY <1>3, <1>4 DEF BecomesNode
<1>6. f \in Tree
  <2>1. s[v].kind \in Kinds
    BY <1>3, NodeFacts
  <2> QED
    BY <1>1, <1>2, <1>3, <2>1, CoreKeepsTree
<1>7. IsRooted(f)
  BY <1>1, <1>3, CoreStaysRooted
<1>8. ChildrenNamed(t, d, Base(q)) = {}
  BY NameIsLeft
<1>9. BringsAtMost(v, t, f)
  <2>1. \A x \in Uids \ {v} : f[x] = t[x]
    BY <1>5
  <2> QED
    BY <1>5, <1>8, <2>1, BringsOne
<1>10. WellFormed(f)
  BY <1>6, <1>7, <1>9, BroughtIsFresh DEF WellFormed
<1>11. Kept(t, f)
  BY <1>3, <1>5 DEF Kept
<1>12. IsLive(f, d)
  BY <1>5, <1>6, <1>7, RootedFacts
<1>13. d \in Denoted(f, Parent(q))
  BY <1>1, <1>7, <1>11, <1>12, DenotedKept
<1>14. v \in Denoted(f, q)
  BY <1>1, <1>5, <1>13, DenotedBelow
<1>15. ASSUME t[u].name # Base(q) PROVE CanRename(s, v, Base(q))
  <2>1. ChildrenNamed(s, d, Base(q)) = {}
    BY <1>3, <1>8, <1>15, ChildFacts
  <2> QED
    BY <1>2, <1>3, <2>1 DEF CanRename, IsLive, NameIsFree
<1>16. ASSUME t[u].name = Base(q) PROVE f = s
  BY <1>3, <1>16, SameName
<1> QED
  BY <1>10, <1>11, <1>14, <1>15, <1>16

(* A node that is moved is free to take the name that it is to have, and   *)
(* is then where it was to be.                                             *)
LEMMA MoveIsNamed ==
  ASSUME UniqueNames, NEW t, WellFormed(t), NEW p \in Paths, NothingBelow(p),
         NEW q \in Paths, Denoted(t, q) = {},
         NEW u \in Denoted(t, p) \cap Uids, NEW d \in Denoted(t, Parent(q)),
         CanMove(t, u, d), NEW s, s = Moved(t, u, d), NEW f, f = Renamed(s, u, Base(q))
  PROVE  /\ WellFormed(s) /\ WellFormed(f) /\ u \in Denoted(f, q) /\ CanRename(s, u, Base(q))
         /\ \A x \in Uids : x # u => f[x] = t[x]
         /\ Base(p) = Base(q) => f = s
<1>1. /\ t \in Tree /\ q \in Seq(Names) /\ q # RootPath /\ Base(q) \in Names
      /\ Parent(q) \in Seq(Names) /\ p \in Seq(Names)
  BY PathFacts, LastFacts DEF WellFormed
<1>2. d \in Dirs /\ u # Root /\ u \in Uids /\ t[u].status = "live" /\ t[u].name = Base(p)
  BY <1>1, DenotedType, DirsFacts, FoundFacts
<1>3. WellFormed(s) /\ s \in Tree
  BY <1>2, WellKept DEF WellFormed
<1>4. BecomesNode(s, t, u, t[u].status, t[u].kind, d, t[u].name)
  BY <1>1, <1>2, MovedBecomes
<1>5. BecomesNode(f, s, u, s[u].status, s[u].kind, s[u].parent, Base(q))
  BY <1>2, <1>3, RenamedBecomes
<1>6. BecomesNode(f, t, u, "live", t[u].kind, d, Base(q))
  BY <1>2, <1>4, <1>5 DEF BecomesNode
<1>7. ChildrenNamed(t, d, Base(q)) = {}
  BY NameIsLeft
<1>8. s[u].name = Base(q) \/ ChildrenNamed(s, d, Base(q)) = {}
  BY <1>4, <1>7, ChildFacts DEF BecomesNode
<1>9. CanRename(s, u, Base(q))
  BY <1>2, <1>4, <1>8 DEF CanRename, IsLive, NameIsFree, BecomesNode
<1>10. WellFormed(f) /\ f \in Tree
  BY <1>1, <1>2, <1>3, <1>9, WellKept DEF WellFormed
<1>11. u \in Denoted(f, q)
  BY <1>1, <1>6, <1>10, RelocatedFacts
<1>12. \A x \in Uids : x # u => f[x] = t[x]
  BY <1>6 DEF BecomesNode
<1>13. ASSUME Base(p) = Base(q) PROVE f = s
  <2>1. s[u].name = Base(q)
    BY <1>2, <1>4, <1>13 DEF BecomesNode
  <2> QED
    BY <1>2, <1>3, <2>1, SameName
<1> QED
  BY <1>3, <1>9, <1>10, <1>11, <1>12, <1>13

(* The same for a node that is only renamed. *)
LEMMA PureRenameIsNamed ==
  ASSUME UniqueNames, NEW t, WellFormed(t), NEW p \in Paths, NothingBelow(p),
         NEW q \in Paths, Denoted(t, q) = {}, Parent(p) = Parent(q),
         NEW u \in Denoted(t, p) \cap Uids, NEW f, f = Renamed(t, u, Base(q))
  PROVE  /\ WellFormed(f) /\ u \in Denoted(f, q) /\ CanRename(t, u, Base(q))
         /\ \A x \in Uids : x # u => f[x] = t[x]
<1>1. /\ t \in Tree /\ q \in Seq(Names) /\ q # RootPath /\ Base(q) \in Names
      /\ p \in Seq(Names)
  BY PathFacts, LastFacts DEF WellFormed
<1>2. /\ u \in Uids /\ u # Root /\ t[u].status = "live"
      /\ t[u].parent \in Denoted(t, Parent(q))
  BY <1>1, FoundFacts
<1>3. ChildrenNamed(t, t[u].parent, Base(q)) = {}
  BY <1>2, NameIsLeft
<1>4. CanRename(t, u, Base(q))
  BY <1>2, <1>3 DEF CanRename, IsLive, NameIsFree
<1>5. WellFormed(f) /\ f \in Tree
  BY <1>1, <1>2, <1>4, WellKept DEF WellFormed
<1>6. BecomesNode(f, t, u, t[u].status, t[u].kind, t[u].parent, Base(q))
  BY <1>1, <1>2, RenamedBecomes
<1>7. u \in Denoted(f, q)
  BY <1>1, <1>2, <1>5, <1>6, RelocatedFacts
<1> QED
  BY <1>4, <1>5, <1>6, <1>7 DEF BecomesNode

-----------------------------------------------------------------------------
(* What the invariant says at each point. *)

LEMMA AtTarget ==
  ASSUME NEW b, NEW t, NEW j, j.pc = "target"
  PROVE  JobIsExact(b, t, j) <=>
           /\ j.req.method \in {"GET", "HEAD", "DELETE", "PROPFIND", "LOCK", "PUT"}
           /\ t = b /\ ~j.fresh
           /\ j.req.method = "PUT" => j.par \in Denoted(b, Parent(j.req.path))
BY DEF JobIsExact, MethodFits, IsUntouched, IsUploading, IsRemoving, IsRelocating, IsRenaming,
       IsDone, NeedsParent, UntouchedPoints, FoundHere, PlacedPoints

LEMMA AtParent ==
  ASSUME NEW b, NEW t, NEW j, j.pc = "parent"
  PROVE  JobIsExact(b, t, j) <=>
           j.req.method \in {"PUT", "MKCOL"} /\ t = b /\ ~j.fresh
BY DEF JobIsExact, MethodFits, IsUntouched, IsUploading, IsRemoving, IsRelocating, IsRenaming,
       IsDone, NeedsParent, UntouchedPoints, FoundHere, PlacedPoints

LEMMA AtCreation ==
  ASSUME NEW b, NEW t, NEW j, j.pc \in {"touch", "mkdir"}
  PROVE  JobIsExact(b, t, j) <=>
           /\ t = b /\ j.par \in Denoted(b, Parent(j.req.path))
           /\ j.req.method = IF j.pc = "touch" THEN "PUT" ELSE "MKCOL"
           /\ j.pc = "touch" => j.fresh /\ Denoted(b, j.req.path) = {}
BY DEF JobIsExact, MethodFits, IsUntouched, IsUploading, IsRemoving, IsRelocating, IsRenaming,
       IsDone, NeedsParent, UntouchedPoints, FoundHere, PlacedPoints

LEMMA AtUpload ==
  ASSUME NEW b, NEW t, NEW j, j.pc = "upload"
  PROVE  JobIsExact(b, t, j) <=> j.req.method = "PUT" /\ IsUploading(b, t, j)
BY DEF JobIsExact, MethodFits, IsUntouched, IsRemoving, IsRelocating, IsRenaming,
       IsDone, NeedsParent, UntouchedPoints, FoundHere, PlacedPoints

LEMMA AtMap ==
  ASSUME NEW b, NEW t, NEW j, j.pc = "map"
  PROVE  JobIsExact(b, t, j) <=>
           /\ j.req.method \in {"PUT", "MKCOL", "COPY", "MOVE"}
           /\ j.uid \in Denoted(t, SubjectOf(j.req))
           /\ Outcome(t, MapStatus(j)) \in Outcomes(b, j.req)
BY DEF JobIsExact, MethodFits, IsUntouched, IsUploading, IsRemoving, IsRelocating, IsRenaming,
       IsDone, NeedsParent, UntouchedPoints, FoundHere, PlacedPoints

LEMMA AtForget ==
  ASSUME NEW b, NEW t, NEW j, j.pc = "forget"
  PROVE  JobIsExact(b, t, j) <=>
           /\ j.req.method = "MOVE"
           /\ j.uid \in Denoted(t, SubjectOf(j.req))
           /\ Outcome(t, 201) \in Outcomes(b, j.req)
BY DEF JobIsExact, MethodFits, IsUntouched, IsUploading, IsRemoving, IsRelocating, IsRenaming,
       IsDone, NeedsParent, UntouchedPoints, FoundHere, PlacedPoints

(* Where a node was found, and nothing was changed. *)
LEMMA AtFound ==
  ASSUME NEW b, NEW t, NEW j, j.pc \in FoundHere
  PROVE  JobIsExact(b, t, j) <=>
           /\ t = b /\ j.uid \in Denoted(b, SubjectOf(j.req))
           /\ j.pc = "download" => j.req.method = "GET"
           /\ j.pc \in {"list", "map entries"} => j.req.method = "PROPFIND"
           /\ j.pc = "remove file" => IsFile(b, j.uid)
           /\ j.pc = "map entries" =>
                \A e \in j.entries : Append(j.req.path, e.name) \in Paths
                                     /\ e.uid \in Denoted(b, Append(j.req.path, e.name))
BY DEF JobIsExact, MethodFits, IsUntouched, IsUploading, IsRemoving, IsRelocating, IsRenaming,
       IsDone, NeedsParent, UntouchedPoints, FoundHere, PlacedPoints

LEMMA AtRemoval ==
  ASSUME NEW b, NEW t, NEW j, j.pc \in {"remove tree", "drop"}
  PROVE  JobIsExact(b, t, j) <=> IsRemoving(b, t, j)
BY DEF JobIsExact, MethodFits, IsUntouched, IsUploading, IsRelocating, IsRenaming,
       IsDone, NeedsParent, UntouchedPoints, FoundHere, PlacedPoints

LEMMA AtDest ==
  ASSUME NEW b, NEW t, NEW j, j.pc = "dest"
  PROVE  JobIsExact(b, t, j) <=> t = b
BY DEF JobIsExact, MethodFits, IsUntouched, IsUploading, IsRemoving, IsRelocating, IsRenaming,
       IsDone, NeedsParent, UntouchedPoints, FoundHere, PlacedPoints

LEMMA AtSource ==
  ASSUME NEW b, NEW t, NEW j, j.pc = "source"
  PROVE  JobIsExact(b, t, j) <=> IsReady(b, j.req) /\ t = Ready(b, j.req)
BY DEF JobIsExact, MethodFits, IsUntouched, IsUploading, IsRemoving, IsRelocating, IsRenaming,
       IsDone, NeedsParent, UntouchedPoints, FoundHere, PlacedPoints

LEMMA AtDestParent ==
  ASSUME NEW b, NEW t, NEW j, j.pc = "dparent"
  PROVE  JobIsExact(b, t, j) <=>
           /\ IsReady(b, j.req) /\ t = Ready(b, j.req) /\ ~PureRename(j.req)
           /\ j.uid \in Denoted(t, j.req.path) \cap Uids
BY DEF JobIsExact, MethodFits, IsUntouched, IsUploading, IsRemoving, IsRelocating, IsRenaming,
       IsDone, NeedsParent, UntouchedPoints, FoundHere, PlacedPoints

LEMMA AtPlaced ==
  ASSUME NEW b, NEW t, NEW j, j.pc \in {"before", "copy", "move"}
  PROVE  JobIsExact(b, t, j) <=>
           /\ IsReady(b, j.req) /\ t = Ready(b, j.req)
           /\ j.uid \in Denoted(t, j.req.path) \cap Uids
           /\ j.par \in Denoted(t, Parent(j.req.dest))
           /\ j.pc = "move" => ~PureRename(j.req) /\ j.req.method = "MOVE"
           /\ j.pc = "before" => Base(j.req.dest) # Base(j.req.path)
           /\ j.pc = "copy" /\ Base(j.req.dest) # Base(j.req.path) /\ IsLive(t, j.par) =>
                j.before = Children(t, j.par)
BY DEF JobIsExact, MethodFits, IsUntouched, IsUploading, IsRemoving, IsRelocating, IsRenaming,
       IsDone, NeedsParent, UntouchedPoints, FoundHere, PlacedPoints

LEMMA AtAfter ==
  ASSUME NEW b, NEW t, NEW j, j.pc = "after", NEW c, c = Ready(b, j.req)
  PROVE  JobIsExact(b, t, j) <=>
           /\ IsReady(b, j.req) /\ Base(j.req.dest) # Base(j.req.path)
           /\ j.uid \in Denoted(c, j.req.path) \cap Uids
           /\ j.par \in Denoted(c, Parent(j.req.dest))
           /\ j.before = Children(c, j.par)
           /\ \E v \in Uids : CanCopy(c, j.uid, j.par, v) /\ t = Copied(c, j.uid, j.par, v)
BY DEF JobIsExact, MethodFits, IsUntouched, IsUploading, IsRemoving, IsRelocating, IsRenaming,
       IsDone, NeedsParent, UntouchedPoints, FoundHere, PlacedPoints

LEMMA AtRename ==
  ASSUME NEW b, NEW t, NEW j, j.pc = "rename"
  PROVE  JobIsExact(b, t, j) <=>
           /\ IsReady(b, j.req)
           /\ IF j.req.method = "MOVE" THEN IsMoveRenaming(b, t, j) ELSE IsCopyRenaming(b, t, j)
BY DEF JobIsExact, MethodFits, IsUntouched, IsUploading, IsRemoving, IsRelocating, IsRenaming,
       IsDone, NeedsParent, UntouchedPoints, FoundHere, PlacedPoints

LEMMA AtReply ==
  ASSUME NEW b, NEW t, NEW j, j.pc = "replied"
  PROVE  JobIsExact(b, t, j) <=>
           Outcome(t, j.status) \in Outcomes(b, j.req) \cup {Outcome(b, 401)}
BY DEF JobIsExact, MethodFits, IsUntouched, IsUploading, IsRemoving, IsRelocating, IsRenaming,
       IsDone, NeedsParent, UntouchedPoints, FoundHere, PlacedPoints

LEMMA AtRest ==
  ASSUME NEW b, NEW t, NEW j, j.pc = "idle"
  PROVE  JobIsExact(b, t, j)
BY DEF JobIsExact, MethodFits, IsUntouched, IsUploading, IsRemoving, IsRelocating, IsRenaming,
       IsDone, NeedsParent, UntouchedPoints, FoundHere, PlacedPoints

-----------------------------------------------------------------------------
(* A step of a handler *)

(* What a step of w's handler is to leave. *)
StaysExact(w) == Exact(begun[w], tree', cache', job'[w], call'[w])

Busy(w) == job[w].pc \notin {"idle", "replied"}

LEMMA HereFacts ==
  ASSUME AloneInv, NEW w \in Workers
  PROVE  /\ HandlersInv /\ TypeOK /\ CacheTypeOK /\ tree \in Tree
         /\ job[w] \in Job /\ JobIsPlaced(job[w])
         /\ Req(w) = job[w].req /\ Req(w) \in Request /\ Req(w) \in Requests \cup {NoRequest}
         /\ Req(w).path \in Paths \cup {RootPath} /\ Req(w).path \in Seq(Names)
         /\ Is(w, {"COPY", "MOVE"}) => Req(w).dest \in Paths /\ Req(w).dest \in Seq(Names)
         /\ Exact(begun[w], tree, cache, job[w], call[w])
         /\ JobIsExact(begun[w], tree, job[w]) /\ CallFits(tree, job[w], call[w])
         /\ job[w].pc # "idle" => WellFormed(begun[w])
         /\ job[w].pc \notin {"after", "rename"} => WellFormed(tree)
         /\ job[w].pc \notin {"after", "rename", "forget"} => CacheIsRight(tree, cache)
         /\ job[w].pc \in {"after", "rename"} => CacheIsRight(Ready(begun[w], Req(w)), cache)
         /\ job[w].pc = "forget" => CacheIsRight(tree, [cache EXCEPT ![Req(w).path] = NoUid])
         /\ job[w].pc \notin ResolvingPoints => call[w].phase = "idle"
<1>1. /\ HandlersInv /\ TypeOK /\ CacheTypeOK /\ tree \in Tree
      /\ job[w] \in Job /\ JobIsPlaced(job[w]) /\ JobTypeOK
  BY StepFacts DEF AloneInv
<1>2. Req(w) = job[w].req /\ Req(w) \in Request /\ Req(w) \in Requests \cup {NoRequest}
  BY <1>1, RequestFacts DEF Req, Job
<1>3. Req(w).path \in Paths \cup {RootPath} /\ Req(w).path \in Seq(Names)
  BY <1>1, <1>2, RequestFacts
<1>4. Is(w, {"COPY", "MOVE"}) => Req(w).dest \in Paths /\ Req(w).dest \in Seq(Names)
  BY <1>1, JobFacts, PathFacts
<1>5. Exact(begun[w], tree, cache, job[w], call[w])
  BY DEF AloneInv
<1>6. /\ JobIsExact(begun[w], tree, job[w]) /\ CallFits(tree, job[w], call[w])
      /\ job[w].pc # "idle" => WellFormed(begun[w])
      /\ job[w].pc \notin {"after", "rename"} => WellFormed(tree)
      /\ CacheFits(begun[w], tree, cache, job[w])
  BY <1>5 DEF Exact
<1>7. /\ job[w].pc \notin {"after", "rename", "forget"} => CacheIsRight(tree, cache)
      /\ job[w].pc \in {"after", "rename"} => CacheIsRight(Ready(begun[w], Req(w)), cache)
      /\ job[w].pc = "forget" => CacheIsRight(tree, [cache EXCEPT ![Req(w).path] = NoUid])
  BY <1>2, <1>6 DEF CacheFits
<1>8. job[w].pc \notin ResolvingPoints => call[w].phase = "idle"
  BY <1>6 DEF CallFits
<1> QED
  BY <1>1, <1>2, <1>3, <1>4, <1>5, <1>6, <1>7, <1>8

(* An RPC fails only when the service refuses it. *)
LEMMA OnlyRefused ==
  ASSUME Alone, NEW results, RpcFails(results)
  PROVE  results = {} /\ UNCHANGED tree
BY DEF Alone, RpcFails

LEMMA NoneRefused ==
  ASSUME Alone, NEW can, NEW t, RpcFails(Result(can, t))
  PROVE  ~can /\ UNCHANGED tree
<1>1. Result(can, t) = {} /\ UNCHANGED tree
  BY OnlyRefused
<1>2. can => t \in Result(can, t)
  BY DEF Result
<1> QED
  BY <1>1, <1>2

(* A handler that waits for no resolution has none. *)
CallRests(w) == call'[w].phase = "idle"

LEMMA TakenRests ==
  ASSUME AloneInv, NEW w \in Workers
  PROVE  /\ Taken(w) => CallRests(w)
         /\ job[w].pc \notin ResolvingPoints /\ UNCHANGED call => CallRests(w)
<1>1. call \in [Workers -> Call] /\ (job[w].pc \notin ResolvingPoints => call[w].phase = "idle")
  BY HereFacts DEF TypeOK
<1> QED
  BY <1>1 DEF Taken, CallRests, NoCall

LEMMA ReplyExact ==
  ASSUME AloneInv, NEW w \in Workers, Busy(w), NEW s, Reply(w, s), CallRests(w),
         WellFormed(tree'), CacheIsRight(tree', cache'),
         Outcome(tree', s) \in Outcomes(begun[w], Req(w)) \cup {Outcome(begun[w], 401)}
  PROVE  StaysExact(w)
<1> DEFINE k == [NoJob EXCEPT !.pc = "replied", !.req = Req(w), !.uid = job[w].uid, !.status = s]
<1>1. job'[w] = k
  BY HereFacts DEF Reply, Becomes, JobTypeOK, HandlersInv
<1>2. k.pc = "replied" /\ k.req = Req(w) /\ k.status = s
  BY DEF NoJob
<1> HIDE DEF k
<1>3. JobIsExact(begun[w], tree', k)
  BY <1>2, AtReply
<1>4. CacheFits(begun[w], tree', cache', k)
  BY <1>2 DEF CacheFits
<1>5. CallFits(tree', k, call'[w])
  BY DEF CallFits, CallRests
<1>6. WellFormed(begun[w])
  BY HereFacts DEF Busy
<1> QED
  BY <1>1, <1>3, <1>4, <1>5, <1>6 DEF StaysExact, Exact

LEMMA GoExact ==
  ASSUME AloneInv, NEW w \in Workers, Busy(w), NEW k, Becomes(w, k),
         k.pc \notin {"idle", "replied"},
         k.pc \notin {"after", "rename"} => WellFormed(tree'),
         CacheFits(begun[w], tree', cache', k), CallFits(tree', k, call'[w]),
         JobIsExact(begun[w], tree', k)
  PROVE  StaysExact(w)
<1>1. job'[w] = k
  BY HereFacts DEF Becomes, JobTypeOK, HandlersInv
<1>2. WellFormed(begun[w])
  BY HereFacts DEF Busy
<1> QED
  BY <1>1, <1>2 DEF StaysExact, Exact

(* A handler goes on with the map and the tree in order. *)
LEMMA GoesOn ==
  ASSUME AloneInv, NEW w \in Workers, Busy(w), NEW k, Becomes(w, k),
         k.pc \notin {"idle", "replied", "after", "rename", "forget"},
         WellFormed(tree'), CacheIsRight(tree', cache'),
         \/ CallRests(w)
         \/ k.pc \in ResolvingPoints /\ ThenResolve(w, Asked(k)),
         JobIsExact(begun[w], tree', k)
  PROVE  StaysExact(w)
<1>1. CacheFits(begun[w], tree', cache', k)
  BY DEF CacheFits
<1>2. CallFits(tree', k, call'[w])
  <2>1. CASE CallRests(w)
    BY <2>1 DEF CallRests, CallFits
  <2>2. CASE k.pc \in ResolvingPoints /\ ThenResolve(w, Asked(k))
    <3> DEFINE c == Started(Asked(k))
    <3>1. call'[w] = c
      BY <2>2, HereFacts DEF ThenResolve, TypeOK
    <3>2. /\ c.path = Asked(k) /\ c.uid = Root
          /\ c.phase = IF Asked(k) = RootPath THEN "done" ELSE "lookup"
      BY DEF Started
    <3> HIDE DEF c
    <3>3. Root # NoUid /\ Denoted(tree', RootPath) = {Root}
      BY DirsFacts, DenotedRoot
    <3>4. CallIsExact(tree', c)
      BY <3>2, <3>3 DEF CallIsExact
    <3> QED
      BY <2>2, <3>1, <3>2, <3>4 DEF CallFits
  <2> QED
    BY <2>1, <2>2
<1> QED
  BY <1>1, <1>2, GoExact

(* Nothing but the handler's own variables has changed. *)
LEMMA SameTree ==
  ASSUME AloneInv, NEW w \in Workers, job[w].pc \notin {"after", "rename", "forget"},
         UNCHANGED <<tree, cache>>
  PROVE  WellFormed(tree') /\ CacheIsRight(tree', cache')
BY HereFacts

(* The node that a resolution answers. *)
LEMMA AnswerFacts ==
  ASSUME AloneInv, NEW w \in Workers, NEW f, NEW u, Answer(w, f, u)
  PROVE  /\ job[w].pc = f /\ f \in ResolvingPoints
         /\ u = NoUid => Denoted(tree, Asked(job[w])) = {}
         /\ u # NoUid => u \in Denoted(tree, Asked(job[w]))
<1>1. job[w].pc = f /\ call[w].phase = "done" /\ call[w].uid = u
  BY DEF Answer, Does, At
<1>2. /\ job[w].pc \in ResolvingPoints /\ call[w].path = Asked(job[w])
      /\ CallIsExact(tree, call[w])
  BY <1>1, HereFacts DEF CallFits
<1> QED
  BY <1>1, <1>2 DEF CallIsExact

(* The node that the request found. *)
LEMMA OutcomesAre ==
  ASSUME NEW t, NEW r, r.method \in Methods
  PROVE  /\ r.method \in {"GET", "HEAD", "PROPFIND", "LOCK"} => Outcomes(t, r) = Reading(t, r)
         /\ r.method = "DELETE" => Outcomes(t, r) = Deleting(t, r)
         /\ r.method \in {"PUT", "MKCOL"} => Outcomes(t, r) = Creating(t, r)
         /\ r.method \in {"COPY", "MOVE"} =>
              Outcomes(t, r) = IF NodeAt(t, r.dest) # NoUid /\ ~r.overwrite
                               THEN {Outcome(t, 412)} ELSE Relocating(Ready(t, r), r)
BY DEF Outcomes, Methods, Ready

-----------------------------------------------------------------------------
(* Resolutions *)

LEMMA GotoExact ==
  ASSUME AloneInv, NEW w \in Workers, call[w].phase # "idle", NEW f, NEW u, NEW n,
         Goto(w, f, u, n), UNCHANGED <<tree, job>>, CacheIsRight(tree, cache'),
         f = "verify" => Right(tree, call[w].path, u),
         f \in {"list", "map"} => u \in Denoted(tree, Prefix(call[w].path, n)),
         f = "done" => IF u = NoUid THEN Denoted(tree, call[w].path) = {}
                       ELSE u \in Denoted(tree, call[w].path)
  PROVE  StaysExact(w)
<1>1. /\ call'[w].phase = f /\ call'[w].path = call[w].path
      /\ call'[w].uid = u /\ call'[w].depth = n
  BY HereFacts DEF Goto, TypeOK
<1>2. job[w].pc \in ResolvingPoints /\ call[w].path = Asked(job[w])
  BY HereFacts DEF CallFits
<1>3. CallIsExact(tree, call'[w])
  BY <1>1 DEF CallIsExact
<1>4. CallFits(tree, job[w], call'[w])
  BY <1>1, <1>2, <1>3 DEF CallFits
<1>5. CacheFits(begun[w], tree, cache', job[w])
  BY <1>2 DEF CacheFits, ResolvingPoints
<1>6. /\ JobIsExact(begun[w], tree, job[w])
      /\ job[w].pc # "idle" => WellFormed(begun[w])
      /\ job[w].pc \notin {"after", "rename"} => WellFormed(tree)
  BY HereFacts
<1> QED
  BY <1>4, <1>5, <1>6 DEF StaysExact, Exact

LEMMA ResolveExact ==
  ASSUME Alone, AloneInv, NEW w \in Workers, Resolve(w)
  PROVE  StaysExact(w)
<1> DEFINE p == call[w].path
           k == call[w].depth
<1>0. UNCHANGED job /\ ResolveStep(w)
  BY DEF Resolve
<1> USE DEF ResolveStep
<1>1. call[w].phase \in {"lookup", "verify", "evict", "list", "map"} /\ UNCHANGED tree
  BY <1>0
     DEF LookupHit, LookupMiss, VerifyHit, VerifyMiss, Evict, ListFound, ListMissing,
         MapPrefix, At
<1> HIDE DEF ResolveStep
<1>2. TypeOK /\ CacheTypeOK /\ tree \in Tree
  BY HereFacts
<1>3. p \in Paths /\ k \in Nat /\ k <= Len(p)
  BY <1>1, <1>2, CallFacts
<1>4. p \in Seq(Names) /\ Prefix(p, 0) = RootPath /\ Prefix(p, Len(p)) = p
      /\ p # RootPath /\ Len(p) \in Nat
  BY <1>3, PathFacts, PrefixFacts
<1>5. job[w].pc \in ResolvingPoints /\ CallIsExact(tree, call[w])
  BY <1>1, HereFacts DEF CallFits
<1>6. CacheIsRight(tree, cache) /\ WellFormed(tree)
  BY <1>5, HereFacts DEF ResolvingPoints
<1>7. Root \in Denoted(tree, Prefix(p, 0))
  BY <1>4, DenotedRoot
<1> HIDE DEF p, k
<1>8. CASE LookupHit(w)
  <2>1. Right(tree, p, cache[p])
    BY <1>3, <1>6, <1>8 DEF LookupHit, CacheIsRight, p
  <2>2. Goto(w, "verify", cache[p], 0) /\ UNCHANGED cache
    BY <1>8 DEF LookupHit, p
  <2> QED
    BY <1>0, <1>1, <1>6, <2>1, <2>2, GotoExact DEF p
<1>9. CASE LookupMiss(w)
  <2>1. Goto(w, "list", Root, 0) /\ UNCHANGED cache
    BY <1>9 DEF LookupMiss
  <2> QED
    BY <1>0, <1>1, <1>6, <1>7, <2>1, GotoExact DEF p
<1>10. CASE VerifyHit(w)
  <2>1. /\ Goto(w, "done", call[w].uid, 0) /\ UNCHANGED cache /\ call[w].phase = "verify"
        /\ IsLive(tree, call[w].uid)
    BY <1>10 DEF VerifyHit, At, HasName, IsLive
  <2>2. call[w].uid \in Denoted(tree, p) /\ call[w].uid # NoUid
    BY <1>5, <2>1, DirsFacts DEF CallIsExact, Right, p
  <2> QED
    BY <1>0, <1>1, <1>6, <2>1, <2>2, GotoExact DEF p
<1>11. CASE VerifyMiss(w)
  <2>1. Goto(w, "evict", call[w].uid, 0) /\ UNCHANGED cache
    BY <1>11 DEF VerifyMiss
  <2> QED
    BY <1>0, <1>1, <1>6, <2>1, GotoExact
<1>12. CASE Evict(w)
  <2>1. Goto(w, "list", Root, 0) /\ UnmapPath(p)
    BY <1>12 DEF Evict, p
  <2>2. CacheIsRight(tree, cache')
    BY <1>2, <1>6, <2>1, CacheDrops
  <2> QED
    BY <1>0, <1>1, <1>7, <2>1, <2>2, GotoExact DEF p
<1>13. ASSUME call[w].phase = "list"
       PROVE  /\ call[w].uid \in Denoted(tree, Prefix(p, k)) /\ k + 1 <= Len(p)
              /\ k + 1 \in 0..Len(p) /\ k \in 0..Len(p)
              /\ Denoted(tree, Prefix(p, k + 1)) =
                   UNION {ChildrenNamed(tree, d, p[k + 1]) : d \in Denoted(tree, Prefix(p, k))}
  <2>1. k < Len(p)
    BY <1>2, <1>13, CallFacts DEF p, k
  <2>2. k + 1 <= Len(p) /\ k + 1 \in 0..Len(p) /\ k \in 0..Len(p)
    BY <1>3, <1>4, <2>1
  <2>5. p \in Seq(Names) /\ k \in Nat /\ k + 1 <= Len(p)
    BY <1>3, <1>4, <2>2
  <2>3. Denoted(tree, Prefix(p, k + 1)) =
          UNION {ChildrenNamed(tree, d, p[k + 1]) : d \in Denoted(tree, Prefix(p, k))}
    BY <2>5, DenotedNext, Zenon
  <2>4. call[w].uid \in Denoted(tree, Prefix(p, k))
    BY <1>5, <1>13 DEF CallIsExact, p, k
  <2> QED
    BY <2>2, <2>3, <2>4
<1>14. CASE ListFound(w)
  <2>1. call[w].phase = "list" /\ UNCHANGED cache
    BY <1>14 DEF ListFound, At
  <2>2. PICK u \in ChildrenNamed(tree, call[w].uid, p[k + 1]) : Goto(w, "map", u, k + 1)
    BY <1>14 DEF ListFound, Matches, p, k
  <2>3. u \in Denoted(tree, Prefix(p, k + 1))
    BY <1>13, <2>1, <2>2
  <2> QED
    BY <1>0, <1>1, <1>6, <2>1, <2>2, <2>3, GotoExact DEF p
<1>15. CASE ListMissing(w)
  <2>1. /\ Goto(w, "done", NoUid, k) /\ UNCHANGED cache /\ call[w].phase = "list"
        /\ ~IsLive(tree, call[w].uid) \/ ChildrenNamed(tree, call[w].uid, p[k + 1]) = {}
    BY <1>15 DEF ListMissing, At, Matches, Alone, p, k
  <2>2. \A d \in Denoted(tree, Prefix(p, k)) : d = call[w].uid
    <3>1. call[w].uid \in Denoted(tree, Prefix(p, k)) /\ k \in 0..Len(p)
      BY <1>13, <2>1
    <3>2. \A d, e \in Denoted(tree, Prefix(p, k)) : d = e
      BY <1>4, <1>6, <3>1, DenotedIsOne DEF WellFormed
    <3> QED
      BY <3>1, <3>2
  <2>3. ChildrenNamed(tree, call[w].uid, p[k + 1]) = {}
    <3> SUFFICES ASSUME NEW x \in ChildrenNamed(tree, call[w].uid, p[k + 1]) PROVE FALSE
      OBVIOUS
    <3>1. x \in Uids /\ tree[x].status = "live" /\ tree[x].parent = call[w].uid
      BY ChildFacts
    <3>2. IsLive(tree, call[w].uid)
      BY <1>6, <3>1, RootedFacts DEF WellFormed
    <3> QED
      BY <2>1, <3>2
  <2>4. Denoted(tree, Prefix(p, k + 1)) = {}
    BY <1>13, <2>1, <2>2, <2>3
  <2>5. Denoted(tree, p) = {}
    BY <1>4, <1>13, <2>1, <2>4, PrefixesLead
  <2> QED
    BY <1>0, <1>1, <1>6, <2>1, <2>5, GotoExact DEF p
<1>16. CASE MapPrefix(w)
  <2>1. /\ call[w].phase = "map" /\ MapPath(Prefix(p, k), call[w].uid)
        /\ Goto(w, IF k = Len(p) THEN "done" ELSE "list", call[w].uid, k)
    BY <1>16 DEF MapPrefix, At, p, k
  <2>2. call[w].uid \in Denoted(tree, Prefix(p, k))
    BY <1>5, <2>1 DEF CallIsExact, p, k
  <2>3. k \in 1..Len(p) /\ k \in 0..Len(p)
    BY <1>2, <1>3, <1>4, <2>1, CallFacts DEF p, k
  <2>4. Prefix(p, k) \in Seq(Names) /\ Prefix(p, k) # RootPath
    BY <1>3, <1>4, <2>3, PathFacts, PrefixFacts
  <2>5. /\ call[w].uid \in Uids /\ call[w].uid # NoUid /\ call[w].uid \in Dirs
        /\ tree[call[w].uid].status = "live"
    BY <2>2, <2>4, DenotedBelow, DirsFacts
  <2>6. Right(tree, Prefix(p, k), call[w].uid)
    BY <2>2, <2>5 DEF Right
  <2>7. CacheIsRight(tree, cache')
    BY <1>2, <1>6, <2>1, <2>5, <2>6, CacheTakes
  <2>8. CASE k = Len(p)
    <3>1. call[w].uid \in Denoted(tree, p)
      BY <1>4, <2>2, <2>8
    <3>2. Goto(w, "done", call[w].uid, k)
      BY <2>1, <2>8
    <3> QED
      BY <1>0, <1>1, <2>5, <2>7, <3>1, <3>2, GotoExact DEF p
  <2>9. CASE k # Len(p)
    <3>1. Goto(w, "list", call[w].uid, k)
      BY <2>1, <2>9
    <3> QED
      BY <1>0, <1>1, <2>2, <2>7, <3>1, GotoExact DEF p
  <2> QED
    BY <2>8, <2>9
<1> QED
  BY <1>0, <1>8, <1>9, <1>10, <1>11, <1>12, <1>14, <1>15, <1>16 DEF ResolveStep

(* A request comes, and goes. *)
LEMMA ReceiveExact ==
  ASSUME AloneInv, NEW w \in Workers, NEW r \in Requests, Receive(w, r)
  PROVE  Exact(tree, tree', cache', job'[w], call'[w])
<1> DEFINE k == [NoJob EXCEPT !.pc = FirstPoint(r), !.req = r]
           c == Started(FirstPath(r))
<1>1. /\ job[w].pc = "idle" /\ UNCHANGED <<tree, cache>>
      /\ job'[w] = k /\ call'[w] = c
  BY HereFacts DEF Receive, Does, Becomes, ThenResolve, JobTypeOK, HandlersInv, TypeOK
<1>2. k.pc = FirstPoint(r) /\ k.req = r /\ ~k.fresh
  BY DEF NoJob
<1>3. /\ c.path = FirstPath(r) /\ c.uid = Root
      /\ c.phase = IF FirstPath(r) = RootPath THEN "done" ELSE "lookup"
  BY DEF Started
<1> HIDE DEF k, c
<1>4. WellFormed(tree) /\ CacheIsRight(tree, cache)
  BY <1>1, HereFacts
<1>5. Root # NoUid /\ Denoted(tree, RootPath) = {Root}
  BY DirsFacts, DenotedRoot
<1>6. CallIsExact(tree, c)
  BY <1>3, <1>5 DEF CallIsExact
<1>7. r.method \in Methods
  BY RequestsAreSound DEF Request
<1>8. k.pc \in {"target", "parent", "dest"} /\ c.path = Asked(k)
  BY <1>2, <1>3, <1>7 DEF FirstPoint, FirstPath, Asked
<1>9. JobIsExact(tree, tree, k)
  <2>1. CASE r.method \in {"COPY", "MOVE"}
    <3>1. k.pc = "dest"
      BY <1>2, <2>1 DEF FirstPoint
    <3> QED
      BY <3>1, AtDest
  <2>2. CASE r.method \in {"PUT", "MKCOL"}
    <3>1. k.pc = "parent"
      BY <1>2, <2>2 DEF FirstPoint
    <3> QED
      BY <1>2, <2>2, <3>1, AtParent
  <2>3. CASE r.method \in {"GET", "HEAD", "DELETE", "PROPFIND", "LOCK"}
    <3>1. k.pc = "target"
      BY <1>2, <2>3 DEF FirstPoint
    <3> QED
      BY <1>2, <2>3, <3>1, AtTarget
  <2> QED
    BY <1>7, <2>1, <2>2, <2>3 DEF Methods
<1>10. CacheFits(tree, tree, cache, k) /\ CallFits(tree, k, c)
  BY <1>4, <1>6, <1>8 DEF CacheFits, CallFits, ResolvingPoints
<1> QED
  BY <1>1, <1>4, <1>9, <1>10 DEF Exact

LEMMA TurnAwayExact ==
  ASSUME AloneInv, NEW w \in Workers, NEW r \in Requests, TurnAway(w, r)
  PROVE  Exact(tree, tree', cache', job'[w], call'[w])
<1> DEFINE k == [NoJob EXCEPT !.pc = "replied", !.req = r, !.status = 401]
<1>1. /\ job[w].pc = "idle" /\ UNCHANGED <<tree, cache, call>> /\ job'[w] = k
  BY HereFacts DEF TurnAway, Does, Becomes, JobTypeOK, HandlersInv, resolverVars
<1>2. k.pc = "replied" /\ k.status = 401
  BY DEF NoJob
<1> HIDE DEF k
<1>3. WellFormed(tree) /\ CacheIsRight(tree, cache) /\ call[w].phase = "idle"
  BY <1>1, HereFacts DEF ResolvingPoints
<1>4. JobIsExact(tree, tree, k)
  BY <1>2, AtReply
<1>5. CacheFits(tree, tree, cache, k) /\ CallFits(tree, k, call[w])
  BY <1>2, <1>3 DEF CacheFits, CallFits
<1> QED
  BY <1>1, <1>3, <1>4, <1>5 DEF Exact

LEMMA LeaveExact ==
  ASSUME AloneInv, NEW w \in Workers, Leave(w), NEW b
  PROVE  Exact(b, tree', cache', job'[w], call'[w])
<1>1. job[w].pc = "replied" /\ UNCHANGED <<tree, cache, call>> /\ job'[w] = NoJob
  BY HereFacts DEF Leave, Does, Becomes, JobTypeOK, HandlersInv, resolverVars
<1>2. NoJob.pc = "idle"
  BY DEF NoJob
<1>3. WellFormed(tree) /\ CacheIsRight(tree, cache) /\ call[w].phase = "idle"
  BY <1>1, HereFacts DEF ResolvingPoints
<1>4. JobIsExact(b, tree, NoJob)
  BY <1>2, AtRest
<1>5. CacheFits(b, tree, cache, NoJob) /\ CallFits(tree, NoJob, call[w])
  BY <1>2, <1>3 DEF CacheFits, CallFits
<1> QED
  BY <1>1, <1>2, <1>3, <1>4, <1>5 DEF Exact

-----------------------------------------------------------------------------
(* The answers of resolutions *)

(* What a handler's request asks for is decided by the node at a path.     *)
LEMMA NodeIs ==
  ASSUME NEW t, WellFormed(t), NEW p \in Seq(Names), NEW u
  PROVE  /\ u \in Denoted(t, p) => NodeAt(t, p) = u /\ u # NoUid
         /\ Denoted(t, p) = {} => NodeAt(t, p) = NoUid
BY NodeAtFacts DEF WellFormed

LEMMA TargetFacts ==
  ASSUME AloneInv, NEW w \in Workers, NEW u, Answer(w, "target", u)
  PROVE  /\ job[w].pc = "target" /\ tree = begun[w] /\ WellFormed(begun[w]) /\ Busy(w)
         /\ Req(w) = job[w].req /\ Req(w).path \in Seq(Names) /\ job[w] \in Job
         /\ Req(w).method \in {"GET", "HEAD", "DELETE", "PROPFIND", "LOCK", "PUT"}
         /\ Req(w).method \in Methods /\ ~job[w].fresh
         /\ Req(w).method = "PUT" => job[w].par \in Denoted(begun[w], Parent(Req(w).path))
         /\ NodeAt(begun[w], Req(w).path) = u
         /\ u # NoUid => u \in Denoted(begun[w], Req(w).path)
         /\ u = NoUid => Denoted(begun[w], Req(w).path) = {}
         /\ Taken(w) /\ UNCHANGED <<tree, cache>> =>
              WellFormed(tree') /\ CacheIsRight(tree', cache') /\ CallRests(w)
<1>1. /\ job[w].pc = "target"
      /\ u = NoUid => Denoted(tree, Asked(job[w])) = {}
      /\ u # NoUid => u \in Denoted(tree, Asked(job[w]))
  BY AnswerFacts
<1>2. /\ JobIsExact(begun[w], tree, job[w]) /\ job[w] \in Job
      /\ Req(w) = job[w].req /\ Req(w).path \in Seq(Names) /\ Req(w) \in Request
  BY HereFacts
<1>3. WellFormed(begun[w]) /\ Busy(w)
  BY <1>1, HereFacts DEF Busy
<1>4. /\ tree = begun[w] /\ ~job[w].fresh
      /\ Req(w).method \in {"GET", "HEAD", "DELETE", "PROPFIND", "LOCK", "PUT"}
      /\ Req(w).method = "PUT" => job[w].par \in Denoted(begun[w], Parent(Req(w).path))
  BY <1>1, <1>2, AtTarget
<1>5. Asked(job[w]) = Req(w).path
  BY <1>1, <1>2 DEF Asked
<1>6. NodeAt(begun[w], Req(w).path) = u
  BY <1>1, <1>2, <1>3, <1>4, <1>5, NodeIs
<1>7. Req(w).method \in Methods
  BY <1>2 DEF Request
<1>8. ASSUME Taken(w), UNCHANGED <<tree, cache>>
      PROVE  WellFormed(tree') /\ CacheIsRight(tree', cache') /\ CallRests(w)
  BY <1>1, <1>8, SameTree, TakenRests
<1> QED
  BY <1>1, <1>2, <1>3, <1>4, <1>5, <1>6, <1>7, <1>8

LEMMA TargetMissingExact ==
  ASSUME AloneInv, NEW w \in Workers, TargetMissing(w)
  PROVE  StaysExact(w)
<1> DEFINE r == Req(w)
           b == begun[w]
<1>1. /\ Answer(w, "target", NoUid) /\ r.method # "PUT" /\ UNCHANGED <<tree, cache>> /\ Taken(w)
      /\ Reply(w, IF r.method = "LOCK" THEN 201 ELSE 404)
  BY DEF TargetMissing, Is
<1>2. /\ r.method \in {"GET", "HEAD", "DELETE", "PROPFIND", "LOCK"} /\ tree' = b
      /\ r.method \in Methods /\ NodeAt(b, r.path) = NoUid
      /\ WellFormed(tree') /\ CacheIsRight(tree', cache') /\ Busy(w) /\ CallRests(w)
  BY <1>1, TargetFacts
<1> HIDE DEF r, b
<1>3. CASE r.method = "DELETE"
  <2>1. Outcome(b, 404) \in Deleting(b, r)
    BY <1>2 DEF Deleting
  <2> QED
    BY <1>1, <1>2, <1>3, <2>1, OutcomesAre, ReplyExact DEF r, b
<1>4. CASE r.method # "DELETE"
  <2>1. Outcome(b, IF r.method = "LOCK" THEN 201 ELSE 404) \in Reading(b, r)
    BY <1>2 DEF Reading
  <2>2. Outcomes(b, r) = Reading(b, r)
    BY <1>2, <1>4, OutcomesAre
  <2> QED
    BY <1>1, <1>2, <2>1, <2>2, ReplyExact DEF r, b
<1> QED
  BY <1>3, <1>4

LEMMA DeleteOfRootExact ==
  ASSUME AloneInv, NEW w \in Workers, DeleteOfRoot(w)
  PROVE  StaysExact(w)
<1> DEFINE r == Req(w)
           b == begun[w]
<1>1. /\ Answer(w, "target", Root) /\ r.method = "DELETE" /\ UNCHANGED <<tree, cache>> /\ Taken(w)
      /\ Reply(w, 404)
  BY DEF DeleteOfRoot, Is
<1>2. /\ tree' = b /\ r.method \in Methods /\ NodeAt(b, r.path) = Root
      /\ WellFormed(tree') /\ CacheIsRight(tree', cache') /\ Busy(w) /\ CallRests(w)
  BY <1>1, TargetFacts
<1> HIDE DEF r, b
<1>3. Outcome(b, 404) \in Deleting(b, r)
  BY <1>2 DEF Deleting
<1> QED
  BY <1>1, <1>2, <1>3, OutcomesAre, ReplyExact DEF r, b

LEMMA TargetFoundExact ==
  ASSUME AloneInv, NEW w \in Workers, TargetFound(w)
  PROVE  StaysExact(w)
<1> DEFINE r == Req(w)
           b == begun[w]
<1>1. PICK u \in Dirs :
        /\ Answer(w, "target", u)
        /\ \/ Is(w, {"HEAD", "LOCK"}) /\ Reply(w, 200)
           \/ Is(w, {"GET"}) /\ Becomes(w, [job[w] EXCEPT !.pc = "download", !.uid = u])
           \/ /\ Is(w, {"DELETE"}) /\ u # Root
              /\ Becomes(w, [job[w] EXCEPT !.pc = "stat", !.uid = u])
           \/ /\ Is(w, {"PROPFIND"})
              /\ Becomes(w, [job[w] EXCEPT !.pc = IF u = Root THEN "list" ELSE "stat", !.uid = u])
           \/ Is(w, {"PUT"}) /\ Becomes(w, [job[w] EXCEPT !.pc = "upload", !.uid = u])
  BY DEF TargetFound
<1>2. UNCHANGED <<tree, cache>> /\ Taken(w)
  BY DEF TargetFound
<1>3. u # NoUid
  BY DirsFacts
<1>4. /\ job[w] \in Job /\ r = job[w].req /\ ~job[w].fresh /\ r.method \in Methods
      /\ r.method = "PUT" => job[w].par \in Denoted(b, Parent(r.path))
      /\ u \in Denoted(b, r.path) /\ NodeAt(b, r.path) = u
      /\ WellFormed(tree') /\ CacheIsRight(tree', cache') /\ Busy(w) /\ CallRests(w)
      /\ tree' = b
  BY <1>1, <1>2, <1>3, TargetFacts
<1> HIDE DEF r, b
<1>5. ASSUME NEW f \in {"download", "stat", "list", "upload"},
              Becomes(w, [job[w] EXCEPT !.pc = f, !.uid = u]),
              f = "download" => r.method = "GET",
              f = "list" => r.method = "PROPFIND",
              f = "upload" => r.method = "PUT",
              r.method \notin {"COPY", "MOVE"}
       PROVE  StaysExact(w)
  <2> DEFINE k == [job[w] EXCEPT !.pc = f, !.uid = u]
  <2>2. Becomes(w, k) /\ k = [job[w] EXCEPT !.pc = f, !.uid = u]
    BY <1>5
  <2> HIDE DEF k
  <2>1. k.pc = f /\ k.req = r /\ k.uid = u /\ k.fresh = job[w].fresh
    BY <1>4, <2>2 DEF Job
  <2>3. SubjectOf(k.req) = r.path
    BY <1>5, <2>1 DEF SubjectOf
  <2>4. JobIsExact(b, b, k)
    <3>1. CASE f = "upload"
      <4>1. ~k.fresh
        BY <1>4, <2>1, Zenon
      <4>3. k.req.method = "PUT"
        BY <1>5, <2>1, <3>1
      <4>2. IsUploading(b, b, k)
        BY <1>4, <1>5, <2>1, <3>1, <4>1 DEF IsUploading
      <4> QED
        BY <2>1, <3>1, <4>3, <4>2, AtUpload
    <3>2. CASE f # "upload"
      <4>1. k.pc \in FoundHere
        BY <2>1, <3>2 DEF FoundHere
      <4>2. /\ k.uid \in Denoted(b, SubjectOf(k.req)) /\ k.pc \in {"download", "stat", "list"}
            /\ k.pc = "download" => k.req.method = "GET"
            /\ k.pc = "list" => k.req.method = "PROPFIND"
        BY <1>4, <1>5, <2>1, <2>3, <3>2
      <4> QED
        BY <4>1, <4>2, AtFound
    <3> QED
      BY <3>1, <3>2
  <2>5. k.pc \notin {"idle", "replied", "after", "rename", "forget"}
    BY <2>1
  <2> QED
    BY <1>4, <2>2, <2>4, <2>5, GoesOn DEF b
<1>6. CASE Is(w, {"HEAD", "LOCK"}) /\ Reply(w, 200)
  <2>1. r.method \in {"HEAD", "LOCK"}
    BY <1>6 DEF Is, r
  <2>2. Outcome(b, 200) \in Reading(b, r)
    BY <1>3, <1>4, <2>1 DEF Reading
  <2>3. Outcomes(b, r) = Reading(b, r)
    BY <1>4, <2>1, OutcomesAre
  <2> QED
    BY <1>4, <1>6, <2>2, <2>3, ReplyExact DEF r, b
<1>7. CASE Is(w, {"GET"}) /\ Becomes(w, [job[w] EXCEPT !.pc = "download", !.uid = u])
  BY <1>5, <1>7 DEF Is, r
<1>8. CASE Is(w, {"DELETE"}) /\ Becomes(w, [job[w] EXCEPT !.pc = "stat", !.uid = u])
  BY <1>5, <1>8 DEF Is, r
<1>9. CASE /\ Is(w, {"PROPFIND"})
            /\ Becomes(w, [job[w] EXCEPT !.pc = IF u = Root THEN "list" ELSE "stat", !.uid = u])
  <2>1. r.method = "PROPFIND"
    BY <1>9 DEF Is, r
  <2>2. PICK f \in {"list", "stat"} : Becomes(w, [job[w] EXCEPT !.pc = f, !.uid = u])
    BY <1>9
  <2> QED
    BY <1>5, <2>1, <2>2
<1>10. CASE Is(w, {"PUT"}) /\ Becomes(w, [job[w] EXCEPT !.pc = "upload", !.uid = u])
  BY <1>5, <1>10 DEF Is, r
<1> QED
  BY <1>1, <1>6, <1>7, <1>8, <1>9, <1>10

LEMMA PutTargetMissingExact ==
  ASSUME AloneInv, NEW w \in Workers, PutTargetMissing(w)
  PROVE  StaysExact(w)
<1> DEFINE r == Req(w)
           b == begun[w]
           k == [job[w] EXCEPT !.pc = "touch", !.fresh = TRUE]
<1>1. /\ Answer(w, "target", NoUid) /\ r.method = "PUT" /\ UNCHANGED <<tree, cache>> /\ Taken(w)
      /\ Becomes(w, k)
  BY DEF PutTargetMissing, Is
<1>2. /\ job[w] \in Job /\ r = job[w].req /\ tree' = b /\ Denoted(b, r.path) = {}
      /\ job[w].par \in Denoted(b, Parent(r.path))
      /\ WellFormed(tree') /\ CacheIsRight(tree', cache') /\ Busy(w) /\ CallRests(w)
  BY <1>1, TargetFacts
<1>3. k.pc = "touch" /\ k.req = r /\ k.par = job[w].par
  BY <1>2 DEF Job
<1>4. k.fresh
  BY <1>2 DEF Job
<1> HIDE DEF r, b, k
<1>5. /\ k.pc \in {"touch", "mkdir"}
      /\ k.par \in Denoted(b, Parent(k.req.path)) /\ Denoted(b, k.req.path) = {}
      /\ k.req.method = IF k.pc = "touch" THEN "PUT" ELSE "MKCOL"
  BY <1>1, <1>2, <1>3
<1>6. JobIsExact(b, b, k)
  BY <1>4, <1>5, AtCreation
<1> QED
  BY <1>1, <1>2, <1>3, <1>6, GoesOn DEF b

LEMMA ParentAnswerFacts ==
  ASSUME AloneInv, NEW w \in Workers, NEW u, Answer(w, "parent", u)
  PROVE  /\ job[w].pc = "parent" /\ tree = begun[w] /\ WellFormed(begun[w]) /\ Busy(w)
         /\ Req(w) = job[w].req /\ job[w] \in Job /\ ~job[w].fresh
         /\ Req(w).method \in {"PUT", "MKCOL"} /\ Req(w).method \in Methods
         /\ u = NoUid => NodeAt(begun[w], Parent(Req(w).path)) = NoUid
         /\ u # NoUid => u \in Denoted(begun[w], Parent(Req(w).path))
         /\ UNCHANGED <<tree, cache>> =>
              WellFormed(tree') /\ CacheIsRight(tree', cache') /\ tree' = begun[w]
         /\ Taken(w) => CallRests(w)
<1>1. /\ job[w].pc = "parent"
      /\ u = NoUid => Denoted(tree, Asked(job[w])) = {}
      /\ u # NoUid => u \in Denoted(tree, Asked(job[w]))
  BY AnswerFacts
<1>2. /\ JobIsExact(begun[w], tree, job[w]) /\ job[w] \in Job
      /\ Req(w) = job[w].req /\ Req(w) \in Request /\ Parent(Req(w).path) \in Seq(Names)
  BY HereFacts, RequestFacts
<1>3. WellFormed(begun[w]) /\ Busy(w)
  BY <1>1, HereFacts DEF Busy
<1>4. tree = begun[w] /\ ~job[w].fresh /\ Req(w).method \in {"PUT", "MKCOL"}
  BY <1>1, <1>2, AtParent
<1>5. Asked(job[w]) = Parent(Req(w).path)
  BY <1>1, <1>2 DEF Asked
<1>6. u = NoUid => NodeAt(begun[w], Parent(Req(w).path)) = NoUid
  BY <1>1, <1>2, <1>3, <1>4, <1>5, NodeIs
<1>7. Req(w).method \in Methods
  BY <1>2 DEF Request
<1>8. ASSUME UNCHANGED <<tree, cache>>
      PROVE  WellFormed(tree') /\ CacheIsRight(tree', cache') /\ tree' = begun[w]
  BY <1>1, <1>4, <1>8, SameTree
<1> QED
  BY <1>1, <1>2, <1>3, <1>4, <1>5, <1>6, <1>7, <1>8, TakenRests

LEMMA ParentMissingExact ==
  ASSUME AloneInv, NEW w \in Workers, ParentMissing(w)
  PROVE  StaysExact(w)
<1> DEFINE r == Req(w)
           b == begun[w]
<1>1. Answer(w, "parent", NoUid) /\ Reply(w, 409) /\ UNCHANGED <<tree, cache>> /\ Taken(w)
  BY DEF ParentMissing
<1>2. /\ r.method \in {"PUT", "MKCOL"} /\ r.method \in Methods
      /\ NodeAt(b, Parent(r.path)) = NoUid
      /\ WellFormed(tree') /\ CacheIsRight(tree', cache') /\ tree' = b
      /\ CallRests(w) /\ Busy(w)
  BY <1>1, ParentAnswerFacts
<1> HIDE DEF r, b
<1>3. Outcome(b, 409) \in Creating(b, r)
  BY <1>2 DEF Creating
<1> QED
  BY <1>1, <1>2, <1>3, OutcomesAre, ReplyExact DEF r, b

LEMMA ParentFoundExact ==
  ASSUME AloneInv, NEW w \in Workers, ParentFound(w)
  PROVE  StaysExact(w)
<1> DEFINE r == Req(w)
           b == begun[w]
<1>1. PICK u \in Dirs :
        /\ Answer(w, "parent", u)
        /\ \/ /\ Is(w, {"PUT"})
              /\ Becomes(w, [job[w] EXCEPT !.pc = "target", !.par = u])
              /\ ThenResolve(w, Req(w).path)
           \/ /\ Is(w, {"MKCOL"})
              /\ Becomes(w, [job[w] EXCEPT !.pc = "mkdir", !.par = u])
              /\ Taken(w)
  BY DEF ParentFound
<1>2. UNCHANGED <<tree, cache>>
  BY DEF ParentFound
<1>3. u # NoUid
  BY DirsFacts
<1>4. /\ job[w] \in Job /\ r = job[w].req /\ ~job[w].fresh /\ Busy(w)
      /\ u \in Denoted(b, Parent(r.path))
      /\ WellFormed(tree') /\ CacheIsRight(tree', cache') /\ tree' = b
      /\ Taken(w) => CallRests(w)
  BY <1>1, <1>2, <1>3, ParentAnswerFacts
<1> HIDE DEF b
<1>5. CASE /\ Is(w, {"PUT"})
           /\ Becomes(w, [job[w] EXCEPT !.pc = "target", !.par = u])
           /\ ThenResolve(w, Req(w).path)
  <2> DEFINE k == [job[w] EXCEPT !.pc = "target", !.par = u]
  <2>1. k.pc = "target" /\ k.req = r /\ k.par = u
    BY <1>4 DEF Job
  <2>2. k.fresh = job[w].fresh
    BY <1>4 DEF Job
  <2>3. Becomes(w, k) /\ r.method = "PUT" /\ ThenResolve(w, r.path)
    BY <1>5 DEF Is
  <2> HIDE DEF k, r
  <2>4. ~k.fresh
    BY <1>4, <2>2, Zenon
  <2>5. k.req.method = "PUT" /\ k.par \in Denoted(b, Parent(k.req.path))
    BY <1>4, <2>1, <2>3
  <2>6. JobIsExact(b, b, k)
    BY <2>1, <2>4, <2>5, AtTarget
  <2>7. k.pc \in ResolvingPoints /\ Asked(k) = r.path
    BY <2>1 DEF ResolvingPoints, Asked
  <2> QED
    BY <1>4, <2>1, <2>3, <2>6, <2>7, GoesOn DEF b
<1>6. CASE /\ Is(w, {"MKCOL"})
           /\ Becomes(w, [job[w] EXCEPT !.pc = "mkdir", !.par = u])
           /\ Taken(w)
  <2> DEFINE k == [job[w] EXCEPT !.pc = "mkdir", !.par = u]
  <2>1. k.pc = "mkdir" /\ k.req = r /\ k.par = u
    BY <1>4 DEF Job
  <2>2. Becomes(w, k) /\ r.method = "MKCOL"
    BY <1>6 DEF Is
  <2> HIDE DEF k, r
  <2>3. k.req.method = "MKCOL" /\ k.par \in Denoted(b, Parent(k.req.path))
    BY <1>4, <2>1, <2>2
  <2>4. JobIsExact(b, b, k)
    BY <2>1, <2>3, AtCreation
  <2> QED
    BY <1>4, <1>6, <2>1, <2>2, <2>4, GoesOn DEF b
<1> QED
  BY <1>1, <1>5, <1>6

(* COPY and MOVE *)
LEMMA RelocationFacts ==
  ASSUME AloneInv, NEW w \in Workers, job[w].pc \in RelocatingPoints
  PROVE  /\ Busy(w) /\ WellFormed(begun[w]) /\ job[w] \in Job
         /\ Req(w) = job[w].req /\ Req(w).method \in {"COPY", "MOVE"}
         /\ Req(w).method \in Methods /\ Is(w, {"COPY", "MOVE"})
         /\ Req(w).dest \in Paths /\ Req(w).dest \in Seq(Names) /\ Req(w).dest # RootPath
         /\ Parent(Req(w).dest) \in Seq(Names)
         /\ Req(w).path \in Paths \cup {RootPath} /\ Req(w).path \in Seq(Names)
         /\ DestName(w) = Base(Req(w).dest) /\ NameOf(w) = Base(Req(w).path)
         /\ WellFormed(Ready(begun[w], Req(w)))
         /\ Denoted(Ready(begun[w], Req(w)), Req(w).dest) = {}
         /\ JobIsExact(begun[w], tree, job[w])
<1>1. /\ JobIsExact(begun[w], tree, job[w]) /\ job[w] \in Job /\ JobIsPlaced(job[w])
      /\ Req(w) = job[w].req /\ Req(w).path \in Paths \cup {RootPath} /\ Req(w).path \in Seq(Names)
      /\ Req(w) \in Request
  BY HereFacts
<1>2. Busy(w) /\ job[w].pc # "idle"
  BY DEF RelocatingPoints, Busy
<1>3. WellFormed(begun[w])
  BY <1>2, HereFacts
<1>4. Req(w).method \in {"COPY", "MOVE"} /\ Is(w, {"COPY", "MOVE"})
  BY <1>1 DEF JobIsPlaced, Is
<1>5. Req(w).dest \in Paths
  BY <1>4, HereFacts
<1>6. /\ Req(w).dest \in Seq(Names) /\ Req(w).dest # RootPath
      /\ Parent(Req(w).dest) \in Seq(Names)
  BY <1>5, PathFacts, LastFacts
<1>7. /\ WellFormed(Ready(begun[w], Req(w)))
      /\ Denoted(Ready(begun[w], Req(w)), Req(w).dest) = {}
  BY <1>3, <1>5, ReadyFacts
<1>8. Req(w).method \in Methods
  BY <1>1 DEF Request
<1> QED
  BY <1>1, <1>2, <1>3, <1>4, <1>5, <1>6, <1>7, <1>8 DEF DestName, NameOf

LEMMA DestFoundExact ==
  ASSUME AloneInv, NEW w \in Workers, DestFound(w)
  PROVE  StaysExact(w)
<1> DEFINE r == Req(w)
           b == begun[w]
<1>1. PICK u \in Uids :
        /\ Answer(w, "dest", u)
        /\ IF Req(w).overwrite
           THEN Becomes(w, [job[w] EXCEPT !.pc = "stat", !.uid = u])
           ELSE Reply(w, 412)
  BY DEF DestFound
<1>2. UNCHANGED <<tree, cache>> /\ Taken(w) /\ u # NoUid
  BY DirsFacts DEF DestFound
<1>3. job[w].pc = "dest" /\ u \in Denoted(tree, Asked(job[w]))
  BY <1>1, <1>2, AnswerFacts
<1>4. /\ Busy(w) /\ WellFormed(b) /\ job[w] \in Job /\ r = job[w].req
      /\ r.method \in {"COPY", "MOVE"} /\ r.method \in Methods /\ r.dest \in Seq(Names)
      /\ JobIsExact(b, tree, job[w])
  BY <1>3, RelocationFacts DEF RelocatingPoints
<1>5. WellFormed(tree') /\ CacheIsRight(tree', cache') /\ CallRests(w)
  BY <1>2, <1>3, SameTree, TakenRests
<1>6. tree' = b
  BY <1>2, <1>3, <1>4, AtDest
<1>7. u \in Denoted(b, r.dest)
  BY <1>2, <1>3, <1>4, <1>6 DEF Asked
<1> HIDE DEF r, b
<1>8. CASE ~r.overwrite
  <2>1. NodeAt(b, r.dest) = u
    BY <1>4, <1>7, NodeIs
  <2>2. Outcome(b, 412) \in Outcomes(b, r)
    BY <1>2, <1>4, <1>8, <2>1, OutcomesAre
  <2>3. Reply(w, 412)
    BY <1>1, <1>8 DEF r
  <2> QED
    BY <1>4, <1>5, <1>6, <2>2, <2>3, ReplyExact DEF r, b
<1>9. CASE r.overwrite
  <2> DEFINE k == [job[w] EXCEPT !.pc = "stat", !.uid = u]
  <2>1. k.pc = "stat" /\ k.req = r /\ k.uid = u
    BY <1>4 DEF Job
  <2>2. Becomes(w, k)
    BY <1>1, <1>9 DEF r
  <2> HIDE DEF k
  <2>3. k.pc \in FoundHere /\ k.uid \in Denoted(b, SubjectOf(k.req))
    BY <1>4, <1>7, <2>1 DEF FoundHere, SubjectOf
  <2>4. JobIsExact(b, b, k)
    BY <2>1, <2>3, AtFound
  <2> QED
    BY <1>4, <1>5, <1>6, <2>1, <2>2, <2>4, GoesOn DEF b
<1> QED
  BY <1>8, <1>9

LEMMA DestFreeExact ==
  ASSUME AloneInv, NEW w \in Workers, DestFree(w)
  PROVE  StaysExact(w)
<1> DEFINE r == Req(w)
           b == begun[w]
           k == [job[w] EXCEPT !.pc = "source"]
<1>1. /\ Answer(w, "dest", NoUid) /\ Becomes(w, k) /\ ThenResolve(w, r.path)
      /\ UNCHANGED <<tree, cache>>
  BY DEF DestFree, Proceed
<1>2. job[w].pc = "dest" /\ Denoted(tree, Asked(job[w])) = {}
  BY <1>1, AnswerFacts
<1>3. /\ Busy(w) /\ WellFormed(b) /\ job[w] \in Job /\ r = job[w].req
      /\ r.dest \in Seq(Names) /\ r.dest \in Paths
      /\ JobIsExact(b, tree, job[w])
  BY <1>2, RelocationFacts DEF RelocatingPoints
<1>4. WellFormed(tree') /\ CacheIsRight(tree', cache')
  BY <1>1, <1>2, SameTree
<1>5. tree' = b
  BY <1>1, <1>2, <1>3, AtDest
<1>6. Denoted(b, r.dest) = {}
  BY <1>1, <1>2, <1>3, <1>5 DEF Asked
<1>7. k.pc = "source" /\ k.req = r
  BY <1>3 DEF Job
<1> HIDE DEF r, b, k
<1>8. Ready(b, r) = b /\ IsReady(b, r)
  BY <1>3, <1>6, ReadyFacts, NodeIs DEF IsReady
<1>9. JobIsExact(b, b, k)
  BY <1>7, <1>8, AtSource
<1>10. k.pc \in ResolvingPoints /\ Asked(k) = r.path
  BY <1>7 DEF ResolvingPoints, Asked
<1> QED
  BY <1>1, <1>3, <1>4, <1>5, <1>7, <1>9, <1>10, GoesOn DEF b

(* What the reference says once the destination is ready. *)
LEMMA RelocatingIs ==
  ASSUME NEW b, NEW r, r.method \in {"COPY", "MOVE"}, IsReady(b, r)
  PROVE  Outcomes(b, r) = Relocating(Ready(b, r), r)
BY OutcomesAre DEF IsReady, Methods

LEMMA SourceMissingExact ==
  ASSUME AloneInv, NEW w \in Workers, SourceMissing(w)
  PROVE  StaysExact(w)
<1> DEFINE r == Req(w)
           b == begun[w]
           c == Ready(b, r)
<1>1. PICK u \in {NoUid, Root} : Answer(w, "source", u)
  BY DEF SourceMissing
<1>2. Reply(w, 404) /\ Taken(w) /\ UNCHANGED <<tree, cache>>
  BY DEF SourceMissing
<1>3. /\ job[w].pc = "source"
      /\ u = NoUid => Denoted(tree, Asked(job[w])) = {}
      /\ u # NoUid => u \in Denoted(tree, Asked(job[w]))
  BY <1>1, AnswerFacts
<1>4. /\ Busy(w) /\ WellFormed(b) /\ job[w] \in Job /\ r = job[w].req
      /\ r.method \in {"COPY", "MOVE"} /\ r.path \in Seq(Names)
      /\ JobIsExact(b, tree, job[w]) /\ WellFormed(c)
  BY <1>3, RelocationFacts DEF RelocatingPoints
<1>5. WellFormed(tree') /\ CacheIsRight(tree', cache') /\ CallRests(w)
  BY <1>2, <1>3, SameTree, TakenRests
<1>6. IsReady(b, r) /\ tree = c /\ tree' = c
  BY <1>2, <1>3, <1>4, AtSource
<1>7. Asked(job[w]) = r.path
  BY <1>3, <1>4 DEF Asked
<1> HIDE DEF r, b, c
<1>8. NodeAt(c, r.path) = u
  BY <1>3, <1>4, <1>6, <1>7, NodeIs
<1>9. Outcome(c, 404) \in Relocating(c, r)
  BY <1>8 DEF Relocating
<1>10. Outcomes(b, r) = Relocating(c, r)
  BY <1>4, <1>6, RelocatingIs DEF c
<1> QED
  BY <1>2, <1>4, <1>5, <1>6, <1>9, <1>10, ReplyExact DEF r, b

LEMMA SourceFoundExact ==
  ASSUME AloneInv, NEW w \in Workers, SourceFound(w)
  PROVE  StaysExact(w)
<1> DEFINE r == Req(w)
           b == begun[w]
           c == Ready(b, r)
<1>1. PICK u \in Uids :
        /\ Answer(w, "source", u)
        /\ IF IsPureRename(w)
           THEN /\ Becomes(w, [job[w] EXCEPT !.pc = "rename", !.uid = u])
                /\ Taken(w)
           ELSE /\ Becomes(w, [job[w] EXCEPT !.pc = "dparent", !.uid = u])
                /\ ThenResolve(w, Parent(Req(w).dest))
  BY DEF SourceFound
<1>2. UNCHANGED <<tree, cache>> /\ u # NoUid
  BY DirsFacts DEF SourceFound
<1>3. job[w].pc = "source" /\ u \in Denoted(tree, Asked(job[w]))
  BY <1>1, <1>2, AnswerFacts
<1>4. /\ Busy(w) /\ WellFormed(b) /\ job[w] \in Job /\ r = job[w].req
      /\ r.method \in {"COPY", "MOVE"}
      /\ JobIsExact(b, tree, job[w])
  BY <1>3, RelocationFacts DEF RelocatingPoints
<1>5. WellFormed(tree') /\ CacheIsRight(tree', cache')
  BY <1>2, <1>3, SameTree
<1>6. IsReady(b, r) /\ tree = c /\ tree' = c
  BY <1>2, <1>3, <1>4, AtSource
<1>7. u \in Denoted(c, r.path) \cap Uids
  BY <1>3, <1>4, <1>6 DEF Asked
<1>8. IsPureRename(w) <=> PureRename(r)
  BY DEF IsPureRename, PureRename, Is
<1>9. CASE IsPureRename(w)
  <2> DEFINE k == [job[w] EXCEPT !.pc = "rename", !.uid = u]
  <2>1. k.pc = "rename" /\ k.req = r /\ k.uid = u
    BY <1>4 DEF Job
  <2>2. Becomes(w, k) /\ CallRests(w)
    BY <1>1, <1>9, TakenRests
  <2> HIDE DEF k, r, b, c
  <2>3. r.method = "MOVE" /\ PureRename(r)
    BY <1>8, <1>9 DEF PureRename
  <2>4. IsMoveRenaming(b, c, k)
    BY <1>7, <2>1, <2>3 DEF IsMoveRenaming, c
  <2>5. JobIsExact(b, c, k)
    BY <1>6, <2>1, <2>3, <2>4, AtRename
  <2>6. CacheFits(b, c, cache', k)
    BY <1>5, <1>6, <2>1 DEF CacheFits, c
  <2>7. CallFits(c, k, call'[w])
    BY <2>2 DEF CallFits, CallRests
  <2> QED
    BY <1>4, <1>5, <1>6, <2>1, <2>2, <2>5, <2>6, <2>7, GoExact DEF b
<1>10. CASE ~IsPureRename(w)
  <2> DEFINE k == [job[w] EXCEPT !.pc = "dparent", !.uid = u]
  <2>1. k.pc = "dparent" /\ k.req = r /\ k.uid = u
    BY <1>4 DEF Job
  <2>2. Becomes(w, k) /\ ThenResolve(w, Parent(r.dest))
    BY <1>1, <1>10
  <2> HIDE DEF k, r, b, c
  <2>3. JobIsExact(b, c, k)
    BY <1>6, <1>7, <1>8, <1>10, <2>1, AtDestParent DEF c
  <2>4. k.pc \in ResolvingPoints /\ Asked(k) = Parent(r.dest)
    BY <2>1 DEF ResolvingPoints, Asked
  <2> QED
    BY <1>4, <1>5, <1>6, <2>1, <2>2, <2>3, <2>4, GoesOn DEF b
<1> QED
  BY <1>9, <1>10

LEMMA DestParentMissingExact ==
  ASSUME AloneInv, NEW w \in Workers, DestParentMissing(w)
  PROVE  StaysExact(w)
<1> DEFINE r == Req(w)
           b == begun[w]
           c == Ready(b, r)
           u == job[w].uid
<1>1. /\ Answer(w, "dparent", NoUid) /\ Reply(w, 409) /\ Taken(w) /\ UNCHANGED <<tree, cache>>
  BY DEF DestParentMissing
<1>2. job[w].pc = "dparent" /\ Denoted(tree, Asked(job[w])) = {}
  BY <1>1, AnswerFacts
<1>3. /\ Busy(w) /\ WellFormed(b) /\ job[w] \in Job /\ r = job[w].req
      /\ r.method \in {"COPY", "MOVE"} /\ r.path \in Seq(Names)
      /\ Parent(r.dest) \in Seq(Names)
      /\ JobIsExact(b, tree, job[w]) /\ WellFormed(c)
  BY <1>2, RelocationFacts DEF RelocatingPoints
<1>4. WellFormed(tree') /\ CacheIsRight(tree', cache') /\ CallRests(w)
  BY <1>1, <1>2, SameTree, TakenRests
<1>5. /\ IsReady(b, r) /\ tree = c /\ tree' = c /\ ~PureRename(r)
      /\ u \in Denoted(c, r.path) \cap Uids
  BY <1>1, <1>2, <1>3, AtDestParent
<1>6. Asked(job[w]) = Parent(r.dest)
  BY <1>2, <1>3 DEF Asked
<1> HIDE DEF r, b, c, u
<1>7. NodeAt(c, r.path) = u /\ u \notin {NoUid, Root} /\ NodeAt(c, Parent(r.dest)) = NoUid
  BY <1>2, <1>3, <1>5, <1>6, NodeIs, DirsFacts
<1>8. Outcome(c, 409) \in Relocating(c, r)
  BY <1>5, <1>7 DEF Relocating, PureRename
<1>9. Outcomes(b, r) = Relocating(c, r)
  BY <1>3, <1>5, RelocatingIs DEF c
<1> QED
  BY <1>1, <1>3, <1>4, <1>5, <1>8, <1>9, ReplyExact DEF r, b

LEMMA DestParentFoundExact ==
  ASSUME AloneInv, NEW w \in Workers, DestParentFound(w)
  PROVE  StaysExact(w)
<1> DEFINE r == Req(w)
           b == begun[w]
           c == Ready(b, r)
           u == job[w].uid
           f == IF r.method = "MOVE" THEN "move"
                ELSE IF Base(r.dest) # Base(r.path) THEN "before" ELSE "copy"
<1>1. PICK d \in Dirs :
        /\ Answer(w, "dparent", d)
        /\ Becomes(w, [job[w] EXCEPT !.par = d,
             !.pc = IF Is(w, {"MOVE"}) THEN "move" ELSE IF Renames(w) THEN "before" ELSE "copy"])
  BY DEF DestParentFound
<1>2. UNCHANGED <<tree, cache>> /\ Taken(w) /\ d # NoUid
  BY DirsFacts DEF DestParentFound
<1>3. job[w].pc = "dparent" /\ d \in Denoted(tree, Asked(job[w]))
  BY <1>1, <1>2, AnswerFacts
<1>4. /\ Busy(w) /\ WellFormed(b) /\ job[w] \in Job /\ r = job[w].req
      /\ r.method \in {"COPY", "MOVE"}
      /\ JobIsExact(b, tree, job[w]) /\ WellFormed(c)
  BY <1>3, RelocationFacts DEF RelocatingPoints
<1>5. WellFormed(tree') /\ CacheIsRight(tree', cache') /\ CallRests(w)
  BY <1>2, <1>3, SameTree, TakenRests
<1>6. /\ IsReady(b, r) /\ tree = c /\ tree' = c /\ ~PureRename(r)
      /\ u \in Denoted(c, r.path) \cap Uids
  BY <1>2, <1>3, <1>4, AtDestParent
<1>7. d \in Denoted(c, Parent(r.dest))
  BY <1>3, <1>4, <1>6 DEF Asked
<1>8. Becomes(w, [job[w] EXCEPT !.par = d, !.pc = f])
  BY <1>1 DEF Is, Renames, DestName, NameOf
<1> DEFINE k == [job[w] EXCEPT !.par = d, !.pc = f]
<1> HIDE DEF f
<1>9. k.pc = f /\ k.req = r /\ k.uid = u /\ k.par = d
  BY <1>4 DEF Job
<1> HIDE DEF r, b, c, u, k
<1>10. /\ f \in {"before", "copy", "move"}
       /\ f = "move" => r.method = "MOVE"
       /\ f = "before" => Base(r.dest) # Base(r.path)
       /\ f = "copy" => Base(r.dest) = Base(r.path)
  BY DEF f
<1>11. JobIsExact(b, c, k)
  BY <1>6, <1>7, <1>9, <1>10, AtPlaced DEF c
<1> QED
  BY <1>4, <1>5, <1>6, <1>8, <1>9, <1>10, <1>11, GoesOn DEF b, k

LEMMA AnswersExact ==
  ASSUME AloneInv, NEW w \in Workers, Answers(w)
  PROVE  StaysExact(w)
BY TargetMissingExact, DeleteOfRootExact, TargetFoundExact, ParentMissingExact, ParentFoundExact,
   PutTargetMissingExact, DestFoundExact, DestFreeExact, SourceMissingExact, SourceFoundExact,
   DestParentMissingExact, DestParentFoundExact
   DEF Answers

-----------------------------------------------------------------------------
(* What PUT and MKCOL create, and the answers that record a node *)

LEMMA CreationFacts ==
  ASSUME AloneInv, NEW w \in Workers, job[w].pc \in {"touch", "mkdir"}
  PROVE  /\ Busy(w) /\ WellFormed(begun[w]) /\ tree = begun[w] /\ job[w] \in Job
         /\ Req(w) = job[w].req /\ Req(w).method \in Methods
         /\ Req(w).method = IF job[w].pc = "touch" THEN "PUT" ELSE "MKCOL"
         /\ Req(w).path \in Paths /\ Req(w).path \in Seq(Names) /\ Req(w).path # RootPath
         /\ NameOf(w) = Base(Req(w).path)
         /\ job[w].par \in Denoted(begun[w], Parent(Req(w).path)) /\ job[w].par \in Dirs
         /\ NodeAt(begun[w], Parent(Req(w).path)) = job[w].par /\ job[w].par # NoUid
         /\ job[w].pc = "touch" => job[w].fresh /\ Denoted(begun[w], Req(w).path) = {}
                                   /\ NodeAt(begun[w], Req(w).path) = NoUid
         /\ CacheIsRight(tree, cache)
<1>1. /\ JobIsExact(begun[w], tree, job[w]) /\ job[w] \in Job /\ JobIsPlaced(job[w])
      /\ Req(w) = job[w].req /\ Req(w).path \in Paths \cup {RootPath} /\ Req(w) \in Request
  BY HereFacts
<1>2. Busy(w) /\ WellFormed(begun[w]) /\ CacheIsRight(tree, cache)
  BY HereFacts DEF Busy
<1>3. Req(w).path \in Paths /\ Req(w).path # RootPath
  BY <1>1 DEF JobIsPlaced
<1>4. Req(w).path \in Seq(Names) /\ Parent(Req(w).path) \in Seq(Names)
  BY <1>3, PathFacts, LastFacts
<1>5. /\ tree = begun[w] /\ job[w].par \in Denoted(begun[w], Parent(Req(w).path))
      /\ Req(w).method = IF job[w].pc = "touch" THEN "PUT" ELSE "MKCOL"
      /\ job[w].pc = "touch" => job[w].fresh /\ Denoted(begun[w], Req(w).path) = {}
  BY <1>1, AtCreation
<1>6. job[w].par \in Dirs
  BY <1>4, <1>5, DenotedType, DirsFacts
<1>7. /\ NodeAt(begun[w], Parent(Req(w).path)) = job[w].par /\ job[w].par # NoUid
      /\ job[w].pc = "touch" => NodeAt(begun[w], Req(w).path) = NoUid
  BY <1>2, <1>4, <1>5, NodeIs
<1>8. Req(w).method \in Methods
  BY <1>1 DEF Request
<1> QED
  BY <1>1, <1>2, <1>3, <1>4, <1>5, <1>6, <1>7, <1>8 DEF NameOf

LEMMA CreatedIsFound ==
  ASSUME UniqueNames, NEW t, WellFormed(t), NEW p \in Paths, NEW d \in Denoted(t, Parent(p)),
         NEW u \in Uids, NEW k \in Kinds, CanCreate(t, u, d, Base(p), k),
         NEW s, s = Created(t, u, d, Base(p), k)
  PROVE  /\ WellFormed(s) /\ Keeps(t, s) /\ u \in Denoted(s, p)
         /\ s[u].status = "live" /\ s[u].kind = k
<1>1. /\ p \in Seq(Names) /\ p # RootPath /\ Base(p) \in Names /\ Parent(p) \in Seq(Names)
      /\ t \in Tree /\ IsRooted(t)
  BY PathFacts, LastFacts DEF WellFormed
<1>2. d \in Dirs
  BY <1>1, DenotedType, DirsFacts
<1>3. WellFormed(s)
  BY <1>1, <1>2, WellKept
<1>4. IsLive(t, d)
  BY HolderFacts DEF CanCreate
<1>5. Right(t, Parent(p), d)
  BY <1>2, <1>4, DirsFacts DEF Right, IsLive
<1> DEFINE n == Base(p)
<1>8. n \in Names /\ Base(p) = n /\ CanCreate(t, u, d, n, k) /\ s = Created(t, u, d, n, k)
  BY <1>1
<1> HIDE DEF n
<1>9. Keeps(t, Created(t, u, d, n, k)) /\ Right(Created(t, u, d, n, k), p, u)
  BY <1>1, <1>2, <1>5, <1>8, CreatedStill
<1>6. Keeps(t, s) /\ Right(s, p, u)
  BY <1>8, <1>9
<1>7. s[u].status = "live" /\ s[u].kind = k
  BY <1>1, CreatedBecomes DEF BecomesNode
<1> QED
  BY <1>3, <1>6, <1>7 DEF Right, IsLive

LEMMA CreateExact ==
  ASSUME Alone, AloneInv, NEW w \in Workers, Create(w)
  PROVE  StaysExact(w)
<1> DEFINE r == Req(w)
           b == begun[w]
           d == job[w].par
           kind == CreatedKind(w)
<1>1. job[w].pc \in {"touch", "mkdir"} /\ UNCHANGED <<cache, call>>
  BY DEF Create
<1>2. PICK u \in Creatable(w) :
        /\ tree' = Created(tree, u, d, NameOf(w), kind)
        /\ Becomes(w, [job[w] EXCEPT !.pc = IF @ = "touch" THEN "upload" ELSE "map",
                                     !.uid = u, !.par = NoUid])
  BY DEF Create
<1>3. /\ Busy(w) /\ WellFormed(b) /\ tree = b /\ job[w] \in Job
      /\ r = job[w].req /\ r.method \in Methods
      /\ r.method = IF job[w].pc = "touch" THEN "PUT" ELSE "MKCOL"
      /\ r.path \in Paths /\ NameOf(w) = Base(r.path)
      /\ d \in Denoted(b, Parent(r.path)) /\ NodeAt(b, Parent(r.path)) = d /\ d # NoUid
      /\ CacheIsRight(tree, cache)
  BY <1>1, CreationFacts
<1>4. job[w].pc = "touch" => job[w].fresh /\ Denoted(b, r.path) = {}
  BY <1>1, CreationFacts
<1>5. /\ u \in Uids /\ CanCreate(b, u, d, Base(r.path), kind)
      /\ tree' = Created(b, u, d, Base(r.path), kind)
  BY <1>2, <1>3 DEF Creatable
<1>6. CallRests(w)
  BY <1>1, TakenRests DEF ResolvingPoints
<1>7. kind \in Kinds /\ kind = IF job[w].pc = "touch" THEN "file" ELSE "dir"
  BY <1>1 DEF CreatedKind, Does, Kinds
<1> HIDE DEF kind
<1>8. WellFormed(tree') /\ Keeps(b, tree') /\ u \in Denoted(tree', r.path)
  BY <1>3, <1>5, <1>7, CreatedIsFound DEF Alone
<1>9. CacheIsRight(tree', cache')
  <2>1. b \in Tree
    BY <1>3 DEF WellFormed
  <2> QED
    BY <1>1, <1>3, <1>8, <2>1, CacheKept
<1> HIDE DEF r, b, d
<1>10. CASE job[w].pc = "touch"
  <2> DEFINE k == [job[w] EXCEPT !.pc = "upload", !.uid = u, !.par = NoUid]
  <2>1. k.pc = "upload" /\ k.req = r /\ k.uid = u
    BY <1>3 DEF Job
  <2>2. k.fresh = job[w].fresh
    BY <1>3 DEF Job
  <2>3. Becomes(w, k)
    BY <1>2, <1>10
  <2> HIDE DEF k
  <2>4. k.fresh
    BY <1>4, <1>10, <2>2, Zenon
  <2>5. MadeBy(b, tree', r, u)
    BY <1>3, <1>4, <1>5, <1>7, <1>10 DEF MadeBy
  <2>6. IsUploading(b, tree', k)
    BY <2>1, <2>4, <2>5, Zenon DEF IsUploading
  <2>7. JobIsExact(b, tree', k)
    BY <1>3, <1>10, <2>1, <2>6, AtUpload
  <2> QED
    BY <1>3, <1>6, <1>8, <1>9, <2>1, <2>3, <2>7, GoesOn DEF b
<1>11. CASE job[w].pc = "mkdir"
  <2> DEFINE k == [job[w] EXCEPT !.pc = "map", !.uid = u, !.par = NoUid]
  <2>1. k.pc = "map" /\ k.req = r /\ k.uid = u
    BY <1>3 DEF Job
  <2>3. Becomes(w, k)
    BY <1>2, <1>11
  <2> HIDE DEF k
  <2>4. r.method = "MKCOL" /\ kind = "dir"
    BY <1>3, <1>7, <1>11
  <2>a. CanCreate(b, u, d, Base(r.path), "dir")
    BY <1>5, <2>4
  <2>5. tree' \in CreatedAt(b, d, Base(r.path), "dir")
    BY <1>5, <2>4, <2>a DEF CreatedAt
  <2>6. Outcome(tree', 201) \in Creating(b, r)
    BY <1>3, <2>4, <2>5 DEF Creating, OneOf
  <2>7. Outcomes(b, r) = Creating(b, r)
    BY <1>3, <2>4, OutcomesAre
  <2>8. MapStatus(k) = 201 /\ SubjectOf(r) = r.path
    BY <2>1, <2>4 DEF MapStatus, SubjectOf
  <2>9. JobIsExact(b, tree', k)
    BY <1>8, <2>1, <2>4, <2>6, <2>7, <2>8, AtMap
  <2> QED
    BY <1>3, <1>6, <1>8, <1>9, <2>1, <2>3, <2>9, GoesOn DEF b
<1> QED
  BY <1>1, <1>10, <1>11

LEMMA CreateFailsExact ==
  ASSUME Alone, AloneInv, NEW w \in Workers, CreateFails(w)
  PROVE  StaysExact(w)
<1> DEFINE r == Req(w)
           b == begun[w]
           d == job[w].par
           kind == CreatedKind(w)
           results == {Created(tree, u, d, NameOf(w), kind) : u \in Creatable(w)}
<1>1. /\ job[w].pc \in {"touch", "mkdir"} /\ UNCHANGED <<cache, call>>
      /\ RpcFails(results) /\ Reply(w, 500)
  BY DEF CreateFails
<1>9. kind = IF job[w].pc = "touch" THEN "file" ELSE "dir"
  BY DEF CreatedKind, Does
<1>2. results = {} /\ UNCHANGED tree
  BY <1>1, OnlyRefused
<1>3. Creatable(w) = {}
  BY <1>2
<1> HIDE DEF results
<1>4. /\ Busy(w) /\ WellFormed(b) /\ tree = b
      /\ r.method = IF job[w].pc = "touch" THEN "PUT" ELSE "MKCOL"
      /\ r.method \in Methods
      /\ r.method = "PUT" => NodeAt(b, r.path) = NoUid
      /\ NameOf(w) = Base(r.path)
      /\ NodeAt(b, Parent(r.path)) = d /\ d # NoUid
      /\ CacheIsRight(tree, cache)
  BY <1>1, CreationFacts
<1>5. \A u \in Uids : ~CanCreate(b, u, d, Base(r.path), kind)
  BY <1>3, <1>4 DEF Creatable
<1>6. CallRests(w)
  BY <1>1, TakenRests DEF ResolvingPoints
<1> HIDE DEF r, b, d, kind
<1>7. /\ kind = "dir" => CreatedAt(b, d, Base(r.path), "dir") = {}
      /\ kind = "file" => FilledAt(b, d, Base(r.path)) = {}
  BY <1>5 DEF CreatedAt, FilledAt
<1>8. Outcome(b, 500) \in Creating(b, r)
  BY <1>4, <1>7, <1>9 DEF Creating, OneOf
<1> QED
  BY <1>1, <1>2, <1>4, <1>6, <1>8, OutcomesAre, ReplyExact DEF r, b

LEMMA UploadFacts ==
  ASSUME AloneInv, NEW w \in Workers, job[w].pc = "upload"
  PROVE  /\ Busy(w) /\ WellFormed(begun[w]) /\ WellFormed(tree) /\ job[w] \in Job
         /\ Req(w) = job[w].req /\ Req(w).method \in Methods /\ Req(w).method = "PUT"
         /\ Req(w).path \in Seq(Names) /\ Parent(Req(w).path) \in Seq(Names)
         /\ Req(w).path \in Paths \cup {RootPath}
         /\ IsUploading(begun[w], tree, job[w]) /\ CacheIsRight(tree, cache)
<1>1. /\ JobIsExact(begun[w], tree, job[w]) /\ job[w] \in Job
      /\ Req(w) = job[w].req /\ Req(w).path \in Seq(Names) /\ Parent(Req(w).path) \in Seq(Names)
      /\ Req(w) \in Request /\ Req(w).path \in Paths \cup {RootPath}
  BY HereFacts, RequestFacts
<1>2. Busy(w) /\ WellFormed(begun[w]) /\ CacheIsRight(tree, cache) /\ WellFormed(tree)
  BY HereFacts DEF Busy
<1>3. Req(w).method = "PUT" /\ IsUploading(begun[w], tree, job[w])
  BY <1>1, AtUpload
<1> QED
  BY <1>1, <1>2, <1>3 DEF Methods

(* A file that a PUT has made. *)
LEMMA MadeFacts ==
  ASSUME UniqueNames, NEW b, WellFormed(b), NEW t, NEW r, r.path \in Paths \cup {RootPath},
         NEW u \in Uids, MadeBy(b, t, r, u)
  PROVE  /\ u \in Denoted(t, r.path) /\ IsFile(t, u)
         /\ NodeAt(b, r.path) = NoUid /\ NodeAt(b, Parent(r.path)) # NoUid
         /\ Filled(t, u) \in FilledAt(b, NodeAt(b, Parent(r.path)), Base(r.path))
<1>1. PICK d \in Denoted(b, Parent(r.path)) :
        /\ CanCreate(b, u, d, Base(r.path), "file")
        /\ t = Created(b, u, d, Base(r.path), "file")
  BY DEF MadeBy
<1>2. Denoted(b, r.path) = {}
  BY DEF MadeBy
<1>3. r.path \in Paths
  BY <1>2, DenotedRoot
<1>4. r.path \in Seq(Names) /\ Parent(r.path) \in Seq(Names)
  BY <1>3, PathFacts, LastFacts
<1>5. "file" \in Kinds
  BY DEF Kinds
<1>6. u \in Denoted(t, r.path) /\ t[u].status = "live" /\ t[u].kind = "file"
  BY <1>1, <1>3, <1>5, CreatedIsFound
<1>7. NodeAt(b, r.path) = NoUid /\ NodeAt(b, Parent(r.path)) = d /\ d # NoUid
  BY <1>2, <1>4, NodeIs
<1>8. Filled(t, u) \in FilledAt(b, d, Base(r.path))
  BY <1>1 DEF FilledAt
<1> QED
  BY <1>6, <1>7, <1>8 DEF IsFile

LEMMA UploadExact ==
  ASSUME Alone, AloneInv, NEW w \in Workers, Upload(w)
  PROVE  StaysExact(w)
<1> DEFINE r == Req(w)
           b == begun[w]
           u == job[w].uid
           k == [job[w] EXCEPT !.pc = "map"]
<1>1. /\ job[w].pc = "upload" /\ CanFill(tree, u) /\ tree' = Filled(tree, u)
      /\ Becomes(w, k) /\ UNCHANGED <<cache, call>>
  BY DEF Upload, Does, Proceed
<1>2. /\ Busy(w) /\ WellFormed(b) /\ WellFormed(tree) /\ job[w] \in Job
      /\ r = job[w].req /\ r.method \in Methods /\ r.method = "PUT"
      /\ r.path \in Seq(Names) /\ Parent(r.path) \in Seq(Names)
      /\ r.path \in Paths \cup {RootPath}
      /\ IsUploading(b, tree, job[w]) /\ CacheIsRight(tree, cache)
  BY <1>1, UploadFacts
<1>3. CallRests(w)
  BY <1>1, TakenRests DEF ResolvingPoints
<1>4. k.pc = "map" /\ k.req = r /\ k.uid = u
  BY <1>2 DEF Job
<1>5. k.fresh = job[w].fresh
  BY <1>2 DEF Job
<1>6. tree \in Tree /\ IsRooted(tree) /\ u \in Uids /\ IsFile(tree, u)
  BY <1>1, <1>2 DEF WellFormed, CanFill, IsFile
<1>7. WellFormed(tree')
  BY <1>1, <1>2, <1>6, WellKept DEF Alone
<1>8. Keeps(tree, tree')
  BY <1>1, <1>6, FilledStill
<1>9. CacheIsRight(tree', cache')
  BY <1>1, <1>2, <1>6, <1>8, CacheKept
<1>10. tree'[u].status = "live"
  BY <1>1, <1>6, FilledBecomes DEF BecomesNode, IsFile
<1> HIDE DEF r, b, u, k
<1>11. ASSUME u \in Denoted(tree, r.path) PROVE u \in Denoted(tree', r.path)
  BY <1>2, <1>6, <1>8, <1>10, <1>11, DenotedKept DEF Keeps, IsLive
<1>12. Outcomes(b, r) = Creating(b, r) /\ SubjectOf(r) = r.path
  BY <1>2, OutcomesAre DEF SubjectOf
<1>13. CASE job[w].fresh
  <2>1. MadeBy(b, tree, r, u)
    BY <1>1, <1>2, <1>13, Zenon DEF IsUploading, r, u
  <2>2. /\ u \in Denoted(tree, r.path)
        /\ NodeAt(b, r.path) = NoUid /\ NodeAt(b, Parent(r.path)) # NoUid
        /\ tree' \in FilledAt(b, NodeAt(b, Parent(r.path)), Base(r.path))
    BY <1>1, <1>2, <1>6, <2>1, MadeFacts DEF Alone
  <2>3. Outcome(tree', 201) \in Creating(b, r)
    BY <1>2, <2>2 DEF Creating, OneOf
  <2>4. MapStatus(k) = 201
    BY <1>5, <1>13, Zenon DEF MapStatus
  <2>5. JobIsExact(b, tree', k)
    BY <1>2, <1>4, <1>11, <1>12, <2>2, <2>3, <2>4, AtMap
  <2> QED
    BY <1>1, <1>2, <1>3, <1>4, <1>7, <1>9, <2>5, GoesOn DEF b
<1>14. CASE ~job[w].fresh
  <2>1. tree = b /\ u \in Denoted(b, r.path) /\ Denoted(b, Parent(r.path)) # {}
    BY <1>1, <1>2, <1>14, Zenon DEF IsUploading, r, u
  <2>2. NodeAt(b, r.path) = u /\ u # NoUid
    BY <1>2, <2>1, NodeIs
  <2>3. NodeAt(b, Parent(r.path)) # NoUid
    BY <1>2, <2>1, NodeIs
  <2>4. Outcome(tree', 204) \in Creating(b, r)
    BY <1>1, <1>2, <1>6, <2>1, <2>2, <2>3 DEF Creating
  <2>5. MapStatus(k) = 204
    <3>1. ~k.fresh
      BY <1>5, <1>14, Zenon
    <3>2. k.req.method = "PUT"
      BY <1>2, <1>4
    <3> QED
      BY <3>1, <3>2, Zenon DEF MapStatus
  <2>6. JobIsExact(b, tree', k)
    BY <1>2, <1>4, <1>11, <1>12, <2>1, <2>4, <2>5, AtMap
  <2> QED
    BY <1>1, <1>2, <1>3, <1>4, <1>7, <1>9, <2>6, GoesOn DEF b
<1> QED
  BY <1>13, <1>14

LEMMA UploadFailsExact ==
  ASSUME Alone, AloneInv, NEW w \in Workers, UploadFails(w)
  PROVE  StaysExact(w)
<1> DEFINE r == Req(w)
           b == begun[w]
           u == job[w].uid
<1>1. /\ job[w].pc = "upload" /\ RpcFails(Result(CanFill(tree, u), Filled(tree, u)))
      /\ Reply(w, 500) /\ UNCHANGED <<cache, call>>
  BY DEF UploadFails, Does
<1>2. ~IsFile(tree, u) /\ UNCHANGED tree
  BY <1>1, NoneRefused DEF CanFill
<1>3. /\ Busy(w) /\ WellFormed(b) /\ WellFormed(tree) /\ job[w] \in Job
      /\ r = job[w].req /\ r.method \in Methods /\ r.method = "PUT"
      /\ r.path \in Seq(Names) /\ Parent(r.path) \in Seq(Names)
      /\ r.path \in Paths \cup {RootPath}
      /\ IsUploading(b, tree, job[w]) /\ CacheIsRight(tree, cache)
  BY <1>1, UploadFacts
<1>4. CallRests(w)
  BY <1>1, TakenRests DEF ResolvingPoints
<1> HIDE DEF r, b, u
<1>5. CASE job[w].fresh
  <2>1. MadeBy(b, tree, r, u)
    BY <1>1, <1>3, <1>5, Zenon DEF IsUploading, r, u
  <2>3. u \in Uids
    BY <2>1 DEF MadeBy
  <2> QED
    BY <1>2, <1>3, <2>1, <2>3, MadeFacts DEF Alone
<1>6. CASE ~job[w].fresh
  <2>1. tree = b /\ u \in Denoted(b, r.path) /\ Denoted(b, Parent(r.path)) # {}
    BY <1>1, <1>3, <1>6, Zenon DEF IsUploading, r, u
  <2>2. NodeAt(b, r.path) = u /\ u # NoUid
    BY <1>3, <2>1, NodeIs
  <2>3. NodeAt(b, Parent(r.path)) # NoUid
    BY <1>3, <2>1, NodeIs
  <2>4. Outcome(b, 500) \in Creating(b, r)
    BY <1>2, <1>3, <2>1, <2>2, <2>3 DEF Creating
  <2> QED
    BY <1>1, <1>2, <1>3, <1>4, <2>1, <2>4, OutcomesAre, ReplyExact DEF r, b
<1> QED
  BY <1>5, <1>6

LEMMA DenotedIsRight ==
  ASSUME NEW t, NEW p \in Seq(Names), NEW u \in Denoted(t, p)
  PROVE  u \in Dirs /\ u # NoUid /\ Right(t, p, u)
<1>1. CASE p = RootPath
  <2>1. u = Root
    BY <1>1, DenotedType
  <2> QED
    BY <2>1, DirsFacts DEF Right
<1>2. CASE p # RootPath
  <2>1. u \in Uids /\ t[u].status = "live"
    BY <1>2, DenotedBelow
  <2> QED
    BY <2>1, DirsFacts DEF Right
<1> QED
  BY <1>1, <1>2

LEMMA SubjectFacts ==
  ASSUME AloneInv, NEW w \in Workers
  PROVE  Subject(w) = SubjectOf(Req(w)) /\ SubjectOf(Req(w)) \in Seq(Names)
<1>1. Subject(w) = SubjectOf(Req(w))
  BY DEF Subject, SubjectOf, Is
<1>2. SubjectOf(Req(w)) \in Seq(Names)
  BY HereFacts DEF SubjectOf, Is
<1> QED
  BY <1>1, <1>2

LEMMA MapExact ==
  ASSUME AloneInv, NEW w \in Workers, Map(w)
  PROVE  StaysExact(w)
<1> DEFINE r == Req(w)
           b == begun[w]
           u == job[w].uid
           s == MapStatus(job[w])
<1>1. /\ job[w].pc = "map" /\ MapPath(Subject(w), u) /\ UNCHANGED <<tree, call>>
      /\ Reply(w, IF r.method = "PUT" /\ ~job[w].fresh THEN 204 ELSE 201)
  BY DEF Map, Does, Is
<1>2. /\ JobIsExact(b, tree, job[w]) /\ r = job[w].req
      /\ WellFormed(tree) /\ CacheIsRight(tree, cache) /\ CacheTypeOK
  BY <1>1, HereFacts
<1>3. Busy(w)
  BY <1>1 DEF Busy
<1>4. Reply(w, s)
  <2>1. s = IF job[w].req.method = "PUT" /\ ~job[w].fresh THEN 204 ELSE 201
    BY DEF MapStatus
  <2>2. job[w].req = r
    BY <1>2
  <2> HIDE DEF s, r
  <2>3. s = IF r.method = "PUT" /\ ~job[w].fresh THEN 204 ELSE 201
    BY <2>1, <2>2, Zenon
  <2> QED
    BY <1>1, <2>3, Zenon
<1> HIDE DEF s
<1>5. /\ u \in Denoted(tree, SubjectOf(r))
      /\ Outcome(tree, s) \in Outcomes(b, r)
  BY <1>1, <1>2, AtMap DEF s
<1>6. Subject(w) = SubjectOf(r) /\ SubjectOf(r) \in Seq(Names)
  BY SubjectFacts
<1>7. CallRests(w)
  BY <1>1, TakenRests DEF ResolvingPoints
<1> HIDE DEF r, b, u
<1>8. u \in Dirs /\ Right(tree, SubjectOf(r), u)
  BY <1>5, <1>6, DenotedIsRight
<1>9. CacheIsRight(tree, cache')
  BY <1>1, <1>2, <1>6, <1>8, CacheTakes
<1> QED
  BY <1>1, <1>2, <1>3, <1>4, <1>5, <1>7, <1>9, ReplyExact DEF r, b

LEMMA CreatesExact ==
  ASSUME Alone, AloneInv, NEW w \in Workers, Creates(w)
  PROVE  StaysExact(w)
BY CreateExact, CreateFailsExact, UploadExact, UploadFailsExact, MapExact DEF Creates

-----------------------------------------------------------------------------
(* What is read *)

LEMMA FoundFactsHere ==
  ASSUME AloneInv, NEW w \in Workers, job[w].pc \in FoundHere
  PROVE  /\ Busy(w) /\ WellFormed(begun[w]) /\ tree = begun[w] /\ job[w] \in Job
         /\ Req(w) = job[w].req /\ Req(w).method \in Methods
         /\ Req(w).path \in Seq(Names) /\ SubjectOf(Req(w)) \in Seq(Names)
         /\ job[w].uid \in Denoted(begun[w], SubjectOf(Req(w)))
         /\ NodeAt(begun[w], SubjectOf(Req(w))) = job[w].uid /\ job[w].uid # NoUid
         /\ job[w].pc = "download" => Req(w).method = "GET"
         /\ job[w].pc \in {"list", "map entries"} => Req(w).method = "PROPFIND"
         /\ job[w].pc = "remove file" => IsFile(begun[w], job[w].uid)
         /\ job[w].pc = "map entries" =>
              \A e \in job[w].entries :
                 Append(Req(w).path, e.name) \in Paths
                 /\ e.uid \in Denoted(begun[w], Append(Req(w).path, e.name))
         /\ CacheIsRight(tree, cache) /\ job[w].pc \notin ResolvingPoints
<1>1. /\ JobIsExact(begun[w], tree, job[w]) /\ job[w] \in Job
      /\ Req(w) = job[w].req /\ Req(w).path \in Seq(Names) /\ Req(w) \in Request
  BY HereFacts
<1>2. /\ Busy(w) /\ WellFormed(begun[w]) /\ CacheIsRight(tree, cache)
      /\ job[w].pc \notin ResolvingPoints
  BY HereFacts DEF Busy, FoundHere, ResolvingPoints
<1>3. /\ tree = begun[w] /\ job[w].uid \in Denoted(begun[w], SubjectOf(Req(w)))
      /\ job[w].pc = "download" => Req(w).method = "GET"
      /\ job[w].pc \in {"list", "map entries"} => Req(w).method = "PROPFIND"
      /\ job[w].pc = "remove file" => IsFile(begun[w], job[w].uid)
      /\ job[w].pc = "map entries" =>
           \A e \in job[w].entries :
              Append(Req(w).path, e.name) \in Paths
              /\ e.uid \in Denoted(begun[w], Append(Req(w).path, e.name))
  BY <1>1, AtFound
<1>4. SubjectOf(Req(w)) \in Seq(Names)
  BY SubjectFacts
<1>5. NodeAt(begun[w], SubjectOf(Req(w))) = job[w].uid /\ job[w].uid # NoUid
  BY <1>2, <1>3, <1>4, NodeIs
<1>6. Req(w).method \in Methods
  BY <1>1 DEF Request
<1> QED
  BY <1>1, <1>2, <1>3, <1>4, <1>5, <1>6

LEMMA DownloadExact ==
  ASSUME AloneInv, NEW w \in Workers, Download(w), Alone
  PROVE  StaysExact(w)
<1> DEFINE r == Req(w)
           b == begun[w]
           u == job[w].uid
<1>1. /\ job[w].pc = "download" /\ UNCHANGED <<tree, cache, call>>
      /\ \/ IsFile(tree, u) /\ Reply(w, 200)
         \/ ~IsFile(tree, u) /\ Reply(w, 500)
  BY DEF Download, Does, resolverVars, Alone
<1>2. /\ Busy(w) /\ tree = b /\ WellFormed(b) /\ r.method \in Methods /\ r.method = "GET"
      /\ NodeAt(b, SubjectOf(r)) = u /\ u # NoUid
      /\ CacheIsRight(tree, cache) /\ job[w].pc \notin ResolvingPoints
  BY <1>1, FoundFactsHere DEF FoundHere
<1>3. CallRests(w)
  BY <1>1, <1>2, TakenRests
<1> HIDE DEF r, b, u
<1>4. SubjectOf(r) = r.path /\ Outcomes(b, r) = Reading(b, r)
  BY <1>2, OutcomesAre DEF SubjectOf
<1>5. CASE IsFile(tree, u) /\ Reply(w, 200)
  <2>1. Outcome(b, 200) \in Reading(b, r)
    BY <1>2, <1>4, <1>5 DEF Reading
  <2> QED
    BY <1>1, <1>2, <1>3, <1>4, <1>5, <2>1, ReplyExact DEF r, b
<1>6. CASE ~IsFile(tree, u) /\ Reply(w, 500)
  <2>1. Outcome(b, 500) \in Reading(b, r)
    BY <1>2, <1>4, <1>6 DEF Reading
  <2> QED
    BY <1>1, <1>2, <1>3, <1>4, <1>6, <2>1, ReplyExact DEF r, b
<1> QED
  BY <1>1, <1>5, <1>6

(* A PROPFIND of what there is is answered with 207. *)
LEMMA ListedExact ==
  ASSUME AloneInv, NEW w \in Workers, job[w].pc \in FoundHere, Req(w).method = "PROPFIND",
         Reply(w, 207), UNCHANGED <<tree, call>>, CacheIsRight(tree', cache')
  PROVE  StaysExact(w)
<1> DEFINE r == Req(w)
           b == begun[w]
           u == job[w].uid
<1>1. /\ Busy(w) /\ tree = b /\ WellFormed(b) /\ r.method \in Methods
      /\ NodeAt(b, SubjectOf(r)) = u /\ u # NoUid
      /\ job[w].pc \notin ResolvingPoints
  BY FoundFactsHere
<1>2. CallRests(w)
  BY <1>1, TakenRests
<1>3. r.method = "PROPFIND"
  OBVIOUS
<1> HIDE DEF r, b, u
<1>4. SubjectOf(r) = r.path /\ Outcomes(b, r) = Reading(b, r)
  BY <1>1, <1>3, OutcomesAre DEF SubjectOf
<1>5. Outcome(b, 207) \in Reading(b, r)
  BY <1>1, <1>3, <1>4 DEF Reading
<1> QED
  BY <1>1, <1>2, <1>4, <1>5, ReplyExact DEF r, b

LEMMA ListExact ==
  ASSUME AloneInv, NEW w \in Workers, List(w)
  PROVE  StaysExact(w)
<1> DEFINE r == Req(w)
           b == begun[w]
           u == job[w].uid
           found == {e \in Listing(tree, u) : Append(r.path, e.name) \in Paths}
           k == [job[w] EXCEPT !.pc = "map entries", !.entries = found]
<1>1. /\ job[w].pc = "list" /\ UNCHANGED <<tree, cache, call>>
      /\ Reply(w, 207) \/ Becomes(w, k)
  BY DEF List, Does, resolverVars
<1>2. /\ Busy(w) /\ tree = b /\ WellFormed(b) /\ r.method = "PROPFIND" /\ job[w] \in Job
      /\ r = job[w].req /\ r.path \in Seq(Names) /\ u \in Denoted(b, SubjectOf(r))
      /\ CacheIsRight(tree, cache) /\ job[w].pc \notin ResolvingPoints
  BY <1>1, FoundFactsHere DEF FoundHere
<1>3. CallRests(w)
  BY <1>1, <1>2, TakenRests
<1>4. k.pc = "map entries" /\ k.req = r /\ k.uid = u /\ k.entries = found
  BY <1>2 DEF Job
<1> HIDE DEF k
<1>5. CASE Reply(w, 207)
  BY <1>1, <1>2, <1>5, ListedExact DEF FoundHere
<1>6. CASE Becomes(w, k)
  <2>1. SubjectOf(r) = r.path
    BY <1>2 DEF SubjectOf
  <2>2. ASSUME NEW e \in found
        PROVE  Append(r.path, e.name) \in Paths /\ e.uid \in Denoted(b, Append(r.path, e.name))
    <3>1. e.uid \in Children(b, u) /\ e.name = b[e.uid].name
      BY <1>2 DEF Listing
    <3>2. e.uid \in Uids /\ b[e.uid].status = "live" /\ b[e.uid].parent = u
      BY <3>1 DEF Children
    <3> DEFINE p == r.path
               n == e.name
               q == Append(p, n)
    <3>3. p \in Seq(Names) /\ n \in Names
      BY <1>2, <3>1, <3>2, NodeFacts DEF WellFormed
    <3>4. q \in Seq(Names) /\ q # RootPath /\ Base(q) = n /\ Prefix(q, Len(q) - 1) = p
      BY <3>3, AppendFacts
    <3>5. Parent(q) = p
      BY <3>4 DEF Parent
    <3>6. q \in Paths
      OBVIOUS
    <3>7. b[e.uid].parent \in Denoted(b, p) /\ b[e.uid].name = n
      BY <1>2, <2>1, <3>1, <3>2
    <3> HIDE DEF p, n, q
    <3>8. e.uid \in Denoted(b, q)
      BY <3>2, <3>4, <3>5, <3>7, DenotedBelow
    <3> QED
      BY <3>6, <3>8 DEF p, n, q
  <2> HIDE DEF r, b, u, found
  <2>3. k.pc \in FoundHere /\ k.req.method = "PROPFIND" /\ k.uid \in Denoted(b, SubjectOf(k.req))
    BY <1>2, <1>4 DEF FoundHere
  <2>4. \A e \in k.entries : Append(k.req.path, e.name) \in Paths
                             /\ e.uid \in Denoted(b, Append(k.req.path, e.name))
    BY <1>4, <2>2
  <2>5. JobIsExact(b, b, k)
    BY <1>4, <2>3, <2>4, AtFound
  <2> QED
    BY <1>1, <1>2, <1>3, <1>4, <1>6, <2>5, GoesOn DEF b
<1> QED
  BY <1>1, <1>5, <1>6

LEMMA ListingFailsExact ==
  ASSUME AloneInv, NEW w \in Workers, ListingFails(w)
  PROVE  StaysExact(w)
<1>1. job[w].pc = "list" /\ UNCHANGED <<tree, cache, call>> /\ Reply(w, 207)
  BY DEF ListingFails, Does, resolverVars
<1>2. Req(w).method = "PROPFIND" /\ CacheIsRight(tree, cache)
  BY <1>1, FoundFactsHere DEF FoundHere
<1> QED
  BY <1>1, <1>2, ListedExact DEF FoundHere

LEMMA MapEntryExact ==
  ASSUME AloneInv, NEW w \in Workers, MapEntry(w)
  PROVE  StaysExact(w)
<1> DEFINE r == Req(w)
           b == begun[w]
           u == job[w].uid
<1>1. job[w].pc = "map entries" /\ UNCHANGED <<tree, call>>
  BY DEF MapEntry, Does
<1>2. PICK e \in job[w].entries :
        /\ MapPath(Append(r.path, e.name), e.uid)
        /\ IF job[w].entries = {e} THEN Reply(w, 207)
           ELSE Becomes(w, [job[w] EXCEPT !.entries = @ \ {e}])
  BY DEF MapEntry
<1>3. /\ Busy(w) /\ tree = b /\ WellFormed(b) /\ r.method = "PROPFIND" /\ job[w] \in Job
      /\ r = job[w].req /\ u \in Denoted(b, SubjectOf(r))
      /\ \A x \in job[w].entries : Append(r.path, x.name) \in Paths
                                   /\ x.uid \in Denoted(b, Append(r.path, x.name))
      /\ CacheIsRight(tree, cache) /\ job[w].pc \notin ResolvingPoints
  BY <1>1, FoundFactsHere DEF FoundHere
<1>4. CallRests(w)
  BY <1>1, <1>3, TakenRests
<1>5. CacheIsRight(tree, cache')
  <2> DEFINE q == Append(r.path, e.name)
  <2>1. q \in Paths /\ e.uid \in Denoted(b, q) /\ MapPath(q, e.uid)
    BY <1>2, <1>3
  <2> HIDE DEF q
  <2>2. e.uid \in Dirs /\ Right(tree, q, e.uid)
    BY <1>3, <2>1, PathFacts, DenotedIsRight
  <2>3. CacheTypeOK
    BY HereFacts
  <2> QED
    BY <1>3, <2>1, <2>2, <2>3, CacheTakes
<1>6. CASE Reply(w, 207)
  BY <1>1, <1>3, <1>5, <1>6, ListedExact DEF FoundHere
<1>7. CASE Becomes(w, [job[w] EXCEPT !.entries = @ \ {e}])
  <2> DEFINE E == job[w].entries \ {e}
             k == [job[w] EXCEPT !.entries = E]
  <2>1. k.pc = "map entries" /\ k.req = r /\ k.uid = u /\ k.entries = E
    BY <1>1, <1>3 DEF Job
  <2>2. Becomes(w, k)
    BY <1>7
  <2> HIDE DEF k, r, b, u
  <2>3. k.pc \in FoundHere /\ k.req.method = "PROPFIND" /\ k.uid \in Denoted(b, SubjectOf(k.req))
    BY <1>3, <2>1 DEF FoundHere
  <2>4. \A x \in k.entries : Append(k.req.path, x.name) \in Paths
                             /\ x.uid \in Denoted(b, Append(k.req.path, x.name))
    BY <1>3, <2>1
  <2>5. JobIsExact(b, b, k)
    BY <2>1, <2>3, <2>4, AtFound
  <2> QED
    BY <1>1, <1>3, <1>4, <1>5, <2>1, <2>2, <2>5, GoesOn DEF b
<1> QED
  BY <1>2, <1>6, <1>7

LEMMA ReadsExact ==
  ASSUME Alone, AloneInv, NEW w \in Workers, Reads(w)
  PROVE  StaysExact(w)
BY DownloadExact, ListExact, ListingFailsExact, MapEntryExact DEF Reads

-----------------------------------------------------------------------------
(* The activations of a recursive removal *)

LEMMA LevelsDiffer ==
  ASSUME NEW t, NEW d, NEW m, NEW n, AtLevel(t, d, m), AtLevel(t, d, n)
  PROVE  m = n
<1>1. PICK p \in Seq(Names) : Len(p) = m /\ d \in Denoted(t, p)
  BY DEF AtLevel
<1>2. PICK q \in Seq(Names) : Len(q) = n /\ d \in Denoted(t, q)
  BY DEF AtLevel
<1>3. p = q
  BY <1>1, <1>2, PathIsOne
<1> QED
  BY <1>1, <1>2, <1>3

(* What a child of a directory is one level below. *)
LEMMA ChildLevel ==
  ASSUME NEW t \in Tree, NEW d, NEW n \in Nat, AtLevel(t, d, n), NEW x \in Children(t, d)
  PROVE  AtLevel(t, x, n + 1)
<1>1. PICK p \in Seq(Names) : Len(p) = n /\ d \in Denoted(t, p)
  BY DEF AtLevel
<1>2. x \in Uids /\ t[x].status = "live" /\ t[x].parent = d
  BY DEF Children
<1> DEFINE k == t[x].name
           q == Append(p, k)
<1>3. k \in Names
  BY <1>2, NodeFacts
<1>4. q \in Seq(Names) /\ q # RootPath /\ Base(q) = k /\ Prefix(q, Len(q) - 1) = p
  BY <1>3, AppendFacts
<1>5. Parent(q) = p /\ Len(q) = n + 1
  BY <1>1, <1>3, <1>4 DEF Parent
<1>6. t[x].name = k /\ t[x].parent \in Denoted(t, p)
  BY <1>1, <1>2
<1> HIDE DEF k, q
<1>7. x \in Denoted(t, q)
  BY <1>2, <1>4, <1>5, <1>6, DenotedBelow
<1> QED
  BY <1>4, <1>5, <1>7 DEF AtLevel

LEMMA ListingHas ==
  ASSUME NEW t, NEW d, NEW e \in Listing(t, d)
  PROVE  /\ e.uid \in Children(t, d) /\ e.uid \in Uids /\ t[e.uid].status = "live"
         /\ t[e.uid].parent = d /\ e.kind = t[e.uid].kind /\ e.name = t[e.uid].name
         /\ \A f \in Listing(t, d) : f.uid = e.uid => f = e
BY DEF Listing, Children

LEMMA LeftOfListing ==
  ASSUME NEW t, NEW d, NEW f, f.todo = Listing(t, d)
  PROVE  Left(f) = Children(t, d)
<1>1. \A e \in Listing(t, d) : e.uid \in Children(t, d)
  BY ListingHas
<1>2. ASSUME NEW x \in Children(t, d) PROVE \E e \in Listing(t, d) : e.uid = x
  <2> DEFINE e == [uid |-> x, kind |-> t[x].kind, name |-> t[x].name]
  <2>1. e \in Listing(t, d)
    BY DEF Listing
  <2>2. e.uid = x
    OBVIOUS
  <2> QED
    BY <2>1, <2>2
<1> QED
  BY <1>1, <1>2 DEF Left

(* Another top of the stack, for the same directory. *)
LEMMA ToppedEnters ==
  ASSUME NEW s \in Seq(Frame), s # <<>>, NEW g \in Frame, g.dir = s[Len(s)].dir,
         NEW q, q = Topped(s, g)
  PROVE  /\ q \in Seq(Frame) /\ Len(q) = Len(s) /\ Len(s) \in Nat \ {0} /\ q # <<>>
         /\ q[Len(s)] = g /\ q[1].dir = s[1].dir
         /\ \A i \in 1..Len(s) : /\ q[i].dir = s[i].dir
                                 /\ Entered(q, i) = Entered(s, i)
                                 /\ i # Len(s) => q[i] = s[i]
<1>1. /\ q \in Seq(Frame) /\ Len(q) = Len(s)
      /\ \A i \in 1..Len(s) : q[i] = IF i = Len(s) THEN g ELSE s[i]
  BY ToppedFacts
<1>2. Len(s) \in Nat \ {0} /\ q # <<>>
  BY <1>1
<1>3. \A i \in 1..Len(s) : q[i].dir = s[i].dir
  BY <1>1
<1>4. ASSUME NEW i \in 1..Len(s) PROVE Entered(q, i) = Entered(s, i)
  <2>1. CASE i = Len(s)
    BY <1>1, <2>1 DEF Entered
  <2>2. CASE i # Len(s)
    <3>1. i + 1 \in 1..Len(s)
      BY <1>2, <2>2
    <3>2. q[i + 1].dir = s[i + 1].dir
      BY <1>3, <3>1
    <3> QED
      BY <1>1, <2>2, <3>2 DEF Entered
  <2> QED
    BY <2>1, <2>2
<1> QED
  BY <1>1, <1>2, <1>3, <1>4

(* The removal of a leaf x, for the activations that remain. *)
LEMMA FrameKept ==
  ASSUME NEW b, NEW t \in Tree, IsRooted(t), NEW x \in Uids,
         CanRemoveFile(t, x) \/ CanRemoveDirectory(t, x),
         NEW n, NEW u, NEW s, NEW q, NEW i, FrameHolds(b, t, n, u, s, i),
         s[i].dir # x, s[i].listed, q[i].listed, q[i].dir = s[i].dir,
         q[i].todo = {e \in s[i].todo : e.uid # x},
         Entered(q, i) = Entered(s, i) \ {x},
         NEW a, a = Removed(t, x)
  PROVE  FrameHolds(b, a, n, u, q, i)
<1> DEFINE d == s[i].dir
<1>1. Keeps(t, a)
  BY RemovedStill
<1>2. a[x].status = "gone" /\ \A y \in Uids : a[y].parent = t[y].parent
                           /\ (a[y].status = "live" => a[y] = t[y])
  BY LeavesDirectories, NodesGone
<1>5. /\ d \in Subtree(b, u) /\ d \in Uids /\ IsDir(t, d) /\ AtLevel(t, d, n + i)
      /\ s[i].todo \subseteq Listing(t, d)
      /\ Entered(s, i) \subseteq Children(t, d) \ Left(s[i])
  BY DEF FrameHolds
<1>3. a[d] = t[d] /\ \A y \in Children(t, d) : y # x => a[y] = t[y]
  BY <1>5, LeavesDirectories DEF Children
<1>4. Children(a, d) = Children(t, d) \ {x}
  BY <1>2, <1>3 DEF Children
<1>6. Children(t, d) \subseteq Left(s[i]) \cup Entered(s, i)
  BY Zenon DEF FrameHolds
<1>7. IsDir(a, d) /\ IsLive(a, d)
  BY <1>3, <1>5, DirsFacts DEF IsDir, IsLive
<1>8. AtLevel(a, d, n + i)
  BY <1>1, <1>5, <1>7, DenotedKept DEF AtLevel, Keeps
<1>9. q[i].todo \subseteq Listing(a, d)
  <2> SUFFICES ASSUME NEW e \in s[i].todo, e.uid # x PROVE e \in Listing(a, d)
    OBVIOUS
  <2>1. e \in Listing(t, d)
    BY <1>5
  <2>2. PICK y \in Children(t, d) : e = [uid |-> y, kind |-> t[y].kind, name |-> t[y].name]
    BY <2>1 DEF Listing
  <2>3. y # x
    BY <2>2
  <2>4. y \in Children(a, d) /\ a[y] = t[y]
    BY <1>3, <1>4, <2>3
  <2> QED
    BY <2>2, <2>4 DEF Listing
<1>10. Left(q[i]) = Left(s[i]) \ {x}
  BY DEF Left
<1>11. Children(a, d) \subseteq Left(q[i]) \cup Entered(q, i)
  BY <1>4, <1>6, <1>10
<1>12. Entered(q, i) \subseteq Children(a, d) \ Left(q[i])
  BY <1>4, <1>5, <1>10
<1> HIDE DEF d
<1>13. q[i].dir = d
  BY DEF d
<1>14. /\ q[i].dir \in Subtree(b, u) /\ q[i].dir \in Uids /\ IsDir(a, q[i].dir)
       /\ AtLevel(a, q[i].dir, n + i) /\ q[i].todo \subseteq Listing(a, q[i].dir)
       /\ Entered(q, i) \subseteq Children(a, q[i].dir) \ Left(q[i])
  BY <1>5, <1>7, <1>8, <1>9, <1>12, <1>13
<1>15. IF q[i].listed THEN Children(a, q[i].dir) \subseteq Left(q[i]) \cup Entered(q, i)
       ELSE q[i].todo = {} /\ i = Len(q)
  BY <1>11, <1>13, Zenon
<1> QED
  BY <1>14, <1>15, Zenon DEF FrameHolds

LEMMA FrameIs ==
  ASSUME NEW b, NEW t \in Tree, NEW n, NEW u, NEW s, NEW i, FrameHolds(b, t, n, u, s, i)
  PROVE  /\ s[i].dir \in Subtree(b, u) /\ s[i].dir \in Uids /\ IsDir(t, s[i].dir)
         /\ AtLevel(t, s[i].dir, n + i) /\ s[i].todo \subseteq Listing(t, s[i].dir)
         /\ s[i].listed => Children(t, s[i].dir) \subseteq Left(s[i]) \cup Entered(s, i)
         /\ ~s[i].listed => s[i].todo = {} /\ i = Len(s)
         /\ Entered(s, i) \subseteq Children(t, s[i].dir) \ Left(s[i])
<1>1. s[i].listed => Children(t, s[i].dir) \subseteq Left(s[i]) \cup Entered(s, i)
  BY Zenon DEF FrameHolds
<1>2. ~s[i].listed => s[i].todo = {} /\ i = Len(s)
  BY Zenon DEF FrameHolds
<1>3. /\ s[i].dir \in Subtree(b, u) /\ s[i].dir \in Uids /\ IsDir(t, s[i].dir)
      /\ AtLevel(t, s[i].dir, n + i) /\ s[i].todo \subseteq Listing(t, s[i].dir)
      /\ Entered(s, i) \subseteq Children(t, s[i].dir) \ Left(s[i])
  BY DEF FrameHolds
<1> QED
  BY <1>1, <1>2, <1>3, Zenon

(* What lives in a tree that is being emptied was there, where it is. *)
LEMMA EmptyingHas ==
  ASSUME NEW b \in Tree, NEW t \in Tree, NEW u \in Dirs, Emptying(b, t, u),
         NEW d \in Subtree(b, u), NEW x \in Children(t, d)
  PROVE  x \in Subtree(b, u) /\ t[x] = b[x]
<1>1. x \in Uids /\ t[x].status = "live" /\ t[x].parent = d
  BY DEF Children
<1>2. b[x] \in Node
  BY <1>1, NodeFacts
<1>3. t[x] = b[x] \/ t[x] = Ended(b[x])
  BY <1>1 DEF Emptying
<1>4. t[x] = b[x]
  BY <1>1, <1>2, <1>3, EndedNode
<1> QED
  BY <1>1, <1>4, SubtreeHolds

EmptiesTree(j) == j.pc = "remove tree"
RemovesFile(j) == j.pc = "remove file"

LEMMA AtTreeRemoval ==
  ASSUME NEW b, NEW t, NEW j, EmptiesTree(j),
         NEW r, r = j.req, NEW u, u = j.uid, NEW s, s = j.stack
  PROVE  JobIsExact(b, t, j) <=>
           /\ u \in Denoted(b, SubjectOf(r)) /\ Emptying(b, t, u)
           /\ s[1].dir = u
           /\ \A i \in 1..Len(s) : FrameHolds(b, t, Len(SubjectOf(r)) - 1, u, s, i)
<1>1. JobIsExact(b, t, j) <=> IsRemoving(b, t, j)
  BY Zenon DEF JobIsExact, MethodFits, IsUntouched, IsUploading, IsRelocating, IsRenaming,
               IsDone, NeedsParent, UntouchedPoints, FoundHere, PlacedPoints, EmptiesTree
<1>2. IsRemoving(b, t, j) <=>
         /\ j.uid \in Denoted(b, SubjectOf(j.req)) /\ Emptying(b, t, j.uid)
         /\ j.stack[1].dir = j.uid
         /\ \A i \in 1..Len(j.stack) :
               FrameHolds(b, t, Len(SubjectOf(j.req)) - 1, j.uid, j.stack, i)
  BY Zenon DEF IsRemoving, EmptiesTree
<1> QED
  BY <1>1, <1>2, Zenon

LEMMA AtFileRemoval ==
  ASSUME NEW b, NEW t, NEW j, RemovesFile(j)
  PROVE  JobIsExact(b, t, j) <=>
           t = b /\ j.uid \in Denoted(b, SubjectOf(j.req)) /\ IsFile(b, j.uid)
BY Zenon DEF JobIsExact, MethodFits, IsUntouched, IsUploading, IsRemoving, IsRelocating,
             IsRenaming, IsDone, NeedsParent, UntouchedPoints, FoundHere, PlacedPoints,
             RemovesFile

LEMMA RemovalPoints ==
  ASSUME NEW j, EmptiesTree(j) \/ RemovesFile(j)
  PROVE  /\ j.pc \notin {"idle", "replied", "after", "rename", "forget"}
         /\ j.pc \notin ResolvingPoints /\ j.pc \in RemovingPoints
         /\ RemovesFile(j) => j.pc \in FoundHere
BY Zenon DEF EmptiesTree, RemovesFile, ResolvingPoints, RemovingPoints, FoundHere

LEMMA RemovalHere ==
  ASSUME AloneInv, NEW w \in Workers, EmptiesTree(job[w])
  PROVE  /\ Busy(w) /\ WellFormed(begun[w]) /\ WellFormed(tree) /\ job[w] \in Job
         /\ Req(w) = job[w].req /\ SubjectOf(Req(w)) \in Seq(Names)
         /\ Len(SubjectOf(Req(w))) - 1 \in Nat
         /\ job[w].uid \in Denoted(begun[w], SubjectOf(Req(w))) /\ job[w].uid \in Uids
         /\ begun[w][job[w].uid].status = "live"
         /\ job[w].stack \in Seq(Frame) /\ job[w].stack # <<>>
         /\ Len(job[w].stack) \in Nat \ {0} /\ job[w].stack[1].dir = job[w].uid
         /\ Top(w) = job[w].stack[Len(job[w].stack)] /\ Top(w) \in Frame
         /\ Emptying(begun[w], tree, job[w].uid)
         /\ \A i \in 1..Len(job[w].stack) :
              FrameHolds(begun[w], tree, Len(SubjectOf(Req(w))) - 1, job[w].uid, job[w].stack, i)
         /\ CacheIsRight(tree, cache)
<1>1. /\ JobIsExact(begun[w], tree, job[w]) /\ job[w] \in Job /\ JobIsPlaced(job[w])
      /\ Req(w) = job[w].req /\ WellFormed(begun[w]) /\ WellFormed(tree)
      /\ CacheIsRight(tree, cache)
  BY RemovalPoints, HereFacts
<1>2. Busy(w)
  BY RemovalPoints DEF Busy
<1>3. SubjectOf(Req(w)) \in Seq(Names)
  BY SubjectFacts
<1>5. /\ job[w].uid \in Denoted(begun[w], SubjectOf(Req(w)))
      /\ Emptying(begun[w], tree, job[w].uid)
      /\ job[w].stack[1].dir = job[w].uid
      /\ \A i \in 1..Len(job[w].stack) :
           FrameHolds(begun[w], tree, Len(SubjectOf(Req(w))) - 1, job[w].uid, job[w].stack, i)
  BY <1>1, AtTreeRemoval
<1>6. job[w].stack \in Seq(Frame) /\ job[w].stack # <<>>
  <2>1. job[w].stack \in Seq(Frame)
    BY <1>1 DEF Job
  <2>2. job[w].stack # <<>>
    BY <1>1, Zenon DEF JobIsPlaced, EmptiesTree
  <2> QED
    BY <2>1, <2>2
<1>7. ASSUME NEW s \in Seq(Frame), s # <<>>
      PROVE  Len(s) \in Nat \ {0} /\ s[1] \in Frame /\ s[Len(s)] \in Frame
  <2>1. Len(s) \in Nat \ {0}
    BY <1>7
  <2>2. 1 \in 1..Len(s) /\ Len(s) \in 1..Len(s)
    BY <2>1
  <2> QED
    BY <2>1, <2>2
<1>8. /\ Len(job[w].stack) \in Nat \ {0}
      /\ job[w].stack[1] \in Frame /\ job[w].stack[Len(job[w].stack)] \in Frame
  BY <1>6, <1>7
<1>9. job[w].uid \in Uids
  <2>1. \A f \in Frame : f.dir \in Uids
    BY DEF Frame
  <2> QED
    BY <1>5, <1>8, <2>1
<1>10. begun[w] \in Tree
  BY <1>1 DEF WellFormed
<1>11. SubjectOf(Req(w)) # RootPath /\ begun[w][job[w].uid].status = "live"
  BY <1>3, <1>5, <1>9, <1>10, FoundFacts
<1>12. Len(SubjectOf(Req(w))) - 1 \in Nat
  BY <1>3, <1>11, LastFacts
<1>13. Top(w) = job[w].stack[Len(job[w].stack)]
  BY DEF Top
<1> QED
  BY <1>1, <1>2, <1>3, <1>5, <1>6, <1>8, <1>9, <1>11, <1>12, <1>13

Stacked(j, s) == [j EXCEPT !.stack = s]

LEMMA StackExact ==
  ASSUME AloneInv, NEW w \in Workers, EmptiesTree(job[w]), NEW s,
         Becomes(w, Stacked(job[w], s)), s[1].dir = job[w].uid,
         \A i \in 1..Len(s) :
            FrameHolds(begun[w], tree', Len(SubjectOf(Req(w))) - 1, job[w].uid, s, i),
         Emptying(begun[w], tree', job[w].uid), WellFormed(tree'), CacheIsRight(tree', cache'),
         UNCHANGED call
  PROVE  StaysExact(w)
<1> DEFINE r == Req(w)
           b == begun[w]
           u == job[w].uid
           k == Stacked(job[w], s)
<1>1. Busy(w) /\ job[w] \in Job /\ r = job[w].req /\ u \in Denoted(b, SubjectOf(r))
  BY RemovalHere
<1>2. k.pc = job[w].pc /\ k.req = r /\ k.uid = u /\ k.stack = s
  BY <1>1 DEF Job, Stacked
<1>3. CallRests(w) /\ EmptiesTree(k)
  BY <1>2, RemovalPoints, TakenRests, Zenon DEF EmptiesTree
<1>4. /\ Becomes(w, k) /\ s[1].dir = u /\ Emptying(b, tree', u)
      /\ \A i \in 1..Len(s) : FrameHolds(b, tree', Len(SubjectOf(r)) - 1, u, s, i)
  OBVIOUS
<1> HIDE DEF r, u, k
<1>5. JobIsExact(b, tree', k)
  BY <1>1, <1>2, <1>3, <1>4, AtTreeRemoval
<1> QED
  BY <1>1, <1>3, <1>4, <1>5, RemovalPoints, GoesOn

(* The removal of a file, or of an empty directory. *)
LEMMA LeafRemoval ==
  ASSUME NEW t, WellFormed(t), NEW x, CanRemoveFile(t, x) \/ CanRemoveDirectory(t, x),
         NEW m, CacheIsRight(t, m)
  PROVE  /\ x \in Uids /\ x # NoUid /\ t[x].status = "live"
         /\ WellFormed(Removed(t, x)) /\ CacheIsRight(Removed(t, x), m)
         /\ Removed(t, x)[x].status = "gone"
<1>1. t \in Tree /\ IsRooted(t) /\ SiblingsDiffer(t)
  BY DEF WellFormed
<1>2. x \in Uids /\ x # NoUid /\ t[x].status = "live"
  BY DirsFacts DEF CanRemoveFile, CanRemoveDirectory, IsFile, IsDir
<1>3. Removed(t, x) \in Tree
  BY <1>1, NodesGone
<1>4. IsRooted(Removed(t, x))
  BY <1>1, <1>2, CoreStaysRooted
<1>5. SiblingsDiffer(Removed(t, x))
  BY <1>1, <1>2, RemovedBrings, BroughtIsFresh
<1>6. Keeps(t, Removed(t, x))
  BY <1>1, RemovedStill
<1>7. CacheIsRight(Removed(t, x), m)
  BY <1>1, <1>6, CacheKept
<1>8. Removed(t, x)[x].status = "gone"
  BY <1>1, LeavesDirectories, NodesGone
<1> QED
  BY <1>2, <1>3, <1>4, <1>5, <1>7, <1>8 DEF WellFormed

Cleaned(j) == [j EXCEPT !.pc = "remove file"]

LEMMA CleanedIs ==
  ASSUME NEW j \in Job
  PROVE  RemovesFile(Cleaned(j)) /\ Cleaned(j).req = j.req /\ Cleaned(j).uid = j.uid
<1>1. /\ [j EXCEPT !.pc = "remove file"].pc = "remove file"
      /\ [j EXCEPT !.pc = "remove file"].req = j.req
      /\ [j EXCEPT !.pc = "remove file"].uid = j.uid
  BY Zenon DEF Job
<1> QED
  BY <1>1, Zenon DEF Cleaned, RemovesFile

LEMMA StatFileExact ==
  ASSUME AloneInv, NEW w \in Workers, StatFile(w)
  PROVE  StaysExact(w)
<1> DEFINE b == begun[w]
           u == job[w].uid
           k == Cleaned(job[w])
<1>1. /\ job[w].pc = "stat" /\ IsLive(tree, u) /\ ~IsDir(tree, u)
      /\ IF Is(w, {"PROPFIND"}) THEN Reply(w, 207) ELSE Becomes(w, k)
      /\ UNCHANGED <<tree, cache, call>>
  BY Zenon DEF StatFile, Does, Proceed, resolverVars, Cleaned
<1>2. job[w].pc \in FoundHere
  BY <1>1 DEF FoundHere
<1>3. /\ Busy(w) /\ WellFormed(b) /\ tree = b /\ job[w] \in Job /\ Req(w) = job[w].req
      /\ u \in Denoted(b, SubjectOf(Req(w))) /\ CacheIsRight(tree, cache)
      /\ job[w].pc \notin ResolvingPoints
  BY <1>2, FoundFactsHere
<1>4. CallRests(w) /\ CacheIsRight(tree', cache') /\ tree' = b /\ WellFormed(tree')
  BY <1>1, <1>3, TakenRests
<1>5. CASE Is(w, {"PROPFIND"})
  <2>1. Reply(w, 207) /\ UNCHANGED <<tree, call>>
    BY <1>1, <1>5
  <2>2. Req(w).method = "PROPFIND"
    BY <1>5 DEF Is
  <2> QED
    BY <1>2, <1>4, <2>1, <2>2, ListedExact
<1>6. CASE ~Is(w, {"PROPFIND"})
  <2>1. Becomes(w, k)
    BY <1>1, <1>6
  <2>2. RemovesFile(k) /\ k.req = Req(w) /\ k.uid = u
    BY <1>3, CleanedIs
  <2>3. b \in Tree
    BY <1>3 DEF WellFormed
  <2> HIDE DEF k
  <2>4. IsFile(b, u)
    <3>1. u \in Uids /\ b[u].status = "live" /\ b[u].kind # "dir"
      BY <1>1, <1>3 DEF IsLive, IsDir
    <3>2. b[u].kind \in {"file", "dir"}
      BY <2>3, <3>1, NodeFacts DEF Kinds
    <3> QED
      BY <3>1, <3>2 DEF IsFile
  <2> HIDE DEF u, b
  <2>5. k.uid \in Denoted(b, SubjectOf(k.req)) /\ IsFile(b, k.uid)
    BY <1>3, <2>2, <2>4
  <2>6. JobIsExact(b, b, k)
    BY <2>2, <2>5, AtFileRemoval
  <2> QED
    BY <1>1, <1>3, <1>4, <2>1, <2>2, <2>6, RemovalPoints, GoesOn DEF b
<1> QED
  BY <1>5, <1>6

LEMMA StatFacts ==
  ASSUME AloneInv, NEW w \in Workers, job[w].pc = "stat"
  PROVE  /\ Busy(w) /\ WellFormed(begun[w]) /\ tree = begun[w] /\ job[w] \in Job
         /\ Req(w) = job[w].req /\ SubjectOf(Req(w)) \in Seq(Names)
         /\ job[w].uid \in Denoted(begun[w], SubjectOf(Req(w))) /\ job[w].uid \in Uids
         /\ begun[w][job[w].uid].status = "live" /\ SubjectOf(Req(w)) # RootPath
         /\ CacheIsRight(tree, cache) /\ job[w].pc \in FoundHere
         /\ job[w].pc \notin ResolvingPoints
<1>1. job[w].pc \in FoundHere
  BY DEF FoundHere
<1>2. /\ Busy(w) /\ WellFormed(begun[w]) /\ tree = begun[w] /\ job[w] \in Job
      /\ Req(w) = job[w].req /\ SubjectOf(Req(w)) \in Seq(Names)
      /\ job[w].uid \in Denoted(begun[w], SubjectOf(Req(w)))
      /\ CacheIsRight(tree, cache) /\ job[w].pc \notin ResolvingPoints
  BY <1>1, FoundFactsHere
<1>3. job[w].uid \in Uids
  BY HereFacts DEF JobIsPlaced
<1>4. begun[w] \in Tree
  BY <1>2 DEF WellFormed
<1>5. begun[w][job[w].uid].status = "live" /\ SubjectOf(Req(w)) # RootPath
  BY <1>2, <1>3, <1>4, FoundFacts
<1> QED
  BY <1>1, <1>2, <1>3, <1>5

Planted(j, s) == [j EXCEPT !.pc = "remove tree", !.stack = s]

LEMMA PlantedIs ==
  ASSUME NEW j \in Job, NEW s
  PROVE  /\ EmptiesTree(Planted(j, s)) /\ Planted(j, s).req = j.req
         /\ Planted(j, s).uid = j.uid /\ Planted(j, s).stack = s
<1> DEFINE k == [j EXCEPT !.pc = "remove tree", !.stack = s]
<1>1. k.pc = "remove tree" /\ k.req = j.req /\ k.uid = j.uid /\ k.stack = s
  BY Zenon DEF Job
<1>2. Planted(j, s) = k
  BY Zenon DEF Planted
<1> HIDE DEF k
<1> QED
  BY <1>1, <1>2, Zenon DEF EmptiesTree

(* The first activation, of the subject itself. *)
LEMMA FirstFrame ==
  ASSUME NEW b, NEW p \in Seq(Names), p # RootPath, NEW u \in Uids, u \in Denoted(b, p),
         IsDir(b, u), NEW g, g = [dir |-> u, listed |-> FALSE, todo |-> {}]
  PROVE  /\ <<g>>[1].dir = u /\ Emptying(b, b, u)
         /\ \A i \in 1..Len(<<g>>) : FrameHolds(b, b, Len(p) - 1, u, <<g>>, i)
<1>1. g \in Frame /\ g.dir = u /\ g.listed = FALSE /\ g.todo = {}
  BY DEF Frame
<1>2. <<g>>[1] = g /\ Len(<<g>>) = 1
  OBVIOUS
<1>3. Emptying(b, b, u)
  BY DEF Emptying
<1> DEFINE s == <<g>>
<1>4. s[1] = g /\ Len(s) = 1
  BY <1>2
<1> HIDE DEF s
<1>5. Entered(s, 1) = {}
  BY <1>4 DEF Entered
<1>6. u \in Subtree(b, u)
  BY SubtreeHolds, DirsFacts
<1>7. Len(p) - 1 \in Nat /\ (Len(p) - 1) + 1 = Len(p)
  BY LastFacts
<1>8. AtLevel(b, u, (Len(p) - 1) + 1)
  BY <1>7 DEF AtLevel
<1> DEFINE n == Len(p) - 1
<1> HIDE DEF n
<1>9. AtLevel(b, u, n + 1)
  BY <1>8 DEF n
<1>10. FrameHolds(b, b, n, u, s, 1)
  <2>1. /\ s[1].dir \in Subtree(b, u) /\ s[1].dir \in Uids /\ IsDir(b, s[1].dir)
        /\ AtLevel(b, s[1].dir, n + 1)
        /\ s[1].todo \subseteq Listing(b, s[1].dir)
        /\ Entered(s, 1) \subseteq Children(b, s[1].dir) \ Left(s[1])
    BY <1>1, <1>4, <1>5, <1>6, <1>9
  <2>2. s[1].todo = {} /\ 1 = Len(s) /\ ~s[1].listed
    BY <1>1, <1>4
  <2>3. IF s[1].listed THEN Children(b, s[1].dir) \subseteq Left(s[1]) \cup Entered(s, 1)
        ELSE s[1].todo = {} /\ 1 = Len(s)
    BY <2>2, Zenon
  <2> QED
    BY <2>1, <2>3, Zenon DEF FrameHolds
<1>11. \A i \in 1..Len(s) : i = 1
  BY <1>4
<1> QED
  BY <1>1, <1>3, <1>4, <1>10, <1>11 DEF n, s

LEMMA StatDirExact ==
  ASSUME AloneInv, NEW w \in Workers, StatDir(w)
  PROVE  StaysExact(w)
<1> DEFINE b == begun[w]
           u == job[w].uid
           r == Req(w)
           g == [dir |-> u, listed |-> FALSE, todo |-> {}]
<1>1. /\ job[w].pc = "stat" /\ IsDir(tree, u) /\ UNCHANGED <<tree, cache, call>>
      /\ IF Is(w, {"PROPFIND"}) THEN Proceed(w, "list") ELSE Becomes(w, Planted(job[w], <<g>>))
  BY Zenon DEF StatDir, Does, StartTree, Planted, resolverVars
<1>2. /\ Busy(w) /\ WellFormed(b) /\ tree = b /\ job[w] \in Job
      /\ r = job[w].req /\ SubjectOf(r) \in Seq(Names)
      /\ u \in Denoted(b, SubjectOf(r)) /\ u \in Uids /\ SubjectOf(r) # RootPath
      /\ CacheIsRight(tree, cache) /\ job[w].pc \notin ResolvingPoints
  BY <1>1, StatFacts
<1>3. CallRests(w) /\ CacheIsRight(tree', cache') /\ tree' = b /\ WellFormed(tree')
  BY <1>1, <1>2, TakenRests
<1>4. CASE Is(w, {"PROPFIND"})
  <2> DEFINE k == [job[w] EXCEPT !.pc = "list"]
  <2>1. Becomes(w, k)
    BY <1>1, <1>4 DEF Proceed
  <2>2. k.pc = "list" /\ k.req = r /\ k.uid = u
    BY <1>2 DEF Job
  <2>3. r.method = "PROPFIND"
    BY <1>4 DEF Is
  <2> HIDE DEF k, u, b, r
  <2>4. k.uid \in Denoted(b, SubjectOf(k.req)) /\ k.req.method = "PROPFIND"
    BY <1>2, <2>2, <2>3
  <2>5. k.pc \in FoundHere
    BY <2>2, Zenon DEF FoundHere
  <2>6. JobIsExact(b, b, k)
    BY <2>2, <2>4, <2>5, AtFound, Zenon
  <2> QED
    BY <1>1, <1>2, <1>3, <2>1, <2>2, <2>6, GoesOn DEF b
<1>5. CASE ~Is(w, {"PROPFIND"})
  <2> DEFINE k == Planted(job[w], <<g>>)
  <2>1. Becomes(w, k)
    BY <1>1, <1>5
  <2>2. EmptiesTree(k) /\ k.req = r /\ k.uid = u /\ k.stack = <<g>>
    BY <1>2, PlantedIs
  <2>3. /\ <<g>>[1].dir = u /\ Emptying(b, b, u)
        /\ \A i \in 1..Len(<<g>>) : FrameHolds(b, b, Len(SubjectOf(r)) - 1, u, <<g>>, i)
    BY <1>1, <1>2, FirstFrame
  <2> DEFINE s == <<g>>
  <2>4. /\ s[1].dir = u /\ Emptying(b, b, u) /\ k.stack = s
        /\ \A i \in 1..Len(s) : FrameHolds(b, b, Len(SubjectOf(r)) - 1, u, s, i)
    BY <2>2, <2>3
  <2> HIDE DEF k, u, b, r, g, s
  <2>5. JobIsExact(b, b, k)
    BY <1>2, <2>2, <2>4, AtTreeRemoval
  <2> QED
    BY <1>2, <1>3, <2>1, <2>2, <2>5, RemovalPoints, GoesOn DEF b
<1> QED
  BY <1>4, <1>5

LEMMA StatMissingExact ==
  ASSUME Alone, AloneInv, NEW w \in Workers, StatMissing(w)
  PROVE  StaysExact(w)
<1>1. job[w].pc = "stat" /\ ~IsLive(tree, job[w].uid)
  BY Zenon DEF StatMissing, StatFails, Alone, Does
<1>2. tree = begun[w] /\ job[w].uid \in Uids /\ begun[w][job[w].uid].status = "live"
  BY <1>1, StatFacts
<1> QED
  BY <1>1, <1>2 DEF IsLive

LEMMA AtDrop ==
  ASSUME NEW b, NEW t, NEW j, j.pc = "drop", NEW v, v = NodeAt(b, SubjectOf(j.req))
  PROVE  JobIsExact(b, t, j) <=> t = Cleared(b, v) /\ v \in Uids
<1>1. j.pc # "remove tree" /\ j.pc \in {"remove tree", "drop"}
  BY Zenon
<1>2. JobIsExact(b, t, j) <=> IsRemoving(b, t, j)
  BY Zenon DEF JobIsExact, MethodFits, IsUntouched, IsUploading, IsRelocating, IsRenaming,
               IsDone, NeedsParent, UntouchedPoints, FoundHere, PlacedPoints
<1> QED
  BY <1>1, <1>2, Zenon DEF IsRemoving

LEMMA RemoveFileExact ==
  ASSUME AloneInv, NEW w \in Workers, RemoveFile(w)
  PROVE  StaysExact(w)
<1> DEFINE b == begun[w]
           u == job[w].uid
           r == Req(w)
           k == [job[w] EXCEPT !.pc = "drop"]
<1>1. /\ RemovesFile(job[w]) /\ CanRemoveFile(tree, u) /\ tree' = Removed(tree, u)
      /\ Becomes(w, k) /\ UNCHANGED <<cache, call>>
  BY Zenon DEF RemoveFile, Does, RemovesFile, Proceed
<1>2. job[w].pc \in FoundHere
  BY <1>1, RemovalPoints
<1>3. /\ Busy(w) /\ WellFormed(b) /\ tree = b /\ job[w] \in Job
      /\ r = job[w].req /\ NodeAt(b, SubjectOf(r)) = u
      /\ CacheIsRight(tree, cache) /\ job[w].pc \notin ResolvingPoints
  BY <1>2, FoundFactsHere
<1>4. k.pc = "drop" /\ k.req = r
  BY <1>3 DEF Job
<1> HIDE DEF b, u, r, k
<1>5. CallRests(w)
  BY <1>1, <1>3, TakenRests
<1>6. u \in Uids /\ WellFormed(Removed(b, u)) /\ CacheIsRight(Removed(b, u), cache)
  BY <1>1, <1>3, LeafRemoval
<1>7. Removed(b, u) = Cleared(b, u)
  BY <1>1, <1>3, FileIsCleared DEF CanRemoveFile, WellFormed
<1>8. tree' = Cleared(b, u) /\ WellFormed(tree') /\ CacheIsRight(tree', cache')
  BY <1>1, <1>3, <1>6, <1>7
<1>9. JobIsExact(b, tree', k)
  BY <1>3, <1>4, <1>6, <1>8, AtDrop
<1> QED
  BY <1>1, <1>3, <1>4, <1>5, <1>8, <1>9, GoesOn DEF b

LEMMA RemoveFileFailsExact ==
  ASSUME Alone, AloneInv, NEW w \in Workers, RemoveFileFails(w)
  PROVE  StaysExact(w)
<1>1. RemovesFile(job[w])
  BY Zenon DEF RemoveFileFails, Does, RemovesFile
<1>2. RpcFails(Result(CanRemoveFile(tree, job[w].uid), Removed(tree, job[w].uid)))
  BY Zenon DEF RemoveFileFails
<1>3. ~CanRemoveFile(tree, job[w].uid)
  BY <1>2, NoneRefused
<1>4. JobIsExact(begun[w], tree, job[w])
  BY HereFacts
<1>5. tree = begun[w] /\ IsFile(begun[w], job[w].uid)
  BY <1>1, <1>4, AtFileRemoval
<1> QED
  BY <1>3, <1>5 DEF CanRemoveFile

LEMMA DropExact ==
  ASSUME AloneInv, NEW w \in Workers, Drop(w)
  PROVE  StaysExact(w)
<1> DEFINE b == begun[w]
           r == Req(w)
           v == NodeAt(b, SubjectOf(r))
           k == [job[w] EXCEPT !.pc = "source", !.uid = NoUid]
<1>1. /\ job[w].pc = "drop" /\ UnmapPath(Subject(w)) /\ tree' = tree
      /\ \/ Is(w, {"DELETE"}) /\ Reply(w, 204) /\ UNCHANGED call
         \/ Is(w, {"COPY", "MOVE"}) /\ Becomes(w, k) /\ ThenResolve(w, r.path)
  BY DEF Drop, Does
<1>2. /\ JobIsExact(b, tree, job[w]) /\ job[w] \in Job /\ r = job[w].req
      /\ WellFormed(b) /\ WellFormed(tree) /\ CacheIsRight(tree, cache) /\ CacheTypeOK
      /\ r.method \in Methods
  BY <1>1, HereFacts DEF Request
<1>3. Busy(w)
  BY <1>1 DEF Busy
<1>4. tree = Cleared(b, v) /\ v \in Uids
  BY <1>1, <1>2, AtDrop
<1>5. MayRemove(r)
  <2>1. job[w].pc \in RemovingPoints
    BY <1>1, Zenon DEF RemovingPoints
  <2> QED
    BY <1>2, <2>1, HereFacts DEF JobIsPlaced
<1>6. CacheIsRight(tree', cache') /\ WellFormed(tree')
  BY <1>1, <1>2, CacheDrops
<1>7. CASE Is(w, {"DELETE"})
  <2>1. Reply(w, 204) /\ UNCHANGED call /\ r.method = "DELETE"
    BY <1>1, <1>7 DEF Is
  <2>2. CallRests(w)
    BY <1>1, <2>1, TakenRests DEF ResolvingPoints
  <2>3. Outcome(tree, 204) \in Deleting(b, r)
    <3>1. v = NodeAt(b, r.path)
      BY <2>1 DEF SubjectOf
    <3> HIDE DEF v, b, r
    <3>2. v \notin {NoUid, Root}
      BY <1>4, DirsFacts
    <3> QED
      BY <1>4, <3>1, <3>2 DEF Deleting
  <2> HIDE DEF b, r, v
  <2>4. Outcomes(b, r) = Deleting(b, r)
    BY <1>2, <2>1, OutcomesAre
  <2>5. Outcome(tree', 204) \in Outcomes(b, r)
    BY <1>1, <2>3, <2>4
  <2> QED
    BY <1>3, <1>6, <2>1, <2>2, <2>5, ReplyExact DEF b, r
<1>8. CASE Is(w, {"COPY", "MOVE"})
  <2>1. Becomes(w, k) /\ ThenResolve(w, r.path) /\ r.method \in {"COPY", "MOVE"}
    BY <1>1, <1>8 DEF Is
  <2>2. k.pc = "source" /\ k.req = r
    BY <1>2 DEF Job
  <2>3. v = NodeAt(b, r.dest)
    BY <2>1 DEF SubjectOf
  <2> HIDE DEF b, r, v, k
  <2>4. IsReady(b, r)
    BY <1>5, <2>1 DEF IsReady, MayRemove
  <2>5. tree' = Ready(b, r)
    BY <1>1, <1>4, <2>3 DEF Ready
  <2>6. JobIsExact(b, tree', k)
    BY <2>2, <2>4, <2>5, AtSource
  <2>7. k.pc \in ResolvingPoints /\ Asked(k) = r.path
    BY <2>2 DEF ResolvingPoints, Asked
  <2> QED
    BY <1>3, <1>6, <2>1, <2>2, <2>6, <2>7, GoesOn DEF b
<1> QED
  BY <1>1, <1>7, <1>8

FramesHold(b, t, n, u, s) == \A i \in 1..Len(s) : FrameHolds(b, t, n, u, s, i)

LEMMA StackIs ==
  ASSUME NEW b, NEW t \in Tree, NEW n \in Nat, NEW u, NEW s \in Seq(Frame), s # <<>>,
         FramesHold(b, t, n, u, s), NEW m, m = Len(s)
  PROVE  /\ m \in Nat \ {0} /\ m \in 1..m /\ 1 \in 1..m /\ Entered(s, m) = {}
         /\ \A i \in 1..m : s[i] \in Frame /\ FrameHolds(b, t, n, u, s, i)
         /\ \A i \in 1..m : i # m => s[i].listed
         /\ \A i, j \in 1..m : i # j => s[i].dir # s[j].dir
<1>1. m \in Nat \ {0}
  OBVIOUS
<1>2. m \in 1..m /\ 1 \in 1..m
  BY <1>1
<1>3. Entered(s, m) = {}
  BY DEF Entered
<1>4. \A i \in 1..m : s[i] \in Frame
  BY <1>1
<1>5. \A i \in 1..m : FrameHolds(b, t, n, u, s, i)
  BY DEF FramesHold
<1>6. ASSUME NEW i \in 1..m, i # m PROVE s[i].listed
  <2>1. FrameHolds(b, t, n, u, s, i)
    BY <1>5
  <2>2. ~s[i].listed => i = Len(s)
    BY <2>1, Zenon DEF FrameHolds
  <2> QED
    BY <1>6, <2>2, Zenon
<1>7. ASSUME NEW i \in 1..m, NEW j \in 1..m, i # j PROVE s[i].dir # s[j].dir
  <2>1. AtLevel(t, s[i].dir, n + i) /\ AtLevel(t, s[j].dir, n + j)
    BY <1>5, FrameIs
  <2>2. n + i # n + j
    BY <1>7
  <2> QED
    BY <2>1, <2>2, LevelsDiffer
<1> QED
  BY <1>1, <1>2, <1>3, <1>4, <1>5, <1>6, <1>7

LEMMA FrameSame ==
  ASSUME NEW b, NEW t \in Tree, NEW n, NEW u, NEW s, NEW q, NEW i, FrameHolds(b, t, n, u, s, i),
         s[i].listed, q[i] = s[i], Entered(q, i) = Entered(s, i)
  PROVE  FrameHolds(b, t, n, u, q, i)
<1>1. /\ s[i].dir \in Subtree(b, u) /\ s[i].dir \in Uids /\ IsDir(t, s[i].dir)
      /\ AtLevel(t, s[i].dir, n + i) /\ s[i].todo \subseteq Listing(t, s[i].dir)
      /\ Entered(s, i) \subseteq Children(t, s[i].dir) \ Left(s[i])
  BY FrameIs
<1>2. Children(t, s[i].dir) \subseteq Left(s[i]) \cup Entered(s, i)
  BY FrameIs, Zenon
<1>3. /\ q[i].dir \in Subtree(b, u) /\ q[i].dir \in Uids /\ IsDir(t, q[i].dir)
      /\ AtLevel(t, q[i].dir, n + i) /\ q[i].todo \subseteq Listing(t, q[i].dir)
      /\ Entered(q, i) \subseteq Children(t, q[i].dir) \ Left(q[i])
  BY <1>1
<1>4. Children(t, q[i].dir) \subseteq Left(q[i]) \cup Entered(q, i)
  BY <1>2
<1>5. q[i].listed
  BY Zenon
<1> QED
  BY <1>3, <1>4, <1>5, Zenon DEF FrameHolds

(* A frame whose directory has been listed. *)
LEMMA FrameListed ==
  ASSUME NEW b, NEW t \in Tree, NEW n, NEW u, NEW q, NEW i, NEW d,
         q[i].dir = d, q[i].listed, d \in Subtree(b, u), d \in Uids, IsDir(t, d),
         AtLevel(t, d, n + i), q[i].todo \subseteq Listing(t, d),
         Children(t, d) \subseteq Left(q[i]) \cup Entered(q, i),
         Entered(q, i) \subseteq Children(t, d) \ Left(q[i])
  PROVE  FrameHolds(b, t, n, u, q, i)
<1>1. /\ q[i].dir \in Subtree(b, u) /\ q[i].dir \in Uids /\ IsDir(t, q[i].dir)
      /\ AtLevel(t, q[i].dir, n + i) /\ q[i].todo \subseteq Listing(t, q[i].dir)
      /\ Entered(q, i) \subseteq Children(t, q[i].dir) \ Left(q[i])
      /\ Children(t, q[i].dir) \subseteq Left(q[i]) \cup Entered(q, i)
  OBVIOUS
<1> QED
  BY <1>1, Zenon DEF FrameHolds

(* ListTree *)
LEMMA ListedHolds ==
  ASSUME NEW b, NEW t \in Tree, NEW n \in Nat, NEW u, NEW s \in Seq(Frame), s # <<>>,
         FramesHold(b, t, n, u, s), NEW g, g.dir = s[Len(s)].dir, g.listed,
         g.todo = Listing(t, s[Len(s)].dir), g \in Frame, NEW q, q = Topped(s, g)
  PROVE  FramesHold(b, t, n, u, q) /\ q[1].dir = s[1].dir
<1> DEFINE m == Len(s)
<1>1. /\ m \in Nat \ {0} /\ m \in 1..m /\ Entered(s, m) = {}
      /\ \A i \in 1..m : FrameHolds(b, t, n, u, s, i)
      /\ \A i \in 1..m : i # m => s[i].listed
  BY StackIs
<1>2. /\ Len(q) = m /\ q[m] = g /\ q[1].dir = s[1].dir
      /\ \A i \in 1..m : Entered(q, i) = Entered(s, i) /\ (i # m => q[i] = s[i])
  BY ToppedEnters
<1>3. g.dir = s[m].dir /\ g.todo = Listing(t, s[m].dir)
  OBVIOUS
<1> HIDE DEF m
<1>4. ASSUME NEW i \in 1..m PROVE FrameHolds(b, t, n, u, q, i)
  <2>1. CASE i # m
    BY <1>1, <1>2, <2>1, FrameSame
  <2>2. CASE i = m
    <3> DEFINE d == s[m].dir
    <3>1. d \in Subtree(b, u) /\ d \in Uids /\ IsDir(t, d) /\ AtLevel(t, d, n + m)
      BY <1>1, FrameIs
    <3>2. q[m].dir = d /\ q[m].todo = Listing(t, d)
      BY <1>2, <1>3
    <3>3. q[m].listed
      BY <1>2, Zenon
    <3>4. Entered(q, m) = {}
      BY <1>1, <1>2
    <3> HIDE DEF d
    <3>5. Left(q[m]) = Children(t, d)
      BY <3>2, LeftOfListing
    <3>6. FrameHolds(b, t, n, u, q, m)
      BY <3>1, <3>2, <3>3, <3>4, <3>5, FrameListed
    <3> QED
      BY <2>2, <3>6
  <2> QED
    BY <2>1, <2>2
<1> QED
  BY <1>2, <1>4 DEF FramesHold

LEMMA WithoutIs ==
  ASSUME NEW f \in Frame, NEW e \in f.todo, NEW t, f.todo \subseteq Listing(t, f.dir)
  PROVE  /\ Without(f, e) \in Frame /\ Without(f, e).dir = f.dir
         /\ Without(f, e).listed = f.listed /\ Without(f, e).todo = f.todo \ {e}
         /\ Without(f, e).todo = {x \in f.todo : x.uid # e.uid}
         /\ Left(Without(f, e)) = Left(f) \ {e.uid}
<1> DEFINE g == Without(f, e)
<1>1. g \in Frame
  BY WithoutFacts
<1>2. g.dir = f.dir /\ g.listed = f.listed /\ g.todo = f.todo \ {e}
  BY DEF Without, Frame
<1> HIDE DEF g
<1>3. \A x \in f.todo : x.uid = e.uid => x = e
  BY ListingHas
<1>4. g.todo = {x \in f.todo : x.uid # e.uid}
  BY <1>2, <1>3
<1>5. Left(g) = Left(f) \ {e.uid}
  BY <1>4 DEF Left
<1> QED
  BY <1>1, <1>2, <1>4, <1>5 DEF g
(* EnterSubtree *)
Opened(d) == [dir |-> d, listed |-> FALSE, todo |-> {}]
Grown(s, e) == Append(Topped(s, Without(s[Len(s)], e)), Opened(e.uid))

LEMMA EnteredHolds ==
  ASSUME NEW b \in Tree, NEW t \in Tree, NEW n \in Nat, NEW u \in Dirs, NEW s \in Seq(Frame),
         s # <<>>, FramesHold(b, t, n, u, s), Emptying(b, t, u),
         NEW e \in s[Len(s)].todo, e.kind = "dir",
         NEW q, q = Grown(s, e)
  PROVE  FramesHold(b, t, n, u, q) /\ q[1].dir = s[1].dir /\ q \in Seq(Frame)
<1> DEFINE m == Len(s)
           f == s[m]
           g == Without(f, e)
           x == e.uid
           z == Topped(s, g)
           h == Opened(x)
<1>1. /\ m \in Nat \ {0} /\ m \in 1..m /\ 1 \in 1..m /\ Entered(s, m) = {}
      /\ \A i \in 1..m : s[i] \in Frame /\ FrameHolds(b, t, n, u, s, i)
      /\ \A i \in 1..m : i # m => s[i].listed
  <2>1. /\ m \in Nat \ {0} /\ m \in 1..m /\ 1 \in 1..m /\ Entered(s, m) = {}
    BY StackIs
  <2>2. \A i \in 1..m : s[i] \in Frame /\ FrameHolds(b, t, n, u, s, i)
    BY StackIs
  <2>3. ASSUME NEW i \in 1..m, i # m PROVE s[i].listed
    <3>1. FrameHolds(b, t, n, u, s, i)
      BY <2>2
    <3>2. ~s[i].listed => i = Len(s)
      BY <3>1, Zenon DEF FrameHolds
    <3> QED
      BY <2>3, <3>2, Zenon
  <2> QED
    BY <2>1, <2>2, <2>3
<1>2. f \in Frame /\ FrameHolds(b, t, n, u, s, m)
  BY <1>1
<1>3. /\ f.dir \in Subtree(b, u) /\ f.dir \in Uids /\ IsDir(t, f.dir) /\ AtLevel(t, f.dir, n + m)
      /\ f.todo \subseteq Listing(t, f.dir)
  BY <1>2, FrameIs
<1>4. e \in f.todo /\ e \in Listing(t, f.dir)
  BY <1>3
<1>5. f.listed /\ Children(t, f.dir) \subseteq Left(f) \cup Entered(s, m)
  <2>1. f.todo # {}
    BY <1>4
  <2>2. f.listed
    BY <1>2, <2>1, FrameIs, Zenon
  <2> QED
    BY <1>2, <2>2, FrameIs, Zenon
<1>6. /\ g \in Frame /\ g.dir = f.dir /\ g.listed = f.listed /\ g.todo = f.todo \ {e}
      /\ Left(g) = Left(f) \ {x}
  BY <1>2, <1>3, <1>4, WithoutIs
<1>7. /\ z \in Seq(Frame) /\ Len(z) = m /\ z[m] = g /\ z[1].dir = s[1].dir
      /\ \A i \in 1..m : z[i].dir = s[i].dir /\ (i # m => z[i] = s[i])
  BY <1>6, ToppedEnters
<1>8. /\ x \in Children(t, f.dir) /\ x \in Uids /\ t[x].status = "live" /\ t[x].kind = "dir"
      /\ IsDir(t, x)
  <2>1. x \in Children(t, f.dir) /\ x \in Uids /\ t[x].status = "live" /\ e.kind = t[x].kind
    BY <1>4, ListingHas
  <2> QED
    BY <2>1 DEF IsDir
<1>9. x \in Subtree(b, u)
  BY <1>3, <1>8, EmptyingHas
<1>10. AtLevel(t, x, (n + m) + 1)
  BY <1>1, <1>3, <1>8, ChildLevel
<1>11. h \in Frame /\ h.dir = x /\ h.listed = FALSE /\ h.todo = {}
  BY <1>8 DEF Frame, Opened
<1>12. q = Append(z, h)
  BY DEF Grown
<1> HIDE DEF m, f, g, x, z, h
<1>13. /\ q \in Seq(Frame) /\ Len(q) = m + 1 /\ q[m + 1] = h
       /\ \A i \in 1..m : q[i] = z[i]
  <2>1. z \in Seq(Frame) /\ h \in Frame /\ Len(z) = m
    BY <1>7, <1>11
  <2>2. Append(z, h) \in Seq(Frame) /\ Len(Append(z, h)) = Len(z) + 1
        /\ Append(z, h)[Len(z) + 1] = h
        /\ \A i \in 1..Len(z) : Append(z, h)[i] = z[i]
    BY <2>1
  <2> QED
    BY <1>12, <2>1, <2>2
<1>14. /\ \A i \in 1..m : q[i].dir = s[i].dir /\ (i # m => q[i] = s[i])
       /\ q[m] = g /\ q[1].dir = s[1].dir
  BY <1>1, <1>7, <1>13
<1>15. ASSUME NEW i \in 1..m, i # m PROVE FrameHolds(b, t, n, u, q, i)
  <2>1. i + 1 \in 1..m /\ i # m + 1
    BY <1>1, <1>15
  <2>2. q[i + 1].dir = s[i + 1].dir /\ q[i] = s[i]
    BY <1>14, <1>15, <2>1
  <2>3. Entered(q, i) = {q[i + 1].dir} /\ Entered(s, i) = {s[i + 1].dir}
    BY <1>13, <1>15, <2>1 DEF Entered, m
  <2>4. Entered(q, i) = Entered(s, i)
    BY <2>2, <2>3
  <2>5. FrameHolds(b, t, n, u, s, i) /\ s[i].listed
    BY <1>1, <1>15
  <2> QED
    BY <2>2, <2>4, <2>5, FrameSame
<1>16. FrameHolds(b, t, n, u, q, m)
  <2>1. Entered(q, m) = {x}
    BY <1>1, <1>11, <1>13 DEF Entered
  <2> DEFINE d == f.dir
  <2>2. q[m].dir = d /\ q[m].todo = f.todo \ {e} /\ Left(q[m]) = Left(f) \ {x}
    BY <1>6, <1>14
  <2>3. q[m].listed
    BY <1>5, <1>6, <1>14, Zenon
  <2>4. d \in Subtree(b, u) /\ d \in Uids /\ IsDir(t, d) /\ AtLevel(t, d, n + m)
    BY <1>3
  <2>5. q[m].todo \subseteq Listing(t, d)
    BY <1>3, <2>2
  <2>6. Children(t, d) \subseteq Left(q[m]) \cup Entered(q, m)
    BY <1>1, <1>5, <2>1, <2>2
  <2>7. Entered(q, m) \subseteq Children(t, d) \ Left(q[m])
    BY <1>8, <2>1, <2>2
  <2> HIDE DEF d
  <2> QED
    BY <2>2, <2>3, <2>4, <2>5, <2>6, <2>7, FrameListed
<1>17. FrameHolds(b, t, n, u, q, m + 1)
  <2> DEFINE i == m + 1
  <2>1. Entered(q, i) = {}
    BY <1>13 DEF Entered
  <2>2. AtLevel(t, x, n + i)
    <3>1. (n + m) + 1 = n + i
      BY <1>1
    <3> QED
      BY <1>10, <3>1
  <2>3. q[i] = h /\ i = Len(q)
    BY <1>13
  <2> HIDE DEF i
  <2>4. /\ q[i].dir \in Subtree(b, u) /\ q[i].dir \in Uids /\ IsDir(t, q[i].dir)
        /\ AtLevel(t, q[i].dir, n + i) /\ q[i].todo \subseteq Listing(t, q[i].dir)
        /\ Entered(q, i) \subseteq Children(t, q[i].dir) \ Left(q[i]) /\ q[i].todo = {}
    BY <1>8, <1>9, <1>11, <2>1, <2>2, <2>3
  <2>5. ~q[i].listed
    BY <1>11, <2>3, Zenon
  <2>6. FrameHolds(b, t, n, u, q, i)
    BY <2>3, <2>4, <2>5, Zenon DEF FrameHolds
  <2> QED
    BY <2>6 DEF i
<1>18. \A i \in 1..Len(q) : i \in 1..m \/ i = m + 1
  BY <1>1, <1>13
<1>19. \A i \in 1..Len(q) : FrameHolds(b, t, n, u, q, i)
  BY <1>15, <1>16, <1>17, <1>18
<1> QED
  BY <1>13, <1>14, <1>19 DEF FramesHold

LEMMA DirsDiffer ==
  ASSUME NEW b, NEW t \in Tree, NEW n \in Nat, NEW u, NEW s, NEW i \in Int, NEW j \in Int,
         i # j, FrameHolds(b, t, n, u, s, i), FrameHolds(b, t, n, u, s, j)
  PROVE  s[i].dir # s[j].dir
<1>1. AtLevel(t, s[i].dir, n + i) /\ AtLevel(t, s[j].dir, n + j)
  BY FrameIs
<1>2. n + i # n + j
  OBVIOUS
<1> QED
  BY <1>1, <1>2, LevelsDiffer

(* RemoveEntry *)
LEMMA EntryRemovedHolds ==
  ASSUME NEW b \in Tree, NEW t \in Tree, IsRooted(t), NEW n \in Nat, NEW u \in Dirs,
         NEW s \in Seq(Frame), s # <<>>, FramesHold(b, t, n, u, s), Emptying(b, t, u),
         NEW e \in s[Len(s)].todo, CanRemoveFile(t, e.uid),
         NEW q, q = Topped(s, Without(s[Len(s)], e)), NEW a, a = Removed(t, e.uid)
  PROVE  FramesHold(b, a, n, u, q) /\ q[1].dir = s[1].dir /\ e.uid \in Subtree(b, u)
<1> DEFINE m == Len(s)
           f == s[m]
           g == Without(f, e)
           x == e.uid
<1>1. m \in Nat \ {0} /\ m \in 1..m /\ 1 \in 1..m /\ Entered(s, m) = {}
  BY StackIs
<1>2. \A i \in 1..m : s[i] \in Frame /\ FrameHolds(b, t, n, u, s, i)
  BY StackIs
<1>3. \A i \in 1..m : i # m => s[i].listed
  BY StackIs
<1>4. ASSUME NEW i \in 1..m, NEW j \in 1..m, i # j PROVE s[i].dir # s[j].dir
  BY <1>1, <1>2, <1>4, DirsDiffer
<1>5. f \in Frame /\ FrameHolds(b, t, n, u, s, m)
  BY <1>1, <1>2
<1>6. f.dir \in Subtree(b, u) /\ f.todo \subseteq Listing(t, f.dir)
  BY <1>5, FrameIs
<1>7. e \in f.todo /\ e \in Listing(t, f.dir)
  BY <1>6
<1>8. f.listed
  <2>1. f.todo # {}
    BY <1>7
  <2> QED
    BY <1>5, <2>1, FrameIs, Zenon
<1>9. /\ g \in Frame /\ g.dir = f.dir /\ g.listed = f.listed
      /\ g.todo = {y \in f.todo : y.uid # x}
  BY <1>5, <1>6, <1>7, WithoutIs
<1>10. /\ Len(q) = m /\ q[m] = g /\ q[1].dir = s[1].dir
       /\ \A i \in 1..m : /\ q[i].dir = s[i].dir /\ Entered(q, i) = Entered(s, i)
                          /\ i # m => q[i] = s[i]
  BY <1>9, ToppedEnters
<1>11. x \in Children(t, f.dir) /\ x \in Uids /\ t[x].parent = f.dir
  BY <1>7, ListingHas
<1>12. x \in Subtree(b, u)
  BY <1>6, <1>11, EmptyingHas
<1>13. t[x].kind = "file"
  BY DEF CanRemoveFile, IsFile
<1>14. CanRemoveFile(t, x) \/ CanRemoveDirectory(t, x)
  OBVIOUS
<1>15. a = Removed(t, x)
  OBVIOUS
<1> HIDE DEF m, f, g, x
<1>16. \A i \in 1..m : s[i].dir # x
  <2> SUFFICES ASSUME NEW i \in 1..m PROVE s[i].dir # x
    OBVIOUS
  <2>1. s[i].dir \in Uids /\ IsDir(t, s[i].dir)
    BY <1>2, FrameIs
  <2>2. t[s[i].dir].kind = "dir"
    BY <2>1, DirsFacts DEF IsDir
  <2> QED
    BY <1>13, <2>2
<1>17. \A i \in 1..m : Entered(s, i) = Entered(s, i) \ {x}
  <2> SUFFICES ASSUME NEW i \in 1..m PROVE x \notin Entered(s, i)
    OBVIOUS
  <2>1. CASE i = m
    BY <1>1, <2>1
  <2>2. CASE i # m
    <3>1. i + 1 \in 1..m
      BY <1>1, <2>2
    <3>2. s[i + 1].dir # x
      BY <1>16, <3>1
    <3> QED
      BY <2>2, <3>2 DEF Entered, m
  <2> QED
    BY <2>1, <2>2
<1>18. ASSUME NEW i \in 1..m PROVE FrameHolds(b, a, n, u, q, i)
  <2>1. FrameHolds(b, t, n, u, s, i) /\ s[i].dir # x /\ q[i].dir = s[i].dir
    BY <1>2, <1>10, <1>16
  <2>2. Entered(q, i) = Entered(s, i) \ {x}
    BY <1>10, <1>17
  <2>3. s[i].listed
    <3>1. i # m => s[i].listed
      BY <1>3, Zenon
    <3>2. i = m => s[i].listed
      BY <1>8, Zenon DEF f
    <3> QED
      BY <3>1, <3>2, Zenon
  <2>4. q[i].listed
    <3>1. i # m => q[i].listed
      BY <1>10, <2>3, Zenon
    <3>2. i = m => q[i].listed
      BY <1>8, <1>9, <1>10, Zenon
    <3> QED
      BY <3>1, <3>2, Zenon
  <2>5. q[i].todo = {y \in s[i].todo : y.uid # x}
    <3>1. CASE i = m
      BY <1>9, <1>10, <3>1 DEF f
    <3>2. CASE i # m
      <4>1. s[i].dir # f.dir
        BY <1>1, <1>4, <3>2 DEF f
      <4>2. s[i].todo \subseteq Listing(t, s[i].dir)
        BY <2>1, FrameIs
      <4>3. \A y \in s[i].todo : t[y.uid].parent = s[i].dir
        BY <4>2, ListingHas
      <4>4. \A y \in s[i].todo : y.uid # x
        BY <1>11, <4>1, <4>3
      <4>5. q[i].todo = s[i].todo
        BY <1>10, <3>2
      <4> QED
        BY <4>4, <4>5
    <3> QED
      BY <3>1, <3>2
  <2> QED
    BY <1>11, <1>14, <1>15, <2>1, <2>2, <2>3, <2>4, <2>5, FrameKept
<1> QED
  BY <1>10, <1>12, <1>18 DEF FramesHold, x

(* RemoveEmptied, of a directory that is not the subject *)
LEMMA EmptiedHolds ==
  ASSUME NEW b \in Tree, NEW t \in Tree, IsRooted(t), NEW n \in Nat, NEW u \in Dirs,
         NEW s \in Seq(Frame), Len(s) # 1, s # <<>>, FramesHold(b, t, n, u, s),
         CanRemoveDirectory(t, s[Len(s)].dir),
         NEW q, q = Prefix(s, Len(s) - 1), NEW a, a = Removed(t, s[Len(s)].dir)
  PROVE  FramesHold(b, a, n, u, q) /\ q[1] = s[1] /\ q # <<>> /\ q \in Seq(Frame)
<1> DEFINE m == Len(s)
           x == s[m].dir
           z == m - 1
<1>1. m \in Nat \ {0} /\ m \in 1..m /\ 1 \in 1..m /\ Entered(s, m) = {}
  BY StackIs
<1>2. \A i \in 1..m : s[i] \in Frame /\ FrameHolds(b, t, n, u, s, i)
  BY StackIs
<1>3. \A i \in 1..m : i # m => s[i].listed
  BY StackIs
<1>4. ASSUME NEW i \in 1..m, NEW j \in 1..m, i # j PROVE s[i].dir # s[j].dir
  BY <1>1, <1>2, <1>4, DirsDiffer
<1>5. /\ z \in Nat \ {0} /\ z \in 1..m /\ z # m /\ z + 1 = m
      /\ \A i \in 1..z : i \in 1..m /\ i # m /\ i + 1 \in 1..m /\ (i # z => i + 1 \in 1..z)
      /\ 1 \in 1..z /\ z <= m
  <2>1. m \in Nat \ {0} /\ m # 1
    BY <1>1
  <2> HIDE DEF m
  <2>2. z \in Nat \ {0} /\ z \in 1..m /\ z # m /\ z + 1 = m /\ 1 \in 1..z /\ z <= m
    BY <2>1
  <2>3. ASSUME NEW i \in 1..z
        PROVE  i \in 1..m /\ i # m /\ i + 1 \in 1..m /\ (i # z => i + 1 \in 1..z)
    BY <2>1
  <2> QED
    BY <2>2, <2>3
<1>6. q \in Seq(Frame) /\ Len(q) = z /\ \A i \in 1..z : q[i] = s[i]
  <2>1. \A k \in Nat : k <= Len(s) =>
           /\ SubSeq(s, 1, k) \in Seq(Frame) /\ Len(SubSeq(s, 1, k)) = k
           /\ \A i \in 1..k : SubSeq(s, 1, k)[i] = s[i]
    OBVIOUS
  <2>2. z \in Nat /\ z <= Len(s)
    BY <1>5
  <2>3. q = SubSeq(s, 1, z)
    BY DEF Prefix
  <2> HIDE DEF z
  <2> QED
    BY <2>1, <2>2, <2>3
<1>7. a = Removed(t, x) /\ (CanRemoveFile(t, x) \/ CanRemoveDirectory(t, x))
  OBVIOUS
<1>8. x \in Uids
  BY <1>1, <1>2, FrameIs
<1> HIDE DEF z, x, m
<1>9. \A i \in 1..z : s[i].dir # x
  BY <1>1, <1>4, <1>5 DEF x
<1>10. Entered(s, z) = {x}
  BY <1>5 DEF Entered, x, m
<1>11. x \in Children(t, s[z].dir) \ Left(s[z])
  BY <1>2, <1>5, <1>10, FrameIs
<1>12. t[x].parent = s[z].dir
  BY <1>11 DEF Children
<1>13. ASSUME NEW i \in 1..z PROVE FrameHolds(b, a, n, u, q, i)
  <2>1. FrameHolds(b, t, n, u, s, i) /\ s[i].dir # x /\ q[i] = s[i] /\ q[i].dir = s[i].dir
    BY <1>2, <1>5, <1>6, <1>9
  <2>2. s[i].listed
    BY <1>3, <1>5, Zenon
  <2>3. q[i].listed
    BY <2>1, <2>2, Zenon
  <2>4. Entered(q, i) = Entered(s, i) \ {x}
    <3>1. CASE i = z
      BY <1>6, <1>10, <3>1 DEF Entered
    <3>2. CASE i # z
      <4>1. i + 1 \in 1..z /\ i # m
        BY <1>5, <3>2
      <4>2. q[i + 1] = s[i + 1] /\ s[i + 1].dir # x
        BY <1>6, <1>9, <4>1
      <4>3. Entered(q, i) = {q[i + 1].dir} /\ Entered(s, i) = {s[i + 1].dir}
        BY <1>6, <3>2, <4>1 DEF Entered, m
      <4> QED
        BY <4>2, <4>3
    <3> QED
      BY <3>1, <3>2
  <2>5. x \notin Left(s[i])
    <3>1. CASE i = z
      BY <1>11, <3>1
    <3>2. CASE i # z
      <4>1. s[i].dir # s[z].dir
        BY <1>4, <1>5, <3>2
      <4>2. s[i].todo \subseteq Listing(t, s[i].dir)
        BY <2>1, FrameIs
      <4>3. \A y \in s[i].todo : t[y.uid].parent = s[i].dir
        BY <4>2, ListingHas
      <4> QED
        BY <1>12, <4>1, <4>3 DEF Left
    <3> QED
      BY <3>1, <3>2
  <2>6. q[i].todo = {y \in s[i].todo : y.uid # x}
    BY <2>1, <2>5 DEF Left
  <2> QED
    BY <1>7, <1>8, <2>1, <2>2, <2>3, <2>4, <2>6, FrameKept
<1>14. q # <<>> /\ q[1] = s[1]
  BY <1>5, <1>6
<1> QED
  BY <1>6, <1>13, <1>14 DEF FramesHold

LEMMA StackHere ==
  ASSUME AloneInv, NEW w \in Workers, EmptiesTree(job[w]),
         NEW b, b = begun[w], NEW n, n = Len(SubjectOf(Req(w))) - 1,
         NEW u, u = job[w].uid, NEW s, s = job[w].stack
  PROVE  /\ b \in Tree /\ tree \in Tree /\ IsRooted(tree) /\ n \in Nat /\ u \in Dirs /\ u \in Uids
         /\ s \in Seq(Frame) /\ s # <<>> /\ FramesHold(b, tree, n, u, s)
         /\ Emptying(b, tree, u) /\ s[1].dir = u /\ b[u].status = "live"
         /\ Top(w) = s[Len(s)] /\ Top(w) \in Frame /\ FrameHolds(b, tree, n, u, s, Len(s))
         /\ WellFormed(b) /\ WellFormed(tree) /\ CacheIsRight(tree, cache)
<1>1. /\ WellFormed(b) /\ WellFormed(tree) /\ n \in Nat /\ u \in Uids /\ b[u].status = "live"
      /\ s \in Seq(Frame) /\ s # <<>> /\ Len(s) \in Nat \ {0} /\ s[1].dir = u
      /\ Top(w) = s[Len(s)] /\ Top(w) \in Frame /\ Emptying(b, tree, u)
      /\ CacheIsRight(tree, cache)
  BY RemovalHere
<1>2. \A i \in 1..Len(s) : FrameHolds(b, tree, n, u, s, i)
  BY RemovalHere
<1>3. FramesHold(b, tree, n, u, s)
  BY <1>2 DEF FramesHold
<1>4. b \in Tree /\ tree \in Tree /\ IsRooted(tree) /\ u \in Dirs
  BY <1>1, DirsFacts DEF WellFormed
<1>5. Len(s) \in 1..Len(s)
  BY <1>1
<1>6. FrameHolds(b, tree, n, u, s, Len(s))
  BY <1>2, <1>5
<1> QED
  BY <1>1, <1>3, <1>4, <1>6

LEMMA StackGoes ==
  ASSUME AloneInv, NEW w \in Workers, EmptiesTree(job[w]), NEW q,
         Becomes(w, Stacked(job[w], q)),
         NEW s, s = job[w].stack, q[1].dir = s[1].dir,
         NEW n, n = Len(SubjectOf(Req(w))) - 1,
         FramesHold(begun[w], tree', n, job[w].uid, q),
         Emptying(begun[w], tree', job[w].uid), WellFormed(tree'), CacheIsRight(tree', cache'),
         UNCHANGED call
  PROVE  StaysExact(w)
<1>1. q[1].dir = job[w].uid
  BY RemovalHere
<1>2. \A i \in 1..Len(q) :
         FrameHolds(begun[w], tree', Len(SubjectOf(Req(w))) - 1, job[w].uid, q, i)
  BY DEF FramesHold
<1> QED
  BY <1>1, <1>2, StackExact

LEMMA ListTreeExact ==
  ASSUME AloneInv, NEW w \in Workers, ListTree(w)
  PROVE  StaysExact(w)
<1> DEFINE f == Top(w)
           g == [f EXCEPT !.listed = TRUE, !.todo = Listing(tree, f.dir)]
           q == Topped(job[w].stack, g)
           b == begun[w]
           u == job[w].uid
           s == job[w].stack
           n == Len(SubjectOf(Req(w))) - 1
<1>1. /\ EmptiesTree(job[w]) /\ UNCHANGED <<tree, cache, call>>
      /\ Becomes(w, Stacked(job[w], q))
  BY Zenon DEF ListTree, Does, EmptiesTree, Stacked, Topped, WithTop, resolverVars
<1>2. /\ b \in Tree /\ tree \in Tree /\ IsRooted(tree) /\ n \in Nat /\ u \in Dirs
      /\ s \in Seq(Frame) /\ s # <<>> /\ FramesHold(b, tree, n, u, s)
      /\ Emptying(b, tree, u) /\ f = s[Len(s)] /\ f \in Frame
      /\ FrameHolds(b, tree, n, u, s, Len(s)) /\ WellFormed(tree) /\ CacheIsRight(tree, cache)
  BY <1>1, StackHere
<1>3. Listing(tree, f.dir) \subseteq Entry
  BY <1>2, ListingFacts
<1>4. g.dir = f.dir /\ g.todo = Listing(tree, f.dir) /\ g \in Frame
  BY <1>2, <1>3 DEF Frame
<1>5. g.listed = TRUE
  BY <1>2 DEF Frame
<1>6. g.listed
  BY <1>5
<1>7. q = Topped(s, g) /\ b = begun[w] /\ u = job[w].uid /\ s = job[w].stack
      /\ n = Len(SubjectOf(Req(w))) - 1
  BY Zenon
<1> HIDE DEF q, g, f, b, u, s, n
<1>8. g.dir = s[Len(s)].dir /\ g.todo = Listing(tree, s[Len(s)].dir)
  BY <1>2, <1>4
<1>9. FramesHold(b, tree, n, u, q) /\ q[1].dir = s[1].dir
  <2>1. /\ tree \in Tree /\ n \in Nat /\ s \in Seq(Frame) /\ s # <<>>
        /\ FramesHold(b, tree, n, u, s) /\ g \in Frame /\ q = Topped(s, g)
    BY <1>2, <1>4, <1>7
  <2> QED
    BY <1>6, <1>8, <2>1, ListedHolds
<1>10. /\ tree' = tree /\ cache' = cache /\ UNCHANGED call
  BY <1>1
<1>11. WellFormed(tree') /\ CacheIsRight(tree', cache') /\ Emptying(begun[w], tree', job[w].uid)
       /\ FramesHold(begun[w], tree', n, job[w].uid, q)
  BY <1>2, <1>7, <1>9, <1>10
<1> QED
  BY <1>1, <1>7, <1>9, <1>10, <1>11, StackGoes

LEMMA ListTreeFailsExact ==
  ASSUME Alone, AloneInv, NEW w \in Workers, ListTreeFails(w)
  PROVE  StaysExact(w)
<1> DEFINE b == begun[w]
           u == job[w].uid
           s == job[w].stack
           n == Len(SubjectOf(Req(w))) - 1
<1>1. EmptiesTree(job[w]) /\ ~IsLive(tree, Top(w).dir)
  BY Zenon DEF ListTreeFails, ListFails, Does, EmptiesTree, Alone
<1>2. tree \in Tree /\ Top(w) = s[Len(s)] /\ FrameHolds(b, tree, n, u, s, Len(s))
  BY <1>1, StackHere
<1> HIDE DEF b, u, s, n
<1>3. IsDir(tree, s[Len(s)].dir)
  BY <1>2, FrameIs
<1>4. IsLive(tree, s[Len(s)].dir)
  BY <1>3 DEF IsDir, IsLive
<1> QED
  BY <1>1, <1>2, <1>4

LEMMA EnterSubtreeExact ==
  ASSUME AloneInv, NEW w \in Workers, EnterSubtree(w)
  PROVE  StaysExact(w)
<1> DEFINE b == begun[w]
           u == job[w].uid
           s == job[w].stack
           n == Len(SubjectOf(Req(w))) - 1
<1>1. /\ EmptiesTree(job[w]) /\ UNCHANGED <<tree, cache, call>>
      /\ \E e \in Top(w).todo : e.kind = "dir" /\ Becomes(w, Stacked(job[w], Grown(s, e)))
  BY Zenon DEF EnterSubtree, Does, EmptiesTree, Stacked, Topped, WithTop, resolverVars, Opened,
               Grown, Top
<1>2. PICK e \in Top(w).todo : e.kind = "dir" /\ Becomes(w, Stacked(job[w], Grown(s, e)))
  BY <1>1
<1> DEFINE q == Grown(s, e)
<1>3. /\ b \in Tree /\ tree \in Tree /\ n \in Nat /\ u \in Dirs
      /\ s \in Seq(Frame) /\ s # <<>> /\ FramesHold(b, tree, n, u, s)
      /\ Emptying(b, tree, u) /\ Top(w) = s[Len(s)]
      /\ WellFormed(tree) /\ CacheIsRight(tree, cache)
  BY <1>1, StackHere
<1>4. e \in s[Len(s)].todo /\ e.kind = "dir"
  BY <1>2, <1>3
<1>5. q = Grown(s, e)
  OBVIOUS
<1>7. Becomes(w, Stacked(job[w], q))
  BY <1>2
<1>8. b = begun[w] /\ u = job[w].uid /\ s = job[w].stack /\ n = Len(SubjectOf(Req(w))) - 1
  OBVIOUS
<1> HIDE DEF q, b, u, s, n
<1>9. FramesHold(b, tree, n, u, q) /\ q[1].dir = s[1].dir
  <2>1. /\ b \in Tree /\ tree \in Tree /\ n \in Nat /\ u \in Dirs
        /\ s \in Seq(Frame) /\ s # <<>> /\ FramesHold(b, tree, n, u, s) /\ Emptying(b, tree, u)
    BY <1>3
  <2> QED
    BY <1>4, <1>5, <2>1, EnteredHolds
<1>10. tree' = tree /\ cache' = cache /\ UNCHANGED call
  BY <1>1
<1>11. WellFormed(tree') /\ CacheIsRight(tree', cache') /\ Emptying(begun[w], tree', job[w].uid)
       /\ FramesHold(begun[w], tree', n, job[w].uid, q)
  BY <1>3, <1>8, <1>9, <1>10
<1> QED
  BY <1>1, <1>7, <1>8, <1>9, <1>10, <1>11, StackGoes

LEMMA RemoveEntryExact ==
  ASSUME AloneInv, NEW w \in Workers, RemoveEntry(w)
  PROVE  StaysExact(w)
<1> DEFINE b == begun[w]
           u == job[w].uid
           s == job[w].stack
           n == Len(SubjectOf(Req(w))) - 1
           Q(e) == Topped(s, Without(Top(w), e))
<1>1. /\ EmptiesTree(job[w]) /\ UNCHANGED <<cache, call>>
      /\ \E e \in Top(w).todo : /\ CanRemoveFile(tree, e.uid) /\ tree' = Removed(tree, e.uid)
                                /\ Becomes(w, Stacked(job[w], Q(e)))
  BY Zenon DEF RemoveEntry, Does, EmptiesTree, Stacked, Topped, WithTop
<1>2. PICK e \in Top(w).todo : /\ CanRemoveFile(tree, e.uid) /\ tree' = Removed(tree, e.uid)
                               /\ Becomes(w, Stacked(job[w], Q(e)))
  BY <1>1
<1> DEFINE q == Q(e)
           x == e.uid
<1>3. /\ b \in Tree /\ tree \in Tree /\ IsRooted(tree) /\ n \in Nat /\ u \in Dirs
      /\ s \in Seq(Frame) /\ s # <<>> /\ FramesHold(b, tree, n, u, s)
      /\ Emptying(b, tree, u) /\ Top(w) = s[Len(s)]
      /\ WellFormed(tree) /\ CacheIsRight(tree, cache)
  BY <1>1, StackHere
<1>4. e \in s[Len(s)].todo
  BY <1>2, <1>3
<1>5. q = Topped(s, Without(s[Len(s)], e))
  BY <1>3
<1>6. Becomes(w, Stacked(job[w], q)) /\ CanRemoveFile(tree, e.uid) /\ tree' = Removed(tree, e.uid)
  BY <1>2
<1>7. b = begun[w] /\ u = job[w].uid /\ s = job[w].stack /\ n = Len(SubjectOf(Req(w))) - 1
  OBVIOUS
<1> HIDE DEF q, Q, b, u, s, n
<1>8. FramesHold(b, tree', n, u, q) /\ q[1].dir = s[1].dir /\ e.uid \in Subtree(b, u)
  BY <1>3, <1>4, <1>5, <1>6, EntryRemovedHolds
<1>9. /\ x \in Uids /\ WellFormed(Removed(tree, x)) /\ CacheIsRight(Removed(tree, x), cache)
  BY <1>3, <1>6, LeafRemoval
<1>10. WellFormed(tree') /\ CacheIsRight(tree', cache') /\ UNCHANGED call
  BY <1>1, <1>6, <1>9
<1>11. Emptying(b, Removed(tree, x), u)
  BY <1>3, <1>8, <1>9, RemovalEmpties
<1>12. Emptying(begun[w], tree', job[w].uid) /\ FramesHold(begun[w], tree', n, job[w].uid, q)
  BY <1>6, <1>7, <1>8, <1>11
<1> QED
  BY <1>1, <1>6, <1>7, <1>8, <1>10, <1>12, StackGoes

LEMMA RemoveEntryFailsExact ==
  ASSUME Alone, AloneInv, NEW w \in Workers, RemoveEntryFails(w)
  PROVE  StaysExact(w)
<1> DEFINE b == begun[w]
           u == job[w].uid
           s == job[w].stack
           n == Len(SubjectOf(Req(w))) - 1
<1>1. EmptiesTree(job[w])
  BY Zenon DEF RemoveEntryFails, Does, EmptiesTree
<1>2. PICK e \in Top(w).todo :
         /\ e.kind = "file"
         /\ RpcFails(Result(CanRemoveFile(tree, e.uid), Removed(tree, e.uid)))
  BY Zenon DEF RemoveEntryFails
<1>3. ~CanRemoveFile(tree, e.uid)
  BY <1>2, NoneRefused
<1>4. tree \in Tree /\ Top(w) = s[Len(s)] /\ FrameHolds(b, tree, n, u, s, Len(s))
  BY <1>1, StackHere
<1>5. e \in s[Len(s)].todo
  BY <1>4
<1> HIDE DEF b, u, s, n
<1>6. s[Len(s)].todo \subseteq Listing(tree, s[Len(s)].dir)
  BY <1>4, FrameIs
<1>7. e \in Listing(tree, s[Len(s)].dir)
  BY <1>5, <1>6
<1>8. e.uid \in Uids /\ tree[e.uid].status = "live" /\ tree[e.uid].kind = "file"
  BY <1>2, <1>7, ListingHas
<1> QED
  BY <1>3, <1>8 DEF CanRemoveFile, IsFile

Popped(j, s) == [j EXCEPT !.stack = s, !.pc = IF s = <<>> THEN "drop" ELSE @]

LEMMA PoppedIs ==
  ASSUME NEW j \in Job, NEW s
  PROVE  /\ s # <<>> => Popped(j, s) = Stacked(j, s)
         /\ s = <<>> => Popped(j, s).pc = "drop" /\ Popped(j, s).req = j.req
<1>1. ASSUME s # <<>> PROVE Popped(j, s) = Stacked(j, s)
  <2>1. Popped(j, s) = [j EXCEPT !.stack = s, !.pc = IF s = <<>> THEN "drop" ELSE j.pc]
    BY DEF Popped
  <2>2. [j EXCEPT !.stack = s, !.pc = j.pc] = [j EXCEPT !.stack = s]
    BY DEF Job
  <2> QED
    BY <1>1, <2>1, <2>2 DEF Stacked
<1>2. ASSUME s = <<>> PROVE Popped(j, s).pc = "drop" /\ Popped(j, s).req = j.req
  BY <1>2 DEF Popped, Job
<1> QED
  BY <1>1, <1>2

LEMMA RemoveEmptiedExact ==
  ASSUME AloneInv, NEW w \in Workers, RemoveEmptied(w)
  PROVE  StaysExact(w)
<1> DEFINE b == begun[w]
           u == job[w].uid
           s == job[w].stack
           r == Req(w)
           n == Len(SubjectOf(r)) - 1
           q == Prefix(s, Len(s) - 1)
           k == Popped(job[w], q)
           x == Top(w).dir
           a == Removed(tree, x)
<1>1. /\ EmptiesTree(job[w]) /\ CanRemoveDirectory(tree, x) /\ tree' = a
      /\ Becomes(w, k) /\ UNCHANGED <<cache, call>>
  BY Zenon DEF RemoveEmptied, Does, EmptiesTree, Popped
<1>2. /\ b \in Tree /\ tree \in Tree /\ IsRooted(tree) /\ n \in Nat /\ u \in Dirs /\ u \in Uids
      /\ s \in Seq(Frame) /\ s # <<>> /\ FramesHold(b, tree, n, u, s) /\ b[u].status = "live"
      /\ Emptying(b, tree, u) /\ Top(w) = s[Len(s)] /\ s[1].dir = u
      /\ FrameHolds(b, tree, n, u, s, Len(s))
      /\ WellFormed(tree) /\ WellFormed(b) /\ CacheIsRight(tree, cache)
  BY <1>1, StackHere
<1>3. /\ Busy(w) /\ job[w] \in Job /\ r = job[w].req /\ SubjectOf(r) \in Seq(Names)
      /\ u \in Denoted(b, SubjectOf(r))
  BY <1>1, RemovalHere
<1>4. x = s[Len(s)].dir /\ CanRemoveDirectory(tree, s[Len(s)].dir)
      /\ a = Removed(tree, s[Len(s)].dir)
  BY <1>1, <1>2
<1>5. q = Prefix(s, Len(s) - 1)
  OBVIOUS
<1>6. k = Popped(job[w], q) /\ a = Removed(tree, x) /\ b = begun[w] /\ u = job[w].uid
      /\ s = job[w].stack /\ n = Len(SubjectOf(Req(w))) - 1 /\ r = Req(w)
  OBVIOUS
<1> HIDE DEF b, u, s, r, n, q, k, x, a
<1>7. x \in Subtree(b, u)
  <2> DEFINE m == Len(s)
  <2>2. tree \in Tree /\ FrameHolds(b, tree, n, u, s, m)
    BY <1>2
  <2> HIDE DEF m
  <2>3. s[m].dir \in Subtree(b, u)
    BY <2>2, FrameIs
  <2>1. s[Len(s)].dir \in Subtree(b, u)
    BY <2>3 DEF m
  <2> QED
    BY <1>4, <2>1
<1>8. /\ x \in Uids /\ WellFormed(a) /\ CacheIsRight(a, cache) /\ a[x].status = "gone"
  BY <1>1, <1>2, <1>6, LeafRemoval
<1>9. Emptying(b, a, u)
  BY <1>2, <1>6, <1>7, <1>8, RemovalEmpties
<1>10. WellFormed(tree') /\ CacheIsRight(tree', cache') /\ UNCHANGED call
  BY <1>1, <1>8
<1>11. CASE Len(s) # 1
  <2>1. FramesHold(b, a, n, u, q) /\ q[1] = s[1] /\ q # <<>>
    BY <1>2, <1>4, <1>5, <1>11, EmptiedHolds
  <2>2. k = Stacked(job[w], q)
    BY <1>3, <1>6, <2>1, PoppedIs
  <2>3. Becomes(w, Stacked(job[w], q))
    BY <1>1, <2>2
  <2>4. q[1].dir = s[1].dir
    BY <2>1
  <2>5. Emptying(begun[w], tree', job[w].uid) /\ FramesHold(begun[w], tree', n, job[w].uid, q)
    BY <1>1, <1>6, <1>9, <2>1
  <2> QED
    BY <1>1, <1>6, <1>10, <2>3, <2>4, <2>5, StackGoes
<1>12. CASE Len(s) = 1
  <2>1. q = <<>>
    BY <1>2, <1>5, <1>12 DEF Prefix
  <2>2. k.pc = "drop" /\ k.req = r
    BY <1>3, <1>6, <2>1, PoppedIs
  <2>3. x = u
    BY <1>2, <1>4, <1>12
  <2>4. a = Cleared(b, u)
    <3>1. a \in Tree /\ IsRooted(a) /\ a[u].status = "gone"
      BY <1>8, <2>3 DEF WellFormed
    <3> QED
      BY <1>2, <1>9, <3>1, EmptiedIsCleared
  <2>5. NodeAt(b, SubjectOf(r)) = u
    BY <1>2, <1>3, NodeIs
  <2>6. tree' = Cleared(b, u)
    BY <1>1, <2>4
  <2>7. JobIsExact(b, tree', k)
    BY <1>2, <2>2, <2>5, <2>6, AtDrop
  <2>8. CallRests(w)
    BY <1>1, RemovalPoints, TakenRests
  <2>9. k.pc \notin {"idle", "replied", "after", "rename", "forget"}
    BY <2>2
  <2> QED
    BY <1>1, <1>3, <1>6, <1>10, <2>7, <2>8, <2>9, GoesOn
<1> QED
  BY <1>11, <1>12

LEMMA RemoveEmptiedFailsExact ==
  ASSUME Alone, AloneInv, NEW w \in Workers, RemoveEmptiedFails(w)
  PROVE  StaysExact(w)
<1> DEFINE b == begun[w]
           u == job[w].uid
           s == job[w].stack
           n == Len(SubjectOf(Req(w))) - 1
           d == Top(w).dir
<1>1. /\ EmptiesTree(job[w]) /\ Top(w).listed /\ Top(w).todo = {}
      /\ RpcFails(Result(CanRemoveDirectory(tree, d), Removed(tree, d)))
  BY Zenon DEF RemoveEmptiedFails, Does, EmptiesTree
<1>2. ~CanRemoveDirectory(tree, d)
  BY <1>1, NoneRefused
<1>3. /\ tree \in Tree /\ Top(w) = s[Len(s)] /\ FrameHolds(b, tree, n, u, s, Len(s))
      /\ s \in Seq(Frame) /\ s # <<>>
  BY <1>1, StackHere
<1> DEFINE m == Len(s)
<1>4. d = s[m].dir /\ s[m].todo = {}
  BY <1>1, <1>3
<1>5. s[m].listed
  BY <1>1, <1>3, Zenon
<1>6. Entered(s, m) = {}
  BY DEF Entered
<1>7. FrameHolds(b, tree, n, u, s, m)
  BY <1>3
<1> HIDE DEF b, u, s, n, d, m
<1>8. d \in Uids /\ IsDir(tree, d)
  BY <1>3, <1>4, <1>7, FrameIs
<1>9. Children(tree, s[m].dir) \subseteq Left(s[m]) \cup Entered(s, m)
  BY <1>3, <1>5, <1>7, FrameIs
<1>10. Left(s[m]) = {}
  BY <1>4 DEF Left
<1>11. Children(tree, d) = {}
  BY <1>4, <1>6, <1>9, <1>10
<1>12. d # Root
  BY <1>8, DirsFacts
<1> QED
  BY <1>2, <1>8, <1>11, <1>12 DEF CanRemoveDirectory

LEMMA RemovesExact ==
  ASSUME Alone, AloneInv, NEW w \in Workers, Removes(w)
  PROVE  StaysExact(w)
BY StatFileExact, StatDirExact, StatMissingExact, RemoveFileExact, RemoveFileFailsExact,
   ListTreeExact, ListTreeFailsExact, EnterSubtreeExact, RemoveEntryExact, RemoveEntryFailsExact,
   RemoveEmptiedExact, RemoveEmptiedFailsExact, DropExact DEF Removes

-----------------------------------------------------------------------------
(* COPY and MOVE *)

LEMMA CopyOutcomes ==
  ASSUME NEW c, NEW r, r.method = "COPY", NEW u, NodeAt(c, r.path) = u, u \notin {NoUid, Root},
         NEW d, NodeAt(c, Parent(r.dest)) = d, d # NoUid
  PROVE  /\ \A v \in Uids : CanCopy(c, u, d, v) =>
               Outcome(Renamed(Copied(c, u, d, v), v, Base(r.dest)), 201) \in Relocating(c, r)
         /\ (\A v \in Uids : ~CanCopy(c, u, d, v)) => Outcome(c, 500) \in Relocating(c, r)
<1> DEFINE T == {Renamed(Copied(c, u, d, v), v, Base(r.dest)) :
                    v \in {x \in Uids : CanCopy(c, u, d, x)}}
<1>1. Relocating(c, r) = OneOf(T, 201, Outcome(c, 500))
  BY DEF Relocating
<1>2. \A v \in Uids : CanCopy(c, u, d, v) => Renamed(Copied(c, u, d, v), v, Base(r.dest)) \in T
  OBVIOUS
<1>3. (\A v \in Uids : ~CanCopy(c, u, d, v)) => T = {}
  OBVIOUS
<1> HIDE DEF T
<1>4. \A t \in T : Outcome(t, 201) \in OneOf(T, 201, Outcome(c, 500))
  BY DEF OneOf
<1>5. T = {} => Outcome(c, 500) \in OneOf(T, 201, Outcome(c, 500))
  BY DEF OneOf
<1> QED
  BY <1>1, <1>2, <1>3, <1>4, <1>5

LEMMA MoveOutcomes ==
  ASSUME NEW c, NEW r, r.method = "MOVE", NEW u, NodeAt(c, r.path) = u, u \notin {NoUid, Root}
  PROVE  /\ PureRename(r) => Outcome(Renamed(c, u, Base(r.dest)), 201) \in Relocating(c, r)
         /\ \A d : ~PureRename(r) /\ NodeAt(c, Parent(r.dest)) = d /\ d # NoUid =>
              /\ CanMove(c, u, d) =>
                   Outcome(Renamed(Moved(c, u, d), u, Base(r.dest)), 201) \in Relocating(c, r)
              /\ ~CanMove(c, u, d) => Outcome(c, 500) \in Relocating(c, r)
BY DEF Relocating, PureRename

RestsHere(w) == UNCHANGED call => CallRests(w)

LEMMA PlacedFacts ==
  ASSUME AloneInv, NEW w \in Workers, job[w].pc \in {"before", "copy", "move"},
         NEW b, b = begun[w], NEW r, r = Req(w), NEW c, c = Ready(b, r),
         NEW u, u = job[w].uid, NEW d, d = job[w].par
  PROVE  /\ Busy(w) /\ WellFormed(b) /\ job[w] \in Job /\ r = job[w].req /\ RestsHere(w)
         /\ IsReady(b, r) /\ tree = c /\ WellFormed(c) /\ CacheIsRight(c, cache)
         /\ r.path \in Paths /\ r.dest \in Paths /\ Denoted(c, r.dest) = {}
         /\ u \in Denoted(c, r.path) \cap Uids /\ d \in Denoted(c, Parent(r.dest)) /\ d \in Dirs
         /\ NodeAt(c, r.path) = u /\ u \notin {NoUid, Root}
         /\ NodeAt(c, Parent(r.dest)) = d /\ d # NoUid
         /\ c[u].name = Base(r.path)
         /\ Outcomes(b, r) = Relocating(c, r)
         /\ r.method = IF job[w].pc = "move" THEN "MOVE" ELSE "COPY"
         /\ job[w].pc = "move" => ~PureRename(r)
         /\ job[w].pc = "before" => Base(r.dest) # Base(r.path)
         /\ job[w].pc = "copy" /\ Base(r.dest) # Base(r.path) /\ IsLive(c, d) =>
              job[w].before = Children(c, d)
         /\ Renames(w) <=> Base(r.dest) # Base(r.path)
         /\ DestName(w) = Base(r.dest)
<1>1. job[w].pc \in RelocatingPoints /\ job[w].pc \notin {"after", "rename", "forget"}
  BY DEF RelocatingPoints
<1>2. /\ Busy(w) /\ WellFormed(b) /\ job[w] \in Job
      /\ r = job[w].req /\ r.method \in {"COPY", "MOVE"}
      /\ r.dest \in Paths /\ Parent(r.dest) \in Seq(Names)
      /\ r.path \in Paths \cup {RootPath} /\ r.path \in Seq(Names)
      /\ DestName(w) = Base(r.dest) /\ NameOf(w) = Base(r.path)
      /\ WellFormed(c) /\ Denoted(c, r.dest) = {}
      /\ JobIsExact(b, tree, job[w])
  BY <1>1, RelocationFacts
<1>3. /\ IsReady(b, r) /\ tree = c
      /\ u \in Denoted(c, r.path) \cap Uids /\ d \in Denoted(c, Parent(r.dest))
      /\ job[w].pc = "move" => ~PureRename(r) /\ r.method = "MOVE"
      /\ job[w].pc = "before" => Base(r.dest) # Base(r.path)
      /\ job[w].pc = "copy" /\ Base(r.dest) # Base(r.path) /\ IsLive(tree, d) =>
           job[w].before = Children(tree, d)
  BY <1>2, AtPlaced
<1>4. c \in Tree
  BY <1>2 DEF WellFormed
<1>5. r.path # RootPath /\ u \notin {NoUid, Root} /\ c[u].name = Base(r.path)
  BY <1>2, <1>3, <1>4, FoundFacts
<1>6. d \in Dirs
  BY <1>2, <1>3, DenotedIsRight
<1>7. NodeAt(c, r.path) = u /\ NodeAt(c, Parent(r.dest)) = d /\ d # NoUid
  BY <1>2, <1>3, NodeIs
<1>8. Outcomes(b, r) = Relocating(c, r)
  BY <1>2, <1>3, RelocatingIs
<1>9. job[w].pc \in {"before", "copy"} => r.method = "COPY"
  BY <1>2, HereFacts DEF JobIsPlaced
<1>10. CacheIsRight(c, cache)
  BY <1>1, <1>3, HereFacts
<1>11. RestsHere(w)
  BY TakenRests DEF RestsHere, ResolvingPoints
<1>12. Renames(w) <=> Base(r.dest) # Base(r.path)
  BY <1>2 DEF Renames
<1> QED
  BY <1>2, <1>3, <1>5, <1>6, <1>7, <1>8, <1>9, <1>10, <1>11, <1>12

LEMMA ListBeforeExact ==
  ASSUME Alone, AloneInv, NEW w \in Workers, ListBefore(w)
  PROVE  StaysExact(w)
<1> DEFINE r == Req(w)
           b == begun[w]
           c == Ready(b, r)
           u == job[w].uid
           d == job[w].par
           k1 == [job[w] EXCEPT !.pc = "copy", !.before = Children(tree, d)]
           k2 == [job[w] EXCEPT !.pc = "copy"]
<1>1. /\ job[w].pc = "before" /\ UNCHANGED <<tree, cache, call>>
      /\ \/ IsLive(tree, d) /\ Becomes(w, k1)
         \/ ~IsLive(tree, d) /\ Becomes(w, k2)
  BY DEF ListBefore, Does, ListFails, Proceed, Alone, resolverVars
<1>2. /\ Busy(w) /\ WellFormed(b) /\ job[w] \in Job /\ r = job[w].req /\ RestsHere(w)
      /\ IsReady(b, r) /\ tree = c /\ WellFormed(c) /\ CacheIsRight(c, cache)
      /\ u \in Denoted(c, r.path) \cap Uids /\ d \in Denoted(c, Parent(r.dest))
  BY <1>1, PlacedFacts
<1>3. WellFormed(tree') /\ CacheIsRight(tree', cache') /\ tree' = c /\ CallRests(w)
  BY <1>1, <1>2 DEF RestsHere
<1>4. /\ k1.pc = "copy" /\ k1.req = r /\ k1.uid = u /\ k1.par = d /\ k1.before = Children(c, d)
      /\ k2.pc = "copy" /\ k2.req = r /\ k2.uid = u /\ k2.par = d
  BY <1>2 DEF Job
<1> HIDE DEF r, b, c, u, d, k1, k2
<1>5. CASE Becomes(w, k1)
  <2>1. JobIsExact(b, c, k1)
    BY <1>2, <1>4, AtPlaced DEF c
  <2> QED
    BY <1>2, <1>3, <1>4, <1>5, <2>1, GoesOn DEF b
<1>6. CASE ~IsLive(tree, d) /\ Becomes(w, k2)
  <2>1. JobIsExact(b, c, k2)
    BY <1>2, <1>4, <1>6, AtPlaced DEF c
  <2> QED
    BY <1>2, <1>3, <1>4, <1>6, <2>1, GoesOn DEF b
<1> QED
  BY <1>1, <1>5, <1>6

LEMMA CopyExact ==
  ASSUME AloneInv, NEW w \in Workers, Copy(w)
  PROVE  StaysExact(w)
<1> DEFINE r == Req(w)
           b == begun[w]
           c == Ready(b, r)
           u == job[w].uid
           d == job[w].par
           k == [job[w] EXCEPT !.pc = "after"]
<1>1. /\ job[w].pc = "copy" /\ UNCHANGED <<cache, call>> /\ \E t \in Copies(w) : tree' = t
      /\ IF Renames(w) THEN Becomes(w, k) ELSE Reply(w, 201)
  BY DEF Copy, Does, Proceed
<1>2. /\ Busy(w) /\ WellFormed(b) /\ job[w] \in Job /\ r = job[w].req /\ RestsHere(w)
      /\ IsReady(b, r) /\ tree = c /\ WellFormed(c) /\ CacheIsRight(c, cache)
      /\ r.path \in Paths /\ r.dest \in Paths /\ Denoted(c, r.dest) = {}
      /\ u \in Denoted(c, r.path) \cap Uids /\ d \in Denoted(c, Parent(r.dest)) /\ d \in Dirs
      /\ NodeAt(c, r.path) = u /\ u \notin {NoUid, Root}
      /\ NodeAt(c, Parent(r.dest)) = d /\ d # NoUid
      /\ c[u].name = Base(r.path)
      /\ Outcomes(b, r) = Relocating(c, r) /\ r.method = "COPY"
      /\ (Base(r.dest) # Base(r.path) /\ IsLive(c, d) => job[w].before = Children(c, d))
      /\ (Renames(w) <=> Base(r.dest) # Base(r.path))
  BY <1>1, PlacedFacts
<1>3. PICK v \in Uids : CanCopy(c, u, d, v) /\ tree' = Copied(c, u, d, v)
  BY <1>1, <1>2 DEF Copies
<1>4. CallRests(w) /\ cache' = cache
  BY <1>1, <1>2 DEF RestsHere
<1>5. /\ k.pc = "after" /\ k.req = r /\ k.uid = u /\ k.par = d /\ k.before = job[w].before
  BY <1>2 DEF Job
<1>6. IsLive(c, d)
  BY <1>3, HolderFacts DEF CanCopy
<1> HIDE DEF r, b, c, u, d, k
<1>7. CASE Renames(w)
  <2>1. Becomes(w, k) /\ Base(r.dest) # Base(r.path) /\ job[w].before = Children(c, d)
    BY <1>1, <1>2, <1>6, <1>7
  <2>2. JobIsExact(b, tree', k)
    BY <1>2, <1>3, <1>5, <2>1, AtAfter DEF c
  <2>3. CacheFits(b, tree', cache', k)
    BY <1>2, <1>4, <1>5 DEF CacheFits, c
  <2>4. CallFits(tree', k, call'[w])
    BY <1>4 DEF CallFits, CallRests
  <2> QED
    BY <1>2, <1>5, <2>1, <2>2, <2>3, <2>4, GoExact DEF b
<1>8. CASE ~Renames(w)
  <2> DEFINE f == Renamed(tree', v, Base(r.dest))
  <2>1. Reply(w, 201) /\ c[u].name = Base(r.dest)
    BY <1>1, <1>2, <1>8
  <2>2. WellFormed(f) /\ Kept(c, f) /\ f = tree'
    BY <1>2, <1>3, <2>1, CopyIsNamed
  <2>3. Outcome(f, 201) \in Relocating(c, r)
    BY <1>2, <1>3, CopyOutcomes
  <2> HIDE DEF f
  <2>4. Keeps(c, f) /\ c \in Tree
    BY <1>2, <2>2 DEF Keeps, WellFormed
  <2>5. CacheIsRight(f, cache)
    BY <1>2, <2>4, CacheKept
  <2>6. WellFormed(tree') /\ CacheIsRight(tree', cache') /\ Outcome(tree', 201) \in Outcomes(b, r)
    BY <1>2, <1>4, <2>2, <2>3, <2>5
  <2> QED
    BY <1>2, <1>4, <2>1, <2>6, ReplyExact DEF b, r
<1> QED
  BY <1>7, <1>8

LEMMA CopyFailsExact ==
  ASSUME Alone, AloneInv, NEW w \in Workers, CopyFails(w)
  PROVE  StaysExact(w)
<1> DEFINE r == Req(w)
           b == begun[w]
           c == Ready(b, r)
           u == job[w].uid
           d == job[w].par
<1>1. /\ job[w].pc = "copy" /\ UNCHANGED <<cache, call>> /\ RpcFails(Copies(w))
      /\ Reply(w, 500)
  BY DEF CopyFails, Does
<1>2. Copies(w) = {} /\ UNCHANGED tree
  BY <1>1, OnlyRefused
<1>3. /\ Busy(w) /\ WellFormed(b) /\ RestsHere(w)
      /\ tree = c /\ WellFormed(c) /\ CacheIsRight(c, cache)
      /\ NodeAt(c, r.path) = u /\ u \notin {NoUid, Root}
      /\ NodeAt(c, Parent(r.dest)) = d /\ d # NoUid
      /\ Outcomes(b, r) = Relocating(c, r) /\ r.method = "COPY"
  BY <1>1, PlacedFacts
<1>4. \A v \in Uids : ~CanCopy(c, u, d, v)
  BY <1>2, <1>3 DEF Copies
<1> HIDE DEF r, b, c, u, d
<1>5. Outcome(c, 500) \in Relocating(c, r)
  BY <1>3, <1>4, CopyOutcomes
<1> QED
  BY <1>1, <1>2, <1>3, <1>5, ReplyExact DEF b, r, RestsHere

LEMMA MoveFailsExact ==
  ASSUME Alone, AloneInv, NEW w \in Workers, MoveFails(w)
  PROVE  StaysExact(w)
<1> DEFINE r == Req(w)
           b == begun[w]
           c == Ready(b, r)
           u == job[w].uid
           d == job[w].par
<1>1. /\ job[w].pc = "move" /\ UNCHANGED <<cache, call>>
      /\ RpcFails(Result(CanMove(tree, u, d), Moved(tree, u, d)))
      /\ Reply(w, 500)
  BY DEF MoveFails, Does
<1>2. ~CanMove(tree, u, d) /\ UNCHANGED tree
  BY <1>1, NoneRefused
<1>3. /\ Busy(w) /\ WellFormed(b) /\ RestsHere(w)
      /\ tree = c /\ WellFormed(c) /\ CacheIsRight(c, cache)
      /\ NodeAt(c, r.path) = u /\ u \notin {NoUid, Root}
      /\ NodeAt(c, Parent(r.dest)) = d /\ d # NoUid
      /\ Outcomes(b, r) = Relocating(c, r) /\ r.method = "MOVE" /\ ~PureRename(r)
  BY <1>1, PlacedFacts
<1> HIDE DEF r, b, c, u, d
<1>5. Outcome(c, 500) \in Relocating(c, r)
  BY <1>2, <1>3, MoveOutcomes
<1> QED
  BY <1>1, <1>2, <1>3, <1>5, ReplyExact DEF b, r, RestsHere

(* What a MOVE moves has no path below it. *)
LEMMA MovedHasNoPaths ==
  ASSUME Alone, AloneInv, NEW w \in Workers, Req(w).method = "MOVE", Req(w).path \in Paths
  PROVE  NothingBelow(Req(w).path)
<1>1. Req(w) \in Requests \cup {NoRequest}
  BY HereFacts
<1>2. NoRequest.method = "LOCK"
  BY DEF NoRequest
<1>3. Req(w).path # RootPath
  BY PathFacts
<1> QED
  BY <1>1, <1>2, <1>3 DEF Alone

LEMMA MoveExact ==
  ASSUME Alone, AloneInv, NEW w \in Workers, Move(w)
  PROVE  StaysExact(w)
<1> DEFINE r == Req(w)
           b == begun[w]
           c == Ready(b, r)
           u == job[w].uid
           d == job[w].par
           p == IF Renames(w) THEN "rename" ELSE "forget"
           k == [job[w] EXCEPT !.pc = p, !.par = NoUid]
<1>1. /\ job[w].pc = "move" /\ UNCHANGED <<cache, call>> /\ CanMove(tree, u, d)
      /\ tree' = Moved(tree, u, d) /\ Becomes(w, k)
  BY DEF Move, Does
<1>2. /\ Busy(w) /\ WellFormed(b) /\ job[w] \in Job /\ r = job[w].req /\ RestsHere(w)
      /\ IsReady(b, r) /\ tree = c /\ WellFormed(c) /\ CacheIsRight(c, cache)
      /\ r.path \in Paths /\ r.dest \in Paths /\ Denoted(c, r.dest) = {}
      /\ u \in Denoted(c, r.path) \cap Uids /\ d \in Denoted(c, Parent(r.dest)) /\ d \in Dirs
      /\ NodeAt(c, r.path) = u /\ u \notin {NoUid, Root}
      /\ NodeAt(c, Parent(r.dest)) = d /\ d # NoUid
      /\ Outcomes(b, r) = Relocating(c, r) /\ r.method = "MOVE" /\ ~PureRename(r)
      /\ (Renames(w) <=> Base(r.dest) # Base(r.path))
  BY <1>1, PlacedFacts
<1>3. CallRests(w) /\ cache' = cache
  BY <1>1, <1>2 DEF RestsHere
<1>4. k.pc = p /\ k.req = r /\ k.uid = u
  BY <1>2 DEF Job
<1>5. NothingBelow(r.path)
  BY <1>2, MovedHasNoPaths
<1> DEFINE f == Renamed(tree', u, Base(r.dest))
<1> HIDE DEF k
<1>6. /\ WellFormed(tree') /\ WellFormed(f) /\ u \in Denoted(f, r.dest)
      /\ \A x \in Uids : x # u => f[x] = c[x]
      /\ Base(r.path) = Base(r.dest) => f = tree'
  <2> HIDE DEF r, b, c, u, d, p
  <2> QED
    BY <1>1, <1>2, <1>5, MoveIsNamed DEF Alone
<1>7. CallFits(tree', k, call'[w])
  BY <1>3 DEF CallFits, CallRests
<1> HIDE DEF r, b, c, u, d, f
<1>8. Outcome(f, 201) \in Relocating(c, r)
  BY <1>1, <1>2, MoveOutcomes DEF f
<1>9. CASE Renames(w)
  <2>1. k.pc = "rename"
    BY <1>4, <1>9
  <2> HIDE DEF p
  <2>2. IsMoveRenaming(b, tree', k)
    BY <1>1, <1>2, <1>4, <1>9 DEF IsMoveRenaming, c
  <2>3. JobIsExact(b, tree', k)
    BY <1>2, <1>4, <2>1, <2>2, AtRename
  <2>4. CacheFits(b, tree', cache', k)
    BY <1>2, <1>3, <1>4, <2>1 DEF CacheFits, c
  <2> QED
    BY <1>1, <1>2, <1>7, <2>1, <2>3, <2>4, GoExact DEF b
<1>10. CASE ~Renames(w)
  <2>1. k.pc = "forget"
    BY <1>4, <1>10
  <2> HIDE DEF p
  <2>2. f = tree'
    BY <1>2, <1>6, <1>10
  <2>3. SubjectOf(r) = r.dest
    BY <1>2 DEF SubjectOf
  <2>4. JobIsExact(b, tree', k)
    BY <1>2, <1>4, <1>6, <1>8, <2>1, <2>2, <2>3, AtForget
  <2>5. cache \in [Paths -> Dirs \cup {NoUid}]
    BY HereFacts DEF CacheTypeOK
  <2>6. c \in Tree /\ tree' \in Tree
    BY <1>2, <1>6 DEF WellFormed
  <2>7. CacheIsRight(tree', [cache EXCEPT ![r.path] = NoUid])
    BY <1>2, <1>5, <1>6, <2>2, <2>5, <2>6, CacheForgets
  <2>8. CacheFits(b, tree', cache', k)
    BY <1>3, <1>4, <2>1, <2>7 DEF CacheFits
  <2> QED
    BY <1>1, <1>2, <1>6, <1>7, <2>1, <2>4, <2>8, GoExact DEF b
<1> QED
  BY <1>9, <1>10

LEMMA RenamingFacts ==
  ASSUME AloneInv, NEW w \in Workers, job[w].pc \in {"after", "rename", "forget"},
         NEW b, b = begun[w], NEW r, r = Req(w), NEW c, c = Ready(b, r)
  PROVE  /\ Busy(w) /\ WellFormed(b) /\ job[w] \in Job /\ r = job[w].req /\ RestsHere(w)
         /\ r.method \in {"COPY", "MOVE"} /\ WellFormed(c) /\ Denoted(c, r.dest) = {}
         /\ r.dest \in Paths /\ Parent(r.dest) \in Seq(Names) /\ Base(r.dest) \in Names
         /\ r.path \in Paths \cup {RootPath} /\ r.path \in Seq(Names)
         /\ job[w].pc # "forget" => CacheIsRight(c, cache)
         /\ job[w].pc = "forget" => WellFormed(tree)
                                    /\ CacheIsRight(tree, [cache EXCEPT ![r.path] = NoUid])
         /\ job[w].pc = "after" => r.method = "COPY"
         /\ DestName(w) = Base(r.dest) /\ SubjectOf(r) = r.dest
         /\ JobIsExact(b, tree, job[w])
<1>1. job[w].pc \in RelocatingPoints
  BY DEF RelocatingPoints
<1>2. /\ Busy(w) /\ WellFormed(b) /\ job[w] \in Job
      /\ r = job[w].req /\ r.method \in {"COPY", "MOVE"}
      /\ r.dest \in Paths /\ r.dest # RootPath /\ r.dest \in Seq(Names)
      /\ Parent(r.dest) \in Seq(Names)
      /\ r.path \in Paths \cup {RootPath} /\ r.path \in Seq(Names)
      /\ DestName(w) = Base(r.dest)
      /\ WellFormed(c) /\ Denoted(c, r.dest) = {}
      /\ JobIsExact(b, tree, job[w])
  BY <1>1, RelocationFacts
<1>3. Base(r.dest) \in Names
  BY <1>2, LastFacts
<1>4. job[w].pc = "after" => r.method = "COPY"
  BY <1>2, HereFacts DEF JobIsPlaced
<1>5. RestsHere(w)
  BY TakenRests DEF RestsHere, ResolvingPoints
<1>6. /\ job[w].pc # "forget" => CacheIsRight(c, cache)
      /\ job[w].pc = "forget" => WellFormed(tree)
                                 /\ CacheIsRight(tree, [cache EXCEPT ![r.path] = NoUid])
  BY HereFacts
<1>7. SubjectOf(r) = r.dest
  BY <1>2 DEF SubjectOf
<1> QED
  BY <1>2, <1>3, <1>4, <1>5, <1>6, <1>7

LEMMA AfterFacts ==
  ASSUME AloneInv, NEW w \in Workers, job[w].pc = "after",
         NEW b, b = begun[w], NEW r, r = Req(w), NEW c, c = Ready(b, r),
         NEW u, u = job[w].uid, NEW d, d = job[w].par
  PROVE  /\ IsReady(b, r) /\ Base(r.dest) # Base(r.path)
         /\ u \in Denoted(c, r.path) \cap Uids /\ d \in Denoted(c, Parent(r.dest))
         /\ IsLive(tree, d)
         /\ \E v \in Uids : /\ CanCopy(c, u, d, v) /\ tree = Copied(c, u, d, v)
                            /\ Children(tree, d) \ job[w].before = {v}
<1>1. /\ r = job[w].req /\ WellFormed(c) /\ Parent(r.dest) \in Seq(Names)
      /\ JobIsExact(b, tree, job[w])
  BY RenamingFacts
<1>2. /\ IsReady(b, r) /\ Base(r.dest) # Base(r.path)
      /\ u \in Denoted(c, r.path) \cap Uids
      /\ d \in Denoted(c, Parent(r.dest))
      /\ job[w].before = Children(c, d)
      /\ \E v \in Uids : CanCopy(c, u, d, v) /\ tree = Copied(c, u, d, v)
  BY <1>1, AtAfter
<1>3. d \in Dirs
  BY <1>1, <1>2, DenotedIsRight
<1>4. PICK v \in Uids : CanCopy(c, u, d, v) /\ tree = Copied(c, u, d, v)
  BY <1>2
<1>5. /\ Children(tree, d) = Children(c, d) \cup {v} /\ v \notin Children(c, d)
      /\ IsLive(tree, d)
  <2>1. u \in Uids /\ WellFormed(c)
    BY <1>1, <1>2
  <2> DEFINE t == tree
  <2>2. CanCopy(c, u, d, v) /\ t = Copied(c, u, d, v)
    BY <1>4
  <2> HIDE DEF t
  <2>3. Children(t, d) = Children(c, d) \cup {v} /\ v \notin Children(c, d) /\ IsLive(t, d)
    BY <1>3, <2>1, <2>2, CopiedFacts
  <2> QED
    BY <2>3 DEF t
<1>6. Children(tree, d) \ job[w].before = {v}
  BY <1>2, <1>5
<1> QED
  BY <1>2, <1>4, <1>5, <1>6

LEMMA ListAfterExact ==
  ASSUME AloneInv, NEW w \in Workers, ListAfter(w)
  PROVE  StaysExact(w)
<1> DEFINE r == Req(w)
           b == begun[w]
           c == Ready(b, r)
           u == job[w].uid
           d == job[w].par
<1>1. /\ job[w].pc = "after" /\ UNCHANGED <<tree, cache, call>>
      /\ \E v \in Children(tree, d) \ job[w].before :
           Becomes(w, [job[w] EXCEPT !.pc = "rename", !.uid = v, !.par = NoUid, !.before = {}])
  BY DEF ListAfter, Does, resolverVars
<1>2. PICK v \in Uids : /\ CanCopy(c, u, d, v) /\ tree = Copied(c, u, d, v)
                        /\ Children(tree, d) \ job[w].before = {v}
  BY <1>1, AfterFacts
<1> DEFINE k == [job[w] EXCEPT !.pc = "rename", !.uid = v, !.par = NoUid, !.before = {}]
<1>3. Becomes(w, k)
  BY <1>1, <1>2
<1>4. /\ Busy(w) /\ WellFormed(b) /\ job[w] \in Job /\ r = job[w].req /\ RestsHere(w)
      /\ CacheIsRight(c, cache) /\ r.method = "COPY"
  BY <1>1, RenamingFacts
<1>5. /\ IsReady(b, r) /\ Base(r.dest) # Base(r.path)
      /\ u \in Denoted(c, r.path) \cap Uids /\ d \in Denoted(c, Parent(r.dest))
  BY <1>1, AfterFacts
<1>6. k.pc = "rename" /\ k.req = r /\ k.uid = v
  BY <1>4 DEF Job
<1> HIDE DEF r, b, c, u, d, k
<1>7. IsCopyRenaming(b, tree, k)
  BY <1>2, <1>5, <1>6 DEF IsCopyRenaming, c
<1>8. JobIsExact(b, tree, k)
  <2>1. k.req.method # "MOVE" /\ IsReady(b, k.req)
    BY <1>4, <1>5, <1>6
  <2> QED
    BY <1>6, <1>7, <2>1, AtRename
<1>9. CallRests(w) /\ tree' = tree /\ cache' = cache
  BY <1>1, <1>4 DEF RestsHere
<1>10. CacheFits(b, tree', cache', k)
  BY <1>4, <1>6, <1>9 DEF CacheFits, c
<1>11. CallFits(tree', k, call'[w])
  BY <1>9 DEF CallFits, CallRests
<1> QED
  BY <1>3, <1>4, <1>6, <1>8, <1>9, <1>10, <1>11, GoExact DEF b

LEMMA ListAfterFailsExact ==
  ASSUME Alone, AloneInv, NEW w \in Workers, ListAfterFails(w)
  PROVE  StaysExact(w)
<1> DEFINE d == job[w].par
<1>1. /\ job[w].pc = "after"
      /\ ~IsLive(tree, d) \/ Children(tree, d) \subseteq job[w].before
  BY DEF ListAfterFails, ListFails, Does, Alone
<1>2. IsLive(tree, d) /\ \E v \in Uids : Children(tree, d) \ job[w].before = {v}
  BY <1>1, AfterFacts
<1> QED
  BY <1>1, <1>2

LEMMA ForgetExact ==
  ASSUME AloneInv, NEW w \in Workers, Forget(w)
  PROVE  StaysExact(w)
<1> DEFINE r == Req(w)
           b == begun[w]
           k == [job[w] EXCEPT !.pc = "map"]
<1>1. /\ job[w].pc = "forget" /\ UNCHANGED <<tree, call>> /\ UnmapPath(r.path) /\ Becomes(w, k)
  BY DEF Forget, Does, Proceed
<1>2. /\ Busy(w) /\ WellFormed(b) /\ job[w] \in Job /\ r = job[w].req /\ RestsHere(w)
      /\ JobIsExact(b, tree, job[w]) /\ r.path \in Paths \cup {RootPath}
      /\ WellFormed(tree) /\ CacheIsRight(tree, [cache EXCEPT ![r.path] = NoUid])
  BY <1>1, RenamingFacts
<1>3. /\ r.method = "MOVE" /\ job[w].uid \in Denoted(tree, SubjectOf(r))
      /\ Outcome(tree, 201) \in Outcomes(b, r)
  BY <1>1, <1>2, AtForget
<1>4. k.pc = "map" /\ k.req = r /\ k.uid = job[w].uid
  BY <1>2 DEF Job
<1> HIDE DEF r, b, k
<1>5. MapStatus(k) = 201
  BY <1>3, <1>4 DEF MapStatus
<1>6. JobIsExact(b, tree, k)
  BY <1>3, <1>4, <1>5, AtMap
<1>7. CallRests(w) /\ tree' = tree
  BY <1>1, <1>2 DEF RestsHere
<1>8. CacheIsRight(tree, cache')
  BY <1>1, <1>2 DEF UnmapPath
<1> QED
  BY <1>1, <1>2, <1>4, <1>6, <1>7, <1>8, GoesOn DEF b

(* What is renamed has the name of the destination, and is there. *)
LEMMA CopyRenamed ==
  ASSUME AloneInv, NEW w \in Workers, job[w].pc = "rename",
         NEW b, b = begun[w], NEW r, r = Req(w), r.method = "COPY",
         NEW x, x = job[w].uid, NEW f, f = Renamed(tree, x, Base(r.dest))
  PROVE  /\ WellFormed(f) /\ x \in Denoted(f, r.dest) /\ CanRename(tree, x, Base(r.dest))
         /\ Outcome(f, 201) \in Outcomes(b, r) /\ CacheIsRight(f, cache)
<1> DEFINE c == Ready(b, r)
<1>1. /\ WellFormed(b) /\ job[w] \in Job /\ r = job[w].req /\ WellFormed(c)
      /\ Denoted(c, r.dest) = {} /\ r.dest \in Paths /\ Parent(r.dest) \in Seq(Names)
      /\ r.path \in Seq(Names) /\ CacheIsRight(c, cache)
      /\ JobIsExact(b, tree, job[w])
  BY RenamingFacts
<1>2. IsReady(b, r) /\ IsCopyRenaming(b, tree, job[w])
  <2>1. job[w].req.method # "MOVE"
    BY <1>1
  <2> QED
    BY <1>1, <2>1, AtRename
<1>3. Base(r.dest) # Base(r.path) /\ x \in Uids
  BY <1>1, <1>2 DEF IsCopyRenaming
<1>4. PICK u \in Denoted(c, r.path) \cap Uids, d \in Denoted(c, Parent(r.dest)) :
         CanCopy(c, u, d, x) /\ tree = Copied(c, u, d, x)
  BY <1>1, <1>2 DEF IsCopyRenaming
<1> HIDE DEF c
<1>5. c \in Tree /\ u \in Uids /\ u \in Denoted(c, r.path)
  BY <1>1 DEF WellFormed
<1>6. c[u].name = Base(r.path) /\ u \notin {NoUid, Root}
  BY <1>1, <1>5, FoundFacts
<1>7. NodeAt(c, r.path) = u /\ NodeAt(c, Parent(r.dest)) = d /\ d # NoUid
  BY <1>1, <1>5, NodeIs
<1>8. WellFormed(f) /\ Kept(c, f) /\ x \in Denoted(f, r.dest) /\ CanRename(tree, x, Base(r.dest))
  BY <1>1, <1>3, <1>4, <1>6, CopyIsNamed
<1>9. Outcome(f, 201) \in Relocating(c, r)
  BY <1>3, <1>4, <1>6, <1>7, CopyOutcomes
<1>10. Outcomes(b, r) = Relocating(c, r)
  BY <1>2, RelocatingIs DEF c
<1>11. CacheIsRight(f, cache)
  BY <1>1, <1>5, <1>8, CacheKept DEF Keeps, WellFormed
<1> QED
  BY <1>8, <1>9, <1>10, <1>11

LEMMA MoveRenamed ==
  ASSUME Alone, AloneInv, NEW w \in Workers, job[w].pc = "rename",
         NEW b, b = begun[w], NEW r, r = Req(w), r.method = "MOVE",
         NEW x, x = job[w].uid, NEW f, f = Renamed(tree, x, Base(r.dest))
  PROVE  /\ WellFormed(f) /\ x \in Denoted(f, r.dest) /\ CanRename(tree, x, Base(r.dest))
         /\ Outcome(f, 201) \in Outcomes(b, r)
         /\ CacheIsRight(f, [cache EXCEPT ![r.path] = NoUid])
<1> DEFINE c == Ready(b, r)
<1>1. /\ WellFormed(b) /\ job[w] \in Job /\ r = job[w].req /\ WellFormed(c)
      /\ Denoted(c, r.dest) = {} /\ r.dest \in Paths /\ Parent(r.dest) \in Seq(Names)
      /\ r.path \in Seq(Names) /\ r.path \in Paths \cup {RootPath} /\ CacheIsRight(c, cache)
      /\ JobIsExact(b, tree, job[w])
  BY RenamingFacts
<1>2. IsReady(b, r) /\ IsMoveRenaming(b, tree, job[w])
  BY <1>1, AtRename
<1>3. /\ x \in Denoted(c, r.path) \cap Uids
      /\ PureRename(r) => tree = c
      /\ ~PureRename(r) => \E d \in Denoted(c, Parent(r.dest)) :
                              CanMove(c, x, d) /\ tree = Moved(c, x, d)
  BY <1>1, <1>2 DEF IsMoveRenaming
<1> HIDE DEF c
<1>4. c \in Tree /\ x \in Uids /\ x \in Denoted(c, r.path)
  BY <1>1, <1>3 DEF WellFormed
<1>5. r.path # RootPath /\ x \notin {NoUid, Root}
  BY <1>1, <1>4, FoundFacts
<1>6. r.path \in Paths
  BY <1>1, <1>5
<1>7. NothingBelow(r.path)
  BY <1>6, MovedHasNoPaths
<1>8. NodeAt(c, r.path) = x
  BY <1>1, <1>4, NodeIs
<1>9. /\ WellFormed(f) /\ x \in Denoted(f, r.dest) /\ CanRename(tree, x, Base(r.dest))
      /\ \A y \in Uids : y # x => f[y] = c[y]
      /\ Outcome(f, 201) \in Relocating(c, r)
  <2>1. CASE PureRename(r)
    <3>1. Parent(r.path) = Parent(r.dest) /\ tree = c
      BY <1>3, <2>1 DEF PureRename
    <3>2. f = Renamed(c, x, Base(r.dest))
      BY <3>1
    <3>3. /\ WellFormed(f) /\ x \in Denoted(f, r.dest) /\ CanRename(c, x, Base(r.dest))
          /\ \A y \in Uids : y # x => f[y] = c[y]
      BY <1>1, <1>3, <1>6, <1>7, <3>1, <3>2, PureRenameIsNamed DEF Alone
    <3>4. Outcome(f, 201) \in Relocating(c, r)
      BY <1>5, <1>8, <2>1, <3>2, MoveOutcomes
    <3> QED
      BY <3>1, <3>3, <3>4
  <2>2. CASE ~PureRename(r)
    <3>1. PICK d \in Denoted(c, Parent(r.dest)) : CanMove(c, x, d) /\ tree = Moved(c, x, d)
      BY <1>3, <2>2
    <3>2. NodeAt(c, Parent(r.dest)) = d /\ d # NoUid
      BY <1>1, NodeIs
    <3>3. /\ WellFormed(f) /\ x \in Denoted(f, r.dest) /\ CanRename(tree, x, Base(r.dest))
          /\ \A y \in Uids : y # x => f[y] = c[y]
      BY <1>1, <1>3, <1>6, <1>7, <3>1, MoveIsNamed DEF Alone
    <3>4. Outcome(f, 201) \in Relocating(c, r)
      BY <1>5, <1>8, <2>2, <3>1, <3>2, MoveOutcomes
    <3> QED
      BY <3>3, <3>4
  <2> QED
    BY <2>1, <2>2
<1>10. Outcomes(b, r) = Relocating(c, r)
  BY <1>2, RelocatingIs DEF c
<1>11. cache \in [Paths -> Dirs \cup {NoUid}] /\ f \in Tree
  BY <1>9, HereFacts DEF CacheTypeOK, WellFormed
<1>12. CacheIsRight(f, [cache EXCEPT ![r.path] = NoUid])
  BY <1>1, <1>3, <1>4, <1>6, <1>7, <1>9, <1>11, CacheForgets
<1> QED
  BY <1>9, <1>10, <1>12

LEMMA RenameExact ==
  ASSUME Alone, AloneInv, NEW w \in Workers, Rename(w)
  PROVE  StaysExact(w)
<1> DEFINE r == Req(w)
           b == begun[w]
           x == job[w].uid
           p == IF Is(w, {"MOVE"}) THEN "forget" ELSE "map"
           k == [job[w] EXCEPT !.pc = p]
           f == Renamed(tree, x, Base(r.dest))
<1>1. /\ job[w].pc = "rename" /\ UNCHANGED <<cache, call>>
      /\ tree' = Renamed(tree, x, DestName(w)) /\ Becomes(w, k)
  BY DEF Rename, Does, Proceed
<1>2. /\ Busy(w) /\ WellFormed(b) /\ job[w] \in Job /\ r = job[w].req /\ RestsHere(w)
      /\ r.method \in {"COPY", "MOVE"} /\ DestName(w) = Base(r.dest) /\ SubjectOf(r) = r.dest
  BY <1>1, RenamingFacts
<1>3. CallRests(w) /\ cache' = cache /\ tree' = f
  BY <1>1, <1>2 DEF RestsHere
<1>4. k.pc = p /\ k.req = r /\ k.uid = x
  BY <1>2 DEF Job
<1>5. /\ r.method = "MOVE" => p = "forget"
      /\ r.method = "COPY" => p = "map"
  BY DEF Is
<1>6. f = Renamed(tree, x, Base(r.dest)) /\ r = Req(w) /\ b = begun[w] /\ x = job[w].uid
  OBVIOUS
<1> HIDE DEF r, b, x, p, k, f
<1>7. CASE r.method = "MOVE"
  <2>1. k.pc = "forget"
    BY <1>4, <1>5, <1>7
  <2>2. /\ WellFormed(f) /\ x \in Denoted(f, r.dest) /\ Outcome(f, 201) \in Outcomes(b, r)
        /\ CacheIsRight(f, [cache EXCEPT ![r.path] = NoUid])
    BY <1>1, <1>6, <1>7, MoveRenamed
  <2>3. JobIsExact(b, f, k)
    BY <1>2, <1>4, <1>7, <2>1, <2>2, AtForget
  <2>4. CacheFits(b, f, cache, k)
    BY <1>4, <2>1, <2>2 DEF CacheFits
  <2>5. CallFits(f, k, call'[w])
    BY <1>3 DEF CallFits, CallRests
  <2> QED
    BY <1>1, <1>2, <1>3, <1>6, <2>1, <2>2, <2>3, <2>4, <2>5, GoExact
<1>8. CASE r.method = "COPY"
  <2>1. k.pc = "map"
    BY <1>4, <1>5, <1>8
  <2>2. /\ WellFormed(f) /\ x \in Denoted(f, r.dest) /\ Outcome(f, 201) \in Outcomes(b, r)
        /\ CacheIsRight(f, cache)
    BY <1>1, <1>6, <1>8, CopyRenamed
  <2>3. MapStatus(k) = 201
    BY <1>4, <1>8 DEF MapStatus
  <2>4. JobIsExact(b, f, k)
    BY <1>2, <1>4, <1>8, <2>1, <2>2, <2>3, AtMap
  <2> QED
    BY <1>1, <1>2, <1>3, <1>6, <2>1, <2>2, <2>4, GoesOn
<1> QED
  BY <1>2, <1>7, <1>8

LEMMA RenameFailsExact ==
  ASSUME Alone, AloneInv, NEW w \in Workers, RenameFails(w)
  PROVE  StaysExact(w)
<1> DEFINE r == Req(w)
           x == job[w].uid
<1>1. /\ job[w].pc = "rename"
      /\ RpcFails(Result(CanRename(tree, x, DestName(w)), Renamed(tree, x, DestName(w))))
  BY DEF RenameFails, Does
<1>2. ~CanRename(tree, x, DestName(w))
  BY <1>1, NoneRefused
<1>3. r.method \in {"COPY", "MOVE"} /\ DestName(w) = Base(r.dest)
  BY <1>1, RenamingFacts
<1>4. CanRename(tree, x, Base(r.dest))
  <2>1. CASE r.method = "MOVE"
    BY <1>1, <2>1, MoveRenamed
  <2>2. CASE r.method = "COPY"
    BY <1>1, <2>2, CopyRenamed
  <2> QED
    BY <1>3, <2>1, <2>2
<1> QED
  BY <1>2, <1>3, <1>4

LEMMA RelocatesExact ==
  ASSUME Alone, AloneInv, NEW w \in Workers, Relocates(w)
  PROVE  StaysExact(w)
BY ListBeforeExact, CopyExact, CopyFailsExact, ListAfterExact, ListAfterFailsExact,
   RenameExact, RenameFailsExact, MoveExact, MoveFailsExact, ForgetExact DEF Relocates

LEMMA HandlerStepExact ==
  ASSUME Alone, AloneInv, NEW w \in Workers, HandlerStep(w)
  PROVE  StaysExact(w)
BY ResolveExact, AnswersExact, CreatesExact, RemovesExact, ReadsExact, RelocatesExact
   DEF HandlerStep

-----------------------------------------------------------------------------
(* The specification *)

LEMMA AloneInit ==
  ASSUME Alone, SInit
  PROVE  AloneInv
<1>1. HandlersInv
  BY InitInv DEF SInit
<1>2. WellFormed(InitTree)
  BY InitTreeIsTree, InitTreeIsSound DEF WellFormed, Alone
<1>3. /\ tree = InitTree /\ cache = [p \in Paths |-> NoUid]
      /\ \A w \in Workers : job[w] = NoJob /\ call[w] = NoCall /\ begun[w] = InitTree
  BY DEF SInit, JobInit, Init
<1>4. NoJob.pc = "idle" /\ NoCall.phase = "idle"
  BY DEF NoJob, NoCall
<1>5. CacheIsRight(tree, cache)
  BY <1>3 DEF CacheIsRight
<1> SUFFICES ASSUME NEW w \in Workers PROVE Exact(begun[w], tree, cache, job[w], call[w])
  BY <1>1 DEF AloneInv
<1>6. job[w].pc = "idle" /\ call[w].phase = "idle" /\ begun[w] = InitTree
  BY <1>3, <1>4
<1>7. JobIsExact(begun[w], tree, job[w])
  BY <1>6, AtRest
<1>8. CacheFits(begun[w], tree, cache, job[w])
  BY <1>5, <1>6 DEF CacheFits
<1>9. CallFits(tree, job[w], call[w])
  BY <1>6 DEF CallFits
<1> QED
  BY <1>2, <1>3, <1>6, <1>7, <1>8, <1>9 DEF Exact

(* A handler's step is a busy thread's. *)
LEMMA StepsAreBusy ==
  ASSUME AloneInv, NEW w \in Workers, HandlerStep(w)
  PROVE  job[w].pc # "idle"
<1> SUFFICES ASSUME job[w].pc = "idle" PROVE FALSE
  OBVIOUS
<1>1. call[w].phase = "idle"
  BY HereFacts DEF ResolvingPoints
<1>2. ~Resolve(w)
  BY <1>1, Zenon DEF Resolve, ResolveStep, At, LookupHit, LookupMiss, VerifyHit, VerifyMiss, Evict,
                     ListFound, ListMissing, MapPrefix
<1>3. ~Answers(w)
  BY <1>1, Zenon DEF Answers, Answer, At, TargetMissing, DeleteOfRoot, TargetFound, ParentMissing,
         ParentFound, PutTargetMissing, DestFound, DestFree, SourceMissing, SourceFound,
         DestParentMissing, DestParentFound
<1>4. ~Creates(w)
  BY Zenon DEF Creates, Create, CreateFails, Upload, UploadFails, Map, Does
<1>5. ~Removes(w)
  BY Zenon DEF Removes, StatFile, StatDir, StatMissing, RemoveFile, RemoveFileFails, ListTree,
         ListTreeFails, EnterSubtree, RemoveEntry, RemoveEntryFails, RemoveEmptied,
         RemoveEmptiedFails, Drop, Does
<1>6. ~Reads(w)
  BY Zenon DEF Reads, Download, List, ListingFails, MapEntry, Does
<1>7. ~Relocates(w)
  BY Zenon DEF Relocates, ListBefore, Copy, CopyFails, ListAfter, ListAfterFails, Rename,
         RenameFails, Move, MoveFails, Forget, Does
<1> QED
  BY <1>2, <1>3, <1>4, <1>5, <1>6, <1>7 DEF HandlerStep

LEMMA AloneNext ==
  ASSUME Alone, AloneInv, [SNext]_sequentialVars
  PROVE  AloneInv'
<1>1. HandlersInv'
  <2>1. [HandlerNext]_handlerVars
    BY DEF SNext, sequentialVars
  <2> QED
    BY <2>1, NextInv DEF AloneInv
<1> SUFFICES ASSUME NEW w \in Workers PROVE Exact(begun'[w], tree', cache', job'[w], call'[w])
  BY <1>1 DEF AloneInv
<1>2. CASE UNCHANGED sequentialVars
  BY <1>2 DEF sequentialVars, handlerVars, resolverVars, AloneInv
<1>3. CASE SNext
  <2>1. begun'[w] = IF job[w].pc = "idle" THEN tree ELSE begun[w]
    BY <1>3 DEF SNext, Does
  <2>2. \A v \in Workers : v = w
    BY DEF Alone
  <2>3. ASSUME NEW r \in Requests, Receive(w, r) \/ TurnAway(w, r)
        PROVE  Exact(begun'[w], tree', cache', job'[w], call'[w])
    <3>1. begun'[w] = tree
      BY <2>1, <2>3 DEF Receive, TurnAway, Does
    <3> QED
      BY <2>3, <3>1, ReceiveExact, TurnAwayExact
  <2>4. ASSUME HandlerStep(w)
        PROVE  Exact(begun'[w], tree', cache', job'[w], call'[w])
    <3>1. begun'[w] = begun[w]
      BY <2>1, <2>4, StepsAreBusy
    <3>2. StaysExact(w)
      BY <2>4, HandlerStepExact
    <3> QED
      BY <3>1, <3>2 DEF StaysExact
  <2>5. ASSUME Leave(w)
        PROVE  Exact(begun'[w], tree', cache', job'[w], call'[w])
    BY <2>5, LeaveExact
  <2>6. ~Foreign
    <3>1. foreign \in Nat
      BY HereFacts DEF TypeOK
    <3> QED
      BY <3>1 DEF Foreign, Alone
  <2>7. \/ \E v \in Workers, r \in Requests : Receive(v, r) \/ TurnAway(v, r)
        \/ \E v \in Workers : HandlerStep(v) \/ Leave(v)
    BY <1>3, <2>6 DEF SNext, HandlerNext
  <2> QED
    BY <2>2, <2>3, <2>4, <2>5, <2>7
<1> QED
  BY <1>2, <1>3

LEMMA SpecStaysAlone ==
  ASSUME Alone
  PROVE  SequentialSpec => []AloneInv
<1>1. SInit => AloneInv
  BY AloneInit
<1>2. AloneInv /\ [SNext]_sequentialVars => AloneInv'
  BY AloneNext
<1> QED
  BY <1>1, <1>2, PTL DEF SequentialSpec

(* Whatever requests came before, and whatever they left in the map, a     *)
(* request is answered with a status, and leaves a tree, that the          *)
(* reference computes from the tree alone: the listing diff finds the copy, *)
(* the recursive removal removes the subtree and nothing else, and a       *)
(* request that is turned away changes nothing (every handler of           *)
(* webdav_server.cpp, one at a time).                                      *)
THEOREM OutcomesAreAllowed ==
  ASSUME Alone
  PROVE  SequentialSpec => []OutcomeIsAllowed
<1>1. AloneInv => OutcomeIsAllowed
  <2> SUFFICES ASSUME AloneInv, NEW w \in Workers, Does(w, "replied")
               PROVE  Outcome(tree, job[w].status)
                        \in Outcomes(begun[w], Req(w)) \cup {Outcome(begun[w], 401)}
    BY DEF OutcomeIsAllowed
  <2>1. job[w].pc = "replied" /\ JobIsExact(begun[w], tree, job[w]) /\ Req(w) = job[w].req
    BY HereFacts DEF Does
  <2> QED
    BY <2>1, AtReply
<1> QED
  BY <1>1, SpecStaysAlone, PTL

(* Then the map is right whenever no request is served: an entry that the  *)
(* resolver's verification would let pass leads where its path does, if    *)
(* only no MOVE takes a directory with cached paths below it (the comment  *)
(* at path_resolver.cpp:82-84 promises it of every MOVE).                  *)
THEOREM RestingCacheStaysRight ==
  ASSUME Alone
  PROVE  SequentialSpec => []RestingCacheIsRight
<1>1. AloneInv => RestingCacheIsRight
  <2> SUFFICES ASSUME AloneInv, \A v \in Workers : Does(v, "idle"),
                      NEW p \in Paths, cache[p] # NoUid, HasName(tree, cache[p], Base(p))
               PROVE  Denotes(tree, p, cache[p])
    BY DEF RestingCacheIsRight
  <2> PICK w \in Workers : TRUE
    BY DEF Alone
  <2>1. CacheIsRight(tree, cache)
    BY HereFacts DEF Does
  <2> QED
    BY <2>1 DEF CacheIsRight, Right, HasName, IsLive, Denotes
<1> QED
  BY <1>1, SpecStaysAlone, PTL
=============================================================================
