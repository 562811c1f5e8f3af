--------------------------- MODULE HandlersProofs ---------------------------
(***************************************************************************)
(* Of the handlers, for every set of threads, uids, names, paths and       *)
(* requests and every initial tree: that they keep their types, and that   *)
(* none but a DELETE, or a COPY or MOVE that may overwrite, ever removes a *)
(* node, whatever RPCs fail and whatever other clients of the service do;  *)
(* that, while nothing is renamed, the map is exact, a PUT is where its    *)
(* path leads, and a DELETE removes its subject and only that; and that a  *)
(* MOVE whose Overwrite is F takes no destination that there is.           *)
(***************************************************************************)
EXTENDS ConcurrentHandlers, CoreProofs

(* The requests that may remove what their path denotes. *)
MayRemove(r) == r.method = "DELETE" \/ (r.method \in {"COPY", "MOVE"} /\ r.overwrite)

RemovingPoints == {"remove file", "remove tree", "drop"}
RelocatingPoints == {"dest", "source", "dparent", "before", "copy", "after", "rename", "move",
                     "forget"}

(* What is created has a name, and what is removed or relocated was asked  *)
(* to be.                                                                  *)
JobIsPlaced(j) ==
  /\ j.pc = "parent" /\ j.req.method = "MKCOL" => j.req.path # RootPath
  /\ j.pc \in {"touch", "mkdir"} => j.req.path # RootPath
  /\ j.pc = "stat" => j.uid \in Uids /\ (MayRemove(j.req) \/ j.req.method = "PROPFIND")
  /\ j.pc \in RemovingPoints => MayRemove(j.req)
  /\ j.pc \in RelocatingPoints => j.req.method \in {"COPY", "MOVE"}
  /\ j.pc \in {"before", "copy", "after"} => j.req.method = "COPY"
  /\ j.pc = "remove tree" => j.stack # <<>>

(* The root resolves to the root, and the target is the request's path. *)
CallIsPlaced(j, c) ==
  /\ c.phase = "done" /\ c.path = RootPath => c.uid = Root
  /\ j.pc = "target" => c.path = j.req.path

HandlersInv ==
  /\ JobTypeOK
  /\ \A w \in Workers : JobIsPlaced(job[w]) /\ CallIsPlaced(job[w], call[w])

-----------------------------------------------------------------------------
(* The core *)

(* An RPC that fails leaves the tree as it was, or as its success would. *)
LEMMA FailureKeepsTree ==
  ASSUME tree \in Tree, NEW results \in SUBSET Tree, RpcFails(results)
  PROVE  tree' \in Tree
BY DEF RpcFails

(* No RPC but a removal ends the life of a node. *)
Ends(t, s) == \E u \in Uids : t[u].status = "live" /\ s[u].status = "gone"

LEMMA CoreEndsNothing ==
  ASSUME NEW t \in Tree, NEW u \in Uids, NEW d \in Dirs, NEW n \in Names, NEW k \in Kinds
  PROVE  /\ ~Ends(t, t)
         /\ ~Ends(t, Created(t, u, d, n, k))
         /\ ~Ends(t, Filled(t, u))
         /\ ~Ends(t, Renamed(t, u, n))
         /\ ~Ends(t, Moved(t, u, d))
<1>1. ~Ends(t, t)
  BY DEF Ends
<1>2. ~Ends(t, Created(t, u, d, n, k))
  BY DEF Ends, Created, Tree, Node
<1>3. ~Ends(t, Filled(t, u))
  BY DEF Ends, Filled, Tree, Node
<1>4. ~Ends(t, Renamed(t, u, n))
  BY DEF Ends, Renamed, Tree, Node
<1>5. ~Ends(t, Moved(t, u, d))
  BY DEF Ends, Moved, Tree, Node
<1> QED
  BY <1>1, <1>2, <1>3, <1>4, <1>5

LEMMA CopyEndsNothing ==
  ASSUME NEW t \in Tree, NEW u \in Uids, NEW d \in Dirs, NEW v \in Uids,
         t[u].status = "live"
  PROVE  ~Ends(t, Copied(t, u, d, v))
<1>1. [t[u] EXCEPT !.parent = d].status = "live"
  BY DEF Tree, Node
<1> QED
  BY <1>1 DEF Ends, Copied, Tree, Node

-----------------------------------------------------------------------------
(* Paths and resolutions *)

LEMMA ParentFacts ==
  ASSUME NEW p \in Paths
  PROVE  Parent(p) \in Paths \cup {RootPath}
<1>1. p \in Seq(Names) /\ Len(p) \in Nat \ {0} /\ p # RootPath
  BY PathFacts
<1>2. CASE Len(p) = 1
  <2>1. SubSeq(p, 1, 0) = <<>>
    BY <1>1
  <2> QED
    BY <1>2, <2>1 DEF Parent, Prefix, RootPath
<1>3. CASE Len(p) # 1
  <2>1. \A n \in Nat \ {0} : n # 1 => n - 1 \in 1..n
    OBVIOUS
  <2>2. Prefix(p, Len(p) - 1) \in Paths
    BY <1>1, <1>3, <2>1, PathFacts, Zenon
  <2> QED
    BY <1>1, <2>2, Zenon DEF Parent
<1> QED
  BY <1>2, <1>3

LEMMA RootFacts ==
  /\ Len(RootPath) = 0
  /\ Parent(RootPath) = RootPath
  /\ Root \in Dirs /\ Root \notin Uids
  /\ NoUid \notin Dirs
  /\ Uids \subseteq Dirs
BY RootIsNoNode, NoUidIsNoUid DEF RootPath, Parent, Dirs

LEMMA CallStarts ==
  /\ NoCall \in Call
  /\ \A p \in Paths \cup {RootPath} : Started(p) \in Call
<1>1. NoCall \in Call
  BY RootFacts DEF NoCall, Call, Phases
<1>2. ASSUME NEW p \in Paths \cup {RootPath} PROVE Started(p) \in Call
  <2>1. Len(p) \in Nat
    BY PathFacts, RootFacts
  <2> QED
    BY <2>1, RootFacts DEF Started, Call, Phases
<1> QED
  BY <1>1, <1>2

-----------------------------------------------------------------------------
(* Jobs *)

(* What the type invariant says of a thread's request. *)
LEMMA JobFacts ==
  ASSUME JobTypeOK, NEW w \in Workers
  PROVE  /\ job[w] \in Job
         /\ Req(w) \in Request
         /\ Is(w, {"COPY", "MOVE"}) => Req(w).dest \in Paths /\ DestName(w) \in Names
         /\ Req(w).path # RootPath => Req(w).path \in Paths /\ NameOf(w) \in Names
<1>1. job[w] \in Job
  BY DEF JobTypeOK
<1>2. NoRequest \in Request /\ NoRequest.method \notin {"COPY", "MOVE"}
  BY DEF NoRequest, Request, Methods
<1>3. Req(w) \in Requests \cup {NoRequest}
  BY <1>1 DEF Job, Req
<1>4. Req(w) \in Request
  BY <1>2, <1>3, RequestsAreSound
<1>5. Is(w, {"COPY", "MOVE"}) => Req(w).dest \in Paths
  BY <1>2, <1>3, <1>4, RequestsAreSound DEF Is, Request
<1>6. Req(w).path # RootPath => Req(w).path \in Paths
  BY <1>4 DEF Request
<1> QED
  BY <1>1, <1>4, <1>5, <1>6, PathFacts DEF DestName, NameOf

LEMMA PointsAre ==
  \A f \in {"target", "source", "dparent", "stat", "mkdir", "list", "map entries",
            "remove file", "remove tree", "drop", "copy", "rename", "map",
            "replied"} : f \in Points
BY DEF Points

(* What a handler writes to its locals. *)
Became(k, j, f, u, s) == k \in Job /\ k.pc = f /\ k.req = j.req /\ k.uid = u /\ k.stack = s

LEMMA JobGoesOn ==
  ASSUME NEW j \in Job, NEW f \in Points
  PROVE  Became([j EXCEPT !.pc = f], j, f, j.uid, j.stack)
BY DEF Became, Job

LEMMA JobTakesUid ==
  ASSUME NEW j \in Job, NEW f \in Points, NEW u \in Dirs \cup {NoUid}
  PROVE  Became([j EXCEPT !.pc = f, !.uid = u], j, f, u, j.stack)
BY DEF Became, Job

LEMMA JobTakesParent ==
  ASSUME NEW j \in Job, NEW f \in Points, NEW d \in Dirs \cup {NoUid}
  PROVE  /\ Became([j EXCEPT !.pc = f, !.par = d], j, f, j.uid, j.stack)
         /\ Became([j EXCEPT !.par = d, !.pc = f], j, f, j.uid, j.stack)
BY DEF Became, Job

LEMMA JobTakesStack ==
  ASSUME NEW j \in Job, NEW f \in Points, NEW s \in Seq(Frame)
  PROVE  /\ Became([j EXCEPT !.pc = f, !.stack = s], j, f, j.uid, s)
         /\ Became([j EXCEPT !.stack = s, !.pc = f], j, f, j.uid, s)
         /\ Became([j EXCEPT !.stack = s], j, j.pc, j.uid, s)
BY DEF Became, Job

LEMMA JobTakesEntries ==
  ASSUME NEW j \in Job, NEW f \in Points, NEW E \in SUBSET Entry
  PROVE  /\ Became([j EXCEPT !.pc = f, !.entries = E], j, f, j.uid, j.stack)
         /\ Became([j EXCEPT !.entries = E], j, j.pc, j.uid, j.stack)
BY DEF Became, Job

LEMMA JobTakesListing ==
  ASSUME NEW j \in Job, NEW f \in Points, NEW B \in SUBSET Uids
  PROVE  Became([j EXCEPT !.pc = f, !.before = B], j, f, j.uid, j.stack)
BY DEF Became, Job

LEMMA JobIsFresh ==
  ASSUME NEW j \in Job, NEW f \in Points
  PROVE  Became([j EXCEPT !.pc = f, !.fresh = TRUE], j, f, j.uid, j.stack)
BY DEF Became, Job

LEMMA JobFinds ==
  ASSUME NEW j \in Job, NEW f \in Points, NEW u \in Dirs \cup {NoUid}
  PROVE  /\ Became([j EXCEPT !.pc = f, !.uid = u, !.par = NoUid], j, f, u, j.stack)
         /\ Became([j EXCEPT !.pc = f, !.uid = u, !.par = NoUid, !.before = {}],
                   j, f, u, j.stack)
BY DEF Became, Job

LEMMA NoJobIsJob == NoJob \in Job
<1>1. <<>> \in Seq(Frame)
  OBVIOUS
<1> QED
  BY <1>1 DEF NoJob, Job, Points, Statuses

LEMMA ReceivedIsJob ==
  ASSUME NEW r \in Requests, NEW f \in Points
  PROVE  LET k == [NoJob EXCEPT !.pc = f, !.req = r]
         IN  k \in Job /\ k.pc = f /\ k.req = r
<1>1. ASSUME NEW j \in Job
      PROVE  LET k == [j EXCEPT !.pc = f, !.req = r] IN k \in Job /\ k.pc = f /\ k.req = r
  BY DEF Job
<1> QED
  BY <1>1, NoJobIsJob

LEMMA RepliedIsJob ==
  ASSUME NEW r \in Requests \cup {NoRequest}, NEW u \in Dirs \cup {NoUid}, NEW s \in Statuses
  PROVE  LET k == [NoJob EXCEPT !.pc = "replied", !.req = r, !.uid = u, !.status = s]
         IN  k \in Job /\ k.pc = "replied"
<1>1. ASSUME NEW j \in Job, NEW f \in Points
      PROVE  LET k == [j EXCEPT !.pc = f, !.req = r, !.uid = u, !.status = s]
             IN  k \in Job /\ k.pc = f
  BY DEF Job
<1> QED
  BY <1>1, NoJobIsJob, PointsAre

LEMMA TurnedAwayIsJob ==
  ASSUME NEW r \in Requests, NEW s \in Statuses
  PROVE  LET k == [NoJob EXCEPT !.pc = "replied", !.req = r, !.status = s]
         IN  k \in Job /\ k.pc = "replied"
<1>1. ASSUME NEW j \in Job, NEW f \in Points
      PROVE  LET k == [j EXCEPT !.pc = f, !.req = r, !.status = s] IN k \in Job /\ k.pc = f
  BY DEF Job
<1> QED
  BY <1>1, NoJobIsJob, PointsAre

-----------------------------------------------------------------------------
(* Steps of a thread *)

CacheTypeOK == cache \in [Paths -> Dirs \cup {NoUid}]

(* A thread's step gives it other locals and, maybe, another resolution.   *)
LEMMA ThreadInv ==
  ASSUME HandlersInv, NEW w \in Workers, NEW j \in Job, NEW c \in Call,
         job' = [job EXCEPT ![w] = j], call' = [call EXCEPT ![w] = c],
         JobIsPlaced(j), CallIsPlaced(j, c),
         tree' \in Tree, CacheTypeOK', foreign' = foreign
  PROVE  HandlersInv'
<1> USE DEF HandlersInv, JobTypeOK, TypeOK
<1>1. job' \in [Workers -> Job] /\ call' \in [Workers -> Call]
  OBVIOUS
<1>2. job'[w] = j /\ call'[w] = c
  OBVIOUS
<1>3. \A v \in Workers \ {w} : job'[v] = job[v] /\ call'[v] = call[v]
  OBVIOUS
<1>4. ASSUME NEW v \in Workers PROVE JobIsPlaced(job'[v]) /\ CallIsPlaced(job'[v], call'[v])
  BY <1>2, <1>3
<1> QED
  BY <1>1, <1>4 DEF CacheTypeOK

(* What a handler's resolution is after its step.                          *)
Resolves(w, j) ==
  \/ (UNCHANGED call \/ Taken(w)) /\ j.pc # "target"
  \/ \E p \in Paths \cup {RootPath} :
        ThenResolve(w, p) /\ (j.pc = "target" => p = j.req.path)

LEMMA GoInv ==
  ASSUME HandlersInv, NEW w \in Workers, NEW j \in Job, Becomes(w, j),
         JobIsPlaced(j), Resolves(w, j),
         tree' \in Tree, CacheTypeOK', foreign' = foreign
  PROVE  HandlersInv'
<1>1. CASE UNCHANGED call /\ j.pc # "target"
  <2>1. call[w] \in Call /\ call' = [call EXCEPT ![w] = call[w]]
    BY <1>1 DEF HandlersInv, JobTypeOK, TypeOK
  <2>2. CallIsPlaced(j, call[w])
    BY <1>1 DEF HandlersInv, CallIsPlaced
  <2> QED
    BY <2>1, <2>2, ThreadInv DEF Becomes
<1>2. CASE Taken(w) /\ j.pc # "target"
  <2>1. CallIsPlaced(j, NoCall)
    BY <1>2 DEF CallIsPlaced, NoCall
  <2> QED
    BY <1>2, <2>1, CallStarts, ThreadInv DEF Becomes, Taken
<1>3. ASSUME NEW p \in Paths \cup {RootPath}, ThenResolve(w, p),
             j.pc = "target" => p = j.req.path
      PROVE  HandlersInv'
  <2>1. CallIsPlaced(j, Started(p))
    BY <1>3 DEF CallIsPlaced, Started
  <2> QED
    BY <1>3, <2>1, CallStarts, ThreadInv DEF Becomes, ThenResolve
<1> QED
  BY <1>1, <1>2, <1>3 DEF Resolves

LEMMA ReplyInv ==
  ASSUME HandlersInv, NEW w \in Workers, NEW s \in Statuses, Reply(w, s),
         UNCHANGED call \/ Taken(w),
         tree' \in Tree, CacheTypeOK', foreign' = foreign
  PROVE  HandlersInv'
<1>1. PICK r \in Requests \cup {NoRequest}, u \in Dirs \cup {NoUid} :
         r = Req(w) /\ u = job[w].uid
  BY JobFacts DEF HandlersInv, Job, Req
<1> DEFINE j == [NoJob EXCEPT !.pc = "replied", !.req = r, !.uid = u, !.status = s]
<1>2. j \in Job /\ j.pc = "replied"
  BY RepliedIsJob
<1>3. Becomes(w, j)
  BY <1>1 DEF Reply
<1> HIDE DEF j
<1>4. JobIsPlaced(j)
  BY <1>2 DEF JobIsPlaced, RemovingPoints, RelocatingPoints
<1>5. Resolves(w, j)
  BY <1>2 DEF Resolves
<1> QED
  BY <1>2, <1>3, <1>4, <1>5, GoInv

(* What is known of the thread that takes a step. *)
LEMMA StepFacts ==
  ASSUME HandlersInv, NEW w \in Workers
  PROVE  /\ JobTypeOK /\ TypeOK /\ tree \in Tree /\ CacheTypeOK
         /\ job[w] \in Job /\ job[w].pc \in Points
         /\ job[w].uid \in Dirs \cup {NoUid} /\ job[w].par \in Dirs \cup {NoUid}
         /\ job[w].before \subseteq Uids /\ job[w].entries \subseteq Entry
         /\ job[w].stack \in Seq(Frame)
         /\ JobIsPlaced(job[w]) /\ CallIsPlaced(job[w], call[w])
BY DEF HandlersInv, JobTypeOK, TypeOK, CacheTypeOK, Job

-----------------------------------------------------------------------------
(* Resolutions *)

LEMMA GotoInv ==
  ASSUME HandlersInv, NEW w \in Workers, call[w].path \in Paths,
         NEW f \in Phases, NEW u \in Dirs \cup {NoUid}, NEW n \in Nat,
         n <= Len(call[w].path),
         f = "list" => n < Len(call[w].path),
         f = "map" => n > 0,
         Goto(w, f, u, n),
         UNCHANGED <<tree, foreign, job>>, CacheTypeOK'
  PROVE  HandlersInv'
<1> DEFINE c == [phase |-> f, path |-> call[w].path, uid |-> u, depth |-> n]
<1>1. call[w].path # RootPath
  BY PathFacts
<1>2. c \in Call /\ c.path = call[w].path
  BY <1>1 DEF Call
<1>3. call' = [call EXCEPT ![w] = c]
  BY DEF Goto
<1> HIDE DEF c
<1>4. CallIsPlaced(job[w], c)
  BY <1>1, <1>2, StepFacts DEF CallIsPlaced
<1>5. job' = [job EXCEPT ![w] = job[w]]
  BY DEF HandlersInv, JobTypeOK
<1> QED
  BY <1>2, <1>3, <1>4, <1>5, StepFacts, ThreadInv

LEMMA ResolveInv ==
  ASSUME HandlersInv, NEW w \in Workers, Resolve(w)
  PROVE  HandlersInv'
<1> DEFINE p == call[w].path
<1>0. UNCHANGED job /\ ResolveStep(w)
  BY DEF Resolve
<1> USE DEF ResolveStep
<1>1. /\ call[w].phase \in {"lookup", "verify", "evict", "list", "map"}
      /\ p \in Paths /\ Len(p) \in Nat \ {0}
      /\ call[w].uid \in Dirs \cup {NoUid} /\ call[w].depth \in Nat
  BY <1>0, StepFacts, CallFacts, PathFacts
     DEF LookupHit, LookupMiss, VerifyHit, VerifyMiss, Evict, ListFound, ListMissing,
         MapPrefix, At
<1>2. UNCHANGED <<tree, foreign, job>>
  BY <1>0 DEF LookupHit, LookupMiss, VerifyHit, VerifyMiss, Evict, ListFound, ListMissing, MapPrefix
<1>3. CacheTypeOK'
  BY <1>0, <1>1, StepFacts
     DEF CacheTypeOK, LookupHit, LookupMiss, VerifyHit, VerifyMiss, Evict, ListFound,
         ListMissing, MapPrefix, MapPath, UnmapPath
<1>4. \A f \in {"lookup", "verify", "evict", "list", "map", "done"} : f \in Phases
  BY DEF Phases
<1> HIDE DEF ResolveStep
<1> USE <1>1, <1>2, <1>3, <1>4
<1>5. CASE LookupHit(w)
  <2>1. cache[p] \in Dirs \cup {NoUid}
    BY StepFacts DEF CacheTypeOK
  <2> QED
    BY <1>5, <2>1, GotoInv DEF LookupHit
<1>6. CASE LookupMiss(w)
  BY <1>6, RootFacts, GotoInv DEF LookupMiss
<1>7. CASE VerifyHit(w)
  <2>1. Goto(w, "done", call[w].uid, 0)
    BY <1>7 DEF VerifyHit
  <2> QED
    BY <2>1, GotoInv
<1>8. CASE VerifyMiss(w)
  <2>1. Goto(w, "evict", call[w].uid, 0)
    BY <1>8 DEF VerifyMiss
  <2> QED
    BY <2>1, GotoInv
<1>9. CASE Evict(w)
  <2>1. Goto(w, "list", Root, 0)
    BY <1>9 DEF Evict
  <2> QED
    BY <2>1, RootFacts, GotoInv
<1>10. CASE ListFound(w)
  <2>1. call[w].depth < Len(p)
    BY <1>10, StepFacts, CallFacts DEF ListFound, At
  <2>2. PICK u \in Matches(w) : Goto(w, "map", u, call[w].depth + 1)
    BY <1>10 DEF ListFound
  <2>3. u \in Dirs
    BY <2>2 DEF Matches, ChildrenNamed, Children, Dirs
  <2> QED
    BY <2>1, <2>2, <2>3, GotoInv
<1>11. CASE ListMissing(w)
  <2>1. Goto(w, "done", NoUid, call[w].depth)
    BY <1>11 DEF ListMissing
  <2>2. call[w].depth <= Len(p)
    BY StepFacts, CallFacts
  <2> QED
    BY <2>1, <2>2, GotoInv
<1>12. CASE MapPrefix(w)
  <2> DEFINE f == IF call[w].depth = Len(p) THEN "done" ELSE "list"
  <2>1. call[w].depth <= Len(p)
    BY StepFacts, CallFacts
  <2>2. f \in Phases /\ (f = "list" => call[w].depth < Len(p)) /\ f # "map"
    BY <2>1
  <2>3. Goto(w, f, call[w].uid, call[w].depth)
    BY <1>12 DEF MapPrefix
  <2> HIDE DEF f
  <2> QED
    BY <2>1, <2>2, <2>3, GotoInv
<1> QED
  BY <1>0, <1>5, <1>6, <1>7, <1>8, <1>9, <1>10, <1>11, <1>12 DEF ResolveStep

LEMMA ForeignInv ==
  ASSUME HandlersInv, Foreign, UNCHANGED job
  PROVE  HandlersInv'
<1>1. tree' \in Tree
  BY ForeignKeepsTree DEF Foreign, HandlersInv, JobTypeOK, TypeOK
<1> QED
  BY <1>1 DEF Foreign, HandlersInv, JobTypeOK, TypeOK

-----------------------------------------------------------------------------
(* Requests that come and go *)

LEMMA ReceiveInv ==
  ASSUME HandlersInv, NEW w \in Workers, NEW r \in Requests, Receive(w, r)
  PROVE  HandlersInv'
<1> DEFINE f == FirstPoint(r)
           j == [NoJob EXCEPT !.pc = f, !.req = r]
<1>1. r \in Request
  BY RequestsAreSound
<1>2. f \in {"target", "parent", "dest"} /\ f \in Points
  BY DEF FirstPoint, Points
<1>3. FirstPath(r) \in Paths \cup {RootPath}
  BY <1>1, RequestsAreSound, ParentFacts, RootFacts DEF FirstPath, Request
<1>4. /\ f = "target" => FirstPath(r) = r.path
      /\ f = "dest" => r.method \in {"COPY", "MOVE"}
  BY DEF FirstPoint, FirstPath
<1>5. Becomes(w, j) /\ ThenResolve(w, FirstPath(r))
  BY DEF Receive
<1> HIDE DEF f
<1>6. j \in Job /\ j.pc = f /\ j.req = r
  BY <1>2, ReceivedIsJob
<1> HIDE DEF j
<1>7. JobIsPlaced(j)
  BY <1>2, <1>4, <1>6, RequestsAreSound DEF JobIsPlaced, RemovingPoints, RelocatingPoints
<1>8. Resolves(w, j)
  BY <1>3, <1>4, <1>5, <1>6 DEF Resolves
<1>9. tree' \in Tree /\ CacheTypeOK' /\ foreign' = foreign
  BY StepFacts DEF Receive, CacheTypeOK
<1> QED
  BY <1>5, <1>6, <1>7, <1>8, <1>9, GoInv

LEMMA TurnAwayInv ==
  ASSUME HandlersInv, NEW w \in Workers, NEW r \in Requests, TurnAway(w, r)
  PROVE  HandlersInv'
<1>0. PICK s \in Statuses : s = 401
  BY DEF Statuses
<1> DEFINE j == [NoJob EXCEPT !.pc = "replied", !.req = r, !.status = s]
<1>1. j \in Job /\ j.pc = "replied"
  BY TurnedAwayIsJob
<1>2. Becomes(w, j) /\ UNCHANGED <<tree, cache, call, foreign>>
  BY <1>0 DEF TurnAway, resolverVars
<1> HIDE DEF j
<1>3. JobIsPlaced(j) /\ Resolves(w, j)
  BY <1>1, <1>2 DEF JobIsPlaced, RemovingPoints, RelocatingPoints, Resolves
<1> QED
  BY <1>1, <1>2, <1>3, StepFacts, GoInv DEF CacheTypeOK

LEMMA LeaveInv ==
  ASSUME HandlersInv, NEW w \in Workers, Leave(w)
  PROVE  HandlersInv'
<1>1. Becomes(w, NoJob) /\ UNCHANGED <<tree, cache, call, foreign>>
  BY DEF Leave, resolverVars
<1>2. JobIsPlaced(NoJob) /\ Resolves(w, NoJob)
  BY <1>1 DEF NoJob, JobIsPlaced, RemovingPoints, RelocatingPoints, Resolves
<1> QED
  BY <1>1, <1>2, NoJobIsJob, StepFacts, GoInv DEF CacheTypeOK

-----------------------------------------------------------------------------
(* Answers of resolutions *)

(* Where a handler may go on that does not reply, and what its resolution  *)
(* is then.                                                                *)
Fits(w, f, u, s) ==
  /\ f # "parent"
  /\ f \in {"touch", "mkdir"} => Req(w).path # RootPath
  /\ f = "stat" => u \in Uids /\ (MayRemove(Req(w)) \/ Is(w, {"PROPFIND"}))
  /\ f \in RemovingPoints => MayRemove(Req(w))
  /\ f \in RelocatingPoints => Is(w, {"COPY", "MOVE"})
  /\ f \in {"before", "copy", "after"} => Is(w, {"COPY"})
  /\ f = "remove tree" => s # <<>>

ResolvesAt(w, f) ==
  \/ (UNCHANGED call \/ Taken(w)) /\ f # "target"
  \/ \E p \in Paths \cup {RootPath} :
        ThenResolve(w, p) /\ (f = "target" => p = Req(w).path)

LEMMA BecameInv ==
  ASSUME HandlersInv, NEW w \in Workers, NEW j, Becomes(w, j),
         NEW f, NEW u, NEW s, Became(j, job[w], f, u, s),
         Fits(w, f, u, s), ResolvesAt(w, f),
         tree' \in Tree, CacheTypeOK', foreign' = foreign
  PROVE  HandlersInv'
<1>1. j \in Job /\ j.pc = f /\ j.req = Req(w) /\ j.uid = u /\ j.stack = s
  BY DEF Became, Req
<1>2. JobIsPlaced(j)
  BY <1>1 DEF JobIsPlaced, Is, Fits
<1>3. Resolves(w, j)
  BY <1>1 DEF Resolves, ResolvesAt
<1> QED
  BY <1>1, <1>2, <1>3, GoInv

LEMMA MayRemoveFacts ==
  ASSUME NEW w \in Workers
  PROVE  MayRemove(Req(w)) <=> Is(w, {"DELETE"}) \/ (Is(w, {"COPY", "MOVE"}) /\ Req(w).overwrite)
BY DEF MayRemove, Is

LEMMA TargetAnswersInv ==
  ASSUME HandlersInv, NEW w \in Workers,
         TargetMissing(w) \/ DeleteOfRoot(w) \/ TargetFound(w) \/ PutTargetMissing(w)
  PROVE  HandlersInv'
<1>1. UNCHANGED <<tree, cache, foreign>> /\ Taken(w)
  BY DEF TargetMissing, DeleteOfRoot, TargetFound, PutTargetMissing
<1>2. tree' \in Tree /\ CacheTypeOK' /\ foreign' = foreign
  BY <1>1, StepFacts DEF CacheTypeOK
<1>3. {200, 201, 404} \subseteq Statuses
  BY DEF Statuses
<1>4. {"download", "stat", "list", "upload", "touch"} \subseteq Points
  BY DEF Points
<1>5. CASE TargetMissing(w) \/ DeleteOfRoot(w)
  <2>1. PICK s \in Statuses : Reply(w, s)
    BY <1>3, <1>5 DEF TargetMissing, DeleteOfRoot
  <2> QED
    BY <1>1, <1>2, <2>1, ReplyInv
<1>6. CASE TargetFound(w)
  <2>1. PICK u \in Dirs :
          /\ Answer(w, "target", u)
          /\ \/ Is(w, {"HEAD", "LOCK"}) /\ Reply(w, 200)
             \/ Is(w, {"GET"}) /\ Becomes(w, [job[w] EXCEPT !.pc = "download", !.uid = u])
             \/ /\ Is(w, {"DELETE"}) /\ u # Root
                /\ Becomes(w, [job[w] EXCEPT !.pc = "stat", !.uid = u])
             \/ /\ Is(w, {"PROPFIND"})
                /\ Becomes(w, [job[w] EXCEPT !.pc = IF u = Root THEN "list" ELSE "stat",
                                             !.uid = u])
             \/ Is(w, {"PUT"}) /\ Becomes(w, [job[w] EXCEPT !.pc = "upload", !.uid = u])
    BY <1>6 DEF TargetFound
  <2>2. CASE Reply(w, 200)
    BY <1>1, <1>2, <1>3, <2>2, ReplyInv
  <2>3. ASSUME NEW f \in {"download", "stat", "list", "upload"},
               Becomes(w, [job[w] EXCEPT !.pc = f, !.uid = u]),
               f = "stat" => u # Root /\ Is(w, {"DELETE", "PROPFIND"})
        PROVE  HandlersInv'
    <3> DEFINE j == [job[w] EXCEPT !.pc = f, !.uid = u]
    <3>1. Became(j, job[w], f, u, job[w].stack)
      BY <1>4, <2>1, StepFacts, JobTakesUid
    <3>2. f = "stat" => u \in Uids /\ (MayRemove(Req(w)) \/ Is(w, {"PROPFIND"}))
      BY <2>1, <2>3, MayRemoveFacts DEF Is, Dirs
    <3>3. Becomes(w, j)
      BY <2>3
    <3> HIDE DEF j
    <3>4. Fits(w, f, u, job[w].stack)
      BY <3>2 DEF Fits, RemovingPoints, RelocatingPoints
    <3>5. ResolvesAt(w, f)
      BY <1>1 DEF ResolvesAt
    <3> QED
      BY <1>2, <3>1, <3>2, <3>3, <3>4, <3>5, BecameInv
  <2>4. CASE /\ Is(w, {"PROPFIND"})
             /\ Becomes(w, [job[w] EXCEPT !.pc = IF u = Root THEN "list" ELSE "stat", !.uid = u])
    <3>1. CASE u = Root
      BY <2>3, <2>4, <3>1
    <3>2. CASE u # Root
      <4>1. Is(w, {"DELETE", "PROPFIND"})
        BY <2>4 DEF Is
      <4>2. Becomes(w, [job[w] EXCEPT !.pc = "stat", !.uid = u])
        BY <2>4, <3>2
      <4> QED
        BY <2>3, <3>2, <4>1, <4>2
    <3> QED
      BY <3>1, <3>2
  <2>5. CASE /\ Is(w, {"DELETE"}) /\ u # Root
             /\ Becomes(w, [job[w] EXCEPT !.pc = "stat", !.uid = u])
    <3>1. Is(w, {"DELETE", "PROPFIND"})
      BY <2>5 DEF Is
    <3> QED
      BY <2>3, <2>5, <3>1
  <2>6. CASE Becomes(w, [job[w] EXCEPT !.pc = "download", !.uid = u])
    BY <2>3, <2>6
  <2>7. CASE Becomes(w, [job[w] EXCEPT !.pc = "upload", !.uid = u])
    BY <2>3, <2>7
  <2> QED
    BY <2>1, <2>2, <2>4, <2>5, <2>6, <2>7
<1>7. CASE PutTargetMissing(w)
  <2> DEFINE j == [job[w] EXCEPT !.pc = "touch", !.fresh = TRUE]
  <2>1. Became(j, job[w], "touch", job[w].uid, job[w].stack)
    BY <1>4, StepFacts, JobIsFresh
  <2>2. Req(w).path # RootPath
    <3>1. call[w].path = Req(w).path /\ call[w].phase = "done" /\ call[w].uid = NoUid
      BY <1>7, StepFacts DEF PutTargetMissing, Answer, Does, At, CallIsPlaced, Req
    <3> QED
      BY <3>1, StepFacts, RootFacts DEF CallIsPlaced
  <2>3. Becomes(w, j)
    BY <1>7 DEF PutTargetMissing
  <2> HIDE DEF j
  <2>4. Fits(w, "touch", job[w].uid, job[w].stack)
    BY <2>2 DEF Fits, RemovingPoints, RelocatingPoints
  <2>5. ResolvesAt(w, "touch")
    BY <1>1 DEF ResolvesAt
  <2> QED
    BY <1>2, <2>1, <2>2, <2>3, <2>4, <2>5, BecameInv
<1> QED
  BY <1>5, <1>6, <1>7

LEMMA ParentAnswersInv ==
  ASSUME HandlersInv, NEW w \in Workers, ParentMissing(w) \/ ParentFound(w)
  PROVE  HandlersInv'
<1>1. UNCHANGED <<tree, cache, foreign>>
  BY DEF ParentMissing, ParentFound
<1>2. tree' \in Tree /\ CacheTypeOK' /\ foreign' = foreign
  BY <1>1, StepFacts DEF CacheTypeOK
<1>3. CASE ParentMissing(w)
  BY <1>2, <1>3, ReplyInv DEF ParentMissing, Statuses
<1>4. ASSUME NEW u \in Dirs, Becomes(w, [job[w] EXCEPT !.pc = "target", !.par = u]),
             ThenResolve(w, Req(w).path)
      PROVE  HandlersInv'
  <2> DEFINE j == [job[w] EXCEPT !.pc = "target", !.par = u]
  <2>1. Became(j, job[w], "target", job[w].uid, job[w].stack)
    BY StepFacts, PointsAre, JobTakesParent
  <2>2. Req(w).path \in Paths \cup {RootPath}
    BY StepFacts, JobFacts DEF Request
  <2>3. Becomes(w, j)
    BY <1>4
  <2> HIDE DEF j
  <2>4. Fits(w, "target", job[w].uid, job[w].stack)
    BY DEF Fits, RemovingPoints, RelocatingPoints
  <2>5. ResolvesAt(w, "target")
    BY <1>4, <2>2 DEF ResolvesAt
  <2> QED
    BY <1>2, <2>1, <2>2, <2>3, <2>4, <2>5, BecameInv
<1>5. ASSUME NEW u \in Dirs, Becomes(w, [job[w] EXCEPT !.pc = "mkdir", !.par = u]),
             Is(w, {"MKCOL"}), Does(w, "parent"), Taken(w)
      PROVE  HandlersInv'
  <2> DEFINE j == [job[w] EXCEPT !.pc = "mkdir", !.par = u]
  <2>1. Became(j, job[w], "mkdir", job[w].uid, job[w].stack)
    BY StepFacts, PointsAre, JobTakesParent
  <2>2. Req(w).path # RootPath
    BY <1>5, StepFacts DEF JobIsPlaced, Does, Is, Req
  <2>3. Becomes(w, j)
    BY <1>5
  <2> HIDE DEF j
  <2>4. Fits(w, "mkdir", job[w].uid, job[w].stack)
    BY <2>2 DEF Fits, RemovingPoints, RelocatingPoints
  <2>5. ResolvesAt(w, "mkdir")
    BY <1>5 DEF ResolvesAt
  <2> QED
    BY <1>2, <2>1, <2>2, <2>3, <2>4, <2>5, BecameInv
<1> QED
  BY <1>3, <1>4, <1>5 DEF ParentFound, Answer

LEMMA RelocationAnswersInv ==
  ASSUME HandlersInv, NEW w \in Workers,
         \/ DestFound(w) \/ DestFree(w) \/ SourceMissing(w) \/ SourceFound(w)
         \/ DestParentMissing(w) \/ DestParentFound(w)
  PROVE  HandlersInv'
<1> USE DEF Answer, Does
<1>1. UNCHANGED <<tree, cache, foreign>>
  BY DEF DestFound, DestFree, SourceMissing, SourceFound, DestParentMissing, DestParentFound
<1>2. tree' \in Tree /\ CacheTypeOK' /\ foreign' = foreign
  BY <1>1, StepFacts DEF CacheTypeOK
<1>3. job[w].pc \in {"dest", "source", "dparent"}
  BY DEF DestFound, DestFree, SourceMissing, SourceFound, DestParentMissing, DestParentFound
<1>4. Is(w, {"COPY", "MOVE"})
  BY <1>3, StepFacts DEF JobIsPlaced, RelocatingPoints, Is, Req
<1>5. Req(w).path \in Paths \cup {RootPath} /\ Parent(Req(w).dest) \in Paths \cup {RootPath}
  BY <1>4, StepFacts, JobFacts, ParentFacts DEF Request
<1>6. Uids \subseteq Dirs
  BY RootFacts
<1>7. CASE DestFound(w) /\ ~Req(w).overwrite
  BY <1>2, <1>7, ReplyInv DEF DestFound, Statuses
<1>8. CASE SourceMissing(w) \/ DestParentMissing(w)
  BY <1>2, <1>8, ReplyInv DEF SourceMissing, DestParentMissing, Statuses
<1>9. CASE DestFound(w) /\ Req(w).overwrite
  <2>1. PICK u \in Uids : Becomes(w, [job[w] EXCEPT !.pc = "stat", !.uid = u])
    BY <1>9 DEF DestFound
  <2> DEFINE j == [job[w] EXCEPT !.pc = "stat", !.uid = u]
  <2>2. Became(j, job[w], "stat", u, job[w].stack)
    BY <1>6, StepFacts, PointsAre, JobTakesUid
  <2>3. Becomes(w, j) /\ Taken(w)
    BY <1>9, <2>1 DEF DestFound
  <2>4. MayRemove(Req(w))
    BY <1>4, <1>9, MayRemoveFacts
  <2> HIDE DEF j
  <2>5. Fits(w, "stat", u, job[w].stack)
    BY <2>4 DEF Fits, RemovingPoints, RelocatingPoints
  <2>6. ResolvesAt(w, "stat")
    BY <2>3 DEF ResolvesAt
  <2> QED
    BY <1>2, <2>2, <2>3, <2>4, <2>5, <2>6, BecameInv
<1>10. CASE DestFree(w)
  <2> DEFINE j == [job[w] EXCEPT !.pc = "source"]
  <2>1. Became(j, job[w], "source", job[w].uid, job[w].stack)
    BY StepFacts, PointsAre, JobGoesOn
  <2>2. Becomes(w, j) /\ ThenResolve(w, Req(w).path)
    BY <1>10 DEF DestFree, Proceed
  <2> HIDE DEF j
  <2>3. Fits(w, "source", job[w].uid, job[w].stack)
    BY <1>4 DEF Fits, RemovingPoints, RelocatingPoints
  <2>4. ResolvesAt(w, "source")
    BY <1>5, <2>2 DEF ResolvesAt
  <2> QED
    BY <1>2, <2>1, <2>2, <2>3, <2>4, BecameInv
<1>11. CASE SourceFound(w)
  <2>1. PICK u \in Uids :
          IF IsPureRename(w)
          THEN Becomes(w, [job[w] EXCEPT !.pc = "rename", !.uid = u]) /\ Taken(w)
          ELSE /\ Becomes(w, [job[w] EXCEPT !.pc = "dparent", !.uid = u])
               /\ ThenResolve(w, Parent(Req(w).dest))
    BY <1>11 DEF SourceFound
  <2>2. PICK f \in {"rename", "dparent"} :
          /\ Becomes(w, [job[w] EXCEPT !.pc = f, !.uid = u])
          /\ Taken(w) \/ ThenResolve(w, Parent(Req(w).dest))
    BY <2>1
  <2> DEFINE j == [job[w] EXCEPT !.pc = f, !.uid = u]
  <2>3. f \in Points /\ u \in Dirs \cup {NoUid}
    BY <1>6 DEF Points
  <2>4. Became(j, job[w], f, u, job[w].stack)
    BY <2>3, StepFacts, JobTakesUid
  <2>5. Becomes(w, j)
    BY <2>2
  <2> HIDE DEF j
  <2>6. Fits(w, f, u, job[w].stack)
    <3>1. f \in RelocatingPoints /\ f \notin RemovingPoints
      BY <2>2 DEF RemovingPoints, RelocatingPoints
    <3>2. f \notin {"parent", "touch", "mkdir", "stat", "remove tree", "before", "copy", "after"}
      BY <2>2
    <3> HIDE DEF j
    <3> QED
      BY <1>4, <3>1, <3>2, Zenon DEF Fits
  <2>7. ResolvesAt(w, f)
    BY <1>5, <2>2 DEF ResolvesAt
  <2> QED
    BY <1>2, <2>2, <2>4, <2>5, <2>6, <2>7, BecameInv
<1>12. CASE DestParentFound(w)
  <2>1. PICK u \in Dirs, f \in {"move", "before", "copy"} :
          /\ Becomes(w, [job[w] EXCEPT !.par = u, !.pc = f])
          /\ f \in {"before", "copy"} => ~Is(w, {"MOVE"})
    BY <1>12 DEF DestParentFound
  <2> DEFINE j == [job[w] EXCEPT !.par = u, !.pc = f]
  <2>2. f \in Points
    BY DEF Points
  <2>3. Became(j, job[w], f, job[w].uid, job[w].stack)
    BY <2>2, StepFacts, JobTakesParent
  <2>4. Becomes(w, j) /\ Taken(w)
    BY <1>12, <2>1 DEF DestParentFound
  <2> HIDE DEF j
  <2>4a. f \in {"before", "copy"} => Is(w, {"COPY"})
    BY <1>4, <2>1 DEF Is
  <2>5. Fits(w, f, job[w].uid, job[w].stack)
    BY <1>4, <2>1, <2>4a DEF Fits, RemovingPoints, RelocatingPoints
  <2>6. ResolvesAt(w, f)
    BY <2>1, <2>4 DEF ResolvesAt
  <2> QED
    BY <1>2, <2>3, <2>4, <2>5, <2>6, BecameInv
<1> QED
  BY <1>7, <1>8, <1>9, <1>10, <1>11, <1>12

-----------------------------------------------------------------------------
(* What the RPCs of a handler make of the tree *)

(* The trees of calls that remove nothing. *)
IsGentle(t) == t \in Tree /\ ~Ends(tree, t)

LEMMA StayIsGentle ==
  ASSUME tree \in Tree, UNCHANGED tree
  PROVE  IsGentle(tree')
BY DEF IsGentle, Ends

LEMMA CreatedIsGentle ==
  ASSUME HandlersInv, NEW w \in Workers, job[w].pc \in {"touch", "mkdir"}, NEW u \in Creatable(w)
  PROVE  IsGentle(Created(tree, u, job[w].par, NameOf(w), CreatedKind(w)))
<1>1. u \in Uids /\ CanHold(tree, job[w].par, CreatedKind(w))
  BY DEF Creatable, CanCreate
<1>2. job[w].par \in Dirs
  BY <1>1, HolderFacts
<1>3. NameOf(w) \in Names
  BY StepFacts, JobFacts DEF JobIsPlaced, Req
<1>4. CreatedKind(w) \in Kinds
  BY DEF CreatedKind, Kinds
<1> QED
  BY <1>1, <1>2, <1>3, <1>4, StepFacts, CoreKeepsTree, CoreEndsNothing DEF IsGentle

LEMMA FilledIsGentle ==
  ASSUME tree \in Tree, NEW u, CanFill(tree, u)
  PROVE  IsGentle(Filled(tree, u))
<1>1. u \in Uids /\ tree[u].name \in Names
  BY DEF CanFill, IsFile, Tree, Node
<1>2. Root \in Dirs /\ "dir" \in Kinds
  BY DEF Dirs, Kinds
<1> QED
  BY <1>1, <1>2, CoreKeepsTree, CoreEndsNothing DEF IsGentle

LEMMA RenamedIsGentle ==
  ASSUME tree \in Tree, NEW u, NEW n \in Names, CanRename(tree, u, n)
  PROVE  IsGentle(Renamed(tree, u, n))
<1>1. u \in Uids
  BY DEF CanRename, IsLive
<1>2. Root \in Dirs /\ "dir" \in Kinds
  BY DEF Dirs, Kinds
<1> QED
  BY <1>1, <1>2, CoreKeepsTree, CoreEndsNothing DEF IsGentle

LEMMA MovedIsGentle ==
  ASSUME tree \in Tree, NEW u, NEW d, CanMove(tree, u, d)
  PROVE  IsGentle(Moved(tree, u, d))
<1>1. u \in Uids /\ d \in Dirs
  BY HolderFacts DEF CanMove, IsLive
<1>2. tree[u].name \in Names /\ "dir" \in Kinds
  BY <1>1 DEF Tree, Node, Kinds
<1> QED
  BY <1>1, <1>2, CoreKeepsTree, CoreEndsNothing DEF IsGentle

LEMMA CopiesAreGentle ==
  ASSUME tree \in Tree, NEW w \in Workers, NEW t \in Copies(w)
  PROVE  IsGentle(t)
<1>1. PICK v \in Uids : /\ CanCopy(tree, job[w].uid, job[w].par, v)
                        /\ t = Copied(tree, job[w].uid, job[w].par, v)
  BY DEF Copies
<1>2. job[w].uid \in Uids /\ tree[job[w].uid].status = "live" /\ job[w].par \in Dirs
  BY <1>1, HolderFacts DEF CanCopy, IsLive
<1> QED
  BY <1>1, <1>2, CopyKeepsTree, CopyEndsNothing DEF IsGentle

LEMMA RemovedIsTree ==
  ASSUME tree \in Tree, NEW u, CanRemoveFile(tree, u) \/ CanRemoveDirectory(tree, u)
  PROVE  Removed(tree, u) \in Tree
BY NodesGone

(* A call that fails does no more than one that succeeds. *)
LEMMA FailureIsGentle ==
  ASSUME tree \in Tree, NEW results, RpcFails(results), \A t \in results : IsGentle(t)
  PROVE  IsGentle(tree')
BY StayIsGentle DEF RpcFails

LEMMA FailureOfOne ==
  ASSUME tree \in Tree, NEW can, NEW t, RpcFails(Result(can, t)), can => IsGentle(t)
  PROVE  IsGentle(tree')
<1>1. \A r \in Result(can, t) : IsGentle(r)
  BY DEF Result
<1> QED
  BY <1>1, FailureIsGentle

-----------------------------------------------------------------------------
(* Handlers that create and read *)

LEMMA CreatesInv ==
  ASSUME HandlersInv, NEW w \in Workers, Creates(w)
  PROVE  HandlersInv' /\ IsGentle(tree')
<1> USE DEF Does
<1>1. CASE Create(w)
  <2>1. PICK u \in Creatable(w) :
          /\ tree' = Created(tree, u, job[w].par, NameOf(w), CreatedKind(w))
          /\ Becomes(w, [job[w] EXCEPT !.pc = IF job[w].pc = "touch" THEN "upload" ELSE "map",
                                       !.uid = u, !.par = NoUid])
    BY <1>1 DEF Create
  <2>2. PICK f \in {"upload", "map"} :
          Becomes(w, [job[w] EXCEPT !.pc = f, !.uid = u, !.par = NoUid])
    BY <2>1
  <2> DEFINE j == [job[w] EXCEPT !.pc = f, !.uid = u, !.par = NoUid]
  <2>3. f \in Points /\ u \in Dirs \cup {NoUid} /\ NoUid \in Dirs \cup {NoUid}
    BY RootFacts DEF Points, Creatable
  <2>4. Became(j, job[w], f, u, job[w].stack)
    BY <2>3, StepFacts, JobFinds
  <2>5. Becomes(w, j)
    BY <2>2
  <2> HIDE DEF j
  <2>6. Fits(w, f, u, job[w].stack)
    BY DEF Fits, RemovingPoints, RelocatingPoints
  <2>7. UNCHANGED <<cache, call, foreign>> /\ ResolvesAt(w, f)
    BY <1>1 DEF Create, ResolvesAt
  <2>8. IsGentle(tree')
    BY <1>1, <2>1, CreatedIsGentle DEF Create
  <2>9. tree' \in Tree /\ CacheTypeOK'
    BY <2>7, <2>8, StepFacts DEF CacheTypeOK, IsGentle
  <2> QED
    BY <2>4, <2>5, <2>6, <2>7, <2>8, <2>9, BecameInv
<1>2. CASE CreateFails(w)
  <2>1. \A t \in {Created(tree, u, job[w].par, NameOf(w), CreatedKind(w)) : u \in Creatable(w)} :
           IsGentle(t)
    BY <1>2, CreatedIsGentle DEF CreateFails
  <2>2. IsGentle(tree')
    BY <1>2, <2>1, StepFacts, FailureIsGentle DEF CreateFails
  <2>3. tree' \in Tree /\ CacheTypeOK'
    BY <1>2, <2>2, StepFacts DEF CreateFails, CacheTypeOK, IsGentle
  <2> QED
    BY <1>2, <2>2, <2>3, ReplyInv DEF CreateFails, Statuses
<1>3. CASE Upload(w)
  <2> DEFINE j == [job[w] EXCEPT !.pc = "map"]
  <2>1. Became(j, job[w], "map", job[w].uid, job[w].stack)
    BY StepFacts, PointsAre, JobGoesOn
  <2>2. Becomes(w, j)
    BY <1>3 DEF Upload, Proceed
  <2> HIDE DEF j
  <2>3. Fits(w, "map", job[w].uid, job[w].stack)
    BY DEF Fits, RemovingPoints, RelocatingPoints
  <2>4. UNCHANGED <<cache, call, foreign>> /\ ResolvesAt(w, "map")
    BY <1>3 DEF Upload, ResolvesAt
  <2>5. IsGentle(tree')
    BY <1>3, StepFacts, FilledIsGentle DEF Upload
  <2>6. tree' \in Tree /\ CacheTypeOK'
    BY <2>4, <2>5, StepFacts DEF CacheTypeOK, IsGentle
  <2> QED
    BY <2>1, <2>2, <2>3, <2>4, <2>5, <2>6, BecameInv
<1>4. CASE UploadFails(w)
  <2>1. IsGentle(tree')
    BY <1>4, StepFacts, FilledIsGentle, FailureOfOne DEF UploadFails
  <2>2. tree' \in Tree /\ CacheTypeOK'
    BY <1>4, <2>1, StepFacts DEF UploadFails, CacheTypeOK, IsGentle
  <2> QED
    BY <1>4, <2>1, <2>2, ReplyInv DEF UploadFails, Statuses
<1>5. CASE Map(w)
  <2>1. UNCHANGED <<tree, call, foreign>> /\ MapPath(Subject(w), job[w].uid)
    BY <1>5 DEF Map
  <2>2. tree' \in Tree /\ CacheTypeOK' /\ IsGentle(tree')
    BY <2>1, StepFacts, StayIsGentle DEF CacheTypeOK, MapPath
  <2>3. PICK s \in Statuses : Reply(w, s)
    BY <1>5 DEF Map, Statuses
  <2> QED
    BY <2>1, <2>2, <2>3, ReplyInv
<1> QED
  BY <1>1, <1>2, <1>3, <1>4, <1>5 DEF Creates

(* A step that leaves the core and the resolver alone. *)
LEMMA IdleFacts ==
  ASSUME HandlersInv, UNCHANGED resolverVars
  PROVE  /\ tree' \in Tree /\ CacheTypeOK' /\ foreign' = foreign
         /\ UNCHANGED call /\ IsGentle(tree')
<1>1. UNCHANGED <<tree, cache, call, foreign>>
  BY DEF resolverVars
<1>2. tree \in Tree /\ cache \in [Paths -> Dirs \cup {NoUid}]
  BY DEF HandlersInv, JobTypeOK, TypeOK
<1> QED
  BY <1>1, <1>2, StayIsGentle DEF CacheTypeOK

LEMMA ListingFacts ==
  ASSUME NEW t \in Tree, NEW d
  PROVE  Listing(t, d) \subseteq Entry
BY DEF Listing, Children, Tree, Node, Entry

LEMMA ReadsInv ==
  ASSUME HandlersInv, NEW w \in Workers, Reads(w)
  PROVE  HandlersInv' /\ IsGentle(tree')
<1> USE DEF Does
<1>1. CASE Download(w) \/ ListingFails(w)
  <2>1. UNCHANGED resolverVars
    BY <1>1 DEF Download, ListingFails
  <2>2. PICK s \in Statuses : Reply(w, s)
    BY <1>1 DEF Download, ListingFails, Statuses
  <2> QED
    BY <2>1, <2>2, IdleFacts, ReplyInv
<1>2. CASE List(w)
  <2>1. UNCHANGED resolverVars
    BY <1>2 DEF List
  <2>2. CASE Reply(w, 207)
    BY <2>1, <2>2, IdleFacts, ReplyInv DEF Statuses
  <2>3. ASSUME NEW E \in SUBSET Entry,
               Becomes(w, [job[w] EXCEPT !.pc = "map entries", !.entries = E])
        PROVE  HandlersInv'
    <3> DEFINE j == [job[w] EXCEPT !.pc = "map entries", !.entries = E]
    <3>1. Became(j, job[w], "map entries", job[w].uid, job[w].stack)
      BY StepFacts, PointsAre, JobTakesEntries
    <3>2. Becomes(w, j)
      BY <2>3
    <3> HIDE DEF j
    <3>3. Fits(w, "map entries", job[w].uid, job[w].stack)
      BY DEF Fits, RemovingPoints, RelocatingPoints
    <3>4. ResolvesAt(w, "map entries")
      BY <2>1, IdleFacts DEF ResolvesAt
    <3> QED
      BY <2>1, <3>1, <3>2, <3>3, <3>4, IdleFacts, BecameInv
  <2>4. {e \in Listing(tree, job[w].uid) : Append(Req(w).path, e.name) \in Paths} \in SUBSET Entry
    BY StepFacts, ListingFacts
  <2> QED
    BY <1>2, <2>1, <2>2, <2>3, <2>4, IdleFacts DEF List
<1>3. CASE MapEntry(w)
  <2>1. UNCHANGED <<tree, call, foreign>>
    BY <1>3 DEF MapEntry
  <2>2. PICK e \in job[w].entries :
          /\ MapPath(Append(Req(w).path, e.name), e.uid)
          /\ IF job[w].entries = {e} THEN Reply(w, 207)
             ELSE Becomes(w, [job[w] EXCEPT !.entries = job[w].entries \ {e}])
    BY <1>3 DEF MapEntry
  <2>3. e.uid \in Dirs \cup {NoUid}
    BY StepFacts, RootFacts DEF Entry
  <2>4. tree' \in Tree /\ CacheTypeOK' /\ IsGentle(tree')
    BY <2>1, <2>2, <2>3, StepFacts, StayIsGentle DEF CacheTypeOK, MapPath
  <2>5. CASE Reply(w, 207)
    BY <2>1, <2>4, <2>5, ReplyInv DEF Statuses
  <2>6. CASE Becomes(w, [job[w] EXCEPT !.entries = job[w].entries \ {e}])
    <3> DEFINE E == job[w].entries \ {e}
               j == [job[w] EXCEPT !.entries = E]
    <3>1. E \in SUBSET Entry
      BY StepFacts
    <3>2. Becomes(w, j)
      BY <2>6
    <3> HIDE DEF E
    <3>3. Became(j, job[w], job[w].pc, job[w].uid, job[w].stack)
      BY <3>1, StepFacts, JobTakesEntries
    <3> HIDE DEF j
    <3>4. Fits(w, job[w].pc, job[w].uid, job[w].stack)
      BY <1>3 DEF MapEntry, Fits, RemovingPoints, RelocatingPoints
    <3>5. ResolvesAt(w, job[w].pc)
      BY <1>3, <2>1 DEF MapEntry, ResolvesAt
    <3> QED
      BY <2>1, <2>4, <3>2, <3>3, <3>4, <3>5, BecameInv
  <2> QED
    BY <2>2, <2>4, <2>5, <2>6
<1> QED
  BY <1>1, <1>2, <1>3 DEF Reads

-----------------------------------------------------------------------------
(* Handlers that copy and move *)

(* A handler of COPY or MOVE that goes on without resolving. *)
LEMMA RelocatesOn ==
  ASSUME HandlersInv, NEW w \in Workers, Is(w, {"COPY", "MOVE"}), NEW j, Becomes(w, j),
         NEW f \in {"copy", "after", "rename", "forget", "map"},
         f \in {"copy", "after"} => Is(w, {"COPY"}),
         NEW u, Became(j, job[w], f, u, job[w].stack),
         IsGentle(tree'), CacheTypeOK', UNCHANGED <<call, foreign>>
  PROVE  HandlersInv'
<1>1. Fits(w, f, u, job[w].stack)
  BY DEF Fits, RemovingPoints, RelocatingPoints
<1>2. ResolvesAt(w, f)
  BY DEF ResolvesAt
<1> QED
  BY <1>1, <1>2, BecameInv DEF IsGentle

LEMMA RelocatesInv ==
  ASSUME HandlersInv, NEW w \in Workers, Relocates(w)
  PROVE  HandlersInv' /\ IsGentle(tree')
<1> USE DEF Does
<1>1. job[w].pc \in RelocatingPoints
  BY DEF Relocates, ListBefore, Copy, CopyFails, ListAfter, ListAfterFails, Rename, RenameFails,
         Move, MoveFails, Forget, RelocatingPoints
<1>2. Is(w, {"COPY", "MOVE"})
  BY <1>1, StepFacts DEF JobIsPlaced, Is, Req
<1>3. DestName(w) \in Names
  BY <1>2, StepFacts, JobFacts
<1>3a. job[w].pc \in {"before", "copy"} => Is(w, {"COPY"})
  BY StepFacts DEF JobIsPlaced, Is, Req
<1>4. \A f \in {"copy", "after", "rename", "forget", "map"} : f \in Points
  BY DEF Points
<1>5. ASSUME UNCHANGED <<cache, call, foreign>>, IsGentle(tree'),
             NEW f \in {"copy", "after", "rename", "forget", "map"}, Proceed(w, f),
             f \in {"copy", "after"} => job[w].pc \in {"before", "copy"}
      PROVE  HandlersInv' /\ IsGentle(tree')
  <2> DEFINE j == [job[w] EXCEPT !.pc = f]
  <2>1. Became(j, job[w], f, job[w].uid, job[w].stack)
    BY <1>4, StepFacts, JobGoesOn
  <2>2. Becomes(w, j)
    BY <1>5 DEF Proceed
  <2> HIDE DEF j
  <2>3. f \in {"copy", "after"} => Is(w, {"COPY"})
    BY <1>5, <1>3a
  <2> QED
    BY <1>2, <1>5, <2>1, <2>2, <2>3, StepFacts, RelocatesOn DEF CacheTypeOK
<1>6. ASSUME UNCHANGED <<cache, call, foreign>>, IsGentle(tree'), NEW s \in Statuses, Reply(w, s)
      PROVE  HandlersInv' /\ IsGentle(tree')
  <2>1. tree' \in Tree /\ CacheTypeOK'
    BY <1>6, StepFacts DEF CacheTypeOK, IsGentle
  <2> QED
    BY <1>6, <2>1, ReplyInv
<1>7. CASE ListBefore(w)
  <2>1. UNCHANGED <<cache, call, foreign>> /\ IsGentle(tree')
    BY <1>7, IdleFacts DEF ListBefore, resolverVars
  <2>2. CASE Proceed(w, "copy")
    BY <1>5, <1>7, <2>1, <2>2 DEF ListBefore
  <2>3. CASE Becomes(w, [job[w] EXCEPT !.pc = "copy", !.before = Children(tree, job[w].par)])
    <3> DEFINE B == Children(tree, job[w].par)
               j == [job[w] EXCEPT !.pc = "copy", !.before = B]
    <3>1. B \in SUBSET Uids
      BY DEF Children
    <3>2. Becomes(w, j)
      BY <2>3
    <3> HIDE DEF B
    <3>3. Became(j, job[w], "copy", job[w].uid, job[w].stack)
      BY <1>4, <3>1, StepFacts, JobTakesListing
    <3> HIDE DEF j
    <3>4. Is(w, {"COPY"})
      BY <1>7, <1>3a DEF ListBefore
    <3> QED
      BY <1>2, <2>1, <3>2, <3>3, <3>4, StepFacts, RelocatesOn DEF CacheTypeOK
  <2> QED
    BY <1>7, <2>2, <2>3 DEF ListBefore
<1>8. CASE Copy(w)
  <2>1. UNCHANGED <<cache, call, foreign>> /\ IsGentle(tree')
    BY <1>8, StepFacts, CopiesAreGentle DEF Copy
  <2> QED
    BY <1>5, <1>6, <1>8, <2>1 DEF Copy, Statuses
<1>9. CASE CopyFails(w)
  <2>1. UNCHANGED <<cache, call, foreign>> /\ IsGentle(tree')
    BY <1>9, StepFacts, CopiesAreGentle, FailureIsGentle DEF CopyFails
  <2> QED
    BY <1>6, <1>9, <2>1 DEF CopyFails, Statuses
<1>10. CASE ListAfter(w)
  <2>1. UNCHANGED <<cache, call, foreign>> /\ IsGentle(tree')
    BY <1>10, IdleFacts DEF ListAfter, resolverVars
  <2>2. PICK u \in Children(tree, job[w].par) \ job[w].before :
          Becomes(w, [job[w] EXCEPT !.pc = "rename", !.uid = u, !.par = NoUid, !.before = {}])
    BY <1>10 DEF ListAfter
  <2>3. u \in Dirs \cup {NoUid}
    BY RootFacts DEF Children
  <2> DEFINE j == [job[w] EXCEPT !.pc = "rename", !.uid = u, !.par = NoUid, !.before = {}]
  <2>4. Became(j, job[w], "rename", u, job[w].stack)
    BY <1>4, <2>3, StepFacts, JobFinds
  <2>5. Becomes(w, j)
    BY <2>2
  <2> HIDE DEF j
  <2> QED
    BY <1>2, <2>1, <2>4, <2>5, StepFacts, RelocatesOn DEF CacheTypeOK
<1>11. CASE ListAfterFails(w)
  <2>1. UNCHANGED <<cache, call, foreign>> /\ IsGentle(tree')
    BY <1>11, IdleFacts DEF ListAfterFails, resolverVars
  <2> QED
    BY <1>6, <1>11, <2>1 DEF ListAfterFails, Statuses
<1>12. CASE Rename(w)
  <2>1. UNCHANGED <<cache, call, foreign>> /\ IsGentle(tree')
    BY <1>3, <1>12, StepFacts, RenamedIsGentle DEF Rename
  <2>2. PICK f \in {"forget", "map"} : Proceed(w, f)
    BY <1>12 DEF Rename
  <2> QED
    BY <1>5, <2>1, <2>2
<1>13. CASE RenameFails(w)
  <2>1. UNCHANGED <<cache, call, foreign>> /\ IsGentle(tree')
    BY <1>3, <1>13, StepFacts, RenamedIsGentle, FailureOfOne DEF RenameFails
  <2> QED
    BY <1>6, <1>13, <2>1 DEF RenameFails, Statuses
<1>14. CASE Move(w)
  <2>1. UNCHANGED <<cache, call, foreign>> /\ IsGentle(tree')
    BY <1>14, StepFacts, MovedIsGentle DEF Move
  <2>2. PICK f \in {"rename", "forget"} :
          Becomes(w, [job[w] EXCEPT !.pc = f, !.par = NoUid])
    BY <1>14 DEF Move
  <2> DEFINE j == [job[w] EXCEPT !.pc = f, !.par = NoUid]
  <2>3. NoUid \in Dirs \cup {NoUid} /\ f \in Points
    BY <1>4
  <2>4. Became(j, job[w], f, job[w].uid, job[w].stack)
    BY <2>3, StepFacts, JobTakesParent
  <2>5. Becomes(w, j)
    BY <2>2
  <2> HIDE DEF j
  <2> QED
    BY <1>2, <2>1, <2>4, <2>5, StepFacts, RelocatesOn DEF CacheTypeOK
<1>15. CASE MoveFails(w)
  <2>1. UNCHANGED <<cache, call, foreign>> /\ IsGentle(tree')
    BY <1>15, StepFacts, MovedIsGentle, FailureOfOne DEF MoveFails
  <2> QED
    BY <1>6, <1>15, <2>1 DEF MoveFails, Statuses
<1>16. CASE Forget(w)
  <2>1. UNCHANGED <<tree, call, foreign>> /\ UnmapPath(Req(w).path) /\ Proceed(w, "map")
    BY <1>16 DEF Forget
  <2>2. IsGentle(tree') /\ CacheTypeOK'
    BY <2>1, StepFacts, StayIsGentle DEF CacheTypeOK, UnmapPath
  <2> DEFINE j == [job[w] EXCEPT !.pc = "map"]
  <2>3. Became(j, job[w], "map", job[w].uid, job[w].stack)
    BY <1>4, StepFacts, JobGoesOn
  <2>4. Becomes(w, j)
    BY <2>1 DEF Proceed
  <2> HIDE DEF j
  <2> QED
    BY <1>2, <2>1, <2>2, <2>3, <2>4, RelocatesOn
<1> QED
  BY <1>7, <1>8, <1>9, <1>10, <1>11, <1>12, <1>13, <1>14, <1>15, <1>16 DEF Relocates

-----------------------------------------------------------------------------
(* Handlers that remove *)

LEMMA StatsInv ==
  ASSUME HandlersInv, NEW w \in Workers, StatFile(w) \/ StatDir(w) \/ StatMissing(w)
  PROVE  HandlersInv' /\ IsGentle(tree')
<1> USE DEF Does
<1>1. UNCHANGED resolverVars /\ job[w].pc = "stat"
  BY DEF StatFile, StatDir, StatMissing
<1>2. job[w].uid \in Uids /\ (MayRemove(Req(w)) \/ Is(w, {"PROPFIND"}))
  BY <1>1, StepFacts DEF JobIsPlaced, Is, Req
<1>3. ~Is(w, {"PROPFIND"}) => MayRemove(Req(w))
  BY <1>2
<1>4. CASE \E s \in Statuses : Reply(w, s)
  BY <1>1, <1>4, IdleFacts, ReplyInv
<1>5. ASSUME NEW f \in {"list", "remove file"}, Proceed(w, f),
             f = "remove file" => ~Is(w, {"PROPFIND"})
      PROVE  HandlersInv'
  <2> DEFINE j == [job[w] EXCEPT !.pc = f]
  <2>1. f \in Points
    BY DEF Points
  <2>2. Became(j, job[w], f, job[w].uid, job[w].stack)
    BY <2>1, StepFacts, JobGoesOn
  <2>3. Becomes(w, j)
    BY <1>5 DEF Proceed
  <2> HIDE DEF j
  <2>4. Fits(w, f, job[w].uid, job[w].stack)
    BY <1>3, <1>5 DEF Fits, RemovingPoints, RelocatingPoints
  <2>5. ResolvesAt(w, f)
    BY <1>1, IdleFacts DEF ResolvesAt
  <2> QED
    BY <1>1, <2>2, <2>3, <2>4, <2>5, IdleFacts, BecameInv
<1>6. CASE ~Is(w, {"PROPFIND"}) /\ StartTree(w)
  <2> DEFINE s == <<[dir |-> job[w].uid, listed |-> FALSE, todo |-> {}]>>
             j == [job[w] EXCEPT !.pc = "remove tree", !.stack = s]
  <2>1. s \in Seq(Frame) /\ s # <<>>
    <3>1. [dir |-> job[w].uid, listed |-> FALSE, todo |-> {}] \in Frame
      BY <1>2 DEF Frame
    <3> QED
      BY <3>1
  <2>2. Becomes(w, j)
    BY <1>6 DEF StartTree
  <2> HIDE DEF s
  <2>3. Became(j, job[w], "remove tree", job[w].uid, s)
    BY <2>1, StepFacts, PointsAre, JobTakesStack
  <2> HIDE DEF j
  <2>4. Fits(w, "remove tree", job[w].uid, s)
    BY <1>3, <1>6, <2>1 DEF Fits, RemovingPoints, RelocatingPoints
  <2>5. ResolvesAt(w, "remove tree")
    BY <1>1, IdleFacts DEF ResolvesAt
  <2> QED
    BY <1>1, <2>2, <2>3, <2>4, <2>5, IdleFacts, BecameInv
<1>7. 207 \in Statuses /\ 500 \in Statuses
  BY DEF Statuses
<1>8. CASE StatFile(w)
  BY <1>1, <1>4, <1>5, <1>7, <1>8, IdleFacts DEF StatFile
<1>9. CASE StatDir(w)
  BY <1>1, <1>5, <1>6, <1>9, IdleFacts DEF StatDir
<1>10. CASE StatMissing(w)
  <2>1. Is(w, {"COPY", "MOVE"}) => ~Is(w, {"PROPFIND"})
    BY DEF Is
  <2> QED
    BY <1>1, <1>4, <1>5, <1>7, <1>10, <2>1, IdleFacts DEF StatMissing
<1> QED
  BY <1>8, <1>9, <1>10

(* What is done with the activations of a recursive removal. *)
LEMMA StackFacts ==
  ASSUME NEW S, NEW s \in Seq(S), s # <<>>
  PROVE  /\ s[Len(s)] \in S
         /\ SubSeq(s, 1, Len(s) - 1) \in Seq(S)
         /\ \A f \in S : [s EXCEPT ![Len(s)] = f] \in Seq(S) /\ [s EXCEPT ![Len(s)] = f] # <<>>
<1>1. Len(s) \in Nat \ {0}
  OBVIOUS
<1>2. s[Len(s)] \in S /\ SubSeq(s, 1, Len(s) - 1) \in Seq(S)
  BY <1>1
<1>3. ASSUME NEW f \in S
      PROVE  [s EXCEPT ![Len(s)] = f] \in Seq(S) /\ [s EXCEPT ![Len(s)] = f] # <<>>
  <2> DEFINE t == [s EXCEPT ![Len(s)] = f]
  <2>1. t \in Seq(S) /\ Len(t) = Len(s)
    BY <1>1
  <2> HIDE DEF t
  <2> QED
    BY <1>1, <2>1
<1> QED
  BY <1>2, <1>3

LEMMA TopFacts ==
  ASSUME HandlersInv, NEW w \in Workers, Does(w, "remove tree")
  PROVE  /\ Top(w) \in Frame
         /\ Prefix(job[w].stack, Len(job[w].stack) - 1) \in Seq(Frame)
         /\ \A f \in Frame : WithTop(w, f) \in Seq(Frame) /\ WithTop(w, f) # <<>>
<1>1. PICK s \in Seq(Frame) : s = job[w].stack /\ s # <<>>
  BY StepFacts DEF JobIsPlaced, Does
<1> QED
  BY <1>1, StackFacts DEF Top, Prefix, WithTop

LEMMA WithoutFacts ==
  ASSUME NEW f \in Frame, NEW e
  PROVE  Without(f, e) \in Frame
BY DEF Without, Frame

(* The removal goes on with another stack. *)
LEMMA StackInv ==
  ASSUME HandlersInv, NEW w \in Workers, Does(w, "remove tree"),
         NEW s \in Seq(Frame), s # <<>>, Becomes(w, [job[w] EXCEPT !.stack = s]),
         tree' \in Tree, UNCHANGED <<cache, call, foreign>>
  PROVE  HandlersInv'
<1> DEFINE j == [job[w] EXCEPT !.stack = s]
<1>1. Became(j, job[w], "remove tree", job[w].uid, s)
  BY StepFacts, JobTakesStack DEF Does
<1>2. Becomes(w, j)
  OBVIOUS
<1> HIDE DEF j
<1>3. MayRemove(Req(w))
  BY StepFacts DEF JobIsPlaced, RemovingPoints, Does, Req
<1>4. Fits(w, "remove tree", job[w].uid, s)
  BY <1>3 DEF Fits, RemovingPoints, RelocatingPoints
<1>5. ResolvesAt(w, "remove tree")
  BY DEF ResolvesAt
<1> QED
  BY <1>1, <1>2, <1>4, <1>5, StepFacts, BecameInv DEF CacheTypeOK

LEMMA TreeRemovalInv ==
  ASSUME HandlersInv, NEW w \in Workers,
         \/ ListTree(w) \/ EnterSubtree(w) \/ RemoveEntry(w) \/ RemoveEmptied(w)
  PROVE  HandlersInv'
<1>1. Does(w, "remove tree")
  BY DEF ListTree, EnterSubtree, RemoveEntry, RemoveEmptied
<1>2. MayRemove(Req(w))
  BY <1>1, StepFacts DEF JobIsPlaced, RemovingPoints, Does, Req
<1>3. CASE ListTree(w)
  <2> DEFINE f == [Top(w) EXCEPT !.listed = TRUE, !.todo = Listing(tree, Top(w).dir)]
  <2>1. Listing(tree, Top(w).dir) \subseteq Entry
    BY StepFacts, ListingFacts
  <2>2. f \in Frame
    BY <1>1, <2>1, TopFacts DEF Frame
  <2>3. Becomes(w, [job[w] EXCEPT !.stack = WithTop(w, f)]) /\ UNCHANGED resolverVars
    BY <1>3 DEF ListTree
  <2> HIDE DEF f
  <2> QED
    BY <1>1, <2>2, <2>3, TopFacts, IdleFacts, StackInv DEF resolverVars
<1>4. CASE EnterSubtree(w)
  <2>1. UNCHANGED resolverVars
    BY <1>4 DEF EnterSubtree
  <2>2. PICK e \in Top(w).todo :
          Becomes(w, [job[w] EXCEPT !.stack =
            Append(WithTop(w, Without(Top(w), e)), [dir |-> e.uid, listed |-> FALSE, todo |-> {}])])
    BY <1>4 DEF EnterSubtree
  <2> DEFINE g == [dir |-> e.uid, listed |-> FALSE, todo |-> {}]
             s == WithTop(w, Without(Top(w), e))
  <2>3. Top(w) \in Frame /\ s \in Seq(Frame)
    BY <1>1, TopFacts, WithoutFacts
  <2>4. e \in Entry
    BY <2>3 DEF Frame
  <2>5. g \in Frame
    BY <2>4 DEF Frame, Entry
  <2>6. Becomes(w, [job[w] EXCEPT !.stack = Append(s, g)])
    BY <2>2
  <2> HIDE DEF g, s
  <2>7. Append(s, g) \in Seq(Frame) /\ Append(s, g) # <<>>
    <3>1. Append(s, g) \in Seq(Frame) /\ Len(Append(s, g)) = Len(s) + 1 /\ Len(s) \in Nat
      BY <2>3, <2>5
    <3> QED
      BY <3>1
  <2> QED
    BY <1>1, <2>1, <2>6, <2>7, IdleFacts, StackInv DEF resolverVars
<1>5. CASE RemoveEntry(w)
  <2>1. PICK e \in Top(w).todo :
          /\ CanRemoveFile(tree, e.uid) /\ tree' = Removed(tree, e.uid)
          /\ Becomes(w, [job[w] EXCEPT !.stack = WithTop(w, Without(Top(w), e))])
    BY <1>5 DEF RemoveEntry
  <2>2. tree' \in Tree
    BY <2>1, StepFacts, RemovedIsTree
  <2>3. Without(Top(w), e) \in Frame
    BY <1>1, TopFacts, WithoutFacts
  <2> QED
    BY <1>1, <1>5, <2>1, <2>2, <2>3, TopFacts, StackInv DEF RemoveEntry
<1>6. CASE RemoveEmptied(w)
  <2> DEFINE rest == Prefix(job[w].stack, Len(job[w].stack) - 1)
  <2>1. tree' \in Tree /\ UNCHANGED <<cache, call, foreign>>
    BY <1>6, StepFacts, RemovedIsTree DEF RemoveEmptied
  <2>2. rest \in Seq(Frame)
    BY <1>1, TopFacts
  <2>3. Becomes(w, [job[w] EXCEPT !.stack = rest,
                                  !.pc = IF rest = <<>> THEN "drop" ELSE job[w].pc])
    BY <1>6 DEF RemoveEmptied
  <2> HIDE DEF rest
  <2>4. PICK f \in {"drop", "remove tree"} :
          /\ Becomes(w, [job[w] EXCEPT !.stack = rest, !.pc = f])
          /\ f = "remove tree" => rest # <<>>
    BY <1>1, <2>3 DEF Does
  <2> DEFINE j == [job[w] EXCEPT !.stack = rest, !.pc = f]
  <2>5. f \in Points
    BY DEF Points
  <2>6. Became(j, job[w], f, job[w].uid, rest)
    BY <2>2, <2>5, StepFacts, JobTakesStack
  <2>7. Becomes(w, j)
    BY <2>4
  <2> HIDE DEF j
  <2>8. Fits(w, f, job[w].uid, rest)
    BY <1>2, <2>4 DEF Fits, RemovingPoints, RelocatingPoints
  <2>9. ResolvesAt(w, f)
    BY <2>1 DEF ResolvesAt
  <2> QED
    BY <2>1, <2>6, <2>7, <2>8, <2>9, StepFacts, BecameInv DEF CacheTypeOK
<1> QED
  BY <1>3, <1>4, <1>5, <1>6

(* A removal that fails leaves a tree as well. *)
LEMMA RemovalFails ==
  ASSUME tree \in Tree, NEW u, NEW can, RpcFails(Result(can, Removed(tree, u))),
         can => CanRemoveFile(tree, u) \/ CanRemoveDirectory(tree, u)
  PROVE  tree' \in Tree
BY RemovedIsTree DEF RpcFails, Result

LEMMA RemovalsFailInv ==
  ASSUME HandlersInv, NEW w \in Workers,
         \/ RemoveFileFails(w) \/ ListTreeFails(w) \/ RemoveEntryFails(w) \/ RemoveEmptiedFails(w)
  PROVE  HandlersInv'
<1>1. Reply(w, 500) /\ UNCHANGED <<cache, call, foreign>>
  BY DEF RemoveFileFails, ListTreeFails, RemoveEntryFails, RemoveEmptiedFails, resolverVars
<1>2. 500 \in Statuses
  BY DEF Statuses
<1>3. tree' \in Tree
  <2>1. CASE RemoveFileFails(w)
    BY <2>1, StepFacts, RemovalFails DEF RemoveFileFails
  <2>2. CASE ListTreeFails(w)
    BY <2>2, IdleFacts DEF ListTreeFails
  <2>3. CASE RemoveEntryFails(w)
    BY <2>3, StepFacts, RemovalFails DEF RemoveEntryFails
  <2>4. CASE RemoveEmptiedFails(w)
    BY <2>4, StepFacts, RemovalFails DEF RemoveEmptiedFails
  <2> QED
    BY <2>1, <2>2, <2>3, <2>4
<1> QED
  BY <1>1, <1>2, <1>3, StepFacts, ReplyInv DEF CacheTypeOK

LEMMA FileRemovalInv ==
  ASSUME HandlersInv, NEW w \in Workers, RemoveFile(w) \/ Drop(w)
  PROVE  HandlersInv'
<1> USE DEF Does
<1>1. job[w].pc \in {"remove file", "drop"} /\ MayRemove(Req(w))
  BY StepFacts DEF RemoveFile, Drop, JobIsPlaced, RemovingPoints, Req
<1>2. CASE RemoveFile(w)
  <2> DEFINE j == [job[w] EXCEPT !.pc = "drop"]
  <2>1. Became(j, job[w], "drop", job[w].uid, job[w].stack)
    BY StepFacts, PointsAre, JobGoesOn
  <2>2. Becomes(w, j)
    BY <1>2 DEF RemoveFile, Proceed
  <2> HIDE DEF j
  <2>3. Fits(w, "drop", job[w].uid, job[w].stack)
    BY <1>1 DEF Fits, RemovingPoints, RelocatingPoints
  <2>4. UNCHANGED <<cache, call, foreign>> /\ ResolvesAt(w, "drop")
    BY <1>2 DEF RemoveFile, ResolvesAt
  <2>5. tree' \in Tree
    BY <1>2, StepFacts, RemovedIsTree DEF RemoveFile
  <2> QED
    BY <2>1, <2>2, <2>3, <2>4, <2>5, StepFacts, BecameInv DEF CacheTypeOK
<1>3. CASE Drop(w)
  <2>1. UNCHANGED <<tree, foreign>> /\ UnmapPath(Subject(w))
    BY <1>3 DEF Drop
  <2>2. tree' \in Tree /\ CacheTypeOK'
    BY <2>1, StepFacts DEF CacheTypeOK, UnmapPath
  <2>3. CASE Reply(w, 204) /\ UNCHANGED call
    BY <2>1, <2>2, <2>3, ReplyInv DEF Statuses
  <2>4. CASE /\ Is(w, {"COPY", "MOVE"})
             /\ Becomes(w, [job[w] EXCEPT !.pc = "source", !.uid = NoUid])
             /\ ThenResolve(w, Req(w).path)
    <3> DEFINE j == [job[w] EXCEPT !.pc = "source", !.uid = NoUid]
    <3>1. NoUid \in Dirs \cup {NoUid} /\ "source" \in Points
      BY DEF Points
    <3>2. Became(j, job[w], "source", NoUid, job[w].stack)
      BY <3>1, StepFacts, JobTakesUid
    <3>3. Becomes(w, j)
      BY <2>4
    <3> HIDE DEF j
    <3>4. Fits(w, "source", NoUid, job[w].stack)
      BY <2>4 DEF Fits, RemovingPoints, RelocatingPoints
    <3>5. Req(w).path \in Paths \cup {RootPath}
      BY StepFacts, JobFacts DEF Request
    <3>6. ResolvesAt(w, "source")
      BY <2>4, <3>5 DEF ResolvesAt
    <3> QED
      BY <2>1, <2>2, <3>2, <3>3, <3>4, <3>6, BecameInv
  <2> QED
    BY <1>3, <2>3, <2>4 DEF Drop
<1> QED
  BY <1>2, <1>3

LEMMA RemovesInv ==
  ASSUME HandlersInv, NEW w \in Workers, Removes(w)
  PROVE  HandlersInv' /\ (IsGentle(tree') \/ MayRemove(Req(w)))
<1>1. CASE StatFile(w) \/ StatDir(w) \/ StatMissing(w)
  BY <1>1, StatsInv
<1>2. CASE ~(StatFile(w) \/ StatDir(w) \/ StatMissing(w))
  <2>1. job[w].pc \in RemovingPoints
    BY <1>2 DEF Removes, RemoveFile, RemoveFileFails, ListTree, ListTreeFails, EnterSubtree,
         RemoveEntry, RemoveEntryFails, RemoveEmptied, RemoveEmptiedFails, Drop,
         RemovingPoints, Does
  <2>2. MayRemove(Req(w))
    BY <2>1, StepFacts DEF JobIsPlaced, Req
  <2> QED
    BY <1>2, <2>2, TreeRemovalInv, RemovalsFailInv, FileRemovalInv DEF Removes
<1> QED
  BY <1>1, <1>2

-----------------------------------------------------------------------------
(* The invariant, and what follows *)

LEMMA AnswersInv ==
  ASSUME HandlersInv, NEW w \in Workers, Answers(w)
  PROVE  HandlersInv' /\ IsGentle(tree')
<1>1. UNCHANGED tree
  BY DEF Answers, TargetMissing, DeleteOfRoot, TargetFound, ParentMissing, ParentFound,
         PutTargetMissing, DestFound, DestFree, SourceMissing, SourceFound,
         DestParentMissing, DestParentFound
<1>2. HandlersInv'
  BY TargetAnswersInv, ParentAnswersInv, RelocationAnswersInv DEF Answers
<1> QED
  BY <1>1, <1>2, StepFacts, StayIsGentle

LEMMA InitInv == JobInit => HandlersInv
<1> SUFFICES ASSUME JobInit PROVE HandlersInv
  OBVIOUS
<1>1. NoCall \in Call /\ NoJob \in Job
  BY CallStarts, NoJobIsJob
<1>2. JobTypeOK
  BY <1>1, InitTreeIsTree DEF JobInit, Init, JobTypeOK, TypeOK
<1>3. JobIsPlaced(NoJob) /\ CallIsPlaced(NoJob, NoCall)
  BY DEF JobIsPlaced, CallIsPlaced, NoJob, NoCall, RemovingPoints, RelocatingPoints
<1> QED
  BY <1>2, <1>3 DEF JobInit, Init, HandlersInv

LEMMA HandlerStepInv ==
  ASSUME HandlersInv, NEW w \in Workers, HandlerStep(w)
  PROVE  HandlersInv' /\ (IsGentle(tree') \/ MayRemove(Req(w)))
<1>1. CASE Resolve(w)
  <2>1. UNCHANGED tree
    BY <1>1 DEF Resolve, ResolveStep, LookupHit, LookupMiss, VerifyHit, VerifyMiss, Evict,
         ListFound, ListMissing, MapPrefix
  <2> QED
    BY <1>1, <2>1, ResolveInv, StepFacts, StayIsGentle
<1> QED
  BY <1>1, AnswersInv, CreatesInv, RemovesInv, ReadsInv, RelocatesInv DEF HandlerStep

(* A step of a handler changes no locals but its own. *)
LEMMA StepIsOwn ==
  ASSUME HandlersInv, NEW w \in Workers, HandlerStep(w), NEW v \in Workers, v # w
  PROVE  job'[v] = job[v]
<1>1. ASSUME \E j : Becomes(w, j) PROVE job'[v] = job[v]
  BY <1>1, StepFacts DEF Becomes, JobTypeOK
<1>2. \A f, t : Proceed(w, f) \/ Reply(w, t) \/ StartTree(w) => \E j : Becomes(w, j)
  BY DEF Proceed, Reply, StartTree
<1>3. CASE Resolve(w)
  BY <1>3 DEF Resolve
<1>4. CASE Answers(w)
  <2>1. CASE TargetMissing(w) \/ DeleteOfRoot(w) \/ TargetFound(w) \/ PutTargetMissing(w)
    BY <1>1, <1>2, <2>1 DEF TargetMissing, DeleteOfRoot, TargetFound, PutTargetMissing
  <2>2. CASE ParentMissing(w) \/ ParentFound(w) \/ DestParentMissing(w) \/ DestParentFound(w)
    BY <1>1, <1>2, <2>2 DEF ParentMissing, ParentFound, DestParentMissing, DestParentFound
  <2>3. CASE DestFound(w) \/ DestFree(w) \/ SourceMissing(w) \/ SourceFound(w)
    BY <1>1, <1>2, <2>3 DEF DestFound, DestFree, SourceMissing, SourceFound
  <2> QED
    BY <1>4, <2>1, <2>2, <2>3 DEF Answers
<1>5. CASE Creates(w)
  <2>1. CASE Create(w) \/ CreateFails(w)
    BY <1>1, <1>2, <2>1 DEF Create, CreateFails
  <2>2. CASE Upload(w) \/ UploadFails(w) \/ Map(w)
    BY <1>1, <1>2, <2>2 DEF Upload, UploadFails, Map
  <2> QED
    BY <1>5, <2>1, <2>2 DEF Creates
<1>6. CASE Removes(w)
  <2>1. CASE StatFile(w) \/ StatDir(w) \/ StatMissing(w)
    BY <1>1, <1>2, <2>1 DEF StatFile, StatDir, StatMissing
  <2>2. CASE RemoveFile(w) \/ RemoveFileFails(w) \/ ListTree(w) \/ ListTreeFails(w)
    BY <1>1, <1>2, <2>2 DEF RemoveFile, RemoveFileFails, ListTree, ListTreeFails
  <2>3. CASE EnterSubtree(w) \/ RemoveEntry(w) \/ RemoveEntryFails(w)
    BY <1>1, <1>2, <2>3 DEF EnterSubtree, RemoveEntry, RemoveEntryFails
  <2>4. CASE RemoveEmptied(w) \/ RemoveEmptiedFails(w) \/ Drop(w)
    BY <1>1, <1>2, <2>4 DEF RemoveEmptied, RemoveEmptiedFails, Drop
  <2> QED
    BY <1>6, <2>1, <2>2, <2>3, <2>4 DEF Removes
<1>7. CASE Reads(w)
  BY <1>1, <1>2, <1>7 DEF Reads, Download, List, ListingFails, MapEntry
<1>8. CASE Relocates(w)
  <2>1. CASE ListBefore(w) \/ Copy(w) \/ CopyFails(w) \/ ListAfter(w) \/ ListAfterFails(w)
    BY <1>1, <1>2, <2>1 DEF ListBefore, Copy, CopyFails, ListAfter, ListAfterFails
  <2>2. CASE Rename(w) \/ RenameFails(w) \/ Move(w) \/ MoveFails(w) \/ Forget(w)
    BY <1>1, <1>2, <2>2 DEF Rename, RenameFails, Move, MoveFails, Forget
  <2> QED
    BY <1>8, <2>1, <2>2 DEF Relocates
<1> QED
  BY <1>3, <1>4, <1>5, <1>6, <1>7, <1>8 DEF HandlerStep

LEMMA NextInv ==
  ASSUME HandlersInv, [HandlerNext]_handlerVars
  PROVE  HandlersInv'
<1>1. CASE UNCHANGED handlerVars
  BY <1>1 DEF handlerVars, resolverVars, HandlersInv, JobTypeOK, TypeOK
<1> QED
  BY <1>1, ReceiveInv, TurnAwayInv, LeaveInv, HandlerStepInv, ForeignInv DEF HandlerNext

(* The handlers of WebDAVRequestHandler keep their types: whatever fails   *)
(* and whatever others do, nothing is created without a name or removed    *)
(* that is no node, and a recursive removal has its activations.           *)
THEOREM HandlersTypeCorrect == HandlerSpec => []JobTypeOK
<1>1. JobInit => HandlersInv
  BY InitInv
<1>2. HandlersInv /\ [HandlerNext]_handlerVars => HandlersInv'
  BY NextInv
<1>3. HandlersInv => JobTypeOK
  BY DEF HandlersInv
<1> QED
  BY <1>1, <1>2, <1>3, PTL DEF HandlerSpec

(* A step of a thread ends the life of a node only for a DELETE, or for a  *)
(* COPY or MOVE whose Overwrite is not F.                                  *)
OnlyRemoversRemove ==
  [][\A w \in Workers : job'[w] # job[w] /\ Ends(tree, tree') => MayRemove(Req(w))]_handlerVars

(* Of every handler (handleDelete, prepareDestination): a node is removed  *)
(* only for a request that asks for it.                                    *)
THEOREM RemovalsAreAskedFor == HandlerSpec => OnlyRemoversRemove
<1> DEFINE A == \A w \in Workers : job'[w] # job[w] /\ Ends(tree, tree') => MayRemove(Req(w))
<1>1. JobInit => HandlersInv
  BY InitInv
<1>2. HandlersInv /\ [HandlerNext]_handlerVars => HandlersInv'
  BY NextInv
<1>3. HandlersInv /\ [HandlerNext]_handlerVars => [A]_handlerVars
  <2> SUFFICES ASSUME HandlersInv, HandlerNext, NEW v \in Workers,
                      job'[v] # job[v], Ends(tree, tree')
               PROVE  MayRemove(Req(v))
    OBVIOUS
  <2>1. ~IsGentle(tree') /\ tree' # tree
    BY DEF IsGentle, Ends
  <2>2. PICK w \in Workers : HandlerStep(w)
    BY <2>1 DEF HandlerNext, Receive, TurnAway, Leave, resolverVars
  <2>3. MayRemove(Req(w))
    BY <2>1, <2>2, HandlerStepInv
  <2>4. v = w
    BY <2>2, StepIsOwn
  <2> QED
    BY <2>3, <2>4
<1> QED
  BY <1>1, <1>2, <1>3, PTL DEF HandlerSpec, OnlyRemoversRemove

-----------------------------------------------------------------------------
(***************************************************************************)
(* The second part: while nothing is renamed, moved or copied and no other *)
(* client writes, what a path was found to lead to it leads to as long as  *)
(* that lives.  StillInv says so of the map, of every resolution under way *)
(* and of all that a handler keeps between two steps.                      *)
(***************************************************************************)

(* A node that was found below the path, likewise. *)
Within(t, p, u) ==
  /\ u \in Uids
  /\ t[u].status # "free"
  /\ t[u].status = "live" => u \in Below(t, p)

LEMMA WithinKept ==
  ASSUME NEW t \in Tree, NEW s, Kept(t, s), IsRooted(s),
         NEW p \in Seq(Names), NEW u, Within(t, p, u)
  PROVE  Within(s, p, u)
<1>1. u \in Uids /\ s[u].status # "free"
  BY DEF Within, Kept
<1>2. ASSUME s[u].status = "live" PROVE u \in Below(s, p)
  <2>1. t[u].status = "live"
    BY <1>1, <1>2, KeptIsLive DEF Within
  <2>2. PICK d \in Denoted(t, p) : u \in Subtree(t, d)
    BY <2>1 DEF Within, Below
  <2>3. d \in Dirs
    BY <2>2, DenotedType, RootFacts
  <2>4. IsLive(s, u)
    BY <1>1, <1>2 DEF IsLive
  <2>5. IsLive(s, d) /\ u \in Subtree(s, d)
    BY <2>2, <2>3, <2>4, SubtreeKept
  <2>6. d \in Denoted(s, p)
    BY <2>2, <2>5, DenotedKept
  <2> QED
    BY <2>5, <2>6 DEF Below
<1> QED
  BY <1>1, <1>2 DEF Within

(* What the path leads to is below it, and so are the children of what is. *)
LEMMA RightIsWithin ==
  ASSUME NEW t, NEW p \in Seq(Names), NEW u \in Uids, Right(t, p, u)
  PROVE  Within(t, p, u)
<1>1. t[u].status = "live" => u \in Denoted(t, p)
  BY DEF Right, IsLive
<1>2. u \in Dirs
  BY RootFacts
<1> QED
  BY <1>1, <1>2, SubtreeHolds DEF Right, Within, Below

LEMMA ChildIsWithin ==
  ASSUME NEW t, NEW p \in Seq(Names), NEW d, Within(t, p, d), t[d].status = "live",
         NEW u \in Children(t, d)
  PROVE  Within(t, p, u)
<1>1. u \in Uids /\ t[u].status = "live" /\ t[u].parent = d
  BY DEF Children
<1>2. PICK r \in Denoted(t, p) : d \in Subtree(t, r)
  BY DEF Within, Below
<1>3. r \in Dirs
  BY <1>2, DenotedType, RootFacts
<1>4. u \in Subtree(t, r)
  BY <1>1, <1>2, <1>3, SubtreeHolds
<1> QED
  BY <1>1, <1>2, <1>4 DEF Within, Below

-----------------------------------------------------------------------------
(* The invariant of the second part *)

(* What a cached uid, the resolution and the locals of a thread say. *)
CacheIsRight(t, m) == \A p \in Paths : m[p] # NoUid => Right(t, p, m[p])

CallIsRight(t, c) ==
  /\ c.phase = "verify" => Right(t, c.path, c.uid)
  /\ c.phase \in {"list", "map"} => Right(t, Prefix(c.path, c.depth), c.uid)
  /\ c.phase = "done" /\ c.uid # NoUid => Right(t, c.path, c.uid)

AsksForParent(j, c) == j.pc = "parent" => c.path = Parent(j.req.path)

Gone(t, u) == u \in Uids /\ t[u].status = "gone"
Saved(t, p, u) == u \in Uids /\ t[u].filled /\ Right(t, p, u)

(* What an answer says of the node it is about. *)
Promised(t, r, u, s) ==
  /\ r.method = "PUT" /\ s \in {201, 204} => Saved(t, r.path, u)
  /\ r.method = "DELETE" /\ s = 204 => Gone(t, u)

FrameIsRight(t, p, f) ==
  /\ Within(t, p, f.dir)
  /\ \A e \in f.todo : Within(t, p, e.uid)

StackIsRight(t, p, s) == \A i \in 1..Len(s) : FrameIsRight(t, p, s[i])

FoundPoints == {"download", "upload", "stat", "list", "map entries", "map",
                "remove file", "remove tree"}

NeedsParent(j) == j.pc \in {"touch", "mkdir"} \/ (j.pc = "target" /\ j.req.method = "PUT")

JobIsRight(t, j) ==
  /\ NeedsParent(j) => Right(t, Parent(j.req.path), j.par)
  /\ j.pc \in FoundPoints => Right(t, j.req.path, j.uid)
  /\ j.pc = "mkdir" => j.req.method # "PUT"
  /\ j.pc = "map" /\ j.req.method = "PUT" => Saved(t, j.req.path, j.uid)
  /\ j.pc = "map entries" =>
       \A e \in j.entries : Right(t, Append(j.req.path, e.name), e.uid)
  /\ j.pc = "remove tree" =>
       j.stack[1].dir = j.uid /\ StackIsRight(t, j.req.path, j.stack)
  /\ j.pc = "drop" => Gone(t, j.uid)
  /\ j.pc = "replied" => Promised(t, j.req, j.uid, j.status)

(* Every node is in a directory, and where a path was found to lead it     *)
(* leads as long as the node lives: for the map, for each step of each     *)
(* resolution, and for all that a handler keeps between two steps.         *)
StillInv ==
  /\ HandlersInv
  /\ IsRooted(tree)
  /\ CacheIsRight(tree, cache)
  /\ \A w \in Workers : /\ JobIsRight(tree, job[w])
                        /\ CallIsRight(tree, call[w])
                        /\ AsksForParent(job[w], call[w])

(* The paths of a request. *)
LEMMA RequestFacts ==
  ASSUME NEW j \in Job
  PROVE  /\ j.req \in Request
         /\ j.req.path \in Paths \cup {RootPath}
         /\ j.req.path \in Seq(Names) /\ Parent(j.req.path) \in Seq(Names)
         /\ \A e \in j.entries : e \in Entry /\ Append(j.req.path, e.name) \in Seq(Names)
<1>1. j.req \in Requests \cup {NoRequest} /\ j.entries \subseteq Entry
  BY DEF Job
<1>2. NoRequest \in Request
  BY DEF NoRequest, Request, Methods
<1>3. j.req \in Request
  BY <1>1, <1>2, RequestsAreSound
<1>4. j.req.path \in Paths \cup {RootPath}
  BY <1>3 DEF Request
<1>5. \A q \in Paths \cup {RootPath} : q \in Seq(Names)
  BY PathFacts, RootPathFacts
<1>6. j.req.path \in Seq(Names)
  BY <1>4, <1>5
<1>7. Parent(j.req.path) \in Seq(Names)
  BY <1>4, <1>5, ParentFacts, RootFacts
<1>8. \A e \in j.entries : e \in Entry /\ e.name \in Names
  BY <1>1 DEF Entry
<1> QED
  BY <1>3, <1>4, <1>6, <1>7, <1>8

(* What is right stays right. *)
Keeps(t, s) == Kept(t, s) /\ IsRooted(s)

LEMMA CacheKept ==
  ASSUME NEW t \in Tree, NEW s, Keeps(t, s), NEW m, CacheIsRight(t, m)
  PROVE  CacheIsRight(s, m)
BY RightKept, PathFacts DEF CacheIsRight, Keeps

LEMMA CallKept ==
  ASSUME NEW t \in Tree, NEW s, Keeps(t, s), TypeOK, NEW w \in Workers,
         CallIsRight(t, call[w])
  PROVE  CallIsRight(s, call[w])
<1> DEFINE p == call[w].path
           q == Prefix(p, call[w].depth)
<1>1. p \in Seq(Names)
  BY CallFacts, PathFacts, RootPathFacts
<1>2. call[w].depth \in 0..Len(p)
  BY <1>1, CallFacts
<1>3. q \in Seq(Names)
  BY <1>1, <1>2, PrefixFacts
<1> HIDE DEF p, q
<1>4. \A u : Right(t, p, u) => Right(s, p, u)
  BY <1>1, RightKept DEF Keeps
<1>5. \A u : Right(t, q, u) => Right(s, q, u)
  BY <1>3, RightKept DEF Keeps
<1> QED
  BY <1>4, <1>5 DEF CallIsRight, p, q

LEMMA SavedKept ==
  ASSUME NEW t \in Tree, NEW s, Keeps(t, s), NEW p \in Seq(Names), NEW u
  PROVE  /\ Gone(t, u) => Gone(s, u)
         /\ Saved(t, p, u) => Saved(s, p, u)
<1>1. Gone(t, u) => Gone(s, u)
  BY DEF Gone, Keeps, Kept
<1>2. ASSUME Saved(t, p, u) PROVE Saved(s, p, u)
  <2>1. u \in Uids /\ t[u].filled /\ t[u].status # "free" /\ Right(t, p, u)
    BY <1>2 DEF Saved, Right
  <2>2. s[u].filled
    BY <2>1 DEF Keeps, Kept
  <2> QED
    BY <2>1, <2>2, RightKept DEF Saved, Keeps
<1> QED
  BY <1>1, <1>2

LEMMA JobKept ==
  ASSUME NEW t \in Tree, NEW s, Keeps(t, s), NEW j \in Job, JobIsRight(t, j)
  PROVE  JobIsRight(s, j)
<1>1. j.req.path \in Seq(Names) /\ Parent(j.req.path) \in Seq(Names)
  BY RequestFacts
<1>2. \A u, p : p \in Seq(Names) /\ Right(t, p, u) => Right(s, p, u)
  BY RightKept DEF Keeps
<1>3. \A u : Within(t, j.req.path, u) => Within(s, j.req.path, u)
  BY <1>1, WithinKept DEF Keeps
<1>4. StackIsRight(t, j.req.path, j.stack) => StackIsRight(s, j.req.path, j.stack)
  BY <1>3 DEF StackIsRight, FrameIsRight
<1>5. \A u : /\ Gone(t, u) => Gone(s, u)
             /\ Saved(t, j.req.path, u) => Saved(s, j.req.path, u)
  BY <1>1, SavedKept
<1>6. j.pc = "map entries" => \A e \in j.entries : Right(s, Append(j.req.path, e.name), e.uid)
  BY <1>2, RequestFacts DEF JobIsRight
<1>7. Promised(t, j.req, j.uid, j.status) => Promised(s, j.req, j.uid, j.status)
  BY <1>5 DEF Promised
<1>8. \A u : /\ Right(t, Parent(j.req.path), u) => Right(s, Parent(j.req.path), u)
             /\ Right(t, j.req.path, u) => Right(s, j.req.path, u)
  BY <1>1, <1>2
<1> QED
  BY <1>4, <1>5, <1>6, <1>7, <1>8 DEF JobIsRight

-----------------------------------------------------------------------------
(* Steps of a thread keep it *)

Still == MaxForeign = 0 /\ \A r \in Requests : r.method \notin {"COPY", "MOVE"}

(* What the invariant says of the thread that takes a step, before it and, *)
(* as far as the tree goes, after it.                                      *)
LEMMA StillFacts ==
  ASSUME StillInv, Keeps(tree, tree'), NEW w \in Workers
  PROVE  /\ JobIsRight(tree, job[w]) /\ JobIsRight(tree', job[w])
         /\ CallIsRight(tree, call[w]) /\ CallIsRight(tree', call[w])
         /\ AsksForParent(job[w], call[w])
         /\ CacheIsRight(tree', cache)
<1>1. tree \in Tree /\ TypeOK /\ job[w] \in Job
  BY StepFacts DEF StillInv
<1>2. JobIsRight(tree, job[w]) /\ CallIsRight(tree, call[w]) /\ CacheIsRight(tree, cache)
  BY DEF StillInv
<1> QED
  BY <1>1, <1>2, JobKept, CallKept, CacheKept DEF StillInv

LEMMA StayKeeps ==
  ASSUME StillInv, UNCHANGED tree
  PROVE  Keeps(tree, tree')
BY DEF StillInv, Keeps, Kept

LEMMA ThreadStill ==
  ASSUME StillInv, HandlersInv', NEW w \in Workers, Keeps(tree, tree'),
         \A v \in Workers \ {w} : job'[v] = job[v] /\ call'[v] = call[v],
         JobIsRight(tree', job'[w]), CallIsRight(tree', call'[w]),
         AsksForParent(job'[w], call'[w]), CacheIsRight(tree', cache')
  PROVE  StillInv'
<1>1. IsRooted(tree')
  BY DEF Keeps
<1>2. ASSUME NEW v \in Workers
      PROVE  /\ JobIsRight(tree', job'[v])
             /\ CallIsRight(tree', call'[v])
             /\ AsksForParent(job'[v], call'[v])
  <2>1. CASE v = w
    BY <2>1
  <2>2. CASE v # w
    <3>1. JobIsRight(tree', job[v]) /\ CallIsRight(tree', call[v])
          /\ AsksForParent(job[v], call[v])
      BY StillFacts
    <3> QED
      BY <2>2, <3>1
  <2> QED
    BY <2>1, <2>2
<1> QED
  BY <1>1, <1>2 DEF StillInv

(* A handler's request stays the same until it is answered. *)
Follows(j, k) ==
  k.pc \notin {"idle", "replied"} => j.pc \notin {"idle", "replied"} /\ k.req = j.req

CallGoes(w) ==
  UNCHANGED call \/ Taken(w) \/ \E p \in Paths \cup {RootPath} : ThenResolve(w, p)

LEMMA StartedIsRight ==
  ASSUME NEW t, NEW p
  PROVE  CallIsRight(t, Started(p))
<1>1. CASE p = RootPath
  <2>1. Right(t, RootPath, Root)
    BY DenotedRoot, RootFacts DEF Right
  <2> QED
    BY <1>1, <2>1 DEF CallIsRight, Started
<1>2. CASE p # RootPath
  BY <1>2 DEF CallIsRight, Started
<1> QED
  BY <1>1, <1>2

LEMMA CallGoesRight ==
  ASSUME StillInv, Keeps(tree, tree'), NEW w \in Workers, CallGoes(w)
  PROVE  /\ CallIsRight(tree', call'[w])
         /\ \A v \in Workers \ {w} : call'[v] = call[v]
<1>1. call \in [Workers -> Call]
  BY StepFacts DEF StillInv, TypeOK
<1>2. CASE UNCHANGED call
  BY <1>2, StillFacts
<1>3. CASE Taken(w)
  <2>1. CallIsRight(tree', NoCall)
    BY DEF CallIsRight, NoCall
  <2> QED
    BY <1>1, <1>3, <2>1 DEF Taken
<1>4. ASSUME NEW p, ThenResolve(w, p)
      PROVE  /\ CallIsRight(tree', call'[w])
             /\ \A v \in Workers \ {w} : call'[v] = call[v]
  BY <1>1, <1>4, StartedIsRight DEF ThenResolve
<1> QED
  BY <1>2, <1>3, <1>4 DEF CallGoes

(* A handler goes on with other locals. *)
LEMMA GoStill ==
  ASSUME StillInv, HandlersInv', NEW w \in Workers, NEW j, Becomes(w, j),
         Keeps(tree, tree'), CallGoes(w), CacheIsRight(tree', cache'),
         JobIsRight(tree', j), j.pc # "parent", Follows(job[w], j)
  PROVE  StillInv' /\ Follows(job[w], job'[w])
<1>1. job \in [Workers -> Job]
  BY DEF StillInv, HandlersInv, JobTypeOK
<1>2. job'[w] = j /\ \A v \in Workers \ {w} : job'[v] = job[v]
  BY <1>1 DEF Becomes
<1>3. AsksForParent(job'[w], call'[w])
  BY <1>2 DEF AsksForParent
<1> QED
  BY <1>2, <1>3, CallGoesRight, ThreadStill

(* A handler answers. *)
LEMMA ReplyStill ==
  ASSUME StillInv, HandlersInv', NEW w \in Workers, NEW s, Reply(w, s),
         Promised(tree', Req(w), job[w].uid, s),
         Keeps(tree, tree'), CallGoes(w), CacheIsRight(tree', cache')
  PROVE  StillInv' /\ Follows(job[w], job'[w])
<1> DEFINE j == [NoJob EXCEPT !.pc = "replied", !.req = Req(w), !.uid = job[w].uid,
                              !.status = s]
<1>1. Becomes(w, j)
  BY DEF Reply
<1>2. j.pc = "replied" /\ j.req = Req(w) /\ j.uid = job[w].uid /\ j.status = s
  BY DEF NoJob
<1> HIDE DEF j
<1>3. JobIsRight(tree', j)
  BY <1>2 DEF JobIsRight, NeedsParent, FoundPoints
<1>4. Follows(job[w], j)
  BY <1>2 DEF Follows
<1> QED
  BY <1>1, <1>2, <1>3, <1>4, GoStill

(* The locals that count, after a step that goes on. *)
Holds(k, j, f, u, d, E, s) ==
  /\ k.pc = f /\ k.req = j.req
  /\ k.uid = u /\ k.par = d /\ k.entries = E /\ k.stack = s

LEMMA JobHolds ==
  ASSUME NEW j \in Job, NEW f \in Points, NEW u \in Dirs \cup {NoUid},
         NEW d \in Dirs \cup {NoUid}, NEW E \in SUBSET Entry, NEW s \in Seq(Frame)
  PROVE  /\ Holds([j EXCEPT !.pc = f], j, f, j.uid, j.par, j.entries, j.stack)
         /\ Holds([j EXCEPT !.pc = f, !.uid = u], j, f, u, j.par, j.entries, j.stack)
         /\ Holds([j EXCEPT !.pc = f, !.par = d], j, f, j.uid, d, j.entries, j.stack)
         /\ Holds([j EXCEPT !.pc = f, !.fresh = TRUE], j, f, j.uid, j.par, j.entries, j.stack)
         /\ Holds([j EXCEPT !.pc = f, !.uid = u, !.par = d], j, f, u, d, j.entries, j.stack)
         /\ Holds([j EXCEPT !.pc = f, !.stack = s], j, f, j.uid, j.par, j.entries, s)
         /\ Holds([j EXCEPT !.stack = s, !.pc = f], j, f, j.uid, j.par, j.entries, s)
         /\ Holds([j EXCEPT !.stack = s], j, j.pc, j.uid, j.par, j.entries, s)
         /\ Holds([j EXCEPT !.pc = f, !.entries = E], j, f, j.uid, j.par, E, j.stack)
         /\ Holds([j EXCEPT !.entries = E], j, j.pc, j.uid, j.par, E, j.stack)
BY DEF Holds, Job

(* The handler's own part of a step that goes on: no handler waits for a   *)
(* parent but one that has just come.                                      *)
LEMMA HoldsStill ==
  ASSUME StillInv, HandlersInv', NEW w \in Workers, NEW j, Becomes(w, j),
         Keeps(tree, tree'), CallGoes(w), CacheIsRight(tree', cache'),
         job[w].pc \notin {"idle", "replied"},
         NEW f, NEW u, NEW d, NEW E, NEW s, Holds(j, job[w], f, u, d, E, s),
         f \notin {"parent", "replied"},
         f \in {"touch", "mkdir"} \/ (f = "target" /\ Is(w, {"PUT"})) =>
           Right(tree', Parent(Req(w).path), d),
         f \in FoundPoints => Right(tree', Req(w).path, u),
         f = "mkdir" => ~Is(w, {"PUT"}),
         f = "map" /\ Is(w, {"PUT"}) => Saved(tree', Req(w).path, u),
         f = "map entries" => \A e \in E : Right(tree', Append(Req(w).path, e.name), e.uid),
         f = "remove tree" => s[1].dir = u /\ StackIsRight(tree', Req(w).path, s),
         f = "drop" => Gone(tree', u)
  PROVE  StillInv' /\ Follows(job[w], job'[w])
<1>1. /\ j.pc = f /\ j.req = Req(w) /\ j.req = job[w].req
      /\ j.uid = u /\ j.par = d /\ j.entries = E /\ j.stack = s
  BY DEF Holds, Req
<1>2. JobIsRight(tree', j)
  <2>1. NeedsParent(j) => Right(tree', Parent(j.req.path), j.par)
    BY <1>1 DEF NeedsParent, Is
  <2>2. /\ j.pc = "mkdir" => j.req.method # "PUT"
        /\ j.pc = "map" /\ j.req.method = "PUT" => Saved(tree', j.req.path, j.uid)
    BY <1>1 DEF Is
  <2> QED
    BY <1>1, <2>1, <2>2 DEF JobIsRight
<1>3. Follows(job[w], j)
  BY <1>1 DEF Follows
<1> QED
  BY <1>1, <1>2, <1>3, GoStill

-----------------------------------------------------------------------------
(* Resolutions keep it *)

LEMMA FoundIsRight ==
  ASSUME NEW t, NEW p \in Seq(Names), NEW k \in Nat, k + 1 <= Len(p),
         NEW d, Right(t, Prefix(p, k), d), IsLive(t, d), NEW u \in ChildrenNamed(t, d, p[k + 1])
  PROVE  Right(t, Prefix(p, k + 1), u)
<1>1. d \in Denoted(t, Prefix(p, k))
  BY DEF Right
<1>2. u \in Denoted(t, Prefix(p, k + 1))
  BY <1>1, DenotedNext
<1>3. u \in Uids /\ t[u].status = "live"
  BY ChildFacts
<1> QED
  BY <1>2, <1>3, RootFacts DEF Right

LEMMA CacheTakes ==
  ASSUME NEW t, CacheTypeOK, CacheIsRight(t, cache),
         NEW p, NEW u \in Dirs, Right(t, p, u), MapPath(p, u)
  PROVE  CacheIsRight(t, cache')
<1>1. cache \in [Paths -> Dirs \cup {NoUid}]
  BY DEF CacheTypeOK
<1> QED
  BY <1>1 DEF CacheIsRight, MapPath

LEMMA CacheDrops ==
  ASSUME NEW t, CacheTypeOK, CacheIsRight(t, cache), NEW p, UnmapPath(p)
  PROVE  CacheIsRight(t, cache')
BY DEF CacheTypeOK, CacheIsRight, UnmapPath

LEMMA GotoStill ==
  ASSUME StillInv, HandlersInv', NEW w \in Workers, NEW f, NEW u, NEW n, Goto(w, f, u, n),
         UNCHANGED <<tree, job>>, CacheIsRight(tree, cache'),
         f = "verify" => Right(tree, call[w].path, u),
         f \in {"list", "map"} => Right(tree, Prefix(call[w].path, n), u),
         f = "done" /\ u # NoUid => Right(tree, call[w].path, u)
  PROVE  StillInv'
<1> DEFINE c == [phase |-> f, path |-> call[w].path, uid |-> u, depth |-> n]
<1>1. call \in [Workers -> Call]
  BY StepFacts DEF StillInv, TypeOK
<1>2. call'[w] = c /\ \A v \in Workers \ {w} : call'[v] = call[v]
  BY <1>1 DEF Goto
<1>3. CallIsRight(tree, c)
  BY DEF CallIsRight
<1>4. AsksForParent(job[w], c)
  BY DEF StillInv, AsksForParent
<1> HIDE DEF c
<1>5. Keeps(tree, tree')
  BY StayKeeps
<1>6. JobIsRight(tree', job'[w])
  BY DEF StillInv
<1> QED
  BY <1>2, <1>3, <1>4, <1>5, <1>6, ThreadStill

LEMMA ResolveStill ==
  ASSUME StillInv, HandlersInv', NEW w \in Workers, Resolve(w)
  PROVE  StillInv'
<1> DEFINE p == call[w].path
           k == call[w].depth
<1>0. UNCHANGED job /\ ResolveStep(w)
  BY DEF Resolve
<1> USE DEF ResolveStep
<1>1. call[w].phase \in {"lookup", "verify", "evict", "list", "map"} /\ UNCHANGED tree
  BY <1>0
     DEF LookupHit, LookupMiss, VerifyHit, VerifyMiss, Evict, ListFound, ListMissing,
         MapPrefix, At
<1> HIDE DEF ResolveStep
<1>2. TypeOK /\ CacheTypeOK
  BY StepFacts DEF StillInv
<1>3. p \in Paths /\ k \in Nat /\ k <= Len(p)
  BY <1>1, <1>2, CallFacts
<1>4. p \in Seq(Names) /\ Prefix(p, 0) = RootPath /\ Prefix(p, Len(p)) = p
  BY <1>3, PathFacts, PrefixFacts
<1>5. CacheIsRight(tree, cache) /\ CallIsRight(tree, call[w])
  BY DEF StillInv
<1>6. Right(tree, Prefix(p, 0), Root)
  BY <1>4, DenotedRoot, RootFacts DEF Right
<1> HIDE DEF p, k
<1>7. CASE LookupHit(w)
  <2>1. Right(tree, p, cache[p])
    BY <1>3, <1>5, <1>7 DEF LookupHit, CacheIsRight, p
  <2>2. Goto(w, "verify", cache[p], 0) /\ UNCHANGED cache
    BY <1>7 DEF LookupHit, p
  <2> QED
    BY <1>0, <1>1, <1>5, <2>1, <2>2, GotoStill DEF p
<1>8. CASE LookupMiss(w)
  <2>1. Goto(w, "list", Root, 0) /\ UNCHANGED cache
    BY <1>8 DEF LookupMiss
  <2> QED
    BY <1>0, <1>1, <1>5, <1>6, <2>1, GotoStill DEF p
<1>9. CASE VerifyHit(w)
  <2>1. Goto(w, "done", call[w].uid, 0) /\ UNCHANGED cache /\ call[w].phase = "verify"
    BY <1>9 DEF VerifyHit, At
  <2>2. Right(tree, p, call[w].uid)
    BY <1>5, <2>1 DEF CallIsRight, p
  <2> QED
    BY <1>0, <1>1, <1>5, <2>1, <2>2, GotoStill DEF p
<1>10. CASE VerifyMiss(w)
  <2>1. Goto(w, "evict", call[w].uid, 0) /\ UNCHANGED cache
    BY <1>10 DEF VerifyMiss
  <2> QED
    BY <1>0, <1>1, <1>5, <2>1, GotoStill
<1>11. CASE Evict(w)
  <2>1. Goto(w, "list", Root, 0) /\ UnmapPath(p)
    BY <1>11 DEF Evict, p
  <2>2. CacheIsRight(tree, cache')
    BY <1>2, <1>5, <2>1, CacheDrops
  <2> QED
    BY <1>0, <1>1, <1>6, <2>1, <2>2, GotoStill DEF p
<1>12. CASE ListFound(w)
  <2>1. call[w].phase = "list" /\ IsLive(tree, call[w].uid) /\ UNCHANGED cache
    BY <1>12 DEF ListFound, At
  <2>2. PICK u \in ChildrenNamed(tree, call[w].uid, p[k + 1]) : Goto(w, "map", u, k + 1)
    BY <1>12 DEF ListFound, Matches, p, k
  <2>3. k < Len(p)
    BY <1>2, <2>1, CallFacts DEF p, k
  <2>4. Len(p) \in Nat
    BY <1>4
  <2>5. k + 1 <= Len(p)
    BY <1>3, <2>3, <2>4
  <2>6. Right(tree, Prefix(p, k), call[w].uid) /\ IsLive(tree, call[w].uid)
    BY <1>5, <2>1 DEF CallIsRight, p, k
  <2>7. Right(tree, Prefix(p, k + 1), u)
    BY <1>3, <1>4, <2>5, <2>6, FoundIsRight
  <2> QED
    BY <1>0, <1>1, <1>5, <2>1, <2>2, <2>7, GotoStill DEF p
<1>13. CASE ListMissing(w)
  <2>1. Goto(w, "done", NoUid, k) /\ UNCHANGED cache
    BY <1>13 DEF ListMissing, k
  <2> QED
    BY <1>0, <1>1, <1>5, <2>1, GotoStill
<1>14. CASE MapPrefix(w)
  <2>1. /\ call[w].phase = "map" /\ MapPath(Prefix(p, k), call[w].uid)
        /\ Goto(w, IF k = Len(p) THEN "done" ELSE "list", call[w].uid, k)
    BY <1>14 DEF MapPrefix, At, p, k
  <2>2. Right(tree, Prefix(p, k), call[w].uid)
    BY <1>5, <2>1 DEF CallIsRight, p, k
  <2>3. call[w].uid \in Dirs
    BY <2>2 DEF Right
  <2>4. CacheIsRight(tree, cache')
    BY <1>2, <1>5, <2>1, <2>2, <2>3, CacheTakes
  <2>5. CASE k = Len(p)
    <3>1. Right(tree, p, call[w].uid)
      BY <1>4, <2>2, <2>5
    <3>2. Goto(w, "done", call[w].uid, k)
      BY <2>1, <2>5
    <3> QED
      BY <1>0, <1>1, <2>4, <3>1, <3>2, GotoStill DEF p
  <2>6. CASE k # Len(p)
    <3>1. Goto(w, "list", call[w].uid, k)
      BY <2>1, <2>6
    <3> QED
      BY <1>0, <1>1, <2>2, <2>4, <3>1, GotoStill DEF p
  <2> QED
    BY <2>5, <2>6
<1> QED
  BY <1>0, <1>7, <1>8, <1>9, <1>10, <1>11, <1>12, <1>13, <1>14 DEF ResolveStep

-----------------------------------------------------------------------------
(* So do requests that come and go, and the answers of resolutions *)

LEMMA ReceiveStill ==
  ASSUME StillInv, HandlersInv', NEW w \in Workers, NEW r \in Requests, Receive(w, r)
  PROVE  StillInv'
<1> DEFINE f == FirstPoint(r)
           j == [NoJob EXCEPT !.pc = f, !.req = r]
<1>1. job \in [Workers -> Job] /\ call \in [Workers -> Call]
  BY StepFacts DEF StillInv, JobTypeOK, TypeOK
<1>2. Becomes(w, j) /\ ThenResolve(w, FirstPath(r)) /\ UNCHANGED <<tree, cache>>
  BY DEF Receive
<1>3. f \in {"target", "parent", "dest"} /\ (f = "target" => r.method # "PUT")
      /\ (f = "parent" => FirstPath(r) = Parent(r.path))
  BY DEF FirstPoint, FirstPath
<1> HIDE DEF f
<1>4. j.pc = f /\ j.req = r
  BY DEF NoJob
<1> HIDE DEF j
<1>5. job'[w] = j /\ call'[w] = Started(FirstPath(r))
      /\ \A v \in Workers \ {w} : job'[v] = job[v] /\ call'[v] = call[v]
  BY <1>1, <1>2 DEF Becomes, ThenResolve
<1>6. JobIsRight(tree', j)
  BY <1>3, <1>4 DEF JobIsRight, NeedsParent, FoundPoints
<1>7. AsksForParent(j, Started(FirstPath(r)))
  BY <1>3, <1>4 DEF AsksForParent, Started
<1>8. CacheIsRight(tree', cache')
  BY <1>2 DEF StillInv
<1> QED
  BY <1>2, <1>5, <1>6, <1>7, <1>8, StartedIsRight, StayKeeps, ThreadStill

LEMMA IdleStill ==
  ASSUME StillInv, UNCHANGED resolverVars, NEW w \in Workers
  PROVE  /\ Keeps(tree, tree') /\ CacheIsRight(tree', cache')
         /\ CallGoes(w) /\ tree' = tree /\ cache' = cache
BY StayKeeps DEF StillInv, resolverVars, CallGoes

LEMMA TurnAwayStill ==
  ASSUME StillInv, HandlersInv', NEW w \in Workers, NEW r \in Requests, TurnAway(w, r)
  PROVE  StillInv'
<1> DEFINE j == [NoJob EXCEPT !.pc = "replied", !.req = r, !.status = 401]
<1>1. Becomes(w, j) /\ UNCHANGED resolverVars
  BY DEF TurnAway
<1>2. j.pc = "replied" /\ j.status = 401
  BY DEF NoJob
<1> HIDE DEF j
<1>3. JobIsRight(tree', j) /\ Follows(job[w], j)
  BY <1>2 DEF JobIsRight, NeedsParent, FoundPoints, Promised, Follows
<1> QED
  BY <1>1, <1>2, <1>3, IdleStill, GoStill

LEMMA LeaveStill ==
  ASSUME StillInv, HandlersInv', NEW w \in Workers, Leave(w)
  PROVE  StillInv'
<1>1. Becomes(w, NoJob) /\ UNCHANGED resolverVars
  BY DEF Leave
<1>2. JobIsRight(tree', NoJob) /\ NoJob.pc # "parent" /\ Follows(job[w], NoJob)
  BY DEF JobIsRight, NeedsParent, FoundPoints, Follows, NoJob
<1> QED
  BY <1>1, <1>2, IdleStill, GoStill

LEMMA TargetAnswersStill ==
  ASSUME StillInv, HandlersInv', NEW w \in Workers,
         TargetMissing(w) \/ DeleteOfRoot(w) \/ TargetFound(w) \/ PutTargetMissing(w)
  PROVE  StillInv' /\ Follows(job[w], job'[w])
<1>1. UNCHANGED <<tree, cache>> /\ Taken(w) /\ job[w].pc = "target" /\ call[w].phase = "done"
  BY DEF TargetMissing, DeleteOfRoot, TargetFound, PutTargetMissing, Answer, Does, At
<1>2. Keeps(tree, tree') /\ CacheIsRight(tree', cache') /\ CallGoes(w)
  BY <1>1, StayKeeps DEF StillInv, CallGoes
<1>3. call[w].path = Req(w).path /\ job[w] \in Job
  BY <1>1, StepFacts DEF StillInv, CallIsPlaced, Req
<1>4. CallIsRight(tree', call[w]) /\ JobIsRight(tree', job[w])
  BY <1>2, StillFacts
<1>5. CASE TargetMissing(w)
  <2>1. PICK s : Reply(w, s) /\ s \in {201, 404} /\ (s = 201 => Is(w, {"LOCK"}))
    BY <1>5 DEF TargetMissing
  <2>2. Promised(tree', Req(w), job[w].uid, s)
    BY <1>5, <2>1 DEF Promised, Is, TargetMissing
  <2> QED
    BY <1>2, <2>1, <2>2, ReplyStill
<1>6. CASE DeleteOfRoot(w)
  <2>1. Reply(w, 404) /\ Promised(tree', Req(w), job[w].uid, 404)
    BY <1>6 DEF DeleteOfRoot, Promised
  <2> QED
    BY <1>2, <2>1, ReplyStill
<1>7. CASE TargetFound(w)
  <2>1. PICK u \in Dirs :
          /\ Answer(w, "target", u)
          /\ \/ Is(w, {"HEAD", "LOCK"}) /\ Reply(w, 200)
             \/ \E f \in {"download", "stat", "list", "upload"} :
                   Becomes(w, [job[w] EXCEPT !.pc = f, !.uid = u])
    BY <1>7 DEF TargetFound
  <2>2. Right(tree', Req(w).path, u)
    BY <1>1, <1>3, <1>4, <2>1, RootFacts DEF CallIsRight, Answer
  <2>3. CASE Reply(w, 200)
    <3>1. Promised(tree', Req(w), job[w].uid, 200)
      BY DEF Promised
    <3> QED
      BY <1>2, <2>3, <3>1, ReplyStill
  <2>4. ASSUME NEW f \in {"download", "stat", "list", "upload"},
               Becomes(w, [job[w] EXCEPT !.pc = f, !.uid = u])
        PROVE  StillInv' /\ Follows(job[w], job'[w])
    <3> DEFINE j == [job[w] EXCEPT !.pc = f, !.uid = u]
    <3>1. f \in Points
      BY DEF Points
    <3>2. Holds(j, job[w], f, u, job[w].par, job[w].entries, job[w].stack)
      BY <1>3, <2>1, <3>1, JobHolds, StepFacts DEF StillInv
    <3> HIDE DEF j
    <3>3. Becomes(w, j)
      BY <2>4 DEF j
    <3> QED
      BY <1>1, <1>2, <2>2, <3>2, <3>3, HoldsStill
  <2> QED
    BY <2>1, <2>3, <2>4
<1>8. CASE PutTargetMissing(w)
  <2>0. PICK f \in {"touch"} : TRUE
    OBVIOUS
  <2> DEFINE j == [job[w] EXCEPT !.pc = f, !.fresh = TRUE]
  <2>1. f \in Points
    BY DEF Points
  <2>2. Holds(j, job[w], f, job[w].uid, job[w].par, job[w].entries, job[w].stack)
    BY <1>3, <2>1, JobHolds, StepFacts DEF StillInv
  <2> HIDE DEF j
  <2>3. Becomes(w, j) /\ Is(w, {"PUT"})
    BY <1>8 DEF PutTargetMissing, j
  <2>4. Right(tree', Parent(Req(w).path), job[w].par)
    BY <1>1, <1>4, <2>3 DEF JobIsRight, NeedsParent, Is, Req
  <2>5. f \notin FoundPoints
    BY DEF FoundPoints
  <2> QED
    BY <1>1, <1>2, <2>2, <2>3, <2>4, <2>5, HoldsStill
<1> QED
  BY <1>5, <1>6, <1>7, <1>8

LEMMA ParentAnswersStill ==
  ASSUME StillInv, HandlersInv', NEW w \in Workers, ParentMissing(w) \/ ParentFound(w)
  PROVE  StillInv' /\ Follows(job[w], job'[w])
<1>1. UNCHANGED <<tree, cache>> /\ job[w].pc = "parent" /\ call[w].phase = "done"
  BY DEF ParentMissing, ParentFound, Answer, Does, At
<1>2. Keeps(tree, tree') /\ CacheIsRight(tree', cache') /\ job[w] \in Job
  BY <1>1, StayKeeps, StepFacts DEF StillInv
<1>3. CASE ParentMissing(w)
  <2>1. Reply(w, 409) /\ Promised(tree', Req(w), job[w].uid, 409) /\ CallGoes(w)
    BY <1>3 DEF ParentMissing, Promised, CallGoes
  <2> QED
    BY <1>2, <2>1, ReplyStill
<1>4. CASE ParentFound(w)
  <2>1. PICK u \in Dirs :
          /\ Answer(w, "parent", u)
          /\ \/ /\ Becomes(w, [job[w] EXCEPT !.pc = "target", !.par = u])
                /\ ThenResolve(w, Req(w).path)
             \/ /\ Is(w, {"MKCOL"}) /\ Taken(w)
                /\ Becomes(w, [job[w] EXCEPT !.pc = "mkdir", !.par = u])
    BY <1>4 DEF ParentFound
  <2>2. PICK f \in {"target", "mkdir"} :
          /\ Becomes(w, [job[w] EXCEPT !.pc = f, !.par = u])
          /\ f = "mkdir" => ~Is(w, {"PUT"})
    BY <2>1 DEF Is
  <2>3. Req(w).path \in Paths \cup {RootPath}
    BY <1>2, RequestFacts DEF Req
  <2>4. CallGoes(w)
    BY <2>1, <2>3 DEF CallGoes
  <2>5. Right(tree', Parent(Req(w).path), u)
    <3>1. call[w].path = Parent(Req(w).path) /\ CallIsRight(tree', call[w])
      BY <1>1, <1>2, StillFacts DEF AsksForParent, Req
    <3> QED
      BY <1>1, <2>1, <3>1, RootFacts DEF CallIsRight, Answer
  <2> DEFINE j == [job[w] EXCEPT !.pc = f, !.par = u]
  <2>6. f \in Points /\ f \notin FoundPoints
    BY DEF Points, FoundPoints
  <2>7. Holds(j, job[w], f, job[w].uid, u, job[w].entries, job[w].stack)
    BY <1>2, <2>1, <2>6, JobHolds, StepFacts DEF StillInv
  <2> HIDE DEF j
  <2>8. Becomes(w, j)
    BY <2>2 DEF j
  <2> QED
    BY <1>1, <1>2, <2>2, <2>4, <2>5, <2>6, <2>7, <2>8, HoldsStill
<1> QED
  BY <1>3, <1>4

-----------------------------------------------------------------------------
(* What the RPCs keep *)

LEMMA CreatedStill ==
  ASSUME NEW t \in Tree, IsRooted(t), NEW u \in Uids, NEW d \in Dirs, NEW n \in Names,
         NEW k \in Kinds, CanCreate(t, u, d, n, k),
         NEW p \in Seq(Names), p # RootPath, Base(p) = n, Right(t, Parent(p), d)
  PROVE  Keeps(t, Created(t, u, d, n, k)) /\ Right(Created(t, u, d, n, k), p, u)
<1> DEFINE s == Created(t, u, d, n, k)
<1>1. IsRooted(s)
  BY CoreStaysRooted
<1>2. t[u].status = "free" /\ IsLive(t, d)
  BY HolderFacts DEF CanCreate
<1>3. \A v \in Uids : v # u => s[v] = t[v]
  BY DEF Created, Tree
<1>4. s[u].status = "live" /\ s[u].parent = d /\ s[u].name = n
  BY DEF Created, Tree
<1> HIDE DEF s
<1>5. Kept(t, s)
  BY <1>2, <1>3 DEF Kept
<1>6. IsLive(s, d)
  BY <1>2, <1>3 DEF IsLive
<1>7. /\ Prefix(p, Len(p) - 1) \in Seq(Names)
      /\ Denoted(s, p) = UNION {ChildrenNamed(s, e, Base(p)) : e \in Denoted(s, Prefix(p, Len(p) - 1))}
  BY DenotedLast
<1>8. Parent(p) = Prefix(p, Len(p) - 1)
  BY DEF Parent
<1>9. d \in Denoted(s, Parent(p))
  BY <1>1, <1>5, <1>6, <1>7, <1>8, RightKept DEF Right
<1>10. u \in ChildrenNamed(s, d, Base(p))
  BY <1>4, ChildFacts
<1>11. u \in Denoted(s, p)
  BY <1>7, <1>8, <1>9, <1>10
<1>12. Keeps(t, s)
  BY <1>1, <1>5 DEF Keeps
<1>13. Right(s, p, u)
  BY <1>4, <1>11, RootFacts DEF Right
<1> QED
  BY <1>12, <1>13 DEF s

LEMMA FilledStill ==
  ASSUME NEW t \in Tree, IsRooted(t), NEW u, CanFill(t, u)
  PROVE  u \in Uids /\ Keeps(t, Filled(t, u)) /\ Filled(t, u)[u].filled
<1>1. u \in Uids
  BY DEF CanFill, IsFile
<1>2. IsRooted(Filled(t, u))
  BY <1>1, CoreStaysRooted
<1>3. Kept(t, Filled(t, u)) /\ Filled(t, u)[u].filled
  BY <1>1 DEF Kept, Filled, Tree, Node
<1> QED
  BY <1>1, <1>2, <1>3 DEF Keeps

LEMMA RemovedStill ==
  ASSUME NEW t \in Tree, IsRooted(t), NEW u, CanRemoveFile(t, u) \/ CanRemoveDirectory(t, u)
  PROVE  Keeps(t, Removed(t, u)) /\ Gone(Removed(t, u), u)
<1>1. u \in Uids /\ t[u].status = "live"
  BY DEF CanRemoveFile, IsFile, CanRemoveDirectory, IsDir
<1>2. IsRooted(Removed(t, u))
  BY <1>1, CoreStaysRooted
<1>3. Kept(t, Removed(t, u)) /\ Gone(Removed(t, u), u)
  BY <1>1, DirsFacts, SubtreeHolds, NodesGone DEF Kept, Gone
<1> QED
  BY <1>2, <1>3 DEF Keeps

LEMMA FailureKeeps ==
  ASSUME StillInv, NEW results, RpcFails(results), \A t \in results : Keeps(tree, t)
  PROVE  Keeps(tree, tree')
BY StayKeeps DEF RpcFails

LEMMA FailureOfOneKeeps ==
  ASSUME StillInv, NEW can, NEW t, RpcFails(Result(can, t)), can => Keeps(tree, t)
  PROVE  Keeps(tree, tree')
<1>1. \A r \in Result(can, t) : Keeps(tree, r)
  BY DEF Result
<1> QED
  BY <1>1, FailureKeeps

-----------------------------------------------------------------------------
(* Handlers that create and read keep it *)

LEMMA CreatableFacts ==
  ASSUME StillInv, NEW w \in Workers, job[w].pc \in {"touch", "mkdir"}, NEW u \in Creatable(w)
  PROVE  LET s == Created(tree, u, job[w].par, NameOf(w), CreatedKind(w))
         IN  Keeps(tree, s) /\ Right(s, Req(w).path, u)
<1>1. u \in Uids /\ CanCreate(tree, u, job[w].par, NameOf(w), CreatedKind(w))
  BY DEF Creatable
<1>2. job[w].par \in Dirs
  BY <1>1, HolderFacts DEF CanCreate
<1>3. HandlersInv /\ job[w] \in Job /\ tree \in Tree /\ IsRooted(tree)
  BY StepFacts DEF StillInv
<1>4. Req(w).path # RootPath /\ NameOf(w) \in Names
  BY <1>3, StepFacts, JobFacts DEF JobIsPlaced, Req
<1>5. Req(w).path \in Seq(Names) /\ Base(Req(w).path) = NameOf(w)
  BY <1>3, RequestFacts DEF Req, NameOf
<1>6. CreatedKind(w) \in Kinds
  BY DEF CreatedKind, Kinds
<1>7. Right(tree, Parent(Req(w).path), job[w].par)
  BY DEF StillInv, JobIsRight, NeedsParent, Req
<1> QED
  BY <1>1, <1>2, <1>3, <1>4, <1>5, <1>6, <1>7, CreatedStill

(* Nothing is relocated. *)
LEMMA StillAsks ==
  ASSUME Still, HandlersInv, NEW w \in Workers
  PROVE  /\ ~Is(w, {"COPY", "MOVE"})
         /\ job[w].pc \notin RelocatingPoints
         /\ Subject(w) = Req(w).path
<1>1. Req(w) \in Requests \cup {NoRequest}
  BY StepFacts DEF Job, Req
<1>2. ~Is(w, {"COPY", "MOVE"})
  BY <1>1 DEF Still, Is, NoRequest
<1> QED
  BY <1>2, StepFacts DEF JobIsPlaced, Subject, Is, Req

LEMMA CreatesStill ==
  ASSUME Still, StillInv, HandlersInv', NEW w \in Workers, Creates(w)
  PROVE  StillInv' /\ Follows(job[w], job'[w])
<1> USE DEF Does
<1>1. tree \in Tree /\ IsRooted(tree) /\ job[w] \in Job /\ CacheTypeOK
  BY StepFacts DEF StillInv
<1>2. CASE Create(w)
  <2>1. PICK u \in Creatable(w) :
          /\ tree' = Created(tree, u, job[w].par, NameOf(w), CreatedKind(w))
          /\ Becomes(w, [job[w] EXCEPT !.pc = IF job[w].pc = "touch" THEN "upload" ELSE "map",
                                       !.uid = u, !.par = NoUid])
    BY <1>2 DEF Create
  <2>2. job[w].pc \in {"touch", "mkdir"} /\ UNCHANGED <<cache, call>>
    BY <1>2 DEF Create
  <2>3. Keeps(tree, tree') /\ Right(tree', Req(w).path, u)
    BY <2>1, <2>2, CreatableFacts
  <2>4. CacheIsRight(tree', cache') /\ CallGoes(w)
    BY <2>2, <2>3, StillFacts DEF CallGoes
  <2>5. PICK f \in {"upload", "map"} :
          /\ Becomes(w, [job[w] EXCEPT !.pc = f, !.uid = u, !.par = NoUid])
          /\ f = "map" => job[w].pc = "mkdir"
    BY <2>1, <2>2
  <2>6. f = "map" => ~Is(w, {"PUT"})
    BY <2>5 DEF StillInv, JobIsRight, Is, Req
  <2> DEFINE j == [job[w] EXCEPT !.pc = f, !.uid = u, !.par = NoUid]
  <2>7. f \in Points /\ u \in Dirs /\ NoUid \in Dirs \cup {NoUid}
    BY RootFacts DEF Points, Creatable
  <2>8. Holds(j, job[w], f, u, NoUid, job[w].entries, job[w].stack)
    BY <1>1, <2>7, JobHolds, StepFacts DEF StillInv
  <2> HIDE DEF j
  <2>9. Becomes(w, j)
    BY <2>5 DEF j
  <2> QED
    BY <2>2, <2>3, <2>4, <2>6, <2>8, <2>9, HoldsStill
<1>3. CASE CreateFails(w)
  <2>1. \A t \in {Created(tree, u, job[w].par, NameOf(w), CreatedKind(w)) : u \in Creatable(w)} :
           Keeps(tree, t)
    BY <1>3, CreatableFacts DEF CreateFails
  <2>2. Keeps(tree, tree')
    BY <1>3, <2>1, FailureKeeps DEF CreateFails
  <2>3. CacheIsRight(tree', cache') /\ CallGoes(w)
    BY <1>3, <2>2, StillFacts DEF CreateFails, CallGoes
  <2>4. Reply(w, 500) /\ Promised(tree', Req(w), job[w].uid, 500)
    BY <1>3 DEF CreateFails, Promised
  <2> QED
    BY <2>2, <2>3, <2>4, ReplyStill
<1>4. CASE Upload(w)
  <2>1. job[w].pc = "upload" /\ UNCHANGED <<cache, call>>
        /\ CanFill(tree, job[w].uid) /\ tree' = Filled(tree, job[w].uid)
    BY <1>4 DEF Upload
  <2>2. job[w].uid \in Uids /\ Keeps(tree, tree') /\ tree'[job[w].uid].filled
    BY <1>1, <2>1, FilledStill
  <2>3. CacheIsRight(tree', cache') /\ CallGoes(w)
    BY <2>1, <2>2, StillFacts DEF CallGoes
  <2>4. Right(tree', Req(w).path, job[w].uid)
    BY <2>1, <2>2, StillFacts DEF JobIsRight, FoundPoints, Req
  <2>5. Saved(tree', Req(w).path, job[w].uid)
    BY <2>2, <2>4 DEF Saved
  <2>6. PICK f \in {"map"} : TRUE
    OBVIOUS
  <2> DEFINE j == [job[w] EXCEPT !.pc = f]
  <2>7. f \in Points
    BY DEF Points
  <2>8. Holds(j, job[w], f, job[w].uid, job[w].par, job[w].entries, job[w].stack)
    BY <1>1, <2>7, JobHolds, StepFacts DEF StillInv
  <2> HIDE DEF j
  <2>9. Becomes(w, j)
    BY <1>4 DEF Upload, Proceed, j
  <2> QED
    BY <2>1, <2>2, <2>3, <2>4, <2>5, <2>8, <2>9, HoldsStill
<1>5. CASE UploadFails(w)
  <2>1. RpcFails(Result(CanFill(tree, job[w].uid), Filled(tree, job[w].uid)))
        /\ UNCHANGED <<cache, call>> /\ Reply(w, 500)
    BY <1>5 DEF UploadFails
  <2>2. Keeps(tree, tree')
    BY <1>1, <2>1, FilledStill, FailureOfOneKeeps
  <2>3. CacheIsRight(tree', cache') /\ CallGoes(w)
    BY <2>1, <2>2, StillFacts DEF CallGoes
  <2>4. Promised(tree', Req(w), job[w].uid, 500)
    BY DEF Promised
  <2> QED
    BY <2>1, <2>2, <2>3, <2>4, ReplyStill
<1>6. CASE Map(w)
  <2>1. job[w].pc = "map" /\ UNCHANGED <<tree, call>> /\ MapPath(Subject(w), job[w].uid)
    BY <1>6 DEF Map
  <2>2. PICK s : Reply(w, s) /\ (s = 204 => Is(w, {"PUT"}))
    BY <1>6 DEF Map
  <2>3. Keeps(tree, tree') /\ CallGoes(w)
    BY <2>1, StayKeeps DEF CallGoes
  <2>4. JobIsRight(tree, job[w]) /\ JobIsRight(tree', job[w]) /\ CacheIsRight(tree', cache)
    BY <2>3, StillFacts
  <2>5. Right(tree', Req(w).path, job[w].uid)
    BY <2>1, <2>4 DEF JobIsRight, FoundPoints, Req
  <2>6. Promised(tree', Req(w), job[w].uid, s)
    BY <2>1, <2>2, <2>4 DEF JobIsRight, Promised, Req, Is
  <2>7. CacheIsRight(tree', cache')
    <3>1. Subject(w) = Req(w).path
      BY StillAsks DEF StillInv
    <3>2. job[w].uid \in Dirs
      BY <2>5 DEF Right
    <3> QED
      BY <1>1, <2>1, <2>4, <2>5, <3>1, <3>2, CacheTakes
  <2> QED
    BY <2>2, <2>3, <2>6, <2>7, ReplyStill
<1> QED
  BY <1>2, <1>3, <1>4, <1>5, <1>6 DEF Creates

LEMMA AppendFacts ==
  ASSUME NEW p \in Seq(Names), NEW n \in Names
  PROVE  LET q == Append(p, n)
         IN  q \in Seq(Names) /\ q # RootPath /\ Base(q) = n /\ Prefix(q, Len(q) - 1) = p
<1> DEFINE q == Append(p, n)
<1>1. q \in Seq(Names) /\ Len(q) = Len(p) + 1 /\ Len(p) \in Nat
      /\ q[Len(p) + 1] = n /\ \A i \in 1..Len(p) : q[i] = p[i]
  OBVIOUS
<1>2. Len(q) # 0 /\ Len(q) - 1 = Len(p) /\ Len(p) \in 0..Len(q)
  BY <1>1
<1>3. SubSeq(q, 1, Len(p)) = p
  <2>1. Len(p) + 1 >= 1
    BY <1>1
  <2> QED
    BY <1>1, <1>2
<1>4. q # RootPath
  BY <1>2, RootPathFacts
<1> HIDE DEF q
<1>5. Base(q) = n /\ Prefix(q, Len(q) - 1) = p
  BY <1>1, <1>2, <1>3 DEF Base, Prefix
<1> QED
  BY <1>1, <1>4, <1>5 DEF q

LEMMA EntryIsRight ==
  ASSUME NEW t \in Tree, NEW p \in Seq(Names), NEW d, Right(t, p, d), IsLive(t, d),
         NEW e \in Listing(t, d)
  PROVE  Right(t, Append(p, e.name), e.uid)
<1>1. PICK u \in Children(t, d) : e = [uid |-> u, kind |-> t[u].kind, name |-> t[u].name]
  BY DEF Listing
<1>2. u \in Uids /\ t[u].status = "live" /\ t[u].parent = d /\ e.uid = u /\ e.name = t[u].name
  BY <1>1 DEF Children
<1>3. e.name \in Names
  BY <1>2, NodeFacts
<1> DEFINE q == Append(p, e.name)
<1>4. q \in Seq(Names) /\ q # RootPath /\ Base(q) = e.name /\ Prefix(q, Len(q) - 1) = p
  BY <1>3, AppendFacts
<1> HIDE DEF q
<1>5. Denoted(t, q) = UNION {ChildrenNamed(t, r, e.name) : r \in Denoted(t, p)}
  BY <1>4, DenotedLast
<1>6. d \in Denoted(t, p)
  BY DEF Right
<1>7. u \in ChildrenNamed(t, d, e.name)
  BY <1>2, ChildFacts
<1>8. u \in Denoted(t, q)
  BY <1>5, <1>6, <1>7
<1> QED
  BY <1>2, <1>8, RootFacts DEF Right, q

LEMMA ReadsStill ==
  ASSUME StillInv, HandlersInv', NEW w \in Workers, Reads(w)
  PROVE  StillInv' /\ Follows(job[w], job'[w])
<1> USE DEF Does
<1>1. tree \in Tree /\ job[w] \in Job /\ CacheTypeOK /\ job[w].entries \subseteq Entry
  BY StepFacts DEF StillInv
<1>2. JobIsRight(tree, job[w])
  BY DEF StillInv
<1>3. Req(w).path \in Seq(Names)
  BY <1>1, RequestFacts DEF Req
<1>4. ASSUME NEW s \in {200, 207, 500}, Reply(w, s), UNCHANGED <<tree, call>>,
             CacheIsRight(tree, cache')
      PROVE  StillInv' /\ Follows(job[w], job'[w])
  <2>1. Promised(tree', Req(w), job[w].uid, s)
    BY DEF Promised
  <2> QED
    BY <1>4, <2>1, StayKeeps, ReplyStill DEF CallGoes
<1>5. CacheIsRight(tree, cache)
  BY DEF StillInv
<1>6. CASE Download(w) \/ ListingFails(w)
  BY <1>4, <1>5, <1>6 DEF Download, ListingFails, resolverVars
<1>7. CASE List(w)
  <2>1. job[w].pc = "list" /\ IsLive(tree, job[w].uid) /\ UNCHANGED resolverVars
    BY <1>7 DEF List
  <2> DEFINE E == {e \in Listing(tree, job[w].uid) : Append(Req(w).path, e.name) \in Paths}
  <2>2. CASE Reply(w, 207)
    BY <1>4, <1>5, <2>1, <2>2 DEF resolverVars
  <2>3. CASE Becomes(w, [job[w] EXCEPT !.pc = "map entries", !.entries = E])
    <3>1. Right(tree, Req(w).path, job[w].uid)
      BY <1>2, <2>1 DEF JobIsRight, FoundPoints, Req
    <3>2. \A e \in E : Right(tree, Append(Req(w).path, e.name), e.uid)
      BY <1>1, <1>3, <2>1, <3>1, EntryIsRight
    <3>3. E \in SUBSET Entry
      BY <1>1, ListingFacts
    <3> HIDE DEF E
    <3>4. PICK f \in {"map entries"} : TRUE
      OBVIOUS
    <3> DEFINE j == [job[w] EXCEPT !.pc = f, !.entries = E]
    <3>5. f \in Points
      BY DEF Points
    <3>6. Holds(j, job[w], f, job[w].uid, job[w].par, E, job[w].stack)
      BY <1>1, <3>3, <3>5, JobHolds, StepFacts DEF StillInv
    <3> HIDE DEF j
    <3>7. Becomes(w, j)
      BY <2>3 DEF j
    <3>8. Keeps(tree, tree') /\ CallGoes(w) /\ tree' = tree /\ CacheIsRight(tree', cache')
      BY <2>1, IdleStill
    <3> QED
      BY <2>1, <3>1, <3>2, <3>6, <3>7, <3>8, HoldsStill
  <2> QED
    BY <1>7, <2>2, <2>3 DEF List
<1>8. CASE MapEntry(w)
  <2>1. job[w].pc = "map entries" /\ UNCHANGED <<tree, call>>
    BY <1>8 DEF MapEntry
  <2>2. PICK e \in job[w].entries :
          /\ MapPath(Append(Req(w).path, e.name), e.uid)
          /\ IF job[w].entries = {e} THEN Reply(w, 207)
             ELSE Becomes(w, [job[w] EXCEPT !.entries = job[w].entries \ {e}])
    BY <1>8 DEF MapEntry
  <2>3. \A x \in job[w].entries : Right(tree, Append(Req(w).path, x.name), x.uid)
    BY <1>2, <2>1 DEF JobIsRight, Req
  <2>4. e.uid \in Dirs
    BY <2>3 DEF Right
  <2>5. CacheIsRight(tree, cache')
    BY <1>1, <1>5, <2>2, <2>3, <2>4, CacheTakes
  <2>6. CASE Reply(w, 207)
    BY <1>4, <2>1, <2>5, <2>6
  <2>7. CASE Becomes(w, [job[w] EXCEPT !.entries = job[w].entries \ {e}])
    <3> DEFINE E == job[w].entries \ {e}
               j == [job[w] EXCEPT !.entries = E]
    <3>1. E \in SUBSET Entry /\ \A x \in E : Right(tree, Append(Req(w).path, x.name), x.uid)
      BY <1>1, <2>3
    <3>2. Holds(j, job[w], job[w].pc, job[w].uid, job[w].par, E, job[w].stack)
      <4> HIDE DEF E
      <4> QED
        BY <1>1, <3>1, JobHolds, StepFacts DEF StillInv
    <3>3. Becomes(w, j)
      BY <2>7
    <3> HIDE DEF E, j
    <3>4. Right(tree, Req(w).path, job[w].uid)
      BY <1>2, <2>1 DEF JobIsRight, FoundPoints, Req
    <3>5. PICK f : f = job[w].pc /\ f = "map entries"
      BY <2>1
    <3>6. Keeps(tree, tree') /\ CallGoes(w) /\ tree' = tree
      BY <2>1, StayKeeps DEF CallGoes
    <3> QED
      BY <2>1, <2>5, <3>1, <3>2, <3>3, <3>4, <3>5, <3>6, HoldsStill
  <2> QED
    BY <2>2, <2>6, <2>7
<1> QED
  BY <1>6, <1>7, <1>8 DEF Reads

-----------------------------------------------------------------------------
(* Handlers that remove keep it *)

LEMMA OneFrame ==
  ASSUME NEW g \in Frame
  PROVE  /\ <<g>> \in Seq(Frame) /\ <<g>>[1] = g
         /\ \A i \in 1..Len(<<g>>) : <<g>>[i] = g
<1>1. <<g>> \in Seq(Frame)
  OBVIOUS
<1>2. Len(<<g>>) = 1 /\ <<g>>[1] = g
  OBVIOUS
<1> DEFINE n == Len(<<g>>)
           s == <<g>>
<1>3. n = 1 /\ s[1] = g
  BY <1>2
<1> HIDE DEF n, s
<1>4. \A i \in 1..n : s[i] = g
  BY <1>3
<1> QED
  BY <1>1, <1>2, <1>4 DEF n, s

LEMMA StatsStill ==
  ASSUME Still, StillInv, HandlersInv', NEW w \in Workers,
         StatFile(w) \/ StatDir(w) \/ StatMissing(w)
  PROVE  StillInv' /\ Follows(job[w], job'[w])
<1> USE DEF Does
<1>1. UNCHANGED resolverVars /\ job[w].pc = "stat"
  BY DEF StatFile, StatDir, StatMissing
<1>2. /\ Keeps(tree, tree') /\ CacheIsRight(tree', cache') /\ CallGoes(w)
      /\ tree' = tree /\ job[w] \in Job /\ job[w].uid \in Uids /\ job[w].stack \in Seq(Frame)
  BY <1>1, IdleStill, StepFacts DEF StillInv, JobIsPlaced
<1>3. Right(tree', Req(w).path, job[w].uid)
  BY <1>1, <1>2 DEF StillInv, JobIsRight, FoundPoints, Req
<1>4. CASE \E s \in {207, 500} : Reply(w, s)
  <2>1. PICK s \in {207, 500} : Reply(w, s)
    BY <1>4
  <2>2. Promised(tree', Req(w), job[w].uid, s)
    BY DEF Promised
  <2> QED
    BY <1>2, <2>1, <2>2, ReplyStill
<1>5. ASSUME NEW f \in {"list", "remove file"}, Proceed(w, f)
      PROVE  StillInv' /\ Follows(job[w], job'[w])
  <2> DEFINE j == [job[w] EXCEPT !.pc = f]
  <2>1. f \in Points
    BY DEF Points
  <2>2. Holds(j, job[w], f, job[w].uid, job[w].par, job[w].entries, job[w].stack)
    BY <1>2, <2>1, JobHolds, StepFacts DEF StillInv
  <2> HIDE DEF j
  <2>3. Becomes(w, j)
    BY <1>5 DEF Proceed, j
  <2> QED
    BY <1>1, <1>2, <1>3, <2>2, <2>3, HoldsStill
<1>6. CASE StartTree(w)
  <2> DEFINE g == [dir |-> job[w].uid, listed |-> FALSE, todo |-> {}]
             s == <<g>>
  <2>1. PICK f \in {"remove tree"} : TRUE
    OBVIOUS
  <2> DEFINE j == [job[w] EXCEPT !.pc = f, !.stack = s]
  <2>2. g \in Frame
    BY <1>2 DEF Frame
  <2>3. Within(tree', Req(w).path, job[w].uid)
    <3>1. Req(w).path \in Seq(Names)
      BY <1>2, RequestFacts DEF Req
    <3> QED
      BY <1>2, <1>3, <3>1, RightIsWithin
  <2>4. FrameIsRight(tree', Req(w).path, g) /\ g.dir = job[w].uid
    BY <2>3 DEF FrameIsRight
  <2> HIDE DEF g
  <2>5. s \in Seq(Frame) /\ s[1] = g /\ \A i \in 1..Len(s) : s[i] = g
    BY <2>2, OneFrame
  <2> HIDE DEF s
  <2>6. s[1].dir = job[w].uid /\ StackIsRight(tree', Req(w).path, s)
    BY <2>4, <2>5 DEF StackIsRight
  <2>7. f \in Points
    BY DEF Points
  <2>8. Holds(j, job[w], f, job[w].uid, job[w].par, job[w].entries, s)
    BY <1>2, <2>5, <2>7, JobHolds, StepFacts DEF StillInv
  <2> HIDE DEF j
  <2>9. Becomes(w, j)
    BY <1>6, <2>1 DEF StartTree, j, s, g
  <2> QED
    BY <1>1, <1>2, <1>3, <2>6, <2>8, <2>9, HoldsStill
<1>7. ~Is(w, {"COPY", "MOVE"})
  BY StillAsks DEF StillInv
<1>8. CASE StatFile(w)
  BY <1>4, <1>5, <1>8 DEF StatFile
<1>9. CASE StatDir(w)
  BY <1>5, <1>6, <1>9 DEF StatDir
<1>10. CASE StatMissing(w)
  BY <1>4, <1>5, <1>7, <1>10 DEF StatMissing
<1> QED
  BY <1>8, <1>9, <1>10

(* The removal that fails is answered with no promise. *)
LEMMA RemovalsFailStill ==
  ASSUME StillInv, HandlersInv', NEW w \in Workers,
         \/ RemoveFileFails(w) \/ ListTreeFails(w) \/ RemoveEntryFails(w) \/ RemoveEmptiedFails(w)
  PROVE  StillInv' /\ Follows(job[w], job'[w])
<1>1. Reply(w, 500) /\ UNCHANGED <<cache, call>>
  BY DEF RemoveFileFails, ListTreeFails, RemoveEntryFails, RemoveEmptiedFails, resolverVars
<1>2. tree \in Tree /\ IsRooted(tree)
  BY StepFacts DEF StillInv
<1>3. Keeps(tree, tree')
  <2>1. ASSUME NEW u, NEW can, RpcFails(Result(can, Removed(tree, u))),
               can => CanRemoveFile(tree, u) \/ CanRemoveDirectory(tree, u)
        PROVE  Keeps(tree, tree')
    BY <1>2, <2>1, RemovedStill, FailureOfOneKeeps
  <2>2. CASE RemoveFileFails(w)
    BY <2>1, <2>2 DEF RemoveFileFails
  <2>3. CASE ListTreeFails(w)
    BY <2>3, StayKeeps DEF ListTreeFails, resolverVars
  <2>4. CASE RemoveEntryFails(w)
    BY <2>1, <2>4 DEF RemoveEntryFails
  <2>5. CASE RemoveEmptiedFails(w)
    BY <2>1, <2>5 DEF RemoveEmptiedFails
  <2> QED
    BY <2>2, <2>3, <2>4, <2>5
<1>4. CacheIsRight(tree', cache') /\ CallGoes(w) /\ Promised(tree', Req(w), job[w].uid, 500)
  BY <1>1, <1>3, StillFacts DEF CallGoes, Promised
<1> QED
  BY <1>1, <1>3, <1>4, ReplyStill

LEMMA FileRemovalStill ==
  ASSUME Still, StillInv, HandlersInv', NEW w \in Workers, RemoveFile(w) \/ Drop(w)
  PROVE  StillInv' /\ Follows(job[w], job'[w])
<1> USE DEF Does
<1>1. tree \in Tree /\ IsRooted(tree) /\ job[w] \in Job /\ CacheTypeOK
  BY StepFacts DEF StillInv
<1>2. CASE RemoveFile(w)
  <2>1. /\ job[w].pc = "remove file" /\ UNCHANGED <<cache, call>>
        /\ CanRemoveFile(tree, job[w].uid) /\ tree' = Removed(tree, job[w].uid)
    BY <1>2 DEF RemoveFile
  <2>2. Keeps(tree, tree') /\ Gone(tree', job[w].uid)
    BY <1>1, <2>1, RemovedStill
  <2>3. CacheIsRight(tree', cache') /\ CallGoes(w)
    BY <2>1, <2>2, StillFacts DEF CallGoes
  <2>4. PICK f \in {"drop"} : TRUE
    OBVIOUS
  <2> DEFINE j == [job[w] EXCEPT !.pc = f]
  <2>5. f \in Points /\ f \notin FoundPoints
    BY DEF Points, FoundPoints
  <2>6. Holds(j, job[w], f, job[w].uid, job[w].par, job[w].entries, job[w].stack)
    BY <1>1, <2>5, JobHolds, StepFacts DEF StillInv
  <2> HIDE DEF j
  <2>7. Becomes(w, j)
    BY <1>2 DEF RemoveFile, Proceed, j
  <2> QED
    BY <2>1, <2>2, <2>3, <2>5, <2>6, <2>7, HoldsStill
<1>3. CASE Drop(w)
  <2>1. job[w].pc = "drop" /\ UNCHANGED tree /\ UnmapPath(Subject(w))
    BY <1>3 DEF Drop
  <2>2. Reply(w, 204) /\ UNCHANGED call /\ Is(w, {"DELETE"})
    BY <1>3, StillAsks DEF Drop, StillInv
  <2>3. Keeps(tree, tree') /\ CallGoes(w)
    BY <2>1, <2>2, StayKeeps DEF CallGoes
  <2>4. JobIsRight(tree', job[w]) /\ CacheIsRight(tree', cache)
    BY <2>3, StillFacts
  <2>5. Promised(tree', Req(w), job[w].uid, 204)
    BY <2>1, <2>2, <2>4 DEF Promised, JobIsRight, Is
  <2>6. CacheIsRight(tree', cache')
    BY <1>1, <2>1, <2>4, CacheDrops
  <2> QED
    BY <2>2, <2>3, <2>5, <2>6, ReplyStill
<1> QED
  BY <1>2, <1>3

(* The stack of activations: its top, and what may be done with it. *)
LEMMA TopIsRight ==
  ASSUME NEW t, NEW p, NEW s \in Seq(Frame), s # <<>>, StackIsRight(t, p, s)
  PROVE  s[Len(s)] \in Frame /\ FrameIsRight(t, p, s[Len(s)])
<1>1. Len(s) \in 1..Len(s)
  OBVIOUS
<1> QED
  BY <1>1 DEF StackIsRight

Topped(s, g) == [s EXCEPT ![Len(s)] = g]

LEMMA ToppedFacts ==
  ASSUME NEW s \in Seq(Frame), s # <<>>, NEW g \in Frame
  PROVE  /\ Topped(s, g) \in Seq(Frame) /\ Len(Topped(s, g)) = Len(s)
         /\ \A i \in 1..Len(s) : Topped(s, g)[i] = IF i = Len(s) THEN g ELSE s[i]
BY DEF Topped

LEMMA TopChanges ==
  ASSUME NEW t, NEW p, NEW s \in Seq(Frame), s # <<>>, StackIsRight(t, p, s),
         NEW g \in Frame, FrameIsRight(t, p, g), g.dir = s[Len(s)].dir,
         NEW q, q = Topped(s, g)
  PROVE  q \in Seq(Frame) /\ q # <<>> /\ StackIsRight(t, p, q) /\ q[1].dir = s[1].dir
<1>1. Len(s) \in Nat \ {0} /\ 1 \in 1..Len(s)
  OBVIOUS
<1>2. q \in Seq(Frame) /\ Len(q) = Len(s)
  BY ToppedFacts
<1>3. \A i \in 1..Len(s) : q[i] = IF i = Len(s) THEN g ELSE s[i]
  BY ToppedFacts
<1>4. StackIsRight(t, p, q)
  BY <1>2, <1>3 DEF StackIsRight
<1>5. q # <<>> /\ q[1].dir = s[1].dir
  BY <1>1, <1>2, <1>3
<1> QED
  BY <1>2, <1>4, <1>5

Pushed(s, g) == Append(s, g)

LEMMA StackGrows ==
  ASSUME NEW t, NEW p, NEW s \in Seq(Frame), s # <<>>, StackIsRight(t, p, s),
         NEW g \in Frame, FrameIsRight(t, p, g), NEW q, q = Pushed(s, g)
  PROVE  q \in Seq(Frame) /\ StackIsRight(t, p, q) /\ q[1] = s[1]
<1>1. Len(s) \in Nat \ {0} /\ 1 \in 1..Len(s)
  OBVIOUS
<1>2. /\ q \in Seq(Frame) /\ Len(q) = Len(s) + 1
      /\ q[Len(s) + 1] = g /\ \A i \in 1..Len(s) : q[i] = s[i]
  BY DEF Pushed
<1>3. \A i \in 1..(Len(s) + 1) : i = Len(s) + 1 \/ i \in 1..Len(s)
  BY <1>1
<1>4. StackIsRight(t, p, q)
  BY <1>2, <1>3 DEF StackIsRight
<1> QED
  BY <1>1, <1>2, <1>4

LEMMA StackShrinks ==
  ASSUME NEW t, NEW p, NEW s \in Seq(Frame), s # <<>>, StackIsRight(t, p, s),
         NEW q, q = Prefix(s, Len(s) - 1)
  PROVE  /\ q \in Seq(Frame) /\ StackIsRight(t, p, q)
         /\ IF q = <<>> THEN s[Len(s)] = s[1] ELSE q[1] = s[1]
<1>1. Len(s) - 1 \in Nat /\ \A i \in 1..(Len(s) - 1) : i \in 1..Len(s)
  OBVIOUS
<1>2. q \in Seq(Frame)
  BY StackFacts DEF Prefix
<1>3. Len(q) = Len(s) - 1 /\ \A i \in 1..(Len(s) - 1) : q[i] = s[i]
  <2>1. \A k \in Nat : k <= Len(s) =>
           Len(SubSeq(s, 1, k)) = k /\ \A i \in 1..k : SubSeq(s, 1, k)[i] = s[i]
    OBVIOUS
  <2>2. Len(s) - 1 <= Len(s)
    BY <1>1
  <2> QED
    BY <1>1, <2>1, <2>2 DEF Prefix
<1>4. StackIsRight(t, p, q)
  BY <1>1, <1>3 DEF StackIsRight
<1>5. CASE q = <<>>
  <2>1. Len(s) = 1
    BY <1>1, <1>3, <1>5
  <2> QED
    BY <1>2, <1>4, <1>5, <2>1
<1>6. CASE q # <<>>
  <2>1. 1 \in 1..(Len(s) - 1)
    BY <1>1, <1>2, <1>3, <1>6
  <2> QED
    BY <1>2, <1>3, <1>4, <1>6, <2>1
<1> QED
  BY <1>5, <1>6

(* The removal goes on with another stack. *)
LEMMA StackStill ==
  ASSUME StillInv, HandlersInv', NEW w \in Workers, Does(w, "remove tree"),
         NEW s \in Seq(Frame), Becomes(w, [job[w] EXCEPT !.stack = s]),
         s[1].dir = job[w].uid, StackIsRight(tree', Req(w).path, s),
         Keeps(tree, tree'), UNCHANGED <<cache, call>>
  PROVE  StillInv' /\ Follows(job[w], job'[w])
<1> DEFINE j == [job[w] EXCEPT !.stack = s]
<1>1. PICK f : f = job[w].pc /\ f = "remove tree"
  BY DEF Does
<1>2. Holds(j, job[w], f, job[w].uid, job[w].par, job[w].entries, s)
  BY <1>1, JobHolds, StepFacts DEF StillInv
<1>3. Becomes(w, j)
  OBVIOUS
<1> HIDE DEF j
<1>4. CacheIsRight(tree', cache') /\ CallGoes(w) /\ JobIsRight(tree', job[w])
  BY StillFacts DEF CallGoes
<1>5. Right(tree', Req(w).path, job[w].uid)
  BY <1>1, <1>4 DEF JobIsRight, FoundPoints, Req
<1> QED
  BY <1>1, <1>2, <1>3, <1>4, <1>5, HoldsStill

(* The activations of the removal that w is in. *)
LEMMA RemovalFacts ==
  ASSUME StillInv, Keeps(tree, tree'), NEW w \in Workers, Does(w, "remove tree")
  PROVE  /\ job[w].stack \in Seq(Frame) /\ job[w].stack # <<>>
         /\ job[w].stack[1].dir = job[w].uid
         /\ StackIsRight(tree, Req(w).path, job[w].stack)
         /\ StackIsRight(tree', Req(w).path, job[w].stack)
         /\ Req(w).path \in Seq(Names)
<1>1. job[w].stack \in Seq(Frame) /\ job[w].stack # <<>> /\ job[w] \in Job
  BY StepFacts DEF StillInv, JobIsPlaced, Does
<1>2. JobIsRight(tree, job[w]) /\ JobIsRight(tree', job[w])
  BY StillFacts
<1> QED
  BY <1>1, <1>2, RequestFacts DEF JobIsRight, Does, Req

(* An entry is taken from the listing of the innermost activation. *)
LEMMA WithoutStays ==
  ASSUME StillInv, Keeps(tree, tree'), NEW w \in Workers, Does(w, "remove tree"),
         NEW e \in Top(w).todo
  PROVE  LET q == WithTop(w, Without(Top(w), e))
         IN  /\ q \in Seq(Frame) /\ q # <<>>
             /\ StackIsRight(tree', Req(w).path, q) /\ q[1].dir = job[w].uid
             /\ e \in Entry /\ Within(tree', Req(w).path, e.uid)
<1> DEFINE p == Req(w).path
           s == job[w].stack
           g == Without(Top(w), e)
           q == WithTop(w, g)
<1>0. q = Topped(s, g)
  BY DEF WithTop, Topped
<1>1. Top(w) = s[Len(s)]
  BY DEF Top
<1>2. s \in Seq(Frame) /\ s # <<>> /\ s[1].dir = job[w].uid /\ StackIsRight(tree', p, s)
  BY RemovalFacts
<1> HIDE DEF p, s, q
<1>3. Top(w) \in Frame /\ FrameIsRight(tree', p, Top(w))
  BY <1>1, <1>2, TopIsRight
<1>4. e \in Entry /\ Within(tree', p, e.uid)
  BY <1>3 DEF Frame, FrameIsRight
<1>5. g \in Frame /\ g.dir = Top(w).dir /\ g.todo \subseteq Top(w).todo
  BY <1>3 DEF Without, Frame
<1> HIDE DEF g
<1>6. FrameIsRight(tree', p, g)
  BY <1>3, <1>5 DEF FrameIsRight
<1>7. q \in Seq(Frame) /\ q # <<>> /\ StackIsRight(tree', p, q) /\ q[1].dir = s[1].dir
  <2>1. g.dir = s[Len(s)].dir
    BY <1>1, <1>5
  <2> QED
    BY <1>0, <1>2, <1>5, <1>6, <2>1, TopChanges
<1> QED
  BY <1>2, <1>4, <1>7 DEF p, g, q

LEMMA TreeRemovalStill ==
  ASSUME StillInv, HandlersInv', NEW w \in Workers,
         \/ ListTree(w) \/ EnterSubtree(w) \/ RemoveEntry(w) \/ RemoveEmptied(w)
  PROVE  StillInv' /\ Follows(job[w], job'[w])
<1> DEFINE p == Req(w).path
           s == job[w].stack
<1>1. Does(w, "remove tree") /\ UNCHANGED <<cache, call>>
  BY DEF ListTree, EnterSubtree, RemoveEntry, RemoveEmptied, resolverVars
<1>2. tree \in Tree /\ IsRooted(tree) /\ job[w] \in Job
  BY StepFacts DEF StillInv
<1>3. Top(w) = s[Len(s)] /\ \A g : WithTop(w, g) = Topped(s, g)
  BY DEF Top, WithTop, Topped
<1>4. CASE ListTree(w)
  <2> DEFINE g == [Top(w) EXCEPT !.listed = TRUE, !.todo = Listing(tree, Top(w).dir)]
  <2>1. UNCHANGED resolverVars /\ IsLive(tree, Top(w).dir)
        /\ Becomes(w, [job[w] EXCEPT !.stack = WithTop(w, g)])
    BY <1>4 DEF ListTree
  <2>2. Keeps(tree, tree') /\ tree' = tree
    BY <2>1, IdleStill
  <2>3. s \in Seq(Frame) /\ s # <<>> /\ s[1].dir = job[w].uid /\ StackIsRight(tree', p, s)
        /\ p \in Seq(Names)
    BY <1>1, <2>2, RemovalFacts
  <2>4. Top(w) \in Frame /\ FrameIsRight(tree', p, Top(w))
    <3> HIDE DEF p, s
    <3> QED
      BY <1>3, <2>3, TopIsRight
  <2>5. g \in Frame /\ g.dir = Top(w).dir /\ g.todo = Listing(tree, Top(w).dir)
    BY <1>2, <2>4, ListingFacts DEF Frame
  <2> HIDE DEF g
  <2>6. Within(tree, p, g.dir) /\ g.dir \in Uids
    BY <2>2, <2>4, <2>5 DEF FrameIsRight, Within
  <2>7. tree[g.dir].status = "live"
    BY <2>1, <2>5, <2>6, RootFacts DEF IsLive
  <2>8. \A e \in g.todo : Within(tree, p, e.uid)
    <3> SUFFICES ASSUME NEW e \in g.todo PROVE Within(tree, p, e.uid)
      OBVIOUS
    <3>1. e.uid \in Children(tree, g.dir)
      BY <2>5 DEF Listing
    <3> HIDE DEF p
    <3> QED
      BY <2>3, <2>6, <2>7, <3>1, ChildIsWithin
  <2>9. FrameIsRight(tree', p, g)
    BY <2>2, <2>6, <2>8 DEF FrameIsRight
  <2> DEFINE q == WithTop(w, g)
  <2>10. q \in Seq(Frame) /\ StackIsRight(tree', p, q) /\ q[1].dir = job[w].uid
    <3> HIDE DEF p, s
    <3> QED
      BY <1>3, <2>3, <2>5, <2>9, TopChanges
  <2>11. Becomes(w, [job[w] EXCEPT !.stack = q])
    BY <2>1 DEF g
  <2> HIDE DEF q
  <2> QED
    BY <1>1, <2>2, <2>10, <2>11, StackStill
<1>5. CASE EnterSubtree(w)
  <2>1. UNCHANGED resolverVars
    BY <1>5 DEF EnterSubtree
  <2>2. PICK e \in Top(w).todo :
          Becomes(w, [job[w] EXCEPT !.stack =
            Append(WithTop(w, Without(Top(w), e)), [dir |-> e.uid, listed |-> FALSE, todo |-> {}])])
    BY <1>5 DEF EnterSubtree
  <2>3. Keeps(tree, tree') /\ tree' = tree
    BY <2>1, IdleStill
  <2> DEFINE g == Without(Top(w), e)
             r == WithTop(w, g)
             h == [dir |-> e.uid, listed |-> FALSE, todo |-> {}]
  <2>4. /\ r \in Seq(Frame) /\ r # <<>> /\ StackIsRight(tree', p, r) /\ r[1].dir = job[w].uid
        /\ e \in Entry /\ Within(tree', p, e.uid)
    BY <1>1, <2>3, WithoutStays
  <2>5. h \in Frame /\ FrameIsRight(tree', p, h)
    <3>1. h \in Frame
      BY <2>4 DEF Frame, Entry
    <3> QED
      BY <2>4, <3>1 DEF FrameIsRight
  <2> DEFINE q == Append(r, h)
  <2>6. Becomes(w, [job[w] EXCEPT !.stack = q])
    BY <2>2
  <2>7. q = Pushed(r, h)
    BY DEF Pushed
  <2> HIDE DEF p, r, h, q
  <2>8. q \in Seq(Frame) /\ StackIsRight(tree', p, q) /\ q[1] = r[1]
    <3>1. r \in Seq(Frame) /\ r # <<>> /\ StackIsRight(tree', p, r)
      BY <2>4
    <3>2. h \in Frame /\ FrameIsRight(tree', p, h)
      BY <2>5
    <3> QED
      BY <3>1, <3>2, <2>7, StackGrows
  <2> QED
    BY <1>1, <2>3, <2>4, <2>6, <2>8, StackStill DEF p
<1>6. CASE RemoveEntry(w)
  <2>1. PICK e \in Top(w).todo :
          /\ CanRemoveFile(tree, e.uid) /\ tree' = Removed(tree, e.uid)
          /\ Becomes(w, [job[w] EXCEPT !.stack = WithTop(w, Without(Top(w), e))])
    BY <1>6 DEF RemoveEntry
  <2>2. Keeps(tree, tree')
    BY <1>2, <2>1, RemovedStill
  <2> DEFINE q == WithTop(w, Without(Top(w), e))
  <2>3. q \in Seq(Frame) /\ StackIsRight(tree', p, q) /\ q[1].dir = job[w].uid
    BY <1>1, <2>2, WithoutStays
  <2>4. Becomes(w, [job[w] EXCEPT !.stack = q])
    BY <2>1
  <2> HIDE DEF q
  <2> QED
    BY <1>1, <2>2, <2>3, <2>4, StackStill
<1>7. CASE RemoveEmptied(w)
  <2> DEFINE q == Prefix(s, Len(s) - 1)
  <2>1. /\ CanRemoveDirectory(tree, Top(w).dir) /\ tree' = Removed(tree, Top(w).dir)
        /\ Becomes(w, [job[w] EXCEPT !.stack = q, !.pc = IF q = <<>> THEN "drop" ELSE job[w].pc])
    BY <1>7 DEF RemoveEmptied
  <2>2. Keeps(tree, tree') /\ Gone(tree', Top(w).dir)
    BY <1>2, <2>1, RemovedStill
  <2>3. s \in Seq(Frame) /\ s # <<>> /\ s[1].dir = job[w].uid /\ StackIsRight(tree', p, s)
    BY <1>1, <2>2, RemovalFacts
  <2>4. /\ q \in Seq(Frame) /\ StackIsRight(tree', p, q)
        /\ IF q = <<>> THEN s[Len(s)] = s[1] ELSE q[1] = s[1]
    <3> HIDE DEF p, s
    <3> QED
      BY <2>3, StackShrinks
  <2> HIDE DEF q
  <2>5. PICK f \in {"drop", "remove tree"} :
          /\ Becomes(w, [job[w] EXCEPT !.stack = q, !.pc = f])
          /\ f = "drop" <=> q = <<>>
    BY <1>1, <2>1 DEF Does
  <2>6. f = "drop" => Gone(tree', job[w].uid)
    BY <1>3, <2>2, <2>3, <2>4, <2>5
  <2>7. f = "remove tree" => q[1].dir = job[w].uid /\ StackIsRight(tree', p, q)
    BY <2>3, <2>4, <2>5
  <2> DEFINE j == [job[w] EXCEPT !.stack = q, !.pc = f]
  <2>8. f \in Points
    BY DEF Points
  <2>9. Holds(j, job[w], f, job[w].uid, job[w].par, job[w].entries, q)
    BY <1>2, <2>4, <2>8, JobHolds, StepFacts DEF StillInv
  <2>10. Becomes(w, j)
    BY <2>5
  <2> HIDE DEF j
  <2>11. CacheIsRight(tree', cache') /\ CallGoes(w) /\ JobIsRight(tree', job[w])
    BY <1>1, <2>2, StillFacts DEF CallGoes
  <2>12. Right(tree', p, job[w].uid)
    BY <1>1, <2>11 DEF JobIsRight, FoundPoints, Req, Does
  <2>13. job[w].pc \notin {"idle", "replied"}
    BY <1>1 DEF Does
  <2> QED
    BY <2>2, <2>5, <2>6, <2>7, <2>9, <2>10, <2>11, <2>12, <2>13, HoldsStill
<1> QED
  BY <1>4, <1>5, <1>6, <1>7

LEMMA RemovesStill ==
  ASSUME Still, StillInv, HandlersInv', NEW w \in Workers, Removes(w)
  PROVE  StillInv' /\ Follows(job[w], job'[w])
BY StatsStill, RemovalsFailStill, FileRemovalStill, TreeRemovalStill DEF Removes

-----------------------------------------------------------------------------
(* Every step keeps it *)

LEMMA AnswersStill ==
  ASSUME Still, StillInv, HandlersInv', NEW w \in Workers, Answers(w)
  PROVE  StillInv' /\ Follows(job[w], job'[w])
<1>1. job[w].pc \notin RelocatingPoints
  BY StillAsks DEF StillInv
<1>2. ~(\/ DestFound(w) \/ DestFree(w) \/ SourceMissing(w) \/ SourceFound(w)
        \/ DestParentMissing(w) \/ DestParentFound(w))
  BY <1>1 DEF DestFound, DestFree, SourceMissing, SourceFound, DestParentMissing,
         DestParentFound, Answer, Does, RelocatingPoints
<1> QED
  BY <1>2, TargetAnswersStill, ParentAnswersStill DEF Answers

LEMMA NothingRelocates ==
  ASSUME Still, HandlersInv, NEW w \in Workers
  PROVE  ~Relocates(w)
<1>1. job[w].pc \notin RelocatingPoints
  BY StillAsks
<1> QED
  BY <1>1 DEF Relocates, ListBefore, Copy, CopyFails, ListAfter, ListAfterFails, Rename,
         RenameFails, Move, MoveFails, Forget, Does, RelocatingPoints

LEMMA HandlerStepStill ==
  ASSUME Still, StillInv, HandlersInv', NEW w \in Workers, HandlerStep(w)
  PROVE  StillInv' /\ Follows(job[w], job'[w])
<1>1. CASE Resolve(w)
  <2>1. job' = job
    BY <1>1 DEF Resolve
  <2> QED
    BY <1>1, <2>1, ResolveStill DEF Follows
<1>2. ~Relocates(w)
  BY NothingRelocates DEF StillInv
<1> QED
  BY <1>1, <1>2, AnswersStill, CreatesStill, RemovesStill, ReadsStill DEF HandlerStep

LEMMA NoForeign ==
  ASSUME Still, HandlersInv
  PROVE  ~Foreign
<1>1. foreign \in Nat
  BY DEF HandlersInv, JobTypeOK, TypeOK
<1> QED
  BY <1>1 DEF Foreign, Still

LEMMA NextStill ==
  ASSUME Still, StillInv, [HandlerNext]_handlerVars
  PROVE  /\ StillInv'
         /\ \A v \in Workers : Does(v, "idle") \/ Follows(job[v], job'[v])
<1>1. HandlersInv /\ HandlersInv'
  BY NextInv DEF StillInv
<1>2. CASE UNCHANGED handlerVars
  BY <1>2 DEF handlerVars, resolverVars, StillInv, HandlersInv, JobTypeOK, TypeOK, Follows
<1>3. ASSUME NEW w \in Workers, NEW r \in Requests, Receive(w, r) \/ TurnAway(w, r)
      PROVE  /\ StillInv'
             /\ \A v \in Workers : Does(v, "idle") \/ Follows(job[v], job'[v])
  <2>1. Does(w, "idle") /\ \E j : Becomes(w, j)
    BY <1>3 DEF Receive, TurnAway
  <2>2. job \in [Workers -> Job]
    BY <1>1 DEF HandlersInv, JobTypeOK
  <2>3. \A v \in Workers \ {w} : job'[v] = job[v]
    BY <2>1, <2>2 DEF Becomes
  <2> QED
    BY <1>1, <1>3, <2>1, <2>3, ReceiveStill, TurnAwayStill DEF Follows
<1>4. ASSUME NEW w \in Workers, Leave(w)
      PROVE  /\ StillInv'
             /\ \A v \in Workers : Does(v, "idle") \/ Follows(job[v], job'[v])
  <2>1. Becomes(w, NoJob) /\ job \in [Workers -> Job]
    BY <1>1, <1>4 DEF Leave, HandlersInv, JobTypeOK
  <2>2. /\ job'[w].pc = "idle"
        /\ \A v \in Workers \ {w} : job'[v] = job[v]
    BY <2>1 DEF Becomes, NoJob
  <2> QED
    BY <1>1, <1>4, <2>2, LeaveStill DEF Follows
<1>5. ASSUME NEW w \in Workers, HandlerStep(w)
      PROVE  /\ StillInv'
             /\ \A v \in Workers : Does(v, "idle") \/ Follows(job[v], job'[v])
  <2>1. StillInv' /\ Follows(job[w], job'[w])
    BY <1>1, <1>5, HandlerStepStill
  <2>2. \A v \in Workers \ {w} : job'[v] = job[v]
    BY <1>1, <1>5, StepIsOwn
  <2> QED
    BY <2>1, <2>2 DEF Follows
<1> QED
  BY <1>1, <1>2, <1>3, <1>4, <1>5, NoForeign DEF HandlerNext

LEMMA InitStill == JobInit => StillInv
<1> SUFFICES ASSUME JobInit PROVE StillInv
  OBVIOUS
<1>1. HandlersInv
  BY InitInv
<1>2. IsRooted(tree)
  BY InitTreeIsSound DEF JobInit, Init
<1>3. CacheIsRight(tree, cache)
  BY DEF JobInit, Init, CacheIsRight
<1>4. JobIsRight(tree, NoJob)
  BY DEF JobIsRight, NoJob, NeedsParent, FoundPoints
<1>5. CallIsRight(tree, NoCall) /\ AsksForParent(NoJob, NoCall)
  BY DEF CallIsRight, NoCall, AsksForParent, NoJob
<1> QED
  BY <1>1, <1>2, <1>3, <1>4, <1>5 DEF JobInit, Init, StillInv

(* A DELETE that is being served has covered all that its path leads to.   *)
Covers(j, S, t) ==
  j.pc \notin {"idle", "replied"} /\ j.req.method = "DELETE" => Below(t, j.req.path) \subseteq S

CoversInv == \A w \in Workers : Covers(job[w], under[w], tree)

SubjectInv == StillInv /\ CoversInv

LEMMA SubjectNext ==
  ASSUME Still, SubjectInv, [CNext]_vars
  PROVE  SubjectInv'
<1>1. CASE UNCHANGED vars
  <2>1. UNCHANGED handlerVars /\ under' = under /\ tree' = tree /\ job' = job
    BY <1>1 DEF vars, handlerVars, resolverVars
  <2> QED
    BY <2>1, NextStill DEF SubjectInv, CoversInv
<1>2. CASE HandlerNext /\ History
  <2>1. StillInv' /\ \A v \in Workers : Does(v, "idle") \/ Follows(job[v], job'[v])
    BY <1>2, NextStill DEF SubjectInv
  <2>2. ASSUME NEW w \in Workers PROVE Covers(job'[w], under'[w], tree')
    <3>1. under'[w] = Seen(w, job'[w])
      BY <1>2 DEF History
    <3> SUFFICES ASSUME job'[w].pc \notin {"idle", "replied"}, job'[w].req.method = "DELETE"
                 PROVE  Below(tree', job'[w].req.path) \subseteq Seen(w, job'[w])
      BY <3>1 DEF Covers
    <3>2. Removing(job'[w].req)
      BY DEF Removing
    <3>3. CASE Does(w, "idle") \/ tree' # tree
      BY <3>2, <3>3 DEF Seen
    <3>4. CASE ~Does(w, "idle") /\ tree' = tree
      <4>1. Seen(w, job'[w]) = under[w]
        BY <3>2, <3>4 DEF Seen
      <4>2. job[w].pc \notin {"idle", "replied"} /\ job'[w].req = job[w].req
        BY <2>1, <3>4 DEF Follows
      <4> QED
        BY <3>4, <4>1, <4>2 DEF SubjectInv, CoversInv, Covers
    <3> QED
      BY <3>3, <3>4
  <2> QED
    BY <2>1, <2>2 DEF SubjectInv, CoversInv
<1> QED
  BY <1>1, <1>2 DEF CNext

LEMMA SubjectInit == CInit => SubjectInv
<1> SUFFICES ASSUME CInit PROVE SubjectInv
  OBVIOUS
<1>1. StillInv
  BY InitStill DEF CInit
<1>2. \A w \in Workers : job[w].pc = "idle"
  BY DEF CInit, JobInit, NoJob
<1> QED
  BY <1>1, <1>2 DEF SubjectInv, CoversInv, Covers

LEMMA BelowIsWithin ==
  ASSUME NEW t \in Tree, IsRooted(t), NEW p \in Seq(Names), NEW x, Within(t, p, x),
         NEW u \in Subtree(t, x), t[u].status = "live"
  PROVE  u \in Below(t, p)
<1>1. x \in Uids /\ x \in Dirs
  BY DirsFacts DEF Within
<1>2. u \in Uids
  BY <1>1, NoRootBelow
<1>3. Kept(t, t)
  BY DEF Kept
<1>4. IsLive(t, x)
  BY <1>1, <1>2, <1>3, SubtreeKept DEF IsLive
<1>5. x \in Below(t, p)
  BY <1>1, <1>4, RootIsNoNode DEF Within, IsLive
<1>6. PICK v \in Denoted(t, p) : x \in Subtree(t, v)
  BY <1>5 DEF Below
<1>7. v \in Dirs
  BY DenotedType DEF Dirs
<1>8. Subtree(t, x) \subseteq Subtree(t, v)
  BY <1>6, <1>7, SubtreeHolds, SubtreeIsLeast
<1> QED
  BY <1>6, <1>8 DEF Below

(* What a removal ends is at or below what the request's path leads to.    *)
LEMMA EndsWithin ==
  ASSUME Still, StillInv, NEW w \in Workers, HandlerStep(w), NEW u \in Uids, Dies(u)
  PROVE  /\ job[w].pc \notin {"idle", "replied"} /\ job[w].req.method = "DELETE"
         /\ u \in Below(tree, job[w].req.path)
<1>1. HandlersInv /\ tree \in Tree /\ job[w] \in Job
  BY StepFacts DEF StillInv
<1>2. tree[u].status = "live" /\ tree'[u].status = "gone" /\ tree' # tree
  BY DEF Dies
<1>3. ~IsGentle(tree')
  BY <1>2 DEF IsGentle, Ends
<1>4. MayRemove(Req(w)) /\ Removes(w)
  <2>1. MayRemove(Req(w))
    BY <1>1, <1>3, HandlerStepInv
  <2>2. ~(Answers(w) \/ Creates(w) \/ Reads(w) \/ Relocates(w))
    BY <1>1, <1>3, AnswersInv, CreatesInv, ReadsInv, RelocatesInv
  <2>3. ~Resolve(w)
    BY <1>2 DEF Resolve, ResolveStep, LookupHit, LookupMiss, VerifyHit, VerifyMiss, Evict,
         ListFound, ListMissing, MapPrefix
  <2> QED
    BY <2>1, <2>2, <2>3 DEF HandlerStep
<1>5. job[w].req.method = "DELETE"
  BY <1>1, <1>4, StillAsks DEF MayRemove, Is, Req
<1>6. \A x, s : s = Removed(tree, x) /\ tree' = s => u \in Subtree(tree, x)
  BY <1>1, <1>2, NodesGone
<1>7. \A can, x : RpcFails(Result(can, Removed(tree, x))) => u \in Subtree(tree, x)
  BY <1>2, <1>6 DEF RpcFails, Result
<1>8. ~UNCHANGED resolverVars
  BY <1>2 DEF resolverVars
<1>9. \A x : Within(tree, job[w].req.path, x) /\ u \in Subtree(tree, x)
                => u \in Below(tree, job[w].req.path)
  BY <1>1, <1>2, RequestFacts, BelowIsWithin DEF StillInv
<1>10. CASE RemoveFile(w) \/ RemoveFileFails(w)
  <2>1. job[w].pc = "remove file" /\ u \in Subtree(tree, job[w].uid)
    BY <1>6, <1>7, <1>10 DEF RemoveFile, RemoveFileFails, Does
  <2>2. Right(tree, job[w].req.path, job[w].uid)
    BY <2>1 DEF StillInv, JobIsRight, FoundPoints
  <2>3. Within(tree, job[w].req.path, job[w].uid)
    <3>1. CanRemoveFile(tree, job[w].uid)
      BY <1>2, <1>10 DEF RemoveFile, RemoveFileFails, RpcFails, Result
    <3>2. job[w].uid \in Uids
      BY <3>1 DEF CanRemoveFile, IsFile
    <3> QED
      BY <1>1, <2>2, <3>2, RequestFacts, RightIsWithin
  <2> QED
    BY <1>2, <1>5, <1>9, <2>1, <2>3
<1>11. CASE RemoveEntry(w) \/ RemoveEntryFails(w) \/ RemoveEmptied(w) \/ RemoveEmptiedFails(w)
  <2>1. Does(w, "remove tree")
    BY <1>11 DEF RemoveEntry, RemoveEntryFails, RemoveEmptied, RemoveEmptiedFails
  <2>2. \/ u \in Subtree(tree, Top(w).dir)
        \/ \E e \in Top(w).todo : u \in Subtree(tree, e.uid)
    <3>1. CASE RemoveEntry(w)
      <4>1. PICK e \in Top(w).todo : tree' = Removed(tree, e.uid)
        BY <3>1 DEF RemoveEntry
      <4> QED
        BY <1>6, <4>1
    <3>2. CASE RemoveEntryFails(w)
      BY <1>7, <3>2 DEF RemoveEntryFails
    <3>3. CASE RemoveEmptied(w)
      <4>1. tree' = Removed(tree, Top(w).dir)
        BY <3>3 DEF RemoveEmptied
      <4> QED
        BY <1>6, <4>1
    <3>4. CASE RemoveEmptiedFails(w)
      BY <1>7, <3>4 DEF RemoveEmptiedFails
    <3> QED
      BY <1>11, <3>1, <3>2, <3>3, <3>4
  <2>3. FrameIsRight(tree, job[w].req.path, Top(w))
    <3>1. StackIsRight(tree, job[w].req.path, job[w].stack)
      BY <2>1 DEF StillInv, JobIsRight, Does
    <3>2. job[w].stack \in Seq(Frame) /\ job[w].stack # <<>>
      BY <1>1, <2>1, StepFacts DEF JobIsPlaced, Does
    <3> QED
      BY <3>1, <3>2, TopIsRight DEF Top
  <2>4. /\ Within(tree, job[w].req.path, Top(w).dir)
        /\ \A e \in Top(w).todo : Within(tree, job[w].req.path, e.uid)
    BY <2>3 DEF FrameIsRight
  <2> QED
    BY <1>2, <1>5, <1>9, <2>1, <2>2, <2>4 DEF Does
<1> QED
  BY <1>2, <1>4, <1>8, <1>10, <1>11 DEF Removes, StatFile, StatDir, StatMissing, ListTree,
     ListTreeFails, EnterSubtree, Drop

-----------------------------------------------------------------------------
(* What follows from it *)

LEMMA SpecStaysStill ==
  ASSUME Still
  PROVE  Spec => []SubjectInv
<1>1. CInit => SubjectInv
  BY SubjectInit
<1>2. SubjectInv /\ [CNext]_vars => SubjectInv'
  BY SubjectNext
<1> QED
  BY <1>1, <1>2, PTL DEF Spec

(* While nothing is renamed, moved or copied, and nobody else writes, a    *)
(* cached node that is live is what its path leads to (resolvePath, and    *)
(* every createPathMapping of the handlers): no order of the threads' late *)
(* updates of the map makes it wrong.                                      *)
THEOREM CacheStaysExact ==
  ASSUME Still
  PROVE  Spec => []CacheIsExact
<1>1. SubjectInv => CacheIsExact
  <2> SUFFICES ASSUME SubjectInv, NEW p \in Paths, cache[p] \in Uids, IsLive(tree, cache[p])
               PROVE  Denotes(tree, p, cache[p])
    BY DEF CacheIsExact
  <2> QED
    BY NoUidIsNoUid DEF SubjectInv, StillInv, CacheIsRight, Right, Denotes
<1> QED
  BY <1>1, SpecStaysStill, PTL

(* Then a PUT that is answered with success has its body where its path    *)
(* leads, until a DELETE takes it away (handlePut).                        *)
THEOREM PutsAreThere ==
  ASSUME Still
  PROVE  Spec => []SavedIsThere
<1>1. SubjectInv => SavedIsThere
  <2> SUFFICES ASSUME SubjectInv, NEW w \in Workers, Replied(w, "PUT", {201, 204}),
                      tree[job[w].uid].status # "gone"
               PROVE  tree[job[w].uid].filled /\ Denotes(tree, Req(w).path, job[w].uid)
    BY DEF SavedIsThere
  <2>1. Saved(tree, job[w].req.path, job[w].uid)
    BY DEF SubjectInv, StillInv, JobIsRight, Promised, Replied, Does, Req
  <2>2. tree \in Tree
    BY StepFacts DEF SubjectInv, StillInv
  <2>3. tree[job[w].uid].status = "live"
    BY <2>1, <2>2, NodeFacts DEF Saved, Right
  <2> QED
    BY <2>1, <2>3 DEF Saved, Right, IsLive, Denotes, Req
<1> QED
  BY <1>1, SpecStaysStill, PTL

(* Then a DELETE that is answered with success has removed the node and    *)
(* all that was in it, whatever others create there meanwhile              *)
(* (handleDelete, removeTreeRecursive).                                    *)
THEOREM DeletesAreDone ==
  ASSUME Still
  PROVE  Spec => []DeletedIsGone
<1>1. SubjectInv => DeletedIsGone
  <2> SUFFICES ASSUME SubjectInv, NEW w \in Workers, Replied(w, "DELETE", {204})
               PROVE  tree[job[w].uid].status = "gone" /\ Children(tree, job[w].uid) = {}
    BY DEF DeletedIsGone
  <2>1. Gone(tree, job[w].uid)
    BY DEF SubjectInv, StillInv, JobIsRight, Promised, Replied, Does, Req
  <2>2. \A v \in Uids : tree[v].status = "live" => tree[v].parent # job[w].uid
    BY <2>1, RootIsNoNode DEF SubjectInv, StillInv, IsRooted, CanHold, IsDir, IsFile, Gone
  <2> QED
    BY <2>1, <2>2 DEF Gone, Children
<1> QED
  BY <1>1, SpecStaysStill, PTL

(* Then a DELETE removes nothing but what its path led to, or what was     *)
(* below it, at some instant of the request, however the listings and the  *)
(* removals of several requests interleave.                                *)
THEOREM DeletesOnlyTheirSubject ==
  ASSUME Still
  PROVE  Spec => RemovesOnlyItsSubject
<1> DEFINE A == \A w \in Workers : Acts(w) => \A u \in Uids : Dies(u) => u \in under[w]
<1>1. SubjectInv /\ [CNext]_vars => [A]_vars
  <2> SUFFICES ASSUME SubjectInv, HandlerNext, NEW v \in Workers, Acts(v),
                      NEW u \in Uids, Dies(u)
               PROVE  u \in under[v]
    BY DEF CNext
  <2>1. tree' # tree /\ HandlersInv
    BY DEF Dies, SubjectInv, StillInv
  <2>2. PICK w \in Workers : HandlerStep(w)
    BY <2>1, NoForeign DEF HandlerNext, Receive, TurnAway, Leave, resolverVars
  <2>3. v = w
    BY <2>1, <2>2, StepIsOwn DEF Acts
  <2>4. Covers(job[w], under[w], tree)
    BY DEF SubjectInv, CoversInv
  <2> QED
    BY <2>2, <2>3, <2>4, EndsWithin DEF SubjectInv, Covers
<1> QED
  BY <1>1, SpecStaysStill, PTL DEF Spec, RemovesOnlyItsSubject

-----------------------------------------------------------------------------
(***************************************************************************)
(* The third part: while nothing is copied, the names in a directory       *)
(* differ, and no step leads a path that led somewhere to another node.    *)
(***************************************************************************)

LEMMA CreatedIsOrderly ==
  ASSUME UniqueNames, HandlersInv, IsRooted(tree), NEW w \in Workers,
         job[w].pc \in {"touch", "mkdir"}, NEW u \in Creatable(w)
  PROVE  Orderly(tree, Created(tree, u, job[w].par, NameOf(w), CreatedKind(w)))
<1>1. u \in Uids /\ CanCreate(tree, u, job[w].par, NameOf(w), CreatedKind(w))
  BY DEF Creatable
<1>2. job[w].par \in Dirs
  BY <1>1, HolderFacts DEF CanCreate
<1>3. NameOf(w) \in Names
  BY StepFacts, JobFacts DEF JobIsPlaced, Req
<1>4. CreatedKind(w) \in Kinds
  BY DEF CreatedKind, Kinds
<1> QED
  BY <1>1, <1>2, <1>3, <1>4, StepFacts, CoreStaysRooted, CreatedBrings DEF Orderly

LEMMA FailureIsOrderly ==
  ASSUME IsRooted(tree), NEW can, NEW t, RpcFails(Result(can, t)), can => Orderly(tree, t)
  PROVE  Orderly(tree, tree')
BY StayIsOrderly DEF RpcFails, Result

LEMMA CreatesOrderly ==
  ASSUME UniqueNames, HandlersInv, IsRooted(tree), NEW w \in Workers, Creates(w)
  PROVE  Orderly(tree, tree')
<1>1. CASE Create(w)
  BY <1>1, CreatedIsOrderly DEF Create
<1>2. CASE CreateFails(w)
  <2>1. \A t \in {Created(tree, u, job[w].par, NameOf(w), CreatedKind(w)) : u \in Creatable(w)} :
           Orderly(tree, t)
    BY <1>2, CreatedIsOrderly DEF CreateFails
  <2> QED
    BY <1>2, <2>1, StayIsOrderly DEF CreateFails, RpcFails
<1>3. CASE Upload(w) \/ UploadFails(w)
  BY <1>3, StepFacts, FilledIsOrderly, FailureIsOrderly DEF Upload, UploadFails
<1>4. CASE Map(w)
  BY <1>4, StayIsOrderly DEF Map
<1> QED
  BY <1>1, <1>2, <1>3, <1>4 DEF Creates

LEMMA RemovesOrderly ==
  ASSUME HandlersInv, IsRooted(tree), NEW w \in Workers, Removes(w)
  PROVE  Orderly(tree, tree')
<1>1. CASE UNCHANGED tree
  BY <1>1, StayIsOrderly
<1>2. CASE RemoveFile(w)
  BY <1>2, StepFacts, RemovedIsOrderly DEF RemoveFile
<1>3. CASE RemoveFileFails(w)
  BY <1>3, StepFacts, RemovedIsOrderly, FailureIsOrderly DEF RemoveFileFails
<1>4. CASE RemoveEntry(w)
  <2>1. PICK e \in Top(w).todo : CanRemoveFile(tree, e.uid) /\ tree' = Removed(tree, e.uid)
    BY <1>4 DEF RemoveEntry
  <2> QED
    BY <2>1, StepFacts, RemovedIsOrderly
<1>5. CASE RemoveEntryFails(w)
  <2>1. PICK e \in Top(w).todo : RpcFails(Result(CanRemoveFile(tree, e.uid), Removed(tree, e.uid)))
    BY <1>5 DEF RemoveEntryFails
  <2> QED
    BY <2>1, StepFacts, RemovedIsOrderly, FailureIsOrderly
<1>6. CASE RemoveEmptied(w)
  <2>1. CanRemoveDirectory(tree, Top(w).dir) /\ tree' = Removed(tree, Top(w).dir)
    BY <1>6 DEF RemoveEmptied
  <2> QED
    BY <2>1, StepFacts, RemovedIsOrderly
<1>7. CASE RemoveEmptiedFails(w)
  BY <1>7, StepFacts, RemovedIsOrderly, FailureIsOrderly DEF RemoveEmptiedFails
<1> QED
  BY <1>1, <1>2, <1>3, <1>4, <1>5, <1>6, <1>7 DEF Removes, StatFile, StatDir, StatMissing,
     ListTree, ListTreeFails, EnterSubtree, Drop, resolverVars

CopiesNothing == \A r \in Requests : r.method # "COPY"

LEMMA RelocatesOrderly ==
  ASSUME UniqueNames, CopiesNothing, HandlersInv, IsRooted(tree), NEW w \in Workers, Relocates(w)
  PROVE  Orderly(tree, tree')
<1>1. job[w].req \in Requests \cup {NoRequest} /\ JobIsPlaced(job[w])
  BY StepFacts DEF Job
<1>2. job[w].pc \notin {"before", "copy", "after"}
  <2>1. job[w].req.method # "COPY"
    BY <1>1 DEF CopiesNothing, NoRequest
  <2> QED
    BY <1>1, <2>1, Zenon DEF JobIsPlaced
<1>3. ~(ListBefore(w) \/ Copy(w) \/ CopyFails(w) \/ ListAfter(w) \/ ListAfterFails(w))
  BY <1>2 DEF ListBefore, Copy, CopyFails, ListAfter, ListAfterFails, Does
<1>4. job[w].pc \in RelocatingPoints => Is(w, {"COPY", "MOVE"})
  BY <1>1 DEF JobIsPlaced, Is, Req
<1>5. job[w].pc = "rename" => DestName(w) \in Names
  BY <1>4, StepFacts, JobFacts DEF RelocatingPoints
<1>6. CASE Rename(w) \/ RenameFails(w)
  <2>1. DestName(w) \in Names
    BY <1>5, <1>6 DEF Rename, RenameFails, Does
  <2> QED
    BY <1>6, <2>1, StepFacts, RenamedIsOrderly, FailureIsOrderly DEF Rename, RenameFails
<1>7. CASE Move(w) \/ MoveFails(w)
  BY <1>7, StepFacts, MovedIsOrderly, FailureIsOrderly DEF Move, MoveFails
<1>8. CASE Forget(w)
  BY <1>8, StayIsOrderly DEF Forget
<1> QED
  BY <1>3, <1>6, <1>7, <1>8 DEF Relocates

LEMMA HandlerStepOrderly ==
  ASSUME UniqueNames, CopiesNothing, HandlersInv, IsRooted(tree), NEW w \in Workers, HandlerStep(w)
  PROVE  Orderly(tree, tree')
<1>1. CASE Resolve(w) \/ Answers(w) \/ Reads(w)
  <2>1. Resolve(w) => UNCHANGED tree
    BY DEF Resolve, ResolveStep, LookupHit, LookupMiss, VerifyHit, VerifyMiss, Evict,
       ListFound, ListMissing, MapPrefix
  <2>2. Answers(w) => UNCHANGED tree
    BY DEF Answers, TargetMissing, DeleteOfRoot, TargetFound, ParentMissing, ParentFound,
       PutTargetMissing, DestFound, DestFree, SourceMissing, SourceFound,
       DestParentMissing, DestParentFound
  <2>3. Reads(w) => UNCHANGED tree
    BY DEF Reads, Download, List, ListingFails, MapEntry, resolverVars
  <2> QED
    BY <1>1, <2>1, <2>2, <2>3, StayIsOrderly
<1> QED
  BY <1>1, CreatesOrderly, RemovesOrderly, RelocatesOrderly DEF HandlerStep

OrderInv == HandlersInv /\ IsRooted(tree) /\ SiblingsDiffer(tree)

LEMMA OrderNext ==
  ASSUME UniqueNames, CopiesNothing, OrderInv, [HandlerNext]_handlerVars
  PROVE  OrderInv' /\ Orderly(tree, tree')
<1>1. HandlersInv' /\ tree \in Tree
  BY NextInv DEF OrderInv, HandlersInv, JobTypeOK, TypeOK
<1>2. Orderly(tree, tree')
  <2>1. CASE UNCHANGED tree
    BY <2>1, StayIsOrderly DEF OrderInv
  <2>2. CASE \E w \in Workers : HandlerStep(w)
    BY <2>2, HandlerStepOrderly DEF OrderInv
  <2>3. CASE Foreign
    BY <1>1, <2>3, ForeignKeepsOrder DEF Foreign, Orderly, OrderInv
  <2> QED
    BY <2>1, <2>2, <2>3 DEF HandlerNext, Receive, TurnAway, Leave, handlerVars, resolverVars
<1> QED
  BY <1>1, <1>2, BroughtIsFresh DEF OrderInv, Orderly

(* With Overwrite: F nothing is ever removed, and a MOVE brings no node to *)
(* a destination that has one (prepareDestination, handleMove): whatever   *)
(* fails, and whatever other requests and other clients make, rename or    *)
(* move in its way after the destination was found free.  It rests on the  *)
(* service's unique names; a COPY would break them until its copy is       *)
(* renamed.                                                                *)
THEOREM MovesAreGentle ==
  ASSUME UniqueNames, CopiesNothing
  PROVE  HandlerSpec => OverwriteFalseIsGentle
<1> DEFINE A == \A w \in Workers :
              job'[w] # job[w] /\ Is(w, {"COPY", "MOVE"}) /\ ~Req(w).overwrite =>
                /\ \A u \in Uids : ~(tree[u].status = "live" /\ tree'[u].status = "gone")
                /\ Is(w, {"MOVE"}) =>
                     \/ Denoted(tree, Req(w).dest) = {}
                     \/ Denoted(tree', Req(w).dest) \subseteq Denoted(tree, Req(w).dest)
<1>1. JobInit => OrderInv
  BY InitInv, InitTreeIsSound DEF JobInit, Init, OrderInv
<1>2. OrderInv /\ [HandlerNext]_handlerVars => OrderInv'
  BY OrderNext
<1>3. OrderInv /\ [HandlerNext]_handlerVars => [A]_handlerVars
  <2> SUFFICES ASSUME OrderInv, HandlerNext, NEW w \in Workers, job'[w] # job[w],
                      Is(w, {"COPY", "MOVE"}), ~Req(w).overwrite
               PROVE  /\ \A u \in Uids : ~(tree[u].status = "live" /\ tree'[u].status = "gone")
                      /\ \/ Denoted(tree, Req(w).dest) = {}
                         \/ Denoted(tree', Req(w).dest) \subseteq Denoted(tree, Req(w).dest)
    OBVIOUS
  <2>1. HandlersInv /\ SiblingsDiffer(tree) /\ Orderly(tree, tree')
    BY OrderNext DEF OrderInv
  <2>2. ~Ends(tree, tree')
    <3> SUFFICES ASSUME Ends(tree, tree') PROVE FALSE
      OBVIOUS
    <3>1. ~IsGentle(tree') /\ tree' # tree
      BY DEF IsGentle, Ends
    <3>2. PICK v \in Workers : HandlerStep(v)
      BY <3>1 DEF HandlerNext, Receive, TurnAway, Leave, resolverVars
    <3>3. v = w
      BY <2>1, <3>2, StepIsOwn
    <3>4. MayRemove(Req(w))
      BY <2>1, <3>1, <3>2, <3>3, HandlerStepInv
    <3> QED
      BY <3>4 DEF MayRemove, Is
  <2>3. ASSUME Denoted(tree, Req(w).dest) # {}
        PROVE  Denoted(tree', Req(w).dest) \subseteq Denoted(tree, Req(w).dest)
    <3> DEFINE p == Req(w).dest
    <3>1. p \in Seq(Names)
      BY <2>1, JobFacts, PathFacts DEF HandlersInv
    <3>2. Denoted(tree, p) # {}
      BY <2>3
    <3> HIDE DEF p
    <3>3. AddsOnlyFresh(tree, tree')
      BY <2>1, BroughtIsFresh DEF Orderly
    <3>4. Len(p) \in 0..Len(p) /\ Prefix(p, Len(p)) = p
      BY <3>1, PrefixFacts
    <3>5. Denoted(tree', Prefix(p, Len(p))) \subseteq Denoted(tree, Prefix(p, Len(p)))
      BY <2>1, <3>1, <3>2, <3>3, <3>4, DenotedIsStable
    <3> QED
      BY <3>4, <3>5 DEF p
  <2> QED
    BY <2>2, <2>3 DEF Ends
<1> QED
  BY <1>1, <1>2, <1>3, PTL DEF HandlerSpec, OverwriteFalseIsGentle
=============================================================================
