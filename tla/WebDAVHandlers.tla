--------------------------- MODULE WebDAVHandlers ---------------------------
(***************************************************************************)
(* WebDAVRequestHandler of src/src/webdav_server.cpp: what each method     *)
(* does once its request is authenticated, on the threads of one process,  *)
(* composed with the resolver they share.  A handler is a sequence of path *)
(* resolutions, RPCs and updates of the resolver's map; each is one step   *)
(* here, and what a handler does between two of them is part of the first. *)
(*                                                                         *)
(* GRPCClientWrapper turns every transport error into an unsuccessful      *)
(* answer and never throws, so that a handler's catch blocks are not       *)
(* reached.  A status of 500 stands for each of 403, 404, 409 and 500 that *)
(* the text of an RPC's error is mapped to, 401 for each of 400, 401 and   *)
(* 502 that a request is turned away with before it touches anything.      *)
(***************************************************************************)
EXTENDS PathResolver

CONSTANT Requests     \* the requests that clients ever make

(* overwrite: the Overwrite header is not F.  deep: the Depth is not 0.    *)
Methods == {"GET", "HEAD", "PUT", "MKCOL", "DELETE", "PROPFIND", "LOCK", "COPY", "MOVE"}

Request == [method : Methods, path : Paths \cup {RootPath}, dest : Paths \cup {RootPath},
            overwrite : BOOLEAN, deep : BOOLEAN]

(* A COPY or MOVE to the root is a 400, a MKCOL of the root is never made. *)
ASSUME RequestsAreSound ==
  /\ Requests \subseteq Request
  /\ \A r \in Requests :
        /\ r.method \in {"COPY", "MOVE"} => r.dest # RootPath
        /\ r.method \in {"MKCOL"} => r.path # RootPath

VARIABLE job          \* per thread: the request it serves and its locals

handlerVars == <<resolverVars, job>>

NoRequest == [method |-> "LOCK", path |-> RootPath, dest |-> RootPath,
              overwrite |-> FALSE, deep |-> FALSE]

(* What a handler does next.  "target", "parent", "dest", "source" and     *)
(* "dparent" name the path it is resolving.                                *)
Points == {"idle", "target", "parent", "dest", "source", "dparent",
           "stat", "download", "touch", "upload", "mkdir", "list", "map entries",
           "remove file", "remove tree", "drop", "before", "copy", "after",
           "rename", "move", "forget", "map", "replied"}

Entry == [uid : Uids, kind : Kinds, name : Names]

(* One activation of removeTreeRecursive; todo is the rest of its listing. *)
Frame == [dir : Uids, listed : BOOLEAN, todo : SUBSET Entry]

Statuses == {0, 200, 201, 204, 207, 401, 404, 409, 412, 500}

Job == [pc : Points, req : Requests \cup {NoRequest},
        uid : Dirs \cup {NoUid},      \* the node the request is about
        par : Dirs \cup {NoUid},      \* the parent it creates, copies or moves into
        fresh : BOOLEAN,              \* PUT: the file did not exist
        before : SUBSET Uids,         \* COPY: the parent's children before it
        entries : SUBSET Entry,       \* PROPFIND: the rest of the listing
        stack : Seq(Frame),           \* the activations of removeTreeRecursive
        status : Statuses]

NoJob == [pc |-> "idle", req |-> NoRequest, uid |-> NoUid, par |-> NoUid, fresh |-> FALSE,
          before |-> {}, entries |-> {}, stack |-> <<>>, status |-> 0]

JobInit == Init /\ job = [w \in Workers |-> NoJob]

JobTypeOK == TypeOK /\ job \in [Workers -> Job]

-----------------------------------------------------------------------------
(* Helpers of the actions. *)
Does(w, pc) == job[w].pc = pc
Req(w) == job[w].req
Is(w, methods) == Req(w).method \in methods
Parent(p) == IF p = RootPath THEN RootPath ELSE Prefix(p, Len(p) - 1)
NameOf(w) == Base(Req(w).path)
DestName(w) == Base(Req(w).dest)
Renames(w) == DestName(w) # NameOf(w)

Listing(t, d) == {[uid |-> u, kind |-> t[u].kind, name |-> t[u].name] : u \in Children(t, d)}

(* The path whose entry the request's success, or its removal, changes. *)
Subject(w) == IF Is(w, {"COPY", "MOVE"}) THEN Req(w).dest ELSE Req(w).path

Becomes(w, j) == job' = [job EXCEPT ![w] = j]
Proceed(w, pc) == Becomes(w, [job[w] EXCEPT !.pc = pc])
Reply(w, s) == Becomes(w, [NoJob EXCEPT !.pc = "replied", !.req = Req(w),
                                        !.uid = job[w].uid, !.status = s])

(* The answer of the resolution that has just ended. *)
Answer(w, pc, u) == Does(w, pc) /\ At(w, "done") /\ call[w].uid = u
Taken(w) == call' = [call EXCEPT ![w] = NoCall]
ThenResolve(w, p) == call' = [call EXCEPT ![w] = Started(p)]

(* The trees a mutating RPC may leave when it is carried out; it fails     *)
(* when the service refuses it, when it never got there, and when it was   *)
(* carried out and its answer was lost.                                    *)
Result(can, t) == IF can THEN {t} ELSE {}
RpcFails(results) ==
  \/ (results = {} \/ RpcFaults) /\ UNCHANGED tree
  \/ RpcFaults /\ \E t \in results : tree' = t

StatFails(u) == RpcFaults \/ ~IsLive(tree, u)
ListFails(d) == RpcFaults \/ ~IsLive(tree, d)

-----------------------------------------------------------------------------
(* A request is dispatched by its method and starts with a resolution. *)
FirstPath(r) ==
  CASE r.method \in {"COPY", "MOVE"} -> r.dest
    [] r.method \in {"PUT", "MKCOL"} -> Parent(r.path)
    [] OTHER -> r.path

FirstPoint(r) ==
  CASE r.method \in {"COPY", "MOVE"} -> "dest"
    [] r.method \in {"PUT", "MKCOL"} -> "parent"
    [] OTHER -> "target"

Receive(w, r) ==
  /\ Does(w, "idle")
  /\ Becomes(w, [NoJob EXCEPT !.pc = FirstPoint(r), !.req = r])
  /\ ThenResolve(w, FirstPath(r))
  /\ UNCHANGED <<tree, cache, foreign>>

(* Not authenticated, a malformed Destination, or one on another host. *)
TurnAway(w, r) ==
  /\ Does(w, "idle")
  /\ Becomes(w, [NoJob EXCEPT !.pc = "replied", !.req = r, !.status = 401])
  /\ UNCHANGED resolverVars

Resolve(w) == ResolveStep(w) /\ UNCHANGED job

Leave(w) ==
  /\ Does(w, "replied")
  /\ Becomes(w, NoJob)
  /\ UNCHANGED resolverVars

-----------------------------------------------------------------------------
(* Mutant: a missing target is taken for the root, value_or("") unchecked. *)
TargetMissingIsRoot(w) ==
  /\ Answer(w, "target", NoUid)
  /\ ~Is(w, {"PUT"})
  /\ IF Is(w, {"DELETE"}) THEN Becomes(w, [job[w] EXCEPT !.pc = "stat", !.uid = Root])
     ELSE Reply(w, 404)
  /\ Taken(w)
  /\ UNCHANGED <<tree, cache, foreign>>

(* GET, HEAD, DELETE, PROPFIND and LOCK have resolved their path.  HEAD    *)
(* answers 200 whatever its Stat says, and so does LOCK without one.       *)
TargetMissing(w) ==
  /\ Answer(w, "target", NoUid)
  /\ ~Is(w, {"PUT"})
  /\ Reply(w, IF Is(w, {"LOCK"}) THEN 201 ELSE 404)
  /\ Taken(w)
  /\ UNCHANGED <<tree, cache, foreign>>

DeleteOfRoot(w) ==
  /\ Answer(w, "target", Root)
  /\ Is(w, {"DELETE"})
  /\ Reply(w, 404)
  /\ Taken(w)
  /\ UNCHANGED <<tree, cache, foreign>>

(* Mutant: DELETE does not spare the root. *)
TargetFoundEvenRoot(w) ==
  /\ \E u \in Dirs :
       /\ Answer(w, "target", u)
       /\ \/ Is(w, {"HEAD", "LOCK"}) /\ Reply(w, 200)
          \/ Is(w, {"GET"}) /\ Becomes(w, [job[w] EXCEPT !.pc = "download", !.uid = u])
          \/ Is(w, {"DELETE"}) /\ Becomes(w, [job[w] EXCEPT !.pc = "stat", !.uid = u])
          \/ /\ Is(w, {"PROPFIND"})
             /\ Becomes(w, [job[w] EXCEPT !.pc = IF u = Root THEN "list" ELSE "stat", !.uid = u])
          \/ Is(w, {"PUT"}) /\ Becomes(w, [job[w] EXCEPT !.pc = "upload", !.uid = u])
  /\ Taken(w)
  /\ UNCHANGED <<tree, cache, foreign>>

TargetFound(w) ==
  /\ \E u \in Dirs :
       /\ Answer(w, "target", u)
       /\ \/ Is(w, {"HEAD", "LOCK"}) /\ Reply(w, 200)
          \/ Is(w, {"GET"}) /\ Becomes(w, [job[w] EXCEPT !.pc = "download", !.uid = u])
          \/ /\ Is(w, {"DELETE"}) /\ u # Root
             /\ Becomes(w, [job[w] EXCEPT !.pc = "stat", !.uid = u])
          \/ /\ Is(w, {"PROPFIND"})
             /\ Becomes(w, [job[w] EXCEPT !.pc = IF u = Root THEN "list" ELSE "stat", !.uid = u])
          \/ Is(w, {"PUT"}) /\ Becomes(w, [job[w] EXCEPT !.pc = "upload", !.uid = u])
  /\ Taken(w)
  /\ UNCHANGED <<tree, cache, foreign>>

(* The body goes out under a 200 from its first chunk on, whatever becomes *)
(* of the rest; without a chunk the download's own outcome counts, and the *)
(* status CANCELLED is a success to the wrapper (see Transfers).           *)
Download(w) ==
  /\ Does(w, "download")
  /\ \/ (RpcFaults \/ IsFile(tree, job[w].uid)) /\ Reply(w, 200)
     \/ (RpcFaults \/ ~IsFile(tree, job[w].uid)) /\ Reply(w, 500)
  /\ UNCHANGED resolverVars

-----------------------------------------------------------------------------
(* PUT and MKCOL have resolved the parent. *)
ParentMissing(w) ==
  /\ Answer(w, "parent", NoUid)
  /\ Reply(w, 409)
  /\ Taken(w)
  /\ UNCHANGED <<tree, cache, foreign>>

ParentFound(w) ==
  /\ \E u \in Dirs :
       /\ Answer(w, "parent", u)
       /\ \/ /\ Is(w, {"PUT"})
             /\ Becomes(w, [job[w] EXCEPT !.pc = "target", !.par = u])
             /\ ThenResolve(w, Req(w).path)
          \/ /\ Is(w, {"MKCOL"})
             /\ Becomes(w, [job[w] EXCEPT !.pc = "mkdir", !.par = u])
             /\ Taken(w)
  /\ UNCHANGED <<tree, cache, foreign>>

PutTargetMissing(w) ==
  /\ Answer(w, "target", NoUid)
  /\ Is(w, {"PUT"})
  /\ Becomes(w, [job[w] EXCEPT !.pc = "touch", !.fresh = TRUE])
  /\ Taken(w)
  /\ UNCHANGED <<tree, cache, foreign>>

(* Touch and MakeDirectory under the parent's uid. *)
CreatedKind(w) == IF Does(w, "touch") THEN "file" ELSE "dir"
Creatable(w) == {u \in Uids : CanCreate(tree, u, job[w].par, NameOf(w), CreatedKind(w))}

Create(w) ==
  /\ job[w].pc \in {"touch", "mkdir"}
  /\ \E u \in Creatable(w) :
       /\ tree' = Created(tree, u, job[w].par, NameOf(w), CreatedKind(w))
       /\ Becomes(w, [job[w] EXCEPT !.pc = IF @ = "touch" THEN "upload" ELSE "map",
                                    !.uid = u, !.par = NoUid])
  /\ UNCHANGED <<cache, call, foreign>>

CreateFails(w) ==
  /\ job[w].pc \in {"touch", "mkdir"}
  /\ RpcFails({Created(tree, u, job[w].par, NameOf(w), CreatedKind(w)) : u \in Creatable(w)})
  /\ Reply(w, 500)
  /\ UNCHANGED <<cache, call, foreign>>

Upload(w) ==
  /\ Does(w, "upload")
  /\ CanFill(tree, job[w].uid)
  /\ tree' = Filled(tree, job[w].uid)
  /\ Proceed(w, "map")
  /\ UNCHANGED <<cache, call, foreign>>

(* Mutant: the outcome of the upload is not looked at. *)
UploadFailsUnnoticed(w) ==
  /\ Does(w, "upload")
  /\ RpcFails(Result(CanFill(tree, job[w].uid), Filled(tree, job[w].uid)))
  /\ Proceed(w, "map")
  /\ UNCHANGED <<cache, call, foreign>>

UploadFails(w) ==
  /\ Does(w, "upload")
  /\ RpcFails(Result(CanFill(tree, job[w].uid), Filled(tree, job[w].uid)))
  /\ Reply(w, 500)
  /\ UNCHANGED <<cache, call, foreign>>

(* createPathMapping, and the answer: 204 for a file that existed. *)
Map(w) ==
  /\ Does(w, "map")
  /\ MapPath(Subject(w), job[w].uid)
  /\ Reply(w, IF Is(w, {"PUT"}) /\ ~job[w].fresh THEN 204 ELSE 201)
  /\ UNCHANGED <<tree, call, foreign>>

-----------------------------------------------------------------------------
(* DELETE, PROPFIND and an overwriting COPY or MOVE ask for the node's     *)
(* kind.  DELETE gives up when Stat fails, the others go on as below.      *)
StatFile(w) ==
  /\ Does(w, "stat")
  /\ IsLive(tree, job[w].uid) /\ ~IsDir(tree, job[w].uid)
  /\ IF Is(w, {"PROPFIND"}) THEN Reply(w, 207) ELSE Proceed(w, "remove file")
  /\ UNCHANGED resolverVars

StartTree(w) ==
  Becomes(w, [job[w] EXCEPT !.pc = "remove tree",
     !.stack = <<[dir |-> job[w].uid, listed |-> FALSE, todo |-> {}]>>])

StatDir(w) ==
  /\ Does(w, "stat")
  /\ IsDir(tree, job[w].uid)
  /\ IF Is(w, {"PROPFIND"}) THEN Proceed(w, "list") ELSE StartTree(w)
  /\ UNCHANGED resolverVars

StatMissing(w) ==
  /\ Does(w, "stat")
  /\ StatFails(job[w].uid)
  /\ \/ Is(w, {"DELETE"}) /\ Reply(w, 500)
     \/ Is(w, {"PROPFIND"}) /\ Proceed(w, "list")
     \/ Is(w, {"COPY", "MOVE"}) /\ Proceed(w, "remove file")
  /\ UNCHANGED resolverVars

RemoveFile(w) ==
  /\ Does(w, "remove file")
  /\ CanRemoveFile(tree, job[w].uid)
  /\ tree' = Removed(tree, job[w].uid)
  /\ Proceed(w, "drop")
  /\ UNCHANGED <<cache, call, foreign>>

RemoveFileFails(w) ==
  /\ Does(w, "remove file")
  /\ RpcFails(Result(CanRemoveFile(tree, job[w].uid), Removed(tree, job[w].uid)))
  /\ Reply(w, 500)
  /\ UNCHANGED <<cache, call, foreign>>

(* removeTreeRecursive: list the directory, then take the entries of the   *)
(* listing, as they were listed, then the directory itself; the first      *)
(* failure ends every activation.                                          *)
Top(w) == job[w].stack[Len(job[w].stack)]
WithTop(w, f) == [job[w].stack EXCEPT ![Len(job[w].stack)] = f]
Without(f, e) == [f EXCEPT !.todo = @ \ {e}]

ListTree(w) ==
  /\ Does(w, "remove tree") /\ ~Top(w).listed
  /\ IsLive(tree, Top(w).dir)
  /\ Becomes(w, [job[w] EXCEPT !.stack =
       WithTop(w, [Top(w) EXCEPT !.listed = TRUE, !.todo = Listing(tree, Top(w).dir)])])
  /\ UNCHANGED resolverVars

ListTreeFails(w) ==
  /\ Does(w, "remove tree") /\ ~Top(w).listed
  /\ ListFails(Top(w).dir)
  /\ Reply(w, 500)
  /\ UNCHANGED resolverVars

EnterSubtree(w) ==
  /\ Does(w, "remove tree")
  /\ \E e \in Top(w).todo :
       /\ e.kind = "dir"
       /\ Becomes(w, [job[w] EXCEPT !.stack =
            Append(WithTop(w, Without(Top(w), e)),
                   [dir |-> e.uid, listed |-> FALSE, todo |-> {}])])
  /\ UNCHANGED resolverVars

RemoveEntry(w) ==
  /\ Does(w, "remove tree")
  /\ \E e \in Top(w).todo :
       /\ e.kind = "file" /\ CanRemoveFile(tree, e.uid)
       /\ tree' = Removed(tree, e.uid)
       /\ Becomes(w, [job[w] EXCEPT !.stack = WithTop(w, Without(Top(w), e))])
  /\ UNCHANGED <<cache, call, foreign>>

RemoveEntryFails(w) ==
  /\ Does(w, "remove tree")
  /\ \E e \in Top(w).todo :
       /\ e.kind = "file"
       /\ RpcFails(Result(CanRemoveFile(tree, e.uid), Removed(tree, e.uid)))
  /\ Reply(w, 500)
  /\ UNCHANGED <<cache, call, foreign>>

RemoveEmptied(w) ==
  /\ Does(w, "remove tree") /\ Top(w).listed /\ Top(w).todo = {}
  /\ CanRemoveDirectory(tree, Top(w).dir)
  /\ tree' = Removed(tree, Top(w).dir)
  /\ LET rest == Prefix(job[w].stack, Len(job[w].stack) - 1)
     IN  Becomes(w, [job[w] EXCEPT !.stack = rest, !.pc = IF rest = <<>> THEN "drop" ELSE @])
  /\ UNCHANGED <<cache, call, foreign>>

(* Mutant: the outcome of the last RemoveDirectory is not looked at. *)
RemoveEmptiedFailsUnnoticed(w) ==
  /\ Does(w, "remove tree") /\ Top(w).listed /\ Top(w).todo = {}
  /\ RpcFails(Result(CanRemoveDirectory(tree, Top(w).dir), Removed(tree, Top(w).dir)))
  /\ Becomes(w, [job[w] EXCEPT !.stack = <<>>, !.pc = "drop"])
  /\ UNCHANGED <<cache, call, foreign>>

RemoveEmptiedFails(w) ==
  /\ Does(w, "remove tree") /\ Top(w).listed /\ Top(w).todo = {}
  /\ RpcFails(Result(CanRemoveDirectory(tree, Top(w).dir), Removed(tree, Top(w).dir)))
  /\ Reply(w, 500)
  /\ UNCHANGED <<cache, call, foreign>>

(* removePathMapping of the path only: DELETE is done, the others turn to  *)
(* their source.                                                           *)
Drop(w) ==
  /\ Does(w, "drop")
  /\ UnmapPath(Subject(w))
  /\ \/ Is(w, {"DELETE"}) /\ Reply(w, 204) /\ UNCHANGED call
     \/ /\ Is(w, {"COPY", "MOVE"})
        /\ Becomes(w, [job[w] EXCEPT !.pc = "source", !.uid = NoUid])
        /\ ThenResolve(w, Req(w).path)
  /\ UNCHANGED <<tree, foreign>>

-----------------------------------------------------------------------------
(* PROPFIND lists the collection.  A listing that fails is answered with   *)
(* an empty one.                                                           *)
List(w) ==
  /\ Does(w, "list")
  /\ IsLive(tree, job[w].uid)
  /\ LET found == {e \in Listing(tree, job[w].uid) : Append(Req(w).path, e.name) \in Paths}
     IN  IF Req(w).deep /\ found # {}
         THEN Becomes(w, [job[w] EXCEPT !.pc = "map entries", !.entries = found])
         ELSE Reply(w, 207)
  /\ UNCHANGED resolverVars

ListingFails(w) ==
  /\ Does(w, "list")
  /\ ListFails(job[w].uid)
  /\ Reply(w, 207)
  /\ UNCHANGED resolverVars

(* Each listed entry is cached, in a critical section of its own. *)
MapEntry(w) ==
  /\ Does(w, "map entries")
  /\ \E e \in job[w].entries :
       /\ MapPath(Append(Req(w).path, e.name), e.uid)
       /\ IF job[w].entries = {e} THEN Reply(w, 207)
          ELSE Becomes(w, [job[w] EXCEPT !.entries = @ \ {e}])
  /\ UNCHANGED <<tree, call, foreign>>

-----------------------------------------------------------------------------
(* Mutant: the Overwrite header is ignored. *)
DestFoundAlwaysCleared(w) ==
  /\ \E u \in Uids :
       /\ Answer(w, "dest", u)
       /\ Becomes(w, [job[w] EXCEPT !.pc = "stat", !.uid = u])
  /\ Taken(w)
  /\ UNCHANGED <<tree, cache, foreign>>

(* COPY and MOVE: prepareDestination removes what the destination names,   *)
(* unless Overwrite is F, before anything is asked about the source.       *)
DestFound(w) ==
  /\ \E u \in Uids :
       /\ Answer(w, "dest", u)
       /\ IF Req(w).overwrite
          THEN Becomes(w, [job[w] EXCEPT !.pc = "stat", !.uid = u])
          ELSE Reply(w, 412)
  /\ Taken(w)
  /\ UNCHANGED <<tree, cache, foreign>>

DestFree(w) ==
  /\ Answer(w, "dest", NoUid)
  /\ Proceed(w, "source")
  /\ ThenResolve(w, Req(w).path)
  /\ UNCHANGED <<tree, cache, foreign>>

SourceMissing(w) ==
  /\ Answer(w, "source", NoUid) \/ Answer(w, "source", Root)
  /\ Reply(w, 404)
  /\ Taken(w)
  /\ UNCHANGED <<tree, cache, foreign>>

IsPureRename(w) == Is(w, {"MOVE"}) /\ Parent(Req(w).path) = Parent(Req(w).dest)

SourceFound(w) ==
  /\ \E u \in Uids :
       /\ Answer(w, "source", u)
       /\ IF IsPureRename(w)
          THEN /\ Becomes(w, [job[w] EXCEPT !.pc = "rename", !.uid = u])
               /\ Taken(w)
          ELSE /\ Becomes(w, [job[w] EXCEPT !.pc = "dparent", !.uid = u])
               /\ ThenResolve(w, Parent(Req(w).dest))
  /\ UNCHANGED <<tree, cache, foreign>>

DestParentMissing(w) ==
  /\ Answer(w, "dparent", NoUid)
  /\ Reply(w, 409)
  /\ Taken(w)
  /\ UNCHANGED <<tree, cache, foreign>>

DestParentFound(w) ==
  /\ \E u \in Dirs :
       /\ Answer(w, "dparent", u)
       /\ Becomes(w, [job[w] EXCEPT !.par = u,
            !.pc = IF Is(w, {"MOVE"}) THEN "move" ELSE IF Renames(w) THEN "before" ELSE "copy"])
  /\ Taken(w)
  /\ UNCHANGED <<tree, cache, foreign>>

(* The children of the destination before the copy; a listing that fails   *)
(* counts as an empty one.                                                 *)
ListBefore(w) ==
  /\ Does(w, "before")
  /\ \/ /\ IsLive(tree, job[w].par)
        /\ Becomes(w, [job[w] EXCEPT !.pc = "copy", !.before = Children(tree, job[w].par)])
     \/ ListFails(job[w].par) /\ Proceed(w, "copy")
  /\ UNCHANGED resolverVars

Copies(w) ==
  {Copied(tree, job[w].uid, job[w].par, v) :
     v \in {v \in Uids : CanCopy(tree, job[w].uid, job[w].par, v)}}

Copy(w) ==
  /\ Does(w, "copy")
  /\ \E t \in Copies(w) : tree' = t
  /\ IF Renames(w) THEN Proceed(w, "after") ELSE Reply(w, 201)
  /\ UNCHANGED <<cache, call, foreign>>

CopyFails(w) ==
  /\ Does(w, "copy")
  /\ RpcFails(Copies(w))
  /\ Reply(w, 500)
  /\ UNCHANGED <<cache, call, foreign>>

(* The copy is taken to be a child that was not there before. *)
ListAfter(w) ==
  /\ Does(w, "after")
  /\ IsLive(tree, job[w].par)
  /\ \E u \in Children(tree, job[w].par) \ job[w].before :
       Becomes(w, [job[w] EXCEPT !.pc = "rename", !.uid = u, !.par = NoUid, !.before = {}])
  /\ UNCHANGED resolverVars

ListAfterFails(w) ==
  /\ Does(w, "after")
  /\ ListFails(job[w].par) \/ Children(tree, job[w].par) \subseteq job[w].before
  /\ Reply(w, 500)
  /\ UNCHANGED resolverVars

Rename(w) ==
  /\ Does(w, "rename")
  /\ CanRename(tree, job[w].uid, DestName(w))
  /\ tree' = Renamed(tree, job[w].uid, DestName(w))
  /\ Proceed(w, IF Is(w, {"MOVE"}) THEN "forget" ELSE "map")
  /\ UNCHANGED <<cache, call, foreign>>

RenameFails(w) ==
  /\ Does(w, "rename")
  /\ RpcFails(Result(CanRename(tree, job[w].uid, DestName(w)),
                     Renamed(tree, job[w].uid, DestName(w))))
  /\ Reply(w, 500)
  /\ UNCHANGED <<cache, call, foreign>>

Move(w) ==
  /\ Does(w, "move")
  /\ CanMove(tree, job[w].uid, job[w].par)
  /\ tree' = Moved(tree, job[w].uid, job[w].par)
  /\ Becomes(w, [job[w] EXCEPT !.pc = IF Renames(w) THEN "rename" ELSE "forget", !.par = NoUid])
  /\ UNCHANGED <<cache, call, foreign>>

MoveFails(w) ==
  /\ Does(w, "move")
  /\ RpcFails(Result(CanMove(tree, job[w].uid, job[w].par), Moved(tree, job[w].uid, job[w].par)))
  /\ Reply(w, 500)
  /\ UNCHANGED <<cache, call, foreign>>

(* Mutant: a MOVE leaves the source's entry in the map. *)
ForgetNothing(w) ==
  /\ Does(w, "forget")
  /\ Proceed(w, "map")
  /\ UNCHANGED <<tree, cache, call, foreign>>

(* A MOVE drops the source's entry, and then records the destination's. *)
Forget(w) ==
  /\ Does(w, "forget")
  /\ UnmapPath(Req(w).path)
  /\ Proceed(w, "map")
  /\ UNCHANGED <<tree, call, foreign>>

-----------------------------------------------------------------------------
Answers(w) ==
  \/ TargetMissing(w) \/ DeleteOfRoot(w) \/ TargetFound(w)
  \/ ParentMissing(w) \/ ParentFound(w) \/ PutTargetMissing(w)
  \/ DestFound(w) \/ DestFree(w)
  \/ SourceMissing(w) \/ SourceFound(w)
  \/ DestParentMissing(w) \/ DestParentFound(w)

Creates(w) ==
  \/ Create(w) \/ CreateFails(w)
  \/ Upload(w) \/ UploadFails(w)
  \/ Map(w)

Removes(w) ==
  \/ StatFile(w) \/ StatDir(w) \/ StatMissing(w)
  \/ RemoveFile(w) \/ RemoveFileFails(w)
  \/ ListTree(w) \/ ListTreeFails(w)
  \/ EnterSubtree(w)
  \/ RemoveEntry(w) \/ RemoveEntryFails(w)
  \/ RemoveEmptied(w) \/ RemoveEmptiedFails(w)
  \/ Drop(w)

Reads(w) == Download(w) \/ List(w) \/ ListingFails(w) \/ MapEntry(w)

Relocates(w) ==
  \/ ListBefore(w)
  \/ Copy(w) \/ CopyFails(w)
  \/ ListAfter(w) \/ ListAfterFails(w)
  \/ Rename(w) \/ RenameFails(w)
  \/ Move(w) \/ MoveFails(w)
  \/ Forget(w)

(* A step of the handler, between two requests of the thread. *)
HandlerStep(w) ==
  Resolve(w) \/ Answers(w) \/ Creates(w) \/ Removes(w) \/ Reads(w) \/ Relocates(w)

HandlerNext ==
  \/ \E w \in Workers, r \in Requests : Receive(w, r) \/ TurnAway(w, r)
  \/ \E w \in Workers : HandlerStep(w) \/ Leave(w)
  \/ Foreign /\ UNCHANGED job

(* A thread of the pool that serves a request runs, and an RPC that was    *)
(* sent ends.                                                              *)
HandlerSpec ==
  /\ JobInit /\ [][HandlerNext]_handlerVars
  /\ \A w \in Workers : WF_handlerVars(HandlerStep(w))

(* Every request is answered: each handler, with its resolutions and its   *)
(* recursive removal, ends, whatever fails and whatever is moved or made   *)
(* in its way (WebDAVRequestHandler::handleRequest).                       *)
EveryRequestIsAnswered ==
  \A w \in Workers : (~Does(w, "idle")) ~> Does(w, "replied")

(* With Overwrite: F nothing is ever removed, and a MOVE brings no node to *)
(* a destination that has one, though it may be taken after it was found   *)
(* free (prepareDestination, and the service's unique names behind it).    *)
OverwriteFalseIsGentle ==
  [][\A w \in Workers :
       job'[w] # job[w] /\ Is(w, {"COPY", "MOVE"}) /\ ~Req(w).overwrite =>
          /\ \A u \in Uids : ~(tree[u].status = "live" /\ tree'[u].status = "gone")
          /\ Is(w, {"MOVE"}) =>
               \/ Denoted(tree, Req(w).dest) = {}
               \/ Denoted(tree', Req(w).dest) \subseteq Denoted(tree, Req(w).dest)]_handlerVars
=============================================================================
