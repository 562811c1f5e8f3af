------------------------------ MODULE Transfers ------------------------------
(***************************************************************************)
(* The content of one file: GET and HEAD from their Stat on, PUT from its  *)
(* upload on (handleGet and handlePut of src/src/webdav_server.cpp), over  *)
(* streamFileDownload and streamFileUpload of                              *)
(* src/src/grpc_client_wrapper.cpp, chunk by chunk.  What comes before, in *)
(* both, is the resolution of a path: WebDAVHandlers has it.               *)
(*                                                                         *)
(* The core keeps every version of the file.  An upload becomes a version  *)
(* when its stream has ended; a download reads the version that was        *)
(* current when it began.  Contents are told apart by the PUT they come    *)
(* from and by how many of its chunks they have.                           *)
(***************************************************************************)
EXTENDS Integers, Sequences

CONSTANTS Threads,     \* the pool's threads, each with one request
          MaxChunks,   \* bound: the chunks of a body
          MaxPuts      \* bound: how many PUTs there are

ASSUME TransferBoundsAreNat == MaxChunks \in Nat /\ MaxPuts \in Nat

VARIABLES versions,    \* the file's versions at the core, oldest first
          puts,        \* how many PUTs there have been
          job          \* per thread: the request and the handler's locals

vars == <<versions, puts, job>>

(* put 0 made the version the file has at first. *)
Version == [put : 0..MaxPuts, chunks : 0..MaxChunks]

Nothing == 0           \* no version: no validators in the answer, or nothing stored

(* size: the chunks the client means to send (PUT); done: those passed on  *)
(* to the core, or to the client; own: the version the upload made, or the *)
(* download reads; seen: the version Stat answered for; broken: Write has  *)
(* failed; gone: the client has hung up; cut: the core cut the download    *)
(* short (history).                                                        *)
Job == [pc : {"idle", "stat", "open", "pull", "push", "finish", "validate", "answered"},
        method : {"GET", "HEAD", "PUT"}, put : 0..MaxPuts, size : 0..MaxChunks,
        done : 0..MaxChunks, own : Nat, seen : Nat, status : {"none", "ok", "error"},
        broken : BOOLEAN, gone : BOOLEAN, cut : {"no", "failed", "cancelled"}]

NoJob == [pc |-> "idle", method |-> "GET", put |-> 0, size |-> 0, done |-> 0,
          own |-> Nothing, seen |-> Nothing, status |-> "none",
          broken |-> FALSE, gone |-> FALSE, cut |-> "no"]

TypeOK ==
  /\ versions \in Seq(Version) \ {<<>>}
  /\ puts \in 0..MaxPuts
  /\ job \in [Threads -> Job]
  /\ \A w \in Threads : job[w].own <= Len(versions) /\ job[w].seen <= Len(versions)

Init ==
  /\ \E n \in 0..MaxChunks : versions = <<[put |-> 0, chunks |-> n]>>
  /\ puts = 0
  /\ job = [w \in Threads |-> NoJob]

At(w, pc) == job[w].pc = pc
Current == Len(versions)

Fail(w) == job' = [job EXCEPT ![w].pc = "answered", ![w].status = "error"]
Succeed(w) == job' = [job EXCEPT ![w].pc = "answered", ![w].status = "ok"]

-----------------------------------------------------------------------------
(* GET and HEAD *)

StartGet(w, m) ==
  /\ At(w, "idle")
  /\ job' = [job EXCEPT ![w] = [NoJob EXCEPT !.pc = "stat", !.method = m]]
  /\ UNCHANGED <<versions, puts>>

(* Stat, for the validators: without an answer GET goes on without them.   *)
StatForGet(w) ==
  /\ At(w, "stat") /\ job[w].method = "GET"
  /\ \E v \in {Current, Nothing} :
       job' = [job EXCEPT ![w].pc = "open", ![w].seen = v]
  /\ UNCHANGED <<versions, puts>>

(* HEAD ends here, with 200 in either case. *)
StatForHead(w) ==
  /\ At(w, "stat") /\ job[w].method = "HEAD"
  /\ \E v \in {Current, Nothing} :
       job' = [job EXCEPT ![w].pc = "answered", ![w].status = "ok", ![w].seen = v]
  /\ UNCHANGED <<versions, puts>>

(* StreamFileDownload begins. *)
OpenDownload(w) ==
  /\ At(w, "open")
  /\ job' = [job EXCEPT ![w].pc = "pull", ![w].own = Current]
  /\ UNCHANGED <<versions, puts>>

(* A chunk arrives and is written to the client; the first one sends the   *)
(* status 200 before it.                                                   *)
PullChunk(w) ==
  /\ At(w, "pull")
  /\ job[w].done < versions[job[w].own].chunks
  /\ job' = [job EXCEPT ![w].done = @ + 1]
  /\ UNCHANGED <<versions, puts>>

(* The write finds that the client has gone: the call is cancelled, which  *)
(* counts as a success.                                                    *)
PullForNobody(w) ==
  /\ At(w, "pull") /\ job[w].gone
  /\ job[w].done < versions[job[w].own].chunks
  /\ Succeed(w)
  /\ UNCHANGED <<versions, puts>>

(* Mutant: the validators are asked for when the body has been sent. *)
EndDownloadThenStat(w) ==
  /\ At(w, "pull")
  /\ job[w].done = versions[job[w].own].chunks
  /\ job' = [job EXCEPT ![w].pc = "answered", ![w].status = "ok", ![w].seen = Current]
  /\ UNCHANGED <<versions, puts>>

(* The stream ends as it should. *)
EndDownload(w) ==
  /\ At(w, "pull")
  /\ job[w].done = versions[job[w].own].chunks
  /\ Succeed(w)
  /\ UNCHANGED <<versions, puts>>

(* Mutant: the handler does not look at what the download returned. *)
DownloadFailsUnseen(w) ==
  /\ At(w, "pull")
  /\ job' = [job EXCEPT ![w].pc = "answered", ![w].status = "ok", ![w].cut = "failed"]
  /\ UNCHANGED <<versions, puts>>

(* An error chunk, or another status than OK: 500, unless the status 200   *)
(* has gone out with a chunk; the body then just ends.                     *)
DownloadFails(w) ==
  /\ At(w, "pull")
  /\ job' = [job EXCEPT ![w].pc = "answered", ![w].cut = "failed",
                        ![w].status = IF job[w].done > 0 THEN "ok" ELSE "error"]
  /\ UNCHANGED <<versions, puts>>

(* The status CANCELLED counts as a success, whoever cancelled. *)
DownloadCancelled(w) ==
  /\ At(w, "pull")
  /\ job' = [job EXCEPT ![w].pc = "answered", ![w].cut = "cancelled", ![w].status = "ok"]
  /\ UNCHANGED <<versions, puts>>

-----------------------------------------------------------------------------
(* PUT *)

StartPut(w, size) ==
  /\ At(w, "idle")
  /\ puts < MaxPuts
  /\ puts' = puts + 1
  /\ job' = [job EXCEPT ![w] = [NoJob EXCEPT !.pc = "push", !.method = "PUT",
                                             !.put = puts', !.size = size]]
  /\ UNCHANGED versions

(* Mutant: the end of the body is not noticed. *)
PushChunkPastTheEnd(w) ==
  /\ At(w, "push") /\ ~job[w].gone
  /\ job' = [job EXCEPT ![w].done = @ + 1]
  /\ UNCHANGED <<versions, puts>>

(* A chunk is read from the client and written to the core; a Write that   *)
(* fails, as it does once the call has broken, ends the loop.              *)
PushChunk(w) ==
  /\ At(w, "push") /\ ~job[w].gone
  /\ job[w].done < job[w].size
  /\ \/ job' = [job EXCEPT ![w].done = @ + 1]
     \/ job' = [job EXCEPT ![w].pc = "finish", ![w].broken = TRUE]
  /\ UNCHANGED <<versions, puts>>

(* Nothing more can be read: the body has ended, or the client has gone,   *)
(* which looks the same.  WritesDone.                                      *)
EndOfBody(w) ==
  /\ At(w, "push")
  /\ job[w].gone \/ job[w].done = job[w].size
  /\ job' = [job EXCEPT ![w].pc = "finish"]
  /\ UNCHANGED <<versions, puts>>

Received(w) == [put |-> job[w].put, chunks |-> job[w].done]

(* Mutant: PUT answers with the validators of before the upload. *)
FinishAfterStat(w) ==
  /\ At(w, "finish") /\ ~job[w].broken
  /\ versions' = Append(versions, Received(w))
  /\ job' = [job EXCEPT ![w].pc = "answered", ![w].status = "ok",
                        ![w].own = Len(versions'), ![w].seen = Current]
  /\ UNCHANGED puts

(* What the core has received becomes the file's new version; Finish       *)
(* brings its answer.  The code does not look at a Write that failed: that *)
(* the call has then broken, and Finish is not OK, is gRPC's promise and   *)
(* assumed of the core.                                                    *)
FinishUpload(w) ==
  /\ At(w, "finish") /\ ~job[w].broken
  /\ versions' = Append(versions, Received(w))
  /\ job' = [job EXCEPT ![w].pc = "validate", ![w].own = Len(versions')]
  /\ UNCHANGED puts

(* Mutant: the status of the upload is not looked at. *)
FinishFailsUnseen(w) ==
  /\ At(w, "finish")
  /\ job' = [job EXCEPT ![w].pc = "validate"]
  /\ UNCHANGED <<versions, puts>>

(* The upload fails: 500. *)
FinishFails(w) ==
  /\ At(w, "finish")
  /\ Fail(w)
  /\ UNCHANGED <<versions, puts>>

(* The core has the new version, and its answer is lost: 500 as well. *)
FinishIsLost(w) ==
  /\ At(w, "finish") /\ ~job[w].broken
  /\ versions' = Append(versions, Received(w))
  /\ Fail(w)
  /\ UNCHANGED puts

(* Stat after the upload, for the validators in the answer; without its    *)
(* answer they are left out.                                               *)
Validate(w) ==
  /\ At(w, "validate")
  /\ \E v \in {Current, Nothing} :
       job' = [job EXCEPT ![w].pc = "answered", ![w].status = "ok", ![w].seen = v]
  /\ UNCHANGED <<versions, puts>>

-----------------------------------------------------------------------------
(* The thread takes its next request. *)
Leave(w) ==
  /\ At(w, "answered")
  /\ job' = [job EXCEPT ![w] = NoJob]
  /\ UNCHANGED <<versions, puts>>

(* The client closes its connection, or loses it. *)
HangUp(w) ==
  /\ job[w].pc \notin {"idle", "answered"} /\ ~job[w].gone
  /\ job' = [job EXCEPT ![w].gone = TRUE]
  /\ UNCHANGED <<versions, puts>>

Get(w) ==
  \/ \E m \in {"GET", "HEAD"} : StartGet(w, m)
  \/ StatForGet(w) \/ StatForHead(w)
  \/ OpenDownload(w) \/ PullChunk(w) \/ PullForNobody(w)
  \/ EndDownload(w) \/ DownloadFails(w) \/ DownloadCancelled(w)

Put(w) ==
  \/ \E size \in 0..MaxChunks : StartPut(w, size)
  \/ PushChunk(w) \/ EndOfBody(w)
  \/ FinishUpload(w) \/ FinishFails(w) \/ FinishIsLost(w)
  \/ Validate(w)

Next == \E w \in Threads : Get(w) \/ Put(w) \/ Leave(w) \/ HangUp(w)

Spec == Init /\ [][Next]_vars

-----------------------------------------------------------------------------
Answered(w, method) == At(w, "answered") /\ job[w].status = "ok" /\ job[w].method = method

(* A PUT is answered with success to a client that is still there only if  *)
(* its whole body became a version of the file, once: neither a chunk that *)
(* the core did not take nor an upload that failed passes for a save       *)
(* (streamFileUpload, and the check of its answer in handlePut).           *)
AcknowledgedIsWhole ==
  \A w \in Threads : Answered(w, "PUT") /\ ~job[w].gone =>
     /\ job[w].own # Nothing
     /\ versions[job[w].own].put = job[w].put
     /\ versions[job[w].own].chunks = job[w].size
     /\ \A v \in 1..Len(versions) : versions[v].put = job[w].put => v = job[w].own

(* A download that is answered with 200 to a client that is still there    *)
(* has its whole body, of the one version it began with, unless its stream *)
(* broke: after the first chunk, when the status has been sent, or at any  *)
(* point with CANCELLED, which streamFileDownload does not report.         *)
ShortBodyWasCut ==
  \A w \in Threads : Answered(w, "GET") /\ ~job[w].gone =>
     \/ job[w].done = versions[job[w].own].chunks
     \/ job[w].cut = "failed" /\ job[w].done > 0
     \/ job[w].cut = "cancelled"

(* No failure before the first chunk is answered with 200: the header is   *)
(* sent "lazily on the first chunk so that a failure before any data still *)
(* yields a proper error status" (handleGet, webdav_server.cpp:290-292).   *)
FailureBeforeDataIsError ==
  \A w \in Threads : Answered(w, "GET") /\ ~job[w].gone =>
     job[w].done = versions[job[w].own].chunks \/ job[w].done > 0

(* The body of a download is never older than the validators it was sent   *)
(* with, whatever is saved meanwhile: the client revalidates in vain, but  *)
(* never keeps an old body under a new ETag (Stat before                   *)
(* StreamFileDownload in handleGet).                                       *)
BodyIsNoOlderThanEtag ==
  \A w \in Threads : job[w].method = "GET" /\ job[w].own # Nothing =>
     job[w].seen <= job[w].own

(* The validators in the answer to a PUT are never those of a version      *)
(* older than the one it wrote, so that the client does not take its own   *)
(* save for a change on disk (the Stat that ends handlePut).  They can be  *)
(* those of a newer one, which another thread has written since.           *)
SavedEtagIsNoOlder ==
  \A w \in Threads : Answered(w, "PUT") /\ job[w].seen # Nothing =>
     job[w].own # Nothing /\ job[w].own <= job[w].seen

-----------------------------------------------------------------------------
(* What these rest on: where a request of each kind can be, that no two    *)
(* uploads are of one PUT, and what an upload has made by each phase.      *)
MethodFitsPhase ==
  \A w \in Threads :
     /\ At(w, "stat") => job[w].method \in {"GET", "HEAD"} /\ job[w].own = Nothing
     /\ At(w, "open") => job[w].method = "GET" /\ job[w].own = Nothing
     /\ At(w, "pull") => job[w].method = "GET" /\ job[w].own # Nothing
     /\ Answered(w, "GET") => job[w].own # Nothing
     /\ job[w].pc \in {"push", "finish", "validate"} => job[w].method = "PUT"

PutsAreNumbered ==
  /\ \A v \in 1..Len(versions) : versions[v].put <= puts
  /\ \A w \in Threads : job[w].method = "PUT" => job[w].put <= puts
  /\ \A w, u \in Threads : job[w].method = "PUT" /\ job[u].method = "PUT" /\ w # u =>
        job[w].put # job[u].put

UnsavedIsUnseen ==
  \A w \in Threads : job[w].pc \in {"push", "finish"} =>
     \A v \in 1..Len(versions) : versions[v].put # job[w].put

(* w's PUT is the version own, and no other, whole if its client stayed.   *)
Saved(w) ==
  /\ job[w].own # Nothing
  /\ versions[job[w].own].put = job[w].put
  /\ ~job[w].gone => versions[job[w].own].chunks = job[w].size
  /\ \A v \in 1..Len(versions) : versions[v].put = job[w].put => v = job[w].own

UploadIsFounded ==
  \A w \in Threads :
     /\ At(w, "finish") /\ ~job[w].broken /\ ~job[w].gone => job[w].done = job[w].size
     /\ At(w, "validate") \/ Answered(w, "PUT") => Saved(w)

TransferInv ==
  /\ TypeOK
  /\ MethodFitsPhase
  /\ PutsAreNumbered
  /\ UnsavedIsUnseen
  /\ UploadIsFounded
  /\ ShortBodyWasCut
  /\ BodyIsNoOlderThanEtag
  /\ SavedEtagIsNoOlder
=============================================================================
