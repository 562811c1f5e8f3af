--------------------------- MODULE TransfersProofs ---------------------------
(***************************************************************************)
(* That the transfers of Transfers keep their promises, for any number of  *)
(* threads, PUTs and chunks: TransferInv is inductive.  Most steps change  *)
(* one thread's job and nothing else, so the invariant is taken apart into *)
(* what it says of one job, Fits, and what it says of the versions and of  *)
(* pairs of jobs.                                                          *)
(***************************************************************************)
EXTENDS Transfers, TLAPS

(* What TransferInv says of one job, over the versions vs. *)
Ok(j, method) == j.pc = "answered" /\ j.status = "ok" /\ j.method = method

SavedIn(j, vs) ==
  /\ j.own # Nothing
  /\ vs[j.own].put = j.put
  /\ ~j.gone => vs[j.own].chunks = j.size
  /\ \A v \in 1..Len(vs) : vs[v].put = j.put => v = j.own

Fits(j, vs) ==
  /\ j \in Job
  /\ j.own <= Len(vs) /\ j.seen <= Len(vs)
  /\ j.pc = "stat" => j.method \in {"GET", "HEAD"} /\ j.own = Nothing
  /\ j.pc = "open" => j.method = "GET" /\ j.own = Nothing
  /\ j.pc = "pull" => j.method = "GET" /\ j.own # Nothing
  /\ Ok(j, "GET") => j.own # Nothing
  /\ j.pc \in {"push", "finish", "validate"} => j.method = "PUT"
  /\ j.pc \in {"push", "finish"} => \A v \in 1..Len(vs) : vs[v].put # j.put
  /\ j.pc = "finish" /\ ~j.broken /\ ~j.gone => j.done = j.size
  /\ j.pc = "validate" \/ Ok(j, "PUT") => SavedIn(j, vs)
  /\ Ok(j, "GET") /\ ~j.gone =>
       \/ j.done = vs[j.own].chunks
       \/ j.cut = "failed" /\ j.done > 0
       \/ j.cut = "cancelled"
  /\ j.method = "GET" /\ j.own # Nothing => j.seen <= j.own
  /\ Ok(j, "PUT") /\ j.seen # Nothing => j.own # Nothing /\ j.own <= j.seen

(* And of all together. *)
Apart ==
  /\ versions \in Seq(Version) \ {<<>>}
  /\ puts \in 0..MaxPuts
  /\ job \in [Threads -> Job]
  /\ PutsAreNumbered

LEMMA InvIsFitsAndApart ==
  /\ TransferInv <=> Apart /\ \A w \in Threads : Fits(job[w], versions)
  /\ TransferInv' <=> Apart' /\ \A w \in Threads : Fits(job'[w], versions')
BY DEF TransferInv, TypeOK, MethodFitsPhase, UnsavedIsUnseen, UploadIsFounded, Saved,
       ShortBodyWasCut, BodyIsNoOlderThanEtag, SavedEtagIsNoOlder, Apart, Fits,
       Ok, SavedIn, Answered, At

(* A step that makes j of w's job, and changes nothing else. *)
LEMMA LocalStep ==
  ASSUME TransferInv, NEW w \in Threads, NEW j,
         job' = [job EXCEPT ![w] = j], UNCHANGED <<versions, puts>>,
         Fits(j, versions),
         j.method = "PUT" => job[w].method = "PUT" /\ j.put = job[w].put
  PROVE  TransferInv'
<1>1. Apart /\ \A u \in Threads : Fits(job[u], versions)
  BY InvIsFitsAndApart
<1>2. \A u \in Threads : job'[u] = IF u = w THEN j ELSE job[u]
  BY <1>1 DEF Apart
<1>3. \A u \in Threads : Fits(job'[u], versions')
  BY <1>1, <1>2
<1>4. PutsAreNumbered'
  BY <1>1, <1>2 DEF Apart, PutsAreNumbered
<1>5. job' \in [Threads -> Job]
  BY <1>1 DEF Apart, Fits
<1>6. Apart'
  BY <1>1, <1>4, <1>5 DEF Apart
<1> QED
  BY <1>3, <1>6, InvIsFitsAndApart

LEMMA NoJobFits ==
  /\ NoJob \in Job /\ NoJob.pc = "idle" /\ NoJob.method = "GET" /\ NoJob.own = 0
  /\ NoJob.seen = 0 /\ NoJob.status = "none" /\ NoJob.done = 0
BY TransferBoundsAreNat DEF NoJob, Job, Nothing

LEMMA InitTransferInv == Init => TransferInv
<1> SUFFICES ASSUME Init PROVE TransferInv
  OBVIOUS
<1> USE TransferBoundsAreNat
<1>1. PICK n \in 0..MaxChunks : versions = <<[put |-> 0, chunks |-> n]>>
  BY DEF Init
<1>2. [put |-> 0, chunks |-> n] \in Version
  BY DEF Version
<1>3. /\ versions \in Seq(Version) \ {<<>>} /\ Len(versions) = 1
      /\ \A v \in 1..Len(versions) : versions[v].put = 0
  BY <1>1, <1>2
<1>4. \A w \in Threads : job[w] = NoJob
  BY DEF Init
<1>5. PutsAreNumbered
  BY <1>3, <1>4, NoJobFits DEF Init, PutsAreNumbered
<1>6. Apart
  BY <1>3, <1>4, <1>5, NoJobFits DEF Init, Apart
<1>7. Fits(NoJob, versions)
  BY <1>3, <1>4, NoJobFits DEF Fits, Ok, Nothing
<1> QED
  BY <1>4, <1>6, <1>7, InvIsFitsAndApart

-----------------------------------------------------------------------------
(* The steps of GET and HEAD. *)

LEMMA StartGetKeeps ==
  ASSUME TransferInv, NEW w \in Threads, NEW m \in {"GET", "HEAD"}, StartGet(w, m)
  PROVE  TransferInv'
<1> USE TransferBoundsAreNat
<1> DEFINE j == [NoJob EXCEPT !.pc = "stat", !.method = m]
<1>1. Apart
  BY InvIsFitsAndApart
<1>2. /\ j \in Job /\ j.pc = "stat" /\ j.method = m /\ j.own = Nothing
      /\ j.seen = Nothing /\ j.status = "none"
  BY NoJobFits DEF Job, Nothing
<1>3. Fits(j, versions)
  BY <1>1, <1>2 DEF Fits, Ok, Nothing, Apart
<1> QED
  BY <1>2, <1>3, LocalStep DEF StartGet

LEMMA StatForGetKeeps ==
  ASSUME TransferInv, NEW w \in Threads, StatForGet(w) PROVE TransferInv'
<1>1. PICK v \in {Current, Nothing} :
         job' = [job EXCEPT ![w].pc = "open", ![w].seen = v]
  BY DEF StatForGet
<1> DEFINE j == [job[w] EXCEPT !.pc = "open", !.seen = v]
<1>2. Apart /\ Fits(job[w], versions)
  BY InvIsFitsAndApart
<1>3. job[w] \in Job /\ job[w].own = Nothing /\ job[w].method = "GET"
  BY <1>2 DEF StatForGet, Fits, At
<1>4. job' = [job EXCEPT ![w] = j]
  BY <1>1, <1>2 DEF Apart
<1>5. v \in Nat /\ v <= Len(versions)
  BY <1>1, <1>2 DEF Apart, Current, Nothing
<1>6. /\ j \in Job /\ j.pc = "open" /\ j.method = "GET"
      /\ j.own = Nothing /\ j.seen <= Len(versions)
  BY <1>2, <1>3, <1>5 DEF Job
<1>7. Fits(j, versions)
  BY <1>2, <1>3, <1>6 DEF Fits, Ok, Nothing, Apart, SavedIn
<1> QED
  BY <1>3, <1>4, <1>6, <1>7, LocalStep DEF StatForGet

LEMMA StatForHeadKeeps ==
  ASSUME TransferInv, NEW w \in Threads, StatForHead(w) PROVE TransferInv'
<1>1. PICK v \in {Current, Nothing} :
         job' = [job EXCEPT ![w].pc = "answered", ![w].status = "ok", ![w].seen = v]
  BY DEF StatForHead
<1> DEFINE j == [job[w] EXCEPT !.pc = "answered", !.status = "ok", !.seen = v]
<1>2. Apart /\ Fits(job[w], versions)
  BY InvIsFitsAndApart
<1>3. job[w] \in Job /\ job[w].own = Nothing /\ job[w].method = "HEAD"
  BY <1>2 DEF StatForHead, Fits, At
<1>4. job' = [job EXCEPT ![w] = j]
  BY <1>1, <1>2 DEF Apart
<1>5. v \in Nat /\ v <= Len(versions)
  BY <1>1, <1>2 DEF Apart, Current, Nothing
<1>6. /\ j \in Job /\ j.pc = "answered" /\ j.method = "HEAD"
      /\ j.own = Nothing /\ j.seen <= Len(versions)
  BY <1>2, <1>3, <1>5 DEF Job
<1>7. Fits(j, versions)
  BY <1>2, <1>3, <1>6 DEF Fits, Ok, Nothing, Apart, SavedIn
<1> QED
  BY <1>3, <1>4, <1>6, <1>7, LocalStep DEF StatForHead

LEMMA OpenDownloadKeeps ==
  ASSUME TransferInv, NEW w \in Threads, OpenDownload(w) PROVE TransferInv'
<1>1. job' = [job EXCEPT ![w].pc = "pull", ![w].own = Current]
  BY DEF OpenDownload
<1> DEFINE j == [job[w] EXCEPT !.pc = "pull", !.own = Current]
<1>2. Apart /\ Fits(job[w], versions)
  BY InvIsFitsAndApart
<1>3. /\ job[w] \in Job /\ job[w].method = "GET" /\ job[w].seen <= Len(versions)
      /\ Current = Len(versions) /\ Len(versions) \in Nat \ {0}
  BY <1>2 DEF OpenDownload, Fits, At, Apart, Current
<1>4. job' = [job EXCEPT ![w] = j]
  BY <1>1, <1>2 DEF Apart
<1>5. /\ j \in Job /\ j.pc = "pull" /\ j.method = "GET"
      /\ j.own = Len(versions) /\ j.seen <= Len(versions)
  BY <1>2, <1>3 DEF Job
<1>6. Fits(j, versions)
  BY <1>2, <1>3, <1>5 DEF Fits, Ok, Nothing, Apart, SavedIn
<1> QED
  BY <1>3, <1>4, <1>5, <1>6, LocalStep DEF OpenDownload

(* Of a download, once it has begun. *)
LEMMA Pulling ==
  ASSUME TransferInv, NEW w \in Threads, At(w, "pull")
  PROVE  /\ Apart /\ Fits(job[w], versions) /\ job[w] \in Job
         /\ job[w].pc = "pull" /\ job[w].method = "GET"
         /\ job[w].own \in 1..Len(versions) /\ job[w].seen <= job[w].own
         /\ versions[job[w].own].chunks \in 0..MaxChunks
<1>1. Apart /\ Fits(job[w], versions)
  BY InvIsFitsAndApart
<1>2. job[w].own \in 1..Len(versions)
  BY <1>1 DEF Apart, Fits, At, Job, Nothing
<1>3. versions[job[w].own] \in Version
  BY <1>1, <1>2 DEF Apart
<1> QED
  BY <1>1, <1>2, <1>3 DEF Fits, At, Nothing, Version

LEMMA PullChunkKeeps ==
  ASSUME TransferInv, NEW w \in Threads, PullChunk(w) PROVE TransferInv'
<1>1. job' = [job EXCEPT ![w].done = job[w].done + 1] /\ At(w, "pull")
  BY DEF PullChunk, Succeed
<1> DEFINE j == [job[w] EXCEPT !.done = job[w].done + 1]
<1>2. job' = [job EXCEPT ![w] = j]
  BY <1>1, Pulling DEF Apart
<1>3. /\ j \in Job /\ j.pc = "pull"
      /\ j.own = job[w].own /\ j.seen = job[w].seen /\ j.method = "GET"
  <2>1. job[w].done + 1 \in 0..MaxChunks
    BY <1>1, Pulling, TransferBoundsAreNat DEF PullChunk, Job
  <2> QED
    BY <1>1, <2>1, Pulling DEF Job
<1>4. Fits(j, versions)
  BY <1>1, <1>3, Pulling DEF Fits, Ok, Nothing, Apart, Job
<1> QED
  BY <1>2, <1>3, <1>4, LocalStep DEF PullChunk

LEMMA PullForNobodyKeeps ==
  ASSUME TransferInv, NEW w \in Threads, PullForNobody(w) PROVE TransferInv'
<1>1. job' = [job EXCEPT ![w].pc = "answered", ![w].status = "ok"] /\ At(w, "pull")
  BY DEF PullForNobody, Succeed
<1> DEFINE j == [job[w] EXCEPT !.pc = "answered", !.status = "ok"]
<1>2. job' = [job EXCEPT ![w] = j]
  BY <1>1, Pulling DEF Apart
<1>3. /\ j \in Job /\ j.pc = "answered" /\ j.gone
      /\ j.own = job[w].own /\ j.seen = job[w].seen /\ j.method = "GET"
  BY <1>1, Pulling DEF PullForNobody, Job
<1>4. Fits(j, versions)
  BY <1>1, <1>3, Pulling DEF Fits, Ok, Nothing, Apart, Job
<1> QED
  BY <1>2, <1>3, <1>4, LocalStep DEF PullForNobody

LEMMA EndDownloadKeeps ==
  ASSUME TransferInv, NEW w \in Threads, EndDownload(w) PROVE TransferInv'
<1>1. job' = [job EXCEPT ![w].pc = "answered", ![w].status = "ok"] /\ At(w, "pull")
  BY DEF EndDownload, Succeed
<1> DEFINE j == [job[w] EXCEPT !.pc = "answered", !.status = "ok"]
<1>2. job' = [job EXCEPT ![w] = j]
  BY <1>1, Pulling DEF Apart
<1>3. /\ j \in Job /\ j.pc = "answered" /\ j.done = versions[j.own].chunks
      /\ j.own = job[w].own /\ j.seen = job[w].seen /\ j.method = "GET"
  BY <1>1, Pulling DEF EndDownload, Job
<1>4. Fits(j, versions)
  BY <1>1, <1>3, Pulling DEF Fits, Ok, Nothing, Apart, Job
<1> QED
  BY <1>2, <1>3, <1>4, LocalStep DEF EndDownload

LEMMA DownloadFailsKeeps ==
  ASSUME TransferInv, NEW w \in Threads, DownloadFails(w) PROVE TransferInv'
<1>1. job' = [job EXCEPT ![w].pc = "answered", ![w].cut = "failed", ![w].status = IF job[w].done > 0 THEN "ok" ELSE "error"] /\ At(w, "pull")
  BY DEF DownloadFails, Succeed
<1> DEFINE j == [job[w] EXCEPT !.pc = "answered", !.cut = "failed", !.status = IF job[w].done > 0 THEN "ok" ELSE "error"]
<1>2. job' = [job EXCEPT ![w] = j]
  BY <1>1, Pulling DEF Apart
<1>3. /\ j \in Job /\ j.pc = "answered" /\ j.cut = "failed"
      /\ j.status = "ok" => j.done > 0
      /\ j.own = job[w].own /\ j.seen = job[w].seen /\ j.method = "GET"
  BY <1>1, Pulling DEF DownloadFails, Job
<1>4. Fits(j, versions)
  BY <1>1, <1>3, Pulling DEF Fits, Ok, Nothing, Apart, Job
<1> QED
  BY <1>2, <1>3, <1>4, LocalStep DEF DownloadFails

LEMMA DownloadCancelledKeeps ==
  ASSUME TransferInv, NEW w \in Threads, DownloadCancelled(w) PROVE TransferInv'
<1>1. job' = [job EXCEPT ![w].pc = "answered", ![w].cut = "cancelled", ![w].status = "ok"] /\ At(w, "pull")
  BY DEF DownloadCancelled, Succeed
<1> DEFINE j == [job[w] EXCEPT !.pc = "answered", !.cut = "cancelled", !.status = "ok"]
<1>2. job' = [job EXCEPT ![w] = j]
  BY <1>1, Pulling DEF Apart
<1>3. /\ j \in Job /\ j.pc = "answered" /\ j.cut = "cancelled"
      /\ j.own = job[w].own /\ j.seen = job[w].seen /\ j.method = "GET"
  BY <1>1, Pulling DEF DownloadCancelled, Job
<1>4. Fits(j, versions)
  BY <1>1, <1>3, Pulling DEF Fits, Ok, Nothing, Apart, Job
<1> QED
  BY <1>2, <1>3, <1>4, LocalStep DEF DownloadCancelled

-----------------------------------------------------------------------------
(* The steps of PUT. *)

LEMMA StartPutKeeps ==
  ASSUME TransferInv, NEW w \in Threads, NEW size \in 0..MaxChunks, StartPut(w, size)
  PROVE  TransferInv'
<1> USE TransferBoundsAreNat
<1> DEFINE j == [NoJob EXCEPT !.pc = "push", !.method = "PUT", !.put = puts + 1, !.size = size]
<1>1. Apart /\ \A u \in Threads : Fits(job[u], versions)
  BY InvIsFitsAndApart
<1>2. /\ job' = [job EXCEPT ![w] = j] /\ versions' = versions
      /\ puts' = puts + 1 /\ puts < MaxPuts /\ puts \in Nat
  BY <1>1 DEF StartPut, Apart
<1>3. /\ j \in Job /\ j.pc = "push" /\ j.method = "PUT" /\ j.put = puts + 1
      /\ j.own = Nothing /\ j.seen = Nothing
  <2>1. puts + 1 \in 0..MaxPuts
    BY <1>2
  <2> QED
    BY <2>1, NoJobFits DEF Job, Nothing
<1>4. \A u \in Threads : job'[u] = IF u = w THEN j ELSE job[u]
  BY <1>1, <1>2 DEF Apart
<1>5. \A v \in 1..Len(versions) : versions[v].put # puts + 1
  <2> SUFFICES ASSUME NEW v \in 1..Len(versions) PROVE versions[v].put # puts + 1
    OBVIOUS
  <2>1. versions[v].put <= puts /\ versions[v] \in Version
    BY <1>1 DEF Apart, PutsAreNumbered
  <2> QED
    BY <1>2, <2>1 DEF Version
<1>6. Fits(j, versions)
  BY <1>1, <1>3, <1>5 DEF Fits, Ok, Nothing, Apart
<1>7. \A u \in Threads : Fits(job'[u], versions')
  BY <1>1, <1>2, <1>4, <1>6
<1>8. PutsAreNumbered'
  <2>1. \A u \in Threads : job[u] \in Job
    BY <1>1 DEF Apart
  <2>2. \A v \in 1..Len(versions) : versions[v] \in Version
    BY <1>1 DEF Apart
  <2>3. \A v \in 1..Len(versions') : versions'[v].put <= puts'
    BY <1>1, <1>2, <2>2 DEF Apart, PutsAreNumbered, Version
  <2>4. \A u \in Threads \ {w} : job[u].method = "PUT" => job[u].put <= puts /\ job[u].put \in Nat
    BY <1>1, <2>1 DEF Apart, PutsAreNumbered, Job
  <2> HIDE DEF j
  <2>5. \A u \in Threads : job'[u].method = "PUT" => job'[u].put <= puts'
    BY <1>2, <1>3, <1>4, <2>4
  <2>6. \A u, x \in Threads : job'[u].method = "PUT" /\ job'[x].method = "PUT" /\ u # x =>
           job'[u].put # job'[x].put
    BY <1>1, <1>2, <1>3, <1>4, <2>4 DEF Apart, PutsAreNumbered
  <2> QED
    BY <2>3, <2>5, <2>6 DEF PutsAreNumbered
<1>9. Apart'
  BY <1>1, <1>2, <1>3, <1>8 DEF Apart
<1> QED
  BY <1>7, <1>9, InvIsFitsAndApart

(* A job keeps fitting when another PUT's version comes after the others. *)
LEMMA FitsAppended ==
  ASSUME NEW vs \in Seq(Version), NEW x \in Version, NEW k, Fits(k, vs),
         k.method = "PUT" => x.put # k.put
  PROVE  Fits(k, Append(vs, x))
<1> DEFINE ws == Append(vs, x)
<1>1. /\ Len(ws) = Len(vs) + 1 /\ Len(vs) \in Nat
      /\ \A v \in 1..Len(vs) : ws[v] = vs[v]
      /\ ws[Len(vs) + 1] = x
  OBVIOUS
<1>2. k \in Job /\ k.own <= Len(vs) /\ k.own \in Nat /\ k.seen <= Len(vs) /\ k.seen \in Nat
  BY DEF Fits, Job
<1>3. k.own # Nothing => k.own \in 1..Len(vs) /\ ws[k.own] = vs[k.own]
  BY <1>1, <1>2 DEF Nothing
<1>4. \A v \in 1..Len(ws) : v \in 1..Len(vs) \/ ws[v] = x
  BY <1>1
<1> HIDE DEF ws
<1>5. k.pc \in {"push", "finish"} => \A v \in 1..Len(ws) : ws[v].put # k.put
  BY <1>1, <1>4 DEF Fits
<1>6. k.pc = "validate" \/ Ok(k, "PUT") => SavedIn(k, ws)
  <2> SUFFICES ASSUME k.pc = "validate" \/ Ok(k, "PUT") PROVE SavedIn(k, ws)
    OBVIOUS
  <2>1. SavedIn(k, vs) /\ x.put # k.put
    BY DEF Fits, Ok
  <2> QED
    BY <1>1, <1>3, <1>4, <2>1 DEF SavedIn
<1>7. Ok(k, "GET") /\ ~k.gone =>
        k.done = ws[k.own].chunks \/ (k.cut = "failed" /\ k.done > 0) \/ k.cut = "cancelled"
  BY <1>3 DEF Fits
<1>8. Fits(k, ws)
  BY <1>1, <1>2, <1>5, <1>6, <1>7 DEF Fits
<1> QED
  BY <1>8 DEF ws

(* Of an upload whose stream has ended. *)
LEMMA Finishing ==
  ASSUME TransferInv, NEW w \in Threads, At(w, "finish")
  PROVE  /\ Apart /\ Fits(job[w], versions) /\ job[w] \in Job
         /\ job[w].pc = "finish" /\ job[w].method = "PUT"
         /\ Received(w) \in Version /\ Received(w).put = job[w].put
         /\ Received(w).chunks = job[w].done
         /\ \A v \in 1..Len(versions) : versions[v].put # job[w].put
BY InvIsFitsAndApart DEF Fits, At, Received, Version, Job

(* A step that makes a version of w's upload. *)
LEMMA AppendStep ==
  ASSUME TransferInv, NEW w \in Threads, NEW j, At(w, "finish"),
         versions' = Append(versions, Received(w)), puts' = puts,
         job' = [job EXCEPT ![w] = j],
         Fits(j, versions'), j.method = "PUT", j.put = job[w].put
  PROVE  TransferInv'
<1>1. Apart /\ \A u \in Threads : Fits(job[u], versions)
  BY InvIsFitsAndApart
<1>2. \A u \in Threads : job'[u] = IF u = w THEN j ELSE job[u]
  BY <1>1 DEF Apart
<1>3. \A u \in Threads \ {w} : job[u].method = "PUT" => Received(w).put # job[u].put
  BY <1>1, Finishing DEF Apart, PutsAreNumbered
<1>4. \A u \in Threads : Fits(job'[u], versions')
  BY <1>1, <1>2, <1>3, Finishing, FitsAppended DEF Apart
<1>5. PutsAreNumbered'
  <2>1. \A v \in 1..Len(versions') : versions'[v].put <= puts'
    <3>1. Received(w).put <= puts
      BY Finishing DEF Apart, PutsAreNumbered
    <3>2. \A v \in 1..Len(versions') :
             (v \in 1..Len(versions) /\ versions'[v] = versions[v]) \/ versions'[v] = Received(w)
      BY <1>1, Finishing DEF Apart
    <3> QED
      BY <1>1, <3>1, <3>2 DEF Apart, PutsAreNumbered
  <2>2. \A u \in Threads : job'[u].method = "PUT" => job[u].method = "PUT" /\ job'[u].put = job[u].put
    BY <1>2, Finishing
  <2>3. \A u \in Threads : job'[u].method = "PUT" => job'[u].put <= puts'
    BY <1>1, <2>2 DEF Apart, PutsAreNumbered
  <2>4. \A u, x \in Threads : job'[u].method = "PUT" /\ job'[x].method = "PUT" /\ u # x =>
           job'[u].put # job'[x].put
    BY <1>1, <2>2 DEF Apart, PutsAreNumbered
  <2> QED
    BY <2>1, <2>3, <2>4 DEF PutsAreNumbered
<1>6. versions' \in Seq(Version) \ {<<>>}
  BY <1>1, Finishing DEF Apart
<1>7. Apart'
  BY <1>1, <1>5, <1>6 DEF Apart, Fits
<1> QED
  BY <1>4, <1>7, InvIsFitsAndApart

LEMMA FinishUploadKeeps ==
  ASSUME TransferInv, NEW w \in Threads, FinishUpload(w) PROVE TransferInv'
<1> DEFINE j == [job[w] EXCEPT !.pc = "validate", !.own = Len(versions')]
<1>1. At(w, "finish") /\ ~job[w].broken /\ versions' = Append(versions, Received(w))
  BY DEF FinishUpload
<1>2. job' = [job EXCEPT ![w] = j]
  BY <1>1, Finishing DEF FinishUpload, Apart
<1>3. /\ Len(versions') = Len(versions) + 1 /\ Len(versions) \in Nat
      /\ versions'[Len(versions')] = Received(w)
      /\ \A v \in 1..Len(versions) : versions'[v] = versions[v]
  BY <1>1, Finishing DEF Apart
<1>4. /\ j \in Job /\ j.pc = "validate" /\ j.own = Len(versions') /\ j.put = job[w].put
      /\ j.method = "PUT" /\ j.seen = job[w].seen /\ j.gone = job[w].gone
      /\ j.size = job[w].size
  <2>1. Len(versions') \in Nat
    BY <1>3
  <2> QED
    BY <1>1, <2>1, Finishing DEF Job
<1>5. ~j.gone => job[w].done = j.size
  BY <1>1, <1>4, Finishing DEF Fits
<1>6. SavedIn(j, versions')
  BY <1>1, <1>3, <1>4, <1>5, Finishing DEF SavedIn, Nothing
<1>7. j.seen <= Len(versions') /\ j.own <= Len(versions')
  BY <1>1, <1>3, <1>4, Finishing DEF Fits, Job
<1>8. Fits(j, versions')
  BY <1>4, <1>6, <1>7 DEF Fits, Ok
<1> QED
  BY <1>1, <1>2, <1>4, <1>8, AppendStep DEF FinishUpload

LEMMA FinishIsLostKeeps ==
  ASSUME TransferInv, NEW w \in Threads, FinishIsLost(w) PROVE TransferInv'
<1> DEFINE j == [job[w] EXCEPT !.pc = "answered", !.status = "error"]
<1>1. At(w, "finish") /\ versions' = Append(versions, Received(w))
  BY DEF FinishIsLost
<1>2. job' = [job EXCEPT ![w] = j]
  BY <1>1, Finishing DEF FinishIsLost, Fail, Apart
<1>3. /\ j \in Job /\ j.pc = "answered" /\ j.status = "error" /\ j.put = job[w].put
      /\ j.method = "PUT" /\ j.own = job[w].own /\ j.seen = job[w].seen
  BY <1>1, Finishing DEF Job
<1>4. Len(versions') = Len(versions) + 1 /\ Len(versions) \in Nat
  BY <1>1, Finishing DEF Apart
<1>5. j.seen <= Len(versions') /\ j.own <= Len(versions')
  BY <1>1, <1>3, <1>4, Finishing DEF Fits, Job
<1>6. Fits(j, versions')
  BY <1>3, <1>5 DEF Fits, Ok
<1> QED
  BY <1>1, <1>2, <1>3, <1>6, AppendStep DEF FinishIsLost

(* Of an upload whose body is being sent. *)
LEMMA Pushing ==
  ASSUME TransferInv, NEW w \in Threads, At(w, "push")
  PROVE  /\ Apart /\ Fits(job[w], versions) /\ job[w] \in Job
         /\ job[w].pc = "push" /\ job[w].method = "PUT"
         /\ \A v \in 1..Len(versions) : versions[v].put # job[w].put
BY InvIsFitsAndApart DEF Fits, At

LEMMA PushChunkKeeps ==
  ASSUME TransferInv, NEW w \in Threads, PushChunk(w) PROVE TransferInv'
<1>1. At(w, "push") /\ ~job[w].gone /\ job[w].done < job[w].size
  BY DEF PushChunk
<1>2. CASE job' = [job EXCEPT ![w].done = @ + 1]
  <2> DEFINE j == [job[w] EXCEPT !.done = job[w].done + 1]
  <2>1. job' = [job EXCEPT ![w] = j]
    BY <1>1, <1>2, Pushing DEF Apart
  <2>2. job[w].done + 1 \in 0..MaxChunks
    BY <1>1, Pushing, TransferBoundsAreNat DEF Job
  <2>3. /\ j \in Job /\ j.pc = "push" /\ j.method = "PUT" /\ j.put = job[w].put
        /\ j.own = job[w].own /\ j.seen = job[w].seen
    BY <1>1, <2>2, Pushing DEF Job
  <2>4. Fits(j, versions)
    BY <1>1, <2>3, Pushing DEF Fits, Ok
  <2> QED
    BY <1>1, <2>1, <2>3, <2>4, Pushing, LocalStep DEF PushChunk
<1>3. CASE job' = [job EXCEPT ![w].pc = "finish", ![w].broken = TRUE]
  <2> DEFINE j == [job[w] EXCEPT !.pc = "finish", !.broken = TRUE]
  <2>1. job' = [job EXCEPT ![w] = j]
    BY <1>1, <1>3, Pushing DEF Apart
  <2>2. /\ j \in Job /\ j.pc = "finish" /\ j.method = "PUT" /\ j.put = job[w].put
        /\ j.own = job[w].own /\ j.seen = job[w].seen /\ j.broken
    BY <1>1, Pushing DEF Job
  <2>3. Fits(j, versions)
    BY <1>1, <2>2, Pushing DEF Fits, Ok
  <2> QED
    BY <1>1, <2>1, <2>2, <2>3, Pushing, LocalStep DEF PushChunk
<1> QED
  BY <1>2, <1>3 DEF PushChunk

LEMMA EndOfBodyKeeps ==
  ASSUME TransferInv, NEW w \in Threads, EndOfBody(w) PROVE TransferInv'
<1> DEFINE j == [job[w] EXCEPT !.pc = "finish"]
<1>1. At(w, "push") /\ (job[w].gone \/ job[w].done = job[w].size)
  BY DEF EndOfBody
<1>2. job' = [job EXCEPT ![w] = j]
  BY <1>1, Pushing DEF EndOfBody, Apart
<1>3. /\ j \in Job /\ j.pc = "finish" /\ j.method = "PUT" /\ j.put = job[w].put
      /\ j.own = job[w].own /\ j.seen = job[w].seen
      /\ j.gone \/ j.done = j.size
  BY <1>1, Pushing DEF Job
<1>4. Fits(j, versions)
  BY <1>1, <1>3, Pushing DEF Fits, Ok
<1> QED
  BY <1>1, <1>2, <1>3, <1>4, Pushing, LocalStep DEF EndOfBody

LEMMA FinishFailsKeeps ==
  ASSUME TransferInv, NEW w \in Threads, FinishFails(w) PROVE TransferInv'
<1> DEFINE j == [job[w] EXCEPT !.pc = "answered", !.status = "error"]
<1>1. At(w, "finish")
  BY DEF FinishFails
<1>2. job' = [job EXCEPT ![w] = j]
  BY <1>1, Finishing DEF FinishFails, Fail, Apart
<1>3. /\ j \in Job /\ j.pc = "answered" /\ j.status = "error" /\ j.put = job[w].put
      /\ j.method = "PUT" /\ j.own = job[w].own /\ j.seen = job[w].seen
  BY <1>1, Finishing DEF Job
<1>4. Fits(j, versions)
  BY <1>1, <1>3, Finishing DEF Fits, Ok
<1> QED
  BY <1>1, <1>2, <1>3, <1>4, Finishing, LocalStep DEF FinishFails

LEMMA ValidateKeeps ==
  ASSUME TransferInv, NEW w \in Threads, Validate(w) PROVE TransferInv'
<1>1. PICK v \in {Current, Nothing} :
         job' = [job EXCEPT ![w].pc = "answered", ![w].status = "ok", ![w].seen = v]
  BY DEF Validate
<1> DEFINE j == [job[w] EXCEPT !.pc = "answered", !.status = "ok", !.seen = v]
<1>2. Apart /\ Fits(job[w], versions)
  BY InvIsFitsAndApart
<1>3. job[w] \in Job /\ job[w].method = "PUT" /\ SavedIn(job[w], versions)
  BY <1>2 DEF Validate, At, Fits
<1>4. job' = [job EXCEPT ![w] = j]
  BY <1>1, <1>2 DEF Apart
<1>5. Len(versions) \in Nat /\ (v = Len(versions) \/ v = Nothing)
  BY <1>1, <1>2 DEF Apart, Current
<1>6. /\ j \in Job /\ j.pc = "answered" /\ j.method = "PUT" /\ j.put = job[w].put
      /\ j.own = job[w].own /\ j.seen = v /\ j.gone = job[w].gone /\ j.size = job[w].size
  <2>1. v \in Nat
    BY <1>5 DEF Nothing
  <2> QED
    BY <1>3, <2>1 DEF Job
<1>7. SavedIn(j, versions)
  BY <1>3, <1>6 DEF SavedIn
<1>8. j.own <= Len(versions) /\ j.seen <= Len(versions)
  BY <1>2, <1>5, <1>6 DEF Fits, Nothing
<1>9. j.seen # Nothing => j.own # Nothing /\ j.own <= j.seen
  BY <1>5, <1>6, <1>7, <1>8 DEF SavedIn
<1>10. Fits(j, versions)
  BY <1>6, <1>7, <1>8, <1>9 DEF Fits, Ok
<1> QED
  BY <1>3, <1>4, <1>6, <1>10, LocalStep DEF Validate

-----------------------------------------------------------------------------
(* The end of a request, and of a connection. *)

LEMMA LeaveKeeps ==
  ASSUME TransferInv, NEW w \in Threads, Leave(w) PROVE TransferInv'
<1>1. Apart
  BY InvIsFitsAndApart
<1>2. Fits(NoJob, versions)
  BY <1>1, NoJobFits DEF Fits, Ok, Nothing, Apart
<1> QED
  BY <1>2, NoJobFits, LocalStep DEF Leave

LEMMA HangUpKeeps ==
  ASSUME TransferInv, NEW w \in Threads, HangUp(w) PROVE TransferInv'
<1> DEFINE j == [job[w] EXCEPT !.gone = TRUE]
<1>1. Apart /\ Fits(job[w], versions) /\ job[w] \in Job
  BY InvIsFitsAndApart DEF Fits
<1>2. job' = [job EXCEPT ![w] = j] /\ job[w].pc # "answered"
  BY <1>1 DEF HangUp, Apart
<1>3. /\ j \in Job /\ j.pc = job[w].pc /\ j.method = job[w].method /\ j.put = job[w].put
      /\ j.own = job[w].own /\ j.seen = job[w].seen /\ j.gone /\ j.size = job[w].size
      /\ j.done = job[w].done
  BY <1>1 DEF Job
<1>4. j.pc = "validate" => SavedIn(j, versions)
  BY <1>1, <1>3 DEF Fits, SavedIn
<1>5. Fits(j, versions)
  BY <1>1, <1>2, <1>3, <1>4 DEF Fits, Ok
<1> QED
  BY <1>2, <1>3, <1>5, LocalStep DEF HangUp

LEMMA NextTransferInv == TransferInv /\ [Next]_vars => TransferInv'
<1> SUFFICES ASSUME TransferInv, [Next]_vars PROVE TransferInv'
  OBVIOUS
<1>1. CASE UNCHANGED vars
  BY <1>1, InvIsFitsAndApart DEF vars, Apart, PutsAreNumbered
<1>2. ASSUME NEW w \in Threads, Get(w) PROVE TransferInv'
  BY <1>2, StartGetKeeps, StatForGetKeeps, StatForHeadKeeps, OpenDownloadKeeps,
     PullChunkKeeps, PullForNobodyKeeps, EndDownloadKeeps, DownloadFailsKeeps,
     DownloadCancelledKeeps DEF Get
<1>3. ASSUME NEW w \in Threads, Put(w) PROVE TransferInv'
  BY <1>3, StartPutKeeps, PushChunkKeeps, EndOfBodyKeeps, FinishUploadKeeps,
     FinishFailsKeeps, FinishIsLostKeeps, ValidateKeeps DEF Put
<1>4. ASSUME NEW w \in Threads, Leave(w) \/ HangUp(w) PROVE TransferInv'
  BY <1>4, LeaveKeeps, HangUpKeeps
<1> QED
  BY <1>1, <1>2, <1>3, <1>4 DEF Next

(* The inductive invariant of the transfers holds in every state they      *)
(* reach, however many threads, PUTs and chunks there are.                 *)
THEOREM TransfersKeepInv == Spec => []TransferInv
<1> QED
  BY InitTransferInv, NextTransferInv, PTL DEF Spec

(* A PUT that is answered with success to a client that is still there has *)
(* stored its whole body, once (handlePut, streamFileUpload).              *)
THEOREM SavesAreWhole == Spec => []AcknowledgedIsWhole
<1>1. TransferInv => AcknowledgedIsWhole
  BY DEF TransferInv, UploadIsFounded, Saved, AcknowledgedIsWhole
<1> QED
  BY <1>1, TransfersKeepInv, PTL

(* A body answered with 200 to a client that is there is whole, or its     *)
(* stream broke: after its first chunk, or with a status CANCELLED         *)
(* (handleGet, streamFileDownload).                                        *)
THEOREM ShortBodiesWereCut == Spec => []ShortBodyWasCut
<1>1. TransferInv => ShortBodyWasCut
  BY DEF TransferInv
<1> QED
  BY <1>1, TransfersKeepInv, PTL

(* No body is older than the validators it was sent with (handleGet).      *)
THEOREM BodiesAreNoOlder == Spec => []BodyIsNoOlderThanEtag
<1>1. TransferInv => BodyIsNoOlderThanEtag
  BY DEF TransferInv
<1> QED
  BY <1>1, TransfersKeepInv, PTL

(* No save is answered with validators older than it (handlePut).          *)
THEOREM SavedEtagsAreNoOlder == Spec => []SavedEtagIsNoOlder
<1>1. TransferInv => SavedEtagIsNoOlder
  BY DEF TransferInv
<1> QED
  BY <1>1, TransfersKeepInv, PTL

(* The versions and the requests keep their types, and no request refers   *)
(* to a version that there is not.                                         *)
THEOREM TransfersTypeCorrect == Spec => []TypeOK
<1>1. TransferInv => TypeOK
  BY DEF TransferInv
<1> QED
  BY <1>1, TransfersKeepInv, PTL
=============================================================================
