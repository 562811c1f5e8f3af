# Verification of the FileEngine WebDAV bridge

The bridge turns WebDAV requests into RPCs to the FileEngine core.  It keeps
no files of its own; what it keeps are caches, and what can go wrong in it
is what goes wrong with caches, with operations made of several RPCs, and
with many request threads doing both at once.  This directory holds TLA+
modules of the bridge, TLC configurations that check them on small
instances, and proofs for TLAPS.  `PROJECT.json` maps every definition to
the lines it models and lists the runs, hazards, findings and theorems.

## Inventory

| Component | State | Operations | Hard behaviour | Modules |
|---|---|---|---|---|
| Path resolver (`path_resolver.cpp`) | `path_to_uuid_map_`, one mutex | `resolvePath`, `createPathMapping`, `removePathMapping` | the mutex is not held over RPCs; entries go stale; walks are not atomic | `PathResolver`, `ResolverHistory`, `NameService`, `CoreProofs`, `ResolverProofs` |
| Request handlers (`webdav_server.cpp`) | locals of the thread | GET, HEAD, PUT, MKCOL, DELETE, PROPFIND, LOCK, COPY, MOVE | several RPCs each, any of which may fail; races between requests | `WebDAVHandlers`, `SequentialHandlers`, `ConcurrentHandlers`, `HandlersProofs`, `SequentialProofs` |
| Core service (external) | the tree of nodes | the RPCs of `fileservice.proto` | other clients, lost answers | `FileEngineCore`, `CoreProofs` |
| Tenant gate (`tenantAdmits`) | a static map, one mutex | check, look up, store | an answer is stored after the lock was released | `TenantGate`, `AdmissionProofs` |
| Admission (`authenticateUser`, `webdav_hardening.cpp`) | `verify_cache_`, one connection to Redis | credential, tenant, roles, origin | four layers with four lifetimes; broken connections; forged headers | `Admission`, `ClientAddress`, `AdmissionProofs` |
| Role lookup (`ldap_authenticator.cpp`, `circuit_breaker.h`) | `breaker_`, `ldap_mutex_`, the role cache in Redis | cache, master, replica, group search, cache | failover, cooldown, staleness, partial failure | `RoleLookup`, `RoleLookupProofs` |
| gRPC wrapper | stubs | `invoke`, streams | errors become unsuccessful answers; no deadlines | in the modules of its callers |
| Streams (`handleGet`, `handlePut`, `streamFileUpload`, `streamFileDownload`) | locals of the thread | Stat, chunks, `Finish`, Stat | streams that break half-way, clients that hang up, other versions in between | `Transfers`, `TransfersProofs` |
| Overload shedding, thread pool (`WebDAVServer`, `createRequestHandler`; Poco's dispatcher is external) | Poco's queue and pool, `shed_total_` | queue, take, shed, refuse, retire, report | limits, retiring threads, calls that never end | `Overload`, `OverloadProofs` |
| Client address (`client_ip.h`) | none | `resolveClientIp` | headers written by the client | `ClientAddress` |
| Tenant of the host name, path normalisation | none | pure functions of strings | corner cases | not modelled |
| OPTIONS, PROPPATCH, UNLOCK | none | answer from headers | none: no lock is ever kept | not modelled |
| LDAP password login, start-up, logging, the formats of the monitoring listener | - | - | dead code, read-only reports, or before the first request | not modelled |
| Generated RPC stubs | none | - | - | not modelled |

How they interact: a pool thread takes a request through `Admission`
(which calls the tenant gate and the role lookup) and then through a handler;
handlers call the resolver, and both call the core.  The threads share the
resolver's map, the tenant map, the credential map, the Redis connection, the
LDAP mutex and the breaker, and nothing else.  The core is shared with the
other bridges, the directory and Redis with everybody.

What makes each component correct: the resolver answers with a uid that the
path's name had during the call, and misses only what was absent; a handler
leaves the tree its method promises or says that it failed, and removes
nothing outside its subject; each layer of admission lets pass only what was
in order at most one lifetime before the request came; a role outlives its
revocation by no more than the cache's lifetime, and nobody is refused for an
outage that is over; a save is acknowledged only when it is whole, and a body
that is sent never older than its validators; nobody is turned away while a
thread is free, and every connection that was queued is taken.

## Modules

**`FileEngineCore`** defines the core's tree as operators: a uid is free, then
live, then gone; `CanX`/`X`-ed pairs say when an RPC is carried out and what
it does.  Paths are sequences of names, the root is the empty uid.  It is
external: each operator is what the bridge's code assumes of the RPC.  Where
neither the code nor the tests settle what the core does, this is assumed: a
directory holds anything and a file holds files only, its renditions
(`test_webdav.sh:203-218` puts one below a file by path, and gets 201); listing a file
shows them; `RemoveFile` ends them with the file, `RemoveDirectory` wants an
empty directory; `Copy` copies the one node (what it does below is not
modelled), and `UndeleteFile` brings back one node.

**`PathResolver`** has one step per RPC or critical section of `resolvePath`.
`call[w]` is the activation of thread `w`: its phase, path, the uid it holds
and the depth of its walk.  `LookupHit`/`LookupMiss` are the fast path under the
mutex, `VerifyHit`/`VerifyMiss` the Stat of a cached uid, `Evict` the removal,
`ListFound`/`ListMissing` one ListDirectory, `MapPrefix` the entry for each
prefix.  `Foreign` is one RPC by another client, any but `Copy`, whose outcome, a
new node with a name, is that of a creation.  The `""`-tenant fallback of
the lookup is left out: the handlers never pass an empty tenant, and the only
entry under `""` is the root's, which is answered before the lookup.

**`ResolverHistory`** runs the resolver under callers that may write any
mapping of any node at any time, a superset of what handlers do, and adds
history variables that no step reads: the links of the tree seen during each
call, what its walk matched, whether its path was absent at some instant.

**`NameService`** is the abstract specification of `resolvePath`: a client asks
for a path, the tree goes on changing, and the answer is "no such path" or a
node that had the path's last name since the question was asked.  It has no
cache, no walk and no RPC.  `ResolverHistory` implements it under a refinement
mapping (`Service`, `QuestionOf`): every phase of a call between its start and its
answer is an open question, and `held` is what has been `seen`.

**`WebDAVHandlers`** is the composition of the handlers with the resolver.
`job[w]` holds the request and the handler's locals; `pc` is the point it has
reached.  What a handler does between two RPCs belongs to the step of the
first.  `removeTreeRecursive` is an explicit stack of activations, each with
the rest of its listing as it was listed.  A failing RPC may have been
carried out (`RpcFails`): its answer was lost.  Statuses are merged where only
the text of an error tells them apart; the module says which.  Streams are one
step here; `Transfers` has their steps, and the status CANCELLED with them.  No
handler asks for the kind of a parent, so a PUT below a file makes a rendition.
The nodes below a copied node are not copied.

**`SequentialHandlers`** states, as an abstract specification, what each method
promises for one request at a time: `Outcomes(t, r)` computes the trees and
statuses from the tree the request found, without cache or steps.
**`ConcurrentHandlers`** adds history variables for requests in parallel.

**`TenantGate`** models `tenantAdmits`: `Enter` reads the clock, `CacheHit` and
`CacheMiss` are the first critical section, `LookupAnswers` and `LookupFails`
the RPC, `Store` the second critical section.  The registry walks through the
lifecycle of `tenant_state_policy.h`, an unknown state and a missing row
included.  It is composed into `Admission`, which the runs check; its own `Spec` is what the proofs start from.

**`Admission`** extends it to `authenticateUser`: the credential and its cache,
the gate (the steps of `TenantGate` itself), the roles (only whether they are
found) and the origin gate with the sessions in Redis.  `link` is the Redis
connection: after an outage it is broken until a command has failed on it.
The configuration is chosen once, at the start.  `valid` are the keys with the
tenants that ldap_manager accepts them for; `verified`, like `verify_cache_`, is per
key alone, and `session`, like Redis, per user and tenant (`Owner`) and address.
`Matching` says which addresses `ipMatchesForSession` takes for one, by prefix or
exactly.  Which address a request
counts as coming from is **`ClientAddress`**: `ResolveClientIp` is
`resolveClientIp` over the hops of `X-Forwarded-For`, and `Route` says how a request
comes: its client writes any header, then each proxy appends the address that
it had the request from.

**`RoleLookup`** models the path from `getCachedRoles` to `putCachedRoles`, with
the LDAP mutex, the breaker, master and replica with memberships of their own,
and servers that may go between bind, user search and group search.

**`Transfers`** models GET, HEAD and PUT of one file as the streams see them.
`versions` are the versions the core holds, `job[w]` what the thread has sent or
received.  A PUT pushes chunks until the body ends, the client has gone (the
code cannot tell these apart) or a `Write` fails; `Finish` succeeds, fails, or
fails after the core has made the version; then a Stat brings the validators.
The code looks only at `Finish`: that it is not OK once a `Write` has failed is
assumed of gRPC and the core.
A GET asks Stat first, then pulls chunks; the first one sends the 200.

**`Overload`** counts threads by what they do, since neither threads nor
connections differ.  `MaxThreads`, `MaxQueued` and `ShedAbove` are what
`WebDAVServer` configures; `Request`, `Shed` and `Handle` are
`createRequestHandler` and the two handlers it makes; `available` is what `/readyz`
reports; `HandOver` to `Retire` are Poco's `TCPServerDispatcher`, modelled from
what the limits mean to it; `Hang` is a handler whose call never returns.

`MCHandlers`, `MCResolver`, `MCSequential`, `MCConcurrent`, `MCFaulty`,
`MCAdmission`, `MCTransfers` and `MCRoleLookup` hold values for TLC only.  Definitions marked
"Mutant" are mutated forms of the definition after them: each property is
shown to fail when the code's definition is replaced by one of them.

## Runs

| Run | Question | Bounds |
|---|---|---|
| `resolver_shared` | what do an answer and a "not found" mean; is it a `NameService`? | 2 threads, paths of 1 and 2 segments, 3 nodes, 2 foreign RPCs, RPC faults, any mapping written at any time |
| `handlers_files` | do the handlers do what their methods promise, whatever the cache holds? | 1 thread, any sequence of 24 requests, 4 nodes; one directory, not moved |
| `handlers_dirs` | is a resting cache right after a directory MOVE? (violated) | 1 thread, 3 nodes |
| `handlers_still` | cache, PUT and DELETE under races and faults | 2 threads, 3 nodes, RPC faults; nothing moved |
| `handlers_copy` | does COPY rename its own copy? (violated) | 2 threads, 3 nodes |
| `handlers_relocate` | is every request answered, is `Overwrite: F` honoured? | 1 thread, 8 requests of 6 methods, 3 nodes, RPC faults, 1 foreign RPC |
| `admission_layers` | how old are key and tenant of an admitted request, and the ground of a refusal, and where does it come from? | origin gate off: 2 threads, 2 changes of keys and tenants; on (2 configurations): 1 thread at a time, 3 changes of sessions and Redis; 1 key, 1 tenant, 4 addresses of which 2 proxies, 3 routes, 3 seconds |
| `credential_tenants` | is an admitted key one of the request's tenant? (violated) | 1 thread, 1 key, 2 tenants |
| `transfers` | is an acknowledged save whole, a body complete, a validator in order? | 2 threads, 2 PUTs, bodies of up to 2 chunks |
| `transfers_cancelled` | is a download that breaks before any data an error? (violated) | as `transfers` |
| `overload` | who is turned away, is every connection taken? | 3 threads of which 2 may get stuck, shedding above 3, refusing above 6, 11 connections, 4 requests |
| `roles_fresh` | how old may roles be, when is a refusal excused? | 2 threads, with and without a replica, 3 outside changes, 4 seconds |


The bounds are named constants: `MaxForeign`, `MaxChanges`, `MaxTime`,
`StoreDelay`, `MaxPuts`, `MaxChunks`, `MaxConns`, `MaxRequests`, `MaxStuck`, and the finite sets of uids, paths and requests.  Two threads
are enough for the races, which are all between one thread's two steps and
another's one; two-segment paths are the shortest with a walk that is not
atomic.  The TTLs are scaled down with their order kept (an admission lives
longer than a refusal), and the clock runs past every expiry.  `StoreDelay`
bounds the time from a group search to its SETEX: without it the age of
cached roles has no bound.  Symmetry over threads is used only with
invariants (in `resolver_shared` also with a safety property that treats all threads
alike).  The constraint `SharedOrGated` of `admission_layers` lets two threads
share the caches while the origin gate is off, keys are revoked and tenants change
(from one address, with no session and no outage of Redis, which decide nothing
then); while it is on, sessions and Redis change, and requests come one at a time,
since that gate shares nothing but its connection.  The proofs have no such
bound.  `roles_fresh` has no group of the deployment tier: that none is served
is in the proof of `RoleTypeCorrect`.  In `transfers`, two chunks are the fewest with a stream that
breaks after its first; in `overload`, the factors are 1 and 2 where the code
has 4 and 64, so that both limits are passed, and one thread stays free of
stuck calls.  That run does not check for deadlock: its connections are bounded,
and when all have been served nothing is left to do.

### What the violated runs show

- `handlers_dirs`: a MOVE of a directory unmaps the directory's own path; the
  entries below stay, and pass verification, since Stat shows the same
  uid under the same name.  The old path goes on working.  The comment at
  `path_resolver.cpp:82-84` says that "same-process MOVE updates the cache
  directly".  In `handlers_files`, where files only are moved, all is well.
- `handlers_copy`: the file that a PUT creates between COPY's two listings can
  be taken for the copy and renamed (`webdav_server.cpp:1179-1182`).
- `credential_tenants`: the key of `verify_cache_` holds the key id and the secret and
  not the tenant (`webdav_hardening.cpp:110`), so a key that was verified for one
  tenant passes for another until its entry expires.  The comments at
  `webdav_server.cpp:1700-1704` (the tenant is "already verified against the
  credential") and `ldap_authenticator.cpp:439-440` ("already bound to one tenant")
  say otherwise.  What does hold, for any number of tenants, is `KeyWasAccepted`:
  some tenant's verification of the key is recent.
- `transfers_cancelled`: a stream that ends with CANCELLED counts as a success
  (`grpc_client_wrapper.cpp:225`), also when the core cancelled it before the first
  chunk: the client gets 200 and an empty body, where the comment at
  `webdav_server.cpp:290-292` promises "a proper error status".  `ShortBodyWasCut` says
  what else can make a body short: nothing but a failure after the first chunk.

Four more such differences were met and have no run.  In `tenantAdmits`, a slow
lookup, answered before a suspension, may store its admission after another
thread has stored the refusal, and the tenant is admitted again, which the comment
"a suspension already bit the moment it was read" (`webdav_server.cpp:1593-1595`)
does not expect; `AdmittedWasLive`, whose run has both threads, bounds that
by the admission's lifetime.  `client_ip.h:63` says
that without configured proxies the peer is returned, and the code below it
(and the comment at its line 72) takes the first hop of the header.
`webdav_server.cpp:73` says that the ETag changes whenever the content does; it is
made of seconds and size.  The monitor reports a `max_queued` of eight times the
pool (`webdav_server.cpp:1949`), the queue holds sixty-four times the pool (line 1802).

## Fairness

`EveryRequestIsAnswered` needs weak fairness of each thread's
`HandlerStep`.  A pool thread that serves a request is never descheduled for
good, and the step that waits for an RPC is fair because an RPC ends, with an
answer or a transport error.  The code sets no deadline on its RPCs, so this is
an assumption on gRPC and the core, listed among the hazards.

`EveryConnectionIsTaken` drops that assumption for up to `MaxStuck` calls, which
never end, and needs weak fairness of what threads do unasked (`Take`, `GoOn`), of
the other calls' ends (`Answer`), and of `Close`: a client that is silent is
disconnected by keep-alive's time limit.  A client that never falls silent could
keep its thread for good, since keep-alive has no limit of requests;
`MaxRequests` stands for the assumption that clients stop.  No fairness is
assumed of requests, of new connections, or of calls' getting stuck.

## Proofs

`CoreProofs` holds what the proofs of the resolver and of the handlers share.
Where a path leads (`Denoted`) is a recursive function, and its facts need an
induction on the length of the path.  The library's induction theorems take an
operator, which the provers cannot instantiate; `SetInduction` states induction
for a set of numbers instead, and is proved from the least number outside the set.
With it: what one more name adds to where a path leads, that a path
leads to one node at most where siblings differ (`SiblingsDiffer`), and where a
path still leads after each RPC.  An RPC that creates, fills or removes leaves
every path leading where it led, apart from what it created or removed
(`Kept`), so that a node that a path was once found to lead to is what it leads to as
long as it lives (`Right`).  An RPC that renames or moves brings paths to one
node at most (`Orderly`).

`ResolverProofs` proves, for every tree, every set of paths, any number of
threads and foreign changes, and with sibling names unique or not:
`ResolverTypeCorrect`, `AnswersWereNamed` and `WalksWereThere`.  `ResolvedWasNamed`
is not inductive: whether an answer is on record depends on what the walk has
matched so far.  `HistoryInv` therefore says, thread by thread, that the links
that hold now are on record (`PresentIsHeld`), that a walk in progress stands
at the last uid it matched (`NotYetWalking`, `WalkStandsAt`), that each link
it matched is on record (`WalkIsHeld`), and what an answer rests on
(`AnswerIsHeld`).  The proof has a lemma per action and a frame lemma for the
threads that do not move.

`MissesAreJustified` rests on another invariant, `RouteInv`: while names in a
directory differ, the walk of a call during which the path was never absent
stands where the path's prefix leads, so that only a listing that failed can end
it with nothing.  Its hypothesis
is `UniqueNames`: where two siblings may share a name, a walk can enter the one
that does not hold the rest of the path, and the property is false.

`ResolverImplementsNameService` follows from `HistoryInv`: each action of the
resolver is a step of `NameService` or leaves the mapped variables alone.
`LookupHit` to `MapPrefix` are stutters until the step that answers, and a foreign
change is `TreeChanges`; that an answer was seen is `AnswerIsHeld`.

`HandlersProofs` proves of the handlers `HandlersTypeCorrect` and
`RemovalsAreAskedFor`, for all threads, requests and trees, with RPCs that fail,
answers that are lost and foreign changes.  The second is the half of
`OverwriteFalseIsGentle` about removal, of every method: a node ends only for a
DELETE or for a COPY or MOVE that may overwrite.  `HandlersInv` says where each
request can be (`JobIsPlaced`: a handler at a removing point serves one that asks
for it, one that creates has a name to give, the node asked for its kind is not
the root) and that the target a handler waits for is its request's path
(`CallIsPlaced`).  `IsGentle` is what the RPCs that remove nothing make of the
tree, carried out or not.  TLC has checked `HandlersInv` on the instances of all
the handler runs.

Its second part is about requests in parallel, under the hypothesis `Still` of the run
`handlers_still`: no COPY or MOVE among the requests, no other writer.  RPCs fail
and answers are lost.  `StillInv` says that whatever a path was found to lead to, it leads
to while it lives, wherever the bridge keeps such a finding: in the map
(`CacheIsRight`), in a resolution under way (`CallIsRight`), in a handler's
locals (`JobIsRight`), in each activation of a recursive removal, whose listings may be
stale (`StackIsRight`, `Within`), and in what an answered request has promised
(`Promised`).  `CoversInv` adds that what a DELETE holds is
among the nodes its subject had at some instant of the request (`under`).  From
them follow `CacheStaysExact`, `PutsAreThere`, `DeletesAreDone` and
`DeletesOnlyTheirSubject`, for any number of threads, paths and nodes.  Without
the hypothesis they are false: `handlers_dirs` shows the first way a MOVE breaks the
map.  TLC has checked `StillInv` and `CoversInv` on the instance of `handlers_still`.

Its third part is `MovesAreGentle`, which states `OverwriteFalseIsGentle`, with
RPCs that fail and other clients that create, rename, move and
undelete.  `OrderInv` adds to `HandlersInv` that the tree is one and its
siblings differ.  The hypotheses are `UniqueNames` and that nobody asks for a
COPY: until a copy is renamed, its directory may have two children of one
name, and a MOVE to a path through them may add a second node to what the path
leads to.  That COPY removes nothing with `Overwrite: F` is `RemovalsAreAskedFor`; with a
COPY among the requests of one thread, `handlers_relocate` checks the rest.

`SequentialProofs` proves `OutcomesAreAllowed`: every handler, step by step and
with whatever the cache holds, comes to the tree and the status that `Outcomes`
computes in one go from the tree the request found.  It is for every tree, set of
paths and sequence of requests, under the hypothesis `Alone`: one thread, RPCs
that do not fail, no other writer, unique names, and no path that is ever asked for
below the source of a MOVE (`NothingBelow`).  The last is not for comfort:
`handlers_dirs` shows that without it the map misleads later requests.  The
instance of `handlers_files` satisfies `Alone`.  `AloneInv` adds to `HandlersInv`,
for each point of a handler, what has become of the tree that the request found
(`begun`):

- a resolution under way stands where its prefix leads, and answers what the
  tree is (`CallIsExact`); up to the first RPC that writes, the tree is as it was
  (`IsUntouched`), and an upload adds one node at most (`IsUploading`);
- a recursive removal has ended nodes below its subject and nothing else
  (`Emptying`), and each activation holds the children of its directory that are left,
  on levels that differ (`FrameHolds`), so that when the last one is done the
  tree is `Cleared` of the subject;
- a COPY or MOVE starts from the tree without its destination (`Ready`), and the
  node that the two listings differ by is the copy (`IsRelocating`, `IsRenaming`);
- what a handler is about to map, and what it has answered, is an outcome that
  the reference allows (`IsDone`);
- the map is right of the tree, but for the source of a MOVE that is about to be forgotten,
  and, while a copy bears its source's name, of the tree before it (`CacheFits`).

`RestingCacheStaysRight` follows from the same invariant: what `handlers_dirs` refutes
holds when no MOVE takes a directory with paths in it.  TLC has checked `AloneInv`
and `Alone` on the instance of `handlers_files`.

`AdmissionProofs` starts with the tenant gate alone: `GateTypeCorrect`,
`AdmissionsAreFresh` and `RefusalsAreFresh`, for all TTLs, threads, tenants and
clocks.  `GateInv` adds to the two properties that the history is exact for the
present second (`HistoryIsPresent`), that a cache entry is as young as its expiry
claims (`EntryIsFounded`), and the same of the answer a thread is about to store
(`CallIsFounded`).

`RoleLookupProofs` proves `RoleTypeCorrect`, `RolesAreFresh`, `GrantsArrive`,
`RefusalsAreExcused` and `ReplicaUseIsExcused`, for all groups, lifetimes, threads
and numbers of changes, with and without a replica.  `RoleInv` adds that the
history is exact for the present (`HistoryIsPresent`), that the breaker is open
only for a cooldown after an outage of the master (`BreakerIsFounded`), that the
roles in Redis were read at most `Window` before they expire (`CacheIsFounded`),
and that a result on its way to Redis is at most `StoreDelay` old
(`LookupIsFounded`).  TLC has checked `RoleInv` as an invariant of `roles_fresh`.

`AdmissionProofs` goes on with the layers around the gate, for all
threads, keys, tenants, addresses, routes, configurations and lifetimes.
`ClientIsFound` is about `resolveClientIp` alone: the nearest hop that is no
proxy is the one that the first proxy wrote, whatever comes before it.
`AdmissionInv` adds to `GateInv` that the histories are exact for the present
(`RecordsArePresent`), that a login keeps what each layer it has passed has found
(`LoginIsFounded`), and that a cached credential is as old as it says, though it
may be another tenant's (`KeptIsFounded`, `KeyIsFounded`).  From it follow `AdmissionTypeCorrect`,
`GateHoldsWithin`, `AdmittedKeysWereAccepted`, `AdmittedTenantsWereLive` and
`AdmittedOriginsWereKnown`.  TLC has checked `AdmissionInv` on the instance of
`admission_layers`.

`TransfersProofs` proves `SavesAreWhole`, `ShortBodiesWereCut`,
`BodiesAreNoOlder`, `SavedEtagsAreNoOlder` and `TransfersTypeCorrect` for any number
of threads, chunks and PUTs.  `TransferInv` adds
which phases a method can be in (`MethodFitsPhase`), that no two uploads are of
one PUT (`PutsAreNumbered`), that what is not finished is no version yet
(`UnsavedIsUnseen`), and what an upload has made by each phase
(`UploadIsFounded`).

`OverloadProofs` proves `BacklogAttended` and, from it, `TurnsAwayFairly`, for any pool
and any limits.  The strengthening is `BacklogIsAttended`: while the pool has a
thread left, every queued connection has a thread that is on its way to it, so
that the queue cannot pass either limit before the pool is used up.

The assumptions are the named ASSUMEs of the modules: paths are closed under
prefixes, the initial tree is a tree in which every node is below one that may hold
it and, if the service keeps names unique, siblings differ, lifetimes are positive, `administrators` is
no group of the deployment tier, and the sentinels are no members of the sets
they are used beside, the proxies and the trusted network are sets of addresses, and
at least one key, tenant and address exists.  TLC evaluates them in the runs.

Only model-checked: liveness (`EveryRequestIsAnswered`,
`EveryConnectionIsTaken`), which is out of the prover's reach.  The violated properties are refuted by runs, not by proofs.

## Limits

- One tenant, but in the gate and in `Admission`.  The resolver's and the role cache's
  keys hold the tenant, so that two tenants share nothing there; the key of
  `verify_cache_` does not, which is what `credential_tenants` shows.
- Keys are revoked but not issued, and a user has one key.
- A process restart empties every map and is the initial state; nothing is
  persisted by the bridge.
- Versions, ACL errors and the texts of answers are left out of the handlers;
  `Transfers` has versions and validators for one file, and any two of its
  versions have different validators.
- The wall clock does not jump.
- The server is not stopped.

## Not modelled

- OPTIONS, PROPPATCH and UNLOCK answer from their headers alone.
- `LDAPAuthenticator::authenticateUser` and what only it calls (about half of
  `ldap_authenticator.cpp`) have no caller outside the tests.
- `normalizePath`, `extractTenantFromHostname` and `ipInCidr` are functions of one or
  two strings without state; the models use what they return.
- Reading the configuration, logging, and the formats of `/poolz` and `/metrics`.
- The RPC stubs under `src/proto` are generated: 62 of the 68 thousand lines of
  C++ are theirs, so that the share of lines that `map` names is small although
  most of what the handlers, the resolver, the hardening layer and the role
  lookup do is mapped.

## Plan

1. `Overload` composed with the role lookup's mutex, whose holder may be stuck in
   a call to the directory: the threads behind it are stuck with it.
2. Stopping the server while requests are open.
3. Proofs: what `OutcomesAreAllowed` leaves of its promise when RPCs fail (the tree is
   the one found, the one asked for, or one on the way between them).
