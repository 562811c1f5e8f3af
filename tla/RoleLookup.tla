----------------------------- MODULE RoleLookup -----------------------------
(***************************************************************************)
(* The roles a request is served with: authenticateUser asks Redis for     *)
(* them (getCachedRoles of src/src/webdav_hardening.cpp), on a miss the    *)
(* directory (lookupUser of src/src/ldap_authenticator.cpp, one at a time  *)
(* under ldap_mutex_, the master unless the circuit breaker is open, else  *)
(* the read-only replica), and then caches what it got (putCachedRoles).   *)
(*                                                                         *)
(* One user of one tenant; the user has an entry in both directories.      *)
(***************************************************************************)
EXTENDS Integers

CONSTANTS Threads,
          Groups,          \* cns of the groups the user may be a member of
          Deployment,      \* those whose cn begins with system_
          Administrators, TenantAdmin,
          MayLackReplica,  \* may the bridge run without a replica endpoint?
          RoleTTL,         \* role_cache_ttl
          Cooldown,        \* of the circuit breaker
          StoreDelay,      \* bound: seconds from a group search to its SETEX
          MaxChanges,      \* bound: what may happen to the servers and their data
          MaxTime          \* bound: the clock stops there

ASSUME GroupsAreNamed == Deployment \subseteq Groups /\ Administrators \in Groups \ Deployment
ASSUME TenantAdminIsDerived == TenantAdmin \notin Deployment
ASSUME MayLackReplicaIsBoolean == MayLackReplica \in BOOLEAN
ASSUME TimesAreNat ==
  /\ RoleTTL \in Nat \ {0} /\ Cooldown \in Nat \ {0}
  /\ StoreDelay \in Nat /\ MaxChanges \in Nat /\ MaxTime \in Nat

Endpoints == {"master", "replica"}
Roles == Groups \cup {TenantAdmin}
Passing == Roles \ Deployment

VARIABLES hasReplica,  \* is replica_endpoint_ configured? set once
          clock,
          up,          \* the endpoints that accept a bind and a search
          redisUp,     \* does Redis answer?
          link,        \* ctx_, the one connection to Redis
          groups,      \* per endpoint: the groups that hold the user there
          changes,     \* how often these have changed
          downUntil,   \* the breaker's down_until_
          owner,       \* the holder of ldap_mutex_
          roleCache,   \* Redis: the user's roles, and when they expire
          lookup,      \* per thread: the lookup it is in
          lastDown,    \* history: the last second each endpoint was down in
          lastHeld,    \* history: the last second some directory granted each role in
          lastLacked   \* history: the last second one did not, or a group search failed

vars == <<hasReplica, clock, up, redisUp, link, groups, changes, downUntil, owner, roleCache, lookup,
          lastDown, lastHeld, lastLacked>>

history == <<lastDown, lastHeld, lastLacked>>
servers == <<clock, up, redisUp, groups, changes>>
world == <<servers, link>>

Nobody == "nobody"
ASSUME NobodyIsNoThread == Nobody \notin Threads

Phases == {"idle", "cache", "lock", "master", "replica", "user", "groups", "put",
           "served", "refused"}

Lookup == [phase : Phases, start : Nat, server : Endpoints, roles : SUBSET Passing, read : Nat]

NoLookup == [phase |-> "idle", start |-> 0, server |-> "master", roles |-> {}, read |-> 0]

(* finishTenantRoles: administrators are tenant admins, and no role of the *)
(* deployment tier passes.                                                 *)
Finished(gs) ==
  (gs \cup (IF Administrators \in gs THEN {TenantAdmin} ELSE {})) \ Deployment

TypeOK ==
  /\ hasReplica \in BOOLEAN
  /\ clock \in Nat \ {0}
  /\ up \subseteq Endpoints
  /\ redisUp \in BOOLEAN
  /\ link \in {"none", "good", "broken"}
  /\ groups \in [Endpoints -> SUBSET Groups]
  /\ changes \in Nat
  /\ downUntil \in Nat
  /\ owner \in Threads \cup {Nobody}
  /\ roleCache \in [until : Nat, roles : SUBSET Passing]
  /\ lookup \in [Threads -> Lookup]
  /\ lastDown \in [Endpoints -> Int]
  /\ lastHeld \in [Roles -> Int]
  /\ lastLacked \in [Roles -> Int]

Window == RoleTTL + StoreDelay

Grants(gs, r) == \E e \in Endpoints : r \in Finished(gs[e])
Withholds(gs, r) == \E e \in Endpoints : r \notin Finished(gs[e])

(* Everything is healthy, the replica is in step, and nothing is cached.   *)
Init ==
  /\ hasReplica \in {TRUE, ~MayLackReplica}
  /\ clock = 1 /\ up = Endpoints /\ redisUp = TRUE /\ link = "none"
  /\ \E gs \in SUBSET Groups : groups = [e \in Endpoints |-> gs]
  /\ changes = 0 /\ downUntil = 0 /\ owner = Nobody
  /\ roleCache = [until |-> 0, roles |-> {}]
  /\ lookup = [w \in Threads |-> NoLookup]
  /\ lastDown = [e \in Endpoints |-> -Cooldown]
  /\ lastHeld = [r \in Roles |-> IF Grants(groups, r) THEN 1 ELSE -Window]
  /\ lastLacked = [r \in Roles |-> IF Withholds(groups, r) THEN 1 ELSE -Window]

At(w, phase) == lookup[w].phase = phase
Goto(w, phase) == lookup' = [lookup EXCEPT ![w].phase = phase]

-----------------------------------------------------------------------------
Enter(w) ==
  /\ At(w, "idle")
  /\ lookup' = [lookup EXCEPT ![w] = [NoLookup EXCEPT !.phase = "cache", !.start = clock]]
  /\ UNCHANGED <<world, downUntil, owner, roleCache, history>>

(* A command finds the connection that a Redis outage has broken, fails,   *)
(* and drops it; without one, it connects first.                           *)
Answers == link # "broken" /\ redisUp
UseRedis == link' = IF Answers THEN "good" ELSE "none"

(* Mutant: a hit renews the entry. *)
CacheHitRenews(w) ==
  /\ At(w, "cache")
  /\ Answers /\ clock < roleCache.until
  /\ UseRedis
  /\ lookup' = [lookup EXCEPT ![w].phase = "served", ![w].roles = roleCache.roles]
  /\ roleCache' = [roleCache EXCEPT !.until = clock + RoleTTL]
  /\ UNCHANGED <<servers, downUntil, owner, history>>

CacheHit(w) ==
  /\ At(w, "cache")
  /\ Answers /\ clock < roleCache.until
  /\ UseRedis
  /\ lookup' = [lookup EXCEPT ![w].phase = "served", ![w].roles = roleCache.roles]
  /\ UNCHANGED <<servers, downUntil, owner, roleCache, history>>

(* No entry, or Redis does not answer. *)
CacheMiss(w) ==
  /\ At(w, "cache")
  /\ ~Answers \/ clock >= roleCache.until
  /\ UseRedis
  /\ Goto(w, "lock")
  /\ UNCHANGED <<servers, downUntil, owner, roleCache, history>>

(* Mutant: the cooldown includes its last instant. *)
TriesPrimaryLate == clock > downUntil

(* shouldTryPrimary *)
TriesPrimary == clock >= downUntil

(* connectToLDAP, under ldap_mutex_ *)
Lock(w) ==
  /\ At(w, "lock")
  /\ owner = Nobody
  /\ owner' = w
  /\ Goto(w, IF ~hasReplica \/ TriesPrimary THEN "master" ELSE "replica")
  /\ UNCHANGED <<world, downUntil, roleCache, history>>

Connected(w, e) == lookup' = [lookup EXCEPT ![w].phase = "user", ![w].server = e]

MasterConnects(w) ==
  /\ At(w, "master")
  /\ "master" \in up
  /\ Connected(w, "master")
  /\ downUntil' = IF hasReplica THEN 0 ELSE downUntil
  /\ UNCHANGED <<world, owner, roleCache, history>>

Refuse(w) == Goto(w, "refused") /\ owner' = Nobody

(* Mutant: the cooldown is dated back. *)
MasterFailsBackdated(w) ==
  /\ At(w, "master")
  /\ "master" \notin up
  /\ IF hasReplica
     THEN Goto(w, "replica") /\ downUntil' = clock - Cooldown /\ UNCHANGED owner
     ELSE Refuse(w) /\ UNCHANGED downUntil
  /\ UNCHANGED <<world, roleCache, history>>

(* trip, and on to the replica *)
MasterFails(w) ==
  /\ At(w, "master")
  /\ "master" \notin up
  /\ IF hasReplica
     THEN Goto(w, "replica") /\ downUntil' = clock + Cooldown /\ UNCHANGED owner
     ELSE Refuse(w) /\ UNCHANGED downUntil
  /\ UNCHANGED <<world, roleCache, history>>

ReplicaConnects(w) ==
  /\ At(w, "replica")
  /\ "replica" \in up
  /\ Connected(w, "replica")
  /\ UNCHANGED <<world, downUntil, owner, roleCache, history>>

ReplicaFails(w) ==
  /\ At(w, "replica")
  /\ "replica" \notin up
  /\ Refuse(w)
  /\ UNCHANGED <<world, downUntil, roleCache, history>>

Server(w) == lookup[w].server

(* The search for the user's entry: there is no second server for it. *)
UserFound(w) ==
  /\ At(w, "user")
  /\ Server(w) \in up
  /\ Goto(w, "groups")
  /\ UNCHANGED <<world, downUntil, owner, roleCache, history>>

UserSearchFails(w) ==
  /\ At(w, "user")
  /\ Server(w) \notin up
  /\ Refuse(w)
  /\ UNCHANGED <<world, downUntil, roleCache, history>>

(* lookupUser returns, and with it the mutex. *)
Return(w, roles) ==
  /\ lookup' = [lookup EXCEPT ![w].phase = "put", ![w].roles = roles, ![w].read = clock]
  /\ owner' = Nobody

GroupsFound(w) ==
  /\ At(w, "groups")
  /\ Server(w) \in up
  /\ Return(w, Finished(groups[Server(w)]))
  /\ UNCHANGED <<world, downUntil, roleCache, history>>

(* A group search that fails yields no roles, and they are cached. *)
GroupSearchFails(w) ==
  /\ At(w, "groups")
  /\ Server(w) \notin up
  /\ Return(w, Finished({}))
  /\ lastLacked' = [r \in Roles |-> clock]
  /\ UNCHANGED <<world, downUntil, roleCache, lastDown, lastHeld>>

(* Mutant: the roles looked up are added to those in Redis. *)
PutMerges(w) ==
  /\ At(w, "put")
  /\ roleCache' = IF Answers
                  THEN [until |-> clock + RoleTTL, roles |-> roleCache.roles \cup lookup[w].roles]
                  ELSE roleCache
  /\ UseRedis
  /\ lookup' = [lookup EXCEPT ![w].phase = "served", ![w].read = 0]
  /\ UNCHANGED <<servers, downUntil, owner, history>>

(* SETEX counts the TTL from the moment it is carried out. *)
Put(w) ==
  /\ At(w, "put")
  /\ roleCache' = IF Answers THEN [until |-> clock + RoleTTL, roles |-> lookup[w].roles]
                  ELSE roleCache
  /\ UseRedis
  /\ lookup' = [lookup EXCEPT ![w].phase = "served", ![w].read = 0]
  /\ UNCHANGED <<servers, downUntil, owner, history>>

Leave(w) ==
  /\ lookup[w].phase \in {"served", "refused"}
  /\ lookup' = [lookup EXCEPT ![w] = NoLookup]
  /\ UNCHANGED <<world, downUntil, owner, roleCache, history>>

Step(w) ==
  \/ Enter(w) \/ CacheHit(w) \/ CacheMiss(w)
  \/ Lock(w) \/ MasterConnects(w) \/ MasterFails(w) \/ ReplicaConnects(w) \/ ReplicaFails(w)
  \/ UserFound(w) \/ UserSearchFails(w) \/ GroupsFound(w) \/ GroupSearchFails(w)
  \/ Put(w) \/ Leave(w)

-----------------------------------------------------------------------------
(* The directories, Redis and time. *)
Change == changes < MaxChanges /\ changes' = changes + 1

EndpointGoes(e) ==
  /\ Change
  /\ up' = up \ {e} /\ e \in up
  /\ lastDown' = [lastDown EXCEPT ![e] = clock]
  /\ UNCHANGED <<clock, redisUp, link, groups, downUntil, owner, roleCache, lookup,
                 lastHeld, lastLacked>>

EndpointReturns(e) ==
  /\ Change
  /\ up' = up \cup {e} /\ e \notin up
  /\ UNCHANGED <<clock, redisUp, link, groups, downUntil, owner, roleCache, lookup, history>>

RedisToggles ==
  /\ Change
  /\ redisUp' = ~redisUp
  /\ link' = IF link = "good" THEN "broken" ELSE link
  /\ UNCHANGED <<clock, up, groups, downUntil, owner, roleCache, lookup, history>>

Observed(gs, t) ==
  /\ lastHeld' = [r \in Roles |-> IF Grants(gs, r) THEN t ELSE lastHeld[r]]
  /\ lastLacked' = [r \in Roles |-> IF Withholds(gs, r) THEN t ELSE lastLacked[r]]

(* A membership changes in the master, and later reaches the replica. *)
MembershipChanges(g) ==
  /\ Change
  /\ groups' = [groups EXCEPT !["master"] = IF g \in @ THEN @ \ {g} ELSE @ \cup {g}]
  /\ Observed(groups', clock)
  /\ UNCHANGED <<clock, up, redisUp, link, downUntil, owner, roleCache, lookup, lastDown>>

Replicates ==
  /\ Change
  /\ groups' = [groups EXCEPT !["replica"] = groups["master"]]
  /\ UNCHANGED <<clock, up, redisUp, link, downUntil, owner, roleCache, lookup, history>>

(* A second passes. *)
Tick ==
  /\ clock < MaxTime
  /\ \A w \in Threads : At(w, "put") => clock < lookup[w].read + StoreDelay
  /\ clock' = clock + 1
  /\ lastDown' = [e \in Endpoints |-> IF e \notin up THEN clock + 1 ELSE lastDown[e]]
  /\ Observed(groups, clock + 1)
  /\ UNCHANGED <<up, redisUp, link, groups, changes, downUntil, owner, roleCache, lookup>>

Next ==
  /\ UNCHANGED hasReplica
  /\ \/ \E w \in Threads : Step(w)
     \/ \E e \in Endpoints : EndpointGoes(e) \/ EndpointReturns(e)
     \/ RedisToggles
     \/ \E g \in Groups : MembershipChanges(g)
     \/ Replicates
     \/ Tick

Spec == Init /\ [][Next]_vars

-----------------------------------------------------------------------------
Served(w) == At(w, "served")
Refused(w) == At(w, "refused")
DownSince(e, t) == lastDown[e] >= t

(* A request is refused for the directory's sake only if the master was    *)
(* down while it was served, or the replica was and the master within the  *)
(* cooldown before: the breaker, which every thread shares, keeps nobody   *)
(* from a master that has been back for longer (connectToLDAP and          *)
(* circuit_breaker.h).                                                     *)
RefusalIsExcused ==
  \A w \in Threads : Refused(w) =>
     \/ DownSince("master", lookup[w].start)
     \/ /\ DownSince("replica", lookup[w].start)
        /\ DownSince("master", lookup[w].start - Cooldown + 1)

(* The replica, whose answers may be old, is asked only if the master was  *)
(* down within the cooldown (connectToLDAP, "master-preferred").           *)
ReplicaIsExcused ==
  \A w \in Threads : At(w, "replica") \/ Server(w) = "replica" =>
     hasReplica /\ DownSince("master", lookup[w].start - Cooldown + 1)

(* A request is served with a role only if a directory granted it less     *)
(* than the role TTL before, plus the time from a group search to its      *)
(* SETEX: a revocation is not outlived by a cached answer, whichever       *)
(* lookup wrote last (getCachedRoles and putCachedRoles).                  *)
RolesWereHeld ==
  \A w \in Threads : Served(w) =>
     \A r \in lookup[w].roles : lastHeld[r] > lookup[w].start - Window

(* A request is served without a role only if a directory did not grant    *)
(* it, or a group search failed, within that time: a grant, tenant_admin   *)
(* for the administrators included, reaches every request (finishTenantRoles). *)
RolesAreComplete ==
  \A w \in Threads : Served(w) =>
     \A r \in Passing \ lookup[w].roles :
        lastLacked[r] > lookup[w].start - Window

-----------------------------------------------------------------------------
(* What the properties rest on: the history is exact for the present, and  *)
(* the breaker, the cached roles and a lookup in progress are as old as    *)
(* they say.                                                               *)
HistoryIsPresent ==
  /\ \A e \in Endpoints : lastDown[e] <= clock /\ (e \notin up => lastDown[e] = clock)
  /\ \A r \in Roles :
        /\ lastHeld[r] <= clock /\ lastLacked[r] <= clock
        /\ Grants(groups, r) => lastHeld[r] = clock
        /\ Withholds(groups, r) => lastLacked[r] = clock

BreakerIsFounded == downUntil # 0 => lastDown["master"] >= downUntil - Cooldown

CacheIsFounded ==
  /\ \A r \in roleCache.roles : lastHeld[r] >= roleCache.until - Window
  /\ \A r \in Passing \ roleCache.roles : lastLacked[r] >= roleCache.until - Window

LookupIsFounded ==
  \A w \in Threads :
     /\ lookup[w].start <= clock
     /\ At(w, "put") =>
          /\ lookup[w].start <= lookup[w].read
          /\ clock <= lookup[w].read + StoreDelay
          /\ \A r \in lookup[w].roles : lastHeld[r] >= lookup[w].read
          /\ \A r \in Passing \ lookup[w].roles : lastLacked[r] >= lookup[w].read

RoleInv ==
  /\ TypeOK
  /\ HistoryIsPresent
  /\ BreakerIsFounded
  /\ CacheIsFounded
  /\ LookupIsFounded
  /\ RolesWereHeld
  /\ RolesAreComplete
  /\ RefusalIsExcused
  /\ ReplicaIsExcused
=============================================================================
