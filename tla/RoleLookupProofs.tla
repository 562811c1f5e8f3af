-------------------------- MODULE RoleLookupProofs --------------------------
(***************************************************************************)
(* Proofs about RoleLookup, for every set of threads and groups, every     *)
(* cooldown and TTL, and any number of changes: RoleInv is inductive, so   *)
(* that roles are as fresh as the cache's lifetime, and what the breaker   *)
(* does is excused by an outage within the cooldown.                       *)
(***************************************************************************)
EXTENDS RoleLookup, TLAPS

(* The constants as the proofs use them. *)
LEMMA Constants ==
  /\ RoleTTL \in Nat /\ RoleTTL > 0
  /\ Cooldown \in Nat /\ Cooldown > 0
  /\ StoreDelay \in Nat
  /\ Window \in Nat /\ Window > 0
  /\ Window = RoleTTL + StoreDelay
BY TimesAreNat DEF Window

(* What finishTenantRoles returns passes its own filter. *)
LEMMA FinishedPasses ==
  ASSUME NEW gs \in SUBSET Groups
  PROVE  Finished(gs) \in SUBSET Passing
BY GroupsAreNamed DEF Finished, Passing, Roles

LEMMA InitInv == Init => RoleInv
<1> SUFFICES ASSUME Init PROVE RoleInv
  OBVIOUS
<1> USE Constants, MayLackReplicaIsBoolean DEF Init, At
<1>i. /\ clock = 1 /\ downUntil = 0 /\ up = Endpoints /\ hasReplica \in BOOLEAN
      /\ redisUp \in BOOLEAN /\ link = "none" /\ changes = 0 /\ owner = Nobody
  OBVIOUS
<1>0. PICK gs \in SUBSET Groups : groups = [e \in Endpoints |-> gs]
  OBVIOUS
<1>1. TypeOK
  <2>1. lookup \in [Threads -> Lookup]
    BY DEF Lookup, NoLookup, Phases, Endpoints
  <2>2. groups \in [Endpoints -> SUBSET Groups]
    BY <1>0
  <2>3. /\ lastHeld \in [Roles -> Int]
        /\ lastLacked \in [Roles -> Int]
    OBVIOUS
  <2>4. roleCache \in [until : Nat, roles : SUBSET Passing]
    OBVIOUS
  <2>5. lastDown \in [Endpoints -> Int]
    OBVIOUS
  <2> HIDE DEF Init
  <2> QED
    BY <1>i, <2>1, <2>2, <2>3, <2>4, <2>5 DEF TypeOK
<1>2. HistoryIsPresent
  BY DEF HistoryIsPresent
<1>3. BreakerIsFounded
  BY DEF BreakerIsFounded
<1>4. CacheIsFounded
  BY DEF CacheIsFounded, Passing
<1>5. LookupIsFounded
  <2>1. \A w \in Threads : lookup[w].phase = "idle" /\ lookup[w].start = 0
    BY DEF NoLookup
  <2> HIDE DEF Init
  <2>2. \A w \in Threads : ~At(w, "put")
    BY <2>1
  <2>3. ASSUME NEW w \in Threads PROVE lookup[w].start <= clock
    <3>1. lookup[w].start = 0 /\ clock = 1
      BY <1>i, <2>1
    <3> QED
      BY <3>1
  <2> HIDE DEF At
  <2> QED
    BY <2>2, <2>3 DEF LookupIsFounded
<1>6. RolesWereHeld /\ RolesAreComplete /\ RefusalIsExcused
  BY DEF RolesWereHeld, RolesAreComplete, RefusalIsExcused, Served, Refused, NoLookup
<1>7. ReplicaIsExcused
  BY DEF ReplicaIsExcused, Server, NoLookup
<1> QED
  BY <1>1, <1>2, <1>3, <1>4, <1>5, <1>6, <1>7 DEF RoleInv

-----------------------------------------------------------------------------
(* The facts of one thread's lookup. *)
LEMMA LookupFacts ==
  ASSUME TypeOK, NEW w \in Threads
  PROVE  /\ lookup \in [Threads -> Lookup]
         /\ lookup[w] \in Lookup
         /\ lookup[w].phase \in Phases
         /\ lookup[w].start \in Nat
         /\ lookup[w].server \in Endpoints
         /\ lookup[w].roles \in SUBSET Passing
         /\ lookup[w].read \in Nat
<1>1. lookup \in [Threads -> Lookup] /\ lookup[w] \in Lookup
  BY DEF TypeOK
<1> QED
  BY <1>1 DEF Lookup

(* A lookup that gets a new phase, server, answer or reading keeps its type. *)
LEMMA PhaseUpdate ==
  ASSUME TypeOK, NEW w \in Threads, NEW f \in Phases
  PROVE  [lookup EXCEPT ![w].phase = f] \in [Threads -> Lookup]
<1>1. [lookup[w] EXCEPT !.phase = f] \in Lookup
  BY LookupFacts DEF Lookup
<1> QED
  BY <1>1, LookupFacts

LEMMA ServerUpdate ==
  ASSUME TypeOK, NEW w \in Threads, NEW f \in Phases, NEW e \in Endpoints
  PROVE  [lookup EXCEPT ![w].phase = f, ![w].server = e] \in [Threads -> Lookup]
<1>1. [lookup[w] EXCEPT !.phase = f, !.server = e] \in Lookup
  BY LookupFacts DEF Lookup
<1> QED
  BY <1>1, LookupFacts

LEMMA RolesUpdate ==
  ASSUME TypeOK, NEW w \in Threads, NEW f \in Phases, NEW rs \in SUBSET Passing
  PROVE  [lookup EXCEPT ![w].phase = f, ![w].roles = rs] \in [Threads -> Lookup]
<1>1. [lookup[w] EXCEPT !.phase = f, !.roles = rs] \in Lookup
  BY LookupFacts DEF Lookup
<1> QED
  BY <1>1, LookupFacts

LEMMA ReadUpdate ==
  ASSUME TypeOK, NEW w \in Threads, NEW f \in Phases, NEW n \in Nat
  PROVE  [lookup EXCEPT ![w].phase = f, ![w].read = n] \in [Threads -> Lookup]
<1>1. [lookup[w] EXCEPT !.phase = f, !.read = n] \in Lookup
  BY LookupFacts DEF Lookup
<1> QED
  BY <1>1, LookupFacts

LEMMA AnswerUpdate ==
  ASSUME TypeOK, NEW w \in Threads, NEW f \in Phases, NEW rs \in SUBSET Passing, NEW n \in Nat
  PROVE  [lookup EXCEPT ![w].phase = f, ![w].roles = rs, ![w].read = n] \in [Threads -> Lookup]
<1>1. [lookup[w] EXCEPT !.phase = f, !.roles = rs, !.read = n] \in Lookup
  BY LookupFacts DEF Lookup
<1> QED
  BY <1>1, LookupFacts

(* Where a step may leave the phase of its thread. *)
LEMMA PhasesExist ==
  /\ "idle" \in Phases /\ "cache" \in Phases /\ "lock" \in Phases /\ "master" \in Phases
  /\ "replica" \in Phases /\ "user" \in Phases /\ "groups" \in Phases /\ "put" \in Phases
  /\ "served" \in Phases /\ "refused" \in Phases
  /\ "master" \in Endpoints /\ "replica" \in Endpoints
BY DEF Phases, Endpoints

-----------------------------------------------------------------------------
LEMMA LookupTypeStep ==
  ASSUME TypeOK, NEW w \in Threads, Step(w)
  PROVE  lookup' \in [Threads -> Lookup]
<1>t. /\ clock \in Nat
      /\ roleCache.roles \in SUBSET Passing
      /\ groups \in [Endpoints -> SUBSET Groups]
  BY DEF TypeOK
<1>1. CASE Enter(w)
  <2>1. [NoLookup EXCEPT !.phase = "cache", !.start = clock] \in Lookup
    BY <1>t, PhasesExist DEF Lookup, NoLookup
  <2> QED
    BY <1>1, <2>1, LookupFacts DEF Enter
<1>2. CASE CacheHit(w)
  BY <1>2, <1>t, PhasesExist, RolesUpdate DEF CacheHit
<1>3. CASE CacheMiss(w)
  BY <1>3, PhasesExist, PhaseUpdate DEF CacheMiss, Goto
<1>4. CASE Lock(w)
  <2> DEFINE f == IF ~hasReplica \/ TriesPrimary THEN "master" ELSE "replica"
  <2>1. f \in Phases
    BY PhasesExist
  <2>2. lookup' = [lookup EXCEPT ![w].phase = f]
    BY <1>4 DEF Lock, Goto
  <2> HIDE DEF f
  <2> QED
    BY <2>1, <2>2, PhaseUpdate
<1>5. CASE MasterConnects(w) \/ ReplicaConnects(w)
  <2>1. PICK e \in Endpoints : lookup' = [lookup EXCEPT ![w].phase = "user", ![w].server = e]
    BY <1>5, PhasesExist DEF MasterConnects, ReplicaConnects, Connected
  <2> QED
    BY <2>1, PhasesExist, ServerUpdate
<1>6. CASE MasterFails(w) \/ ReplicaFails(w) \/ UserSearchFails(w)
  <2>1. PICK f \in {"replica", "refused"} : lookup' = [lookup EXCEPT ![w].phase = f]
    BY <1>6 DEF MasterFails, ReplicaFails, UserSearchFails, Refuse, Goto
  <2> QED
    BY <2>1, PhasesExist, PhaseUpdate
<1>7. CASE UserFound(w)
  BY <1>7, PhasesExist, PhaseUpdate DEF UserFound, Goto
<1>8. CASE GroupsFound(w) \/ GroupSearchFails(w)
  <2>1. groups[Server(w)] \in SUBSET Groups
    BY <1>t, LookupFacts DEF Server
  <2>2. PICK gs \in SUBSET Groups : Return(w, Finished(gs))
    BY <1>8, <2>1 DEF GroupsFound, GroupSearchFails
  <2>3. Finished(gs) \in SUBSET Passing
    BY FinishedPasses
  <2> QED
    BY <2>2, <2>3, <1>t, PhasesExist, AnswerUpdate DEF Return
<1>9. CASE Put(w)
  BY <1>9, PhasesExist, ReadUpdate DEF Put
<1>10. CASE Leave(w)
  <2>1. NoLookup \in Lookup
    BY PhasesExist DEF Lookup, NoLookup
  <2> QED
    BY <1>10, <2>1, LookupFacts DEF Leave
<1> QED
  BY <1>1, <1>2, <1>3, <1>4, <1>5, <1>6, <1>7, <1>8, <1>9, <1>10 DEF Step

(* A lookup changes neither the servers nor what they are on record for,   *)
(* except that a failed group search goes on record.                       *)
LEMMA StepLeavesServers ==
  ASSUME NEW w \in Threads, Step(w)
  PROVE  /\ UNCHANGED <<clock, up, redisUp, groups, changes, lastDown, lastHeld>>
         /\ lastLacked' = lastLacked \/ lastLacked' = [r \in Roles |-> clock]
<1> USE DEF world, servers, history
<1>1. CASE Enter(w) \/ CacheHit(w) \/ CacheMiss(w) \/ Lock(w)
  BY <1>1 DEF Enter, CacheHit, CacheMiss, Lock
<1>2. CASE MasterConnects(w) \/ MasterFails(w) \/ ReplicaConnects(w) \/ ReplicaFails(w)
  BY <1>2 DEF MasterConnects, MasterFails, ReplicaConnects, ReplicaFails
<1>3. CASE UserFound(w) \/ UserSearchFails(w) \/ GroupsFound(w) \/ GroupSearchFails(w)
  BY <1>3 DEF UserFound, UserSearchFails, GroupsFound, GroupSearchFails
<1>4. CASE Put(w) \/ Leave(w)
  BY <1>4 DEF Put, Leave
<1> QED
  BY <1>1, <1>2, <1>3, <1>4 DEF Step

(* What a lookup does to the variables that it does change.                *)
LEMMA StepTypes ==
  ASSUME TypeOK, NEW w \in Threads, Step(w)
  PROVE  /\ link' \in {"none", "good", "broken"}
         /\ downUntil' \in Nat
         /\ owner' \in Threads \cup {Nobody}
         /\ roleCache' \in [until : Nat, roles : SUBSET Passing]
<1>t. /\ link \in {"none", "good", "broken"}
      /\ clock \in Nat /\ downUntil \in Nat
      /\ owner \in Threads \cup {Nobody}
      /\ roleCache \in [until : Nat, roles : SUBSET Passing]
  BY DEF TypeOK
<1> USE <1>t DEF world, history, UseRedis
<1>1. CASE Enter(w) \/ CacheHit(w) \/ CacheMiss(w) \/ Lock(w)
  BY <1>1 DEF Enter, CacheHit, CacheMiss, Lock
<1>2. CASE MasterConnects(w) \/ ReplicaConnects(w) \/ UserFound(w)
  BY <1>2 DEF MasterConnects, ReplicaConnects, UserFound
<1>3. CASE MasterFails(w)
  BY <1>3, Constants DEF MasterFails, Refuse
<1>4. CASE ReplicaFails(w) \/ UserSearchFails(w)
  BY <1>4 DEF ReplicaFails, UserSearchFails, Refuse
<1>5. CASE GroupsFound(w) \/ GroupSearchFails(w)
  BY <1>5 DEF GroupsFound, GroupSearchFails, Return
<1>6. CASE Put(w)
  <2>1. [until |-> clock + RoleTTL, roles |-> lookup[w].roles]
          \in [until : Nat, roles : SUBSET Passing]
    BY Constants, LookupFacts
  <2> QED
    BY <1>6, <2>1 DEF Put
<1>7. CASE Leave(w)
  BY <1>7 DEF Leave
<1> QED
  BY <1>1, <1>2, <1>3, <1>4, <1>5, <1>6, <1>7 DEF Step

(* The directories, Redis and time keep the types. *)
LEMMA ChangeTypes ==
  ASSUME TypeOK, UNCHANGED hasReplica,
         \/ \E e \in Endpoints : EndpointGoes(e) \/ EndpointReturns(e)
         \/ RedisToggles
         \/ \E g \in Groups : MembershipChanges(g)
         \/ Replicates
         \/ Tick
  PROVE  TypeOK'
<1>t. clock \in Nat \ {0} /\ clock \in Int /\ changes \in Nat
  BY DEF TypeOK
<1>1. ASSUME NEW e \in Endpoints, EndpointGoes(e) \/ EndpointReturns(e)
      PROVE  TypeOK'
  <2>1. lastDown' \in [Endpoints -> Int]
    BY <1>1, <1>t DEF EndpointGoes, EndpointReturns, history, TypeOK
  <2>2. up' \subseteq Endpoints /\ changes' \in Nat
    BY <1>1 DEF EndpointGoes, EndpointReturns, Change, TypeOK
  <2> QED
    BY <1>1, <2>1, <2>2 DEF EndpointGoes, EndpointReturns, history, TypeOK
<1>2. CASE RedisToggles
  <2>1. redisUp' \in BOOLEAN /\ link' \in {"none", "good", "broken"} /\ changes' \in Nat
    BY <1>2 DEF RedisToggles, Change, TypeOK
  <2> QED
    BY <1>2, <2>1 DEF RedisToggles, history, TypeOK
<1>3. ASSUME NEW gs, NEW t \in Int, Observed(gs, t)
      PROVE  lastHeld' \in [Roles -> Int] /\ lastLacked' \in [Roles -> Int]
  BY <1>3 DEF Observed, TypeOK
<1>4. ASSUME NEW g \in Groups, MembershipChanges(g)
      PROVE  TypeOK'
  <2>1. groups' \in [Endpoints -> SUBSET Groups]
    BY <1>4, PhasesExist DEF MembershipChanges, TypeOK
  <2>2. lastHeld' \in [Roles -> Int] /\ lastLacked' \in [Roles -> Int] /\ changes' \in Nat
    BY <1>4, <1>3, <1>t DEF MembershipChanges, Change
  <2> QED
    BY <1>4, <2>1, <2>2 DEF MembershipChanges, TypeOK
<1>5. CASE Replicates
  <2>1. groups' \in [Endpoints -> SUBSET Groups] /\ changes' \in Nat
    BY <1>5, PhasesExist DEF Replicates, Change, TypeOK
  <2> QED
    BY <1>5, <2>1 DEF Replicates, history, TypeOK
<1>6. CASE Tick
  <2>1. clock + 1 \in Int /\ clock' \in Nat \ {0}
    BY <1>6, <1>t DEF Tick
  <2>2. lastHeld' \in [Roles -> Int] /\ lastLacked' \in [Roles -> Int]
    BY <1>6, <1>3, <2>1 DEF Tick
  <2>3. lastDown' \in [Endpoints -> Int]
    BY <1>6, <2>1 DEF Tick, TypeOK
  <2> QED
    BY <1>6, <2>1, <2>2, <2>3 DEF Tick, TypeOK
<1> QED
  BY <1>1, <1>2, <1>4, <1>5, <1>6

LEMMA TypeStep == TypeOK /\ [Next]_vars => TypeOK'
<1> SUFFICES ASSUME TypeOK, [Next]_vars PROVE TypeOK'
  OBVIOUS
<1>1. ASSUME NEW w \in Threads, Step(w), UNCHANGED hasReplica
      PROVE  TypeOK'
  <2>1. lastLacked' \in [Roles -> Int]
    BY <1>1, StepLeavesServers DEF TypeOK
  <2>2. UNCHANGED <<clock, up, redisUp, groups, changes, lastDown, lastHeld>>
    BY <1>1, StepLeavesServers
  <2>3. lookup' \in [Threads -> Lookup]
    BY <1>1, LookupTypeStep
  <2> QED
    BY <1>1, <2>1, <2>2, <2>3, StepTypes DEF TypeOK
<1>2. CASE UNCHANGED vars
  BY <1>2 DEF vars, TypeOK
<1> QED
  BY <1>1, <1>2, ChangeTypes DEF Next

-----------------------------------------------------------------------------
(* Records of outages and memberships only get younger. *)
HistoryGrows ==
  /\ clock' >= clock
  /\ \A e \in Endpoints : lastDown'[e] >= lastDown[e]
  /\ \A r \in Roles : lastHeld'[r] >= lastHeld[r] /\ lastLacked'[r] >= lastLacked[r]

(* To observe the memberships now makes the record exact for the present.  *)
LEMMA ObservedIsPresent ==
  ASSUME TypeOK, HistoryIsPresent, NEW gs, NEW t \in Int, t >= clock, Observed(gs, t)
  PROVE  \A r \in Roles :
           /\ lastHeld'[r] <= t /\ lastLacked'[r] <= t
           /\ lastHeld'[r] >= lastHeld[r] /\ lastLacked'[r] >= lastLacked[r]
           /\ Grants(gs, r) => lastHeld'[r] = t
           /\ Withholds(gs, r) => lastLacked'[r] = t
<1> SUFFICES ASSUME NEW r \in Roles
             PROVE  /\ lastHeld'[r] <= t /\ lastLacked'[r] <= t
                    /\ lastHeld'[r] >= lastHeld[r] /\ lastLacked'[r] >= lastLacked[r]
                    /\ Grants(gs, r) => lastHeld'[r] = t
                    /\ Withholds(gs, r) => lastLacked'[r] = t
  OBVIOUS
<1>1. /\ clock \in Int /\ lastHeld[r] \in Int /\ lastLacked[r] \in Int
      /\ lastHeld[r] <= clock /\ lastLacked[r] <= clock
  BY DEF TypeOK, HistoryIsPresent
<1>2. /\ lastHeld'[r] = IF Grants(gs, r) THEN t ELSE lastHeld[r]
      /\ lastLacked'[r] = IF Withholds(gs, r) THEN t ELSE lastLacked[r]
  BY DEF Observed
<1> QED
  BY <1>1, <1>2

LEMMA HistoryStep ==
  ASSUME TypeOK, HistoryIsPresent, [Next]_vars
  PROVE  HistoryIsPresent' /\ HistoryGrows
<1>t. /\ clock \in Int
      /\ lastDown \in [Endpoints -> Int]
      /\ lastHeld \in [Roles -> Int] /\ lastLacked \in [Roles -> Int]
      /\ up \subseteq Endpoints
  BY DEF TypeOK
<1>1. CASE /\ UNCHANGED <<clock, up, groups, lastDown, lastHeld>>
           /\ lastLacked' = lastLacked \/ lastLacked' = [r \in Roles |-> clock]
  <2>1. \A r \in Roles : /\ lastLacked'[r] <= clock /\ lastLacked'[r] >= lastLacked[r]
                         /\ lastLacked'[r] = lastLacked[r] \/ lastLacked'[r] = clock
    BY <1>1, <1>t DEF HistoryIsPresent
  <2> QED
    BY <1>1, <1>t, <2>1 DEF HistoryIsPresent, HistoryGrows, Grants, Withholds
<1>2. ASSUME NEW e \in Endpoints, EndpointGoes(e) \/ EndpointReturns(e)
      PROVE  HistoryIsPresent' /\ HistoryGrows
  <2>1. /\ UNCHANGED <<clock, groups, lastHeld, lastLacked>>
        /\ \A x \in Endpoints :
             /\ lastDown'[x] <= clock /\ lastDown'[x] >= lastDown[x]
             /\ x \notin up' => lastDown'[x] = clock
    BY <1>2, <1>t DEF EndpointGoes, EndpointReturns, history, HistoryIsPresent
  <2> QED
    BY <1>t, <2>1 DEF HistoryIsPresent, HistoryGrows, Grants, Withholds
<1>3. ASSUME NEW g \in Groups, MembershipChanges(g)
      PROVE  HistoryIsPresent' /\ HistoryGrows
  <2>1. Observed(groups', clock) /\ UNCHANGED <<clock, up, lastDown>>
    BY <1>3 DEF MembershipChanges
  <2> DEFINE gs == groups'
  <2>2. \A r \in Roles :
           /\ lastHeld'[r] <= clock /\ lastLacked'[r] <= clock
           /\ lastHeld'[r] >= lastHeld[r] /\ lastLacked'[r] >= lastLacked[r]
           /\ Grants(gs, r) => lastHeld'[r] = clock
           /\ Withholds(gs, r) => lastLacked'[r] = clock
    <3>1. Observed(gs, clock) /\ clock >= clock
      BY <2>1, <1>t
    <3> HIDE DEF gs
    <3> QED
      BY <3>1, <1>t, ObservedIsPresent
  <2> QED
    BY <1>t, <2>1, <2>2 DEF HistoryIsPresent, HistoryGrows
<1>4. CASE Replicates
  <2>1. /\ UNCHANGED <<clock, up, lastDown, lastHeld, lastLacked>>
        /\ groups' = [groups EXCEPT !["replica"] = groups["master"]]
    BY <1>4 DEF Replicates, history
  <2>2. \A e \in Endpoints : groups'[e] = groups[e] \/ groups'[e] = groups["master"]
    BY <2>1 DEF TypeOK
  <2>3. \A r \in Roles : /\ Grants(groups', r) => Grants(groups, r)
                         /\ Withholds(groups', r) => Withholds(groups, r)
    BY <2>2, PhasesExist DEF Grants, Withholds
  <2>4. \A r \in Roles :
           /\ lastHeld[r] <= clock /\ lastLacked[r] <= clock
           /\ Grants(groups', r) => lastHeld[r] = clock
           /\ Withholds(groups', r) => lastLacked[r] = clock
    BY <2>3 DEF HistoryIsPresent
  <2>5. HistoryGrows
    BY <1>t, <2>1 DEF HistoryGrows
  <2> QED
    BY <2>1, <2>4, <2>5 DEF HistoryIsPresent
<1>5. CASE Tick
  <2>1. /\ clock' = clock + 1 /\ UNCHANGED <<up, groups>>
        /\ Observed(groups, clock + 1)
        /\ \A e \in Endpoints : lastDown'[e] = IF e \notin up THEN clock + 1 ELSE lastDown[e]
    BY <1>5 DEF Tick
  <2>2. clock + 1 \in Int /\ clock + 1 >= clock
    BY <1>t
  <2>3. \A r \in Roles :
           /\ lastHeld'[r] <= clock + 1 /\ lastLacked'[r] <= clock + 1
           /\ lastHeld'[r] >= lastHeld[r] /\ lastLacked'[r] >= lastLacked[r]
           /\ Grants(groups, r) => lastHeld'[r] = clock + 1
           /\ Withholds(groups, r) => lastLacked'[r] = clock + 1
    BY <2>1, <2>2, ObservedIsPresent
  <2>4. \A e \in Endpoints :
           /\ lastDown'[e] <= clock + 1 /\ lastDown'[e] >= lastDown[e]
           /\ e \notin up => lastDown'[e] = clock + 1
    BY <2>1, <1>t DEF HistoryIsPresent
  <2> QED
    BY <2>1, <2>2, <2>3, <2>4 DEF HistoryIsPresent, HistoryGrows, Grants, Withholds
<1>6. ASSUME NEW w \in Threads, Step(w)
      PROVE  HistoryIsPresent' /\ HistoryGrows
  BY <1>6, <1>1, StepLeavesServers
<1>7. CASE RedisToggles \/ UNCHANGED vars
  BY <1>7, <1>1 DEF RedisToggles, history, vars
<1> QED
  BY <1>2, <1>3, <1>4, <1>5, <1>6, <1>7 DEF Next

-----------------------------------------------------------------------------
(* The breaker is tripped by an outage of the master only, for a cooldown. *)
LEMMA BreakerStep ==
  ASSUME TypeOK, HistoryIsPresent, HistoryGrows, BreakerIsFounded, [Next]_vars
  PROVE  BreakerIsFounded'
<1>t. /\ clock \in Int /\ downUntil \in Nat
      /\ lastDown["master"] \in Int
  BY PhasesExist DEF TypeOK
<1>g. lastDown'["master"] \in Int /\ lastDown'["master"] >= lastDown["master"]
  BY TypeStep, PhasesExist DEF TypeOK, HistoryGrows
<1>1. CASE downUntil' = downUntil \/ downUntil' = 0
  BY <1>1, <1>t, <1>g, Constants DEF BreakerIsFounded
<1>2. ASSUME NEW w \in Threads, MasterFails(w), downUntil' # downUntil
      PROVE  BreakerIsFounded'
  <2>1. downUntil' = clock + Cooldown /\ "master" \notin up
    BY <1>2 DEF MasterFails
  <2>2. lastDown["master"] = clock
    BY <2>1, PhasesExist DEF HistoryIsPresent
  <2> QED
    BY <2>1, <2>2, <1>t, <1>g, Constants DEF BreakerIsFounded
<1>3. ASSUME NEW w \in Threads, Step(w), ~MasterFails(w)
      PROVE  downUntil' = downUntil \/ downUntil' = 0
  <2>1. CASE Enter(w) \/ CacheHit(w) \/ CacheMiss(w) \/ Lock(w)
    BY <2>1 DEF Enter, CacheHit, CacheMiss, Lock
  <2>2. CASE MasterConnects(w) \/ ReplicaConnects(w) \/ ReplicaFails(w)
    BY <2>2 DEF MasterConnects, ReplicaConnects, ReplicaFails
  <2>3. CASE UserFound(w) \/ UserSearchFails(w) \/ GroupsFound(w) \/ GroupSearchFails(w)
    BY <2>3 DEF UserFound, UserSearchFails, GroupsFound, GroupSearchFails
  <2>4. CASE Put(w) \/ Leave(w)
    BY <2>4 DEF Put, Leave
  <2> QED
    BY <1>3, <2>1, <2>2, <2>3, <2>4 DEF Step
<1>4. ASSUME NEW w \in Threads, Step(w)
      PROVE  BreakerIsFounded'
  BY <1>4, <1>1, <1>2, <1>3
<1>5. ASSUME ~\E w \in Threads : Step(w)
      PROVE  downUntil' = downUntil
  BY <1>5 DEF Next, vars, EndpointGoes, EndpointReturns, RedisToggles, MembershipChanges,
              Replicates, Tick
<1> QED
  BY <1>1, <1>4, <1>5

-----------------------------------------------------------------------------
(* The entry that a Put makes is founded on the search it comes from, which *)
(* is at most StoreDelay old.                                              *)
LEMMA CacheStep ==
  ASSUME TypeOK, TypeOK', HistoryGrows, CacheIsFounded, LookupIsFounded, [Next]_vars
  PROVE  CacheIsFounded'
<1>t. /\ clock \in Int
      /\ lastHeld \in [Roles -> Int] /\ lastLacked \in [Roles -> Int]
      /\ lastHeld' \in [Roles -> Int] /\ lastLacked' \in [Roles -> Int]
      /\ roleCache.until \in Int /\ roleCache.roles \subseteq Passing
      /\ Passing \subseteq Roles
  BY DEF TypeOK, Passing
<1>1. CASE roleCache' = roleCache
  BY <1>1, <1>t, Constants DEF CacheIsFounded, HistoryGrows
<1>2. ASSUME NEW w \in Threads, Put(w), roleCache' # roleCache
      PROVE  CacheIsFounded'
  <2>1. roleCache' = [until |-> clock + RoleTTL, roles |-> lookup[w].roles]
    BY <1>2 DEF Put
  <2>2. /\ clock <= lookup[w].read + StoreDelay
        /\ \A r \in lookup[w].roles : lastHeld[r] >= lookup[w].read
        /\ \A r \in Passing \ lookup[w].roles : lastLacked[r] >= lookup[w].read
    BY <1>2 DEF Put, LookupIsFounded
  <2>3. lookup[w].roles \subseteq Passing /\ lookup[w].read \in Nat
    BY LookupFacts
  <2>4. roleCache'.until - Window <= lookup[w].read
    BY <2>1, <2>2, <2>3, <1>t, Constants
  <2>5. \A r \in lookup[w].roles : lastHeld'[r] >= roleCache'.until - Window
    BY <2>1, <2>2, <2>3, <2>4, <1>t, Constants DEF HistoryGrows
  <2>6. \A r \in Passing \ lookup[w].roles : lastLacked'[r] >= roleCache'.until - Window
    BY <2>1, <2>2, <2>3, <2>4, <1>t, Constants DEF HistoryGrows
  <2> QED
    BY <2>1, <2>5, <2>6 DEF CacheIsFounded
<1>3. ASSUME NEW w \in Threads, Step(w), ~Put(w)
      PROVE  roleCache' = roleCache
  <2>1. CASE Enter(w) \/ CacheHit(w) \/ CacheMiss(w) \/ Lock(w)
    BY <2>1 DEF Enter, CacheHit, CacheMiss, Lock
  <2>2. CASE MasterConnects(w) \/ MasterFails(w) \/ ReplicaConnects(w) \/ ReplicaFails(w)
    BY <2>2 DEF MasterConnects, MasterFails, ReplicaConnects, ReplicaFails
  <2>3. CASE UserFound(w) \/ UserSearchFails(w) \/ GroupsFound(w) \/ GroupSearchFails(w)
    BY <2>3 DEF UserFound, UserSearchFails, GroupsFound, GroupSearchFails
  <2>4. CASE Leave(w)
    BY <2>4 DEF Leave
  <2> QED
    BY <1>3, <2>1, <2>2, <2>3, <2>4 DEF Step
<1>4. ASSUME ~\E w \in Threads : Step(w)
      PROVE  roleCache' = roleCache
  BY <1>4 DEF Next, vars, EndpointGoes, EndpointReturns, RedisToggles, MembershipChanges,
              Replicates, Tick
<1> QED
  BY <1>1, <1>2, <1>3, <1>4

-----------------------------------------------------------------------------
(* What RoleInv says of one thread. *)
PutOK(w) ==
  At(w, "put") =>
    /\ lookup[w].start <= lookup[w].read
    /\ clock <= lookup[w].read + StoreDelay
    /\ \A r \in lookup[w].roles : lastHeld[r] >= lookup[w].read
    /\ \A r \in Passing \ lookup[w].roles : lastLacked[r] >= lookup[w].read

ServedOK(w) ==
  Served(w) =>
    /\ \A r \in lookup[w].roles : lastHeld[r] > lookup[w].start - Window
    /\ \A r \in Passing \ lookup[w].roles : lastLacked[r] > lookup[w].start - Window

RefusedOK(w) ==
  Refused(w) =>
    \/ DownSince("master", lookup[w].start)
    \/ /\ DownSince("replica", lookup[w].start)
       /\ DownSince("master", lookup[w].start - Cooldown + 1)

ReplicaOK(w) ==
  At(w, "replica") \/ Server(w) = "replica" =>
    hasReplica /\ DownSince("master", lookup[w].start - Cooldown + 1)

LookupOK(w) ==
  lookup[w].start <= clock /\ PutOK(w) /\ ServedOK(w) /\ RefusedOK(w) /\ ReplicaOK(w)

LEMMA InvIsPerThread ==
  RoleInv <=>
    /\ TypeOK /\ HistoryIsPresent /\ BreakerIsFounded /\ CacheIsFounded
    /\ \A w \in Threads : LookupOK(w)
BY DEF RoleInv, LookupIsFounded, RolesWereHeld, RolesAreComplete, RefusalIsExcused,
       ReplicaIsExcused, LookupOK, PutOK, ServedOK, RefusedOK, ReplicaOK

(* The facts of the history that a thread's records are compared with. *)
LEMMA GrowthFacts ==
  ASSUME TypeOK, TypeOK', HistoryGrows
  PROVE  /\ clock \in Int /\ clock' \in Int /\ clock' >= clock
         /\ \A e \in Endpoints : /\ lastDown[e] \in Int /\ lastDown'[e] \in Int
                                 /\ lastDown'[e] >= lastDown[e]
         /\ \A r \in Roles : /\ lastHeld[r] \in Int /\ lastHeld'[r] \in Int
                             /\ lastHeld'[r] >= lastHeld[r]
                             /\ lastLacked[r] \in Int /\ lastLacked'[r] \in Int
                             /\ lastLacked'[r] >= lastLacked[r]
         /\ Passing \subseteq Roles
BY DEF TypeOK, HistoryGrows, Passing

(* A thread that does not move keeps what it rests on. *)
LEMMA LookupKept ==
  ASSUME TypeOK, TypeOK', HistoryGrows, NEW w \in Threads, LookupOK(w),
         lookup'[w] = lookup[w], hasReplica' = hasReplica,
         At(w, "put") => clock' <= lookup[w].read + StoreDelay
  PROVE  LookupOK(w)'
<1> USE GrowthFacts, LookupFacts, Constants
<1>1. lookup'[w].start <= clock'
  BY DEF LookupOK
<1>2. PutOK(w)'
  BY DEF LookupOK, PutOK, At
<1>3. ServedOK(w)'
  BY DEF LookupOK, ServedOK, Served, At
<1>4. RefusedOK(w)'
  BY PhasesExist DEF LookupOK, RefusedOK, Refused, DownSince, At
<1>5. ReplicaOK(w)'
  BY PhasesExist DEF LookupOK, ReplicaOK, Server, DownSince, At
<1> QED
  BY <1>1, <1>2, <1>3, <1>4, <1>5 DEF LookupOK

(* What the thread that moves may rely on afterwards, by the phase it gets. *)
LEMMA PlainPhase ==
  ASSUME NEW w \in Threads,
         lookup'[w].phase \in {"cache", "lock", "master", "user", "groups"}
  PROVE  PutOK(w)' /\ ServedOK(w)' /\ RefusedOK(w)'
BY DEF PutOK, ServedOK, RefusedOK, Served, Refused, At

(* The master is down now: everything that an outage excuses is excused.   *)
LEMMA MasterIsDown ==
  ASSUME TypeOK, HistoryIsPresent, NEW n \in Nat, n <= clock, "master" \notin up
  PROVE  DownSince("master", n) /\ DownSince("master", n - Cooldown + 1)
<1>1. lastDown["master"] = clock /\ clock \in Int
  BY PhasesExist DEF HistoryIsPresent, TypeOK
<1> QED
  BY <1>1, Constants DEF DownSince

LEMMA ActorStep ==
  ASSUME RoleInv, TypeOK', NEW w \in Threads, Step(w), hasReplica' = hasReplica
  PROVE  LookupOK(w)'
<1>0. /\ TypeOK /\ HistoryIsPresent /\ BreakerIsFounded /\ CacheIsFounded
      /\ LookupOK(w)
  BY InvIsPerThread
<1>s. /\ UNCHANGED <<clock, up, groups, lastDown, lastHeld>>
      /\ lastLacked' = lastLacked \/ lastLacked' = [r \in Roles |-> clock]
  BY StepLeavesServers
<1>t. /\ clock \in Nat /\ lookup \in [Threads -> Lookup]
      /\ lookup[w].start \in Nat /\ lookup[w].start <= clock /\ lookup[w].read \in Nat
      /\ lookup[w].roles \subseteq Passing /\ lookup[w].server \in Endpoints
      /\ Passing \subseteq Roles
      /\ \A r \in Roles : lastHeld[r] \in Int /\ lastLacked[r] \in Int
      /\ \A e \in Endpoints : lastDown[e] \in Int
  BY <1>0, LookupFacts DEF TypeOK, LookupOK, Passing
<1>1. CASE Enter(w)
  <2>1. /\ lookup'[w].phase = "cache" /\ lookup'[w].start = clock
        /\ lookup'[w].server = "master"
    BY <1>1, <1>t DEF Enter, NoLookup
  <2>2. ReplicaOK(w)'
    BY <2>1 DEF ReplicaOK, At, Server
  <2> QED
    BY <2>1, <2>2, <1>s, <1>t, PlainPhase DEF LookupOK
<1>2. CASE CacheHit(w)
  <2>1. /\ clock < roleCache.until
        /\ lookup' = [lookup EXCEPT ![w].phase = "served", ![w].roles = roleCache.roles]
        /\ UNCHANGED <<lastDown, lastHeld, lastLacked>>
    BY <1>2 DEF CacheHit, history
  <2>2. /\ lookup'[w].phase = "served" /\ lookup'[w].roles = roleCache.roles
        /\ lookup'[w].start = lookup[w].start /\ lookup'[w].server = lookup[w].server
    BY <2>1, <1>t DEF Lookup
  <2>3. roleCache.until \in Nat /\ roleCache.roles \subseteq Passing
    BY <1>0 DEF TypeOK
  <2>4. lookup[w].start - Window < roleCache.until - Window
    BY <2>1, <2>3, <1>t, Constants
  <2>5. ServedOK(w)'
    <3>1. \A r \in roleCache.roles : lastHeld[r] > lookup[w].start - Window
      BY <2>3, <2>4, <1>0, <1>t, Constants DEF CacheIsFounded
    <3>2. \A r \in Passing \ roleCache.roles : lastLacked[r] > lookup[w].start - Window
      BY <2>3, <2>4, <1>0, <1>t, Constants DEF CacheIsFounded
    <3> QED
      BY <3>1, <3>2, <2>1, <2>2 DEF ServedOK
  <2>6. ReplicaOK(w)'
    BY <2>1, <2>2, <1>0 DEF LookupOK, ReplicaOK, At, Server, DownSince
  <2> QED
    BY <2>2, <2>5, <2>6, <1>s, <1>t DEF LookupOK, PutOK, RefusedOK, Refused, At
<1>3. CASE CacheMiss(w) \/ UserFound(w)
  <2>1. PICK f \in {"lock", "groups"} : lookup' = [lookup EXCEPT ![w].phase = f]
    BY <1>3 DEF CacheMiss, UserFound, Goto
  <2>2. /\ lookup'[w].phase = f
        /\ lookup'[w].start = lookup[w].start /\ lookup'[w].server = lookup[w].server
    BY <2>1, <1>t DEF Lookup
  <2>3. ReplicaOK(w)'
    BY <2>2, <1>0, <1>s DEF LookupOK, ReplicaOK, At, Server, DownSince
  <2> QED
    BY <2>2, <2>3, <1>s, <1>t, PlainPhase DEF LookupOK
<1>4. CASE Lock(w)
  <2> DEFINE f == IF ~hasReplica \/ TriesPrimary THEN "master" ELSE "replica"
  <2>1. lookup' = [lookup EXCEPT ![w].phase = f]
    BY <1>4 DEF Lock, Goto
  <2>2. f \in {"master", "replica"}
    OBVIOUS
  <2>3. f = "replica" => hasReplica /\ clock < downUntil
    BY <1>0, <1>t DEF TriesPrimary, TypeOK
  <2> HIDE DEF f
  <2>4. /\ lookup'[w].phase = f
        /\ lookup'[w].start = lookup[w].start /\ lookup'[w].server = lookup[w].server
    BY <2>1, <1>t DEF Lookup
  <2>5. f = "replica" => hasReplica /\ DownSince("master", lookup[w].start - Cooldown + 1)
    <3> SUFFICES ASSUME f = "replica"
                 PROVE  DownSince("master", lookup[w].start - Cooldown + 1)
      BY <2>3
    <3>1. clock < downUntil /\ downUntil \in Nat
      BY <2>3, <1>0 DEF TypeOK
    <3>2. lastDown["master"] >= downUntil - Cooldown
      BY <3>1, <1>0, <1>t DEF BreakerIsFounded
    <3> QED
      BY <3>1, <3>2, <1>t, Constants, PhasesExist DEF DownSince
  <2>6. ReplicaOK(w)'
    BY <2>2, <2>4, <2>5, <1>0, <1>s DEF LookupOK, ReplicaOK, At, Server, DownSince
  <2> QED
    BY <2>2, <2>4, <2>6, <1>s, <1>t
    DEF LookupOK, PutOK, ServedOK, RefusedOK, Served, Refused, At
<1>5. CASE MasterConnects(w) \/ ReplicaConnects(w)
  <2>1. PICK e \in Endpoints :
          /\ lookup' = [lookup EXCEPT ![w].phase = "user", ![w].server = e]
          /\ e = "replica" => At(w, "replica")
    BY <1>5, PhasesExist DEF MasterConnects, ReplicaConnects, Connected
  <2>2. /\ lookup'[w].phase = "user" /\ lookup'[w].server = e
        /\ lookup'[w].start = lookup[w].start
    BY <2>1, <1>t DEF Lookup
  <2>3. ReplicaOK(w)'
    BY <2>1, <2>2, <1>0, <1>s DEF LookupOK, ReplicaOK, At, Server, DownSince
  <2> QED
    BY <2>2, <2>3, <1>s, <1>t, PlainPhase DEF LookupOK
<1>6. CASE MasterFails(w)
  <2>1. PICK f \in {"replica", "refused"} :
          /\ lookup' = [lookup EXCEPT ![w].phase = f]
          /\ f = "replica" => hasReplica
    BY <1>6 DEF MasterFails, Refuse, Goto
  <2>2. /\ lookup'[w].phase = f
        /\ lookup'[w].start = lookup[w].start /\ lookup'[w].server = lookup[w].server
    BY <2>1, <1>t DEF Lookup
  <2>3. /\ DownSince("master", lookup[w].start)
        /\ DownSince("master", lookup[w].start - Cooldown + 1)
    BY <1>6, <1>0, <1>t, MasterIsDown DEF MasterFails
  <2>4. RefusedOK(w)' /\ ReplicaOK(w)'
    BY <2>1, <2>2, <2>3, <1>0, <1>s
    DEF LookupOK, RefusedOK, Refused, ReplicaOK, At, Server, DownSince
  <2> QED
    BY <2>1, <2>2, <2>4, <1>s, <1>t DEF LookupOK, PutOK, ServedOK, Served, At
<1>7. CASE ReplicaFails(w) \/ UserSearchFails(w)
  <2>1. lookup' = [lookup EXCEPT ![w].phase = "refused"]
    BY <1>7 DEF ReplicaFails, UserSearchFails, Refuse, Goto
  <2>2. /\ lookup'[w].phase = "refused"
        /\ lookup'[w].start = lookup[w].start /\ lookup'[w].server = lookup[w].server
    BY <2>1, <1>t DEF Lookup
  <2>3. \/ "master" \notin up
        \/ "replica" \notin up /\ (At(w, "replica") \/ Server(w) = "replica")
    BY <1>7, <1>t DEF ReplicaFails, UserSearchFails, Server, Endpoints
  <2>4. \/ DownSince("master", lookup[w].start)
        \/ /\ DownSince("replica", lookup[w].start)
           /\ DownSince("master", lookup[w].start - Cooldown + 1)
    <3>1. CASE "master" \notin up
      BY <3>1, <1>0, <1>t, MasterIsDown
    <3>2. CASE "replica" \notin up /\ (At(w, "replica") \/ Server(w) = "replica")
      <4>1. lastDown["replica"] = clock
        BY <3>2, <1>0, PhasesExist DEF HistoryIsPresent
      <4>2. DownSince("replica", lookup[w].start)
        BY <4>1, <1>t DEF DownSince
      <4> QED
        BY <4>2, <3>2, <1>0 DEF LookupOK, ReplicaOK
    <3> QED
      BY <2>3, <3>1, <3>2
  <2>5. RefusedOK(w)' /\ ReplicaOK(w)'
    BY <2>2, <2>4, <1>0, <1>s
    DEF LookupOK, RefusedOK, Refused, ReplicaOK, At, Server, DownSince
  <2> QED
    BY <2>2, <2>5, <1>s, <1>t DEF LookupOK, PutOK, ServedOK, Served, At
<1>8. CASE GroupsFound(w) \/ GroupSearchFails(w)
  <2>1. PICK gs \in SUBSET Groups :
          /\ Return(w, Finished(gs))
          /\ \A r \in Finished(gs) : lastHeld[r] = clock
          /\ \A r \in Passing \ Finished(gs) : lastLacked'[r] = clock
    <3>1. CASE GroupsFound(w)
      <4> DEFINE gs == groups[Server(w)]
      <4>1. gs \in SUBSET Groups /\ Server(w) \in Endpoints
        BY <1>0, <1>t DEF TypeOK, Server
      <4>2. Return(w, Finished(gs)) /\ UNCHANGED lastLacked
        BY <3>1 DEF GroupsFound, history
      <4>3. Finished(gs) \subseteq Roles
        BY <4>1, <1>t, FinishedPasses
      <4>4. \A r \in Finished(gs) : lastHeld[r] = clock
        BY <4>1, <4>3, <1>0 DEF HistoryIsPresent, Grants
      <4>5. \A r \in Passing \ Finished(gs) : lastLacked[r] = clock
        BY <4>1, <1>t, <1>0 DEF HistoryIsPresent, Withholds
      <4> HIDE DEF gs
      <4> QED
        BY <4>1, <4>2, <4>4, <4>5
    <3>2. CASE GroupSearchFails(w)
      <4>1. Return(w, Finished({})) /\ lastLacked' = [r \in Roles |-> clock]
        BY <3>2 DEF GroupSearchFails
      <4>2. Finished({}) = {}
        BY DEF Finished
      <4> QED
        BY <4>1, <4>2, <1>t
    <3> QED
      BY <1>8, <3>1, <3>2
  <2>2. lookup' = [lookup EXCEPT ![w].phase = "put", ![w].roles = Finished(gs), ![w].read = clock]
    BY <2>1 DEF Return
  <2>3. /\ lookup'[w].phase = "put" /\ lookup'[w].roles = Finished(gs)
        /\ lookup'[w].read = clock
        /\ lookup'[w].start = lookup[w].start /\ lookup'[w].server = lookup[w].server
    BY <2>2, <1>t DEF Lookup
  <2>4. PutOK(w)'
    <3>1. /\ \A r \in Finished(gs) : lastHeld'[r] >= clock
          /\ \A r \in Passing \ Finished(gs) : lastLacked'[r] >= clock
      BY <2>1, <1>s, <1>t
    <3>2. clock' <= clock + StoreDelay
      BY <1>s, <1>t, Constants
    <3> QED
      BY <3>1, <3>2, <2>3, <1>t DEF PutOK
  <2>5. ReplicaOK(w)'
    BY <2>3, <1>0, <1>s DEF LookupOK, ReplicaOK, At, Server, DownSince
  <2> QED
    BY <2>3, <2>4, <2>5, <1>s, <1>t DEF LookupOK, ServedOK, Served, RefusedOK, Refused, At
<1>9. CASE Put(w)
  <2>1. /\ lookup' = [lookup EXCEPT ![w].phase = "served", ![w].read = 0]
        /\ At(w, "put") /\ UNCHANGED lastLacked
    BY <1>9 DEF Put, history
  <2>2. /\ lookup'[w].phase = "served" /\ lookup'[w].roles = lookup[w].roles
        /\ lookup'[w].start = lookup[w].start /\ lookup'[w].server = lookup[w].server
    BY <2>1, <1>t DEF Lookup
  <2>3. /\ \A r \in lookup[w].roles : lastHeld[r] > lookup[w].start - Window
        /\ \A r \in Passing \ lookup[w].roles : lastLacked[r] > lookup[w].start - Window
    BY <2>1, <1>0, <1>t, Constants DEF LookupOK, PutOK
  <2>4. ServedOK(w)'
    BY <2>1, <2>2, <2>3, <1>s DEF ServedOK
  <2>5. ReplicaOK(w)'
    BY <2>2, <1>0, <1>s DEF LookupOK, ReplicaOK, At, Server, DownSince
  <2> QED
    BY <2>2, <2>4, <2>5, <1>s, <1>t DEF LookupOK, PutOK, RefusedOK, Refused, At
<1>10. CASE Leave(w)
  <2>1. /\ lookup'[w].phase = "idle" /\ lookup'[w].start = 0 /\ lookup'[w].server = "master"
    BY <1>10, <1>t DEF Leave, NoLookup
  <2> QED
    BY <2>1, <1>s, <1>t
    DEF LookupOK, PutOK, ServedOK, Served, RefusedOK, Refused, ReplicaOK, Server, At
<1> QED
  BY <1>1, <1>2, <1>3, <1>4, <1>5, <1>6, <1>7, <1>8, <1>9, <1>10 DEF Step

LEMMA OthersKeepTheirLookup ==
  ASSUME TypeOK, NEW v \in Threads, Step(v), NEW w \in Threads, w # v
  PROVE  lookup'[w] = lookup[w]
<1>t. lookup \in [Threads -> Lookup]
  BY LookupFacts
<1>1. CASE Enter(v) \/ CacheHit(v) \/ CacheMiss(v) \/ Lock(v)
  BY <1>1, <1>t DEF Enter, CacheHit, CacheMiss, Lock, Goto
<1>2. CASE MasterConnects(v) \/ MasterFails(v) \/ ReplicaConnects(v) \/ ReplicaFails(v)
  BY <1>2, <1>t
  DEF MasterConnects, MasterFails, ReplicaConnects, ReplicaFails, Connected, Refuse, Goto
<1>3. CASE UserFound(v) \/ UserSearchFails(v)
  BY <1>3, <1>t DEF UserFound, UserSearchFails, Refuse, Goto
<1>4. CASE GroupsFound(v) \/ GroupSearchFails(v) \/ Put(v) \/ Leave(v)
  BY <1>4, <1>t DEF GroupsFound, GroupSearchFails, Return, Put, Leave
<1> QED
  BY <1>1, <1>2, <1>3, <1>4 DEF Step

LEMMA NextInv == RoleInv /\ [Next]_vars => RoleInv'
<1> SUFFICES ASSUME RoleInv, [Next]_vars PROVE RoleInv'
  OBVIOUS
<1>0. /\ TypeOK /\ HistoryIsPresent /\ BreakerIsFounded /\ CacheIsFounded /\ LookupIsFounded
      /\ \A w \in Threads : LookupOK(w)
  BY InvIsPerThread DEF RoleInv
<1>1. TypeOK' /\ hasReplica' = hasReplica
  BY <1>0, TypeStep DEF Next, vars
<1>2. HistoryIsPresent' /\ HistoryGrows
  BY <1>0, HistoryStep
<1>3. BreakerIsFounded'
  BY <1>0, <1>2, BreakerStep
<1>4. CacheIsFounded'
  BY <1>0, <1>1, <1>2, CacheStep
<1>5. ASSUME NEW w \in Threads PROVE LookupOK(w)'
  <2>1. CASE Step(w)
    BY <2>1, <1>1, ActorStep
  <2>2. ASSUME NEW v \in Threads, Step(v), v # w
        PROVE  LookupOK(w)'
    <3>1. lookup'[w] = lookup[w] /\ clock' = clock
      BY <2>2, <1>0, OthersKeepTheirLookup, StepLeavesServers
    <3>2. At(w, "put") => clock' <= lookup[w].read + StoreDelay
      BY <3>1, <1>0 DEF LookupIsFounded
    <3> QED
      BY <3>1, <3>2, <1>0, <1>1, <1>2, LookupKept
  <2>3. ASSUME ~\E v \in Threads : Step(v)
        PROVE  LookupOK(w)'
    <3>1. lookup' = lookup
      BY <2>3 DEF Next, vars, EndpointGoes, EndpointReturns, RedisToggles, MembershipChanges,
                  Replicates, Tick
    <3>2. clock' = clock \/ Tick
      BY <2>3 DEF Next, vars, EndpointGoes, EndpointReturns, RedisToggles, MembershipChanges,
                  Replicates
    <3>3. At(w, "put") => clock' <= lookup[w].read + StoreDelay
      <4>1. CASE clock' = clock
        BY <4>1, <1>0 DEF LookupIsFounded
      <4>2. CASE Tick
        <5>1. clock' = clock + 1 /\ (At(w, "put") => clock < lookup[w].read + StoreDelay)
          BY <4>2 DEF Tick
        <5>2. clock \in Nat /\ lookup[w].read \in Nat
          BY <1>0, LookupFacts DEF TypeOK
        <5> QED
          BY <5>1, <5>2, Constants
      <4> QED
        BY <3>2, <4>1, <4>2
    <3> QED
      BY <3>1, <3>3, <1>0, <1>1, <1>2, LookupKept
  <2> QED
    BY <2>1, <2>2, <2>3
<1>6. \A w \in Threads : LookupOK(w)'
  BY <1>5
<1>7. RoleInv' <=> /\ TypeOK' /\ HistoryIsPresent' /\ BreakerIsFounded' /\ CacheIsFounded'
                   /\ \A w \in Threads : LookupOK(w)'
  BY DEF RoleInv, LookupIsFounded, RolesWereHeld, RolesAreComplete, RefusalIsExcused,
         ReplicaIsExcused, LookupOK, PutOK, ServedOK, RefusedOK, ReplicaOK
<1> QED
  BY <1>1, <1>2, <1>3, <1>4, <1>6, <1>7

LEMMA RoleInvariant == Spec => []RoleInv
  BY InitInv, NextInv, PTL DEF Spec

(* Lookups, the breaker and the cached roles keep their types; no role of  *)
(* the deployment tier is ever cached or served (stripDeploymentRoles).    *)
THEOREM RoleTypeCorrect == Spec => []TypeOK
<1>1. RoleInv => TypeOK
  BY DEF RoleInv
<1> QED
  BY <1>1, RoleInvariant, PTL

(* A revoked role is not served beyond the role TTL and the time from a    *)
(* search to its SETEX, for any number of threads and changes, whichever   *)
(* of two lookups writes the cache last (putCachedRoles).                  *)
THEOREM RolesAreFresh == Spec => []RolesWereHeld
<1>1. RoleInv => RolesWereHeld
  BY DEF RoleInv
<1> QED
  BY <1>1, RoleInvariant, PTL

(* A granted role is not missing for longer, failed group searches apart   *)
(* (putCachedRoles and finishTenantRoles).                                 *)
THEOREM GrantsArrive == Spec => []RolesAreComplete
<1>1. RoleInv => RolesAreComplete
  BY DEF RoleInv
<1> QED
  BY <1>1, RoleInvariant, PTL

(* Nobody is refused for an outage that ended before the request came and  *)
(* is older than the cooldown (connectToLDAP and circuit_breaker.h).       *)
THEOREM RefusalsAreExcused == Spec => []RefusalIsExcused
<1>1. RoleInv => RefusalIsExcused
  BY DEF RoleInv
<1> QED
  BY <1>1, RoleInvariant, PTL

(* The replica is asked only within a cooldown of an outage of the master  *)
(* (connectToLDAP and circuit_breaker.h).                                  *)
THEOREM ReplicaUseIsExcused == Spec => []ReplicaIsExcused
<1>1. RoleInv => ReplicaIsExcused
  BY DEF RoleInv
<1> QED
  BY <1>1, RoleInvariant, PTL
=============================================================================
