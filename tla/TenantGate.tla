----------------------------- MODULE TenantGate -----------------------------
(***************************************************************************)
(* tenantAdmits of src/src/webdav_server.cpp, with the policy of           *)
(* src/include/tenant_state_policy.h: whether a tenant's lifecycle state,  *)
(* kept by the core, admits a login.  Request threads share one static     *)
(* cache behind a static mutex; the time is read before the lock is taken, *)
(* the state lookup runs outside it, and the answer is stored in a second  *)
(* critical section, whatever is in the cache by then.                     *)
(***************************************************************************)
EXTENDS Integers

CONSTANTS Threads, Tenants,
          AdmitTTL, RefuseTTL,   \* seconds an admission and a refusal are cached
          MaxTime                \* bound: the clock stops there

ASSUME TTLsArePositive == AdmitTTL \in Nat \ {0} /\ RefuseTTL \in Nat \ {0}
ASSUME MaxTimeIsNat == MaxTime \in Nat

VARIABLES clock,      \* std::time, in seconds
          registry,   \* the core's state of each tenant
          cache,      \* the static map of tenantAdmits
          gate,       \* per thread: the tenantAdmits call it is in
          lastLive,   \* history: the last second in which each tenant was live
          lastShut    \* history: the last second in which it was not, or a lookup failed

vars == <<clock, registry, cache, gate, lastLive, lastShut>>

(* The lifecycle of tenant_state_policy.h, a state that a later core may   *)
(* add, and a tenant with no registry row.                                 *)
Lifecycle == {"requested", "awaiting_dns", "provisioning", "live", "suspended",
              "decommissioning", "decommissioned"}
Unrecognised == "a state this build does not know"
NoRow == "no registry row"
States == Lifecycle \cup {Unrecognised, NoRow}

Successors(s) ==
  CASE s = NoRow             -> {"requested"}
    [] s = "requested"       -> {"awaiting_dns"}
    [] s = "awaiting_dns"    -> {"provisioning"}
    [] s = "provisioning"    -> {"live", Unrecognised}
    [] s = "live"            -> {"suspended", "decommissioning"}
    [] s = "suspended"       -> {"live", "decommissioning"}
    [] s = "decommissioning" -> {"decommissioned"}
    [] OTHER                 -> {"live"}

(* admits, known and admits_or_refuses_unknown *)
Admits(s) == s = "live"
Known(s) == s \in Lifecycle
AdmitsOrRefusesUnknown(s, ok) == ok /\ Known(s) /\ Admits(s)

NoTenant == ""
ASSUME NoTenantIsNoTenant == NoTenant \notin Tenants

Expired == 0
Entry == [until : Nat, admits : BOOLEAN]

Gate == [phase : {"idle", "check", "lookup", "store", "done"},
         tenant : Tenants \cup {NoTenant}, start : Nat, admits : BOOLEAN]

NoCall == [phase |-> "idle", tenant |-> NoTenant, start |-> 0, admits |-> FALSE]

TypeOK ==
  /\ clock \in Nat \ {0}
  /\ registry \in [Tenants -> States]
  /\ cache \in [Tenants -> Entry]
  /\ gate \in [Threads -> Gate]
  /\ lastLive \in [Tenants -> Int]
  /\ lastShut \in [Tenants -> Int]

(* The process starts at a positive time, so that no entry is an entry     *)
(* that has expired.  No tenant was live before.                           *)
Init ==
  /\ clock = 1
  /\ registry \in [Tenants -> {"live", "provisioning"}]
  /\ cache = [t \in Tenants |-> [until |-> Expired, admits |-> FALSE]]
  /\ gate = [w \in Threads |-> NoCall]
  /\ lastLive = [t \in Tenants |-> IF registry[t] = "live" THEN 1 ELSE -AdmitTTL]
  /\ lastShut = [t \in Tenants |-> IF registry[t] = "live" THEN -RefuseTTL ELSE 1]

At(w, phase) == gate[w].phase = phase

-----------------------------------------------------------------------------
(* An empty tenant is refused at once. *)
EnterEmpty(w) ==
  /\ At(w, "idle")
  /\ gate' = [gate EXCEPT ![w] = [NoCall EXCEPT !.phase = "done"]]
  /\ UNCHANGED <<clock, registry, cache, lastLive, lastShut>>

(* The call reads the clock before it takes the lock. *)
Enter(w, t) ==
  /\ At(w, "idle")
  /\ gate' = [gate EXCEPT ![w] = [phase |-> "check", tenant |-> t, start |-> clock,
                                  admits |-> FALSE]]
  /\ UNCHANGED <<clock, registry, cache, lastLive, lastShut>>

(* Mutant: an entry answers at any age. *)
CacheHitForever(w) ==
  /\ At(w, "check")
  /\ cache[gate[w].tenant].until # Expired
  /\ gate' = [gate EXCEPT ![w].phase = "done", ![w].admits = cache[gate[w].tenant].admits]
  /\ UNCHANGED <<clock, registry, cache, lastLive, lastShut>>

(* First critical section: an unexpired entry answers. *)
CacheHit(w) ==
  /\ At(w, "check")
  /\ gate[w].start < cache[gate[w].tenant].until
  /\ gate' = [gate EXCEPT ![w].phase = "done", ![w].admits = cache[gate[w].tenant].admits]
  /\ UNCHANGED <<clock, registry, cache, lastLive, lastShut>>

CacheMiss(w) ==
  /\ At(w, "check")
  /\ gate[w].start >= cache[gate[w].tenant].until
  /\ gate' = [gate EXCEPT ![w].phase = "lookup"]
  /\ UNCHANGED <<clock, registry, cache, lastLive, lastShut>>

(* GetTenantState reads the registry; it succeeds with a row or without.   *)
LookupAnswers(w) ==
  /\ At(w, "lookup")
  /\ LET t == gate[w].tenant
         s == registry[t]
     IN  gate' = [gate EXCEPT ![w].phase = "store",
                              ![w].admits = AdmitsOrRefusesUnknown(s, s # NoRow)]
  /\ UNCHANGED <<clock, registry, cache, lastLive, lastShut>>

(* The core is unreachable, or the call throws. *)
LookupFails(w) ==
  /\ At(w, "lookup")
  /\ gate' = [gate EXCEPT ![w].phase = "store",
                          ![w].admits = AdmitsOrRefusesUnknown(registry[gate[w].tenant], FALSE)]
  /\ lastShut' = [lastShut EXCEPT ![gate[w].tenant] = clock]
  /\ UNCHANGED <<clock, registry, cache, lastLive>>

(* Mutant: a refusal is cached for as long as an admission. *)
StoreWithOneTTL(w) ==
  /\ At(w, "store")
  /\ cache' = [cache EXCEPT ![gate[w].tenant] =
       [until |-> gate[w].start + AdmitTTL, admits |-> gate[w].admits]]
  /\ gate' = [gate EXCEPT ![w].phase = "done"]
  /\ UNCHANGED <<clock, registry, lastLive, lastShut>>

(* Second critical section: the entry lives from the start of the call. *)
Store(w) ==
  /\ At(w, "store")
  /\ cache' = [cache EXCEPT ![gate[w].tenant] =
       [until |-> gate[w].start + (IF gate[w].admits THEN AdmitTTL ELSE RefuseTTL),
        admits |-> gate[w].admits]]
  /\ gate' = [gate EXCEPT ![w].phase = "done"]
  /\ UNCHANGED <<clock, registry, lastLive, lastShut>>

(* The caller has its answer. *)
Leave(w) ==
  /\ At(w, "done")
  /\ gate' = [gate EXCEPT ![w] = NoCall]
  /\ UNCHANGED <<clock, registry, cache, lastLive, lastShut>>

-----------------------------------------------------------------------------
(* The core moves a tenant along its lifecycle. *)
Transition(t) ==
  /\ \E s \in Successors(registry[t]) :
       /\ registry' = [registry EXCEPT ![t] = s]
       /\ lastLive' = [lastLive EXCEPT ![t] = IF s = "live" THEN clock ELSE @]
       /\ lastShut' = [lastShut EXCEPT ![t] = IF s # "live" THEN clock ELSE @]
  /\ UNCHANGED <<clock, cache, gate>>

(* A second passes. *)
Tick ==
  /\ clock < MaxTime
  /\ clock' = clock + 1
  /\ lastLive' = [t \in Tenants |-> IF registry[t] = "live" THEN clock + 1 ELSE lastLive[t]]
  /\ lastShut' = [t \in Tenants |-> IF registry[t] # "live" THEN clock + 1 ELSE lastShut[t]]
  /\ UNCHANGED <<registry, cache, gate>>

Call(w) == CacheHit(w) \/ CacheMiss(w) \/ LookupAnswers(w) \/ LookupFails(w) \/ Store(w)

Next ==
  \/ \E w \in Threads, t \in Tenants : Enter(w, t)
  \/ \E w \in Threads : EnterEmpty(w) \/ Call(w) \/ Leave(w)
  \/ \E t \in Tenants : Transition(t)
  \/ Tick

Spec == Init /\ [][Next]_vars

-----------------------------------------------------------------------------
Admitted(w) == At(w, "done") /\ gate[w].admits
Refused(w) == At(w, "done") /\ ~gate[w].admits /\ gate[w].tenant # NoTenant

(* A tenant is admitted only if it was live less than AdmitTTL seconds     *)
(* before the request came, or later: a failed lookup, an unknown state or *)
(* a missing row never admits, and no cached admission outlives its TTL    *)
(* (tenantAdmits of webdav_server.cpp, which fails closed on every path).  *)
AdmittedWasLive ==
  \A w \in Threads : Admitted(w) => lastLive[gate[w].tenant] > gate[w].start - AdmitTTL

(* A tenant is refused only if it was not live, or a lookup of it failed,  *)
(* less than RefuseTTL seconds before the request came, or later: restoring *)
(* a tenant does not wait on a cached refusal for longer.                   *)
RefusedWasShut ==
  \A w \in Threads : Refused(w) => lastShut[gate[w].tenant] > gate[w].start - RefuseTTL

-----------------------------------------------------------------------------
(* What the first two rest on: the history is exact for the present, and   *)
(* a cached entry and a call in progress are as old as they say.           *)
HistoryIsPresent ==
  \A t \in Tenants :
     /\ lastLive[t] <= clock
     /\ lastShut[t] <= clock
     /\ registry[t] = "live" => lastLive[t] = clock
     /\ registry[t] # "live" => lastShut[t] = clock

EntryIsFounded ==
  \A t \in Tenants :
     /\ cache[t].admits => lastLive[t] >= cache[t].until - AdmitTTL
     /\ ~cache[t].admits /\ cache[t].until # Expired =>
           lastShut[t] >= cache[t].until - RefuseTTL

CallIsFounded ==
  \A w \in Threads :
     /\ gate[w].phase \in {"check", "lookup", "store"} =>
           gate[w].tenant \in Tenants /\ gate[w].start > 0 /\ gate[w].start <= clock
     /\ Admitted(w) => gate[w].tenant \in Tenants
     /\ At(w, "store") /\ gate[w].admits => lastLive[gate[w].tenant] >= gate[w].start
     /\ At(w, "store") /\ ~gate[w].admits => lastShut[gate[w].tenant] >= gate[w].start

GateInv ==
  /\ TypeOK
  /\ HistoryIsPresent
  /\ EntryIsFounded
  /\ CallIsFounded
  /\ AdmittedWasLive
  /\ RefusedWasShut
=============================================================================
