--------------------------- MODULE AdmissionProofs ---------------------------
(***************************************************************************)
(* Proofs about the tenant gate (GateInv) and about the layers that        *)
(* Admission puts around it (AdmissionInv), for every set of threads, keys,*)
(* tenants and addresses, every configuration and every lifetime: whoever  *)
(* is admitted had a key that was accepted, a tenant that was live and an  *)
(* origin that was known.                                                  *)
(***************************************************************************)
EXTENDS Admission, TLAPS

-----------------------------------------------------------------------------
(* The tenant gate *)

LEMMA InitInv == Init => GateInv
<1> SUFFICES ASSUME Init PROVE GateInv
  OBVIOUS
<1> USE TTLsArePositive, NoTenantIsNoTenant DEF Init, At
<1>1. TypeOK
  BY DEF TypeOK, Entry, Gate, NoCall, States, Lifecycle, Expired
<1>2. HistoryIsPresent
  BY DEF HistoryIsPresent
<1>3. EntryIsFounded
  BY DEF EntryIsFounded
<1>4. CallIsFounded
  BY DEF CallIsFounded, NoCall, Admitted
<1>5. AdmittedWasLive
  BY DEF AdmittedWasLive, NoCall, Admitted
<1>6. RefusedWasShut
  BY DEF RefusedWasShut, NoCall, Refused
<1> QED
  BY <1>1, <1>2, <1>3, <1>4, <1>5, <1>6 DEF GateInv

(* The facts of one thread's call. *)
LEMMA GateFacts ==
  ASSUME TypeOK, NEW w \in Threads
  PROVE  /\ gate[w] \in Gate
         /\ gate[w].phase \in {"idle", "check", "lookup", "store", "done"}
         /\ gate[w].tenant \in Tenants \cup {NoTenant}
         /\ gate[w].start \in Nat
         /\ gate[w].admits \in BOOLEAN
<1>1. gate[w] \in Gate
  BY DEF TypeOK
<1> QED
  BY <1>1 DEF Gate

(* A call that gets a new phase and answer keeps its type. *)
LEMMA GateUpdate ==
  ASSUME TypeOK, NEW w \in Threads,
         NEW f \in {"idle", "check", "lookup", "store", "done"},
         NEW a \in BOOLEAN
  PROVE  /\ [gate EXCEPT ![w].phase = f] \in [Threads -> Gate]
         /\ [gate EXCEPT ![w].phase = f, ![w].admits = a] \in [Threads -> Gate]
<1>1. gate[w] \in Gate /\ gate \in [Threads -> Gate]
  BY DEF TypeOK
<1>2. [gate[w] EXCEPT !.phase = f] \in Gate
  BY <1>1 DEF Gate
<1>3. [gate[w] EXCEPT !.phase = f, !.admits = a] \in Gate
  BY <1>1 DEF Gate
<1> QED
  BY <1>1, <1>2, <1>3

LEMMA TypeStep == GateInv /\ [Next]_vars => TypeOK'
<1> SUFFICES ASSUME GateInv, [Next]_vars PROVE TypeOK'
  OBVIOUS
<1>0. TypeOK /\ CallIsFounded
  BY DEF GateInv
<1> USE <1>0, TTLsArePositive
<1>1. ASSUME NEW w \in Threads, NEW t \in Tenants, Enter(w, t)
      PROVE  TypeOK'
  BY <1>1 DEF Enter, TypeOK, Gate
<1>2. ASSUME NEW w \in Threads, EnterEmpty(w)
      PROVE  TypeOK'
  BY <1>2 DEF EnterEmpty, TypeOK, Gate, NoCall
<1>3. ASSUME NEW w \in Threads, CacheHit(w)
      PROVE  TypeOK'
  <2>1. gate[w].tenant \in Tenants
    BY <1>3 DEF CacheHit, At, CallIsFounded
  <2>2. cache[gate[w].tenant].admits \in BOOLEAN
    BY <2>1 DEF TypeOK, Entry
  <2> DEFINE a == cache[gate[w].tenant].admits
  <2>3. gate' = [gate EXCEPT ![w].phase = "done", ![w].admits = a]
    BY <1>3 DEF CacheHit
  <2> HIDE DEF a
  <2>4. gate' \in [Threads -> Gate]
    BY <2>2, <2>3, GateUpdate DEF a
  <2> QED
    BY <1>3, <2>4 DEF CacheHit, TypeOK
<1>4. ASSUME NEW w \in Threads, CacheMiss(w)
      PROVE  TypeOK'
  BY <1>4 DEF CacheMiss, TypeOK, Gate
<1>5. ASSUME NEW w \in Threads, LookupAnswers(w)
      PROVE  TypeOK'
  <2> DEFINE s == registry[gate[w].tenant]
             a == AdmitsOrRefusesUnknown(s, s # NoRow)
  <2>1. gate' = [gate EXCEPT ![w].phase = "store", ![w].admits = a]
    BY <1>5 DEF LookupAnswers
  <2>2. a \in BOOLEAN
    BY DEF AdmitsOrRefusesUnknown
  <2> HIDE DEF a
  <2>3. gate' \in [Threads -> Gate]
    BY <2>1, <2>2, GateUpdate
  <2> QED
    BY <1>5, <2>3 DEF LookupAnswers, TypeOK
<1>6. ASSUME NEW w \in Threads, LookupFails(w)
      PROVE  TypeOK'
  <2> DEFINE a == AdmitsOrRefusesUnknown(registry[gate[w].tenant], FALSE)
  <2>1. gate' = [gate EXCEPT ![w].phase = "store", ![w].admits = a]
    BY <1>6 DEF LookupFails
  <2>2. a \in BOOLEAN
    BY DEF AdmitsOrRefusesUnknown
  <2> HIDE DEF a
  <2>3. gate' \in [Threads -> Gate]
    BY <2>1, <2>2, GateUpdate
  <2>4. clock \in Int
    BY DEF TypeOK
  <2>5. lastShut' \in [Tenants -> Int]
    BY <1>6, <2>4 DEF LookupFails, TypeOK
  <2> QED
    BY <1>6, <2>3, <2>5 DEF LookupFails, TypeOK
<1>7. ASSUME NEW w \in Threads, Store(w)
      PROVE  TypeOK'
  <2>1. cache' \in [Tenants -> Entry]
    <3> DEFINE u == gate[w].start + (IF gate[w].admits THEN AdmitTTL ELSE RefuseTTL)
               e == [until |-> u, admits |-> gate[w].admits]
    <3>1. u \in Nat
      BY GateFacts
    <3>2. e \in Entry
      BY <3>1, GateFacts DEF Entry
    <3>3. cache' = [cache EXCEPT ![gate[w].tenant] = e]
      BY <1>7 DEF Store
    <3> QED
      BY <3>2, <3>3 DEF TypeOK
  <2>2. gate' \in [Threads -> Gate]
    BY <1>7 DEF Store, TypeOK, Gate
  <2> QED
    BY <1>7, <2>1, <2>2 DEF Store, TypeOK
<1>8. ASSUME NEW w \in Threads, Leave(w)
      PROVE  TypeOK'
  BY <1>8 DEF Leave, TypeOK, Gate, NoCall
<1>9. ASSUME NEW t \in Tenants, Transition(t)
      PROVE  TypeOK'
  <2>1. PICK s \in Successors(registry[t]) :
          /\ registry' = [registry EXCEPT ![t] = s]
          /\ lastLive' = [lastLive EXCEPT ![t] = IF s = "live" THEN clock ELSE @]
          /\ lastShut' = [lastShut EXCEPT ![t] = IF s # "live" THEN clock ELSE @]
    BY <1>9 DEF Transition
  <2>2. s \in States
    BY <2>1 DEF Successors, States, Lifecycle
  <2>3. registry' \in [Tenants -> States]
    BY <2>1, <2>2 DEF TypeOK
  <2>4. lastLive' \in [Tenants -> Int] /\ lastShut' \in [Tenants -> Int]
    <3>1. clock \in Int
      BY DEF TypeOK
    <3> QED
      BY <2>1, <3>1 DEF TypeOK
  <2> QED
    BY <1>9, <2>3, <2>4 DEF Transition, TypeOK
<1>10. CASE Tick
  BY <1>10 DEF Tick, TypeOK
<1>11. CASE UNCHANGED vars
  BY <1>11 DEF vars, TypeOK
<1> QED
  BY <1>1, <1>2, <1>3, <1>4, <1>5, <1>6, <1>7, <1>8, <1>9, <1>10, <1>11 DEF Next, Call

-----------------------------------------------------------------------------
(* Time passes and states change forwards only: the history of a tenant    *)
(* is exact for the present and never goes back.                           *)
HistoryGrows ==
  /\ clock' >= clock
  /\ \A t \in Tenants : lastLive'[t] >= lastLive[t] /\ lastShut'[t] >= lastShut[t]

LEMMA HistoryStep ==
  ASSUME GateInv, [Next]_vars
  PROVE  HistoryIsPresent' /\ HistoryGrows
<1>0. TypeOK /\ HistoryIsPresent
  BY DEF GateInv
<1>t. /\ clock \in Int
      /\ lastLive \in [Tenants -> Int]
      /\ lastShut \in [Tenants -> Int]
      /\ registry \in [Tenants -> States]
  BY <1>0 DEF TypeOK
<1>1. CASE UNCHANGED <<clock, registry, lastLive, lastShut>>
  BY <1>0, <1>t, <1>1 DEF HistoryIsPresent, HistoryGrows
<1>2. ASSUME NEW w \in Threads, LookupFails(w)
      PROVE  HistoryIsPresent' /\ HistoryGrows
  <2>1. /\ UNCHANGED <<clock, registry, lastLive>>
        /\ lastShut' = [lastShut EXCEPT ![gate[w].tenant] = clock]
    BY <1>2 DEF LookupFails
  <2> QED
    BY <1>0, <1>t, <2>1 DEF HistoryIsPresent, HistoryGrows
<1>3. ASSUME NEW t \in Tenants, Transition(t)
      PROVE  HistoryIsPresent' /\ HistoryGrows
  <2>1. PICK s \in Successors(registry[t]) :
          /\ registry' = [registry EXCEPT ![t] = s]
          /\ lastLive' = [lastLive EXCEPT ![t] = IF s = "live" THEN clock ELSE @]
          /\ lastShut' = [lastShut EXCEPT ![t] = IF s # "live" THEN clock ELSE @]
          /\ clock' = clock
    BY <1>3 DEF Transition
  <2> QED
    BY <1>0, <1>t, <2>1 DEF HistoryIsPresent, HistoryGrows
<1>4. CASE Tick
  <2>1. /\ clock' = clock + 1
        /\ lastLive' = [t \in Tenants |-> IF registry[t] = "live" THEN clock + 1 ELSE lastLive[t]]
        /\ lastShut' = [t \in Tenants |-> IF registry[t] # "live" THEN clock + 1 ELSE lastShut[t]]
        /\ registry' = registry
    BY <1>4 DEF Tick
  <2> QED
    BY <1>0, <1>t, <2>1 DEF HistoryIsPresent, HistoryGrows
<1> QED
  BY <1>1, <1>2, <1>3, <1>4
  DEF Next, Call, Enter, EnterEmpty, CacheHit, CacheMiss, LookupAnswers, Store, Leave, vars

(* What GateInv says of one thread's call. *)
CallOK(w) ==
  /\ gate[w].phase \in {"check", "lookup", "store"} =>
        gate[w].tenant \in Tenants /\ gate[w].start > 0 /\ gate[w].start <= clock
  /\ Admitted(w) => /\ gate[w].tenant \in Tenants
                    /\ lastLive[gate[w].tenant] > gate[w].start - AdmitTTL
  /\ Refused(w) => lastShut[gate[w].tenant] > gate[w].start - RefuseTTL
  /\ At(w, "store") /\ gate[w].admits => lastLive[gate[w].tenant] >= gate[w].start
  /\ At(w, "store") /\ ~gate[w].admits => lastShut[gate[w].tenant] >= gate[w].start

LEMMA CallsOK == GateInv <=> /\ TypeOK /\ HistoryIsPresent /\ EntryIsFounded
                             /\ \A w \in Threads : CallOK(w)
  BY DEF GateInv, CallIsFounded, AdmittedWasLive, RefusedWasShut, CallOK

(* A call that stands still stays founded, whatever the others do. *)
LEMMA CallKept ==
  ASSUME GateInv, TypeOK', HistoryGrows, NEW w \in Threads,
         gate'[w].phase = gate[w].phase, gate'[w].tenant = gate[w].tenant,
         gate'[w].start = gate[w].start, gate'[w].admits = gate[w].admits
  PROVE  CallOK(w)'
<1>1. TypeOK /\ CallOK(w)
  BY CallsOK
<1>2. gate[w].start \in Int /\ clock \in Int /\ clock' \in Int
  BY <1>1, GateFacts DEF TypeOK
<1>3. gate[w].tenant \in Tenants \cup {NoTenant}
  BY <1>1, GateFacts
<1>4. ASSUME gate[w].tenant \in Tenants
      PROVE  /\ lastLive[gate[w].tenant] \in Int /\ lastLive'[gate[w].tenant] \in Int
             /\ lastShut[gate[w].tenant] \in Int /\ lastShut'[gate[w].tenant] \in Int
  BY <1>1, <1>4 DEF TypeOK
<1> QED
  BY <1>1, <1>2, <1>3, <1>4, TTLsArePositive
  DEF CallOK, Admitted, Refused, At, HistoryGrows

(* The entries: only Store writes one, from a founded call. *)
LEMMA EntriesStep ==
  ASSUME GateInv, [Next]_vars, TypeOK', HistoryGrows
  PROVE  EntryIsFounded'
<1>0. TypeOK /\ EntryIsFounded /\ TypeOK'
  BY DEF GateInv
<1>t. \A t \in Tenants :
         /\ cache[t] \in Entry /\ cache[t].until \in Nat /\ cache[t].admits \in BOOLEAN
         /\ lastLive[t] \in Int /\ lastLive'[t] \in Int
         /\ lastShut[t] \in Int /\ lastShut'[t] \in Int
  BY <1>0 DEF TypeOK, Entry
<1>1. CASE UNCHANGED cache
  BY <1>0, <1>t, <1>1, TTLsArePositive DEF EntryIsFounded, HistoryGrows
<1>2. ASSUME NEW w \in Threads, Store(w)
      PROVE  EntryIsFounded'
  <2>1. CallOK(w) /\ At(w, "store")
    BY <1>2, CallsOK DEF Store
  <2>2. gate[w].tenant \in Tenants /\ gate[w].start \in Int /\ gate[w].admits \in BOOLEAN
    BY <2>1, <1>0, GateFacts DEF CallOK, At
  <2> DEFINE e == [until |-> gate[w].start + (IF gate[w].admits THEN AdmitTTL ELSE RefuseTTL),
                   admits |-> gate[w].admits]
  <2>3. /\ cache' = [cache EXCEPT ![gate[w].tenant] = e]
        /\ UNCHANGED <<lastLive, lastShut>>
    BY <1>2 DEF Store
  <2>4. ASSUME NEW t \in Tenants
        PROVE  /\ cache'[t].admits => lastLive'[t] >= cache'[t].until - AdmitTTL
               /\ ~cache'[t].admits /\ cache'[t].until # Expired =>
                     lastShut'[t] >= cache'[t].until - RefuseTTL
    <3>1. CASE t = gate[w].tenant
      <4>1. cache'[t] = e
        BY <3>1, <2>3, <2>2, <1>0 DEF TypeOK
      <4>2. CASE gate[w].admits
        <5>1. cache'[t].until = gate[w].start + AdmitTTL /\ cache'[t].admits
          BY <4>1, <4>2
        <5>2. lastLive[t] >= gate[w].start
          BY <2>1, <3>1, <4>2 DEF CallOK
        <5> QED
          BY <5>1, <5>2, <2>2, <2>3, <1>t, TTLsArePositive
      <4>3. CASE ~gate[w].admits
        <5>1. cache'[t].until = gate[w].start + RefuseTTL /\ ~cache'[t].admits
          BY <4>1, <4>3
        <5>2. lastShut[t] >= gate[w].start
          BY <2>1, <3>1, <4>3 DEF CallOK
        <5> QED
          BY <5>1, <5>2, <2>2, <2>3, <1>t, TTLsArePositive
      <4> QED
        BY <4>2, <4>3
    <3>2. CASE t # gate[w].tenant
      <4>1. cache'[t] = cache[t]
        BY <3>2, <2>3, <1>0 DEF TypeOK
      <4> QED
        BY <4>1, <1>0, <2>3 DEF EntryIsFounded
    <3> QED
      BY <3>1, <3>2
  <2> QED
    BY <2>4 DEF EntryIsFounded
<1> QED
  BY <1>1, <1>2
  DEF Next, Call, Enter, EnterEmpty, CacheHit, CacheMiss, LookupAnswers, LookupFails,
      Leave, Transition, Tick, vars

(* The thread that takes a step. *)
LEMMA ActorStep ==
  ASSUME GateInv, TypeOK', NEW w \in Threads,
         EnterEmpty(w) \/ Call(w) \/ Leave(w) \/ \E t \in Tenants : Enter(w, t)
  PROVE  CallOK(w)'
<1>0. TypeOK /\ HistoryIsPresent /\ EntryIsFounded /\ CallOK(w)
  BY CallsOK
<1>t. /\ gate \in [Threads -> Gate]
      /\ gate[w] \in Gate
      /\ gate[w].start \in Nat /\ gate[w].admits \in BOOLEAN
      /\ clock \in Nat \ {0}
  BY <1>0, GateFacts DEF TypeOK
<1>h. \A t \in Tenants : lastLive[t] \in Int /\ lastShut[t] \in Int
  BY <1>0 DEF TypeOK
<1> USE TTLsArePositive, NoTenantIsNoTenant
<1>1. CASE EnterEmpty(w)
  <2>1. gate'[w].phase = "done" /\ ~gate'[w].admits /\ gate'[w].tenant = NoTenant
    BY <1>1, <1>t DEF EnterEmpty, NoCall
  <2> QED
    BY <2>1 DEF CallOK, Admitted, Refused, At
<1>2. ASSUME NEW t \in Tenants, Enter(w, t)
      PROVE  CallOK(w)'
  <2>1. /\ gate'[w].phase = "check" /\ gate'[w].tenant = t /\ gate'[w].start = clock
        /\ clock' = clock
    BY <1>2, <1>t DEF Enter
  <2> QED
    BY <2>1, <1>t DEF CallOK, Admitted, Refused, At
<1>3. CASE CacheHit(w)
  <2> DEFINE t == gate[w].tenant
  <2>1. t \in Tenants /\ gate[w].start > 0 /\ gate[w].start < cache[t].until
    BY <1>3, <1>0 DEF CacheHit, CallOK, At
  <2>2. cache[t].until \in Nat /\ cache[t].admits \in BOOLEAN
    BY <2>1, <1>0 DEF TypeOK, Entry
  <2>3. /\ gate'[w].phase = "done" /\ gate'[w].tenant = t
        /\ gate'[w].start = gate[w].start /\ gate'[w].admits = cache[t].admits
        /\ UNCHANGED <<lastLive, lastShut>>
    BY <1>3, <1>t DEF CacheHit
  <2>4. cache[t].admits => lastLive[t] > gate[w].start - AdmitTTL
    BY <2>1, <2>2, <1>0, <1>t, <1>h DEF EntryIsFounded
  <2>5. ~cache[t].admits => lastShut[t] > gate[w].start - RefuseTTL
    BY <2>1, <2>2, <1>0, <1>t, <1>h DEF EntryIsFounded, Expired
  <2> QED
    BY <2>1, <2>3, <2>4, <2>5 DEF CallOK, Admitted, Refused, At
<1>4. CASE CacheMiss(w)
  <2>1. /\ gate'[w].phase = "lookup" /\ gate'[w].tenant = gate[w].tenant
        /\ gate'[w].start = gate[w].start
        /\ clock' = clock
    BY <1>4, <1>t DEF CacheMiss
  <2> QED
    BY <2>1, <1>4, <1>0 DEF CacheMiss, CallOK, Admitted, Refused, At
<1>5. CASE LookupAnswers(w)
  <2> DEFINE t == gate[w].tenant
             a == AdmitsOrRefusesUnknown(registry[t], registry[t] # NoRow)
  <2>1. t \in Tenants /\ gate[w].start > 0 /\ gate[w].start <= clock
    BY <1>5, <1>0 DEF LookupAnswers, CallOK, At
  <2>2. a \in BOOLEAN /\ (a <=> registry[t] = "live")
    BY DEF AdmitsOrRefusesUnknown, Known, Lifecycle, Admits, NoRow
  <2>3. /\ gate'[w].phase = "store" /\ gate'[w].tenant = t
        /\ gate'[w].start = gate[w].start /\ gate'[w].admits = a
        /\ UNCHANGED <<clock, lastLive, lastShut>>
    BY <1>5, <1>t DEF LookupAnswers
  <2> HIDE DEF a
  <2>4. a => lastLive[t] = clock
    BY <2>1, <2>2, <1>0 DEF HistoryIsPresent
  <2>5. ~a => lastShut[t] = clock
    BY <2>1, <2>2, <1>0 DEF HistoryIsPresent
  <2> QED
    BY <2>1, <2>3, <2>4, <2>5, <1>t DEF CallOK, Admitted, Refused, At
<1>6. CASE LookupFails(w)
  <2> DEFINE t == gate[w].tenant
             a == AdmitsOrRefusesUnknown(registry[t], FALSE)
  <2>1. t \in Tenants /\ gate[w].start > 0 /\ gate[w].start <= clock
    BY <1>6, <1>0 DEF LookupFails, CallOK, At
  <2>2. a = FALSE
    BY DEF AdmitsOrRefusesUnknown
  <2>3. gate' = [gate EXCEPT ![w].phase = "store", ![w].admits = a]
    BY <1>6 DEF LookupFails
  <2> HIDE DEF a
  <2>4. /\ gate'[w].phase = "store" /\ gate'[w].tenant = t
        /\ gate'[w].start = gate[w].start /\ ~gate'[w].admits
    BY <2>2, <2>3, <1>t
  <2>5. lastShut'[t] = clock /\ clock' = clock
    BY <1>6, <2>1, <1>0 DEF LookupFails, TypeOK
  <2> QED
    BY <2>1, <2>4, <2>5, <1>t DEF CallOK, Admitted, Refused, At
<1>7. CASE Store(w)
  <2> DEFINE t == gate[w].tenant
  <2>1. t \in Tenants
    BY <1>7, <1>0 DEF Store, CallOK, At
  <2>2. /\ gate[w].admits => lastLive[t] >= gate[w].start
        /\ ~gate[w].admits => lastShut[t] >= gate[w].start
    BY <1>7, <1>0 DEF Store, CallOK
  <2>3. /\ gate'[w].phase = "done" /\ gate'[w].tenant = t
        /\ gate'[w].start = gate[w].start /\ gate'[w].admits = gate[w].admits
        /\ UNCHANGED <<lastLive, lastShut>>
    BY <1>7, <1>t DEF Store
  <2>4. /\ gate[w].admits => lastLive[t] > gate[w].start - AdmitTTL
        /\ ~gate[w].admits => lastShut[t] > gate[w].start - RefuseTTL
    BY <2>1, <2>2, <1>t, <1>h
  <2> QED
    BY <2>1, <2>3, <2>4 DEF CallOK, Admitted, Refused, At
<1>8. CASE Leave(w)
  <2>1. gate'[w].phase = "idle"
    BY <1>8, <1>t DEF Leave, NoCall
  <2> QED
    BY <2>1 DEF CallOK, Admitted, Refused, At
<1> QED
  BY <1>1, <1>2, <1>3, <1>4, <1>5, <1>6, <1>7, <1>8 DEF Call

LEMMA NextInv == GateInv /\ [Next]_vars => GateInv'
<1> SUFFICES ASSUME GateInv, [Next]_vars PROVE GateInv'
  OBVIOUS
<1>0. TypeOK /\ TypeOK'
  BY TypeStep DEF GateInv
<1>1. HistoryIsPresent' /\ HistoryGrows
  BY HistoryStep
<1>2. EntryIsFounded'
  BY <1>0, <1>1, EntriesStep
<1>3. ASSUME NEW w \in Threads PROVE CallOK(w)'
  <2> DEFINE Still == /\ gate'[w].phase = gate[w].phase /\ gate'[w].tenant = gate[w].tenant
                      /\ gate'[w].start = gate[w].start /\ gate'[w].admits = gate[w].admits
  <2>0. ASSUME Still PROVE CallOK(w)'
    BY <1>0, <1>1, <2>0, CallKept
  <2>1. ASSUME NEW v \in Threads,
               EnterEmpty(v) \/ Call(v) \/ Leave(v) \/ \E t \in Tenants : Enter(v, t)
        PROVE  CallOK(w)'
    <3>1. CASE v = w
      BY <1>0, <2>1, <3>1, ActorStep
    <3>2. CASE v # w
      <4>1. gate'[w] = gate[w]
        BY <2>1, <3>2, <1>0
        DEF TypeOK, EnterEmpty, Call, Leave, Enter, CacheHit, CacheMiss, LookupAnswers,
            LookupFails, Store
      <4> QED
        BY <4>1, <2>0
    <3> QED
      BY <3>1, <3>2
  <2>2. ASSUME NEW t \in Tenants, Transition(t)
        PROVE  CallOK(w)'
    BY <2>2, <2>0 DEF Transition
  <2>3. CASE Tick \/ UNCHANGED vars
    BY <2>3, <2>0 DEF Tick, vars
  <2> QED
    BY <2>1, <2>2, <2>3 DEF Next
<1>4. TypeOK' /\ HistoryIsPresent' /\ EntryIsFounded' /\ \A w \in Threads : CallOK(w)'
  BY <1>0, <1>1, <1>2, <1>3
<1> QED
  BY <1>4 DEF GateInv, CallIsFounded, AdmittedWasLive, RefusedWasShut, CallOK

LEMMA GateInvariant == Spec => []GateInv
  BY InitInv, NextInv, PTL DEF Spec

(* Every reachable state of tenantAdmits has the types that the source     *)
(* declares: a call in progress always names a tenant it can look up.      *)
THEOREM GateTypeCorrect == Spec => []TypeOK
<1>1. GateInv => TypeOK
  BY DEF GateInv
<1> QED
  BY <1>1, GateInvariant, PTL

(* tenantAdmits fails closed, for any number of threads and tenants and    *)
(* any TTLs: an admission is never older than AdmitTTL.                    *)
THEOREM AdmissionsAreFresh == Spec => []AdmittedWasLive
<1>1. GateInv => AdmittedWasLive
  BY DEF GateInv
<1> QED
  BY <1>1, GateInvariant, PTL

(* A refusal never outlives RefuseTTL: what tenantAdmits says no to was    *)
(* not live, or could not be asked about, that recently.                   *)
THEOREM RefusalsAreFresh == Spec => []RefusedWasShut
<1>1. GateInv => RefusedWasShut
  BY DEF GateInv
<1> QED
  BY <1>1, GateInvariant, PTL

-----------------------------------------------------------------------------
(* The client's address *)

LEMMA AppendFacts ==
  ASSUME NEW A \in Seq(Ips \cup {NoHop}), NEW B \in Seq(Ips \cup {NoHop}), Len(A) > 0
  PROVE  /\ Len(A \o B) = Len(A) + Len(B)
         /\ (A \o B)[Len(A)] = A[Len(A)]
         /\ \A n \in 1..Len(B) : (A \o B)[Len(A) + n] = B[n]
<1>1. Len(A) \in Nat /\ Len(B) \in Nat
  OBVIOUS
<1>2. \A i \in 1..Len(A) + Len(B) :
        (A \o B)[i] = IF i <= Len(A) THEN A[i] ELSE B[i - Len(A)]
  OBVIOUS
<1>3. ASSUME NEW n \in 1..Len(B)
      PROVE  (A \o B)[Len(A) + n] = B[n]
  <2>1. Len(A) + n \in 1..Len(A) + Len(B) /\ ~(Len(A) + n <= Len(A)) /\ Len(A) + n - Len(A) = n
    BY <1>1, <1>3
  <2> QED
    BY <1>2, <2>1
<1> QED
  BY <1>1, <1>2, <1>3

(* Behind the proxies that are configured, resolveClientIp finds the       *)
(* client's own address, through any number of them and whatever header    *)
(* the client has written.                                                 *)
THEOREM ClientIsFound ==
  ASSUME Proxies # {}, NEW c \in Ips \ Proxies, NEW r \in Route
  PROVE  ResolveClientIp(Peer(c, r), ForwardedFor(c, r)) = c
<1> DEFINE F == r.forged
           V == r.via
           k == Len(F) + 1
           S == SubSeq(V, 1, Len(V) - 1)
           X == F \o <<c>> \o S
<1>1. F \in Seq(Ips \cup {NoHop}) /\ V \in Seq(Proxies)
  BY DEF Route
<1>2. CASE V = <<>>
  BY <1>2 DEF ResolveClientIp, Peer
<1>3. CASE V # <<>>
  <2>1. Len(V) \in Nat \ {0} /\ V[Len(V)] \in Proxies
    BY <1>1, <1>3
  <2>2. S \in Seq(Proxies) /\ Len(S) = Len(V) - 1
    BY <1>1, <2>1
  <2>3. Len(F) \in Nat /\ k \in Nat \ {0}
    BY <1>1
  <2>4. F \o <<c>> \in Seq(Ips \cup {NoHop}) /\ Len(F \o <<c>>) = k /\ (F \o <<c>>)[k] = c
    BY <1>1, <2>3
  <2>5. S \in Seq(Ips \cup {NoHop})
    <3>1. \A i \in 1..Len(S) : S[i] \in Proxies
      BY <2>2
    <3> HIDE DEF S
    <3>2. \A i \in 1..Len(S) : S[i] \in Ips \cup {NoHop}
      BY <3>1, ProxiesAreIps
    <3>3. S \in [1..Len(S) -> Ips \cup {NoHop}] /\ Len(S) \in Nat
      BY <2>2, <3>2
    <3> QED
      BY <3>3
  <2>6. /\ Len(X) = k + Len(S) /\ X[k] = c
        /\ \A n \in 1..Len(S) : X[k + n] = S[n]
    <3> DEFINE A == F \o <<c>>
    <3>1. /\ A \in Seq(Ips \cup {NoHop}) /\ S \in Seq(Ips \cup {NoHop})
          /\ Len(A) = k /\ A[k] = c /\ Len(A) > 0 /\ X = A \o S
      BY <2>3, <2>4, <2>5
    <3> HIDE DEF A, X, S, k
    <3>2. Len(A \o S) = Len(A) + Len(S)
      BY <3>1, AppendFacts
    <3>3. (A \o S)[Len(A)] = A[Len(A)]
      BY <3>1, AppendFacts
    <3>4. \A n \in 1..Len(S) : (A \o S)[Len(A) + n] = S[n]
      BY <3>1, AppendFacts
    <3> QED
      BY <3>1, <3>2, <3>3, <3>4
  <2>7. Peer(c, r) = V[Len(V)] /\ ForwardedFor(c, r) = X
    BY <1>3 DEF Peer, ForwardedFor
  <2> HIDE DEF X, S, k
  <2> DEFINE hops == {i \in 1..Len(X) : X[i] # NoHop /\ X[i] \notin Proxies}
  <2>8. k \in hops /\ \A j \in hops : j <= k
    <3>1. k \in 1..Len(X) /\ Len(S) \in Nat
      BY <2>2, <2>3, <2>6
    <3>2. k \in hops
      BY <2>6, <3>1, NoHopIsNoIp
    <3>3. ASSUME NEW j \in hops, j > k PROVE FALSE
      <4>1. j \in Int /\ j <= k + Len(S)
        BY <2>3, <2>6, <3>1
      <4>2. j - k \in 1..Len(S) /\ k + (j - k) = j
        BY <2>3, <3>1, <3>3, <4>1
      <4>3. X[k + (j - k)] = S[j - k]
        BY <2>6, <4>2
      <4>4. S[j - k] \in Proxies
        BY <2>2, <4>2
      <4>5. X[j] \notin Proxies
        OBVIOUS
      <4> QED
        BY <4>2, <4>3, <4>4, <4>5
    <3>4. \A j \in hops : j \in Int
      OBVIOUS
    <3> QED
      BY <2>3, <3>2, <3>3, <3>4
  <2>9. \A i \in hops : (\A j \in hops : j <= i) => i = k
    BY <2>3, <2>8
  <2>10. (CHOOSE i \in hops : \A j \in hops : j <= i) = k
    BY <2>8, <2>9
  <2>11. ResolveClientIp(V[Len(V)], X) = X[CHOOSE i \in hops : \A j \in hops : j <= i]
    BY <2>1, <2>8 DEF ResolveClientIp
  <2> QED
    BY <2>6, <2>10, <2>11, <2>7
<1> QED
  BY <1>2, <1>3

(* Any header, with or without proxies, yields an address or none. *)
LEMMA AddressType ==
  ASSUME NEW c \in Ips \ Proxies, NEW r \in Routes
  PROVE  ResolveClientIp(Peer(c, r), ForwardedFor(c, r)) \in Ips \cup {NoHop}
<1>1. r \in Route
  BY RoutesAreRoutes
<1>2. CASE Proxies # {}
  BY <1>1, <1>2, ClientIsFound
<1>3. CASE Proxies = {}
  <2>1. r.via = <<>> /\ r.forged \in Seq(Ips \cup {NoHop})
    BY <1>1, <1>3 DEF Route
  <2>2. Peer(c, r) = c /\ ForwardedFor(c, r) = r.forged
    BY <2>1 DEF Peer, ForwardedFor
  <2>3. CASE r.forged = <<>>
    BY <1>3, <2>2, <2>3 DEF ResolveClientIp
  <2>4. CASE r.forged # <<>>
    <3>1. r.forged[1] \in Ips \cup {NoHop}
      BY <2>1, <2>4
    <3> QED
      BY <1>3, <2>2, <2>4, <3>1 DEF ResolveClientIp
  <2> QED
    BY <2>3, <2>4
<1> QED
  BY <1>2, <1>3

-----------------------------------------------------------------------------
(* The types *)

LEMMA LoginFacts ==
  ASSUME AdmissionTypeOK, NEW w \in Threads
  PROVE  /\ login[w] \in Login
         /\ login[w].phase \in LoginPhases
         /\ login[w].key \in Keys
         /\ login[w].tenant \in Tenants
         /\ login[w].ip \in Ips \cup {NoHop}
         /\ login[w].client \in Ips
         /\ login[w].start \in Nat
<1>1. login[w] \in Login
  BY DEF AdmissionTypeOK
<1> QED
  BY <1>1 DEF Login

LEMMA OwnerFacts ==
  ASSUME AdmissionTypeOK, NEW w \in Threads
  PROVE  Owner(w) \in Owners
BY LoginFacts DEF Owner, Owners

(* The histories are numbers. *)
LEMMA RecordFacts ==
  ASSUME AdmissionTypeOK
  PROVE  /\ clock \in Int
         /\ lastOutage \in Int
         /\ \A t \in Tenants : lastLive[t] \in Int
         /\ \A s \in Owners \X Ips : lastSession[s] \in Int /\ session[s] \in Nat
         /\ \A o \in Owners : lastValid[o] \in Int
         /\ \A k \in Keys : verified[k] \in Nat
BY DEF AdmissionTypeOK, TypeOK

LEMMA NoLoginType == NoLogin \in Login
<1>1. /\ (CHOOSE k \in Keys : TRUE) \in Keys
      /\ (CHOOSE t \in Tenants : TRUE) \in Tenants
      /\ (CHOOSE i \in Ips : TRUE) \in Ips
  BY SomebodyMayCome
<1> QED
  BY <1>1 DEF NoLogin, Login, LoginPhases

(* A login that goes on keeps what the request brought. *)
LEMMA GoFacts ==
  ASSUME AdmissionTypeOK, NEW w \in Threads, NEW f \in LoginPhases, Go(w, f)
  PROVE  /\ login' \in [Threads -> Login]
         /\ login'[w] = [login[w] EXCEPT !.phase = f]
         /\ login'[w].phase = f /\ login'[w].key = login[w].key
         /\ login'[w].tenant = login[w].tenant /\ login'[w].ip = login[w].ip
         /\ login'[w].start = login[w].start /\ login'[w].client = login[w].client
         /\ \A v \in Threads \ {w} : login'[v] = login[v]
<1>1. login[w] \in Login /\ login \in [Threads -> Login]
  BY DEF AdmissionTypeOK
<1>2. login' = [login EXCEPT ![w] = [login[w] EXCEPT !.phase = f]]
  BY DEF Go
<1>3. [login[w] EXCEPT !.phase = f] \in Login
  BY <1>1 DEF Login
<1>4. login'[w] = [login[w] EXCEPT !.phase = f]
  BY <1>1, <1>2
<1>5. login' \in [Threads -> Login] /\ \A v \in Threads \ {w} : login'[v] = login[v]
  BY <1>1, <1>2, <1>3
<1> QED
  BY <1>1, <1>4, <1>5 DEF Login

(* Where a step of authenticateUser can leave its thread. *)
LEMMA PhaseSteps ==
  ASSUME AdmissionTypeOK, NEW w \in Threads, Authenticates(w)
  PROVE  \/ UNCHANGED login
         \/ \E f \in LoginPhases : Go(w, f)
         \/ \E k \in Keys, t \in Tenants, c \in Ips \ Proxies, r \in Routes :
              Present(w, k, t, c, r)
         \/ Answered(w)
BY DEF Authenticates, Malformed, Verified, Unverified, Accepted, Rejected, Keep, AskTenant,
   GateStep, own, GateAnswers, RolesFound, NoRoles, FromTrusted, RedisSilent, SessionFound,
   LoginPhases

LEMMA LoginType ==
  ASSUME AdmissionTypeOK, NEW w \in Threads, Authenticates(w)
  PROVE  /\ login' \in [Threads -> Login]
         /\ \A v \in Threads \ {w} : login'[v] = login[v]
<1>0. login \in [Threads -> Login] /\ clock \in Nat
  BY DEF AdmissionTypeOK, TypeOK
<1>1. ASSUME NEW k \in Keys, NEW t \in Tenants, NEW c \in Ips \ Proxies, NEW r \in Routes,
             Present(w, k, t, c, r)
      PROVE  /\ login' \in [Threads -> Login]
             /\ \A v \in Threads \ {w} : login'[v] = login[v]
  <2> DEFINE a == ResolveClientIp(Peer(c, r), ForwardedFor(c, r))
             l == [phase |-> "verify", key |-> k, tenant |-> t, start |-> clock, client |-> c,
                   ip |-> a]
  <2>1. l \in Login
    BY <1>0, AddressType DEF Login, LoginPhases
  <2>2. login' = [login EXCEPT ![w] = l]
    BY <1>1 DEF Present
  <2> HIDE DEF l
  <2> QED
    BY <1>0, <2>1, <2>2
<1>2. CASE Answered(w)
  BY <1>0, <1>2, NoLoginType DEF Answered
<1> QED
  BY <1>0, <1>1, <1>2, GoFacts, PhaseSteps

(* The steps of authenticateUser change nothing outside the bridge. *)
LEMMA AuthenticatesInside ==
  ASSUME NEW w \in Threads, Authenticates(w)
  PROVE  UNCHANGED outside /\ UNCHANGED <<clock, registry>>
BY DEF Authenticates, Malformed, Present, Verified, Unverified, Accepted, Rejected, Keep,
   AskTenant, Enter, GateStep, Call, CacheHit, CacheMiss, LookupAnswers, LookupFails, Store,
   GateAnswers, Leave, RolesFound, NoRoles, FromTrusted, RedisSilent, SessionFound, Answered,
   around, outside, own, vars

(* Whatever happens is a step of the gate or leaves it alone. *)
LEMMA IsGateStep ==
  ASSUME AdmissionTypeOK, [AdmissionNext]_admissionVars
  PROVE  [Next]_vars
<1>1. ASSUME NEW w \in Threads, Authenticates(w) PROVE [Next]_vars
  <2>1. CASE AskTenant(w)
    BY <2>1, LoginFacts DEF AskTenant, Next
  <2>2. CASE GateStep(w) \/ GateAnswers(w)
    BY <2>2 DEF GateStep, GateAnswers, Next
  <2> QED
    BY <1>1, <2>1, <2>2 DEF Authenticates, Malformed, Present, Verified, Unverified, Accepted,
       Rejected, Keep, RolesFound, NoRoles, FromTrusted, RedisSilent, SessionFound, Answered
<1> QED
  BY <1>1 DEF AdmissionNext, admissionVars, Revoke, SessionOpens, SessionCloses, RedisToggles,
     TenantMoves, SecondPasses, Next

(* The credentials that are cached, and the connection to Redis. *)
LEMMA InsideType ==
  ASSUME AdmissionTypeOK, NEW w \in Threads, Authenticates(w)
  PROVE  verified' \in [Keys -> Nat] /\ link' \in {"none", "good", "broken"}
<1>1. verified' \in [Keys -> Nat]
  <2>1. CASE Keep(w)
    <3>1. login[w].start + VerifyTTL \in Nat
      BY LoginFacts, AdmissionTTLsArePositive
    <3> QED
      BY <2>1, <3>1 DEF Keep, AdmissionTypeOK
  <2>2. CASE ~Keep(w)
    BY <2>2 DEF Authenticates, Malformed, Present, Verified, Unverified, Accepted, Rejected,
       AskTenant, GateStep, GateAnswers, RolesFound, NoRoles, FromTrusted, RedisSilent,
       SessionFound, Answered, own, AdmissionTypeOK
  <2> QED
    BY <2>1, <2>2
<1>2. link' \in {"none", "good", "broken"}
  BY DEF Authenticates, Malformed, Present, Verified, Unverified, Accepted, Rejected, Keep,
     AskTenant, GateStep, GateAnswers, RolesFound, NoRoles, FromTrusted, RedisSilent,
     SessionFound, Answered, own, around, AdmissionTypeOK, Used
<1> QED
  BY <1>1, <1>2

LEMMA TypesKept ==
  ASSUME AdmissionTypeOK, TypeOK', [AdmissionNext]_admissionVars
  PROVE  AdmissionTypeOK'
<1>0. /\ config \in Configs /\ valid \subseteq Owners
      /\ verified \in [Keys -> Nat] /\ session \in [Owners \X Ips -> Nat]
      /\ redisUp \in BOOLEAN
      /\ link \in {"none", "good", "broken"} /\ changes \in Nat
      /\ login \in [Threads -> Login] /\ lastValid \in [Owners -> Int]
      /\ lastSession \in [Owners \X Ips -> Int] /\ lastOutage \in Int /\ clock \in Nat
      /\ clock' \in Nat
  BY DEF AdmissionTypeOK, TypeOK
<1>1. ASSUME config' = config, NEW w \in Threads, Authenticates(w)
      PROVE  AdmissionTypeOK'
  BY <1>0, <1>1, LoginType, InsideType, AuthenticatesInside DEF AdmissionTypeOK, outside
<1>2. ASSUME config' = config, NEW o \in Owners, Revoke(o)
      PROVE  AdmissionTypeOK'
  BY <1>0, <1>2 DEF Revoke, Change, AdmissionTypeOK
<1>3. ASSUME config' = config, NEW s \in Owners \X Ips, SessionOpens(s)
      PROVE  AdmissionTypeOK'
  <2>1. clock + SessionTTL \in Nat
    BY <1>0, AdmissionTTLsArePositive
  <2> QED
    BY <1>0, <1>3, <2>1 DEF SessionOpens, Change, AdmissionTypeOK
<1>4. ASSUME config' = config, NEW s \in Owners \X Ips, SessionCloses(s)
      PROVE  AdmissionTypeOK'
  BY <1>0, <1>4 DEF SessionCloses, Change, Expired, AdmissionTypeOK
<1>5. CASE config' = config /\ RedisToggles
  BY <1>0, <1>5 DEF RedisToggles, Change, AdmissionTypeOK
<1>6. ASSUME config' = config, NEW t \in Tenants, TenantMoves(t)
      PROVE  AdmissionTypeOK'
  BY <1>0, <1>6 DEF TenantMoves, Change, AdmissionTypeOK
<1>7. CASE config' = config /\ SecondPasses
  BY <1>0, <1>7 DEF SecondPasses, AdmissionTypeOK
<1>8. CASE UNCHANGED admissionVars
  BY <1>0, <1>8 DEF admissionVars, own, AdmissionTypeOK
<1> QED
  BY <1>1, <1>2, <1>3, <1>4, <1>5, <1>6, <1>7, <1>8 DEF AdmissionNext

-----------------------------------------------------------------------------
(* The histories *)

(* Time passes and records are made forwards only; Redis is cut off now or *)
(* was before.                                                             *)
RecordsGrow ==
  /\ \A o \in Owners : lastValid'[o] >= lastValid[o]
  /\ \A s \in Owners \X Ips : lastSession'[s] >= lastSession[s]
  /\ lastOutage' >= lastOutage
  /\ link' = "broken" => link = "broken" \/ lastOutage' = clock'

LEMMA InsideLink ==
  ASSUME NEW w \in Threads, Authenticates(w), link' = "broken"
  PROVE  link = "broken"
BY DEF Authenticates, Malformed, Present, Verified, Unverified, Accepted, Rejected, Keep,
   AskTenant, GateStep, GateAnswers, RolesFound, NoRoles, FromTrusted, RedisSilent,
   SessionFound, Answered, own, around, Used

LEMMA RecordsStep ==
  ASSUME AdmissionTypeOK, AdmissionTypeOK', RecordsArePresent, [AdmissionNext]_admissionVars
  PROVE  RecordsArePresent' /\ RecordsGrow
<1>0. /\ valid \subseteq Owners /\ session \in [Owners \X Ips -> Nat]
      /\ lastValid \in [Owners -> Int]
      /\ lastSession \in [Owners \X Ips -> Int] /\ lastOutage \in Int /\ clock \in Int
  BY DEF AdmissionTypeOK, TypeOK
<1>1. ASSUME UNCHANGED <<clock, valid, session, redisUp, lastValid, lastSession, lastOutage>>,
             link' = "broken" => link = "broken"
      PROVE  RecordsArePresent' /\ RecordsGrow
  BY <1>0, <1>1 DEF RecordsArePresent, RecordsGrow
<1>2. ASSUME NEW w \in Threads, Authenticates(w)
      PROVE  RecordsArePresent' /\ RecordsGrow
  BY <1>1, <1>2, InsideLink, AuthenticatesInside DEF outside
<1>3. ASSUME NEW o \in Owners, Revoke(o)
      PROVE  RecordsArePresent' /\ RecordsGrow
  BY <1>0, <1>3 DEF Revoke, RecordsArePresent, RecordsGrow, vars
<1>4. ASSUME NEW s \in Owners \X Ips, SessionOpens(s)
      PROVE  RecordsArePresent' /\ RecordsGrow
  BY <1>0, <1>4 DEF SessionOpens, RecordsArePresent, RecordsGrow, vars
<1>5. ASSUME NEW s \in Owners \X Ips, SessionCloses(s)
      PROVE  RecordsArePresent' /\ RecordsGrow
  <2>1. /\ session' = [session EXCEPT ![s] = 0]
        /\ UNCHANGED <<clock, valid, redisUp, link, lastValid, lastSession, lastOutage>>
    BY <1>5 DEF SessionCloses, Expired, vars
  <2>2. clock \in Nat
    BY DEF AdmissionTypeOK, TypeOK
  <2> QED
    BY <1>0, <2>1, <2>2 DEF RecordsArePresent, RecordsGrow
<1>6. CASE RedisToggles
  BY <1>0, <1>6 DEF RedisToggles, RecordsArePresent, RecordsGrow, vars
<1>7. ASSUME NEW t \in Tenants, TenantMoves(t)
      PROVE  RecordsArePresent' /\ RecordsGrow
  BY <1>1, <1>7 DEF TenantMoves, Transition
<1>8. CASE SecondPasses
  <2>1. /\ clock' = clock + 1
        /\ lastValid' = [o \in Owners |-> IF o \in valid THEN clock' ELSE lastValid[o]]
        /\ lastSession' =
             [s \in Owners \X Ips |-> IF session[s] > clock' THEN clock' ELSE lastSession[s]]
        /\ lastOutage' = IF redisUp THEN lastOutage ELSE clock'
        /\ UNCHANGED <<valid, session, redisUp, link>>
    BY <1>8 DEF SecondPasses, Tick
  <2>2. lastOutage' <= clock' /\ (~redisUp' => lastOutage' = clock') /\ lastOutage' >= lastOutage
    BY <1>0, <2>1 DEF RecordsArePresent
  <2>3. \A o \in Owners :
           /\ lastValid'[o] <= clock' /\ (o \in valid' => lastValid'[o] = clock')
           /\ lastValid'[o] >= lastValid[o]
    BY <1>0, <2>1 DEF RecordsArePresent
  <2>4. \A s \in Owners \X Ips :
           /\ lastSession'[s] <= clock' /\ (session'[s] > clock' => lastSession'[s] = clock')
           /\ lastSession'[s] >= lastSession[s]
    BY <1>0, <2>1 DEF RecordsArePresent
  <2> QED
    BY <2>1, <2>2, <2>3, <2>4 DEF RecordsArePresent, RecordsGrow
<1>9. CASE UNCHANGED admissionVars
  BY <1>1, <1>9 DEF admissionVars, vars, own
<1> QED
  BY <1>2, <1>3, <1>4, <1>5, <1>6, <1>7, <1>8, <1>9 DEF AdmissionNext

-----------------------------------------------------------------------------
(* The logins *)

(* A login that stands still keeps what it has found, whatever the others  *)
(* do.                                                                     *)
LEMMA LoginKept ==
  ASSUME AdmissionTypeOK, AdmissionTypeOK', RecordsArePresent', HistoryGrows, RecordsGrow,
         NEW w \in Threads, LoginIsFounded(w), login'[w] = login[w], config' = config,
         gate'[w].tenant = gate[w].tenant, gate'[w].start = gate[w].start
  PROVE  LoginIsFounded(w)'
<1>1. /\ clock \in Int /\ clock' \in Int /\ clock' >= clock
      /\ lastOutage \in Int /\ lastOutage' \in Int /\ lastOutage' <= clock'
      /\ login[w].start \in Int /\ login[w].tenant \in Tenants
      /\ \A t \in Tenants : lastLive[t] \in Int /\ lastLive'[t] \in Int
      /\ \A s \in Owners \X Ips : lastSession[s] \in Int /\ lastSession'[s] \in Int
      /\ Owner(w) \in Owners
  <2>1. clock' \in Int /\ lastOutage' \in Int
    BY DEF AdmissionTypeOK, TypeOK
  <2>2. \A t \in Tenants : lastLive'[t] \in Int
    BY DEF AdmissionTypeOK, TypeOK
  <2>3. \A s \in Owners \X Ips : lastSession'[s] \in Int
    BY DEF AdmissionTypeOK
  <2> QED
    BY <2>1, <2>2, <2>3, LoginFacts, OwnerFacts, RecordFacts DEF HistoryGrows, RecordsArePresent
<1>2. login[w].start <= clock'
  BY <1>1 DEF LoginIsFounded
<1>3. In(w, "gate") => gate'[w].tenant = login[w].tenant /\ gate'[w].start >= login[w].start
  BY DEF LoginIsFounded
<1>4. login[w].phase \in {"roles", "origin", "admitted"} =>
         lastLive'[login[w].tenant] > login[w].start - AdmitTTL
  BY <1>1, TTLsArePositive DEF LoginIsFounded, HistoryGrows
<1>5. In(w, "origin") /\ link' = "broken" => lastOutage' >= login[w].start
  BY <1>1, <1>2 DEF LoginIsFounded, RecordsGrow
<1>6. FromKnown(w, login[w].ip) => FromKnown(w, login[w].ip)'
  <2>1. Owner(w)' = Owner(w) /\ \A j \in Ips : <<Owner(w), j>> \in Owners \X Ips
    BY <1>1 DEF Owner
  <2> HIDE DEF Owner
  <2> QED
    BY <1>1, <2>1 DEF FromKnown, RecordsGrow
<1>7. Proxies # {} /\ login[w].phase \notin {"idle", "refused"} =>
         login[w].ip = login[w].client
  BY DEF LoginIsFounded
<1> QED
  BY <1>2, <1>3, <1>4, <1>5, <1>6, <1>7 DEF LoginIsFounded, In, Passed

(* The phases in which a login relies on nothing yet, or no more. *)
LEMMA LoginFresh ==
  ASSUME NEW w \in Threads, login'[w].start <= clock',
         login'[w].phase \notin {"gate", "roles", "origin", "admitted"},
         \/ login'[w].phase \in {"idle", "refused"}
         \/ Proxies # {} => login'[w].ip = login'[w].client
  PROVE  LoginIsFounded(w)'
BY DEF LoginIsFounded, In, Passed

(* Before the gate, and at the end. *)
LEMMA ActsEarly ==
  ASSUME AdmissionTypeOK, AdmissionTypeOK', NEW w \in Threads, LoginIsFounded(w),
         clock' = clock,
         \/ Malformed(w) \/ Verified(w) \/ Unverified(w) \/ Accepted(w) \/ Rejected(w)
         \/ Keep(w) \/ NoRoles(w) \/ Answered(w)
         \/ \E k \in Keys, t \in Tenants, c \in Ips \ Proxies, r \in Routes :
              Present(w, k, t, c, r)
  PROVE  LoginIsFounded(w)'
<1>1. clock \in Nat /\ login[w].start <= clock
  BY DEF AdmissionTypeOK, TypeOK, LoginIsFounded
<1>k. /\ login[w].phase \in {"verify", "ask", "keep"}
      /\ Proxies # {}
      => login[w].ip = login[w].client
  BY DEF LoginIsFounded
<1>2. ASSUME NEW k \in Keys, NEW t \in Tenants, NEW c \in Ips \ Proxies, NEW r \in Routes,
             Present(w, k, t, c, r)
      PROVE  LoginIsFounded(w)'
  <2>1. /\ login'[w].phase = "verify" /\ login'[w].start = clock /\ login'[w].client = c
        /\ login'[w].ip = ResolveClientIp(Peer(c, r), ForwardedFor(c, r))
    BY <1>2 DEF Present, AdmissionTypeOK
  <2>2. Proxies # {} => login'[w].ip = login'[w].client
    BY <2>1, ClientIsFound, RoutesAreRoutes
  <2> QED
    BY <1>1, <2>1, <2>2, LoginFresh
<1>3. CASE Answered(w)
  <2>1. login'[w].phase = "idle" /\ login'[w].start = 0
    BY <1>3 DEF Answered, NoLogin, AdmissionTypeOK
  <2> QED
    BY <1>1, <2>1, LoginFresh
<1>4. ASSUME NEW f \in {"refused", "tenant", "ask", "keep"}, Go(w, f),
             f = "refused" \/ login[w].phase \in {"verify", "ask", "keep"}
      PROVE  LoginIsFounded(w)'
  <2>1. /\ login'[w].phase = f /\ login'[w].start = login[w].start
        /\ login'[w].ip = login[w].ip /\ login'[w].client = login[w].client
    BY <1>4, GoFacts DEF LoginPhases
  <2> QED
    BY <1>1, <1>4, <1>k, <2>1, LoginFresh
<1> QED
  BY <1>2, <1>3, <1>4 DEF Malformed, Verified, Unverified, Accepted, Rejected, Keep, NoRoles, In

(* At the tenant gate. *)
LEMMA ActsAtGate ==
  ASSUME AdmissionTypeOK, AdmissionTypeOK', GateInv, NEW w \in Threads, LoginIsFounded(w),
         UNCHANGED <<clock, config>>, AskTenant(w) \/ GateAnswers(w)
  PROVE  LoginIsFounded(w)'
<1>1. /\ clock \in Nat /\ login[w].start <= clock /\ login[w].start \in Nat
      /\ login[w].tenant \in Tenants
      /\ gate \in [Threads -> Gate] /\ gate[w].start \in Nat
  BY LoginFacts, GateFacts DEF AdmissionTypeOK, TypeOK, LoginIsFounded
<1>2. CASE AskTenant(w)
  <2>1. login'[w].phase = "gate" /\ login'[w].tenant = login[w].tenant
        /\ login'[w].start = login[w].start
        /\ login'[w].ip = login[w].ip /\ login'[w].client = login[w].client
    BY <1>2, GoFacts DEF AskTenant, LoginPhases
  <2>2. gate'[w].tenant = login[w].tenant /\ gate'[w].start = clock
    BY <1>1, <1>2 DEF AskTenant, Enter
  <2> QED
    BY <1>1, <1>2, <2>1, <2>2 DEF LoginIsFounded, In, Passed, AskTenant
<1>3. CASE GateAnswers(w)
  <2>1. CASE gate[w].admits
    <3>1. login'[w].phase = "roles" /\ login'[w].tenant = login[w].tenant
          /\ login'[w].start = login[w].start
          /\ login'[w].ip = login[w].ip /\ login'[w].client = login[w].client
      BY <1>3, <2>1, GoFacts DEF GateAnswers, LoginPhases
    <3>2. gate[w].tenant = login[w].tenant /\ gate[w].start >= login[w].start
      BY <1>3 DEF GateAnswers, LoginIsFounded
    <3>3. lastLive[gate[w].tenant] > gate[w].start - AdmitTTL
      BY <1>3, <2>1 DEF GateInv, AdmittedWasLive, Admitted, GateAnswers, Leave
    <3>4. lastLive'[login[w].tenant] > login[w].start - AdmitTTL
      <4>1. lastLive' = lastLive
        BY <1>3 DEF GateAnswers, Leave
      <4> QED
        BY <4>1, <3>2, <3>3, <1>1, RecordFacts, TTLsArePositive
    <3> QED
      BY <1>1, <1>3, <3>1, <3>4 DEF LoginIsFounded, In, Passed, GateAnswers
  <2>2. CASE ~gate[w].admits
    <3>1. login'[w].phase = "refused" /\ login'[w].start = login[w].start
      BY <1>3, <2>2, GoFacts DEF GateAnswers, LoginPhases
    <3> QED
      BY <1>1, <3>1, LoginFresh
  <2> QED
    BY <2>1, <2>2
<1> QED
  BY <1>2, <1>3

(* A login with a tenant that was live goes on to its end. *)
LEMMA GoesOn ==
  ASSUME AdmissionTypeOK, AdmissionTypeOK', NEW w \in Threads, LoginIsFounded(w),
         UNCHANGED <<clock, config, lastLive>>,
         login[w].phase \in {"roles", "origin"},
         NEW f \in {"origin", "admitted", "refused"}, Go(w, f),
         f = "origin" /\ link' = "broken" => lastOutage' >= login[w].start,
         f = "admitted" /\ config.gate_enabled => FromKnown(w, login[w].ip)'
  PROVE  LoginIsFounded(w)'
<1>1. login'[w].phase = f /\ login'[w].tenant = login[w].tenant
      /\ login'[w].start = login[w].start
      /\ login'[w].ip = login[w].ip /\ login'[w].client = login[w].client
  BY GoFacts DEF LoginPhases
<1> QED
  BY <1>1 DEF LoginIsFounded, In, Passed

LEMMA ActsLate ==
  ASSUME AdmissionTypeOK, AdmissionTypeOK', RecordsArePresent, NEW w \in Threads,
         LoginIsFounded(w), UNCHANGED <<clock, config, outside>>,
         RolesFound(w) \/ FromTrusted(w) \/ RedisSilent(w) \/ SessionFound(w)
  PROVE  LoginIsFounded(w)'
<1>1. /\ login[w].start \in Nat /\ login[w].start <= clock
      /\ \A f \in LoginPhases : Go(w, f) => login'[w].ip = login[w].ip
                                            /\ login'[w].start = login[w].start
      /\ link \in {"none", "good", "broken"} /\ clock \in Nat
      /\ UNCHANGED <<lastLive, lastSession, lastOutage>>
  <2>1. UNCHANGED lastLive
    BY DEF RolesFound, FromTrusted, RedisSilent, SessionFound, vars
  <2> QED
    BY <2>1, LoginFacts, GoFacts DEF AdmissionTypeOK, TypeOK, LoginIsFounded, outside
<1>2. CASE RolesFound(w)
  <2>1. link' # "broken"
    BY <1>2 DEF RolesFound, Used
  <2>2. CASE config.gate_enabled
    BY <1>1, <1>2, <2>1, <2>2, GoesOn DEF RolesFound, In
  <2>3. CASE ~config.gate_enabled
    BY <1>1, <1>2, <2>1, <2>3, GoesOn DEF RolesFound, In
  <2> QED
    BY <2>2, <2>3
<1>3. CASE FromTrusted(w)
  <2>1. Go(w, "admitted") /\ login[w].ip \in Trusted /\ In(w, "origin")
    BY <1>3 DEF FromTrusted
  <2>2. FromKnown(w, login[w].ip)'
    BY <1>1, <2>1 DEF FromKnown, LoginPhases
  <2> QED
    BY <1>1, <2>1, <2>2, GoesOn DEF In
<1>4. CASE RedisSilent(w)
  <2>1. lastOutage >= login[w].start
    <3>1. CASE link = "broken"
      BY <1>4, <3>1 DEF RedisSilent, LoginIsFounded
    <3>2. CASE ~redisUp
      BY <1>1, <3>2 DEF RecordsArePresent
    <3> QED
      BY <1>4, <3>1, <3>2 DEF RedisSilent, Answers
  <2>2. CASE config.fail_open
    <3>1. Go(w, "admitted") /\ In(w, "origin")
      BY <1>4, <2>2 DEF RedisSilent
    <3>2. FromKnown(w, login[w].ip)'
      BY <1>1, <2>1, <2>2, <3>1 DEF FromKnown, LoginPhases
    <3> QED
      BY <1>1, <3>1, <3>2, GoesOn DEF In
  <2>3. CASE ~config.fail_open
    BY <1>1, <1>4, <2>3, GoesOn DEF RedisSilent, In
  <2> QED
    BY <2>2, <2>3
<1>5. CASE SessionFound(w)
  <2>1. CASE HasSession(w, clock)
    <3>1. Go(w, "admitted") /\ In(w, "origin")
      BY <1>5, <2>1 DEF SessionFound
    <3>2. PICK j \in Ips : /\ config.session_ip => <<j, login[w].ip>> \in Matching
                           /\ session[<<Owner(w), j>>] > clock
      BY <2>1 DEF HasSession
    <3>3. lastSession[<<Owner(w), j>>] = clock
      BY <3>2, OwnerFacts DEF RecordsArePresent
    <3>4. Owner(w)' = Owner(w) /\ login'[w].ip = login[w].ip /\ login'[w].start = login[w].start
      BY <3>1, GoFacts DEF LoginPhases, Owner
    <3>5. FromKnown(w, login[w].ip)'
      BY <1>1, <3>2, <3>3, <3>4 DEF FromKnown
    <3> QED
      BY <1>1, <3>1, <3>5, GoesOn DEF In
  <2>2. CASE ~HasSession(w, clock)
    BY <1>1, <1>5, <2>2, GoesOn DEF SessionFound, In
  <2> QED
    BY <2>1, <2>2
<1> QED
  BY <1>2, <1>3, <1>4, <1>5

(* Nothing but the calls of a thread touches its call of the gate. *)
LEMMA GateStays ==
  ASSUME AdmissionTypeOK, NEW w \in Threads, [AdmissionNext]_admissionVars,
         ~(AskTenant(w) \/ GateAnswers(w))
  PROVE  gate'[w].tenant = gate[w].tenant /\ gate'[w].start = gate[w].start
<1>0. gate \in [Threads -> Gate] /\ gate[w] \in Gate
  BY DEF AdmissionTypeOK, TypeOK
<1>1. ASSUME NEW v \in Threads, Authenticates(v)
      PROVE  gate'[w].tenant = gate[w].tenant /\ gate'[w].start = gate[w].start
  <2>1. CASE GateStep(v)
    <3>1. ASSUME NEW f, NEW a,
                 \/ gate' = [gate EXCEPT ![v].phase = f]
                 \/ gate' = [gate EXCEPT ![v].phase = f, ![v].admits = a]
          PROVE  gate'[w].tenant = gate[w].tenant /\ gate'[w].start = gate[w].start
      <4>1. gate[v] \in Gate
        BY DEF AdmissionTypeOK, TypeOK
      <4> QED
        BY <1>0, <3>1, <4>1 DEF Gate
    <3>2. CASE CacheHit(v)
      BY <3>1, <3>2 DEF CacheHit
    <3>3. CASE CacheMiss(v)
      BY <3>1, <3>3 DEF CacheMiss
    <3>4. CASE LookupAnswers(v)
      <4> DEFINE a == AdmitsOrRefusesUnknown(registry[gate[v].tenant],
                                             registry[gate[v].tenant] # NoRow)
      <4>1. gate' = [gate EXCEPT ![v].phase = "store", ![v].admits = a]
        BY <3>4 DEF LookupAnswers
      <4> HIDE DEF a
      <4> QED
        BY <3>1, <4>1
    <3>5. CASE LookupFails(v)
      <4> DEFINE a == AdmitsOrRefusesUnknown(registry[gate[v].tenant], FALSE)
      <4>1. gate' = [gate EXCEPT ![v].phase = "store", ![v].admits = a]
        BY <3>5 DEF LookupFails
      <4> HIDE DEF a
      <4> QED
        BY <3>1, <4>1
    <3>6. CASE Store(v)
      BY <3>1, <3>6 DEF Store
    <3> QED
      BY <2>1, <3>2, <3>3, <3>4, <3>5, <3>6 DEF GateStep, Call
  <2>2. CASE v # w /\ (AskTenant(v) \/ GateAnswers(v))
    BY <1>0, <2>2 DEF AskTenant, Enter, GateAnswers, Leave
  <2>3. CASE ~(GateStep(v) \/ AskTenant(v) \/ GateAnswers(v))
    BY <1>1, <2>3 DEF Authenticates, Malformed, Present, Verified, Unverified, Accepted,
       Rejected, Keep, RolesFound, NoRoles, FromTrusted, RedisSilent, SessionFound, Answered,
       vars
  <2> QED
    BY <2>1, <2>2, <2>3
<1>2. ASSUME NEW t \in Tenants, TenantMoves(t)
      PROVE  gate'[w].tenant = gate[w].tenant /\ gate'[w].start = gate[w].start
  BY <1>2 DEF TenantMoves, Transition
<1> QED
  BY <1>1, <1>2 DEF AdmissionNext, Revoke, SessionOpens, SessionCloses, RedisToggles,
     SecondPasses, Tick, admissionVars, vars

(* Every thread's login, after any step. *)
LEMMA LoginsStep ==
  ASSUME AdmissionTypeOK, AdmissionTypeOK', GateInv, RecordsArePresent, RecordsArePresent',
         HistoryGrows, RecordsGrow, [AdmissionNext]_admissionVars,
         NEW w \in Threads, LoginIsFounded(w)
  PROVE  LoginIsFounded(w)'
<1>0. config' = config
  BY DEF AdmissionNext, admissionVars
<1>1. ASSUME NEW v \in Threads, Authenticates(v)
      PROVE  LoginIsFounded(w)'
  <2>0. UNCHANGED <<clock, outside>>
    BY <1>1, AuthenticatesInside
  <2>1. CASE AskTenant(w) \/ GateAnswers(w)
    BY <1>0, <2>0, <2>1, ActsAtGate
  <2>2. CASE ~(AskTenant(w) \/ GateAnswers(w)) /\ login'[w] = login[w]
    BY <1>0, <2>2, GateStays, LoginKept
  <2>3. CASE v = w /\ ~(AskTenant(w) \/ GateAnswers(w)) /\ ~GateStep(w)
    BY <1>0, <1>1, <2>0, <2>3, ActsEarly, ActsLate DEF Authenticates
  <2>4. CASE v # w \/ GateStep(w)
    <3>1. v # w => login'[w] = login[w]
      BY <1>1, LoginType
    <3>2. GateStep(w) => login'[w] = login[w]
      BY DEF GateStep, own
    <3> QED
      BY <2>1, <2>2, <2>4, <3>1, <3>2
  <2> QED
    BY <2>1, <2>3, <2>4
<1>2. CASE ~\E v \in Threads : Authenticates(v)
  <2>1. login'[w] = login[w]
    BY <1>2 DEF AdmissionNext, Revoke, SessionOpens, SessionCloses, RedisToggles, TenantMoves,
       SecondPasses, admissionVars, own
  <2>2. ~(AskTenant(w) \/ GateAnswers(w))
    BY <1>2 DEF Authenticates
  <2> QED
    BY <1>0, <2>1, <2>2, GateStays, LoginKept
<1> QED
  BY <1>1, <1>2

-----------------------------------------------------------------------------
(* The keys *)

LEMMA CachedKeysStep ==
  ASSUME AdmissionTypeOK, AdmissionTypeOK', RecordsGrow, [AdmissionNext]_admissionVars,
         KeptIsFounded, \A w \in Threads : KeyIsFounded(w)
  PROVE  KeptIsFounded'
<1>0. /\ verified \in [Keys -> Nat] /\ VerifyTTL \in Nat
      /\ \A k \in Keys, t \in Tenants : lastValid[<<k, t>>] \in Int /\ lastValid'[<<k, t>>] \in Int
      /\ \A k \in Keys, t \in Tenants : lastValid'[<<k, t>>] >= lastValid[<<k, t>>]
  BY AdmissionTTLsArePositive DEF AdmissionTypeOK, RecordsGrow, Owners
<1>1. ASSUME NEW k \in Keys, verified'[k] = verified[k], verified'[k] # Expired
      PROVE  \E t \in Tenants : lastValid'[<<k, t>>] >= verified'[k] - VerifyTTL
  <2>1. PICK t \in Tenants : lastValid[<<k, t>>] >= verified[k] - VerifyTTL
    BY <1>1 DEF KeptIsFounded
  <2>2. verified[k] \in Nat
    BY <1>0
  <2> QED
    BY <1>0, <1>1, <2>1, <2>2
<1>2. ASSUME NEW w \in Threads, Keep(w), NEW k \in Keys
      PROVE  verified'[k] = verified[k]
             \/ \E t \in Tenants : lastValid'[<<k, t>>] >= verified'[k] - VerifyTTL
  <2>1. CASE k = login[w].key
    <3>1. verified'[k] = login[w].start + VerifyTTL
      BY <1>0, <1>2, <2>1 DEF Keep, KeyOf
    <3>2. lastValid[<<k, login[w].tenant>>] >= login[w].start
      BY <1>2, <2>1 DEF KeyIsFounded, Keep, Owner
    <3>3. login[w].start \in Nat /\ login[w].tenant \in Tenants
      BY LoginFacts
    <3> QED
      BY <1>0, <3>1, <3>2, <3>3
  <2>2. CASE k # login[w].key
    BY <1>0, <1>2, <2>2 DEF Keep, KeyOf
  <2> QED
    BY <2>1, <2>2
<1>3. (~\E w \in Threads : Keep(w)) => verified' = verified
  BY DEF AdmissionNext, Authenticates, Malformed, Present, Verified, Unverified, Accepted,
     Rejected, AskTenant, GateStep, GateAnswers, RolesFound, NoRoles, FromTrusted, RedisSilent,
     SessionFound, Answered, Revoke, SessionOpens, SessionCloses, RedisToggles, TenantMoves,
     SecondPasses, admissionVars, own
<1> QED
  BY <1>1, <1>2, <1>3 DEF KeptIsFounded

(* What a login's key is owed, with its numbers. *)
LEMMA KeyKept ==
  ASSUME AdmissionTypeOK, AdmissionTypeOK', RecordsGrow, NEW w \in Threads, KeyIsFounded(w),
         login'[w].key = login[w].key, login'[w].tenant = login[w].tenant,
         login'[w].start = login[w].start,
         \/ login'[w].phase = login[w].phase
         \/ login'[w].phase \notin {"keep", "tenant", "gate", "roles", "origin", "admitted"}
         \/ /\ login[w].phase \in {"keep", "tenant", "gate", "roles", "origin"}
            /\ login'[w].phase # "keep"
  PROVE  KeyIsFounded(w)'
<1> DEFINE k == login[w].key
<1>1. /\ login[w].start \in Nat /\ VerifyTTL \in Nat \ {0} /\ login[w].tenant \in Tenants
      /\ \A t \in Tenants : /\ lastValid[<<k, t>>] \in Int /\ lastValid'[<<k, t>>] \in Int
                            /\ lastValid'[<<k, t>>] >= lastValid[<<k, t>>]
  <2>1. /\ login[w].key \in Keys /\ login[w].tenant \in Tenants /\ login[w].start \in Nat
        /\ \A t \in Tenants : <<k, t>> \in Owners
    BY LoginFacts DEF Owners
  <2>2. \A o \in Owners : lastValid'[o] \in Int
    BY DEF AdmissionTypeOK
  <2> QED
    BY <2>1, <2>2, RecordFacts, AdmissionTTLsArePositive DEF RecordsGrow
<1>2. /\ login'[w].key = k
      /\ login[w].phase = "keep" => lastValid[<<k, login[w].tenant>>] >= login[w].start
      /\ login[w].phase \in {"tenant", "gate", "roles", "origin", "admitted"} =>
            \E t \in Tenants : lastValid[<<k, t>>] > login[w].start - VerifyTTL
  BY DEF KeyIsFounded, KeyOf, Owner, In
<1> HIDE DEF k
<1>q. /\ login[w].phase = "keep" => lastValid'[<<k, login[w].tenant>>] >= login[w].start
      /\ login[w].phase \in {"keep", "tenant", "gate", "roles", "origin", "admitted"} =>
            \E t \in Tenants : lastValid'[<<k, t>>] > login[w].start - VerifyTTL
  BY <1>1, <1>2
<1>3. CASE login'[w].phase = login[w].phase
  BY <1>2, <1>3, <1>q DEF KeyIsFounded, In, KeyOf, Owner
<1>4. CASE login'[w].phase \notin {"keep", "tenant", "gate", "roles", "origin", "admitted"}
  BY <1>4 DEF KeyIsFounded, In
<1>5. CASE /\ login[w].phase \in {"keep", "tenant", "gate", "roles", "origin"}
           /\ login'[w].phase # "keep"
  BY <1>2, <1>5, <1>q DEF KeyIsFounded, In, KeyOf
<1> QED
  BY <1>3, <1>4, <1>5

LEMMA KeysStep ==
  ASSUME AdmissionTypeOK, AdmissionTypeOK', RecordsArePresent, RecordsGrow,
         [AdmissionNext]_admissionVars, KeptIsFounded,
         NEW w \in Threads, LoginIsFounded(w), KeyIsFounded(w)
  PROVE  KeyIsFounded(w)'
<1>0. CASE login'[w] = login[w]
  BY <1>0, KeyKept
<1>1. CASE Authenticates(w) /\ login'[w] # login[w]
  <2>1. ASSUME NEW f \in LoginPhases, Go(w, f),
               \/ f \in {"ask", "refused"}
               \/ /\ login[w].phase \in {"keep", "tenant", "gate", "roles", "origin"}
                  /\ f # "keep"
        PROVE  KeyIsFounded(w)'
    BY <2>1, GoFacts, KeyKept
  <2>2. CASE Malformed(w) \/ Unverified(w) \/ Rejected(w) \/ Keep(w) \/ AskTenant(w)
             \/ GateAnswers(w) \/ RolesFound(w) \/ NoRoles(w) \/ FromTrusted(w)
             \/ RedisSilent(w) \/ SessionFound(w)
    BY <2>1, <2>2 DEF Malformed, Unverified, Rejected, Keep, AskTenant, GateAnswers,
       RolesFound, NoRoles, FromTrusted, RedisSilent, SessionFound, In, LoginPhases
  <2>3. ASSUME NEW k \in Keys, NEW t \in Tenants, NEW c \in Ips \ Proxies, NEW r \in Routes,
             Present(w, k, t, c, r)
        PROVE  KeyIsFounded(w)'
    <3>1. login'[w].phase = "verify"
      BY <2>3 DEF Present, AdmissionTypeOK
    <3> QED
      BY <3>1 DEF KeyIsFounded, In
  <2>4. CASE Answered(w)
    <3>1. login'[w].phase = "idle"
      BY <2>4 DEF Answered, NoLogin, AdmissionTypeOK
    <3> QED
      BY <3>1 DEF KeyIsFounded, In
  <2>5. CASE Accepted(w)
    <3>1. Go(w, "keep") /\ <<login[w].key, login[w].tenant>> \in valid
      BY <2>5 DEF Accepted, Owner
    <3>2. /\ login'[w].phase = "keep" /\ login'[w].key = login[w].key
          /\ login'[w].tenant = login[w].tenant /\ login'[w].start = login[w].start
      BY <3>1, GoFacts DEF LoginPhases
    <3>3. /\ lastValid[<<login[w].key, login[w].tenant>>] = clock
          /\ login[w].start <= clock
      BY <3>1 DEF RecordsArePresent, LoginIsFounded, AdmissionTypeOK
    <3>4. lastValid'[<<login[w].key, login[w].tenant>>] >= login[w].start
      <4>1. /\ login[w].key \in Keys /\ login[w].tenant \in Tenants
            /\ login[w].start \in Int /\ clock \in Int
        BY LoginFacts, RecordFacts
      <4>2. lastValid'[<<login[w].key, login[w].tenant>>] \in Int
        BY <4>1 DEF AdmissionTypeOK, Owners
      <4> QED
        BY <3>3, <4>1, <4>2 DEF RecordsGrow, Owners
    <3> QED
      BY <3>2, <3>4 DEF KeyIsFounded, In, Owner
  <2>6. CASE Verified(w)
    <3>1. Go(w, "tenant") /\ verified[login[w].key] > login[w].start
      BY <2>6 DEF Verified, KeyOf
    <3>2. /\ login'[w].phase = "tenant" /\ login'[w].key = login[w].key
          /\ login'[w].tenant = login[w].tenant /\ login'[w].start = login[w].start
      BY <3>1, GoFacts DEF LoginPhases
    <3>3. /\ login[w].key \in Keys /\ login[w].tenant \in Tenants /\ login[w].start \in Nat
          /\ verified[login[w].key] \in Nat
      BY LoginFacts, RecordFacts
    <3>4. PICK t \in Tenants : lastValid[<<login[w].key, t>>] >= verified[login[w].key] - VerifyTTL
      <4>1. verified[login[w].key] # Expired
        BY <3>1, <3>3 DEF Expired
      <4> QED
        BY <3>3, <4>1 DEF KeptIsFounded
    <3>5. lastValid'[<<login[w].key, t>>] > login[w].start - VerifyTTL
      <4>1. /\ lastValid[<<login[w].key, t>>] \in Int /\ lastValid'[<<login[w].key, t>>] \in Int
            /\ lastValid'[<<login[w].key, t>>] >= lastValid[<<login[w].key, t>>]
        BY <3>3, RecordFacts DEF RecordsGrow, AdmissionTypeOK, Owners
      <4> QED
        BY <3>1, <3>3, <3>4, <4>1, AdmissionTTLsArePositive
    <3> QED
      BY <3>2, <3>5 DEF KeyIsFounded, In, KeyOf
  <2>7. CASE GateStep(w)
    BY <1>1, <2>7 DEF GateStep, own
  <2> QED
    BY <1>1, <2>2, <2>3, <2>4, <2>5, <2>6, <2>7 DEF Authenticates
<1>2. Authenticates(w) \/ login'[w] = login[w]
  BY LoginType DEF AdmissionNext, Revoke, SessionOpens, SessionCloses, RedisToggles, TenantMoves,
     SecondPasses, admissionVars, own
<1> QED
  BY <1>0, <1>1, <1>2

-----------------------------------------------------------------------------
(* The invariant *)

LEMMA AdmissionInitInv == AdmissionInit => AdmissionInv
<1> SUFFICES ASSUME AdmissionInit PROVE AdmissionInv
  OBVIOUS
<1>1. GateInv /\ TypeOK
  BY InitInv DEF AdmissionInit, GateInv
<1>2. /\ clock = 1 /\ config \in Configs /\ valid \subseteq Owners
      /\ verified = [k \in Keys |-> 0] /\ session = [s \in Owners \X Ips |-> 0]
      /\ redisUp = TRUE /\ link = "none" /\ changes = 0
      /\ login = [w \in Threads |-> NoLogin]
      /\ lastValid = [o \in Owners |-> IF o \in valid THEN 1 ELSE 1 - VerifyTTL]
      /\ lastSession = [s \in Owners \X Ips |-> 0] /\ lastOutage = 0
      /\ VerifyTTL \in Nat \ {0}
  BY AdmissionTTLsArePositive DEF AdmissionInit, Init, Expired
<1>3. AdmissionTypeOK
  BY <1>1, <1>2, NoLoginType DEF AdmissionTypeOK
<1>4. RecordsArePresent
  BY <1>2 DEF RecordsArePresent
<1>5. \A w \in Threads : login[w].phase = "idle" /\ login[w].start = 0
  BY <1>2 DEF NoLogin
<1>6. ASSUME NEW w \in Threads PROVE LoginIsFounded(w) /\ KeyIsFounded(w)
  <2>1. login[w].phase = "idle" /\ login[w].start <= clock
    BY <1>2, <1>5
  <2> QED
    BY <2>1 DEF LoginIsFounded, KeyIsFounded, In, Passed
<1>7. KeptIsFounded
  BY <1>2 DEF KeptIsFounded, Expired
<1> QED
  BY <1>1, <1>3, <1>4, <1>6, <1>7 DEF AdmissionInv

LEMMA AdmissionNextInv == AdmissionInv /\ [AdmissionNext]_admissionVars => AdmissionInv'
<1> SUFFICES ASSUME AdmissionInv, [AdmissionNext]_admissionVars PROVE AdmissionInv'
  OBVIOUS
<1>0. AdmissionTypeOK /\ GateInv /\ RecordsArePresent
  BY DEF AdmissionInv
<1>1. [Next]_vars
  BY <1>0, IsGateStep
<1>2. GateInv' /\ TypeOK' /\ HistoryGrows
  BY <1>0, <1>1, NextInv, HistoryStep, TypeStep
<1>3. AdmissionTypeOK'
  BY <1>0, <1>2, TypesKept
<1>4. RecordsArePresent' /\ RecordsGrow
  BY <1>0, <1>3, RecordsStep
<1>5. ASSUME NEW w \in Threads PROVE LoginIsFounded(w)'
  <2>1. LoginIsFounded(w)
    BY DEF AdmissionInv
  <2> QED
    BY <1>0, <1>2, <1>3, <1>4, <2>1, LoginsStep
<1>6. KeptIsFounded' /\ \A w \in Threads : KeyIsFounded(w)'
  <2>1. KeptIsFounded /\ \A w \in Threads : LoginIsFounded(w) /\ KeyIsFounded(w)
    BY DEF AdmissionInv
  <2> QED
    BY <1>0, <1>3, <1>4, <2>1, CachedKeysStep, KeysStep
<1> QED
  BY <1>2, <1>3, <1>4, <1>5, <1>6 DEF AdmissionInv

LEMMA AdmissionInvariant == AdmissionSpec => []AdmissionInv
  BY AdmissionInitInv, AdmissionNextInv, PTL DEF AdmissionSpec

-----------------------------------------------------------------------------
(* Every reachable state of authenticateUser and the gate it asks has the  *)
(* types that the source declares.                                         *)
THEOREM AdmissionTypeCorrect == AdmissionSpec => []AdmissionTypeOK
<1>1. AdmissionInv => AdmissionTypeOK
  BY DEF AdmissionInv
<1> QED
  BY <1>1, AdmissionInvariant, PTL

(* However authenticateUser and its caches interleave, what the tenant     *)
(* gate answers within it is as fresh as its lifetimes say: the whole      *)
(* keeps what tenantAdmits keeps on its own.                               *)
THEOREM GateHoldsWithin == AdmissionSpec => [](AdmittedWasLive /\ RefusedWasShut)
<1>1. AdmissionInv => AdmittedWasLive /\ RefusedWasShut
  BY DEF AdmissionInv, GateInv
<1> QED
  BY <1>1, AdmissionInvariant, PTL

(* authenticateUser admits a request only if its tenant was live within    *)
(* the lifetime of an admission, though the credential came from a cache.  *)
THEOREM AdmittedTenantsWereLive == AdmissionSpec => []TenantWasLive
<1>1. AdmissionInv => TenantWasLive
  BY DEF AdmissionInv, LoginIsFounded, TenantWasLive, Passed, In
<1> QED
  BY <1>1, AdmissionInvariant, PTL

(* With the origin gate on, authenticateUser admits a request only from a  *)
(* trusted address, with a session, or during an outage that it is         *)
(* configured to let pass, for any number of threads on one connection.    *)
THEOREM AdmittedOriginsWereKnown == AdmissionSpec => []OriginWasKnown
<1>1. AdmissionInv => OriginWasKnown
  BY DEF AdmissionInv, LoginIsFounded, OriginWasKnown, Passed, In
<1> QED
  BY <1>1, AdmissionInvariant, PTL

(* Whatever the tenants a bridge serves, verifyCredential lets a key pass  *)
(* only if ldap_manager accepted it, for one of them, within the lifetime  *)
(* of the cache.                                                           *)
THEOREM AdmittedKeysWereAccepted == AdmissionSpec => []KeyWasAccepted
<1>1. AdmissionInv => KeyWasAccepted
  BY DEF AdmissionInv, KeyIsFounded, KeyWasAccepted, Passed, In
<1> QED
  BY <1>1, AdmissionInvariant, PTL
=============================================================================
