---------------------------- MODULE OverloadProofs ----------------------------
(***************************************************************************)
(* That nobody is turned away while the pool has a thread, for every size  *)
(* of the pool and both of its limits.                                     *)
(***************************************************************************)
EXTENDS Overload, TLAPS

(* What the leaves compute with. *)
LEMMA Limits ==
  /\ thread_pool \in Nat \ {0} /\ MaxThreads = thread_pool
  /\ MaxQueued \in Nat /\ MaxQueued >= thread_pool
  /\ ShedAbove \in Nat /\ ShedAbove >= thread_pool
<1>1. \A n, f \in Nat \ {0} : n * f \in Nat /\ n * f >= n
  OBVIOUS
<1> QED
  BY <1>1, PoolIsPositive, FactorsArePositive DEF MaxThreads, MaxQueued, ShedAbove

LEMMA Counts ==
  ASSUME TypeOK
  PROVE  /\ \A p \in Phases : threads[p] \in Nat
         /\ threads["pooled"] + threads["taking"] + threads["waiting"] + threads["open"]
              + threads["busy"] + threads["stuck"] + threads["checking"] = thread_pool
         /\ accepted \in Nat /\ taken \in Nat /\ taken <= accepted
         /\ requests \in Nat /\ shed_total \in Nat /\ refused \in Nat
         /\ MaxConns \in Nat /\ MaxRequests \in Nat
BY OverloadBoundsAreNat DEF TypeOK, InAll

(* One thread goes from a phase that has one to another. *)
LEMMA MoveCounts ==
  ASSUME TypeOK, NEW p \in Phases, NEW q \in Phases, p # q, Some(p), Move(p, q)
  PROVE  /\ threads' \in [Phases -> Nat]
         /\ threads'[p] = threads[p] - 1 /\ threads'[q] = threads[q] + 1
         /\ \A r \in Phases \ {p, q} : threads'[r] = threads[r]
<1>1. threads \in [Phases -> Nat]
  BY DEF TypeOK
<1>2. /\ threads'[p] = threads[p] - 1 /\ threads'[q] = threads[q] + 1
      /\ \A r \in Phases \ {p, q} : threads'[r] = threads[r]
  BY <1>1 DEF Move
<1>3. threads' \in [Phases -> Nat]
  <2>1. threads[p] - 1 \in Nat /\ threads[q] + 1 \in Nat
    BY <1>1 DEF Some
  <2> QED
    BY <1>1, <2>1 DEF Move
<1> QED
  BY <1>2, <1>3

LEMMA InitOverloadInv == Init => OverloadInv
BY PoolIsPositive, OverloadBoundsAreNat
   DEF Init, OverloadInv, TypeOK, InAll, Phases, BacklogIsAttended, queuedConnections, available

LEMMA NextOverloadInv == OverloadInv /\ [Next]_vars => OverloadInv'
<1> SUFFICES ASSUME OverloadInv, [Next]_vars PROVE OverloadInv'
  OBVIOUS
<1> USE Limits DEF OverloadInv
<1>0. /\ Phases = {"pooled", "taking", "waiting", "open", "busy", "stuck", "checking"}
      /\ TypeOK /\ BacklogIsAttended
  BY DEF Phases
<1>1. CASE UNCHANGED vars
  BY <1>1 DEF vars, TypeOK, InAll, BacklogIsAttended, available, queuedConnections
<1>2. CASE HandOver
  <2>1. Some("waiting") /\ Move("waiting", "open")
    BY <1>2 DEF HandOver, Room
  <2>2. TypeOK'
    BY <1>0, <1>2, <2>1, Counts, MoveCounts DEF HandOver, Room, TypeOK, InAll, queuedConnections
  <2>3. BacklogIsAttended'
    BY <1>0, <1>2, <2>1, Counts, MoveCounts
       DEF HandOver, BacklogIsAttended, available, queuedConnections, Started
  <2> QED
    BY <2>2, <2>3
<1>3. CASE EnqueueAndStart
  <2>1. Some("pooled") /\ Move("pooled", "taking") /\ queuedConnections <= threads["taking"] + threads["checking"]
    BY <1>0, <1>3, Counts DEF EnqueueAndStart, Room, Started, available, Some, BacklogIsAttended
  <2>2. TypeOK'
    BY <1>0, <1>3, <2>1, Counts, MoveCounts DEF EnqueueAndStart, Room, Started, available, TypeOK, InAll, queuedConnections
  <2>3. BacklogIsAttended'
    BY <1>0, <1>3, <2>1, Counts, MoveCounts
       DEF EnqueueAndStart, BacklogIsAttended, available, queuedConnections, Started
  <2> QED
    BY <2>2, <2>3
<1>4. CASE Enqueue
  BY <1>0, <1>4, Counts DEF Enqueue, Room, Started, TypeOK, InAll, BacklogIsAttended, available,
     queuedConnections
<1>5. CASE Refuse
  BY <1>0, <1>5, Counts DEF Refuse, TypeOK, InAll, BacklogIsAttended, available,
     queuedConnections, Started
<1>6. CASE Take
  <2>1. Some("taking") /\ Move("taking", "open")
    BY <1>6 DEF Take
  <2>2. TypeOK'
    BY <1>0, <1>6, <2>1, Counts, MoveCounts DEF Take, TypeOK, InAll, queuedConnections
  <2>3. BacklogIsAttended'
    BY <1>0, <1>6, <2>1, Counts, MoveCounts
       DEF Take, BacklogIsAttended, available, queuedConnections, Started
  <2> QED
    BY <2>2, <2>3
<1>7. CASE Wait
  <2>1. Some("taking") /\ Move("taking", "waiting")
    BY <1>7 DEF Wait
  <2>2. TypeOK'
    BY <1>0, <1>7, <2>1, Counts, MoveCounts DEF Wait, TypeOK, InAll, queuedConnections
  <2>3. BacklogIsAttended'
    BY <1>0, <1>7, <2>1, Counts, MoveCounts
       DEF Wait, BacklogIsAttended, available, queuedConnections, Started
  <2> QED
    BY <2>2, <2>3
<1>8. CASE IdleTooLong
  <2>1. Some("waiting") /\ Move("waiting", "checking")
    BY <1>8 DEF IdleTooLong
  <2>2. TypeOK'
    BY <1>0, <1>8, <2>1, Counts, MoveCounts DEF IdleTooLong, TypeOK, InAll, queuedConnections
  <2>3. BacklogIsAttended'
    BY <1>0, <1>8, <2>1, Counts, MoveCounts
       DEF IdleTooLong, BacklogIsAttended, available, queuedConnections, Started
  <2> QED
    BY <2>2, <2>3
<1>9. CASE GoOn
  <2>1. Some("checking") /\ Move("checking", "taking")
    BY <1>9 DEF GoOn
  <2>2. TypeOK'
    BY <1>0, <1>9, <2>1, Counts, MoveCounts DEF GoOn, TypeOK, InAll, queuedConnections
  <2>3. BacklogIsAttended'
    BY <1>0, <1>9, <2>1, Counts, MoveCounts
       DEF GoOn, BacklogIsAttended, available, queuedConnections, Started
  <2> QED
    BY <2>2, <2>3
<1>10. CASE Retire
  <2>1. Some("checking") /\ Move("checking", "pooled")
    BY <1>10 DEF Retire
  <2>2. TypeOK'
    BY <1>0, <1>10, <2>1, Counts, MoveCounts DEF Retire, TypeOK, InAll, queuedConnections
  <2>3. BacklogIsAttended'
    BY <1>0, <1>10, <2>1, Counts, MoveCounts
       DEF Retire, BacklogIsAttended, available, queuedConnections, Started
  <2> QED
    BY <2>2, <2>3
<1>11. CASE Shed
  BY <1>0, <1>11, Counts DEF Shed, Request, TypeOK, InAll, BacklogIsAttended, available,
     queuedConnections, Started
<1>12. CASE Handle
  <2>1. Some("open") /\ Move("open", "busy")
    BY <1>12 DEF Handle, Request
  <2>2. TypeOK'
    BY <1>0, <1>12, <2>1, Counts, MoveCounts DEF Handle, Request, TypeOK, InAll, queuedConnections
  <2>3. BacklogIsAttended'
    BY <1>0, <1>12, <2>1, Counts, MoveCounts
       DEF Handle, BacklogIsAttended, available, queuedConnections, Started
  <2> QED
    BY <2>2, <2>3
<1>13. CASE Answer
  <2>1. Some("busy") /\ Move("busy", "open")
    BY <1>13 DEF Answer
  <2>2. TypeOK'
    BY <1>0, <1>13, <2>1, Counts, MoveCounts DEF Answer, TypeOK, InAll, queuedConnections
  <2>3. BacklogIsAttended'
    BY <1>0, <1>13, <2>1, Counts, MoveCounts
       DEF Answer, BacklogIsAttended, available, queuedConnections, Started
  <2> QED
    BY <2>2, <2>3
<1>14. CASE Hang
  <2>1. Some("busy") /\ Move("busy", "stuck")
    BY <1>14 DEF Hang
  <2>2. TypeOK'
    BY <1>0, <1>14, <2>1, Counts, MoveCounts DEF Hang, TypeOK, InAll, queuedConnections
  <2>3. BacklogIsAttended'
    BY <1>0, <1>14, <2>1, Counts, MoveCounts
       DEF Hang, BacklogIsAttended, available, queuedConnections, Started
  <2> QED
    BY <2>2, <2>3
<1>15. CASE Close
  <2>1. Some("open") /\ Move("open", "checking")
    BY <1>15 DEF Close
  <2>2. TypeOK'
    BY <1>0, <1>15, <2>1, Counts, MoveCounts DEF Close, TypeOK, InAll, queuedConnections
  <2>3. BacklogIsAttended'
    BY <1>0, <1>15, <2>1, Counts, MoveCounts
       DEF Close, BacklogIsAttended, available, queuedConnections, Started
  <2> QED
    BY <2>2, <2>3
<1> QED
  BY <1>1, <1>2, <1>3, <1>4, <1>5, <1>6, <1>7, <1>8, <1>9, <1>10,
     <1>11, <1>12, <1>13, <1>14, <1>15 DEF Next

(* Every thread of the pool is counted in one phase, no queued connection  *)
(* is taken twice, and whatever is in the queue while the pool has a       *)
(* thread has another that is on its way to it.                            *)
THEOREM BacklogAttended == Spec => [](TypeOK /\ BacklogIsAttended)
<1> QED
  BY InitOverloadInv, NextOverloadInv, PTL DEF Spec, OverloadInv

(* A queue that is long enough to shed a request or to refuse a connection *)
(* is longer than the threads that could be on their way to it, so that no *)
(* thread is left in the pool.                                             *)
LEMMA StepTurnsAwayFairly ==
  OverloadInv /\ [Next]_vars =>
    (shed_total' # shed_total \/ refused' # refused => available = 0)
<1> SUFFICES ASSUME OverloadInv, [Next]_vars, shed_total' # shed_total \/ refused' # refused
             PROVE  available = 0
  OBVIOUS
<1>1. queuedConnections > ShedAbove \/ queuedConnections >= MaxQueued
  BY DEF Next, vars, HandOver, EnqueueAndStart, Enqueue, Refuse, Take, Wait, IdleTooLong,
         GoOn, Retire, Shed, Overloaded, Handle, Answer, Hang, Close, Request
<1>2. queuedConnections >= thread_pool
  BY <1>1, Limits, Counts DEF OverloadInv, queuedConnections
<1>3. threads["pooled"] > 0 => queuedConnections < thread_pool
  BY Counts, Limits DEF OverloadInv, BacklogIsAttended, available, queuedConnections, Phases
<1> QED
  BY <1>2, <1>3, Counts, Limits DEF OverloadInv, available, queuedConnections, Phases

(* A request is shed, or a connection refused, only while /readyz says     *)
(* that no worker is free (createRequestHandler, MonitorHandler).          *)
THEOREM TurnsAwayFairly == Spec => TurnedAwayOnlyWhenSaturated
<1>1. OverloadInv /\ [Next]_vars =>
        [shed_total' # shed_total \/ refused' # refused => available = 0]_vars
  BY StepTurnsAwayFairly
<1> QED
  BY <1>1, InitOverloadInv, NextOverloadInv, PTL DEF Spec, TurnedAwayOnlyWhenSaturated
=============================================================================
