------------------------------- MODULE Overload -------------------------------
(***************************************************************************)
(* The thread pool and what happens when it is not enough: the limits that *)
(* WebDAVServer sets up (its constructor and start in                      *)
(* src/src/webdav_server.cpp), the shedding of requests by                 *)
(* createRequestHandler (src/include/webdav_server.h), and the capacity    *)
(* that MonitorHandler reports.  Between them is the dispatcher of Poco's  *)
(* TCPServer, which is external: it starts threads, queues connections and *)
(* refuses those that find the queue full.                                 *)
(*                                                                         *)
(* A thread keeps its connection from request to request, until the client *)
(* closes it or is silent for too long.  Threads are interchangeable, and  *)
(* so are connections: the model counts them.                              *)
(***************************************************************************)
EXTENDS Integers

CONSTANTS thread_pool,   \* WEBDAV_THREAD_POOL
          ShedFactor,    \* requests are shed above so many queued connections per thread
          QueueFactor,   \* connections are refused above so many per thread
          MaxStuck,      \* bound: the calls to the core or the directory that never end
          MaxConns,      \* bound: the connections that are queued, and those refused
          MaxRequests    \* bound: the requests on all of them; a connection may carry
                         \* any number, so that clients let go is an assumption

ASSUME PoolIsPositive == thread_pool \in Nat \ {0}
ASSUME FactorsArePositive == ShedFactor \in Nat \ {0} /\ QueueFactor \in Nat \ {0}
ASSUME OverloadBoundsAreNat == MaxStuck \in Nat /\ MaxConns \in Nat /\ MaxRequests \in Nat

(* pooled: in the ThreadPool; taking: about to take a connection; waiting: *)
(* for one; open: between the requests of one; busy: in a handler; stuck:  *)
(* in a handler for good; checking: has no connection any more, or has     *)
(* waited for too long, and is about to ask whether it should go on.       *)
Phases == {"pooled", "taking", "waiting", "open", "busy", "stuck", "checking"}

VARIABLES threads,      \* how many threads are in each phase
          accepted,     \* how many connections have been queued or handed over
          taken,        \* how many of them a thread has taken, first come first served
          requests,     \* how many requests have been made
          shed_total,   \* how many of those were answered with 503
          refused       \* how many connections were closed at once

vars == <<threads, accepted, taken, requests, shed_total, refused>>

(* Mutant: the dispatcher is held to one thread. *)
OneThread == 1

(* Mutant: the dispatcher counts one thread more than the pool has. *)
OneThreadMore == thread_pool + 1

(* The limits. *)
MaxThreads == thread_pool
MaxQueued == thread_pool * QueueFactor
ShedAbove == thread_pool * ShedFactor

queuedConnections == accepted - taken
available == threads["pooled"]            \* /readyz says 503 when it is 0
Started == thread_pool - available

InAll == threads["pooled"] + threads["taking"] + threads["waiting"] + threads["open"]
           + threads["busy"] + threads["stuck"] + threads["checking"]

TypeOK ==
  /\ threads \in [Phases -> Nat]
  /\ InAll = thread_pool
  /\ accepted \in 0..MaxConns /\ taken \in 0..accepted
  /\ requests \in 0..MaxRequests /\ shed_total \in 0..requests
  /\ refused \in 0..MaxConns

Init ==
  /\ threads = [p \in Phases |-> IF p = "pooled" THEN thread_pool ELSE 0]
  /\ accepted = 0 /\ taken = 0
  /\ requests = 0 /\ shed_total = 0
  /\ refused = 0

Some(p) == threads[p] > 0
Move(p, q) == threads' = [threads EXCEPT ![p] = @ - 1, ![q] = @ + 1]

-----------------------------------------------------------------------------
(* The dispatcher, as a connection comes. *)

Room == accepted < MaxConns /\ queuedConnections < MaxQueued

HandOver ==
  /\ Room /\ Some("waiting")
  /\ Move("waiting", "open")
  /\ accepted' = accepted + 1 /\ taken' = taken + 1
  /\ UNCHANGED <<requests, shed_total, refused>>

EnqueueAndStart ==
  /\ Room /\ ~Some("waiting") /\ Started < MaxThreads
  /\ Move("pooled", "taking")
  /\ accepted' = accepted + 1
  /\ UNCHANGED <<taken, requests, shed_total, refused>>

Enqueue ==
  /\ Room /\ ~Some("waiting") /\ Started >= MaxThreads
  /\ accepted' = accepted + 1
  /\ UNCHANGED <<threads, taken, requests, shed_total, refused>>

Refuse ==
  /\ queuedConnections >= MaxQueued
  /\ refused < MaxConns
  /\ refused' = refused + 1
  /\ UNCHANGED <<threads, accepted, taken, requests, shed_total>>

-----------------------------------------------------------------------------
(* Its threads. *)

Take ==
  /\ Some("taking") /\ queuedConnections > 0
  /\ Move("taking", "open")
  /\ taken' = taken + 1
  /\ UNCHANGED <<accepted, requests, shed_total, refused>>

Wait ==
  /\ Some("taking") /\ queuedConnections = 0
  /\ Move("taking", "waiting")
  /\ UNCHANGED <<accepted, taken, requests, shed_total, refused>>

IdleTooLong ==
  /\ Some("waiting")
  /\ Move("waiting", "checking")
  /\ UNCHANGED <<accepted, taken, requests, shed_total, refused>>

(* A thread goes on while there are connections, or if it is the last one. *)
GoOn ==
  /\ Some("checking") /\ (queuedConnections > 0 \/ Started = 1)
  /\ Move("checking", "taking")
  /\ UNCHANGED <<accepted, taken, requests, shed_total, refused>>

Retire ==
  /\ Some("checking") /\ queuedConnections = 0 /\ Started > 1
  /\ Move("checking", "pooled")
  /\ UNCHANGED <<accepted, taken, requests, shed_total, refused>>

-----------------------------------------------------------------------------
(* A request on one of the connections: createRequestHandler looks at how  *)
(* many others are queued.                                                 *)
Request ==
  /\ Some("open") /\ requests < MaxRequests
  /\ requests' = requests + 1

Overloaded == queuedConnections > ShedAbove

(* WebDAVOverloadHandler answers 503; the connection stays open.           *)
Shed ==
  /\ Request /\ Overloaded
  /\ shed_total' = shed_total + 1
  /\ UNCHANGED <<threads, accepted, taken, refused>>

Handle ==
  /\ Request /\ ~Overloaded
  /\ Move("open", "busy")
  /\ UNCHANGED <<accepted, taken, shed_total, refused>>

Answer ==
  /\ Some("busy")
  /\ Move("busy", "open")
  /\ UNCHANGED <<accepted, taken, requests, shed_total, refused>>

(* The handler waits for an answer that never comes: no call has a         *)
(* deadline.                                                               *)
Hang ==
  /\ Some("busy") /\ threads["stuck"] < MaxStuck
  /\ Move("busy", "stuck")
  /\ UNCHANGED <<accepted, taken, requests, shed_total, refused>>

(* The client closes the connection, or has been silent for too long. *)
Close ==
  /\ Some("open")
  /\ Move("open", "checking")
  /\ UNCHANGED <<accepted, taken, requests, shed_total, refused>>

Next ==
  \/ HandOver \/ EnqueueAndStart \/ Enqueue \/ Refuse
  \/ Take \/ Wait \/ IdleTooLong \/ GoOn \/ Retire
  \/ Shed \/ Handle \/ Answer \/ Hang \/ Close

(* Threads are scheduled, a call that ends does so in time, and a silent   *)
(* connection is closed.                                                   *)
Fairness == WF_vars(Take) /\ WF_vars(GoOn) /\ WF_vars(Answer) /\ WF_vars(Close)

Spec == Init /\ [][Next]_vars
FairSpec == Spec /\ Fairness

-----------------------------------------------------------------------------
(* Nobody is turned away, by a 503 or by a closed connection, while        *)
(* /readyz reports a free worker: work "refused that there was capacity    *)
(* for" is what tests/load_stress.py calls a defect.  So a backlog can     *)
(* grow only when every thread has a connection, whatever threads retire   *)
(* meanwhile (createRequestHandler, MonitorHandler).                       *)
TurnedAwayOnlyWhenSaturated ==
  [][shed_total' # shed_total \/ refused' # refused => available = 0]_vars

(* With fewer calls that never end than threads, and clients that make     *)
(* finitely many requests each, a thread takes every queued connection in  *)
(* the end, though a thread keeps its connection, and a shed one too, until *)
(* the client lets go, and retires when it has been idle: no connection is *)
(* left behind by the threads that retire (WebDAVServer's limits).         *)
EveryConnectionIsTaken ==
  \A n \in 1..MaxConns : accepted >= n ~> taken >= n

-----------------------------------------------------------------------------
(* What the first one rests on: while the pool has a thread, every queued  *)
(* connection has one that is on its way to it.                            *)
BacklogIsAttended ==
  available > 0 => queuedConnections <= threads["taking"] + threads["checking"]

OverloadInv == TypeOK /\ BacklogIsAttended
=============================================================================
