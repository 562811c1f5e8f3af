--------------------------- MODULE ResolverHistory ---------------------------
(***************************************************************************)
(* PathResolver on its own, under callers that resolve any path and record *)
(* or drop any mapping at any time, and clients that change the tree at    *)
(* any time.  History variables, which no step reads, say what held at     *)
(* some instant of each resolution; the properties judge every answer by   *)
(* them.                                                                   *)
(***************************************************************************)
EXTENDS PathResolver

VARIABLES held,     \* per thread: the links of the tree seen to hold since its call began
          walked,   \* per thread: the uids its walk has matched, from the root on
          absent,   \* per thread: did its path denote nothing at some instant of the call?
          faulted   \* per thread: did a listing of the call fail though the entry was there?

historyVars == <<held, walked, absent, faulted>>
vars == <<resolverVars, historyVars>>

DenotesNothing(t, p) == Denoted(t, p) = {}

HInit ==
  /\ Init
  /\ held = [w \in Workers |-> {}]
  /\ walked = [w \in Workers |-> <<>>]
  /\ absent = [w \in Workers |-> FALSE]
  /\ faulted = [w \in Workers |-> FALSE]

-----------------------------------------------------------------------------
(* A handler asks for a path. *)
Ask(w, p) ==
  /\ StartResolve(w, p)
  /\ UNCHANGED <<tree, cache, foreign>>
  /\ held' = [held EXCEPT ![w] = Links(tree, p)]
  /\ absent' = [absent EXCEPT ![w] = DenotesNothing(tree, p)]
  /\ UNCHANGED <<walked, faulted>>

(* A handler takes the answer. *)
Take(w) ==
  /\ At(w, "done")
  /\ call' = [call EXCEPT ![w] = NoCall]
  /\ UNCHANGED <<tree, cache, foreign>>
  /\ held' = [held EXCEPT ![w] = {}]
  /\ walked' = [walked EXCEPT ![w] = <<>>]
  /\ absent' = [absent EXCEPT ![w] = FALSE]
  /\ faulted' = [faulted EXCEPT ![w] = FALSE]

(* A handler records the uid of a node it has created, listed or moved, or *)
(* drops the entry of a path it has deleted.                               *)
HandlerMaps ==
  /\ \E p \in Paths, u \in Uids : tree[u].status # "free" /\ MapPath(p, u)
  /\ UNCHANGED <<tree, call, foreign, historyVars>>

HandlerUnmaps ==
  /\ \E p \in Paths : UnmapPath(p)
  /\ UNCHANGED <<tree, call, foreign, historyVars>>

StepWalks(w) ==
  /\ ListFound(w)
  /\ walked' = [walked EXCEPT ![w] = Append(@, call'[w].uid)]
  /\ UNCHANGED <<held, absent, faulted>>

StepGivesUp(w) ==
  /\ ListMissing(w)
  /\ faulted' = [faulted EXCEPT ![w] = IsLive(tree, call[w].uid) /\ Matches(w) # {}]
  /\ UNCHANGED <<held, walked, absent>>

StepOther(w) ==
  /\ \/ LookupHit(w) \/ LookupMiss(w)
     \/ VerifyHit(w) \/ VerifyMiss(w) \/ Evict(w)
     \/ MapPrefix(w)
  /\ UNCHANGED historyVars

(* A change of the tree is an instant of every call in progress. *)
HForeign ==
  /\ Foreign
  /\ held' = [w \in Workers |->
       IF At(w, "idle") THEN held[w] ELSE held[w] \cup Links(tree', call[w].path)]
  /\ absent' = [w \in Workers |->
       absent[w] \/ (~At(w, "idle") /\ DenotesNothing(tree', call[w].path))]
  /\ UNCHANGED <<walked, faulted>>

Step(w) == StepWalks(w) \/ StepGivesUp(w) \/ StepOther(w)

HNext ==
  \/ \E w \in Workers, p \in Paths \cup {RootPath} : Ask(w, p)
  \/ \E w \in Workers : Step(w) \/ Take(w)
  \/ HandlerMaps
  \/ HandlerUnmaps
  \/ HForeign

Spec == HInit /\ [][HNext]_vars

-----------------------------------------------------------------------------
HTypeOK ==
  /\ TypeOK
  /\ held \in [Workers -> SUBSET (Dirs \X Names \X Uids)]
  /\ walked \in [Workers -> Seq(Uids)]
  /\ absent \in [Workers -> BOOLEAN]
  /\ faulted \in [Workers -> BOOLEAN]

Answered(w) == At(w, "done") /\ call[w].path # RootPath
Found(w) == Answered(w) /\ call[w].uid # NoUid

(* A uid that resolvePath returns, from the cache or from the walk, was    *)
(* that of a live node under the last name of the path at some instant of  *)
(* the call, whatever the cache held and whatever other threads and other  *)
(* clients did meanwhile: resolvePath of path_resolver.cpp verifies a hit  *)
(* with Stat before trusting it.                                           *)
ResolvedWasNamed ==
  \A w \in Workers : Found(w) =>
     \E d \in Dirs : <<d, Base(call[w].path), call[w].uid>> \in held[w]

(* The node the walk had reached before its i-th match. *)
Above(w, i) == IF i = 1 THEN Root ELSE walked[w][i - 1]

(* When the answer comes from the walk, every link of it held at some      *)
(* instant of the call, from the root to the last segment.  (They need not *)
(* have held together: the walk is one RPC per level.)                     *)
WalkWasThere ==
  \A w \in Workers : Found(w) /\ walked[w] # <<>> =>
     LET p == call[w].path
     IN  /\ Len(walked[w]) = Len(p)
         /\ walked[w][Len(p)] = call[w].uid
         /\ \A i \in 1..Len(p) : <<Above(w, i), p[i], walked[w][i]>> \in held[w]

(* resolvePath answers "no such path" only if the path was absent at some  *)
(* instant of the call, or a listing failed: a stale entry and concurrent  *)
(* moves never make it miss a path that was there all along.               *)
NotFoundIsJustified ==
  \A w \in Workers : Answered(w) /\ call[w].uid = NoUid => absent[w] \/ faulted[w]

-----------------------------------------------------------------------------
(* The resolver as a NameService: a call that is looking, verifying,       *)
(* listing or mapping is a question that has not been answered.            *)
QuestionOf(c) ==
  CASE c.phase = "idle" -> [state |-> "idle", path |-> c.path, uid |-> NoUid]
    [] c.phase = "done" -> [state |-> "answered", path |-> c.path, uid |-> c.uid]
    [] OTHER            -> [state |-> "asked", path |-> c.path, uid |-> NoUid]

Service == INSTANCE NameService WITH
  Clients <- Workers, Asked <- Paths, FirstTree <- InitTree,
  question <- [w \in Workers |-> QuestionOf(call[w])], seen <- held

(* The resolver with its cache implements the name service that has none:  *)
(* each question is answered once, for the path that was asked, with a     *)
(* node that had the name meanwhile, and no step of a resolution but the   *)
(* answer is one a caller can tell (resolvePath, createPathMapping and     *)
(* removePathMapping of path_resolver.cpp).                                *)
ImplementsNameService == Service!NameSpec

-----------------------------------------------------------------------------
(* What the two properties of the answers rest on, thread by thread: the   *)
(* links that hold now are on record; a walk in progress stands at the     *)
(* last uid it has matched; and what it has matched is on record.          *)
PresentIsHeld(w) == ~At(w, "idle") => Links(tree, call[w].path) \subseteq held[w]

NotYetWalking(w) ==
  call[w].phase \in {"idle", "lookup", "verify", "evict"} =>
     walked[w] = <<>> /\ call[w].depth = 0

WalkStandsAt(w) ==
  call[w].phase \in {"list", "map"} =>
     /\ Len(walked[w]) = call[w].depth
     /\ call[w].uid = IF call[w].depth = 0 THEN Root ELSE walked[w][call[w].depth]

WalkIsHeld(w) ==
  \A i \in 1..Len(walked[w]) :
     /\ i <= Len(call[w].path)
     /\ <<Above(w, i), call[w].path[i], walked[w][i]>> \in held[w]

AnswerIsHeld(w) ==
  Found(w) =>
     \/ /\ walked[w] = <<>>
        /\ \E d \in Dirs : <<d, Base(call[w].path), call[w].uid>> \in held[w]
     \/ /\ Len(walked[w]) = Len(call[w].path)
        /\ call[w].uid = walked[w][Len(call[w].path)]

ThreadInv(w) ==
  /\ PresentIsHeld(w)
  /\ NotYetWalking(w)
  /\ WalkStandsAt(w)
  /\ WalkIsHeld(w)
  /\ AnswerIsHeld(w)

HistoryInv == HTypeOK /\ \A w \in Workers : ThreadInv(w)
=============================================================================
