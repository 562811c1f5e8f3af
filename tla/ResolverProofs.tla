--------------------------- MODULE ResolverProofs ---------------------------
(***************************************************************************)
(* Proofs about ResolverHistory, for every set of threads, uids, names and *)
(* paths, every initial tree, with or without unique sibling names and RPC *)
(* failures.                                                               *)
(***************************************************************************)
EXTENDS ResolverHistory, CoreProofs

(* A child of a node is one of the links of every path that names it. *)
LEMMA ChildIsLink ==
  ASSUME NEW t, NEW p \in Paths, NEW d \in Dirs, NEW i \in 1..Len(p),
         NEW u \in ChildrenNamed(t, d, p[i])
  PROVE  <<d, p[i], u>> \in Links(t, p)
  BY DEF Links, ChildrenNamed, Children

(* The links of the present tree have the type of the recorded ones. *)
LEMMA LinksType ==
  ASSUME NEW t, NEW p \in Paths \cup {RootPath}
  PROVE  Links(t, p) \subseteq Dirs \X Names \X Uids
<1>1. \A i \in 1..Len(p) : p[i] \in Names
  BY PathFacts, RootPathFacts
<1> QED
  BY <1>1 DEF Links

-----------------------------------------------------------------------------
(* The types *)

LEMMA InitType == HInit => HTypeOK
<1> SUFFICES ASSUME HInit PROVE HTypeOK
  OBVIOUS
<1>1. TypeOK
  BY InitTreeIsTree, RootPathFacts DEF HInit, Init, TypeOK, NoCall, Call, Phases
<1> QED
  BY <1>1 DEF HInit, HTypeOK

LEMMA GotoType ==
  ASSUME TypeOK, NEW w \in Workers, call[w].path \in Paths,
         NEW f \in Phases, NEW u \in Dirs \cup {NoUid}, NEW n \in Nat,
         n <= Len(call[w].path),
         f = "list" => n < Len(call[w].path),
         f = "map" => n > 0,
         Goto(w, f, u, n)
  PROVE  /\ call' \in [Workers -> Call]
         /\ call'[w].phase = f /\ call'[w].path = call[w].path
         /\ call'[w].uid = u /\ call'[w].depth = n
         /\ \A v \in Workers \ {w} : call'[v] = call[v]
<1> DEFINE c == [phase |-> f, path |-> call[w].path, uid |-> u, depth |-> n]
<1>1. call[w].path # RootPath
  BY PathFacts
<1>2. c \in Call
  BY <1>1 DEF Call
<1>3. call \in [Workers -> Call] /\ call' = [call EXCEPT ![w] = c]
  BY DEF TypeOK, Goto
<1> QED
  BY <1>2, <1>3

(* Every step of a resolution preserves the types of the cache and of the  *)
(* calls.                                                                  *)
LEMMA StepType ==
  ASSUME TypeOK, NEW w \in Workers, Step(w)
  PROVE  TypeOK'
<1> DEFINE p == call[w].path
<1>1. /\ call[w].phase \in {"lookup", "verify", "evict", "list", "map"}
      /\ p \in Paths /\ Len(p) \in Nat \ {0}
      /\ call[w].uid \in Dirs \cup {NoUid} /\ call[w].depth \in Nat
  BY CallFacts, PathFacts
     DEF Step, StepWalks, StepGivesUp, StepOther, LookupHit, LookupMiss, VerifyHit,
         VerifyMiss, Evict, ListFound, ListMissing, MapPrefix, At
<1>2. tree' = tree /\ foreign' = foreign
  BY DEF Step, StepWalks, StepGivesUp, StepOther, LookupHit, LookupMiss, VerifyHit,
         VerifyMiss, Evict, ListFound, ListMissing, MapPrefix
<1>3. cache' \in [Paths -> Dirs \cup {NoUid}]
  BY <1>1 DEF TypeOK, Step, StepWalks, StepGivesUp, StepOther, LookupHit, LookupMiss,
         VerifyHit, VerifyMiss, Evict, ListFound, ListMissing, MapPrefix, MapPath, UnmapPath
<1>4. call' \in [Workers -> Call]
  <2> USE <1>1 DEF Phases
  <2>0. Root \in Dirs \cup {NoUid}
    BY DEF Dirs
  <2>1. CASE LookupHit(w)
    <3>1. cache[p] \in Dirs \cup {NoUid}
      BY DEF TypeOK
    <3> QED
      BY <2>1, <3>1, GotoType DEF LookupHit
  <2>2. CASE LookupMiss(w)
    BY <2>0, <2>2, GotoType DEF LookupMiss
  <2>3. CASE VerifyHit(w)
    BY <2>3, GotoType DEF VerifyHit
  <2>4. CASE VerifyMiss(w)
    <3>1. Goto(w, "evict", call[w].uid, 0)
      BY <2>4 DEF VerifyMiss
    <3> QED
      BY <3>1, GotoType
  <2>5. CASE Evict(w)
    <3>1. Goto(w, "list", Root, 0)
      BY <2>5 DEF Evict
    <3> QED
      BY <2>0, <3>1, GotoType
  <2>6. CASE ListFound(w)
    <3>1. call[w].depth < Len(p)
      BY <2>6, CallFacts DEF ListFound, At
    <3>2. PICK u \in Matches(w) : Goto(w, "map", u, call[w].depth + 1)
      BY <2>6 DEF ListFound
    <3>3. u \in Dirs
      BY <3>2 DEF Matches, ChildrenNamed, Children, Dirs
    <3> QED
      BY <3>1, <3>2, <3>3, GotoType
  <2>7. CASE ListMissing(w)
    BY <2>7, CallFacts, GotoType DEF ListMissing
  <2>8. CASE MapPrefix(w)
    <3> DEFINE f == IF call[w].depth = Len(p) THEN "done" ELSE "list"
    <3>1. call[w].depth <= Len(p)
      BY CallFacts
    <3>2. f \in Phases /\ (f = "list" => call[w].depth < Len(p)) /\ f # "map"
      BY <3>1
    <3>3. Goto(w, f, call[w].uid, call[w].depth)
      BY <2>8 DEF MapPrefix
    <3> HIDE DEF f
    <3> QED
      BY <3>1, <3>2, <3>3, GotoType
  <2> QED
    BY <2>1, <2>2, <2>3, <2>4, <2>5, <2>6, <2>7, <2>8
       DEF Step, StepWalks, StepGivesUp, StepOther
<1> QED
  BY <1>2, <1>3, <1>4 DEF TypeOK

(* The history variables keep their types as well. *)
LEMMA NextType ==
  ASSUME HTypeOK, [HNext]_vars
  PROVE  HTypeOK'
<1> USE DEF HTypeOK
<1>1. ASSUME NEW w \in Workers, NEW p \in Paths \cup {RootPath}, Ask(w, p)
      PROVE  HTypeOK'
  <2> DEFINE c == [phase |-> IF p = RootPath THEN "done" ELSE "lookup",
                   path |-> p, uid |-> Root, depth |-> 0]
  <2>1. Len(p) \in Nat
    BY PathFacts, RootPathFacts
  <2>2. c \in Call
    BY <2>1, PathFacts DEF Call, Phases, Dirs
  <2>3. call' = [call EXCEPT ![w] = c]
    BY <1>1 DEF Ask, StartResolve, Started
  <2>4. TypeOK'
    BY <1>1, <2>2, <2>3 DEF Ask, TypeOK
  <2>5. Links(tree, p) \in SUBSET (Dirs \X Names \X Uids)
    BY LinksType
  <2>6. DenotesNothing(tree, p) \in BOOLEAN
    BY DEF DenotesNothing
  <2> QED
    BY <1>1, <2>4, <2>5, <2>6 DEF Ask
<1>2. ASSUME NEW w \in Workers, Step(w)
      PROVE  HTypeOK'
  <2>1. TypeOK'
    BY <1>2, StepType
  <2>2. CASE StepWalks(w)
    <3>1. PICK u \in Matches(w) : Goto(w, "map", u, call[w].depth + 1)
      BY <2>2 DEF StepWalks, ListFound
    <3>2. call'[w].uid \in Uids
      BY <3>1 DEF Goto, TypeOK, Matches, ChildrenNamed, Children
    <3> QED
      BY <2>1, <2>2, <3>2 DEF StepWalks
  <2>3. CASE StepGivesUp(w)
    <3> DEFINE m == IsLive(tree, call[w].uid) /\ Matches(w) # {}
    <3>1. m \in BOOLEAN
      BY DEF IsLive
    <3>2. faulted' = [faulted EXCEPT ![w] = m]
      BY <2>3 DEF StepGivesUp
    <3> HIDE DEF m
    <3> QED
      BY <2>1, <2>3, <3>1, <3>2 DEF StepGivesUp
  <2>4. CASE StepOther(w)
    BY <2>1, <2>4 DEF StepOther, historyVars
  <2> QED
    BY <1>2, <2>2, <2>3, <2>4 DEF Step
<1>3. ASSUME NEW w \in Workers, Take(w)
      PROVE  HTypeOK'
  <2>1. NoCall \in Call
    BY RootPathFacts DEF NoCall, Call, Phases
  <2> QED
    BY <1>3, <2>1 DEF Take, TypeOK
<1>4. CASE HandlerMaps
  BY <1>4 DEF HandlerMaps, MapPath, TypeOK, Dirs, historyVars
<1>5. CASE HandlerUnmaps
  BY <1>5 DEF HandlerUnmaps, UnmapPath, TypeOK, historyVars
<1>6. CASE HForeign
  <2>1. TypeOK'
    BY <1>6, ForeignKeepsTree DEF HForeign, Foreign, TypeOK
  <2>2. \A w \in Workers : call[w].path \in Paths \cup {RootPath}
    BY CallFacts
  <2>3. \A w \in Workers : Links(tree', call[w].path) \subseteq Dirs \X Names \X Uids
    BY <2>2, LinksType
  <2>4. held' \in [Workers -> SUBSET (Dirs \X Names \X Uids)]
    BY <1>6, <2>3 DEF HForeign
  <2>5. absent' \in [Workers -> BOOLEAN]
    BY <1>6 DEF HForeign, DenotesNothing, At
  <2> QED
    BY <1>6, <2>1, <2>4, <2>5 DEF HForeign
<1>7. CASE UNCHANGED vars
  BY <1>7 DEF vars, resolverVars, historyVars, TypeOK
<1> QED
  BY <1>1, <1>2, <1>3, <1>4, <1>5, <1>6, <1>7 DEF HNext

-----------------------------------------------------------------------------
(* The history invariant *)

(* A thread that a step leaves alone keeps its part of the invariant. *)
LEMMA ThreadFrame ==
  ASSUME NEW v \in Workers, ThreadInv(v),
         tree' = tree, call'[v] = call[v], held'[v] = held[v], walked'[v] = walked[v]
  PROVE  ThreadInv(v)'
  BY DEF ThreadInv, PresentIsHeld, NotYetWalking, WalkStandsAt, WalkIsHeld,
         AnswerIsHeld, Above, Found, Answered, At

(* A uid that passes the verification is named by a link of the present    *)
(* tree.                                                                   *)
LEMMA NamedIsLink ==
  ASSUME TypeOK, NEW p \in Paths, NEW u, HasName(tree, u, Base(p))
  PROVE  /\ u \in Uids
         /\ \E d \in Dirs : <<d, Base(p), u>> \in Links(tree, p)
<1>1. u \in Uids /\ tree[u].status = "live" /\ tree[u].name = Base(p)
  BY DEF HasName
<1>2. tree[u].parent \in Dirs
  BY <1>1 DEF TypeOK, Tree, Node
<1>3. Len(p) \in 1..Len(p) /\ Base(p) = p[Len(p)]
  BY PathFacts DEF Base
<1>4. u \in ChildrenNamed(tree, tree[u].parent, p[Len(p)])
  BY <1>1, <1>3 DEF ChildrenNamed, Children
<1>5. <<tree[u].parent, p[Len(p)], u>> \in Links(tree, p)
  BY <1>2, <1>3, <1>4, ChildIsLink
<1> QED
  BY <1>1, <1>2, <1>3, <1>5

(* The thread that takes a step of its walk. *)
LEMMA WalkInv ==
  ASSUME HTypeOK, NEW w \in Workers, ThreadInv(w), StepWalks(w)
  PROVE  ThreadInv(w)'
<1> DEFINE c == call[w]
<1>0. PICK p, n : p = call[w].path /\ n = call[w].depth
  OBVIOUS
<1>1. /\ c.phase = "list" /\ p \in Paths /\ n \in Nat /\ n < Len(p) /\ Len(p) \in Nat
      /\ walked[w] \in Seq(Uids)
  BY <1>0, CallFacts, PathFacts DEF StepWalks, ListFound, At, HTypeOK
<1>2. PICK u \in Matches(w) : Goto(w, "map", u, n + 1)
  BY <1>0 DEF StepWalks, ListFound
<1>3. call'[w] = [phase |-> "map", path |-> p, uid |-> u, depth |-> n + 1]
  BY <1>0, <1>2 DEF Goto, HTypeOK, TypeOK
<1>4. u \in Uids
  BY DEF Matches, ChildrenNamed, Children
<1>5. walked'[w] = Append(walked[w], u) /\ held' = held /\ tree' = tree
  BY <1>3 DEF StepWalks, ListFound, HTypeOK
<1>6. Len(walked[w]) = n /\ c.uid = (IF n = 0 THEN Root ELSE walked[w][n])
  BY <1>0, <1>1 DEF ThreadInv, WalkStandsAt
<1>7. /\ Len(walked'[w]) = n + 1
      /\ walked'[w][n + 1] = u
      /\ \A i \in 1..n : walked'[w][i] = walked[w][i]
  BY <1>1, <1>4, <1>5, <1>6
<1>8. c.uid \in Dirs
  <2>1. CASE n = 0
    BY <1>6, <2>1 DEF Dirs
  <2>2. CASE n # 0
    BY <1>1, <1>6, <2>2 DEF Dirs
  <2> QED
    BY <2>1, <2>2
<1>9. <<c.uid, p[n + 1], u>> \in held[w]
  <2>1. n + 1 \in 1..Len(p)
    BY <1>1
  <2>2. <<c.uid, p[n + 1], u>> \in Links(tree, p)
    BY <1>0, <1>1, <1>2, <1>8, <2>1, ChildIsLink DEF Matches
  <2> QED
    BY <1>0, <1>1, <2>2 DEF ThreadInv, PresentIsHeld, At
<1>10. PresentIsHeld(w)'
  BY <1>0, <1>1, <1>3, <1>5 DEF ThreadInv, PresentIsHeld, At
<1>11. NotYetWalking(w)'
  BY <1>3 DEF NotYetWalking
<1>12. WalkStandsAt(w)'
  BY <1>1, <1>3, <1>7 DEF WalkStandsAt
<1>13. WalkIsHeld(w)'
  <2>1. ASSUME NEW i \in 1..n
        PROVE  i <= Len(p) /\ <<Above(w, i)', p[i], walked'[w][i]>> \in held[w]
    <3>1. i - 1 \in 1..n \/ i = 1
      BY <1>1
    <3>2. Above(w, i)' = Above(w, i)
      BY <1>7, <3>1 DEF Above
    <3>3. i <= Len(p) /\ <<Above(w, i), p[i], walked[w][i]>> \in held[w]
      BY <1>0, <1>6, <2>1 DEF ThreadInv, WalkIsHeld
    <3> QED
      BY <1>7, <3>2, <3>3
  <2>2. <<Above(w, n + 1)', p[n + 1], walked'[w][n + 1]>> \in held[w]
    <3>1. CASE n = 0
      <4>1. Above(w, n + 1)' = Root /\ c.uid = Root
        BY <1>6, <3>1 DEF Above
      <4> QED
        BY <1>7, <1>9, <4>1
    <3>2. CASE n # 0
      <4>1. n \in 1..n /\ n + 1 # 1 /\ (n + 1) - 1 = n
        BY <1>1, <3>2
      <4>2. Above(w, n + 1)' = walked'[w][n]
        BY <4>1 DEF Above
      <4>3. walked'[w][n] = c.uid
        BY <1>6, <1>7, <3>2, <4>1
      <4> QED
        BY <1>7, <1>9, <4>2, <4>3
    <3> QED
      BY <3>1, <3>2
  <2>3. call'[w].path = p /\ held' = held /\ n + 1 <= Len(p) /\ Len(walked'[w]) = n + 1
    BY <1>1, <1>3, <1>5, <1>7
  <2>4. ASSUME NEW i \in 1..(n + 1)
        PROVE  i <= Len(p) /\ <<Above(w, i)', p[i], walked'[w][i]>> \in held[w]
    <3>1. CASE i = n + 1
      BY <2>2, <2>3, <3>1
    <3>2. CASE i \in 1..n
      BY <2>1, <3>2
    <3> QED
      BY <1>1, <3>1, <3>2
  <2> QED
    BY <2>3, <2>4 DEF WalkIsHeld
<1>14. AnswerIsHeld(w)'
  BY <1>3 DEF AnswerIsHeld, Found, Answered, At
<1> QED
  BY <1>10, <1>11, <1>12, <1>13, <1>14 DEF ThreadInv

(* A step that leaves the history alone and changes the phase of its call. *)
LEMMA OtherInv ==
  ASSUME HTypeOK, NEW w \in Workers, ThreadInv(w), StepOther(w)
  PROVE  ThreadInv(w)'
<1> DEFINE c == call[w]
<1>1. /\ c.phase \in {"lookup", "verify", "evict", "map"} /\ c.path \in Paths
      /\ c.depth \in Nat /\ c.depth <= Len(c.path) /\ Len(c.path) \in Nat \ {0}
      /\ c.phase = "map" => c.depth > 0
  BY CallFacts, PathFacts
     DEF StepOther, LookupHit, LookupMiss, VerifyHit, VerifyMiss, Evict, MapPrefix, At, HTypeOK
<1>2. held' = held /\ walked' = walked /\ tree' = tree
  BY DEF StepOther, historyVars, LookupHit, LookupMiss, VerifyHit, VerifyMiss, Evict, MapPrefix
<1>3. call \in [Workers -> Call]
  BY DEF HTypeOK, TypeOK
<1>4. call'[w].path = c.path /\ c.phase # "idle"
  BY <1>1, <1>3 DEF StepOther, Goto, LookupHit, LookupMiss, VerifyHit, VerifyMiss, Evict,
                    MapPrefix
<1>5. PresentIsHeld(w)'
  BY <1>2, <1>4 DEF ThreadInv, PresentIsHeld, At
<1>6. WalkIsHeld(w)'
  BY <1>2, <1>4 DEF ThreadInv, WalkIsHeld, Above
<1>7. CASE LookupHit(w) \/ LookupMiss(w) \/ VerifyMiss(w) \/ Evict(w)
  <2>1. walked[w] = <<>> /\ c.phase \in {"lookup", "verify", "evict"}
    BY <1>7 DEF ThreadInv, NotYetWalking, LookupHit, LookupMiss, VerifyMiss, Evict, At
  <2>2. /\ call'[w].depth = 0
        /\ call'[w].phase \in {"verify", "evict", "list"}
        /\ call'[w].phase = "list" => call'[w].uid = Root
    BY <1>3, <1>7 DEF Goto, LookupHit, LookupMiss, VerifyMiss, Evict
  <2>3. Len(walked[w]) = 0
    BY <2>1
  <2> QED
    BY <1>2, <1>5, <1>6, <2>1, <2>2, <2>3
       DEF ThreadInv, NotYetWalking, WalkStandsAt, AnswerIsHeld, Found, Answered, At
<1>8. CASE VerifyHit(w)
  <2>1. walked[w] = <<>> /\ HasName(tree, c.uid, Base(c.path))
    BY <1>8 DEF ThreadInv, NotYetWalking, VerifyHit, At
  <2>2. call'[w].phase = "done" /\ call'[w].uid = c.uid
    BY <1>3, <1>8 DEF Goto, VerifyHit
  <2>3. \E d \in Dirs : <<d, Base(c.path), c.uid>> \in Links(tree, c.path)
    BY <1>1, <2>1, NamedIsLink DEF HTypeOK
  <2>4. \E d \in Dirs : <<d, Base(c.path), c.uid>> \in held[w]
    BY <1>4, <2>3 DEF ThreadInv, PresentIsHeld, At
  <2>5. AnswerIsHeld(w)'
    BY <1>2, <1>4, <2>1, <2>2, <2>4 DEF AnswerIsHeld
  <2> QED
    BY <1>2, <1>5, <1>6, <2>2, <2>5 DEF ThreadInv, NotYetWalking, WalkStandsAt
<1>9. CASE MapPrefix(w)
  <2> DEFINE f == IF c.depth = Len(c.path) THEN "done" ELSE "list"
  <2>1. Goto(w, f, c.uid, c.depth) /\ c.phase = "map"
    BY <1>9 DEF MapPrefix, At
  <2>2. call'[w] = [phase |-> f, path |-> c.path, uid |-> c.uid, depth |-> c.depth]
    BY <1>3, <2>1 DEF Goto
  <2>3. Len(walked[w]) = c.depth /\ c.uid = walked[w][c.depth]
    BY <1>1, <2>1 DEF ThreadInv, WalkStandsAt
  <2>4. WalkStandsAt(w)'
    <3>1. call'[w].uid = c.uid /\ call'[w].depth = c.depth /\ c.depth > 0
      BY <1>1, <2>1, <2>2
    <3> QED
      BY <1>1, <1>2, <2>3, <3>1 DEF WalkStandsAt
  <2>5. AnswerIsHeld(w)'
    BY <1>2, <2>2, <2>3 DEF AnswerIsHeld, Found, Answered, At
  <2> QED
    BY <1>5, <1>6, <2>2, <2>4, <2>5 DEF ThreadInv, NotYetWalking
<1> QED
  BY <1>7, <1>8, <1>9 DEF StepOther

(* A thread whose walk ends without a match. *)
LEMMA GiveUpInv ==
  ASSUME HTypeOK, NEW w \in Workers, ThreadInv(w), StepGivesUp(w)
  PROVE  ThreadInv(w)'
<1>1. call'[w] = [phase |-> "done", path |-> call[w].path, uid |-> NoUid, depth |-> call[w].depth]
  BY DEF StepGivesUp, ListMissing, Goto, HTypeOK, TypeOK
<1>2. held' = held /\ walked' = walked /\ tree' = tree /\ call[w].phase = "list"
  BY DEF StepGivesUp, ListMissing, At
<1>3. PresentIsHeld(w)'
  BY <1>1, <1>2 DEF ThreadInv, PresentIsHeld, At
<1>4. WalkIsHeld(w)'
  BY <1>1, <1>2 DEF ThreadInv, WalkIsHeld, Above
<1> QED
  BY <1>1, <1>3, <1>4
     DEF ThreadInv, NotYetWalking, WalkStandsAt, AnswerIsHeld, Found, Answered, At

(* Another client's change only adds to the record. *)
LEMMA ForeignInv ==
  ASSUME HTypeOK, NEW w \in Workers, ThreadInv(w), HForeign
  PROVE  ThreadInv(w)'
<1>1. call' = call /\ walked' = walked
  BY DEF HForeign, Foreign
<1>2. held'[w] = IF At(w, "idle") THEN held[w] ELSE held[w] \cup Links(tree', call[w].path)
  BY DEF HForeign
<1>3. held[w] \subseteq held'[w]
  BY <1>2
<1>4. PresentIsHeld(w)'
  BY <1>1, <1>2 DEF PresentIsHeld, At
<1>5. WalkIsHeld(w)'
  BY <1>1, <1>3 DEF ThreadInv, WalkIsHeld, Above
<1>6. AnswerIsHeld(w)'
  BY <1>1, <1>3 DEF ThreadInv, AnswerIsHeld, Found, Answered, At
<1> QED
  BY <1>1, <1>4, <1>5, <1>6 DEF ThreadInv, NotYetWalking, WalkStandsAt

(* A thread that asks, or takes its answer. *)
LEMMA AskInv ==
  ASSUME HTypeOK, NEW w \in Workers, ThreadInv(w),
         NEW p \in Paths \cup {RootPath}, Ask(w, p)
  PROVE  ThreadInv(w)'
<1>1. /\ call'[w] = [phase |-> IF p = RootPath THEN "done" ELSE "lookup",
                     path |-> p, uid |-> Root, depth |-> 0]
      /\ held'[w] = Links(tree, p) /\ walked' = walked /\ tree' = tree
  BY DEF Ask, StartResolve, Started, HTypeOK, TypeOK
<1>2. walked[w] = <<>>
  BY DEF Ask, StartResolve, Started, ThreadInv, NotYetWalking, At
<1>3. 1..Len(walked[w]) = {}
  BY <1>2
<1>4. PresentIsHeld(w)' /\ NotYetWalking(w)' /\ WalkStandsAt(w)'
  BY <1>1, <1>2 DEF PresentIsHeld, NotYetWalking, WalkStandsAt
<1>5. WalkIsHeld(w)' /\ AnswerIsHeld(w)'
  BY <1>1, <1>3 DEF WalkIsHeld, AnswerIsHeld, Found, Answered, At
<1> QED
  BY <1>4, <1>5 DEF ThreadInv

LEMMA TakeInv ==
  ASSUME HTypeOK, NEW w \in Workers, Take(w)
  PROVE  ThreadInv(w)'
<1>1. call'[w] = NoCall /\ walked'[w] = <<>>
  BY DEF Take, HTypeOK, TypeOK
<1>2. 1..Len(walked'[w]) = {}
  BY <1>1
<1> QED
  BY <1>1, <1>2 DEF NoCall, ThreadInv, PresentIsHeld, NotYetWalking, WalkStandsAt,
                    WalkIsHeld, AnswerIsHeld, Found, Answered, At

(* The history invariant is inductive. *)
LEMMA InitInv == HInit => HistoryInv
<1> SUFFICES ASSUME HInit PROVE HistoryInv
  OBVIOUS
<1>1. HTypeOK
  BY InitType
<1>2. ASSUME NEW w \in Workers PROVE ThreadInv(w)
  <2>1. call[w] = NoCall /\ walked[w] = <<>>
    BY DEF HInit, Init
  <2>2. 1..Len(walked[w]) = {}
    BY <2>1
  <2> QED
    BY <2>1, <2>2 DEF NoCall, ThreadInv, PresentIsHeld, NotYetWalking, WalkStandsAt,
                      WalkIsHeld, AnswerIsHeld, Found, Answered, At
<1> QED
  BY <1>1, <1>2 DEF HistoryInv

LEMMA NextInv == HistoryInv /\ [HNext]_vars => HistoryInv'
<1> SUFFICES ASSUME HistoryInv, [HNext]_vars PROVE HistoryInv'
  OBVIOUS
<1>1. HTypeOK /\ HTypeOK' /\ \A v \in Workers : ThreadInv(v)
  BY NextType DEF HistoryInv
<1>2. call \in [Workers -> Call] /\ held \in [Workers -> SUBSET (Dirs \X Names \X Uids)]
      /\ walked \in [Workers -> Seq(Uids)]
  BY <1>1 DEF HTypeOK, TypeOK
<1> SUFFICES ASSUME NEW v \in Workers PROVE ThreadInv(v)'
  BY <1>1 DEF HistoryInv
<1>3. ASSUME NEW w \in Workers, NEW p \in Paths \cup {RootPath}, Ask(w, p)
      PROVE  ThreadInv(v)'
  <2>1. CASE v = w
    BY <1>1, <1>3, <2>1, AskInv
  <2>2. CASE v # w
    <3>1. /\ call'[v] = call[v] /\ held'[v] = held[v]
          /\ walked' = walked /\ tree' = tree
      BY <1>2, <1>3, <2>2 DEF Ask, StartResolve, Started
    <3> QED
      BY <1>1, <3>1, ThreadFrame
  <2> QED
    BY <2>1, <2>2
<1>4. ASSUME NEW w \in Workers, Step(w)
      PROVE  ThreadInv(v)'
  <2>1. CASE v = w
    BY <1>1, <1>4, <2>1, WalkInv, GiveUpInv, OtherInv DEF Step
  <2>2. CASE v # w
    <3>1. /\ call'[v] = call[v] /\ held' = held
          /\ walked'[v] = walked[v] /\ tree' = tree
      <4>1. CASE StepWalks(w)
        BY <1>2, <2>2, <4>1 DEF StepWalks, ListFound, Goto
      <4>2. CASE StepGivesUp(w)
        BY <1>2, <2>2, <4>2 DEF StepGivesUp, ListMissing, Goto
      <4>3. CASE StepOther(w)
        BY <1>2, <2>2, <4>3 DEF StepOther, historyVars, LookupHit, LookupMiss, VerifyHit,
           VerifyMiss, Evict, MapPrefix, Goto
      <4> QED
        BY <1>4, <4>1, <4>2, <4>3 DEF Step
    <3> QED
      BY <1>1, <3>1, ThreadFrame
  <2> QED
    BY <2>1, <2>2
<1>5. ASSUME NEW w \in Workers, Take(w)
      PROVE  ThreadInv(v)'
  <2>1. CASE v = w
    BY <1>1, <1>5, <2>1, TakeInv
  <2>2. CASE v # w
    <3>1. /\ call'[v] = call[v] /\ held'[v] = held[v]
          /\ walked'[v] = walked[v] /\ tree' = tree
      BY <1>2, <1>5, <2>2 DEF Take
    <3> QED
      BY <1>1, <3>1, ThreadFrame
  <2> QED
    BY <2>1, <2>2
<1>6. CASE HandlerMaps \/ HandlerUnmaps \/ UNCHANGED vars
  <2>1. call' = call /\ held' = held /\ walked' = walked /\ tree' = tree
    BY <1>6 DEF HandlerMaps, HandlerUnmaps, vars, resolverVars, historyVars
  <2> QED
    BY <1>1, <2>1, ThreadFrame
<1>7. CASE HForeign
  BY <1>1, <1>7, ForeignInv
<1> QED
  BY <1>3, <1>4, <1>5, <1>6, <1>7 DEF HNext

-----------------------------------------------------------------------------
(* The service's tree, the cache, the calls of resolvePath and the history *)
(* have their types in every reachable state.                              *)
THEOREM ResolverTypeCorrect == Spec => []TypeOK
<1>1. HistoryInv => TypeOK
  BY DEF HistoryInv, HTypeOK
<1> QED
  BY <1>1, InitInv, NextInv, PTL DEF Spec

(* Whatever the cache held, and whatever other threads and other clients   *)
(* did meanwhile, a uid that resolvePath returns was live under the last   *)
(* name of the path at some instant of the call.                           *)
THEOREM AnswersWereNamed == Spec => []ResolvedWasNamed
<1>1. HistoryInv => ResolvedWasNamed
  <2> SUFFICES ASSUME HistoryInv, NEW w \in Workers, Found(w)
               PROVE  \E d \in Dirs : <<d, Base(call[w].path), call[w].uid>> \in held[w]
    BY DEF ResolvedWasNamed
  <2>1. HTypeOK /\ ThreadInv(w)
    BY DEF HistoryInv
  <2>2. CASE walked[w] = <<>>
    <3>1. call[w].path \in Paths /\ Len(call[w].path) \in Nat \ {0}
      BY <2>1, CallFacts, PathFacts DEF HTypeOK, Found, Answered
    <3>2. Len(walked[w]) # Len(call[w].path)
      BY <2>2, <3>1
    <3> QED
      BY <2>1, <3>2 DEF ThreadInv, AnswerIsHeld
  <2>3. CASE walked[w] # <<>>
    <3>1. PICK p : p = call[w].path
      OBVIOUS
    <3>2. p \in Paths /\ Len(p) \in Nat \ {0} /\ Base(p) = p[Len(p)]
      BY <2>1, <3>1, CallFacts, PathFacts DEF HTypeOK, Found, Answered, Base
    <3>3. Len(walked[w]) = Len(p) /\ call[w].uid = walked[w][Len(p)]
      BY <2>1, <2>3, <3>1 DEF ThreadInv, AnswerIsHeld
    <3>4. <<Above(w, Len(p)), p[Len(p)], walked[w][Len(p)]>> \in held[w]
      BY <2>1, <3>1, <3>2, <3>3 DEF ThreadInv, WalkIsHeld
    <3>5. held[w] \subseteq Dirs \X Names \X Uids
      BY <2>1 DEF HTypeOK
    <3>6. Above(w, Len(p)) \in Dirs
      BY <3>4, <3>5
    <3> QED
      BY <3>1, <3>2, <3>3, <3>4, <3>6
  <2> QED
    BY <2>2, <2>3
<1> QED
  BY <1>1, InitInv, NextInv, PTL DEF Spec

(* Every link of an answer that comes from a walk held at some instant of  *)
(* the call.                                                               *)
THEOREM WalksWereThere == Spec => []WalkWasThere
<1>1. HistoryInv => WalkWasThere
  <2> SUFFICES ASSUME HistoryInv, NEW w \in Workers, Found(w), walked[w] # <<>>
               PROVE  /\ Len(walked[w]) = Len(call[w].path)
                      /\ walked[w][Len(call[w].path)] = call[w].uid
                      /\ \A i \in 1..Len(call[w].path) :
                           <<Above(w, i), call[w].path[i], walked[w][i]>> \in held[w]
    BY DEF WalkWasThere
  <2>1. ThreadInv(w)
    BY DEF HistoryInv
  <2>2. Len(walked[w]) = Len(call[w].path) /\ call[w].uid = walked[w][Len(call[w].path)]
    BY <2>1 DEF ThreadInv, AnswerIsHeld
  <2> QED
    BY <2>1, <2>2 DEF ThreadInv, WalkIsHeld
<1> QED
  BY <1>1, InitInv, NextInv, PTL DEF Spec

-----------------------------------------------------------------------------
(* Where sibling names differ, a path that is never absent leads to one    *)
(* node at every length, and no change of the tree replaces that by        *)
(* another: the walk stands on it, and finds the next.                     *)

NotLost(w) ==
  ~At(w, "idle") /\ ~absent[w] =>
    /\ Denoted(tree, call[w].path) # {}
    /\ call[w].phase \in {"list", "map"} =>
         call[w].uid \in Denoted(tree, Prefix(call[w].path, call[w].depth))
    /\ Answered(w) /\ call[w].uid = NoUid => faulted[w]

RouteInv ==
  /\ HTypeOK
  /\ IsRooted(tree) /\ SiblingsDiffer(tree)
  /\ \A w \in Workers : NotLost(w)

LEMMA NotLostFrame ==
  ASSUME NEW v \in Workers, NotLost(v),
         tree' = tree, call'[v] = call[v], absent'[v] = absent[v], faulted'[v] = faulted[v]
  PROVE  NotLost(v)'
  BY DEF NotLost, Answered, At

(* The call's path, and its prefix that the walk has matched. *)
LEMMA RouteFacts ==
  ASSUME HTypeOK, NEW w \in Workers
  PROVE  /\ call[w].path \in Seq(Names) /\ Len(call[w].path) \in Nat
         /\ call[w].depth \in 0..Len(call[w].path)
         /\ call[w].phase = "list" => /\ call[w].depth \in Nat
                                      /\ call[w].depth + 1 <= Len(call[w].path)
                                      /\ call[w].depth + 1 \in 0..Len(call[w].path)
         /\ call[w].phase \notin {"idle", "done"} => call[w].path # RootPath
<1>1. TypeOK
  BY DEF HTypeOK
<1>2. call[w].path \in Seq(Names) /\ Len(call[w].path) \in Nat
  <2>1. call[w].path \in Paths \cup {RootPath}
    BY <1>1, CallFacts
  <2>2. \A p \in Paths \cup {RootPath} : p \in Seq(Names)
    BY PathFacts, RootPathFacts
  <2> QED
    BY <2>1, <2>2, PrefixFacts, Zenon
<1>3. call[w].phase \notin {"idle", "done"} => call[w].path # RootPath
  BY <1>1, CallFacts, PathFacts
<1> QED
  BY <1>1, <1>2, <1>3, CallFacts

(* The walk takes the one node that the longer prefix leads to. *)
LEMMA WalkIsNotLost ==
  ASSUME HTypeOK, NEW w \in Workers, NotLost(w), StepWalks(w)
  PROVE  NotLost(w)'
<1>1. PICK p, n : p = call[w].path /\ n = call[w].depth
  OBVIOUS
<1>2. p \in Seq(Names) /\ n \in Nat /\ n + 1 <= Len(p) /\ call[w].phase = "list"
  BY <1>1, RouteFacts DEF StepWalks, ListFound, At
<1>3. PICK u \in ChildrenNamed(tree, call[w].uid, p[n + 1]) : Goto(w, "map", u, n + 1)
  BY <1>1 DEF StepWalks, ListFound, Matches
<1>4. call'[w] = [phase |-> "map", path |-> p, uid |-> u, depth |-> n + 1]
  BY <1>1, <1>3 DEF Goto, HTypeOK, TypeOK
<1>5. tree' = tree /\ absent' = absent
  BY DEF StepWalks, ListFound
<1> SUFFICES ASSUME ~absent[w] PROVE NotLost(w)'
  BY <1>5 DEF NotLost
<1>6. Denoted(tree, p) # {} /\ call[w].uid \in Denoted(tree, Prefix(p, n))
  BY <1>1, <1>2 DEF NotLost, At
<1>7. Denoted(tree, Prefix(p, n + 1)) =
        UNION {ChildrenNamed(tree, d, p[n + 1]) : d \in Denoted(tree, Prefix(p, n))}
  BY <1>2, DenotedNext
<1>8. u \in Denoted(tree, Prefix(p, n + 1))
  BY <1>3, <1>6, <1>7
<1> QED
  BY <1>4, <1>5, <1>6, <1>8 DEF NotLost, Answered, At

(* A listing without the next name is one of a path that leads nowhere, or *)
(* it has failed.                                                          *)
LEMMA GivesUpNotLost ==
  ASSUME HTypeOK, IsRooted(tree), SiblingsDiffer(tree),
         NEW w \in Workers, NotLost(w), StepGivesUp(w)
  PROVE  NotLost(w)'
<1>1. PICK p, n : p = call[w].path /\ n = call[w].depth
  OBVIOUS
<1>2. /\ p \in Seq(Names) /\ n \in Nat /\ n + 1 <= Len(p) /\ call[w].phase = "list"
      /\ n \in 0..Len(p) /\ n + 1 \in 0..Len(p)
  BY <1>1, RouteFacts DEF StepGivesUp, ListMissing, At
<1>3. call'[w] = [phase |-> "done", path |-> p, uid |-> NoUid, depth |-> n]
  BY <1>1 DEF StepGivesUp, ListMissing, Goto, HTypeOK, TypeOK
<1>4. tree' = tree /\ absent' = absent
  BY DEF StepGivesUp, ListMissing
<1>5. faulted'[w] = (IsLive(tree, call[w].uid) /\ Matches(w) # {})
  BY DEF StepGivesUp, HTypeOK
<1> SUFFICES ASSUME ~absent[w] PROVE NotLost(w)'
  BY <1>4 DEF NotLost
<1>6. Denoted(tree, p) # {} /\ call[w].uid \in Denoted(tree, Prefix(p, n))
  BY <1>1, <1>2 DEF NotLost, At
<1>7. Denoted(tree, Prefix(p, n + 1)) # {}
  BY <1>2, <1>6, PrefixesLead
<1>8. Denoted(tree, Prefix(p, n + 1)) =
        UNION {ChildrenNamed(tree, d, p[n + 1]) : d \in Denoted(tree, Prefix(p, n))}
  BY <1>2, DenotedNext
<1>9. \A d \in Denoted(tree, Prefix(p, n)) : d = call[w].uid
  BY <1>2, <1>6, DenotedIsOne
<1>10. PICK u : u \in ChildrenNamed(tree, call[w].uid, p[n + 1])
  BY <1>7, <1>8, <1>9
<1>11. IsLive(tree, call[w].uid)
  <2>1. u \in Uids /\ tree[u].status = "live" /\ tree[u].parent = call[w].uid
    BY <1>10, ChildFacts
  <2> QED
    BY <2>1, RootedFacts DEF HTypeOK, TypeOK
<1>12. Matches(w) # {}
  BY <1>1, <1>10 DEF Matches
<1>13. faulted'[w]
  BY <1>5, <1>11, <1>12, Zenon
<1>14. /\ call'[w].phase = "done" /\ call'[w].path = p
       /\ Denoted(tree', call'[w].path) # {}
  BY <1>3, <1>4, <1>6
<1> QED
  BY <1>13, <1>14, Zenon DEF NotLost, Answered, At

LEMMA OtherIsNotLost ==
  ASSUME HTypeOK, NEW w \in Workers, NotLost(w), StepOther(w)
  PROVE  NotLost(w)'
<1> DEFINE c == call[w]
<1>1. c.phase \in {"lookup", "verify", "evict", "map"} /\ c.path \in Seq(Names)
  BY RouteFacts DEF StepOther, LookupHit, LookupMiss, VerifyHit, VerifyMiss, Evict, MapPrefix, At
<1>2. call \in [Workers -> Call]
  BY DEF HTypeOK, TypeOK
<1>3. tree' = tree /\ absent' = absent
  BY DEF StepOther, historyVars, LookupHit, LookupMiss, VerifyHit, VerifyMiss, Evict, MapPrefix
<1> SUFFICES ASSUME ~absent[w] PROVE NotLost(w)'
  BY <1>3 DEF NotLost
<1>4. Denoted(tree, c.path) # {}
  BY <1>1 DEF NotLost, At
<1>5. CASE LookupHit(w) \/ VerifyMiss(w)
  <2>1. call'[w].path = c.path /\ call'[w].phase \in {"verify", "evict"}
    BY <1>2, <1>5 DEF LookupHit, VerifyMiss, Goto
  <2> QED
    BY <1>3, <1>4, <2>1 DEF NotLost, Answered, At
<1>6. CASE LookupMiss(w) \/ Evict(w)
  <2>1. call'[w] = [phase |-> "list", path |-> c.path, uid |-> Root, depth |-> 0]
    BY <1>2, <1>6 DEF LookupMiss, Evict, Goto
  <2>2. Root \in Denoted(tree, Prefix(c.path, 0))
    BY <1>1, PrefixFacts, DenotedRoot
  <2> QED
    BY <1>3, <1>4, <2>1, <2>2 DEF NotLost, Answered, At
<1>7. CASE VerifyHit(w)
  <2>1. call'[w].path = c.path /\ call'[w].phase = "done" /\ call'[w].uid = c.uid
    BY <1>2, <1>7 DEF VerifyHit, Goto
  <2>2. c.uid # NoUid
    BY <1>7, NoUidIsNoUid DEF VerifyHit, HasName
  <2> QED
    BY <1>3, <1>4, <2>1, <2>2 DEF NotLost, Answered, At
<1>8. CASE MapPrefix(w)
  <2>1. /\ call'[w].path = c.path /\ call'[w].uid = c.uid /\ call'[w].depth = c.depth
        /\ call'[w].phase \in {"done", "list"} /\ c.phase = "map"
    BY <1>2, <1>8 DEF MapPrefix, Goto, At
  <2>2. c.uid \in Denoted(tree, Prefix(c.path, c.depth))
    BY <2>1 DEF NotLost, At
  <2>3. c.path \in Seq(Names) /\ c.depth \in 0..Len(c.path)
    BY RouteFacts
  <2>4. c.uid # NoUid
    BY <2>2, <2>3, PrefixFacts, DenotedType, NoUidIsNoUid
  <2> QED
    BY <1>3, <1>4, <2>1, <2>2, <2>4 DEF NotLost, Answered, At
<1> QED
  BY <1>5, <1>6, <1>7, <1>8 DEF StepOther

(* No change by another client leads a path that stays there elsewhere. *)
LEMMA ForeignIsNotLost ==
  ASSUME UniqueNames, HTypeOK, IsRooted(tree), SiblingsDiffer(tree),
         NEW w \in Workers, NotLost(w), HForeign
  PROVE  NotLost(w)'
<1>1. call' = call /\ faulted' = faulted /\ ForeignChange
  BY DEF HForeign, Foreign
<1>2. absent'[w] = (absent[w] \/ (~At(w, "idle") /\ Denoted(tree', call[w].path) = {}))
  BY DEF HForeign, DenotesNothing
<1>3. tree \in Tree
  BY DEF HTypeOK, TypeOK
<1>4. AddsOnlyFresh(tree, tree')
  BY <1>1, <1>3, ForeignKeepsOrder, BroughtIsFresh
<1> SUFFICES ASSUME ~At(w, "idle"), ~absent'[w] PROVE NotLost(w)'
  BY <1>1 DEF NotLost, At
<1>5. Denoted(tree', call[w].path) # {} /\ ~absent[w]
  BY <1>2
<1>6. PICK p, n : p = call[w].path /\ n = call[w].depth
  OBVIOUS
<1>7. p \in Seq(Names) /\ n \in 0..Len(p)
  BY <1>6, RouteFacts
<1>8. Denoted(tree, p) # {}
  BY <1>5, <1>6 DEF NotLost
<1>9. ASSUME call[w].phase \in {"list", "map"}
      PROVE  call[w].uid \in Denoted(tree', Prefix(p, n))
  <2>1. call[w].uid \in Denoted(tree, Prefix(p, n))
    BY <1>5, <1>6, <1>9 DEF NotLost
  <2>2. Denoted(tree', Prefix(p, n)) # {}
    BY <1>5, <1>6, <1>7, PrefixesLead
  <2>3. Denoted(tree', Prefix(p, n)) \subseteq Denoted(tree, Prefix(p, n))
    BY <1>4, <1>7, <1>8, DenotedIsStable
  <2>4. \A u, v \in Denoted(tree, Prefix(p, n)) : u = v
    BY <1>7, DenotedIsOne
  <2> QED
    BY <2>1, <2>2, <2>3, <2>4
<1> QED
  BY <1>1, <1>5, <1>6, <1>9 DEF NotLost, Answered, At

LEMMA AskIsNotLost ==
  ASSUME HTypeOK, NEW w \in Workers, NEW p \in Paths \cup {RootPath}, Ask(w, p)
  PROVE  NotLost(w)'
<1>1. call'[w] = [phase |-> IF p = RootPath THEN "done" ELSE "lookup",
                  path |-> p, uid |-> Root, depth |-> 0]
  BY DEF Ask, StartResolve, Started, HTypeOK, TypeOK
<1>2. tree' = tree /\ absent'[w] = (Denoted(tree, p) = {})
  BY DEF Ask, DenotesNothing, HTypeOK
<1>3. call'[w].path = p /\ call'[w].phase \in {"done", "lookup"} /\ call'[w].uid # NoUid
  BY <1>1, NoUidIsNoUid
<1>4. Denoted(tree', p) # {} \/ absent'[w]
  BY <1>2, Zenon
<1>5. call'[w].phase \notin {"list", "map"}
  BY <1>3
<1> QED
  BY <1>3, <1>4, <1>5, Zenon DEF NotLost, Answered, At

LEMMA InitRoute == UniqueNames /\ HInit => RouteInv
<1> SUFFICES ASSUME UniqueNames, HInit PROVE RouteInv
  OBVIOUS
<1>1. HTypeOK
  BY InitType
<1>2. IsRooted(tree) /\ SiblingsDiffer(tree)
  BY InitTreeIsSound DEF HInit, Init
<1>3. \A w \in Workers : NotLost(w)
  BY DEF NotLost, HInit, Init, NoCall, At
<1> QED
  BY <1>1, <1>2, <1>3 DEF RouteInv

LEMMA NextRoute == UniqueNames /\ RouteInv /\ [HNext]_vars => RouteInv'
<1> SUFFICES ASSUME UniqueNames, RouteInv, [HNext]_vars PROVE RouteInv'
  OBVIOUS
<1>1. HTypeOK /\ HTypeOK' /\ \A v \in Workers : NotLost(v)
  BY NextType DEF RouteInv
<1>2. IsRooted(tree) /\ SiblingsDiffer(tree) /\ tree \in Tree
  BY <1>1 DEF RouteInv, HTypeOK, TypeOK
<1>3. /\ call \in [Workers -> Call]
      /\ absent \in [Workers -> BOOLEAN] /\ faulted \in [Workers -> BOOLEAN]
  BY <1>1 DEF HTypeOK, TypeOK
<1>4. IsRooted(tree') /\ SiblingsDiffer(tree')
  <2>1. CASE tree' = tree
    BY <1>2, <2>1
  <2>2. CASE HForeign
    BY <1>2, <2>2, ForeignKeepsOrder, BroughtIsFresh DEF HForeign, Foreign
  <2>3. HForeign \/ tree' = tree
    BY DEF HNext, vars, resolverVars, Ask, Take, HandlerMaps, HandlerUnmaps, Step, StepWalks,
           StepGivesUp, StepOther, ListFound, ListMissing, LookupHit, LookupMiss, VerifyHit,
           VerifyMiss, Evict, MapPrefix
  <2> QED
    BY <2>1, <2>2, <2>3
<1>5. ASSUME NEW v \in Workers PROVE NotLost(v)'
  <2>1. ASSUME NEW w \in Workers, NEW p \in Paths \cup {RootPath}, Ask(w, p)
        PROVE  NotLost(v)'
    <3>1. CASE v = w
      BY <1>1, <2>1, <3>1, AskIsNotLost
    <3>2. CASE v # w
      <4>1. tree' = tree /\ call'[v] = call[v] /\ absent'[v] = absent[v] /\ faulted' = faulted
        BY <1>3, <2>1, <3>2 DEF Ask, StartResolve, Started
      <4> QED
        BY <1>1, <4>1, NotLostFrame
    <3> QED
      BY <3>1, <3>2
  <2>2. ASSUME NEW w \in Workers, Step(w)
        PROVE  NotLost(v)'
    <3>1. CASE v = w
      BY <1>1, <1>2, <2>2, <3>1, WalkIsNotLost, GivesUpNotLost, OtherIsNotLost DEF Step
    <3>2. CASE v # w
      <4>1. tree' = tree /\ call'[v] = call[v] /\ absent' = absent /\ faulted'[v] = faulted[v]
        <5>1. CASE StepWalks(w)
          BY <1>3, <3>2, <5>1 DEF StepWalks, ListFound, Goto
        <5>2. CASE StepGivesUp(w)
          BY <1>3, <3>2, <5>2 DEF StepGivesUp, ListMissing, Goto
        <5>3. CASE StepOther(w)
          BY <1>3, <3>2, <5>3 DEF StepOther, historyVars, LookupHit, LookupMiss, VerifyHit,
             VerifyMiss, Evict, MapPrefix, Goto
        <5> QED
          BY <2>2, <5>1, <5>2, <5>3 DEF Step
      <4> QED
        BY <1>1, <4>1, NotLostFrame
    <3> QED
      BY <3>1, <3>2
  <2>3. ASSUME NEW w \in Workers, Take(w)
        PROVE  NotLost(v)'
    <3>1. CASE v = w
      <4>1. call'[w] = NoCall
        BY <1>3, <2>3 DEF Take
      <4> QED
        BY <3>1, <4>1 DEF NotLost, NoCall, At
    <3>2. CASE v # w
      <4>1. tree' = tree /\ call'[v] = call[v] /\ absent'[v] = absent[v] /\ faulted'[v] = faulted[v]
        BY <1>3, <2>3, <3>2 DEF Take
      <4> QED
        BY <1>1, <4>1, NotLostFrame
    <3> QED
      BY <3>1, <3>2
  <2>4. CASE HandlerMaps \/ HandlerUnmaps \/ UNCHANGED vars
    <3>1. tree' = tree /\ call' = call /\ absent' = absent /\ faulted' = faulted
      BY <2>4 DEF HandlerMaps, HandlerUnmaps, vars, resolverVars, historyVars
    <3> QED
      BY <1>1, <3>1, NotLostFrame
  <2>5. CASE HForeign
    BY <1>1, <1>2, <2>5, ForeignIsNotLost
  <2> QED
    BY <2>1, <2>2, <2>3, <2>4, <2>5 DEF HNext
<1> QED
  BY <1>1, <1>4, <1>5 DEF RouteInv

(* Where the service keeps sibling names apart, resolvePath answers "no    *)
(* such path" only when the path was absent at some instant of the call,   *)
(* or a listing failed, however many clients move, rename, remove and      *)
(* create meanwhile.                                                       *)
THEOREM MissesAreJustified ==
  ASSUME UniqueNames
  PROVE  Spec => []NotFoundIsJustified
<1>1. RouteInv => NotFoundIsJustified
  BY DEF RouteInv, NotLost, NotFoundIsJustified, Answered, At
<1>2. HInit => RouteInv
  BY InitRoute
<1>3. RouteInv /\ [HNext]_vars => RouteInv'
  BY NextRoute
<1> QED
  BY <1>1, <1>2, <1>3, PTL DEF Spec

-----------------------------------------------------------------------------
(* The resolver, with its cache shared by any number of threads,           *)
(* implements the name service that has none: its initial state is one of  *)
(* the service, and every step of it is one of the service or none.        *)

Questions == [w \in Workers |-> QuestionOf(call[w])]

(* A step in which no caller can tell anything. *)
LEMMA QuietStep ==
  ASSUME tree' = tree, held' = held,
         \A v \in Workers : QuestionOf(call[v])' = QuestionOf(call[v])
  PROVE  UNCHANGED Service!nameVars
BY DEF Service!nameVars, QuestionOf

(* The question of a call, phase by phase. *)
LEMMA QuestionFacts ==
  ASSUME NEW c
  PROVE  /\ c.phase = "idle" =>
              QuestionOf(c) = [state |-> "idle", path |-> c.path, uid |-> NoUid]
         /\ c.phase = "done" =>
              QuestionOf(c) = [state |-> "answered", path |-> c.path, uid |-> c.uid]
         /\ c.phase \notin {"idle", "done"} =>
              QuestionOf(c) = [state |-> "asked", path |-> c.path, uid |-> NoUid]
BY DEF QuestionOf

LEMMA InitRefines == HInit => Service!NameInit
<1> SUFFICES ASSUME HInit PROVE Service!NameInit
  OBVIOUS
<1>1. \A w \in Workers : call[w] = NoCall
  BY DEF HInit, Init
<1>2. QuestionOf(NoCall) = [state |-> "idle", path |-> <<>>, uid |-> NoUid]
  BY DEF QuestionOf, NoCall, RootPath
<1> QED
  BY <1>1, <1>2 DEF HInit, Init, Service!NameInit, Service!NoQuestion, Service!NoUid, NoUid

(* One call changes: so does one question, or none. *)
LEMMA QuestionStep ==
  ASSUME NEW w \in Workers, call \in [Workers -> Call], NEW c,
         call' = [call EXCEPT ![w] = c]
  PROVE  Questions' = [Questions EXCEPT ![w] = QuestionOf(c)]
BY DEF Questions

LEMMA SameLinks == \A t, p : Service!Links(t, p) = Links(t, p)
BY DEF Links, Service!Links, ChildrenNamed, Service!ChildrenNamed, Children,
       Service!Children, Dirs, Service!Dirs

(* The service's steps, in terms of the questions. *)
LEMMA AsksAsService ==
  ASSUME NEW w \in Workers, NEW p \in Paths \cup {<<>>},
         Questions[w].state = "idle",
         Questions' = [Questions EXCEPT ![w] =
            IF p = <<>> THEN [state |-> "answered", path |-> p, uid |-> Root]
            ELSE [state |-> "asked", path |-> p, uid |-> NoUid]],
         held' = [held EXCEPT ![w] = Links(tree, p)], tree' = tree
  PROVE  Service!ClientSteps
<1>1. Service!AskName(w, p)
  BY SameLinks DEF Service!AskName, Questions, Service!NoUid, NoUid
<1>2. Questions' # Questions
  BY DEF Questions
<1> QED
  BY <1>1, <1>2 DEF Service!ClientSteps, Questions

LEMMA AnswersAsService ==
  ASSUME NEW w \in Workers, Questions[w].state = "asked",
         NEW u \in Service!Named(held[w], Questions[w].path) \cup {NoUid},
         Questions' = [Questions EXCEPT ![w] =
            [state |-> "answered", path |-> Questions[w].path, uid |-> u]],
         held' = held, tree' = tree
  PROVE  Service!ClientSteps
<1>1. Service!AnswerName(w)
  BY DEF Service!AnswerName, Questions, Service!NoUid, NoUid
<1>2. Questions' # Questions
  BY DEF Questions
<1> QED
  BY <1>1, <1>2 DEF Service!ClientSteps, Questions

LEMMA TakesAsService ==
  ASSUME NEW w \in Workers, Questions[w].state = "answered",
         Questions' = [Questions EXCEPT ![w] = Service!NoQuestion],
         held' = [held EXCEPT ![w] = {}], tree' = tree
  PROVE  Service!ClientSteps
<1>1. Service!TakeAnswer(w)
  BY DEF Service!TakeAnswer, Questions
<1>2. Questions' # Questions
  BY DEF Questions, Service!NoQuestion
<1> QED
  BY <1>1, <1>2 DEF Service!ClientSteps, Questions

-----------------------------------------------------------------------------
(* The steps of a call *)

(* A call that looks further asks what it asked. *)
LEMMA LooksFurther ==
  ASSUME HTypeOK, NEW w \in Workers, call[w].phase \notin {"idle", "done"},
         NEW f \in Phases \ {"idle", "done"}, NEW u, NEW n, Goto(w, f, u, n),
         tree' = tree, held' = held
  PROVE  UNCHANGED Service!nameVars
<1> DEFINE c == [phase |-> f, path |-> call[w].path, uid |-> u, depth |-> n]
<1>1. QuestionOf(c) = QuestionOf(call[w])
  BY DEF QuestionOf
<1>2. Questions' = [Questions EXCEPT ![w] = QuestionOf(c)]
  BY QuestionStep DEF Goto, HTypeOK, TypeOK
<1>3. Questions' = Questions
  BY <1>1, <1>2 DEF Questions
<1> QED
  BY <1>3 DEF Service!nameVars, Questions

(* A call that ends answers its question. *)
LEMMA EndsAnswered ==
  ASSUME HTypeOK, NEW w \in Workers, call[w].phase \notin {"idle", "done"},
         NEW u \in Service!Named(held[w], call[w].path) \cup {NoUid}, NEW n,
         Goto(w, "done", u, n), tree' = tree, held' = held
  PROVE  Service!ClientSteps
<1> DEFINE c == [phase |-> "done", path |-> call[w].path, uid |-> u, depth |-> n]
<1>1. QuestionOf(c) = [state |-> "answered", path |-> call[w].path, uid |-> u]
  BY DEF QuestionOf
<1>2. Questions' = [Questions EXCEPT ![w] = QuestionOf(c)]
  BY QuestionStep DEF Goto, HTypeOK, TypeOK
<1>3. Questions[w].state = "asked" /\ Questions[w].path = call[w].path
  BY QuestionFacts DEF Questions
<1> QED
  BY <1>1, <1>2, <1>3, AnswersAsService

(* A node that the records name may be the answer. *)
LEMMA HeldIsNamed ==
  ASSUME NEW S, NEW p, NEW d, NEW u, <<d, p[Len(p)], u>> \in S
  PROVE  u \in Service!Named(S, p)
BY DEF Service!Named

LEMMA VerifyHitRefines ==
  ASSUME HistoryInv, NEW w \in Workers, VerifyHit(w), held' = held
  PROVE  Service!ClientSteps
<1>1. HTypeOK /\ TypeOK /\ ThreadInv(w) /\ call[w].phase = "verify" /\ tree' = tree
  BY DEF HistoryInv, HTypeOK, VerifyHit, At
<1>2. call[w].path \in Paths
  BY <1>1, CallFacts
<1>3. PICK d \in Dirs : <<d, Base(call[w].path), call[w].uid>> \in Links(tree, call[w].path)
  BY <1>1, <1>2, NamedIsLink DEF VerifyHit
<1>4. <<d, call[w].path[Len(call[w].path)], call[w].uid>> \in held[w]
  BY <1>1, <1>3 DEF ThreadInv, PresentIsHeld, At, Base
<1>5. call[w].uid \in Service!Named(held[w], call[w].path)
  BY <1>4, HeldIsNamed
<1> QED
  BY <1>1, <1>5, EndsAnswered DEF VerifyHit

LEMMA MapPrefixRefines ==
  ASSUME HistoryInv, NEW w \in Workers, MapPrefix(w), held' = held
  PROVE  Service!ClientSteps \/ UNCHANGED Service!nameVars
<1> DEFINE p == call[w].path
<1>1. HTypeOK /\ TypeOK /\ ThreadInv(w) /\ call[w].phase = "map" /\ tree' = tree
  BY DEF HistoryInv, HTypeOK, MapPrefix, At
<1>2. p \in Paths /\ Len(p) \in 1..Len(p)
  BY <1>1, CallFacts, PathFacts
<1>3. CASE call[w].depth = Len(p)
  <2>1. Goto(w, "done", call[w].uid, call[w].depth)
    BY <1>3 DEF MapPrefix
  <2>2. Len(walked[w]) = Len(p) /\ call[w].uid = walked[w][Len(p)]
    BY <1>1, <1>2, <1>3 DEF ThreadInv, WalkStandsAt
  <2>3. <<Above(w, Len(p)), p[Len(p)], call[w].uid>> \in held[w]
    BY <1>1, <1>2, <2>2 DEF ThreadInv, WalkIsHeld
  <2>4. call[w].uid \in Service!Named(held[w], p)
    BY <2>3, HeldIsNamed
  <2> QED
    BY <1>1, <2>1, <2>4, EndsAnswered
<1>4. CASE call[w].depth # Len(p)
  <2>1. Goto(w, "list", call[w].uid, call[w].depth)
    BY <1>4 DEF MapPrefix
  <2> QED
    BY <1>1, <2>1, LooksFurther DEF Phases
<1> QED
  BY <1>3, <1>4

LEMMA StepRefines ==
  ASSUME HistoryInv, NEW w \in Workers, Step(w)
  PROVE  Service!ClientSteps \/ UNCHANGED Service!nameVars
<1>1. HTypeOK /\ held' = held /\ tree' = tree
  BY DEF HistoryInv, Step, StepWalks, StepGivesUp, StepOther, ListFound, ListMissing, LookupHit,
         LookupMiss, VerifyHit, VerifyMiss, Evict, MapPrefix, historyVars
<1>2. CASE StepWalks(w)
  BY <1>1, <1>2, LooksFurther DEF StepWalks, ListFound, At, Phases
<1>3. CASE StepGivesUp(w)
  BY <1>1, <1>3, EndsAnswered DEF StepGivesUp, ListMissing, At
<1>4. CASE LookupHit(w) \/ LookupMiss(w) \/ VerifyMiss(w) \/ Evict(w)
  BY <1>1, <1>4, LooksFurther DEF LookupHit, LookupMiss, VerifyMiss, Evict, At, Phases
<1>5. CASE VerifyHit(w)
  BY <1>1, <1>5, VerifyHitRefines
<1>6. CASE MapPrefix(w)
  BY <1>1, <1>6, MapPrefixRefines
<1> QED
  BY <1>2, <1>3, <1>4, <1>5, <1>6 DEF Step, StepOther

LEMMA AskRefines ==
  ASSUME HTypeOK, NEW w \in Workers, NEW p \in Paths \cup {RootPath}, Ask(w, p)
  PROVE  Service!ClientSteps
<1>1. call[w].phase = "idle" /\ call' = [call EXCEPT ![w] = Started(p)]
  BY DEF Ask, StartResolve, At
<1>2. Questions' = [Questions EXCEPT ![w] = QuestionOf(Started(p))]
  BY <1>1, QuestionStep DEF HTypeOK, TypeOK
<1>3. Questions[w].state = "idle"
  BY <1>1, QuestionFacts DEF Questions
<1>4. QuestionOf(Started(p)) = IF p = <<>> THEN [state |-> "answered", path |-> p, uid |-> Root]
                               ELSE [state |-> "asked", path |-> p, uid |-> NoUid]
  BY DEF QuestionOf, Started, RootPath
<1>5. held' = [held EXCEPT ![w] = Links(tree, p)] /\ tree' = tree
  BY DEF Ask
<1> QED
  BY <1>2, <1>3, <1>4, <1>5, AsksAsService DEF RootPath

LEMMA TakeRefines ==
  ASSUME HTypeOK, NEW w \in Workers, Take(w)
  PROVE  Service!ClientSteps
<1>1. Questions' = [Questions EXCEPT ![w] = QuestionOf(NoCall)]
  BY QuestionStep DEF Take, HTypeOK, TypeOK
<1>2. QuestionOf(NoCall) = Service!NoQuestion
  BY DEF QuestionOf, NoCall, RootPath, Service!NoQuestion, Service!NoUid, NoUid
<1>3. Questions[w].state = "answered"
  BY QuestionFacts DEF Questions, Take, At
<1> QED
  BY <1>1, <1>2, <1>3, TakesAsService DEF Take

-----------------------------------------------------------------------------
(* A change of the tree: the service's, or one that leaves the tree as it  *)
(* was, and then the records too.                                          *)
LEMMA ForeignRefines ==
  ASSUME HistoryInv, HForeign
  PROVE  Service!TreeChanges \/ UNCHANGED Service!nameVars
<1>1. HTypeOK /\ TypeOK /\ call' = call
  BY DEF HistoryInv, HTypeOK, HForeign, Foreign
<1>2. Questions' = Questions
  BY <1>1 DEF Questions
<1>3. CASE tree' = tree
  <2>1. \A w \in Workers : ~At(w, "idle") => held[w] \cup Links(tree', call[w].path) = held[w]
    BY <1>3 DEF HistoryInv, ThreadInv, PresentIsHeld
  <2>2. held' = held
    BY <1>1, <2>1 DEF HForeign, HTypeOK
  <2> QED
    BY <1>2, <1>3, <2>2 DEF Service!nameVars, Questions
<1>4. CASE tree' # tree
  <2>1. tree' \in Tree
    BY <1>1, ForeignKeepsTree DEF HForeign, Foreign, TypeOK
  <2>2. tree' \in Service!Tree
    BY <2>1 DEF Tree, Node, Kinds, Dirs, Service!Tree, Service!Node, Service!Kinds,
                Service!Dirs
  <2>3. \A w \in Workers : /\ Questions[w].state = "idle" <=> At(w, "idle")
                           /\ Questions[w].path = call[w].path
    BY DEF Questions, QuestionOf, At
  <2>4. held' = [w \in Workers |->
          IF Questions[w].state = "idle" THEN held[w]
          ELSE held[w] \cup Service!Links(tree', Questions[w].path)]
    BY <2>3, SameLinks DEF HForeign
  <2> QED
    BY <1>2, <1>4, <2>2, <2>4 DEF Service!TreeChanges, Questions
<1> QED
  BY <1>3, <1>4

LEMMA NextRefines == HistoryInv /\ [HNext]_vars => [Service!NameNext]_Service!nameVars
<1> SUFFICES ASSUME HistoryInv, [HNext]_vars
             PROVE  Service!NameNext \/ UNCHANGED Service!nameVars
  OBVIOUS
<1>1. ASSUME NEW w \in Workers, NEW p \in Paths \cup {RootPath}, Ask(w, p)
      PROVE  Service!NameNext
  BY <1>1, AskRefines DEF HistoryInv, Service!NameNext
<1>2. ASSUME NEW w \in Workers, Step(w)
      PROVE  Service!NameNext \/ UNCHANGED Service!nameVars
  BY <1>2, StepRefines DEF Service!NameNext
<1>3. ASSUME NEW w \in Workers, Take(w) PROVE Service!NameNext
  BY <1>3, TakeRefines DEF HistoryInv, Service!NameNext
<1>4. CASE HandlerMaps \/ HandlerUnmaps \/ UNCHANGED vars
  <2>1. tree' = tree /\ held' = held /\ call' = call
    BY <1>4 DEF HandlerMaps, HandlerUnmaps, vars, resolverVars, historyVars
  <2> QED
    BY <2>1, QuietStep
<1>5. CASE HForeign
  BY <1>5, ForeignRefines DEF Service!NameNext
<1> QED
  BY <1>1, <1>2, <1>3, <1>4, <1>5 DEF HNext

(* The resolver of path_resolver.cpp, whatever its cache holds and for any *)
(* number of threads, paths and nodes, implements the name service that    *)
(* has neither a cache nor a walk.                                         *)
THEOREM ResolverImplementsNameService == Spec => ImplementsNameService
<1>1. HInit => Service!NameInit
  BY InitRefines
<1> QED
  BY <1>1, InitInv, NextInv, NextRefines, PTL DEF Spec, ImplementsNameService, Service!NameSpec
=============================================================================
