----------------------------- MODULE CoreProofs -----------------------------
(***************************************************************************)
(* What proofs about the resolver and about the handlers share: where a    *)
(* path leads (Denoted, a recursive function, so that its facts are proved *)
(* by induction on the length of the path), and what the core's RPCs keep. *)
(***************************************************************************)
EXTENDS PathResolver, WellFoundedInduction, TLAPS

-----------------------------------------------------------------------------
(* Induction *)

(* Induction, from the least member of the numbers that are not in S. *)
LEMMA SetInduction ==
  ASSUME NEW S \in SUBSET Nat, 0 \in S, \A n \in S : n + 1 \in S
  PROVE  S = Nat
<1> DEFINE R == OpToRel(<, Nat)
           T == Nat \ S
<1>1. IsWellFoundedOn(R, Nat)
  BY NatLessThanWellFounded
<1>2. \A x, y \in Nat : x < y => <<x, y>> \in R
  BY DEF OpToRel
<1> SUFFICES ASSUME T # {} PROVE FALSE
  OBVIOUS
<1> HIDE DEF R
<1>3. PICK x \in T : \A y \in T : <<y, x>> \notin R
  BY <1>1, WFMin
<1>4. x # 0 /\ x \in Nat /\ x - 1 \in Nat /\ x - 1 < x
  BY <1>3
<1>5. <<x - 1, x>> \in R
  BY <1>2, <1>4
<1>6. x - 1 \in S
  BY <1>3, <1>4, <1>5
<1>7. (x - 1) + 1 = x
  BY <1>4
<1>8. x \in S
  BY <1>6, <1>7
<1> QED
  BY <1>3, <1>8

-----------------------------------------------------------------------------
(* Where paths lead *)

(* The levels of the walk along p in t: f[i] is what the first i names     *)
(* lead to.                                                                *)
NextLevel(t, p, f, i) == UNION {ChildrenNamed(t, d, p[i]) : d \in f[i - 1]}

AreLevels(f, t, p, n) ==
  f = [i \in 0..n |-> IF i = 0 THEN {Root} ELSE NextLevel(t, p, f, i)]

LEMMA LevelsAre ==
  ASSUME NEW t, NEW p, NEW f, NEW n \in Nat
  PROVE  AreLevels(f, t, p, n) <=>
           /\ f = [i \in 0..n |-> f[i]]
           /\ f[0] = {Root}
           /\ \A i \in 1..n : f[i] = NextLevel(t, p, f, i)
<1>1. ASSUME AreLevels(f, t, p, n)
      PROVE  /\ f = [i \in 0..n |-> f[i]]
             /\ f[0] = {Root}
             /\ \A i \in 1..n : f[i] = NextLevel(t, p, f, i)
  <2> DEFINE e(i) == IF i = 0 THEN {Root} ELSE NextLevel(t, p, f, i)
  <2>1. f = [i \in 0..n |-> e(i)]
    BY <1>1, Zenon DEF AreLevels
  <2>2. \A i \in 0..n : f[i] = e(i)
    <3> HIDE DEF e
    <3> QED
      BY <2>1
  <2>3. f = [i \in 0..n |-> f[i]]
    <3> HIDE DEF e
    <3> QED
      BY <2>1
  <2>4. f[0] = {Root}
    BY <2>2
  <2>5. \A i \in 1..n : i \in 0..n /\ i # 0
    OBVIOUS
  <2>6. \A i \in 1..n : f[i] = NextLevel(t, p, f, i)
    BY <2>2, <2>5, Zenon
  <2> QED
    BY <2>3, <2>4, <2>6, Zenon
<1>2. ASSUME f = [i \in 0..n |-> f[i]], f[0] = {Root},
             \A i \in 1..n : f[i] = NextLevel(t, p, f, i)
      PROVE  AreLevels(f, t, p, n)
  <2>1. \A i \in 0..n : f[i] = IF i = 0 THEN {Root} ELSE NextLevel(t, p, f, i)
    BY <1>2
  <2>2. [i \in 0..n |-> f[i]] = [i \in 0..n |-> IF i = 0 THEN {Root} ELSE NextLevel(t, p, f, i)]
    BY <2>1
  <2> QED
    BY <1>2, <2>2, Zenon DEF AreLevels
<1> QED
  BY <1>1, <1>2

LEMMA LevelsExist ==
  ASSUME NEW t, NEW p, NEW m \in Nat
  PROVE  \E f : AreLevels(f, t, p, m)
<1> DEFINE S == {n \in Nat : \E f : AreLevels(f, t, p, n)}
<1>1. 0 \in S
  <2> DEFINE f == [i \in 0..0 |-> {Root}]
  <2>1. AreLevels(f, t, p, 0)
    BY DEF AreLevels
  <2> QED
    BY <2>1
<1>2. ASSUME NEW n \in S PROVE n + 1 \in S
  <2>1. n \in Nat
    OBVIOUS
  <2>2. PICK f : AreLevels(f, t, p, n)
    OBVIOUS
  <2> DEFINE top == NextLevel(t, p, f, n + 1)
             g == [i \in 0..(n + 1) |-> IF i <= n THEN f[i] ELSE top]
  <2>3. \A i \in 0..n : g[i] = f[i]
    BY <2>1
  <2>4. g[n + 1] = top
    BY <2>1
  <2>5. g[0] = {Root}
    BY <2>1, <2>2, <2>3, LevelsAre
  <2>6. \A i \in 1..(n + 1) : NextLevel(t, p, g, i) = NextLevel(t, p, f, i)
    <3>1. \A i \in 1..(n + 1) : g[i - 1] = f[i - 1]
      BY <2>1, <2>3
    <3> QED
      BY <3>1 DEF NextLevel
  <2>7. \A i \in 1..n : f[i] = NextLevel(t, p, f, i)
    BY <2>1, <2>2, LevelsAre
  <2>8. g = [i \in 0..(n + 1) |-> g[i]]
    OBVIOUS
  <2> HIDE DEF g
  <2>9. \A i \in 1..(n + 1) : g[i] = NextLevel(t, p, g, i)
    <3> SUFFICES ASSUME NEW i \in 1..(n + 1) PROVE g[i] = NextLevel(t, p, g, i)
      OBVIOUS
    <3>1. CASE i = n + 1
      BY <3>1, <2>4, <2>6
    <3>2. CASE i \in 1..n
      BY <3>2, <2>3, <2>6, <2>7
    <3> QED
      BY <3>1, <3>2, <2>1
  <2>10. n + 1 \in Nat
    BY <2>1
  <2>11. AreLevels(g, t, p, n + 1)
    BY <2>5, <2>8, <2>9, <2>10, LevelsAre, Zenon
  <2> QED
    BY <2>10, <2>11
<1>3. S \in SUBSET Nat
  OBVIOUS
<1> HIDE DEF S
<1>4. S = Nat
  BY <1>1, <1>2, <1>3, SetInduction
<1> QED
  BY <1>4 DEF S

(* Denoted is the last level. *)
LEMMA DenotedLevel ==
  ASSUME NEW t, NEW p, Len(p) \in Nat
  PROVE  \E f : AreLevels(f, t, p, Len(p)) /\ Denoted(t, p) = f[Len(p)]
<1> DEFINE g == CHOOSE f : AreLevels(f, t, p, Len(p))
<1>1. AreLevels(g, t, p, Len(p))
  BY LevelsExist
<1>2. Denoted(t, p) = g[Len(p)]
  BY DEF Denoted, AreLevels, NextLevel
<1> QED
  BY <1>1, <1>2

(* A path that is asked for has a first and a last segment, both names,    *)
(* and prefixes that are paths.                                            *)
LEMMA PathFacts ==
  ASSUME NEW p \in Paths
  PROVE  /\ p \in Seq(Names)
         /\ Len(p) \in Nat \ {0}
         /\ p # RootPath
         /\ \A i \in 1..Len(p) : p[i] \in Names
         /\ Base(p) \in Names
         /\ \A i \in 1..Len(p) : Prefix(p, i) \in Paths
<1>1. p \in Seq(Names) /\ p # <<>>
  BY PathsArePrefixClosed
<1>2. Len(p) \in Nat \ {0}
  BY <1>1
<1>3. \A i \in 1..Len(p) : Prefix(p, i) \in Paths
  BY PathsArePrefixClosed DEF Prefix
<1> QED
  BY <1>1, <1>2, <1>3 DEF Base, RootPath

LEMMA RootPathFacts == RootPath \in Seq(Names) /\ Len(RootPath) = 0
  BY DEF RootPath

LEMMA PrefixFacts ==
  ASSUME NEW p \in Seq(Names)
  PROVE  /\ Len(p) \in Nat
         /\ Prefix(p, 0) = RootPath
         /\ Prefix(p, Len(p)) = p
         /\ \A k \in 0..Len(p) : /\ Prefix(p, k) \in Seq(Names)
                                 /\ Len(Prefix(p, k)) = k
                                 /\ \A i \in 1..k : Prefix(p, k)[i] = p[i]
BY DEF Prefix, RootPath

(* The levels of a path hold those of its prefixes. *)
LEMMA LevelsOfPrefix ==
  ASSUME NEW t, NEW p \in Seq(Names), NEW f, AreLevels(f, t, p, Len(p)), NEW k \in 0..Len(p)
  PROVE  Denoted(t, Prefix(p, k)) = f[k]
<1> DEFINE q == Prefix(p, k)
<1>1. /\ Len(p) \in Nat /\ k \in Nat /\ k <= Len(p)
      /\ Len(q) = k /\ \A i \in 1..k : q[i] = p[i]
  BY PrefixFacts
<1> HIDE DEF q
<1>2. PICK g : AreLevels(g, t, q, k) /\ Denoted(t, q) = g[k]
  BY <1>1, DenotedLevel
<1>3. g[0] = {Root} /\ \A i \in 1..k : g[i] = NextLevel(t, q, g, i)
  BY <1>1, <1>2, LevelsAre
<1>4. f[0] = {Root} /\ \A i \in 1..Len(p) : f[i] = NextLevel(t, p, f, i)
  BY <1>1, LevelsAre
<1> DEFINE S == {i \in Nat : i <= k => g[i] = f[i]}
<1>5. 0 \in S
  BY <1>3, <1>4
<1>6. ASSUME NEW i \in S PROVE i + 1 \in S
  <2>1. i \in Nat /\ (i + 1) - 1 = i
    OBVIOUS
  <2> SUFFICES ASSUME i + 1 <= k PROVE g[i + 1] = f[i + 1]
    BY <2>1
  <2>2. g[i] = f[i] /\ i + 1 \in 1..k /\ i + 1 \in 1..Len(p)
    BY <1>1, <2>1
  <2>3. q[i + 1] = p[i + 1]
    BY <1>1, <2>2
  <2>4. NextLevel(t, q, g, i + 1) = NextLevel(t, p, f, i + 1)
    BY <2>1, <2>2, <2>3 DEF NextLevel
  <2> QED
    BY <1>3, <1>4, <2>2, <2>4
<1>7. S \in SUBSET Nat
  OBVIOUS
<1> HIDE DEF S
<1>8. S = Nat
  BY <1>5, <1>6, <1>7, SetInduction
<1>9. g[k] = f[k]
  BY <1>1, <1>8 DEF S
<1> QED
  BY <1>2, <1>9 DEF q

(* A path leads to the children, of its last name, of what the path that   *)
(* is one name shorter leads to.                                           *)
LEMMA DenotedRoot ==
  ASSUME NEW t
  PROVE  Denoted(t, RootPath) = {Root}
<1>1. RootPath \in Seq(Names) /\ Len(RootPath) = 0
  BY DEF RootPath
<1>2. PICK f : AreLevels(f, t, RootPath, Len(RootPath))
  BY <1>1, LevelsExist
<1>3. f[0] = {Root}
  BY <1>1, <1>2, LevelsAre
<1>4. Prefix(RootPath, 0) = RootPath /\ 0 \in 0..Len(RootPath)
  <2>1. 0 \in 0..Len(RootPath)
    BY <1>1
  <2> QED
    BY <1>1, <2>1, PrefixFacts, Zenon
<1>5. Denoted(t, Prefix(RootPath, 0)) = f[0]
  BY <1>1, <1>2, <1>4, LevelsOfPrefix
<1> QED
  BY <1>3, <1>4, <1>5

LEMMA DenotedNext ==
  ASSUME NEW t, NEW p \in Seq(Names), NEW k \in Nat, k + 1 <= Len(p)
  PROVE  Denoted(t, Prefix(p, k + 1)) =
           UNION {ChildrenNamed(t, d, p[k + 1]) : d \in Denoted(t, Prefix(p, k))}
<1>1. Len(p) \in Nat
  BY PrefixFacts
<1>2. PICK f : AreLevels(f, t, p, Len(p))
  BY <1>1, LevelsExist
<1>3. k \in 0..Len(p) /\ k + 1 \in 0..Len(p) /\ k + 1 \in 1..Len(p) /\ (k + 1) - 1 = k
  BY <1>1
<1>4. f[k + 1] = NextLevel(t, p, f, k + 1)
  BY <1>1, <1>2, <1>3, LevelsAre
<1>5. Denoted(t, Prefix(p, k)) = f[k] /\ Denoted(t, Prefix(p, k + 1)) = f[k + 1]
  BY <1>2, <1>3, LevelsOfPrefix
<1> QED
  BY <1>3, <1>4, <1>5 DEF NextLevel

(* The last name of p, and the path without it. *)
LEMMA DenotedLast ==
  ASSUME NEW t, NEW p \in Seq(Names), p # RootPath
  PROVE  /\ Len(p) - 1 \in Nat /\ Base(p) \in Names /\ Prefix(p, Len(p) - 1) \in Seq(Names)
         /\ Denoted(t, p) =
              UNION {ChildrenNamed(t, d, Base(p)) : d \in Denoted(t, Prefix(p, Len(p) - 1))}
<1>1. Len(p) \in Nat /\ Prefix(p, Len(p)) = p /\ Len(p) # 0
  BY PrefixFacts DEF RootPath
<1> DEFINE k == Len(p) - 1
<1>2. k \in Nat /\ k + 1 = Len(p) /\ k \in 0..Len(p)
  BY <1>1
<1>3. Base(p) \in Names
  BY <1>1 DEF Base
<1> HIDE DEF k
<1>4. Denoted(t, Prefix(p, k + 1)) =
        UNION {ChildrenNamed(t, d, p[k + 1]) : d \in Denoted(t, Prefix(p, k))}
  BY <1>2, DenotedNext
<1>5. Prefix(p, k) \in Seq(Names)
  BY <1>2, PrefixFacts
<1> QED
  BY <1>1, <1>2, <1>3, <1>4, <1>5 DEF Base, k

LEMMA DenotedType ==
  ASSUME NEW t, NEW p \in Seq(Names)
  PROVE  Denoted(t, p) \subseteq IF p = RootPath THEN {Root} ELSE Uids
<1>2. CASE p = RootPath
  BY <1>2, DenotedRoot
<1>3. CASE p # RootPath
  <2>1. Denoted(t, p) =
          UNION {ChildrenNamed(t, d, Base(p)) : d \in Denoted(t, Prefix(p, Len(p) - 1))}
    BY <1>3, DenotedLast
  <2> QED
    BY <1>3, <2>1 DEF ChildrenNamed, Children
<1> QED
  BY <1>2, <1>3

(* A path leads nowhere when a prefix of it does. *)
LEMMA PrefixesLead ==
  ASSUME NEW t, NEW p \in Seq(Names), Denoted(t, p) # {}, NEW k \in 0..Len(p)
  PROVE  Denoted(t, Prefix(p, k)) # {}
<1>1. Len(p) \in Nat /\ Prefix(p, Len(p)) = p
  BY PrefixFacts
<1> DEFINE S == {i \in Nat : i <= Len(p) => Denoted(t, Prefix(p, Len(p) - i)) # {}}
<1>2. 0 \in S
  BY <1>1
<1>3. ASSUME NEW i \in S PROVE i + 1 \in S
  <2>1. i \in Nat
    OBVIOUS
  <2> SUFFICES ASSUME i + 1 <= Len(p) PROVE Denoted(t, Prefix(p, Len(p) - (i + 1))) # {}
    BY <2>1
  <2>2. Len(p) - i \in 1..Len(p) /\ (Len(p) - i) - 1 = Len(p) - (i + 1) /\ i <= Len(p)
    BY <1>1, <2>1
  <2>3. Denoted(t, Prefix(p, Len(p) - i)) # {}
    BY <2>2
  <2> DEFINE j == Len(p) - (i + 1)
  <2>4. j \in Nat /\ j + 1 = Len(p) - i /\ j + 1 <= Len(p)
    BY <1>1, <2>1
  <2>5. Denoted(t, Prefix(p, j + 1)) =
          UNION {ChildrenNamed(t, d, p[j + 1]) : d \in Denoted(t, Prefix(p, j))}
    <3> HIDE DEF j
    <3> QED
      BY <2>4, DenotedNext
  <2> QED
    BY <2>3, <2>4, <2>5
<1>4. S \in SUBSET Nat
  OBVIOUS
<1> HIDE DEF S
<1>5. S = Nat
  BY <1>2, <1>3, <1>4, SetInduction
<1>6. Len(p) - k \in S /\ Len(p) - k <= Len(p) /\ Len(p) - (Len(p) - k) = k
  BY <1>1, <1>5
<1> QED
  BY <1>6 DEF S

(* Where sibling names differ, a path leads to one node at most. *)
LEMMA DenotedIsOne ==
  ASSUME NEW t, SiblingsDiffer(t), NEW p \in Seq(Names), NEW k \in 0..Len(p)
  PROVE  \A u, v \in Denoted(t, Prefix(p, k)) : u = v
<1>1. Len(p) \in Nat /\ Prefix(p, 0) = RootPath
  BY PrefixFacts
<1> DEFINE One(i) == \A u, v \in Denoted(t, Prefix(p, i)) : u = v
           S == {i \in Nat : i <= Len(p) => One(i)}
<1>2. 0 \in S
  BY <1>1, DenotedRoot
<1>3. ASSUME NEW i \in S PROVE i + 1 \in S
  <2>1. i \in Nat /\ (i + 1) - 1 = i
    OBVIOUS
  <2> SUFFICES ASSUME i + 1 <= Len(p) PROVE One(i + 1)
    BY <2>1
  <2>2. i + 1 \in 1..Len(p) /\ i \in 0..Len(p) /\ i <= Len(p)
    BY <1>1, <2>1
  <2>3. One(i)
    BY <2>2
  <2>4. Denoted(t, Prefix(p, i + 1)) =
          UNION {ChildrenNamed(t, d, p[i + 1]) : d \in Denoted(t, Prefix(p, i))}
    BY <2>1, DenotedNext
  <2>5. p[i + 1] \in Names
    BY <2>2
  <2>6. Prefix(p, i) \in Seq(Names)
    BY <2>2, PrefixFacts
  <2>7. Denoted(t, Prefix(p, i)) \subseteq Dirs
    BY <2>6, DenotedType DEF Dirs
  <2> QED
    BY <2>3, <2>4, <2>5, <2>7 DEF SiblingsDiffer
<1>4. S \in SUBSET Nat
  OBVIOUS
<1> HIDE DEF S
<1>5. S = Nat
  BY <1>2, <1>3, <1>4, SetInduction
<1>6. k \in S /\ k <= Len(p)
  BY <1>1, <1>5
<1> QED
  BY <1>6 DEF S

(* A change that brings no second child of a name to any directory leads   *)
(* no path that led somewhere to another node.                             *)
AddsOnlyFresh(t, s) ==
  \A d \in Dirs, n \in Names :
    ChildrenNamed(t, d, n) # {} => ChildrenNamed(s, d, n) \subseteq ChildrenNamed(t, d, n)

LEMMA DenotedIsStable ==
  ASSUME NEW t, NEW s, SiblingsDiffer(t), AddsOnlyFresh(t, s),
         NEW p \in Seq(Names), Denoted(t, p) # {}, NEW k \in 0..Len(p)
  PROVE  Denoted(s, Prefix(p, k)) \subseteq Denoted(t, Prefix(p, k))
<1>1. Len(p) \in Nat /\ Prefix(p, 0) = RootPath
  BY PrefixFacts
<1> DEFINE In(i) == Denoted(s, Prefix(p, i)) \subseteq Denoted(t, Prefix(p, i))
           S == {i \in Nat : i <= Len(p) => In(i)}
<1>2. 0 \in S
  BY <1>1, DenotedRoot
<1>3. ASSUME NEW i \in S PROVE i + 1 \in S
  <2>1. i \in Nat /\ (i + 1) - 1 = i
    OBVIOUS
  <2> SUFFICES ASSUME i + 1 <= Len(p) PROVE In(i + 1)
    BY <2>1
  <2>2. i + 1 \in 1..Len(p) /\ i \in 0..Len(p) /\ i + 1 \in 0..Len(p) /\ i <= Len(p)
    BY <1>1, <2>1
  <2>3. In(i)
    BY <2>2
  <2>4. /\ Denoted(t, Prefix(p, i + 1)) =
             UNION {ChildrenNamed(t, d, p[i + 1]) : d \in Denoted(t, Prefix(p, i))}
        /\ Denoted(s, Prefix(p, i + 1)) =
             UNION {ChildrenNamed(s, d, p[i + 1]) : d \in Denoted(s, Prefix(p, i))}
    BY <2>1, DenotedNext
  <2>5. p[i + 1] \in Names
    BY <2>2
  <2>6. Denoted(t, Prefix(p, i)) \subseteq Dirs
    BY <2>2, PrefixFacts, DenotedType DEF Dirs
  <2>7. Denoted(t, Prefix(p, i + 1)) # {}
    BY <2>2, PrefixesLead
  <2>8. \A d, e \in Denoted(t, Prefix(p, i)) : d = e
    BY <2>2, DenotedIsOne
  <2>9. \A d \in Denoted(t, Prefix(p, i)) : ChildrenNamed(t, d, p[i + 1]) # {}
    BY <2>4, <2>7, <2>8
  <2> QED
    BY <2>3, <2>4, <2>5, <2>6, <2>9 DEF AddsOnlyFresh
<1>4. S \in SUBSET Nat
  OBVIOUS
<1> HIDE DEF S
<1>5. S = Nat
  BY <1>2, <1>3, <1>4, SetInduction
<1>6. k \in S /\ k <= Len(p)
  BY <1>1, <1>5
<1> QED
  BY <1>6 DEF S

-----------------------------------------------------------------------------
(* Places and subtrees *)

LEMMA DirsFacts ==
  /\ Root \in Dirs /\ Root \notin Uids
  /\ NoUid \notin Dirs
  /\ Uids \subseteq Dirs
BY RootIsNoNode, NoUidIsNoUid DEF Dirs

LEMMA SubtreeHolds ==
  ASSUME NEW t, NEW u \in Dirs
  PROVE  /\ Subtree(t, u) \subseteq Dirs
         /\ u \in Subtree(t, u)
         /\ \A v \in Uids : t[v].status = "live" /\ t[v].parent \in Subtree(t, u)
              => v \in Subtree(t, u)
<1>1. Subtree(t, u) \subseteq Dirs /\ u \in Subtree(t, u)
  BY DEF Subtree
<1>2. ASSUME NEW v \in Uids, t[v].status = "live", t[v].parent \in Subtree(t, u)
      PROVE  v \in Subtree(t, u)
  BY <1>2, DirsFacts DEF Subtree
<1> QED
  BY <1>1, <1>2

LEMMA SubtreeIsLeast ==
  ASSUME NEW t, NEW u, NEW S \in SUBSET Dirs, u \in S,
         \A y \in Uids : t[y].status = "live" /\ t[y].parent \in S => y \in S
  PROVE  Subtree(t, u) \subseteq S
BY DEF Subtree

LEMMA NoRootBelow ==
  ASSUME NEW t \in Tree, NEW u \in Uids
  PROVE  Subtree(t, u) \subseteq Uids
<1>1. Uids \in SUBSET Dirs
  BY DirsFacts
<1> QED
  BY <1>1, SubtreeIsLeast

LEMMA ChildlessSubtree ==
  ASSUME NEW t, NEW u \in Dirs, Children(t, u) = {}
  PROVE  Subtree(t, u) = {u}
<1>1. \A y \in Uids : t[y].status = "live" /\ t[y].parent \in {u} => y \in {u}
  BY DEF Children
<1>2. Subtree(t, u) \subseteq {u}
  BY <1>1, SubtreeIsLeast
<1> QED
  BY <1>2, SubtreeHolds

LEMMA RootedFacts ==
  ASSUME NEW t \in Tree, IsRooted(t), NEW u \in Uids, t[u].status = "live"
  PROVE  /\ t[u].parent \in Dirs /\ IsLive(t, t[u].parent)
         /\ CanHold(t, t[u].parent, t[u].kind)
         /\ t[u].kind = "dir" => IsDir(t, t[u].parent)
BY DEF IsRooted, CanHold, IsDir, IsFile, IsLive, Dirs

LEMMA HolderFacts ==
  ASSUME NEW t, NEW d, NEW k, CanHold(t, d, k)
  PROVE  d \in Dirs /\ IsLive(t, d)
BY DEF CanHold, IsDir, IsFile, IsLive, Dirs

-----------------------------------------------------------------------------
(* What the core's RPCs keep *)

(* A removal takes the whole subtree and touches nothing else. *)
LEMMA NodesGone ==
  ASSUME NEW t \in Tree, NEW u
  PROVE  /\ Removed(t, u) \in Tree
         /\ \A x \in Uids :
              /\ Removed(t, u)[x].kind = t[x].kind /\ Removed(t, u)[x].parent = t[x].parent
              /\ Removed(t, u)[x].name = t[x].name /\ Removed(t, u)[x].filled = t[x].filled
              /\ x \in Subtree(t, u) => Removed(t, u)[x].status = "gone"
              /\ x \notin Subtree(t, u) => Removed(t, u)[x] = t[x]
<1> DEFINE In(x) == x \in Subtree(t, u)
           s == [x \in Uids |-> IF In(x) THEN [t[x] EXCEPT !.status = "gone"] ELSE t[x]]
<1>1. Removed(t, u) = s
  BY DEF Removed
<1> HIDE DEF In
<1>2. s \in Tree
  BY DEF Tree, Node
<1>3. ASSUME NEW x \in Uids
      PROVE  /\ s[x].kind = t[x].kind /\ s[x].parent = t[x].parent
             /\ s[x].name = t[x].name /\ s[x].filled = t[x].filled
             /\ In(x) => s[x].status = "gone"
             /\ ~In(x) => s[x] = t[x]
  <2>1. t[x] \in Node
    BY DEF Tree
  <2> QED
    BY <2>1 DEF Node
<1> HIDE DEF s
<1> QED
  BY <1>1, <1>2, <1>3 DEF In

(* Every RPC that changes the tree leaves a tree. *)
LEMMA CoreKeepsTree ==
  ASSUME NEW t \in Tree, NEW u \in Uids, NEW d \in Dirs, NEW n \in Names, NEW k \in Kinds
  PROVE  /\ Created(t, u, d, n, k) \in Tree
         /\ Filled(t, u) \in Tree
         /\ Removed(t, u) \in Tree
         /\ Undeleted(t, u) \in Tree
         /\ Renamed(t, u, n) \in Tree
         /\ Moved(t, u, d) \in Tree
<1>1. Created(t, u, d, n, k) \in Tree
  BY DEF Created, Tree, Node
<1>2. Filled(t, u) \in Tree
  BY DEF Filled, Tree, Node
<1>3. Removed(t, u) \in Tree
  BY NodesGone
<1>4. Undeleted(t, u) \in Tree
  BY DEF Undeleted, Tree, Node
<1>5. Renamed(t, u, n) \in Tree
  BY DEF Renamed, Tree, Node
<1>6. Moved(t, u, d) \in Tree
  BY DEF Moved, Tree, Node
<1> QED
  BY <1>1, <1>2, <1>3, <1>4, <1>5, <1>6

LEMMA CopyKeepsTree ==
  ASSUME NEW t \in Tree, NEW u \in Uids, NEW d \in Dirs, NEW v \in Uids
  PROVE  Copied(t, u, d, v) \in Tree
<1>1. [t[u] EXCEPT !.parent = d] \in Node
  BY DEF Tree, Node
<1> QED
  BY <1>1 DEF Copied, Tree

LEMMA ForeignKeepsTree ==
  ASSUME tree \in Tree, ForeignChange
  PROVE  tree' \in Tree
<1>1. CASE \E u \in Uids, d \in Dirs, n \in Names, k \in Kinds :
              CanCreate(tree, u, d, n, k) /\ tree' = Created(tree, u, d, n, k)
  BY <1>1, CoreKeepsTree
<1>2. CASE \E u \in Uids : /\ CanRemoveFile(tree, u) \/ CanRemoveDirectory(tree, u)
                          /\ tree' = Removed(tree, u)
  BY <1>2, NodesGone
<1>3. CASE \E u \in Uids : CanUndelete(tree, u) /\ tree' = Undeleted(tree, u)
  BY <1>3 DEF Undeleted, Tree, Node
<1>4. CASE \E u \in Uids, n \in Names : CanRename(tree, u, n) /\ tree' = Renamed(tree, u, n)
  BY <1>4 DEF Renamed, Tree, Node
<1>5. CASE \E u \in Uids, d \in Dirs : CanMove(tree, u, d) /\ tree' = Moved(tree, u, d)
  BY <1>5 DEF Moved, Tree, Node
<1> QED
  BY <1>1, <1>2, <1>3, <1>4, <1>5 DEF ForeignChange

LEMMA ChildFacts ==
  ASSUME NEW t, NEW d, NEW n, NEW v
  PROVE  v \in ChildrenNamed(t, d, n) <=>
           v \in Uids /\ t[v].status = "live" /\ t[v].parent = d /\ t[v].name = n
BY DEF ChildrenNamed, Children

LEMMA NodeFacts ==
  ASSUME NEW t \in Tree, NEW u \in Uids
  PROVE  /\ t[u] \in Node
         /\ t[u].status \in {"free", "live", "gone"} /\ t[u].kind \in Kinds
         /\ t[u].parent \in Dirs /\ t[u].name \in Names /\ t[u].filled \in BOOLEAN
BY DEF Tree, Node

(* The change from t to s brings at most u to its place, where no node of  *)
(* its name is.                                                            *)
BringsAtMost(u, t, s) ==
  \A d \in Dirs, n \in Names : \A v \in ChildrenNamed(s, d, n) :
    v \in ChildrenNamed(t, d, n) \/ (v = u /\ ChildrenNamed(t, d, n) = {})

LEMMA BroughtIsFresh ==
  ASSUME NEW t, NEW s, NEW u, BringsAtMost(u, t, s)
  PROVE  /\ AddsOnlyFresh(t, s)
         /\ SiblingsDiffer(t) => SiblingsDiffer(s)
<1>1. AddsOnlyFresh(t, s)
  BY DEF BringsAtMost, AddsOnlyFresh
<1>2. ASSUME SiblingsDiffer(t) PROVE SiblingsDiffer(s)
  BY <1>2 DEF BringsAtMost, SiblingsDiffer
<1> QED
  BY <1>1, <1>2

LEMMA BringsOne ==
  ASSUME NEW t, NEW s, NEW u, \A v \in Uids \ {u} : s[v] = t[v],
         s[u].status = "live" =>
           \/ u \in ChildrenNamed(t, s[u].parent, s[u].name)
           \/ ChildrenNamed(t, s[u].parent, s[u].name) = {}
  PROVE  BringsAtMost(u, t, s)
<1> SUFFICES ASSUME NEW d \in Dirs, NEW n \in Names, NEW v \in ChildrenNamed(s, d, n)
             PROVE  v \in ChildrenNamed(t, d, n) \/ (v = u /\ ChildrenNamed(t, d, n) = {})
  BY DEF BringsAtMost
<1>1. v \in Uids /\ s[v].status = "live" /\ s[v].parent = d /\ s[v].name = n
  BY ChildFacts
<1>2. CASE v = u
  BY <1>1, <1>2
<1>3. CASE v # u
  <2>1. s[v] = t[v]
    BY <1>1, <1>3
  <2> QED
    BY <1>1, <2>1, ChildFacts
<1> QED
  BY <1>2, <1>3

(* What an RPC changes: one node, and of that what it says. *)
BecomesNode(s, t, u, status, kind, parent, name) ==
  /\ \A v \in Uids : v # u => s[v] = t[v]
  /\ s[u].status = status /\ s[u].kind = kind /\ s[u].parent = parent /\ s[u].name = name

LEMMA CreatedBecomes ==
  ASSUME NEW t \in Tree, NEW u \in Uids, NEW d, NEW n, NEW k
  PROVE  BecomesNode(Created(t, u, d, n, k), t, u, "live", k, d, n)
BY DEF BecomesNode, Created, Tree, Node

LEMMA FilledBecomes ==
  ASSUME NEW t \in Tree, NEW u \in Uids
  PROVE  BecomesNode(Filled(t, u), t, u, t[u].status, t[u].kind, t[u].parent, t[u].name)
BY DEF BecomesNode, Filled, Tree, Node

(* A removal that takes one node, as that of an empty directory does. *)
LEMMA RemovedBecomes ==
  ASSUME NEW t \in Tree, NEW u \in Uids, Children(t, u) = {}
  PROVE  BecomesNode(Removed(t, u), t, u, "gone", t[u].kind, t[u].parent, t[u].name)
<1>1. Subtree(t, u) = {u}
  BY DirsFacts, ChildlessSubtree
<1> QED
  BY <1>1, NodesGone DEF BecomesNode

LEMMA UndeletedBecomes ==
  ASSUME NEW t \in Tree, NEW u \in Uids
  PROVE  BecomesNode(Undeleted(t, u), t, u, "live", t[u].kind, t[u].parent, t[u].name)
BY DEF BecomesNode, Undeleted, Tree, Node

LEMMA RenamedBecomes ==
  ASSUME NEW t \in Tree, NEW u \in Uids, NEW n
  PROVE  BecomesNode(Renamed(t, u, n), t, u, t[u].status, t[u].kind, t[u].parent, n)
BY DEF BecomesNode, Renamed, Tree, Node

LEMMA MovedBecomes ==
  ASSUME NEW t \in Tree, NEW u \in Uids, NEW d
  PROVE  BecomesNode(Moved(t, u, d), t, u, t[u].status, t[u].kind, d, t[u].name)
BY DEF BecomesNode, Moved, Tree, Node

(* What each RPC brings comes where there was no node of its name.         *)
LEMMA CreatedBrings ==
  ASSUME UniqueNames, NEW t \in Tree, NEW u \in Uids, NEW d, NEW n, NEW k,
         CanCreate(t, u, d, n, k)
  PROVE  BringsAtMost(u, t, Created(t, u, d, n, k))
<1> DEFINE s == Created(t, u, d, n, k)
<1>1. ChildrenNamed(t, d, n) = {}
  BY DEF CanCreate, NameIsFree
<1>2. BecomesNode(s, t, u, "live", k, d, n)
  BY CreatedBecomes
<1> HIDE DEF s
<1>3. BringsAtMost(u, t, s)
  BY <1>1, <1>2, BringsOne DEF BecomesNode
<1> QED
  BY <1>3 DEF s

LEMMA FilledBrings ==
  ASSUME NEW t \in Tree, NEW u \in Uids
  PROVE  BringsAtMost(u, t, Filled(t, u))
<1> DEFINE s == Filled(t, u)
<1>1. t[u].status = "live" => u \in ChildrenNamed(t, t[u].parent, t[u].name)
  BY ChildFacts
<1>2. BecomesNode(s, t, u, t[u].status, t[u].kind, t[u].parent, t[u].name)
  BY FilledBecomes
<1> HIDE DEF s
<1>3. BringsAtMost(u, t, s)
  BY <1>1, <1>2, BringsOne DEF BecomesNode
<1> QED
  BY <1>3 DEF s

LEMMA RemovedBrings ==
  ASSUME NEW t \in Tree, NEW u
  PROVE  BringsAtMost(u, t, Removed(t, u))
<1> DEFINE s == Removed(t, u)
<1>1. ASSUME NEW v \in Uids, s[v].status = "live"
      PROVE  s[v] = t[v]
  BY <1>1, NodesGone
<1> HIDE DEF s
<1>2. BringsAtMost(u, t, s)
  BY <1>1, ChildFacts DEF BringsAtMost
<1> QED
  BY <1>2 DEF s

LEMMA UndeletedBrings ==
  ASSUME UniqueNames, NEW t \in Tree, NEW u \in Uids, CanUndelete(t, u)
  PROVE  BringsAtMost(u, t, Undeleted(t, u))
<1> DEFINE s == Undeleted(t, u)
<1>1. ChildrenNamed(t, t[u].parent, t[u].name) = {}
  BY DEF CanUndelete, NameIsFree
<1>2. BecomesNode(s, t, u, "live", t[u].kind, t[u].parent, t[u].name)
  BY UndeletedBecomes
<1> HIDE DEF s
<1>3. BringsAtMost(u, t, s)
  BY <1>1, <1>2, BringsOne DEF BecomesNode
<1> QED
  BY <1>3 DEF s

LEMMA RenamedBrings ==
  ASSUME UniqueNames, NEW t \in Tree, NEW u \in Uids, NEW n, CanRename(t, u, n)
  PROVE  BringsAtMost(u, t, Renamed(t, u, n))
<1> DEFINE s == Renamed(t, u, n)
<1>1. t[u].status = "live" => u \in ChildrenNamed(t, t[u].parent, t[u].name)
  BY ChildFacts
<1>2. t[u].name = n \/ ChildrenNamed(t, t[u].parent, n) = {}
  BY DEF CanRename, NameIsFree
<1>3. BecomesNode(s, t, u, t[u].status, t[u].kind, t[u].parent, n)
  BY RenamedBecomes
<1> HIDE DEF s
<1>4. BringsAtMost(u, t, s)
  BY <1>1, <1>2, <1>3, BringsOne DEF BecomesNode
<1> QED
  BY <1>4 DEF s

LEMMA MovedBrings ==
  ASSUME UniqueNames, NEW t \in Tree, NEW u \in Uids, NEW d, CanMove(t, u, d)
  PROVE  BringsAtMost(u, t, Moved(t, u, d))
<1> DEFINE s == Moved(t, u, d)
<1>1. t[u].status = "live" => u \in ChildrenNamed(t, t[u].parent, t[u].name)
  BY ChildFacts
<1>2. t[u].parent = d \/ ChildrenNamed(t, d, t[u].name) = {}
  BY DEF CanMove, NameIsFree
<1>3. BecomesNode(s, t, u, t[u].status, t[u].kind, d, t[u].name)
  BY MovedBecomes
<1> HIDE DEF s
<1>4. BringsAtMost(u, t, s)
  BY <1>1, <1>2, <1>3, BringsOne DEF BecomesNode
<1> QED
  BY <1>4 DEF s

(* Every live node stays below one that may hold it. *)
LEMMA CoreStaysRooted ==
  ASSUME NEW t \in Tree, IsRooted(t), NEW u \in Uids
  PROVE  /\ \A d \in Dirs, n \in Names, k \in Kinds :
              CanCreate(t, u, d, n, k) => IsRooted(Created(t, u, d, n, k))
         /\ IsRooted(Filled(t, u))
         /\ IsRooted(Removed(t, u))
         /\ CanUndelete(t, u) => IsRooted(Undeleted(t, u))
         /\ \A n \in Names : IsRooted(Renamed(t, u, n))
         /\ \A d \in Dirs : CanMove(t, u, d) => IsRooted(Moved(t, u, d))
<1>1. ASSUME NEW d \in Dirs, NEW n \in Names, NEW k \in Kinds, CanCreate(t, u, d, n, k)
      PROVE  IsRooted(Created(t, u, d, n, k))
  BY <1>1, RootIsNoNode DEF IsRooted, CanHold, IsFile, IsDir, CanCreate, Created, Tree, Node, Dirs
<1>2. IsRooted(Filled(t, u))
  BY DEF IsRooted, CanHold, IsFile, IsDir, Filled, Tree, Node
<1>3. IsRooted(Removed(t, u))
  <2> DEFINE s == Removed(t, u)
  <2> SUFFICES ASSUME NEW v \in Uids, s[v].status = "live"
               PROVE  CanHold(s, s[v].parent, s[v].kind)
    BY DEF IsRooted
  <2>1. v \notin Subtree(t, u) /\ s[v] = t[v] /\ t[v].status = "live"
    BY NodesGone
  <2>2. CanHold(t, t[v].parent, t[v].kind)
    BY <2>1 DEF IsRooted
  <2>3. t[v].parent \notin Subtree(t, u)
    BY <2>1, DirsFacts, SubtreeHolds
  <2>4. t[v].parent \in Uids => s[t[v].parent] = t[t[v].parent]
    BY <2>3, NodesGone
  <2> HIDE DEF s
  <2> QED
    BY <2>1, <2>2, <2>4 DEF CanHold, IsDir, IsFile
<1>4. ASSUME CanUndelete(t, u)
      PROVE  IsRooted(Undeleted(t, u))
  BY <1>4 DEF IsRooted, CanHold, IsFile, IsDir, CanUndelete, Undeleted, Tree, Node
<1>5. ASSUME NEW n \in Names
      PROVE  IsRooted(Renamed(t, u, n))
  BY DEF IsRooted, CanHold, IsFile, IsDir, Renamed, Tree, Node
<1>6. ASSUME NEW d \in Dirs, CanMove(t, u, d)
      PROVE  IsRooted(Moved(t, u, d))
  BY <1>6 DEF IsRooted, CanHold, IsFile, IsDir, CanMove, Moved, Tree, Node
<1> QED
  BY <1>1, <1>2, <1>3, <1>4, <1>5, <1>6

(* A change after which every node is in its place, and that brings at   *)
(* most one node to a place.                                               *)
Orderly(t, s) == IsRooted(s) /\ \E u : BringsAtMost(u, t, s)

LEMMA StayIsOrderly ==
  ASSUME IsRooted(tree), UNCHANGED tree
  PROVE  Orderly(tree, tree')
<1>1. \A u : BringsAtMost(u, tree, tree)
  BY DEF BringsAtMost
<1> QED
  BY <1>1 DEF Orderly

LEMMA FilledIsOrderly ==
  ASSUME tree \in Tree, IsRooted(tree), NEW u, CanFill(tree, u)
  PROVE  Orderly(tree, Filled(tree, u))
BY CoreStaysRooted, FilledBrings DEF Orderly, CanFill, IsFile

LEMMA RemovedIsOrderly ==
  ASSUME tree \in Tree, IsRooted(tree), NEW u,
         CanRemoveFile(tree, u) \/ CanRemoveDirectory(tree, u)
  PROVE  Orderly(tree, Removed(tree, u))
<1>1. u \in Uids
  BY DEF CanRemoveFile, IsFile, CanRemoveDirectory, IsDir
<1> QED
  BY <1>1, CoreStaysRooted, RemovedBrings DEF Orderly

LEMMA RenamedIsOrderly ==
  ASSUME UniqueNames, tree \in Tree, IsRooted(tree), NEW u, NEW n \in Names,
         CanRename(tree, u, n)
  PROVE  Orderly(tree, Renamed(tree, u, n))
<1>1. u \in Uids
  BY DEF CanRename, IsLive
<1> QED
  BY <1>1, CoreStaysRooted, RenamedBrings DEF Orderly

LEMMA MovedIsOrderly ==
  ASSUME UniqueNames, tree \in Tree, IsRooted(tree), NEW u, NEW d, CanMove(tree, u, d)
  PROVE  Orderly(tree, Moved(tree, u, d))
<1>1. u \in Uids /\ d \in Dirs
  BY HolderFacts DEF CanMove, IsLive
<1> QED
  BY <1>1, CoreStaysRooted, MovedBrings DEF Orderly

(* What other clients do to the tree. *)
LEMMA ForeignKeepsOrder ==
  ASSUME tree \in Tree, IsRooted(tree), ForeignChange
  PROVE  /\ IsRooted(tree')
         /\ UniqueNames => \E u : BringsAtMost(u, tree, tree')
<1>1. CASE \E u \in Uids, d \in Dirs, n \in Names, k \in Kinds :
              CanCreate(tree, u, d, n, k) /\ tree' = Created(tree, u, d, n, k)
  BY <1>1, CoreStaysRooted, CreatedBrings
<1>2. CASE \E u \in Uids : /\ CanRemoveFile(tree, u) \/ CanRemoveDirectory(tree, u)
                          /\ tree' = Removed(tree, u)
  BY <1>2, CoreStaysRooted, RemovedBrings
<1>3. CASE \E u \in Uids : CanUndelete(tree, u) /\ tree' = Undeleted(tree, u)
  BY <1>3, CoreStaysRooted, UndeletedBrings
<1>4. CASE \E u \in Uids, n \in Names : CanRename(tree, u, n) /\ tree' = Renamed(tree, u, n)
  BY <1>4, CoreStaysRooted, RenamedBrings
<1>5. CASE \E u \in Uids, d \in Dirs : CanMove(tree, u, d) /\ tree' = Moved(tree, u, d)
  BY <1>5, CoreStaysRooted, MovedBrings
<1> QED
  BY <1>1, <1>2, <1>3, <1>4, <1>5 DEF ForeignChange

-----------------------------------------------------------------------------
(* Trees that only grow and lose nodes: nothing that there is is renamed or moved *)

(* Every node that there is keeps its place, its body and its end. *)
Kept(t, s) ==
  \A u \in Uids : t[u].status # "free" =>
    /\ s[u].status # "free"
    /\ s[u].parent = t[u].parent
    /\ s[u].name = t[u].name
    /\ t[u].filled => s[u].filled
    /\ t[u].status = "gone" => s[u].status = "gone"

(* A path and a node that was found under it: as long as the node lives,   *)
(* the path leads to it.                                                   *)
Right(t, p, u) ==
  /\ u \in Dirs
  /\ u \in Uids => t[u].status # "free"
  /\ IsLive(t, u) => u \in Denoted(t, p)

LEMMA KeptIsLive ==
  ASSUME NEW t \in Tree, NEW s, Kept(t, s), NEW u \in Uids, t[u].status # "free",
         s[u].status = "live"
  PROVE  t[u].status = "live" /\ s[u].parent = t[u].parent /\ s[u].name = t[u].name
BY NodeFacts DEF Kept

(* The nodes that a path leads to are still there, if they live. *)
LEMMA DenotedKept ==
  ASSUME NEW t \in Tree, NEW s, Kept(t, s), IsRooted(s),
         NEW p \in Seq(Names), NEW u \in Denoted(t, p), IsLive(s, u)
  PROVE  u \in Denoted(s, p)
<1>1. Len(p) \in Nat /\ Prefix(p, 0) = RootPath /\ Prefix(p, Len(p)) = p
  BY PrefixFacts
<1> DEFINE In(i) == \A v \in Denoted(t, Prefix(p, i)) : IsLive(s, v) => v \in Denoted(s, Prefix(p, i))
           S == {i \in Nat : i <= Len(p) => In(i)}
<1>2. 0 \in S
  BY <1>1, DenotedRoot
<1>3. ASSUME NEW i \in S PROVE i + 1 \in S
  <2>1. i \in Nat
    OBVIOUS
  <2> SUFFICES ASSUME i + 1 <= Len(p) PROVE In(i + 1)
    BY <2>1
  <2>2. In(i)
    BY <1>1, <2>1
  <2>3. /\ Denoted(t, Prefix(p, i + 1)) =
             UNION {ChildrenNamed(t, d, p[i + 1]) : d \in Denoted(t, Prefix(p, i))}
        /\ Denoted(s, Prefix(p, i + 1)) =
             UNION {ChildrenNamed(s, d, p[i + 1]) : d \in Denoted(s, Prefix(p, i))}
    BY <2>1, DenotedNext
  <2> HIDE DEF S
  <2> SUFFICES ASSUME NEW v \in Denoted(t, Prefix(p, i + 1)), IsLive(s, v)
               PROVE  v \in Denoted(s, Prefix(p, i + 1))
    OBVIOUS
  <2>4. PICK d \in Denoted(t, Prefix(p, i)) : v \in ChildrenNamed(t, d, p[i + 1])
    BY <2>3
  <2>5. v \in Uids /\ t[v].status = "live" /\ t[v].parent = d /\ t[v].name = p[i + 1]
    BY <2>4, ChildFacts
  <2>6. s[v].status = "live" /\ s[v].parent = d /\ s[v].name = p[i + 1]
    BY <2>5, DirsFacts DEF Kept, IsLive
  <2>7. IsLive(s, d)
    BY <2>5, <2>6 DEF IsRooted, CanHold, IsFile, IsDir, IsLive
  <2>8. v \in ChildrenNamed(s, d, p[i + 1])
    BY <2>5, <2>6, ChildFacts
  <2> QED
    BY <2>2, <2>3, <2>7, <2>8
<1>4. S \in SUBSET Nat
  OBVIOUS
<1> HIDE DEF S
<1>5. S = Nat
  BY <1>2, <1>3, <1>4, SetInduction
<1>6. Len(p) \in S
  BY <1>1, <1>5
<1> QED
  BY <1>1, <1>6 DEF S

LEMMA RightKept ==
  ASSUME NEW t \in Tree, NEW s, Kept(t, s), IsRooted(s),
         NEW p \in Seq(Names), NEW u, Right(t, p, u)
  PROVE  Right(s, p, u)
<1>1. u \in Dirs
  BY DEF Right
<1>2. u \in Uids => s[u].status # "free"
  BY DEF Right, Kept
<1>3. ASSUME IsLive(s, u) PROVE u \in Denoted(s, p)
  <2>1. IsLive(t, u)
    <3>1. CASE u = Root
      BY <3>1 DEF IsLive
    <3>2. CASE u \in Uids
      <4>1. s[u].status = "live" /\ t[u].status # "free"
        BY <1>3, <3>2, DirsFacts DEF IsLive, Right
      <4> QED
        BY <3>2, <4>1, KeptIsLive DEF IsLive
    <3> QED
      BY <1>1, <3>1, <3>2 DEF Dirs
  <2>2. u \in Denoted(t, p)
    BY <2>1 DEF Right
  <2> QED
    BY <1>3, <2>2, DenotedKept
<1> QED
  BY <1>1, <1>2, <1>3 DEF Right

-----------------------------------------------------------------------------
(* Subtrees *)

(* What was in a subtree and lives is in it still, and so does its top. *)
LEMMA SubtreeKept ==
  ASSUME NEW t \in Tree, NEW s, Kept(t, s), IsRooted(s), NEW u \in Dirs,
         NEW x \in Subtree(t, u), IsLive(s, x)
  PROVE  IsLive(s, u) /\ x \in Subtree(s, u)
<1> DEFINE Dead == {y \in Dirs : ~IsLive(s, y)}
           Here == Subtree(s, u) \cup Dead
<1>1. ASSUME NEW y \in Uids, t[y].status = "live", s[y].status = "live"
      PROVE  s[y].parent = t[y].parent /\ IsLive(s, t[y].parent)
  BY <1>1 DEF Kept, IsRooted, CanHold, IsFile, IsDir, IsLive
<1>2. \A y \in Uids : y \notin Dead => s[y].status = "live"
  BY DirsFacts DEF IsLive
<1>3. x \notin Dead
  OBVIOUS
<1>4. Subtree(s, u) \subseteq Dirs /\ u \in Subtree(s, u)
  BY SubtreeHolds
<1>5. \A y \in Uids : t[y].status = "live" /\ t[y].parent \in Here => y \in Here
  <2> SUFFICES ASSUME NEW y \in Uids, t[y].status = "live", t[y].parent \in Here, y \notin Dead
               PROVE  y \in Subtree(s, u)
    OBVIOUS
  <2>1. s[y].status = "live"
    BY <1>2
  <2>2. s[y].parent \in Subtree(s, u)
    BY <1>1, <2>1
  <2> QED
    BY <2>1, <2>2, SubtreeHolds
<1>6. x \in Here
  <2>1. Here \in SUBSET Dirs /\ u \in Here
    BY <1>4
  <2> HIDE DEF Here
  <2> QED
    BY <1>5, <2>1, SubtreeIsLeast
<1>7. IsLive(s, u)
  <2> SUFFICES ASSUME u \in Dead PROVE FALSE
    OBVIOUS
  <2>1. \A y \in Uids : t[y].status = "live" /\ t[y].parent \in Dead => y \in Dead
    BY <1>1, <1>2
  <2>2. Dead \in SUBSET Dirs
    OBVIOUS
  <2> HIDE DEF Dead
  <2> QED
    BY <1>3, <2>1, <2>2, SubtreeIsLeast
<1> QED
  BY <1>3, <1>6, <1>7

-----------------------------------------------------------------------------
(* Resolutions *)

(* What the type invariant says of a thread's resolution. *)
LEMMA CallFacts ==
  ASSUME TypeOK, NEW w \in Workers
  PROVE  /\ call[w].phase \in Phases
         /\ call[w].path \in Paths \cup {RootPath}
         /\ call[w].phase \notin {"idle", "done"} => call[w].path \in Paths
         /\ call[w].uid \in Dirs \cup {NoUid}
         /\ call[w].depth \in Nat
         /\ call[w].depth <= Len(call[w].path)
         /\ call[w].phase = "list" => call[w].depth < Len(call[w].path)
         /\ call[w].phase = "map" => call[w].depth > 0
<1>1. call[w] \in Call
  BY DEF TypeOK
<1> QED
  BY <1>1 DEF Call

=============================================================================
