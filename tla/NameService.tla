----------------------------- MODULE NameService -----------------------------
(***************************************************************************)
(* What resolvePath promises its callers, with neither a cache nor a walk: *)
(* a caller asks for a path, the tree goes on changing, and the answer is  *)
(* "no such path", or a node that had the path's last name at some instant *)
(* after the question was asked.  ResolverHistory, which has the cache,    *)
(* the walk and the RPCs of src/src/path_resolver.cpp, implements it.      *)
(***************************************************************************)
EXTENDS FileEngineCore

CONSTANTS Clients,    \* who asks
          Asked,      \* the non-root paths that are asked for
          FirstTree   \* the tree at first

VARIABLES tree,       \* the service's nodes
          question,   \* per client: what it has asked, and the answer
          seen        \* per client: the links that have held since it asked

nameVars == <<tree, question, seen>>

NoQuestion == [state |-> "idle", path |-> <<>>, uid |-> NoUid]

(* The nodes that have been seen under the last name of p. *)
Named(links, p) == {l[3] : l \in {k \in links : k[2] = p[Len(p)]}}

NameInit ==
  /\ tree = FirstTree
  /\ question = [c \in Clients |-> NoQuestion]
  /\ seen = [c \in Clients |-> {}]

(* The root is answered at once. *)
AskName(c, p) ==
  /\ question[c].state = "idle"
  /\ question' = [question EXCEPT ![c] =
       IF p = <<>> THEN [state |-> "answered", path |-> p, uid |-> Root]
       ELSE [state |-> "asked", path |-> p, uid |-> NoUid]]
  /\ seen' = [seen EXCEPT ![c] = Links(tree, p)]
  /\ UNCHANGED tree

AnswerName(c) ==
  /\ question[c].state = "asked"
  /\ \E u \in Named(seen[c], question[c].path) \cup {NoUid} :
       question' = [question EXCEPT ![c] = [state |-> "answered", path |-> question[c].path,
                                            uid |-> u]]
  /\ UNCHANGED <<tree, seen>>

TakeAnswer(c) ==
  /\ question[c].state = "answered"
  /\ question' = [question EXCEPT ![c] = NoQuestion]
  /\ seen' = [seen EXCEPT ![c] = {}]
  /\ UNCHANGED tree

(* Whatever becomes of the tree, a question is answered by what has been.  *)
TreeChanges ==
  /\ tree' # tree /\ tree' \in Tree
  /\ seen' = [c \in Clients |->
       IF question[c].state = "idle" THEN seen[c] ELSE seen[c] \cup Links(tree', question[c].path)]
  /\ UNCHANGED question

(* Every step of a client is one of its question. *)
ClientSteps ==
  /\ question' # question
  /\ \E c \in Clients :
       (\E p \in Asked \cup {<<>>} : AskName(c, p)) \/ AnswerName(c) \/ TakeAnswer(c)

NameNext == TreeChanges \/ ClientSteps

NameSpec == NameInit /\ [][NameNext]_nameVars
=============================================================================
