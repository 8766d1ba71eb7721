------------------------------ MODULE FreeList ------------------------------
(* The free list of the metric queue (queue/concurrentqueue.hpp, FreeList): a
   lock-free stack of nodes with reference counts.  Whoever counts a node down
   to nothing while the flag says it should be on the list puts it there.

   Every step is one access to what threads share, and what it needs no other
   access for.  A compare-and-swap of the count with what was loaded of it just
   before is one step: it either finds the count unchanged, or begins again.   *)
EXTENDS Integers, FiniteSets

CONSTANTS Threads, Nodes, NoNode

ASSUME ListAssumption ==
  IsFiniteSet(Threads) /\ IsFiniteSet(Nodes) /\ NoNode \notin Nodes

VARIABLES
  listHead,  \* freeListHead
  refs,      \* freeListRefs of each node: the count, and SHOULD_BE_ON_FREELIST
  next,      \* freeListNext of each
  at,        \* where each thread is in try_get() or add()
  node,      \* the node it works on
  seen       \* what it has loaded: the list's head, or the node's next

listVars == <<listHead, refs, next, at, node, seen>>

InitList ==
  /\ listHead = NoNode
  /\ refs = [n \in Nodes |-> [count |-> 0, flag |-> FALSE]]
  /\ next = [n \in Nodes |-> NoNode]
  /\ at = [t \in Threads |-> "out"]
  /\ node = [t \in Threads |-> NoNode]
  /\ seen = [t \in Threads |-> NoNode]

Move(t, there, n, s) == /\ at' = [at EXCEPT ![t] = there]
                        /\ node' = [node EXCEPT ![t] = n]
                        /\ seen' = [seen EXCEPT ![t] = s]
Counted(n, change) == refs' = [refs EXCEPT ![n].count = @ + change]

-----------------------------------------------------------------------------
(* try_get(): the head is loaded, first and after a conflict. *)
Seek(t, head) ==
  IF head = NoNode THEN Move(t, "none", NoNode, NoNode)
  ELSE Move(t, "head", head, NoNode)

GetHead(t) == /\ at[t] = "get"
              /\ Seek(t, listHead)
              /\ UNCHANGED <<listHead, refs, next>>

(* Mutant of Reference: a count of zero is raised, too. *)
ReferenceAny(t) ==
  /\ at[t] = "head"
  /\ Counted(node[t], 1) /\ Move(t, "referenced", node[t], NoNode)
  /\ UNCHANGED <<listHead, next>>

(* The count is raised, unless it is zero. *)
Reference(t) ==
  /\ at[t] = "head"
  /\ IF refs[node[t]].count = 0
       THEN Move(t, "get", NoNode, NoNode) /\ UNCHANGED refs
       ELSE Counted(node[t], 1) /\ Move(t, "referenced", node[t], NoNode)
  /\ UNCHANGED <<listHead, next>>

LoadNext(t) ==
  /\ at[t] = "referenced"
  /\ Move(t, "next", node[t], next[node[t]])
  /\ UNCHANGED <<listHead, refs, next>>

(* The node is taken off, or the head has changed and is what was seen. *)
Swap(t) ==
  /\ at[t] = "next"
  /\ IF listHead = node[t]
       THEN listHead' = seen[t] /\ Move(t, "taken", node[t], NoNode)
       ELSE Move(t, "missed", node[t], listHead) /\ UNCHANGED listHead
  /\ UNCHANGED <<refs, next>>

(* The node is ours: one reference of this thread, one of the list. *)
Take(t) ==
  /\ at[t] = "taken"
  /\ Counted(node[t], -2)
  /\ Move(t, "got", node[t], NoNode)
  /\ UNCHANGED <<listHead, next>>

(* Mutant of Dereference: the node is left to whoever set its flag. *)
DereferenceOnly(t) ==
  /\ at[t] = "missed"
  /\ Counted(node[t], -1) /\ Seek(t, seen[t])
  /\ UNCHANGED <<listHead, next>>

(* The reference is given up: the last one puts a flagged node on the list. *)
Dereference(t) ==
  /\ at[t] = "missed"
  /\ IF refs[node[t]] = [count |-> 1, flag |-> TRUE]
       THEN /\ Counted(node[t], -1)
            /\ at' = [at EXCEPT ![t] = "readd"] /\ UNCHANGED <<node, seen>>
       ELSE /\ Counted(node[t], -1) /\ Seek(t, seen[t])
  /\ UNCHANGED <<listHead, next>>

-----------------------------------------------------------------------------
(* add(): the flag is set, and the node put on the list if nobody refers to it. *)
Flag(t) ==
  /\ at[t] = "add"
  /\ refs' = [refs EXCEPT ![node[t]].flag = TRUE]
  /\ IF refs[node[t]].count = 0 THEN Move(t, "link", node[t], NoNode)
     ELSE Move(t, "out", NoNode, NoNode)
  /\ UNCHANGED <<listHead, next>>

(* add_knowing_refcount_is_zero(), from add() or from try_get(), which goes on
   with the head it has seen.                                                *)
Adding(t) == at[t] \in {"link", "linked", "lost"}
Readding(t) == at[t] \in {"readd", "relinked", "relost"}
Or(t, there, again) == IF Adding(t) THEN there ELSE again
Leave(t) == IF Adding(t) THEN Move(t, "out", NoNode, NoNode) ELSE Seek(t, seen[t])

(* Mutant of Link: the list's own reference is not counted. *)
LinkUncounted(t) ==
  /\ at[t] \in {"link", "readd"}
  /\ next' = [next EXCEPT ![node[t]] = listHead]
  /\ refs' = [refs EXCEPT ![node[t]] = [count |-> 0, flag |-> FALSE]]
  /\ at' = [at EXCEPT ![t] = Or(t, "linked", "relinked")]
  /\ UNCHANGED <<listHead, node, seen>>

(* next and the count are stored: nobody else refers to the node before.  The
   head that is linked to was loaded, by this step or by the last.            *)
Link(t) ==
  /\ at[t] \in {"link", "readd"}
  /\ next' = [next EXCEPT ![node[t]] = listHead]
  /\ refs' = [refs EXCEPT ![node[t]] = [count |-> 1, flag |-> FALSE]]
  /\ at' = [at EXCEPT ![t] = Or(t, "linked", "relinked")]
  /\ UNCHANGED <<listHead, node, seen>>

Push(t) ==
  /\ at[t] \in {"linked", "relinked"}
  /\ IF listHead = next[node[t]]
       THEN listHead' = node[t] /\ Leave(t)
       ELSE /\ at' = [at EXCEPT ![t] = Or(t, "lost", "relost")]
            /\ UNCHANGED <<listHead, node, seen>>
  /\ UNCHANGED <<refs, next>>

(* The head was another: again, when nobody has referred to the node since. *)
Reflag(t) ==
  /\ at[t] \in {"lost", "relost"}
  /\ refs' = [refs EXCEPT ![node[t]] = [count |-> @.count - 1, flag |-> TRUE]]
  /\ IF refs[node[t]].count = 1
       THEN at' = [at EXCEPT ![t] = Or(t, "link", "readd")] /\ UNCHANGED <<node, seen>>
       ELSE Leave(t)
  /\ UNCHANGED <<listHead, next>>

-----------------------------------------------------------------------------
(* A thread calls try_get() or add(n), and try_get() returns. *)
CallGet(t) == at[t] = "out" /\ Move(t, "get", NoNode, NoNode)
CallAdd(t, n) == at[t] = "out" /\ Move(t, "add", n, NoNode)
Got(t) == IF at[t] = "got" THEN node[t] ELSE NoNode
Returned(t) == at[t] \in {"got", "none"} /\ Move(t, "out", NoNode, NoNode)

ListStep(t) == \/ GetHead(t) \/ Reference(t) \/ LoadNext(t) \/ Swap(t) \/ Take(t)
               \/ Dereference(t) \/ Flag(t) \/ Link(t) \/ Push(t) \/ Reflag(t)

-----------------------------------------------------------------------------
(* The list, from its head: the least set of nodes that is closed under next. *)
Closed(S) == /\ listHead # NoNode => listHead \in S
             /\ \A n \in S : next[n] # NoNode => next[n] \in S
Listed == {n \in Nodes : \A S \in SUBSET Nodes : Closed(S) => n \in S}

(* Nodes that are on their way to the list: those of add(), and flagged ones. *)
Returning == {node[t] : t \in {t \in Threads : at[t] = "add" \/ Adding(t) \/ Readding(t)}}
               \cup {n \in Nodes : refs[n].flag}
=============================================================================
