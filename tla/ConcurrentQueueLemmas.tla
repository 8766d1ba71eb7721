----------------------- MODULE ConcurrentQueueLemmas ------------------------
(* What the theorems about the metric queue rest on, for any number of threads and
   blocks, blocks and indices of any size: what the steps of the free list keep,
   whatever the threads that call it do in between; the arithmetic of the index
   of blocks; the invariant IInv; and that the steps of a consumer keep it.     *)
EXTENDS ConcurrentQueue, FiniteSetTheorems, SequenceTheorems, TLAPS

-----------------------------------------------------------------------------
(* Where a thread has a node to itself, and where it has a reference to one. *)
Owning == {"add", "link", "linked", "lost", "readd", "relinked", "relost", "taken", "got"}
Referring == {"referenced", "next", "missed", "taken"}
Points == Owning \cup Referring \cup {"out", "get", "none", "head"}

MaybeNode == Nodes \cup {NoNode}

ListTyped ==
  /\ listHead \in MaybeNode
  /\ refs \in [Nodes -> [count : Int, flag : BOOLEAN]]
  /\ next \in [Nodes -> MaybeNode]
  /\ at \in [Threads -> Points]
  /\ node \in [Threads -> MaybeNode]
  /\ seen \in [Threads -> MaybeNode]
  /\ \A t \in Threads : at[t] \notin {"out", "get", "none"} => node[t] \in Nodes

Owns(t, n) == at[t] \in Owning /\ node[t] = n
Refers(t, n) == at[t] \in Referring /\ node[t] = n
Linking(t, n) == at[t] \in {"link", "readd"} /\ node[t] = n
Lists(t, n) == at[t] \in {"linked", "relinked", "lost", "relost", "taken"} /\ node[t] = n

(* A node of one thread is no other thread's, and not on the list. *)
OwnedOnce(n) ==
  \A t \in Threads : Owns(t, n) => /\ n \notin Listed
                                   /\ \A u \in Threads : Owns(u, n) => u = t

(* A flagged node waits until nobody refers to it, and one thread then links it. *)
FlaggedWaits(n) ==
  /\ refs[n].flag => n \notin Listed
  /\ \A t \in Threads : Owns(t, n) => (refs[n].flag <=> Linking(t, n))
  /\ \A t \in Threads : Linking(t, n) => refs[n].count = 0
  /\ refs[n].flag /\ refs[n].count = 0 => \E t \in Threads : Linking(t, n)

(* The count: a reference for each thread that has one, and one for the list, from
   before the node is put on it until after it is taken off.                      *)
References(n) == {t \in Threads : Refers(t, n)}
OnTheList(n) == n \in Listed \/ \E t \in Threads : Lists(t, n)
CountRight(n) ==
  refs[n].count = Cardinality(References(n)) + IF OnTheList(n) THEN 1 ELSE 0

NodeInv(n) == OwnedOnce(n) /\ FlaggedWaits(n) /\ CountRight(n)

(* What a thread has seen is still what comes next, for next is stored only where
   nobody refers to the node.                                                     *)
NextSeen == \A t \in Threads : at[t] = "next" => seen[t] = next[node[t]]

(* The list is a chain: no two of its nodes have the same next, and none has its head. *)
Chain ==
  \A m, n \in Listed :
    /\ next[m] = next[n] /\ next[m] # NoNode => m = n
    /\ next[m] # listHead \/ listHead = NoNode

ListInv == /\ ListTyped /\ NextSeen /\ Chain
           /\ \A n \in Nodes : NodeInv(n)

(* The nodes that are with the list and not with its callers. *)
Inside(n) == n \in Listed \/ refs[n].flag \/ \E t \in Threads : Owns(t, n)

-----------------------------------------------------------------------------
(* The nodes of the list are closed, and in every closed set. *)
LEMMA LeastClosed ==
  ASSUME ListTyped
  PROVE  /\ Listed \subseteq Nodes /\ Closed(Listed)
         /\ \A S \in SUBSET Nodes : Closed(S) => Listed \subseteq S
<1>1. \A S \in SUBSET Nodes : Closed(S) => Listed \subseteq S
  BY DEF Listed
<1>2. Listed \subseteq Nodes
  BY DEF Listed
<1>3. listHead # NoNode => listHead \in Listed
  BY DEF Listed, Closed, ListTyped, MaybeNode
<1>4. ASSUME NEW n \in Listed, next[n] # NoNode PROVE next[n] \in Listed
  <2>1. next[n] \in Nodes
    BY <1>2, <1>4 DEF ListTyped, MaybeNode
  <2>2. ASSUME NEW S \in SUBSET Nodes, Closed(S) PROVE next[n] \in S
    <3>1. n \in S
      BY <1>1, <2>2
    <3> QED
      BY <1>4, <2>2, <3>1 DEF Closed
  <2> QED
    BY <2>1, <2>2 DEF Listed
<1> QED
  BY <1>1, <1>2, <1>3, <1>4 DEF Closed

(* The list depends on its head and on next alone ... *)
LEMMA ListedSame ==
  ASSUME UNCHANGED <<listHead, next>>
  PROVE  Listed' = Listed
BY DEF Listed, Closed

(* ... and not on the next of a node that is not on it. *)
LEMMA ListedElsewhere ==
  ASSUME ListTyped, ListTyped', listHead' = listHead, NEW n \in Nodes, n \notin Listed,
         \A m \in Nodes \ {n} : next'[m] = next[m]
  PROVE  Listed' = Listed
<1>1. PICK S : S = Listed
  OBVIOUS
<1>2. S \subseteq Nodes /\ Closed(S) /\ n \notin S
  BY <1>1, LeastClosed
<1>3. \A m \in S : next'[m] = next[m]
  BY <1>2
<1>4. Closed(S)'
  BY <1>2, <1>3 DEF Closed
<1>5. Listed' \subseteq S
  BY <1>2, <1>4 DEF Listed
<1>6. S \subseteq Listed'
  <2> SUFFICES ASSUME NEW R \in SUBSET Nodes, Closed(R)' PROVE S \subseteq R
    BY <1>2 DEF Listed
  <2>1. Closed(S \cap R)
    BY <1>2, <1>3 DEF Closed
  <2>2. S \cap R \in SUBSET Nodes
    OBVIOUS
  <2> QED
    BY <1>1, <2>1, <2>2, LeastClosed
<1> QED
  BY <1>1, <1>5, <1>6

(* The head is taken off: it was not on the list twice. *)
LEMMA ListedPopped ==
  ASSUME ListTyped, Chain, NEW n \in Nodes, listHead = n, listHead' = next[n], next' = next
  PROVE  Listed' = Listed \ {n}
<1>1. PICK S : S = Listed
  OBVIOUS
<1>2. S \subseteq Nodes /\ Closed(S) /\ n \in S /\ n # NoNode
  BY <1>1, LeastClosed, ListAssumption DEF Closed
<1>3. \A m \in S : next[m] # n
  BY <1>1, <1>2 DEF Chain
<1>4. Closed(S \ {n})'
  BY <1>2, <1>3 DEF Closed
<1>5. Listed' \subseteq S \ {n}
  <2>1. S \ {n} \in SUBSET Nodes
    BY <1>2
  <2> QED
    BY <2>1, <1>4 DEF Listed
<1>6. S \ {n} \subseteq Listed'
  <2> SUFFICES ASSUME NEW R \in SUBSET Nodes, Closed(R)' PROVE S \ {n} \subseteq R
    BY <1>2 DEF Listed
  <2>1. Closed(R \cup {n})
    BY DEF Closed
  <2>2. R \cup {n} \in SUBSET Nodes
    OBVIOUS
  <2> QED
    BY <1>1, <2>1, <2>2, LeastClosed
<1> QED
  BY <1>1, <1>5, <1>6

(* A node is put on. *)
LEMMA ListedPushed ==
  ASSUME ListTyped, NEW n \in Nodes, listHead = next[n], listHead' = n, next' = next
  PROVE  Listed' = Listed \cup {n}
<1>1. PICK S : S = Listed
  OBVIOUS
<1>2. S \subseteq Nodes /\ Closed(S) /\ n # NoNode
  BY <1>1, LeastClosed, ListAssumption
<1>4. Closed(S \cup {n})'
  BY <1>2 DEF Closed
<1>5. Listed' \subseteq S \cup {n}
  <2>1. S \cup {n} \in SUBSET Nodes
    BY <1>2
  <2> QED
    BY <2>1, <1>4 DEF Listed
<1>6. S \cup {n} \subseteq Listed'
  <2> SUFFICES ASSUME NEW R \in SUBSET Nodes, Closed(R)' PROVE S \cup {n} \subseteq R
    BY <1>2 DEF Listed
  <2>1. Closed(R) /\ n \in R
    BY <1>2 DEF Closed
  <2> QED
    BY <1>1, <2>1, LeastClosed
<1> QED
  BY <1>1, <1>5, <1>6

-----------------------------------------------------------------------------
(* A step of thread t that is about node n leaves the others as they are. *)
About(t, n) ==
  /\ \A u \in Threads \ {t} : at'[u] = at[u] /\ node'[u] = node[u] /\ seen'[u] = seen[u]
  /\ at[t] \in Owning \cup Referring => node[t] = n
  /\ at'[t] \in Owning \cup Referring => node'[t] = n
  /\ \A m \in Nodes \ {n} : refs'[m] = refs[m] /\ (m \in Listed' <=> m \in Listed)

(* What is true of a node that a step is not about. *)
LEMMA OtherNodes ==
  ASSUME NEW t \in Threads, NEW n, About(t, n), NEW m \in Nodes, m # n, NodeInv(m)
  PROVE  NodeInv(m)' /\ (Inside(m)' <=> Inside(m))
<1>1. \A u \in Threads : /\ Owns(u, m)' <=> Owns(u, m)
                         /\ Refers(u, m)' <=> Refers(u, m)
                         /\ Linking(u, m)' <=> Linking(u, m)
                         /\ Lists(u, m)' <=> Lists(u, m)
  BY DEF About, Owns, Refers, Linking, Lists, Owning, Referring
<1>2. refs'[m] = refs[m] /\ (m \in Listed' <=> m \in Listed)
  BY DEF About
<1>3. OwnedOnce(m)'
  BY <1>1, <1>2 DEF NodeInv, OwnedOnce
<1>4. FlaggedWaits(m)'
  BY <1>1, <1>2 DEF NodeInv, FlaggedWaits
<1>5. References(m)' = References(m) /\ (OnTheList(m)' <=> OnTheList(m))
  BY <1>1, <1>2 DEF References, OnTheList
<1>6. CountRight(m)'
  BY <1>2, <1>5 DEF NodeInv, CountRight
<1> QED
  BY <1>1, <1>2, <1>3, <1>4, <1>6 DEF NodeInv, Inside

(* The references to a node are finitely many. *)
LEMMA ReferencesCounted ==
  ASSUME NEW n
  PROVE  Cardinality(References(n)) \in Nat /\ Cardinality(References(n)') \in Nat
<1>1. References(n) \subseteq Threads /\ References(n)' \subseteq Threads
  BY DEF References
<1> QED
  BY <1>1, ListAssumption, FS_Subset, FS_CardinalityType

(* They change by those of the thread that moves. *)
LEMMA ReferencesChange ==
  ASSUME NEW t \in Threads, NEW n,
         \A u \in Threads \ {t} : Refers(u, n)' <=> Refers(u, n)
  PROVE  /\ (Refers(t, n)' <=> Refers(t, n))
              => Cardinality(References(n)') = Cardinality(References(n))
         /\ Refers(t, n) /\ ~Refers(t, n)'
              => Cardinality(References(n)') = Cardinality(References(n)) - 1
         /\ ~Refers(t, n) /\ Refers(t, n)'
              => Cardinality(References(n)') = Cardinality(References(n)) + 1
<1>1. PICK R, S : R = References(n) /\ S = References(n)'
  OBVIOUS
<1>2. IsFiniteSet(R) /\ IsFiniteSet(S) /\ Cardinality(R) \in Nat /\ Cardinality(S) \in Nat
  <2>1. R \subseteq Threads /\ S \subseteq Threads
    BY <1>1 DEF References
  <2> QED
    BY <2>1, ListAssumption, FS_Subset, FS_CardinalityType
<1>3. \A u \in Threads \ {t} : u \in R <=> u \in S
  BY <1>1 DEF References
<1>4. (t \in R <=> Refers(t, n)) /\ (t \in S <=> Refers(t, n)')
  BY <1>1 DEF References
<1>5. R \subseteq Threads /\ S \subseteq Threads
  BY <1>1 DEF References
<1>6. CASE Refers(t, n) <=> Refers(t, n)'
  <2>1. R = S
    BY <1>3, <1>4, <1>5, <1>6
  <2> QED
    BY <1>1, <1>2, <1>6, <2>1
<1>7. CASE Refers(t, n) /\ ~Refers(t, n)'
  <2>1. S = R \ {t} /\ t \in R
    BY <1>3, <1>4, <1>5, <1>7
  <2>2. Cardinality(S) = Cardinality(R) - 1
    BY <1>2, <2>1, FS_RemoveElement
  <2> QED
    BY <1>1, <1>2, <1>7, <2>2
<1>8. CASE ~Refers(t, n) /\ Refers(t, n)'
  <2>1. S = R \cup {t} /\ t \notin R
    BY <1>3, <1>4, <1>5, <1>8
  <2>2. Cardinality(S) = Cardinality(R) + 1
    BY <1>2, <2>1, FS_AddElement
  <2> QED
    BY <1>1, <1>2, <1>8, <2>2
<1> QED
  BY <1>6, <1>7, <1>8

-----------------------------------------------------------------------------
(* Where a thread goes, and what changes in a count. *)
LEMMA MoveEffect ==
  ASSUME ListTyped, NEW t \in Threads, NEW there \in Points, NEW n \in MaybeNode,
         NEW s \in MaybeNode, Move(t, there, n, s), there \notin {"out", "get", "none"} => n \in Nodes
  PROVE  /\ at' \in [Threads -> Points] /\ node' \in [Threads -> MaybeNode]
         /\ seen' \in [Threads -> MaybeNode]
         /\ at'[t] = there /\ node'[t] = n /\ seen'[t] = s
         /\ \A u \in Threads \ {t} : at'[u] = at[u] /\ node'[u] = node[u] /\ seen'[u] = seen[u]
         /\ \A u \in Threads : at'[u] \notin {"out", "get", "none"} => node'[u] \in Nodes
BY DEF Move, ListTyped

(* The count of a node, changed. *)
LEMMA CountEffect ==
  ASSUME ListTyped, NEW n \in Nodes, NEW d \in Int, Counted(n, d)
  PROVE  /\ refs' \in [Nodes -> [count : Int, flag : BOOLEAN]]
         /\ refs'[n].count = refs[n].count + d /\ refs'[n].flag = refs[n].flag
         /\ \A m \in Nodes \ {n} : refs'[m] = refs[m]
BY DEF Counted, ListTyped

(* A thread that begins to look for a node has none. *)
Idle == {"out", "get", "none", "head"}
(* Such a thread, with the head that it has loaded. *)
LEMMA SeekEffect ==
  ASSUME ListTyped, NEW t \in Threads, NEW first \in MaybeNode, Seek(t, first)
  PROVE  /\ at' \in [Threads -> Points] /\ node' \in [Threads -> MaybeNode]
         /\ seen' \in [Threads -> MaybeNode] /\ at'[t] \in {"none", "head"}
         /\ \A u \in Threads \ {t} : at'[u] = at[u] /\ node'[u] = node[u] /\ seen'[u] = seen[u]
         /\ \A u \in Threads : at'[u] \notin {"out", "get", "none"} => node'[u] \in Nodes
<1>1. CASE first = NoNode
  BY <1>1, MoveEffect DEF Seek, Points, MaybeNode
<1>2. CASE first # NoNode
  <2>1. first \in Nodes /\ Move(t, "head", first, NoNode)
    BY <1>2 DEF Seek, MaybeNode
  <2> QED
    BY <2>1, MoveEffect DEF Points, MaybeNode
<1> QED
  BY <1>1, <1>2

(* The same of a thread that is done with what it had. *)
LEMMA LeaveEffect ==
  ASSUME ListTyped, NEW t \in Threads, Leave(t)
  PROVE  /\ at' \in [Threads -> Points] /\ node' \in [Threads -> MaybeNode]
         /\ seen' \in [Threads -> MaybeNode] /\ at'[t] \in Idle
         /\ \A u \in Threads \ {t} : at'[u] = at[u] /\ node'[u] = node[u] /\ seen'[u] = seen[u]
         /\ \A u \in Threads : at'[u] \notin {"out", "get", "none"} => node'[u] \in Nodes
<1>1. seen[t] \in MaybeNode
  BY DEF ListTyped
<1>2. CASE Adding(t)
  BY <1>2, MoveEffect DEF Leave, Points, MaybeNode, Idle
<1>3. CASE ~Adding(t)
  BY <1>1, <1>3, SeekEffect DEF Leave, Idle
<1> QED
  BY <1>2, <1>3

(* A thread goes on with what it has. *)
LEMMA StayEffect ==
  ASSUME ListTyped, NEW t \in Threads, node[t] \in Nodes, NEW there \in Points,
         at' = [at EXCEPT ![t] = there], UNCHANGED <<node, seen>>
  PROVE  /\ at' \in [Threads -> Points] /\ node' \in [Threads -> MaybeNode]
         /\ seen' \in [Threads -> MaybeNode] /\ at'[t] = there
         /\ \A u \in Threads \ {t} : at'[u] = at[u] /\ node'[u] = node[u] /\ seen'[u] = seen[u]
         /\ \A u \in Threads : at'[u] \notin {"out", "get", "none"} => node'[u] \in Nodes
BY DEF ListTyped

-----------------------------------------------------------------------------
(* What a step that keeps the list as it is and is about node n keeps, if it keeps
   what holds of n.                                                              *)
LEMMA AboutKeeps ==
  ASSUME ListInv, NEW t \in Threads, NEW n \in Nodes, About(t, n), ListTyped',
         UNCHANGED <<listHead, next>>, NodeInv(n)', at'[t] = "next" => seen'[t] = next[node'[t]]
  PROVE  ListInv' /\ \A m \in Nodes \ {n} : Inside(m)' <=> Inside(m)
<1>1. \A m \in Nodes \ {n} : NodeInv(m)' /\ (Inside(m)' <=> Inside(m))
  BY OtherNodes DEF ListInv
<1>2. NextSeen'
  BY DEF NextSeen, About, ListInv
<1>3. Chain'
  BY ListedSame DEF Chain, ListInv
<1> QED
  BY <1>1, <1>2, <1>3 DEF ListInv

(* The head is loaded. *)
LEMMA GetHeadKeeps ==
  ASSUME ListInv, NEW t \in Threads, GetHead(t)
  PROVE  ListInv' /\ \A m \in Nodes : Inside(m)' <=> Inside(m)
<1>1. at[t] = "get" /\ UNCHANGED <<listHead, refs, next>> /\ listHead \in MaybeNode /\ ListTyped
  BY DEF GetHead, ListInv, ListTyped
<1>2. /\ at' \in [Threads -> Points] /\ node' \in [Threads -> MaybeNode]
      /\ seen' \in [Threads -> MaybeNode] /\ at'[t] \in {"none", "head"}
      /\ \A u \in Threads \ {t} : at'[u] = at[u] /\ node'[u] = node[u] /\ seen'[u] = seen[u]
      /\ \A u \in Threads : at'[u] \notin {"out", "get", "none"} => node'[u] \in Nodes
  BY <1>1, SeekEffect DEF GetHead
<1>3. ListTyped'
  BY <1>1, <1>2 DEF ListTyped
<1>4. Listed' = Listed
  BY <1>1, ListedSame
<1>5. About(t, NoNode)
  BY <1>1, <1>2, <1>4 DEF About, Owning, Referring
<1>6. \A m \in Nodes : m # NoNode
  BY ListAssumption
<1>7. \A m \in Nodes : NodeInv(m)' /\ (Inside(m)' <=> Inside(m))
  BY <1>5, <1>6, OtherNodes DEF ListInv
<1>8. NextSeen'
  BY <1>1, <1>2 DEF NextSeen, ListInv
<1>9. Chain'
  BY <1>1, <1>4 DEF Chain, ListInv
<1> QED
  BY <1>3, <1>7, <1>8, <1>9 DEF ListInv

(* Of node n the other threads have what they had. *)
LEMMA OthersSame ==
  ASSUME NEW t \in Threads, NEW n, About(t, n)
  PROVE  \A u \in Threads \ {t} : /\ Owns(u, n)' <=> Owns(u, n)
                                  /\ Refers(u, n)' <=> Refers(u, n)
                                  /\ Linking(u, n)' <=> Linking(u, n)
                                  /\ Lists(u, n)' <=> Lists(u, n)
BY DEF About, Owns, Refers, Linking, Lists

(* Who links a node or lists it has it to itself. *)
LEMMA OwnersWork ==
  ASSUME NEW n, NEW t
  PROVE  /\ Linking(t, n) => Owns(t, n)
         /\ Lists(t, n) => Owns(t, n)
         /\ ~(Linking(t, n) /\ Lists(t, n))
         /\ Linking(t, n) => ~Refers(t, n)
BY DEF Linking, Lists, Owns, Owning, Refers, Referring

(* The count is raised, unless it is zero. *)
LEMMA ReferenceKeeps ==
  ASSUME ListInv, NEW t \in Threads, Reference(t)
  PROVE  ListInv' /\ \A m \in Nodes : Inside(m)' <=> Inside(m)
<1>n. PICK n \in Nodes : n = node[t]
  BY DEF Reference, ListInv, ListTyped
<1>1. at[t] = "head" /\ UNCHANGED <<listHead, next>> /\ ListTyped /\ n \in MaybeNode
  BY DEF Reference, ListInv, MaybeNode
<1>2. Listed' = Listed
  BY <1>1, ListedSame
<1>3. CASE refs[n].count = 0
  <2>1. refs' = refs /\ Move(t, "get", NoNode, NoNode)
    BY <1>n, <1>3 DEF Reference
  <2>2. /\ at' \in [Threads -> Points] /\ node' \in [Threads -> MaybeNode]
        /\ seen' \in [Threads -> MaybeNode] /\ at'[t] = "get"
        /\ \A u \in Threads \ {t} : at'[u] = at[u] /\ node'[u] = node[u] /\ seen'[u] = seen[u]
        /\ \A u \in Threads : at'[u] \notin {"out", "get", "none"} => node'[u] \in Nodes
    BY <1>1, <2>1, MoveEffect DEF Points, MaybeNode
  <2>3. ListTyped'
    BY <1>1, <2>1, <2>2 DEF ListTyped
  <2>4. About(t, NoNode)
    BY <1>1, <1>2, <2>1, <2>2 DEF About, Owning, Referring
  <2>5. \A m \in Nodes : NodeInv(m)' /\ (Inside(m)' <=> Inside(m))
    BY <2>4, ListAssumption, OtherNodes DEF ListInv
  <2>6. NextSeen'
    BY <1>1, <2>1, <2>2 DEF NextSeen, ListInv
  <2>7. Chain'
    BY <1>1, <1>2 DEF Chain, ListInv
  <2> QED
    BY <2>3, <2>5, <2>6, <2>7 DEF ListInv
<1>4. CASE refs[n].count # 0
  <2>1. Counted(n, 1) /\ Move(t, "referenced", n, NoNode)
    BY <1>n, <1>4 DEF Reference
  <2>2. /\ at' \in [Threads -> Points] /\ node' \in [Threads -> MaybeNode]
        /\ seen' \in [Threads -> MaybeNode] /\ at'[t] = "referenced" /\ node'[t] = n
        /\ \A u \in Threads \ {t} : at'[u] = at[u] /\ node'[u] = node[u] /\ seen'[u] = seen[u]
        /\ \A u \in Threads : at'[u] \notin {"out", "get", "none"} => node'[u] \in Nodes
    BY <1>1, <2>1, MoveEffect DEF Points, MaybeNode, Referring
  <2>3. /\ refs' \in [Nodes -> [count : Int, flag : BOOLEAN]]
        /\ refs'[n].count = refs[n].count + 1 /\ refs'[n].flag = refs[n].flag
        /\ \A m \in Nodes \ {n} : refs'[m] = refs[m]
    BY <1>1, <2>1, CountEffect
  <2>4. ListTyped'
    BY <1>1, <2>2, <2>3 DEF ListTyped
  <2>5. About(t, n)
    BY <1>n, <1>1, <1>2, <2>2, <2>3 DEF About, Owning, Referring
  <2>6. /\ ~Owns(t, n) /\ ~Owns(t, n)' /\ ~Linking(t, n)' /\ ~Lists(t, n)'
        /\ ~Refers(t, n) /\ Refers(t, n)' /\ ~Linking(t, n) /\ ~Lists(t, n)
    BY <1>n, <1>1, <2>2 DEF Owns, Linking, Lists, Refers, Owning, Referring
  <2>7. \A u \in Threads : /\ Owns(u, n)' <=> Owns(u, n)
                           /\ Linking(u, n)' <=> Linking(u, n)
                           /\ Lists(u, n)' <=> Lists(u, n)
    BY <2>5, <2>6, OthersSame
  <2>8. Cardinality(References(n)') = Cardinality(References(n)) + 1
    BY <2>5, <2>6, OthersSame, ReferencesChange
  <2>9. NodeInv(n)
    BY <1>1 DEF ListInv
  <2>10. OwnedOnce(n)'
    BY <1>2, <2>7, <2>9 DEF NodeInv, OwnedOnce
  <2>11. \A u \in Threads : ~Linking(u, n)
    BY <1>4, <2>9 DEF NodeInv, FlaggedWaits
  <2>12. refs'[n].count # 0
    <3>1. refs[n].count \in Nat
      BY <2>9, ReferencesCounted DEF NodeInv, CountRight
    <3> QED
      BY <2>3, <3>1
  <2>13. FlaggedWaits(n)'
    BY <1>2, <2>3, <2>7, <2>9, <2>11, <2>12 DEF NodeInv, FlaggedWaits
  <2>14. CountRight(n)'
    <3>1. OnTheList(n)' <=> OnTheList(n)
      BY <1>2, <2>7 DEF OnTheList
    <3> QED
      BY <2>3, <2>8, <2>9, <3>1, ReferencesCounted DEF NodeInv, CountRight
  <2>15. NodeInv(n)' /\ at'[t] # "next"
    BY <2>2, <2>10, <2>13, <2>14 DEF NodeInv
  <2>16. Inside(n)' <=> Inside(n)
    BY <1>2, <2>3, <2>7 DEF Inside
  <2> QED
    BY <1>1, <2>4, <2>5, <2>15, <2>16, AboutKeeps
<1> QED
  BY <1>3, <1>4

(* A thread goes on and is to the node what it was before. *)
LEMMA RolesKept ==
  ASSUME ListInv, NEW t \in Threads, NEW n \in Nodes, About(t, n), Listed' = Listed, refs' = refs,
         Owns(t, n)' <=> Owns(t, n), Refers(t, n)' <=> Refers(t, n),
         Linking(t, n)' <=> Linking(t, n), Lists(t, n)' <=> Lists(t, n)
  PROVE  NodeInv(n)' /\ (Inside(n)' <=> Inside(n))
<1>1. \A u \in Threads : /\ Owns(u, n)' <=> Owns(u, n)
                         /\ Refers(u, n)' <=> Refers(u, n)
                         /\ Linking(u, n)' <=> Linking(u, n)
                         /\ Lists(u, n)' <=> Lists(u, n)
  BY OthersSame
<1>2. NodeInv(n)
  BY DEF ListInv
<1>3. OwnedOnce(n)' /\ FlaggedWaits(n)'
  BY <1>1, <1>2 DEF NodeInv, OwnedOnce, FlaggedWaits
<1>4. References(n)' = References(n) /\ (OnTheList(n)' <=> OnTheList(n))
  BY <1>1 DEF References, OnTheList
<1>5. CountRight(n)'
  BY <1>2, <1>4 DEF NodeInv, CountRight
<1> QED
  BY <1>1, <1>3, <1>5 DEF NodeInv, Inside

(* What is next is loaded: it stays what is next, for the node is referred to. *)
LEMMA LoadNextKeeps ==
  ASSUME ListInv, NEW t \in Threads, LoadNext(t)
  PROVE  ListInv' /\ \A m \in Nodes : Inside(m)' <=> Inside(m)
<1>n. PICK n \in Nodes : n = node[t]
  BY DEF LoadNext, ListInv, ListTyped
<1>1. /\ at[t] = "referenced" /\ UNCHANGED <<listHead, next, refs>> /\ ListTyped
      /\ n \in MaybeNode /\ next[n] \in MaybeNode
  BY DEF LoadNext, ListInv, MaybeNode, ListTyped
<1>2. Listed' = Listed
  BY <1>1, ListedSame
<1>3. /\ at' \in [Threads -> Points] /\ node' \in [Threads -> MaybeNode]
      /\ seen' \in [Threads -> MaybeNode] /\ at'[t] = "next" /\ node'[t] = n
      /\ seen'[t] = next[n]
      /\ \A u \in Threads \ {t} : at'[u] = at[u] /\ node'[u] = node[u] /\ seen'[u] = seen[u]
      /\ \A u \in Threads : at'[u] \notin {"out", "get", "none"} => node'[u] \in Nodes
  <2>1. Move(t, "next", n, next[n])
    BY <1>n DEF LoadNext
  <2> QED
    BY <1>1, <2>1, MoveEffect DEF Points, Referring
<1>4. ListTyped'
  BY <1>1, <1>3 DEF ListTyped
<1>5. About(t, n)
  BY <1>n, <1>1, <1>2, <1>3 DEF About
<1>6. /\ Owns(t, n)' <=> Owns(t, n)
      /\ Refers(t, n)' <=> Refers(t, n)
      /\ Linking(t, n)' <=> Linking(t, n)
      /\ Lists(t, n)' <=> Lists(t, n)
  BY <1>n, <1>1, <1>3 DEF Owns, Linking, Lists, Refers, Owning, Referring
<1>7. NodeInv(n)' /\ (Inside(n)' <=> Inside(n))
  BY <1>1, <1>2, <1>5, <1>6, RolesKept
<1>8. at'[t] = "next" => seen'[t] = next[node'[t]]
  BY <1>3
<1> QED
  BY <1>1, <1>4, <1>5, <1>7, <1>8, AboutKeeps

(* The node is taken off the list, or the head is another now. *)
LEMMA SwapKeeps ==
  ASSUME ListInv, NEW t \in Threads, Swap(t)
  PROVE  ListInv' /\ \A m \in Nodes : Inside(m)' <=> Inside(m)
<1>n. PICK n \in Nodes : n = node[t]
  BY DEF Swap, ListInv, ListTyped
<1>1. /\ at[t] = "next" /\ UNCHANGED <<refs, next>> /\ ListTyped /\ n \in MaybeNode
      /\ seen[t] = next[n] /\ seen[t] \in MaybeNode /\ listHead \in MaybeNode
      /\ NoNode \in MaybeNode
  BY <1>n DEF Swap, ListInv, MaybeNode, ListTyped, NextSeen
<1>8. NodeInv(n)
  BY DEF ListInv
<1>2. CASE listHead = n
  <2>1. listHead' = next[n] /\ Move(t, "taken", n, NoNode)
    BY <1>n, <1>1, <1>2 DEF Swap
  <2>2. Listed' = Listed \ {n} /\ n \in Listed
    <3>1. n \in Listed
      BY <1>1, <1>2, LeastClosed, ListAssumption DEF Closed
    <3> QED
      BY <1>1, <1>2, <2>1, <3>1, ListedPopped DEF ListInv
  <2>3. /\ at' \in [Threads -> Points] /\ node' \in [Threads -> MaybeNode]
        /\ seen' \in [Threads -> MaybeNode] /\ at'[t] = "taken" /\ node'[t] = n
        /\ \A u \in Threads \ {t} : at'[u] = at[u] /\ node'[u] = node[u] /\ seen'[u] = seen[u]
        /\ \A u \in Threads : at'[u] \notin {"out", "get", "none"} => node'[u] \in Nodes
    BY <1>1, <2>1, MoveEffect DEF Points, Referring
  <2>4. ListTyped'
    BY <1>1, <2>1, <2>3 DEF ListTyped
  <2>5. About(t, n)
    BY <1>n, <1>1, <2>2, <2>3 DEF About
  <2>6. /\ ~Owns(t, n) /\ Owns(t, n)' /\ ~Linking(t, n) /\ ~Linking(t, n)'
        /\ ~Lists(t, n) /\ Lists(t, n)' /\ Refers(t, n) /\ Refers(t, n)'
    BY <1>n, <1>1, <2>3 DEF Owns, Linking, Lists, Refers, Owning, Referring
  <2>7. ~refs[n].flag /\ \A u \in Threads : ~Owns(u, n) /\ ~Linking(u, n) /\ ~Lists(u, n)
    BY <2>2, <1>8, OwnersWork DEF NodeInv, OwnedOnce, FlaggedWaits
  <2>8. \A u \in Threads \ {t} : ~Owns(u, n)' /\ ~Linking(u, n)' /\ ~Lists(u, n)'
    BY <2>5, <2>7, OthersSame
  <2>9. OwnedOnce(n)' /\ FlaggedWaits(n)'
    BY <1>1, <2>2, <2>6, <2>7, <2>8 DEF OwnedOnce, FlaggedWaits
  <2>10. CountRight(n)'
    <3>1. Cardinality(References(n)') = Cardinality(References(n))
      BY <2>5, <2>6, OthersSame, ReferencesChange
    <3>2. OnTheList(n) /\ OnTheList(n)'
      BY <2>2, <2>6 DEF OnTheList
    <3> QED
      BY <1>1, <1>8, <3>1, <3>2 DEF NodeInv, CountRight
  <2>11. \A m \in Nodes \ {n} : NodeInv(m)' /\ (Inside(m)' <=> Inside(m))
    BY <2>5, OtherNodes DEF ListInv
  <2>12. Inside(n) /\ Inside(n)'
    BY <2>2, <2>6 DEF Inside
  <2>13. NextSeen'
    BY <1>1, <2>3 DEF NextSeen, ListInv
  <2>14. Chain'
    BY <1>1, <2>1, <2>2 DEF Chain, ListInv
  <2> QED
    BY <2>4, <2>9, <2>10, <2>11, <2>12, <2>13, <2>14 DEF ListInv, NodeInv
<1>3. CASE listHead # n
  <2>1. listHead' = listHead /\ Move(t, "missed", n, listHead)
    BY <1>n, <1>1, <1>3 DEF Swap
  <2>2. Listed' = Listed
    BY <1>1, <2>1, ListedSame
  <2>3. /\ at' \in [Threads -> Points] /\ node' \in [Threads -> MaybeNode]
        /\ seen' \in [Threads -> MaybeNode] /\ at'[t] = "missed" /\ node'[t] = n
        /\ \A u \in Threads \ {t} : at'[u] = at[u] /\ node'[u] = node[u] /\ seen'[u] = seen[u]
        /\ \A u \in Threads : at'[u] \notin {"out", "get", "none"} => node'[u] \in Nodes
    BY <1>1, <2>1, MoveEffect DEF Points, Referring
  <2>4. ListTyped'
    BY <1>1, <2>1, <2>3 DEF ListTyped
  <2>5. About(t, n)
    BY <1>n, <1>1, <2>2, <2>3 DEF About
  <2>6. /\ Owns(t, n)' <=> Owns(t, n)
        /\ Refers(t, n)' <=> Refers(t, n)
        /\ Linking(t, n)' <=> Linking(t, n)
        /\ Lists(t, n)' <=> Lists(t, n)
    BY <1>n, <1>1, <2>3 DEF Owns, Linking, Lists, Refers, Owning, Referring
  <2>7. NodeInv(n)' /\ (Inside(n)' <=> Inside(n))
    BY <1>1, <2>2, <2>5, <2>6, RolesKept
  <2>8. at'[t] # "next"
    BY <2>3
  <2> QED
    BY <1>1, <2>1, <2>4, <2>5, <2>7, <2>8, AboutKeeps
<1> QED
  BY <1>2, <1>3

(* Of the node that a thread has to itself, the others have at most references. *)
LEMMA OwnersNode ==
  ASSUME ListInv, NEW t \in Threads, NEW n \in Nodes, About(t, n), Owns(t, n)
  PROVE  /\ n \notin Listed /\ NodeInv(n)
         /\ \A u \in Threads \ {t} : /\ ~Owns(u, n) /\ ~Linking(u, n) /\ ~Lists(u, n)
                                     /\ ~Owns(u, n)' /\ ~Linking(u, n)' /\ ~Lists(u, n)'
         /\ OnTheList(n) <=> Lists(t, n)
         /\ refs[n].flag <=> Linking(t, n)
         /\ Linking(t, n) => refs[n].count = 0
<1>1. NodeInv(n)
  BY DEF ListInv
<1>2. n \notin Listed /\ \A u \in Threads \ {t} : ~Owns(u, n)
  BY <1>1 DEF NodeInv, OwnedOnce
<1>3. \A u \in Threads \ {t} : ~Linking(u, n) /\ ~Lists(u, n)
  BY <1>2, OwnersWork
<1>4. \A u \in Threads \ {t} : ~Owns(u, n)' /\ ~Linking(u, n)' /\ ~Lists(u, n)'
  BY <1>2, <1>3, OthersSame
<1>5. OnTheList(n) <=> Lists(t, n)
  BY <1>2, <1>3 DEF OnTheList
<1>6. (refs[n].flag <=> Linking(t, n)) /\ (Linking(t, n) => refs[n].count = 0)
  BY <1>1 DEF NodeInv, FlaggedWaits
<1> QED
  BY <1>1, <1>2, <1>3, <1>4, <1>5, <1>6

(* The thread that has a node to itself goes on, and keeps it or leaves it to the
   references.                                                                    *)
LEMMA OwnerKeeps ==
  ASSUME ListInv, NEW t \in Threads, NEW n \in Nodes, About(t, n), Owns(t, n), n \notin Listed',
         Owns(t, n)' => (refs'[n].flag <=> Linking(t, n)'),
         Linking(t, n)' => refs'[n].count = 0,
         refs'[n].flag /\ refs'[n].count = 0 => Linking(t, n)',
         refs'[n].count = Cardinality(References(n)') + IF Lists(t, n)' THEN 1 ELSE 0
  PROVE  NodeInv(n)' /\ (Inside(n)' <=> Owns(t, n)' \/ refs'[n].flag)
<1>1. \A u \in Threads \ {t} : ~Owns(u, n)' /\ ~Linking(u, n)' /\ ~Lists(u, n)'
  BY OwnersNode
<1>2. OwnedOnce(n)' /\ FlaggedWaits(n)'
  BY <1>1, OwnersWork DEF OwnedOnce, FlaggedWaits
<1>3. OnTheList(n)' <=> Lists(t, n)'
  BY <1>1 DEF OnTheList
<1>4. CountRight(n)'
  BY <1>3 DEF CountRight
<1> QED
  BY <1>1, <1>2, <1>4 DEF NodeInv, Inside

(* The node is ours: the reference of the list is given up with that of the thread. *)
LEMMA TakeKeeps ==
  ASSUME ListInv, NEW t \in Threads, Take(t)
  PROVE  ListInv' /\ \A m \in Nodes : Inside(m)' <=> Inside(m)
<1>n. PICK n \in Nodes : n = node[t]
  BY DEF Take, ListInv, ListTyped
<1>1. /\ at[t] = "taken" /\ UNCHANGED <<listHead, next>> /\ ListTyped /\ n \in MaybeNode
      /\ NoNode \in MaybeNode /\ Counted(n, -2) /\ Move(t, "got", n, NoNode)
  BY <1>n DEF Take, ListInv, MaybeNode
<1>2. Listed' = Listed
  BY <1>1, ListedSame
<1>3. /\ at' \in [Threads -> Points] /\ node' \in [Threads -> MaybeNode]
      /\ seen' \in [Threads -> MaybeNode] /\ at'[t] = "got" /\ node'[t] = n
      /\ \A u \in Threads \ {t} : at'[u] = at[u] /\ node'[u] = node[u] /\ seen'[u] = seen[u]
      /\ \A u \in Threads : at'[u] \notin {"out", "get", "none"} => node'[u] \in Nodes
  BY <1>1, MoveEffect DEF Points, Owning
<1>4. /\ refs' \in [Nodes -> [count : Int, flag : BOOLEAN]]
      /\ refs'[n].count = refs[n].count - 2 /\ refs'[n].flag = refs[n].flag
      /\ \A m \in Nodes \ {n} : refs'[m] = refs[m]
  <2>1. /\ refs'[n].count = refs[n].count + (-2) /\ refs'[n].flag = refs[n].flag
        /\ refs' \in [Nodes -> [count : Int, flag : BOOLEAN]]
        /\ \A m \in Nodes \ {n} : refs'[m] = refs[m]
    BY <1>1, CountEffect
  <2>2. refs[n].count \in Int
    BY <1>1 DEF ListTyped
  <2> QED
    BY <2>1, <2>2
<1>5. ListTyped'
  BY <1>1, <1>3, <1>4 DEF ListTyped
<1>6. About(t, n)
  BY <1>n, <1>1, <1>2, <1>3, <1>4 DEF About
<1>7. /\ Owns(t, n) /\ Owns(t, n)' /\ ~Linking(t, n) /\ ~Linking(t, n)'
      /\ Lists(t, n) /\ ~Lists(t, n)' /\ Refers(t, n) /\ ~Refers(t, n)'
  BY <1>n, <1>1, <1>3 DEF Owns, Linking, Lists, Refers, Owning, Referring
<1>8. /\ NodeInv(n) /\ n \notin Listed /\ OnTheList(n) /\ ~refs[n].flag
  BY <1>6, <1>7, OwnersNode
<1>9. refs'[n].count = Cardinality(References(n)')
  <2>1. Cardinality(References(n)') = Cardinality(References(n)) - 1
    BY <1>6, <1>7, OthersSame, ReferencesChange
  <2> QED
    BY <1>4, <1>8, <2>1, ReferencesCounted DEF NodeInv, CountRight
<1>10. NodeInv(n)' /\ (Inside(n)' <=> Owns(t, n)' \/ refs'[n].flag)
  BY <1>2, <1>4, <1>6, <1>7, <1>8, <1>9, ReferencesCounted, OwnerKeeps
<1>11. Inside(n) /\ Inside(n)'
  BY <1>7, <1>10 DEF Inside
<1>12. at'[t] # "next"
  BY <1>3
<1> QED
  BY <1>1, <1>5, <1>6, <1>10, <1>11, <1>12, AboutKeeps

(* The reference is given up; the last one puts a flagged node on the list. *)
LEMMA DereferenceKeeps ==
  ASSUME ListInv, NEW t \in Threads, Dereference(t)
  PROVE  ListInv' /\ \A m \in Nodes : Inside(m)' <=> Inside(m)
<1>n. PICK n \in Nodes : n = node[t]
  BY DEF Dereference, ListInv, ListTyped
<1>1. /\ at[t] = "missed" /\ UNCHANGED <<listHead, next>> /\ ListTyped /\ seen[t] \in MaybeNode
      /\ Counted(n, -1)
  BY <1>n DEF Dereference, ListInv, ListTyped
<1>2. Listed' = Listed
  BY <1>1, ListedSame
<1>3. /\ refs' \in [Nodes -> [count : Int, flag : BOOLEAN]]
      /\ refs'[n].count = refs[n].count - 1 /\ refs'[n].flag = refs[n].flag
      /\ \A m \in Nodes \ {n} : refs'[m] = refs[m]
  <2>1. /\ refs'[n].count = refs[n].count + (-1) /\ refs'[n].flag = refs[n].flag
        /\ refs' \in [Nodes -> [count : Int, flag : BOOLEAN]]
        /\ \A m \in Nodes \ {n} : refs'[m] = refs[m]
    BY <1>1, CountEffect
  <2>2. refs[n].count \in Int
    BY <1>1 DEF ListTyped
  <2> QED
    BY <2>1, <2>2
<1>4. NodeInv(n)
  BY DEF ListInv
<1>5. /\ ~Owns(t, n) /\ ~Linking(t, n) /\ ~Lists(t, n) /\ Refers(t, n)
  BY <1>n, <1>1 DEF Owns, Linking, Lists, Refers, Owning, Referring
<1>6. refs[n].count \in Nat /\ refs[n].count > 0
  <2>1. References(n) # {}
    BY <1>5 DEF References
  <2>2. IsFiniteSet(References(n))
    BY ListAssumption, FS_Subset DEF References
  <2>3. Cardinality(References(n)) # 0
    BY <2>1, <2>2, FS_EmptySet
  <2> QED
    BY <1>4, <2>3, ReferencesCounted DEF NodeInv, CountRight
<1>7. CASE refs[n] = [count |-> 1, flag |-> TRUE]
  <2>1. at' = [at EXCEPT ![t] = "readd"] /\ UNCHANGED <<node, seen>>
    BY <1>n, <1>7 DEF Dereference
  <2>2. refs[n].count = 1 /\ refs[n].flag
    BY <1>7
  <2>3. /\ at' \in [Threads -> Points] /\ node' \in [Threads -> MaybeNode]
        /\ seen' \in [Threads -> MaybeNode] /\ at'[t] = "readd" /\ node'[t] = n
        /\ \A u \in Threads \ {t} : at'[u] = at[u] /\ node'[u] = node[u] /\ seen'[u] = seen[u]
        /\ \A u \in Threads : at'[u] \notin {"out", "get", "none"} => node'[u] \in Nodes
    BY <1>n, <1>1, <2>1, StayEffect DEF Points, Owning
  <2>4. ListTyped'
    BY <1>1, <1>3, <2>3 DEF ListTyped
  <2>5. About(t, n)
    BY <1>n, <1>1, <1>2, <1>3, <2>3 DEF About
  <2>6. Owns(t, n)' /\ Linking(t, n)' /\ ~Lists(t, n)' /\ ~Refers(t, n)'
    BY <2>3 DEF Owns, Linking, Lists, Refers, Owning, Referring
  <2>7. /\ n \notin Listed
        /\ \A u \in Threads : ~Owns(u, n) /\ ~Linking(u, n) /\ ~Lists(u, n)
    BY <1>4, <2>2, OwnersWork DEF NodeInv, FlaggedWaits
  <2>8. \A u \in Threads \ {t} : ~Owns(u, n)' /\ ~Linking(u, n)' /\ ~Lists(u, n)'
    BY <2>5, <2>7, OthersSame
  <2>9. refs'[n].count = 0 /\ refs'[n].flag
    BY <1>3, <2>2
  <2>10. OwnedOnce(n)' /\ FlaggedWaits(n)'
    BY <1>2, <2>6, <2>7, <2>8, <2>9 DEF OwnedOnce, FlaggedWaits
  <2>11. CountRight(n)'
    <3>1. Cardinality(References(n)') = Cardinality(References(n)) - 1
      BY <1>5, <2>5, <2>6, OthersSame, ReferencesChange
    <3>2. ~OnTheList(n) /\ ~OnTheList(n)'
      BY <1>2, <2>6, <2>7, <2>8 DEF OnTheList
    <3> QED
      BY <1>3, <1>4, <3>1, <3>2, ReferencesCounted DEF NodeInv, CountRight
  <2>12. Inside(n) /\ Inside(n)'
    BY <2>2, <2>6 DEF Inside
  <2>13. at'[t] # "next"
    BY <2>3
  <2> QED
    BY <1>1, <2>4, <2>5, <2>10, <2>11, <2>12, <2>13, AboutKeeps DEF NodeInv
<1>8. CASE refs[n] # [count |-> 1, flag |-> TRUE]
  <2>1. Seek(t, seen[t])
    BY <1>n, <1>8 DEF Dereference
  <2>2. refs[n].flag => refs[n].count # 1
    BY <1>1, <1>8 DEF ListTyped
  <2>3. /\ at' \in [Threads -> Points] /\ node' \in [Threads -> MaybeNode]
        /\ seen' \in [Threads -> MaybeNode] /\ at'[t] \in {"none", "head"}
        /\ \A u \in Threads \ {t} : at'[u] = at[u] /\ node'[u] = node[u] /\ seen'[u] = seen[u]
        /\ \A u \in Threads : at'[u] \notin {"out", "get", "none"} => node'[u] \in Nodes
    BY <1>1, <2>1, SeekEffect
  <2>4. ListTyped'
    BY <1>1, <1>3, <2>3 DEF ListTyped
  <2>5. About(t, n)
    BY <1>n, <1>1, <1>2, <1>3, <2>3 DEF About, Owning, Referring
  <2>6. ~Owns(t, n)' /\ ~Linking(t, n)' /\ ~Lists(t, n)' /\ ~Refers(t, n)'
    BY <2>3 DEF Owns, Linking, Lists, Refers, Owning, Referring
  <2>7. \A u \in Threads : /\ Owns(u, n)' <=> Owns(u, n)
                           /\ Linking(u, n)' <=> Linking(u, n)
                           /\ Lists(u, n)' <=> Lists(u, n)
    BY <1>5, <2>5, <2>6, OthersSame
  <2>8. \A u \in Threads : ~Linking(u, n)
    BY <1>4, <1>6 DEF NodeInv, FlaggedWaits
  <2>9. refs'[n].flag => refs'[n].count # 0
    BY <1>3, <1>6, <2>2
  <2>10. OwnedOnce(n)' /\ FlaggedWaits(n)'
    BY <1>2, <1>3, <1>4, <2>7, <2>8, <2>9 DEF NodeInv, OwnedOnce, FlaggedWaits
  <2>11. CountRight(n)'
    <3>1. Cardinality(References(n)') = Cardinality(References(n)) - 1
      BY <1>5, <2>5, <2>6, OthersSame, ReferencesChange
    <3>2. OnTheList(n)' <=> OnTheList(n)
      BY <1>2, <2>7 DEF OnTheList
    <3> QED
      BY <1>3, <1>4, <3>1, <3>2, ReferencesCounted DEF NodeInv, CountRight
  <2>12. Inside(n)' <=> Inside(n)
    BY <1>2, <1>3, <2>7 DEF Inside
  <2>13. at'[t] # "next"
    BY <2>3
  <2> QED
    BY <1>1, <2>4, <2>5, <2>10, <2>11, <2>12, <2>13, AboutKeeps DEF NodeInv
<1> QED
  BY <1>7, <1>8

(* The flag is set: the thread links the node unless others refer to it. *)
LEMMA FlagKeeps ==
  ASSUME ListInv, NEW t \in Threads, Flag(t)
  PROVE  ListInv' /\ \A m \in Nodes : Inside(m)' <=> Inside(m)
<1>n. PICK n \in Nodes : n = node[t]
  BY DEF Flag, ListInv, ListTyped
<1>1. /\ at[t] = "add" /\ UNCHANGED <<listHead, next>> /\ ListTyped /\ n \in MaybeNode
      /\ NoNode \in MaybeNode /\ refs' = [refs EXCEPT ![n].flag = TRUE]
  BY <1>n DEF Flag, ListInv, MaybeNode
<1>2. Listed' = Listed
  BY <1>1, ListedSame
<1>3. /\ at' \in [Threads -> Points] /\ node' \in [Threads -> MaybeNode]
      /\ seen' \in [Threads -> MaybeNode]
      /\ refs[n].count = 0 => at'[t] = "link" /\ node'[t] = n
      /\ refs[n].count # 0 => at'[t] = "out"
      /\ \A u \in Threads \ {t} : at'[u] = at[u] /\ node'[u] = node[u] /\ seen'[u] = seen[u]
      /\ \A u \in Threads : at'[u] \notin {"out", "get", "none"} => node'[u] \in Nodes
  <2>1. CASE refs[n].count = 0
    <3>1. Move(t, "link", n, NoNode)
      BY <1>n, <2>1 DEF Flag
    <3> QED
      BY <1>1, <2>1, <3>1, MoveEffect DEF Points, Owning
  <2>2. CASE refs[n].count # 0
    <3>1. Move(t, "out", NoNode, NoNode)
      BY <1>n, <2>2 DEF Flag
    <3> QED
      BY <1>1, <2>2, <3>1, MoveEffect DEF Points
  <2> QED
    BY <2>1, <2>2
<1>4. /\ refs' \in [Nodes -> [count : Int, flag : BOOLEAN]]
      /\ refs'[n].count = refs[n].count /\ refs'[n].flag
      /\ \A m \in Nodes \ {n} : refs'[m] = refs[m]
  BY <1>1 DEF ListTyped
<1>5. ListTyped'
  BY <1>1, <1>3, <1>4 DEF ListTyped
<1>6. About(t, n)
  BY <1>n, <1>1, <1>2, <1>3, <1>4 DEF About, Owning, Referring
<1>7. /\ Owns(t, n) /\ ~Linking(t, n) /\ ~Lists(t, n) /\ ~Lists(t, n)'
      /\ ~Refers(t, n) /\ ~Refers(t, n)'
      /\ Owns(t, n)' <=> refs[n].count = 0
      /\ Linking(t, n)' <=> refs[n].count = 0
  BY <1>n, <1>1, <1>3 DEF Owns, Linking, Lists, Refers, Owning, Referring
<1>8. NodeInv(n) /\ n \notin Listed /\ ~OnTheList(n)
  BY <1>6, <1>7, OwnersNode
<1>9. refs'[n].count = Cardinality(References(n)')
  <2>1. Cardinality(References(n)') = Cardinality(References(n))
    BY <1>6, <1>7, OthersSame, ReferencesChange
  <2> QED
    BY <1>4, <1>8, <2>1, ReferencesCounted DEF NodeInv, CountRight
<1>10. refs'[n].count = Cardinality(References(n)') + IF Lists(t, n)' THEN 1 ELSE 0
  BY <1>7, <1>9, ReferencesCounted
<1>11. NodeInv(n)' /\ (Inside(n)' <=> Owns(t, n)' \/ refs'[n].flag)
  BY <1>2, <1>4, <1>6, <1>7, <1>8, <1>10, OwnerKeeps
<1>12. Inside(n) /\ Inside(n)'
  BY <1>4, <1>7, <1>11 DEF Inside
<1>13. at'[t] # "next"
  BY <1>3
<1> QED
  BY <1>1, <1>5, <1>6, <1>11, <1>12, <1>13, AboutKeeps

(* Nobody refers to a node whose count is zero. *)
LEMMA Unreferenced ==
  ASSUME NEW n, CountRight(n), refs[n].count = 0, NEW t \in Threads
  PROVE  ~Refers(t, n) /\ Cardinality(References(n)) = 0
<1>1. Cardinality(References(n)) = 0
  BY ReferencesCounted DEF CountRight
<1>2. IsFiniteSet(References(n))
  BY ListAssumption, FS_Subset DEF References
<1>3. References(n) = {}
  BY <1>1, <1>2, FS_EmptySet
<1> QED
  BY <1>1, <1>3 DEF References

(* The node is linked to the head, and the list refers to it. *)
LEMMA LinkKeeps ==
  ASSUME ListInv, NEW t \in Threads, Link(t)
  PROVE  ListInv' /\ \A m \in Nodes : Inside(m)' <=> Inside(m)
<1>n. PICK n \in Nodes : n = node[t]
  BY DEF Link, ListInv, ListTyped
<1>1. /\ at[t] \in {"link", "readd"} /\ listHead' = listHead /\ ListTyped
      /\ next' = [next EXCEPT ![n] = listHead] /\ listHead \in MaybeNode
      /\ refs' = [refs EXCEPT ![n] = [count |-> 1, flag |-> FALSE]]
      /\ at' = [at EXCEPT ![t] = Or(t, "linked", "relinked")] /\ UNCHANGED <<node, seen>>
  BY <1>n DEF Link, ListInv, ListTyped
<1>2. Or(t, "linked", "relinked") \in {"linked", "relinked"}
  BY DEF Or
<1>3. PICK there \in {"linked", "relinked"} : there = Or(t, "linked", "relinked")
  BY <1>2
<1>4. /\ at' \in [Threads -> Points] /\ node' \in [Threads -> MaybeNode]
      /\ seen' \in [Threads -> MaybeNode] /\ at'[t] \in {"linked", "relinked"} /\ node'[t] = n
      /\ \A u \in Threads \ {t} : at'[u] = at[u] /\ node'[u] = node[u] /\ seen'[u] = seen[u]
      /\ \A u \in Threads : at'[u] \notin {"out", "get", "none"} => node'[u] \in Nodes
  <2>1. there \in Points /\ at' = [at EXCEPT ![t] = there]
    BY <1>1, <1>3 DEF Points, Owning
  <2> QED
    BY <1>n, <1>1, <1>3, <2>1, StayEffect
<1>5. /\ refs' \in [Nodes -> [count : Int, flag : BOOLEAN]]
      /\ refs'[n].count = 1 /\ ~refs'[n].flag
      /\ \A m \in Nodes \ {n} : refs'[m] = refs[m]
      /\ next' \in [Nodes -> MaybeNode] /\ \A m \in Nodes \ {n} : next'[m] = next[m]
  BY <1>1 DEF ListTyped
<1>6. ListTyped'
  BY <1>1, <1>4, <1>5 DEF ListTyped
<1>7. /\ Owns(t, n) /\ Linking(t, n) /\ ~Linking(t, n)' /\ ~Lists(t, n) /\ Lists(t, n)'
      /\ ~Refers(t, n) /\ ~Refers(t, n)' /\ Owns(t, n)'
  BY <1>n, <1>1, <1>4 DEF Owns, Linking, Lists, Refers, Owning, Referring
<1>8. n \notin Listed /\ NodeInv(n) /\ refs[n].count = 0
  BY <1>7 DEF ListInv, NodeInv, OwnedOnce, FlaggedWaits
<1>9. Listed' = Listed
  BY <1>1, <1>5, <1>6, <1>8, ListedElsewhere
<1>10. About(t, n)
  BY <1>n, <1>4, <1>5, <1>9 DEF About
<1>11. Cardinality(References(n)') = 0
  <2>1. Cardinality(References(n)') = Cardinality(References(n))
    BY <1>7, <1>10, OthersSame, ReferencesChange
  <2> QED
    BY <1>8, <2>1, Unreferenced DEF NodeInv
<1>12. NodeInv(n)' /\ (Inside(n)' <=> Owns(t, n)' \/ refs'[n].flag)
  <2>1. refs'[n].count = Cardinality(References(n)') + IF Lists(t, n)' THEN 1 ELSE 0
    BY <1>5, <1>7, <1>11
  <2> QED
    BY <1>5, <1>7, <1>8, <1>9, <1>10, <2>1, OwnerKeeps
<1>13. \A m \in Nodes \ {n} : NodeInv(m)' /\ (Inside(m)' <=> Inside(m))
  BY <1>10, OtherNodes DEF ListInv
<1>14. Inside(n) /\ Inside(n)'
  BY <1>7, <1>12 DEF Inside
<1>15. NextSeen'
  <2> SUFFICES ASSUME NEW u \in Threads, at'[u] = "next"
               PROVE  seen'[u] = next'[node'[u]]
    BY DEF NextSeen
  <2>1. u # t /\ at[u] = "next" /\ node'[u] = node[u] /\ seen'[u] = seen[u] /\ node[u] \in Nodes
    BY <1>1, <1>4 DEF ListTyped
  <2>2. Refers(u, node[u])
    BY <2>1 DEF Refers, Referring
  <2>3. node[u] # n
    BY <1>8, <2>2, Unreferenced DEF NodeInv
  <2> QED
    BY <1>5, <2>1, <2>3 DEF ListInv, NextSeen
<1>16. Chain'
  <2>1. \A m \in Listed : next'[m] = next[m]
    BY <1>5, <1>8, LeastClosed, <1>1
  <2> QED
    BY <1>1, <1>9, <2>1 DEF Chain, ListInv
<1> QED
  BY <1>6, <1>12, <1>13, <1>14, <1>15, <1>16 DEF ListInv

(* The node is put on the list, if the head is the one that is next. *)
LEMMA PushKeeps ==
  ASSUME ListInv, NEW t \in Threads, Push(t)
  PROVE  ListInv' /\ \A m \in Nodes : Inside(m)' <=> Inside(m)
<1>n. PICK n \in Nodes : n = node[t]
  BY DEF Push, ListInv, ListTyped
<1>1. /\ at[t] \in {"linked", "relinked"} /\ UNCHANGED <<refs, next>> /\ ListTyped
  BY DEF Push, ListInv
<1>2. /\ Owns(t, n) /\ ~Linking(t, n) /\ Lists(t, n) /\ ~Refers(t, n)
  BY <1>n, <1>1 DEF Owns, Linking, Lists, Refers, Owning, Referring
<1>3. CASE listHead = next[n]
  <2>1. listHead' = n /\ Leave(t)
    BY <1>n, <1>3 DEF Push
  <2>2. Listed' = Listed \cup {n}
    BY <1>1, <1>3, <2>1, ListedPushed
  <2>3. /\ at' \in [Threads -> Points] /\ node' \in [Threads -> MaybeNode]
        /\ seen' \in [Threads -> MaybeNode] /\ at'[t] \in Idle
        /\ \A u \in Threads \ {t} : at'[u] = at[u] /\ node'[u] = node[u] /\ seen'[u] = seen[u]
        /\ \A u \in Threads : at'[u] \notin {"out", "get", "none"} => node'[u] \in Nodes
    BY <1>1, <2>1, LeaveEffect
  <2>4. ListTyped'
    BY <1>1, <2>1, <2>3 DEF ListTyped, MaybeNode
  <2>5. About(t, n)
    BY <1>n, <1>1, <2>2, <2>3 DEF About, Idle, Owning, Referring
  <2>6. ~Owns(t, n)' /\ ~Linking(t, n)' /\ ~Lists(t, n)' /\ ~Refers(t, n)'
    BY <2>3 DEF Owns, Linking, Lists, Refers, Owning, Referring, Idle
  <2>7. /\ n \notin Listed /\ NodeInv(n) /\ OnTheList(n) /\ ~refs[n].flag
        /\ \A u \in Threads \ {t} : ~Owns(u, n)' /\ ~Linking(u, n)' /\ ~Lists(u, n)'
    BY <1>2, <2>5, OwnersNode
  <2>8. OwnedOnce(n)' /\ FlaggedWaits(n)'
    BY <1>1, <2>6, <2>7 DEF OwnedOnce, FlaggedWaits
  <2>9. CountRight(n)'
    <3>1. Cardinality(References(n)') = Cardinality(References(n))
      BY <1>2, <2>5, <2>6, OthersSame, ReferencesChange
    <3>2. OnTheList(n)'
      BY <2>2 DEF OnTheList
    <3> QED
      BY <1>1, <2>7, <3>1, <3>2 DEF NodeInv, CountRight
  <2>10. \A m \in Nodes \ {n} : NodeInv(m)' /\ (Inside(m)' <=> Inside(m))
    BY <2>5, OtherNodes DEF ListInv
  <2>11. Inside(n) /\ Inside(n)'
    BY <1>2, <2>2 DEF Inside
  <2>12. NextSeen'
    BY <1>1, <2>3 DEF NextSeen, ListInv, Idle
  <2>13. Chain'
    <3>1. /\ Listed \subseteq Nodes /\ \A m \in Listed : next[m] # NoNode => next[m] \in Listed
          /\ listHead # NoNode => listHead \in Listed
      BY <1>1, LeastClosed DEF Closed
    <3>2. n # NoNode
      BY ListAssumption
    <3>3. \A m \in Listed \cup {n} : next[m] # n
      BY <1>3, <2>7, <3>1, <3>2
    <3>4. \A m \in Listed : next[m] # next[n] \/ next[n] = NoNode
      BY <1>3 DEF ListInv, Chain
    <3> QED
      BY <1>1, <2>1, <2>2, <3>3, <3>4 DEF Chain, ListInv
  <2> QED
    BY <2>4, <2>8, <2>9, <2>10, <2>11, <2>12, <2>13 DEF ListInv, NodeInv
<1>4. CASE listHead # next[n]
  <2>1. /\ at' = [at EXCEPT ![t] = Or(t, "lost", "relost")] /\ UNCHANGED <<listHead, node, seen>>
    BY <1>n, <1>4 DEF Push
  <2>2. Listed' = Listed
    BY <1>1, <2>1, ListedSame
  <2>3. PICK there \in {"lost", "relost"} : there = Or(t, "lost", "relost")
    BY DEF Or
  <2>4. /\ at' \in [Threads -> Points] /\ node' \in [Threads -> MaybeNode]
        /\ seen' \in [Threads -> MaybeNode] /\ at'[t] \in {"lost", "relost"} /\ node'[t] = n
        /\ \A u \in Threads \ {t} : at'[u] = at[u] /\ node'[u] = node[u] /\ seen'[u] = seen[u]
        /\ \A u \in Threads : at'[u] \notin {"out", "get", "none"} => node'[u] \in Nodes
    <3>1. there \in Points /\ at' = [at EXCEPT ![t] = there]
      BY <2>1, <2>3 DEF Points, Owning
    <3> QED
      BY <1>n, <1>1, <2>1, <2>3, <3>1, StayEffect
  <2>5. ListTyped'
    BY <1>1, <2>1, <2>4 DEF ListTyped
  <2>6. About(t, n)
    BY <1>n, <1>1, <2>2, <2>4 DEF About
  <2>7. Owns(t, n)' /\ ~Linking(t, n)' /\ Lists(t, n)' /\ ~Refers(t, n)'
    BY <2>4 DEF Owns, Linking, Lists, Refers, Owning, Referring
  <2>8. NodeInv(n)' /\ (Inside(n)' <=> Inside(n))
    BY <1>1, <1>2, <2>2, <2>6, <2>7, RolesKept
  <2>9. at'[t] # "next"
    BY <2>4
  <2> QED
    BY <1>1, <2>1, <2>5, <2>6, <2>8, <2>9, AboutKeeps
<1> QED
  BY <1>3, <1>4

(* The head was another: the node is flagged, and linked again by the thread or by the
   last that refers to it.                                                           *)
LEMMA ReflagKeeps ==
  ASSUME ListInv, NEW t \in Threads, Reflag(t)
  PROVE  ListInv' /\ \A m \in Nodes : Inside(m)' <=> Inside(m)
<1>n. PICK n \in Nodes : n = node[t]
  BY DEF Reflag, ListInv, ListTyped
<1>1. /\ at[t] \in {"lost", "relost"} /\ UNCHANGED <<listHead, next>> /\ ListTyped
      /\ refs' = [refs EXCEPT ![n] = [count |-> @.count - 1, flag |-> TRUE]]
  BY <1>n DEF Reflag, ListInv
<1>2. Listed' = Listed
  BY <1>1, ListedSame
<1>3. /\ at' \in [Threads -> Points] /\ node' \in [Threads -> MaybeNode]
      /\ seen' \in [Threads -> MaybeNode]
      /\ refs[n].count = 1 => at'[t] \in {"link", "readd"} /\ node'[t] = n
      /\ refs[n].count # 1 => at'[t] \in Idle
      /\ \A u \in Threads \ {t} : at'[u] = at[u] /\ node'[u] = node[u] /\ seen'[u] = seen[u]
      /\ \A u \in Threads : at'[u] \notin {"out", "get", "none"} => node'[u] \in Nodes
  <2>1. CASE refs[n].count = 1
    <3>1. PICK there \in {"link", "readd"} : there = Or(t, "link", "readd")
      BY DEF Or
    <3>2. there \in Points /\ at' = [at EXCEPT ![t] = there] /\ UNCHANGED <<node, seen>>
      BY <1>n, <2>1, <3>1 DEF Reflag, Points, Owning
    <3> QED
      BY <1>n, <1>1, <2>1, <3>1, <3>2, StayEffect
  <2>2. CASE refs[n].count # 1
    <3>1. Leave(t)
      BY <1>n, <2>2 DEF Reflag
    <3> QED
      BY <1>1, <2>2, <3>1, LeaveEffect
  <2> QED
    BY <2>1, <2>2
<1>4. /\ refs' \in [Nodes -> [count : Int, flag : BOOLEAN]]
      /\ refs'[n].count = refs[n].count - 1 /\ refs'[n].flag
      /\ \A m \in Nodes \ {n} : refs'[m] = refs[m]
  BY <1>1 DEF ListTyped
<1>5. ListTyped'
  BY <1>1, <1>3, <1>4 DEF ListTyped
<1>6. About(t, n)
  BY <1>n, <1>1, <1>2, <1>3, <1>4 DEF About, Owning, Referring, Idle
<1>7. /\ Owns(t, n) /\ ~Linking(t, n) /\ Lists(t, n) /\ ~Lists(t, n)'
      /\ ~Refers(t, n) /\ ~Refers(t, n)'
      /\ Owns(t, n)' <=> refs[n].count = 1
      /\ Linking(t, n)' <=> refs[n].count = 1
  BY <1>n, <1>1, <1>3 DEF Owns, Linking, Lists, Refers, Owning, Referring, Idle
<1>8. NodeInv(n) /\ n \notin Listed /\ OnTheList(n)
  BY <1>6, <1>7, OwnersNode
<1>9. refs'[n].count = Cardinality(References(n)')
  <2>1. Cardinality(References(n)') = Cardinality(References(n))
    BY <1>6, <1>7, OthersSame, ReferencesChange
  <2> QED
    BY <1>4, <1>8, <2>1, ReferencesCounted DEF NodeInv, CountRight
<1>10. refs[n].count = 1 <=> refs'[n].count = 0
  BY <1>1, <1>4 DEF ListTyped
<1>11. NodeInv(n)' /\ (Inside(n)' <=> Owns(t, n)' \/ refs'[n].flag)
  <2>1. refs'[n].count = Cardinality(References(n)') + IF Lists(t, n)' THEN 1 ELSE 0
    BY <1>7, <1>9, ReferencesCounted
  <2> QED
    BY <1>2, <1>4, <1>6, <1>7, <1>8, <1>10, <2>1, OwnerKeeps
<1>12. Inside(n) /\ Inside(n)'
  BY <1>4, <1>7, <1>11 DEF Inside
<1>13. at'[t] # "next"
  BY <1>3 DEF Idle
<1> QED
  BY <1>1, <1>5, <1>6, <1>11, <1>12, <1>13, AboutKeeps

-----------------------------------------------------------------------------
(* At the start the list is empty. *)
LEMMA InitListInv == InitList => ListInv /\ \A n \in Nodes : ~Inside(n)
<1> SUFFICES ASSUME InitList PROVE ListInv /\ \A n \in Nodes : ~Inside(n)
  OBVIOUS
<1>1. ListTyped
  BY DEF InitList, ListTyped, MaybeNode, Points
<1>2. Listed = {}
  <2>1. Closed({})
    BY DEF InitList, Closed
  <2> QED
    BY <2>1, <1>1, LeastClosed
<1>3. \A t \in Threads : at[t] = "out"
  BY DEF InitList
<1>4. NextSeen /\ Chain
  BY <1>2, <1>3 DEF NextSeen, Chain
<1>5. ASSUME NEW n \in Nodes PROVE NodeInv(n) /\ ~Inside(n)
  <2>1. refs[n].count = 0 /\ ~refs[n].flag
    BY DEF InitList
  <2>2. \A t \in Threads : ~Owns(t, n) /\ ~Linking(t, n) /\ ~Lists(t, n) /\ ~Refers(t, n)
    BY <1>3 DEF Owns, Linking, Lists, Refers, Owning, Referring
  <2>3. Cardinality(References(n)) = 0
    BY <2>2, FS_EmptySet DEF References
  <2>4. CountRight(n)
    BY <1>2, <2>1, <2>2, <2>3 DEF CountRight, OnTheList
  <2> QED
    BY <1>2, <2>1, <2>2, <2>4 DEF NodeInv, OwnedOnce, FlaggedWaits, Inside
<1> QED
  BY <1>1, <1>4, <1>5 DEF ListInv

(* Whatever a thread does within the list, the same nodes stay inside. *)
LEMMA StepKeeps ==
  ASSUME ListInv, NEW t \in Threads, ListStep(t)
  PROVE  ListInv' /\ \A m \in Nodes : Inside(m)' <=> Inside(m)
BY GetHeadKeeps, ReferenceKeeps, LoadNextKeeps, SwapKeeps, TakeKeeps, DereferenceKeeps, FlagKeeps,
   LinkKeeps, PushKeeps, ReflagKeeps DEF ListStep

(* What a thread does to the list that has none of its nodes. *)
LEMMA VisitKeeps ==
  ASSUME ListInv, NEW t \in Threads, at[t] \in {"out", "none"}, NEW there \in {"out", "get"},
         Move(t, there, NoNode, NoNode), UNCHANGED <<listHead, refs, next>>
  PROVE  ListInv' /\ \A m \in Nodes : Inside(m)' <=> Inside(m)
<1>1. ListTyped /\ NoNode \in MaybeNode
  BY DEF ListInv, MaybeNode
<1>2. /\ at' \in [Threads -> Points] /\ node' \in [Threads -> MaybeNode]
      /\ seen' \in [Threads -> MaybeNode] /\ at'[t] \in {"out", "get"}
      /\ \A u \in Threads \ {t} : at'[u] = at[u] /\ node'[u] = node[u] /\ seen'[u] = seen[u]
      /\ \A u \in Threads : at'[u] \notin {"out", "get", "none"} => node'[u] \in Nodes
  BY <1>1, MoveEffect DEF Points
<1>3. ListTyped'
  BY <1>1, <1>2 DEF ListTyped
<1>4. Listed' = Listed
  BY ListedSame
<1>5. About(t, NoNode)
  BY <1>2, <1>4 DEF About, Owning, Referring
<1>6. \A m \in Nodes : NodeInv(m)' /\ (Inside(m)' <=> Inside(m))
  BY <1>5, ListAssumption, OtherNodes DEF ListInv
<1>7. NextSeen'
  BY <1>2 DEF NextSeen, ListInv
<1>8. Chain'
  BY <1>4 DEF Chain, ListInv
<1> QED
  BY <1>3, <1>6, <1>7, <1>8 DEF ListInv

(* A call of add() hands a node over that was not inside. *)
LEMMA CallAddKeeps ==
  ASSUME ListInv, NEW t \in Threads, NEW n \in Nodes, ~Inside(n), CallAdd(t, n),
         UNCHANGED <<listHead, refs, next>>
  PROVE  ListInv' /\ \A m \in Nodes : Inside(m)' <=> Inside(m) \/ m = n
<1>1. ListTyped /\ NoNode \in MaybeNode /\ n \in MaybeNode /\ at[t] = "out" /\ Move(t, "add", n, NoNode)
  BY DEF ListInv, MaybeNode, CallAdd
<1>2. /\ at' \in [Threads -> Points] /\ node' \in [Threads -> MaybeNode]
      /\ seen' \in [Threads -> MaybeNode] /\ at'[t] = "add" /\ node'[t] = n
      /\ \A u \in Threads \ {t} : at'[u] = at[u] /\ node'[u] = node[u] /\ seen'[u] = seen[u]
      /\ \A u \in Threads : at'[u] \notin {"out", "get", "none"} => node'[u] \in Nodes
  BY <1>1, MoveEffect DEF Points, Owning
<1>3. ListTyped'
  BY <1>1, <1>2 DEF ListTyped
<1>4. Listed' = Listed
  BY ListedSame
<1>5. About(t, n)
  BY <1>1, <1>2, <1>4 DEF About, Owning, Referring
<1>6. /\ ~Owns(t, n) /\ ~Linking(t, n) /\ ~Linking(t, n)' /\ ~Lists(t, n) /\ ~Lists(t, n)'
      /\ ~Refers(t, n) /\ ~Refers(t, n)' /\ Owns(t, n)'
  BY <1>1, <1>2 DEF Owns, Linking, Lists, Refers, Owning, Referring
<1>7. /\ n \notin Listed /\ ~refs[n].flag /\ NodeInv(n)
      /\ \A u \in Threads : ~Owns(u, n) /\ ~Linking(u, n) /\ ~Lists(u, n)
  BY OwnersWork DEF Inside, ListInv
<1>8. \A u \in Threads \ {t} : ~Owns(u, n)' /\ ~Linking(u, n)' /\ ~Lists(u, n)'
  BY <1>5, <1>7, OthersSame
<1>9. OwnedOnce(n)' /\ FlaggedWaits(n)'
  BY <1>4, <1>6, <1>7, <1>8 DEF OwnedOnce, FlaggedWaits
<1>10. CountRight(n)'
  <2>1. Cardinality(References(n)') = Cardinality(References(n))
    BY <1>5, <1>6, OthersSame, ReferencesChange
  <2>2. ~OnTheList(n) /\ ~OnTheList(n)'
    BY <1>4, <1>6, <1>7, <1>8 DEF OnTheList
  <2> QED
    BY <1>7, <2>1, <2>2 DEF NodeInv, CountRight
<1>11. at'[t] # "next" /\ Inside(n)'
  BY <1>2, <1>6 DEF Inside
<1> QED
  BY <1>3, <1>5, <1>9, <1>10, <1>11, AboutKeeps DEF NodeInv

(* try_get() returns, with a node that is not inside any more. *)
LEMMA ReturnedKeeps ==
  ASSUME ListInv, NEW t \in Threads, Returned(t), UNCHANGED <<listHead, refs, next>>
  PROVE  /\ ListInv' /\ Got(t) \in MaybeNode
         /\ Got(t) # NoNode => Inside(Got(t))
         /\ \A m \in Nodes : Inside(m)' <=> Inside(m) /\ m # Got(t)
<1>1. ListTyped /\ NoNode \in MaybeNode /\ Move(t, "out", NoNode, NoNode)
  BY DEF ListInv, MaybeNode, Returned
<1>2. CASE at[t] = "none"
  <2>1. Got(t) = NoNode
    BY <1>2 DEF Got
  <2> QED
    BY <1>1, <1>2, <2>1, VisitKeeps, ListAssumption
<1>3. CASE at[t] = "got"
  <2>n. PICK n \in Nodes : n = node[t]
    BY <1>1, <1>3 DEF ListTyped
  <2>1. Got(t) = n /\ Owns(t, n)
    BY <1>3, <2>n DEF Got, Owns, Owning
  <2>2. /\ at' \in [Threads -> Points] /\ node' \in [Threads -> MaybeNode]
        /\ seen' \in [Threads -> MaybeNode] /\ at'[t] = "out"
        /\ \A u \in Threads \ {t} : at'[u] = at[u] /\ node'[u] = node[u] /\ seen'[u] = seen[u]
        /\ \A u \in Threads : at'[u] \notin {"out", "get", "none"} => node'[u] \in Nodes
    BY <1>1, MoveEffect DEF Points
  <2>3. ListTyped'
    BY <1>1, <2>2 DEF ListTyped
  <2>4. Listed' = Listed
    BY ListedSame
  <2>5. About(t, n)
    BY <2>n, <2>2, <2>4 DEF About, Owning, Referring
  <2>6. /\ ~Owns(t, n)' /\ ~Linking(t, n) /\ ~Linking(t, n)' /\ ~Lists(t, n) /\ ~Lists(t, n)'
        /\ ~Refers(t, n) /\ ~Refers(t, n)'
    BY <1>3, <2>2 DEF Owns, Linking, Lists, Refers, Owning, Referring
  <2>7. n \notin Listed /\ NodeInv(n) /\ ~OnTheList(n) /\ ~refs[n].flag
    BY <2>1, <2>5, <2>6, OwnersNode
  <2>8. refs'[n].count = Cardinality(References(n)') + IF Lists(t, n)' THEN 1 ELSE 0
    <3>1. Cardinality(References(n)') = Cardinality(References(n))
      BY <2>5, <2>6, OthersSame, ReferencesChange
    <3> QED
      BY <2>6, <2>7, <3>1 DEF NodeInv, CountRight
  <2>9. NodeInv(n)' /\ ~Inside(n)'
    BY <2>1, <2>4, <2>5, <2>6, <2>7, <2>8, OwnerKeeps
  <2>10. Inside(n) /\ at'[t] # "next"
    BY <2>1, <2>2 DEF Inside
  <2> QED
    BY <2>1, <2>3, <2>5, <2>9, <2>10, AboutKeeps DEF MaybeNode
<1> QED
  BY <1>2, <1>3 DEF Returned

(* When nobody is in a call, what is inside is on the list. *)
LEMMA QuietList ==
  ASSUME ListInv, \A t \in Threads : at[t] = "out", NEW n \in Nodes
  PROVE  ~refs[n].flag /\ (Inside(n) <=> n \in Listed)
<1>1. \A t \in Threads : ~Owns(t, n) /\ ~Linking(t, n) /\ ~Lists(t, n) /\ ~Refers(t, n)
  BY DEF Owns, Linking, Lists, Refers, Owning, Referring
<1>2. References(n) = {}
  BY <1>1 DEF References
<1>3. Cardinality(References(n)) = 0
  BY <1>2, FS_EmptySet
<1>4. NodeInv(n)
  BY DEF ListInv
<1>5. ~refs[n].flag
  <2> SUFFICES ASSUME refs[n].flag PROVE FALSE
    OBVIOUS
  <2>1. ~OnTheList(n)
    BY <1>1, <1>4 DEF NodeInv, FlaggedWaits, OnTheList
  <2>2. refs[n].count = 0
    BY <1>3, <1>4, <2>1 DEF NodeInv, CountRight
  <2> QED
    BY <1>1, <1>4, <2>2 DEF NodeInv, FlaggedWaits
<1> QED
  BY <1>1, <1>5 DEF Inside

-----------------------------------------------------------------------------
(* Division, and what follows from the uniqueness of quotient and remainder. *)
LEMMA Division ==
  ASSUME NEW a \in Int, NEW n \in Nat, n >= 1
  PROVE  /\ a % n \in 0..(n - 1) /\ a \div n \in Int
         /\ a = n * (a \div n) + (a % n)
OBVIOUS

(* A remainder is one. *)
LEMMA Remainder ==
  ASSUME NEW a \in Int, NEW n \in Nat, n >= 1
  PROVE  a % n \in 0..(n - 1)
OBVIOUS

(* Quotient and remainder are the only ones. *)
LEMMA Quotient ==
  ASSUME NEW a \in Int, NEW n \in Nat, n >= 1, NEW q \in Int, NEW r \in 0..(n - 1), a = n * q + r
  PROVE  a \div n = q /\ a % n = r
<1>1. PICK s \in Int, u \in 0..(n - 1) : s = a \div n /\ u = a % n
  BY Division
<1>2. a = n * s + u
  BY <1>1, Division
<1>3. CASE q >= s + 1
  <2>1. n * q >= n * s + n
    BY <1>3
  <2>2. n * q \in Int /\ n * s \in Int
    OBVIOUS
  <2> QED
    BY <1>2, <2>1, <2>2
<1>4. CASE q <= s - 1
  <2>1. n * q + n <= n * s
    BY <1>4
  <2>2. n * q \in Int /\ n * s \in Int
    OBVIOUS
  <2> QED
    BY <1>2, <2>1, <2>2
<1>5. CASE q = s
  <2>1. n * s \in Int
    OBVIOUS
  <2>2. u = r
    BY <1>2, <1>5, <2>1
  <2> QED
    BY <1>1, <1>5, <2>2
<1> QED
  BY <1>1, <1>3, <1>4, <1>5

(* Remainders of sums. *)
LEMMA Remainders ==
  ASSUME NEW n \in Nat, n >= 1, NEW a \in Int
  PROVE  /\ a \in 0..(n - 1) => a % n = a
         /\ (a + n) % n = a % n /\ (a - n) % n = a % n
         /\ \A b \in Int : ((a % n) + b) % n = (a + b) % n
         /\ \A b \in Int : a <= b /\ b < a + n /\ a % n = b % n => a = b
<1>1. PICK q \in Int, r \in 0..(n - 1) : q = a \div n /\ r = a % n /\ a = n * q + r
  BY Division
<1>2. a \in 0..(n - 1) => a % n = a
  <2>1. a = n * 0 + a
    OBVIOUS
  <2> QED
    BY <2>1, Quotient
<1>3. (a + n) % n = r
  <2>1. a + n = n * (q + 1) + r /\ a + n \in Int /\ q + 1 \in Int
    BY <1>1
  <2> QED
    BY <2>1, Quotient
<1>4. (a - n) % n = r
  <2>1. a - n = n * (q - 1) + r /\ a - n \in Int /\ q - 1 \in Int
    BY <1>1
  <2> QED
    BY <2>1, Quotient
<1>5. ASSUME NEW b \in Int PROVE (r + b) % n = (a + b) % n
  <2>0. r + b \in Int
    OBVIOUS
  <2>1. PICK s \in Int, u \in 0..(n - 1) : u = (r + b) % n /\ r + b = n * s + u
    BY <2>0, Division
  <2>2. a + b = n * (q + s) + u /\ a + b \in Int /\ q + s \in Int
    <3>1. PICK x \in Int, y \in Int : x = n * q /\ y = n * s
      OBVIOUS
    <3>2. n * (q + s) = x + y
      BY <3>1
    <3>3. a = x + r /\ r + b = y + u /\ r \in Int /\ u \in Int
      BY <1>1, <2>1, <3>1
    <3>4. a + b = (x + y) + u
      BY <3>3
    <3> QED
      BY <3>2, <3>4
  <2> QED
    BY <2>1, <2>2, Quotient
<1>6. ASSUME NEW b \in Int, a <= b, b < a + n, r = b % n PROVE a = b
  <2>1. PICK s \in Int : b = n * s + r
    BY <1>6, Division
  <2>2. n * q \in Int /\ n * s \in Int
    OBVIOUS
  <2>3. n * q <= n * s /\ n * s < n * q + n
    BY <1>1, <1>6, <2>1, <2>2
  <2>4. CASE s >= q + 1
    <3>1. n * s >= n * q + n
      BY <2>4
    <3> QED
      BY <2>2, <2>3, <3>1
  <2>5. CASE s <= q - 1
    <3>1. n * s + n <= n * q
      BY <2>5
    <3> QED
      BY <2>2, <2>3, <3>1
  <2>6. CASE s = q
    BY <1>1, <2>1, <2>6
  <2> QED
    BY <2>4, <2>5, <2>6
<1> QED
  BY <1>1, <1>2, <1>3, <1>4, <1>5, <1>6

-----------------------------------------------------------------------------
(* The blocks of a sub-queue are numbered: block m has the indices from First(m). *)
Number(i) == i \div BlockSize
First(m) == m * BlockSize

(* How many of them were linked, and the one that the tail of the index refers to,
   which is yet to be linked while the index has been turned.                     *)
Turning(p) == pc[p] \in {"pool", "poolget", "list", "link", "rewind"}
Linked(p) == Number(tail[p]) + IF pc[p] = "put" \/ tail[p] % BlockSize # 0 THEN 1 ELSE 0
Top(p) == IF Turning(p) THEN Linked(p) ELSE Linked(p) - 1

(* The entry at a distance from a slot, and that of block m in the table in use. *)
Cell(h, slot, d) == h.index[((slot + d) % Capacity(h)) + 1]
Entry(p, m) == Cell(Table(p), Table(p).tail, m - Top(p))
Window(p) == (Top(p) - Capacity(Table(p)) + 1)..Top(p)

Value(p, m) == entries[p][Entry(p, m)].value
Key(p, m) == entries[p][Entry(p, m)].key

(* The index: what its entries refer to they have the key of. *)
IndexInv(p) ==
  /\ \A m \in Window(p) : Value(p, m) # NoNode => m >= 0 /\ Key(p, m) = First(m)
  /\ Top(p) >= 0 => Key(p, Top(p)) = First(Top(p))
  /\ Turning(p) /\ Top(p) >= 1 => Key(p, Top(p) - 1) = First(Top(p) - 1)

(* What a producer is about to do with an entry. *)
ProducerInv(p) ==
  /\ pc[p] \in {"index", "turn", "drop"} \/ Turning(p) => tail[p] % BlockSize = 0
  /\ pc[p] \in {"turn", "drop"} => reg[p].entry = Entry(p, Top(p) + 1)
  /\ pc[p] = "turn" => entries[p][reg[p].entry] = [key |-> First(Top(p) + 1), value |-> NoNode]
  /\ pc[p] = "drop" => entries[p][reg[p].entry].value = NoNode
  /\ Turning(p) => reg[p].entry = Entry(p, Top(p)) /\ Value(p, Top(p)) = NoNode
  /\ pc[p] = "link" => reg[p].block \in Nodes

-----------------------------------------------------------------------------
Items == Producers \X Nat
MaybeItem == Items \cup {NoItem}
ProducerPlaces == {"idle", "index", "turn", "pool", "poolget", "list", "link", "rewind", "drop",
                   "put"}
ConsumerPlaces == {"idle", "look", "check", "claim", "again", "undo", "index", "table", "tail",
                   "key", "take", "empty", "unlink", "adding"}
Registers == [sub : Producers \cup {NoItem}, others : SUBSET Producers, tail : Nat, over : Nat,
              count : Nat, index : Nat, table : Nat, slot : Nat, entry : Nat,
              block : MaybeNode, item : MaybeItem]
TableType == [tail : Nat, index : Seq(Nat)]
EntryType == [key : Nat, value : MaybeNode]

(* A table has slots for entries that are there; the one in use has all of them. *)
TableOK(p, h) ==
  /\ Capacity(h) >= 2 /\ h.tail < Capacity(h)
  /\ \A i \in 1..Capacity(h) : h.index[i] \in 1..Len(entries[p])
TablesOK(p) ==
  /\ tables[p] # <<>>
  /\ \A h \in DOMAIN tables[p] : TableOK(p, tables[p][h])
  /\ Len(entries[p]) = Capacity(Table(p))
  /\ \A i, j \in 1..Capacity(Table(p)) : Table(p).index[i] = Table(p).index[j] => i = j
  /\ \A e \in 1..Capacity(Table(p)) : \E i \in 1..Capacity(Table(p)) : Table(p).index[i] = e

SizesTyped ==
  /\ tail \in [Producers -> Nat] /\ head \in [Producers -> Nat]
  /\ optimistic \in [Producers -> Nat] /\ overcommit \in [Producers -> Nat]
IndexTyped ==
  /\ tables \in [Producers -> Seq(TableType)] /\ entries \in [Producers -> Seq(EntryType)]
  /\ \A p \in Producers : TablesOK(p)
BlocksTyped ==
  /\ tailBlock \in [Producers -> MaybeNode]
  /\ elements \in [Nodes -> [0..BlockSize - 1 -> MaybeItem]]
  /\ dequeued \in [Nodes -> Nat]
SourcesTyped == pool \in Nat /\ created \in Nat /\ Made <= Cardinality(Nodes)
ThreadsTyped ==
  /\ pc \in [Threads -> ProducerPlaces \cup ConsumerPlaces]
  /\ reg \in [Threads -> Registers]
  /\ \A p \in Producers : pc[p] \in ProducerPlaces
  /\ \A c \in Consumers : /\ pc[c] \in ConsumerPlaces
                          /\ pc[c] \notin {"idle", "adding"} => reg[c].sub \in Producers
WorkTyped ==
  /\ todo \in [Threads -> Nat]
  /\ \A p \in Producers : pc[p] # "idle" => todo[p] > 0

TypeOK == /\ SizesTyped /\ IndexTyped /\ BlocksTyped /\ SourcesTyped /\ ThreadsTyped
          /\ WorkTyped

-----------------------------------------------------------------------------
(* Where a consumer is. *)
At(p, place) == {c \in Consumers : pc[c] = place /\ reg[c].sub = p}
Before(p, c) == {d \in At(p, "again") : reg[d].count <= reg[c].count}
Won(p) == head[p] + Cardinality(At(p, "index"))

(* A claim that succeeds is for an element that is there, since as many claims with
   smaller numbers have failed as the claimant had seen taken back.               *)
ClaimsInv(p) ==
  /\ optimistic[p] = Won(p) + Cardinality(At(p, "again")) + Cardinality(At(p, "undo"))
                       + overcommit[p]
  /\ Won(p) <= tail[p]
  /\ \A c \in Consumers :
       reg[c].sub = p /\ pc[c] \in {"check", "claim", "again"} => reg[c].over <= overcommit[p]
  /\ \A c \in At(p, "again") :
       /\ reg[c].count < optimistic[p]
       /\ \/ Won(p) + Cardinality(Before(p, c)) <= tail[p]
          \/ Won(p) + Cardinality(Before(p, c)) <= reg[c].count + 1 - reg[c].over

-----------------------------------------------------------------------------
(* The consumers that have an index of block m, and those that have not counted it. *)
Looking == {"table", "tail", "key", "take", "empty"}
InBlock(c, p, m) == reg[c].sub = p /\ Number(reg[c].index) = m
Emptying(p, m) == {c \in Consumers : pc[c] \in Looking /\ InBlock(c, p, m)}
Unlinks(c, p, m) == pc[c] = "unlink" /\ InBlock(c, p, m)

(* How many elements of a block were given out. *)
GivenOut(p, m) ==
  LET n == head[p] - First(m) IN IF n < 0 THEN 0 ELSE IF n > BlockSize THEN BlockSize ELSE n

(* A block is found in the index until its last element has been taken, and then it
   is taken out by one thread.                                                     *)
Present(p, m) == m \in Window(p) /\ Value(p, m) # NoNode
Counting(p, m) ==
  /\ dequeued[Value(p, m)] + Cardinality(Emptying(p, m)) = GivenOut(p, m)
  /\ \A c, d \in Consumers : Unlinks(c, p, m) /\ Unlinks(d, p, m) => c = d
  /\ dequeued[Value(p, m)] = BlockSize <=> \E c \in Consumers : Unlinks(c, p, m)
Gone(p, m) ==
  /\ First(m + 1) <= head[p]
  /\ \A c \in Consumers : c \notin Emptying(p, m) /\ ~Unlinks(c, p, m)
BlocksInv(p) ==
  /\ \A m \in 0..(Linked(p) - 1) : IF Present(p, m) THEN Counting(p, m) ELSE Gone(p, m)
  /\ Linked(p) = 0 => tailBlock[p] = NoNode
  /\ Linked(p) > 0 => tailBlock[p] \in Nodes
  /\ Linked(p) > 0 /\ Present(p, Linked(p) - 1) => tailBlock[p] = Value(p, Linked(p) - 1)

(* What a consumer knows of the index: an entry with its key, by which it finds the
   entry of its own block, whatever table it has.                                  *)
Knows(c, p, h, slot) ==
  LET m == Number(reg[c].index)
  IN \E k \in m..Linked(p) :
       /\ Cell(h, slot, 0) = Entry(p, k) /\ Key(p, k) = First(k)
       /\ Cell(h, slot, m - k) = Entry(p, m)

ConsumerInv(c) ==
  LET p == reg[c].sub
      m == Number(reg[c].index)
  IN /\ pc[c] \in Looking \cup {"unlink"} => reg[c].index \in 0..(head[p] - 1)
     /\ pc[c] \in {"tail", "key"} => reg[c].table \in DOMAIN tables[p]
     /\ pc[c] = "tail" => reg[c].table = Len(tables[p]) \/ Knows(c, p, Loaded(c), Loaded(c).tail)
     /\ pc[c] = "key" => reg[c].slot \in 0..(Capacity(Loaded(c)) - 1)
                         /\ Knows(c, p, Loaded(c), reg[c].slot)
     /\ pc[c] \in {"take", "empty", "unlink"} => reg[c].entry = Entry(p, m)
     /\ pc[c] \in {"empty", "unlink"} => reg[c].block = Value(p, m)
     /\ pc[c] \notin {"empty", "unlink", "adding"} => reg[c].item = NoItem

(* No two consumers have the same element. *)
IndicesDiffer ==
  \A c, d \in Consumers :
    pc[c] \in Looking /\ pc[d] \in Looking
      /\ reg[c].sub = reg[d].sub /\ reg[c].index = reg[d].index => c = d

-----------------------------------------------------------------------------
(* Where a block is that is not with the free list. *)
InPool(b) == b \in (pool + 1)..InitialBlocks
Requisitioned(p, b) == pc[p] = "link" /\ reg[p].block = b
InSub(b, p, e) == e \in DOMAIN entries[p] /\ entries[p][e].value = b

Placed(b) ==
  /\ \/ InPool(b) \/ b \notin 1..Made \/ Inside(b)
     \/ \E p \in Producers : Requisitioned(p, b) \/ \E e \in DOMAIN entries[p] : InSub(b, p, e)
  /\ InPool(b) \/ b \notin 1..Made => ~Inside(b)
  /\ \A p \in Producers : Requisitioned(p, b) =>
       /\ ~InPool(b) /\ b \in 1..Made /\ ~Inside(b)
       /\ \A q \in Producers : Requisitioned(q, b) => p = q
  /\ \A p \in Producers : \A e \in DOMAIN entries[p] : InSub(b, p, e) =>
       /\ ~InPool(b) /\ b \in 1..Made /\ ~Inside(b)
       /\ \A q \in Producers : ~Requisitioned(q, b)
       /\ \A q \in Producers : \A f \in DOMAIN entries[q] : InSub(b, q, f) => p = q /\ e = f

-----------------------------------------------------------------------------
(* The constants. *)
LEMMA Constants ==
  /\ BlockSize \in Nat /\ BlockSize >= 2 /\ InitialIndex \in Nat /\ InitialIndex >= 2
  /\ Cardinality(Nodes) \in Nat /\ Nodes = 1..Cardinality(Nodes)
  /\ InitialBlocks \in Nat /\ InitialBlocks <= Cardinality(Nodes)
  /\ Producers \subseteq Threads /\ Consumers \subseteq Threads
  /\ Producers \cap Consumers = {}
<1>1. Cardinality(Nodes) \in Nat
  BY ListAssumption, FS_CardinalityType
<1> QED
  BY <1>1, QueueAssumption

(* Blocks follow each other. *)
LEMMA Blocks ==
  /\ \A m \in Int : First(m) \in Int /\ First(m + 1) = First(m) + BlockSize
                    /\ First(m) % BlockSize = 0
  /\ \A m \in Nat : First(m) \in Nat /\ First(m) # NoKey
  /\ \A m, n \in Int : m < n => First(m) + BlockSize <= First(n)
  /\ \A m, n \in Int : (First(m) - First(n)) \div BlockSize = m - n
<1>0. PICK b \in Nat : b = BlockSize /\ b >= 2
  BY Constants
<1>b. b >= 1
  BY <1>0
<1>1. \A m \in Int : First(m) = b * m /\ First(m) \in Int
  BY <1>0 DEF First
<1>2. ASSUME NEW m \in Int
      PROVE  First(m) \in Int /\ First(m + 1) = First(m) + BlockSize /\ First(m) % BlockSize = 0
  <2>1. First(m + 1) = b * (m + 1) /\ First(m) = b * m /\ First(m) \in Int
    BY <1>1
  <2>2. b * (m + 1) = b * m + b
    OBVIOUS
  <2>3. First(m) = b * m + 0 /\ 0 \in 0..(b - 1)
    BY <1>b, <2>1
  <2>4. First(m) % b = 0
    BY <1>b, <2>1, <2>3, Quotient
  <2> QED
    BY <1>0, <2>1, <2>2, <2>4
<1>3. ASSUME NEW m \in Nat PROVE First(m) \in Nat /\ First(m) # NoKey
  <2>1. First(m) = b * m /\ b * m \in Nat
    BY <1>1
  <2>2. CASE m = 0
    <3>1. First(m) = 0
      BY <1>0, <2>1, <2>2
    <3> QED
      BY <3>1 DEF NoKey
  <2>3. CASE m >= 1
    <3>1. b * m >= 2
      BY <1>0, <2>3
    <3> QED
      BY <2>1, <3>1 DEF NoKey
  <2> QED
    BY <2>2, <2>3
<1>4. ASSUME NEW m \in Int, NEW n \in Int, m < n PROVE First(m) + BlockSize <= First(n)
  <2>1. First(m) = b * m /\ First(n) = b * n /\ First(m) \in Int /\ First(n) \in Int
    BY <1>1
  <2>2. b * n >= b * m + b
    <3>1. PICK d \in Nat : n = m + 1 + d
      <4>1. n - m - 1 \in Nat /\ n = m + 1 + (n - m - 1)
        BY <1>4
      <4> QED
        BY <4>1
    <3>2. b * n = (b * m + b) + b * d /\ b * d \in Nat
      BY <3>1
    <3>3. b * m \in Int
      OBVIOUS
    <3> QED
      BY <3>2, <3>3
  <2> QED
    BY <1>0, <2>1, <2>2
<1>5. ASSUME NEW m \in Int, NEW n \in Int
      PROVE  (First(m) - First(n)) \div BlockSize = m - n
  <2>1. First(m) = b * m /\ First(n) = b * n /\ First(m) \in Int /\ First(n) \in Int
    BY <1>1
  <2>2. b * m - b * n = b * (m - n) + 0
    OBVIOUS
  <2>3. PICK a \in Int, d \in Int : a = First(m) - First(n) /\ d = m - n
    BY <2>1
  <2>4. a = b * d + 0 /\ 0 \in 0..(b - 1)
    BY <1>b, <2>1, <2>2, <2>3
  <2>5. a \div b = d
    BY <1>b, <2>4, Quotient
  <2> QED
    BY <1>0, <2>3, <2>5
<1> QED
  BY <1>2, <1>3, <1>4, <1>5

(* An index is in the block of its number. *)
LEMMA InItsBlock ==
  ASSUME NEW i \in Nat
  PROVE  /\ Number(i) \in Nat /\ i % BlockSize \in 0..(BlockSize - 1)
         /\ i = First(Number(i)) + (i % BlockSize) /\ Base(i) = First(Number(i))
         /\ First(Number(i)) \in Int /\ First(Number(i)) <= i /\ i < First(Number(i)) + BlockSize
         /\ \A m \in Int : First(m) <= i /\ i < First(m) + BlockSize => Number(i) = m
<1>0. PICK b \in Nat : b = BlockSize /\ b >= 2
  BY Constants
<1>b. b >= 1
  BY <1>0
<1>1. PICK q \in Int, r \in 0..(b - 1) : q = i \div b /\ r = i % b /\ i = b * q + r
  BY <1>b, Division
<1>2. q \in Nat
  BY <1>b, <1>1
<1>3. First(q) = b * q /\ First(q) \in Int
  BY <1>0, <1>1 DEF First
<1>4. Base(i) = i - r
  BY <1>0, <1>1 DEF Base
<1>5. ASSUME NEW m \in Int, First(m) <= i, i < First(m) + BlockSize PROVE q = m
  <2>1. First(m) \in Int /\ BlockSize \in Int
    BY Blocks, Constants
  <2>2. CASE m < q
    <3>1. First(m) + BlockSize <= First(q)
      BY <1>1, <2>2, Blocks
    <3> QED
      BY <1>1, <1>3, <1>5, <2>1, <3>1
  <2>3. CASE q < m
    <3>1. First(q) + BlockSize <= First(m)
      BY <1>1, <2>3, Blocks
    <3> QED
      BY <1>0, <1>1, <1>3, <1>5, <2>1, <3>1
  <2> QED
    BY <1>1, <2>2, <2>3
<1>6. First(q) <= i /\ i < First(q) + BlockSize /\ i = First(q) + r /\ Base(i) = First(q)
  BY <1>0, <1>1, <1>3, <1>4
<1>7. q = Number(i) /\ r = i % BlockSize
  BY <1>0, <1>1 DEF Number
<1> QED
  BY <1>0, <1>1, <1>2, <1>3, <1>5, <1>6, <1>7

(* A sub-queue's table in use. *)
LEMMA TableTyped ==
  ASSUME TypeOK, NEW p \in Producers
  PROVE  /\ Len(tables[p]) \in DOMAIN tables[p] /\ Table(p) = tables[p][Len(tables[p])]
         /\ Capacity(Table(p)) \in Nat /\ Capacity(Table(p)) >= 2
         /\ Table(p).tail \in 0..(Capacity(Table(p)) - 1)
         /\ Table(p) \in TableType /\ Table(p).index \in Seq(Nat)
         /\ DOMAIN entries[p] = 1..Capacity(Table(p)) /\ Len(entries[p]) = Capacity(Table(p))
         /\ \A i \in 1..Capacity(Table(p)) : Table(p).index[i] \in 1..Capacity(Table(p))
<1>1. tables[p] \in Seq(TableType) /\ tables[p] # <<>> /\ entries[p] \in Seq(EntryType)
  BY DEF TypeOK, IndexTyped, TablesOK
<1>2. Len(tables[p]) \in DOMAIN tables[p] /\ Table(p) = tables[p][Len(tables[p])]
  BY <1>1 DEF Table, Last
<1>3. Table(p) \in TableType
  BY <1>1, <1>2
<1>4. Table(p).tail \in Nat /\ Table(p).index \in Seq(Nat) /\ Capacity(Table(p)) \in Nat
  BY <1>3 DEF TableType, Capacity
<1>5. TableOK(p, Table(p)) /\ Len(entries[p]) = Capacity(Table(p))
  BY <1>2 DEF TypeOK, IndexTyped, TablesOK
<1> QED
  BY <1>1, <1>2, <1>3, <1>4, <1>5 DEF TableOK

(* Numbers of blocks. *)
LEMMA NumbersTyped ==
  ASSUME TypeOK, NEW p \in Producers
  PROVE  Linked(p) \in Nat /\ Top(p) \in Int /\ Top(p) \in {Linked(p), Linked(p) - 1}
<1>1. tail[p] \in Nat /\ BlockSize \in Nat /\ BlockSize >= 2
  BY Constants DEF TypeOK, SizesTyped
<1>2. Number(tail[p]) \in Nat
  BY <1>1 DEF Number
<1> QED
  BY <1>2 DEF Linked, Top

(* The slots of a table are numbered from any of them, around its end. *)
LEMMA Cells ==
  ASSUME NEW h, Capacity(h) \in Nat, Capacity(h) >= 1, NEW s \in Int, NEW d \in Int
  PROVE  /\ ((s + d) % Capacity(h)) + 1 \in 1..Capacity(h)
         /\ Cell(h, s, d + Capacity(h)) = Cell(h, s, d)
         /\ Cell(h, s, d - Capacity(h)) = Cell(h, s, d)
         /\ \A b \in Int : Cell(h, (s + b) % Capacity(h), d) = Cell(h, s, b + d)
<1>1. PICK n \in Nat : n = Capacity(h)
  OBVIOUS
<1>2. n >= 1
  BY <1>1
<1>3. PICK x \in Int : x = s + d
  OBVIOUS
<1>4. x % n \in 0..(n - 1) /\ (x + n) % n = x % n /\ (x - n) % n = x % n
  BY <1>2, Remainder, Remainders
<1>5. s + (d + n) = x + n /\ s + (d - n) = x - n
  BY <1>3
<1>6. ASSUME NEW b \in Int PROVE (((s + b) % n) + d) % n = (s + (b + d)) % n
  <2>1. PICK y \in Int : y = s + b
    OBVIOUS
  <2>2. y + d = s + (b + d)
    BY <2>1
  <2>3. ((y % n) + d) % n = (y + d) % n
    BY <1>2, Remainders
  <2> QED
    BY <2>1, <2>2, <2>3
<1>7. ((s + d) % Capacity(h)) + 1 \in 1..Capacity(h)
  <2>1. PICK r \in Int : r = x % n /\ r \in 0..(n - 1)
    BY <1>4
  <2>2. r + 1 \in 1..n
    BY <2>1
  <2> QED
    BY <1>1, <1>3, <2>1, <2>2
<1>8. Cell(h, s, d + Capacity(h)) = Cell(h, s, d) /\ Cell(h, s, d - Capacity(h)) = Cell(h, s, d)
  BY <1>1, <1>3, <1>4, <1>5 DEF Cell
<1>9. ASSUME NEW b \in Int PROVE Cell(h, (s + b) % Capacity(h), d) = Cell(h, s, b + d)
  BY <1>1, <1>6 DEF Cell
<1> QED
  BY <1>7, <1>8, <1>9

(* A table's slots give the entries, each once. *)
LEMMA Slots ==
  ASSUME TypeOK, NEW p \in Producers
  PROVE  /\ \A i \in 1..Capacity(Table(p)) : Table(p).index[i] \in DOMAIN entries[p]
         /\ \A i, j \in 1..Capacity(Table(p)) : Table(p).index[i] = Table(p).index[j] => i = j
         /\ \A e \in DOMAIN entries[p] : \E i \in 1..Capacity(Table(p)) : Table(p).index[i] = e
<1>1. TablesOK(p)
  BY DEF TypeOK, IndexTyped
<1>2. DOMAIN entries[p] = 1..Capacity(Table(p))
  BY TableTyped
<1>3. \A i \in 1..Capacity(Table(p)) : Table(p).index[i] \in DOMAIN entries[p]
  BY <1>2, TableTyped
<1>4. \A i, j \in 1..Capacity(Table(p)) : Table(p).index[i] = Table(p).index[j] => i = j
  BY <1>1 DEF TablesOK
<1>5. \A e \in DOMAIN entries[p] : \E i \in 1..Capacity(Table(p)) : Table(p).index[i] = e
  BY <1>1, <1>2 DEF TablesOK
<1> QED
  BY <1>3, <1>4, <1>5

(* The entries of the blocks in the window are all entries, each once. *)
LEMMA Entries ==
  ASSUME TypeOK, NEW p \in Producers
  PROVE  /\ \A m \in Int : Entry(p, m) \in DOMAIN entries[p]
         /\ \A m, n \in Window(p) : Entry(p, m) = Entry(p, n) => m = n
         /\ \A e \in DOMAIN entries[p] : \E m \in Window(p) : Entry(p, m) = e
         /\ NewEntry(p) = Entry(p, Top(p) + 1)
         /\ Entry(p, Top(p) + 1) = Entry(p, Top(p) + 1 - Capacity(Table(p)))
         /\ Top(p) + 1 - Capacity(Table(p)) \in Window(p) /\ Top(p) \in Window(p)
         /\ Window(p) \subseteq Int
<1>1. PICK n \in Nat : n = Capacity(Table(p)) /\ n >= 2
  BY TableTyped
<1>n. n >= 1
  BY <1>1
<1>2. PICK x \in 0..(n - 1) : x = Table(p).tail
  BY <1>1, TableTyped
<1>x. x \in Int
  BY <1>2
<1>3. PICK k \in Int : k = Top(p)
  BY NumbersTyped
<1>4. Window(p) = (k - n + 1)..k
  BY <1>1, <1>3 DEF Window
<1>5. \A m \in Int : Entry(p, m) = Table(p).index[((x + (m - k)) % n) + 1]
  BY <1>1, <1>2, <1>3 DEF Entry, Cell
<1>6. ASSUME NEW m \in Int PROVE Entry(p, m) \in DOMAIN entries[p]
  <2>1. PICK y \in Int : y = x + (m - k)
    BY <1>x
  <2>2. PICK r \in Int : r = y % n /\ r \in 0..(n - 1)
    <3>1. y % n \in 0..(n - 1)
      BY <1>n, Remainder
    <3> QED
      BY <3>1
  <2>3. r + 1 \in 1..n
    BY <2>2
  <2>4. Entry(p, m) = Table(p).index[r + 1]
    BY <1>5, <2>1, <2>2
  <2> QED
    BY <1>1, <2>3, <2>4, Slots
<1>7. ASSUME NEW m \in Window(p), NEW l \in Window(p), Entry(p, m) = Entry(p, l) PROVE m = l
  <2>0. m \in Int /\ l \in Int
    BY <1>4
  <2>1. PICK a \in Int : a = x + (m - k)
    BY <1>x, <2>0
  <2>2. PICK b \in Int : b = x + (l - k)
    BY <1>x, <2>0
  <2>3. a < b + n /\ b < a + n
    BY <1>4, <2>1, <2>2
  <2>4. PICK r \in Int, s \in Int : r = a % n /\ s = b % n /\ r \in 0..(n - 1) /\ s \in 0..(n - 1)
    <3>1. a % n \in 0..(n - 1) /\ b % n \in 0..(n - 1)
      BY <1>n, Remainder
    <3> QED
      BY <3>1
  <2>5. r + 1 \in 1..n /\ s + 1 \in 1..n
    BY <2>4
  <2>6. Table(p).index[r + 1] = Table(p).index[s + 1]
    BY <1>5, <1>7, <2>0, <2>1, <2>2, <2>4
  <2>7. r + 1 = s + 1
    BY <1>1, <2>5, <2>6, Slots
  <2>8. a % n = b % n
    BY <2>4, <2>7
  <2>9. a = b
    <3>1. CASE a <= b
      BY <1>n, <2>3, <2>8, <3>1, Remainders
    <3>2. CASE b <= a
      BY <1>n, <2>3, <2>8, <3>2, Remainders
    <3> QED
      BY <3>1, <3>2
  <2> QED
    BY <1>x, <2>0, <2>1, <2>2, <2>9
<1>8. ASSUME NEW e \in DOMAIN entries[p] PROVE \E m \in Window(p) : Entry(p, m) = e
  <2>1. PICK i \in 1..n : Table(p).index[i] = e
    BY <1>1, Slots
  <2>2. PICK j \in 0..(n - 1) : j = i - 1 /\ j + 1 = i
    BY <2>1
  <2>i. j \in Int
    BY <2>2
  <2>j. j \in Int /\ j % n = j /\ (j - n) % n = j % n
    BY <1>n, <2>2, <2>i, Remainders
  <2>3. CASE j <= x
    <3>1. PICK m \in Int : m = k - (x - j)
      BY <1>x, <2>j
    <3>2. m \in Window(p) /\ x + (m - k) = j
      BY <1>4, <2>3, <3>1
    <3>3. Entry(p, m) = Table(p).index[(j % n) + 1]
      BY <1>5, <3>2
    <3> QED
      BY <2>1, <2>2, <2>j, <3>2, <3>3
  <2>4. CASE j > x
    <3>1. PICK m \in Int : m = k - ((x - j) + n)
      BY <1>x, <2>j
    <3>2. m \in Window(p) /\ x + (m - k) = j - n
      BY <1>4, <2>4, <3>1
    <3>3. Entry(p, m) = Table(p).index[((j - n) % n) + 1]
      BY <1>5, <3>2
    <3> QED
      BY <2>1, <2>2, <2>j, <3>2, <3>3
  <2> QED
    BY <1>x, <2>j, <2>3, <2>4
<1>9. NewEntry(p) = Entry(p, Top(p) + 1)
  <2>1. k + 1 \in Int /\ k + 1 - k = 1
    OBVIOUS
  <2> QED
    BY <1>1, <1>2, <1>3, <1>5, <2>1 DEF NewEntry, Ahead
<1>10. Entry(p, Top(p) + 1) = Entry(p, Top(p) + 1 - Capacity(Table(p)))
  <2>1. PICK y \in Int : y = x + (k + 1 - k)
    BY <1>x
  <2>2. k + 1 \in Int /\ k + 1 - n \in Int /\ x + (k + 1 - n - k) = y - n
    BY <1>x, <2>1
  <2>3. (y - n) % n = y % n
    BY <1>n, Remainders
  <2> QED
    BY <1>1, <1>3, <1>5, <2>1, <2>2, <2>3
<1>11. /\ Top(p) + 1 - Capacity(Table(p)) \in Window(p) /\ Top(p) \in Window(p)
       /\ Window(p) \subseteq Int
  BY <1>1, <1>3, <1>4
<1> QED
  BY <1>6, <1>7, <1>8, <1>9, <1>10, <1>11

(* The blocks that were linked hold the indices up to the tail. *)
LEMMA TailBlock ==
  ASSUME TypeOK, NEW p \in Producers
  PROVE  /\ tail[p] \in Nat /\ tail[p] <= First(Linked(p))
         /\ Linked(p) >= 1 => First(Linked(p) - 1) <= tail[p]
         /\ pc[p] # "put" /\ tail[p] % BlockSize = 0 => tail[p] = First(Linked(p))
         /\ pc[p] = "put" => tail[p] < First(Linked(p)) /\ Linked(p) >= 1
         /\ tail[p] % BlockSize # 0 => First(Linked(p) - 1) < tail[p]
         /\ \A i \in Nat : i < tail[p] => Number(i) \in 0..(Linked(p) - 1)
<1>1. PICK i \in Nat : i = tail[p]
  BY DEF TypeOK, SizesTyped
<1>2. PICK m \in Nat : m = Number(i)
  BY InItsBlock
<1>3. PICK r \in Int : r = i % BlockSize /\ r >= 0 /\ r < BlockSize /\ i = First(m) + r
  BY <1>2, InItsBlock, Constants
<1>4. First(m) \in Int /\ First(m + 1) = First(m) + BlockSize /\ First(m + 1) \in Int
  BY Blocks
<1>5. BlockSize \in Nat
  BY Constants
<1>6. Linked(p) = m + IF pc[p] = "put" \/ r # 0 THEN 1 ELSE 0
  BY <1>1, <1>2, <1>3 DEF Linked
<1>7. CASE pc[p] = "put" \/ r # 0
  <2>1. Linked(p) = m + 1 /\ Linked(p) - 1 = m
    BY <1>6, <1>7
  <2>2. ASSUME NEW k \in Nat, k < i PROVE Number(k) <= m
    <3>1. PICK n \in Nat : n = Number(k)
      BY InItsBlock
    <3>2. First(n) \in Int /\ First(n) <= k
      BY <3>1, InItsBlock
    <3>3. n > m => First(m) + BlockSize <= First(n)
      BY Blocks
    <3>4. k < First(m) + BlockSize
      BY <1>3, <1>4, <1>5, <2>2
    <3>5. ~(n > m)
      BY <1>4, <1>5, <3>2, <3>3, <3>4
    <3> QED
      BY <3>1, <3>5
  <2>3. \A k \in Nat : k < tail[p] => Number(k) \in 0..(Linked(p) - 1)
    BY <1>1, <2>1, <2>2, InItsBlock
  <2>4. First(m) <= i /\ i < First(m + 1) /\ (r # 0 => First(m) < i)
    BY <1>3, <1>4, <1>5
  <2> QED
    BY <1>1, <1>3, <1>4, <1>7, <2>1, <2>3, <2>4
<1>8. CASE ~(pc[p] = "put" \/ r # 0)
  <2>1. Linked(p) = m /\ i = First(m)
    <3>1. Linked(p) = m + 0 /\ r = 0
      BY <1>6, <1>8
    <3>2. i = First(m)
      BY <1>3, <1>4, <3>1
    <3> QED
      BY <3>1, <3>2
  <2>2. ASSUME NEW k \in Nat, k < i PROVE Number(k) <= m - 1
    <3>1. PICK n \in Nat : n = Number(k)
      BY InItsBlock
    <3>2. First(n) \in Int /\ First(n) <= k
      BY <3>1, InItsBlock
    <3>3. n > m => First(m) + BlockSize <= First(n)
      BY Blocks
    <3>4. n # m
      BY <2>1, <2>2, <3>2
    <3>5. ~(n > m)
      BY <1>4, <1>5, <2>1, <2>2, <3>2, <3>3
    <3> QED
      BY <3>1, <3>4, <3>5
  <2>3. First(m - 1) \in Int /\ First(m - 1) <= First(m)
    <3>1. m - 1 \in Int /\ m - 1 < m
      OBVIOUS
    <3>2. First(m - 1) + BlockSize <= First(m) /\ First(m - 1) \in Int
      BY <3>1, Blocks
    <3> QED
      BY <1>4, <1>5, <3>2
  <2>4. \A k \in Nat : k < tail[p] => Number(k) \in 0..(Linked(p) - 1)
    BY <1>1, <2>1, <2>2, InItsBlock
  <2> QED
    BY <1>1, <1>3, <1>4, <1>8, <2>1, <2>3, <2>4
<1> QED
  BY <1>7, <1>8

-----------------------------------------------------------------------------
Inv(p) == IndexInv(p) /\ ProducerInv(p) /\ ClaimsInv(p) /\ BlocksInv(p)

(* The invariant. *)
IInv == /\ ListInv /\ TypeOK
        /\ \A p \in Producers : Inv(p)
        /\ \A c \in Consumers : ConsumerInv(c)
        /\ IndicesDiffer
        /\ \A b \in Nodes : Placed(b)

(* A step that leaves the index of a sub-queue, or what is found through it. *)
SameIndex(p) ==
  /\ tables'[p] = tables[p] /\ Linked(p)' = Linked(p) /\ Top(p)' = Top(p)
SameView(p) == /\ SameIndex(p) /\ entries'[p] = entries[p]
               /\ (Turning(p)' <=> Turning(p)) /\ tailBlock'[p] = tailBlock[p]
Untouched(p) ==
  /\ tables'[p] = tables[p] /\ entries'[p] = entries[p] /\ tail'[p] = tail[p]
  /\ tailBlock'[p] = tailBlock[p]
  /\ pc'[p] = pc[p] /\ reg'[p] = reg[p]

(* The entries are then found as before. *)
LEMMA IndexSame ==
  ASSUME NEW p \in Producers, SameIndex(p)
  PROVE  /\ Table(p)' = Table(p) /\ Window(p)' = Window(p)
         /\ \A m : Entry(p, m)' = Entry(p, m)
<1>1. Table(p)' = Table(p)
  BY DEF SameIndex, Table
<1>2. Top(p)' = Top(p)
  BY DEF SameIndex
<1> QED
  BY <1>1, <1>2 DEF Window, Entry, Cell, Capacity

(* And what they hold. *)
LEMMA ViewSame ==
  ASSUME NEW p \in Producers, SameView(p)
  PROVE  /\ Table(p)' = Table(p) /\ Window(p)' = Window(p)
         /\ Top(p)' = Top(p) /\ Linked(p)' = Linked(p)
         /\ \A m : /\ Entry(p, m)' = Entry(p, m) /\ Value(p, m)' = Value(p, m)
                   /\ Key(p, m)' = Key(p, m) /\ (Present(p, m)' <=> Present(p, m))
<1>1. /\ Table(p)' = Table(p) /\ Window(p)' = Window(p)
      /\ \A m : Entry(p, m)' = Entry(p, m)
  BY IndexSame DEF SameView
<1>2. \A m : Value(p, m)' = Value(p, m) /\ Key(p, m)' = Key(p, m)
  BY <1>1 DEF SameView, Value, Key
<1>3. \A m : Present(p, m)' <=> Present(p, m)
  BY <1>1, <1>2 DEF Present
<1> QED
  BY <1>1, <1>2, <1>3 DEF SameView, SameIndex

(* A producer that is left alone has the same view of its index. *)
LEMMA UntouchedSame ==
  ASSUME NEW p \in Producers, Untouched(p)
  PROVE  SameView(p)
<1>1. Turning(p)' <=> Turning(p)
  BY DEF Untouched, Turning
<1>2. Linked(p)' = Linked(p)
  BY DEF Untouched, Linked
<1>3. Top(p)' = Top(p)
  BY <1>1, <1>2 DEF Top
<1> QED
  BY <1>1, <1>2, <1>3 DEF Untouched, SameView, SameIndex

(* Its index is kept, and what its producer is about to do. *)
LEMMA IndexKept ==
  ASSUME NEW p \in Producers, SameView(p), IndexInv(p)
  PROVE  IndexInv(p)'
<1>1. Turning(p)' <=> Turning(p)
  BY DEF SameView
<1> QED
  BY <1>1, ViewSame DEF IndexInv

(* And is about to do the same with its entry. *)
LEMMA ProducerKept ==
  ASSUME NEW p \in Producers, Untouched(p), ProducerInv(p)
  PROVE  ProducerInv(p)'
<1>1. Turning(p)' <=> Turning(p)
  BY UntouchedSame DEF SameView
<1>2. Top(p)' = Top(p) /\ \A m : Entry(p, m)' = Entry(p, m) /\ Value(p, m)' = Value(p, m)
  BY UntouchedSame, ViewSame
<1> QED
  BY <1>1, <1>2 DEF ProducerInv, Untouched

(* A consumer is as far with its element as it was, or with its claim.  *)
SameWork(c) ==
  /\ pc'[c] \in Looking <=> pc[c] \in Looking
  /\ pc'[c] = "unlink" <=> pc[c] = "unlink"
  /\ pc[c] \in Looking \cup {"unlink"} => reg'[c].sub = reg[c].sub /\ reg'[c].index = reg[c].index
Claiming == {"again", "undo", "index"}
SameClaim(c, p) ==
  /\ \A place \in Claiming :
       pc'[c] = place /\ reg'[c].sub = p <=> pc[c] = place /\ reg[c].sub = p
  /\ pc[c] = "again" /\ reg[c].sub = p => reg'[c].over = reg[c].over /\ reg'[c].count = reg[c].count
SeenOver(c, p) == reg[c].sub = p /\ pc[c] \in {"check", "claim", "again"}
                    => reg[c].over <= overcommit[p]

(* When no consumer gets ahead, the same ones are in each block. *)
LEMMA WorkSame ==
  ASSUME \A c \in Consumers : SameWork(c)
  PROVE  /\ \A p, m : Emptying(p, m)' = Emptying(p, m)
         /\ \A c \in Consumers : \A p, m : Unlinks(c, p, m)' <=> Unlinks(c, p, m)
         /\ IndicesDiffer => IndicesDiffer'
<1>1. ASSUME NEW c \in Consumers, NEW p, NEW m
      PROVE  /\ c \in Emptying(p, m)' <=> c \in Emptying(p, m)
             /\ Unlinks(c, p, m)' <=> Unlinks(c, p, m)
  BY DEF SameWork, Emptying, Unlinks, InBlock, Number
<1>2. \A p, m : Emptying(p, m)' = Emptying(p, m)
  <2> SUFFICES ASSUME NEW p, NEW m PROVE Emptying(p, m)' = Emptying(p, m)
    OBVIOUS
  <2>1. Emptying(p, m)' \subseteq Consumers /\ Emptying(p, m) \subseteq Consumers
    BY DEF Emptying
  <2> QED
    BY <1>1, <2>1
<1>3. IndicesDiffer => IndicesDiffer'
  BY DEF SameWork, IndicesDiffer
<1> QED
  BY <1>1, <1>2, <1>3

(* A step that counts no element keeps what is true of the blocks of a sub-queue. *)
LEMMA BlocksKept ==
  ASSUME NEW p \in Producers, SameView(p), head'[p] = head[p], BlocksInv(p),
         \A c \in Consumers : SameWork(c),
         \A m \in 0..(Linked(p) - 1) :
           Present(p, m) => dequeued'[Value(p, m)] = dequeued[Value(p, m)]
  PROVE  BlocksInv(p)'
<1>1. /\ Linked(p)' = Linked(p) /\ tailBlock'[p] = tailBlock[p]
      /\ \A m : Value(p, m)' = Value(p, m) /\ (Present(p, m)' <=> Present(p, m))
  BY ViewSame DEF SameView
<1>2. \A m : GivenOut(p, m)' = GivenOut(p, m)
  BY DEF GivenOut
<1>3. ASSUME NEW m \in 0..(Linked(p) - 1), Present(p, m) PROVE Counting(p, m)'
  <2>1. Counting(p, m) /\ dequeued'[Value(p, m)'] = dequeued[Value(p, m)]
    BY <1>1, <1>3 DEF BlocksInv
  <2>2. /\ Emptying(p, m)' = Emptying(p, m) /\ GivenOut(p, m)' = GivenOut(p, m)
        /\ \A c \in Consumers : Unlinks(c, p, m)' <=> Unlinks(c, p, m)
    BY <1>2, WorkSame
  <2> QED
    BY <2>1, <2>2 DEF Counting
<1>4. ASSUME NEW m \in 0..(Linked(p) - 1), ~Present(p, m) PROVE Gone(p, m)'
  <2>1. Gone(p, m)
    BY <1>4 DEF BlocksInv
  <2>2. /\ Emptying(p, m)' = Emptying(p, m)
        /\ \A c \in Consumers : Unlinks(c, p, m)' <=> Unlinks(c, p, m)
    BY WorkSame
  <2> QED
    BY <2>1, <2>2 DEF Gone
<1> QED
  BY <1>1, <1>3, <1>4 DEF BlocksInv

(* The consumers at a place are finitely many. *)
LEMMA Counts ==
  /\ IsFiniteSet(Consumers)
  /\ \A p, place : IsFiniteSet(At(p, place)) /\ Cardinality(At(p, place)) \in Nat
  /\ \A p, c : IsFiniteSet(Before(p, c)) /\ Cardinality(Before(p, c)) \in Nat
  /\ \A p, m : IsFiniteSet(Emptying(p, m)) /\ Cardinality(Emptying(p, m)) \in Nat
<1>1. IsFiniteSet(Consumers)
  BY Constants, ListAssumption, FS_Subset
<1>2. \A S \in SUBSET Consumers : IsFiniteSet(S) /\ Cardinality(S) \in Nat
  BY <1>1, FS_Subset, FS_CardinalityType
<1>3. \A p, place : At(p, place) \in SUBSET Consumers
  BY DEF At
<1>4. \A p, c : Before(p, c) \in SUBSET Consumers
  BY DEF Before, At
<1>5. \A p, m : Emptying(p, m) \in SUBSET Consumers
  BY DEF Emptying
<1> QED
  BY <1>1, <1>2, <1>3, <1>4, <1>5

(* When no consumer claims, the same ones are at each stage of a claim. *)
LEMMA ClaimsSame ==
  ASSUME NEW p, \A c \in Consumers : SameClaim(c, p)
  PROVE  /\ \A place \in Claiming : At(p, place)' = At(p, place)
         /\ \A c \in At(p, "again") : Before(p, c)' = Before(p, c)
<1>1. ASSUME NEW place \in Claiming PROVE At(p, place)' = At(p, place)
  BY <1>1 DEF At, SameClaim
<1>2. ASSUME NEW c \in At(p, "again") PROVE Before(p, c)' = Before(p, c)
  <2>1. At(p, "again")' = At(p, "again")
    BY <1>1 DEF Claiming
  <2>2. \A d \in At(p, "again") : reg'[d].count = reg[d].count
    BY DEF At, SameClaim, Claiming
  <2> QED
    BY <2>1, <2>2 DEF Before
<1> QED
  BY <1>1, <1>2

(* A step without a claim keeps the counts, whatever was put in. *)
LEMMA ClaimsKept ==
  ASSUME NEW p \in Producers, \A c \in Consumers : SameClaim(c, p) /\ SeenOver(c, p)',
         ClaimsInv(p), optimistic'[p] = optimistic[p], overcommit'[p] = overcommit[p],
         head'[p] = head[p], tail[p] \in Nat, tail'[p] \in Nat, tail[p] <= tail'[p],
         head[p] \in Nat
  PROVE  ClaimsInv(p)'
<1>1. /\ At(p, "again")' = At(p, "again") /\ At(p, "undo")' = At(p, "undo")
      /\ At(p, "index")' = At(p, "index")
      /\ \A c \in At(p, "again") : Before(p, c)' = Before(p, c)
  BY ClaimsSame DEF Claiming
<1>2. Won(p)' = Won(p) /\ Won(p) \in Nat
  BY <1>1, Counts DEF Won
<1>3. ASSUME NEW c \in Consumers, reg'[c].sub = p, pc'[c] \in {"check", "claim", "again"}
      PROVE  reg'[c].over <= overcommit'[p]
  BY <1>3 DEF SeenOver
<1>4. ASSUME NEW c \in At(p, "again")
      PROVE  /\ reg'[c].count < optimistic[p]
             /\ \/ Won(p) + Cardinality(Before(p, c)) <= tail'[p]
                \/ Won(p) + Cardinality(Before(p, c)) <= reg'[c].count + 1 - reg'[c].over
  <2>1. reg'[c].count = reg[c].count /\ reg'[c].over = reg[c].over
    BY DEF At, SameClaim, Claiming
  <2>2. PICK n \in Nat : n = Won(p) + Cardinality(Before(p, c))
    BY <1>2, Counts
  <2>3. n <= tail[p] => n <= tail'[p]
    OBVIOUS
  <2> QED
    BY <2>1, <2>2, <2>3 DEF ClaimsInv
<1>5. Won(p) <= tail'[p]
  BY <1>2 DEF ClaimsInv
<1> QED
  BY <1>1, <1>2, <1>3, <1>4, <1>5 DEF ClaimsInv

(* What a consumer knows it knows as long as the entry it has seen the key of, and
   the one of its block, are where they were.                                      *)
Stays(p, m) ==
  /\ Linked(p) <= Linked(p)' /\ Entry(p, m)' = Entry(p, m)
  /\ \A k \in m..Linked(p) :
       Key(p, k) = First(k) => Entry(p, k)' = Entry(p, k) /\ Key(p, k)' = First(k)

(* What a consumer knows of the index stays true while its block stays where it is. *)
LEMMA KnowsKept ==
  ASSUME NEW p \in Producers, NEW c \in Consumers, reg'[c].index = reg[c].index,
         reg[c].index \in Nat, TypeOK, Linked(p)' \in Int, Stays(p, Number(reg[c].index)),
         NEW h, NEW g, g.index = h.index, NEW s, Knows(c, p, h, s)
  PROVE  Knows(c, p, g, s)'
<1>1. PICK m \in Int : m = Number(reg[c].index)
  BY InItsBlock
<1>2. PICK k \in m..Linked(p) : /\ Cell(h, s, 0) = Entry(p, k) /\ Key(p, k) = First(k)
                                /\ Cell(h, s, m - k) = Entry(p, m)
  BY <1>1 DEF Knows
<1>3. \A d : Cell(g, s, d) = Cell(h, s, d)
  BY DEF Cell, Capacity
<1>4. /\ Linked(p) <= Linked(p)' /\ Entry(p, m)' = Entry(p, m)
      /\ Entry(p, k)' = Entry(p, k) /\ Key(p, k)' = First(k)
  BY <1>1, <1>2 DEF Stays
<1>5. k \in m..Linked(p)'
  BY <1>1, <1>2, <1>4, NumbersTyped
<1>6. Number(reg'[c].index) = m
  BY <1>1
<1> QED
  BY <1>2, <1>3, <1>4, <1>5, <1>6 DEF Knows

(* A step of another leaves a consumer what it has. *)
LEMMA ConsumerKept ==
  ASSUME NEW c \in Consumers, TypeOK, ConsumerInv(c),
         pc'[c] = pc[c], reg'[c] = reg[c],
         pc[c] \in Looking \cup {"unlink"} =>
           LET p == reg[c].sub
               m == Number(reg[c].index)
           IN /\ head[p] <= head'[p] /\ head[p] \in Nat /\ head'[p] \in Nat
              /\ Linked(p)' \in Int /\ Stays(p, m)
              /\ DOMAIN tables'[p] = DOMAIN tables[p] /\ Len(tables'[p]) = Len(tables[p])
              /\ \A h \in DOMAIN tables[p] :
                   /\ tables'[p][h].index = tables[p][h].index
                   /\ h # Len(tables[p]) => tables'[p][h].tail = tables[p][h].tail
              /\ pc[c] \in {"empty", "unlink"} => Value(p, m)' = Value(p, m)
  PROVE  ConsumerInv(c)'
<1>1. CASE pc[c] \notin Looking \cup {"unlink"}
  BY <1>1 DEF ConsumerInv, Looking
<1>2. CASE pc[c] \in Looking \cup {"unlink"}
  <2>1. reg[c].sub \in Producers
    BY <1>2 DEF TypeOK, ThreadsTyped, Looking
  <2>2. PICK p \in Producers : p = reg[c].sub
    BY <2>1
  <2>3. PICK m : m = Number(reg[c].index)
    OBVIOUS
  <2>4. reg[c].index \in 0..(head[p] - 1) /\ reg[c].index \in 0..(head'[p] - 1)
    BY <1>2, <2>2 DEF ConsumerInv
  <2>5. reg[c].index \in Nat /\ Linked(p)' \in Int /\ Stays(p, m) /\ Entry(p, m)' = Entry(p, m)
    BY <1>2, <2>2, <2>3, <2>4 DEF Stays
  <2>6. reg'[c].sub = p /\ Number(reg'[c].index) = m /\ reg'[c].index = reg[c].index
    BY <2>2, <2>3
  <2>7. ASSUME pc[c] = "tail"
        PROVE  /\ reg[c].table \in DOMAIN tables'[p]
               /\ reg[c].table = Len(tables'[p]) \/ Knows(c, p, Loaded(c), Loaded(c).tail)'
    <3>1. reg[c].table \in DOMAIN tables[p] /\ reg[c].table \in DOMAIN tables'[p]
      BY <1>2, <2>2, <2>7 DEF ConsumerInv
    <3>2. CASE reg[c].table = Len(tables[p])
      BY <1>2, <2>2, <3>1, <3>2
    <3>3. CASE reg[c].table # Len(tables[p])
      <4>1. Knows(c, p, Loaded(c), Loaded(c).tail)
        BY <2>2, <2>7, <3>3 DEF ConsumerInv
      <4>2. PICK h, g, s : h = Loaded(c) /\ g = Loaded(c)' /\ s = Loaded(c).tail
        OBVIOUS
      <4>3. g.index = h.index /\ g.tail = h.tail
        BY <1>2, <2>2, <3>1, <3>3, <4>2 DEF Loaded
      <4>4. Knows(c, p, h, s)
        BY <4>1, <4>2
      <4>5. Knows(c, p, g, s)'
        BY <2>3, <2>5, <2>6, <4>3, <4>4, KnowsKept
      <4>6. s = Loaded(c)'.tail /\ g = Loaded(c)'
        BY <4>2, <4>3
      <4>7. Knows(c, p, Loaded(c), Loaded(c).tail)'
        BY <4>5, <4>6 DEF Knows
      <4> QED
        BY <3>1, <4>7
    <3> QED
      BY <3>2, <3>3
  <2>8. ASSUME pc[c] = "key"
        PROVE  /\ reg[c].table \in DOMAIN tables'[p]
               /\ reg[c].slot \in 0..(Capacity(Loaded(c))' - 1)
               /\ Knows(c, p, Loaded(c), reg[c].slot)'
    <3>1. /\ reg[c].table \in DOMAIN tables[p] /\ reg[c].table \in DOMAIN tables'[p]
          /\ reg[c].slot \in 0..(Capacity(Loaded(c)) - 1) /\ Knows(c, p, Loaded(c), reg[c].slot)
      BY <1>2, <2>2, <2>8 DEF ConsumerInv
    <3>2. PICK h, g, s : h = Loaded(c) /\ g = Loaded(c)' /\ s = reg[c].slot
      OBVIOUS
    <3>3. g.index = h.index
      BY <1>2, <2>2, <3>1, <3>2 DEF Loaded
    <3>4. Knows(c, p, h, s)
      BY <3>1, <3>2
    <3>5. Knows(c, p, g, s)'
      BY <2>3, <2>5, <2>6, <3>3, <3>4, KnowsKept
    <3>6. Knows(c, p, Loaded(c), reg[c].slot)'
      BY <3>2, <3>5 DEF Knows
    <3>7. Capacity(Loaded(c))' = Capacity(Loaded(c))
      BY <3>2, <3>3 DEF Capacity
    <3> QED
      BY <3>1, <3>6, <3>7
  <2>9. /\ pc[c] \in {"take", "empty", "unlink"} => reg[c].entry = Entry(p, m)'
        /\ pc[c] \in {"empty", "unlink"} => reg[c].block = Value(p, m)'
        /\ pc[c] \notin {"empty", "unlink", "adding"} => reg[c].item = NoItem
    BY <1>2, <2>2, <2>3, <2>5 DEF ConsumerInv
  <2>10. /\ Entry(reg[c].sub, Number(reg[c].index))' = Entry(p, m)'
         /\ Value(reg[c].sub, Number(reg[c].index))' = Value(p, m)'
    BY <2>6 DEF Entry, Value
  <2> QED
    BY <2>2, <2>4, <2>6, <2>7, <2>8, <2>9, <2>10 DEF ConsumerInv, Looking
<1> QED
  BY <1>1, <1>2

(* Nothing is moved. *)
LEMMA PlacedKept ==
  ASSUME NEW b \in Nodes, UNCHANGED <<entries, sources>>, Inside(b)' <=> Inside(b),
         \A p \in Producers : Requisitioned(p, b)' <=> Requisitioned(p, b), Placed(b)
  PROVE  Placed(b)'
<1>1. (InPool(b)' <=> InPool(b)) /\ Made' = Made
  BY DEF InPool, Made, sources
<1>2. \A p, e : InSub(b, p, e)' <=> InSub(b, p, e)
  BY DEF InSub
<1>3. entries' = entries
  OBVIOUS
<1> QED
  BY <1>1, <1>2, <1>3 DEF Placed

(* The types of what a step leaves. *)
LEMMA TypesKept ==
  /\ SizesTyped /\ UNCHANGED sizes => SizesTyped'
  /\ IndexTyped /\ UNCHANGED <<tables, entries>> => IndexTyped'
  /\ BlocksTyped /\ UNCHANGED blocks => BlocksTyped'
  /\ SourcesTyped /\ UNCHANGED sources => SourcesTyped'
  /\ ThreadsTyped /\ UNCHANGED <<pc, reg>> => ThreadsTyped'
<1>1. SizesTyped /\ UNCHANGED sizes => SizesTyped'
  BY DEF SizesTyped, sizes
<1>2. IndexTyped /\ UNCHANGED <<tables, entries>> => IndexTyped'
  BY DEF IndexTyped, TablesOK, TableOK, Table, Capacity
<1>3. BlocksTyped /\ UNCHANGED blocks => BlocksTyped'
  BY DEF BlocksTyped, blocks
<1>4. SourcesTyped /\ UNCHANGED sources => SourcesTyped'
  BY DEF SourcesTyped, sources, Made
<1>5. ThreadsTyped /\ UNCHANGED <<pc, reg>> => ThreadsTyped'
  BY DEF ThreadsTyped
<1> QED
  BY <1>1, <1>2, <1>3, <1>4, <1>5

(* A thread goes on. *)
LEMMA GoEffect ==
  ASSUME ThreadsTyped, NEW t \in Threads, NEW there, NEW locals, Go(t, there, locals)
  PROVE  /\ pc'[t] = there /\ reg'[t] = locals
         /\ \A u \in Threads \ {t} : pc'[u] = pc[u] /\ reg'[u] = reg[u]
BY DEF Go, ThreadsTyped

(* A producer goes on, with local variables of their types. *)
LEMMA ProducerGoes ==
  ASSUME ThreadsTyped, NEW p \in Producers, NEW there \in ProducerPlaces,
         NEW locals \in Registers, Go(p, there, locals)
  PROVE  ThreadsTyped'
<1>1. p \in Threads /\ p \notin Consumers
  BY Constants
<1>2. pc' \in [Threads -> ProducerPlaces \cup ConsumerPlaces] /\ reg' \in [Threads -> Registers]
  BY <1>1 DEF Go, ThreadsTyped
<1>3. \A q \in Producers : pc'[q] \in ProducerPlaces
  BY <1>1, Constants, GoEffect DEF ThreadsTyped
<1>4. \A c \in Consumers : pc'[c] = pc[c] /\ reg'[c] = reg[c]
  BY <1>1, Constants, GoEffect
<1> QED
  BY <1>2, <1>3, <1>4 DEF ThreadsTyped

(* A consumer goes on, with local variables of their types. *)
LEMMA ConsumerGoes ==
  ASSUME ThreadsTyped, NEW c \in Consumers, NEW there \in ConsumerPlaces,
         NEW locals \in Registers, Go(c, there, locals),
         there \notin {"idle", "adding"} => locals.sub \in Producers
  PROVE  ThreadsTyped'
<1>1. c \in Threads /\ c \notin Producers
  BY Constants
<1>2. pc' \in [Threads -> ProducerPlaces \cup ConsumerPlaces] /\ reg' \in [Threads -> Registers]
  BY <1>1 DEF Go, ThreadsTyped
<1>3. \A q \in Producers : pc'[q] = pc[q]
  BY <1>1, Constants, GoEffect
<1>4. \A d \in Consumers \ {c} : pc'[d] = pc[d] /\ reg'[d] = reg[d]
  BY <1>1, Constants, GoEffect
<1>5. pc'[c] = there /\ reg'[c] = locals
  BY <1>1, GoEffect
<1> QED
  BY <1>2, <1>3, <1>4, <1>5 DEF ThreadsTyped

(* Its local variables, and what it starts with. *)
LEMMA RegistersTyped ==
  ASSUME ThreadsTyped, NEW t \in Threads
  PROVE  /\ reg[t] \in Registers /\ Blank \in Registers
         /\ reg[t].sub \in Producers \cup {NoItem} /\ reg[t].others \in SUBSET Producers
         /\ reg[t].tail \in Nat /\ reg[t].over \in Nat /\ reg[t].count \in Nat
         /\ reg[t].index \in Nat /\ reg[t].table \in Nat /\ reg[t].slot \in Nat
         /\ reg[t].entry \in Nat /\ reg[t].block \in MaybeNode /\ reg[t].item \in MaybeItem
<1>1. reg[t] \in Registers
  BY DEF ThreadsTyped
<1>2. Blank \in Registers
  BY DEF Blank, Registers, MaybeNode, MaybeItem
<1> QED
  BY <1>1, <1>2 DEF Registers

(* A consumer with an index finds its block. *)
LEMMA Working ==
  ASSUME IInv, NEW c \in Consumers, pc[c] \in Looking \cup {"unlink"},
         NEW p, p = reg[c].sub, NEW m, m = Number(reg[c].index)
  PROVE  /\ p \in Producers /\ m \in Nat /\ m \in 0..(Linked(p) - 1)
         /\ reg[c].index \in Nat /\ reg[c].index < head[p] /\ head[p] <= tail[p]
         /\ Present(p, m) /\ Counting(p, m) /\ m \in Window(p)
         /\ Value(p, m) \in Nodes /\ Entry(p, m) \in DOMAIN entries[p]
<1>1. p \in Producers /\ TypeOK
  BY DEF IInv, TypeOK, ThreadsTyped, Looking
<1>2. head[p] \in Nat /\ tail[p] \in Nat
  BY <1>1 DEF TypeOK, SizesTyped
<1>3. reg[c].index \in 0..(head[p] - 1)
  BY DEF IInv, ConsumerInv
<1>4. head[p] <= tail[p]
  <2>1. Won(p) <= tail[p] /\ Cardinality(At(p, "index")) \in Nat
    BY <1>1, Counts DEF IInv, Inv, ClaimsInv
  <2> QED
    BY <1>2, <2>1 DEF Won
<1>5. reg[c].index \in Nat /\ reg[c].index < tail[p] /\ reg[c].index < head[p]
  BY <1>2, <1>3, <1>4
<1>6. m \in 0..(Linked(p) - 1) /\ m \in Nat
  BY <1>1, <1>5, TailBlock, InItsBlock
<1>7. c \in Emptying(p, m) \/ Unlinks(c, p, m)
  BY DEF Emptying, Unlinks, InBlock
<1>8. Present(p, m) /\ Counting(p, m)
  <2>1. IF Present(p, m) THEN Counting(p, m) ELSE Gone(p, m)
    BY <1>1, <1>6 DEF IInv, Inv, BlocksInv
  <2> QED
    BY <1>7, <2>1 DEF Gone
<1>9. m \in Window(p) /\ Value(p, m) # NoNode
  BY <1>8 DEF Present
<1>10. Entry(p, m) \in DOMAIN entries[p]
  BY <1>1, <1>6, Entries
<1>11. Value(p, m) \in Nodes
  <2>1. entries[p] \in Seq(EntryType)
    BY <1>1 DEF TypeOK, IndexTyped
  <2>2. entries[p][Entry(p, m)] \in EntryType
    BY <1>10, <2>1
  <2> QED
    BY <1>9, <2>2 DEF Value, EntryType, MaybeNode
<1> QED
  BY <1>1, <1>4, <1>5, <1>6, <1>8, <1>9, <1>10, <1>11

-----------------------------------------------------------------------------
(* The free list is left. *)
LEMMA ListKept ==
  ASSUME ListInv, UNCHANGED listVars
  PROVE  ListInv' /\ \A n : Inside(n)' <=> Inside(n)
<1>1. Listed' = Listed
  BY ListedSame DEF listVars
<1>2. \A t, n : /\ Owns(t, n)' <=> Owns(t, n)
                /\ Refers(t, n)' <=> Refers(t, n)
                /\ Linking(t, n)' <=> Linking(t, n)
                /\ Lists(t, n)' <=> Lists(t, n)
  BY DEF listVars, Owns, Refers, Linking, Lists
<1>3. \A n : References(n)' = References(n) /\ (OnTheList(n)' <=> OnTheList(n))
  BY <1>1, <1>2 DEF References, OnTheList
<1>4. refs' = refs
  BY DEF listVars
<1>5. \A n \in Nodes : NodeInv(n) => NodeInv(n)'
  BY <1>1, <1>2, <1>3, <1>4 DEF NodeInv, OwnedOnce, FlaggedWaits, CountRight
<1>6. ListTyped' /\ NextSeen' /\ Chain'
  BY <1>1 DEF ListInv, ListTyped, NextSeen, Chain, listVars
<1>7. \A n : Inside(n)' <=> Inside(n)
  BY <1>1, <1>2, <1>4 DEF Inside
<1> QED
  BY <1>5, <1>6, <1>7 DEF ListInv

(* A consumer of a sub-queue whose index is left. *)
LEMMA ViewedConsumer ==
  ASSUME IInv, NEW d \in Consumers, pc'[d] = pc[d], reg'[d] = reg[d],
         \A q \in Producers : SameView(q) /\ head[q] <= head'[q] /\ head'[q] \in Nat
  PROVE  ConsumerInv(d)'
<1>1. TypeOK /\ ConsumerInv(d)
  BY DEF IInv
<1>2. ASSUME pc[d] \in Looking \cup {"unlink"}, NEW p, p = reg[d].sub,
             NEW m, m = Number(reg[d].index)
      PROVE  /\ head[p] <= head'[p] /\ head[p] \in Nat /\ head'[p] \in Nat
             /\ Linked(p)' \in Int /\ Stays(p, m)
             /\ DOMAIN tables'[p] = DOMAIN tables[p] /\ Len(tables'[p]) = Len(tables[p])
             /\ \A h \in DOMAIN tables[p] :
                  /\ tables'[p][h].index = tables[p][h].index
                  /\ h # Len(tables[p]) => tables'[p][h].tail = tables[p][h].tail
             /\ pc[d] \in {"empty", "unlink"} => Value(p, m)' = Value(p, m)
  <2>1. p \in Producers
    BY <1>1, <1>2 DEF TypeOK, ThreadsTyped, Looking
  <2>2. SameView(p) /\ tables'[p] = tables[p] /\ head[p] <= head'[p] /\ head'[p] \in Nat
    BY <2>1 DEF SameView, SameIndex
  <2>3. /\ Linked(p)' = Linked(p) /\ Linked(p) \in Nat
        /\ \A k : /\ Entry(p, k)' = Entry(p, k) /\ Value(p, k)' = Value(p, k)
                  /\ Key(p, k)' = Key(p, k)
    BY <1>1, <2>1, <2>2, ViewSame, NumbersTyped
  <2>4. Stays(p, m)
    BY <2>3 DEF Stays
  <2> QED
    BY <1>1, <2>1, <2>2, <2>3, <2>4 DEF TypeOK, SizesTyped
<1> QED
  BY <1>1, <1>2, ConsumerKept

(* What a step of a consumer leaves that stores nothing of the index of blocks. *)
LEMMA IndexLeft ==
  ASSUME IInv, NEW c \in Consumers, NEW there, NEW locals, Go(c, there, locals),
         UNCHANGED <<tables, entries, tail, tailBlock>>
  PROVE  /\ \A q \in Producers : /\ SameView(q) /\ IndexInv(q)' /\ ProducerInv(q)'
                                 /\ pc'[q] = pc[q] /\ reg'[q] = reg[q]
                                 /\ \A b : Requisitioned(q, b)' <=> Requisitioned(q, b)
         /\ \A d \in Consumers \ {c} : /\ pc'[d] = pc[d] /\ reg'[d] = reg[d]
                                       /\ SameWork(d) /\ \A q : SameClaim(d, q)
         /\ pc'[c] = there /\ reg'[c] = locals
<1>1. ThreadsTyped /\ c \in Threads
  BY Constants DEF IInv, TypeOK
<1>2. /\ pc'[c] = there /\ reg'[c] = locals
      /\ \A u \in Threads \ {c} : pc'[u] = pc[u] /\ reg'[u] = reg[u]
  BY <1>1, GoEffect
<1>3. ASSUME NEW q \in Producers
      PROVE  /\ SameView(q) /\ IndexInv(q)' /\ ProducerInv(q)'
             /\ pc'[q] = pc[q] /\ reg'[q] = reg[q]
             /\ \A b : Requisitioned(q, b)' <=> Requisitioned(q, b)
  <2>1. pc'[q] = pc[q] /\ reg'[q] = reg[q]
    BY <1>2, Constants
  <2>2. Untouched(q)
    BY <2>1 DEF Untouched
  <2> QED
    BY <2>1, <2>2, UntouchedSame, IndexKept, ProducerKept DEF IInv, Inv, Requisitioned
<1>4. ASSUME NEW d \in Consumers \ {c}
      PROVE  pc'[d] = pc[d] /\ reg'[d] = reg[d] /\ SameWork(d) /\ \A q : SameClaim(d, q)
  <2>1. pc'[d] = pc[d] /\ reg'[d] = reg[d]
    BY <1>2, Constants
  <2> QED
    BY <2>1 DEF SameWork, SameClaim
<1> QED
  BY <1>2, <1>3, <1>4

(* A step of a consumer that stores nothing but an element, or what it claims. *)
LEMMA ElementStep ==
  ASSUME IInv, NEW c \in Consumers, NEW there \in ConsumerPlaces, NEW locals \in Registers,
         Go(c, there, locals), there \notin {"idle", "adding"} => locals.sub \in Producers,
         UNCHANGED <<listVars, tables, entries, tailBlock, dequeued, sources, todo, tail, head>>,
         SizesTyped', BlocksTyped', SameWork(c), \A p \in Producers : ClaimsInv(p)',
         ConsumerInv(c)'
  PROVE  IInv'
<1>1. UNCHANGED tailBlock /\ UNCHANGED dequeued
  OBVIOUS
<1>2. /\ \A q \in Producers : /\ SameView(q) /\ IndexInv(q)' /\ ProducerInv(q)'
                              /\ pc'[q] = pc[q] /\ reg'[q] = reg[q]
                              /\ \A b : Requisitioned(q, b)' <=> Requisitioned(q, b)
      /\ \A d \in Consumers \ {c} : pc'[d] = pc[d] /\ reg'[d] = reg[d] /\ SameWork(d)
  BY <1>1, IndexLeft
<1>3. ListInv' /\ \A n : Inside(n)' <=> Inside(n)
  BY ListKept DEF IInv
<1>4. TypeOK'
  <2>1. IndexTyped' /\ SourcesTyped'
    BY TypesKept DEF IInv, TypeOK
  <2>2. ThreadsTyped'
    BY ConsumerGoes DEF IInv, TypeOK
  <2>3. WorkTyped'
    BY <1>2 DEF IInv, TypeOK, WorkTyped
  <2> QED
    BY <2>1, <2>2, <2>3 DEF TypeOK
<1>5. \A d \in Consumers : SameWork(d)
  BY <1>2
<1>6. \A q \in Producers : head[q] <= head'[q] /\ head'[q] \in Nat
  BY DEF IInv, TypeOK, SizesTyped
<1>7. ASSUME NEW d \in Consumers PROVE ConsumerInv(d)'
  BY <1>2, <1>6, ViewedConsumer
<1>8. ASSUME NEW q \in Producers PROVE BlocksInv(q)'
  BY <1>1, <1>2, <1>5, BlocksKept DEF IInv, Inv
<1>9. IndicesDiffer'
  BY <1>5, WorkSame DEF IInv
<1>10. \A b \in Nodes : Placed(b)'
  BY <1>2, <1>3, PlacedKept DEF IInv
<1> QED
  BY <1>2, <1>3, <1>4, <1>7, <1>8, <1>9, <1>10 DEF IInv, Inv

(* A consumer's step that changes nothing that is found keeps the invariant. *)
LEMMA LocalStep ==
  ASSUME IInv, NEW c \in Consumers, NEW there \in ConsumerPlaces, NEW locals \in Registers,
         Go(c, there, locals), there \notin {"idle", "adding"} => locals.sub \in Producers,
         UNCHANGED <<listVars, tables, entries, blocks, sources, todo, tail, head>>,
         SizesTyped', SameWork(c), \A p \in Producers : ClaimsInv(p)', ConsumerInv(c)'
  PROVE  IInv'
<1>1. UNCHANGED tailBlock /\ UNCHANGED dequeued
  BY DEF blocks
<1>2. BlocksTyped'
  BY TypesKept DEF IInv, TypeOK
<1> QED
  BY <1>1, <1>2, ElementStep

(* One that claims nothing. *)
LEMMA ClaimsLeft ==
  ASSUME IInv, NEW c \in Consumers, NEW there, NEW locals, Go(c, there, locals),
         UNCHANGED sizes, pc[c] \notin Claiming, there \notin Claiming,
         there \in {"check", "claim"} => locals.over <= overcommit[locals.sub]
  PROVE  SizesTyped' /\ \A p \in Producers : ClaimsInv(p)'
<1>1. UNCHANGED <<tail, head, optimistic, overcommit>>
  BY DEF sizes
<1>2. /\ pc'[c] = there /\ reg'[c] = locals
      /\ \A d \in Consumers \ {c} : /\ pc'[d] = pc[d] /\ reg'[d] = reg[d]
                                    /\ \A q : SameClaim(d, q)
  <2>1. /\ pc'[c] = there /\ reg'[c] = locals
        /\ \A d \in Threads \ {c} : pc'[d] = pc[d] /\ reg'[d] = reg[d]
    BY Constants, GoEffect DEF IInv, TypeOK
  <2> QED
    BY <2>1, Constants DEF SameClaim
<1>3. ASSUME NEW p \in Producers PROVE ClaimsInv(p)'
  <2>1. SameClaim(c, p)
    BY <1>2 DEF SameClaim, Claiming
  <2>2. SeenOver(c, p)'
    BY <1>1, <1>2 DEF SeenOver, Claiming
  <2>3. \A d \in Consumers \ {c} : SeenOver(d, p)'
    BY <1>1, <1>2 DEF SeenOver, IInv, Inv, ClaimsInv
  <2> QED
    BY <1>1, <1>2, <2>1, <2>2, <2>3, ClaimsKept DEF IInv, Inv, TypeOK, SizesTyped
<1>4. SizesTyped'
  BY TypesKept DEF IInv, TypeOK
<1> QED
  BY <1>3, <1>4

(* And one that is not about a claim. *)
LEMMA QuietStep ==
  ASSUME IInv, NEW c \in Consumers, NEW there \in ConsumerPlaces, NEW locals \in Registers,
         Go(c, there, locals), there \notin {"idle", "adding"} => locals.sub \in Producers,
         UNCHANGED <<listVars, tables, entries, blocks, sources, todo, sizes>>,
         pc[c] \notin Claiming, there \notin Claiming,
         there \in {"check", "claim"} => locals.over <= overcommit[locals.sub],
         SameWork(c), ConsumerInv(c)'
  PROVE  IInv'
<1>1. UNCHANGED <<tail, head>> /\ UNCHANGED tailBlock
  BY DEF sizes, blocks
<1>2. SizesTyped' /\ \A p \in Producers : ClaimsInv(p)'
  BY <1>1, ClaimsLeft
<1> QED
  BY <1>1, <1>2, LocalStep

(* Where there is no element yet, nothing is known of the index. *)
Searching == {"idle", "look", "check", "claim", "again", "undo", "index"}
(* A consumer that is there is as it should be when it holds nothing. *)
LEMMA Searches ==
  ASSUME NEW c, pc'[c] \in Searching, reg'[c].item = NoItem
  PROVE  ConsumerInv(c)'
BY DEF Searching, ConsumerInv, Looking

(* The local variables of a thread that does nothing. *)
LEMMA BlankTyped == Blank \in Registers /\ Blank.item = NoItem
BY DEF Blank, Registers, MaybeNode, MaybeItem

(* A consumer picks a sub-queue. *)
LEMMA ScanKeeps ==
  ASSUME IInv, NEW c \in Consumers, Scan(c)
  PROVE  IInv'
<1>1. PICK best \in Producers :
        Go(c, "look", [Blank EXCEPT !.sub = best, !.others = Producers \ {best}])
  BY DEF Scan, NonEmpty
<1>2. PICK locals : locals = [Blank EXCEPT !.sub = best, !.others = Producers \ {best}]
  OBVIOUS
<1>3. locals \in Registers /\ locals.sub \in Producers /\ locals.item = NoItem
  <2>1. PICK S \in SUBSET Producers : S = Producers \ {best}
    OBVIOUS
  <2>2. locals = [Blank EXCEPT !.sub = best, !.others = S]
    BY <1>2, <2>1
  <2> QED
    BY <2>2 DEF Blank, Registers, MaybeNode, MaybeItem
<1>4. pc[c] = "idle" /\ pc'[c] = "look" /\ reg'[c] = locals
  BY <1>1, <1>2, Constants, GoEffect DEF Scan, IInv, TypeOK
<1>5. ConsumerInv(c)'
  <2>1. pc'[c] \in Searching /\ reg'[c].item = NoItem
    BY <1>3, <1>4 DEF Searching
  <2> QED
    BY <2>1, Searches
<1>6. SameWork(c)
  BY <1>4 DEF SameWork, Looking
<1> QED
  BY <1>1, <1>2, <1>3, <1>4, <1>5, <1>6, QuietStep DEF Scan, Claiming, ConsumerPlaces

(* It loads the tail, and how many claims were taken back. *)
LEMMA LookKeeps ==
  ASSUME IInv, NEW c \in Consumers, Look(c)
  PROVE  IInv'
<1>1. reg[c].sub \in Producers /\ pc[c] = "look" /\ reg[c].item = NoItem
  BY DEF Look, IInv, TypeOK, ThreadsTyped, ConsumerInv
<1>2. PICK locals :
        locals = [reg[c] EXCEPT !.tail = tail[reg[c].sub], !.over = overcommit[reg[c].sub]]
  OBVIOUS
<1>3. /\ locals \in Registers /\ locals.sub = reg[c].sub /\ locals.item = NoItem
      /\ locals.over = overcommit[reg[c].sub]
  <2>1. reg[c] \in Registers
    BY Constants DEF IInv, TypeOK, ThreadsTyped
  <2>2. PICK x \in Nat, y \in Nat : x = tail[reg[c].sub] /\ y = overcommit[reg[c].sub]
    BY <1>1 DEF IInv, TypeOK, SizesTyped
  <2>3. locals = [reg[c] EXCEPT !.tail = x, !.over = y]
    BY <1>2, <2>2
  <2> QED
    BY <1>1, <2>1, <2>2, <2>3 DEF Registers
<1>4. Go(c, "check", locals)
  BY <1>2 DEF Look
<1>5. pc'[c] = "check" /\ reg'[c] = locals
  BY <1>4, Constants, GoEffect DEF IInv, TypeOK
<1>6. ConsumerInv(c)'
  <2>1. pc'[c] \in Searching /\ reg'[c].item = NoItem
    BY <1>3, <1>5 DEF Searching
  <2> QED
    BY <2>1, Searches
<1>7. SameWork(c)
  BY <1>1, <1>5 DEF SameWork, Looking
<1>8. overcommit[reg[c].sub] \in Nat /\ locals.over <= overcommit[locals.sub]
  BY <1>1, <1>3 DEF IInv, TypeOK, SizesTyped
<1> QED
  BY <1>1, <1>3, <1>4, <1>6, <1>7, <1>8, QuietStep DEF Look, Claiming, ConsumerPlaces

(* It goes on to another sub-queue, or gives up. *)
LEMMA OtherTried ==
  ASSUME ThreadsTyped, NEW c \in Consumers, TryOther(c)
  PROVE  \E there \in {"idle", "look"}, locals \in Registers :
           /\ Go(c, there, locals) /\ locals.item = NoItem
           /\ there = "look" => locals.sub \in Producers
<1>1. CASE reg[c].others = {} /\ Go(c, "idle", Blank)
  BY <1>1, BlankTyped
<1>2. ASSUME NEW p \in reg[c].others,
             Go(c, "look", [Blank EXCEPT !.sub = p, !.others = reg[c].others \ {p}])
      PROVE  \E there \in {"idle", "look"}, locals \in Registers :
               /\ Go(c, there, locals) /\ locals.item = NoItem
               /\ there = "look" => locals.sub \in Producers
  <2>1. reg[c] \in Registers
    BY Constants DEF ThreadsTyped
  <2>2. reg[c].others \in SUBSET Producers
    BY <2>1 DEF Registers
  <2>3. PICK S \in SUBSET Producers : S = reg[c].others \ {p}
    BY <2>2
  <2>4. PICK locals : locals = [Blank EXCEPT !.sub = p, !.others = S]
    OBVIOUS
  <2>5. p \in Producers
    BY <2>2
  <2>6. locals \in Registers /\ locals.sub \in Producers /\ locals.item = NoItem
    BY <2>3, <2>4, <2>5 DEF Blank, Registers, MaybeNode, MaybeItem
  <2> QED
    BY <1>2, <2>3, <2>4, <2>6
<1> QED
  BY <1>1, <1>2 DEF TryOther

(* It sees whether a claim may succeed. *)
LEMMA CheckKeeps ==
  ASSUME IInv, NEW c \in Consumers, Check(c)
  PROVE  IInv'
<1>1. /\ reg[c].sub \in Producers /\ pc[c] = "check" /\ reg[c].item = NoItem
      /\ reg[c].over <= overcommit[reg[c].sub] /\ ThreadsTyped
  BY DEF Check, IInv, TypeOK, ThreadsTyped, ConsumerInv, Inv, ClaimsInv
<1>2. \E there \in {"idle", "look", "claim"}, locals \in Registers :
        /\ Go(c, there, locals) /\ locals.item = NoItem
        /\ there # "idle" => locals.sub \in Producers
        /\ there = "claim" => locals.over <= overcommit[locals.sub]
  <2>1. CASE Go(c, "claim", [reg[c] EXCEPT !.tail = 0])
    <3>1. reg[c] \in Registers
      BY Constants DEF IInv, TypeOK, ThreadsTyped
    <3>2. PICK locals : locals = [reg[c] EXCEPT !.tail = 0]
      OBVIOUS
    <3>3. /\ locals \in Registers /\ locals.sub = reg[c].sub /\ locals.item = NoItem
          /\ locals.over = reg[c].over
      BY <1>1, <3>1, <3>2 DEF Registers
    <3>4. Go(c, "claim", locals)
      BY <2>1, <3>2
    <3> QED
      BY <1>1, <3>3, <3>4
  <2>2. CASE TryOther(c)
    <3>1. PICK there \in {"idle", "look"}, locals \in Registers :
            /\ Go(c, there, locals) /\ locals.item = NoItem
            /\ there = "look" => locals.sub \in Producers
      BY <1>1, <2>2, OtherTried
    <3>2. there \in {"idle", "look", "claim"}
      BY <3>1
    <3> QED
      BY <3>1, <3>2
  <2> QED
    BY <2>1, <2>2 DEF Check
<1>3. PICK there \in {"idle", "look", "claim"}, locals \in Registers :
        /\ Go(c, there, locals) /\ locals.item = NoItem
        /\ there # "idle" => locals.sub \in Producers
        /\ there = "claim" => locals.over <= overcommit[locals.sub]
  BY <1>2
<1>4. pc'[c] = there /\ reg'[c] = locals
  BY <1>1, <1>3, Constants, GoEffect
<1>5. ConsumerInv(c)'
  <2>1. pc'[c] \in Searching /\ reg'[c].item = NoItem
    BY <1>3, <1>4 DEF Searching
  <2> QED
    BY <2>1, Searches
<1>6. SameWork(c)
  BY <1>1, <1>3, <1>4 DEF SameWork, Looking
<1>7. there \in ConsumerPlaces /\ there \notin Claiming /\ pc[c] \notin Claiming
  BY <1>1, <1>3 DEF ConsumerPlaces, Claiming
<1>8. UNCHANGED <<listVars, tables, entries, blocks, sources, todo, sizes>>
  BY DEF Check
<1>9. there \in {"check", "claim"} => locals.over <= overcommit[locals.sub]
  BY <1>3
<1>10. there \notin {"idle", "adding"} => locals.sub \in Producers
  BY <1>3
<1> QED
  BY <1>3, <1>5, <1>6, <1>7, <1>8, <1>9, <1>10, QuietStep

(* It has put an empty block on the free list. *)
LEMMA AddedKeeps ==
  ASSUME IInv, NEW c \in Consumers, Added(c)
  PROVE  IInv'
<1>1. pc[c] = "adding" /\ pc'[c] = "idle" /\ reg'[c] = Blank
  BY Constants, GoEffect DEF Added, IInv, TypeOK
<1>2. ConsumerInv(c)'
  <2>1. pc'[c] \in Searching /\ reg'[c].item = NoItem
    BY <1>1, BlankTyped DEF Searching
  <2> QED
    BY <2>1, Searches
<1>3. SameWork(c)
  BY <1>1 DEF SameWork, Looking
<1> QED
  BY <1>1, <1>2, <1>3, BlankTyped, QuietStep DEF Added, Claiming, ConsumerPlaces

(* It loads the table in use. *)
LEMMA LoadTableKeeps ==
  ASSUME IInv, NEW c \in Consumers, LoadTable(c)
  PROVE  IInv'
<1>1. PICK p \in Producers : p = reg[c].sub
  BY DEF LoadTable, IInv, TypeOK, ThreadsTyped
<1>2. pc[c] = "table" /\ reg[c].item = NoItem /\ reg[c].index \in 0..(head[p] - 1)
  BY <1>1 DEF LoadTable, IInv, ConsumerInv, Looking
<1>3. PICK locals : locals = [reg[c] EXCEPT !.table = Len(tables[p])]
  OBVIOUS
<1>4. Len(tables[p]) \in DOMAIN tables[p] /\ Len(tables[p]) \in Nat
  <2>1. tables[p] \in Seq(TableType)
    BY DEF IInv, TypeOK, IndexTyped
  <2> QED
    BY <2>1, TableTyped DEF IInv
<1>5. /\ locals \in Registers /\ locals.sub = p /\ locals.item = NoItem
      /\ locals.index = reg[c].index /\ locals.table = Len(tables[p])
  <2>1. reg[c] \in Registers
    BY Constants DEF IInv, TypeOK, ThreadsTyped
  <2>2. PICK x \in Nat : x = Len(tables[p])
    BY <1>4
  <2>3. locals = [reg[c] EXCEPT !.table = x]
    BY <1>3, <2>2
  <2> QED
    BY <1>1, <1>2, <2>1, <2>2, <2>3 DEF Registers
<1>6. Go(c, "tail", locals) /\ UNCHANGED <<listVars, sizes, tables, entries, blocks, sources, todo>>
  BY <1>1, <1>3 DEF LoadTable
<1>7. pc'[c] = "tail" /\ reg'[c] = locals /\ head' = head /\ tables' = tables
  BY <1>6, Constants, GoEffect DEF IInv, TypeOK, sizes
<1>8. ConsumerInv(c)'
  BY <1>2, <1>4, <1>5, <1>7 DEF ConsumerInv
<1>9. SameWork(c)
  BY <1>1, <1>2, <1>5, <1>7 DEF SameWork, Looking
<1> QED
  BY <1>2, <1>5, <1>6, <1>8, <1>9, QuietStep DEF Claiming, ConsumerPlaces

(* The tail of the table in use is an entry to count from. *)
LEMMA TopKnown ==
  ASSUME IInv, NEW c \in Consumers, pc[c] \in Looking, NEW p, p = reg[c].sub
  PROVE  Knows(c, p, Table(p), Table(p).tail)
<1>1. PICK m : m = Number(reg[c].index)
  OBVIOUS
<1>2. p \in Producers /\ m \in Nat /\ m \in Window(p)
  BY <1>1, Working
<1>3. TypeOK
  BY DEF IInv
<1>4. PICK k \in Int : k = Top(p) /\ k <= Linked(p)
  BY <1>2, <1>3, NumbersTyped
<1>5. Linked(p) \in Nat /\ Capacity(Table(p)) \in Nat
  BY <1>2, <1>3, NumbersTyped, TableTyped
<1>6. m <= k
  BY <1>2, <1>4, <1>5 DEF Window
<1>7. k \in m..Linked(p)
  BY <1>2, <1>4, <1>5, <1>6
<1>8. Key(p, k) = First(k)
  BY <1>2, <1>4, <1>6 DEF IInv, Inv, IndexInv
<1>9. Cell(Table(p), Table(p).tail, 0) = Entry(p, k)
  <2>1. k - k = 0
    OBVIOUS
  <2> QED
    BY <1>4, <2>1 DEF Entry
<1>10. Cell(Table(p), Table(p).tail, m - k) = Entry(p, m)
  BY <1>4 DEF Entry
<1> QED
  BY <1>1, <1>7, <1>8, <1>9, <1>10 DEF Knows

(* What it knows of a table it still knows after a step that stores nothing of it. *)
LEMMA ViewKnown ==
  ASSUME IInv, NEW c \in Consumers, NEW p \in Producers, SameView(p),
         reg[c].index \in Nat, reg'[c].index = reg[c].index, NEW h, NEW s, Knows(c, p, h, s)
  PROVE  Knows(c, p, h, s)'
<1>1. TypeOK
  BY DEF IInv
<1>2. Linked(p)' = Linked(p) /\ Linked(p) \in Nat
  BY <1>1, ViewSame, NumbersTyped
<1>3. \A k : Entry(p, k)' = Entry(p, k) /\ Key(p, k)' = Key(p, k)
  BY ViewSame
<1>4. Stays(p, Number(reg[c].index))
  BY <1>2, <1>3 DEF Stays
<1> QED
  BY <1>1, <1>2, <1>4, KnowsKept

(* It loads the tail of the table, which may be an old one by now. *)
LEMMA LoadTailKeeps ==
  ASSUME IInv, NEW c \in Consumers, LoadTail(c)
  PROVE  IInv'
<1>1. PICK p \in Producers : p = reg[c].sub
  BY DEF LoadTail, IInv, TypeOK, ThreadsTyped
<1>2. /\ pc[c] = "tail" /\ reg[c].item = NoItem /\ reg[c].index \in 0..(head[p] - 1)
      /\ reg[c].table \in DOMAIN tables[p]
      /\ reg[c].table = Len(tables[p]) \/ Knows(c, p, Loaded(c), Loaded(c).tail)
  BY <1>1 DEF LoadTail, IInv, ConsumerInv, Looking
<1>3. PICK h, s : h = Loaded(c) /\ s = Loaded(c).tail
  OBVIOUS
<1>4. s \in Nat /\ s < Capacity(h) /\ Capacity(h) \in Nat /\ reg[c].table \in Nat
  <2>1. tables[p] \in Seq(TableType) /\ TableOK(p, tables[p][reg[c].table])
    BY <1>2 DEF IInv, TypeOK, IndexTyped, TablesOK
  <2>2. h = tables[p][reg[c].table]
    BY <1>1, <1>3 DEF Loaded
  <2>3. h \in TableType
    BY <1>2, <2>1, <2>2
  <2>4. h.tail \in Nat /\ Capacity(h) \in Nat
    BY <2>3 DEF TableType, Capacity
  <2>5. h.tail < Capacity(h)
    BY <2>1, <2>2 DEF TableOK
  <2>6. reg[c].table \in Nat
    BY <1>2, <2>1
  <2> QED
    BY <1>3, <2>4, <2>5, <2>6
<1>5. Knows(c, p, h, s)
  <2>1. CASE reg[c].table = Len(tables[p])
    <3>1. h = Table(p) /\ s = Table(p).tail
      BY <1>1, <1>3, <2>1, TableTyped DEF Loaded, IInv
    <3> QED
      BY <1>1, <1>2, <3>1, TopKnown DEF Looking
  <2> QED
    BY <1>2, <1>3, <2>1
<1>6. PICK locals : locals = [reg[c] EXCEPT !.slot = s]
  OBVIOUS
<1>7. /\ locals \in Registers /\ locals.sub = p /\ locals.item = NoItem
      /\ locals.index = reg[c].index /\ locals.table = reg[c].table /\ locals.slot = s
  <2>1. reg[c] \in Registers
    BY Constants DEF IInv, TypeOK, ThreadsTyped
  <2> QED
    BY <1>1, <1>2, <1>4, <1>6, <2>1 DEF Registers
<1>8. Go(c, "key", locals) /\ UNCHANGED <<listVars, sizes, tables, entries, blocks, sources, todo>>
  BY <1>3, <1>6 DEF LoadTail
<1>9. UNCHANGED <<head, tail, tailBlock, tables, entries>>
  BY <1>8 DEF sizes, blocks
<1>10. pc'[c] = "key" /\ reg'[c] = locals /\ SameView(p)
  BY <1>8, <1>9, IndexLeft
<1>11. ConsumerInv(c)'
  <2>1. Knows(c, p, h, s)'
    <3>1. reg[c].index \in Nat
      BY <1>1, <1>2
    <3>2. reg'[c].index = reg[c].index
      BY <1>7, <1>10
    <3> QED
      BY <1>5, <1>10, <3>1, <3>2, ViewKnown
  <2>2. Loaded(c)' = h
    BY <1>1, <1>3, <1>7, <1>9, <1>10 DEF Loaded
  <2>3. Knows(c, p, Loaded(c), s)'
    BY <2>1, <2>2 DEF Knows
  <2>4. s \in 0..(Capacity(Loaded(c))' - 1)
    BY <1>4, <2>2 DEF Capacity
  <2> QED
    BY <1>2, <1>7, <1>9, <1>10, <2>3, <2>4 DEF ConsumerInv
<1>12. SameWork(c)
  BY <1>1, <1>2, <1>7, <1>10 DEF SameWork, Looking
<1> QED
  BY <1>2, <1>7, <1>8, <1>11, <1>12, QuietStep DEF Claiming, ConsumerPlaces

(* It loads the key there, and so finds the entry of its block. *)
LEMMA LoadKeyKeeps ==
  ASSUME IInv, NEW c \in Consumers, LoadKey(c)
  PROVE  IInv'
<1>1. PICK p \in Producers : p = reg[c].sub
  BY DEF LoadKey, IInv, TypeOK, ThreadsTyped
<1>2. /\ pc[c] = "key" /\ reg[c].item = NoItem /\ reg[c].index \in 0..(head[p] - 1)
      /\ reg[c].table \in DOMAIN tables[p] /\ reg[c].slot \in 0..(Capacity(Loaded(c)) - 1)
      /\ Knows(c, p, Loaded(c), reg[c].slot)
  BY <1>1 DEF LoadKey, IInv, ConsumerInv, Looking
<1>3. PICK h, s, m : h = Loaded(c) /\ s = reg[c].slot /\ m = Number(reg[c].index)
  OBVIOUS
<1>4. Capacity(h) \in Nat /\ Capacity(h) >= 2 /\ s \in Int /\ s \in 0..(Capacity(h) - 1)
  <2>1. tables[p] \in Seq(TableType) /\ TableOK(p, tables[p][reg[c].table])
    BY <1>2 DEF IInv, TypeOK, IndexTyped, TablesOK
  <2>2. h = tables[p][reg[c].table]
    BY <1>1, <1>3 DEF Loaded
  <2>3. h \in TableType
    BY <1>2, <2>1, <2>2
  <2>4. Capacity(h) \in Nat
    BY <2>3 DEF TableType, Capacity
  <2> QED
    BY <1>2, <1>3, <2>1, <2>2, <2>4 DEF TableOK
<1>5. /\ m \in Nat /\ Entry(p, m) \in DOMAIN entries[p] /\ reg[c].index \in Nat
      /\ Linked(p) \in Nat
  BY <1>1, <1>2, <1>3, Working, NumbersTyped DEF Looking, IInv
<1>6. PICK k \in m..Linked(p) : /\ Cell(h, s, 0) = Entry(p, k) /\ Key(p, k) = First(k)
                                /\ Cell(h, s, m - k) = Entry(p, m)
  BY <1>2, <1>3 DEF Knows
<1>7. PICK key : key = entries[p][h.index[s + 1]].key
  OBVIOUS
<1>8. key = First(k)
  <2>1. s + 0 = s /\ s % Capacity(h) = s
    <3>1. PICK n \in Nat : n = Capacity(h)
      BY <1>4
    <3>2. n >= 1 /\ s \in Int /\ s \in 0..(n - 1)
      BY <1>4, <3>1
    <3>3. s % n = s
      BY <3>2, Remainders
    <3> QED
      BY <1>4, <3>1, <3>3
  <2>2. Cell(h, s, 0) = h.index[s + 1]
    BY <2>1 DEF Cell
  <2> QED
    BY <1>6, <1>7, <2>2 DEF Key
<1>9. EntryFor(h, s, key, reg[c].index) = Entry(p, m)
  <2>1. Base(reg[c].index) = First(m)
    BY <1>3, <1>5, InItsBlock
  <2>2. (First(m) - First(k)) \div BlockSize = m - k
    BY <1>5, <1>6, Blocks
  <2> QED
    BY <1>6, <1>8, <2>1, <2>2 DEF EntryFor, Cell
<1>10. PICK locals : locals = [reg[c] EXCEPT !.table = 0, !.slot = 0, !.entry = Entry(p, m)]
  OBVIOUS
<1>11. /\ locals \in Registers /\ locals.sub = p /\ locals.item = NoItem
       /\ locals.index = reg[c].index /\ locals.entry = Entry(p, m)
  <2>1. reg[c] \in Registers
    BY Constants DEF IInv, TypeOK, ThreadsTyped
  <2>2. Entry(p, m) \in Nat
    BY <1>5, TableTyped DEF IInv
  <2>3. PICK e \in Nat : e = Entry(p, m)
    BY <2>2
  <2>4. locals = [reg[c] EXCEPT !.table = 0, !.slot = 0, !.entry = e]
    BY <1>10, <2>3
  <2> QED
    BY <1>1, <1>2, <2>1, <2>3, <2>4 DEF Registers
<1>12. Go(c, "take", locals) /\ UNCHANGED <<listVars, sizes, tables, entries, blocks, sources, todo>>
  BY <1>1, <1>3, <1>7, <1>9, <1>10 DEF LoadKey
<1>13. UNCHANGED <<head, tail, tailBlock, tables, entries>>
  BY <1>12 DEF sizes, blocks
<1>14. pc'[c] = "take" /\ reg'[c] = locals /\ SameView(p)
  BY <1>12, <1>13, IndexLeft
<1>15. ConsumerInv(c)'
  <2>1. Entry(p, m)' = Entry(p, m)
    BY <1>14, ViewSame
  <2>2. reg'[c].sub = p /\ Number(reg'[c].index) = m
    BY <1>3, <1>11, <1>14
  <2>3. Entry(reg[c].sub, Number(reg[c].index))' = Entry(p, m)
    BY <2>1, <2>2 DEF Entry
  <2> QED
    BY <1>2, <1>11, <1>13, <1>14, <2>3 DEF ConsumerInv
<1>16. SameWork(c)
  BY <1>1, <1>2, <1>11, <1>14 DEF SameWork, Looking
<1> QED
  BY <1>2, <1>11, <1>12, <1>15, <1>16, QuietStep DEF Claiming, ConsumerPlaces

(* The claims on the other sub-queues. *)
LEMMA ClaimsElsewhere ==
  ASSUME IInv, NEW c \in Consumers, NEW q \in Producers, reg[c].sub # q,
         \A d \in Consumers \ {c} : pc'[d] = pc[d] /\ reg'[d] = reg[d],
         pc'[c] \in Claiming \cup {"check", "claim"} => reg'[c].sub # q,
         optimistic'[q] = optimistic[q], overcommit'[q] = overcommit[q], head'[q] = head[q],
         tail' = tail
  PROVE  ClaimsInv(q)'
<1>1. ClaimsInv(q) /\ TypeOK
  BY DEF IInv, Inv
<1>2. SameClaim(c, q) /\ SeenOver(c, q)'
  BY DEF SameClaim, SeenOver, Claiming
<1>3. ASSUME NEW d \in Consumers \ {c} PROVE SameClaim(d, q) /\ SeenOver(d, q)'
  <2>1. pc'[d] = pc[d] /\ reg'[d] = reg[d]
    OBVIOUS
  <2>2. SameClaim(d, q)
    BY <2>1 DEF SameClaim
  <2>3. SeenOver(d, q)'
    BY <1>1, <2>1 DEF SeenOver, ClaimsInv
  <2> QED
    BY <2>2, <2>3
<1> QED
  BY <1>1, <1>2, <1>3, ClaimsKept DEF TypeOK, SizesTyped

(* A claim: as many of the claims before it are open or were taken back. *)
LEMMA ClaimKeeps ==
  ASSUME IInv, NEW c \in Consumers, Claim(c)
  PROVE  IInv'
<1>1. PICK p \in Producers : p = reg[c].sub
  BY DEF Claim, IInv, TypeOK, ThreadsTyped
<1>2. /\ pc[c] = "claim" /\ reg[c].item = NoItem /\ ClaimsInv(p)
      /\ reg[c].over <= overcommit[p]
  BY <1>1 DEF Claim, IInv, ConsumerInv, Looking, Inv, ClaimsInv
<1>3. PICK n \in Nat, v \in Nat, o \in Nat, w \in Nat, a \in Nat, u \in Nat, l \in Nat :
        /\ n = optimistic[p] /\ v = overcommit[p] /\ o = reg[c].over /\ l = tail[p]
        /\ w = Won(p) /\ a = Cardinality(At(p, "again")) /\ u = Cardinality(At(p, "undo"))
  <2>1. optimistic[p] \in Nat /\ overcommit[p] \in Nat /\ tail[p] \in Nat /\ head[p] \in Nat
    BY DEF IInv, TypeOK, SizesTyped
  <2>2. reg[c].over \in Nat
    BY Constants, RegistersTyped DEF IInv, TypeOK
  <2>3. Won(p) \in Nat
    BY <2>1, Counts DEF Won
  <2> QED
    BY <2>1, <2>2, <2>3, Counts
<1>4. n = w + a + u + v /\ o <= v /\ w <= l
  BY <1>2, <1>3 DEF ClaimsInv
<1>5. PICK locals : locals = [reg[c] EXCEPT !.count = n]
  OBVIOUS
<1>6. /\ locals \in Registers /\ locals.sub = p /\ locals.item = NoItem
      /\ locals.over = o /\ locals.count = n
  <2>1. reg[c] \in Registers
    BY Constants DEF IInv, TypeOK, ThreadsTyped
  <2> QED
    BY <1>1, <1>2, <1>3, <1>5, <2>1 DEF Registers
<1>7. Go(c, "again", locals)
  BY <1>1, <1>3, <1>5 DEF Claim
<1>8. /\ UNCHANGED <<listVars, tail, head, overcommit, tables, entries, blocks, sources, todo>>
      /\ optimistic' = [optimistic EXCEPT ![p] = n + 1]
  BY <1>1, <1>3 DEF Claim
<1>9. /\ pc'[c] = "again" /\ reg'[c] = locals
      /\ \A d \in Consumers \ {c} : pc'[d] = pc[d] /\ reg'[d] = reg[d]
  BY <1>7, <1>8, IndexLeft DEF blocks
<1>10. optimistic'[p] = n + 1 /\ \A q \in Producers \ {p} : optimistic'[q] = optimistic[q]
  BY <1>8 DEF IInv, TypeOK, SizesTyped
<1>11. SizesTyped'
  BY <1>8 DEF IInv, TypeOK, SizesTyped
<1>12. ASSUME NEW q \in Producers, q # p PROVE ClaimsInv(q)'
  BY <1>1, <1>6, <1>8, <1>9, <1>10, <1>12, ClaimsElsewhere
<1>13. ClaimsInv(p)'
  <2>1. /\ At(p, "again")' = At(p, "again") \cup {c} /\ c \notin At(p, "again")
        /\ At(p, "undo")' = At(p, "undo") /\ At(p, "index")' = At(p, "index")
    BY <1>1, <1>2, <1>6, <1>9 DEF At
  <2>2. Cardinality(At(p, "again")') = a + 1
    BY <1>3, <2>1, Counts, FS_AddElement
  <2>3. Won(p)' = w
    BY <1>3, <1>8, <2>1 DEF Won
  <2>4. ASSUME NEW d \in At(p, "again")
        PROVE  /\ reg'[d].count < n + 1
               /\ \/ w + Cardinality(Before(p, d)') <= l
                  \/ w + Cardinality(Before(p, d)') <= reg'[d].count + 1 - reg'[d].over
    <3>1. d \in Consumers /\ d # c /\ reg'[d] = reg[d]
      BY <1>9, <2>1 DEF At
    <3>2. reg[d].count < n /\ reg[d].count \in Nat
      BY <1>2, <1>3, <3>1, Constants, RegistersTyped DEF ClaimsInv, IInv, TypeOK
    <3>3. Before(p, d)' = Before(p, d)
      <4>1. \A e \in At(p, "again") : reg'[e] = reg[e]
        BY <1>9, <2>1 DEF At
      <4>2. ~(reg'[c].count <= reg[d].count)
        BY <1>6, <1>9, <3>2
      <4>3. Before(p, d)' = {e \in At(p, "again") \cup {c} : reg'[e].count <= reg[d].count}
        BY <2>1, <3>1 DEF Before
      <4>4. Before(p, d) = {e \in At(p, "again") : reg[e].count <= reg[d].count}
        BY DEF Before
      <4> QED
        BY <4>1, <4>2, <4>3, <4>4
    <3> QED
      BY <1>2, <1>3, <3>1, <3>2, <3>3 DEF ClaimsInv
  <2>5. /\ reg'[c].count < n + 1
        /\ w + Cardinality(Before(p, c)') <= reg'[c].count + 1 - reg'[c].over
    <3>1. Before(p, c)' \subseteq At(p, "again")'
      BY DEF Before
    <3>2. IsFiniteSet(At(p, "again")')
      BY <2>1, Counts, FS_AddElement
    <3>3. PICK k \in Nat : k = Cardinality(Before(p, c)') /\ k <= a + 1
      BY <2>2, <3>1, <3>2, FS_Subset, FS_CardinalityType
    <3>4. reg'[c].count = n /\ reg'[c].over = o
      BY <1>6, <1>9
    <3> QED
      BY <1>4, <3>3, <3>4
  <2>6. ASSUME NEW d \in Consumers, reg'[d].sub = p, pc'[d] \in {"check", "claim", "again"}
        PROVE  reg'[d].over <= overcommit'[p]
    <3>1. CASE d = c
      BY <1>3, <1>4, <1>6, <1>8, <1>9, <3>1
    <3>2. CASE d # c
      BY <1>2, <1>8, <1>9, <2>6, <3>2 DEF ClaimsInv
    <3> QED
      BY <3>1, <3>2
  <2>7. /\ optimistic'[p] = Won(p)' + Cardinality(At(p, "again")') + Cardinality(At(p, "undo")')
                              + overcommit'[p]
        /\ Won(p)' <= tail'[p] /\ tail'[p] = l
    BY <1>3, <1>4, <1>8, <1>10, <2>1, <2>2, <2>3
  <2>8. ASSUME NEW d \in At(p, "again")'
        PROVE  /\ reg'[d].count < optimistic'[p]
               /\ \/ Won(p)' + Cardinality(Before(p, d)') <= tail'[p]
                  \/ Won(p)' + Cardinality(Before(p, d)') <= reg'[d].count + 1 - reg'[d].over
    BY <1>10, <2>1, <2>3, <2>4, <2>5, <2>7
  <2> QED
    BY <2>6, <2>7, <2>8 DEF ClaimsInv
<1>14. ConsumerInv(c)'
  <2>1. pc'[c] \in Searching /\ reg'[c].item = NoItem
    BY <1>6, <1>9 DEF Searching
  <2> QED
    BY <2>1, Searches
<1>15. SameWork(c)
  BY <1>2, <1>9 DEF SameWork, Looking
<1> QED
  BY <1>6, <1>7, <1>8, <1>11, <1>12, <1>13, <1>14, <1>15, LocalStep DEF ConsumerPlaces

(* A claim that is good, or too late. *)
LEMMA AgainKeeps ==
  ASSUME IInv, NEW c \in Consumers, Again(c)
  PROVE  IInv'
<1>1. PICK p \in Producers : p = reg[c].sub
  BY DEF Again, IInv, TypeOK, ThreadsTyped
<1>2. pc[c] = "again" /\ reg[c].item = NoItem /\ ClaimsInv(p) /\ c \in At(p, "again")
  BY <1>1 DEF Again, IInv, ConsumerInv, Looking, Inv, At
<1>3. PICK n \in Nat, v \in Nat, o \in Nat, w \in Nat, a \in Nat, u \in Nat, l \in Nat, k \in Nat :
        /\ n = optimistic[p] /\ v = overcommit[p] /\ o = reg[c].over /\ l = tail[p]
        /\ w = Won(p) /\ a = Cardinality(At(p, "again")) /\ u = Cardinality(At(p, "undo"))
        /\ k = reg[c].count
  <2>1. optimistic[p] \in Nat /\ overcommit[p] \in Nat /\ tail[p] \in Nat /\ head[p] \in Nat
    BY DEF IInv, TypeOK, SizesTyped
  <2>2. reg[c].over \in Nat /\ reg[c].count \in Nat
    BY Constants, RegistersTyped DEF IInv, TypeOK
  <2>3. Won(p) \in Nat
    BY <2>1, Counts DEF Won
  <2> QED
    BY <2>1, <2>2, <2>3, Counts
<1>4. n = w + a + u + v /\ w <= l
  BY <1>2, <1>3 DEF ClaimsInv
<1>5. PICK there \in {"index", "undo"} : there = IF k - o < l THEN "index" ELSE "undo"
  OBVIOUS
<1>6. PICK locals : locals = [reg[c] EXCEPT !.count = 0, !.over = 0]
  OBVIOUS
<1>7. locals \in Registers /\ locals.sub = p /\ locals.item = NoItem
  <2>1. reg[c] \in Registers
    BY Constants DEF IInv, TypeOK, ThreadsTyped
  <2> QED
    BY <1>1, <1>2, <1>6, <2>1 DEF Registers
<1>8. /\ Go(c, there, locals)
      /\ UNCHANGED <<listVars, sizes, tables, entries, blocks, sources, todo>>
  BY <1>1, <1>3, <1>5, <1>6 DEF Again
<1>9. UNCHANGED <<tail, head, optimistic, overcommit, tailBlock>>
  BY <1>8 DEF sizes, blocks
<1>10. /\ pc'[c] = there /\ reg'[c] = locals
       /\ \A d \in Consumers \ {c} : pc'[d] = pc[d] /\ reg'[d] = reg[d]
  BY <1>8, <1>9, IndexLeft
<1>11. SizesTyped'
  BY <1>8, TypesKept DEF IInv, TypeOK
<1>12. ASSUME NEW q \in Producers, q # p PROVE ClaimsInv(q)'
  BY <1>1, <1>7, <1>9, <1>10, <1>12, ClaimsElsewhere
<1>13. ClaimsInv(p)'
  <2>1. /\ At(p, "again")' = At(p, "again") \ {c}
        /\ Cardinality(At(p, "again")') = a - 1
    <3>1. At(p, "again")' = At(p, "again") \ {c}
      BY <1>5, <1>10 DEF At
    <3> QED
      BY <1>2, <1>3, <3>1, Counts, FS_RemoveElement
  <2>2. ASSUME NEW d \in At(p, "again") \ {c}
        PROVE  Before(p, d)' = Before(p, d) \ {c} /\ reg'[d] = reg[d] /\ reg[d].count < n
    <3>1. \A e \in At(p, "again") \ {c} : reg'[e] = reg[e]
      BY <1>10 DEF At
    <3> QED
      BY <1>2, <1>3, <2>1, <3>1 DEF Before, ClaimsInv
  <2>3. ASSUME NEW d \in Consumers
        PROVE  SeenOver(d, p)'
    BY <1>2, <1>5, <1>9, <1>10 DEF ClaimsInv, SeenOver
  <2>4. a >= 1
    <3>1. a # 0
      BY <1>2, <1>3, Counts, FS_EmptySet
    <3> QED
      BY <3>1
  <2>5. CASE there = "index"
    <3>1. k - o < l
      BY <1>5, <2>5
    <3>2. PICK f \in Nat : f = Cardinality(Before(p, c)) /\ w + f <= l
      <4>1. PICK f \in Nat : f = Cardinality(Before(p, c))
        BY Counts
      <4>2. w + f <= l \/ w + f <= k + 1 - o
        BY <1>2, <1>3, <4>1 DEF ClaimsInv
      <4> QED
        BY <3>1, <4>1, <4>2
    <3>3. c \in Before(p, c)
      <4>1. reg[c].count <= reg[c].count
        BY <1>3
      <4> QED
        BY <1>2, <4>1 DEF Before
    <3>4. f >= 1
      <4>1. f # 0
        BY <3>2, <3>3, Counts, FS_EmptySet
      <4> QED
        BY <4>1
    <3>5. /\ At(p, "undo")' = At(p, "undo")
          /\ At(p, "index")' = At(p, "index") \cup {c} /\ c \notin At(p, "index")
      BY <1>2, <1>7, <1>10, <2>5 DEF At
    <3>6. Won(p)' = w + 1
      <4>1. Cardinality(At(p, "index")') = Cardinality(At(p, "index")) + 1
        BY <3>5, Counts, FS_AddElement
      <4>2. PICK x \in Nat, y \in Nat : x = head[p] /\ y = Cardinality(At(p, "index"))
        BY Counts DEF IInv, TypeOK, SizesTyped
      <4>3. Won(p)' = x + (y + 1) /\ w = x + y
        BY <1>3, <1>9, <4>1, <4>2 DEF Won
      <4> QED
        BY <4>3
    <3>7. ASSUME NEW d \in At(p, "again") \ {c}
          PROVE  \/ w + 1 + Cardinality(Before(p, d)') <= l
                 \/ w + 1 + Cardinality(Before(p, d)') <= reg[d].count + 1 - reg[d].over
      <4>1. PICK g \in Nat, x \in Nat, y \in Nat :
              g = Cardinality(Before(p, d)) /\ x = reg[d].count /\ y = reg[d].over
        <5>1. d \in Threads
          BY Constants DEF At
        <5> QED
          BY <5>1, Counts, RegistersTyped DEF IInv, TypeOK
      <4>2. w + g <= l \/ w + g <= x + 1 - y
        BY <1>2, <1>3, <4>1 DEF ClaimsInv
      <4>3. CASE k <= x
        <5>1. c \in Before(p, d)
          BY <1>2, <1>3, <4>1, <4>3 DEF Before
        <5>2. Cardinality(Before(p, d)') = g - 1
          BY <2>2, <4>1, <5>1, Counts, FS_RemoveElement
        <5> QED
          BY <4>1, <4>2, <5>2
      <4>4. CASE x < k
        <5>1. Before(p, d)' \subseteq Before(p, c) \ {c}
          <6>1. \A e \in At(p, "again") : reg[e].count \in Nat
            BY Constants, RegistersTyped DEF IInv, TypeOK, At
          <6>2. \A e \in Before(p, d) : e \in At(p, "again") /\ reg[e].count <= k
            BY <4>1, <4>4, <6>1 DEF Before
          <6> QED
            BY <1>3, <2>2, <6>2 DEF Before
        <5>2. Cardinality(Before(p, c) \ {c}) = f - 1 /\ IsFiniteSet(Before(p, c) \ {c})
          BY <3>2, <3>3, Counts, FS_RemoveElement
        <5>3. PICK z \in Nat : z = Cardinality(Before(p, d)') /\ z <= f - 1
          BY <5>1, <5>2, FS_Subset, FS_CardinalityType
        <5> QED
          BY <3>2, <5>3
      <4> QED
        BY <1>3, <4>1, <4>3, <4>4
    <3>8. w + 1 <= l
      BY <3>2, <3>4
    <3>9. ASSUME NEW d \in At(p, "again")'
          PROVE  /\ reg'[d].count < optimistic'[p]
                 /\ \/ Won(p)' + Cardinality(Before(p, d)') <= tail'[p]
                    \/ Won(p)' + Cardinality(Before(p, d)') <= reg'[d].count + 1 - reg'[d].over
      BY <1>3, <1>9, <2>1, <2>2, <3>6, <3>7
    <3>10. optimistic'[p] = Won(p)' + Cardinality(At(p, "again")') + Cardinality(At(p, "undo")')
                              + overcommit'[p]
      <4>1. n = (w + 1) + (a - 1) + u + v
        BY <1>4
      <4> QED
        BY <1>3, <1>9, <2>1, <3>5, <3>6, <4>1
    <3>11. Won(p)' <= tail'[p]
      BY <1>3, <1>9, <3>6, <3>8
    <3> QED
      BY <2>3, <3>9, <3>10, <3>11 DEF ClaimsInv, SeenOver
  <2>6. CASE there = "undo"
    <3>1. /\ At(p, "index")' = At(p, "index")
          /\ At(p, "undo")' = At(p, "undo") \cup {c} /\ c \notin At(p, "undo")
      BY <1>2, <1>7, <1>10, <2>6 DEF At
    <3>2. Won(p)' = w
      BY <1>3, <1>9, <3>1 DEF Won
    <3>3. Cardinality(At(p, "undo")') = u + 1
      BY <1>3, <3>1, Counts, FS_AddElement
    <3>4. ASSUME NEW d \in At(p, "again") \ {c}
          PROVE  \/ w + Cardinality(Before(p, d)') <= l
                 \/ w + Cardinality(Before(p, d)') <= reg[d].count + 1 - reg[d].over
      <4>1. PICK g \in Nat, x \in Nat, y \in Nat :
              g = Cardinality(Before(p, d)) /\ x = reg[d].count /\ y = reg[d].over
        <5>1. d \in Threads
          BY Constants DEF At
        <5> QED
          BY <5>1, Counts, RegistersTyped DEF IInv, TypeOK
      <4>2. w + g <= l \/ w + g <= x + 1 - y
        BY <1>2, <1>3, <4>1 DEF ClaimsInv
      <4>3. PICK z \in Nat : z = Cardinality(Before(p, d)') /\ z <= g
        <5>1. Before(p, d)' \subseteq Before(p, d)
          BY <2>2
        <5> QED
          BY <4>1, <5>1, Counts, FS_Subset, FS_CardinalityType
      <4> QED
        BY <1>3, <4>1, <4>2, <4>3
    <3>9. ASSUME NEW d \in At(p, "again")'
          PROVE  /\ reg'[d].count < optimistic'[p]
                 /\ \/ Won(p)' + Cardinality(Before(p, d)') <= tail'[p]
                    \/ Won(p)' + Cardinality(Before(p, d)') <= reg'[d].count + 1 - reg'[d].over
      BY <1>3, <1>9, <2>1, <2>2, <3>2, <3>4
    <3>10. optimistic'[p] = Won(p)' + Cardinality(At(p, "again")') + Cardinality(At(p, "undo")')
                              + overcommit'[p]
      <4>1. n = w + (a - 1) + (u + 1) + v
        BY <1>4
      <4> QED
        BY <1>3, <1>9, <2>1, <3>2, <3>3, <4>1
    <3>11. Won(p)' <= tail'[p]
      BY <1>3, <1>4, <1>9, <3>2
    <3> QED
      BY <2>3, <3>9, <3>10, <3>11 DEF ClaimsInv, SeenOver
  <2> QED
    BY <1>5, <2>5, <2>6
<1>14. ConsumerInv(c)'
  <2>1. pc'[c] \in Searching /\ reg'[c].item = NoItem
    BY <1>5, <1>7, <1>10 DEF Searching
  <2> QED
    BY <2>1, Searches
<1>15. SameWork(c)
  BY <1>2, <1>5, <1>10 DEF SameWork, Looking
<1>16. /\ there \in ConsumerPlaces
       /\ UNCHANGED <<listVars, tables, entries, blocks, sources, todo, tail, head>>
  BY <1>5, <1>8, <1>9 DEF ConsumerPlaces
<1>17. \A q \in Producers : ClaimsInv(q)'
  BY <1>12, <1>13
<1> QED
  BY <1>7, <1>8, <1>11, <1>14, <1>15, <1>16, <1>17, LocalStep

(* A claim that is taken back. *)
LEMMA UndoKeeps ==
  ASSUME IInv, NEW c \in Consumers, Undo(c)
  PROVE  IInv'
<1>1. PICK p \in Producers : p = reg[c].sub
  BY DEF Undo, IInv, TypeOK, ThreadsTyped
<1>2. pc[c] = "undo" /\ ClaimsInv(p) /\ c \in At(p, "undo") /\ ThreadsTyped
  BY <1>1 DEF Undo, IInv, TypeOK, Inv, At
<1>3. PICK n \in Nat, v \in Nat, w \in Nat, a \in Nat, u \in Nat :
        /\ n = optimistic[p] /\ v = overcommit[p]
        /\ w = Won(p) /\ a = Cardinality(At(p, "again")) /\ u = Cardinality(At(p, "undo"))
  <2>1. optimistic[p] \in Nat /\ overcommit[p] \in Nat /\ tail[p] \in Nat /\ head[p] \in Nat
    BY DEF IInv, TypeOK, SizesTyped
  <2>2. Won(p) \in Nat
    BY <2>1, Counts DEF Won
  <2> QED
    BY <2>1, <2>2, Counts
<1>4. n = w + a + u + v
  BY <1>2, <1>3 DEF ClaimsInv
<1>5. PICK there \in {"idle", "look"}, locals \in Registers :
        /\ Go(c, there, locals) /\ locals.item = NoItem
        /\ there = "look" => locals.sub \in Producers
  BY <1>2, OtherTried DEF Undo
<1>6. /\ UNCHANGED <<listVars, tail, head, optimistic, tables, entries, blocks, sources, todo>>
      /\ overcommit' = [overcommit EXCEPT ![p] = v + 1]
  BY <1>1, <1>3 DEF Undo
<1>7. UNCHANGED tailBlock
  BY <1>6 DEF blocks
<1>8. /\ pc'[c] = there /\ reg'[c] = locals
      /\ \A d \in Consumers \ {c} : pc'[d] = pc[d] /\ reg'[d] = reg[d]
  BY <1>5, <1>6, <1>7, IndexLeft
<1>9. overcommit'[p] = v + 1 /\ \A q \in Producers \ {p} : overcommit'[q] = overcommit[q]
  BY <1>6 DEF IInv, TypeOK, SizesTyped
<1>10. SizesTyped'
  BY <1>6 DEF IInv, TypeOK, SizesTyped
<1>11. ASSUME NEW q \in Producers, q # p PROVE ClaimsInv(q)'
  <2>1. pc'[c] \notin Claiming \cup {"check", "claim"}
    BY <1>5, <1>8 DEF Claiming
  <2> QED
    BY <1>1, <1>6, <1>8, <1>9, <1>11, <2>1, ClaimsElsewhere
<1>12. ClaimsInv(p)'
  <2>1. /\ At(p, "undo")' = At(p, "undo") \ {c} /\ At(p, "again")' = At(p, "again")
        /\ At(p, "index")' = At(p, "index") /\ c \notin At(p, "again")
    BY <1>2, <1>5, <1>8 DEF At
  <2>2. Cardinality(At(p, "undo")') = u - 1
    BY <1>2, <1>3, <2>1, Counts, FS_RemoveElement
  <2>3. Won(p)' = w
    BY <1>3, <1>6, <2>1 DEF Won
  <2>4. ASSUME NEW d \in At(p, "again")
        PROVE  /\ reg'[d].count < optimistic'[p]
               /\ \/ Won(p)' + Cardinality(Before(p, d)') <= tail'[p]
                  \/ Won(p)' + Cardinality(Before(p, d)') <= reg'[d].count + 1 - reg'[d].over
    <3>1. \A e \in At(p, "again") : reg'[e] = reg[e]
      BY <1>8, <2>1 DEF At
    <3>2. Before(p, d)' = Before(p, d)
      BY <2>1, <3>1 DEF Before
    <3> QED
      BY <1>2, <1>3, <1>6, <2>3, <3>1, <3>2 DEF ClaimsInv
  <2>5. ASSUME NEW d \in Consumers, reg'[d].sub = p, pc'[d] \in {"check", "claim", "again"}
        PROVE  reg'[d].over <= overcommit'[p]
    <3>1. d # c /\ reg'[d] = reg[d] /\ pc'[d] = pc[d]
      BY <1>5, <1>8, <2>5
    <3>2. reg[d].over <= v /\ reg[d].over \in Nat
      BY <1>2, <1>3, <2>5, <3>1, Constants, RegistersTyped DEF ClaimsInv
    <3> QED
      BY <1>9, <3>1, <3>2
  <2>6. /\ optimistic'[p] = Won(p)' + Cardinality(At(p, "again")') + Cardinality(At(p, "undo")')
                              + overcommit'[p]
        /\ Won(p)' <= tail'[p]
    <3>1. n = w + a + (u - 1) + (v + 1)
      BY <1>4
    <3>2. w <= tail[p]
      BY <1>2, <1>3 DEF ClaimsInv
    <3> QED
      BY <1>3, <1>6, <1>9, <2>1, <2>2, <2>3, <3>1, <3>2
  <2> QED
    BY <2>1, <2>4, <2>5, <2>6 DEF ClaimsInv
<1>13. ConsumerInv(c)'
  <2>1. pc'[c] \in Searching /\ reg'[c].item = NoItem
    BY <1>5, <1>8 DEF Searching
  <2> QED
    BY <2>1, Searches
<1>14. SameWork(c)
  BY <1>2, <1>5, <1>8 DEF SameWork, Looking
<1>15. there \in ConsumerPlaces /\ (there \notin {"idle", "adding"} => locals.sub \in Producers)
  BY <1>5 DEF ConsumerPlaces
<1>16. \A q \in Producers : ClaimsInv(q)'
  BY <1>11, <1>12
<1> QED
  BY <1>5, <1>6, <1>10, <1>13, <1>14, <1>15, <1>16, LocalStep

-----------------------------------------------------------------------------
(* The index that is next is given to one consumer. *)
LEMMA TakeIndexKeeps ==
  ASSUME IInv, NEW c \in Consumers, TakeIndex(c)
  PROVE  IInv'
<1>1. PICK p \in Producers : p = reg[c].sub
  BY DEF TakeIndex, IInv, TypeOK, ThreadsTyped
<1>2. pc[c] = "index" /\ ClaimsInv(p) /\ c \in At(p, "index") /\ TypeOK
  BY <1>1 DEF TakeIndex, IInv, Inv, At
<1>3. PICK i \in Nat, l \in Nat : i = head[p] /\ l = tail[p]
  BY <1>2 DEF TypeOK, SizesTyped
<1>4. PICK locals : locals = [Blank EXCEPT !.sub = p, !.index = i]
  OBVIOUS
<1>5. locals \in Registers /\ locals.sub = p /\ locals.item = NoItem /\ locals.index = i
  BY <1>1, <1>3, <1>4 DEF Blank, Registers, MaybeNode, MaybeItem
<1>6. /\ Go(c, "table", locals) /\ head' = [head EXCEPT ![p] = i + 1]
      /\ UNCHANGED <<listVars, tail, optimistic, overcommit, tables, entries, blocks, sources, todo>>
  BY <1>1, <1>3, <1>4 DEF TakeIndex
<1>7. UNCHANGED <<tailBlock, elements, dequeued>>
  BY <1>6 DEF blocks
<1>8. /\ \A q \in Producers : /\ SameView(q) /\ IndexInv(q)' /\ ProducerInv(q)'
                              /\ pc'[q] = pc[q] /\ reg'[q] = reg[q]
                              /\ \A b : Requisitioned(q, b)' <=> Requisitioned(q, b)
      /\ \A d \in Consumers \ {c} : pc'[d] = pc[d] /\ reg'[d] = reg[d] /\ SameWork(d)
      /\ pc'[c] = "table" /\ reg'[c] = locals
  BY <1>6, <1>7, IndexLeft
<1>9. head'[p] = i + 1 /\ \A q \in Producers \ {p} : head'[q] = head[q]
  BY <1>2, <1>6 DEF TypeOK, SizesTyped
<1>10. ListInv' /\ \A n : Inside(n)' <=> Inside(n)
  BY <1>6, ListKept DEF IInv
<1>11. TypeOK'
  <2>1. SizesTyped'
    BY <1>2, <1>6 DEF TypeOK, SizesTyped
  <2>2. IndexTyped' /\ BlocksTyped' /\ SourcesTyped'
    BY <1>2, <1>6, TypesKept DEF TypeOK
  <2>3. ThreadsTyped'
    BY <1>2, <1>5, <1>6, ConsumerGoes DEF TypeOK, ConsumerPlaces
  <2>4. WorkTyped'
    BY <1>2, <1>6, <1>8 DEF TypeOK, WorkTyped
  <2> QED
    BY <2>1, <2>2, <2>3, <2>4 DEF TypeOK
<1>12. PICK k \in Nat : k = Cardinality(At(p, "index")) /\ k >= 1 /\ i + k <= l
  <2>1. Cardinality(At(p, "index")) \in Nat /\ Cardinality(At(p, "index")) # 0
    BY <1>2, Counts, FS_EmptySet
  <2>2. i + Cardinality(At(p, "index")) <= l
    BY <1>2, <1>3 DEF ClaimsInv, Won
  <2> QED
    BY <2>1, <2>2
<1>13. ClaimsInv(p)'
  <2>1. /\ At(p, "index")' = At(p, "index") \ {c}
        /\ At(p, "again")' = At(p, "again") /\ At(p, "undo")' = At(p, "undo")
        /\ c \notin At(p, "again")
    BY <1>2, <1>8 DEF At
  <2>2. Cardinality(At(p, "index")') = k - 1
    BY <1>2, <1>12, <2>1, Counts, FS_RemoveElement
  <2>3. Won(p)' = i + k /\ Won(p) = i + k
    BY <1>3, <1>9, <1>12, <2>2 DEF Won
  <2>4. ASSUME NEW d \in At(p, "again")
        PROVE  Before(p, d)' = Before(p, d) /\ reg'[d] = reg[d]
    <3>1. \A e \in At(p, "again") : reg'[e] = reg[e]
      BY <1>8, <2>1 DEF At
    <3> QED
      BY <2>1, <3>1 DEF Before
  <2>5. \A d \in Consumers : reg'[d].sub = p /\ pc'[d] \in {"check", "claim", "again"}
                               => reg'[d].over <= overcommit'[p]
    BY <1>2, <1>6, <1>8 DEF ClaimsInv
  <2> QED
    BY <1>2, <1>6, <2>1, <2>3, <2>4, <2>5 DEF ClaimsInv
<1>14. ASSUME NEW q \in Producers, q # p PROVE ClaimsInv(q)'
  BY <1>1, <1>5, <1>6, <1>8, <1>9, <1>14, ClaimsElsewhere
<1>15. PICK m \in Nat : m = Number(i)
  BY InItsBlock
<1>16. First(m) \in Int /\ First(m) <= i /\ i < First(m) + BlockSize /\ m \in 0..(Linked(p) - 1)
       /\ First(m + 1) = First(m) + BlockSize /\ BlockSize \in Nat
  <2>1. i < tail[p]
    BY <1>3, <1>12
  <2>2. First(m) \in Int /\ First(m) <= i /\ i < First(m) + BlockSize
    BY <1>15, InItsBlock
  <2>3. m \in 0..(Linked(p) - 1)
    BY <1>2, <1>3, <1>15, <2>1, TailBlock
  <2>4. First(m + 1) = First(m) + BlockSize /\ BlockSize \in Nat
    BY <1>15, Blocks, Constants
  <2> QED
    BY <2>2, <2>3, <2>4
<1>17. ASSUME NEW n \in Int, n < m PROVE First(n) + BlockSize <= i /\ First(n) \in Int
  <2>1. First(n) + BlockSize <= First(m) /\ First(n) \in Int
    BY <1>15, <1>17, Blocks
  <2> QED
    BY <1>3, <1>16, <2>1
<1>18. ASSUME NEW n \in Int, m < n PROVE i + 1 <= First(n) /\ First(n) \in Int
  <2>1. First(m) + BlockSize <= First(n) /\ First(n) \in Int
    BY <1>15, <1>18, Blocks
  <2> QED
    BY <1>3, <1>16, <2>1
<1>19. /\ \A n : n # m => Emptying(p, n)' = Emptying(p, n)
       /\ Emptying(p, m)' = Emptying(p, m) \cup {c} /\ c \notin Emptying(p, m)
       /\ \A q \in Producers \ {p} : \A n : Emptying(q, n)' = Emptying(q, n)
       /\ \A d \in Consumers : \A q, n : Unlinks(d, q, n)' <=> Unlinks(d, q, n)
  <2>1. /\ \A q, n : c \notin Emptying(q, n) /\ ~Unlinks(c, q, n) /\ ~Unlinks(c, q, n)'
        /\ \A q, n : c \in Emptying(q, n)' <=> q = p /\ n = m
    BY <1>2, <1>5, <1>8, <1>15 DEF Emptying, Unlinks, InBlock, Looking
  <2>2. \A d \in Consumers \ {c} : \A q, n : /\ d \in Emptying(q, n)' <=> d \in Emptying(q, n)
                                             /\ Unlinks(d, q, n)' <=> Unlinks(d, q, n)
    BY <1>8 DEF Emptying, Unlinks, InBlock
  <2>3. \A q, n : Emptying(q, n) \subseteq Consumers /\ Emptying(q, n)' \subseteq Consumers
    BY DEF Emptying
  <2>4. \A q, n : ~(q = p /\ n = m) => Emptying(q, n)' = Emptying(q, n)
    BY <2>1, <2>2, <2>3
  <2>5. Emptying(p, m)' = Emptying(p, m) \cup {c}
    BY <2>1, <2>2, <2>3
  <2> QED
    BY <2>1, <2>2, <2>4, <2>5
<1>20. BlocksInv(p)'
  <2>1. /\ Linked(p)' = Linked(p) /\ tailBlock' = tailBlock /\ dequeued' = dequeued
        /\ \A n : Value(p, n)' = Value(p, n) /\ (Present(p, n)' <=> Present(p, n))
    BY <1>7, <1>8, ViewSame
  <2>2. BlocksInv(p) /\ Linked(p) \in Nat
    BY <1>2, NumbersTyped DEF IInv, Inv
  <2>3. Present(p, m)' /\ Counting(p, m)'
    <3>1. Present(p, m)
      BY <1>3, <1>16, <2>2 DEF BlocksInv, Gone
    <3>2. Counting(p, m)
      BY <1>16, <2>2, <3>1 DEF BlocksInv
    <3>3. Cardinality(Emptying(p, m)') = Cardinality(Emptying(p, m)) + 1
      BY <1>19, Counts, FS_AddElement
    <3>4. GivenOut(p, m)' = GivenOut(p, m) + 1 /\ GivenOut(p, m) = i - First(m)
      <4>1. GivenOut(p, m) = i - First(m)
        BY <1>3, <1>16 DEF GivenOut
      <4>2. GivenOut(p, m)' = (i + 1) - First(m)
        BY <1>9, <1>16 DEF GivenOut
      <4> QED
        BY <1>16, <4>1, <4>2
    <3>5. PICK x \in Nat, y \in Nat : x = dequeued[Value(p, m)] /\ y = Cardinality(Emptying(p, m))
      <4>1. Value(p, m) \in Nodes
        <5>1. Entry(p, m) \in DOMAIN entries[p]
          BY <1>2, <1>16, Entries
        <5>2. entries[p] \in Seq(EntryType)
          BY <1>2 DEF TypeOK, IndexTyped
        <5>3. entries[p][Entry(p, m)] \in EntryType
          BY <5>1, <5>2
        <5> QED
          BY <3>1, <5>3 DEF Value, Present, EntryType, MaybeNode
      <4> QED
        BY <1>2, <4>1, Counts DEF TypeOK, BlocksTyped
    <3>6. x + y = i - First(m)
      BY <3>2, <3>4, <3>5 DEF Counting
    <3>7. dequeued'[Value(p, m)'] = x
      BY <2>1, <3>5
    <3>8. x + (y + 1) = GivenOut(p, m)'
      BY <1>16, <3>4, <3>6
    <3> QED
      BY <1>19, <2>1, <3>1, <3>2, <3>3, <3>5, <3>7, <3>8 DEF Counting
  <2>4. ASSUME NEW n \in 0..(Linked(p) - 1), n # m
        PROVE  IF Present(p, n)' THEN Counting(p, n)' ELSE Gone(p, n)'
    <3>1. GivenOut(p, n)' = GivenOut(p, n)
      <4>1. CASE n < m
        <5>1. First(n) + BlockSize <= i /\ First(n) \in Int
          BY <1>17, <4>1
        <5>2. GivenOut(p, n) = BlockSize
          BY <1>3, <1>16, <5>1 DEF GivenOut
        <5>3. GivenOut(p, n)' = BlockSize
          BY <1>9, <1>16, <5>1 DEF GivenOut
        <5> QED
          BY <5>2, <5>3
      <4>2. CASE m < n
        <5>1. i + 1 <= First(n) /\ First(n) \in Int
          BY <1>18, <4>2
        <5>2. GivenOut(p, n) = 0
          BY <1>3, <1>16, <5>1 DEF GivenOut
        <5>3. GivenOut(p, n)' = 0
          BY <1>9, <1>16, <5>1 DEF GivenOut
        <5> QED
          BY <5>2, <5>3
      <4> QED
        BY <2>4, <4>1, <4>2
    <3>2. IF Present(p, n) THEN Counting(p, n) ELSE Gone(p, n)
      BY <2>2 DEF BlocksInv
    <3>3. CASE Present(p, n)
      <4>1. dequeued'[Value(p, n)'] = dequeued[Value(p, n)]
        BY <2>1
      <4>2. Counting(p, n)'
        BY <1>19, <2>4, <3>1, <3>2, <3>3, <4>1 DEF Counting
      <4> QED
        BY <2>1, <3>3, <4>2
    <3>4. CASE ~Present(p, n)
      <4>1. First(n + 1) <= i /\ First(n + 1) \in Int
        BY <1>3, <3>2, <3>4, Blocks DEF Gone
      <4>2. Gone(p, n)'
        BY <1>9, <1>19, <2>4, <3>2, <3>4, <4>1 DEF Gone
      <4> QED
        BY <2>1, <3>4, <4>2
    <3> QED
      BY <3>3, <3>4
  <2> QED
    BY <2>1, <2>2, <2>3, <2>4 DEF BlocksInv
<1>21. ASSUME NEW q \in Producers, q # p PROVE BlocksInv(q)'
  <2>1. /\ Linked(q)' = Linked(q) /\ tailBlock' = tailBlock /\ dequeued' = dequeued
        /\ \A n : Value(q, n)' = Value(q, n) /\ (Present(q, n)' <=> Present(q, n))
    BY <1>7, <1>8, ViewSame
  <2>2. \A n : GivenOut(q, n)' = GivenOut(q, n)
    BY <1>9, <1>21 DEF GivenOut
  <2>3. \A n : Emptying(q, n)' = Emptying(q, n)
    BY <1>19, <1>21
  <2>4. \A n : Counting(q, n) => Counting(q, n)'
    BY <1>19, <2>1, <2>2, <2>3 DEF Counting
  <2>5. \A n : Gone(q, n) => Gone(q, n)'
    BY <1>9, <1>19, <1>21, <2>3 DEF Gone
  <2> QED
    BY <2>1, <2>4, <2>5 DEF BlocksInv, IInv, Inv
<1>22. \A q \in Producers : head[q] <= head'[q] /\ head'[q] \in Nat
  BY <1>2, <1>3, <1>9 DEF TypeOK, SizesTyped
<1>23. ASSUME NEW d \in Consumers PROVE ConsumerInv(d)'
  <2>1. CASE d = c
    BY <1>3, <1>5, <1>8, <1>9, <2>1 DEF ConsumerInv
  <2>2. CASE d # c
    BY <1>8, <1>22, <2>2, ViewedConsumer
  <2> QED
    BY <2>1, <2>2
<1>24. IndicesDiffer'
  <2>1. ASSUME NEW d \in Consumers \ {c}, pc[d] \in Looking, reg[d].sub = p
        PROVE  reg[d].index # i
    BY <1>3, <2>1 DEF IInv, ConsumerInv
  <2> QED
    BY <1>5, <1>8, <2>1 DEF IInv, IndicesDiffer
<1>25. \A b \in Nodes : Placed(b)'
  BY <1>6, <1>8, <1>10, PlacedKept DEF IInv
<1> QED
  BY <1>8, <1>10, <1>11, <1>13, <1>14, <1>20, <1>21, <1>23, <1>24, <1>25 DEF IInv, Inv

(* The element is moved out. *)
LEMMA TakeElementKeeps ==
  ASSUME IInv, NEW c \in Consumers, TakeElement(c)
  PROVE  IInv'
<1>1. PICK p \in Producers : p = reg[c].sub
  BY DEF TakeElement, IInv, TypeOK, ThreadsTyped
<1>2. PICK m : m = Number(reg[c].index)
  OBVIOUS
<1>3. /\ pc[c] = "take" /\ reg[c].index \in 0..(head[p] - 1) /\ reg[c].entry = Entry(p, m)
      /\ TypeOK
  BY <1>1, <1>2 DEF TakeElement, IInv, ConsumerInv, Looking
<1>4. Value(p, m) \in Nodes /\ reg[c].index \in Nat
  BY <1>1, <1>2, <1>3, Working DEF Looking
<1>5. PICK b \in Nodes : b = entries[p][reg[c].entry].value /\ b = Value(p, m)
  BY <1>3, <1>4 DEF Value
<1>6. PICK i \in 0..(BlockSize - 1) : i = reg[c].index % BlockSize
  BY <1>4, InItsBlock
<1>7. PICK x \in MaybeItem : x = elements[b][i]
  BY <1>3 DEF TypeOK, BlocksTyped
<1>8. PICK locals : locals = [reg[c] EXCEPT !.block = b, !.item = x]
  OBVIOUS
<1>9. /\ locals \in Registers /\ locals.sub = p /\ locals.index = reg[c].index
      /\ locals.entry = reg[c].entry /\ locals.block = b /\ locals.item = x
  <2>1. reg[c] \in Registers
    BY <1>3, Constants DEF TypeOK, ThreadsTyped
  <2>2. b \in MaybeNode
    BY DEF MaybeNode
  <2> QED
    BY <1>1, <1>8, <2>1, <2>2 DEF Registers
<1>10. /\ Go(c, "empty", locals) /\ elements' = [elements EXCEPT ![b][i] = NoItem]
       /\ UNCHANGED <<listVars, sizes, tables, entries, tailBlock, dequeued, sources, todo>>
  BY <1>1, <1>5, <1>6, <1>7, <1>8 DEF TakeElement
<1>11. UNCHANGED <<head, tail>>
  BY <1>10 DEF sizes
<1>12. pc'[c] = "empty" /\ reg'[c] = locals /\ SameView(p)
  BY <1>10, <1>11, IndexLeft
<1>13. SizesTyped' /\ \A q \in Producers : ClaimsInv(q)'
  BY <1>3, <1>10, ClaimsLeft DEF Claiming
<1>14. BlocksTyped'
  <2>1. NoItem \in MaybeItem
    BY DEF MaybeItem
  <2> QED
    BY <1>3, <1>10, <2>1 DEF TypeOK, BlocksTyped
<1>15. ConsumerInv(c)'
  <2>1. Entry(p, m)' = Entry(p, m) /\ Value(p, m)' = Value(p, m)
    BY <1>12, ViewSame
  <2>2. reg'[c].sub = p /\ Number(reg'[c].index) = m
    BY <1>2, <1>9, <1>12
  <2>3. /\ Entry(reg[c].sub, Number(reg[c].index))' = Entry(p, m)
        /\ Value(reg[c].sub, Number(reg[c].index))' = Value(p, m)
    BY <2>1, <2>2 DEF Entry, Value
  <2> QED
    BY <1>3, <1>5, <1>9, <1>11, <1>12, <2>3 DEF ConsumerInv
<1>16. SameWork(c)
  BY <1>1, <1>3, <1>9, <1>12 DEF SameWork, Looking
<1> QED
  BY <1>9, <1>10, <1>11, <1>13, <1>14, <1>15, <1>16, ElementStep DEF ConsumerPlaces

(* No block is found in two places of the indices. *)
LEMMA FoundOnce ==
  ASSUME IInv, NEW p \in Producers, NEW q \in Producers, NEW m, NEW n,
         Present(p, m), Present(q, n), Value(p, m) = Value(q, n)
  PROVE  p = q /\ m = n /\ Value(p, m) \in Nodes
<1>1. TypeOK /\ m \in Window(p) /\ n \in Window(q) /\ Value(p, m) # NoNode
  BY DEF Present, IInv
<1>2. m \in Int /\ n \in Int
  BY <1>1, Entries
<1>3. Entry(p, m) \in DOMAIN entries[p] /\ Entry(q, n) \in DOMAIN entries[q]
  BY <1>1, <1>2, Entries
<1>4. Value(p, m) \in Nodes
  <2>1. entries[p] \in Seq(EntryType)
    BY <1>1 DEF TypeOK, IndexTyped
  <2>2. entries[p][Entry(p, m)] \in EntryType
    BY <1>3, <2>1
  <2> QED
    BY <1>1, <2>2 DEF Value, EntryType, MaybeNode
<1>5. PICK b \in Nodes : b = Value(p, m)
  BY <1>4
<1>6. InSub(b, p, Entry(p, m)) /\ InSub(b, q, Entry(q, n))
  BY <1>3, <1>5 DEF InSub, Value
<1>7. p = q /\ Entry(p, m) = Entry(q, n)
  BY <1>3, <1>6 DEF IInv, Placed
<1> QED
  BY <1>1, <1>4, <1>7, Entries

(* What was given out of a block is counted, but for those that have not done it. *)
LEMMA CountedOut ==
  ASSUME IInv, NEW p \in Producers, NEW m \in Int
  PROVE  GivenOut(p, m) \in 0..BlockSize
<1>1. head[p] \in Nat /\ First(m) \in Int /\ BlockSize \in Nat
  BY Blocks, Constants DEF IInv, TypeOK, SizesTyped
<1> QED
  BY <1>1 DEF GivenOut

(* The element is counted, and whoever counts the last of a block goes on to free it. *)
LEMMA SetEmptyKeeps ==
  ASSUME IInv, NEW c \in Consumers, SetEmpty(c)
  PROVE  IInv'
<1>1. PICK p \in Producers : p = reg[c].sub
  BY DEF SetEmpty, IInv, TypeOK, ThreadsTyped
<1>2. PICK m : m = Number(reg[c].index)
  OBVIOUS
<1>3. /\ pc[c] = "empty" /\ reg[c].index \in 0..(head[p] - 1) /\ reg[c].entry = Entry(p, m)
      /\ reg[c].block = Value(p, m) /\ TypeOK
  BY <1>1, <1>2 DEF SetEmpty, IInv, ConsumerInv, Looking
<1>4. /\ Value(p, m) \in Nodes /\ Present(p, m) /\ Counting(p, m) /\ m \in Nat
  BY <1>1, <1>2, <1>3, Working DEF Looking
<1>5. PICK b \in Nodes : b = Value(p, m)
  BY <1>4
<1>6. PICK x \in Nat, y \in Nat, g \in Nat :
        /\ x = dequeued[b] /\ y = Cardinality(Emptying(p, m)) /\ g = GivenOut(p, m)
        /\ x + y = g /\ g <= BlockSize
  <2>1. dequeued[b] \in Nat
    BY <1>3 DEF TypeOK, BlocksTyped
  <2>2. GivenOut(p, m) \in 0..BlockSize
    BY <1>4, CountedOut
  <2> QED
    BY <1>4, <1>5, <2>1, <2>2, Counts, Constants DEF Counting
<1>7. c \in Emptying(p, m) /\ y >= 1
  <2>1. c \in Emptying(p, m)
    BY <1>1, <1>2, <1>3 DEF Emptying, InBlock, Looking
  <2>2. y # 0
    BY <1>6, <2>1, Counts, FS_EmptySet
  <2> QED
    BY <2>1, <2>2
<1>8. x <= BlockSize - 1 /\ x # BlockSize /\ BlockSize \in Nat
  BY <1>6, <1>7, Constants
<1>9. \A d \in Consumers : ~Unlinks(d, p, m)
  BY <1>4, <1>5, <1>6, <1>8 DEF Counting
<1>10. PICK there \in {"unlink", "idle"}, locals \in Registers :
         /\ there = IF x = BlockSize - 1 THEN "unlink" ELSE "idle"
         /\ locals = IF x = BlockSize - 1 THEN reg[c] ELSE Blank
  BY <1>3, Constants, RegistersTyped DEF TypeOK
<1>11. /\ Go(c, there, locals) /\ dequeued' = [dequeued EXCEPT ![b] = x + 1]
       /\ UNCHANGED <<listVars, sizes, tables, entries, tailBlock, elements, sources, todo>>
  BY <1>3, <1>5, <1>6, <1>10 DEF SetEmpty, Then
<1>12. UNCHANGED <<head, tail>>
  BY <1>11 DEF sizes
<1>13. /\ \A q \in Producers : /\ SameView(q) /\ IndexInv(q)' /\ ProducerInv(q)'
                               /\ pc'[q] = pc[q] /\ reg'[q] = reg[q]
                               /\ \A n : Requisitioned(q, n)' <=> Requisitioned(q, n)
       /\ \A d \in Consumers \ {c} : pc'[d] = pc[d] /\ reg'[d] = reg[d] /\ SameWork(d)
       /\ pc'[c] = there /\ reg'[c] = locals
  BY <1>11, <1>12, IndexLeft
<1>14. SizesTyped' /\ \A q \in Producers : ClaimsInv(q)'
  BY <1>3, <1>10, <1>11, ClaimsLeft DEF Claiming
<1>15. ListInv' /\ \A n : Inside(n)' <=> Inside(n)
  BY <1>11, ListKept DEF IInv
<1>16. /\ dequeued'[b] = x + 1 /\ dequeued' \in [Nodes -> Nat]
       /\ \A n \in Nodes \ {b} : dequeued'[n] = dequeued[n]
  BY <1>3, <1>11 DEF TypeOK, BlocksTyped
<1>17. TypeOK'
  <2>1. IndexTyped' /\ SourcesTyped'
    BY <1>3, <1>11, TypesKept DEF TypeOK
  <2>2. ThreadsTyped'
    <3>1. there \in ConsumerPlaces /\ (there \notin {"idle", "adding"} => locals.sub \in Producers)
      BY <1>1, <1>10 DEF ConsumerPlaces
    <3> QED
      BY <1>3, <1>11, <3>1, ConsumerGoes DEF TypeOK
  <2>3. WorkTyped'
    BY <1>3, <1>11, <1>13 DEF TypeOK, WorkTyped
  <2>4. BlocksTyped'
    BY <1>3, <1>11, <1>16 DEF TypeOK, BlocksTyped
  <2> QED
    BY <1>14, <2>1, <2>2, <2>3, <2>4 DEF TypeOK
<1>18. /\ Emptying(p, m)' = Emptying(p, m) \ {c}
       /\ \A q, n : ~(q = p /\ n = m) => Emptying(q, n)' = Emptying(q, n)
       /\ \A d \in Consumers \ {c} : \A q, n : Unlinks(d, q, n)' <=> Unlinks(d, q, n)
       /\ \A q, n : /\ ~Unlinks(c, q, n)
                    /\ Unlinks(c, q, n)' <=> x = BlockSize - 1 /\ q = p /\ n = m
  <2>1. \A q, n : /\ c \in Emptying(q, n) <=> q = p /\ n = m
                  /\ c \notin Emptying(q, n)' /\ ~Unlinks(c, q, n)
    BY <1>1, <1>2, <1>3, <1>10, <1>13 DEF Emptying, Unlinks, InBlock, Looking
  <2>2. \A d \in Consumers \ {c} : \A q, n : /\ d \in Emptying(q, n)' <=> d \in Emptying(q, n)
                                             /\ Unlinks(d, q, n)' <=> Unlinks(d, q, n)
    BY <1>13 DEF Emptying, Unlinks, InBlock
  <2>3. \A q, n : Unlinks(c, q, n)' <=> x = BlockSize - 1 /\ q = p /\ n = m
    BY <1>1, <1>2, <1>10, <1>13 DEF Unlinks, InBlock
  <2>4. \A q, n : Emptying(q, n) \subseteq Consumers /\ Emptying(q, n)' \subseteq Consumers
    BY DEF Emptying
  <2>5. \A q, n : ~(q = p /\ n = m) => Emptying(q, n)' = Emptying(q, n)
    BY <2>1, <2>2, <2>4
  <2>6. Emptying(p, m)' = Emptying(p, m) \ {c}
    BY <2>1, <2>2, <2>4
  <2> QED
    BY <2>1, <2>2, <2>3, <2>5, <2>6
<1>19. Counting(p, m)'
  <2>1. Value(p, m)' = b
    BY <1>5, <1>13, ViewSame
  <2>2. Cardinality(Emptying(p, m)') = y - 1
    <3>1. PICK S : S = Emptying(p, m) /\ IsFiniteSet(S) /\ c \in S
      BY <1>7, Counts
    <3>2. Cardinality(S \ {c}) = Cardinality(S) - 1
      BY <3>1, FS_RemoveElement
    <3>3. Emptying(p, m)' = S \ {c}
      BY <1>18, <3>1
    <3> QED
      BY <1>6, <3>1, <3>2, <3>3
  <2>3. GivenOut(p, m)' = g
    BY <1>6, <1>12 DEF GivenOut
  <2>4. (x + 1) + (y - 1) = g
    BY <1>6
  <2>5. x + 1 = BlockSize <=> x = BlockSize - 1
    BY <1>8
  <2>6. \A d \in Consumers : Unlinks(d, p, m)' <=> d = c /\ x = BlockSize - 1
    BY <1>9, <1>18
  <2> QED
    BY <1>16, <2>1, <2>2, <2>3, <2>4, <2>5, <2>6 DEF Counting
<1>20. ASSUME NEW q \in Producers PROVE BlocksInv(q)'
  <2>1. /\ Linked(q)' = Linked(q) /\ tailBlock' = tailBlock
        /\ \A n : Value(q, n)' = Value(q, n) /\ (Present(q, n)' <=> Present(q, n))
    BY <1>11, <1>13, ViewSame
  <2>2. BlocksInv(q)
    BY DEF IInv, Inv
  <2>3. ASSUME NEW n \in 0..(Linked(q) - 1), ~(q = p /\ n = m)
        PROVE  IF Present(q, n)' THEN Counting(q, n)' ELSE Gone(q, n)'
    <3>1. IF Present(q, n) THEN Counting(q, n) ELSE Gone(q, n)
      BY <2>2 DEF BlocksInv
    <3>2. GivenOut(q, n)' = GivenOut(q, n) /\ Emptying(q, n)' = Emptying(q, n)
      BY <1>12, <1>18, <2>3 DEF GivenOut
    <3>3. \A d \in Consumers : Unlinks(d, q, n)' <=> Unlinks(d, q, n)
      BY <1>18, <2>3
    <3>4. CASE Present(q, n)
      <4>1. Value(q, n) \in Nodes \ {b}
        BY <1>4, <1>5, <2>3, <3>4, FoundOnce
      <4>2. dequeued'[Value(q, n)'] = dequeued[Value(q, n)]
        BY <1>16, <2>1, <4>1
      <4> QED
        BY <2>1, <3>1, <3>2, <3>3, <3>4, <4>2 DEF Counting
    <3>5. CASE ~Present(q, n)
      BY <1>12, <2>1, <3>1, <3>2, <3>3, <3>5 DEF Gone
    <3> QED
      BY <3>4, <3>5
  <2>4. \A n \in 0..(Linked(q) - 1) : IF Present(q, n)' THEN Counting(q, n)' ELSE Gone(q, n)'
    BY <1>4, <1>19, <2>1, <2>3
  <2> QED
    BY <2>1, <2>2, <2>4 DEF BlocksInv
<1>21. ASSUME NEW d \in Consumers PROVE ConsumerInv(d)'
  <2>1. CASE d # c
    <3>1. \A q \in Producers : head[q] <= head'[q] /\ head'[q] \in Nat
      BY <1>3, <1>12 DEF TypeOK, SizesTyped
    <3> QED
      BY <1>13, <2>1, <3>1, ViewedConsumer
  <2>2. CASE d = c /\ x = BlockSize - 1
    <3>1. Entry(p, m)' = Entry(p, m) /\ Value(p, m)' = Value(p, m)
      BY <1>13, ViewSame
    <3>2. reg'[c] = reg[c] /\ pc'[c] = "unlink"
      BY <1>10, <1>13, <2>2
    <3>3. /\ Entry(reg[c].sub, Number(reg[c].index))' = Entry(p, m)
          /\ Value(reg[c].sub, Number(reg[c].index))' = Value(p, m)
      BY <1>1, <1>2, <3>1, <3>2 DEF Entry, Value
    <3> QED
      BY <1>1, <1>3, <1>12, <2>2, <3>2, <3>3 DEF ConsumerInv, Looking
  <2>3. CASE d = c /\ x # BlockSize - 1
    <3>1. pc'[c] \in Searching /\ reg'[c].item = NoItem
      BY <1>10, <1>13, <2>3, BlankTyped DEF Searching
    <3> QED
      BY <2>3, <3>1, Searches
  <2> QED
    BY <2>1, <2>2, <2>3
<1>22. IndicesDiffer'
  <2>1. pc'[c] \notin Looking
    BY <1>10, <1>13 DEF Looking
  <2> QED
    BY <1>13, <2>1 DEF IndicesDiffer, IInv
<1>23. \A n \in Nodes : Placed(n)'
  BY <1>11, <1>13, <1>15, PlacedKept DEF IInv
<1> QED
  BY <1>13, <1>14, <1>15, <1>17, <1>20, <1>21, <1>22, <1>23 DEF IInv, Inv

(* Other entries, as many as before: the index has its type still. *)
LEMMA EntriesTyped ==
  ASSUME TypeOK, tables' = tables, entries' \in [Producers -> Seq(EntryType)],
         \A q \in Producers : Len(entries'[q]) = Len(entries[q])
  PROVE  IndexTyped'
<1>1. tables \in [Producers -> Seq(TableType)] /\ \A q \in Producers : TablesOK(q)
  BY DEF TypeOK, IndexTyped
<1>2. \A q \in Producers : TablesOK(q)'
  BY <1>1 DEF TablesOK, TableOK, Table, Capacity
<1> QED
  BY <1>1, <1>2 DEF IndexTyped

(* An entry's value is stored, and nothing else. *)
LEMMA ValueStored ==
  ASSUME TypeOK, NEW p \in Producers, NEW e \in DOMAIN entries[p], NEW x \in MaybeNode,
         entries' = [entries EXCEPT ![p][e].value = x], tables' = tables
  PROVE  /\ IndexTyped' /\ entries'[p][e] = [key |-> entries[p][e].key, value |-> x]
         /\ DOMAIN entries'[p] = DOMAIN entries[p]
         /\ \A f \in DOMAIN entries[p] \ {e} : entries'[p][f] = entries[p][f]
         /\ \A q \in Producers \ {p} : entries'[q] = entries[q]
<1>1. entries \in [Producers -> Seq(EntryType)] /\ entries[p] \in Seq(EntryType)
  BY DEF TypeOK, IndexTyped
<1>2. entries[p][e] \in EntryType
  BY <1>1
<1>3. PICK r : r = [key |-> entries[p][e].key, value |-> x]
  OBVIOUS
<1>4. r \in EntryType
  BY <1>2, <1>3 DEF EntryType
<1>5. [entries[p][e] EXCEPT !.value = x] = r
  BY <1>2, <1>3 DEF EntryType
<1>6. PICK s : s = [entries[p] EXCEPT ![e] = r]
  OBVIOUS
<1>7. entries' = [entries EXCEPT ![p] = s]
  BY <1>5, <1>6
<1>8. /\ s \in Seq(EntryType) /\ Len(s) = Len(entries[p]) /\ DOMAIN s = DOMAIN entries[p]
      /\ s[e] = r /\ \A f \in DOMAIN entries[p] \ {e} : s[f] = entries[p][f]
  BY <1>1, <1>4, <1>6
<1>9. /\ entries'[p] = s /\ \A q \in Producers \ {p} : entries'[q] = entries[q]
      /\ entries' \in [Producers -> Seq(EntryType)]
  BY <1>1, <1>7, <1>8
<1>10. IndexTyped'
  BY <1>8, <1>9, EntriesTyped
<1> QED
  BY <1>3, <1>8, <1>9, <1>10

(* The block is taken out of the index, and handed to the free list. *)
LEMMA UnlinkKeeps ==
  ASSUME IInv, NEW c \in Consumers, Unlink(c)
  PROVE  IInv'
<1>1. PICK p \in Producers : p = reg[c].sub
  BY DEF Unlink, IInv, TypeOK, ThreadsTyped
<1>2. PICK m : m = Number(reg[c].index)
  OBVIOUS
<1>3. /\ pc[c] = "unlink" /\ reg[c].index \in 0..(head[p] - 1) /\ reg[c].entry = Entry(p, m)
      /\ reg[c].block = Value(p, m) /\ TypeOK
  BY <1>1, <1>2 DEF Unlink, IInv, ConsumerInv
<1>4. /\ Value(p, m) \in Nodes /\ Present(p, m) /\ Counting(p, m) /\ m \in Nat
      /\ m \in Window(p) /\ Entry(p, m) \in DOMAIN entries[p]
  BY <1>1, <1>2, <1>3, Working
<1>5. PICK b \in Nodes, e \in DOMAIN entries[p] : b = Value(p, m) /\ e = Entry(p, m)
  BY <1>4
<1>6. b = entries[p][e].value /\ b # NoNode
  BY <1>5, ListAssumption DEF Value
<1>7. /\ \A d \in Consumers : Unlinks(d, p, m) <=> d = c
      /\ Emptying(p, m) = {} /\ First(m + 1) <= head[p]
  <2>1. Unlinks(c, p, m)
    BY <1>1, <1>2, <1>3 DEF Unlinks, InBlock
  <2>2. dequeued[b] = BlockSize /\ \A d \in Consumers : Unlinks(d, p, m) <=> d = c
    BY <1>4, <1>5, <2>1 DEF Counting
  <2>3. PICK y \in Nat, g \in 0..BlockSize :
          y = Cardinality(Emptying(p, m)) /\ g = GivenOut(p, m) /\ BlockSize + y = g
    BY <1>4, <1>5, <2>2, Counts, CountedOut DEF Counting
  <2>4. y = 0 /\ g = BlockSize
    BY <2>3, Constants
  <2>5. Emptying(p, m) = {}
    BY <2>3, <2>4, Counts, FS_EmptySet
  <2>6. head[p] - First(m) >= BlockSize
    <3>1. head[p] \in Nat /\ First(m) \in Int /\ BlockSize \in Nat /\ BlockSize >= 2
      BY <1>3, <1>4, Blocks, Constants DEF TypeOK, SizesTyped
    <3> QED
      BY <2>3, <2>4, <3>1 DEF GivenOut
  <2>7. First(m + 1) <= head[p]
    <3>1. First(m + 1) = First(m) + BlockSize /\ First(m) \in Int
      BY <1>4, Blocks
    <3> QED
      BY <1>3, <2>6, <3>1, Constants DEF TypeOK, SizesTyped
  <2> QED
    BY <2>2, <2>5, <2>7
<1>8. /\ entries' = [entries EXCEPT ![p][e].value = NoNode] /\ CallAdd(c, b)
      /\ Go(c, "adding", reg[c])
      /\ UNCHANGED <<listHead, refs, next, sizes, tables, blocks, sources, todo>>
  BY <1>1, <1>3, <1>5 DEF Unlink, Then
<1>9. UNCHANGED <<head, tail, tables, tailBlock, dequeued>>
  BY <1>8 DEF sizes, blocks
<1>10. /\ pc'[c] = "adding" /\ reg'[c] = reg[c]
       /\ \A t \in Threads \ {c} : pc'[t] = pc[t] /\ reg'[t] = reg[t]
  BY <1>3, <1>8, Constants, GoEffect DEF TypeOK
<1>11. /\ \A q \in Producers : pc'[q] = pc[q] /\ reg'[q] = reg[q]
       /\ \A d \in Consumers \ {c} : pc'[d] = pc[d] /\ reg'[d] = reg[d]
  BY <1>10, Constants
<1>12. /\ IndexTyped' /\ entries'[p][e] = [key |-> entries[p][e].key, value |-> NoNode]
       /\ DOMAIN entries'[p] = DOMAIN entries[p]
       /\ \A f \in DOMAIN entries[p] \ {e} : entries'[p][f] = entries[p][f]
       /\ \A q \in Producers \ {p} : entries'[q] = entries[q]
  <2>1. NoNode \in MaybeNode
    BY DEF MaybeNode
  <2>2. tables' = tables
    BY <1>9
  <2> QED
    BY <1>3, <1>8, <2>1, <2>2, ValueStored
<1>13. ASSUME NEW q \in Producers
       PROVE  /\ Turning(q)' = Turning(q) /\ Linked(q)' = Linked(q) /\ Top(q)' = Top(q)
              /\ Window(q)' = Window(q) /\ \A n : Entry(q, n)' = Entry(q, n)
  <2>1. Turning(q)' = Turning(q)
    BY <1>11 DEF Turning
  <2>2. Linked(q)' = Linked(q)
    BY <1>9, <1>11 DEF Linked
  <2>3. Top(q)' = Top(q)
    BY <2>1, <2>2 DEF Top
  <2>4. SameIndex(q)
    BY <1>9, <2>2, <2>3 DEF SameIndex
  <2> QED
    BY <2>1, <2>2, <2>3, <2>4, IndexSame
<1>14. ASSUME NEW q \in Producers, NEW n \in Int
       PROVE  /\ Key(q, n)' = Key(q, n)
              /\ ~(q = p /\ Entry(p, n) = e) => Value(q, n)' = Value(q, n)
              /\ q = p /\ Entry(p, n) = e => Value(q, n)' = NoNode
  <2>1. Entry(q, n)' = Entry(q, n)
    BY <1>13
  <2>2. Entry(p, n) \in DOMAIN entries[p]
    BY <1>3, Entries
  <2> QED
    BY <1>12, <2>1, <2>2 DEF Key, Value
<1>15. ASSUME NEW q \in Producers, NEW n \in Window(q)
       PROVE  /\ n \in Int
              /\ ~(q = p /\ n = m) => Value(q, n)' = Value(q, n)
              /\ q = p /\ n = m => Value(q, n)' = NoNode
  <2>1. n \in Int
    BY <1>3, Entries
  <2>2. q = p => (Entry(p, n) = e <=> n = m)
    BY <1>3, <1>4, <1>5, Entries
  <2> QED
    BY <1>14, <2>1, <2>2
<1>16. ASSUME NEW q \in Producers, NEW n
       PROVE  Present(q, n)' <=> Present(q, n) /\ ~(q = p /\ n = m)
  <2>1. Window(q)' = Window(q)
    BY <1>13
  <2>2. CASE n \in Window(q)
    BY <1>15, <2>1, <2>2 DEF Present
  <2>3. CASE n \notin Window(q)
    BY <2>1, <2>3 DEF Present
  <2> QED
    BY <2>2, <2>3
<1>17. ListInv' /\ \A n \in Nodes : Inside(n)' <=> Inside(n) \/ n = b
  <2>1. InSub(b, p, e)
    BY <1>6 DEF InSub
  <2>2. ~Inside(b)
    BY <2>1 DEF IInv, Placed
  <2> QED
    BY <1>8, <2>2, Constants, CallAddKeeps DEF IInv
<1>18. SizesTyped' /\ \A q \in Producers : ClaimsInv(q)'
  BY <1>3, <1>8, ClaimsLeft DEF Claiming
<1>19. TypeOK'
  <2>1. BlocksTyped' /\ SourcesTyped'
    BY <1>3, <1>8, TypesKept DEF TypeOK
  <2>2. ThreadsTyped'
    BY <1>3, <1>8, Constants, RegistersTyped, ConsumerGoes DEF TypeOK, ConsumerPlaces
  <2>3. WorkTyped'
    BY <1>3, <1>8, <1>11 DEF TypeOK, WorkTyped
  <2> QED
    BY <1>12, <1>18, <2>1, <2>2, <2>3 DEF TypeOK
<1>20. ASSUME NEW q \in Producers PROVE IndexInv(q)'
  <2>1. IndexInv(q) /\ Top(q) \in Int
    BY <1>3, NumbersTyped DEF IInv, Inv
  <2>2. ASSUME NEW n \in Window(q), Value(q, n)' # NoNode PROVE n >= 0 /\ Key(q, n)' = First(n)
    BY <1>14, <1>15, <2>1, <2>2 DEF IndexInv
  <2> QED
    BY <1>13, <1>14, <2>1, <2>2 DEF IndexInv
<1>21. ASSUME NEW q \in Producers PROVE ProducerInv(q)'
  <2>1. ProducerInv(q) /\ Top(q) \in Int /\ Top(q) + 1 \in Int
    BY <1>3, NumbersTyped DEF IInv, Inv
  <2>2. CASE q # p
    <3>1. Untouched(q)
      BY <1>9, <1>11, <1>12, <2>2 DEF Untouched
    <3> QED
      BY <2>1, <3>1, ProducerKept
  <2>3. CASE q = p
    <3>1. ASSUME pc[p] \in {"turn", "drop"}
          PROVE  /\ entries'[p][reg[p].entry].value = NoNode
                    \/ entries[p][reg[p].entry].value # NoNode
                 /\ entries'[p][reg[p].entry].key = entries[p][reg[p].entry].key
                 /\ entries[p][reg[p].entry].value = NoNode
                      => entries'[p][reg[p].entry] = entries[p][reg[p].entry]
      <4>1. reg[p].entry \in DOMAIN entries[p]
        BY <1>3, <2>1, <2>3, <3>1, Entries DEF ProducerInv
      <4>2. entries[p][e].value # NoNode
        BY <1>6
      <4> QED
        BY <1>12, <4>1, <4>2
    <3>2. PICK k \in Int : k = Top(p)
      BY <2>1, <2>3
    <3>3. Turning(p) => Entry(p, k) # e /\ Value(p, k) = NoNode
      BY <1>6, <2>1, <2>3, <3>2 DEF ProducerInv, Value
    <3>4. Turning(p) => Value(p, k)' = NoNode
      BY <1>14, <3>3
    <3>5. tail' = tail /\ pc'[p] = pc[p] /\ reg'[p] = reg[p] /\ Top(p)' = k
          /\ Turning(p)' = Turning(p) /\ \A n : Entry(p, n)' = Entry(p, n)
      BY <1>9, <1>11, <1>13, <3>2
    <3> QED
      BY <2>1, <2>3, <3>1, <3>2, <3>4, <3>5 DEF ProducerInv
  <2> QED
    BY <2>2, <2>3
<1>22. /\ \A q, n : Emptying(q, n)' = Emptying(q, n)
       /\ \A d \in Consumers \ {c} : \A q, n : Unlinks(d, q, n)' <=> Unlinks(d, q, n)
       /\ \A q, n : ~Unlinks(c, q, n)' /\ (Unlinks(c, q, n) <=> q = p /\ n = m)
  <2>1. \A q, n : c \notin Emptying(q, n) /\ c \notin Emptying(q, n)' /\ ~Unlinks(c, q, n)'
    BY <1>3, <1>10 DEF Emptying, Unlinks, Looking
  <2>2. \A d \in Consumers \ {c} : \A q, n : /\ d \in Emptying(q, n)' <=> d \in Emptying(q, n)
                                             /\ Unlinks(d, q, n)' <=> Unlinks(d, q, n)
    BY <1>11 DEF Emptying, Unlinks, InBlock
  <2>3. \A q, n : Emptying(q, n) \subseteq Consumers /\ Emptying(q, n)' \subseteq Consumers
    BY DEF Emptying
  <2>4. \A q, n : Unlinks(c, q, n) <=> q = p /\ n = m
    BY <1>1, <1>2, <1>3 DEF Unlinks, InBlock
  <2>5. \A q, n : Emptying(q, n)' = Emptying(q, n)
    BY <2>1, <2>2, <2>3
  <2> QED
    BY <2>1, <2>2, <2>4, <2>5
<1>23. ASSUME NEW q \in Producers PROVE BlocksInv(q)'
  <2>1. BlocksInv(q)
    BY DEF IInv, Inv
  <2>2. ASSUME NEW n \in 0..(Linked(q) - 1)
        PROVE  IF Present(q, n)' THEN Counting(q, n)' ELSE Gone(q, n)'
    <3>1. IF Present(q, n) THEN Counting(q, n) ELSE Gone(q, n)
      BY <2>1 DEF BlocksInv
    <3>2. GivenOut(q, n)' = GivenOut(q, n) /\ Emptying(q, n)' = Emptying(q, n)
      BY <1>9, <1>22 DEF GivenOut
    <3>3. CASE q = p /\ n = m
      <4>1. ~Present(q, n)'
        BY <1>16, <3>3
      <4>2. Gone(p, m)'
        BY <1>7, <1>9, <1>22 DEF Gone
      <4> QED
        BY <3>3, <4>1, <4>2
    <3>4. CASE ~(q = p /\ n = m)
      <4>1. \A d \in Consumers : Unlinks(d, q, n)' <=> Unlinks(d, q, n)
        BY <1>22, <3>4
      <4>2. CASE Present(q, n)
        <5>1. Value(q, n)' = Value(q, n)
          BY <1>15, <3>4, <4>2 DEF Present
        <5>2. Counting(q, n)'
          BY <1>9, <3>1, <3>2, <4>1, <4>2, <5>1 DEF Counting
        <5> QED
          BY <1>16, <3>4, <4>2, <5>2
      <4>3. CASE ~Present(q, n)
        <5>1. Gone(q, n)'
          BY <1>9, <3>1, <3>2, <4>1, <4>3 DEF Gone
        <5> QED
          BY <1>16, <4>3, <5>1
      <4> QED
        BY <4>2, <4>3
    <3> QED
      BY <3>3, <3>4
  <2>3. PICK k : k = Linked(q) - 1
    OBVIOUS
  <2>4. ASSUME Linked(q) > 0, Present(q, k)' PROVE tailBlock[q] = Value(q, k)'
    <3>1. Present(q, k) /\ ~(q = p /\ k = m)
      BY <1>16, <2>4
    <3>2. Value(q, k)' = Value(q, k)
      BY <1>15, <3>1 DEF Present
    <3> QED
      BY <2>1, <2>3, <2>4, <3>1, <3>2 DEF BlocksInv
  <2>5. PICK n : n = Linked(q)
    OBVIOUS
  <2>6. Linked(q)' = n /\ tailBlock' = tailBlock /\ k = n - 1
    BY <1>9, <1>13, <2>3, <2>5
  <2> QED
    BY <2>1, <2>2, <2>4, <2>5, <2>6 DEF BlocksInv
<1>24. ASSUME NEW d \in Consumers PROVE ConsumerInv(d)'
  <2>1. CASE d = c
    BY <1>10, <2>1 DEF ConsumerInv, Looking
  <2>2. CASE d # c
    <3>1. pc'[d] = pc[d] /\ reg'[d] = reg[d]
      BY <1>11, <2>2
    <3>2. ASSUME pc[d] \in Looking \cup {"unlink"}, NEW q, q = reg[d].sub,
                 NEW n, n = Number(reg[d].index)
          PROVE  /\ head[q] <= head'[q] /\ head[q] \in Nat /\ head'[q] \in Nat
                 /\ Linked(q)' \in Int /\ Stays(q, n)
                 /\ DOMAIN tables'[q] = DOMAIN tables[q] /\ Len(tables'[q]) = Len(tables[q])
                 /\ \A h \in DOMAIN tables[q] :
                      /\ tables'[q][h].index = tables[q][h].index
                      /\ h # Len(tables[q]) => tables'[q][h].tail = tables[q][h].tail
                 /\ pc[d] \in {"empty", "unlink"} => Value(q, n)' = Value(q, n)
      <4>1. q \in Producers /\ n \in Nat /\ n \in Window(q)
        BY <3>2, Working
      <4>2. ~(q = p /\ n = m)
        <5>1. d \in Emptying(q, n) \/ Unlinks(d, q, n)
          BY <3>2 DEF Emptying, Unlinks, InBlock
        <5> QED
          BY <1>7, <2>2, <5>1
      <4>3. Value(q, n)' = Value(q, n)
        BY <1>15, <4>1, <4>2
      <4>4. Linked(q) \in Nat /\ Linked(q)' = Linked(q) /\ \A k : Entry(q, k)' = Entry(q, k)
        BY <1>3, <1>13, <4>1, NumbersTyped
      <4>5. \A k \in n..Linked(q) : Key(q, k)' = Key(q, k)
        BY <1>14, <4>1, <4>4
      <4>6. Stays(q, n)
        BY <4>4, <4>5 DEF Stays
      <4> QED
        BY <1>3, <1>9, <4>1, <4>3, <4>4, <4>6 DEF TypeOK, SizesTyped
    <3>3. ConsumerInv(d)
      BY DEF IInv
    <3> QED
      BY <1>3, <3>1, <3>2, <3>3, ConsumerKept
  <2> QED
    BY <2>1, <2>2
<1>25. IndicesDiffer'
  <2>1. pc'[c] \notin Looking
    BY <1>10 DEF Looking
  <2> QED
    BY <1>11, <2>1 DEF IndicesDiffer, IInv
<1>26. ASSUME NEW n \in Nodes PROVE Placed(n)'
  <2>1. /\ InPool(n)' <=> InPool(n)
        /\ Made' = Made /\ \A q \in Producers : Requisitioned(q, n)' <=> Requisitioned(q, n)
    BY <1>8, <1>11 DEF InPool, Made, sources, Requisitioned
  <2>2. Placed(n)
    BY DEF IInv
  <2>3. /\ \A q \in Producers : DOMAIN entries'[q] = DOMAIN entries[q]
        /\ \A q \in Producers : \A f \in DOMAIN entries[q] :
             InSub(n, q, f)' <=> InSub(n, q, f) /\ ~(q = p /\ f = e)
    <3>1. n # NoNode
      BY ListAssumption
    <3>2. ASSUME NEW q \in Producers, q # p
          PROVE  DOMAIN entries'[q] = DOMAIN entries[q] /\ \A f : InSub(n, q, f)' <=> InSub(n, q, f)
      BY <1>12, <3>2 DEF InSub
    <3>3. ASSUME NEW f \in DOMAIN entries[p]
          PROVE  InSub(n, p, f)' <=> InSub(n, p, f) /\ f # e
      BY <1>12, <3>1 DEF InSub
    <3> QED
      BY <1>12, <3>2, <3>3
  <2>4. CASE n = b
    <3>1. InSub(b, p, e)
      BY <1>6 DEF InSub
    <3>2. /\ ~InPool(b) /\ b \in 1..Made /\ ~Inside(b)
          /\ \A q \in Producers : ~Requisitioned(q, b)
          /\ \A q \in Producers : \A f \in DOMAIN entries[q] : InSub(b, q, f) => p = q /\ e = f
      BY <2>2, <2>4, <3>1 DEF Placed
    <3>3. Inside(b)'
      BY <1>17
    <3>4. \A q \in Producers : \A f \in DOMAIN entries'[q] : ~InSub(b, q, f)'
      BY <2>3, <2>4, <3>2
    <3> QED
      BY <2>1, <2>4, <3>2, <3>3, <3>4 DEF Placed
  <2>5. CASE n # b
    <3>1. Inside(n)' <=> Inside(n)
      BY <1>17, <2>5
    <3>2. \A q \in Producers : \A f \in DOMAIN entries[q] : InSub(n, q, f)' <=> InSub(n, q, f)
      BY <1>6, <2>3, <2>5 DEF InSub
    <3> QED
      BY <2>1, <2>2, <2>3, <3>1, <3>2 DEF Placed
  <2> QED
    BY <2>4, <2>5
<1> QED
  BY <1>17, <1>18, <1>19, <1>20, <1>21, <1>23, <1>24, <1>25, <1>26 DEF IInv, Inv
=============================================================================
