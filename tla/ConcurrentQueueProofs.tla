----------------------- MODULE ConcurrentQueueProofs ------------------------
(* Theorems about the metric queue, for any number of threads and blocks, blocks
   and indices of any size: the steps of a producer keep the invariant, too; every
   block is in one place, and is released once; and the queue implements
   MetricQueue.                                                                 *)
EXTENDS ConcurrentQueueLemmas

-----------------------------------------------------------------------------
(* A step of a producer, to which the others are as they were: what is left to
   show is what it does to its own sub-queue and to the places of the blocks.   *)
LEMMA ProducerStep ==
  ASSUME IInv, NEW p \in Producers, NEW there \in ProducerPlaces, NEW locals \in Registers,
         Go(p, there, locals),
         \A q \in Producers \ {p} : /\ tables'[q] = tables[q] /\ entries'[q] = entries[q]
                                    /\ tail'[q] = tail[q] /\ tailBlock'[q] = tailBlock[q],
         UNCHANGED <<head, optimistic, overcommit>>,
         tail' \in [Producers -> Nat], tail[p] <= tail'[p],
         IndexTyped', BlocksTyped', SourcesTyped', WorkTyped', ListInv',
         IndexInv(p)', ProducerInv(p)', BlocksInv(p)',
         \A q \in Producers \ {p} : \A m \in 0..(Linked(q) - 1) :
           Present(q, m) => dequeued'[Value(q, m)] = dequeued[Value(q, m)],
         \A c \in Consumers :
           reg[c].sub = p /\ pc[c] \in Looking \cup {"unlink"} => ConsumerInv(c)',
         \A n \in Nodes : Placed(n)'
  PROVE  IInv'
<1>1. TypeOK /\ p \in Threads /\ p \notin Consumers
  BY Constants DEF IInv
<1>2. /\ ThreadsTyped'
      /\ \A c \in Consumers : pc'[c] = pc[c] /\ reg'[c] = reg[c]
      /\ \A q \in Producers \ {p} : pc'[q] = pc[q] /\ reg'[q] = reg[q]
  BY <1>1, Constants, GoEffect, ProducerGoes DEF TypeOK
<1>3. TypeOK'
  <2>1. SizesTyped'
    BY <1>1 DEF TypeOK, SizesTyped
  <2> QED
    BY <1>2, <2>1 DEF TypeOK
<1>4. ASSUME NEW q \in Producers \ {p}
      PROVE  Untouched(q) /\ SameView(q) /\ IndexInv(q)' /\ ProducerInv(q)'
  <2>1. Untouched(q)
    BY <1>2 DEF Untouched
  <2> QED
    BY <2>1, UntouchedSame, IndexKept, ProducerKept DEF IInv, Inv
<1>5. \A c \in Consumers : SameWork(c)
  BY <1>2 DEF SameWork
<1>6. ASSUME NEW q \in Producers PROVE ClaimsInv(q)'
  <2>1. ClaimsInv(q) /\ \A c \in Consumers : SameClaim(c, q)
    BY <1>2 DEF IInv, Inv, SameClaim
  <2>2. \A c \in Consumers : SeenOver(c, q)'
    BY <1>2, <2>1 DEF SeenOver, ClaimsInv
  <2>3. tail[q] \in Nat /\ tail'[q] \in Nat /\ tail[q] <= tail'[q] /\ head[q] \in Nat
    BY <1>1 DEF TypeOK, SizesTyped
  <2> QED
    BY <2>1, <2>2, <2>3, ClaimsKept
<1>7. ASSUME NEW q \in Producers \ {p} PROVE BlocksInv(q)'
  <2>1. SameView(q) /\ head'[q] = head[q] /\ BlocksInv(q)
    BY <1>4 DEF IInv, Inv
  <2> QED
    BY <1>5, <2>1, BlocksKept
<1>8. ASSUME NEW c \in Consumers PROVE ConsumerInv(c)'
  <2>1. ConsumerInv(c) /\ pc'[c] = pc[c] /\ reg'[c] = reg[c]
    BY <1>2 DEF IInv
  <2>2. CASE reg[c].sub = p /\ pc[c] \in Looking \cup {"unlink"}
    BY <2>2
  <2>3. CASE ~(reg[c].sub = p /\ pc[c] \in Looking \cup {"unlink"})
    <3>1. ASSUME pc[c] \in Looking \cup {"unlink"}, NEW q, q = reg[c].sub,
                 NEW m, m = Number(reg[c].index)
          PROVE  /\ head[q] <= head'[q] /\ head[q] \in Nat /\ head'[q] \in Nat
                 /\ Linked(q)' \in Int /\ Stays(q, m)
                 /\ DOMAIN tables'[q] = DOMAIN tables[q] /\ Len(tables'[q]) = Len(tables[q])
                 /\ \A h \in DOMAIN tables[q] :
                      /\ tables'[q][h].index = tables[q][h].index
                      /\ h # Len(tables[q]) => tables'[q][h].tail = tables[q][h].tail
                 /\ pc[c] \in {"empty", "unlink"} => Value(q, m)' = Value(q, m)
      <4>1. q \in Producers \ {p} /\ tables'[q] = tables[q] /\ head[q] \in Nat
        BY <1>1, <2>3, <3>1 DEF TypeOK, ThreadsTyped, SizesTyped, Looking
      <4>2. /\ Linked(q)' = Linked(q) /\ Linked(q) \in Nat
            /\ \A k : /\ Entry(q, k)' = Entry(q, k) /\ Value(q, k)' = Value(q, k)
                      /\ Key(q, k)' = Key(q, k)
        BY <1>1, <1>4, <4>1, ViewSame, NumbersTyped
      <4>3. Stays(q, m)
        BY <4>2 DEF Stays
      <4> QED
        BY <4>1, <4>2, <4>3
    <3> QED
      BY <1>1, <2>1, <3>1, ConsumerKept
  <2> QED
    BY <2>2, <2>3
<1>9. IndicesDiffer'
  BY <1>5, WorkSame DEF IInv
<1> QED
  BY <1>3, <1>4, <1>6, <1>7, <1>8, <1>9 DEF IInv, Inv

(* One that leaves the index of blocks, and what was published. *)
LEMMA ViewingStep ==
  ASSUME IInv, NEW p \in Producers, NEW there \in ProducerPlaces, NEW locals \in Registers,
         Go(p, there, locals),
         UNCHANGED <<sizes, tables, entries, blocks>>,
         Turning(p)' <=> Turning(p), Linked(p)' = Linked(p),
         SourcesTyped', WorkTyped', ListInv', ProducerInv(p)',
         \A n \in Nodes : Placed(n)'
  PROVE  IInv'
<1>1. /\ TypeOK /\ p \in Threads /\ p \notin Consumers
      /\ UNCHANGED <<tail, head, optimistic, overcommit, tables, entries, tailBlock, dequeued>>
  BY Constants DEF IInv, sizes, blocks
<1>2. SameView(p)
  <2>1. Top(p)' = Top(p)
    BY DEF Top
  <2> QED
    BY <1>1, <2>1 DEF SameView, SameIndex
<1>3. IndexTyped' /\ BlocksTyped'
  BY <1>1, TypesKept DEF TypeOK
<1>4. tail' \in [Producers -> Nat] /\ tail[p] <= tail'[p] /\ head[p] <= head'[p] /\ head'[p] \in Nat
  BY <1>1 DEF TypeOK, SizesTyped
<1>5. \A c \in Consumers : pc'[c] = pc[c] /\ reg'[c] = reg[c]
  BY <1>1, Constants, GoEffect DEF TypeOK
<1>6. IndexInv(p)' /\ BlocksInv(p)'
  <2>1. \A c \in Consumers : SameWork(c)
    BY <1>5 DEF SameWork
  <2> QED
    BY <1>1, <1>2, <2>1, IndexKept, BlocksKept DEF IInv, Inv
<1>7. \A q \in Producers : SameView(q)
  <2>1. ASSUME NEW q \in Producers \ {p} PROVE SameView(q)
    <3>1. pc'[q] = pc[q] /\ reg'[q] = reg[q]
      BY <1>1, Constants, GoEffect DEF TypeOK
    <3> QED
      BY <1>1, <3>1, UntouchedSame DEF Untouched
  <2> QED
    BY <1>2, <2>1
<1>8. \A c \in Consumers : ConsumerInv(c)'
  <2>1. \A q \in Producers : head[q] <= head'[q] /\ head'[q] \in Nat
    BY <1>1 DEF TypeOK, SizesTyped
  <2> QED
    BY <1>5, <1>7, <2>1, ViewedConsumer
<1> QED
  BY <1>1, <1>3, <1>4, <1>6, <1>8, ProducerStep


(* Where a producer goes it still has something to publish. *)
LEMMA PublisherGoes ==
  ASSUME IInv, NEW p \in Producers, NEW there, NEW locals, Go(p, there, locals)
  PROVE  /\ pc'[p] = there /\ reg'[p] = locals /\ (pc[p] # "idle" => todo[p] > 0)
         /\ \A q \in Producers \ {p} : /\ pc'[q] = pc[q] /\ reg'[q] = reg[q]
                                       /\ \A b : Requisitioned(q, b)' <=> Requisitioned(q, b)
         /\ (todo' = todo /\ (there = "idle" \/ todo[p] > 0)) => WorkTyped'
<1>1. ThreadsTyped /\ WorkTyped /\ p \in Threads
  BY Constants DEF IInv, TypeOK
<1>2. pc'[p] = there /\ reg'[p] = locals
  BY <1>1, GoEffect
<1>3. \A q \in Producers \ {p} : pc'[q] = pc[q] /\ reg'[q] = reg[q]
  BY <1>1, Constants, GoEffect
<1>4. \A q \in Producers \ {p} : \A b : Requisitioned(q, b)' <=> Requisitioned(q, b)
  BY <1>3 DEF Requisitioned
<1>5. todo' = todo /\ (there = "idle" \/ todo[p] > 0) => WorkTyped'
  BY <1>1, <1>2, <1>3 DEF WorkTyped
<1> QED
  BY <1>1, <1>2, <1>3, <1>4, <1>5 DEF WorkTyped

(* A call begins: a full block, or none yet, needs an entry for another. *)
LEMMA PublishKeeps ==
  ASSUME IInv, NEW p \in Producers, Publish(p)
  PROVE  IInv'
<1>1. PICK there : there = IF tail[p] % BlockSize = 0 THEN "index" ELSE "put"
  OBVIOUS
<1>2. /\ pc[p] = "idle" /\ todo[p] > 0 /\ Go(p, there, reg[p])
      /\ UNCHANGED listVars /\ UNCHANGED <<sizes, tables, entries, blocks, sources, todo>>
  BY <1>1 DEF Publish, Then
<1>3. /\ pc'[p] = there /\ reg'[p] = reg[p] /\ WorkTyped' /\ tail' = tail
      /\ \A q \in Producers \ {p} : \A b : Requisitioned(q, b)' <=> Requisitioned(q, b)
  BY <1>2, PublisherGoes DEF sizes
<1>4. there \in ProducerPlaces /\ reg[p] \in Registers /\ TypeOK
  BY <1>1, Constants, RegistersTyped DEF IInv, TypeOK, ProducerPlaces
<1>5. (Turning(p)' <=> Turning(p)) /\ ~Turning(p)'
  BY <1>1, <1>2, <1>3 DEF Turning
<1>6. Linked(p)' = Linked(p)
  BY <1>1, <1>2, <1>3 DEF Linked
<1>7. ProducerInv(p)'
  BY <1>1, <1>3, <1>5 DEF ProducerInv
<1>8. ListInv' /\ \A n : Inside(n)' <=> Inside(n)
  BY <1>2, ListKept DEF IInv
<1>9. \A q \in Producers : \A b : Requisitioned(q, b)' <=> Requisitioned(q, b)
  BY <1>1, <1>2, <1>3 DEF Requisitioned
<1>10. \A n \in Nodes : Placed(n)'
  BY <1>2, <1>8, <1>9, PlacedKept DEF IInv
<1>11. SourcesTyped'
  BY <1>2, <1>4, TypesKept DEF TypeOK
<1> QED
  BY <1>2, <1>3, <1>4, <1>5, <1>6, <1>7, <1>8, <1>10, <1>11, ViewingStep

(* While a block is sought, the index of blocks is as it was. *)
LEMMA SeekingStep ==
  ASSUME IInv, NEW p \in Producers, pc[p] \in {"pool", "poolget", "list"},
         NEW there \in {"poolget", "list", "link", "rewind"}, NEW locals \in Registers,
         locals.entry = reg[p].entry, there = "link" => locals.block \in Nodes,
         Go(p, there, locals),
         UNCHANGED <<sizes, tables, entries, blocks, todo>>, SourcesTyped', ListInv',
         \A n \in Nodes : Placed(n)'
  PROVE  IInv'
<1>1. TypeOK /\ there \in ProducerPlaces /\ UNCHANGED <<tail, tables, entries>>
  BY DEF IInv, ProducerPlaces, sizes
<1>2. pc'[p] = there /\ reg'[p] = locals /\ todo[p] > 0 /\ WorkTyped'
  BY PublisherGoes
<1>3. Turning(p) /\ Turning(p)' /\ Linked(p)' = Linked(p)
  BY <1>1, <1>2 DEF Turning, Linked
<1>4. Top(p)' = Top(p) /\ Top(p) \in Int /\ tables' = tables
  BY <1>1, <1>3, NumbersTyped DEF Top
<1>5. PICK k \in Int : k = Top(p)
  BY <1>4
<1>6. SameIndex(p)
  BY <1>3, <1>4 DEF SameIndex
<1>7. Entry(p, k)' = Entry(p, k) /\ Value(p, k)' = Value(p, k)
  BY <1>1, <1>6, IndexSame DEF Value
<1>8. ProducerInv(p)'
  <2>1. /\ tail[p] % BlockSize = 0 /\ reg[p].entry = Entry(p, k) /\ Value(p, k) = NoNode
    BY <1>3, <1>5 DEF IInv, Inv, ProducerInv
  <2>2. Top(p)' = k
    BY <1>4, <1>5
  <2> QED
    BY <1>1, <1>2, <1>7, <2>1, <2>2 DEF ProducerInv
<1> QED
  BY <1>1, <1>2, <1>3, <1>8, ViewingStep

(* The initial pool is looked at. *)
LEMMA PoolLookKeeps ==
  ASSUME IInv, NEW p \in Producers, PoolLook(p)
  PROVE  IInv'
<1>1. PICK there : there = IF pool >= InitialBlocks THEN "list" ELSE "poolget"
  OBVIOUS
<1>2. /\ pc[p] = "pool" /\ Go(p, there, reg[p])
      /\ CallGet(p) \/ UNCHANGED <<at, node, seen>>
      /\ UNCHANGED <<listHead, refs, next, sizes, tables, entries, blocks, sources, todo>>
  BY <1>1 DEF PoolLook, Then
<1>3. reg[p] \in Registers /\ TypeOK /\ p \in Threads
  BY Constants, RegistersTyped DEF IInv, TypeOK
<1>4. ListInv' /\ \A n \in Nodes : Inside(n)' <=> Inside(n)
  <2>1. CASE CallGet(p)
    BY <1>2, <1>3, <2>1, VisitKeeps DEF IInv, CallGet
  <2>2. CASE UNCHANGED <<at, node, seen>>
    BY <1>2, <2>2, ListKept DEF IInv, listVars
  <2> QED
    BY <1>2, <2>1, <2>2
<1>5. \A q \in Producers : \A b : Requisitioned(q, b)' <=> Requisitioned(q, b)
  <2>1. pc'[p] = there /\ there # "link" /\ pc[p] # "link"
    BY <1>1, <1>2, PublisherGoes
  <2>2. \A b : ~Requisitioned(p, b) /\ ~Requisitioned(p, b)'
    BY <2>1 DEF Requisitioned
  <2>3. \A q \in Producers \ {p} : \A b : Requisitioned(q, b)' <=> Requisitioned(q, b)
    BY <1>2, PublisherGoes
  <2> QED
    BY <2>2, <2>3
<1>6. \A n \in Nodes : Placed(n)'
  BY <1>2, <1>4, <1>5, PlacedKept DEF IInv
<1>7. SourcesTyped'
  BY <1>2, <1>3, TypesKept DEF TypeOK
<1>8. there \in {"poolget", "list", "link", "rewind"} /\ there # "link"
  BY <1>1
<1>9. UNCHANGED <<sizes, tables, entries, blocks, todo>>
  BY <1>2
<1> QED
  BY <1>2, <1>3, <1>4, <1>6, <1>7, <1>8, <1>9, SeekingStep

(* A block is requisitioned: it was in the pool, on the list, or not made yet. *)
LEMMA Requisition ==
  ASSUME IInv, NEW p \in Producers, NEW b \in Nodes, entries' = entries,
         pc[p] # "link", pc'[p] = "link", reg'[p].block = b,
         \A q \in Producers \ {p} : \A n : Requisitioned(q, n)' <=> Requisitioned(q, n),
         InPool(b) \/ b \notin 1..Made \/ Inside(b),
         \A n \in Nodes : /\ InPool(n)' <=> InPool(n) /\ n # b
                          /\ n \in 1..Made' <=> n \in 1..Made \/ n = b
                          /\ Inside(n)' <=> Inside(n) /\ n # b
  PROVE  \A n \in Nodes : Placed(n)'
<1>1. \A q, n, e : InSub(n, q, e)' <=> InSub(n, q, e)
  BY DEF InSub
<1>2. \A n : ~Requisitioned(p, n) /\ (Requisitioned(p, n)' <=> n = b)
  BY DEF Requisitioned
<1>3. /\ \A q \in Producers : ~Requisitioned(q, b)
      /\ \A q \in Producers : \A e \in DOMAIN entries[q] : ~InSub(b, q, e)
  BY DEF IInv, Placed
<1>4. Placed(b)'
  BY <1>1, <1>2, <1>3 DEF Placed
<1>5. ASSUME NEW n \in Nodes, n # b PROVE Placed(n)'
  <2>1. Placed(n)
    BY DEF IInv
  <2> QED
    BY <1>1, <1>2, <1>5, <2>1 DEF Placed
<1> QED
  BY <1>4, <1>5


(* The initial pool gives its next block, or has none. *)
LEMMA PoolGetKeeps ==
  ASSUME IInv, NEW p \in Producers, PoolGet(p)
  PROVE  IInv'
<1>1. /\ pc[p] = "poolget" /\ pool' = pool + 1 /\ created' = created
      /\ UNCHANGED <<listHead, refs, next>> /\ entries' = entries
      /\ UNCHANGED <<sizes, tables, entries, blocks, todo>>
  BY DEF PoolGet
<1>2. /\ TypeOK /\ p \in Threads /\ reg[p] \in Registers /\ pool \in Nat /\ created \in Nat
      /\ InitialBlocks \in Nat /\ InitialBlocks <= Cardinality(Nodes)
      /\ Nodes = 1..Cardinality(Nodes) /\ Cardinality(Nodes) \in Nat
  BY Constants, RegistersTyped DEF IInv, TypeOK, SourcesTyped
<1>3. SourcesTyped' /\ Made' = Made /\ Made \in Nat /\ InitialBlocks <= Made
  BY <1>1, <1>2 DEF TypeOK, SourcesTyped, Made
<1>4. CASE pool < InitialBlocks
  <2>1. PICK b \in Nodes : b = pool + 1
    BY <1>2, <1>4
  <2>2. PICK locals : locals = [reg[p] EXCEPT !.block = b]
    OBVIOUS
  <2>3. locals \in Registers /\ locals.entry = reg[p].entry /\ locals.block = b
    BY <1>2, <2>2 DEF Registers, MaybeNode
  <2>4. Go(p, "link", locals) /\ UNCHANGED listVars
    BY <1>1, <1>4, <2>1, <2>2 DEF PoolGet, listVars
  <2>5. ListInv' /\ \A n \in Nodes : Inside(n)' <=> Inside(n)
    BY <2>4, ListKept DEF IInv
  <2>6. /\ pc'[p] = "link" /\ reg'[p].block = b
        /\ \A q \in Producers \ {p} : \A n : Requisitioned(q, n)' <=> Requisitioned(q, n)
    BY <2>3, <2>4, PublisherGoes
  <2>7. InPool(b) /\ b \in 1..Made
    BY <1>2, <1>3, <1>4, <2>1 DEF InPool
  <2>8. ~Inside(b)
    BY <2>7 DEF IInv, Placed
  <2>9. \A n \in Nodes : /\ InPool(n)' <=> InPool(n) /\ n # b
                         /\ n \in 1..Made' <=> n \in 1..Made \/ n = b
                         /\ Inside(n)' <=> Inside(n) /\ n # b
    BY <1>1, <1>2, <1>3, <2>1, <2>5, <2>7, <2>8 DEF InPool
  <2>10. \A n \in Nodes : Placed(n)'
    BY <1>1, <2>6, <2>7, <2>9, Requisition
  <2> QED
    BY <1>1, <1>3, <2>1, <2>3, <2>4, <2>5, <2>10, SeekingStep
<1>5. CASE pool >= InitialBlocks
  <2>1. Go(p, "list", reg[p]) /\ CallGet(p)
    BY <1>2, <1>5 DEF PoolGet, Then
  <2>2. ListInv' /\ \A n \in Nodes : Inside(n)' <=> Inside(n)
    BY <1>1, <1>2, <2>1, VisitKeeps DEF IInv, CallGet
  <2>3. \A q \in Producers : \A n : Requisitioned(q, n)' <=> Requisitioned(q, n)
    BY <1>1, <2>1, PublisherGoes DEF Requisitioned
  <2>4. \A n \in Nodes : InPool(n)' <=> InPool(n)
    BY <1>1, <1>2, <1>5 DEF InPool
  <2>5. ASSUME NEW n \in Nodes PROVE Placed(n)'
    <3>1. \A q, e : InSub(n, q, e)' <=> InSub(n, q, e)
      BY <1>1 DEF InSub
    <3>2. Placed(n)
      BY DEF IInv
    <3> QED
      BY <1>1, <1>3, <2>2, <2>3, <2>4, <3>1, <3>2 DEF Placed
  <2> QED
    BY <1>1, <1>2, <1>3, <2>1, <2>2, <2>5, SeekingStep
<1> QED
  BY <1>2, <1>4, <1>5

(* try_get() returned: its block, or a new one, or none. *)
LEMMA FromListKeeps ==
  ASSUME IInv, NEW p \in Producers, FromList(p)
  PROVE  IInv'
<1>1. /\ pc[p] = "list" /\ Returned(p) /\ pool' = pool
      /\ UNCHANGED <<listHead, refs, next>> /\ entries' = entries
      /\ UNCHANGED <<sizes, tables, entries, blocks, todo>>
  BY DEF FromList
<1>2. /\ TypeOK /\ p \in Threads /\ reg[p] \in Registers /\ pool \in Nat /\ created \in Nat
      /\ InitialBlocks \in Nat /\ InitialBlocks <= Cardinality(Nodes)
      /\ Nodes = 1..Cardinality(Nodes) /\ Cardinality(Nodes) \in Nat
      /\ Made \in Nat /\ Made <= Cardinality(Nodes) /\ InitialBlocks <= Made
  BY Constants, RegistersTyped DEF IInv, TypeOK, SourcesTyped, Made
<1>3. /\ ListInv' /\ Got(p) \in MaybeNode
      /\ Got(p) # NoNode => Inside(Got(p))
      /\ \A m \in Nodes : Inside(m)' <=> Inside(m) /\ m # Got(p)
  BY <1>1, <1>2, ReturnedKeeps DEF IInv
<1>4. \A n \in Nodes : InPool(n)' <=> InPool(n)
  BY <1>1 DEF InPool
<1>5. ASSUME NEW b \in Nodes, NEW x, x = [reg[p] EXCEPT !.block = b], Go(p, "link", x),
             InPool(b) \/ b \notin 1..Made \/ Inside(b), ~InPool(b), ~Inside(b)', SourcesTyped',
             \A n \in Nodes : /\ n \in 1..Made' <=> n \in 1..Made \/ n = b
                              /\ Inside(n)' <=> Inside(n) /\ n # b
      PROVE  IInv'
  <2>1. x \in Registers /\ x.entry = reg[p].entry /\ x.block = b
    BY <1>2, <1>5 DEF Registers, MaybeNode
  <2>2. /\ pc'[p] = "link" /\ reg'[p].block = b
        /\ \A q \in Producers \ {p} : \A n : Requisitioned(q, n)' <=> Requisitioned(q, n)
    <3>1. Go(p, "link", x)
      BY <1>5
    <3>2. /\ pc'[p] = "link" /\ reg'[p] = x
          /\ \A q \in Producers \ {p} : \A n : Requisitioned(q, n)' <=> Requisitioned(q, n)
      BY <3>1, PublisherGoes
    <3> QED
      BY <2>1, <3>2
  <2>3. \A n \in Nodes : Placed(n)'
    BY <1>1, <1>4, <1>5, <2>2, Requisition
  <2> QED
    BY <1>1, <1>3, <1>5, <2>1, <2>3, SeekingStep
<1>6. PICK g \in MaybeNode : g = Got(p)
  BY <1>3
<1>7. CASE g # NoNode
  <2>1. g \in Nodes /\ Inside(g) /\ ~InPool(g) /\ g \in 1..Made
    <3>1. g \in Nodes /\ Inside(g)
      BY <1>3, <1>6, <1>7 DEF MaybeNode
    <3>2. Placed(g)
      BY <3>1 DEF IInv
    <3> QED
      BY <3>1, <3>2 DEF Placed
  <2>2. PICK x : x = [reg[p] EXCEPT !.block = g]
    OBVIOUS
  <2>3. Go(p, "link", x) /\ created' = created
    BY <1>6, <1>7, <2>2 DEF FromList
  <2>4. Made' = Made /\ SourcesTyped'
    BY <1>1, <1>2, <2>3 DEF Made, SourcesTyped
  <2> QED
    BY <1>3, <1>5, <1>6, <2>1, <2>2, <2>3, <2>4
<1>8. CASE g = NoNode /\ Made + 1 \in Nodes
  <2>1. PICK b \in Nodes : b = Made + 1
    BY <1>8
  <2>2. PICK x : x = [reg[p] EXCEPT !.block = b]
    OBVIOUS
  <2>3. Go(p, "link", x) /\ created' = created + 1
    BY <1>6, <1>8, <2>1, <2>2 DEF FromList
  <2>4. Made' = Made + 1 /\ SourcesTyped'
    BY <1>1, <1>2, <1>8, <2>3 DEF Made, SourcesTyped
  <2>5. b \notin 1..Made /\ ~InPool(b)
    BY <1>2, <2>1 DEF InPool
  <2>6. ~Inside(b)
    BY <2>5 DEF IInv, Placed
  <2>7. \A n \in Nodes : Inside(n)' <=> Inside(n) /\ n # b
    BY <1>3, <1>6, <1>8, <2>6, ListAssumption
  <2>8. \A n \in Nodes : n \in 1..Made' <=> n \in 1..Made \/ n = b
    BY <1>2, <2>1, <2>4
  <2> QED
    BY <1>5, <2>2, <2>3, <2>4, <2>5, <2>6, <2>7, <2>8
<1>9. CASE g = NoNode /\ Made + 1 \notin Nodes
  <2>1. Go(p, "rewind", reg[p]) /\ created' = created /\ UNCHANGED sources
    BY <1>1, <1>6, <1>9 DEF FromList, Then, sources
  <2>2. SourcesTyped'
    BY <1>2, <2>1, TypesKept DEF TypeOK
  <2>3. \A n \in Nodes : Inside(n)' <=> Inside(n)
    BY <1>3, <1>6, <1>9, ListAssumption
  <2>4. \A q \in Producers : \A n : Requisitioned(q, n)' <=> Requisitioned(q, n)
    BY <1>1, <2>1, PublisherGoes DEF Requisitioned
  <2>5. \A n \in Nodes : Placed(n)'
    BY <1>1, <2>1, <2>3, <2>4, PlacedKept DEF IInv
  <2> QED
    BY <1>1, <1>2, <1>3, <2>1, <2>2, <2>5, SeekingStep
<1> QED
  BY <1>7, <1>8, <1>9

(* Whatever happens to the free list, the queue outside of it stays. *)
LEMMA ListMoves ==
  ASSUME IInv, UNCHANGED <<sizes, tables, entries, blocks, sources, pc, reg, todo>>,
         ListInv', \A n \in Nodes : Inside(n)' <=> Inside(n)
  PROVE  IInv'
<1>1. UNCHANGED <<sizes, tables, entries, blocks, sources, pc, reg, todo>>
  OBVIOUS
<1>2. ListInv' /\ \A n \in Nodes : Inside(n)' <=> Inside(n)
  OBVIOUS
<1>3. UNCHANGED <<tail, head, optimistic, overcommit, tables, entries, tailBlock, dequeued, pc, reg>>
  BY <1>1 DEF sizes, blocks
<1>4. TypeOK'
  <2>1. WorkTyped'
    BY <1>1, <1>3 DEF IInv, TypeOK, WorkTyped
  <2> QED
    BY <1>1, <1>3, <2>1, TypesKept DEF IInv, TypeOK
<1>5. \A c \in Consumers : SameWork(c)
  BY <1>3 DEF SameWork
<1>6. ASSUME NEW q \in Producers
      PROVE  SameView(q) /\ IndexInv(q)' /\ ProducerInv(q)' /\ BlocksInv(q)' /\ ClaimsInv(q)'
  <2>1. Untouched(q) /\ SameView(q)
    BY <1>3, UntouchedSame DEF Untouched
  <2>2. \A c \in Consumers : SameClaim(c, q) /\ SeenOver(c, q)'
    BY <1>3 DEF SameClaim, SeenOver, IInv, Inv, ClaimsInv
  <2> QED
    BY <1>3, <1>5, <2>1, <2>2, IndexKept, ProducerKept, BlocksKept, ClaimsKept
       DEF IInv, Inv, TypeOK, SizesTyped
<1>7. \A c \in Consumers : ConsumerInv(c)'
  BY <1>3, <1>6, ViewedConsumer DEF IInv, TypeOK, SizesTyped
<1>8. IndicesDiffer'
  BY <1>5, WorkSame DEF IInv
<1>9. \A n \in Nodes : Placed(n)'
  <2>1. \A q \in Producers : \A n : Requisitioned(q, n)' <=> Requisitioned(q, n)
    BY <1>3 DEF Requisitioned
  <2> QED
    BY <1>1, <1>2, <2>1, PlacedKept DEF IInv
<1> QED
  BY <1>2, <1>4, <1>6, <1>7, <1>8, <1>9 DEF IInv, Inv

(* A thread works on the free list, for the queue. *)
LEMMA OnListKeeps ==
  ASSUME IInv, NEW t \in Threads, OnList(t)
  PROVE  IInv'
<1>1. UNCHANGED <<sizes, tables, entries, blocks, sources, pc, reg, todo>> /\ ListStep(t)
  BY DEF OnList
<1>2. ListInv' /\ \A n \in Nodes : Inside(n)' <=> Inside(n)
  BY <1>1, StepKeeps DEF IInv
<1> QED
  BY <1>1, <1>2, ListMoves

-----------------------------------------------------------------------------
(* What is stored in the index may leave the blocks in it as they were, ... *)
LEMMA BlocksFollow ==
  ASSUME NEW p \in Producers, BlocksInv(p), head'[p] = head[p], tailBlock'[p] = tailBlock[p],
         Linked(p) \in Nat, Linked(p)' = Linked(p),
         \A c \in Consumers : SameWork(c),
         \A m \in 0..(Linked(p) - 1) :
           /\ Present(p, m)' <=> Present(p, m)
           /\ Present(p, m) => /\ Value(p, m)' = Value(p, m)
                               /\ dequeued'[Value(p, m)] = dequeued[Value(p, m)]
  PROVE  BlocksInv(p)'
<1>1. \A m : GivenOut(p, m)' = GivenOut(p, m)
  BY DEF GivenOut
<1>2. ASSUME NEW m \in 0..(Linked(p) - 1), Present(p, m) PROVE Counting(p, m)'
  <2>1. Counting(p, m) /\ dequeued'[Value(p, m)'] = dequeued[Value(p, m)]
    BY <1>2 DEF BlocksInv
  <2>2. /\ Emptying(p, m)' = Emptying(p, m) /\ GivenOut(p, m)' = GivenOut(p, m)
        /\ \A c \in Consumers : Unlinks(c, p, m)' <=> Unlinks(c, p, m)
    BY <1>1, WorkSame
  <2> QED
    BY <2>1, <2>2 DEF Counting
<1>3. ASSUME NEW m \in 0..(Linked(p) - 1), ~Present(p, m) PROVE Gone(p, m)'
  <2>1. Gone(p, m)
    BY <1>3 DEF BlocksInv
  <2>2. /\ Emptying(p, m)' = Emptying(p, m)
        /\ \A c \in Consumers : Unlinks(c, p, m)' <=> Unlinks(c, p, m)
    BY WorkSame
  <2> QED
    BY <2>1, <2>2 DEF Gone
<1>4. PICK n : n = Linked(p)
  OBVIOUS
<1>5. PICK k : k = n - 1
  OBVIOUS
<1>6. Linked(p)' = n /\ \A m \in 0..(n - 1) : IF Present(p, m)' THEN Counting(p, m)' ELSE Gone(p, m)'
  BY <1>2, <1>3, <1>4
<1>7. n > 0 /\ Present(p, k)' => tailBlock'[p] = Value(p, k)'
  BY <1>4, <1>5 DEF BlocksInv
<1> QED
  BY <1>4, <1>5, <1>6, <1>7 DEF BlocksInv

(* ... and the places of all blocks. *)
LEMMA PlacedFollow ==
  ASSUME NEW b \in Nodes, UNCHANGED sources, Inside(b)' <=> Inside(b),
         \A p \in Producers : Requisitioned(p, b)' <=> Requisitioned(p, b),
         \A p \in Producers : \A e : InSub(b, p, e)' <=> InSub(b, p, e), Placed(b)
  PROVE  Placed(b)'
<1>1. (InPool(b)' <=> InPool(b)) /\ Made' = Made
  BY DEF InPool, Made, sources
<1>2. ASSUME NEW p \in Producers
      PROVE  /\ \A e \in DOMAIN entries[p] : InSub(b, p, e) <=> entries[p][e].value = b
             /\ \A e : InSub(b, p, e) => e \in DOMAIN entries[p]
             /\ \A e : InSub(b, p, e)' => e \in DOMAIN entries'[p]
  BY DEF InSub
<1> QED
  BY <1>1, <1>2 DEF Placed


(* A consumer of the sub-queue, when the entries that it may use stay. *)
LEMMA OwnConsumer ==
  ASSUME IInv, NEW p \in Producers, head' = head, Linked(p)' \in Int,
         DOMAIN tables'[p] = DOMAIN tables[p], Len(tables'[p]) = Len(tables[p]),
         \A h \in DOMAIN tables[p] :
           /\ tables'[p][h].index = tables[p][h].index
           /\ h # Len(tables[p]) => tables'[p][h].tail = tables[p][h].tail,
         \A m \in 0..(Linked(p) - 1) :
           Present(p, m) => Stays(p, m) /\ Value(p, m)' = Value(p, m),
         NEW c \in Consumers, pc'[c] = pc[c], reg'[c] = reg[c],
         reg[c].sub = p, pc[c] \in Looking \cup {"unlink"}
  PROVE  ConsumerInv(c)'
<1>1. PICK n : n = Number(reg[c].index)
  OBVIOUS
<1>2. n \in 0..(Linked(p) - 1) /\ Present(p, n) /\ TypeOK /\ ConsumerInv(c)
  BY <1>1, Working DEF IInv
<1>3. Stays(p, n) /\ Value(p, n)' = Value(p, n) /\ head'[p] = head[p] /\ head[p] \in Nat
  BY <1>2 DEF TypeOK, SizesTyped
<1>4. head[p] <= head'[p] /\ head'[p] \in Nat
  BY <1>3
<1>5. ASSUME NEW q, q = reg[c].sub, NEW m, m = Number(reg[c].index)
      PROVE  /\ head[q] <= head'[q] /\ head[q] \in Nat /\ head'[q] \in Nat
             /\ Linked(q)' \in Int /\ Stays(q, m)
             /\ DOMAIN tables'[q] = DOMAIN tables[q] /\ Len(tables'[q]) = Len(tables[q])
             /\ \A h \in DOMAIN tables[q] :
                  /\ tables'[q][h].index = tables[q][h].index
                  /\ h # Len(tables[q]) => tables'[q][h].tail = tables[q][h].tail
             /\ pc[c] \in {"empty", "unlink"} => Value(q, m)' = Value(q, m)
  <2>1. q = p /\ m = n
    BY <1>1, <1>5
  <2> QED
    BY <1>3, <1>4, <2>1
<1> QED
  BY <1>2, <1>5, ConsumerKept

(* A key is stored in an entry that is free. *)
LEMMA InsertKeyKeeps ==
  ASSUME IInv, NEW p \in Producers, InsertKey(p)
  PROVE  IInv'
<1>1. /\ TypeOK /\ IndexInv(p) /\ ProducerInv(p) /\ BlocksInv(p)
      /\ Top(p) \in Int /\ Linked(p) \in Nat /\ tail[p] \in Nat /\ reg[p] \in Registers
  BY Constants, NumbersTyped, RegistersTyped DEF IInv, Inv, TypeOK, SizesTyped
<1>2. PICK k, e : k \in Int /\ k = Top(p) /\ e = NewEntry(p)
  BY <1>1
<1>3. PICK locals : locals = [reg[p] EXCEPT !.entry = e]
  OBVIOUS
<1>4. /\ pc[p] = "index" /\ Reusable(p) /\ entries' = [entries EXCEPT ![p][e].key = tail[p]]
      /\ Go(p, "turn", locals)
      /\ UNCHANGED listVars /\ UNCHANGED <<sizes, tables, blocks, sources, todo>>
  BY <1>2, <1>3 DEF InsertKey
<1>5. UNCHANGED <<tail, head, optimistic, overcommit, tables, tailBlock, dequeued>>
  BY <1>4 DEF sizes, blocks
<1>6. tail[p] % BlockSize = 0 /\ ~Turning(p) /\ Linked(p) = k + 1 /\ tail[p] = First(k + 1)
  <2>1. tail[p] % BlockSize = 0 /\ ~Turning(p)
    BY <1>1, <1>4 DEF ProducerInv, Turning
  <2>2. Linked(p) = k + 1
    BY <1>1, <1>2, <2>1 DEF Top
  <2> QED
    BY <1>1, <1>4, <2>1, <2>2, TailBlock
<1>7. PICK w \in Window(p) : w = k + 1 - Capacity(Table(p)) /\ e = Entry(p, w)
  BY <1>1, <1>2, Entries
<1>8. /\ e = Entry(p, k + 1) /\ e \in DOMAIN entries[p] /\ k \in Window(p)
      /\ Capacity(Table(p)) \in Nat /\ Capacity(Table(p)) >= 2 /\ w \in Int
  BY <1>1, <1>2, <1>7, Entries, TableTyped
<1>9. entries[p][e].value = NoNode
  <2> SUFFICES ASSUME entries[p][e].value # NoNode PROVE FALSE
    OBVIOUS
  <2>1. entries[p][e].key = NoKey
    BY <1>2, <1>4 DEF Reusable
  <2>2. Value(p, w) # NoNode /\ Key(p, w) = NoKey
    BY <1>7, <2>1 DEF Value, Key
  <2>3. w >= 0 /\ First(w) = NoKey
    BY <1>1, <1>7, <2>2 DEF IndexInv
  <2> QED
    BY <1>8, <2>3, Blocks
<1>10. PICK x \in EntryType : x = [key |-> tail[p], value |-> NoNode]
  BY <1>1 DEF EntryType, MaybeNode
<1>11. PICK s : s = [entries[p] EXCEPT ![e] = x] /\ entries' = [entries EXCEPT ![p] = s]
  <2>1. entries[p] \in Seq(EntryType)
    BY <1>1 DEF TypeOK, IndexTyped
  <2>2. entries[p][e] \in EntryType
    BY <1>8, <2>1
  <2>3. [entries[p][e] EXCEPT !.key = tail[p]] = x
    BY <1>9, <1>10, <2>2 DEF EntryType
  <2> QED
    BY <1>4, <2>3
<1>12. /\ IndexTyped' /\ entries'[p][e] = x
       /\ DOMAIN entries'[p] = DOMAIN entries[p]
       /\ \A f \in DOMAIN entries[p] \ {e} : entries'[p][f] = entries[p][f]
       /\ \A q \in Producers \ {p} : entries'[q] = entries[q]
  <2>1. entries \in [Producers -> Seq(EntryType)] /\ entries[p] \in Seq(EntryType)
    BY <1>1 DEF TypeOK, IndexTyped
  <2>2. /\ s \in Seq(EntryType) /\ Len(s) = Len(entries[p]) /\ DOMAIN s = DOMAIN entries[p]
        /\ s[e] = x /\ \A f \in DOMAIN entries[p] \ {e} : s[f] = entries[p][f]
    BY <1>8, <1>11, <2>1
  <2>3. /\ entries'[p] = s /\ \A q \in Producers \ {p} : entries'[q] = entries[q]
        /\ entries' \in [Producers -> Seq(EntryType)]
    BY <1>11, <2>1, <2>2
  <2>4. IndexTyped'
    BY <1>1, <1>5, <2>2, <2>3, EntriesTyped
  <2> QED
    BY <2>2, <2>3, <2>4
<1>13. /\ pc'[p] = "turn" /\ reg'[p] = locals /\ WorkTyped' /\ locals \in Registers
       /\ locals.entry = e
       /\ \A q \in Producers \ {p} : \A b : Requisitioned(q, b)' <=> Requisitioned(q, b)
  <2>1. locals \in Registers /\ locals.entry = e
    <3>1. e \in Nat
      <4>1. entries[p] \in Seq(EntryType)
        BY <1>1 DEF TypeOK, IndexTyped
      <4> QED
        BY <1>8, <4>1
    <3> QED
      BY <1>1, <1>3, <3>1 DEF Registers
  <2> QED
    BY <1>4, <2>1, PublisherGoes
<1>14. /\ ~Turning(p)' /\ Linked(p)' = k + 1 /\ Top(p)' = k /\ Window(p)' = Window(p)
       /\ \A n : Entry(p, n)' = Entry(p, n)
  <2>1. ~Turning(p)'
    BY <1>13 DEF Turning
  <2>2. Linked(p)' = Linked(p)
    BY <1>4, <1>5, <1>13 DEF Linked
  <2>3. Top(p)' = Top(p)
    BY <1>6, <2>1, <2>2 DEF Top
  <2>4. SameIndex(p)
    BY <1>5, <2>2, <2>3 DEF SameIndex
  <2> QED
    BY <1>2, <1>6, <2>1, <2>2, <2>3, <2>4, IndexSame
<1>15. ASSUME NEW n \in Int
       PROVE  /\ Value(p, n)' = Value(p, n)
              /\ Entry(p, n) # e => Key(p, n)' = Key(p, n)
              /\ Entry(p, n) = e => Key(p, n)' = First(k + 1)
  <2>1. Entry(p, n) \in DOMAIN entries[p]
    BY <1>1, Entries
  <2> QED
    BY <1>6, <1>9, <1>10, <1>12, <1>14, <2>1 DEF Value, Key
<1>16. \A n \in Window(p) : n \in Int /\ (Entry(p, n) = e => n = w)
  BY <1>1, <1>7, Entries
<1>17. IndexInv(p)'
  <2>1. ASSUME NEW n \in Window(p), Value(p, n)' # NoNode PROVE n >= 0 /\ Key(p, n)' = First(n)
    <3>1. Value(p, n) # NoNode /\ Entry(p, n) # e
      BY <1>9, <1>15, <1>16, <2>1 DEF Value
    <3> QED
      BY <1>1, <1>15, <1>16, <3>1 DEF IndexInv
  <2>2. k >= 0 => Key(p, k)' = First(k)
    <3>1. Entry(p, k) # e
      BY <1>7, <1>8, <1>16
    <3> QED
      BY <1>1, <1>2, <1>15, <3>1 DEF IndexInv
  <2> QED
    BY <1>14, <2>1, <2>2 DEF IndexInv
<1>18. ProducerInv(p)'
  <2>1. entries'[p][e] = [key |-> First(k + 1), value |-> NoNode]
    BY <1>6, <1>10, <1>12
  <2>2. Entry(p, k + 1)' = e
    BY <1>8, <1>14
  <2> QED
    BY <1>5, <1>6, <1>13, <1>14, <2>1, <2>2 DEF ProducerInv
<1>19. \A c \in Consumers : pc'[c] = pc[c] /\ reg'[c] = reg[c] /\ SameWork(c)
  <2>1. \A c \in Consumers : pc'[c] = pc[c] /\ reg'[c] = reg[c]
    BY <1>1, <1>4, Constants, GoEffect DEF TypeOK
  <2> QED
    BY <2>1 DEF SameWork
<1>20. BlocksInv(p)'
  <2>1. \A n : Present(p, n)' <=> Present(p, n)
    BY <1>14, <1>15, <1>16 DEF Present
  <2>2. \A n : Present(p, n) => Value(p, n)' = Value(p, n) /\ dequeued' = dequeued
    BY <1>5, <1>15, <1>16 DEF Present
  <2>3. head'[p] = head[p] /\ tailBlock'[p] = tailBlock[p] /\ Linked(p)' = Linked(p)
    BY <1>5, <1>6, <1>14
  <2> QED
    BY <1>1, <1>19, <2>1, <2>2, <2>3, BlocksFollow
<1>21. ASSUME NEW m \in 0..(Linked(p) - 1), Present(p, m)
       PROVE  Stays(p, m) /\ Value(p, m)' = Value(p, m)
  <2>1. m \in Window(p) /\ m \in Int /\ Entry(p, m) # e /\ m <= k
    <3>1. m \in Window(p) /\ Entry(p, m) # e
      <4>1. m \in Window(p) /\ Value(p, m) # NoNode
        BY <1>21 DEF Present
      <4>2. Entry(p, m) = e => Value(p, m) = NoNode
        BY <1>9 DEF Value
      <4> QED
        BY <4>1, <4>2
    <3>2. m \in Int /\ m <= k
      BY <1>1, <1>2, <1>6
    <3> QED
      BY <3>1, <3>2
  <2>2. ASSUME NEW n \in m..Linked(p), Key(p, n) = First(n)
        PROVE  Key(p, n)' = First(n)
    <3>1. n \in Int /\ m <= n /\ n <= k + 1
      BY <1>6, <2>1
    <3>2. CASE n = k + 1
      BY <1>8, <1>15, <3>1, <3>2
    <3>3. CASE n # k + 1
      <4>1. n \in Window(p)
        BY <1>2, <1>8, <2>1, <3>1, <3>3 DEF Window
      <4>2. Entry(p, n) # e
        <5> SUFFICES ASSUME Entry(p, n) = e PROVE FALSE
          OBVIOUS
        <5>1. n = w
          BY <1>16, <4>1
        <5>2. w <= m
          BY <1>2, <1>7, <1>8, <2>1 DEF Window
        <5>3. m = n
          BY <1>8, <2>1, <3>1, <5>1, <5>2
        <5> QED
          BY <2>1, <5>3
      <4> QED
        BY <1>15, <2>2, <3>1, <4>2
    <3> QED
      BY <3>2, <3>3
  <2>3. Linked(p) <= Linked(p)'
    BY <1>1, <1>6, <1>14
  <2> QED
    BY <1>14, <1>15, <2>1, <2>2, <2>3 DEF Stays
<1>22. \A c \in Consumers : reg[c].sub = p /\ pc[c] \in Looking \cup {"unlink"} => ConsumerInv(c)'
  <2>1. Linked(p)' \in Int /\ tables'[p] = tables[p] /\ head' = head
    BY <1>1, <1>5, <1>6, <1>14
  <2> QED
    BY <1>19, <1>21, <2>1, OwnConsumer
<1>23. ListInv' /\ \A n \in Nodes : Placed(n)'
  <2>1. ListInv' /\ \A n : Inside(n)' <=> Inside(n)
    BY <1>4, ListKept DEF IInv
  <2>2. ASSUME NEW n \in Nodes, NEW q \in Producers, NEW f
        PROVE  InSub(n, q, f)' <=> InSub(n, q, f)
    BY <1>9, <1>10, <1>12, ListAssumption DEF InSub
  <2>3. \A q \in Producers : \A b : Requisitioned(q, b)' <=> Requisitioned(q, b)
    BY <1>4, <1>13 DEF Requisitioned
  <2> QED
    BY <1>4, <2>1, <2>2, <2>3, PlacedFollow DEF IInv
<1>24. BlocksTyped' /\ SourcesTyped' /\ tail' \in [Producers -> Nat] /\ tail[p] <= tail'[p]
  BY <1>1, <1>4, <1>5, TypesKept DEF TypeOK, SizesTyped
<1>25. \A q \in Producers \ {p} : \A m \in 0..(Linked(q) - 1) :
         Present(q, m) => dequeued'[Value(q, m)] = dequeued[Value(q, m)]
  BY <1>5
<1> QED
  BY <1>4, <1>5, <1>12, <1>13, <1>17, <1>18, <1>20, <1>22, <1>23, <1>24, <1>25, ProducerStep
     DEF ProducerPlaces


(* The distances of a block from a slot and from where the slot is moved to. *)
LEMMA Offsets ==
  ASSUME NEW k \in Int, NEW d \in Int, NEW m \in Int, NEW n \in Int, NEW o \in Int,
         o = d \/ o = d + n
  PROVE  \E y, z \in Int : y = m - (k + d) /\ z = m - k /\ (o + y = z \/ o + y = z + n)
<1>1. PICK y \in Int, z \in Int : y = m - (k + d) /\ z = m - k
  OBVIOUS
<1>2. o + y = z \/ o + y = z + n
  BY <1>1
<1> QED
  BY <1>1, <1>2

(* The tail of the table in use is moved, forwards by one or backwards: the entries
   of the blocks stay where they are.                                              *)
LEMMA TurnedIndex ==
  ASSUME TypeOK, NEW p \in Producers, NEW offset \in Int, NEW d \in Int, Turned(p, offset),
         offset = d \/ offset = d + Capacity(Table(p)), entries' = entries,
         NEW k \in Int, k = Top(p), Top(p)' = k + d
  PROVE  /\ IndexTyped'
         /\ DOMAIN tables'[p] = DOMAIN tables[p] /\ Len(tables'[p]) = Len(tables[p])
         /\ \A h \in DOMAIN tables[p] :
              /\ tables'[p][h].index = tables[p][h].index
              /\ h # Len(tables[p]) => tables'[p][h].tail = tables[p][h].tail
         /\ \A q \in Producers \ {p} : tables'[q] = tables[q]
         /\ Window(p)' = (k + d - Capacity(Table(p)) + 1)..(k + d)
         /\ \A m \in Int : /\ Entry(p, m)' = Entry(p, m) /\ Value(p, m)' = Value(p, m)
                           /\ Key(p, m)' = Key(p, m)
<1>1. /\ tables \in [Producers -> Seq(TableType)] /\ \A q \in Producers : TablesOK(q)
      /\ entries \in [Producers -> Seq(EntryType)]
  BY DEF TypeOK, IndexTyped
<1>2. PICK s \in Seq(TableType), l \in Nat, h \in TableType, n \in Nat, t \in Nat :
        /\ s = tables[p] /\ l = Len(s) /\ l \in DOMAIN s /\ h = s[l] /\ h = Table(p)
        /\ n = Capacity(h) /\ n >= 2 /\ t = h.tail /\ t < n
  <2>1. tables[p] \in Seq(TableType)
    BY <1>1
  <2>2. /\ Len(tables[p]) \in DOMAIN tables[p] /\ Table(p) = tables[p][Len(tables[p])]
        /\ Table(p) \in TableType /\ Capacity(Table(p)) \in Nat /\ Capacity(Table(p)) >= 2
        /\ Table(p).tail \in Nat /\ Table(p).tail < Capacity(Table(p))
    <3>1. Capacity(Table(p)) \in Nat /\ Table(p).tail \in 0..(Capacity(Table(p)) - 1)
      BY TableTyped
    <3> QED
      BY <3>1, TableTyped
  <2>3. PICK s \in Seq(TableType), h \in TableType : s = tables[p] /\ h = Table(p)
    BY <2>1, <2>2
  <2>4. PICK l \in Nat, n \in Nat, t \in Nat : l = Len(s) /\ n = Capacity(h) /\ t = h.tail
    BY <2>2, <2>3
  <2> QED
    BY <2>2, <2>3, <2>4
<1>3. PICK u \in Nat : u = (t + offset) % n /\ u < n
  <2>1. t + offset \in Int /\ n >= 1
    BY <1>2
  <2>2. PICK u : u = (t + offset) % n
    OBVIOUS
  <2>3. u \in 0..(n - 1)
    BY <2>1, <2>2, Remainder
  <2> QED
    BY <2>2, <2>3
<1>4. PICK g \in TableType : g = [tail |-> u, index |-> h.index]
  BY <1>2 DEF TableType
<1>5. tables' = [tables EXCEPT ![p] = [s EXCEPT ![l] = g]]
  <2>1. Ahead(h, offset) - 1 = u
    BY <1>2, <1>3 DEF Ahead
  <2>2. tables' = [tables EXCEPT ![p][l].tail = u]
    BY <1>2, <2>1 DEF Turned
  <2>3. [h EXCEPT !.tail = u] = g
    <3>1. h = [tail |-> h.tail, index |-> h.index]
      BY DEF TableType
    <3>2. [h EXCEPT !.tail = u] = [tail |-> u, index |-> h.index]
      BY <3>1
    <3> QED
      BY <1>4, <3>2
  <2>4. tables' = [tables EXCEPT ![p][l] = g]
    BY <1>2, <2>2, <2>3
  <2> QED
    BY <1>1, <1>2, <2>4
<1>6. /\ [s EXCEPT ![l] = g] \in Seq(TableType) /\ Len([s EXCEPT ![l] = g]) = l
      /\ DOMAIN [s EXCEPT ![l] = g] = DOMAIN s
  BY <1>2, <1>4
<1>7. /\ tables'[p] = [s EXCEPT ![l] = g] /\ \A q \in Producers \ {p} : tables'[q] = tables[q]
      /\ tables' \in [Producers -> Seq(TableType)]
  BY <1>1, <1>5, <1>6
<1>8. /\ DOMAIN tables'[p] = DOMAIN s /\ Len(tables'[p]) = l /\ tables'[p][l] = g
      /\ \A i \in DOMAIN s \ {l} : tables'[p][i] = s[i]
  BY <1>2, <1>6, <1>7
<1>9. Table(p)' = g /\ g.index = h.index /\ g.tail = u /\ Capacity(g) = n
  BY <1>2, <1>4, <1>8 DEF Table, Last, Capacity
<1>10. IndexTyped'
  <2>1. ASSUME NEW q \in Producers \ {p} PROVE TablesOK(q)'
    <3>1. tables'[q] = tables[q] /\ entries'[q] = entries[q]
      BY <1>7
    <3>2. Table(q)' = Table(q)
      BY <3>1 DEF Table
    <3>3. \A x : TableOK(q, x)' <=> TableOK(q, x)
      BY <3>1 DEF TableOK
    <3>4. TablesOK(q)
      BY <1>1
    <3> QED
      BY <3>1, <3>2, <3>3, <3>4 DEF TablesOK
  <2>2. TablesOK(p)'
    <3>1. tables'[p] # <<>>
      BY <1>2, <1>8
    <3>2. ASSUME NEW i \in DOMAIN s, NEW r, r = tables'[p][i] PROVE TableOK(p, r)'
      <4>1. TableOK(p, s[i])
        BY <1>1, <1>2 DEF TablesOK
      <4>2. CASE i = l
        <5>1. TableOK(p, h)
          BY <1>2, <4>1, <4>2
        <5>2. r = g
          BY <1>8, <3>2, <4>2
        <5>3. Capacity(r) = Capacity(h) /\ r.index = h.index /\ r.tail < Capacity(r)
          BY <1>2, <1>3, <1>9, <5>2
        <5> QED
          BY <5>1, <5>3 DEF TableOK
      <4>3. CASE i # l
        <5>1. r = s[i]
          BY <1>8, <3>2, <4>3
        <5> QED
          BY <4>1, <5>1 DEF TableOK
      <4> QED
        BY <4>2, <4>3
    <3>3. /\ Len(entries[p]) = n
          /\ \A i, j \in 1..n : g.index[i] = g.index[j] => i = j
          /\ \A e \in 1..n : \E i \in 1..n : g.index[i] = e
      <4>1. TablesOK(p)
        BY <1>1
      <4>2. /\ Len(entries[p]) = n
            /\ \A i, j \in 1..n : h.index[i] = h.index[j] => i = j
            /\ \A e \in 1..n : \E i \in 1..n : h.index[i] = e
        BY <1>2, <4>1 DEF TablesOK
      <4>3. PICK x : x = g.index /\ x = h.index
        BY <1>9
      <4> QED
        BY <4>2, <4>3
    <3> QED
      BY <1>8, <1>9, <3>1, <3>2, <3>3 DEF TablesOK
  <2> QED
    BY <1>1, <1>7, <2>1, <2>2 DEF IndexTyped
<1>11. Window(p)' = (k + d - n + 1)..(k + d)
  BY <1>9 DEF Window
<1>12. ASSUME NEW m \in Int PROVE Entry(p, m)' = Entry(p, m)
  <2>1. Entry(p, m) = Cell(h, t, m - k)
    BY <1>2 DEF Entry
  <2>2. Entry(p, m)' = Cell(g, u, m - (k + d))
    BY <1>9 DEF Entry, Cell, Capacity
  <2>3. /\ n >= 1 /\ n \in Int /\ t \in Int /\ Capacity(h) = n /\ Capacity(g) = n
        /\ g.index = h.index /\ u = (t + offset) % n /\ u \in Int
    BY <1>2, <1>3, <1>9
  <2>4. offset = d \/ offset = d + n
    BY <1>2
  <2>5. PICK y \in Int, z \in Int :
          y = m - (k + d) /\ z = m - k /\ (offset + y = z \/ offset + y = z + n)
    <3>1. n \in Int /\ m \in Int /\ k \in Int /\ d \in Int /\ offset \in Int
      BY <2>3
    <3> QED
      BY <2>4, <3>1, Offsets
  <2>6. Cell(g, u, y) = Cell(h, t, z)
    <3>1. PICK w \in Int, x \in Int : w = t + offset /\ x = t + z
      BY <2>3
    <3>2. n >= 1 /\ u = w % n
      BY <2>3, <3>1
    <3>3. ((w % n) + y) % n = (w + y) % n /\ (x + n) % n = x % n
      BY <3>2, Remainders
    <3>4. w + y = x \/ w + y = x + n
      <4>1. t \in Int /\ n \in Int
        BY <2>3
      <4>2. w + y = t + (offset + y)
        BY <3>1, <4>1
      <4>3. CASE offset + y = z
        BY <3>1, <4>2, <4>3
      <4>4. CASE offset + y = z + n
        <5>1. t + (z + n) = (t + z) + n
          BY <4>1
        <5> QED
          BY <3>1, <4>2, <4>4, <5>1
      <4> QED
        BY <2>5, <4>3, <4>4
    <3>5. (u + y) % n = (t + z) % n
      BY <3>1, <3>2, <3>3, <3>4
    <3> QED
      BY <2>3, <3>5 DEF Cell
  <2> QED
    BY <2>1, <2>2, <2>5, <2>6
<1>13. ASSUME NEW m \in Int PROVE Value(p, m)' = Value(p, m) /\ Key(p, m)' = Key(p, m)
  BY <1>12 DEF Value, Key
<1>14. \A i \in DOMAIN tables[p] : /\ tables'[p][i].index = tables[p][i].index
                                   /\ i # Len(tables[p]) => tables'[p][i].tail = tables[p][i].tail
  BY <1>2, <1>8, <1>9
<1> QED
  BY <1>2, <1>7, <1>8, <1>10, <1>11, <1>12, <1>13, <1>14


(* What follows when the same blocks are found as before. *)
LEMMA TurnStep ==
  ASSUME IInv, NEW p \in Producers, pc[p] \in {"turn", "rewind"}, NEW there \in {"pool", "drop"},
         Go(p, there, reg[p]), NEW offset \in Int, NEW d \in Int, Turned(p, offset),
         offset = d \/ offset = d + Capacity(Table(p)),
         UNCHANGED listVars, UNCHANGED <<sizes, entries, blocks, sources, todo>>,
         NEW k \in Int, k = Top(p), Top(p)' = k + d, Linked(p)' = Linked(p),
         IndexInv(p)', ProducerInv(p)',
         \A m \in 0..(Linked(p) - 1) : Present(p, m)' <=> Present(p, m)
  PROVE  IInv'
<1>1. /\ TypeOK /\ Linked(p) \in Nat /\ reg[p] \in Registers /\ there \in ProducerPlaces
      /\ UNCHANGED <<tail, head, optimistic, overcommit, entries, tailBlock, dequeued>>
  BY Constants, NumbersTyped, RegistersTyped DEF IInv, TypeOK, sizes, blocks, ProducerPlaces
<1>2. /\ IndexTyped'
      /\ DOMAIN tables'[p] = DOMAIN tables[p] /\ Len(tables'[p]) = Len(tables[p])
      /\ \A h \in DOMAIN tables[p] :
           /\ tables'[p][h].index = tables[p][h].index
           /\ h # Len(tables[p]) => tables'[p][h].tail = tables[p][h].tail
      /\ \A q \in Producers \ {p} : tables'[q] = tables[q]
      /\ \A m \in Int : /\ Entry(p, m)' = Entry(p, m) /\ Value(p, m)' = Value(p, m)
                        /\ Key(p, m)' = Key(p, m)
  BY <1>1, TurnedIndex
<1>3. /\ \A c \in Consumers : pc'[c] = pc[c] /\ reg'[c] = reg[c]
      /\ \A c \in Consumers : SameWork(c)
  <2>1. \A c \in Consumers : pc'[c] = pc[c] /\ reg'[c] = reg[c]
    BY <1>1, Constants, GoEffect DEF TypeOK
  <2> QED
    BY <2>1 DEF SameWork
<1>4. BlocksInv(p)'
  <2>1. BlocksInv(p)
    BY DEF IInv, Inv
  <2>2. \A m \in 0..(Linked(p) - 1) : Value(p, m)' = Value(p, m)
    BY <1>1, <1>2
  <2> QED
    BY <1>1, <1>3, <2>1, <2>2, BlocksFollow
<1>5. ASSUME NEW m \in 0..(Linked(p) - 1) PROVE Stays(p, m) /\ Value(p, m)' = Value(p, m)
  <2>1. \A n \in m..Linked(p) : n \in Int
    BY <1>1
  <2>2. m \in Int
    BY <1>1
  <2>3. Linked(p) <= Linked(p)'
    BY <1>1
  <2> QED
    BY <1>2, <2>1, <2>2, <2>3 DEF Stays
<1>6. ASSUME NEW c \in Consumers, reg[c].sub = p, pc[c] \in Looking \cup {"unlink"}
      PROVE  ConsumerInv(c)'
  <2>1. Linked(p)' \in Int /\ head' = head /\ pc'[c] = pc[c] /\ reg'[c] = reg[c]
    BY <1>1, <1>3
  <2>2. \A m \in 0..(Linked(p) - 1) : Present(p, m) => Stays(p, m) /\ Value(p, m)' = Value(p, m)
    BY <1>5
  <2> QED
    BY <1>2, <1>6, <2>1, <2>2, OwnConsumer
<1>7. /\ WorkTyped' /\ pc'[p] = there
      /\ \A q \in Producers : \A b : Requisitioned(q, b)' <=> Requisitioned(q, b)
  BY PublisherGoes DEF Requisitioned
<1>8. ListInv' /\ \A n \in Nodes : Placed(n)'
  <2>1. ListInv' /\ \A n : Inside(n)' <=> Inside(n)
    BY ListKept DEF IInv
  <2> QED
    BY <1>1, <1>7, <2>1, PlacedKept DEF IInv
<1>9. BlocksTyped' /\ SourcesTyped' /\ tail' \in [Producers -> Nat] /\ tail[p] <= tail'[p]
  BY <1>1, TypesKept DEF TypeOK, SizesTyped
<1> QED
  BY <1>1, <1>2, <1>4, <1>6, <1>7, <1>8, <1>9, ProducerStep

(* The entry becomes the tail of the index. *)
LEMMA InsertTailKeeps ==
  ASSUME IInv, NEW p \in Producers, InsertTail(p)
  PROVE  IInv'
<1>1. /\ TypeOK /\ IndexInv(p) /\ ProducerInv(p) /\ Top(p) \in Int /\ Linked(p) \in Nat
      /\ Capacity(Table(p)) \in Nat /\ Capacity(Table(p)) >= 2
  BY NumbersTyped, TableTyped DEF IInv, Inv
<1>2. PICK k \in Int, n \in Nat : k = Top(p) /\ n = Capacity(Table(p)) /\ n >= 2
  BY <1>1
<1>3. /\ pc[p] = "turn" /\ Turned(p, 1) /\ Go(p, "pool", reg[p])
      /\ UNCHANGED listVars /\ UNCHANGED <<sizes, entries, blocks, sources, todo>>
  BY DEF InsertTail, Then
<1>4. UNCHANGED <<tail, entries>> /\ pc'[p] = "pool" /\ reg'[p] = reg[p]
  BY <1>3, PublisherGoes DEF sizes
<1>5. ~Turning(p) /\ Turning(p)' /\ Linked(p)' = Linked(p) /\ Linked(p) = k + 1 /\ Top(p)' = k + 1
  <2>1. ~Turning(p) /\ Turning(p)' /\ Linked(p)' = Linked(p)
    BY <1>3, <1>4 DEF Turning, Linked
  <2>2. Linked(p) = k + 1
    BY <1>1, <1>2, <2>1 DEF Top
  <2> QED
    BY <2>1, <2>2 DEF Top
<1>6. /\ Window(p)' = (k + 1 - n + 1)..(k + 1)
      /\ \A m \in Int : /\ Entry(p, m)' = Entry(p, m) /\ Value(p, m)' = Value(p, m)
                        /\ Key(p, m)' = Key(p, m)
  BY <1>1, <1>2, <1>3, <1>4, <1>5, TurnedIndex
<1>7. PICK e : e = Entry(p, k + 1)
  OBVIOUS
<1>8. /\ tail[p] % BlockSize = 0 /\ reg[p].entry = e
      /\ Value(p, k + 1) = NoNode /\ Key(p, k + 1) = First(k + 1)
  <2>1. tail[p] % BlockSize = 0 /\ reg[p].entry = e
        /\ entries[p][e] = [key |-> First(k + 1), value |-> NoNode]
    BY <1>1, <1>2, <1>3, <1>7 DEF ProducerInv
  <2> QED
    BY <1>7, <2>1 DEF Value, Key
<1>9. IndexInv(p)'
  <2>1. ASSUME NEW m \in (k + 1 - n + 1)..(k + 1), Value(p, m)' # NoNode
        PROVE  m >= 0 /\ Key(p, m)' = First(m)
    <3>1. m \in Int /\ Value(p, m) # NoNode /\ m # k + 1
      BY <1>6, <1>8, <2>1
    <3>2. m \in Window(p)
      BY <1>2, <2>1, <3>1 DEF Window
    <3> QED
      BY <1>1, <1>6, <3>1, <3>2 DEF IndexInv
  <2>2. Key(p, k + 1)' = First(k + 1) /\ (k >= 0 => Key(p, k)' = First(k))
    BY <1>1, <1>2, <1>6, <1>8 DEF IndexInv
  <2>3. PICK j \in Int : j = k + 1 /\ j - 1 = k
    OBVIOUS
  <2> QED
    BY <1>5, <1>6, <2>1, <2>2, <2>3 DEF IndexInv
<1>10. ProducerInv(p)'
  <2>1. Entry(p, k + 1)' = e /\ Value(p, k + 1)' = NoNode
    BY <1>6, <1>7, <1>8
  <2>2. PICK j \in Int : j = k + 1
    OBVIOUS
  <2> QED
    BY <1>4, <1>5, <1>8, <2>1, <2>2 DEF ProducerInv
<1>11. ASSUME NEW m \in 0..(Linked(p) - 1) PROVE Present(p, m)' <=> Present(p, m)
  <2>1. m \in Int /\ m <= k /\ Value(p, m)' = Value(p, m)
    BY <1>1, <1>5, <1>6
  <2>2. m \in Window(p) <=> m >= k - n + 1
    BY <1>2, <2>1 DEF Window
  <2>3. m \in Window(p)' <=> m >= k + 1 - n + 1
    BY <1>2, <1>6, <2>1
  <2>4. m = k - n + 1 => Value(p, m) = NoNode
    <3>1. Entry(p, k + 1) = Entry(p, k + 1 - n)
      BY <1>1, <1>2, Entries
    <3>2. k + 1 - n = k - n + 1
      BY <1>2
    <3> QED
      BY <1>8, <3>1, <3>2 DEF Value
  <2>5. m \in Window(p)' => m \in Window(p)
    BY <1>2, <2>1, <2>2, <2>3
  <2>6. m \in Window(p) /\ m \notin Window(p)' => m = k - n + 1
    BY <1>2, <2>1, <2>2, <2>3
  <2> QED
    BY <2>1, <2>4, <2>5, <2>6 DEF Present
<1> QED
  BY <1>2, <1>3, <1>5, <1>9, <1>10, <1>11, TurnStep

(* Or it is given back. *)
LEMMA RewindKeeps ==
  ASSUME IInv, NEW p \in Producers, Rewind(p)
  PROVE  IInv'
<1>1. /\ TypeOK /\ IndexInv(p) /\ ProducerInv(p) /\ Top(p) \in Int /\ Linked(p) \in Nat
      /\ Capacity(Table(p)) \in Nat /\ Capacity(Table(p)) >= 2
  BY NumbersTyped, TableTyped DEF IInv, Inv
<1>2. PICK k \in Int, n \in Nat : k = Top(p) /\ n = Capacity(Table(p)) /\ n >= 2
  BY <1>1
<1>3. /\ pc[p] = "rewind" /\ Turned(p, n - 1) /\ Go(p, "drop", reg[p])
      /\ UNCHANGED listVars /\ UNCHANGED <<sizes, entries, blocks, sources, todo>>
  BY <1>2 DEF Rewind, Then
<1>4. UNCHANGED <<tail, entries>> /\ pc'[p] = "drop" /\ reg'[p] = reg[p]
  BY <1>3, PublisherGoes DEF sizes
<1>5. Turning(p) /\ ~Turning(p)' /\ Linked(p)' = Linked(p) /\ Linked(p) = k /\ Top(p)' = k - 1
  <2>1. Turning(p) /\ ~Turning(p)' /\ Linked(p)' = Linked(p)
    BY <1>3, <1>4 DEF Turning, Linked
  <2>2. Linked(p) = k
    BY <1>1, <1>2, <2>1 DEF Top
  <2> QED
    BY <2>1, <2>2 DEF Top
<1>6. /\ Window(p)' = (k - 1 - n + 1)..(k - 1)
      /\ \A m \in Int : /\ Entry(p, m)' = Entry(p, m) /\ Value(p, m)' = Value(p, m)
                        /\ Key(p, m)' = Key(p, m)
  <2>1. PICK d \in Int, o \in Int : d = -1 /\ o = n - 1 /\ o = d + n /\ k + d = k - 1
    BY <1>2
  <2>2. o = d \/ o = d + Capacity(Table(p))
    BY <1>2, <2>1
  <2>3. Turned(p, o) /\ Top(p)' = k + d /\ entries' = entries
    BY <1>3, <1>4, <1>5, <2>1
  <2> QED
    BY <1>1, <1>2, <2>1, <2>2, <2>3, TurnedIndex
<1>7. tail[p] % BlockSize = 0 /\ reg[p].entry = Entry(p, k) /\ Value(p, k) = NoNode
  BY <1>1, <1>2, <1>5 DEF ProducerInv
<1>8. Value(p, k - n) = NoNode
  <2>1. PICK h : h = Table(p)
    OBVIOUS
  <2>2. h.tail \in Int /\ Capacity(h) = n /\ n >= 1
    BY <1>1, <1>2, <2>1, TableTyped
  <2>3. Cell(h, h.tail, 0 - n) = Cell(h, h.tail, 0)
    BY <2>2, Cells
  <2>4. k - n - k = 0 - n /\ k - k = 0
    BY <1>2
  <2>5. Entry(p, k - n) = Entry(p, k)
    BY <1>2, <2>1, <2>3, <2>4 DEF Entry
  <2> QED
    BY <1>7, <2>5 DEF Value
<1>9. IndexInv(p)'
  <2>1. ASSUME NEW m \in (k - 1 - n + 1)..(k - 1), Value(p, m)' # NoNode
        PROVE  m >= 0 /\ Key(p, m)' = First(m)
    <3>1. m \in Int /\ Value(p, m) # NoNode
      BY <1>2, <1>6, <2>1
    <3>2. m # k - n
      <4>1. Value(p, k - n) = NoNode
        BY <1>8
      <4> QED
        BY <3>1, <4>1
    <3>3. m \in Window(p)
      BY <1>2, <2>1, <3>1, <3>2 DEF Window
    <3> QED
      BY <1>1, <1>6, <3>1, <3>3 DEF IndexInv
  <2>2. PICK j \in Int : j = k - 1
    OBVIOUS
  <2>3. j >= 0 => Key(p, j)' = First(j)
    <3>1. j >= 0 => k >= 1
      BY <2>2
    <3> QED
      BY <1>1, <1>2, <1>5, <1>6, <2>2, <3>1 DEF IndexInv
  <2> QED
    BY <1>5, <1>6, <2>1, <2>2, <2>3 DEF IndexInv
<1>10. ProducerInv(p)'
  <2>1. Entry(p, k)' = Entry(p, k) /\ Value(p, k)' = NoNode
    BY <1>6, <1>7
  <2>2. PICK j \in Int : j = k - 1 /\ j + 1 = k
    OBVIOUS
  <2>3. entries'[p][reg[p].entry].value = NoNode
    BY <1>4, <1>7 DEF Value
  <2> QED
    BY <1>4, <1>5, <1>7, <2>1, <2>2, <2>3 DEF ProducerInv
<1>11. ASSUME NEW m \in 0..(Linked(p) - 1) PROVE Present(p, m)' <=> Present(p, m)
  <2>1. m \in Int /\ m <= k - 1 /\ Value(p, m)' = Value(p, m)
    BY <1>1, <1>5, <1>6
  <2>2. m \in Window(p) <=> m >= k - n + 1
    BY <1>2, <2>1 DEF Window
  <2>3. m \in Window(p)' <=> m >= k - n
    BY <1>2, <1>6, <2>1
  <2>4. m = k - n => Value(p, m) = NoNode
    BY <1>8
  <2>5. m \in Window(p) => m \in Window(p)'
    BY <1>2, <2>1, <2>2, <2>3
  <2>6. m \in Window(p)' /\ m \notin Window(p) => m = k - n
    BY <1>2, <2>1, <2>2, <2>3
  <2> QED
    BY <2>1, <2>4, <2>5, <2>6 DEF Present
<1>12. PICK d \in Int, o \in Int : d = -1 /\ o = n - 1 /\ o = d + n /\ k + d = k - 1
  BY <1>2
<1>13. o = d \/ o = d + Capacity(Table(p))
  BY <1>2, <1>12
<1>14. Turned(p, o) /\ Top(p)' = k + d
  BY <1>3, <1>5, <1>12
<1> QED
  BY <1>2, <1>3, <1>5, <1>9, <1>10, <1>11, <1>13, <1>14, TurnStep


(* And left free. *)
LEMMA DropKeeps ==
  ASSUME IInv, NEW p \in Producers, Drop(p)
  PROVE  IInv'
<1>1. /\ TypeOK /\ ProducerInv(p) /\ Top(p) \in Int /\ todo \in [Threads -> Nat]
      /\ p \in Threads /\ pc[p] = "drop" /\ todo[p] > 0
  BY Constants, NumbersTyped DEF IInv, Inv, TypeOK, WorkTyped, Drop
<1>2. PICK e : e = reg[p].entry
  OBVIOUS
<1>3. e \in DOMAIN entries[p] /\ entries[p][e].value = NoNode
  <2>1. e = Entry(p, Top(p) + 1) /\ entries[p][e].value = NoNode
    BY <1>1, <1>2 DEF ProducerInv
  <2>2. PICK k \in Int : k = Top(p) + 1
    BY <1>1
  <2> QED
    BY <1>1, <2>1, <2>2, Entries
<1>4. /\ entries' = [entries EXCEPT ![p][e].value = NoNode] /\ Go(p, "idle", Blank)
      /\ todo' = [todo EXCEPT ![p] = @ - 1]
      /\ UNCHANGED listVars /\ UNCHANGED <<sizes, tables, blocks, sources>>
  BY <1>2 DEF Drop
<1>5. entries' = entries
  <2>1. entries \in [Producers -> Seq(EntryType)] /\ entries[p] \in Seq(EntryType)
    BY <1>1 DEF TypeOK, IndexTyped
  <2>2. PICK r \in EntryType : r = entries[p][e]
    BY <1>3, <2>1
  <2>3. [r EXCEPT !.value = NoNode] = r
    BY <1>3, <2>2 DEF EntryType
  <2>4. entries' = [entries EXCEPT ![p] = [entries[p] EXCEPT ![e] = r]]
    BY <1>4, <2>2, <2>3
  <2>5. [entries[p] EXCEPT ![e] = r] = entries[p]
    BY <1>3, <2>1, <2>2
  <2> QED
    BY <2>1, <2>4, <2>5
<1>6. /\ pc'[p] = "idle" /\ reg'[p] = Blank
      /\ \A q \in Producers \ {p} : /\ pc'[q] = pc[q] /\ reg'[q] = reg[q]
                                    /\ \A b : Requisitioned(q, b)' <=> Requisitioned(q, b)
  BY <1>4, PublisherGoes
<1>7. WorkTyped'
  <2>1. \A q \in Producers \ {p} : todo'[q] = todo[q]
    BY <1>1, <1>4, Constants
  <2>2. todo' \in [Threads -> Nat]
    BY <1>1, <1>4
  <2> QED
    BY <1>1, <1>6, <2>1, <2>2 DEF TypeOK, WorkTyped
<1>8. ~Turning(p) /\ ~Turning(p)' /\ Linked(p)' = Linked(p)
  <2>1. tail' = tail
    BY <1>4 DEF sizes
  <2> QED
    BY <1>1, <1>6, <2>1 DEF Turning, Linked
<1>9. ProducerInv(p)'
  BY <1>6, <1>8 DEF ProducerInv
<1>10. ListInv' /\ \A n \in Nodes : Placed(n)'
  <2>1. ListInv' /\ \A n : Inside(n)' <=> Inside(n)
    BY <1>4, ListKept DEF IInv
  <2>2. \A q \in Producers : \A b : Requisitioned(q, b)' <=> Requisitioned(q, b)
    BY <1>1, <1>6 DEF Requisitioned
  <2> QED
    BY <1>4, <1>5, <2>1, <2>2, PlacedKept DEF IInv
<1>11. SourcesTyped' /\ "idle" \in ProducerPlaces /\ Blank \in Registers
  BY <1>1, <1>4, BlankTyped, TypesKept DEF TypeOK, ProducerPlaces
<1> QED
  BY <1>4, <1>5, <1>7, <1>8, <1>9, <1>10, <1>11, ViewingStep

(* Without memory for a longer index nothing changes but what is left to publish. *)
LEMMA NoBlockIndexKeeps ==
  ASSUME IInv, NEW p \in Producers, NoBlockIndex(p)
  PROVE  IInv'
<1>1. /\ TypeOK /\ todo \in [Threads -> Nat] /\ p \in Threads /\ pc[p] = "index" /\ todo[p] > 0
  BY Constants DEF IInv, TypeOK, WorkTyped, NoBlockIndex
<1>2. /\ Go(p, "idle", Blank) /\ todo' = [todo EXCEPT ![p] = @ - 1]
      /\ UNCHANGED listVars /\ UNCHANGED <<sizes, tables, entries, blocks, sources>>
  BY DEF NoBlockIndex
<1>3. /\ pc'[p] = "idle" /\ reg'[p] = Blank
      /\ \A q \in Producers \ {p} : /\ pc'[q] = pc[q] /\ reg'[q] = reg[q]
                                    /\ \A b : Requisitioned(q, b)' <=> Requisitioned(q, b)
  BY <1>2, PublisherGoes
<1>4. WorkTyped'
  <2>1. \A q \in Producers \ {p} : todo'[q] = todo[q]
    BY <1>1, <1>2, Constants
  <2>2. todo' \in [Threads -> Nat]
    BY <1>1, <1>2
  <2> QED
    BY <1>1, <1>3, <2>1, <2>2 DEF TypeOK, WorkTyped
<1>5. ~Turning(p) /\ ~Turning(p)' /\ Linked(p)' = Linked(p)
  <2>1. tail' = tail
    BY <1>2 DEF sizes
  <2> QED
    BY <1>1, <1>3, <2>1 DEF Turning, Linked
<1>6. ProducerInv(p)'
  BY <1>3, <1>5 DEF ProducerInv
<1>7. ListInv' /\ \A n \in Nodes : Placed(n)'
  <2>1. ListInv' /\ \A n : Inside(n)' <=> Inside(n)
    BY <1>2, ListKept DEF IInv
  <2>2. \A q \in Producers : \A b : Requisitioned(q, b)' <=> Requisitioned(q, b)
    BY <1>1, <1>3 DEF Requisitioned
  <2> QED
    BY <1>2, <2>1, <2>2, PlacedKept DEF IInv
<1>8. SourcesTyped' /\ "idle" \in ProducerPlaces /\ Blank \in Registers
  BY <1>1, <1>2, BlankTyped, TypesKept DEF TypeOK, ProducerPlaces
<1> QED
  BY <1>2, <1>4, <1>5, <1>6, <1>7, <1>8, ViewingStep

(* The next index is in the same block, or the first of the next. *)
LEMMA NextIndex ==
  ASSUME NEW i \in Nat
  PROVE  Number(i + 1) + (IF (i + 1) % BlockSize # 0 THEN 1 ELSE 0) = Number(i) + 1
<1>1. PICK b \in Nat, q \in Int, r \in Nat :
        b = BlockSize /\ b >= 2 /\ q = i \div b /\ r = i % b /\ r < b /\ i = b * q + r
  <2>1. PICK b \in Nat : b = BlockSize /\ b >= 2 /\ b >= 1
    BY Constants
  <2>2. i % b \in 0..(b - 1) /\ i \div b \in Int /\ i = b * (i \div b) + (i % b)
    BY <2>1, Division
  <2> QED
    BY <2>1, <2>2
<1>2. b >= 1 /\ i + 1 \in Int /\ q + 1 \in Int
  BY <1>1
<1>3. PICK x \in Int : x = b * q
  BY <1>1
<1>4. CASE r = b - 1
  <2>1. b * (q + 1) = x + b
    BY <1>3
  <2>2. i + 1 = b * (q + 1) + 0 /\ 0 \in 0..(b - 1)
    BY <1>1, <1>3, <1>4, <2>1
  <2>3. (i + 1) \div b = q + 1 /\ (i + 1) % b = 0
    BY <1>2, <2>2, Quotient
  <2> QED
    BY <1>1, <2>3 DEF Number
<1>5. CASE r # b - 1
  <2>1. r + 1 \in 0..(b - 1) /\ i + 1 = b * q + (r + 1) /\ r + 1 # 0
    BY <1>1, <1>3, <1>5
  <2>2. (i + 1) \div b = q /\ (i + 1) % b = r + 1
    BY <1>2, <2>1, Quotient
  <2> QED
    BY <1>1, <2>1, <2>2 DEF Number
<1> QED
  BY <1>4, <1>5

(* What is found through the indices is the same when an element is put in its block. *)
LEMMA PutView ==
  ASSUME IInv, NEW p \in Producers, Put(p)
  PROVE  ~Turning(p)' /\ \A q \in Producers : SameView(q)
<1>1. pc[p] = "put" /\ tail \in [Producers -> Nat]
  BY DEF IInv, TypeOK, SizesTyped, Put
<1>2. /\ tail' = [tail EXCEPT ![p] = @ + 1] /\ Go(p, "idle", Blank)
      /\ UNCHANGED <<tables, entries, tailBlock>>
  BY DEF Put
<1>3. pc'[p] = "idle" /\ \A q \in Producers \ {p} : pc'[q] = pc[q] /\ reg'[q] = reg[q]
  BY <1>2, PublisherGoes
<1>4. tail'[p] = tail[p] + 1 /\ \A q \in Producers \ {p} : tail'[q] = tail[q]
  BY <1>1, <1>2
<1>5. ~Turning(p) /\ ~Turning(p)' /\ Linked(p)' = Linked(p)
  <2>1. ~Turning(p) /\ ~Turning(p)'
    BY <1>1, <1>3 DEF Turning
  <2>2. PICK i \in Nat, j \in Nat : i = tail[p] /\ j = i + 1 /\ tail'[p] = j
    BY <1>1, <1>4
  <2>3. Linked(p) = Number(i) + 1
    BY <1>1, <2>2 DEF Linked
  <2>4. Linked(p)' = Number(j) + (IF j % BlockSize # 0 THEN 1 ELSE 0)
    BY <1>3, <2>2 DEF Linked, Number
  <2> QED
    BY <2>1, <2>2, <2>3, <2>4, NextIndex
<1>6. SameView(p)
  <2>1. Top(p)' = Top(p)
    BY <1>5 DEF Top
  <2> QED
    BY <1>2, <1>5, <2>1 DEF SameView, SameIndex
<1>7. ASSUME NEW q \in Producers \ {p} PROVE SameView(q)
  BY <1>2, <1>3, <1>4, UntouchedSame DEF Untouched
<1> QED
  BY <1>5, <1>6, <1>7

(* An element is put in the tail block, and shown. *)
LEMMA PutKeeps ==
  ASSUME IInv, NEW p \in Producers, Put(p)
  PROVE  IInv'
<1>1. /\ TypeOK /\ BlocksInv(p) /\ todo \in [Threads -> Nat] /\ tail \in [Producers -> Nat]
      /\ p \in Threads /\ pc[p] = "put" /\ todo[p] > 0 /\ tail[p] \in Nat
  BY Constants DEF IInv, Inv, TypeOK, WorkTyped, SizesTyped, Put
<1>2. /\ elements' = [elements EXCEPT ![tailBlock[p]][tail[p] % BlockSize] = <<p, todo[p]>>]
      /\ tail' = [tail EXCEPT ![p] = @ + 1] /\ todo' = [todo EXCEPT ![p] = @ - 1]
      /\ Go(p, "idle", Blank) /\ UNCHANGED listVars
      /\ UNCHANGED <<head, optimistic, overcommit, tables, entries, tailBlock, dequeued, sources>>
  BY DEF Put
<1>3. /\ pc'[p] = "idle" /\ reg'[p] = Blank
      /\ \A q \in Producers \ {p} : /\ pc'[q] = pc[q] /\ reg'[q] = reg[q]
                                    /\ \A b : Requisitioned(q, b)' <=> Requisitioned(q, b)
  BY <1>2, PublisherGoes
<1>4. WorkTyped'
  <2>1. \A q \in Producers \ {p} : todo'[q] = todo[q]
    BY <1>1, <1>2, Constants
  <2>2. todo' \in [Threads -> Nat]
    BY <1>1, <1>2
  <2> QED
    BY <1>1, <1>3, <2>1, <2>2 DEF TypeOK, WorkTyped
<1>5. /\ tail' \in [Producers -> Nat] /\ tail'[p] = tail[p] + 1
      /\ \A q \in Producers \ {p} : tail'[q] = tail[q]
  BY <1>1, <1>2
<1>6. ~Turning(p)' /\ SameView(p)
  BY PutView
<1>8. \A c \in Consumers : pc'[c] = pc[c] /\ reg'[c] = reg[c] /\ SameWork(c)
  <2>1. \A c \in Consumers : pc'[c] = pc[c] /\ reg'[c] = reg[c]
    BY <1>1, <1>2, Constants, GoEffect DEF TypeOK
  <2> QED
    BY <2>1 DEF SameWork
<1>9. IndexInv(p)' /\ BlocksInv(p)'
  BY <1>1, <1>2, <1>6, <1>8, IndexKept, BlocksKept DEF IInv, Inv
<1>10. ProducerInv(p)'
  BY <1>3, <1>6 DEF ProducerInv
<1>11. \A q \in Producers : SameView(q) /\ head[q] <= head'[q] /\ head'[q] \in Nat
  BY <1>1, <1>2, PutView DEF TypeOK, SizesTyped
<1>12. \A c \in Consumers : ConsumerInv(c)'
  BY <1>8, <1>11, ViewedConsumer
<1>13. BlocksTyped'
  <2>1. tailBlock[p] \in Nodes
    <3>1. Linked(p) >= 1
      BY <1>1, TailBlock
    <3>2. Linked(p) \in Nat
      BY <1>1, NumbersTyped
    <3> QED
      BY <1>1, <3>1, <3>2 DEF BlocksInv
  <2>2. PICK b \in Nodes, i \in 0..BlockSize - 1, x \in MaybeItem :
          b = tailBlock[p] /\ i = tail[p] % BlockSize /\ x = <<p, todo[p]>>
    <3>1. tail[p] % BlockSize \in 0..(BlockSize - 1)
      BY <1>1, InItsBlock
    <3>2. <<p, todo[p]>> \in MaybeItem
      BY <1>1 DEF MaybeItem, Items
    <3> QED
      BY <2>1, <3>1, <3>2
  <2>3. elements' = [elements EXCEPT ![b][i] = x]
    BY <1>2, <2>2
  <2>4. elements \in [Nodes -> [0..BlockSize - 1 -> MaybeItem]]
    BY <1>1 DEF TypeOK, BlocksTyped
  <2>5. elements' \in [Nodes -> [0..BlockSize - 1 -> MaybeItem]]
    BY <2>2, <2>3, <2>4
  <2> QED
    BY <1>1, <1>2, <2>5 DEF TypeOK, BlocksTyped
<1>14. ListInv' /\ \A n \in Nodes : Placed(n)'
  <2>1. ListInv' /\ \A n : Inside(n)' <=> Inside(n)
    BY <1>2, ListKept DEF IInv
  <2>2. \A q \in Producers : \A b : Requisitioned(q, b)' <=> Requisitioned(q, b)
    BY <1>1, <1>3 DEF Requisitioned
  <2> QED
    BY <1>2, <2>1, <2>2, PlacedKept DEF IInv
<1>15. IndexTyped' /\ SourcesTyped' /\ "idle" \in ProducerPlaces /\ Blank \in Registers
  BY <1>1, <1>2, BlankTyped, TypesKept DEF TypeOK, ProducerPlaces
<1>16. tail[p] <= tail'[p]
  BY <1>1, <1>5
<1> QED
  BY <1>2, <1>4, <1>5, <1>9, <1>10, <1>12, <1>13, <1>14, <1>15, <1>16, ProducerStep

(* The block is linked: it is the one that the tail of the index refers to. *)
LEMMA LinkBlockKeeps ==
  ASSUME IInv, NEW p \in Producers, LinkBlock(p)
  PROVE  IInv'
<1>1. /\ TypeOK /\ IndexInv(p) /\ ProducerInv(p) /\ BlocksInv(p) /\ ClaimsInv(p)
      /\ p \in Threads /\ pc[p] = "link" /\ tail[p] \in Nat /\ head[p] \in Nat
      /\ Top(p) \in Int /\ Linked(p) \in Nat
  BY Constants, NumbersTyped DEF IInv, Inv, TypeOK, SizesTyped, LinkBlock
<1>2. Turning(p) /\ Linked(p) = Top(p)
  BY <1>1 DEF Turning, Top
<1>3. PICK k, b, e : /\ k \in Nat /\ k = Top(p)
                     /\ b \in Nodes /\ b = reg[p].block /\ e = reg[p].entry
  BY <1>1, <1>2 DEF ProducerInv
<1>4. /\ tail[p] % BlockSize = 0 /\ e = Entry(p, k) /\ Value(p, k) = NoNode /\ tail[p] = First(k)
      /\ e \in DOMAIN entries[p] /\ entries[p][e].value = NoNode /\ k \in Window(p)
      /\ \A m \in Window(p) : m \in Int /\ (Entry(p, m) = e => m = k)
  <2>1. tail[p] % BlockSize = 0 /\ e = Entry(p, k) /\ Value(p, k) = NoNode
    BY <1>1, <1>2, <1>3 DEF ProducerInv
  <2>2. tail[p] = First(k)
    BY <1>1, <1>2, <1>3, <2>1, TailBlock
  <2>3. e \in DOMAIN entries[p] /\ k \in Window(p)
    BY <1>1, <1>3, <2>1, Entries
  <2>4. \A m \in Window(p) : m \in Int /\ (Entry(p, m) = e => m = k)
    BY <1>1, <2>1, <2>3, Entries
  <2> QED
    BY <2>1, <2>2, <2>3, <2>4 DEF Value
<1>5. /\ entries' = [entries EXCEPT ![p][e].value = b]
      /\ dequeued' = [dequeued EXCEPT ![b] = 0] /\ tailBlock' = [tailBlock EXCEPT ![p] = b]
      /\ Go(p, "put", Blank) /\ UNCHANGED listVars
      /\ UNCHANGED <<sizes, tables, elements, sources, todo>>
      /\ UNCHANGED <<tail, head, optimistic, overcommit>>
  BY <1>3 DEF LinkBlock, sizes
<1>6. /\ pc'[p] = "put" /\ reg'[p] = Blank /\ WorkTyped'
      /\ \A q \in Producers \ {p} : \A n : Requisitioned(q, n)' <=> Requisitioned(q, n)
  BY <1>1, <1>5, PublisherGoes
<1>7. /\ IndexTyped' /\ entries'[p][e] = [key |-> entries[p][e].key, value |-> b]
      /\ DOMAIN entries'[p] = DOMAIN entries[p]
      /\ \A f \in DOMAIN entries[p] \ {e} : entries'[p][f] = entries[p][f]
      /\ \A q \in Producers \ {p} : entries'[q] = entries[q]
  <2>1. b \in MaybeNode /\ tables' = tables
    BY <1>3, <1>5 DEF MaybeNode
  <2> QED
    BY <1>1, <1>4, <1>5, <2>1, ValueStored
<1>8. /\ b # NoNode /\ dequeued'[b] = 0 /\ \A n \in Nodes \ {b} : dequeued'[n] = dequeued[n]
      /\ tailBlock'[p] = b /\ \A q \in Producers \ {p} : tailBlock'[q] = tailBlock[q]
      /\ BlocksTyped'
  BY <1>1, <1>3, <1>5, ListAssumption DEF TypeOK, BlocksTyped, MaybeNode
<1>9. /\ ~Turning(p)' /\ Linked(p)' = k + 1 /\ Top(p)' = k /\ Window(p)' = Window(p)
      /\ \A n : Entry(p, n)' = Entry(p, n)
  <2>1. ~Turning(p)'
    BY <1>6 DEF Turning
  <2>2. PICK i : i = tail[p]
    OBVIOUS
  <2>3. Linked(p) = Number(i) /\ tail'[p] = i /\ i \in Nat
    <3>1. Number(i) + 0 = Number(i)
      BY <1>1, <2>2, InItsBlock
    <3> QED
      BY <1>1, <1>4, <1>5, <2>2, <3>1 DEF Linked
  <2>4. Linked(p)' = k + 1
    BY <1>2, <1>3, <1>6, <2>3 DEF Linked, Number
  <2>5. Top(p)' = k
    BY <1>3, <2>1, <2>4 DEF Top
  <2>6. Table(p)' = Table(p)
    BY <1>5 DEF Table
  <2>7. Window(p)' = Window(p)
    BY <1>3, <2>5, <2>6 DEF Window, Capacity
  <2>8. \A n : Entry(p, n)' = Entry(p, n)
    BY <1>3, <2>5, <2>6 DEF Entry, Cell, Capacity
  <2> QED
    BY <2>1, <2>4, <2>5, <2>7, <2>8
<1>10. ASSUME NEW n \in Int
       PROVE  /\ Key(p, n)' = Key(p, n)
              /\ Entry(p, n) # e => Value(p, n)' = Value(p, n)
  <2>1. Entry(p, n) \in DOMAIN entries[p]
    BY <1>1, Entries
  <2> QED
    BY <1>7, <1>9, <2>1 DEF Value, Key
<1>11. Value(p, k)' = b
  BY <1>4, <1>7, <1>9 DEF Value
<1>12. IndexInv(p)'
  <2>1. Key(p, k)' = First(k)
    BY <1>1, <1>3, <1>10 DEF IndexInv
  <2>2. ASSUME NEW n \in Window(p), Value(p, n)' # NoNode PROVE n >= 0 /\ Key(p, n)' = First(n)
    <3>1. CASE n = k
      BY <1>3, <2>1, <3>1
    <3>2. CASE n # k
      <4>1. n \in Int /\ Value(p, n)' = Value(p, n) /\ Key(p, n)' = Key(p, n)
        BY <1>4, <1>10, <3>2
      <4> QED
        BY <1>1, <2>2, <4>1 DEF IndexInv
    <3> QED
      BY <3>1, <3>2
  <2> QED
    BY <1>9, <2>1, <2>2 DEF IndexInv
<1>13. ProducerInv(p)'
  BY <1>6, <1>9 DEF ProducerInv
<1>14. \A c \in Consumers : pc'[c] = pc[c] /\ reg'[c] = reg[c] /\ SameWork(c)
  <2>1. \A c \in Consumers : pc'[c] = pc[c] /\ reg'[c] = reg[c]
    BY <1>1, <1>5, Constants, GoEffect DEF TypeOK
  <2> QED
    BY <2>1 DEF SameWork
<1>15. /\ Requisitioned(p, b)
       /\ ~InPool(b) /\ b \in 1..Made /\ ~Inside(b)
       /\ \A q \in Producers \ {p} : ~Requisitioned(q, b)
       /\ \A q \in Producers : \A f \in DOMAIN entries[q] : ~InSub(b, q, f)
  <2>1. Requisitioned(p, b)
    BY <1>1, <1>3 DEF Requisitioned
  <2>2. Placed(b)
    BY <1>3 DEF IInv
  <2> QED
    BY <2>1, <2>2 DEF Placed
<1>16. ASSUME NEW q \in Producers, NEW m, Present(q, m)
       PROVE  Value(q, m) # b /\ dequeued'[Value(q, m)] = dequeued[Value(q, m)]
  <2>1. m \in Window(q) /\ Value(q, m) # NoNode
    BY <1>16 DEF Present
  <2>2. m \in Int /\ Entry(q, m) \in DOMAIN entries[q]
    BY <1>1, <2>1, Entries
  <2>3. Value(q, m) \in Nodes
    <3>1. entries[q] \in Seq(EntryType)
      BY <1>1 DEF TypeOK, IndexTyped
    <3>2. entries[q][Entry(q, m)] \in EntryType
      BY <2>2, <3>1
    <3> QED
      BY <2>1, <3>2 DEF Value, EntryType, MaybeNode
  <2>4. Value(q, m) # b
    BY <1>15, <2>2 DEF InSub, Value
  <2> QED
    BY <1>8, <2>3, <2>4
<1>17. ASSUME NEW m \in 0..(k - 1)
       PROVE  /\ Present(p, m)' <=> Present(p, m)
              /\ m \in Window(p) => Value(p, m)' = Value(p, m)
  <2>1. m \in Int /\ m # k
    BY <1>3
  <2>2. m \in Window(p) => Value(p, m)' = Value(p, m)
    BY <1>4, <1>10, <2>1
  <2> QED
    BY <1>9, <2>2 DEF Present
<1>18. ASSUME NEW c \in Consumers PROVE c \notin Emptying(p, k) /\ ~Unlinks(c, p, k)
  <2> SUFFICES ASSUME c \in Emptying(p, k) \/ Unlinks(c, p, k) PROVE FALSE
    OBVIOUS
  <2>1. pc[c] \in Looking \cup {"unlink"} /\ reg[c].sub = p /\ Number(reg[c].index) = k
    BY DEF Emptying, Unlinks, InBlock
  <2>2. k \in 0..(Linked(p) - 1)
    BY <2>1, Working
  <2> QED
    BY <1>2, <1>3, <2>2
<1>19. BlocksInv(p)'
  <2>1. /\ \A m : Emptying(p, m)' = Emptying(p, m)
        /\ \A c \in Consumers : \A m : Unlinks(c, p, m)' <=> Unlinks(c, p, m)
        /\ \A m : GivenOut(p, m)' = GivenOut(p, m)
    <3>1. \A m : GivenOut(p, m)' = GivenOut(p, m)
      BY <1>5 DEF GivenOut
    <3> QED
      BY <1>14, <3>1, WorkSame
  <2>2. ASSUME NEW m \in 0..(k - 1) PROVE IF Present(p, m)' THEN Counting(p, m)' ELSE Gone(p, m)'
    <3>1. IF Present(p, m) THEN Counting(p, m) ELSE Gone(p, m)
      BY <1>1, <1>2, <1>3 DEF BlocksInv
    <3>2. CASE Present(p, m)
      <4>1. Value(p, m)' = Value(p, m) /\ dequeued'[Value(p, m)] = dequeued[Value(p, m)]
        BY <1>16, <1>17, <3>2 DEF Present
      <4>2. dequeued'[Value(p, m)'] = dequeued[Value(p, m)]
        BY <4>1
      <4>3. Counting(p, m)'
        BY <2>1, <3>1, <3>2, <4>2 DEF Counting
      <4> QED
        BY <1>17, <3>2, <4>3
    <3>3. CASE ~Present(p, m)
      <4>1. Gone(p, m)'
        BY <1>5, <2>1, <3>1, <3>3 DEF Gone
      <4> QED
        BY <1>17, <3>3, <4>1
    <3> QED
      BY <3>2, <3>3
  <2>3. Present(p, k)' /\ Counting(p, k)'
    <3>1. Present(p, k)'
      BY <1>4, <1>8, <1>9, <1>11 DEF Present
    <3>2. Emptying(p, k) = {} /\ \A c \in Consumers : ~Unlinks(c, p, k)
      <4>1. Emptying(p, k) \subseteq Consumers
        BY DEF Emptying
      <4> QED
        BY <1>18, <4>1
    <3>3. GivenOut(p, k) = 0
      <4>1. head[p] <= tail[p]
        <5>1. Won(p) <= tail[p] /\ Cardinality(At(p, "index")) \in Nat
          BY <1>1, Counts DEF ClaimsInv
        <5> QED
          BY <1>1, <5>1 DEF Won
      <4>2. First(k) \in Nat /\ BlockSize \in Nat /\ BlockSize >= 2
        BY <1>1, <1>4, Constants
      <4> QED
        BY <1>1, <1>4, <4>1, <4>2 DEF GivenOut
    <3>4. Cardinality(Emptying(p, k)') = 0
      BY <2>1, <3>2, FS_EmptySet
    <3>5. dequeued'[Value(p, k)'] = 0 /\ GivenOut(p, k)' = 0 /\ BlockSize # 0
      BY <1>8, <1>11, <2>1, <3>3, Constants
    <3>6. \A c \in Consumers : ~Unlinks(c, p, k)'
      BY <2>1, <3>2
    <3> QED
      BY <3>1, <3>4, <3>5, <3>6 DEF Counting
  <2>4. PICK j : j = k + 1
    OBVIOUS
  <2>5. j > 0 /\ j - 1 = k /\ Linked(p)' = j /\ \A m \in 0..(j - 1) : m \in 0..(k - 1) \/ m = k
    BY <1>3, <1>9, <2>4
  <2>6. ASSUME NEW m \in 0..(Linked(p)' - 1)
        PROVE  IF Present(p, m)' THEN Counting(p, m)' ELSE Gone(p, m)'
    <3>1. m \in 0..(k - 1) \/ m = k
      BY <2>5
    <3>2. CASE m \in 0..(k - 1)
      BY <2>2, <3>2
    <3>3. CASE m = k
      BY <2>3, <3>3
    <3> QED
      BY <3>1, <3>2, <3>3
  <2>7. /\ tailBlock'[p] \in Nodes /\ Linked(p)' # 0 /\ Linked(p)' - 1 = k
        /\ tailBlock'[p] = Value(p, k)'
    BY <1>3, <1>8, <1>11, <2>5
  <2>8. (tailBlock[p] = Value(p, Linked(p) - 1))'
    BY <2>7
  <2> QED
    BY <2>6, <2>7, <2>8 DEF BlocksInv
<1>20. ASSUME NEW m \in 0..(Linked(p) - 1), Present(p, m)
       PROVE  Stays(p, m) /\ Value(p, m)' = Value(p, m)
  <2>1. m \in 0..(k - 1) /\ m \in Window(p) /\ m \in Int
    BY <1>2, <1>3, <1>20 DEF Present
  <2>2. \A n \in m..Linked(p) : n \in Int
    BY <1>1
  <2>3. Linked(p) <= Linked(p)'
    BY <1>2, <1>3, <1>9
  <2> QED
    BY <1>9, <1>10, <1>17, <2>1, <2>2, <2>3 DEF Stays
<1>21. \A c \in Consumers : reg[c].sub = p /\ pc[c] \in Looking \cup {"unlink"} => ConsumerInv(c)'
  <2>1. Linked(p)' \in Int /\ tables'[p] = tables[p] /\ head' = head
    BY <1>3, <1>5, <1>9
  <2> QED
    BY <1>14, <1>20, <2>1, OwnConsumer
<1>22. ListInv' /\ \A n : Inside(n)' <=> Inside(n)
  BY <1>5, ListKept DEF IInv
<1>23. /\ \A n : ~Requisitioned(p, n)' /\ (Requisitioned(p, n) <=> n = b)
       /\ Made' = Made /\ \A n : InPool(n)' <=> InPool(n)
       /\ \A q \in Producers : DOMAIN entries'[q] = DOMAIN entries[q]
  BY <1>1, <1>3, <1>5, <1>6, <1>7 DEF Requisitioned, Made, InPool, sources
<1>24. Placed(b)'
  <2>1. ASSUME NEW q \in Producers, NEW f \in DOMAIN entries[q]
        PROVE  InSub(b, q, f)' <=> q = p /\ f = e
    BY <1>4, <1>7, <1>8, <1>15 DEF InSub
  <2>2. \A q \in Producers : ~Requisitioned(q, b)'
    BY <1>6, <1>15, <1>23
  <2>3. ~InPool(b)' /\ b \in 1..Made' /\ ~Inside(b)'
    BY <1>15, <1>22, <1>23
  <2> QED
    BY <1>4, <1>23, <2>1, <2>2, <2>3 DEF Placed
<1>25. ASSUME NEW n \in Nodes, n # b PROVE Placed(n)'
  <2>1. Placed(n)
    BY DEF IInv
  <2>2. \A q \in Producers : Requisitioned(q, n)' <=> Requisitioned(q, n)
    BY <1>6, <1>23, <1>25
  <2>3. ASSUME NEW q \in Producers, NEW f
        PROVE  InSub(n, q, f)' <=> InSub(n, q, f)
    BY <1>4, <1>7, <1>25, ListAssumption DEF InSub
  <2> QED
    BY <1>5, <1>22, <2>1, <2>2, <2>3, PlacedFollow
<1>26. SourcesTyped' /\ tail' \in [Producers -> Nat] /\ tail[p] <= tail'[p]
       /\ "put" \in ProducerPlaces /\ Blank \in Registers
  BY <1>1, <1>5, BlankTyped, TypesKept DEF TypeOK, SizesTyped, ProducerPlaces
<1> QED
  BY <1>5, <1>6, <1>7, <1>8, <1>12, <1>13, <1>16, <1>19, <1>21, <1>22, <1>24, <1>25, <1>26,
     ProducerStep


(* A sequence made of a function, and one made of two that are as long. *)
LEMMA Tabulated ==
  ASSUME NEW S, NEW n \in Nat, NEW f \in [1..n -> S]
  PROVE  f \in Seq(S) /\ Len(f) = n /\ DOMAIN f = 1..n
OBVIOUS

IsJoined(x, y, z, n) ==
  /\ Len(x) = n + n /\ DOMAIN x = 1..(n + n)
  /\ \A i \in 1..n : x[i] = y[i] /\ x[n + i] = z[i]

(* Two sequences of one length, one after the other. *)
LEMMA Joined ==
  ASSUME NEW S, NEW n \in Nat, NEW y \in Seq(S), Len(y) = n, NEW z \in Seq(S), Len(z) = n
  PROVE  y \o z \in Seq(S) /\ IsJoined(y \o z, y, z, n)
<1>1. y \o z \in Seq(S) /\ Len(y \o z) = n + n /\ DOMAIN (y \o z) = 1..(n + n)
  BY ConcatProperties, LenProperties
<1>2. ASSUME NEW i \in 1..n PROVE (y \o z)[i] = y[i] /\ (y \o z)[n + i] = z[i]
  <2>1. /\ i \in 1..(Len(y) + Len(z)) /\ n + i \in 1..(Len(y) + Len(z))
        /\ i <= Len(y) /\ ~(n + i <= Len(y)) /\ (n + i) - Len(y) = i
    OBVIOUS
  <2> QED
    BY <2>1, ConcatProperties
<1> QED
  BY <1>1, <1>2 DEF IsJoined

(* The table that is twice as long, at first: its first half are the entries of the
   blocks, in order, and its second half is new.                                    *)
IsDoubled(p, g, k, n) ==
  /\ g \in TableType /\ Capacity(g) = n + n /\ g.tail = n - 1
  /\ \A i \in 1..n : g.index[i] = Entry(p, (k + i) - n) /\ g.index[i] \in 1..n
  /\ \A i \in 1..n : g.index[n + i] = n + i
  /\ \A i, j \in 1..n : g.index[i] = g.index[j] => i = j
  /\ \A e \in 1..n : \E i \in 1..n : g.index[i] = e

(* The table twice as long has the old entries in order, and then the new ones. *)
LEMMA DoubledTable ==
  ASSUME TypeOK, NEW p \in Producers, NEW k \in Int, k = Top(p), NEW n \in Nat,
         n = Capacity(Table(p)), NEW g, g = Doubled(Table(p))
  PROVE  IsDoubled(p, g, k, n)
<1>1. PICK h : h = Table(p)
  OBVIOUS
<1>2. /\ h.index \in Seq(Nat) /\ Capacity(h) = n /\ n >= 2 /\ n >= 1 /\ h.tail \in Int
      /\ DOMAIN entries[p] = 1..n
  BY <1>1, TableTyped
<1>3. ASSUME NEW i \in 1..n
      PROVE  /\ Cell(h, h.tail, i) = Entry(p, (k + i) - n) /\ Cell(h, h.tail, i) \in 1..n
             /\ (k + i) - n \in Window(p)
  <2>1. Cell(h, h.tail, i) = Cell(h, h.tail, i - n)
    BY <1>2, Cells
  <2>2. ((k + i) - n) - k = i - n /\ (k + i) - n \in Int
    BY <1>2
  <2>3. Entry(p, (k + i) - n) = Cell(h, h.tail, i - n)
    BY <1>1, <2>2 DEF Entry
  <2>4. Entry(p, (k + i) - n) \in 1..n
    BY <1>2, <2>2, Entries
  <2>5. (k + i) - n \in Window(p)
    BY <1>1, <1>2 DEF Window
  <2> QED
    BY <2>1, <2>3, <2>4, <2>5
<1>4. PICK o, f : o = [i \in 1..n |-> Cell(h, h.tail, i)] /\ f = [i \in 1..n |-> n + i]
  OBVIOUS
<1>5. g = [tail |-> n - 1, index |-> o \o f]
  BY <1>1, <1>2, <1>4 DEF Doubled, Ahead, Cell
<1>6. /\ o \in Seq(Nat) /\ Len(o) = n /\ f \in Seq(Nat) /\ Len(f) = n
      /\ \A i \in 1..n : o[i] = Cell(h, h.tail, i) /\ f[i] = n + i
  <2>1. o \in [1..n -> Nat]
    BY <1>3, <1>4
  <2>2. f \in [1..n -> Nat]
    BY <1>4
  <2>3. o \in Seq(Nat) /\ Len(o) = n /\ f \in Seq(Nat) /\ Len(f) = n
    BY <2>1, <2>2, Tabulated
  <2> QED
    BY <1>4, <2>3
<1>7. PICK x : /\ x = o \o f /\ x \in Seq(Nat) /\ Len(x) = n + n
               /\ \A i \in 1..n : x[i] = o[i] /\ x[n + i] = f[i]
  <2>1. o \o f \in Seq(Nat) /\ IsJoined(o \o f, o, f, n)
    BY <1>6, Joined
  <2>2. PICK x : x = o \o f
    OBVIOUS
  <2>3. x \in Seq(Nat) /\ IsJoined(x, o, f, n)
    BY <2>1, <2>2
  <2> QED
    BY <2>2, <2>3 DEF IsJoined
<1>8. g \in TableType /\ Capacity(g) = n + n /\ g.tail = n - 1 /\ g.index = x
  <2>1. g = [tail |-> n - 1, index |-> x] /\ n - 1 \in Nat
    BY <1>2, <1>5, <1>7
  <2> QED
    BY <1>7, <2>1 DEF TableType, Capacity
<1>9. \A i \in 1..n : /\ g.index[i] = Entry(p, (k + i) - n) /\ g.index[i] \in 1..n
                      /\ g.index[n + i] = n + i
  BY <1>3, <1>6, <1>7, <1>8
<1>10. ASSUME NEW i \in 1..n, NEW j \in 1..n, g.index[i] = g.index[j] PROVE i = j
  <2>1. (k + i) - n = (k + j) - n
    BY <1>3, <1>9, <1>10, Entries
  <2> QED
    BY <2>1
<1>11. ASSUME NEW e \in 1..n PROVE \E i \in 1..n : g.index[i] = e
  <2>1. PICK m \in Window(p) : Entry(p, m) = e
    BY <1>2, Entries
  <2>2. m \in Int /\ k - n + 1 <= m /\ m <= k
    BY <1>1, <1>2, <2>1 DEF Window
  <2>3. PICK i \in 1..n : (k + i) - n = m
    <3>1. (m - k) + n \in 1..n /\ (k + ((m - k) + n)) - n = m
      BY <2>2
    <3> QED
      BY <3>1
  <2> QED
    BY <1>9, <2>1, <2>3
<1> QED
  BY <1>8, <1>9, <1>10, <1>11 DEF IsDoubled

(* Where a block is looked for in it: the slot i after the tail, or v. *)
IsPlace(i, v, m, k, n, w) ==
  /\ i \in Int /\ v \in Int /\ i = (n - 1) + (m - k) /\ v = i + w
  /\ k - n + 1 <= m /\ m <= k =>
       /\ i \in 0..(w - 1) /\ i + 1 \in 1..n /\ (k + (i + 1)) - n = m
       /\ m \in (k - (n + n) + 1)..k
  /\ k - (n + n) + 1 <= m /\ m <= k - n => v \in 0..(w - 1) /\ v + 1 \in (n + 1)..(n + n)

(* The offset of block m in it is its old one, or that of a new entry. *)
LEMMA DoubledPlaces ==
  ASSUME NEW n \in Nat, n >= 1, NEW k \in Int, NEW m \in Int, NEW w \in Int, w = n + n
  PROVE  \E i, v : IsPlace(i, v, m, k, n, w)
<1>1. PICK i \in Int : i = (n - 1) + (m - k)
  OBVIOUS
<1>v. PICK v \in Int : v = i + w
  OBVIOUS
<1>2. IsPlace(i, v, m, k, n, w)
  BY <1>1, <1>v DEF IsPlace
<1> QED
  BY <1>2

(* It finds the blocks that were found, and nothing in what is new. *)
LEMMA DoubledIndex ==
  ASSUME TypeOK, NEW p \in Producers, NEW k \in Int, k = Top(p), Top(p)' = k,
         NEW n \in Nat, n = Capacity(Table(p)),
         tables' = [tables EXCEPT ![p] = Append(@, Doubled(Table(p)))],
         entries' = [entries EXCEPT ![p] =
           @ \o [i \in 1..Capacity(Table(p)) |-> [key |-> NoKey, value |-> NoNode]]]
  PROVE  /\ IndexTyped' /\ Window(p)' = (k - (n + n) + 1)..k
         /\ \A q \in Producers \ {p} : tables'[q] = tables[q] /\ entries'[q] = entries[q]
         /\ \A h \in DOMAIN tables[p] : h \in DOMAIN tables'[p] /\ tables'[p][h] = tables[p][h]
         /\ \A e \in DOMAIN entries[p] : e \in DOMAIN entries'[p] /\ entries'[p][e] = entries[p][e]
         /\ \A e \in DOMAIN entries'[p] \ DOMAIN entries[p] : entries'[p][e].value = NoNode
         /\ \A m \in Window(p) : /\ Entry(p, m)' = Entry(p, m) /\ Value(p, m)' = Value(p, m)
                                 /\ Key(p, m)' = Key(p, m) /\ m \in Window(p)'
         /\ \A m \in Window(p)' : m \notin Window(p) => Value(p, m)' = NoNode
<1>1. /\ tables \in [Producers -> Seq(TableType)] /\ \A q \in Producers : TablesOK(q)
      /\ entries \in [Producers -> Seq(EntryType)]
  BY DEF TypeOK, IndexTyped
<1>2. /\ n >= 2 /\ DOMAIN entries[p] = 1..n /\ Len(entries[p]) = n
      /\ tables[p] \in Seq(TableType) /\ entries[p] \in Seq(EntryType)
  BY <1>1, TableTyped
<1>3. PICK g : g = Doubled(Table(p))
  OBVIOUS
<1>4. /\ g \in TableType /\ Capacity(g) = n + n /\ g.tail = n - 1
      /\ \A i \in 1..n : /\ g.index[i] = Entry(p, (k + i) - n) /\ g.index[i] \in 1..n
                         /\ g.index[n + i] = n + i
      /\ \A i, j \in 1..n : g.index[i] = g.index[j] => i = j
      /\ \A e \in 1..n : \E i \in 1..n : g.index[i] = e
  <2>1. IsDoubled(p, g, k, n)
    BY <1>3, DoubledTable
  <2> QED
    BY <2>1 DEF IsDoubled
<1>5. PICK x \in EntryType : x = [key |-> NoKey, value |-> NoNode]
  BY DEF EntryType, NoKey, MaybeNode
<1>6. PICK z \in Seq(EntryType) : z = [i \in 1..n |-> x] /\ Len(z) = n
  <2>1. PICK z : z = [i \in 1..n |-> x]
    OBVIOUS
  <2>2. z \in [1..n -> EntryType]
    BY <2>1
  <2>3. z \in Seq(EntryType) /\ Len(z) = n
    BY <2>2, Tabulated
  <2> QED
    BY <2>1, <2>3
<1>7. PICK s \in Seq(TableType), l \in Nat, y \in Seq(EntryType) :
        s = tables[p] /\ l = Len(s) /\ y = entries[p] /\ Len(y) = n /\ DOMAIN y = 1..n
  <2>1. PICK s \in Seq(TableType), y \in Seq(EntryType) : s = tables[p] /\ y = entries[p]
    BY <1>2
  <2>2. PICK l \in Nat : l = Len(s)
    BY <2>1
  <2> QED
    BY <1>2, <2>1, <2>2
<1>8. /\ tables'[p] = Append(s, g) /\ entries'[p] = y \o z
      /\ tables' \in [Producers -> Seq(TableType)] /\ entries' \in [Producers -> Seq(EntryType)]
      /\ \A q \in Producers \ {p} : tables'[q] = tables[q] /\ entries'[q] = entries[q]
  <2>1. tables' = [tables EXCEPT ![p] = Append(s, g)] /\ Append(s, g) \in Seq(TableType)
    BY <1>3, <1>4, <1>7
  <2>2. entries' = [entries EXCEPT ![p] = y \o z] /\ y \o z \in Seq(EntryType)
    BY <1>5, <1>6, <1>7
  <2> QED
    BY <1>1, <2>1, <2>2
<1>9. /\ Len(Append(s, g)) = l + 1 /\ DOMAIN Append(s, g) = 1..(l + 1) /\ DOMAIN s = 1..l
      /\ Append(s, g)[l + 1] = g /\ \A h \in 1..l : Append(s, g)[h] = s[h]
  BY <1>4, <1>7
<1>10. /\ Len(y \o z) = n + n /\ DOMAIN (y \o z) = 1..(n + n)
       /\ \A e \in 1..n : (y \o z)[e] = y[e]
       /\ \A e \in (n + 1)..(n + n) : (y \o z)[e] = x
  <2>1. /\ Len(y \o z) = n + n /\ DOMAIN (y \o z) = 1..(n + n)
        /\ \A i \in 1..n : (y \o z)[i] = y[i] /\ (y \o z)[n + i] = z[i]
    <3>1. IsJoined(y \o z, y, z, n)
      BY <1>6, <1>7, Joined
    <3> QED
      BY <3>1 DEF IsJoined
  <2>2. ASSUME NEW e \in (n + 1)..(n + n) PROVE (y \o z)[e] = x
    <3>1. PICK i \in 1..n : e = n + i
      <4>1. e - n \in 1..n /\ e = n + (e - n)
        OBVIOUS
      <4> QED
        BY <4>1
    <3>2. (y \o z)[e] = z[i] /\ z[i] = x
      BY <1>6, <2>1, <3>1
    <3> QED
      BY <3>2
  <2> QED
    BY <2>1, <2>2
<1>11. Table(p)' = g
  BY <1>8, <1>9 DEF Table, Last
<1>12. IndexTyped'
  <2>1. ASSUME NEW q \in Producers \ {p} PROVE TablesOK(q)'
    <3>1. tables'[q] = tables[q] /\ entries'[q] = entries[q]
      BY <1>8
    <3>2. Table(q)' = Table(q)
      BY <3>1 DEF Table
    <3>3. \A v : TableOK(q, v)' <=> TableOK(q, v)
      BY <3>1 DEF TableOK
    <3>4. TablesOK(q)
      BY <1>1
    <3> QED
      BY <3>1, <3>2, <3>3, <3>4 DEF TablesOK
  <2>2. TablesOK(p)'
    <3>1. tables'[p] # <<>>
      BY <1>7, <1>8, <1>9
    <3>2. \A i \in 1..(n + n) : /\ i \in 1..n => g.index[i] \in 1..n
                                /\ i \notin 1..n => g.index[i] = i /\ i \in (n + 1)..(n + n)
      <4> SUFFICES ASSUME NEW i \in 1..(n + n), i \notin 1..n
                   PROVE  g.index[i] = i /\ i \in (n + 1)..(n + n)
        BY <1>4
      <4>1. PICK j \in 1..n : i = n + j
        <5>1. i - n \in 1..n /\ i = n + (i - n)
          OBVIOUS
        <5> QED
          BY <5>1
      <4>2. g.index[i] = i
        BY <1>4, <4>1
      <4> QED
        BY <4>2
    <3>3. ASSUME NEW i \in DOMAIN tables'[p], NEW r, r = tables'[p][i] PROVE TableOK(p, r)'
      <4>1. CASE i \in 1..l
        <5>1. TableOK(p, s[i])
          BY <1>1, <1>7, <1>9, <4>1 DEF TablesOK
        <5>2. r = s[i] /\ Len(entries'[p]) = n + n /\ Len(entries[p]) = n
          BY <1>7, <1>8, <1>9, <1>10, <3>3, <4>1
        <5>3. \A j : j \in 1..n => j \in 1..(n + n)
          BY <1>2
        <5> QED
          BY <5>1, <5>2, <5>3 DEF TableOK
      <4>2. CASE i \notin 1..l
        <5>1. r = g /\ Len(entries'[p]) = n + n
          <6>1. i = l + 1
            BY <1>7, <1>8, <1>9, <4>2
          <6> QED
            BY <1>8, <1>9, <1>10, <3>3, <6>1
        <5>2. n + n >= 2 /\ n - 1 < n + n
          BY <1>2
        <5>3. \A j \in 1..(n + n) : g.index[j] \in 1..(n + n)
          BY <3>2
        <5> QED
          BY <1>4, <5>1, <5>2, <5>3 DEF TableOK
      <4> QED
        BY <4>1, <4>2
    <3>4. Len(entries'[p]) = n + n
      BY <1>8, <1>10
    <3>5. \A i, j \in 1..(n + n) : g.index[i] = g.index[j] => i = j
      <4> SUFFICES ASSUME NEW i \in 1..(n + n), NEW j \in 1..(n + n), g.index[i] = g.index[j]
                   PROVE  i = j
        OBVIOUS
      <4>1. CASE i \in 1..n /\ j \in 1..n
        BY <1>4, <4>1
      <4>2. CASE i \notin 1..n /\ j \notin 1..n
        BY <3>2, <4>2
      <4>3. CASE i \in 1..n /\ j \notin 1..n
        BY <3>2, <4>3
      <4>4. CASE i \notin 1..n /\ j \in 1..n
        BY <3>2, <4>4
      <4> QED
        BY <4>1, <4>2, <4>3, <4>4
    <3>6. \A e \in 1..(n + n) : \E i \in 1..(n + n) : g.index[i] = e
      <4> SUFFICES ASSUME NEW e \in 1..(n + n) PROVE \E i \in 1..(n + n) : g.index[i] = e
        OBVIOUS
      <4>1. CASE e \in 1..n
        <5>1. PICK i \in 1..n : g.index[i] = e
          BY <1>4, <4>1
        <5>2. i \in 1..(n + n)
          OBVIOUS
        <5> QED
          BY <5>1, <5>2
      <4>2. CASE e \notin 1..n
        BY <3>2, <4>2
      <4> QED
        BY <4>1, <4>2
    <3> QED
      BY <1>4, <1>11, <3>1, <3>3, <3>4, <3>5, <3>6 DEF TablesOK
  <2> QED
    BY <1>1, <1>8, <2>1, <2>2 DEF IndexTyped
<1>13. Window(p)' = (k - (n + n) + 1)..k /\ Window(p) = (k - n + 1)..k
  BY <1>4, <1>11 DEF Window
<1>14. \A m : Entry(p, m)' = g.index[(((n - 1) + (m - k)) % (n + n)) + 1]
  BY <1>4, <1>11 DEF Entry, Cell
<1>15. PICK w \in Nat : w = n + n /\ w >= 1 /\ n >= 1 /\ n \in Int /\ w \in Int
  BY <1>2
<1>16. ASSUME NEW m \in Window(p)
       PROVE  /\ Entry(p, m)' = Entry(p, m) /\ Value(p, m)' = Value(p, m)
              /\ Key(p, m)' = Key(p, m) /\ m \in Window(p)'
  <2>1. m \in Int /\ k - n + 1 <= m /\ m <= k
    BY <1>13
  <2>2. PICK i, v : IsPlace(i, v, m, k, n, w)
    <3>1. m \in Int /\ w \in Int /\ w = n + n /\ n >= 1
      BY <1>15, <2>1
    <3> QED
      BY <3>1, DoubledPlaces
  <2>i. /\ i \in Int /\ i = (n - 1) + (m - k) /\ i \in 0..(w - 1) /\ i + 1 \in 1..n
        /\ (k + (i + 1)) - n = m /\ m \in (k - (n + n) + 1)..k
    BY <2>1, <2>2 DEF IsPlace
  <2>3. i % w = i
    BY <1>15, <2>i, Remainders
  <2>4. Entry(p, m)' = g.index[i + 1]
    BY <1>14, <1>15, <2>i, <2>3
  <2>5. g.index[i + 1] = Entry(p, m)
    <3>1. PICK j : j = i + 1
      OBVIOUS
    <3>2. j \in 1..n /\ (k + j) - n = m
      BY <2>i, <3>1
    <3>3. g.index[j] = Entry(p, (k + j) - n)
      BY <1>4, <3>2
    <3> QED
      BY <3>1, <3>2, <3>3
  <2>6. Entry(p, m) \in 1..n
    BY <1>2, <2>1, Entries
  <2>7. entries'[p][Entry(p, m)] = entries[p][Entry(p, m)]
    BY <1>7, <1>8, <1>10, <2>6
  <2>8. m \in Window(p)'
    BY <1>13, <2>i
  <2> QED
    BY <2>4, <2>5, <2>7, <2>8 DEF Value, Key
<1>17. ASSUME NEW m \in Window(p)', m \notin Window(p) PROVE Value(p, m)' = NoNode
  <2>1. m \in Int /\ k - (n + n) + 1 <= m /\ m <= k - n
    BY <1>2, <1>13, <1>17
  <2>2. PICK i, v : IsPlace(i, v, m, k, n, w)
    <3>1. m \in Int /\ w \in Int /\ w = n + n /\ n >= 1
      BY <1>15, <2>1
    <3> QED
      BY <3>1, DoubledPlaces
  <2>v. /\ i \in Int /\ v \in Int /\ i = (n - 1) + (m - k) /\ v = i + w
        /\ v \in 0..(w - 1) /\ v + 1 \in (n + 1)..(n + n)
    BY <2>1, <2>2 DEF IsPlace
  <2>3. i % w = v
    <3>1. v % w = v /\ (i + w) % w = i % w
      BY <1>15, <2>v, Remainders
    <3> QED
      BY <2>v, <3>1
  <2>4. PICK e \in (n + 1)..(n + n) : e = v + 1
    BY <2>v
  <2>5. Entry(p, m)' = g.index[e]
    BY <1>14, <1>15, <2>v, <2>3, <2>4
  <2>6. PICK j \in 1..n : e = n + j
    <3>1. e - n \in 1..n /\ e = n + (e - n)
      OBVIOUS
    <3> QED
      BY <3>1
  <2>7. Entry(p, m)' = e
    BY <1>4, <2>5, <2>6
  <2>8. entries'[p][e] = x
    BY <1>8, <1>10
  <2>9. x.value = NoNode
    BY <1>5
  <2> QED
    BY <2>7, <2>8, <2>9 DEF Value
<1>18. \A h \in DOMAIN tables[p] : h \in DOMAIN tables'[p] /\ tables'[p][h] = tables[p][h]
  BY <1>7, <1>8, <1>9
<1>19. \A e \in DOMAIN entries[p] : e \in DOMAIN entries'[p] /\ entries'[p][e] = entries[p][e]
  BY <1>7, <1>8, <1>10
<1>20. ASSUME NEW e \in DOMAIN entries'[p] \ DOMAIN entries[p] PROVE entries'[p][e].value = NoNode
  <2>1. e \in (n + 1)..(n + n)
    BY <1>7, <1>8, <1>10
  <2>2. entries'[p][e] = x
    BY <1>8, <1>10, <2>1
  <2> QED
    BY <1>5, <2>2
<1> QED
  BY <1>8, <1>12, <1>13, <1>16, <1>17, <1>18, <1>19, <1>20


(* The entry after the tail has a block: a table twice as long. *)
LEMMA NewBlockIndexKeeps ==
  ASSUME IInv, NEW p \in Producers, NewBlockIndex(p)
  PROVE  IInv'
<1>1. /\ TypeOK /\ IndexInv(p) /\ ProducerInv(p) /\ BlocksInv(p) /\ p \in Threads
      /\ reg[p] \in Registers /\ Top(p) \in Int /\ Linked(p) \in Nat
      /\ Capacity(Table(p)) \in Nat /\ Capacity(Table(p)) >= 2
  BY Constants, NumbersTyped, RegistersTyped, TableTyped DEF IInv, Inv, TypeOK
<1>2. PICK k \in Int, n \in Nat : k = Top(p) /\ n = Capacity(Table(p)) /\ n >= 2
  BY <1>1
<1>3. /\ pc[p] = "index" /\ ~Reusable(p)
      /\ tables' = [tables EXCEPT ![p] = Append(@, Doubled(Table(p)))]
      /\ entries' = [entries EXCEPT ![p] =
           @ \o [i \in 1..Capacity(Table(p)) |-> [key |-> NoKey, value |-> NoNode]]]
      /\ UNCHANGED listVars /\ UNCHANGED <<sizes, blocks, sources, pc, reg, todo>>
      /\ UNCHANGED <<tail, head, optimistic, overcommit, tailBlock, dequeued, pc, reg, todo>>
  BY DEF NewBlockIndex, sizes, blocks
<1>4. Go(p, "index", reg[p])
  <2>1. pc \in [Threads -> ProducerPlaces \cup ConsumerPlaces] /\ reg \in [Threads -> Registers]
    BY <1>1 DEF TypeOK, ThreadsTyped
  <2>2. pc' = [pc EXCEPT ![p] = "index"] /\ reg' = [reg EXCEPT ![p] = reg[p]]
    BY <1>1, <1>3, <2>1
  <2> QED
    BY <2>2 DEF Go
<1>5. /\ ~Turning(p) /\ ~Turning(p)' /\ Linked(p) = k + 1 /\ Linked(p)' = k + 1 /\ Top(p)' = k
      /\ tail[p] % BlockSize = 0
  <2>1. ~Turning(p) /\ ~Turning(p)' /\ Linked(p)' = Linked(p) /\ tail[p] % BlockSize = 0
    BY <1>1, <1>3 DEF Turning, Linked, ProducerInv
  <2>2. Linked(p) = k + 1
    BY <1>1, <1>2, <2>1 DEF Top
  <2> QED
    BY <1>2, <2>1, <2>2 DEF Top
<1>6. /\ IndexTyped' /\ Window(p)' = (k - (n + n) + 1)..k
      /\ \A q \in Producers \ {p} : tables'[q] = tables[q] /\ entries'[q] = entries[q]
      /\ \A h \in DOMAIN tables[p] : h \in DOMAIN tables'[p] /\ tables'[p][h] = tables[p][h]
      /\ \A e \in DOMAIN entries[p] : e \in DOMAIN entries'[p] /\ entries'[p][e] = entries[p][e]
      /\ \A e \in DOMAIN entries'[p] \ DOMAIN entries[p] : entries'[p][e].value = NoNode
      /\ \A m \in Window(p) : /\ Entry(p, m)' = Entry(p, m) /\ Value(p, m)' = Value(p, m)
                              /\ Key(p, m)' = Key(p, m) /\ m \in Window(p)'
      /\ \A m \in Window(p)' : m \notin Window(p) => Value(p, m)' = NoNode
  BY <1>1, <1>2, <1>3, <1>5, DoubledIndex
<1>7. k \in Window(p) /\ Window(p) \subseteq Int
  BY <1>1, <1>2, Entries
<1>8. IndexInv(p)'
  <2>1. ASSUME NEW m \in Window(p)', Value(p, m)' # NoNode PROVE m >= 0 /\ Key(p, m)' = First(m)
    BY <1>1, <1>6, <2>1 DEF IndexInv
  <2>2. k >= 0 => Key(p, k)' = First(k)
    BY <1>1, <1>2, <1>6, <1>7 DEF IndexInv
  <2> QED
    BY <1>5, <2>1, <2>2 DEF IndexInv
<1>9. ProducerInv(p)'
  BY <1>3, <1>5 DEF ProducerInv
<1>10. \A m : /\ Present(p, m)' <=> Present(p, m)
              /\ Present(p, m) => Value(p, m)' = Value(p, m)
  BY <1>6 DEF Present
<1>11. \A c \in Consumers : SameWork(c)
  BY <1>3 DEF SameWork
<1>12. BlocksInv(p)'
  <2>1. Linked(p)' = Linked(p)
    BY <1>5
  <2> QED
    BY <1>1, <1>3, <1>10, <1>11, <2>1, BlocksFollow
<1>13. Key(p, k + 1) # First(k + 1)
  <2>1. PICK w \in Window(p) : w = k + 1 - n /\ Entry(p, k + 1) = Entry(p, w)
                               /\ NewEntry(p) = Entry(p, w)
    BY <1>1, <1>2, Entries
  <2>2. Value(p, w) # NoNode
    BY <1>3, <2>1 DEF Reusable, Value
  <2>3. Key(p, k + 1) = First(w) /\ w < k + 1
    BY <1>1, <1>2, <2>1, <2>2 DEF IndexInv, Key
  <2>4. First(w) + BlockSize <= First(k + 1) /\ First(w) \in Int /\ First(k + 1) \in Int
    <3>1. w \in Int /\ k + 1 \in Int
      BY <1>1 DEF Window
    <3>2. PICK j \in Int : j = k + 1
      BY <3>1
    <3>3. w < j
      BY <2>3, <3>2
    <3> QED
      BY <3>1, <3>2, <3>3, Blocks
  <2> QED
    BY <2>3, <2>4, Constants
<1>14. ASSUME NEW c \in Consumers, reg[c].sub = p, pc[c] \in Looking \cup {"unlink"}
       PROVE  ConsumerInv(c)'
  <2>1. PICK m : m = Number(reg[c].index)
    OBVIOUS
  <2>2. /\ m \in 0..(Linked(p) - 1) /\ m \in Window(p) /\ Present(p, m) /\ ConsumerInv(c)
        /\ reg'[c] = reg[c] /\ pc'[c] = pc[c] /\ m \in Int /\ m <= k
    BY <1>1, <1>3, <1>5, <1>14, <2>1, Working DEF IInv
  <2>3. Entry(p, m)' = Entry(p, m) /\ Value(p, m)' = Value(p, m)
    BY <1>6, <2>2
  <2>4. ASSUME NEW h, NEW s, Knows(c, p, h, s) PROVE Knows(c, p, h, s)'
    <3>1. PICK j \in m..Linked(p) : /\ Cell(h, s, 0) = Entry(p, j) /\ Key(p, j) = First(j)
                                    /\ Cell(h, s, m - j) = Entry(p, m)
      BY <2>1, <2>4 DEF Knows
    <3>2. j \in Int /\ m <= j /\ j <= k + 1 /\ j # k + 1
      BY <1>5, <1>13, <2>2, <3>1
    <3>3. j \in Window(p)
      BY <1>2, <2>2, <3>2 DEF Window
    <3>4. Entry(p, j)' = Entry(p, j) /\ Key(p, j)' = First(j)
      BY <1>6, <3>1, <3>3
    <3>5. j \in m..Linked(p)' /\ Number(reg'[c].index) = m
      BY <1>5, <2>1, <2>2, <3>1
    <3> QED
      BY <2>3, <3>1, <3>4, <3>5 DEF Knows
  <2>5. pc[c] \in {"tail", "key"} => reg[c].table \in DOMAIN tables[p]
    BY <1>14, <2>2 DEF ConsumerInv
  <2>6. pc[c] \in {"tail", "key"} => Loaded(c)' = Loaded(c) /\ reg[c].table \in DOMAIN tables'[p]
    BY <1>6, <1>14, <2>2, <2>5 DEF Loaded
  <2>7. pc[c] = "tail" => Knows(c, p, Loaded(c), Loaded(c).tail)'
    <3> SUFFICES ASSUME pc[c] = "tail" PROVE Knows(c, p, Loaded(c), Loaded(c).tail)'
      OBVIOUS
    <3>1. PICK h, s : h = Loaded(c) /\ s = Loaded(c).tail
      OBVIOUS
    <3>2. Knows(c, p, h, s)
      <4>1. CASE reg[c].table = Len(tables[p])
        <5>1. Knows(c, p, Table(p), Table(p).tail)
          BY <1>14, TopKnown DEF Looking
        <5>2. Loaded(c) = Table(p)
          BY <1>1, <1>14, <4>1, TableTyped DEF Loaded
        <5> QED
          BY <3>1, <5>1, <5>2
      <4>2. CASE reg[c].table # Len(tables[p])
        BY <1>14, <2>2, <3>1, <4>2 DEF ConsumerInv
      <4> QED
        BY <4>1, <4>2
    <3>3. Knows(c, p, h, s)'
      BY <2>4, <3>2
    <3>4. h = Loaded(c)' /\ s = Loaded(c)'.tail
      BY <2>6, <3>1
    <3> QED
      BY <3>3, <3>4 DEF Knows
  <2>8. pc[c] = "key" => /\ reg[c].slot \in 0..(Capacity(Loaded(c)') - 1)
                         /\ Knows(c, p, Loaded(c), reg[c].slot)'
    <3> SUFFICES ASSUME pc[c] = "key"
                 PROVE  /\ reg[c].slot \in 0..(Capacity(Loaded(c)') - 1)
                        /\ Knows(c, p, Loaded(c), reg[c].slot)'
      OBVIOUS
    <3>1. PICK h, s : h = Loaded(c) /\ s = reg[c].slot
      OBVIOUS
    <3>2. Knows(c, p, h, s) /\ s \in 0..(Capacity(h) - 1)
      BY <1>14, <2>2, <3>1 DEF ConsumerInv
    <3>3. Knows(c, p, h, s)' /\ h = Loaded(c)' /\ s = reg'[c].slot
      BY <2>2, <2>4, <2>6, <3>1, <3>2
    <3> QED
      BY <3>1, <3>2, <3>3 DEF Knows
  <2>9. reg[c].index \in 0..(head'[p] - 1)
    BY <1>3, <1>14, <2>2 DEF ConsumerInv
  <2>10. pc[c] \in {"take", "empty", "unlink"} => reg[c].entry = Entry(p, m)'
    BY <1>14, <2>1, <2>2, <2>3 DEF ConsumerInv
  <2>11. pc[c] \in {"empty", "unlink"} => reg[c].block = Value(p, m)'
    BY <1>14, <2>1, <2>2, <2>3 DEF ConsumerInv
  <2>12. pc[c] \notin {"empty", "unlink", "adding"} => reg[c].item = NoItem
    BY <2>2 DEF ConsumerInv
  <2> QED
    BY <1>14, <2>1, <2>2, <2>6, <2>7, <2>8, <2>9, <2>10, <2>11, <2>12 DEF ConsumerInv, Capacity
<1>15. ListInv' /\ \A n1 : Inside(n1)' <=> Inside(n1)
  BY <1>3, ListKept DEF IInv
<1>16. ASSUME NEW b \in Nodes PROVE Placed(b)'
  <2>1. Placed(b) /\ b # NoNode
    BY ListAssumption DEF IInv
  <2>2. ASSUME NEW q \in Producers, NEW e PROVE InSub(b, q, e)' <=> InSub(b, q, e)
    <3>1. CASE q # p
      BY <1>6, <3>1 DEF InSub
    <3>2. CASE q = p
      BY <1>6, <2>1, <3>2 DEF InSub
    <3> QED
      BY <3>1, <3>2
  <2>3. \A q \in Producers : Requisitioned(q, b)' <=> Requisitioned(q, b)
    BY <1>3 DEF Requisitioned
  <2> QED
    BY <1>3, <1>15, <2>1, <2>2, <2>3, PlacedFollow
<1>17. BlocksTyped' /\ SourcesTyped' /\ WorkTyped' /\ tail' \in [Producers -> Nat]
       /\ tail[p] <= tail'[p] /\ "index" \in ProducerPlaces
  <2>1. BlocksTyped' /\ SourcesTyped'
    BY <1>1, <1>3, TypesKept DEF TypeOK
  <2>2. WorkTyped'
    BY <1>1, <1>3 DEF TypeOK, WorkTyped
  <2>3. tail \in [Producers -> Nat] /\ tail' = tail
    BY <1>1, <1>3 DEF TypeOK, SizesTyped
  <2>4. tail' \in [Producers -> Nat] /\ tail[p] <= tail'[p]
    BY <2>3
  <2> QED
    BY <2>1, <2>2, <2>4 DEF ProducerPlaces
<1> QED
  BY <1>1, <1>3, <1>4, <1>6, <1>8, <1>9, <1>12, <1>14, <1>15, <1>16, <1>17, ProducerStep


-----------------------------------------------------------------------------
(* Initially the index of each sub-queue is empty, and all blocks are in the pool
   or not made yet.                                                               *)
LEMMA InitInv == Init => IInv
<1> SUFFICES ASSUME Init PROVE IInv
  OBVIOUS
<1>1. PICK n \in Nat : n = InitialIndex /\ n >= 2
  BY Constants
<1>2. PICK x : x = [key |-> NoKey, value |-> NoNode]
  OBVIOUS
<1>3. x \in EntryType /\ x.value = NoNode
  BY <1>2 DEF EntryType, NoKey, MaybeNode
<1>4. PICK z : z = [e \in 1..n |-> x]
  OBVIOUS
<1>5. z \in Seq(EntryType) /\ Len(z) = n /\ DOMAIN z = 1..n /\ \A e \in 1..n : z[e] = x
  <2>1. z \in [1..n -> EntryType]
    BY <1>3, <1>4
  <2> QED
    BY <1>1, <1>4, <2>1
<1>6. PICK h : h = [tail |-> n - 1, index |-> [e \in 1..n |-> e]]
  OBVIOUS
<1>7. /\ h \in TableType /\ Capacity(h) = n /\ h.tail = n - 1
      /\ \A i \in 1..n : h.index[i] = i
  <2>1. [e \in 1..n |-> e] \in Seq(Nat) /\ Len([e \in 1..n |-> e]) = n
    BY <1>1
  <2> QED
    BY <1>1, <1>6, <2>1 DEF TableType, Capacity
<1>8. /\ tail = [p \in Producers |-> 0] /\ head = [p \in Producers |-> 0]
      /\ optimistic = [p \in Producers |-> 0] /\ overcommit = [p \in Producers |-> 0]
      /\ tailBlock = [p \in Producers |-> NoNode] /\ InitList /\ pool = 0 /\ created = 0
      /\ todo \in [Threads -> Nat] /\ entries = [p \in Producers |-> z]
      /\ tables = [p \in Producers |-> <<h>>]
      /\ pc = [t \in Threads |-> "idle"] /\ reg = [t \in Threads |-> Blank]
      /\ dequeued = [b \in Nodes |-> 0]
      /\ elements = [b \in Nodes |-> [i \in 0..BlockSize - 1 |-> NoItem]]
  BY <1>1, <1>2, <1>4, <1>6, QueueAssumption DEF Init, InitQueue, InitProducers
<1>9. ListInv /\ \A b \in Nodes : ~Inside(b)
  BY <1>8, InitListInv
<1>10. \A t \in Threads : pc[t] = "idle" /\ reg[t] = Blank
  BY <1>8
<1>11. TypeOK
  <2>1. SizesTyped
    BY <1>8 DEF SizesTyped
  <2>2. IndexTyped
    <3>1. <<h>> \in Seq(TableType) /\ Len(<<h>>) = 1 /\ <<h>>[1] = h /\ DOMAIN <<h>> = {1}
          /\ <<h>> # <<>>
      BY <1>7
    <3>2. ASSUME NEW p \in Producers PROVE TablesOK(p)
      <4>1. tables[p] = <<h>> /\ entries[p] = z /\ Table(p) = h
        BY <1>8, <3>1 DEF Table, Last
      <4>2. TableOK(p, h)
        BY <1>1, <1>5, <1>7, <4>1 DEF TableOK
      <4> QED
        BY <1>1, <1>5, <1>7, <3>1, <4>1, <4>2 DEF TablesOK
    <3> QED
      BY <1>5, <1>8, <3>1, <3>2 DEF IndexTyped
  <2>3. BlocksTyped
    BY <1>8 DEF BlocksTyped, MaybeNode, MaybeItem
  <2>4. SourcesTyped
    BY <1>8, Constants DEF SourcesTyped, Made
  <2>5. ThreadsTyped
    BY <1>8, Constants, BlankTyped DEF ThreadsTyped, ProducerPlaces, ConsumerPlaces
  <2>6. WorkTyped
    BY <1>8, <1>10, Constants DEF WorkTyped
  <2> QED
    BY <2>1, <2>2, <2>3, <2>4, <2>5, <2>6 DEF TypeOK
<1>12. ASSUME NEW p \in Producers
       PROVE  ~Turning(p) /\ Linked(p) = 0 /\ Top(p) = -1 /\ pc[p] = "idle"
  <2>1. pc[p] = "idle" /\ tail[p] = 0
    BY <1>8, <1>10, Constants
  <2>2. 0 % BlockSize = 0 /\ Number(0) = 0
    <3>1. PICK b \in Nat : b = BlockSize /\ b >= 2 /\ b >= 1
      BY Constants
    <3>2. 0 = b * 0 + 0 /\ 0 \in 0..(b - 1)
      BY <3>1
    <3>3. 0 \div b = 0 /\ 0 % b = 0
      BY <3>1, <3>2, Quotient
    <3> QED
      BY <3>1, <3>3 DEF Number
  <2>3. ~Turning(p)
    BY <2>1 DEF Turning
  <2>4. Linked(p) = 0
    BY <2>1, <2>2 DEF Linked
  <2> QED
    BY <2>1, <2>3, <2>4 DEF Top
<1>13. ASSUME NEW p \in Producers, NEW e \in DOMAIN entries[p] PROVE entries[p][e].value = NoNode
  BY <1>3, <1>5, <1>8
<1>14. \A p \in Producers : IndexInv(p)
  <2>1. ASSUME NEW p \in Producers, NEW m \in Window(p) PROVE Value(p, m) = NoNode
    BY <1>11, <1>13, Entries DEF Value
  <2> QED
    BY <1>12, <2>1 DEF IndexInv
<1>15. \A p \in Producers : ProducerInv(p)
  BY <1>12 DEF ProducerInv
<1>16. ASSUME NEW p \in Producers PROVE ClaimsInv(p)
  <2>1. \A place : place # "idle" => At(p, place) = {}
    BY <1>10, Constants DEF At
  <2>2. At(p, "again") = {} /\ At(p, "undo") = {} /\ At(p, "index") = {} /\ Cardinality({}) = 0
    BY <2>1, FS_EmptySet
  <2>3. Won(p) = 0 /\ optimistic[p] = 0 /\ overcommit[p] = 0 /\ tail[p] = 0
    <3>1. head[p] = 0 /\ optimistic[p] = 0 /\ overcommit[p] = 0 /\ tail[p] = 0
      BY <1>8
    <3>2. Won(p) = 0 + 0
      BY <2>2, <3>1 DEF Won
    <3> QED
      BY <3>1, <3>2
  <2>4. \A c \in Consumers : pc[c] = "idle"
    BY <1>10, Constants
  <2> QED
    BY <2>2, <2>3, <2>4 DEF ClaimsInv
<1>17. ASSUME NEW p \in Producers PROVE BlocksInv(p)
  <2>1. Linked(p) = 0 /\ tailBlock[p] = NoNode
    BY <1>8, <1>12
  <2> QED
    BY <2>1 DEF BlocksInv
<1>18. \A c \in Consumers : ConsumerInv(c)
  BY <1>10, Constants, BlankTyped DEF ConsumerInv, Looking
<1>19. IndicesDiffer
  BY <1>10, Constants DEF IndicesDiffer, Looking
<1>20. ASSUME NEW b \in Nodes PROVE Placed(b)
  <2>1. \A p \in Producers : ~Requisitioned(p, b) /\ \A e \in DOMAIN entries[p] : ~InSub(b, p, e)
    BY <1>12, <1>13, ListAssumption DEF Requisitioned, InSub
  <2>2. InPool(b) \/ b \notin 1..Made
    BY <1>8, Constants DEF InPool, Made
  <2> QED
    BY <1>9, <2>1, <2>2 DEF Placed
<1> QED
  BY <1>9, <1>11, <1>14, <1>15, <1>16, <1>17, <1>18, <1>19, <1>20 DEF IInv, Inv

(* Every step keeps the invariant. *)
LEMMA NextKeeps ==
  ASSUME IInv, [Next]_vars
  PROVE  IInv'
<1>1. ASSUME NEW p \in Producers, Enqueue(p) PROVE IInv'
  BY <1>1, PublishKeeps, InsertKeyKeeps, NewBlockIndexKeeps, NoBlockIndexKeeps, InsertTailKeeps,
     PoolLookKeeps, PoolGetKeeps, FromListKeeps, RewindKeeps, DropKeeps, LinkBlockKeeps, PutKeeps DEF Enqueue
<1>2. ASSUME NEW c \in Consumers, Dequeue(c) PROVE IInv'
  BY <1>2, ScanKeeps, LookKeeps, CheckKeeps, ClaimKeeps, AgainKeeps, UndoKeeps, TakeIndexKeeps,
     LoadTableKeeps, LoadTailKeeps, LoadKeyKeeps, TakeElementKeeps, SetEmptyKeeps, UnlinkKeeps,
     AddedKeeps DEF Dequeue
<1>3. ASSUME NEW t \in Threads, OnList(t) PROVE IInv'
  BY <1>3, OnListKeeps
<1>4. CASE UNCHANGED vars
  <2>1. UNCHANGED <<sizes, tables, entries, blocks, sources, pc, reg, todo>> /\ UNCHANGED listVars
    BY <1>4 DEF vars, sizes, blocks, sources
  <2>2. ListInv' /\ \A n \in Nodes : Inside(n)' <=> Inside(n)
    BY <2>1, ListKept DEF IInv
  <2> QED
    BY <2>1, <2>2, ListMoves
<1> QED
  BY <1>1, <1>2, <1>3, <1>4 DEF Next, Step

(* The invariant holds. *)
THEOREM InvariantHolds == Spec => []IInv
<1>1. Init => IInv
  BY InitInv
<1>2. IInv /\ [Next]_vars => IInv'
  BY NextKeeps
<1> QED
  BY <1>1, <1>2, PTL DEF Spec

-----------------------------------------------------------------------------
(* Who has a block that is out of every structure. *)
Has(t, b) == (at[t] \in {"taken", "got"} /\ node[t] = b) \/ (pc[t] = "link" /\ reg[t].block = b)

(* The places of a block, one by one. *)
LEMMA PlacesAre ==
  ASSUME NEW b \in Nodes
  PROVE  \A x : x \in Places(b) <=>
           \/ InPool(b) /\ x = <<"pool">>
           \/ b \notin 1..Made /\ x = <<"made">>
           \/ b \in Listed /\ x = <<"listed">>
           \/ b \in Returning /\ x = <<"returning">>
           \/ \E t \in Threads : Has(t, b) /\ x = <<"thread", t>>
           \/ \E p \in Producers : \E e \in DOMAIN entries[p] : InSub(b, p, e) /\ x = <<"sub", p, e>>
<1>1. PICK X1 : X1 = {<<"pool">> : x \in {b} \cap (pool + 1)..InitialBlocks}
  OBVIOUS
<1>2. PICK X2 : X2 = {<<"made">> : x \in {b} \ 1..Made}
  OBVIOUS
<1>3. PICK X3 : X3 = {<<"listed">> : x \in {b} \cap Listed}
  OBVIOUS
<1>4. PICK X4 : X4 = {<<"returning">> : x \in {b} \cap Returning}
  OBVIOUS
<1>5. PICK X5 : X5 = {<<"thread", t>> : t \in {t \in Threads : Has(t, b)}}
  OBVIOUS
<1>6. PICK X6 : X6 = UNION {{<<"sub", p, e>> : e \in {e \in DOMAIN entries[p] : entries[p][e].value = b}}
                              : p \in Producers}
  OBVIOUS
<1>7. Places(b) = X1 \cup X2 \cup X3 \cup X4 \cup X5 \cup X6
  BY <1>1, <1>2, <1>3, <1>4, <1>5, <1>6, Zenon DEF Places, Has
<1>8. \A x : x \in X1 <=> InPool(b) /\ x = <<"pool">>
  BY <1>1, Zenon DEF InPool
<1>9. \A x : x \in X2 <=> b \notin 1..Made /\ x = <<"made">>
  BY <1>2, Zenon
<1>10. \A x : x \in X3 <=> b \in Listed /\ x = <<"listed">>
  BY <1>3, Zenon
<1>11. \A x : x \in X4 <=> b \in Returning /\ x = <<"returning">>
  BY <1>4, Zenon
<1>12. \A x : x \in X5 <=> \E t \in Threads : Has(t, b) /\ x = <<"thread", t>>
  BY <1>5, Zenon
<1>13. \A x : x \in X6 <=>
         \E p \in Producers : \E e \in DOMAIN entries[p] : InSub(b, p, e) /\ x = <<"sub", p, e>>
  <2>1. PICK Y : Y = [p \in Producers |-> {<<"sub", p, e>> : e \in {e \in DOMAIN entries[p] :
                                                                     entries[p][e].value = b}}]
    OBVIOUS
  <2>2. X6 = UNION {Y[p] : p \in Producers}
    BY <1>6, <2>1
  <2>3. ASSUME NEW p \in Producers
        PROVE  \A x : x \in Y[p] <=> \E e \in DOMAIN entries[p] : InSub(b, p, e) /\ x = <<"sub", p, e>>
    <3>1. Y[p] = {<<"sub", p, e>> : e \in {e \in DOMAIN entries[p] : entries[p][e].value = b}}
      BY <2>1
    <3>2. PICK D : D = {e \in DOMAIN entries[p] : entries[p][e].value = b}
      OBVIOUS
    <3>3. \A e : e \in D <=> e \in DOMAIN entries[p] /\ InSub(b, p, e)
      BY <3>2 DEF InSub
    <3>4. Y[p] = {<<"sub", p, e>> : e \in D}
      BY <3>1, <3>2
    <3> QED
      BY <3>3, <3>4, Zenon
  <2>4. \A x : x \in X6 <=> \E p \in Producers : x \in Y[p]
    BY <2>2, Zenon
  <2> QED
    BY <2>3, <2>4, Zenon
<1> QED
  BY <1>7, <1>8, <1>9, <1>10, <1>11, <1>12, <1>13, Zenon

(* The free list's own nodes are listed, on their way, or taken off by one thread. *)
LEMMA InsideOnce ==
  ASSUME IInv, NEW b \in Nodes
  PROVE  /\ b \in Listed => b \notin Returning
         /\ b \in Listed \/ b \in Returning => \A t \in Threads : ~(at[t] \in {"taken", "got"} /\ node[t] = b)
         /\ \A t, u \in Threads : Owns(t, b) /\ Owns(u, b) => t = u
         /\ Inside(b) <=> \/ b \in Listed \/ b \in Returning
                          \/ \E t \in Threads : at[t] \in {"taken", "got"} /\ node[t] = b
<1>1. OwnedOnce(b) /\ FlaggedWaits(b)
  BY DEF IInv, ListInv, NodeInv
<1>2. b \in Returning <=> \/ refs[b].flag
                          \/ \E t \in Threads : /\ node[t] = b
                                                /\ at[t] = "add" \/ Adding(t) \/ Readding(t)
  BY DEF Returning
<1>3. \A t \in Threads : (at[t] = "add" \/ Adding(t) \/ Readding(t)) /\ node[t] = b => Owns(t, b)
  BY DEF Adding, Readding, Owns, Owning
<1>4. \A t \in Threads : at[t] \in {"taken", "got"} /\ node[t] = b
                           => Owns(t, b) /\ ~Linking(t, b) /\ at[t] # "add" /\ ~Adding(t) /\ ~Readding(t)
  BY DEF Adding, Readding, Owns, Owning, Linking
<1>5. \A t \in Threads : Owns(t, b) => \/ at[t] \in {"taken", "got"}
                                       \/ at[t] = "add" \/ Adding(t) \/ Readding(t)
  BY DEF Adding, Readding, Owns, Owning
<1>6. \A t \in Threads : Owns(t, b) => node[t] = b
  BY DEF Owns
<1> QED
  BY <1>1, <1>2, <1>3, <1>4, <1>5, <1>6 DEF OwnedOnce, FlaggedWaits, Inside

(* Every block is in one place. *)
LEMMA OnePlace ==
  ASSUME IInv
  PROVE  BlocksOnce
<1> SUFFICES ASSUME NEW b \in Nodes PROVE \E x : Places(b) = {x}
  BY FS_Singleton DEF BlocksOnce
<1>1. Placed(b)
  BY DEF IInv
<1>2. pool \in Nat /\ created \in Nat /\ InitialBlocks \in Nat /\ Nodes \subseteq Nat
  BY Constants DEF IInv, TypeOK, SourcesTyped
<1>3. InPool(b) => b \in 1..Made
  BY <1>2 DEF InPool, Made
<1>4. \A t \in Threads : pc[t] = "link" => t \in Producers
  BY QueueAssumption DEF IInv, TypeOK, ThreadsTyped, ConsumerPlaces
<1>5. \A t \in Threads : Has(t, b) <=> \/ at[t] \in {"taken", "got"} /\ node[t] = b
                                       \/ t \in Producers /\ Requisitioned(t, b)
  BY <1>4 DEF Has, Requisitioned
<1>6. Producers \subseteq Threads
  BY Constants
<1>7. CASE InPool(b)
  <2>1. b \in 1..Made /\ ~Inside(b)
    BY <1>1, <1>3, <1>7 DEF Placed
  <2>2. b \notin Listed /\ b \notin Returning /\ \A t \in Threads : ~Has(t, b)
    BY <1>1, <1>5, <1>7, <2>1, InsideOnce DEF Placed
  <2>3. \A p \in Producers : \A e \in DOMAIN entries[p] : ~InSub(b, p, e)
    BY <1>1, <1>7 DEF Placed
  <2>4. Places(b) = {<<"pool">>}
    BY <1>7, <2>1, <2>2, <2>3, PlacesAre, Zenon
  <2> QED
    BY <2>4
<1>8. CASE b \notin 1..Made
  <2>1. ~InPool(b) /\ ~Inside(b)
    BY <1>1, <1>3, <1>8 DEF Placed
  <2>2. b \notin Listed /\ b \notin Returning /\ \A t \in Threads : ~Has(t, b)
    BY <1>1, <1>5, <1>8, <2>1, InsideOnce DEF Placed
  <2>3. \A p \in Producers : \A e \in DOMAIN entries[p] : ~InSub(b, p, e)
    BY <1>1, <1>8 DEF Placed
  <2>4. Places(b) = {<<"made">>}
    BY <1>8, <2>1, <2>2, <2>3, PlacesAre, Zenon
  <2> QED
    BY <2>4
<1>9. CASE Inside(b)
  <2>1. ~InPool(b) /\ b \in 1..Made /\ \A p \in Producers : ~Requisitioned(p, b)
    BY <1>1, <1>9 DEF Placed
  <2>2. \A p \in Producers : \A e \in DOMAIN entries[p] : ~InSub(b, p, e)
    BY <1>1, <1>9 DEF Placed
  <2>3. \A t \in Threads : Has(t, b) <=> at[t] \in {"taken", "got"} /\ node[t] = b
    BY <1>5, <2>1
  <2>4. CASE b \in Listed
    <3>1. b \notin Returning /\ \A t \in Threads : ~Has(t, b)
      BY <2>3, <2>4, InsideOnce
    <3>2. Places(b) = {<<"listed">>}
      BY <2>1, <2>2, <2>4, <3>1, PlacesAre, Zenon
    <3> QED
      BY <3>2
  <2>5. CASE b \in Returning
    <3>1. b \notin Listed /\ \A t \in Threads : ~Has(t, b)
      BY <2>3, <2>5, InsideOnce
    <3>2. Places(b) = {<<"returning">>}
      BY <2>1, <2>2, <2>5, <3>1, PlacesAre, Zenon
    <3> QED
      BY <3>2
  <2>6. CASE b \notin Listed /\ b \notin Returning
    <3>1. PICK t \in Threads : Has(t, b)
      BY <1>9, <2>3, <2>6, InsideOnce
    <3>2. \A u \in Threads : Has(u, b) => Owns(u, b)
      BY <2>3 DEF Owns, Owning
    <3>3. \A u \in Threads : Has(u, b) => u = t
      BY <3>1, <3>2, InsideOnce
    <3>4. Places(b) = {<<"thread", t>>}
      BY <2>1, <2>2, <2>6, <3>1, <3>3, PlacesAre, Zenon
    <3> QED
      BY <3>4
  <2> QED
    BY <2>4, <2>5, <2>6
<1>10. ASSUME NEW p \in Producers, Requisitioned(p, b) PROVE \E x : Places(b) = {x}
  <2>1. /\ ~InPool(b) /\ b \in 1..Made /\ ~Inside(b)
        /\ \A q \in Producers : Requisitioned(q, b) => p = q
    BY <1>1, <1>10 DEF Placed
  <2>2. \A q \in Producers : \A e \in DOMAIN entries[q] : ~InSub(b, q, e)
    BY <1>1, <1>10 DEF Placed
  <2>3. /\ b \notin Listed /\ b \notin Returning
        /\ \A t \in Threads : Has(t, b) <=> t = p
    BY <1>5, <1>6, <1>10, <2>1, InsideOnce
  <2>4. Places(b) = {<<"thread", p>>}
    BY <1>6, <2>1, <2>2, <2>3, PlacesAre, Zenon
  <2> QED
    BY <2>4
<1>11. ASSUME NEW p \in Producers, NEW e \in DOMAIN entries[p], InSub(b, p, e)
       PROVE  \E x : Places(b) = {x}
  <2>1. /\ ~InPool(b) /\ b \in 1..Made /\ ~Inside(b)
        /\ \A q \in Producers : ~Requisitioned(q, b)
        /\ \A q \in Producers : \A f \in DOMAIN entries[q] : InSub(b, q, f) => p = q /\ e = f
    BY <1>1, <1>11 DEF Placed
  <2>2. b \notin Listed /\ b \notin Returning /\ \A t \in Threads : ~Has(t, b)
    BY <1>5, <2>1, InsideOnce
  <2>3. Places(b) = {<<"sub", p, e>>}
    BY <1>11, <2>1, <2>2, PlacesAre, Zenon
  <2> QED
    BY <2>3
<1> QED
  BY <1>1, <1>7, <1>8, <1>9, <1>10, <1>11 DEF Placed

(* Every block is in one place. *)
THEOREM BlocksOnceHolds == Spec => []BlocksOnce
<1>1. IInv => BlocksOnce
  BY OnePlace
<1> QED
  BY <1>1, InvariantHolds, PTL


-----------------------------------------------------------------------------
(* The table in use finds the block of an index by its number. *)
LEMMA FoundInTable ==
  ASSUME IInv, NEW p \in Producers, Top(p) >= 0, NEW i \in Nat
  PROVE  BlockOf(p, i) = Value(p, Number(i))
<1>1. TypeOK /\ IndexInv(p)
  BY DEF IInv, Inv
<1>2. PICK h, s, k : h = Table(p) /\ s = Table(p).tail /\ k = Top(p)
  OBVIOUS
<1>3. PICK n \in Nat : n = Capacity(h) /\ n >= 2
  BY <1>1, <1>2, TableTyped
<1>4. s \in 0..(n - 1) /\ s \in Int /\ k \in Int
  BY <1>1, <1>2, <1>3, TableTyped, NumbersTyped
<1>5. PICK m \in Nat : m = Number(i) /\ Base(i) = First(m)
  BY InItsBlock
<1>6. PICK key : key = entries[p][h.index[s + 1]].key
  OBVIOUS
<1>7. key = First(k)
  <2>1. k - k = 0 /\ s + 0 = s
    BY <1>4
  <2>2. n >= 1
    BY <1>3
  <2>3. s % n = s
    BY <1>4, <2>2, Remainders
  <2>4. Entry(p, k) = h.index[s + 1]
    BY <1>2, <1>3, <2>1, <2>3 DEF Entry, Cell
  <2>5. Key(p, k) = First(k)
    BY <1>1, <1>2 DEF IndexInv
  <2> QED
    BY <1>6, <2>4, <2>5 DEF Key
<1>8. EntryFor(h, s, key, i) = Entry(p, m)
  <2>1. (First(m) - First(k)) \div BlockSize = m - k
    BY <1>4, Blocks
  <2> QED
    BY <1>2, <1>5, <1>7, <2>1 DEF EntryFor, Entry, Cell
<1>9. BlockOf(p, i) = entries[p][EntryFor(h, s, key, i)].value
  BY <1>2, <1>6 DEF BlockOf
<1> QED
  BY <1>5, <1>8, <1>9 DEF Value

(* A block that holds an index from the head on is in the index of blocks. *)
LEMMA Remaining ==
  ASSUME IInv, NEW p \in Producers, NEW m \in 0..(Linked(p) - 1), head[p] < First(m + 1)
  PROVE  Present(p, m) /\ Counting(p, m)
<1>1. head[p] \in Nat /\ First(m + 1) \in Int
  <2>1. m + 1 \in Int
    OBVIOUS
  <2> QED
    BY <2>1, Blocks DEF IInv, TypeOK, SizesTyped
<1>2. ~Gone(p, m)
  BY <1>1 DEF Gone
<1> QED
  BY <1>2 DEF IInv, Inv, BlocksInv

(* When nobody is in a call, these are the blocks that are found. *)
LEMMA QuietBlocks ==
  ASSUME IInv, Quiet, NEW p \in Producers, NEW m
  PROVE  Present(p, m) <=> m \in 0..(Linked(p) - 1) /\ head[p] < First(m + 1)
<1>1. TypeOK /\ IndexInv(p) /\ head[p] \in Nat
  BY DEF IInv, Inv, TypeOK, SizesTyped
<1>2. pc[p] = "idle"
  BY Constants DEF Quiet
<1>3. Top(p) = Linked(p) - 1 /\ Linked(p) \in Nat
  BY <1>1, <1>2, NumbersTyped DEF Top, Turning
<1>4. Capacity(Table(p)) \in Nat
  BY <1>1, TableTyped
<1> SUFFICES ASSUME Present(p, m) PROVE m \in 0..(Linked(p) - 1) /\ head[p] < First(m + 1)
  BY Remaining
<1>5. m \in Int /\ m <= Top(p) /\ m >= 0
  BY <1>1, <1>3, <1>4 DEF Present, IndexInv, Window
<1>6. m \in 0..(Linked(p) - 1)
  BY <1>3, <1>5
<1>7. Counting(p, m)
  BY <1>6 DEF IInv, Inv, BlocksInv
<1>8. \A c \in Consumers : ~Unlinks(c, p, m) /\ c \notin Emptying(p, m)
  BY Constants DEF Quiet, Unlinks, Emptying, Looking
<1>9. GivenOut(p, m) # BlockSize
  <2>1. dequeued[Value(p, m)] # BlockSize
    BY <1>7, <1>8 DEF Counting
  <2>2. Emptying(p, m) = {}
    BY <1>8 DEF Emptying
  <2>3. Cardinality(Emptying(p, m)) = 0
    BY <2>2, FS_EmptySet
  <2>4. Value(p, m) \in Nodes
    BY FoundOnce
  <2>5. dequeued[Value(p, m)] \in Nat
    BY <1>1, <2>4 DEF TypeOK, BlocksTyped
  <2> QED
    BY <1>7, <2>1, <2>3, <2>5 DEF Counting
<1>10. PICK f \in Int : f = First(m) /\ First(m + 1) = f + BlockSize
  BY <1>5, Blocks
<1>11. BlockSize \in Nat
  BY Constants
<1>12. head[p] < First(m + 1)
  BY <1>1, <1>9, <1>10, <1>11 DEF GivenOut
<1> QED
  BY <1>6, <1>12

(* The destructor frees the blocks of a sub-queue in their order. *)
LEMMA FreedBlocks ==
  ASSUME IInv, Quiet, NEW p \in Producers,
         NEW m \in Nat, m = Number(head[p]), NEW n \in Int, n = Linked(p) - m
  PROVE  n >= 0 /\ DOMAIN Freed(p) = 1..n /\ \A i \in 1..n : Freed(p)[i] = Value(p, m + (i - 1))
<1>1. TypeOK /\ head[p] \in Nat /\ tail[p] \in Nat
  BY DEF IInv, TypeOK, SizesTyped
<1>2. pc[p] = "idle"
  BY Constants DEF Quiet
<1>3. Top(p) = Linked(p) - 1 /\ Linked(p) \in Nat
  BY <1>1, <1>2, NumbersTyped DEF Top, Turning
<1>4. head[p] <= tail[p]
  <2>1. Won(p) <= tail[p] /\ Cardinality(At(p, "index")) \in Nat
    BY <1>1, Counts DEF IInv, Inv, ClaimsInv
  <2> QED
    BY <1>1, <2>1 DEF Won
<1>5. PICK l \in Nat : l = Linked(p)
  BY <1>3
<1>6. tailBlock[p] = NoNode <=> l = 0
  BY <1>5, ListAssumption DEF IInv, Inv, BlocksInv
<1>7. PICK w : w = Walked(p)
  OBVIOUS
<1>8. PICK f : f = Freed(p)
  OBVIOUS
<1>9. CASE head[p] = tail[p] /\ tail[p] % BlockSize = 0
  <2>1. m = l
    BY <1>1, <1>2, <1>5, <1>9 DEF Linked
  <2>2. w = [i \in 1..0 |-> BlockOf(p, head[p] + ((i - 1) * BlockSize))]
    BY <1>7, <1>9 DEF Walked
  <2>3. w = <<>>
    BY <2>2
  <2>4. f = <<>> \o <<>>
    BY <1>7, <1>8, <1>9, <2>3 DEF Freed
  <2>5. f = <<>>
    BY <2>4
  <2>6. n = 0
    BY <1>5, <2>1
  <2> QED
    BY <1>8, <2>5, <2>6
<1>10. CASE head[p] = tail[p] /\ tail[p] % BlockSize # 0
  <2>1. l = m + 1
    BY <1>1, <1>2, <1>5, <1>10 DEF Linked
  <2>2. w = [i \in 1..0 |-> BlockOf(p, head[p] + ((i - 1) * BlockSize))]
    BY <1>7, <1>10 DEF Walked
  <2>3. w = <<>>
    BY <2>2
  <2>4. tailBlock[p] # NoNode
    BY <1>6, <2>1
  <2>5. f = <<>> \o <<tailBlock[p]>>
    BY <1>7, <1>8, <1>10, <2>3, <2>4 DEF Freed
  <2>6. f = <<tailBlock[p]>>
    BY <2>5
  <2>7. n = 1
    BY <1>5, <2>1
  <2>8. m \in 0..(Linked(p) - 1) /\ m = Linked(p) - 1
    BY <1>5, <2>1
  <2>9. head[p] < First(m + 1)
    <3>1. First(m + 1) = First(m) + BlockSize
      BY Blocks
    <3> QED
      BY <1>1, <3>1, InItsBlock
  <2>10. Present(p, m)
    BY <2>8, <2>9, QuietBlocks
  <2>11. tailBlock[p] = Value(p, m)
    <3>1. BlocksInv(p)
      BY DEF IInv, Inv
    <3>2. Linked(p) > 0 /\ Present(p, Linked(p) - 1)
      BY <1>3, <1>5, <2>1, <2>8, <2>10
    <3>3. tailBlock[p] = Value(p, Linked(p) - 1)
      BY <3>1, <3>2 DEF BlocksInv
    <3> QED
      BY <2>8, <3>3
  <2>12. m + (1 - 1) = m
    OBVIOUS
  <2> QED
    BY <1>8, <2>6, <2>7, <2>11, <2>12
<1>11. CASE head[p] # tail[p]
  <2>1. tail[p] - 1 \in Nat /\ head[p] <= tail[p] - 1
    BY <1>1, <1>4, <1>11
  <2>2. PICK t \in Nat : t = tail[p] - 1 /\ t + 1 = tail[p]
    BY <1>1, <2>1
  <2>3. Number(t) = l - 1
    <3>1. Number(t) \in 0..(Linked(p) - 1)
      BY <1>1, <2>2, TailBlock
    <3>2. Linked(p) >= 1
      BY <1>3, <3>1
    <3>3. PICK k \in Nat : k = l - 1
      BY <1>5, <3>2
    <3>4. First(k) \in Int /\ First(k + 1) = First(k) + BlockSize
      <4>1. k \in Int
        OBVIOUS
      <4> QED
        BY <4>1, Blocks
    <3>5. k + 1 = l
      BY <1>5, <3>3
    <3>6. tail[p] <= First(l)
      BY <1>1, <1>5, TailBlock
    <3>7. First(k) <= t
      <4>1. CASE tail[p] % BlockSize = 0
        <5>1. tail[p] = First(l)
          BY <1>1, <1>2, <1>5, <4>1, TailBlock
        <5>2. BlockSize \in Nat /\ BlockSize >= 1
          BY Constants
        <5> QED
          BY <2>2, <3>4, <3>5, <5>1, <5>2
      <4>2. CASE tail[p] % BlockSize # 0
        <5>1. First(k) < tail[p]
          BY <1>1, <1>5, <3>3, <4>2, TailBlock
        <5> QED
          BY <1>1, <2>2, <3>4, <5>1
      <4> QED
        BY <4>1, <4>2
    <3>8. t < First(k) + BlockSize
      BY <2>2, <3>4, <3>5, <3>6, Constants
    <3>9. Number(t) = k
      BY <3>4, <3>7, <3>8, InItsBlock
    <3> QED
      BY <3>3, <3>9
  <2>4. m <= l - 1
    <3>1. Number(head[p]) \in 0..(Linked(p) - 1)
      BY <1>1, <2>1, <1>4, <1>11, TailBlock
    <3> QED
      BY <1>5, <3>1
  <2>5. n >= 1 /\ n \in Nat /\ n = l - 1 - m + 1 /\ l >= 1
    BY <1>5, <2>4
  <2>6. w = [i \in 1..n |-> BlockOf(p, head[p] + ((i - 1) * BlockSize))]
    <3>1. ((tail[p] - 1) \div BlockSize) - (head[p] \div BlockSize) + 1 = n
      BY <2>2, <2>3, <2>5 DEF Number
    <3> QED
      BY <1>7, <1>11, <3>1 DEF Walked
  <2>7. ASSUME NEW i \in 1..n PROVE w[i] = Value(p, m + (i - 1))
    <3>1. PICK d \in Nat : d = i - 1
      OBVIOUS
    <3>2. PICK j \in Nat : j = head[p] + ((i - 1) * BlockSize)
      <4>1. d * BlockSize \in Nat
        BY <3>1, Constants
      <4> QED
        BY <1>1, <3>1, <4>1
    <3>3. Number(j) = m + d
      <4>1. PICK b \in Nat : b = BlockSize /\ b >= 1
        BY Constants
      <4>2. PICK r \in 0..(b - 1) : head[p] = b * m + r
        <5>1. PICK a \in Int : a = head[p]
          BY <1>1
        <5>2. a \div b = m
          BY <4>1, <5>1 DEF Number
        <5>3. a % b \in 0..(b - 1) /\ a = b * (a \div b) + (a % b)
          BY <4>1, Division
        <5> QED
          BY <5>1, <5>2, <5>3
      <4>3. j = b * (m + d) + r
        <5>1. PICK x \in Int, y \in Int : x = b * m /\ y = b * d /\ b * (m + d) = x + y
          OBVIOUS
        <5>2. d * b = y
          BY <5>1
        <5> QED
          BY <1>1, <3>1, <3>2, <4>1, <4>2, <5>1, <5>2
      <4>4. j \in Int /\ m + d \in Int
        OBVIOUS
      <4>5. j \div b = m + d
        BY <4>1, <4>3, <4>4, Quotient
      <4> QED
        BY <4>1, <4>5 DEF Number
    <3>4. Top(p) >= 0
      BY <1>3, <1>5, <2>5
    <3>5. BlockOf(p, j) = Value(p, Number(j))
      BY <3>4, FoundInTable
    <3> QED
      BY <2>6, <3>1, <3>2, <3>3, <3>5
  <2>8. w \in Seq(Range(w)) /\ Len(w) = n /\ w # <<>>
    <3>1. DOMAIN w = 1..n /\ w = [i \in 1..n |-> w[i]] /\ \A i \in 1..n : w[i] \in Range(w)
      BY <2>6 DEF Range
    <3>2. w \in [1..n -> Range(w)]
      BY <3>1
    <3>3. w \in Seq(Range(w)) /\ Len(w) = n
      BY <2>5, <3>2
    <3> QED
      BY <2>5, <3>3
  <2>9. PICK g : g = Front(w)
    OBVIOUS
  <2>10. Len(g) = n - 1 /\ g \in Seq(Range(w)) /\ \A i \in 1..(n - 1) : g[i] = w[i]
    BY <2>5, <2>8, <2>9, SubSeqProperties DEF Front
  <2>11. tailBlock[p] # NoNode
    BY <1>6, <2>5
  <2>12. f = g \o <<tailBlock[p]>>
    BY <1>7, <1>8, <1>11, <2>8, <2>9, <2>11 DEF Freed
  <2>13. DOMAIN f = 1..n /\ f[n] = tailBlock[p] /\ \A i \in 1..(n - 1) : f[i] = g[i]
    <3>1. PICK S : S = Range(w) \cup {tailBlock[p]}
      OBVIOUS
    <3>2. g \in Seq(S) /\ <<tailBlock[p]>> \in Seq(S) /\ Len(<<tailBlock[p]>>) = 1
      BY <2>10, <3>1
    <3>3. PICK z \in Seq(S) : z = <<tailBlock[p]>> /\ Len(z) = 1 /\ z[1] = tailBlock[p]
      BY <3>2
    <3>4. f = g \o z
      BY <2>12, <3>3
    <3>5. f \in Seq(S) /\ Len(f) = (n - 1) + 1
      BY <2>10, <3>2, <3>3, <3>4, ConcatProperties
    <3>6. \A i \in 1..((n - 1) + 1) : f[i] = IF i <= n - 1 THEN g[i] ELSE z[i - (n - 1)]
      <4>1. \A i \in 1..(Len(g) + Len(z)) : (g \o z)[i] = IF i <= Len(g) THEN g[i]
                                                        ELSE z[i - Len(g)]
        BY <3>2, <3>3, ConcatProperties
      <4>2. Len(g) = n - 1 /\ Len(z) = 1
        BY <2>10, <3>3
      <4> QED
        BY <3>4, <4>1, <4>2, Zenon
    <3>7. (n - 1) + 1 = n /\ n - (n - 1) = 1 /\ n \in 1..n
      BY <2>5
    <3>8. f[n] = tailBlock[p]
      <4>1. ~(n <= n - 1)
        BY <2>5
      <4> QED
        BY <3>3, <3>6, <3>7, <4>1
    <3>9. ASSUME NEW i \in 1..(n - 1) PROVE f[i] = g[i]
      <4>1. i \in 1..((n - 1) + 1) /\ i <= n - 1
        BY <2>5
      <4> QED
        BY <3>6, <4>1
    <3>10. DOMAIN f = 1..n
      BY <3>5, <3>7
    <3> QED
      BY <3>8, <3>9, <3>10
  <2>14. tailBlock[p] = Value(p, m + (n - 1))
    <3>1. m + (n - 1) = Linked(p) - 1 /\ Linked(p) - 1 \in 0..(Linked(p) - 1)
      BY <1>5, <2>5
    <3>2. head[p] < First((Linked(p) - 1) + 1)
      <4>1. PICK k \in Nat : k = Linked(p) - 1 /\ Number(t) = k /\ k + 1 = l
        BY <1>5, <2>3, <2>5
      <4>2. First(k + 1) = First(k) + BlockSize
        BY Blocks
      <4>3. First(k) \in Int /\ t < First(k) + BlockSize /\ BlockSize \in Nat
        BY <4>1, InItsBlock, Constants
      <4>4. head[p] <= t
        BY <2>1, <2>2
      <4> QED
        BY <1>1, <4>1, <4>2, <4>3, <4>4
    <3>3. Present(p, Linked(p) - 1)
      BY <3>1, <3>2, QuietBlocks
    <3> QED
      BY <1>5, <2>5, <3>1, <3>3 DEF IInv, Inv, BlocksInv
  <2>15. ASSUME NEW i \in 1..n PROVE f[i] = Value(p, m + (i - 1))
    <3>1. i = n \/ i \in 1..(n - 1)
      BY <2>5
    <3> QED
      BY <2>7, <2>10, <2>13, <2>14, <3>1
  <2> QED
    BY <1>8, <2>5, <2>13, <2>15
<1> QED
  BY <1>9, <1>10, <1>11


(* Those are the blocks that the index refers to, each once. *)
LEMMA FreedOnce ==
  ASSUME IInv, Quiet, NEW p \in Producers
  PROVE  /\ IsInjective(Freed(p))
         /\ Range(Freed(p)) \subseteq Nodes
         /\ \A b \in Nodes : b \in Range(Freed(p)) <=> \E e \in DOMAIN entries[p] : InSub(b, p, e)
<1>1. TypeOK /\ head[p] \in Nat
  BY DEF IInv, TypeOK, SizesTyped
<1>2. PICK m \in Nat : m = Number(head[p])
  BY <1>1, InItsBlock
<1>3. PICK l \in Nat, n \in Int : l = Linked(p) /\ n = l - m
  BY <1>1, NumbersTyped
<1>4. PICK f : f = Freed(p)
  OBVIOUS
<1>5. n >= 0 /\ DOMAIN f = 1..n /\ \A i \in 1..n : f[i] = Value(p, m + (i - 1))
  BY <1>2, <1>3, <1>4, FreedBlocks
<1>6. ASSUME NEW k \in Int PROVE Present(p, k) <=> k \in m..(l - 1)
  <2>1. k >= m <=> head[p] < First(k + 1)
    <3>1. First(m) \in Int /\ First(m) <= head[p] /\ head[p] < First(m) + BlockSize
      BY <1>1, <1>2, InItsBlock
    <3>2. First(k + 1) \in Int /\ First(m + 1) = First(m) + BlockSize /\ BlockSize \in Nat
      <4>1. k + 1 \in Int /\ m \in Int
        OBVIOUS
      <4>2. First(k + 1) \in Int /\ First(m + 1) = First(m) + BlockSize
        BY <4>1, Blocks
      <4> QED
        BY <4>2, Constants
    <3>3. CASE k = m
      BY <1>1, <3>1, <3>2, <3>3
    <3>4. CASE m < k
      <4>1. First(m + 1) + BlockSize <= First(k + 1)
        <5>1. m + 1 \in Int /\ k + 1 \in Int /\ m + 1 < k + 1
          BY <3>4
        <5> QED
          BY <5>1, Blocks
      <4> QED
        BY <1>1, <3>1, <3>2, <3>4, <4>1
    <3>5. CASE k < m
      <4>1. k + 1 = m \/ First(k + 1) + BlockSize <= First(m)
        <5>1. m \in Int /\ k + 1 \in Int /\ (k + 1 = m \/ k + 1 < m)
          BY <3>5
        <5> QED
          BY <5>1, Blocks
      <4>2. First(k + 1) <= First(m)
        <5>1. k + 1 = m => First(k + 1) = First(m)
          OBVIOUS
        <5> QED
          BY <3>1, <3>2, <4>1, <5>1
      <4> QED
        BY <1>1, <3>1, <3>2, <3>5, <4>2
    <3> QED
      BY <3>3, <3>4, <3>5
  <2>2. Present(p, k) <=> k \in 0..(l - 1) /\ head[p] < First(k + 1)
    BY <1>3, QuietBlocks
  <2> QED
    BY <1>2, <1>3, <2>1, <2>2
<1>7. ASSUME NEW i \in 1..n
      PROVE  i \in Int /\ m + (i - 1) \in Int /\ Present(p, m + (i - 1)) /\ f[i] \in Nodes
  <2>1. PICK k \in Int : k = m + (i - 1)
    OBVIOUS
  <2>2. k \in m..(l - 1)
    BY <1>3, <2>1
  <2>3. Present(p, k)
    BY <1>6, <2>2
  <2>4. f[i] = Value(p, k)
    BY <1>5, <2>1
  <2> QED
    BY <2>1, <2>3, <2>4, FoundOnce
<1>8. IsInjective(f)
  <2> SUFFICES ASSUME NEW i \in 1..n, NEW j \in 1..n, f[i] = f[j] PROVE i = j
    BY <1>5 DEF IsInjective
  <2>1. m + (i - 1) = m + (j - 1)
    BY <1>5, <1>7, FoundOnce
  <2> QED
    BY <1>7, <2>1
<1>9. Range(f) \subseteq Nodes
  BY <1>5, <1>7 DEF Range
<1>10. ASSUME NEW b \in Nodes, b \in Range(f) PROVE \E e \in DOMAIN entries[p] : InSub(b, p, e)
  <2>1. PICK i \in 1..n : b = f[i]
    BY <1>5, <1>10 DEF Range
  <2>2. PICK k \in Int : k = m + (i - 1)
    BY <1>7
  <2>3. b = Value(p, k) /\ Entry(p, k) \in DOMAIN entries[p]
    BY <1>1, <1>5, <2>1, <2>2, Entries
  <2> QED
    BY <2>3 DEF InSub, Value
<1>11. ASSUME NEW b \in Nodes, NEW e \in DOMAIN entries[p], InSub(b, p, e) PROVE b \in Range(f)
  <2>1. PICK k \in Window(p) : Entry(p, k) = e
    BY <1>1, Entries
  <2>2. Value(p, k) = b /\ b # NoNode
    BY <1>11, <2>1, ListAssumption DEF InSub, Value
  <2>3. k \in Int /\ Present(p, k)
    BY <1>1, <2>1, <2>2, Entries DEF Present
  <2>4. k \in m..(l - 1)
    BY <1>6, <2>3
  <2>5. PICK i \in 1..n : k = m + (i - 1)
    <3>1. PICK i \in Int : i = k - m + 1
      BY <2>3
    <3>2. i \in 1..n /\ k = m + (i - 1)
      BY <1>3, <2>3, <2>4, <3>1
    <3> QED
      BY <3>2
  <2> QED
    BY <1>5, <2>2, <2>5 DEF Range
<1> QED
  BY <1>4, <1>8, <1>9, <1>10, <1>11

(* No block leaks and none is freed twice. *)
LEMMA AllReleased ==
  ASSUME IInv
  PROVE  BlocksReleased
<1> SUFFICES ASSUME Quiet PROVE BlocksReleased
  BY DEF BlocksReleased
<1> DEFINE freed(p) == Range(Freed(p))
           made == 1..Made \ (pool + 1)..InitialBlocks
<1>1. \A t \in Threads : at[t] = "out" /\ pc[t] = "idle"
  BY DEF Quiet
<1>2. ListInv /\ \A b \in Nodes : Placed(b)
  BY DEF IInv
<1>3. \A b \in Nodes : Inside(b) <=> b \in Listed
  BY <1>1, <1>2, QuietList
<1>4. \A p \in Producers : \A b \in Nodes : ~Requisitioned(p, b)
  BY <1>1, Constants DEF Requisitioned
<1>5. /\ \A p \in Producers : IsInjective(Freed(p)) /\ freed(p) \subseteq Nodes
      /\ \A p \in Producers : \A b \in Nodes :
            b \in freed(p) <=> \E e \in DOMAIN entries[p] : InSub(b, p, e)
  BY FreedOnce
<1>6. Listed \subseteq Nodes /\ made \subseteq Nodes
  <2>1. Made \in Int /\ Made <= Cardinality(Nodes)
    BY Constants DEF IInv, TypeOK, SourcesTyped, Made
  <2> QED
    BY <2>1, Constants DEF Listed
<1>7. ASSUME NEW p \in Producers, NEW b \in freed(p)
      PROVE  /\ b \in Nodes /\ b \notin Listed /\ b \in made
             /\ \A q \in Producers : b \in freed(q) => p = q
  <2>1. b \in Nodes
    BY <1>5
  <2>2. PICK e \in DOMAIN entries[p] : InSub(b, p, e)
    BY <1>5, <2>1
  <2>3. /\ ~InPool(b) /\ b \in 1..Made /\ ~Inside(b)
        /\ \A q \in Producers : \A f \in DOMAIN entries[q] : InSub(b, q, f) => p = q
    BY <1>2, <2>1, <2>2 DEF Placed
  <2> QED
    BY <1>3, <1>5, <2>1, <2>3 DEF InPool
<1>8. ASSUME NEW b \in Listed PROVE b \in made
  BY <1>2, <1>3, <1>6 DEF Placed, InPool
<1>9. ASSUME NEW b \in made PROVE b \in Listed \/ \E p \in Producers : b \in freed(p)
  BY <1>2, <1>3, <1>4, <1>5, <1>6 DEF Placed, InPool
<1>10. \A p \in Producers : freed(p) \cap Listed = {}
  BY <1>7
<1>11. \A p, q \in Producers : p # q => freed(p) \cap freed(q) = {}
  BY <1>7
<1>12. \A b : b \in UNION {freed(p) : p \in Producers} <=> \E p \in Producers : b \in freed(p)
  OBVIOUS
<1>13. ASSUME NEW b, b \in UNION {freed(p) : p \in Producers} \/ b \in Listed PROVE b \in made
  <2>1. CASE b \in Listed
    BY <1>8, <2>1
  <2>2. CASE b \in UNION {freed(p) : p \in Producers}
    <3>1. PICK p \in Producers : b \in freed(p)
      BY <1>12, <2>2, Zenon
    <3> QED
      BY <1>7, <3>1
  <2> QED
    BY <1>13, <2>1, <2>2
<1>14. ASSUME NEW b, b \in made PROVE b \in UNION {freed(p) : p \in Producers} \/ b \in Listed
  <2>1. b \in Listed \/ \E p \in Producers : b \in freed(p)
    BY <1>9, <1>14
  <2> QED
    BY <1>12, <2>1, Zenon
<1>15. Listed \cup UNION {freed(p) : p \in Producers} = made
  BY <1>13, <1>14, Zenon
<1> QED
  BY <1>5, <1>10, <1>11, <1>15 DEF BlocksReleased

(* The destructor frees every block that was made, once. *)
THEOREM BlocksReleasedHolds == Spec => []BlocksReleased
<1>1. IInv => BlocksReleased
  BY AllReleased
<1> QED
  BY <1>1, InvariantHolds, PTL

-----------------------------------------------------------------------------
(* The indices whose elements are in the queue, or claimed; and the element of one. *)
Live(p, i) ==
  \/ i \in head[p]..(tail[p] - 1)
  \/ \E c \in Consumers : Claimed(c) /\ reg[c].sub = p /\ reg[c].index = i
Item(p, i) == elements[Value(p, Number(i))][i % BlockSize]
IsFound(p, i) ==
  /\ Number(i) \in 0..(Linked(p) - 1) /\ i < tail[p]
  /\ Present(p, Number(i)) /\ Value(p, Number(i)) \in Nodes
  /\ Found(p, i) = Item(p, i)
AllFound == \A p \in Producers : \A i \in Nat : Live(p, i) => IsFound(p, i)

(* A present block is one. *)
LEMMA PresentTyped ==
  ASSUME TypeOK, NEW p \in Producers, NEW m, Present(p, m)
  PROVE  m \in Int /\ Value(p, m) \in Nodes /\ Entry(p, m) \in DOMAIN entries[p]
<1>1. m \in Window(p) /\ Value(p, m) # NoNode
  BY DEF Present
<1>2. m \in Int /\ Entry(p, m) \in DOMAIN entries[p]
  BY <1>1, Entries
<1>3. entries[p] \in Seq(EntryType)
  BY DEF TypeOK, IndexTyped
<1>4. entries[p][Entry(p, m)] \in EntryType
  BY <1>2, <1>3
<1> QED
  BY <1>1, <1>2, <1>4 DEF Value, EntryType, MaybeNode

(* The elements in the queue and those claimed are found, through the table in use. *)
LEMMA LiveFound == IInv => AllFound
<1> SUFFICES ASSUME IInv, NEW p \in Producers, NEW i \in Nat, Live(p, i) PROVE IsFound(p, i)
  BY DEF AllFound
<1>1. TypeOK /\ BlocksInv(p) /\ tail[p] \in Nat /\ head[p] \in Nat
  BY DEF IInv, Inv, TypeOK, SizesTyped
<1>2. PICK m \in Nat : m = Number(i) /\ First(m) \in Int /\ i < First(m) + BlockSize
  BY InItsBlock
<1>3. m \in 0..(Linked(p) - 1) /\ i < tail[p] /\ Present(p, m)
  <2>1. CASE i \in head[p]..(tail[p] - 1)
    <3>1. i < tail[p] /\ head[p] <= i
      BY <1>1, <2>1
    <3>2. m \in 0..(Linked(p) - 1)
      BY <1>1, <1>2, <3>1, TailBlock
    <3>3. Present(p, m)
      <4> SUFFICES ASSUME ~Present(p, m) PROVE FALSE
        OBVIOUS
      <4>1. First(m + 1) <= head[p]
        BY <1>1, <3>2 DEF BlocksInv, Gone
      <4>2. First(m + 1) = First(m) + BlockSize /\ First(m) + BlockSize \in Int
        <5>1. m \in Int
          BY <1>2
        <5>2. First(m + 1) = First(m) + BlockSize
          BY <5>1, Blocks
        <5> QED
          BY <1>2, <5>2, Constants
      <4> QED
        BY <1>1, <1>2, <3>1, <4>1, <4>2
    <3> QED
      BY <3>1, <3>2, <3>3
  <2>2. CASE i \notin head[p]..(tail[p] - 1)
    <3>1. PICK c \in Consumers : Claimed(c) /\ reg[c].sub = p /\ reg[c].index = i
      BY <2>2 DEF Live
    <3>2. pc[c] \in Looking \cup {"unlink"}
      BY <3>1 DEF Claimed, Looking
    <3>3. /\ m \in 0..(Linked(p) - 1) /\ Present(p, m)
          /\ i < head[p] /\ head[p] <= tail[p]
      BY <1>2, <3>1, <3>2, Working
    <3> QED
      BY <1>1, <3>3
  <2> QED
    BY <2>1, <2>2
<1>4. Value(p, m) \in Nodes
  BY <1>1, <1>3, PresentTyped
<1>5. BlockOf(p, i) = Value(p, m)
  <2>1. Top(p) >= 0
    BY <1>1, <1>3, NumbersTyped
  <2> QED
    BY <1>2, <2>1, FoundInTable
<1>6. Found(p, i) = elements[Value(p, m)][i % BlockSize]
  BY <1>4, <1>5, ListAssumption DEF Found
<1> QED
  BY <1>2, <1>3, <1>4, <1>6 DEF IsFound, Item

(* And so they are after a step. *)
LEMMA LiveFoundNext == IInv' => AllFound'
BY LiveFound, PTL

-----------------------------------------------------------------------------
(* What a step leaves in the queue it shows as before. *)
ItemsSame ==
  \A p \in Producers : \A i \in Nat : Live(p, i) /\ Live(p, i)' => Item(p, i)' = Item(p, i)
ValuesSame ==
  \A p \in Producers : \A m \in Int : Present(p, m) /\ Present(p, m)' =>
    Value(p, m)' = Value(p, m)

(* What is found at an index before and after a step that leaves the items. *)
LEMMA FoundSame ==
  ASSUME IInv, IInv', ItemsSame, NEW p \in Producers, NEW i \in Nat, Live(p, i), Live(p, i)'
  PROVE  Found(p, i)' = Found(p, i)
<1>1. Found(p, i) = Item(p, i)
  BY LiveFound DEF AllFound, IsFound
<1>2. Found(p, i)' = Item(p, i)'
  BY LiveFoundNext DEF AllFound, IsFound
<1>3. Item(p, i)' = Item(p, i)
  BY DEF ItemsSame
<1> QED
  BY <1>1, <1>2, <1>3

(* A step that leaves the blocks and the elements leaves the items. *)
LEMMA ItemsKept ==
  ASSUME IInv, IInv', ValuesSame, elements' = elements
  PROVE  ItemsSame
<1> SUFFICES ASSUME NEW p \in Producers, NEW i \in Nat, Live(p, i), Live(p, i)'
             PROVE  Item(p, i)' = Item(p, i)
  BY DEF ItemsSame
<1>1. PICK m \in Nat : m = Number(i)
  BY InItsBlock
<1>2. Present(p, m)
  BY <1>1, LiveFound DEF AllFound, IsFound
<1>3. IsFound(p, i)'
  BY LiveFoundNext DEF AllFound
<1>4. Number(i)' = m
  BY <1>1 DEF Number
<1>5. Present(p, m)'
  BY <1>1, <1>3 DEF IsFound, Number
<1>6. Value(p, m)' = Value(p, m)
  BY <1>2, <1>5 DEF ValuesSame
<1> QED
  BY <1>1, <1>4, <1>6 DEF Item

(* The contents of a sub-queue, and what a consumer holds. *)
LEMMA ContentsSame ==
  ASSUME IInv, IInv', ItemsSame, NEW p \in Producers, tail'[p] = tail[p], head'[p] = head[p]
  PROVE  Contents'[p] = Contents[p]
<1>1. head[p] \in Nat /\ tail[p] \in Nat
  BY DEF IInv, TypeOK, SizesTyped
<1>2. PICK h \in Nat, n \in Int : h = head[p] /\ n = tail[p] - head[p]
  BY <1>1
<1>3. Contents[p] = [i \in 1..n |-> Found(p, h + i - 1)]
  BY <1>2 DEF Contents
<1>4. Contents'[p] = [i \in 1..n |-> Found(p, h + i - 1)']
  BY <1>2 DEF Contents
<1>5. ASSUME NEW i \in 1..n PROVE Found(p, h + i - 1)' = Found(p, h + i - 1)
  <2>1. PICK j \in Nat : j = h + i - 1
    BY <1>2
  <2>2. j \in head[p]..(tail[p] - 1)
    BY <1>1, <1>2, <2>1
  <2>3. Live(p, j) /\ Live(p, j)'
    BY <2>2 DEF Live
  <2>4. Found(p, j)' = Found(p, j)
    BY <2>3, FoundSame
  <2> QED
    BY <2>1, <2>4
<1> QED
  BY <1>3, <1>4, <1>5

(* What a consumer holds that claims and holds the same. *)
LEMMA HeldSame ==
  ASSUME IInv, IInv', ItemsSame, NEW c \in Consumers, Claimed(c)' <=> Claimed(c),
         Claimed(c) => reg'[c].sub = reg[c].sub /\ reg'[c].index = reg[c].index,
         ~Claimed(c) => reg'[c].item = reg[c].item
  PROVE  Held'[c] = Held[c]
<1>1. CASE ~Claimed(c)
  BY <1>1 DEF Held
<1>2. CASE Claimed(c)
  <2>1. PICK p \in Producers, i \in Nat : p = reg[c].sub /\ i = reg[c].index
    <3>1. reg[c].sub \in Producers
      BY <1>2 DEF IInv, TypeOK, ThreadsTyped, Claimed
    <3>2. reg[c].index \in Nat
      BY Constants, RegistersTyped DEF IInv, TypeOK
    <3> QED
      BY <3>1, <3>2
  <2>2. Live(p, i)
    BY <1>2, <2>1 DEF Live
  <2>3. Live(p, i)'
    BY <1>2, <2>1 DEF Live
  <2>4. Found(p, i)' = Found(p, i)
    BY <2>2, <2>3, FoundSame
  <2>5. Held[c] = Found(p, i)
    BY <1>2, <2>1 DEF Held
  <2>6. Held'[c] = Found(p, i)'
    BY <1>2, <2>1 DEF Held
  <2> QED
    BY <2>4, <2>5, <2>6
<1> QED
  BY <1>1, <1>2

SameShown == Contents' = Contents /\ Held' = Held
(* Contents and holdings are functions: they are the same if they are at each point. *)
LEMMA AllSame ==
  ASSUME \A p \in Producers : Contents'[p] = Contents[p],
         \A c \in Consumers : Held'[c] = Held[c]
  PROVE  SameShown
<1>1. Contents' = Contents
  BY DEF Contents
<1>2. Held' = Held
  BY DEF Held
<1> QED
  BY <1>1, <1>2 DEF SameShown

-----------------------------------------------------------------------------
(* A producer's step that shows nothing. *)
LEMMA ProducerQuiet ==
  ASSUME IInv, IInv', NEW p \in Producers,
         \A t \in Threads \ {p} : pc'[t] = pc[t] /\ reg'[t] = reg[t],
         UNCHANGED <<tail, head, elements>>,
         \A q \in Producers \ {p} : /\ tables'[q] = tables[q] /\ entries'[q] = entries[q]
                                    /\ tailBlock'[q] = tailBlock[q],
         \A m \in Int : Present(p, m) /\ Present(p, m)' => Value(p, m)' = Value(p, m)
  PROVE  SameShown
<1>1. ASSUME NEW q \in Producers \ {p}, NEW m \in Int PROVE Value(q, m)' = Value(q, m)
  <2>1. Untouched(q)
    BY Constants DEF Untouched
  <2> QED
    BY <2>1, UntouchedSame, ViewSame
<1>2. ItemsSame
  BY <1>1, ItemsKept DEF ValuesSame
<1>3. ASSUME NEW c \in Consumers PROVE Held'[c] = Held[c]
  <2>1. pc'[c] = pc[c] /\ reg'[c] = reg[c]
    BY Constants
  <2>2. Claimed(c)' <=> Claimed(c)
    BY <2>1 DEF Claimed
  <2> QED
    BY <1>2, <2>1, <2>2, HeldSame
<1>4. \A q \in Producers : Contents'[q] = Contents[q]
  BY <1>2, ContentsSame
<1> QED
  BY <1>3, <1>4, AllSame

(* The value of an entry that is found at no block that is present. *)
LEMMA OtherEntries ==
  ASSUME TypeOK, NEW p \in Producers, NEW e,
         \A f \in DOMAIN entries[p] \ {e} : entries'[p][f].value = entries[p][f].value,
         \A m \in Int : Entry(p, m)' = Entry(p, m),
         entries[p][e].value = NoNode \/ entries'[p][e].value = NoNode
  PROVE  \A m \in Int : Present(p, m) /\ Present(p, m)' => Value(p, m)' = Value(p, m)
<1> SUFFICES ASSUME NEW m \in Int, Present(p, m), Present(p, m)'
             PROVE  Value(p, m)' = Value(p, m)
  OBVIOUS
<1>1. Value(p, m) # NoNode /\ Value(p, m)' # NoNode
  BY DEF Present
<1>2. Entry(p, m) \in DOMAIN entries[p]
  BY PresentTyped
<1>3. PICK f \in DOMAIN entries[p] : f = Entry(p, m)
  BY <1>2
<1>4. Value(p, m) = entries[p][f].value /\ Value(p, m)' = entries'[p][f].value
  BY <1>3 DEF Value
<1>5. f # e
  BY <1>1, <1>4
<1> QED
  BY <1>4, <1>5

(* The steps of a producer that leave its index of blocks. *)
LEMMA ViewShown ==
  ASSUME IInv, IInv', NEW p \in Producers, NEW there, NEW locals, Go(p, there, locals),
         UNCHANGED <<tail, head, tables, entries, tailBlock, elements>>,
         Linked(p)' = Linked(p), Turning(p)' <=> Turning(p)
  PROVE  SameShown
<1>1. SameView(p)
  <2>1. Top(p)' = Top(p)
    BY DEF Top
  <2> QED
    BY <2>1 DEF SameView, SameIndex
<1>2. \A m : Value(p, m)' = Value(p, m)
  BY <1>1, ViewSame
<1>3. \A t \in Threads \ {p} : pc'[t] = pc[t] /\ reg'[t] = reg[t]
  BY Constants, GoEffect DEF IInv, TypeOK
<1> QED
  BY <1>2, <1>3, ProducerQuiet

(* A producer begins. *)
LEMMA PublishShown ==
  ASSUME IInv, IInv', NEW p \in Producers, Publish(p)
  PROVE  SameShown
<1>1. PICK there : there = IF tail[p] % BlockSize = 0 THEN "index" ELSE "put"
  OBVIOUS
<1>2. /\ pc[p] = "idle" /\ Go(p, there, reg[p])
      /\ UNCHANGED <<tail, head, tables, entries, tailBlock, elements>>
  BY <1>1 DEF Publish, Then, sizes, blocks
<1>3. pc'[p] = there
  BY <1>2, PublisherGoes
<1>4. (Turning(p)' <=> Turning(p)) /\ Linked(p)' = Linked(p)
  BY <1>1, <1>2, <1>3 DEF Turning, Linked
<1> QED
  BY <1>2, <1>4, ViewShown

(* It looks for a block. *)
LEMMA SeekShown ==
  ASSUME IInv, IInv', NEW p \in Producers, pc[p] \in {"pool", "poolget", "list"},
         NEW there \in {"poolget", "list", "link", "rewind"}, NEW locals, Go(p, there, locals),
         UNCHANGED <<sizes, tables, entries, blocks>>
  PROVE  SameShown
<1>1. UNCHANGED <<tail, head, tables, entries, tailBlock, elements>>
  BY DEF sizes, blocks
<1>2. pc'[p] = there
  BY PublisherGoes
<1>3. (Turning(p)' <=> Turning(p)) /\ Linked(p)' = Linked(p)
  BY <1>1, <1>2 DEF Turning, Linked
<1> QED
  BY <1>1, <1>3, ViewShown

(* In the pool, on the free list, or a new one. *)
LEMMA PoolShown ==
  ASSUME IInv, IInv', NEW p \in Producers, PoolLook(p) \/ PoolGet(p) \/ FromList(p)
  PROVE  SameShown
<1>1. CASE PoolLook(p)
  BY <1>1, SeekShown DEF PoolLook, Then
<1>2. CASE PoolGet(p)
  <2>1. PICK locals : locals = [reg[p] EXCEPT !.block = pool + 1]
    OBVIOUS
  <2> QED
    BY <1>2, <2>1, SeekShown DEF PoolGet, Then
<1>3. CASE FromList(p)
  <2>1. PICK l1, l2 : l1 = [reg[p] EXCEPT !.block = Got(p)] /\ l2 = [reg[p] EXCEPT !.block = Made + 1]
    OBVIOUS
  <2> QED
    BY <1>3, <2>1, SeekShown DEF FromList, Then
<1> QED
  BY <1>1, <1>2, <1>3

(* A free entry gets a key, and nothing that is present has it. *)
LEMMA InsertKeyShown ==
  ASSUME IInv, IInv', NEW p \in Producers, InsertKey(p)
  PROVE  SameShown
<1>1. /\ TypeOK /\ ThreadsTyped /\ IndexInv(p) /\ Top(p) \in Int
  BY NumbersTyped DEF IInv, Inv, TypeOK
<1>2. PICK e, locals : e = NewEntry(p) /\ locals = [reg[p] EXCEPT !.entry = e]
  OBVIOUS
<1>3. /\ pc[p] = "index" /\ Go(p, "turn", locals)
      /\ entries' = [entries EXCEPT ![p][e].key = tail[p]]
      /\ UNCHANGED <<tail, head, tables, tailBlock, elements>>
  BY <1>2 DEF InsertKey, sizes, blocks
<1>4. /\ pc'[p] = "turn" /\ \A t \in Threads \ {p} : pc'[t] = pc[t] /\ reg'[t] = reg[t]
  BY <1>1, <1>3, Constants, GoEffect
<1>5. SameIndex(p)
  <2>1. ~Turning(p) /\ ~Turning(p)'
    BY <1>3, <1>4 DEF Turning
  <2>2. Linked(p)' = Linked(p)
    BY <1>3, <1>4 DEF Linked
  <2> QED
    BY <1>3, <2>1, <2>2 DEF SameIndex, Top
<1>6. \A m \in Int : Entry(p, m)' = Entry(p, m)
  BY <1>5, IndexSame
<1>7. entries \in [Producers -> Seq(EntryType)] /\ entries[p] \in Seq(EntryType)
  BY <1>1 DEF TypeOK, IndexTyped
<1>8. PICK x : x = [entries[p][e] EXCEPT !.key = tail[p]]
  OBVIOUS
<1>9. PICK s : s = [entries[p] EXCEPT ![e] = x]
  OBVIOUS
<1>10. entries' = [entries EXCEPT ![p] = s]
  BY <1>3, <1>8, <1>9
<1>11. entries'[p] = s /\ \A q \in Producers \ {p} : entries'[q] = entries[q]
  BY <1>7, <1>10
<1>12. ASSUME NEW f \in DOMAIN entries[p] PROVE entries'[p][f].value = entries[p][f].value
  <2>1. entries[p][f] \in EntryType
    BY <1>7
  <2>2. CASE f # e
    BY <1>9, <1>11, <2>2
  <2>3. CASE f = e
    <3>1. entries'[p][f] = x
      BY <1>7, <1>9, <1>11, <2>3
    <3>2. x.value = entries[p][f].value
      BY <1>8, <2>1, <2>3 DEF EntryType
    <3> QED
      BY <3>1, <3>2
  <2> QED
    BY <2>2, <2>3
<1>13. ASSUME NEW m \in Int, Present(p, m) PROVE Value(p, m)' = Value(p, m)
  <2>1. Entry(p, m) \in DOMAIN entries[p]
    BY <1>1, <1>13, PresentTyped
  <2> QED
    BY <1>6, <1>12, <2>1 DEF Value
<1> QED
  BY <1>3, <1>4, <1>11, <1>13, ProducerQuiet


(* The tail of the index is moved, forwards or backwards: the blocks are found as before. *)
LEMMA TurnShown ==
  ASSUME IInv, IInv', NEW p \in Producers, NEW there, Go(p, there, reg[p]),
         UNCHANGED <<sizes, entries, blocks>>, NEW offset \in Int, NEW d \in Int,
         Turned(p, offset), offset = d \/ offset = d + Capacity(Table(p)),
         NEW k \in Int, k = Top(p), Top(p)' = k + d
  PROVE  SameShown
<1>1. TypeOK /\ ThreadsTyped
  BY DEF IInv, TypeOK
<1>2. UNCHANGED <<tail, head, entries, tailBlock, elements>>
  BY DEF sizes, blocks
<1>3. /\ \A q \in Producers \ {p} : tables'[q] = tables[q]
      /\ \A m \in Int : Value(p, m)' = Value(p, m)
  BY <1>1, <1>2, TurnedIndex
<1>4. \A t \in Threads \ {p} : pc'[t] = pc[t] /\ reg'[t] = reg[t]
  BY <1>1, Constants, GoEffect
<1> QED
  BY <1>2, <1>3, <1>4, ProducerQuiet

(* The tail of the index moves on to the new entry ... *)
LEMMA InsertTailShown ==
  ASSUME IInv, IInv', NEW p \in Producers, InsertTail(p)
  PROVE  SameShown
<1>1. pc[p] = "turn" /\ Turned(p, 1) /\ Go(p, "pool", reg[p]) /\ UNCHANGED <<sizes, entries, blocks>>
  BY DEF InsertTail, Then
<1>2. PICK k \in Int, l \in Nat : k = Top(p) /\ l = Linked(p)
  BY NumbersTyped DEF IInv
<1>3. pc'[p] = "pool" /\ tail' = tail
  BY <1>1, PublisherGoes DEF sizes
<1>4. ~Turning(p) /\ Turning(p)' /\ Linked(p)' = l
  BY <1>1, <1>2, <1>3 DEF Turning, Linked
<1>5. Top(p)' = k + 1
  BY <1>2, <1>4 DEF Top
<1>6. PICK d \in Int : d = 1
  OBVIOUS
<1> QED
  BY <1>1, <1>2, <1>5, <1>6, TurnShown

(* ... or back, without a block. *)
LEMMA RewindShown ==
  ASSUME IInv, IInv', NEW p \in Producers, Rewind(p)
  PROVE  SameShown
<1>1. PICK k \in Int, l \in Nat, n \in Nat : k = Top(p) /\ l = Linked(p) /\ n = Capacity(Table(p))
  <2>1. TypeOK
    BY DEF IInv
  <2>2. Top(p) \in Int /\ Linked(p) \in Nat /\ Capacity(Table(p)) \in Nat
    BY <2>1, NumbersTyped, TableTyped
  <2> QED
    BY <2>2
<1>2. /\ pc[p] = "rewind" /\ Turned(p, n - 1) /\ Go(p, "drop", reg[p])
      /\ UNCHANGED <<sizes, entries, blocks>>
  BY <1>1 DEF Rewind, Then
<1>3. pc'[p] = "drop" /\ tail' = tail
  BY <1>2, PublisherGoes DEF sizes
<1>4. Turning(p) /\ ~Turning(p)' /\ Linked(p)' = l
  BY <1>1, <1>2, <1>3 DEF Turning, Linked
<1>5. PICK d \in Int, o \in Int : d = -1 /\ o = n - 1 /\ o = d + n
  BY <1>1
<1>6. Top(p)' = k + d
  <2>1. Top(p)' = l - 1 /\ k = l
    BY <1>1, <1>4 DEF Top
  <2> QED
    BY <1>5, <2>1
<1>7. Turned(p, o) /\ (o = d \/ o = d + Capacity(Table(p)))
  BY <1>1, <1>2, <1>5
<1> QED
  BY <1>1, <1>2, <1>6, <1>7, TurnShown

(* The entry given back referred to nothing. *)
LEMMA DropShown ==
  ASSUME IInv, IInv', NEW p \in Producers, Drop(p)
  PROVE  SameShown
<1>1. /\ TypeOK /\ ThreadsTyped /\ ProducerInv(p) /\ Top(p) \in Int /\ pc[p] = "drop"
  BY NumbersTyped DEF IInv, Inv, TypeOK, Drop
<1>2. PICK e : e = reg[p].entry
  OBVIOUS
<1>3. e \in DOMAIN entries[p]
  <2>1. e = Entry(p, Top(p) + 1)
    BY <1>1, <1>2 DEF ProducerInv
  <2>2. PICK k \in Int : k = Top(p) + 1
    BY <1>1
  <2> QED
    BY <1>1, <2>1, <2>2, Entries
<1>4. /\ entries' = [entries EXCEPT ![p][e].value = NoNode] /\ Go(p, "idle", Blank)
      /\ UNCHANGED <<tail, head, tables, tailBlock, elements>>
  BY <1>2 DEF Drop, sizes, blocks
<1>5. pc'[p] = "idle" /\ \A t \in Threads \ {p} : pc'[t] = pc[t] /\ reg'[t] = reg[t]
  BY <1>1, <1>4, Constants, GoEffect
<1>6. /\ entries'[p][e] = [key |-> entries[p][e].key, value |-> NoNode]
      /\ \A f \in DOMAIN entries[p] \ {e} : entries'[p][f] = entries[p][f]
      /\ \A q \in Producers \ {p} : entries'[q] = entries[q]
  <2>1. NoNode \in MaybeNode
    BY DEF MaybeNode
  <2>2. tables' = tables
    BY <1>4
  <2> QED
    BY <1>1, <1>3, <1>4, <2>1, <2>2, ValueStored
<1>7. SameIndex(p)
  <2>1. ~Turning(p) /\ ~Turning(p)' /\ Linked(p)' = Linked(p)
    BY <1>1, <1>4, <1>5 DEF Turning, Linked
  <2> QED
    BY <1>4, <2>1 DEF SameIndex, Top
<1>8. \A m \in Int : Entry(p, m)' = Entry(p, m)
  BY <1>7, IndexSame
<1>9. \A m \in Int : Present(p, m) /\ Present(p, m)' => Value(p, m)' = Value(p, m)
  <2>1. entries'[p][e].value = NoNode
    BY <1>6
  <2>2. \A f \in DOMAIN entries[p] \ {e} : entries'[p][f].value = entries[p][f].value
    BY <1>6
  <2> QED
    BY <1>1, <1>8, <2>1, <2>2, OtherEntries
<1> QED
  BY <1>4, <1>5, <1>6, <1>9, ProducerQuiet

(* A metric that is dropped for want of an index was not shown. *)
LEMMA NoBlockIndexShown ==
  ASSUME IInv, IInv', NEW p \in Producers, NoBlockIndex(p)
  PROVE  SameShown
<1>1. /\ pc[p] = "index" /\ Go(p, "idle", Blank)
      /\ UNCHANGED <<tail, head, tables, entries, tailBlock, elements>>
  BY DEF NoBlockIndex, sizes, blocks
<1>2. pc'[p] = "idle"
  BY <1>1, PublisherGoes
<1>3. (Turning(p)' <=> Turning(p)) /\ Linked(p)' = Linked(p)
  BY <1>1, <1>2 DEF Turning, Linked
<1> QED
  BY <1>1, <1>3, ViewShown

(* The block linked is another one than those that are found. *)
LEMMA LinkBlockShown ==
  ASSUME IInv, IInv', NEW p \in Producers, LinkBlock(p)
  PROVE  SameShown
<1>1. /\ TypeOK /\ ThreadsTyped /\ ProducerInv(p) /\ pc[p] = "link" /\ Linked(p) \in Nat
      /\ tail[p] \in Nat
  BY NumbersTyped DEF IInv, Inv, TypeOK, SizesTyped, LinkBlock
<1>2. Turning(p) /\ Linked(p) = Top(p)
  BY <1>1 DEF Turning, Top
<1>3. PICK k, b, e : /\ k \in Nat /\ k = Top(p)
                     /\ b \in Nodes /\ b = reg[p].block /\ e = reg[p].entry
  BY <1>1, <1>2 DEF ProducerInv
<1>4. /\ tail[p] % BlockSize = 0 /\ e = Entry(p, k) /\ e \in DOMAIN entries[p]
      /\ entries[p][e].value = NoNode
  <2>1. tail[p] % BlockSize = 0 /\ e = Entry(p, k) /\ Value(p, k) = NoNode
    BY <1>1, <1>2, <1>3 DEF ProducerInv
  <2> QED
    BY <1>1, <1>3, <2>1, Entries DEF Value
<1>5. /\ entries' = [entries EXCEPT ![p][e].value = b]
      /\ tailBlock' = [tailBlock EXCEPT ![p] = b]
      /\ Go(p, "put", Blank) /\ UNCHANGED <<tail, head, tables, elements>>
  BY <1>3 DEF LinkBlock, sizes
<1>6. pc'[p] = "put" /\ \A t \in Threads \ {p} : pc'[t] = pc[t] /\ reg'[t] = reg[t]
  BY <1>1, <1>5, Constants, GoEffect
<1>7. /\ \A f \in DOMAIN entries[p] \ {e} : entries'[p][f] = entries[p][f]
      /\ \A q \in Producers \ {p} : entries'[q] = entries[q]
  <2>1. b \in MaybeNode /\ tables' = tables
    BY <1>3, <1>5 DEF MaybeNode
  <2> QED
    BY <1>1, <1>4, <1>5, <2>1, ValueStored
<1>8. \A q \in Producers \ {p} : tailBlock'[q] = tailBlock[q]
  BY <1>1, <1>5 DEF TypeOK, BlocksTyped
<1>9. Top(p)' = k
  <2>1. ~Turning(p)'
    BY <1>6 DEF Turning
  <2>2. PICK i : i = tail[p]
    OBVIOUS
  <2>3. Linked(p) = Number(i) /\ tail'[p] = i /\ i \in Nat
    <3>1. Number(i) + 0 = Number(i)
      BY <1>1, <2>2, InItsBlock
    <3> QED
      BY <1>1, <1>4, <1>5, <2>2, <3>1 DEF Linked
  <2>4. Linked(p)' = k + 1
    BY <1>2, <1>3, <1>6, <2>3 DEF Linked, Number
  <2> QED
    BY <1>3, <2>1, <2>4 DEF Top
<1>10. \A m \in Int : Entry(p, m)' = Entry(p, m)
  <2>1. Table(p)' = Table(p)
    BY <1>5 DEF Table
  <2> QED
    BY <1>3, <1>9, <2>1 DEF Entry, Cell, Capacity
<1>11. \A m \in Int : Present(p, m) /\ Present(p, m)' => Value(p, m)' = Value(p, m)
  <2>1. \A f \in DOMAIN entries[p] \ {e} : entries'[p][f].value = entries[p][f].value
    BY <1>7
  <2> QED
    BY <1>1, <1>4, <1>10, <2>1, OtherEntries
<1> QED
  BY <1>5, <1>6, <1>7, <1>8, <1>11, ProducerQuiet

(* The index is made longer. *)
LEMMA NewBlockIndexShown ==
  ASSUME IInv, IInv', NEW p \in Producers, NewBlockIndex(p)
  PROVE  SameShown
<1>1. /\ TypeOK /\ Top(p) \in Int /\ Capacity(Table(p)) \in Nat
  BY NumbersTyped, TableTyped DEF IInv
<1>2. PICK k \in Int, n \in Nat : k = Top(p) /\ n = Capacity(Table(p))
  BY <1>1
<1>3. /\ tables' = [tables EXCEPT ![p] = Append(@, Doubled(Table(p)))]
      /\ entries' = [entries EXCEPT ![p] =
           @ \o [i \in 1..Capacity(Table(p)) |-> [key |-> NoKey, value |-> NoNode]]]
      /\ UNCHANGED <<tail, head, tailBlock, elements, pc, reg>>
  BY DEF NewBlockIndex, sizes, blocks
<1>4. Top(p)' = k
  BY <1>2, <1>3 DEF Top, Turning, Linked
<1>5. /\ \A q \in Producers \ {p} : tables'[q] = tables[q] /\ entries'[q] = entries[q]
      /\ \A m \in Window(p) : Value(p, m)' = Value(p, m)
  BY <1>1, <1>2, <1>3, <1>4, DoubledIndex
<1>6. \A m \in Int : Present(p, m) => Value(p, m)' = Value(p, m)
  BY <1>5 DEF Present
<1> QED
  BY <1>3, <1>5, <1>6, ProducerQuiet


-----------------------------------------------------------------------------
(* A consumer's step that leaves the items shows nothing but of that consumer. *)
LEMMA ConsumerShown ==
  ASSUME IInv, IInv', NEW c \in Consumers, NEW there, NEW locals, Go(c, there, locals),
         UNCHANGED <<tail, head>>, ItemsSame
  PROVE  /\ Contents' = Contents /\ \A d \in Consumers \ {c} : Held'[d] = Held[d]
         /\ pc'[c] = there /\ reg'[c] = locals
<1>1. /\ pc'[c] = there /\ reg'[c] = locals
      /\ \A t \in Threads \ {c} : pc'[t] = pc[t] /\ reg'[t] = reg[t]
  BY Constants, GoEffect DEF IInv, TypeOK
<1>2. ASSUME NEW d \in Consumers \ {c} PROVE Held'[d] = Held[d]
  <2>1. pc'[d] = pc[d] /\ reg'[d] = reg[d]
    BY <1>1, Constants
  <2>2. Claimed(d)' <=> Claimed(d)
    BY <2>1 DEF Claimed
  <2> QED
    BY <2>1, <2>2, HeldSame
<1>3. \A p \in Producers : Contents'[p] = Contents[p]
  BY ContentsSame
<1>4. Contents' = Contents
  BY <1>3 DEF Contents
<1> QED
  BY <1>1, <1>2, <1>4

(* One that leaves the index of blocks and the elements leaves the items. *)
LEMMA IndexShown ==
  ASSUME IInv, IInv', NEW c \in Consumers, NEW there, NEW locals, Go(c, there, locals),
         UNCHANGED <<tail, tables, entries, tailBlock, elements>>
  PROVE  ItemsSame
<1>1. \A p \in Producers : SameView(p)
  BY IndexLeft
<1>2. ValuesSame
  BY <1>1, ViewSame DEF ValuesSame
<1> QED
  BY <1>2, ItemsKept

(* A consumer that has no element yet shows none. *)
LEMMA SearchShown ==
  ASSUME IInv, IInv', NEW c \in Consumers, pc[c] \in Searching, NEW there \in Searching,
         NEW locals, Go(c, there, locals),
         UNCHANGED <<tail, head, tables, entries, tailBlock, elements>>
  PROVE  SameShown
<1>1. /\ Contents' = Contents /\ \A d \in Consumers \ {c} : Held'[d] = Held[d]
      /\ pc'[c] = there
  BY IndexShown, ConsumerShown
<1>2. ConsumerInv(c) /\ ConsumerInv(c)'
  BY DEF IInv
<1>3. reg[c].item = NoItem /\ ~Claimed(c)
  BY <1>2 DEF Searching, Claimed, ConsumerInv
<1>4. reg'[c].item = NoItem /\ ~Claimed(c)'
  BY <1>1, <1>2 DEF Searching, Claimed, ConsumerInv
<1>5. Held'[c] = Held[c]
  BY <1>3, <1>4 DEF Held
<1>6. \A p \in Producers : Contents'[p] = Contents[p]
  BY <1>1
<1> QED
  BY <1>1, <1>5, <1>6, AllSame

(* A consumer that looks its index up shows the same element. *)
LEMMA LookupShown ==
  ASSUME IInv, IInv', NEW c \in Consumers, Claimed(c),
         NEW there \in {"table", "tail", "key", "take"}, NEW locals, Go(c, there, locals),
         locals.sub = reg[c].sub, locals.index = reg[c].index,
         UNCHANGED <<tail, head, tables, entries, tailBlock, elements>>
  PROVE  SameShown
<1>1. /\ Contents' = Contents /\ \A d \in Consumers \ {c} : Held'[d] = Held[d]
      /\ pc'[c] = there /\ reg'[c] = locals
  BY IndexShown, ConsumerShown
<1>2. Claimed(c)'
  BY <1>1 DEF Claimed
<1>3. Held'[c] = Held[c]
  BY <1>1, <1>2, IndexShown, HeldSame
<1>4. \A p \in Producers : Contents'[p] = Contents[p]
  BY <1>1
<1> QED
  BY <1>1, <1>3, <1>4, AllSame

(* The steps before a consumer has an index, and those that look it up. *)
LEMMA QuietConsumer ==
  ASSUME IInv, IInv', NEW c \in Consumers,
         \/ Scan(c) \/ Look(c) \/ Check(c) \/ Claim(c) \/ Again(c) \/ Undo(c)
         \/ LoadTable(c) \/ LoadTail(c) \/ LoadKey(c)
  PROVE  SameShown
<1>1. CASE Scan(c)
  <2>1. PICK best : Go(c, "look", [Blank EXCEPT !.sub = best, !.others = Producers \ {best}])
    BY <1>1 DEF Scan
  <2>2. pc[c] \in Searching /\ "look" \in Searching
    BY <1>1 DEF Scan, Searching
  <2> QED
    BY <1>1, <2>1, <2>2, SearchShown DEF Scan, sizes, blocks
<1>2. CASE Look(c)
  <2>1. pc[c] \in Searching /\ "check" \in Searching
    BY <1>2 DEF Look, Searching
  <2> QED
    BY <1>2, <2>1, SearchShown DEF Look, sizes, blocks
<1>3. CASE Check(c)
  <2>1. PICK there, locals : there \in Searching /\ Go(c, there, locals)
    <3>1. CASE Go(c, "claim", [reg[c] EXCEPT !.tail = 0])
      BY <3>1 DEF Searching
    <3>2. CASE TryOther(c)
      BY <3>2, OtherTried DEF Searching, IInv, TypeOK
    <3> QED
      BY <1>3, <3>1, <3>2 DEF Check
  <2>2. pc[c] \in Searching
    BY <1>3 DEF Check, Searching
  <2> QED
    BY <1>3, <2>1, <2>2, SearchShown DEF Check, sizes, blocks
<1>4. CASE Claim(c)
  <2>1. pc[c] \in Searching /\ "again" \in Searching
    BY <1>4 DEF Claim, Searching
  <2> QED
    BY <1>4, <2>1, SearchShown DEF Claim, blocks
<1>5. CASE Again(c)
  <2>1. PICK there, locals : there \in Searching /\ Go(c, there, locals)
    BY <1>5 DEF Again, Searching
  <2>2. pc[c] \in Searching
    BY <1>5 DEF Again, Searching
  <2> QED
    BY <1>5, <2>1, <2>2, SearchShown DEF Again, sizes, blocks
<1>6. CASE Undo(c)
  <2>1. PICK there, locals : there \in Searching /\ Go(c, there, locals)
    BY <1>6, OtherTried DEF Undo, Searching, IInv, TypeOK
  <2>2. pc[c] \in Searching
    BY <1>6 DEF Undo, Searching
  <2> QED
    BY <1>6, <2>1, <2>2, SearchShown DEF Undo, blocks
<1>7. reg[c] \in Registers
  BY Constants DEF IInv, TypeOK, ThreadsTyped
<1>8. CASE LoadTable(c)
  <2>1. PICK locals : locals = [reg[c] EXCEPT !.table = Len(tables[reg[c].sub])]
    OBVIOUS
  <2>2. locals.sub = reg[c].sub /\ locals.index = reg[c].index
    BY <1>7, <2>1 DEF Registers
  <2> QED
    BY <1>8, <2>1, <2>2, LookupShown DEF LoadTable, Claimed, sizes, blocks
<1>9. CASE LoadTail(c)
  <2>1. PICK locals : locals = [reg[c] EXCEPT !.slot = Loaded(c).tail]
    OBVIOUS
  <2>2. locals.sub = reg[c].sub /\ locals.index = reg[c].index
    BY <1>7, <2>1 DEF Registers
  <2> QED
    BY <1>9, <2>1, <2>2, LookupShown DEF LoadTail, Claimed, sizes, blocks
<1>10. CASE LoadKey(c)
  <2>1. PICK e, locals : /\ locals = [reg[c] EXCEPT !.table = 0, !.slot = 0, !.entry = e]
                         /\ Go(c, "take", locals)
    BY <1>10 DEF LoadKey
  <2>2. locals.sub = reg[c].sub /\ locals.index = reg[c].index
    BY <1>7, <2>1 DEF Registers
  <2> QED
    BY <1>10, <2>1, <2>2, LookupShown DEF LoadKey, Claimed, sizes, blocks
<1> QED
  BY <1>1, <1>2, <1>3, <1>4, <1>5, <1>6, <1>8, <1>9, <1>10


-----------------------------------------------------------------------------
(* The element is moved from the block into the consumer's hands, which held it before. *)
LEMMA TakeElementShown ==
  ASSUME IInv, IInv', NEW c \in Consumers, TakeElement(c)
  PROVE  SameShown
<1>1. PICK p \in Producers, j \in Nat, m \in Nat, r \in Nat :
        /\ p = reg[c].sub /\ j = reg[c].index /\ m = Number(j) /\ r = j % BlockSize
        /\ j < head[p] /\ Present(p, m) /\ Value(p, m) \in Nodes
        /\ reg[c].entry = Entry(p, m) /\ pc[c] = "take"
  <2>1. pc[c] = "take" /\ pc[c] \in Looking \cup {"unlink"}
    BY DEF TakeElement, Looking
  <2>2. PICK p : p = reg[c].sub
    OBVIOUS
  <2>3. PICK m : m = Number(reg[c].index)
    OBVIOUS
  <2>4. /\ p \in Producers /\ m \in Nat /\ reg[c].index \in Nat /\ reg[c].index < head[p]
        /\ Present(p, m) /\ Value(p, m) \in Nodes
    BY <2>1, <2>2, <2>3, Working
  <2>5. reg[c].entry = Entry(p, m)
    BY <2>1, <2>2, <2>3 DEF IInv, ConsumerInv
  <2>6. reg[c].index % BlockSize \in 0..(BlockSize - 1)
    BY <2>4, InItsBlock
  <2>7. reg[c].index % BlockSize \in Nat
    BY <2>6
  <2> QED
    BY <2>1, <2>2, <2>3, <2>4, <2>5, <2>7
<1>2. PICK b, x, locals :
        /\ b \in Nodes /\ b = Value(p, m) /\ x = elements[b][r]
        /\ locals = [reg[c] EXCEPT !.block = b, !.item = x]
  BY <1>1
<1>3. /\ Go(c, "empty", locals) /\ elements' = [elements EXCEPT ![b][r] = NoItem]
      /\ UNCHANGED <<tail, head, tables, entries, tailBlock>>
  <2>1. b = entries[reg[c].sub][reg[c].entry].value
    BY <1>1, <1>2 DEF Value
  <2> QED
    BY <1>1, <1>2, <2>1 DEF TakeElement, sizes
<1>4. locals.item = x
  <2>1. reg[c] \in Registers
    BY Constants DEF IInv, TypeOK, ThreadsTyped
  <2> QED
    BY <1>2, <2>1 DEF Registers
<1>5. /\ \A q \in Producers : SameView(q)
      /\ \A d \in Consumers \ {c} : pc'[d] = pc[d] /\ reg'[d] = reg[d]
      /\ pc'[c] = "empty"
  BY <1>3, IndexLeft
<1>6. ASSUME NEW q \in Producers, NEW i \in Nat, Live(q, i), Live(q, i)'
      PROVE  Item(q, i)' = Item(q, i)
  <2>1. PICK n, s : n \in Nat /\ n = Number(i) /\ s = i % BlockSize
    BY InItsBlock
  <2>2. Present(q, n) /\ Value(q, n) \in Nodes
    BY <1>6, <2>1, LiveFound DEF AllFound, IsFound
  <2>3. Value(q, n)' = Value(q, n)
    BY <1>5, ViewSame
  <2>4. PICK a \in Nodes : a = Value(q, n)
    BY <2>2
  <2>5. Item(q, i) = elements[a][s]
    BY <2>1, <2>4 DEF Item
  <2>6. Item(q, i)' = elements'[a][s]
    BY <2>1, <2>3, <2>4 DEF Item, Number
  <2>7. elements \in [Nodes -> [0..BlockSize - 1 -> MaybeItem]]
    BY DEF IInv, TypeOK, BlocksTyped
  <2>8. CASE a # b \/ s # r
    <3>1. elements'[a][s] = elements[a][s]
      BY <1>3, <2>7, <2>8
    <3> QED
      BY <2>5, <2>6, <3>1
  <2>9. CASE a = b /\ s = r
    <3>0. Value(q, n) = Value(p, m)
      BY <1>2, <2>4, <2>9
    <3>1. q = p /\ n = m
      BY <1>1, <2>2, <3>0, FoundOnce
    <3>2. i = j
      <4>1. i = First(m) + r
        BY <2>1, <2>9, <3>1, InItsBlock
      <4>2. j = First(m) + r
        BY <1>1, InItsBlock
      <4> QED
        BY <4>1, <4>2
    <3>3. tail[p] \in Nat /\ head[p] \in Nat
      BY DEF IInv, TypeOK, SizesTyped
    <3>4. ~(i \in head'[q]..(tail'[q] - 1))
      BY <1>1, <1>3, <3>1, <3>2, <3>3
    <3>5. PICK d \in Consumers : Claimed(d)' /\ reg'[d].sub = q /\ reg'[d].index = i
      BY <1>6, <3>4 DEF Live
    <3>6. d # c
      BY <1>5, <3>5 DEF Claimed
    <3>7. pc[d] \in Looking /\ reg[d].sub = p /\ reg[d].index = j
      BY <1>5, <3>1, <3>2, <3>5, <3>6 DEF Claimed, Looking
    <3>8. pc[c] \in Looking
      BY <1>1 DEF Looking
    <3> QED
      BY <1>1, <3>6, <3>7, <3>8 DEF IInv, IndicesDiffer
  <2> QED
    BY <2>8, <2>9
<1>7. ItemsSame
  BY <1>6 DEF ItemsSame
<1>8. /\ Contents' = Contents /\ \A d \in Consumers \ {c} : Held'[d] = Held[d]
      /\ pc'[c] = "empty" /\ reg'[c] = locals
  BY <1>3, <1>7, ConsumerShown
<1>9. Held'[c] = Held[c]
  <2>1. Claimed(c)
    BY <1>1 DEF Claimed
  <2>2. Live(p, j)
    BY <1>1, <2>1 DEF Live
  <2>3. Found(p, j) = Item(p, j)
    BY <2>2, LiveFound DEF AllFound, IsFound
  <2>4. Held[c] = x
    BY <1>1, <1>2, <2>1, <2>3 DEF Held, Item
  <2>5. Held'[c] = x
    BY <1>4, <1>8 DEF Held, Claimed
  <2> QED
    BY <2>4, <2>5
<1>10. \A q \in Producers : Contents'[q] = Contents[q]
  BY <1>8
<1> QED
  BY <1>8, <1>9, <1>10, AllSame

(* An entry is given up whose block was counted empty: no element was found there. *)
LEMMA UnlinkShown ==
  ASSUME IInv, IInv', NEW c \in Consumers, Unlink(c)
  PROVE  SameShown
<1>0. pc[c] = "unlink" /\ pc[c] \in Looking \cup {"unlink"}
  BY DEF Unlink
<1>1. PICK p \in Producers : p = reg[c].sub /\ reg[c].entry \in DOMAIN entries[p]
  <2>1. PICK p : p = reg[c].sub
    OBVIOUS
  <2>2. PICK m : m = Number(reg[c].index)
    OBVIOUS
  <2>3. p \in Producers /\ Entry(p, m) \in DOMAIN entries[p]
    BY <1>0, <2>1, <2>2, Working
  <2>4. reg[c].entry = Entry(p, m)
    BY <1>0, <2>1, <2>2 DEF IInv, ConsumerInv
  <2> QED
    BY <2>1, <2>3, <2>4
<1>e. PICK e \in DOMAIN entries[p] : e = reg[c].entry
  BY <1>1
<1>2. /\ entries' = [entries EXCEPT ![p][e].value = NoNode]
      /\ Go(c, "adding", reg[c]) /\ UNCHANGED <<tail, head, tables, tailBlock, elements>>
  BY <1>1, <1>e DEF Unlink, Then, sizes, blocks
<1>3. /\ pc'[c] = "adding" /\ reg'[c] = reg[c]
      /\ \A q \in Producers : pc'[q] = pc[q] /\ reg'[q] = reg[q]
  BY <1>2, Constants, GoEffect DEF IInv, TypeOK
<1>4. /\ entries'[p][e].value = NoNode
      /\ \A f \in DOMAIN entries[p] \ {e} : entries'[p][f].value = entries[p][f].value
      /\ \A q \in Producers \ {p} : entries'[q] = entries[q]
  <2>1. NoNode \in MaybeNode
    BY DEF MaybeNode
  <2>2. /\ TypeOK /\ tables' = tables
        /\ entries' = [entries EXCEPT ![p][e].value = NoNode]
    BY <1>e, <1>2 DEF IInv
  <2>3. /\ entries'[p][e] = [key |-> entries[p][e].key, value |-> NoNode]
        /\ \A f \in DOMAIN entries[p] \ {e} : entries'[p][f] = entries[p][f]
        /\ \A q \in Producers \ {p} : entries'[q] = entries[q]
    BY <2>1, <2>2, ValueStored
  <2> QED
    BY <2>3
<1>5. SameIndex(p)
  BY <1>1, <1>2, <1>3 DEF SameIndex, Top, Turning, Linked
<1>6. \A n \in Int : Present(p, n) /\ Present(p, n)' => Value(p, n)' = Value(p, n)
  <2>1. \A n \in Int : Entry(p, n)' = Entry(p, n)
    BY <1>1, <1>5, IndexSame
  <2> QED
    BY <1>1, <1>4, <2>1, OtherEntries DEF IInv
<1>7. ASSUME NEW q \in Producers \ {p} PROVE \A n : Value(q, n)' = Value(q, n)
  <2>1. Untouched(q)
    BY <1>2, <1>3, <1>4 DEF Untouched
  <2> QED
    BY <2>1, UntouchedSame, ViewSame
<1>8. ItemsSame
  <2>1. ValuesSame
    BY <1>6, <1>7 DEF ValuesSame
  <2> QED
    BY <1>2, <2>1, ItemsKept
<1>9. /\ Contents' = Contents /\ \A d \in Consumers \ {c} : Held'[d] = Held[d]
  BY <1>2, <1>8, ConsumerShown
<1>10. Held'[c] = Held[c]
  BY <1>0, <1>3 DEF Held, Claimed
<1>11. \A q \in Producers : Contents'[q] = Contents[q]
  BY <1>9
<1> QED
  BY <1>9, <1>10, <1>11, AllSame

(* A consumer that goes back to the poller has handed its metric on. *)
LEMMA HandedOn ==
  ASSUME IInv, IInv', NEW c \in Consumers, Go(c, "idle", Blank),
         UNCHANGED <<tail, head, tables, entries, tailBlock, elements>>
  PROVE  Simple!HandOn(c)
<1>1. /\ Contents' = Contents /\ \A d \in Consumers \ {c} : Held'[d] = Held[d]
      /\ pc'[c] = "idle" /\ reg'[c] = Blank
  BY IndexShown, ConsumerShown
<1>2. Held'[c] = NoItem
  BY <1>1, BlankTyped DEF Held, Claimed
<1>3. Held' = [Held EXCEPT ![c] = NoItem]
  BY <1>1, <1>2 DEF Held
<1> QED
  BY <1>1, <1>3 DEF Simple!HandOn

(* An element is counted out of its block: the metric is handed on, or the block first. *)
LEMMA SetEmptyShown ==
  ASSUME IInv, IInv', NEW c \in Consumers, SetEmpty(c)
  PROVE  SameShown \/ Simple!HandOn(c)
<1>1. pc[c] = "empty" /\ UNCHANGED <<tail, head, tables, entries, tailBlock, elements>>
  BY DEF SetEmpty, sizes
<1>2. CASE Go(c, "idle", Blank)
  BY <1>1, <1>2, HandedOn
<1>3. CASE Go(c, "unlink", reg[c])
  <2>1. /\ Contents' = Contents /\ \A d \in Consumers \ {c} : Held'[d] = Held[d]
        /\ pc'[c] = "unlink" /\ reg'[c] = reg[c]
    BY <1>1, <1>3, IndexShown, ConsumerShown
  <2>2. Held'[c] = Held[c]
    BY <1>1, <2>1 DEF Held, Claimed
  <2>3. \A q \in Producers : Contents'[q] = Contents[q]
    BY <2>1
  <2> QED
    BY <2>1, <2>2, <2>3, AllSame
<1> QED
  BY <1>2, <1>3 DEF SetEmpty, Then

(* The block is on the free list: the metric is handed on. *)
LEMMA AddedShown ==
  ASSUME IInv, IInv', NEW c \in Consumers, Added(c)
  PROVE  Simple!HandOn(c)
<1>1. Go(c, "idle", Blank) /\ UNCHANGED <<tail, head, tables, entries, tailBlock, elements>>
  BY DEF Added, sizes, blocks
<1> QED
  BY <1>1, HandedOn


(* The contents as a sequence of what is found. *)
LEMMA ContentsAre ==
  ASSUME TypeOK, NEW p \in Producers, NEW i \in Nat, i = head[p], NEW n \in Nat, n = tail[p] - i
  PROVE  /\ DOMAIN Contents[p] = 1..n /\ Len(Contents[p]) = n
         /\ \A k \in 1..n : Contents[p][k] = Found(p, i + k - 1)
         /\ \E S : Contents[p] \in Seq(S)
<1>1. Contents[p] = [k \in 1..n |-> Found(p, i + k - 1)]
  BY DEF Contents
<1>2. PICK S : S = {Found(p, i + k - 1) : k \in 1..n}
  OBVIOUS
<1>3. PICK f \in [1..n -> S] : f = Contents[p]
  BY <1>1, <1>2
<1>4. f \in Seq(S) /\ Len(f) = n /\ DOMAIN f = 1..n
  BY Tabulated
<1> QED
  BY <1>1, <1>3, <1>4

(* The same after a step. *)
LEMMA NextContentsAre ==
  ASSUME TypeOK', NEW p \in Producers, NEW i \in Nat, i = head'[p],
         NEW n \in Nat, n = tail'[p] - i
  PROVE  /\ DOMAIN Contents'[p] = 1..n /\ Len(Contents'[p]) = n
         /\ \A k \in 1..n : Contents'[p][k] = Found(p, i + k - 1)'
         /\ \E S : Contents'[p] \in Seq(S)
<1>1. Contents'[p] = [k \in 1..n |-> Found(p, i + k - 1)']
  BY DEF Contents
<1>2. PICK S : S = {Found(p, i + k - 1)' : k \in 1..n}
  OBVIOUS
<1>3. PICK f \in [1..n -> S] : f = Contents'[p]
  BY <1>1, <1>2
<1>4. f \in Seq(S) /\ Len(f) = n /\ DOMAIN f = 1..n
  BY Tabulated
<1> QED
  BY <1>1, <1>3, <1>4

(* The head and the tail of a sequence, and a sequence with one more. *)
IsTaken(s, t, n) == /\ s # <<>> /\ Len(Tail(s)) = n - 1 /\ Head(s) = s[1]
                    /\ DOMAIN Tail(s) = 1..(n - 1) /\ \A k \in 1..(n - 1) : Tail(s)[k] = s[k + 1]
                    /\ \E S : Tail(s) \in Seq(S)
(* They are so for every sequence that is not empty. *)
LEMMA Taken ==
  ASSUME NEW S, NEW s \in Seq(S), NEW n \in Nat, n >= 1, Len(s) = n
  PROVE  IsTaken(s, Tail(s), n)
<1>1. s # <<>>
  OBVIOUS
<1>2. /\ Tail(s) \in Seq(S) /\ Len(Tail(s)) = n - 1
      /\ \A k \in 1..Len(Tail(s)) : Tail(s)[k] = s[k + 1]
  BY <1>1, HeadTailProperties
<1>3. Head(s) = s[1]
  BY <1>1
<1>4. DOMAIN Tail(s) = 1..(n - 1)
  BY <1>2
<1> QED
  BY <1>1, <1>2, <1>3, <1>4 DEF IsTaken

(* Sequences with the same length and elements are the same. *)
LEMMA SameSequence ==
  ASSUME NEW S, NEW s \in Seq(S), NEW T, NEW t \in Seq(T), NEW n \in Nat,
         DOMAIN s = 1..n, DOMAIN t = 1..n, \A k \in 1..n : s[k] = t[k]
  PROVE  s = t
OBVIOUS

(* The first element of the sub-queue becomes what the consumer holds. *)
LEMMA TakeIndexShown ==
  ASSUME IInv, IInv', NEW c \in Consumers, TakeIndex(c)
  PROVE  \E p \in Producers : Simple!Take(c, p)
<1>1. PICK p \in Producers : p = reg[c].sub
  BY DEF TakeIndex, IInv, TypeOK, ThreadsTyped
<1>2. pc[c] = "index" /\ c \in At(p, "index") /\ TypeOK /\ TypeOK'
  BY <1>1 DEF TakeIndex, IInv, At
<1>3. PICK i \in Nat, l \in Nat, n \in Nat : i = head[p] /\ l = tail[p] /\ n = l - i /\ n >= 1
  <2>1. PICK i \in Nat, l \in Nat : i = head[p] /\ l = tail[p]
    BY <1>2 DEF TypeOK, SizesTyped
  <2>2. Cardinality(At(p, "index")) \in Nat /\ Cardinality(At(p, "index")) # 0
    BY <1>2, Counts, FS_EmptySet
  <2>3. i + Cardinality(At(p, "index")) <= l
    BY <2>1 DEF IInv, Inv, ClaimsInv, Won
  <2>4. l - i \in Nat /\ l - i >= 1
    BY <2>2, <2>3
  <2> QED
    BY <2>1, <2>4
<1>4. PICK locals : locals = [Blank EXCEPT !.sub = p, !.index = i]
  OBVIOUS
<1>5. locals.sub = p /\ locals.index = i
  BY <1>4 DEF Blank
<1>6. /\ Go(c, "table", locals) /\ head' = [head EXCEPT ![p] = i + 1]
      /\ UNCHANGED <<tail, tables, entries, tailBlock, elements>>
  BY <1>1, <1>3, <1>4 DEF TakeIndex, blocks
<1>7. /\ \A q \in Producers : SameView(q)
      /\ \A d \in Consumers \ {c} : pc'[d] = pc[d] /\ reg'[d] = reg[d]
      /\ pc'[c] = "table" /\ reg'[c] = locals
  BY <1>6, IndexLeft
<1>8. head'[p] = i + 1 /\ \A q \in Producers \ {p} : head'[q] = head[q]
  BY <1>2, <1>6 DEF TypeOK, SizesTyped
<1>9. ItemsSame
  <2>1. ValuesSame
    BY <1>7, ViewSame DEF ValuesSame
  <2> QED
    BY <1>6, <2>1, ItemsKept
<1>10. Claimed(c)'
  BY <1>7 DEF Claimed
<1>11. ASSUME NEW j \in i..(l - 1) PROVE Found(p, j)' = Found(p, j)
  <2>1. j \in Nat /\ j \in head[p]..(tail[p] - 1)
    BY <1>3
  <2>2. Live(p, j)
    BY <2>1 DEF Live
  <2>3. CASE j = i
    <3>1. Live(p, j)'
      BY <1>5, <1>7, <1>10, <2>3 DEF Live
    <3> QED
      BY <1>9, <2>1, <2>2, <3>1, FoundSame
  <2>4. CASE j # i
    <3>1. j \in head'[p]..(tail'[p] - 1)
      BY <1>3, <1>6, <1>8, <2>4
    <3>2. Live(p, j)'
      BY <3>1 DEF Live
    <3> QED
      BY <1>9, <2>1, <2>2, <3>2, FoundSame
  <2> QED
    BY <2>3, <2>4
<1>12. PICK s : s = Contents[p]
  OBVIOUS
<1>13. /\ DOMAIN s = 1..n /\ Len(s) = n /\ \A k \in 1..n : s[k] = Found(p, i + k - 1)
       /\ \E S : s \in Seq(S)
  <2>1. i = head[p] /\ n = tail[p] - i /\ TypeOK
    BY <1>2, <1>3
  <2>2. DOMAIN Contents[p] = 1..n /\ Len(Contents[p]) = n
    BY <2>1, ContentsAre
  <2>3. \A k \in 1..n : Contents[p][k] = Found(p, i + k - 1)
    BY <2>1, ContentsAre
  <2>4. \E S : Contents[p] \in Seq(S)
    BY <2>1, ContentsAre
  <2> QED
    BY <1>12, <2>2, <2>3, <2>4
<1>14. IsTaken(s, Tail(s), n)
  BY <1>3, <1>13, Taken
<1>15. Contents'[p] = Tail(s)
  <2>1. PICK j \in Nat, m \in Nat : j = i + 1 /\ m = n - 1
    BY <1>3
  <2>2. j = head'[p] /\ m = tail'[p] - j
    BY <1>3, <1>6, <1>8, <2>1
  <2>3. PICK t : t = Contents'[p]
    OBVIOUS
  <2>4. /\ DOMAIN t = 1..m /\ \A k \in 1..m : t[k] = Found(p, j + k - 1)'
        /\ \E S : t \in Seq(S)
    BY <1>2, <2>2, <2>3, NextContentsAre
  <2>5. /\ DOMAIN Tail(s) = 1..m /\ \A k \in 1..m : Tail(s)[k] = s[k + 1]
        /\ \E S : Tail(s) \in Seq(S)
    BY <1>14, <2>1 DEF IsTaken
  <2>6. ASSUME NEW k \in 1..m PROVE t[k] = Tail(s)[k]
    <3>1. PICK a : a = i + k /\ a \in i..(l - 1) /\ a = j + k - 1 /\ a = i + (k + 1) - 1
                   /\ k + 1 \in 1..n
      BY <1>3, <2>1
    <3>2. t[k] = Found(p, a)'
      BY <2>4, <3>1
    <3>3. s[k + 1] = Found(p, a)
      BY <1>13, <3>1
    <3> QED
      BY <1>11, <2>5, <3>1, <3>2, <3>3
  <2>7. t = Tail(s)
    BY <2>4, <2>5, <2>6, SameSequence
  <2> QED
    BY <2>3, <2>7
<1>16. Held'[c] = Head(s)
  <2>1. Held'[c] = Found(p, i)'
    BY <1>5, <1>7, <1>10 DEF Held
  <2>2. i \in i..(l - 1) /\ 1 \in 1..n /\ i = i + 1 - 1
    BY <1>3
  <2>3. s[1] = Found(p, i)
    BY <1>13, <2>2
  <2> QED
    BY <1>11, <1>14, <2>1, <2>2, <2>3 DEF IsTaken
<1>17. Held[c] = NoItem
  <2>1. reg[c].item = NoItem
    BY <1>2 DEF IInv, ConsumerInv
  <2> QED
    BY <1>2, <2>1 DEF Held, Claimed
<1>18. ASSUME NEW q \in Producers \ {p} PROVE Contents'[q] = Contents[q]
  BY <1>6, <1>8, <1>9, ContentsSame
<1>19. ASSUME NEW d \in Consumers \ {c} PROVE Held'[d] = Held[d]
  <2>1. Claimed(d)' <=> Claimed(d)
    BY <1>7 DEF Claimed
  <2> QED
    BY <1>7, <1>9, <2>1, HeldSame
<1>20. Contents' = [Contents EXCEPT ![p] = Tail(@)]
  BY <1>12, <1>15, <1>18 DEF Contents
<1>21. Held' = [Held EXCEPT ![c] = Head(Contents[p])]
  BY <1>12, <1>16, <1>19 DEF Held
<1>22. Contents[p] # <<>>
  BY <1>12, <1>14 DEF IsTaken
<1> QED
  BY <1>17, <1>20, <1>21, <1>22 DEF Simple!Take


IsAppended(t, s, n, x) ==
  /\ DOMAIN t = 1..(n + 1) /\ \A k \in 1..n : t[k] = s[k]
  /\ t[n + 1] = x /\ \E T : t \in Seq(T)
(* It is so for every sequence and element. *)
LEMMA Appended ==
  ASSUME NEW S, NEW s \in Seq(S), NEW n \in Nat, Len(s) = n, NEW x
  PROVE  IsAppended(Append(s, x), s, n, x)
<1>1. PICK T : T = S \cup {x}
  OBVIOUS
<1>2. s \in Seq(T) /\ x \in T
  BY <1>1
<1>3. /\ Append(s, x) \in Seq(T) /\ Len(Append(s, x)) = n + 1
      /\ \A k \in 1..n : Append(s, x)[k] = s[k]
      /\ Append(s, x)[n + 1] = x
  BY <1>2, AppendProperties
<1>4. DOMAIN Append(s, x) = 1..(n + 1)
  BY <1>3
<1> QED
  BY <1>3, <1>4 DEF IsAppended

(* What the producers have yet to publish is part of what they were asked to. *)
Asked == \E quota \in Quotas : \A p \in Producers : todo[p] \in 0..quota[p]

(* The items are those that the producers may be asked to publish. *)
LEMMA Numbered ==
  ASSUME NEW quota \in Quotas, NEW p \in Producers, NEW n \in 1..quota[p]
  PROVE  n \in Numbers
<1>1. n \in UNION {1..quota[r] : r \in Producers}
  OBVIOUS
<1> QED
  BY <1>1 DEF Numbers

(* The element is the last one of the sub-queue, and the others are as they were. *)
LEMMA PutShown ==
  ASSUME IInv, IInv', Asked, NEW p \in Producers, Put(p)
  PROVE  Simple!Put(p)
<1>1. /\ TypeOK /\ TypeOK' /\ BlocksInv(p) /\ pc[p] = "put" /\ todo \in [Threads -> Nat]
      /\ todo[p] \in Nat /\ todo[p] > 0 /\ tail \in [Producers -> Nat]
  BY Constants DEF IInv, Inv, TypeOK, WorkTyped, SizesTyped, Put
<1>2. PICK h \in Nat, l \in Nat, n \in Nat : h = head[p] /\ l = tail[p] /\ n = l - h
  <2>1. head[p] \in Nat /\ tail[p] \in Nat /\ Cardinality(At(p, "index")) \in Nat
    BY <1>1, Counts DEF TypeOK, SizesTyped
  <2>2. head[p] + Cardinality(At(p, "index")) <= tail[p]
    BY DEF IInv, Inv, ClaimsInv, Won
  <2>3. tail[p] - head[p] \in Nat
    BY <2>1, <2>2
  <2> QED
    BY <2>1, <2>3
<1>3. PICK b, r, x : b = tailBlock[p] /\ r = l % BlockSize /\ x = <<p, todo[p]>>
  OBVIOUS
<1>4. /\ elements' = [elements EXCEPT ![b][r] = x] /\ tail' = [tail EXCEPT ![p] = l + 1]
      /\ head' = head /\ Go(p, "idle", Blank)
  BY <1>2, <1>3 DEF Put
<1>5. tail'[p] = l + 1 /\ \A q \in Producers \ {p} : tail'[q] = tail[q]
  BY <1>1, <1>4
<1>6. ASSUME NEW q \in Producers, NEW m
      PROVE  Value(q, m)' = Value(q, m) /\ (Present(q, m)' <=> Present(q, m))
  BY PutView, ViewSame
<1>7. \A c \in Consumers : pc'[c] = pc[c] /\ reg'[c] = reg[c]
  BY <1>1, <1>4, Constants, GoEffect DEF TypeOK
<1>8. PICK m \in Nat : m = Number(l) /\ m = Linked(p) - 1 /\ Linked(p) > 0
  <2>1. Number(l) \in Nat
    BY InItsBlock
  <2>2. Linked(p) = Number(l) + 1
    BY <1>1, <1>2 DEF Linked
  <2> QED
    BY <2>1, <2>2
<1>9. Live(p, l)'
  <2>1. l \in head'[p]..(tail'[p] - 1)
    BY <1>2, <1>4, <1>5
  <2> QED
    BY <2>1 DEF Live
<1>10. Present(p, m) /\ Value(p, m) = b
  <2>1. IsFound(p, l)'
    BY <1>9, LiveFoundNext DEF AllFound
  <2>2. Present(p, Number(l))'
    BY <2>1 DEF IsFound, Number
  <2>3. Present(p, m)
    BY <1>6, <1>8, <2>2
  <2> QED
    BY <1>1, <1>3, <1>8, <2>3 DEF BlocksInv
<1>11. b \in Nodes
  BY <1>1, <1>10, PresentTyped
<1>12. elements \in [Nodes -> [0..BlockSize - 1 -> MaybeItem]] /\ r \in 0..(BlockSize - 1)
  BY <1>1, <1>3, InItsBlock DEF TypeOK, BlocksTyped
<1>13. ItemsSame
  <2> SUFFICES ASSUME NEW q \in Producers, NEW i \in Nat, Live(q, i), Live(q, i)'
               PROVE  Item(q, i)' = Item(q, i)
    BY DEF ItemsSame
  <2>1. PICK k, s : k \in Nat /\ k = Number(i) /\ s = i % BlockSize
    BY InItsBlock
  <2>2. Present(q, k) /\ Value(q, k) \in Nodes /\ i < tail[q]
    BY <2>1, LiveFound DEF AllFound, IsFound
  <2>3. PICK a \in Nodes : a = Value(q, k)
    BY <2>2
  <2>4. Item(q, i) = elements[a][s]
    BY <2>1, <2>3 DEF Item
  <2>5. Item(q, i)' = elements'[a][s]
    BY <1>6, <2>1, <2>3 DEF Item, Number
  <2>6. a # b \/ s # r
    <3> SUFFICES ASSUME a = b, s = r PROVE FALSE
      OBVIOUS
    <3>1. Value(q, k) = Value(p, m)
      BY <1>10, <2>3
    <3>2. q = p /\ k = m
      BY <1>10, <2>2, <3>1, FoundOnce
    <3>3. i = First(m) + r
      BY <2>1, <3>2, InItsBlock
    <3>4. l = First(m) + r
      BY <1>3, <1>8, InItsBlock
    <3> QED
      BY <1>2, <2>2, <3>2, <3>3, <3>4
  <2>7. elements'[a][s] = elements[a][s]
    BY <1>4, <1>12, <2>6
  <2> QED
    BY <2>4, <2>5, <2>7
<1>14. Found(p, l)' = x
  <2>1. Found(p, l)' = Item(p, l)'
    BY <1>9, LiveFoundNext DEF AllFound, IsFound
  <2>2. Item(p, l)' = elements'[b][r]
    BY <1>3, <1>6, <1>8, <1>10 DEF Item, Number
  <2>3. elements'[b][r] = x
    BY <1>4, <1>11, <1>12
  <2> QED
    BY <2>1, <2>2, <2>3
<1>15. PICK s : s = Contents[p]
  OBVIOUS
<1>16. /\ Len(s) = n /\ \A k \in 1..n : s[k] = Found(p, h + k - 1)
       /\ \E S : s \in Seq(S)
  <2>1. h = head[p] /\ n = tail[p] - h
    BY <1>2
  <2>2. TypeOK
    BY <1>1
  <2>3. Len(Contents[p]) = n
    BY <2>1, <2>2, ContentsAre
  <2>4. \A k \in 1..n : Contents[p][k] = Found(p, h + k - 1)
    BY <2>1, <2>2, ContentsAre
  <2>5. \E S : Contents[p] \in Seq(S)
    BY <2>1, <2>2, ContentsAre
  <2> QED
    BY <1>15, <2>3, <2>4, <2>5
<1>17. /\ DOMAIN Append(s, x) = 1..(n + 1)
       /\ \A k \in 1..n : Append(s, x)[k] = s[k]
       /\ Append(s, x)[n + 1] = x
       /\ \E S : Append(s, x) \in Seq(S)
  <2>1. IsAppended(Append(s, x), s, n, x)
    BY <1>16, Appended
  <2> QED
    BY <2>1 DEF IsAppended
<1>18. Contents'[p] = Append(s, x)
  <2>1. PICK o \in Nat : o = n + 1
    OBVIOUS
  <2>2. h = head'[p] /\ o = tail'[p] - h
    BY <1>2, <1>4, <1>5, <2>1
  <2>3. PICK t : t = Contents'[p]
    OBVIOUS
  <2>4. /\ DOMAIN t = 1..o /\ \A k \in 1..o : t[k] = Found(p, h + k - 1)'
        /\ \E S : t \in Seq(S)
    BY <1>1, <2>2, <2>3, NextContentsAre
  <2>5. ASSUME NEW k \in 1..o PROVE t[k] = Append(s, x)[k]
    <3>1. PICK j \in Nat : j = h + k - 1
      OBVIOUS
    <3>2. t[k] = Found(p, j)'
      BY <2>4, <3>1
    <3>3. CASE k = o
      <4>1. j = l
        BY <1>2, <2>1, <3>1, <3>3
      <4> QED
        BY <1>14, <1>17, <2>1, <3>2, <3>3, <4>1
    <3>4. CASE k # o
      <4>1. k \in 1..n /\ j \in head[p]..(tail[p] - 1) /\ j \in head'[p]..(tail'[p] - 1)
        BY <1>2, <1>4, <1>5, <2>1, <3>1, <3>4
      <4>2. Live(p, j) /\ Live(p, j)'
        BY <4>1 DEF Live
      <4>3. Found(p, j)' = Found(p, j)
        BY <1>13, <4>2, FoundSame
      <4>4. Append(s, x)[k] = Found(p, j)
        BY <1>16, <1>17, <3>1, <4>1
      <4> QED
        BY <3>2, <4>3, <4>4
    <3> QED
      BY <3>3, <3>4
  <2>6. t = Append(s, x)
    BY <1>17, <2>1, <2>4, <2>5, SameSequence
  <2> QED
    BY <2>3, <2>6
<1>19. ASSUME NEW q \in Producers \ {p} PROVE Contents'[q] = Contents[q]
  BY <1>4, <1>5, <1>13, ContentsSame
<1>20. ASSUME NEW c \in Consumers PROVE Held'[c] = Held[c]
  <2>1. Claimed(c)' <=> Claimed(c)
    BY <1>7 DEF Claimed
  <2> QED
    BY <1>7, <1>13, <2>1, HeldSame
<1>21. Contents' = [Contents EXCEPT ![p] = Append(@, x)] /\ Held' = Held
  BY <1>15, <1>18, <1>19, <1>20 DEF Contents, Held
<1>22. x \in Producers \X Numbers
  <2>1. PICK quota \in Quotas : todo[p] \in 0..quota[p]
    BY DEF Asked
  <2>2. quota[p] \in Nat
    BY <2>1, Constants, QueueAssumption
  <2>3. todo[p] \in 1..quota[p]
    BY <1>1, <2>1, <2>2
  <2>4. todo[p] \in Numbers
    BY <2>3, Numbered
  <2> QED
    BY <1>3, <2>4
<1> QED
  BY <1>21, <1>22 DEF Simple!Put


-----------------------------------------------------------------------------
(* A step of the free list, or none, shows nothing. *)
LEMMA ListShown ==
  ASSUME UNCHANGED <<tail, head, tables, entries, elements, pc, reg>>
  PROVE  SameShown
<1>1. Contents' = Contents
  BY DEF Contents, Found, BlockOf, EntryFor, Table, Capacity, Base
<1>2. Held' = Held
  BY DEF Held, Claimed, Found, BlockOf, EntryFor, Table, Capacity, Base
<1> QED
  BY <1>1, <1>2 DEF SameShown

(* What a thread has yet to do never grows. *)
LEMMA WorkLeft ==
  ASSUME IInv, [Next]_vars
  PROVE  \A p \in Producers : todo'[p] <= todo[p]
<1>1. todo \in [Threads -> Nat]
  BY DEF IInv, TypeOK, WorkTyped
<1>2. CASE todo' = todo
  BY <1>1, <1>2, Constants
<1>3. ASSUME NEW t \in Threads, Step(t) PROVE \A p \in Producers : todo'[p] <= todo[p]
  <2>1. CASE OnList(t)
    BY <1>2, <2>1 DEF OnList
  <2>2. CASE t \in Consumers /\ Dequeue(t)
    <3>1. todo' = todo
      BY <2>2 DEF Dequeue, Scan, Look, Check, Claim, Again, Undo, TakeIndex, LoadTable, LoadTail,
                  LoadKey, TakeElement, SetEmpty, Unlink, Added
    <3> QED
      BY <1>2, <3>1
  <2>3. CASE Drop(t) \/ Put(t) \/ NoBlockIndex(t)
    <3>1. todo' = [todo EXCEPT ![t] = @ - 1]
      BY <2>3 DEF Drop, Put, NoBlockIndex
    <3>2. todo'[t] = todo[t] - 1 /\ \A p \in Threads \ {t} : todo'[p] = todo[p]
      BY <1>1, <3>1
    <3> QED
      BY <1>1, <3>2, Constants
  <2>4. CASE t \in Producers /\ Enqueue(t) /\ ~(Drop(t) \/ Put(t) \/ NoBlockIndex(t))
    <3>1. todo' = todo
      BY <2>4 DEF Enqueue, Publish, InsertKey, NewBlockIndex, InsertTail, PoolLook, PoolGet,
                  FromList, Rewind, LinkBlock
    <3> QED
      BY <1>2, <3>1
  <2> QED
    BY <1>3, <2>1, <2>2, <2>3, <2>4 DEF Step
<1>4. CASE UNCHANGED vars
  BY <1>2, <1>4 DEF vars
<1> QED
  BY <1>3, <1>4 DEF Next

(* So they publish no other ones. *)
LEMMA AskedKept ==
  ASSUME IInv, IInv', Asked, [Next]_vars
  PROVE  Asked'
<1>1. PICK quota \in Quotas : \A p \in Producers : todo[p] \in 0..quota[p]
  BY DEF Asked
<1>2. ASSUME NEW p \in Producers PROVE todo'[p] \in 0..quota[p]
  <2>1. todo[p] \in 0..quota[p] /\ todo'[p] <= todo[p] /\ quota[p] \in Nat
    BY <1>1, WorkLeft, Constants, QueueAssumption
  <2>2. todo'[p] \in Nat
    BY Constants DEF IInv, TypeOK, WorkTyped
  <2> QED
    BY <2>1, <2>2
<1> QED
  BY <1>2 DEF Asked

(* The queue starts empty. *)
LEMMA ShownFirst ==
  ASSUME Init
  PROVE  Asked /\ Simple!Init
<1>1. Asked
  <2>1. \A p \in Producers : todo[p] \in Nat
    BY Constants, QueueAssumption DEF Init
  <2>2. \A p \in Producers : todo[p] \in 0..todo[p]
    BY <2>1
  <2> QED
    BY <2>2 DEF Init, Asked
<1>2. ASSUME NEW p \in Producers PROVE Contents[p] = <<>>
  <2>1. head[p] = 0 /\ tail[p] = 0
    BY DEF Init, InitProducers
  <2>2. 1..(tail[p] - head[p]) = {}
    BY <2>1
  <2>3. Contents[p] = [i \in {} |-> Found(p, head[p] + i - 1)]
    BY <2>2 DEF Contents
  <2> QED
    BY <2>3
<1>3. Contents = [p \in Producers |-> <<>>]
  BY <1>2 DEF Contents
<1>4. ASSUME NEW c \in Consumers PROVE Held[c] = NoItem
  BY Constants DEF Init, Held, Claimed, Blank
<1>5. Held = [c \in Consumers |-> NoItem]
  BY <1>4 DEF Held
<1> QED
  BY <1>1, <1>3, <1>5 DEF Simple!Init

(* Every step of a thread is one of the simple queue, or shows nothing. *)
LEMMA StepShown ==
  ASSUME IInv, IInv', Asked, NEW t \in Threads, Step(t)
  PROVE  SameShown \/ Simple!Next
<1>1. CASE OnList(t)
  BY <1>1, ListShown DEF OnList, sizes, blocks
<1>2. CASE t \in Producers /\ Put(t)
  BY <1>2, PutShown DEF Simple!Next
<1>3. CASE t \in Producers /\ Enqueue(t) /\ ~Put(t)
  BY <1>3, PublishShown, InsertKeyShown, NewBlockIndexShown, NoBlockIndexShown, InsertTailShown,
     PoolShown, RewindShown, DropShown, LinkBlockShown DEF Enqueue
<1>4. CASE t \in Consumers /\ TakeIndex(t)
  BY <1>4, TakeIndexShown DEF Simple!Next
<1>5. CASE t \in Consumers /\ (SetEmpty(t) \/ Added(t))
  BY <1>5, SetEmptyShown, AddedShown DEF Simple!Next
<1>6. CASE t \in Consumers /\ (TakeElement(t) \/ Unlink(t))
  BY <1>6, TakeElementShown, UnlinkShown
<1>7. CASE t \in Consumers /\ Dequeue(t) /\ ~TakeIndex(t) /\ ~SetEmpty(t) /\ ~Added(t)
           /\ ~TakeElement(t) /\ ~Unlink(t)
  BY <1>7, QuietConsumer DEF Dequeue
<1> QED
  BY <1>1, <1>2, <1>3, <1>4, <1>5, <1>6, <1>7 DEF Step

(* The queue implements the simple one: the metrics of a thread come out once each
   and in order, whatever blocks, tables and entries they went through.            *)
THEOREM QueueImplemented == Spec => ImplementsQueue
<1>1. Init => Asked /\ Simple!Init
  BY ShownFirst
<1>2. IInv /\ IInv' /\ Asked /\ [Next]_vars => Asked' /\ [Simple!Next]_(Simple!vars)
  <2> SUFFICES ASSUME IInv, IInv', Asked, [Next]_vars
               PROVE  Asked' /\ [Simple!Next]_(Simple!vars)
    OBVIOUS
  <2>1. SameShown \/ Simple!Next
    BY StepShown, ListShown DEF Next, vars, sizes, blocks
  <2> QED
    BY <2>1, AskedKept DEF SameShown, Simple!vars
<1>3. Spec => []Asked
  BY <1>1, <1>2, InvariantHolds, PTL DEF Spec
<1> QED
  BY <1>1, <1>2, <1>3, InvariantHolds, PTL DEF Spec, ImplementsQueue, Simple!Spec
=============================================================================
