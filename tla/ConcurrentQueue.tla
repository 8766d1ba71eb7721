-------------------------- MODULE ConcurrentQueue --------------------------
(* The queue between the request handlers and the metrics poller
   (queue/concurrentqueue.hpp as queuemanager.cpp uses it): a thread that
   publishes has a sub-queue of its own, whose elements lie in blocks that an
   index of blocks finds, and whose consumers count themselves in and out.

   Every step is one access to what threads share, with what follows from it;
   memory is sequentially consistent.  The 64-bit indices do not wrap around.
   Memory may be exhausted when a block or a longer index is made; a sub-queue whose
   first index could not be made takes nothing, and is left out.               *)
EXTENDS FreeList, Sequences, SequencesExt

CONSTANTS
  Producers, Consumers,
  Quotas,         \* what each thread does: the choices
  BlockSize,      \* BLOCK_SIZE
  InitialBlocks,  \* initialBlockPoolSize
  InitialIndex,   \* IMPLICIT_INITIAL_INDEX_SIZE
  MaxAhead,       \* bound on optimistic beyond the tail: two consumers may fail for ever
  NoItem

ASSUME QueueAssumption ==
  /\ Threads = Producers \cup Consumers /\ Producers \cap Consumers = {}
  /\ Quotas \subseteq [Threads -> Nat]
  /\ BlockSize \in Nat \ {0, 1} /\ InitialIndex \in Nat \ {0, 1}
  /\ Nodes = 1..Cardinality(Nodes) /\ InitialBlocks \in 0..Cardinality(Nodes)

VARIABLES
  tail, head,              \* tailIndex and headIndex of each sub-queue
  optimistic, overcommit,  \* dequeueOptimisticCount and dequeueOvercommit
  tables,                  \* its block indices, the last one in use
  entries,                 \* the entries those refer to
  tailBlock,
  elements, dequeued,      \* of each block: elements, elementsCompletelyDequeued
  pool, created,           \* initialBlockPoolIndex; the blocks made since
  pc, reg,                 \* where each thread is, and its local variables
  todo                     \* what a producer has yet to publish; 1 for a consumer at work

vars == <<listVars, tail, head, optimistic, overcommit, tables, entries, tailBlock,
          elements, dequeued, pool, created, pc, reg, todo>>

sizes == <<tail, head, optimistic, overcommit>>
blocks == <<tailBlock, elements, dequeued>>
sources == <<pool, created>>

NoKey == 1    \* INVALID_BLOCK_BASE
Blank == [sub |-> NoItem, others |-> {}, tail |-> 0, over |-> 0, count |-> 0,
          index |-> 0, table |-> 0, slot |-> 0, entry |-> 0, block |-> NoNode,
          item |-> NoItem]

(* A queue without producers, and with a pool of blocks. *)
InitQueue == InitList /\ pool = 0 /\ created = 0

(* The producers' part, which each thread gets with its first call: see
   ProducerHash.                                                             *)
InitProducers ==
  /\ tail = [p \in Producers |-> 0] /\ head = [p \in Producers |-> 0]
  /\ optimistic = [p \in Producers |-> 0] /\ overcommit = [p \in Producers |-> 0]
  /\ tailBlock = [p \in Producers |-> NoNode]

Init ==
  /\ InitQueue /\ InitProducers
  /\ todo \in Quotas
  /\ entries = [p \in Producers |->
                  [e \in 1..InitialIndex |-> [key |-> NoKey, value |-> NoNode]]]
  /\ tables = [p \in Producers |->
                 <<[tail |-> InitialIndex - 1, index |-> [e \in 1..InitialIndex |-> e]]>>]
  /\ elements = [b \in Nodes |-> [i \in 0..BlockSize - 1 |-> NoItem]]
  /\ dequeued = [b \in Nodes |-> 0]
  /\ pc = [t \in Threads |-> "idle"]
  /\ reg = [t \in Threads |-> Blank]

(* The thread goes on with these local variables. *)
Go(t, there, locals) == pc' = [pc EXCEPT ![t] = there] /\ reg' = [reg EXCEPT ![t] = locals]
Then(t, there) == Go(t, there, reg[t])

-----------------------------------------------------------------------------
(* The index of blocks.  The entry after the tail of the table in use: *)
Table(p) == Last(tables[p])
Capacity(table) == Len(table.index)
Ahead(table, offset) == ((table.tail + offset) % Capacity(table)) + 1
NewEntry(p) == Table(p).index[Ahead(Table(p), 1)]

(* The entry of the block that holds an index, counted in blocks from a slot of
   a table where the key is known.                                            *)
Base(index) == index - (index % BlockSize)
EntryFor(table, slot, key, index) ==
  table.index[((slot + ((Base(index) - key) \div BlockSize)) % Capacity(table)) + 1]

(* Mutant of Doubled: the old entries in the order they are stored. *)
DoubledInPlace(table) ==
  LET n == Capacity(table)
  IN [tail |-> n - 1, index |-> table.index \o [i \in 1..n |-> n + i]]

(* A table twice as long: the old entries in order, and as many new ones. *)
Doubled(table) ==
  LET n == Capacity(table)
      old == [i \in 1..n |-> table.index[Ahead(table, i)]]
  IN [tail |-> n - 1, index |-> old \o [i \in 1..n |-> n + i]]

-----------------------------------------------------------------------------
(* ImplicitProducer::enqueue *)
Publish(p) ==
  /\ pc[p] = "idle" /\ todo[p] > 0
  /\ Then(p, IF tail[p] % BlockSize = 0 THEN "index" ELSE "put")
  /\ UNCHANGED <<listVars, sizes, tables, entries, blocks, sources, todo>>

(* An entry is free that was never used, or whose block is gone. *)
Reusable(p) == entries[p][NewEntry(p)].key = NoKey \/ entries[p][NewEntry(p)].value = NoNode

InsertKey(p) ==
  /\ pc[p] = "index" /\ Reusable(p)
  /\ entries' = [entries EXCEPT ![p][NewEntry(p)].key = tail[p]]
  /\ Go(p, "turn", [reg[p] EXCEPT !.entry = NewEntry(p)])
  /\ UNCHANGED <<listVars, sizes, tables, blocks, sources, todo>>

NewBlockIndex(p) ==
  /\ pc[p] = "index" /\ ~Reusable(p)
  /\ tables' = [tables EXCEPT ![p] = Append(@, Doubled(Table(p)))]
  /\ entries' = [entries EXCEPT ![p] =
       @ \o [i \in 1..Capacity(Table(p)) |-> [key |-> NoKey, value |-> NoNode]]]
  /\ UNCHANGED <<listVars, sizes, blocks, sources, pc, reg, todo>>

(* Without memory for it the entry is not made and the metric dropped. *)
NoBlockIndex(p) ==
  /\ pc[p] = "index" /\ ~Reusable(p)
  /\ todo' = [todo EXCEPT ![p] = @ - 1]
  /\ Go(p, "idle", Blank)
  /\ UNCHANGED <<listVars, sizes, tables, entries, blocks, sources>>

Turned(p, offset) ==
  tables' = [tables EXCEPT ![p][Len(tables[p])].tail = Ahead(Table(p), offset) - 1]

InsertTail(p) ==
  /\ pc[p] = "turn"
  /\ Turned(p, 1)
  /\ Then(p, "pool")
  /\ UNCHANGED <<listVars, sizes, entries, blocks, sources, todo>>

(* requisition_block: from the initial pool, whose index is looked at first, *)
PoolLook(p) ==
  /\ pc[p] = "pool"
  /\ IF pool >= InitialBlocks THEN Then(p, "list") /\ CallGet(p)
     ELSE Then(p, "poolget") /\ UNCHANGED <<at, node, seen>>
  /\ UNCHANGED <<listHead, refs, next, sizes, tables, entries, blocks, sources, todo>>

PoolGet(p) ==
  /\ pc[p] = "poolget"
  /\ pool' = pool + 1
  /\ IF pool < InitialBlocks
       THEN Go(p, "link", [reg[p] EXCEPT !.block = pool + 1]) /\ UNCHANGED <<at, node, seen>>
       ELSE Then(p, "list") /\ CallGet(p)
  /\ UNCHANGED <<listHead, refs, next, sizes, tables, entries, blocks, created, todo>>

(* from the free list, or a new block, unless memory is exhausted.           *)
Made == InitialBlocks + created
FromList(p) ==
  /\ pc[p] = "list" /\ Returned(p)
  /\ IF Got(p) # NoNode
       THEN Go(p, "link", [reg[p] EXCEPT !.block = Got(p)]) /\ UNCHANGED created
       ELSE IF Made + 1 \in Nodes
         THEN Go(p, "link", [reg[p] EXCEPT !.block = Made + 1]) /\ created' = created + 1
         ELSE Then(p, "rewind") /\ UNCHANGED created
  /\ UNCHANGED <<listHead, refs, next, sizes, tables, entries, blocks, pool, todo>>

(* Without a block the entry is given back and the metric dropped. *)
Rewind(p) ==
  /\ pc[p] = "rewind"
  /\ Turned(p, Capacity(Table(p)) - 1)
  /\ Then(p, "drop")
  /\ UNCHANGED <<listVars, sizes, entries, blocks, sources, todo>>

Drop(p) ==
  /\ pc[p] = "drop"
  /\ entries' = [entries EXCEPT ![p][reg[p].entry].value = NoNode]
  /\ todo' = [todo EXCEPT ![p] = @ - 1]
  /\ Go(p, "idle", Blank)
  /\ UNCHANGED <<listVars, sizes, tables, blocks, sources>>

LinkBlock(p) ==
  /\ pc[p] = "link"
  /\ dequeued' = [dequeued EXCEPT ![reg[p].block] = 0]
  /\ entries' = [entries EXCEPT ![p][reg[p].entry].value = reg[p].block]
  /\ tailBlock' = [tailBlock EXCEPT ![p] = reg[p].block]
  /\ Go(p, "put", Blank)
  /\ UNCHANGED <<listVars, sizes, tables, elements, sources, todo>>

(* The element is built, and then the tail stored that shows it. *)
Put(p) ==
  /\ pc[p] = "put"
  /\ elements' = [elements EXCEPT ![tailBlock[p]][tail[p] % BlockSize] = <<p, todo[p]>>]
  /\ tail' = [tail EXCEPT ![p] = @ + 1]
  /\ todo' = [todo EXCEPT ![p] = @ - 1]
  /\ Go(p, "idle", Blank)
  /\ UNCHANGED <<listVars, head, optimistic, overcommit, tables, entries, tailBlock,
                 dequeued, sources>>

-----------------------------------------------------------------------------
(* try_dequeue: the longest of the first three sub-queues that are not empty
   is tried, then every other.  The order of their list is left open.         *)
Size(p) == IF head[p] < tail[p] THEN tail[p] - head[p] ELSE 0
NonEmpty == {p \in Producers : Size(p) > 0}

Scan(c) ==
  /\ pc[c] = "idle" /\ todo[c] > 0
  /\ \E found \in SUBSET NonEmpty : \E best \in found :
       /\ found = NonEmpty \/ Cardinality(found) = 3
       /\ \A p \in found : Size(p) <= Size(best)
       /\ Go(c, "look", [Blank EXCEPT !.sub = best, !.others = Producers \ {best}])
  /\ UNCHANGED <<listVars, sizes, tables, entries, blocks, sources, todo>>

(* This one had nothing: the next, or try_dequeue returns false. *)
TryOther(c) ==
  \/ reg[c].others = {} /\ Go(c, "idle", Blank)
  \/ \E p \in reg[c].others :
       Go(c, "look", [Blank EXCEPT !.sub = p, !.others = reg[c].others \ {p}])

(* ImplicitProducer::dequeue *)
Look(c) ==
  /\ pc[c] = "look"
  /\ Go(c, "check", [reg[c] EXCEPT !.tail = tail[reg[c].sub], !.over = overcommit[reg[c].sub]])
  /\ UNCHANGED <<listVars, sizes, tables, entries, blocks, sources, todo>>

Check(c) ==
  /\ pc[c] = "check"
  /\ IF optimistic[reg[c].sub] - reg[c].over < reg[c].tail
       THEN Go(c, "claim", [reg[c] EXCEPT !.tail = 0])
       ELSE TryOther(c)
  /\ UNCHANGED <<listVars, sizes, tables, entries, blocks, sources, todo>>

Claim(c) ==
  /\ pc[c] = "claim" /\ optimistic[reg[c].sub] < tail[reg[c].sub] + MaxAhead
  /\ optimistic' = [optimistic EXCEPT ![reg[c].sub] = @ + 1]
  /\ Go(c, "again", [reg[c] EXCEPT !.count = optimistic[reg[c].sub]])
  /\ UNCHANGED <<listVars, tail, head, overcommit, tables, entries, blocks, sources, todo>>

Again(c) ==
  /\ pc[c] = "again"
  /\ Go(c, IF reg[c].count - reg[c].over < tail[reg[c].sub] THEN "index" ELSE "undo",
        [reg[c] EXCEPT !.count = 0, !.over = 0])
  /\ UNCHANGED <<listVars, sizes, tables, entries, blocks, sources, todo>>

Undo(c) ==
  /\ pc[c] = "undo"
  /\ overcommit' = [overcommit EXCEPT ![reg[c].sub] = @ + 1]
  /\ TryOther(c)
  /\ UNCHANGED <<listVars, tail, head, optimistic, tables, entries, blocks, sources, todo>>

TakeIndex(c) ==
  /\ pc[c] = "index"
  /\ head' = [head EXCEPT ![reg[c].sub] = @ + 1]
  /\ Go(c, "table", [Blank EXCEPT !.sub = reg[c].sub, !.index = head[reg[c].sub]])
  /\ UNCHANGED <<listVars, tail, optimistic, overcommit, tables, entries, blocks, sources, todo>>

(* get_block_index_index_for_index: the table in use, its tail, the key there. *)
LoadTable(c) ==
  /\ pc[c] = "table"
  /\ Go(c, "tail", [reg[c] EXCEPT !.table = Len(tables[reg[c].sub])])
  /\ UNCHANGED <<listVars, sizes, tables, entries, blocks, sources, todo>>

Loaded(c) == tables[reg[c].sub][reg[c].table]

LoadTail(c) ==
  /\ pc[c] = "tail"
  /\ Go(c, "key", [reg[c] EXCEPT !.slot = Loaded(c).tail])
  /\ UNCHANGED <<listVars, sizes, tables, entries, blocks, sources, todo>>

LoadKey(c) ==
  /\ pc[c] = "key"
  /\ LET key == entries[reg[c].sub][Loaded(c).index[reg[c].slot + 1]].key
     IN Go(c, "take", [reg[c] EXCEPT !.table = 0, !.slot = 0,
          !.entry = EntryFor(Loaded(c), reg[c].slot, key, reg[c].index)])
  /\ UNCHANGED <<listVars, sizes, tables, entries, blocks, sources, todo>>

(* The element is moved out of its block, and destroyed there. *)
TakeElement(c) ==
  /\ pc[c] = "take"
  /\ LET block == entries[reg[c].sub][reg[c].entry].value
         i == reg[c].index % BlockSize
     IN /\ elements' = [elements EXCEPT ![block][i] = NoItem]
        /\ Go(c, "empty", [reg[c] EXCEPT !.block = block, !.item = elements[block][i]])
  /\ UNCHANGED <<listVars, sizes, tables, entries, tailBlock, dequeued, sources, todo>>

(* set_empty: who takes the last element of a block gives it back. *)
SetEmpty(c) ==
  /\ pc[c] = "empty"
  /\ dequeued' = [dequeued EXCEPT ![reg[c].block] = @ + 1]
  /\ IF dequeued[reg[c].block] = BlockSize - 1 THEN Then(c, "unlink") ELSE Go(c, "idle", Blank)
  /\ UNCHANGED <<listVars, sizes, tables, entries, tailBlock, elements, sources, todo>>

Unlink(c) ==
  /\ pc[c] = "unlink"
  /\ entries' = [entries EXCEPT ![reg[c].sub][reg[c].entry].value = NoNode]
  /\ CallAdd(c, reg[c].block)
  /\ Then(c, "adding")
  /\ UNCHANGED <<listHead, refs, next, sizes, tables, blocks, sources, todo>>

Added(c) ==
  /\ pc[c] = "adding" /\ at[c] = "out"
  /\ Go(c, "idle", Blank)
  /\ UNCHANGED <<listVars, sizes, tables, entries, blocks, sources, todo>>

-----------------------------------------------------------------------------
OnList(t) == ListStep(t) /\ UNCHANGED <<sizes, tables, entries, blocks, sources, pc, reg, todo>>

Enqueue(p) == \/ Publish(p) \/ InsertKey(p)
              \/ NewBlockIndex(p) \/ NoBlockIndex(p) \/ InsertTail(p)
              \/ PoolLook(p) \/ PoolGet(p) \/ FromList(p) \/ Rewind(p) \/ Drop(p)
              \/ LinkBlock(p) \/ Put(p)
Dequeue(c) == \/ Scan(c) \/ Look(c) \/ Check(c) \/ Claim(c) \/ Again(c) \/ Undo(c)
              \/ TakeIndex(c) \/ LoadTable(c) \/ LoadTail(c) \/ LoadKey(c) \/ TakeElement(c)
              \/ SetEmpty(c) \/ Unlink(c) \/ Added(c)

Step(t) == \/ t \in Producers /\ Enqueue(t)
           \/ t \in Consumers /\ Dequeue(t)
           \/ OnList(t)

Next == \E t \in Threads : Step(t)

Spec == Init /\ [][Next]_vars

(* Every thread goes on; the poller asks the queue again and again. *)
FairSpec == Spec /\ \A t \in Threads : WF_<<pc, reg, tables, listVars>>(Step(t))

-----------------------------------------------------------------------------
(* Where a consumer finds the element of an index, through the table in use. *)
BlockOf(p, index) ==
  LET table == Table(p)
      key == entries[p][table.index[table.tail + 1]].key
  IN entries[p][EntryFor(table, table.tail, key, index)].value
Found(p, index) ==
  IF BlockOf(p, index) = NoNode THEN NoItem
  ELSE elements[BlockOf(p, index)][index % BlockSize]

Claimed(c) == pc[c] \in {"table", "tail", "key", "take"}

(* The detailed queue shows the simple one: a sub-queue holds what is found at
   the indices from its head to its tail, and a consumer what its index finds.
   A lookup that raced with the index of blocks, or an element that was
   overwritten, taken twice or skipped, would change what is held.            *)
Contents == [p \in Producers |->
               [i \in 1..(tail[p] - head[p]) |-> Found(p, head[p] + i - 1)]]
Held == [c \in Consumers |-> IF Claimed(c) THEN Found(reg[c].sub, reg[c].index)
                             ELSE reg[c].item]

Numbers == UNION {UNION {1..quota[p] : p \in Producers} : quota \in Quotas}
Simple == INSTANCE MetricQueue WITH contents <- Contents, held <- Held,
                                    Items <- Producers \X Numbers
ImplementsQueue == Simple!Spec

(* Every block is in one place: in the initial pool, on the free list or on its
   way there, with the producer that requisitioned it, in a sub-queue's index,
   or not made yet.                                                           *)
Places(b) ==
  {<<"pool">> : x \in {b} \cap (pool + 1)..InitialBlocks}
    \cup {<<"made">> : x \in {b} \ 1..Made}
    \cup {<<"listed">> : x \in {b} \cap Listed}
    \cup {<<"returning">> : x \in {b} \cap Returning}
    \cup {<<"thread", t>> : t \in {t \in Threads :
             (at[t] \in {"taken", "got"} /\ node[t] = b) \/ (pc[t] = "link" /\ reg[t].block = b)}}
    \cup UNION {{<<"sub", p, e>> : e \in {e \in DOMAIN entries[p] : entries[p][e].value = b}}
                  : p \in Producers}
BlocksOnce == \A b \in Nodes : Cardinality(Places(b)) = 1

(* The destructor, when every thread has left: each sub-queue frees the blocks it
   walks over from head to tail but the last, and then its tail block unless
   that was given back; the blocks of the free list are destroyed after that.  *)
Quiet == \A t \in Threads : pc[t] = "idle" /\ at[t] = "out"
Walked(p) == LET n == IF head[p] = tail[p] THEN 0
                      ELSE ((tail[p] - 1) \div BlockSize) - (head[p] \div BlockSize) + 1
             IN [i \in 1..n |-> BlockOf(p, head[p] + ((i - 1) * BlockSize))]
Freed(p) == (IF Walked(p) = <<>> THEN <<>> ELSE Front(Walked(p)))
              \o (IF tailBlock[p] # NoNode /\ (head[p] # tail[p] \/ tail[p] % BlockSize # 0)
                    THEN <<tailBlock[p]>> ELSE <<>>)

(* No block leaks and none is freed twice, whatever the queue still holds. *)
BlocksReleased ==
  Quiet => LET freed(p) == Range(Freed(p))
               made == 1..Made \ (pool + 1)..InitialBlocks
           IN /\ \A p \in Producers : IsInjective(Freed(p)) /\ freed(p) \cap Listed = {}
              /\ \A p, q \in Producers : p # q => freed(p) \cap freed(q) = {}
              /\ Listed \cup UNION {freed(p) : p \in Producers} = made

(* Every call of the handlers returns, and the only consumer, as the poller is,
   gets every metric that was published.  (Of two consumers each can fail because
   of a claim that the other takes back, for ever.)                            *)
OneConsumer == Cardinality({c \in Consumers : todo[c] > 0}) = 1
MetricsTaken ==
  \A p \in Producers : <>[](todo[p] = 0 /\ (OneConsumer => head[p] = tail[p]))
=============================================================================
