------------------------- MODULE ProducerHashProofs -------------------------
(* Proofs about ProducerHash, for any set of threads, any hash and any number of
   calls.                                                                    *)
EXTENDS ProducerHash, FiniteSetTheorems, SequenceTheorems, TLAPS

Keys == Threads \cup {NoThread}
Entries == [key : Keys, value : Nat]
Tables == UNION {[0..c - 1 -> Entries] : c \in Capacities}
Places == {"idle", "probe", "insert", "count", "size", "resize", "resized", "failed", "room",
           "push"}

(* The types of what threads share, and of their local variables. *)
TablesOK == tables \in Seq(Tables) /\ tables # <<>>
ListOK == /\ owner \in Seq(Threads) /\ listTail \in Nat
          /\ nextProducer \in Seq(Nat) /\ Len(nextProducer) = Len(owner)
LocalsOK ==
  /\ pc \in [Threads -> Places]
  /\ main \in [Threads -> Nat] /\ table \in [Threads -> Nat]
  /\ \A t \in Threads : main[t] \in DOMAIN tables /\ table[t] \in DOMAIN tables
  /\ index \in [Threads -> Nat] /\ newCount \in [Threads -> Int]
  /\ producer \in [Threads -> Nat] /\ calls \in [Threads -> Nat]
TypeOK == TablesOK /\ ListOK /\ LocalsOK /\ count \in Int /\ resizing \in BOOLEAN

(* The key of the n-th slot of a table, and that of the slots from where a thread
   begins none is free.                                                       *)
Key(h, n) == tables[h][n % Capacity(h)].key
Taken(h, t, n) == \A m \in HashedId[t]..(n - 1) : Key(h, m) # NoThread

(* A thread is in a table where probing finds it: no slot before is free. *)
Within(t, h) == \E j \in DOMAIN tables[h] : tables[h][j].key = t
KeysPlaced ==
  \A h \in DOMAIN tables, t \in Threads : Within(t, h) =>
    \E n \in Nat : n >= HashedId[t] /\ Key(h, n) = t /\ Taken(h, t, n)

(* Its sub-queue is there, too, and is its own. *)
Own(t, p) == p \in Listed /\ owner[p] = t
ValuesListed ==
  \A h \in DOMAIN tables : \A j \in DOMAIN tables[h] :
    tables[h][j].key # NoThread => Own(tables[h][j].key, tables[h][j].value)

(* A thread with a sub-queue is in some table, or about to be. *)
Adding(t, p) == pc[t] \in {"push", "insert"} /\ producer[t] = p
OwnersFound ==
  \A p \in DOMAIN owner :
    Adding(owner[p], p) \/ \E h \in DOMAIN tables : Within(owner[p], h)

(* What a thread knows that has not found itself so far. *)
Probing(t) ==
  pc[t] = "probe" =>
    /\ index[t] >= HashedId[t] /\ Taken(table[t], t, index[t])
    /\ \A m \in HashedId[t]..(index[t] - 1) : Key(table[t], m) # t
    /\ \A h \in DOMAIN tables : h > table[t] => ~Within(t, h)

New(t) ==
  pc[t] \in {"count", "size", "resize", "resized", "failed", "room"} =>
    \A p \in DOMAIN owner : owner[p] # t

Pushing(t) ==
  pc[t] = "push" =>
    /\ producer[t] \in DOMAIN owner /\ owner[producer[t]] = t
    /\ producer[t] \notin Listed

Inserting(t) ==
  pc[t] = "insert" =>
    /\ Own(t, producer[t])
    /\ index[t] >= HashedId[t] /\ Taken(table[t], t, index[t])

Returned(t) == pc[t] = "idle" => producer[t] = 0 \/ producer[t] \in Listed

Local(t) == Probing(t) /\ New(t) /\ Pushing(t) /\ Inserting(t) /\ Returned(t)

(* The walk through the list never leaves the sub-queues. *)
ListInside == Closed(DOMAIN owner)

IInv == /\ TypeOK /\ OneProducer /\ ListInside
        /\ KeysPlaced /\ ValuesListed /\ OwnersFound
        /\ \A t \in Threads : Local(t)

-----------------------------------------------------------------------------
(* A table has slots, and every number is the slot's of one. *)
LEMMA TableTyped ==
  ASSUME TypeOK, NEW h \in DOMAIN tables
  PROVE  /\ Capacity(h) \in Capacities /\ Capacity(h) \in Nat \ {0}
         /\ tables[h] \in [0..Capacity(h) - 1 -> Entries]
         /\ DOMAIN tables[h] = 0..Capacity(h) - 1
         /\ \A n \in Nat : n % Capacity(h) \in DOMAIN tables[h]
         /\ \A j \in DOMAIN tables[h] : tables[h][j].key \in Keys /\ tables[h][j].value \in Nat
<1>1. tables[h] \in Tables
  BY ElementOfSeq, LenProperties DEF TypeOK, TablesOK
<1>2. PICK c \in Capacities : tables[h] \in [0..c - 1 -> Entries]
  BY <1>1 DEF Tables
<1>3. c \in Nat \ {0}
  BY HashAssumption
<1>4. Cardinality(0..c - 1) = c
  BY <1>3, FS_Interval, Z3
<1>5. Capacity(h) = c
  BY <1>2, <1>4 DEF Capacity
<1>6. \A n \in Nat : n % c \in 0..c - 1
  BY <1>3
<1> QED
  BY <1>2, <1>3, <1>5, <1>6 DEF Entries

(* The first table, and one that is added. *)
LEMMA SlotsTyped ==
  ASSUME NEW c \in Capacities
  PROVE  Slots(c) \in Tables /\ \A j \in DOMAIN Slots(c) : Slots(c)[j].key = NoThread
BY DEF Slots, Tables, Entries, Keys

(* At the start every variable has its type. *)
LEMMA InitTyped == Init => TypeOK
<1> SUFFICES ASSUME Init PROVE TypeOK
  OBVIOUS
<1>1. tables = <<Slots(InitialCapacity)>> /\ Slots(InitialCapacity) \in Tables
  BY SlotsTyped, HashAssumption DEF Init
<1>2. tables \in Seq(Tables) /\ tables # <<>> /\ 1 \in DOMAIN tables
  BY <1>1
<1>3. owner \in Seq(Threads) /\ nextProducer \in Seq(Nat) /\ Len(nextProducer) = Len(owner)
  BY DEF Init
<1>4. count \in Int /\ listTail \in Nat
  BY DEF Init
<1>9. resizing \in BOOLEAN
  BY Zenon DEF Init
<1>7. "idle" \in Places
  BY DEF Places
<1>8. pc \in [Threads -> Places] /\ calls \in [Threads -> Nat]
  BY <1>7, HashAssumption DEF Init
<1>5. /\ main \in [Threads -> Nat] /\ table \in [Threads -> Nat] /\ index \in [Threads -> Nat]
      /\ newCount \in [Threads -> Int] /\ producer \in [Threads -> Nat]
  BY DEF Init
<1>6. \A t \in Threads : main[t] = 1 /\ table[t] = 1
  BY DEF Init
<1> QED
  BY <1>2, <1>3, <1>4, <1>5, <1>6, <1>8, <1>9 DEF TypeOK, TablesOK, ListOK, LocalsOK

-----------------------------------------------------------------------------
(* A slot is read by its number. *)
LEMMA SlotTyped ==
  ASSUME TypeOK, NEW t \in Threads
  PROVE  /\ SlotOf(t).key = Key(table[t], index[t])
         /\ SlotOf(t).key \in Keys /\ SlotOf(t).value \in Nat
         /\ index[t] % Capacity(table[t]) \in DOMAIN tables[table[t]]
         /\ SlotOf(t) = tables[table[t]][index[t] % Capacity(table[t])]
         /\ table[t] \in DOMAIN tables /\ index[t] \in Nat
<1>1. table[t] \in DOMAIN tables /\ index[t] \in Nat
  BY DEF TypeOK, LocalsOK
<1> QED
  BY <1>1, TableTyped DEF SlotOf, Key

(* What an insertion does to the tables. *)
LEMMA Inserted ==
  ASSUME TypeOK, NEW h \in DOMAIN tables, NEW j \in DOMAIN tables[h], NEW e \in Entries,
         tables' = [tables EXCEPT ![h][j] = e]
  PROVE  /\ tables' \in Seq(Tables) /\ tables' # <<>> /\ DOMAIN tables' = DOMAIN tables
         /\ \A g \in DOMAIN tables : DOMAIN tables'[g] = DOMAIN tables[g]
         /\ \A g \in DOMAIN tables : \A i \in DOMAIN tables[g] :
              g # h \/ i # j => tables'[g][i] = tables[g][i]
         /\ tables'[h][j] = e
<1>1. tables \in Seq(Tables) /\ tables # <<>> /\ Len(tables) \in Nat /\ DOMAIN tables = 1..Len(tables)
  BY LenProperties DEF TypeOK, TablesOK
<1>2. tables[h] \in [0..Capacity(h) - 1 -> Entries] /\ Capacity(h) \in Capacities
  BY TableTyped
<1>3. tables' = [tables EXCEPT ![h] = [tables[h] EXCEPT ![j] = e]]
  OBVIOUS
<1>4. [tables[h] EXCEPT ![j] = e] \in Tables
  BY <1>2 DEF Tables
<1>5. tables' \in Seq(Tables) /\ tables' # <<>>
  BY <1>1, <1>3, <1>4, ExceptSeq
<1>6. /\ DOMAIN tables' = DOMAIN tables /\ tables'[h] = [tables[h] EXCEPT ![j] = e]
      /\ \A g \in DOMAIN tables : g # h => tables'[g] = tables[g]
  BY <1>3
<1>7. /\ DOMAIN tables'[h] = DOMAIN tables[h] /\ tables'[h][j] = e
      /\ \A i \in DOMAIN tables[h] : i # j => tables'[h][i] = tables[h][i]
  BY <1>2, <1>6
<1> QED
  BY <1>5, <1>6, <1>7

(* What a larger table does to them. *)
LEMMA Grown ==
  ASSUME TypeOK, NEW c \in Capacities, tables' = Append(tables, Slots(c))
  PROVE  /\ tables' \in Seq(Tables) /\ tables' # <<>>
         /\ Len(tables) \in Nat /\ DOMAIN tables = 1..Len(tables)
         /\ DOMAIN tables' = 1..Len(tables) + 1
         /\ \A g \in DOMAIN tables : tables'[g] = tables[g]
         /\ \A j \in DOMAIN tables'[Len(tables) + 1] :
              tables'[Len(tables) + 1][j].key = NoThread
<1>1. tables \in Seq(Tables) /\ Slots(c) \in Tables
  BY SlotsTyped DEF TypeOK, TablesOK
<1>2. /\ tables' \in Seq(Tables) /\ Len(tables') = Len(tables) + 1
      /\ \A g \in 1..Len(tables) : tables'[g] = tables[g]
      /\ tables'[Len(tables) + 1] = Slots(c)
  BY <1>1, AppendProperties
<1>3. Len(tables) \in Nat /\ DOMAIN tables = 1..Len(tables) /\ DOMAIN tables' = 1..Len(tables')
  BY <1>1, <1>2, LenProperties
<1>4. tables' # <<>>
  BY <1>2, <1>3, EmptySeq
<1> QED
  BY <1>2, <1>3, <1>4, SlotsTyped

-----------------------------------------------------------------------------
(* Each step keeps the types: of the tables and the list, and of what is local. *)
LEMMA SharedTyped ==
  ASSUME TypeOK, NEW t \in Threads, Pushing(t), Step(t)
  PROVE  /\ TablesOK' /\ ListOK' /\ count' \in Int /\ resizing' \in BOOLEAN
         /\ DOMAIN tables \subseteq DOMAIN tables'
<1> USE DEF hashVars, listVars
<1>1. count' \in Int
  BY DEF TypeOK, LocalsOK, Step, Call, ProbeOther, ProbeFound, Insert, Count, Size, Resize, ResizeFails,
         Unlock, Wait, Make, MakeFails, Push
<1>2. resizing' \in BOOLEAN
  BY Zenon DEF TypeOK, Step, Call, ProbeOther, ProbeFound, Insert, Count, Size, Resize, ResizeFails,
         Unlock, Wait, Make, MakeFails, Push
<1>3. TablesOK' /\ DOMAIN tables \subseteq DOMAIN tables'
  <2>1. CASE UNCHANGED tables
    BY <2>1 DEF TypeOK, TablesOK
  <2>2. CASE Insert(t) /\ tables' # tables
    <3>1. producer[t] \in Nat
      BY DEF TypeOK, LocalsOK
    <3>2. [key |-> t, value |-> producer[t]] \in Entries
      BY <3>1 DEF Entries, Keys
    <3>3. tables' = [tables EXCEPT ![table[t]][index[t] % Capacity(table[t])] =
                       [key |-> t, value |-> producer[t]]]
      BY <2>2 DEF Insert
    <3> QED
      BY <3>2, <3>3, SlotTyped, Inserted DEF TablesOK
  <2>3. CASE Resize(t) /\ tables' # tables
    <3>1. PICK c \in Capacities : tables' = Append(tables, Slots(c))
      BY <2>3 DEF Resize
    <3> QED
      BY <3>1, Grown DEF TablesOK
  <2> QED
    BY <2>1, <2>2, <2>3 DEF Step, Call, ProbeOther, ProbeFound, Count, Size, ResizeFails, Unlock,
                            Wait, Make, MakeFails, Push
<1>4. ListOK'
  <2>1. producer[t] \in Nat /\ ListOK
    BY DEF TypeOK, LocalsOK
  <2>2. CASE UNCHANGED listVars
    BY <2>1, <2>2 DEF ListOK
  <2>3. CASE Make(t)
    BY <2>1, <2>3, AppendProperties DEF Make, ListOK
  <2>4. CASE Push(t) /\ listTail = nextProducer[producer[t]]
    BY <2>1, <2>4 DEF Push, ListOK
  <2>5. CASE Push(t) /\ listTail # nextProducer[producer[t]]
    <3>1. /\ nextProducer' = [nextProducer EXCEPT ![producer[t]] = listTail]
          /\ UNCHANGED <<owner, listTail>>
      BY <2>5 DEF Push
    <3>2. producer[t] \in 1..Len(nextProducer)
      BY <2>1, <2>5, LenProperties DEF Push, Pushing, ListOK
    <3> QED
      BY <2>1, <3>1, <3>2, ExceptSeq DEF ListOK
  <2> QED
    BY <2>2, <2>3, <2>4, <2>5 DEF Step, Call, ProbeOther, ProbeFound, Insert, Count, Size, Resize,
                                  ResizeFails, Unlock, Wait, MakeFails
<1> QED
  BY <1>1, <1>2, <1>3, <1>4

(* A local variable, as a step of its thread may change it. *)
Changed(f, g, t, S) == g = f \/ \E e \in S : g = [f EXCEPT ![t] = e]

(* A step writes only the locals of its own thread. *)
LEMMA ChangedTyped ==
  ASSUME NEW t \in Threads, NEW S, NEW f \in [Threads -> S], NEW g, Changed(f, g, t, S)
  PROVE  g \in [Threads -> S] /\ \A u \in Threads \ {t} : g[u] = f[u]
BY DEF Changed

(* Each step keeps the types of the locals. *)
LEMMA LocalsTyped ==
  ASSUME TypeOK, NEW t \in Threads, Pushing(t), Step(t)
  PROVE  LocalsOK'
<1> DEFINE D == DOMAIN tables'
<1>a. /\ table[t] \in DOMAIN tables /\ main[t] \in DOMAIN tables
      /\ Len(tables) \in DOMAIN tables /\ DOMAIN tables \subseteq Nat /\ 1 \in DOMAIN tables
      /\ DOMAIN tables = 1..Len(tables) /\ Len(tables) \in Nat
      /\ table[t] > 1 => table[t] - 1 \in DOMAIN tables
  BY LenProperties, EmptySeq DEF TypeOK, TablesOK, LocalsOK
<1>b. /\ SlotOf(t).value \in Nat /\ HashedId[t] \in Nat /\ index[t] \in Nat
      /\ producer[t] \in Nat /\ calls[t] \in Nat /\ Len(owner) \in Nat
  BY SlotTyped, HashAssumption, LenProperties DEF TypeOK, LocalsOK, ListOK
<1>d. LocalsOK /\ count \in Int
  BY DEF TypeOK
<1>e. DOMAIN tables \subseteq D /\ D \subseteq Nat
  BY SharedTyped, LenProperties DEF TablesOK
<1>f. Resize(t) /\ Crowded(t, Len(tables)) => Len(tables) + 1 \in D
  <2> SUFFICES ASSUME Resize(t), Crowded(t, Len(tables)) PROVE Len(tables) + 1 \in D
    OBVIOUS
  <2>1. PICK c \in Capacities : tables' = Append(tables, Slots(c))
    BY DEF Resize
  <2> QED
    BY <1>a, <2>1, Grown
<1>g. /\ index[t] + 1 \in Nat /\ Len(owner) + 1 \in Nat /\ 0 \in Nat /\ 0 \in Int
      /\ count + 1 \in Int /\ calls[t] > 0 => calls[t] - 1 \in Nat
  BY <1>b, <1>d
<1> HIDE DEF D
<1> USE DEF Changed, Step, Call, ProbeOther, Missing, ProbeFound, Insert, Count, Size, Resize,
            ResizeFails, Unlock, Wait, Make, MakeFails, Push, To, At, Return, hashVars, listVars
<1>1. Changed(pc, pc', t, Places)
  BY DEF Places
<1>2. Changed(main, main', t, D)
  BY <1>a, <1>e, <1>f
<1>3. Changed(table, table', t, D)
  BY <1>a, <1>e
<1>4. Changed(index, index', t, Nat)
  BY <1>b, <1>g, SMTT(30)
<1>5. newCount' \in {newCount, [newCount EXCEPT ![t] = 0], [newCount EXCEPT ![t] = count + 1]}
  OBVIOUS
<1>6. producer' \in {producer, [producer EXCEPT ![t] = 0], [producer EXCEPT ![t] = producer[t]],
                    [producer EXCEPT ![t] = SlotOf(t).value],
                    [producer EXCEPT ![t] = Len(owner) + 1]}
  OBVIOUS
<1>7. \/ calls' = calls
      \/ calls[t] > 0 /\ calls' = [calls EXCEPT ![t] = calls[t] - 1]
  OBVIOUS
<1> HIDE DEF Changed, Step, Call, ProbeOther, Missing, ProbeFound, Insert, Count, Size, Resize,
            ResizeFails, Unlock, Wait, Make, MakeFails, Push, To, At, Return, hashVars, listVars
<1>8. main \in [Threads -> D] /\ table \in [Threads -> D]
  BY <1>d, <1>e DEF LocalsOK
<1>9. main' \in [Threads -> D] /\ table' \in [Threads -> D]
  BY <1>2, <1>3, <1>8, ChangedTyped
<1>10. pc' \in [Threads -> Places] /\ index' \in [Threads -> Nat]
  BY <1>1, <1>4, <1>d, ChangedTyped DEF LocalsOK
<1>11. newCount' \in [Threads -> Int]
  BY <1>5, <1>d, <1>g, SMTT(40) DEF LocalsOK
<1>12. producer' \in [Threads -> Nat]
  BY <1>6, <1>d, <1>b, <1>g DEF LocalsOK
<1>13. calls' \in [Threads -> Nat]
  <2>1. calls \in [Threads -> Nat]
    BY <1>d DEF LocalsOK
  <2>2. CASE calls' = calls
    BY <2>1, <2>2
  <2>3. CASE calls' # calls
    BY <1>7, <1>g, <2>1, <2>3
  <2> QED
    BY <2>2, <2>3
<1> QED
  BY <1>9, <1>10, <1>11, <1>12, <1>13, <1>e DEF LocalsOK, D

-----------------------------------------------------------------------------
(* What a step does not touch stays as it is: the list, a table, a slot. *)
LEMMA ListUnchanged ==
  ASSUME UNCHANGED listVars
  PROVE  Listed' = Listed /\ owner' = owner
BY DEF listVars, Listed, Closed

(* A step of t that changes neither the tables nor the list keeps what is said of
   them, and what any other thread knows.                                     *)
LEMMA OthersUnchanged ==
  ASSUME TypeOK, UNCHANGED tables, UNCHANGED listVars, NEW u \in Threads, Local(u),
         UNCHANGED <<pc[u], table[u], index[u], producer[u]>>
  PROVE  Local(u)'
<1>1. Listed' = Listed /\ owner' = owner /\ tables' = tables
  BY ListUnchanged
<1>2. /\ pc'[u] = pc[u] /\ table'[u] = table[u] /\ index'[u] = index[u]
      /\ producer'[u] = producer[u]
  OBVIOUS
<1>3. Probing(u)'
  BY <1>1, <1>2 DEF Local, Probing, Taken, Key, Capacity, Within
<1>4. New(u)' /\ Pushing(u)' /\ Returned(u)'
  BY <1>1, <1>2 DEF Local, New, Pushing, Returned
<1>5. Inserting(u)'
  BY <1>1, <1>2 DEF Local, Inserting, Own, Taken, Key, Capacity
<1> QED
  BY <1>3, <1>4, <1>5 DEF Local

(* What a step leaves as it is keeps its properties. *)
LEMMA SharedUnchanged ==
  ASSUME UNCHANGED tables, UNCHANGED listVars, OneProducer, ListInside, KeysPlaced, ValuesListed
  PROVE  OneProducer' /\ ListInside' /\ KeysPlaced' /\ ValuesListed'
<1>1. Listed' = Listed /\ owner' = owner /\ tables' = tables
  BY ListUnchanged
<1>2. KeysPlaced'
  BY <1>1 DEF KeysPlaced, Taken, Key, Capacity, Within
<1>3. ValuesListed'
  BY <1>1 DEF ValuesListed, Own
<1> QED
  BY <1>1, <1>2, <1>3 DEF OneProducer, IsInjective, ListInside, Closed, listVars

-----------------------------------------------------------------------------
(* A thread that comes to a free slot is not in the table. *)
LEMMA NotHere ==
  ASSUME TypeOK, KeysPlaced, NEW t \in Threads, Probing(t), pc[t] = "probe",
         SlotOf(t).key = NoThread
  PROVE  \A h \in DOMAIN tables : h >= table[t] => ~Within(t, h)
<1>1. ~Within(t, table[t])
  <2> SUFFICES ASSUME Within(t, table[t]) PROVE FALSE
    OBVIOUS
  <2>1. table[t] \in DOMAIN tables /\ index[t] \in Nat /\ Key(table[t], index[t]) = NoThread
    BY SlotTyped
  <2>2. PICK n \in Nat : n >= HashedId[t] /\ Key(table[t], n) = t /\ Taken(table[t], t, n)
    BY <2>1 DEF KeysPlaced
  <2>3. HashedId[t] \in Nat /\ t # NoThread
    BY HashAssumption
  <2>4. index[t] >= HashedId[t]
        /\ \A m \in HashedId[t]..(index[t] - 1) : Key(table[t], m) # t
    BY DEF Probing
  <2>5. CASE n < index[t]
    BY <2>1, <2>2, <2>3, <2>4, <2>5
  <2>6. CASE n = index[t]
    BY <2>1, <2>2, <2>3, <2>6
  <2>7. CASE n > index[t]
    BY <2>1, <2>2, <2>3, <2>4, <2>7 DEF Taken
  <2> QED
    BY <2>1, <2>2, <2>5, <2>6, <2>7
<1>2. table[t] \in Nat /\ DOMAIN tables \subseteq Nat
  BY LenProperties DEF TypeOK, TablesOK, LocalsOK
<1> QED
  BY <1>1, <1>2 DEF Probing

(* A thread that goes on to the next slot has passed one more. *)
LEMMA Passed ==
  ASSUME TypeOK, NEW t \in Threads, index[t] >= HashedId[t],
         Taken(table[t], t, index[t]), SlotOf(t).key # NoThread
  PROVE  Taken(table[t], t, index[t] + 1) /\ index[t] + 1 >= HashedId[t]
<1>1. HashedId[t] \in Nat /\ index[t] \in Nat /\ Key(table[t], index[t]) # NoThread
  BY HashAssumption, SlotTyped
<1>2. \A m \in HashedId[t]..((index[t] + 1) - 1) : m \in HashedId[t]..(index[t] - 1) \/ m = index[t]
  BY <1>1
<1> QED
  BY <1>1, <1>2 DEF Taken

(* The steps that change neither the tables nor the list. *)
Quiet(t) == \/ Call(t) \/ ProbeOther(t) \/ ProbeFound(t) \/ Count(t) \/ Size(t)
            \/ ResizeFails(t) \/ Unlock(t) \/ Wait(t) \/ MakeFails(t)
            \/ Insert(t) /\ SlotOf(t).key # NoThread
            \/ Resize(t) /\ ~Crowded(t, Len(tables))

(* A quiet step changes no table, no list, and no other thread. *)
LEMMA QuietFrame ==
  ASSUME TypeOK, NEW t \in Threads, Quiet(t)
  PROVE  /\ UNCHANGED tables /\ UNCHANGED listVars
         /\ \A u \in Threads \ {t} : UNCHANGED <<pc[u], table[u], index[u], producer[u]>>
<1> USE DEF Quiet, Call, ProbeOther, Missing, ProbeFound, Count, Size, ResizeFails, Unlock, Wait,
            MakeFails, Insert, Resize, To, At, Return, hashVars
<1>1. UNCHANGED tables /\ UNCHANGED listVars
  OBVIOUS
<1>2. /\ pc \in [Threads -> Places] /\ table \in [Threads -> Nat] /\ index \in [Threads -> Nat]
      /\ producer \in [Threads -> Nat]
  BY DEF TypeOK, LocalsOK
<1>3. \A u \in Threads \ {t} : pc'[u] = pc[u]
  BY <1>2
<1>4. \A u \in Threads \ {t} : table'[u] = table[u]
  BY <1>2
<1>5. \A u \in Threads \ {t} : index'[u] = index[u]
  BY <1>2
<1>6. \A u \in Threads \ {t} : producer'[u] = producer[u]
  BY <1>2
<1> QED
  BY <1>1, <1>3, <1>4, <1>5, <1>6

(* Whoever is about to be in a table still is, after such a step. *)
LEMMA QuietOwners ==
  ASSUME TypeOK, OwnersFound, NEW t \in Threads, Quiet(t)
  PROVE  OwnersFound'
<1>1. /\ tables' = tables /\ owner' = owner
      /\ \A u \in Threads \ {t} : pc'[u] = pc[u] /\ producer'[u] = producer[u]
  BY QuietFrame DEF listVars
<1>2. pc[t] \in {"push", "insert"} => pc'[t] = pc[t] /\ producer'[t] = producer[t]
  BY DEF Quiet, Call, ProbeOther, ProbeFound, Count, Size, ResizeFails, Unlock, Wait, MakeFails,
         Insert, Resize
<1>3. \A p \in DOMAIN owner : owner[p] \in Threads
  BY ElementOfSeq, LenProperties DEF TypeOK, ListOK
<1> QED
  BY <1>1, <1>2, <1>3 DEF OwnersFound, Adding, Within

(* What the thread knows after a quiet step. *)
LEMMA QuietLocal ==
  ASSUME TypeOK, KeysPlaced, ValuesListed, OwnersFound, NEW t \in Threads, Local(t), Quiet(t)
  PROVE  Local(t)'
<1> DEFINE news == {"count", "size", "resize", "resized", "failed", "room"}
<1>a. /\ tables' = tables /\ owner' = owner /\ Listed' = Listed
      /\ UNCHANGED listVars
  BY QuietFrame, ListUnchanged
<1>b. /\ pc \in [Threads -> Places] /\ table \in [Threads -> Nat] /\ index \in [Threads -> Nat]
      /\ producer \in [Threads -> Nat] /\ HashedId[t] \in Nat
      /\ table[t] \in DOMAIN tables /\ main[t] \in DOMAIN tables
      /\ DOMAIN tables = 1..Len(tables) /\ Len(tables) \in Nat
  BY HashAssumption, LenProperties DEF TypeOK, TablesOK, LocalsOK
<1> USE DEF To, At, Return
<1>1. CASE Call(t)
  <2>1. pc'[t] = "probe" /\ table'[t] = Len(tables) /\ index'[t] = HashedId[t]
    BY <1>1, <1>b DEF Call
  <2>2. Probing(t)'
    BY <2>1, <1>a, <1>b DEF Probing, Taken
  <2> QED
    BY <2>1, <2>2 DEF Local, New, Pushing, Inserting, Returned
<1>2. CASE ProbeOther(t) /\ SlotOf(t).key = NoThread
  <2>1. pc[t] = "probe" /\ Missing(t)
    BY <1>2 DEF ProbeOther
  <2>2. \A h \in DOMAIN tables : h >= table[t] => ~Within(t, h)
    BY <1>2, <2>1, NotHere DEF Local
  <2>3. CASE table[t] > 1
    <3>1. pc'[t] = "probe" /\ table'[t] = table[t] - 1 /\ index'[t] = HashedId[t]
      BY <2>1, <2>3, <1>b DEF Missing
    <3>2. \A h \in DOMAIN tables : h > table[t] - 1 => h >= table[t]
      BY <1>b
    <3>3. \A h \in DOMAIN tables : h > table[t] - 1 => ~Within(t, h)
      BY <2>2, <3>2
    <3>4. \A h \in DOMAIN tables : Within(t, h)' = Within(t, h)
      BY <1>a DEF Within
    <3>5. (index[t] >= HashedId[t])' /\ Taken(table[t], t, index[t])'
          /\ (\A m \in HashedId[t]..(index[t] - 1) : Key(table[t], m) # t)'
      BY <3>1, <1>b DEF Taken
    <3>6. \A h \in DOMAIN tables' : h > table'[t] => ~Within(t, h)'
      BY <3>1, <3>3, <3>4, <1>a
    <3>7. Probing(t)'
      BY <3>5, <3>6 DEF Probing
    <3> QED
      BY <3>1, <3>7 DEF Local, New, Pushing, Inserting, Returned
  <2>4. CASE table[t] = 1
    <3>1. pc'[t] = "count"
      BY <2>1, <2>4, <1>b DEF Missing
    <3>2. \A p \in DOMAIN owner : owner[p] # t
      <4>1. \A h \in DOMAIN tables : h >= table[t]
        BY <2>4, <1>b
      <4>2. \A h \in DOMAIN tables : ~Within(t, h)
        BY <2>2, <4>1
      <4>3. pc[t] \notin {"push", "insert"}
        BY <2>1
      <4> QED
        BY <4>2, <4>3 DEF OwnersFound, Adding
    <3> QED
      BY <3>1, <3>2, <1>a DEF Local, Probing, New, Pushing, Inserting, Returned
  <2> QED
    BY <2>1, <2>3, <2>4 DEF Missing
<1>3. CASE ProbeOther(t) /\ SlotOf(t).key # NoThread
  <2>1. /\ pc[t] = "probe" /\ pc'[t] = "probe" /\ table'[t] = table[t] /\ index'[t] = index[t] + 1
        /\ SlotOf(t).key # t
    BY <1>3, <1>b DEF ProbeOther
  <2>2. Taken(table[t], t, index[t] + 1) /\ index[t] + 1 >= HashedId[t]
    BY <1>3, <2>1, Passed DEF Local, Probing
  <2>3. \A m \in HashedId[t]..((index[t] + 1) - 1) : Key(table[t], m) # t
    <3>1. \A m \in HashedId[t]..((index[t] + 1) - 1) : m \in HashedId[t]..(index[t] - 1) \/ m = index[t]
      BY <1>b
    <3> QED
      BY <2>1, <3>1, SlotTyped DEF Local, Probing
  <2>4. Probing(t)'
    BY <2>1, <2>2, <2>3, <1>a DEF Local, Probing, Taken, Key, Capacity, Within
  <2> QED
    BY <2>1, <2>4 DEF Local, New, Pushing, Inserting, Returned
<1>4. CASE ProbeFound(t)
  <2>1. Own(t, SlotOf(t).value)
    <3>1. t # NoThread /\ SlotOf(t).key = t
      BY <1>4, HashAssumption DEF ProbeFound
    <3> QED
      BY <3>1, SlotTyped DEF ValuesListed
  <2>2. CASE table[t] = main[t]
    <3>1. pc'[t] = "idle" /\ producer'[t] = SlotOf(t).value
      BY <1>4, <2>2, <1>b DEF ProbeFound
    <3> QED
      BY <2>1, <3>1, <1>a DEF Local, Probing, New, Pushing, Inserting, Returned, Own
  <2>3. CASE table[t] # main[t]
    <3>1. pc'[t] = "insert" /\ producer'[t] = SlotOf(t).value /\ index'[t] = HashedId[t]
      BY <1>4, <2>3, <1>b DEF ProbeFound
    <3>2. Inserting(t)'
      BY <2>1, <3>1, <1>a, <1>b DEF Inserting, Own, Taken
    <3> QED
      BY <3>1, <3>2 DEF Local, Probing, New, Pushing, Returned
  <2> QED
    BY <2>2, <2>3
<1>5. CASE Insert(t) /\ SlotOf(t).key # NoThread
  <2>1. /\ pc[t] = "insert" /\ pc'[t] = "insert" /\ table'[t] = table[t]
        /\ index'[t] = index[t] + 1 /\ producer'[t] = producer[t]
    BY <1>5, <1>b DEF Insert
  <2>2. Taken(table[t], t, index[t] + 1) /\ index[t] + 1 >= HashedId[t] /\ Own(t, producer[t])
    BY <1>5, <2>1, Passed DEF Local, Inserting
  <2>3. Inserting(t)'
    BY <2>1, <2>2, <1>a DEF Inserting, Own, Taken, Key, Capacity
  <2> QED
    BY <2>1, <2>3 DEF Local, Probing, New, Pushing, Returned
<1>6. CASE Count(t) \/ Size(t) \/ ResizeFails(t) \/ Wait(t) \/ (Unlock(t) /\ pc[t] = "resized")
           \/ (Resize(t) /\ ~Crowded(t, Len(tables)))
  <2>1. pc[t] \in news /\ pc'[t] \in news
    BY <1>6, <1>b DEF Count, Size, ResizeFails, Wait, Unlock, Resize
  <2>2. \A p \in DOMAIN owner : owner[p] # t
    BY <2>1 DEF Local, New
  <2> QED
    BY <2>1, <2>2, <1>a DEF Local, Probing, New, Pushing, Inserting, Returned
<1>7. CASE MakeFails(t) \/ (Unlock(t) /\ pc[t] = "failed")
  <2>1. pc'[t] = "idle" /\ producer'[t] = 0
    BY <1>7, <1>b DEF MakeFails, Unlock
  <2> QED
    BY <2>1 DEF Local, Probing, New, Pushing, Inserting, Returned
<1> QED
  BY <1>1, <1>2, <1>3, <1>4, <1>5, <1>6, <1>7 DEF Quiet, Unlock

(* Quiet steps keep the invariant. *)
LEMMA QuietStep ==
  ASSUME IInv, NEW t \in Threads, Quiet(t), TypeOK'
  PROVE  IInv'
<1>1. OneProducer' /\ ListInside' /\ KeysPlaced' /\ ValuesListed'
  BY QuietFrame, SharedUnchanged DEF IInv
<1>2. OwnersFound'
  BY QuietOwners DEF IInv
<1>3. Local(t)'
  BY QuietLocal DEF IInv
<1>4. \A u \in Threads \ {t} : Local(u)'
  BY QuietFrame, OthersUnchanged DEF IInv
<1> QED
  BY <1>1, <1>2, <1>3, <1>4 DEF IInv

-----------------------------------------------------------------------------
(* What t adds to the tables: slots that are taken stay so, and no other thread
   comes to be in a table.                                                    *)
Extended(t) ==
  /\ DOMAIN tables \subseteq DOMAIN tables'
  /\ \A g \in DOMAIN tables, n \in Nat : Key(g, n) # NoThread => Key(g, n)' = Key(g, n)
  /\ \A u \in Threads \ {t}, g \in DOMAIN tables' :
       Within(u, g)' <=> g \in DOMAIN tables /\ Within(u, g)

(* Slots that are taken stay so, with the same keys. *)
LEMMA TakenStays ==
  ASSUME NEW t \in Threads, Extended(t), NEW u \in Threads, NEW g \in DOMAIN tables, NEW n \in Nat,
         Taken(g, u, n)
  PROVE  Taken(g, u, n)' /\ \A m \in HashedId[u]..(n - 1) : Key(g, m)' = Key(g, m)
<1>1. HashedId[u] \in Nat /\ \A m \in HashedId[u]..(n - 1) : m \in Nat
  BY HashAssumption
<1>2. \A m \in HashedId[u]..(n - 1) : Key(g, m)' = Key(g, m)
  BY <1>1 DEF Extended, Taken
<1> QED
  BY <1>1, <1>2 DEF Taken

(* What the other threads know stays true when a slot is taken or a table added. *)
LEMMA OthersExtended ==
  ASSUME TypeOK, NEW t \in Threads, Extended(t), UNCHANGED listVars,
         NEW u \in Threads \ {t}, Local(u),
         UNCHANGED <<pc[u], table[u], index[u], producer[u]>>
  PROVE  Local(u)'
<1>1. Listed' = Listed /\ owner' = owner
  BY ListUnchanged
<1>2. /\ pc'[u] = pc[u] /\ table'[u] = table[u] /\ index'[u] = index[u]
      /\ producer'[u] = producer[u]
  OBVIOUS
<1>3. table[u] \in DOMAIN tables /\ index[u] \in Nat
  BY SlotTyped
<1>4. ASSUME Taken(table[u], u, index[u])
      PROVE  /\ Taken(table[u], u, index[u])'
             /\ \A m \in HashedId[u]..(index[u] - 1) : Key(table[u], m)' = Key(table[u], m)
  <2>1. Taken(table[u], u, index[u])'
        <=> \A m \in HashedId[u]..(index[u] - 1) : Key(table[u], m)' # NoThread
    BY <1>2 DEF Taken, Key, Capacity
  <2>2. \A m \in HashedId[u]..(index[u] - 1) : Key(table[u], m)' = Key(table[u], m)
    <3>1. \A m \in HashedId[u]..(index[u] - 1) : m \in Nat
      BY HashAssumption, <1>3
    <3>2. \A m \in HashedId[u]..(index[u] - 1) :
            tables'[table[u]][m % Cardinality(DOMAIN tables'[table[u]])].key = Key(table[u], m)
      BY <1>3, <1>4, <3>1 DEF Taken, Extended, Key, Capacity
    <3> QED
      BY <1>2, <3>2 DEF Key, Capacity
  <2> QED
    BY <1>4, <2>1, <2>2 DEF Taken
<1>5. Probing(u)'
  <2> SUFFICES ASSUME pc[u] = "probe" PROVE Probing(u)'
    BY <1>2 DEF Probing
  <2>1. \A h \in DOMAIN tables' : h > table[u] => ~Within(u, h)'
    BY DEF Local, Probing, Extended
  <2>2. \A m \in HashedId[u]..(index[u] - 1) : Key(table[u], m)' # u
    BY <1>4 DEF Local, Probing
  <2>3. Taken(table[u], u, index[u])' /\ index[u] >= HashedId[u]
    BY <1>4 DEF Local, Probing
  <2> QED
    BY <1>2, <2>1, <2>2, <2>3 DEF Probing
<1>6. New(u)' /\ Pushing(u)' /\ Returned(u)'
  BY <1>1, <1>2 DEF Local, New, Pushing, Returned
<1>7. Inserting(u)'
  BY <1>1, <1>2, <1>4 DEF Local, Inserting, Own
<1> QED
  BY <1>5, <1>6, <1>7 DEF Local

-----------------------------------------------------------------------------
(* A thread takes a free slot. *)
LEMMA InsertExtends ==
  ASSUME TypeOK, NEW t \in Threads, Insert(t), SlotOf(t).key = NoThread
  PROVE  /\ Extended(t) /\ DOMAIN tables' = DOMAIN tables
         /\ \A g \in DOMAIN tables : g # table[t] => tables'[g] = tables[g]
         /\ DOMAIN tables'[table[t]] = DOMAIN tables[table[t]]
         /\ \A i \in DOMAIN tables[table[t]] : i # index[t] % Capacity(table[t]) =>
              tables'[table[t]][i] = tables[table[t]][i]
         /\ tables'[table[t]][index[t] % Capacity(table[t])] = [key |-> t, value |-> producer[t]]
<1> DEFINE h == table[t]
           j == index[t] % Capacity(h)
           e == [key |-> t, value |-> producer[t]]
<1>1. h \in DOMAIN tables /\ j \in DOMAIN tables[h] /\ tables[h][j].key = NoThread
  BY SlotTyped
<1>2. e \in Entries
  BY DEF TypeOK, LocalsOK, Entries, Keys
<1>3. tables' = [tables EXCEPT ![h][j] = e]
  BY DEF Insert
<1> HIDE DEF h, j, e
<1>4. /\ DOMAIN tables' = DOMAIN tables
      /\ \A g \in DOMAIN tables : DOMAIN tables'[g] = DOMAIN tables[g]
      /\ \A g \in DOMAIN tables : \A i \in DOMAIN tables[g] :
           g # h \/ i # j => tables'[g][i] = tables[g][i]
      /\ tables'[h][j] = e
  BY <1>1, <1>2, <1>3, Inserted
<1>5. \A g \in DOMAIN tables : Capacity(g)' = Capacity(g)
  BY <1>4 DEF Capacity
<1>6. \A g \in DOMAIN tables, n \in Nat : n % Capacity(g) \in DOMAIN tables[g]
  BY TableTyped
<1>7. \A g \in DOMAIN tables, n \in Nat : Key(g, n) # NoThread => Key(g, n)' = Key(g, n)
  BY <1>1, <1>4, <1>5, <1>6 DEF Key
<1>8. e.key = t
  BY DEF e
<1>9. \A u \in Threads \ {t}, g \in DOMAIN tables : Within(u, g)' <=> Within(u, g)
  BY <1>1, <1>4, <1>8, HashAssumption DEF Within
<1>10. Extended(t)
  BY <1>4, <1>7, <1>9 DEF Extended
<1>11. \A g \in DOMAIN tables : g # h => tables'[g] = tables[g]
  BY <1>3
<1> QED
  BY <1>1, <1>4, <1>10, <1>11 DEF h, j, e

(* A thread that puts itself into a slot keeps the invariant. *)
LEMMA InsertStep ==
  ASSUME IInv, NEW t \in Threads, Insert(t), SlotOf(t).key = NoThread, TypeOK'
  PROVE  IInv'
<1> DEFINE h == table[t]
           j == index[t] % Capacity(h)
<1>1. TypeOK /\ pc[t] = "insert" /\ Local(t)
  BY DEF IInv, Insert
<1>2. /\ Extended(t) /\ DOMAIN tables' = DOMAIN tables
      /\ \A g \in DOMAIN tables : g # h => tables'[g] = tables[g]
      /\ DOMAIN tables'[h] = DOMAIN tables[h]
      /\ \A i \in DOMAIN tables[h] : i # j => tables'[h][i] = tables[h][i]
      /\ tables'[h][j] = [key |-> t, value |-> producer[t]]
  BY <1>1, InsertExtends
<1>3. h \in DOMAIN tables /\ j \in DOMAIN tables[h] /\ index[t] \in Nat
  BY <1>1, SlotTyped
<1>4. UNCHANGED listVars /\ Listed' = Listed /\ owner' = owner
  BY ListUnchanged DEF Insert
<1>5. /\ Own(t, producer[t]) /\ index[t] >= HashedId[t] /\ Taken(h, t, index[t])
  BY <1>1 DEF Local, Inserting
<1>6. /\ pc'[t] = "idle" /\ producer'[t] = producer[t]
      /\ \A u \in Threads \ {t} : UNCHANGED <<pc[u], table[u], index[u], producer[u]>>
  <2>1. /\ pc \in [Threads -> Places] /\ table \in [Threads -> Nat] /\ index \in [Threads -> Nat]
        /\ producer \in [Threads -> Nat]
    BY <1>1 DEF TypeOK, LocalsOK
  <2>2. Return(t, producer[t])
    BY DEF Insert
  <2> QED
    BY <2>1, <2>2 DEF Return, To
<1>7. OneProducer' /\ ListInside'
  BY <1>4 DEF IInv, OneProducer, IsInjective, ListInside, Closed, listVars
<1>8. \A g \in DOMAIN tables, u \in Threads : Within(u, g)' => Within(u, g) \/ (u = t /\ g = h)
  <2>1. \A g \in DOMAIN tables : g # h /\ Within(t, g)' => Within(t, g)
    BY <1>2 DEF Within
  <2>2. \A g \in DOMAIN tables, u \in Threads \ {t} : Within(u, g)' => Within(u, g)
    BY <1>2 DEF Extended
  <2> QED
    BY <2>1, <2>2
<1>9. KeysPlaced'
  <2> SUFFICES ASSUME NEW g \in DOMAIN tables', NEW u \in Threads, Within(u, g)'
               PROVE  \E n \in Nat : n >= HashedId[u] /\ Key(g, n)' = u /\ Taken(g, u, n)'
    BY DEF KeysPlaced
  <2>1. g \in DOMAIN tables /\ u # NoThread
    BY <1>2, HashAssumption
  <2>2. CASE Within(u, g)
    <3>1. PICK n \in Nat : n >= HashedId[u] /\ Key(g, n) = u /\ Taken(g, u, n)
      BY <2>1, <2>2 DEF IInv, KeysPlaced
    <3>2. Taken(g, u, n)'
      BY <1>2, <2>1, <3>1, TakenStays
    <3>3. Key(g, n)' = u
      BY <1>2, <2>1, <3>1 DEF Extended
    <3> QED
      BY <3>1, <3>2, <3>3
  <2>3. CASE u = t /\ g = h
    <3>1. PICK n \in Nat : n = index[t]
      BY <1>3
    <3>2. Taken(g, u, n) /\ n >= HashedId[u]
      BY <1>5, <2>3, <3>1
    <3>3. Taken(g, u, n)'
      BY <1>2, <2>1, <3>2, TakenStays
    <3>4. Cardinality(DOMAIN tables'[g]) = Cardinality(DOMAIN tables[g])
      BY <1>2, <2>3
    <3>5. n % Cardinality(DOMAIN tables'[g]) = j
      BY <2>3, <3>1, <3>4 DEF Capacity
    <3>6. tables'[g][j].key = t
      BY <1>2, <2>3
    <3>7. Key(g, n)' = u
      BY <2>3, <3>5, <3>6 DEF Key, Capacity
    <3> QED
      BY <3>2, <3>3, <3>7
  <2> QED
    BY <1>8, <2>1, <2>2, <2>3
<1>10. ValuesListed'
  <2> SUFFICES ASSUME NEW g \in DOMAIN tables', NEW i \in DOMAIN tables'[g],
                      tables'[g][i].key # NoThread
               PROVE  Own(tables'[g][i].key, tables'[g][i].value)
    BY <1>4 DEF ValuesListed, Own
  <2>1. CASE g = h /\ i = j
    BY <1>2, <1>5, <2>1
  <2>2. CASE ~(g = h /\ i = j)
    <3>1. g \in DOMAIN tables /\ i \in DOMAIN tables[g] /\ tables'[g][i] = tables[g][i]
      BY <1>2, <2>2
    <3> QED
      BY <3>1 DEF IInv, ValuesListed
  <2> QED
    BY <2>1, <2>2
<1>11. OwnersFound'
  <2> SUFFICES ASSUME NEW p \in DOMAIN owner
               PROVE  \/ pc'[owner[p]] \in {"push", "insert"} /\ producer'[owner[p]] = p
                      \/ \E g \in DOMAIN tables' : Within(owner[p], g)'
    BY <1>4 DEF OwnersFound, Adding, Within
  <2>1. owner[p] \in Threads
    BY <1>1, ElementOfSeq, LenProperties DEF TypeOK, ListOK
  <2>2. CASE owner[p] = t
    BY <1>2, <1>3, <1>4, <2>2 DEF Within
  <2>3. CASE owner[p] # t
    BY <1>2, <1>4, <1>6, <2>1, <2>3 DEF IInv, OwnersFound, Adding, Extended, Within
  <2> QED
    BY <2>2, <2>3
<1>12. Local(t)'
  BY <1>4, <1>5, <1>6 DEF Local, Probing, New, Pushing, Inserting, Returned, Own
<1>13. \A u \in Threads \ {t} : Local(u)'
  BY <1>1, <1>2, <1>4, <1>6, OthersExtended DEF IInv
<1> QED
  BY <1>7, <1>9, <1>10, <1>11, <1>12, <1>13 DEF IInv

(* A thread puts a larger table in place. *)
LEMMA GrowExtends ==
  ASSUME TypeOK, NEW t \in Threads, Resize(t), Crowded(t, Len(tables))
  PROVE  /\ Extended(t) /\ DOMAIN tables \subseteq DOMAIN tables'
         /\ \A g \in DOMAIN tables : tables'[g] = tables[g]
         /\ \A g \in DOMAIN tables' \ DOMAIN tables : \A j \in DOMAIN tables'[g] :
              tables'[g][j].key = NoThread
         /\ \A g \in DOMAIN tables' : Within(t, g)' <=> g \in DOMAIN tables /\ Within(t, g)
<1>1. PICK c \in Capacities : tables' = Append(tables, Slots(c))
  BY DEF Resize
<1>2. /\ DOMAIN tables = 1..Len(tables) /\ DOMAIN tables' = 1..Len(tables) + 1 /\ Len(tables) \in Nat
      /\ \A g \in DOMAIN tables : tables'[g] = tables[g]
      /\ \A j \in DOMAIN tables'[Len(tables) + 1] : tables'[Len(tables) + 1][j].key = NoThread
  BY <1>1, Grown
<1>3. \A g \in DOMAIN tables' : g \in DOMAIN tables \/ g = Len(tables) + 1
  BY <1>2
<1>4. \A g \in DOMAIN tables' \ DOMAIN tables : \A j \in DOMAIN tables'[g] :
        tables'[g][j].key = NoThread
  BY <1>2, <1>3
<1>5. \A g \in DOMAIN tables, n \in Nat : Key(g, n)' = Key(g, n)
  BY <1>2 DEF Key, Capacity
<1>6. DOMAIN tables \subseteq DOMAIN tables'
  BY <1>2
<1>7. \A u \in Threads, g \in DOMAIN tables' :
        Within(u, g)' <=> g \in DOMAIN tables /\ Within(u, g)
  <2>1. \A u \in Threads, g \in DOMAIN tables : Within(u, g)' <=> Within(u, g)
    BY <1>2 DEF Within
  <2>2. \A u \in Threads, g \in DOMAIN tables' \ DOMAIN tables : ~Within(u, g)'
    BY <1>4, HashAssumption DEF Within
  <2> QED
    BY <2>1, <2>2
<1> QED
  BY <1>2, <1>4, <1>5, <1>6, <1>7 DEF Extended

(* A larger table keeps the invariant. *)
LEMMA GrowStep ==
  ASSUME IInv, NEW t \in Threads, Resize(t), Crowded(t, Len(tables)), TypeOK'
  PROVE  IInv'
<1>1. TypeOK /\ pc[t] = "resize" /\ Local(t)
  BY DEF IInv, Resize
<1>2. /\ Extended(t) /\ DOMAIN tables \subseteq DOMAIN tables'
      /\ \A g \in DOMAIN tables : tables'[g] = tables[g]
      /\ \A g \in DOMAIN tables' \ DOMAIN tables : \A j \in DOMAIN tables'[g] :
           tables'[g][j].key = NoThread
      /\ \A g \in DOMAIN tables' : Within(t, g)' <=> g \in DOMAIN tables /\ Within(t, g)
  BY <1>1, GrowExtends
<1>3. UNCHANGED listVars /\ Listed' = Listed /\ owner' = owner
  BY ListUnchanged DEF Resize
<1>4. /\ pc'[t] = "resized"
      /\ \A u \in Threads \ {t} : UNCHANGED <<pc[u], table[u], index[u], producer[u]>>
  BY <1>1 DEF Resize, To, TypeOK, LocalsOK
<1>5. \A u \in Threads, g \in DOMAIN tables' : Within(u, g)' <=> g \in DOMAIN tables /\ Within(u, g)
  BY <1>2 DEF Extended
<1>6. OneProducer' /\ ListInside'
  BY <1>3 DEF IInv, OneProducer, IsInjective, ListInside, Closed, listVars
<1>7. KeysPlaced'
  <2> SUFFICES ASSUME NEW g \in DOMAIN tables', NEW u \in Threads, Within(u, g)'
               PROVE  \E n \in Nat : n >= HashedId[u] /\ Key(g, n)' = u /\ Taken(g, u, n)'
    BY DEF KeysPlaced
  <2>1. g \in DOMAIN tables /\ Within(u, g) /\ u # NoThread
    BY <1>5, HashAssumption
  <2>2. PICK n \in Nat : n >= HashedId[u] /\ Key(g, n) = u /\ Taken(g, u, n)
    BY <2>1 DEF IInv, KeysPlaced
  <2>3. Taken(g, u, n)' /\ Key(g, n)' = u
    BY <1>2, <2>1, <2>2, TakenStays DEF Extended
  <2> QED
    BY <2>2, <2>3
<1>8. ValuesListed'
  BY <1>2, <1>3 DEF IInv, ValuesListed, Own
<1>9. OwnersFound'
  <2> SUFFICES ASSUME NEW p \in DOMAIN owner
               PROVE  \/ pc'[owner[p]] \in {"push", "insert"} /\ producer'[owner[p]] = p
                      \/ \E g \in DOMAIN tables' : Within(owner[p], g)'
    BY <1>3 DEF OwnersFound, Adding, Within
  <2>1. owner[p] \in Threads
    BY <1>1, ElementOfSeq, LenProperties DEF TypeOK, ListOK
  <2>2. owner[p] # t
    BY <1>1 DEF Local, New
  <2> QED
    BY <1>2, <1>3, <1>4, <2>1, <2>2 DEF IInv, OwnersFound, Adding, Extended, Within
<1>10. Local(t)'
  BY <1>1, <1>3, <1>4 DEF Local, Probing, New, Pushing, Inserting, Returned
<1>11. \A u \in Threads \ {t} : Local(u)'
  BY <1>1, <1>2, <1>3, <1>4, OthersExtended DEF IInv
<1> QED
  BY <1>6, <1>7, <1>8, <1>9, <1>10, <1>11 DEF IInv

-----------------------------------------------------------------------------
(* The list is the least of the closed sets. *)
LEMMA LeastClosed ==
  ASSUME NEW S \in SUBSET DOMAIN owner, Closed(S)
  PROVE  Listed \subseteq S
BY DEF Listed

(* The list is closed itself, and has sub-queues only. *)
LEMMA ListedClosed ==
  ASSUME ListInside
  PROVE  Closed(Listed) /\ Listed \subseteq DOMAIN owner
BY DEF Listed, ListInside, Closed

(* How sub-queues are numbered. *)
LEMMA Subqueues ==
  ASSUME TypeOK
  PROVE  /\ DOMAIN owner = 1..Len(owner) /\ DOMAIN nextProducer = DOMAIN owner /\ Len(owner) \in Nat
         /\ 0 \notin DOMAIN owner /\ Len(owner) + 1 \notin DOMAIN owner
         /\ \A p \in DOMAIN owner : owner[p] \in Threads
BY LenProperties, ElementOfSeq DEF TypeOK, ListOK

(* A new sub-queue is not on the list. *)
LEMMA MakeListed ==
  ASSUME TypeOK, ListInside, NEW t \in Threads, Make(t)
  PROVE  /\ Listed' = Listed /\ ListInside'
         /\ DOMAIN owner' = DOMAIN owner \cup {Len(owner) + 1}
         /\ \A p \in DOMAIN owner : owner'[p] = owner[p]
         /\ owner'[Len(owner) + 1] = t
<1> DEFINE n == Len(owner) + 1
<1>1. /\ owner' = Append(owner, t) /\ nextProducer' = Append(nextProducer, listTail)
      /\ listTail' = listTail
  BY DEF Make
<1>2. /\ owner \in Seq(Threads) /\ nextProducer \in Seq(Nat) /\ Len(nextProducer) = Len(owner)
      /\ listTail \in Nat
  BY DEF TypeOK, ListOK
<1>3. /\ Len(owner') = n /\ owner'[n] = t /\ owner' \in Seq(Threads)
      /\ \A p \in 1..Len(owner) : owner'[p] = owner[p]
  BY <1>1, <1>2, AppendProperties
<1>4. nextProducer'[n] = listTail /\ \A p \in 1..Len(owner) : nextProducer'[p] = nextProducer[p]
  BY <1>1, <1>2, AppendProperties
<1>5. DOMAIN owner = 1..Len(owner) /\ Len(owner) \in Nat /\ n \notin DOMAIN owner /\ 0 \notin DOMAIN owner
  BY Subqueues
<1>6. DOMAIN owner' = 1..n
  BY <1>3, LenProperties
<1>7. DOMAIN owner' = DOMAIN owner \cup {n}
  BY <1>5, <1>6
<1> HIDE DEF n
<1>8. \A p \in DOMAIN owner : nextProducer'[p] = nextProducer[p]
  BY <1>4, <1>5
<1>9. ListInside'
  BY <1>1, <1>4, <1>7, <1>8 DEF ListInside, Closed
<1>10. Listed' \subseteq Listed
  <2>1. PICK S : S = Listed
    OBVIOUS
  <2>2. S \subseteq DOMAIN owner /\ Closed(S)
    BY <2>1, ListedClosed
  <2>3. S \in SUBSET DOMAIN owner' /\ Closed(S)'
    BY <1>1, <1>7, <1>8, <2>2 DEF Closed
  <2> QED
    BY <2>1, <2>3 DEF Listed
<1>11. Listed \subseteq Listed'
  <2> SUFFICES ASSUME NEW p \in Listed, NEW S \in SUBSET DOMAIN owner', Closed(S)'
               PROVE  p \in S
    BY <1>7 DEF Listed
  <2>1. Closed(S \cap DOMAIN owner)
    BY <1>1, <1>5, <1>8 DEF Closed, ListInside
  <2> QED
    BY <2>1, LeastClosed
<1> QED
  BY <1>3, <1>5, <1>7, <1>9, <1>10, <1>11 DEF n

(* Pushing one adds it to the list. *)
LEMMA PushListed ==
  ASSUME TypeOK, ListInside, NEW t \in Threads, Push(t), Pushing(t),
         listTail = nextProducer[producer[t]]
  PROVE  /\ Listed \subseteq Listed' /\ Listed' \subseteq Listed \cup {producer[t]}
         /\ producer[t] \in Listed' /\ ListInside' /\ owner' = owner
<1>1. /\ listTail' = producer[t] /\ owner' = owner /\ nextProducer' = nextProducer
      /\ producer[t] \in DOMAIN owner
  BY DEF Push, Pushing
<1>2. 0 \notin DOMAIN owner
  BY Subqueues
<1>3. PICK p \in DOMAIN owner : p = producer[t]
  BY <1>1
<1>4. PICK L : L = Listed
  OBVIOUS
<1>5. L \subseteq DOMAIN owner /\ Closed(L)
  BY <1>4, ListedClosed
<1>6. ListInside'
  BY <1>1 DEF ListInside, Closed
<1>7. Listed' \subseteq L \cup {p}
  <2>1. L \cup {p} \in SUBSET DOMAIN owner' /\ Closed(L \cup {p})'
    BY <1>1, <1>3, <1>5 DEF Closed
  <2> QED
    BY <2>1 DEF Listed
<1>8. p \in Listed'
  BY <1>1, <1>2, <1>3 DEF Listed, Closed
<1>9. L \subseteq Listed'
  <2> SUFFICES ASSUME NEW q \in L, NEW S \in SUBSET DOMAIN owner, Closed(S)'
               PROVE  q \in S
    BY <1>1, <1>5 DEF Listed
  <2>1. Closed(S)
    BY <1>1, <1>2, <1>3 DEF Closed
  <2> QED
    BY <1>4, <2>1, LeastClosed
<1> QED
  BY <1>1, <1>3, <1>4, <1>6, <1>7, <1>8, <1>9

(* A push that finds another tail changes the next of what is not on the list. *)
LEMMA RetryListed ==
  ASSUME TypeOK, ListInside, NEW t \in Threads, Push(t), Pushing(t),
         listTail # nextProducer[producer[t]]
  PROVE  Listed' = Listed /\ ListInside' /\ owner' = owner
<1>1. /\ nextProducer' = [nextProducer EXCEPT ![producer[t]] = listTail]
      /\ owner' = owner /\ listTail' = listTail
      /\ producer[t] \in DOMAIN owner /\ producer[t] \notin Listed
  BY DEF Push, Pushing
<1>2. DOMAIN nextProducer = DOMAIN owner
  BY Subqueues
<1>3. \A q \in DOMAIN owner :
        nextProducer'[q] = IF q = producer[t] THEN listTail ELSE nextProducer[q]
  BY <1>1, <1>2
<1>4. ListInside'
  BY <1>1, <1>3 DEF ListInside, Closed
<1>5. PICK L : L = Listed
  OBVIOUS
<1>6. L \subseteq DOMAIN owner /\ Closed(L) /\ producer[t] \notin L
  BY <1>1, <1>5, ListedClosed
<1>7. Listed' \subseteq L
  <2>1. L \in SUBSET DOMAIN owner' /\ Closed(L)'
    BY <1>1, <1>3, <1>6 DEF Closed
  <2> QED
    BY <2>1 DEF Listed
<1>8. L \subseteq Listed'
  <2> SUFFICES ASSUME NEW q \in L, NEW S \in SUBSET DOMAIN owner, Closed(S)'
               PROVE  q \in S
    BY <1>1, <1>6 DEF Listed
  <2>1. Closed(S \cap L)
    BY <1>1, <1>3, <1>6 DEF Closed
  <2> QED
    BY <1>5, <1>6, <2>1, LeastClosed
<1> QED
  BY <1>1, <1>4, <1>5, <1>7, <1>8

-----------------------------------------------------------------------------
(* What other threads know survives a longer list and another sub-queue. *)
LEMMA OthersListed ==
  ASSUME TypeOK, UNCHANGED tables, NEW u \in Threads, Local(u),
         UNCHANGED <<pc[u], table[u], index[u], producer[u]>>,
         Listed \subseteq Listed', Listed \subseteq DOMAIN owner, DOMAIN owner \subseteq DOMAIN owner',
         \A p \in DOMAIN owner : owner'[p] = owner[p],
         \A p \in DOMAIN owner' \ DOMAIN owner : owner'[p] # u,
         pc[u] = "push" => producer[u] \notin Listed'
  PROVE  Local(u)'
<1>1. /\ tables' = tables /\ pc'[u] = pc[u] /\ table'[u] = table[u] /\ index'[u] = index[u]
      /\ producer'[u] = producer[u]
  OBVIOUS
<1>2. Probing(u)'
  BY <1>1 DEF Local, Probing, Taken, Key, Capacity, Within
<1>3. New(u)' /\ Pushing(u)' /\ Returned(u)'
  BY <1>1 DEF Local, New, Pushing, Returned
<1>4. Inserting(u)'
  BY <1>1 DEF Local, Inserting, Own, Taken, Key, Capacity
<1> QED
  BY <1>2, <1>3, <1>4 DEF Local

(* A new sub-queue keeps the invariant. *)
LEMMA MakeStep ==
  ASSUME IInv, NEW t \in Threads, Make(t), TypeOK'
  PROVE  IInv'
<1> DEFINE n == Len(owner) + 1
<1>1. TypeOK /\ pc[t] = "room" /\ Local(t) /\ ListInside
  BY DEF IInv, Make
<1>2. /\ Listed' = Listed /\ ListInside' /\ DOMAIN owner' = DOMAIN owner \cup {n}
      /\ \A p \in DOMAIN owner : owner'[p] = owner[p]
      /\ owner'[n] = t /\ n \notin DOMAIN owner /\ Listed \subseteq DOMAIN owner
  BY <1>1, MakeListed, ListedClosed, Subqueues
<1>3. \A p \in DOMAIN owner : owner[p] # t /\ owner[p] \in Threads
  BY <1>1, Subqueues DEF Local, New
<1>4. /\ tables' = tables /\ pc'[t] = "push" /\ producer'[t] = n
      /\ \A u \in Threads \ {t} : UNCHANGED <<pc[u], table[u], index[u], producer[u]>>
  BY <1>1 DEF Make, To, hashVars, TypeOK, LocalsOK
<1> HIDE DEF n
<1>5. OneProducer'
  <2>1. OneProducer
    BY DEF IInv
  <2> QED
    BY <1>2, <1>3, <2>1 DEF OneProducer, IsInjective
<1>6. KeysPlaced'
  BY <1>4 DEF IInv, KeysPlaced, Taken, Key, Capacity, Within
<1>7. ValuesListed'
  BY <1>2, <1>4 DEF IInv, ValuesListed, Own
<1>8. OwnersFound'
  <2> SUFFICES ASSUME NEW p \in DOMAIN owner'
               PROVE  \/ pc'[owner'[p]] \in {"push", "insert"} /\ producer'[owner'[p]] = p
                      \/ \E g \in DOMAIN tables : Within(owner'[p], g)
    BY <1>4 DEF OwnersFound, Adding, Within
  <2>1. CASE p = n
    BY <1>2, <1>4, <2>1
  <2>2. CASE p # n
    <3>1. p \in DOMAIN owner /\ owner'[p] = owner[p] /\ owner[p] \in Threads \ {t}
      BY <1>2, <1>3, <2>2
    <3>2. Adding(owner[p], p) \/ \E g \in DOMAIN tables : Within(owner[p], g)
      BY <3>1 DEF IInv, OwnersFound
    <3> QED
      BY <1>4, <3>1, <3>2 DEF Adding, Within
  <2> QED
    BY <2>1, <2>2
<1>9. Local(t)'
  BY <1>2, <1>4 DEF Local, Probing, New, Pushing, Inserting, Returned
<1>10. \A u \in Threads \ {t} : Local(u)'
  <2> SUFFICES ASSUME NEW u \in Threads \ {t} PROVE Local(u)'
    OBVIOUS
  <2>1. Local(u) /\ (pc[u] = "push" => producer[u] \notin Listed')
    BY <1>2 DEF IInv, Local, Pushing
  <2>2. \A p \in DOMAIN owner' \ DOMAIN owner : owner'[p] # u
    BY <1>2
  <2>3. /\ Listed \subseteq Listed' /\ DOMAIN owner \subseteq DOMAIN owner'
        /\ UNCHANGED <<pc[u], table[u], index[u], producer[u]>>
    BY <1>2, <1>4
  <2> QED
    BY <1>1, <1>2, <1>4, <2>1, <2>2, <2>3, OthersListed
<1> QED
  BY <1>2, <1>5, <1>6, <1>7, <1>8, <1>9, <1>10 DEF IInv

(* Pushing it onto the list, or trying again, does. *)
LEMMA PushStep ==
  ASSUME IInv, NEW t \in Threads, Push(t), TypeOK'
  PROVE  IInv'
<1> DEFINE p0 == producer[t]
           there == listTail = nextProducer[p0]
<1>1. TypeOK /\ pc[t] = "push" /\ Local(t) /\ Pushing(t) /\ ListInside
  BY DEF IInv, Push, Local
<1>2. /\ Listed \subseteq Listed' /\ Listed' \subseteq Listed \cup (IF there THEN {p0} ELSE {})
      /\ ListInside' /\ owner' = owner
      /\ there => p0 \in Listed'
  BY <1>1, PushListed, RetryListed
<1>3. p0 \in DOMAIN owner /\ owner[p0] = t /\ p0 \notin Listed /\ Listed \subseteq DOMAIN owner
  BY <1>1, ListedClosed DEF Pushing
<1>4. /\ tables' = tables /\ producer' = producer
      /\ \A u \in Threads \ {t} : UNCHANGED <<pc[u], table[u], index[u], producer[u]>>
  BY <1>1 DEF Push, To, At, hashVars, TypeOK, LocalsOK
<1>5. pc'[t] = IF there THEN "insert" ELSE "push"
  BY <1>1 DEF Push, To, TypeOK, LocalsOK
<1>6. OneProducer' /\ KeysPlaced'
  BY <1>2, <1>4 DEF IInv, OneProducer, IsInjective, KeysPlaced, Taken, Key, Capacity, Within
<1>7. ValuesListed'
  BY <1>2, <1>4 DEF IInv, ValuesListed, Own
<1>8. OwnersFound'
  <2>1. \A p \in DOMAIN owner : owner[p] \in Threads
    BY <1>1, Subqueues
  <2> QED
    BY <1>1, <1>2, <1>4, <1>5, <2>1 DEF IInv, OwnersFound, Adding, Within
<1>9. Local(t)'
  <2>1. CASE there
    <3>1. index'[t] = HashedId[t] /\ HashedId[t] \in Nat
      BY <1>1, <2>1, HashAssumption DEF Push, At, TypeOK, LocalsOK
    <3>2. Inserting(t)'
      BY <1>2, <1>3, <1>4, <2>1, <3>1 DEF Inserting, Own, Taken
    <3> QED
      BY <1>5, <2>1, <3>2 DEF Local, Probing, New, Pushing, Returned
  <2>2. CASE ~there
    <3>1. p0 \notin Listed'
      BY <1>2, <1>3, <2>2
    <3> QED
      BY <1>2, <1>3, <1>4, <1>5, <2>2, <3>1 DEF Local, Probing, New, Pushing, Inserting, Returned
  <2> QED
    BY <2>1, <2>2
<1>10. \A u \in Threads \ {t} : Local(u)'
  <2> SUFFICES ASSUME NEW u \in Threads \ {t} PROVE Local(u)'
    OBVIOUS
  <2>1. Local(u) /\ UNCHANGED <<pc[u], table[u], index[u], producer[u]>>
    BY <1>4 DEF IInv
  <2>2. pc[u] = "push" => producer[u] \notin Listed'
    BY <1>2, <1>3, <2>1 DEF Local, Pushing
  <2> QED
    BY <1>1, <1>2, <1>3, <1>4, <2>1, <2>2, OthersListed
<1> QED
  BY <1>2, <1>6, <1>7, <1>8, <1>9, <1>10 DEF IInv

-----------------------------------------------------------------------------
(* Nobody has called. *)
LEMMA InitInvariant == Init => IInv
<1> SUFFICES ASSUME Init PROVE IInv
  OBVIOUS
<1>1. TypeOK
  BY InitTyped
<1>2. tables = <<Slots(InitialCapacity)>> /\ owner = <<>> /\ listTail = 0 /\ DOMAIN owner = {}
  BY DEF Init
<1>3. \A h \in DOMAIN tables : \A j \in DOMAIN tables[h] : tables[h][j].key = NoThread
  BY <1>2, SlotsTyped, HashAssumption
<1>4. KeysPlaced /\ ValuesListed
  BY <1>3, HashAssumption DEF KeysPlaced, ValuesListed, Within
<1>5. OneProducer /\ ListInside /\ OwnersFound
  BY <1>2 DEF OneProducer, IsInjective, ListInside, Closed, OwnersFound
<1>6. \A t \in Threads : pc[t] = "idle" /\ producer[t] = 0
  BY DEF Init
<1>7. \A t \in Threads : Local(t)
  BY <1>6 DEF Local, Probing, New, Pushing, Inserting, Returned
<1> QED
  BY <1>1, <1>4, <1>5, <1>7 DEF IInv

(* Every step keeps the invariant. *)
LEMMA NextInvariant == IInv /\ [Next]_vars => IInv'
<1> SUFFICES ASSUME IInv, [Next]_vars PROVE IInv'
  OBVIOUS
<1>1. ASSUME NEW t \in Threads, Step(t) PROVE IInv'
  <2>1. TypeOK /\ Pushing(t)
    BY DEF IInv, Local
  <2>2. TypeOK'
    BY <1>1, <2>1, SharedTyped, LocalsTyped DEF TypeOK
  <2>3. CASE Quiet(t)
    BY <2>2, <2>3, QuietStep
  <2>4. CASE Insert(t) /\ SlotOf(t).key = NoThread
    BY <2>2, <2>4, InsertStep
  <2>5. CASE Resize(t) /\ Crowded(t, Len(tables))
    BY <2>2, <2>5, GrowStep
  <2>6. CASE Make(t)
    BY <2>2, <2>6, MakeStep
  <2>7. CASE Push(t)
    BY <2>2, <2>7, PushStep
  <2> QED
    BY <1>1, <2>3, <2>4, <2>5, <2>6, <2>7 DEF Step, Quiet
<1>2. CASE UNCHANGED vars
  <2> USE <1>2 DEF vars, hashVars, listVars
  <2>1. TypeOK'
    BY DEF IInv, TypeOK, TablesOK, ListOK, LocalsOK
  <2>2. OneProducer' /\ ListInside' /\ KeysPlaced' /\ ValuesListed'
    BY SharedUnchanged DEF IInv
  <2>3. OwnersFound'
    BY DEF IInv, OwnersFound, Adding, Within
  <2>4. \A t \in Threads : Local(t)'
    BY OthersUnchanged DEF IInv
  <2> QED
    BY <2>1, <2>2, <2>3, <2>4 DEF IInv
<1> QED
  BY <1>1, <1>2 DEF Next

(* Threads keep their types, and all of IInv. *)
THEOREM Inductive == Spec => []IInv
<1> QED
  BY InitInvariant, NextInvariant, PTL DEF Spec

(* A thread publishes into one sub-queue only. *)
THEOREM OneEach == Spec => []OneProducer
<1>1. IInv => OneProducer
  BY DEF IInv
<1> QED
  BY <1>1, Inductive, PTL

(* What a call has returned is on the list that the poller walks. *)
THEOREM AllListed == Spec => []ProducersListed
<1>1. IInv => ProducersListed
  BY DEF IInv, Local, Inserting, Returned, Own, ProducersListed
<1> QED
  BY <1>1, Inductive, PTL
=============================================================================
