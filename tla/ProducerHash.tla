---------------------------- MODULE ProducerHash ----------------------------
(* How a thread that publishes finds its sub-queue, or adds one
   (queue/concurrentqueue.hpp, get_or_add_implicit_producer): a lock-free hash
   from thread to sub-queue, which one thread makes larger while the others look
   into it, add to it, or wait; and the list of all sub-queues.

   Every step is one access to what threads share, with what follows from it.
   The sub-queue of a slot is read by the thread of its key only: it is written
   with the key.  Threads do not leave the hash (no support for thread_local).  *)
EXTENDS Integers, Sequences, FiniteSets, Functions

CONSTANTS
  Threads,
  HashedId,         \* hash_thread_id of each
  InitialCapacity,  \* INITIAL_IMPLICIT_PRODUCER_HASH_SIZE, a power of two
  Capacities,       \* it, doubled as often as there can be memory for
  Calls,            \* how often each thread publishes
  NoThread

ASSUME HashAssumption ==
  /\ HashedId \in [Threads -> Nat] /\ NoThread \notin Threads
  /\ InitialCapacity \in Capacities /\ Capacities \subseteq Nat \ {0} /\ Calls \in Nat

VARIABLES
  tables,    \* the hash tables, the last of them implicitProducerHash
  count,     \* implicitProducerHashCount
  resizing,  \* implicitProducerHashResizeInProgress
  owner,     \* the sub-queues made, each with its thread
  listTail, nextProducer,  \* producerListTail, and next of each
  pc, main, table, index,  \* where a thread is, and its local variables
  newCount, producer, calls

hashVars == <<tables, count, resizing>>
listVars == <<owner, listTail, nextProducer>>
vars == <<hashVars, listVars, pc, main, table, index, newCount, producer, calls>>

Slots(capacity) == [i \in 0..capacity - 1 |-> [key |-> NoThread, value |-> 0]]
Capacity(h) == Cardinality(DOMAIN tables[h])

Init ==
  /\ tables = <<Slots(InitialCapacity)>> /\ count = 0 /\ resizing = FALSE
  /\ owner = <<>> /\ listTail = 0 /\ nextProducer = <<>>
  /\ pc = [t \in Threads |-> "idle"]
  /\ main = [t \in Threads |-> 1] /\ table = [t \in Threads |-> 1]
  /\ index = [t \in Threads |-> 0] /\ newCount = [t \in Threads |-> 0]
  /\ producer = [t \in Threads |-> 0] /\ calls = [t \in Threads |-> Calls]

To(t, there) == pc' = [pc EXCEPT ![t] = there]
At(t, h, i) == table' = [table EXCEPT ![t] = h] /\ index' = [index EXCEPT ![t] = i]
SlotOf(t) == tables[table[t]][index[t] % Capacity(table[t])]

(* The call returns a sub-queue, or 0: out of memory. *)
Return(t, p) ==
  /\ To(t, "idle") /\ producer' = [producer EXCEPT ![t] = p]
  /\ table' = [table EXCEPT ![t] = 1] /\ index' = [index EXCEPT ![t] = 0]
  /\ main' = [main EXCEPT ![t] = 1] /\ newCount' = [newCount EXCEPT ![t] = 0]

Call(t) ==
  /\ pc[t] = "idle" /\ calls[t] > 0
  /\ calls' = [calls EXCEPT ![t] = @ - 1]
  /\ main' = [main EXCEPT ![t] = Len(tables)]
  /\ At(t, Len(tables), HashedId[t]) /\ To(t, "probe")
  /\ UNCHANGED <<hashVars, listVars, newCount, producer>>

-----------------------------------------------------------------------------
(* Mutant of Missing: the tables before the current one are not searched. *)
MissingHere(t) == To(t, "count") /\ UNCHANGED <<table, index>>

(* Not in this table: the one before it, or the thread is new. *)
Missing(t) ==
  \/ table[t] > 1 /\ At(t, table[t] - 1, HashedId[t]) /\ UNCHANGED pc
  \/ table[t] = 1 /\ To(t, "count") /\ UNCHANGED <<table, index>>

(* The slots are probed from the thread's hash on, up to one that is free. *)
ProbeOther(t) ==
  /\ pc[t] = "probe" /\ SlotOf(t).key # t
  /\ \/ SlotOf(t).key = NoThread /\ Missing(t)
     \/ SlotOf(t).key # NoThread /\ At(t, table[t], index[t] + 1) /\ UNCHANGED pc
  /\ UNCHANGED <<hashVars, listVars, main, newCount, producer, calls>>

(* Found; what was found in an older table is put into the one loaded first. *)
ProbeFound(t) ==
  /\ pc[t] = "probe" /\ SlotOf(t).key = t
  /\ IF table[t] = main[t] THEN Return(t, SlotOf(t).value)
     ELSE /\ producer' = [producer EXCEPT ![t] = SlotOf(t).value]
          /\ At(t, main[t], HashedId[t]) /\ To(t, "insert")
          /\ UNCHANGED <<main, newCount>>
  /\ UNCHANGED <<hashVars, listVars, calls>>

(* The first free slot is taken, if it is still free when it is set. *)
Insert(t) ==
  /\ pc[t] = "insert"
  /\ IF SlotOf(t).key = NoThread
       THEN /\ tables' = [tables EXCEPT ![table[t]][index[t] % Capacity(table[t])] =
                            [key |-> t, value |-> producer[t]]]
            /\ Return(t, producer[t])
       ELSE /\ At(t, table[t], index[t] + 1)
            /\ UNCHANGED <<tables, pc, main, newCount, producer>>
  /\ UNCHANGED <<count, resizing, listVars, calls>>

-----------------------------------------------------------------------------
Count(t) ==
  /\ pc[t] = "count"
  /\ count' = count + 1 /\ newCount' = [newCount EXCEPT ![t] = count + 1]
  /\ To(t, "size")
  /\ UNCHANGED <<tables, resizing, listVars, main, table, index, producer, calls>>

(* The table known is half full: one thread gets the lock to make a new one. *)
Crowded(t, h) == newCount[t] >= Capacity(h) \div 2

Size(t) ==
  /\ pc[t] = "size"
  /\ IF Crowded(t, main[t]) /\ ~resizing THEN resizing' = TRUE /\ To(t, "resize")
     ELSE UNCHANGED resizing /\ To(t, "room")
  /\ UNCHANGED <<tables, count, listVars, main, table, index, newCount, producer, calls>>

(* The capacity is doubled, and again while that makes a crowded table. *)
Roomy(t) == {c \in Capacities : 2 * Capacity(Len(tables)) <= c /\ newCount[t] < c \div 2}
NewCapacity(t, c) == c \in Roomy(t) /\ \A d \in Roomy(t) : c <= d

(* Holding the lock, which the thread gives up in a step of its own. *)
Resize(t) ==
  /\ pc[t] = "resize"
  /\ \/ /\ Crowded(t, Len(tables))
        /\ \E c \in Capacities : NewCapacity(t, c) /\ tables' = Append(tables, Slots(c))
        /\ main' = [main EXCEPT ![t] = Len(tables) + 1]
     \/ /\ ~Crowded(t, Len(tables))
        /\ main' = [main EXCEPT ![t] = Len(tables)]
        /\ UNCHANGED tables
  /\ To(t, "resized")
  /\ UNCHANGED <<count, resizing, listVars, table, index, newCount, producer, calls>>

ResizeFails(t) ==
  /\ pc[t] = "resize" /\ Crowded(t, Len(tables))
  /\ count' = count - 1
  /\ To(t, "failed")
  /\ UNCHANGED <<tables, resizing, listVars, main, table, index, newCount, producer, calls>>

(* Mutant of Unlock: who had no memory keeps the lock. *)
UnlockDone(t) ==
  /\ \/ pc[t] = "resized" /\ To(t, "room") /\ UNCHANGED <<main, table, index, newCount, producer>>
     \/ pc[t] = "failed" /\ Return(t, 0)
  /\ resizing' = (pc[t] = "failed")
  /\ UNCHANGED <<tables, count, listVars, calls>>

Unlock(t) ==
  /\ \/ pc[t] = "resized" /\ To(t, "room") /\ UNCHANGED <<main, table, index, newCount, producer>>
     \/ pc[t] = "failed" /\ Return(t, 0)
  /\ resizing' = FALSE
  /\ UNCHANGED <<tables, count, listVars, calls>>

(* There is room up to three quarters; else the table in use is looked at again. *)
HasRoom(t) == newCount[t] < (Capacity(main[t]) \div 2) + (Capacity(main[t]) \div 4)

Wait(t) ==
  /\ pc[t] = "room" /\ ~HasRoom(t)
  /\ main' = [main EXCEPT ![t] = Len(tables)]
  /\ To(t, "size")
  /\ UNCHANGED <<hashVars, listVars, table, index, newCount, producer, calls>>

-----------------------------------------------------------------------------
(* recycle_or_create_producer, where no sub-queue is ever inactive; and
   add_producer, which pushes it onto the list when the tail is what it was.   *)
Make(t) ==
  /\ pc[t] = "room" /\ HasRoom(t)
  /\ owner' = Append(owner, t)
  /\ nextProducer' = Append(nextProducer, listTail)
  /\ producer' = [producer EXCEPT ![t] = Len(owner) + 1]
  /\ To(t, "push")
  /\ UNCHANGED <<hashVars, listTail, main, table, index, newCount, calls>>

MakeFails(t) ==
  /\ pc[t] = "room" /\ HasRoom(t)
  /\ count' = count - 1
  /\ Return(t, 0)
  /\ UNCHANGED <<tables, resizing, listVars, calls>>

(* Mutant of Push: the tail is stored whatever it is now. *)
PushAny(t) ==
  /\ pc[t] = "push"
  /\ listTail' = producer[t] /\ At(t, main[t], HashedId[t]) /\ To(t, "insert")
  /\ UNCHANGED <<hashVars, owner, nextProducer, main, newCount, producer, calls>>

Push(t) ==
  /\ pc[t] = "push"
  /\ IF listTail = nextProducer[producer[t]]
       THEN /\ listTail' = producer[t] /\ At(t, main[t], HashedId[t]) /\ To(t, "insert")
            /\ UNCHANGED nextProducer
       ELSE /\ nextProducer' = [nextProducer EXCEPT ![producer[t]] = listTail]
            /\ UNCHANGED <<listTail, table, index, pc>>
  /\ UNCHANGED <<hashVars, owner, main, newCount, producer, calls>>

-----------------------------------------------------------------------------
Step(t) == \/ Call(t) \/ ProbeOther(t) \/ ProbeFound(t) \/ Insert(t) \/ Count(t) \/ Size(t)
           \/ Resize(t) \/ ResizeFails(t) \/ Unlock(t) \/ Wait(t)
           \/ Make(t) \/ MakeFails(t) \/ Push(t)

Next == \E t \in Threads : Step(t)

Spec == Init /\ [][Next]_vars

(* Every thread goes on. *)
FairSpec == Spec /\ \A t \in Threads : WF_vars(Step(t))

-----------------------------------------------------------------------------
(* A thread publishes into one sub-queue only, whatever tables were made since
   its last call, by whom and how far they are: with a second one its metrics
   would no longer come out in order.                                         *)
OneProducer == IsInjective(owner)

(* A sub-queue that a call has returned is on the list that the poller walks:
   its metrics are found.  (The list is in every set from which a walk does not
   lead out.)                                                                 *)
Closed(S) == /\ listTail \in S \cup {0}
             /\ \A q \in S : nextProducer[q] \in S \cup {0}
Listed == {p \in DOMAIN owner : \A S \in SUBSET DOMAIN owner : Closed(S) => p \in S}
ProducersListed == \A t \in Threads : pc[t] \in {"idle", "insert"} /\ producer[t] # 0
                                        => producer[t] \in Listed

(* No call goes on for ever, probing a table without a free slot or waiting for a
   larger one, even if there is no memory for it.                             *)
CallsReturn == \A t \in Threads : []<>(pc[t] = "idle")
=============================================================================
