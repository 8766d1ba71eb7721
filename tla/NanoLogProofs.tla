---------------------------- MODULE NanoLogProofs ----------------------------
(* Theorems about the logger, for any number of producers and lines, buffers of
   any size and either kind of buffer.

   The invariants of NanoLog are not inductive as they stand.  QueueInv says how
   the queue's buffers, its write index and the producers' slots belong together
   as long as no producer has counted in freed memory, RingInv the same of the
   ring as long as it is not overrun.                                         *)
EXTENDS LogFile, FiniteSetTheorems, SequenceTheorems, TLAPS

-----------------------------------------------------------------------------
Places == {"idle", "again", "spin", "load", "mark", "count", "make", "publish",
           "put"}

(* The types of the variables, whatever happens in freed memory. *)
TypeOK ==
  /\ kind \in {"queue", "ring"}
  /\ state \in {"INIT", "READY", "SHUTDOWN"}
  /\ popper \in {"waiting", "testing", "reading", "draining", "ended"}
  /\ pc \in [Producers -> Places]
  /\ sent \in [Producers -> 0..Lines]
  /\ index \in [Producers -> Nat]
  /\ into \in [Producers -> Addresses \cup {NoBuffer}]
  /\ writeIndex \in Nat /\ readIndex \in Nat
  /\ writeBuffer \in Addresses
  /\ readBuffer \in Addresses \cup {NoBuffer}
  /\ buffers \in Seq(Addresses)
  /\ alive \in SUBSET Addresses
  /\ slot \in [Addresses -> [Slots -> LogLines \cup {NoLine}]]
  /\ counted \in [Addresses -> Nat]
  /\ ring \in [0..(RingSize - 1) -> LogLines \cup {NoLine}]
  /\ log \in Seq(LogLines)
  /\ stray \in BOOLEAN /\ overrun \in BOOLEAN

(* What the program counters of the threads say of each other, of the kind of
   the buffer and of the consumer's position.                                 *)
Control ==
  /\ \A p \in Producers :
       /\ pc[p] # "idle" => sent[p] < Lines /\ state # "SHUTDOWN"
       /\ pc[p] = "put" => kind = "ring"
       /\ pc[p] \notin {"idle", "put"} => kind = "queue"
       /\ pc[p] \in {"mark", "count", "make", "publish"} => into[p] \in Addresses
       /\ pc[p] \in {"load", "mark", "count"} => index[p] \in Slots
       /\ pc[p] = "put" => index[p] \in 0..(RingSize - 1)
  /\ popper # "waiting" => state # "INIT"
  /\ popper \in {"draining", "ended"} => state = "SHUTDOWN"
  /\ kind = "queue" =>
       /\ readIndex \in Slots
       /\ readBuffer = NoBuffer => readIndex = 0
       /\ readBuffer # NoBuffer => buffers # <<>> /\ readBuffer = buffers[1]
       /\ \A i \in DOMAIN ring : ring[i] = NoLine
  /\ kind = "ring" => \A b \in Addresses : slot[b] = Blank

(* How many lines of each thread are in a slot, marked, or popped. *)
latest ==
  [p \in Producers |->
     IF pc[p] \in {"count", "make", "publish"} THEN sent[p] + 1 ELSE sent[p]]

(* What is popped of a thread is what it has pushed, in its order. *)
LogInOrder ==
  /\ \A i \in 1..Len(log) : log[i].nr <= latest[log[i].by]
  /\ \A i, j \in 1..Len(log) :
       i < j /\ log[i].by = log[j].by => log[i].nr < log[j].nr

(* After the drain nothing is left. *)
Drained ==
  popper = "ended" =>
    \A p \in Producers : \A n \in 1..sent[p] : InLog([by |-> p, nr |-> n])

-----------------------------------------------------------------------------
(* A producer makes the next buffer. *)
Replacing == \E p \in Producers : pc[p] \in {"make", "publish"}
Publishing == \E p \in Producers : pc[p] = "publish"

(* The queue's buffers are distinct and alive, the last is the one that is
   filled, unless its successor is stored already.  The rest of memory is blank. *)
QueueBuffers ==
  /\ \A j, k \in 1..Len(buffers) : buffers[j] = buffers[k] => j = k
  /\ \A k \in 1..Len(buffers) : buffers[k] \in alive
  /\ \A b \in alive :
       \/ \E k \in 1..Len(buffers) : buffers[k] = b
       \/ Publishing /\ b = writeBuffer
  /\ \A p \in Producers : pc[p] = "publish" => into[p] = writeBuffer
  /\ Publishing =>
       /\ writeBuffer \in alive
       /\ slot[writeBuffer] = Blank
       /\ counted[writeBuffer] = 0
       /\ \A k \in 1..Len(buffers) : buffers[k] # writeBuffer
  /\ ~Publishing /\ buffers # <<>> => buffers[Len(buffers)] = writeBuffer
  /\ \A b \in Addresses \ alive : slot[b] = Blank

(* Whoever makes the next buffer is alone: all slots of the last are counted. *)
QueueReplace ==
  \A p \in Producers : pc[p] \in {"make", "publish"} =>
    /\ writeIndex >= Size
    /\ \A q \in Producers \ {p} :
         pc[q] \notin {"load", "mark", "count", "make", "publish"}

(* A claimed slot belongs to one producer until it is counted, and the buffer
   it is in stays until it is marked.                                         *)
QueueClaims ==
  /\ \A p \in Producers : pc[p] \in {"load", "mark", "count"} =>
       /\ index[p] < writeIndex
       /\ \A q \in Producers \ {p} :
            pc[q] \in {"load", "mark", "count"} => index[p] # index[q]
  /\ \A p \in Producers : pc[p] \in {"mark", "count"} => into[p] = writeBuffer
  /\ \A p \in Producers : pc[p] \in {"load", "mark"} =>
       /\ buffers # <<>>
       /\ slot[writeBuffer][index[p]] = NoLine
       /\ \A i \in Slots : slot[writeBuffer][i] # NoLine
                           /\ slot[writeBuffer][i].by = p => i < index[p]
  /\ \A p \in Producers : pc[p] = "count" /\ buffers # <<>> =>
       slot[writeBuffer][index[p]] = Line(p)
  /\ ~Replacing /\ buffers = <<>> => writeIndex >= Size

(* Only the last buffer has slots without a line: those that nobody has claimed
   and those whose producer has not marked them.                              *)
QueueSlots ==
  /\ \A k \in 1..Len(buffers), i \in Slots : slot[buffers[k]][i] = NoLine =>
       /\ k = Len(buffers) /\ ~Replacing
       /\ \/ i >= writeIndex
          \/ \E p \in Producers : pc[p] \in {"load", "mark"} /\ index[p] = i
  /\ ~Replacing =>
       \A i \in Slots : i >= writeIndex => slot[writeBuffer][i] = NoLine
  /\ buffers # <<>> => \A i \in 0..(readIndex - 1) : slot[buffers[1]][i] # NoLine

(* The slots of the last buffer that are counted. *)
Settled ==
  {i \in Slots : /\ i < writeIndex
                 /\ \A p \in Producers :
                      pc[p] \in {"load", "mark", "count"} => index[p] # i}

QueueCounted ==
  ~Replacing /\ buffers # <<>> => counted[writeBuffer] = Cardinality(Settled)

(* The slots that the consumer has yet to read, and their order. *)
Waiting(k, i) == k \in 1..Len(buffers) /\ i \in Slots /\ (k = 1 => i >= readIndex)
Before(j, h, k, i) == j < k \/ (j = k /\ h < i)

(* The lines that wait are in the order in which their thread has pushed them,
   and come after those that are popped.                                      *)
QueueOrder ==
  /\ \A k \in 1..Len(buffers), i \in Slots :
       slot[buffers[k]][i] # NoLine =>
         slot[buffers[k]][i].nr <= latest[slot[buffers[k]][i].by]
  /\ \A k \in 1..Len(buffers), i \in Slots, m \in 1..Len(log) :
       Waiting(k, i) /\ slot[buffers[k]][i] # NoLine
       /\ slot[buffers[k]][i].by = log[m].by =>
         log[m].nr < slot[buffers[k]][i].nr
  /\ \A j, k \in 1..Len(buffers), h, i \in Slots :
       Waiting(j, h) /\ Waiting(k, i) /\ Before(j, h, k, i)
       /\ slot[buffers[j]][h] # NoLine /\ slot[buffers[k]][i] # NoLine
       /\ slot[buffers[j]][h].by = slot[buffers[k]][i].by =>
         slot[buffers[j]][h].nr < slot[buffers[k]][i].nr

QueueKept ==
  \A p \in Producers : \A n \in 1..latest[p] :
    \/ InLog([by |-> p, nr |-> n])
    \/ \E k \in 1..Len(buffers), i \in Slots :
         Waiting(k, i) /\ slot[buffers[k]][i] = [by |-> p, nr |-> n]

QueueInv ==
  /\ QueueBuffers /\ QueueReplace /\ QueueClaims /\ QueueSlots /\ QueueCounted
  /\ QueueOrder /\ QueueKept

-----------------------------------------------------------------------------
(* The indices that are claimed and not read, at most one for each slot. *)
Window == readIndex..(writeIndex - 1)

Cell(j) == j % RingSize
At(j) == ring[Cell(j)]

(* Each slot of the window is claimed by the one producer that has yet to write
   it, or holds its line; the others are free.                                *)
RingClaims ==
  /\ readIndex <= writeIndex /\ writeIndex <= readIndex + RingSize
  /\ \A i \in 0..(RingSize - 1) :
       ring[i] # NoLine => \E j \in Window : Cell(j) = i
  /\ \A j \in Window :
       At(j) = NoLine => \E p \in Producers : pc[p] = "put" /\ index[p] = Cell(j)
  /\ \A p \in Producers : pc[p] = "put" =>
       /\ ring[index[p]] = NoLine
       /\ \A q \in Producers \ {p} : pc[q] = "put" => index[p] # index[q]
       /\ \E j \in Window :
            /\ Cell(j) = index[p]
            /\ \A i \in Window : At(i) # NoLine /\ At(i).by = p => i < j

RingOrder ==
  /\ \A j \in Window : At(j) # NoLine => At(j).nr <= sent[At(j).by]
  /\ \A j \in Window, m \in 1..Len(log) :
       At(j) # NoLine /\ At(j).by = log[m].by => log[m].nr < At(j).nr
  /\ \A i, j \in Window :
       i < j /\ At(i) # NoLine /\ At(j) # NoLine /\ At(i).by = At(j).by =>
         At(i).nr < At(j).nr

RingKept ==
  \A p \in Producers : \A n \in 1..sent[p] :
    \/ InLog([by |-> p, nr |-> n])
    \/ \E j \in Window : At(j) = [by |-> p, nr |-> n]

RingInv == RingClaims /\ RingOrder /\ RingKept

-----------------------------------------------------------------------------
IInv ==
  /\ TypeOK /\ Control
  /\ kind = "queue" => ~overrun
  /\ ~stray /\ ~overrun => LogInOrder /\ Drained
  /\ kind = "queue" /\ ~stray /\ ~overrun => QueueInv
  /\ kind = "ring" /\ ~stray /\ ~overrun => RingInv

-----------------------------------------------------------------------------
(* The constants, and the values that stand for nothing. *)
LEMMA Constants ==
  /\ Size \in Nat /\ Size >= 1 /\ RingSize \in Nat /\ RingSize >= 1 /\ Lines \in Nat
  /\ NoLine \notin LogLines /\ NoBuffer \notin Addresses
  /\ 0 \in Slots /\ Slots \subseteq Nat /\ Size - 1 \in Slots
  /\ \A i \in Slots : i < Size /\ i >= 0
  /\ \A i \in Nat : i < Size => i \in Slots
  /\ \A n \in Nat : n % RingSize \in 0..(RingSize - 1) /\ n % RingSize \in Nat
  /\ Blank \in [Slots -> LogLines \cup {NoLine}] /\ \A i \in Slots : Blank[i] = NoLine
<1>1. Size \in Nat \ {0} /\ RingSize \in Nat \ {0}
  BY SizesAssumption
<1>2. \A n \in Nat : n % RingSize \in 0..(RingSize - 1) /\ n % RingSize \in Nat
  BY <1>1
<1> QED
  BY <1>1, <1>2, LinesAssumption, NoLineAssumption, AddressesAssumption DEF Slots, Blank

(* The slots of a buffer. *)
LEMMA SlotNumbers ==
  /\ Size \in Nat /\ Size >= 1 /\ 0 \in Slots /\ Size - 1 \in Slots
  /\ \A i \in Slots : i \in Nat /\ i < Size
  /\ \A i \in Nat : i < Size => i \in Slots
BY Constants

(* The line that a producer logs is a line. *)
LEMMA LineTyped ==
  ASSUME TypeOK, NEW p \in Producers, sent[p] < Lines
  PROVE  Line(p) \in LogLines /\ Line(p) # NoLine /\ Line(p).by = p /\ Line(p).nr = sent[p] + 1
<1>1. sent[p] + 1 \in 1..Lines
  BY Constants DEF TypeOK
<1> QED
  BY <1>1, Constants DEF Line, LogLines

(* At the start every variable has its type. *)
LEMMA InitTyped == Init => TypeOK /\ Control
<1> SUFFICES ASSUME Init PROVE TypeOK /\ Control
  OBVIOUS
<1>1. writeBuffer \in Addresses
  BY AddressesAssumption DEF Init, InitQueue
<1>2. kind \in {"queue", "ring"} /\ state = "INIT" /\ popper = "waiting"
  BY KindsAssumption DEF Init
<1>3. /\ pc \in [Producers -> Places] /\ sent \in [Producers -> 0..Lines]
      /\ index \in [Producers -> Nat] /\ into \in [Producers -> Addresses \cup {NoBuffer}]
  BY Constants DEF Init, Places
<1>4. slot \in [Addresses -> [Slots -> LogLines \cup {NoLine}]] /\ counted \in [Addresses -> Nat]
  BY Constants DEF Init, InitQueue
<1>5. buffers \in Seq(Addresses) /\ alive \in SUBSET Addresses /\ readBuffer = NoBuffer
  BY <1>1 DEF Init, InitQueue
<1>6. ring \in [0..(RingSize - 1) -> LogLines \cup {NoLine}]
  BY Constants DEF Init, InitRing
<1>7. stray \in BOOLEAN /\ overrun \in BOOLEAN
  BY Zenon DEF Init
<1>8. writeIndex = 0 /\ readIndex = 0 /\ log = <<>>
  BY DEF Init
<1>9. TypeOK
  BY <1>1, <1>2, <1>3, <1>4, <1>5, <1>6, <1>7, <1>8 DEF TypeOK
<1>10. /\ \A p \in Producers : pc[p] = "idle"
       /\ \A i \in DOMAIN ring : ring[i] = NoLine
       /\ \A b \in Addresses : slot[b] = Blank
  BY DEF Init, InitRing, InitQueue
<1> QED
  BY <1>2, <1>5, <1>8, <1>9, <1>10, Constants DEF Control

-----------------------------------------------------------------------------
(* What the first marked slot of the queue is. *)
LEMMA MarkedTyped ==
  ASSUME TypeOK, Control, kind = "queue", Marked
  PROVE  /\ buffers # <<>> /\ First = buffers[1] /\ First \in Addresses
         /\ readIndex \in Slots /\ slot[First][readIndex] \in LogLines
<1>1. First # NoBuffer /\ slot[First][readIndex] # NoLine
  BY DEF Marked
<1>2. buffers # <<>> /\ First = buffers[1]
  BY <1>1 DEF First, TypeOK, Control
<1>3. buffers[1] \in Addresses
  BY <1>2 DEF TypeOK
<1> QED
  BY <1>1, <1>2, <1>3 DEF TypeOK, Control

(* A step of a producer preserves the types. *)
LEMMA ClaimTyped ==
  ASSUME TypeOK, Control, NEW p \in Producers, Claim(p) \/ RingClaim(p)
  PROVE  TypeOK' /\ Control'
<1>1. /\ UNCHANGED <<kind, state, popper, sent, into, readIndex, readBuffer, writeBuffer, buffers,
                     alive, slot, counted, ring, log, stray>>
      /\ sent[p] < Lines /\ state = "READY" /\ writeIndex' \in Nat
  BY DEF Claim, RingClaim, control, reading, queueVars, history, TypeOK, Control
<1>2. overrun' \in BOOLEAN
  <2>1. CASE Claim(p)
    BY <2>1 DEF Claim, history, TypeOK
  <2>2. CASE RingClaim(p)
    <3>1. overrun' = (overrun \/ writeIndex >= readIndex + RingSize)
      BY <2>2 DEF RingClaim
    <3> QED
      BY <3>1, Zenon
  <2> QED
    BY <2>1, <2>2
<1>3. \/ /\ kind = "queue" /\ pc' = [pc EXCEPT ![p] = "load"] /\ writeIndex \in Slots
         /\ index' = [index EXCEPT ![p] = writeIndex]
      \/ kind = "queue" /\ pc' = [pc EXCEPT ![p] = "spin"] /\ index' = index
      \/ /\ kind = "ring" /\ pc' = [pc EXCEPT ![p] = "put"]
         /\ index' = [index EXCEPT ![p] = writeIndex % RingSize]
  BY Constants DEF Claim, RingClaim, Goto, TypeOK
<1>6. writeIndex % RingSize \in 0..(RingSize - 1) /\ writeIndex % RingSize \in Nat
  BY Constants DEF TypeOK
<1>9. pc' \in [Producers -> Places]
  BY <1>3 DEF TypeOK, Places
<1>4. index' \in [Producers -> Nat]
  BY <1>3, <1>6 DEF TypeOK
<1>5. TypeOK'
  BY <1>1, <1>2, <1>4, <1>9 DEF TypeOK
<1>7. /\ pc'[p] \in {"load", "spin", "put"}
      /\ pc'[p] = "put" => kind = "ring" /\ index'[p] \in 0..(RingSize - 1)
      /\ pc'[p] # "put" => kind = "queue"
      /\ pc'[p] = "load" => index'[p] \in Slots
      /\ \A q \in Producers \ {p} : pc'[q] = pc[q] /\ index'[q] = index[q]
  BY <1>3, <1>6 DEF TypeOK
<1>8. Control'
  BY <1>1, <1>7 DEF Control
<1> QED
  BY <1>5, <1>8

(* The types, after the steps of a thread up to its line being in the ring. *)
LEMMA PushTyped ==
  ASSUME TypeOK, Control, NEW p \in Producers,
         Spin(p) \/ Load(p) \/ Mark(p) \/ Make(p) \/ RingPut(p)
  PROVE  TypeOK' /\ Control'
<1>1. /\ UNCHANGED <<kind, state, popper, writeIndex, readIndex, readBuffer, buffers, log, stray,
                     overrun>>
      /\ pc[p] # "idle" /\ sent[p] < Lines /\ state # "SHUTDOWN"
  BY DEF Spin, Load, Mark, Make, RingPut, control, reading, queueVars, history, Control
<1>2. Line(p) \in LogLines
  BY <1>1, LineTyped
<1>3. CASE Spin(p)
  <2>1. pc' = [pc EXCEPT ![p] = "again"] /\ pc[p] = "spin"
    BY <1>3 DEF Spin, Goto
  <2>2. UNCHANGED <<sent, index, into, writeBuffer, alive, slot, counted, ring>>
    BY <1>3 DEF Spin, queueVars
  <2> QED
    BY <1>1, <2>1, <2>2 DEF TypeOK, Control, Places
<1>4. CASE Load(p)
  <2>1. pc' = [pc EXCEPT ![p] = "mark"] /\ pc[p] = "load" /\ into' = [into EXCEPT ![p] = writeBuffer]
    BY <1>4 DEF Load, Goto
  <2>2. UNCHANGED <<sent, index, writeBuffer, alive, slot, counted, ring>>
    BY <1>4 DEF Load, queueVars
  <2> QED
    BY <1>1, <2>1, <2>2 DEF TypeOK, Control, Places
<1>5. CASE Mark(p)
  <2>1. pc' = [pc EXCEPT ![p] = "count"] /\ pc[p] = "mark" /\ kind = "queue"
    BY <1>5 DEF Mark, Goto, Control
  <2>2. UNCHANGED <<sent, index, into, writeBuffer, alive, counted, ring>>
    BY <1>5 DEF Mark, queueVars
  <2>3. slot' = [slot EXCEPT ![into[p]] = [slot[into[p]] EXCEPT ![index[p]] = Line(p)]]
    BY <1>5 DEF Mark
  <2>4. slot' \in [Addresses -> [Slots -> LogLines \cup {NoLine}]]
    BY <1>2, <2>1, <2>3 DEF TypeOK, Control
  <2> QED
    BY <1>1, <2>1, <2>2, <2>4 DEF TypeOK, Control, Places
<1>6. CASE Make(p)
  <2>1. pc' = [pc EXCEPT ![p] = "publish"] /\ pc[p] = "make" /\ kind = "queue"
    BY <1>6 DEF Make, Goto, Control
  <2>2. UNCHANGED <<sent, index, ring>>
    BY <1>6 DEF Make
  <2>3. PICK b \in Addresses \ alive :
          /\ writeBuffer' = b /\ alive' = alive \cup {b} /\ slot' = [slot EXCEPT ![b] = Blank]
          /\ counted' = [counted EXCEPT ![b] = 0] /\ into' = [into EXCEPT ![p] = b]
    BY <1>6 DEF Make
  <2>4. slot' \in [Addresses -> [Slots -> LogLines \cup {NoLine}]] /\ counted' \in [Addresses -> Nat]
    BY <2>3, Constants DEF TypeOK
  <2>5. into' \in [Producers -> Addresses \cup {NoBuffer}] /\ alive' \in SUBSET Addresses
    BY <2>3 DEF TypeOK
  <2>6. into'[p] = b /\ \A q \in Producers \ {p} : into'[q] = into[q]
    BY <2>3 DEF TypeOK
  <2> QED
    BY <1>1, <2>1, <2>2, <2>3, <2>4, <2>5, <2>6 DEF TypeOK, Control, Places
<1>7. CASE RingPut(p)
  <2>1. pc' = [pc EXCEPT ![p] = "idle"] /\ kind = "ring"
    BY <1>7 DEF RingPut, Return, Goto, Control
  <2>2. /\ sent' = [sent EXCEPT ![p] = sent[p] + 1] /\ index' = [index EXCEPT ![p] = 0]
        /\ into' = [into EXCEPT ![p] = NoBuffer] /\ ring' = [ring EXCEPT ![index[p]] = Line(p)]
        /\ UNCHANGED <<writeBuffer, alive, slot, counted>>
    BY <1>7 DEF RingPut, Return, queueVars
  <2>3. /\ sent' \in [Producers -> 0..Lines] /\ index' \in [Producers -> Nat]
        /\ into' \in [Producers -> Addresses \cup {NoBuffer}]
    BY <1>1, <2>2, Constants DEF TypeOK
  <2>4. \A q \in Producers \ {p} : sent'[q] = sent[q] /\ index'[q] = index[q] /\ into'[q] = into[q]
    BY <2>2 DEF TypeOK
  <2>5. ring' \in [0..(RingSize - 1) -> LogLines \cup {NoLine}]
    BY <1>2, <2>2 DEF TypeOK
  <2> QED
    BY <1>1, <2>1, <2>2, <2>3, <2>4, <2>5 DEF TypeOK, Control, Places
<1> QED
  BY <1>3, <1>4, <1>5, <1>6, <1>7

(* After a slot is counted, or a line published. *)
LEMMA CountTyped ==
  ASSUME TypeOK, Control, NEW p \in Producers, Count(p) \/ Publish(p)
  PROVE  TypeOK' /\ Control'
<1>1. /\ UNCHANGED <<kind, state, popper, readIndex, readBuffer, writeBuffer, alive, slot, ring, log,
                     overrun>>
      /\ pc[p] \in {"count", "publish"} /\ sent[p] < Lines /\ state # "SHUTDOWN" /\ kind = "queue"
      /\ into[p] \in Addresses
  BY DEF Count, Publish, control, reading, queueVars, history, Control
<1>2. stray' \in BOOLEAN
  <2>1. CASE Count(p)
    <3>1. stray' = (stray \/ slot[into[p]][index[p]] # Line(p))
      BY <2>1 DEF Count
    <3> QED
      BY <3>1, Zenon
  <2>2. CASE Publish(p)
    BY <2>2 DEF Publish, history, TypeOK
  <2> QED
    BY <2>1, <2>2
<1>3. \/ /\ pc' = [pc EXCEPT ![p] = "make"] /\ UNCHANGED <<sent, index, into>>
      \/ /\ pc' = [pc EXCEPT ![p] = "idle"] /\ sent' = [sent EXCEPT ![p] = sent[p] + 1]
         /\ index' = [index EXCEPT ![p] = 0] /\ into' = [into EXCEPT ![p] = NoBuffer]
  BY DEF Count, Publish, Goto, Return
<1>10. sent[p] + 1 \in 0..Lines
  BY <1>1, Constants DEF TypeOK
<1>11. pc' \in [Producers -> Places]
  BY <1>3 DEF TypeOK, Places
<1>12. sent' \in [Producers -> 0..Lines]
  BY <1>3, <1>10 DEF TypeOK
<1>4. index' \in [Producers -> Nat] /\ into' \in [Producers -> Addresses \cup {NoBuffer}]
  <2>1. index \in [Producers -> Nat] /\ into \in [Producers -> Addresses \cup {NoBuffer}]
    BY DEF TypeOK
  <2> QED
    BY <1>3, <2>1
<1>5. counted' \in [Addresses -> Nat] /\ writeIndex' \in Nat /\ buffers' \in Seq(Addresses)
  <2>1. CASE Count(p)
    BY <1>1, <2>1 DEF Count, TypeOK
  <2>2. CASE Publish(p)
    BY <1>1, <2>2 DEF Publish, TypeOK
  <2> QED
    BY <2>1, <2>2
<1>6. TypeOK'
  BY <1>1, <1>2, <1>4, <1>5, <1>11, <1>12 DEF TypeOK
<1>7. buffers # <<>> => buffers' # <<>> /\ buffers'[1] = buffers[1]
  <2>1. CASE Count(p)
    BY <2>1 DEF Count
  <2>2. CASE Publish(p)
    <3>1. buffers' = Append(buffers, into[p]) /\ buffers \in Seq(Addresses)
      BY <2>2 DEF Publish, TypeOK
    <3>2. buffers # <<>> => Len(buffers) >= 1
      BY <3>1
    <3> QED
      BY <1>1, <3>1, <3>2
  <2> QED
    BY <2>1, <2>2
<1>8. /\ \A q \in Producers \ {p} :
           pc'[q] = pc[q] /\ sent'[q] = sent[q] /\ index'[q] = index[q] /\ into'[q] = into[q]
      /\ pc'[p] = "idle" \/ (pc'[p] = "make" /\ into'[p] = into[p] /\ sent'[p] = sent[p])
  BY <1>3 DEF TypeOK
<1>9. Control'
  BY <1>1, <1>7, <1>8 DEF Control
<1> QED
  BY <1>6, <1>9

(* A step of the consumer, the start and the shutdown preserve the types. *)
LEMMA PopTyped ==
  ASSUME TypeOK, Control, PopQueue \/ PopRing
  PROVE  TypeOK' /\ Control'
<1>1. /\ UNCHANGED <<kind, state, pc, sent, index, into, writeIndex, writeBuffer, stray, overrun>>
      /\ popper \in {"reading", "draining"}
      /\ popper' = IF popper = "reading" THEN "testing" ELSE popper
  BY DEF PopQueue, PopRing, Popping, producers, queueVars, history
<1>2. CASE PopQueue
  <2>1. kind = "queue" /\ Marked /\ ring' = ring
    BY <1>2 DEF PopQueue
  <2>2. PICK f \in Addresses : f = First
    BY <2>1, MarkedTyped
  <2>3. /\ log' = Append(log, slot[f][readIndex]) /\ slot[f][readIndex] \in LogLines
        /\ buffers # <<>> /\ f = buffers[1] /\ readIndex \in Slots
    BY <1>2, <2>1, <2>2, MarkedTyped DEF PopQueue
  <2>4. \/ /\ readIndex + 1 = Size /\ readIndex' = 0 /\ readBuffer' = NoBuffer
           /\ buffers' = Tail(buffers) /\ alive' = alive \ {f}
           /\ slot' = [slot EXCEPT ![f] = Blank] /\ counted' = [counted EXCEPT ![f] = 0]
        \/ /\ readIndex + 1 # Size /\ readIndex' = readIndex + 1 /\ readBuffer' = f
           /\ UNCHANGED <<buffers, alive, slot, counted>>
    BY <1>2, <2>2 DEF PopQueue
  <2>5. readIndex' \in Slots /\ readBuffer' \in Addresses \cup {NoBuffer}
    BY <2>2, <2>3, <2>4, Constants
  <2>6. buffers' \in Seq(Addresses)
    <3>1. buffers \in Seq(Addresses) /\ buffers # <<>>
      BY <2>3 DEF TypeOK
    <3> QED
      BY <2>4, <3>1
  <2>11. alive' \in SUBSET Addresses
    BY <2>4 DEF TypeOK
  <2>7. slot' \in [Addresses -> [Slots -> LogLines \cup {NoLine}]] /\ counted' \in [Addresses -> Nat]
    <3>1. /\ slot \in [Addresses -> [Slots -> LogLines \cup {NoLine}]]
          /\ counted \in [Addresses -> Nat]
          /\ Blank \in [Slots -> LogLines \cup {NoLine}]
      BY Constants DEF TypeOK
    <3> QED
      BY <2>4, <3>1
  <2>8. log' \in Seq(LogLines)
    BY <2>3 DEF TypeOK
  <2>9. TypeOK'
    BY <1>1, <2>1, <2>5, <2>6, <2>7, <2>8, <2>11, Constants DEF TypeOK
  <2>10. Control'
    BY <1>1, <2>1, <2>3, <2>4, <2>5, Constants DEF Control
  <2> QED
    BY <2>9, <2>10
<1>3. CASE PopRing
  <2>1. PICK i \in 0..(RingSize - 1) : i = readIndex % RingSize
    BY Constants DEF TypeOK
  <2>2. /\ kind = "ring" /\ ring[i] # NoLine /\ log' = Append(log, ring[i])
        /\ ring' = [ring EXCEPT ![i] = NoLine] /\ readIndex' = readIndex + 1
        /\ UNCHANGED <<readBuffer, buffers, alive, slot, counted>>
    BY <1>3, <2>1 DEF PopRing, Ready, queueVars
  <2>3. log' \in Seq(LogLines) /\ ring' \in [0..(RingSize - 1) -> LogLines \cup {NoLine}]
    BY <2>1, <2>2 DEF TypeOK
  <2> QED
    BY <1>1, <2>2, <2>3 DEF TypeOK, Control
<1> QED
  BY <1>2, <1>3

(* After the steps of the logger that move no line. *)
LEMMA TurnTyped ==
  ASSUME TypeOK, Control, Test \/ PopNothing \/ Start \/ Shutdown
  PROVE  TypeOK' /\ Control'
<1>1. UNCHANGED <<kind, pc, sent, index, into, writeIndex, readIndex, readBuffer, writeBuffer,
                  buffers, alive, slot, counted, ring, log, stray, overrun>>
  BY DEF Test, PopNothing, Start, Shutdown, producers, reading, queueVars, history
<1>2. /\ state' \in {"INIT", "READY", "SHUTDOWN"}
      /\ popper' \in {"waiting", "testing", "reading", "draining", "ended"}
  BY DEF Test, PopNothing, Start, Shutdown, TypeOK
<1>3. TypeOK'
  BY <1>1, <1>2 DEF TypeOK
<1>4. /\ state' # "INIT" \/ state' = state
      /\ state' = "SHUTDOWN" => state = "SHUTDOWN" \/ \A p \in Producers : pc[p] = "idle"
      /\ popper' # "waiting" => state' # "INIT"
      /\ popper' \in {"draining", "ended"} => state' = "SHUTDOWN"
  BY DEF Test, PopNothing, Start, Shutdown, Popping, TypeOK, Control
<1>5. Control'
  BY <1>1, <1>4 DEF Control
<1> QED
  BY <1>3, <1>5

(* Every step preserves the types. *)
LEMMA NextTyped == TypeOK /\ Control /\ [Next]_vars => TypeOK' /\ Control'
<1> SUFFICES ASSUME TypeOK, Control, [Next]_vars PROVE TypeOK' /\ Control'
  OBVIOUS
<1>1. CASE UNCHANGED vars
  BY <1>1 DEF vars, control, producers, reading, queueVars, history, TypeOK, Control, InLog
<1>2. ASSUME NEW p \in Producers, Log(p) \/ Pushing(p)
      PROVE  TypeOK' /\ Control'
  BY <1>2, ClaimTyped, PushTyped, CountTyped DEF Log, Pushing
<1>3. CASE Pop \/ Start \/ Shutdown
  BY <1>3, PopTyped, TurnTyped DEF Pop
<1> QED
  BY <1>1, <1>2, <1>3 DEF Next

-----------------------------------------------------------------------------
(* What a line is. *)
LEMMA LineParts ==
  /\ \A l \in LogLines : l.by \in Producers /\ l.nr \in Nat /\ l.nr >= 1 /\ l.nr <= Lines
  /\ \A l \in LogLines : l = [by |-> l.by, nr |-> l.nr]
BY Constants DEF LogLines

(* The lines that a thread has pushed are lines. *)
LEMMA LatestLines ==
  ASSUME TypeOK, Control, NEW q \in Producers
  PROVE  /\ latest[q] \in Nat /\ latest[q] <= Lines
         /\ \A n \in 1..latest[q] :
              [by |-> q, nr |-> n] \in LogLines /\ [by |-> q, nr |-> n] # NoLine
<1>1. sent[q] \in Nat /\ sent[q] <= Lines /\ (pc[q] # "idle" => sent[q] < Lines)
  BY Constants DEF TypeOK, Control
<1>2. latest[q] \in Nat /\ latest[q] <= Lines
  BY <1>1, LinesAssumption DEF latest
<1>3. \A n \in 1..latest[q] : n \in 1..Lines
  BY <1>2, LinesAssumption
<1> QED
  BY <1>2, <1>3, NoLineAssumption DEF LogLines

(* Lines that nobody moves, of threads that have pushed as many, stay in order. *)
LEMMA OrderUntouched ==
  ASSUME UNCHANGED <<buffers, slot, log, readIndex, latest>>,
         QueueOrder, QueueKept, LogInOrder
  PROVE  QueueOrder' /\ QueueKept' /\ LogInOrder'
BY DEF QueueOrder, QueueKept, LogInOrder, Waiting, Before, InLog

(* A producer that waits for a buffer tries again. *)
LEMMA SpinQueue ==
  ASSUME TypeOK, QueueInv, LogInOrder, NEW p \in Producers, Spin(p)
  PROVE  QueueInv' /\ LogInOrder'
<1>1. /\ pc[p] = "spin" /\ pc' = [pc EXCEPT ![p] = "again"]
      /\ UNCHANGED <<sent, index, into, writeIndex, readIndex, writeBuffer, buffers, alive, slot,
                     counted, log>>
  BY DEF Spin, Goto, reading, queueVars
<1>2. pc'[p] = "again" /\ \A q \in Producers \ {p} : pc'[q] = pc[q]
  BY <1>1 DEF TypeOK
<1>3. Replacing' = Replacing /\ Publishing' = Publishing
  BY <1>1, <1>2 DEF Replacing, Publishing
<1>4. UNCHANGED latest
  BY <1>1, <1>2 DEF latest
<1>5. QueueOrder' /\ QueueKept' /\ LogInOrder'
  BY <1>1, <1>4, OrderUntouched DEF QueueInv
<1>6. QueueBuffers'
  BY <1>1, <1>2, <1>3 DEF QueueInv, QueueBuffers
<1>7. QueueReplace'
  BY <1>1, <1>2 DEF QueueInv, QueueReplace
<1>8. QueueClaims'
  BY <1>1, <1>2, <1>3 DEF QueueInv, QueueClaims, Line
<1>9. QueueSlots'
  BY <1>1, <1>2, <1>3 DEF QueueInv, QueueSlots
<1>10. Settled' = Settled
  BY <1>1, <1>2 DEF Settled
<1>11. QueueCounted'
  BY <1>1, <1>3, <1>10 DEF QueueInv, QueueCounted
<1> QED
  BY <1>5, <1>6, <1>7, <1>8, <1>9, <1>11 DEF QueueInv

(* A producer loads the buffer that its slot is of. *)
LEMMA LoadQueue ==
  ASSUME TypeOK, QueueInv, LogInOrder, NEW p \in Producers, Load(p)
  PROVE  QueueInv' /\ LogInOrder'
<1>1. /\ pc[p] = "load" /\ pc' = [pc EXCEPT ![p] = "mark"] /\ into' = [into EXCEPT ![p] = writeBuffer]
      /\ UNCHANGED <<sent, index, writeIndex, readIndex, writeBuffer, buffers, alive, slot,
                     counted, log>>
  BY DEF Load, Goto, reading, queueVars
<1>2. /\ pc'[p] = "mark" /\ \A q \in Producers \ {p} : pc'[q] = pc[q]
      /\ into'[p] = writeBuffer /\ \A q \in Producers \ {p} : into'[q] = into[q]
  BY <1>1 DEF TypeOK
<1>3. Replacing' = Replacing /\ Publishing' = Publishing
  BY <1>1, <1>2 DEF Replacing, Publishing
<1>4. UNCHANGED latest
  BY <1>1, <1>2 DEF latest
<1>5. QueueOrder' /\ QueueKept' /\ LogInOrder'
  BY <1>1, <1>4, OrderUntouched DEF QueueInv
<1>6. QueueBuffers'
  BY <1>1, <1>2, <1>3 DEF QueueInv, QueueBuffers
<1>7. QueueReplace'
  BY <1>1, <1>2 DEF QueueInv, QueueReplace
<1>8. QueueClaims'
  BY <1>1, <1>2, <1>3 DEF QueueInv, QueueClaims, Line
<1>9. QueueSlots'
  BY <1>1, <1>2, <1>3 DEF QueueInv, QueueSlots
<1>10. Settled' = Settled
  BY <1>1, <1>2 DEF Settled
<1>11. QueueCounted'
  BY <1>1, <1>3, <1>10 DEF QueueInv, QueueCounted
<1> QED
  BY <1>5, <1>6, <1>7, <1>8, <1>9, <1>11 DEF QueueInv

(* A producer claims the next slot, or finds that there is none left. *)
LEMMA ClaimQueue ==
  ASSUME TypeOK, QueueInv, LogInOrder, NEW p \in Producers, Claim(p)
  PROVE  QueueInv' /\ LogInOrder'
<1>1. /\ pc[p] \in {"idle", "again"} /\ writeIndex' = writeIndex + 1 /\ writeIndex \in Nat
      /\ \/ /\ writeIndex < Size /\ pc' = [pc EXCEPT ![p] = "load"]
            /\ index' = [index EXCEPT ![p] = writeIndex]
         \/ writeIndex >= Size /\ pc' = [pc EXCEPT ![p] = "spin"] /\ index' = index
      /\ UNCHANGED <<sent, into, readIndex, writeBuffer, buffers, alive, slot, counted, log>>
  BY SlotNumbers DEF Claim, Goto, reading, queueVars, TypeOK
<1>2. /\ \/ pc'[p] = "load" /\ index'[p] = writeIndex /\ writeIndex < Size
         \/ pc'[p] = "spin" /\ writeIndex >= Size
      /\ \A q \in Producers \ {p} : pc'[q] = pc[q] /\ index'[q] = index[q]
  BY <1>1 DEF TypeOK
<1>3. Replacing' = Replacing /\ Publishing' = Publishing
  BY <1>1, <1>2 DEF Replacing, Publishing
<1>4. UNCHANGED latest
  BY <1>1, <1>2 DEF latest
<1>5. QueueOrder' /\ QueueKept' /\ LogInOrder'
  BY <1>1, <1>4, OrderUntouched DEF QueueInv
<1>6. QueueBuffers'
  BY <1>1, <1>2, <1>3 DEF QueueInv, QueueBuffers
<1>12. pc'[p] = "load" => ~Replacing /\ writeIndex \in Slots
  BY <1>1, <1>2, SlotNumbers DEF QueueInv, QueueReplace, Replacing
<1>7. QueueReplace'
  BY <1>1, <1>2, <1>12, SlotNumbers DEF QueueInv, QueueReplace, Replacing
<1>8. QueueClaims'
  <2>1. \A q \in Producers : pc'[q] \in {"load", "mark", "count"} =>
          /\ index'[q] < writeIndex'
          /\ \A r \in Producers \ {q} :
               pc'[r] \in {"load", "mark", "count"} => index'[q] # index'[r]
    <3>1. \A q \in Producers : index[q] \in Nat
      BY DEF TypeOK
    <3>2. \A q \in Producers : pc[q] \in {"load", "mark", "count"} =>
            /\ index[q] < writeIndex
            /\ \A r \in Producers \ {q} :
                 pc[r] \in {"load", "mark", "count"} => index[q] # index[r]
      BY DEF QueueInv, QueueClaims
    <3> QED
      BY <1>1, <1>2, <3>1, <3>2
  <2>2. pc'[p] = "load" => /\ buffers # <<>> /\ slot[writeBuffer][index'[p]] = NoLine
                           /\ \A i \in Slots : slot[writeBuffer][i] # NoLine => i < index'[p]
    <3>1. ~Replacing => /\ \A i \in Slots : i >= writeIndex => slot[writeBuffer][i] = NoLine
                        /\ buffers = <<>> => writeIndex >= Size
      BY DEF QueueInv, QueueClaims, QueueSlots
    <3> QED
      BY <1>1, <1>2, <1>12, <3>1, SlotNumbers
  <2>3. \A q \in Producers : pc'[q] \in {"load", "mark"} =>
          /\ buffers # <<>> /\ slot[writeBuffer][index'[q]] = NoLine
          /\ \A i \in Slots : slot[writeBuffer][i] # NoLine
                              /\ slot[writeBuffer][i].by = q => i < index'[q]
    BY <1>1, <1>2, <2>2 DEF QueueInv, QueueClaims
  <2> QED
    <3>1. /\ \A q \in Producers : pc[q] \in {"mark", "count"} => into[q] = writeBuffer
          /\ \A q \in Producers : pc[q] = "count" /\ buffers # <<>> =>
               slot[writeBuffer][index[q]] = Line(q)
          /\ ~Replacing /\ buffers = <<>> => writeIndex >= Size
      BY DEF QueueInv, QueueClaims
    <3>2. /\ \A q \in Producers : pc'[q] \in {"mark", "count"} => into'[q] = writeBuffer'
          /\ ~Replacing' /\ buffers' = <<>> => writeIndex' >= Size
      BY <1>1, <1>2, <1>3, <3>1, SlotNumbers
    <3>3. \A q \in Producers : pc'[q] = "count" /\ buffers' # <<>> =>
               slot'[writeBuffer'][index'[q]] = Line(q)'
      BY <1>1, <1>2, <3>1 DEF Line
    <3> QED
      BY <1>1, <2>1, <2>3, <3>2, <3>3 DEF QueueClaims
<1>9. QueueSlots'
  <2>1. \A k \in 1..Len(buffers), i \in Slots : slot[buffers[k]][i] = NoLine =>
          /\ k = Len(buffers) /\ ~Replacing
          /\ \/ i >= writeIndex + 1
             \/ \E q \in Producers : pc'[q] \in {"load", "mark"} /\ index'[q] = i
    <3>1. \A k \in 1..Len(buffers), i \in Slots : slot[buffers[k]][i] = NoLine =>
            /\ k = Len(buffers) /\ ~Replacing
            /\ \/ i >= writeIndex
               \/ \E q \in Producers : pc[q] \in {"load", "mark"} /\ index[q] = i
      BY DEF QueueInv, QueueSlots
    <3>2. \A i \in Slots : i >= writeIndex =>
            i >= writeIndex + 1 \/ (pc'[p] = "load" /\ index'[p] = i)
      <4>1. writeIndex \in Nat
        BY <1>1
      <4> QED
        BY <4>1, <1>2, SlotNumbers
    <3> QED
      BY <1>1, <1>2, <3>1, <3>2
  <2>2. ~Replacing => \A i \in Slots : i >= writeIndex + 1 => slot[writeBuffer][i] = NoLine
    BY <1>1, SlotNumbers DEF QueueInv, QueueSlots
  <2>3. buffers # <<>> => \A i \in 0..(readIndex - 1) : slot[buffers[1]][i] # NoLine
    BY DEF QueueInv, QueueSlots
  <2> QED
    BY <1>1, <1>3, <2>1, <2>2, <2>3 DEF QueueSlots
<1>10. Settled' = Settled
  <2>1. \A i \in Slots : i < writeIndex' /\ (pc'[p] = "load" => index'[p] # i) <=> i < writeIndex
    BY <1>1, <1>2, SlotNumbers
  <2>2. pc[p] \notin {"load", "mark", "count"} /\ pc'[p] \notin {"mark", "count"}
    BY <1>1, <1>2
  <2> QED
    BY <1>2, <2>1, <2>2, SlotNumbers DEF Settled
<1>11. QueueCounted'
  BY <1>1, <1>3, <1>10 DEF QueueInv, QueueCounted
<1> QED
  BY <1>5, <1>6, <1>7, <1>8, <1>9, <1>11 DEF QueueInv

(* A producer writes its line into its slot, which comes after all its others. *)
LEMMA MarkQueue ==
  ASSUME TypeOK, Control, QueueInv, LogInOrder, NEW p \in Producers, Mark(p)
  PROVE  QueueInv' /\ LogInOrder'
<1>1. /\ pc[p] = "mark" /\ pc' = [pc EXCEPT ![p] = "count"]
      /\ slot' = [slot EXCEPT ![into[p]][index[p]] = Line(p)]
      /\ UNCHANGED <<sent, index, into, writeIndex, readIndex, writeBuffer, buffers, alive, counted,
                     log>>
  BY DEF Mark, Goto, reading
<1>2. pc'[p] = "count" /\ \A q \in Producers \ {p} : pc'[q] = pc[q]
  BY <1>1 DEF TypeOK
<1>3. ~Replacing /\ ~Publishing /\ ~Replacing' /\ ~Publishing'
  BY <1>1, <1>2 DEF QueueInv, QueueReplace, Replacing, Publishing
<1>4. PICK w \in Addresses, x \in Slots : w = writeBuffer /\ x = index[p]
  BY <1>1 DEF TypeOK, Control
<1>5. /\ into[p] = w /\ buffers # <<>> /\ slot[w][x] = NoLine
      /\ \A i \in Slots : slot[w][i] # NoLine /\ slot[w][i].by = p => i < x
  BY <1>1, <1>4 DEF QueueInv, QueueClaims
<1>6. PICK n \in 1..Len(buffers) : n = Len(buffers) /\ buffers[n] = w
  BY <1>3, <1>4, <1>5 DEF QueueInv, QueueBuffers, TypeOK
<1>7. sent[p] < Lines /\ sent[p] \in Nat
  BY <1>1 DEF Control, TypeOK
<1>8. Line(p) \in LogLines /\ Line(p) # NoLine /\ Line(p).by = p /\ Line(p).nr = sent[p] + 1
  BY <1>7, LineTyped
<1>9. /\ slot'[w][x] = Line(p) /\ \A i \in Slots \ {x} : slot'[w][i] = slot[w][i]
      /\ \A b \in Addresses \ {w} : slot'[b] = slot[b]
  BY <1>1, <1>4, <1>5 DEF TypeOK
<1>10. \A k \in 1..Len(buffers) :
         /\ buffers[k] \in Addresses /\ buffers[k] \in alive
         /\ buffers[k] = w => k = n
  BY <1>6 DEF QueueInv, QueueBuffers, TypeOK
<1>11. \A k \in 1..Len(buffers), i \in Slots :
         slot'[buffers[k]][i] = IF k = n /\ i = x THEN Line(p) ELSE slot[buffers[k]][i]
  BY <1>6, <1>9, <1>10
<1>12. QueueBuffers'
  BY <1>1, <1>2, <1>3, <1>9, <1>10, <1>6 DEF QueueInv, QueueBuffers
<1>13. QueueReplace'
  BY <1>2, <1>3 DEF QueueReplace, Replacing
<1>14. QueueClaims'
  <2>1. /\ \A q \in Producers : pc'[q] \in {"load", "mark", "count"} =>
             /\ index[q] < writeIndex
             /\ \A r \in Producers \ {q} :
                  pc'[r] \in {"load", "mark", "count"} => index[q] # index[r]
        /\ \A q \in Producers : pc'[q] \in {"mark", "count"} => into[q] = writeBuffer
    BY <1>1, <1>2 DEF QueueInv, QueueClaims
  <2>2. ASSUME NEW q \in Producers, pc'[q] \in {"load", "mark"}
        PROVE  /\ slot'[w][index[q]] = NoLine
               /\ \A i \in Slots : slot'[w][i] # NoLine /\ slot'[w][i].by = q => i < index[q]
    <3>1. q # p /\ pc[q] \in {"load", "mark"} /\ index[q] # x /\ index[q] \in Slots
      BY <1>1, <1>2, <1>4, <2>2 DEF QueueInv, QueueClaims, Control
    <3>2. /\ slot[w][index[q]] = NoLine
          /\ \A i \in Slots : slot[w][i] # NoLine /\ slot[w][i].by = q => i < index[q]
      BY <1>4, <3>1 DEF QueueInv, QueueClaims
    <3> QED
      BY <1>8, <1>9, <3>1, <3>2
  <2>3. ASSUME NEW q \in Producers, pc'[q] = "count"
        PROVE  slot'[w][index[q]] = Line(q)'
    <3>1. Line(q)' = Line(q)
      BY <1>1 DEF Line
    <3>2. CASE q = p
      BY <1>4, <1>9, <3>1, <3>2
    <3>3. CASE q # p
      <4>1. pc[q] = "count" /\ index[q] # x /\ index[q] \in Slots
        BY <1>1, <1>2, <1>4, <2>3, <3>3 DEF QueueInv, QueueClaims, Control
      <4>2. slot[w][index[q]] = Line(q)
        BY <1>4, <1>5, <4>1 DEF QueueInv, QueueClaims
      <4> QED
        BY <1>9, <3>1, <4>1, <4>2
    <3> QED
      BY <3>2, <3>3
  <2> QED
    BY <1>1, <1>4, <1>5, <2>1, <2>2, <2>3 DEF QueueClaims
<1>15. QueueSlots'
  <2>1. ASSUME NEW k \in 1..Len(buffers), NEW i \in Slots, slot'[buffers[k]][i] = NoLine
        PROVE  /\ k = Len(buffers)
               /\ \/ i >= writeIndex
                  \/ \E q \in Producers : pc'[q] \in {"load", "mark"} /\ index[q] = i
    <3>1. slot[buffers[k]][i] = NoLine /\ ~(k = n /\ i = x)
      BY <1>8, <1>11, <2>1
    <3>2. /\ k = Len(buffers)
          /\ \/ i >= writeIndex
             \/ \E q \in Producers : pc[q] \in {"load", "mark"} /\ index[q] = i
      BY <3>1 DEF QueueInv, QueueSlots
    <3> QED
      BY <1>2, <1>4, <1>6, <3>1, <3>2
  <2>2. \A i \in Slots : i >= writeIndex => slot'[w][i] = NoLine
    <3>1. x < writeIndex /\ writeIndex \in Nat
      BY <1>1, <1>4 DEF QueueInv, QueueClaims, TypeOK
    <3>2. \A i \in Slots : i >= writeIndex => slot[w][i] = NoLine
      BY <1>3, <1>4 DEF QueueInv, QueueSlots
    <3> QED
      BY <1>9, <3>1, <3>2, SlotNumbers
  <2>3. \A i \in 0..(readIndex - 1) : slot'[buffers[1]][i] # NoLine
    <3>1. \A i \in 0..(readIndex - 1) : slot[buffers[1]][i] # NoLine /\ i \in Slots
      <4>1. readIndex \in Slots /\ \A i \in 0..(readIndex - 1) : slot[buffers[1]][i] # NoLine
        BY <1>1, <1>5 DEF QueueInv, QueueSlots, Control
      <4> QED
        BY <4>1, SlotNumbers
    <3>2. 1 \in 1..Len(buffers)
      BY <1>6
    <3> QED
      BY <1>8, <1>11, <3>1, <3>2
  <2> QED
    BY <1>1, <1>3, <1>4, <2>1, <2>2, <2>3 DEF QueueSlots
<1>16. Settled' = Settled
  BY <1>1, <1>2 DEF Settled
<1>17. QueueCounted'
  BY <1>1, <1>3, <1>16 DEF QueueInv, QueueCounted
<1>18. /\ latest[p] = sent[p] /\ latest'[p] = sent[p] + 1
       /\ \A q \in Producers \ {p} : latest'[q] = latest[q]
       /\ \A q \in Producers : latest[q] \in Nat
  BY <1>1, <1>2, <1>7 DEF latest, TypeOK
<1>19. LogInOrder'
  <2>1. \A i \in 1..Len(log) : log[i] \in LogLines
    BY DEF TypeOK
  <2>2. \A i \in 1..Len(log) : log[i].nr <= latest[log[i].by]
    BY DEF LogInOrder
  <2>3. \A i \in 1..Len(log) : log[i].nr <= latest'[log[i].by]
    <3>1. \A q \in Producers : latest[q] <= latest'[q] /\ latest'[q] \in Nat
      BY <1>7, <1>18
    <3> QED
      BY <1>18, <2>1, <2>2, <3>1, LineParts
  <2> QED
    BY <1>1, <2>3 DEF LogInOrder
<1>20. QueueOrder'
  <2>1. \A k \in 1..Len(buffers), i \in Slots :
          slot[buffers[k]][i] # NoLine => slot[buffers[k]][i] \in LogLines
    BY <1>10 DEF TypeOK
  <2>2. \A k \in 1..Len(buffers), i \in Slots :
          slot[buffers[k]][i] # NoLine =>
            slot[buffers[k]][i].nr <= latest[slot[buffers[k]][i].by]
    BY DEF QueueInv, QueueOrder
  <2>3. ASSUME NEW k \in 1..Len(buffers), NEW i \in Slots, slot'[buffers[k]][i] # NoLine
        PROVE  slot'[buffers[k]][i].nr <= latest'[slot'[buffers[k]][i].by]
    <3>1. CASE k = n /\ i = x
      BY <1>7, <1>8, <1>11, <1>18, <3>1
    <3>2. CASE ~(k = n /\ i = x)
      <4>1. slot'[buffers[k]][i] = slot[buffers[k]][i]
        BY <1>11, <3>2
      <4> QED
        BY <1>7, <1>18, <2>1, <2>2, <2>3, <4>1, LineParts
    <3> QED
      BY <3>1, <3>2
  <2>4. ASSUME NEW k \in 1..Len(buffers), NEW i \in Slots, NEW m \in 1..Len(log),
               Waiting(k, i), slot'[buffers[k]][i] # NoLine,
               slot'[buffers[k]][i].by = log[m].by
        PROVE  log[m].nr < slot'[buffers[k]][i].nr
    <3>1. log[m] \in LogLines /\ log[m].nr <= latest[log[m].by]
      BY DEF TypeOK, LogInOrder
    <3>2. CASE k = n /\ i = x
      BY <1>7, <1>8, <1>11, <1>18, <2>4, <3>1, <3>2, LineParts
    <3>3. CASE ~(k = n /\ i = x)
      <4>1. slot'[buffers[k]][i] = slot[buffers[k]][i]
        BY <1>11, <3>3
      <4> QED
        BY <2>4, <4>1 DEF QueueInv, QueueOrder
    <3> QED
      BY <3>2, <3>3
  <2>5. ASSUME NEW j \in 1..Len(buffers), NEW k \in 1..Len(buffers),
               NEW h \in Slots, NEW i \in Slots,
               Waiting(j, h), Waiting(k, i), Before(j, h, k, i),
               slot'[buffers[j]][h] # NoLine, slot'[buffers[k]][i] # NoLine,
               slot'[buffers[j]][h].by = slot'[buffers[k]][i].by
        PROVE  slot'[buffers[j]][h].nr < slot'[buffers[k]][i].nr
    <3>1. CASE k = n /\ i = x
      <4>1. slot'[buffers[k]][i] = Line(p)
        BY <1>11, <3>1
      <4>2. ~(j = n /\ h = x)
        BY <2>5, <3>1, SlotNumbers DEF Before
      <4>3. slot'[buffers[j]][h] = slot[buffers[j]][h]
        BY <1>11, <4>2
      <4> QED
        BY <1>7, <1>8, <1>18, <2>1, <2>2, <2>5, <4>1, <4>3, LineParts
    <3>2. CASE ~(k = n /\ i = x) /\ j = n /\ h = x
      <4>1. slot'[buffers[j]][h] = Line(p) /\ slot'[buffers[k]][i] = slot[buffers[k]][i]
        BY <1>11, <3>2
      <4>2. k = n /\ x < i
        BY <1>6, <2>5, <3>2 DEF Before
      <4>3. i < x
        BY <1>5, <1>6, <1>8, <2>5, <4>1, <4>2
      <4> QED
        BY <4>2, <4>3, SlotNumbers
    <3>3. CASE ~(k = n /\ i = x) /\ ~(j = n /\ h = x)
      <4>1. slot'[buffers[j]][h] = slot[buffers[j]][h] /\ slot'[buffers[k]][i] = slot[buffers[k]][i]
        BY <1>11, <3>3
      <4> QED
        BY <2>5, <4>1 DEF QueueInv, QueueOrder
    <3> QED
      BY <3>1, <3>2, <3>3
  <2> QED
    BY <1>1, <2>3, <2>4, <2>5 DEF QueueOrder, Waiting, Before
<1>21. QueueKept'
  <2> SUFFICES ASSUME NEW q \in Producers, NEW m \in 1..latest'[q]
               PROVE  \/ InLog([by |-> q, nr |-> m])
                      \/ \E k \in 1..Len(buffers), i \in Slots :
                           Waiting(k, i) /\ slot'[buffers[k]][i] = [by |-> q, nr |-> m]
    BY <1>1 DEF QueueKept, InLog, Waiting
  <2>1. CASE q = p /\ m = sent[p] + 1
    <3>1. Waiting(n, x)
      <4>1. \A i \in 0..(readIndex - 1) : slot[buffers[1]][i] # NoLine
        BY <1>5 DEF QueueInv, QueueSlots
      <4>2. n = 1 => x \notin 0..(readIndex - 1)
        BY <1>5, <1>6, <4>1
      <4>3. readIndex \in Nat /\ x \in Nat
        BY SlotNumbers DEF TypeOK
      <4> QED
        BY <4>2, <4>3 DEF Waiting
    <3>2. slot'[buffers[n]][x] = [by |-> q, nr |-> m]
      BY <1>11, <2>1 DEF Line
    <3> QED
      BY <3>1, <3>2
  <2>2. CASE ~(q = p /\ m = sent[p] + 1)
    <3>1. m \in 1..latest[q]
      BY <1>7, <1>18, <2>2
    <3>2. CASE InLog([by |-> q, nr |-> m])
      BY <3>2
    <3>3. CASE ~InLog([by |-> q, nr |-> m])
      <4>1. PICK k \in 1..Len(buffers), i \in Slots :
              Waiting(k, i) /\ slot[buffers[k]][i] = [by |-> q, nr |-> m]
        BY <3>1, <3>3 DEF QueueInv, QueueKept
      <4>2. [by |-> q, nr |-> m] # NoLine
        BY <3>1, LatestLines
      <4>3. slot'[buffers[k]][i] = slot[buffers[k]][i]
        BY <1>5, <1>6, <1>11, <4>1, <4>2
      <4> QED
        BY <4>1, <4>3
    <3> QED
      BY <3>2, <3>3
  <2> QED
    BY <2>1, <2>2
<1> QED
  BY <1>12, <1>13, <1>14, <1>15, <1>17, <1>19, <1>20, <1>21 DEF QueueInv

(* The slots of a buffer are all settled when there are as many as slots. *)
LEMMA AllSettled ==
  /\ IsFiniteSet(Slots) /\ Cardinality(Slots) = Size
  /\ IsFiniteSet(Settled) /\ Cardinality(Settled) \in Nat
  /\ Cardinality(Settled) = Size => Settled = Slots
<1>1. IsFiniteSet(Slots) /\ Cardinality(Slots) = Size
  <2>1. Size - 1 \in Int /\ 0 \in Int /\ ~(0 > Size - 1) /\ (Size - 1) - 0 + 1 = Size
    BY SlotNumbers
  <2> QED
    BY <2>1, FS_Interval DEF Slots
<1>2. Settled \in SUBSET Slots
  BY DEF Settled
<1> QED
  BY <1>1, <1>2, FS_Subset, FS_CardinalityType

(* The line of a producer that counts is where its buffer is alive, in its slot.
   The last to count finds nobody else at work in the buffer.                  *)
LEMMA CountQueue ==
  ASSUME TypeOK, Control, QueueInv, LogInOrder, NEW p \in Producers, Count(p), ~stray'
  PROVE  QueueInv' /\ LogInOrder'
<1>1. /\ pc[p] = "count" /\ slot[into[p]][index[p]] = Line(p)
      /\ counted' = [counted EXCEPT ![into[p]] = counted[into[p]] + 1]
      /\ UNCHANGED <<writeIndex, readIndex, writeBuffer, buffers, alive, slot, log>>
  BY DEF Count, reading
<1>2. PICK w \in Addresses, x \in Slots : w = writeBuffer /\ x = index[p] /\ w = into[p]
  BY <1>1 DEF TypeOK, Control, QueueInv, QueueClaims
<1>3. sent[p] < Lines /\ sent[p] \in Nat
  BY <1>1 DEF Control, TypeOK
<1>4. Line(p) # NoLine
  BY <1>3, LineTyped
<1>5. ~Replacing /\ ~Publishing
  BY <1>1 DEF QueueInv, QueueReplace, Replacing, Publishing
<1>6. w \in alive /\ buffers # <<>>
  <2>1. slot[w] # Blank
    BY <1>1, <1>2, <1>4, Constants
  <2>2. w \in alive
    BY <1>2, <2>1 DEF QueueInv, QueueBuffers
  <2>3. \E k \in 1..Len(buffers) : buffers[k] = w
    BY <1>5, <2>2 DEF QueueInv, QueueBuffers
  <2> QED
    BY <2>2, <2>3
<1>7. counted[w] = Cardinality(Settled) /\ counted'[w] = counted[w] + 1
  BY <1>1, <1>2, <1>5, <1>6 DEF QueueInv, QueueCounted, TypeOK
<1>8. \/ /\ counted'[w] = Size /\ pc' = [pc EXCEPT ![p] = "make"]
         /\ UNCHANGED <<sent, index, into>>
      \/ /\ counted'[w] # Size /\ pc' = [pc EXCEPT ![p] = "idle"]
         /\ sent' = [sent EXCEPT ![p] = sent[p] + 1]
         /\ index' = [index EXCEPT ![p] = 0] /\ into' = [into EXCEPT ![p] = NoBuffer]
  BY <1>2, <1>6 DEF Count, Goto, Return
<1>9. /\ \/ pc'[p] = "make" /\ counted'[w] = Size /\ sent'[p] = sent[p]
         \/ pc'[p] = "idle" /\ counted'[w] # Size /\ sent'[p] = sent[p] + 1
      /\ \A q \in Producers \ {p} :
           pc'[q] = pc[q] /\ sent'[q] = sent[q] /\ index'[q] = index[q] /\ into'[q] = into[q]
  BY <1>8 DEF TypeOK
<1>10. UNCHANGED latest
  BY <1>1, <1>9 DEF latest
<1>11. QueueOrder' /\ QueueKept' /\ LogInOrder'
  BY <1>1, <1>10, OrderUntouched DEF QueueInv
<1>12. x \notin Settled /\ Settled' = Settled \cup {x}
  <2>1. x < writeIndex /\ \A q \in Producers \ {p} :
          pc[q] \in {"load", "mark", "count"} => index[q] # x
    BY <1>1, <1>2 DEF QueueInv, QueueClaims
  <2> QED
    BY <1>1, <1>2, <1>9, <2>1 DEF Settled
<1>13. counted'[w] = Cardinality(Settled')
  <2>1. Cardinality(Settled \cup {x}) = Cardinality(Settled) + 1
    BY <1>12, AllSettled, FS_AddElement
  <2> QED
    BY <1>7, <1>12, <2>1
<1>14. counted'[w] = Size =>
         /\ writeIndex >= Size
         /\ \A q \in Producers \ {p} : pc[q] \notin {"load", "mark", "count"}
  <2> SUFFICES ASSUME counted'[w] = Size
               PROVE  /\ writeIndex >= Size
                      /\ \A q \in Producers \ {p} : pc[q] \notin {"load", "mark", "count"}
    OBVIOUS
  <2>1. Settled \cup {x} = Slots
    <3>1. Settled \cup {x} \in SUBSET Slots
      BY DEF Settled
    <3> QED
      BY <1>12, <1>13, <3>1, AllSettled, FS_Subset
  <2>2. x < writeIndex /\ \A q \in Producers \ {p} :
          pc[q] \in {"load", "mark", "count"} => index[q] # x /\ index[q] \in Slots
    BY <1>1, <1>2 DEF QueueInv, QueueClaims, Control
  <2>3. \A i \in Slots : i < writeIndex
    BY <2>1, <2>2 DEF Settled
  <2>4. writeIndex >= Size
    BY <2>3, SlotNumbers DEF TypeOK
  <2> QED
    BY <2>1, <2>2, <2>4 DEF Settled
<1>15. ~Publishing'
  BY <1>5, <1>9 DEF Publishing
<1>16. Replacing' <=> pc'[p] = "make"
  BY <1>5, <1>9 DEF Replacing
<1>17. QueueBuffers'
  BY <1>1, <1>5, <1>15 DEF QueueInv, QueueBuffers, Publishing
<1>18. QueueReplace'
  <2>1. \A q \in Producers \ {p} : pc'[q] \notin {"make", "publish"}
    BY <1>5, <1>9 DEF Replacing
  <2> QED
    BY <1>1, <1>9, <1>14, <2>1 DEF QueueReplace
<1>19. QueueClaims'
  <2>1. \A q \in Producers : pc'[q] \in {"load", "mark", "count"} =>
          q # p /\ pc[q] = pc'[q] /\ sent'[q] = sent[q] /\ index'[q] = index[q] /\ into'[q] = into[q]
    BY <1>9
  <2>2. \A q \in Producers : pc'[q] \in {"load", "mark", "count"} =>
          /\ index'[q] < writeIndex'
          /\ \A r \in Producers \ {q} :
               pc'[r] \in {"load", "mark", "count"} => index'[q] # index'[r]
    BY <1>1, <2>1 DEF QueueInv, QueueClaims
  <2>3. /\ \A q \in Producers : pc'[q] \in {"mark", "count"} => into'[q] = writeBuffer'
        /\ \A q \in Producers : pc'[q] \in {"load", "mark"} =>
             /\ buffers' # <<>>
             /\ slot'[writeBuffer'][index'[q]] = NoLine
             /\ \A i \in Slots : slot'[writeBuffer'][i] # NoLine
                                 /\ slot'[writeBuffer'][i].by = q => i < index'[q]
    BY <1>1, <2>1 DEF QueueInv, QueueClaims
  <2>4. \A q \in Producers : pc'[q] = "count" /\ buffers' # <<>> =>
          slot'[writeBuffer'][index'[q]] = Line(q)'
    BY <1>1, <2>1 DEF QueueInv, QueueClaims, Line
  <2> QED
    BY <1>1, <1>6, <2>2, <2>3, <2>4 DEF QueueClaims
<1>20. QueueSlots'
  <2>1. CASE counted'[w] = Size
    <3>1. \A i \in Slots : ~(i >= writeIndex)
      BY <1>14, <2>1, SlotNumbers DEF TypeOK
    <3>2. \A q \in Producers : pc[q] \notin {"load", "mark"}
      BY <1>1, <1>14, <2>1
    <3>3. \A k \in 1..Len(buffers), i \in Slots : slot[buffers[k]][i] # NoLine
      BY <3>1, <3>2 DEF QueueInv, QueueSlots
    <3> QED
      BY <1>1, <1>9, <1>16, <2>1, <3>3 DEF QueueInv, QueueSlots
  <2>2. CASE counted'[w] # Size
    <3>1. ~Replacing'
      BY <1>9, <1>16, <2>2
    <3>2. \A q \in Producers : pc[q] \in {"load", "mark"} => pc'[q] = pc[q] /\ index'[q] = index[q]
      BY <1>1, <1>9
    <3> QED
      BY <1>1, <1>5, <3>1, <3>2 DEF QueueInv, QueueSlots
  <2> QED
    BY <2>1, <2>2
<1>21. QueueCounted'
  BY <1>1, <1>2, <1>13 DEF QueueCounted
<1> QED
  BY <1>11, <1>17, <1>18, <1>19, <1>20, <1>21 DEF QueueInv

(* The next buffer is blank, and none of those that are alive. *)
LEMMA MakeQueue ==
  ASSUME TypeOK, QueueInv, LogInOrder, NEW p \in Producers, Make(p)
  PROVE  QueueInv' /\ LogInOrder'
<1>1. PICK b \in Addresses \ alive :
        /\ writeBuffer' = b /\ alive' = alive \cup {b} /\ slot' = [slot EXCEPT ![b] = Blank]
        /\ counted' = [counted EXCEPT ![b] = 0] /\ into' = [into EXCEPT ![p] = b]
  BY DEF Make
<1>2. /\ pc[p] = "make" /\ pc' = [pc EXCEPT ![p] = "publish"]
      /\ UNCHANGED <<sent, index, writeIndex, readIndex, buffers, log>>
  BY DEF Make, Goto, reading
<1>3. /\ pc'[p] = "publish" /\ into'[p] = b
      /\ \A q \in Producers \ {p} : pc'[q] = pc[q] /\ into'[q] = into[q]
  BY <1>1, <1>2 DEF TypeOK
<1>4. /\ slot[b] = Blank /\ slot' = slot
      /\ \A k \in 1..Len(buffers) : buffers[k] # b
  <2>1. slot[b] = Blank /\ \A k \in 1..Len(buffers) : buffers[k] # b
    BY <1>1 DEF QueueInv, QueueBuffers
  <2> QED
    BY <1>1, <2>1 DEF TypeOK
<1>5. Replacing /\ ~Publishing /\ Replacing' /\ Publishing'
  BY <1>2, <1>3 DEF QueueInv, QueueReplace, Replacing, Publishing
<1>6. UNCHANGED latest
  BY <1>2, <1>3 DEF latest
<1>7. QueueOrder' /\ QueueKept' /\ LogInOrder'
  BY <1>2, <1>4, <1>6, OrderUntouched DEF QueueInv
<1>8. writeIndex >= Size /\ \A q \in Producers \ {p} :
        pc[q] \notin {"load", "mark", "count", "make", "publish"}
  BY <1>2 DEF QueueInv, QueueReplace
<1>9. QueueBuffers'
  <2>1. counted'[b] = 0
    BY <1>1 DEF TypeOK
  <2>2. /\ \A j, k \in 1..Len(buffers) : buffers[j] = buffers[k] => j = k
        /\ \A k \in 1..Len(buffers) : buffers[k] \in alive
        /\ \A a \in alive : \E k \in 1..Len(buffers) : buffers[k] = a
        /\ \A a \in Addresses \ alive : slot[a] = Blank
    BY <1>5 DEF QueueInv, QueueBuffers
  <2> QED
    BY <1>1, <1>2, <1>3, <1>4, <1>5, <1>8, <2>1, <2>2 DEF QueueBuffers
<1>10. QueueReplace' /\ QueueClaims'
  BY <1>2, <1>3, <1>5, <1>8 DEF QueueReplace, QueueClaims
<1>11. QueueSlots'
  BY <1>2, <1>4, <1>5 DEF QueueInv, QueueSlots
<1>12. QueueCounted'
  BY <1>5 DEF QueueCounted
<1> QED
  BY <1>7, <1>9, <1>10, <1>11, <1>12 DEF QueueInv

(* Producers find the next buffer when it is in the queue: it comes last. *)
LEMMA PublishQueue ==
  ASSUME TypeOK, Control, QueueInv, LogInOrder, NEW p \in Producers, Publish(p)
  PROVE  QueueInv' /\ LogInOrder'
<1>1. /\ pc[p] = "publish" /\ pc' = [pc EXCEPT ![p] = "idle"]
      /\ sent' = [sent EXCEPT ![p] = sent[p] + 1] /\ index' = [index EXCEPT ![p] = 0]
      /\ into' = [into EXCEPT ![p] = NoBuffer] /\ buffers' = Append(buffers, into[p])
      /\ writeIndex' = 0
      /\ UNCHANGED <<readIndex, readBuffer, writeBuffer, alive, slot, counted, log>>
  BY DEF Publish, Goto, Return, reading
<1>2. /\ pc'[p] = "idle" /\ sent'[p] = sent[p] + 1
      /\ \A q \in Producers \ {p} : pc'[q] = pc[q]
  BY <1>1 DEF TypeOK
<1>3. \A q \in Producers \ {p} :
        pc'[q] = pc[q] /\ pc[q] \notin {"load", "mark", "count", "make", "publish"}
  BY <1>1, <1>2 DEF QueueInv, QueueReplace
<1>4. \A q \in Producers : pc'[q] \notin {"load", "mark", "count", "make", "publish"}
  BY <1>2, <1>3
<1>5. Publishing /\ Replacing /\ ~Publishing' /\ ~Replacing'
  BY <1>1, <1>4 DEF Publishing, Replacing
<1>6. PICK w \in Addresses : w = writeBuffer /\ w = into[p]
  BY <1>1 DEF TypeOK, QueueInv, QueueBuffers
<1>7. /\ w \in alive /\ slot[w] = Blank /\ counted[w] = 0
      /\ \A k \in 1..Len(buffers) : buffers[k] # w
  BY <1>5, <1>6 DEF QueueInv, QueueBuffers
<1>8. PICK n \in Nat : n = Len(buffers) + 1
  BY DEF TypeOK
<1>9. /\ Len(buffers') = n /\ buffers'[n] = w /\ n \in 1..n /\ buffers' # <<>>
      /\ \A k \in 1..Len(buffers) : buffers'[k] = buffers[k] /\ k \in 1..n /\ k # n
      /\ \A k \in 1..n : k # n => k \in 1..Len(buffers)
  BY <1>1, <1>6, <1>8 DEF TypeOK
<1>10. UNCHANGED latest
  <2>1. /\ \A q \in Producers \ {p} : sent'[q] = sent[q] /\ pc'[q] = pc[q]
    BY <1>1, <1>2 DEF TypeOK
  <2> QED
    BY <1>1, <1>2, <2>1 DEF latest
<1>11. QueueBuffers'
  <2>1. \A j, k \in 1..n : buffers'[j] = buffers'[k] => j = k
    <3>1. \A j, k \in 1..Len(buffers) : buffers[j] = buffers[k] => j = k
      BY DEF QueueInv, QueueBuffers
    <3> QED
      BY <1>7, <1>9, <3>1
  <2>2. \A k \in 1..n : buffers'[k] \in alive
    BY <1>7, <1>9 DEF QueueInv, QueueBuffers
  <2>3. \A a \in alive : \E k \in 1..n : buffers'[k] = a
    <3>1. \A a \in alive : a = w \/ \E k \in 1..Len(buffers) : buffers[k] = a
      BY <1>6 DEF QueueInv, QueueBuffers
    <3> QED
      BY <1>9, <3>1
  <2>4. \A a \in Addresses \ alive : slot[a] = Blank
    BY DEF QueueInv, QueueBuffers
  <2> QED
    BY <1>1, <1>4, <1>5, <1>6, <1>9, <2>1, <2>2, <2>3, <2>4 DEF QueueBuffers
<1>12. QueueReplace'
  BY <1>4 DEF QueueReplace
<1>13. QueueClaims'
  BY <1>4, <1>9 DEF QueueClaims
<1>14. \A i \in Slots : slot[w][i] = NoLine
  BY <1>7, Constants
<1>15. \A k \in 1..Len(buffers), i \in Slots : slot[buffers[k]][i] # NoLine
  BY <1>5 DEF QueueInv, QueueSlots
<1>16. buffers = <<>> => readIndex = 0
  <2>1. kind = "queue"
    BY <1>1 DEF Control
  <2> QED
    BY <2>1 DEF Control
<1>17. QueueSlots'
  <2>1. \A k \in 1..n, i \in Slots : slot[buffers'[k]][i] = NoLine => k = n /\ i >= 0
    BY <1>9, <1>15, SlotNumbers
  <2>2. \A i \in 0..(readIndex - 1) : slot[buffers'[1]][i] # NoLine
    <3>1. CASE buffers = <<>>
      BY <1>16, <3>1
    <3>2. CASE buffers # <<>>
      <4>1. 1 \in 1..Len(buffers)
        BY <3>2 DEF TypeOK
      <4>2. \A i \in 0..(readIndex - 1) : slot[buffers[1]][i] # NoLine
        BY <3>2 DEF QueueInv, QueueSlots
      <4> QED
        BY <1>9, <4>1, <4>2
    <3> QED
      BY <3>1, <3>2
  <2> QED
    BY <1>1, <1>5, <1>6, <1>9, <1>14, <2>1, <2>2 DEF QueueSlots
<1>18. QueueCounted'
  <2>1. Settled' = {}
    BY <1>1, SlotNumbers DEF Settled
  <2> QED
    BY <1>1, <1>6, <1>7, <2>1, FS_EmptySet DEF QueueCounted
<1>19. \A k \in 1..n, i \in Slots : slot[buffers'[k]][i] # NoLine =>
         /\ k \in 1..Len(buffers) /\ buffers'[k] = buffers[k]
         /\ Waiting(k, i)' => Waiting(k, i)
  BY <1>1, <1>9, <1>14 DEF Waiting
<1>20. LogInOrder'
  BY <1>1, <1>10 DEF LogInOrder
<1>21. QueueOrder'
  <2>1. ASSUME NEW k \in 1..n, NEW i \in Slots, slot[buffers'[k]][i] # NoLine
        PROVE  slot[buffers'[k]][i].nr <= latest[slot[buffers'[k]][i].by]
    BY <1>19, <2>1 DEF QueueInv, QueueOrder
  <2>2. ASSUME NEW k \in 1..n, NEW i \in Slots, NEW m \in 1..Len(log),
               Waiting(k, i)', slot[buffers'[k]][i] # NoLine, slot[buffers'[k]][i].by = log[m].by
        PROVE  log[m].nr < slot[buffers'[k]][i].nr
    BY <1>19, <2>2 DEF QueueInv, QueueOrder
  <2>3. ASSUME NEW j \in 1..n, NEW k \in 1..n, NEW h \in Slots, NEW i \in Slots,
               Waiting(j, h)', Waiting(k, i)', Before(j, h, k, i),
               slot[buffers'[j]][h] # NoLine, slot[buffers'[k]][i] # NoLine,
               slot[buffers'[j]][h].by = slot[buffers'[k]][i].by
        PROVE  slot[buffers'[j]][h].nr < slot[buffers'[k]][i].nr
    <3>1. /\ j \in 1..Len(buffers) /\ buffers'[j] = buffers[j] /\ Waiting(j, h)
          /\ k \in 1..Len(buffers) /\ buffers'[k] = buffers[k] /\ Waiting(k, i)
      BY <1>19, <2>3
    <3> QED
      BY <2>3, <3>1 DEF QueueInv, QueueOrder
  <2> QED
    <3>1. slot' = slot /\ log' = log /\ latest' = latest /\ Len(buffers') = n
      BY <1>1, <1>9, <1>10
    <3> QED
      BY <2>1, <2>2, <2>3, <3>1 DEF QueueOrder, Before
<1>22. QueueKept'
  <2> SUFFICES ASSUME NEW q \in Producers, NEW m \in 1..latest[q], ~InLog([by |-> q, nr |-> m])
               PROVE  \E k \in 1..n, i \in Slots :
                        Waiting(k, i)' /\ slot[buffers'[k]][i] = [by |-> q, nr |-> m]
    BY <1>1, <1>9, <1>10 DEF QueueKept, InLog
  <2>1. PICK k \in 1..Len(buffers), i \in Slots :
          Waiting(k, i) /\ slot[buffers[k]][i] = [by |-> q, nr |-> m]
    BY DEF QueueInv, QueueKept
  <2>2. Waiting(k, i)'
    BY <1>1, <1>9, <2>1 DEF Waiting
  <2> QED
    BY <1>9, <2>1, <2>2
<1> QED
  BY <1>11, <1>12, <1>13, <1>17, <1>18, <1>20, <1>21, <1>22 DEF QueueInv

(* The consumer takes a line that comes after those of its thread in the log. *)
LEMMA PopLog ==
  ASSUME TypeOK, Control, QueueInv, LogInOrder, PopQueue
  PROVE  /\ kind = "queue" /\ buffers # <<>> /\ First = buffers[1] /\ First \in Addresses
         /\ readIndex \in Slots /\ slot[First][readIndex] \in LogLines
         /\ slot[First][readIndex] # NoLine
         /\ log' = Append(log, slot[First][readIndex])
         /\ UNCHANGED <<pc, sent, index, into, writeIndex, writeBuffer, latest>>
         /\ LogInOrder'
<1>1. kind = "queue" /\ Marked /\ log' = Append(log, slot[First][readIndex])
  BY DEF PopQueue
<1>2. UNCHANGED <<pc, sent, index, into, writeIndex, writeBuffer, latest>>
  BY DEF PopQueue, producers, latest
<1>3. PICK f \in Addresses, r \in Slots, l \in LogLines :
        /\ buffers # <<>> /\ f = buffers[1] /\ f = First /\ r = readIndex /\ l = slot[f][r]
        /\ l # NoLine
  BY <1>1, MarkedTyped, Constants
<1>4. PICK n \in Nat : n = Len(log) + 1
  BY DEF TypeOK
<1>5. /\ Len(log') = n /\ log'[n] = l
      /\ \A i \in 1..n : i # n => i \in 1..Len(log) /\ log'[i] = log[i]
  BY <1>1, <1>3, <1>4 DEF TypeOK
<1>6. 1 \in 1..Len(buffers) /\ Waiting(1, r)
  BY <1>3, SlotNumbers DEF Waiting, TypeOK
<1>7. /\ l.nr <= latest[l.by]
      /\ \A m \in 1..Len(log) : l.by = log[m].by => log[m].nr < l.nr
  BY <1>3, <1>6 DEF QueueInv, QueueOrder
<1>8. \A i \in 1..n : log'[i].nr <= latest[log'[i].by]
  BY <1>5, <1>7 DEF LogInOrder
<1>9. \A i, j \in 1..n : i < j /\ log'[i].by = log'[j].by => log'[i].nr < log'[j].nr
  <2> SUFFICES ASSUME NEW i \in 1..n, NEW j \in 1..n, i < j, log'[i].by = log'[j].by
               PROVE  log'[i].nr < log'[j].nr
    OBVIOUS
  <2>1. i # n
    OBVIOUS
  <2> QED
    BY <1>5, <1>7, <2>1 DEF LogInOrder
<1>10. LogInOrder'
  BY <1>2, <1>5, <1>8, <1>9 DEF LogInOrder
<1> QED
  BY <1>1, <1>2, <1>3, <1>10

(* A line is popped, and its buffer stays. *)
LEMMA PopKeeping ==
  ASSUME TypeOK, Control, QueueInv, LogInOrder, PopQueue, readIndex + 1 # Size
  PROVE  QueueInv'
<1>1. PICK f \in Addresses, r \in Slots, l \in LogLines :
        /\ buffers # <<>> /\ f = buffers[1] /\ r = readIndex /\ l = slot[f][r] /\ l # NoLine
        /\ log' = Append(log, l)
  BY PopLog
<1>2. UNCHANGED <<pc, sent, index, into, writeIndex, writeBuffer, latest>>
  BY PopLog
<1>3. readIndex' = r + 1 /\ UNCHANGED <<buffers, alive, slot, counted>>
  BY <1>1 DEF PopQueue
<1>4. PICK n \in Nat : n = Len(log) + 1
  BY DEF TypeOK
<1>5. /\ Len(log') = n /\ log'[n] = l
      /\ \A i \in 1..n : i # n => i \in 1..Len(log) /\ log'[i] = log[i]
      /\ \A i \in 1..Len(log) : i \in 1..n /\ log'[i] = log[i]
      /\ n \in 1..n
  BY <1>1, <1>4 DEF TypeOK
<1>6. 1 \in 1..Len(buffers) /\ Waiting(1, r)
  BY <1>1, SlotNumbers, SMTT(40) DEF Waiting, TypeOK
<1>7. Replacing' = Replacing /\ Publishing' = Publishing /\ Settled' = Settled
  BY <1>2 DEF Replacing, Publishing, Settled
<1>8. QueueBuffers' /\ QueueReplace' /\ QueueCounted'
  BY <1>2, <1>3, <1>7 DEF QueueInv, QueueBuffers, QueueReplace, QueueCounted
<1>9. QueueClaims'
  BY <1>2, <1>3, <1>7 DEF QueueInv, QueueClaims, Line
<1>10. QueueSlots'
  <2>1. \A i \in 0..(r - 1) : slot[buffers[1]][i] # NoLine
    BY <1>1 DEF QueueInv, QueueSlots
  <2>2. \A i \in 0..((r + 1) - 1) : slot[buffers[1]][i] # NoLine
    BY <1>1, <2>1, SlotNumbers
  <2> QED
    BY <1>2, <1>3, <1>7, <2>2 DEF QueueInv, QueueSlots
<1>11. \A k \in 1..Len(buffers), i \in Slots :
         /\ Waiting(k, i)' => Waiting(k, i) /\ Before(1, r, k, i)
         /\ Waiting(k, i) => Waiting(k, i)' \/ (k = 1 /\ i = r)
  BY <1>1, <1>3, SlotNumbers DEF Waiting, Before
<1>12. QueueOrder'
  <2>1. ASSUME NEW k \in 1..Len(buffers), NEW i \in Slots, NEW m \in 1..n,
               Waiting(k, i)', slot[buffers[k]][i] # NoLine, slot[buffers[k]][i].by = log'[m].by
        PROVE  log'[m].nr < slot[buffers[k]][i].nr
    <3>1. Waiting(k, i) /\ Before(1, r, k, i)
      BY <1>11, <2>1
    <3>2. CASE m = n
      BY <1>1, <1>5, <1>6, <2>1, <3>1, <3>2 DEF QueueInv, QueueOrder
    <3>3. CASE m # n
      BY <1>5, <2>1, <3>1, <3>3 DEF QueueInv, QueueOrder
    <3> QED
      BY <3>2, <3>3
  <2>2. ASSUME NEW j \in 1..Len(buffers), NEW k \in 1..Len(buffers),
               NEW h \in Slots, NEW i \in Slots,
               Waiting(j, h)', Waiting(k, i)', Before(j, h, k, i),
               slot[buffers[j]][h] # NoLine, slot[buffers[k]][i] # NoLine,
               slot[buffers[j]][h].by = slot[buffers[k]][i].by
        PROVE  slot[buffers[j]][h].nr < slot[buffers[k]][i].nr
    BY <1>11, <2>2 DEF QueueInv, QueueOrder
  <2>3. \A k \in 1..Len(buffers), i \in Slots :
          slot[buffers[k]][i] # NoLine =>
            slot[buffers[k]][i].nr <= latest[slot[buffers[k]][i].by]
    BY DEF QueueInv, QueueOrder
  <2>4. slot' = slot /\ buffers' = buffers /\ latest' = latest /\ Len(log') = n
    BY <1>2, <1>3, <1>5
  <2> QED
    BY <2>1, <2>2, <2>3, <2>4 DEF QueueOrder, Before
<1>13. QueueKept'
  <2> SUFFICES ASSUME NEW q \in Producers, NEW m \in 1..latest[q],
                      ~InLog([by |-> q, nr |-> m])'
               PROVE  \E k \in 1..Len(buffers), i \in Slots :
                        Waiting(k, i)' /\ slot[buffers[k]][i] = [by |-> q, nr |-> m]
    BY <1>2, <1>3 DEF QueueKept
  <2>1. ~InLog([by |-> q, nr |-> m]) /\ l # [by |-> q, nr |-> m]
    <3>1. DOMAIN log = 1..Len(log) /\ DOMAIN log' = 1..n
      BY <1>1, <1>4 DEF TypeOK
    <3> QED
      BY <1>5, <3>1 DEF InLog
  <2>2. PICK k \in 1..Len(buffers), i \in Slots :
          Waiting(k, i) /\ slot[buffers[k]][i] = [by |-> q, nr |-> m]
    BY <2>1 DEF QueueInv, QueueKept
  <2>3. Waiting(k, i)'
    BY <1>1, <1>11, <2>1, <2>2
  <2> QED
    BY <2>2, <2>3
<1> QED
  BY <1>8, <1>9, <1>10, <1>12, <1>13 DEF QueueInv

(* The last line of a buffer is popped, and the buffer is freed: all its slots
   are marked, so no producer has yet to find it.                             *)
LEMMA PopFreeing ==
  ASSUME TypeOK, Control, QueueInv, LogInOrder, PopQueue, readIndex + 1 = Size
  PROVE  QueueInv'
<1>1. PICK f \in Addresses, r \in Slots, l \in LogLines :
        /\ buffers # <<>> /\ f = buffers[1] /\ f = First /\ r = readIndex /\ l = slot[f][r]
        /\ l # NoLine /\ log' = Append(log, l)
  BY PopLog
<1>2. UNCHANGED <<pc, sent, index, into, writeIndex, writeBuffer, latest>>
  BY PopLog
<1>3. /\ readIndex' = 0 /\ buffers' = Tail(buffers) /\ alive' = alive \ {f}
      /\ slot' = [slot EXCEPT ![f] = Blank] /\ counted' = [counted EXCEPT ![f] = 0]
  BY <1>1 DEF PopQueue
<1>4. PICK n \in Nat : n = Len(log) + 1
  BY DEF TypeOK
<1>5. /\ Len(log') = n /\ log'[n] = l
      /\ \A i \in 1..n : i # n => i \in 1..Len(log) /\ log'[i] = log[i]
      /\ \A i \in 1..Len(log) : i \in 1..n /\ log'[i] = log[i]
      /\ n \in 1..n
  BY <1>1, <1>4 DEF TypeOK
<1>6. 1 \in 1..Len(buffers) /\ Waiting(1, r)
  BY <1>1, SlotNumbers, SMTT(40) DEF Waiting, TypeOK
<1>7. Replacing' = Replacing /\ Publishing' = Publishing /\ Settled' = Settled
  BY <1>2 DEF Replacing, Publishing, Settled
<1>8. \A i \in Slots : slot[f][i] # NoLine
  <2>1. \A i \in 0..(r - 1) : slot[f][i] # NoLine
    BY <1>1 DEF QueueInv, QueueSlots
  <2>2. \A i \in Slots : i = r \/ i \in 0..(r - 1)
    BY <1>1, SlotNumbers
  <2> QED
    BY <1>1, <2>1, <2>2
<1>28. buffers \in Seq(Addresses) /\ buffers # <<>>
  BY <1>1 DEF TypeOK
<1>9. PICK c \in Nat : c = Len(buffers) /\ c >= 1
  BY <1>28
<1>10. /\ Len(buffers') = c - 1
       /\ \A k \in 1..(c - 1) : buffers'[k] = buffers[k + 1] /\ k + 1 \in 1..c
  BY <1>3, <1>9, <1>28
<1>11. /\ \A k \in 1..c : buffers[k] \in Addresses /\ buffers[k] \in alive /\ (buffers[k] = f => k = 1)
       /\ \A b \in Addresses \ {f} : slot'[b] = slot[b] /\ counted'[b] = counted[b]
       /\ slot'[f] = Blank
  BY <1>1, <1>3, <1>6, <1>9 DEF QueueInv, QueueBuffers, TypeOK
<1>12. \A k \in 1..(c - 1), i \in Slots :
         /\ buffers'[k] # f /\ slot'[buffers'[k]][i] = slot[buffers[k + 1]][i]
         /\ Waiting(k, i)' /\ Waiting(k + 1, i) /\ Before(1, r, k + 1, i)
  <2>1. \A k \in 1..(c - 1) : k + 1 \in 1..c /\ k + 1 # 1 /\ 1 < k + 1
    BY <1>9
  <2>2. \A k \in 1..(c - 1), i \in Slots :
          buffers'[k] # f /\ slot'[buffers'[k]][i] = slot[buffers[k + 1]][i]
    BY <1>10, <1>11, <2>1
  <2>3. \A k \in 1..(c - 1), i \in Slots :
          Waiting(k, i)' /\ Waiting(k + 1, i) /\ Before(1, r, k + 1, i)
    BY <1>3, <1>9, <1>10, <2>1, SlotNumbers DEF Waiting, Before
  <2> QED
    BY <2>2, <2>3
<1>13. PICK w \in Addresses : w = writeBuffer
  BY DEF TypeOK
<1>14. buffers' # <<>> <=> c # 1
  <2>1. buffers' \in Seq(Addresses)
    BY <1>3, <1>28
  <2> QED
    BY <1>9, <1>10, <2>1
<1>15. ~Publishing => buffers[c] = w
  BY <1>1, <1>9, <1>13 DEF QueueInv, QueueBuffers
<1>16. w = f /\ ~Publishing => c = 1
  BY <1>9, <1>11, <1>15
<1>17. \A p \in Producers : pc[p] \in {"load", "mark", "count"} =>
         ~Replacing /\ ~Publishing /\ index[p] \in Slots
  BY DEF QueueInv, QueueReplace, Replacing, Publishing, Control
<1>18. w # f => slot'[w] = slot[w] /\ counted'[w] = counted[w]
  BY <1>11, <1>13
<1>19. QueueBuffers'
  <2>1. \A j, k \in 1..(c - 1) : buffers'[j] = buffers'[k] => j = k
    <3>1. \A j, k \in 1..c : buffers[j] = buffers[k] => j = k
      BY <1>9 DEF QueueInv, QueueBuffers
    <3>2. \A j, k \in 1..(c - 1) : j + 1 = k + 1 => j = k
      OBVIOUS
    <3> QED
      BY <1>10, <3>1, <3>2
  <2>2. \A k \in 1..(c - 1) : buffers'[k] \in alive'
    BY <1>3, <1>10, <1>11, <1>12, SlotNumbers
  <2>3. \A b \in alive' : (\E k \in 1..(c - 1) : buffers'[k] = b) \/ (Publishing /\ b = w)
    <3>1. ASSUME NEW b \in alive', ~(Publishing /\ b = w)
          PROVE  \E k \in 1..(c - 1) : buffers'[k] = b
      <4>1. PICK k \in 1..c : buffers[k] = b
        BY <1>3, <1>9, <1>13, <3>1 DEF QueueInv, QueueBuffers
      <4>2. k # 1
        BY <1>1, <1>3, <4>1
      <4>3. k - 1 \in 1..(c - 1) /\ (k - 1) + 1 = k
        BY <1>9, <4>2
      <4> QED
        BY <1>10, <4>1, <4>3
    <3> QED
      BY <3>1
  <2>4. Publishing =>
          /\ w \in alive' /\ slot'[w] = Blank /\ counted'[w] = 0
          /\ \A k \in 1..(c - 1) : buffers'[k] # w
    <3> SUFFICES ASSUME Publishing
                 PROVE  /\ w \in alive' /\ slot'[w] = Blank /\ counted'[w] = 0
                        /\ \A k \in 1..(c - 1) : buffers'[k] # w
      OBVIOUS
    <3>1. /\ w \in alive /\ slot[w] = Blank /\ counted[w] = 0
          /\ \A k \in 1..c : buffers[k] # w
      BY <1>9, <1>13 DEF QueueInv, QueueBuffers
    <3> QED
      BY <1>1, <1>3, <1>6, <1>9, <1>10, <1>18, <3>1
  <2>5. ~Publishing /\ c # 1 => buffers'[c - 1] = w
    <3>1. c # 1 => c - 1 \in 1..(c - 1) /\ (c - 1) + 1 = c
      BY <1>9
    <3> QED
      BY <1>10, <1>15, <3>1
  <2>6. \A b \in Addresses \ alive' : slot'[b] = Blank
    BY <1>3, <1>11 DEF QueueInv, QueueBuffers
  <2>7. \A p \in Producers : pc[p] = "publish" => into[p] = w
    BY <1>13 DEF QueueInv, QueueBuffers
  <2> QED
    BY <1>2, <1>7, <1>10, <1>13, <1>14, <2>1, <2>2, <2>3, <2>4, <2>5, <2>6, <2>7 DEF QueueBuffers
<1>20. QueueReplace'
  BY <1>2 DEF QueueInv, QueueReplace
<1>21. w = f /\ ~Replacing =>
         /\ \A p \in Producers : pc[p] \notin {"load", "mark"}
         /\ writeIndex >= Size
  <2>1. ASSUME NEW p \in Producers, pc[p] \in {"load", "mark"}
        PROVE  slot[w][index[p]] = NoLine /\ index[p] \in Slots
    BY <1>13, <1>17, <2>1 DEF QueueInv, QueueClaims
  <2>2. ~Replacing => \A i \in Slots : i >= writeIndex => slot[w][i] = NoLine
    BY <1>13 DEF QueueInv, QueueSlots
  <2>3. Size - 1 \in Slots /\ Size \in Nat /\ writeIndex \in Nat
    BY SlotNumbers DEF TypeOK
  <2> QED
    BY <1>8, <2>1, <2>2, <2>3
<1>22. c = 1 /\ ~Replacing => w = f
  BY <1>1, <1>15 DEF Replacing, Publishing
<1>23. QueueClaims'
  <2>1. /\ \A p \in Producers : pc[p] \in {"load", "mark", "count"} =>
             /\ index[p] < writeIndex
             /\ \A q \in Producers \ {p} :
                  pc[q] \in {"load", "mark", "count"} => index[p] # index[q]
        /\ \A p \in Producers : pc[p] \in {"mark", "count"} => into[p] = writeBuffer
    BY DEF QueueInv, QueueClaims
  <2>2. ASSUME NEW p \in Producers, pc[p] \in {"load", "mark"}
        PROVE  /\ buffers' # <<>> /\ slot'[w][index[p]] = NoLine
               /\ \A i \in Slots : slot'[w][i] # NoLine /\ slot'[w][i].by = p => i < index[p]
    <3>1. w # f /\ c # 1
      BY <1>17, <1>21, <1>22, <2>2
    <3> QED
      BY <1>13, <1>14, <1>18, <2>2, <3>1 DEF QueueInv, QueueClaims
  <2>3. ASSUME NEW p \in Producers, pc[p] = "count", buffers' # <<>>
        PROVE  slot'[w][index[p]] = Line(p)
    <3>1. w # f
      BY <1>14, <1>16, <1>17, <2>3
    <3> QED
      BY <1>1, <1>13, <1>18, <2>3, <3>1 DEF QueueInv, QueueClaims
  <2>4. ~Replacing /\ buffers' = <<>> => writeIndex >= Size
    BY <1>14, <1>21, <1>22
  <2>5. \A p \in Producers : Line(p)' = Line(p)
    BY <1>2 DEF Line
  <2> QED
    BY <1>2, <1>7, <1>13, <2>1, <2>2, <2>3, <2>4, <2>5 DEF QueueClaims
<1>24. QueueSlots'
  <2>1. ASSUME NEW k \in 1..(c - 1), NEW i \in Slots, slot'[buffers'[k]][i] = NoLine
        PROVE  /\ k = c - 1 /\ ~Replacing
               /\ \/ i >= writeIndex
                  \/ \E p \in Producers : pc[p] \in {"load", "mark"} /\ index[p] = i
    <3>1. slot[buffers[k + 1]][i] = NoLine /\ k + 1 \in 1..Len(buffers)
      BY <1>9, <1>12, <2>1
    <3>2. k + 1 = Len(buffers) => k = c - 1
      BY <1>9
    <3> QED
      BY <3>1, <3>2 DEF QueueInv, QueueSlots
  <2>2. ~Replacing => \A i \in Slots : i >= writeIndex => slot'[w][i] = NoLine
    <3>1. \A i \in Slots : Blank[i] = NoLine
      BY Constants
    <3>2. ~Replacing => \A i \in Slots : i >= writeIndex => slot[w][i] = NoLine
      BY <1>13 DEF QueueInv, QueueSlots
    <3> QED
      BY <1>11, <1>18, <3>1, <3>2
  <2> QED
    BY <1>2, <1>3, <1>7, <1>10, <1>13, <2>1, <2>2 DEF QueueSlots
<1>25. QueueCounted'
  <2>1. ~Replacing /\ buffers' # <<>> => w # f
    BY <1>14, <1>16 DEF Replacing, Publishing
  <2> QED
    BY <1>1, <1>2, <1>7, <1>13, <1>18, <2>1 DEF QueueInv, QueueCounted
<1>26. QueueOrder'
  <2>1. ASSUME NEW k \in 1..(c - 1), NEW i \in Slots, slot'[buffers'[k]][i] # NoLine
        PROVE  slot'[buffers'[k]][i].nr <= latest[slot'[buffers'[k]][i].by]
    <3>1. k + 1 \in 1..Len(buffers) /\ slot'[buffers'[k]][i] = slot[buffers[k + 1]][i]
      BY <1>9, <1>12
    <3> QED
      BY <2>1, <3>1 DEF QueueInv, QueueOrder
  <2>2. ASSUME NEW k \in 1..(c - 1), NEW i \in Slots, NEW m \in 1..n,
               slot'[buffers'[k]][i] # NoLine, slot'[buffers'[k]][i].by = log'[m].by
        PROVE  log'[m].nr < slot'[buffers'[k]][i].nr
    <3>1. /\ k + 1 \in 1..Len(buffers) /\ slot'[buffers'[k]][i] = slot[buffers[k + 1]][i]
          /\ Waiting(k + 1, i) /\ Before(1, r, k + 1, i)
      BY <1>9, <1>12
    <3>2. CASE m = n
      <4>1. slot[buffers[1]][r] = l /\ log'[m] = l /\ 1 \in 1..Len(buffers) /\ Waiting(1, r)
        BY <1>1, <1>5, <1>6, <3>2
      <4>2. slot[buffers[k + 1]][i] # NoLine /\ slot[buffers[k + 1]][i].by = l.by /\ l # NoLine
        BY <1>1, <2>2, <3>1, <4>1
      <4> QED
        BY <3>1, <4>1, <4>2 DEF QueueInv, QueueOrder
    <3>3. CASE m # n
      BY <1>5, <2>2, <3>1, <3>3 DEF QueueInv, QueueOrder
    <3> QED
      BY <3>2, <3>3
  <2>3. ASSUME NEW j \in 1..(c - 1), NEW k \in 1..(c - 1), NEW h \in Slots, NEW i \in Slots,
               Before(j, h, k, i),
               slot'[buffers'[j]][h] # NoLine, slot'[buffers'[k]][i] # NoLine,
               slot'[buffers'[j]][h].by = slot'[buffers'[k]][i].by
        PROVE  slot'[buffers'[j]][h].nr < slot'[buffers'[k]][i].nr
    <3>1. /\ k + 1 \in 1..Len(buffers) /\ slot'[buffers'[k]][i] = slot[buffers[k + 1]][i]
          /\ Waiting(k + 1, i)
      <4>1. k + 1 \in 1..Len(buffers)
        BY <1>9
      <4> QED
        BY <1>12, <4>1, Zenon
    <3>3. /\ j + 1 \in 1..Len(buffers) /\ slot'[buffers'[j]][h] = slot[buffers[j + 1]][h]
          /\ Waiting(j + 1, h)
      <4>1. j + 1 \in 1..Len(buffers)
        BY <1>9
      <4> QED
        BY <1>12, <4>1, Zenon
    <3>2. Before(j + 1, h, k + 1, i)
      BY <2>3 DEF Before
    <3> QED
      BY <2>3, <3>1, <3>2, <3>3 DEF QueueInv, QueueOrder
  <2>4. latest' = latest /\ Len(log') = n /\ Len(buffers') = c - 1
    BY <1>2, <1>5, <1>10
  <2> QED
    BY <2>1, <2>2, <2>3, <2>4 DEF QueueOrder, Before
<1>27. QueueKept'
  <2> SUFFICES ASSUME NEW q \in Producers, NEW m \in 1..latest[q],
                      ~InLog([by |-> q, nr |-> m])'
               PROVE  \E k \in 1..(c - 1), i \in Slots :
                        Waiting(k, i)' /\ slot'[buffers'[k]][i] = [by |-> q, nr |-> m]
    <3>1. latest' = latest /\ Len(buffers') = c - 1
      BY <1>2, <1>10
    <3> QED
      BY <3>1 DEF QueueKept
  <2>1. ~InLog([by |-> q, nr |-> m]) /\ l # [by |-> q, nr |-> m]
    <3>1. DOMAIN log = 1..Len(log) /\ DOMAIN log' = 1..n
      BY <1>1, <1>4 DEF TypeOK
    <3> QED
      BY <1>5, <3>1 DEF InLog
  <2>2. PICK k \in 1..c, i \in Slots :
          Waiting(k, i) /\ slot[buffers[k]][i] = [by |-> q, nr |-> m]
    BY <1>9, <2>1 DEF QueueInv, QueueKept
  <2>3. k # 1
    <3>1. k = 1 => i = r
      BY <1>1, <2>2, SlotNumbers DEF Waiting
    <3> QED
      BY <1>1, <2>1, <2>2, <3>1
  <2>4. PICK j \in 1..(c - 1) : j + 1 = k
    <3>1. k - 1 \in 1..(c - 1) /\ (k - 1) + 1 = k
      BY <1>9, <2>3
    <3> QED
      BY <3>1
  <2>5. Waiting(j, i)' /\ slot'[buffers'[j]][i] = slot[buffers[k]][i]
    BY <1>12, <2>4
  <2> QED
    BY <2>2, <2>4, <2>5
<1> QED
  BY <1>19, <1>20, <1>23, <1>24, <1>25, <1>26, <1>27 DEF QueueInv

-----------------------------------------------------------------------------
(* Division and its remainder. *)
LEMMA Division ==
  ASSUME NEW n \in Nat, NEW r \in Nat, r >= 1
  PROVE  n = r * (n \div r) + (n % r)
OBVIOUS

(* Two indices less than a ring apart have cells of their own. *)
LEMMA CellsDiffer ==
  ASSUME NEW a \in Nat, NEW b \in Nat, a < b, b < a + RingSize
  PROVE  Cell(a) # Cell(b)
<1> DEFINE R == RingSize
<1>1. R \in Nat /\ R >= 1
  BY Constants
<1>2. PICK d \in 1..(R - 1) : b = a + d
  <2>1. b - a \in 1..(R - 1) /\ b = a + (b - a)
    BY <1>1
  <2> QED
    BY <2>1
<1>3. a % R \in 0..(R - 1) /\ b % R \in 0..(R - 1) /\ a \div R \in Nat /\ b \div R \in Nat
  BY <1>1
<1>4. a = R * (a \div R) + (a % R) /\ b = R * (b \div R) + (b % R)
  BY <1>1, Division
<1>5. SUFFICES ASSUME a % R = b % R PROVE FALSE
  BY DEF Cell
<1>6. PICK m \in Nat, n \in Nat : m = a \div R /\ n = b \div R
  BY <1>3
<1>7. R * n = R * m + d
  BY <1>1, <1>2, <1>3, <1>4, <1>5, <1>6
<1>8. CASE n <= m
  <2>1. R * n <= R * m
    BY <1>1, <1>6, <1>8
  <2>2. R * n \in Nat /\ R * m \in Nat
    BY <1>1
  <2> QED
    BY <1>2, <1>7, <2>1, <2>2
<1>9. CASE n >= m + 1
  <2>1. R * n >= R * m + R
    BY <1>1, <1>6, <1>9
  <2>2. R * n \in Nat /\ R * m \in Nat
    BY <1>1
  <2> QED
    BY <1>1, <1>2, <1>7, <2>1, <2>2
<1> QED
  BY <1>6, <1>8, <1>9

(* The cells of the window. *)
LEMMA WindowCells ==
  ASSUME TypeOK, readIndex <= writeIndex, writeIndex <= readIndex + RingSize
  PROVE  /\ \A j \in Nat : Cell(j) \in 0..(RingSize - 1)
         /\ \A i, j \in Window : Cell(i) = Cell(j) => i = j
         /\ \A j \in Window : j \in Nat /\ readIndex <= j /\ j < writeIndex
         /\ \A j \in Nat : readIndex <= j /\ j < writeIndex => j \in Window
<1>1. readIndex \in Nat /\ writeIndex \in Nat /\ RingSize \in Nat
  BY Constants DEF TypeOK
<1>2. \A j \in Window : j \in Nat /\ readIndex <= j /\ j < writeIndex
  BY <1>1 DEF Window
<1>3. \A i, j \in Window : i < j => Cell(i) # Cell(j)
  <2>1. \A i, j \in Window : j < i + RingSize
    BY <1>1, <1>2
  <2> QED
    BY <1>2, <2>1, CellsDiffer
<1>4. \A i, j \in Window : i # j => i < j \/ j < i
  BY <1>2
<1>5. \A i, j \in Window : Cell(i) = Cell(j) => i = j
  BY <1>3, <1>4
<1>6. \A j \in Nat : Cell(j) \in 0..(RingSize - 1)
  BY Constants DEF Cell
<1>7. \A j \in Nat : readIndex <= j /\ j < writeIndex => j \in Window
  BY <1>1 DEF Window
<1> QED
  BY <1>2, <1>5, <1>6, <1>7

(* A producer claims the next cell, which has been read. *)
LEMMA ClaimRing ==
  ASSUME TypeOK, Control, RingInv, LogInOrder, NEW p \in Producers, RingClaim(p), ~overrun'
  PROVE  RingInv' /\ LogInOrder'
<1>1. PICK w \in Nat, r \in Nat :
        /\ w = writeIndex /\ r = readIndex /\ writeIndex' = w + 1 /\ readIndex' = r
        /\ w < r + RingSize /\ r <= w
  <2>1. writeIndex \in Nat /\ readIndex \in Nat
    BY DEF TypeOK
  <2>2. writeIndex' = writeIndex + 1 /\ readIndex' = readIndex /\ readIndex <= writeIndex
    BY DEF RingClaim, reading, RingInv, RingClaims
  <2>3. ~(writeIndex >= readIndex + RingSize)
    BY DEF RingClaim
  <2> QED
    BY <2>1, <2>2, <2>3, Constants
<1>2. /\ pc[p] = "idle" /\ pc' = [pc EXCEPT ![p] = "put"] /\ index' = [index EXCEPT ![p] = Cell(w)]
      /\ UNCHANGED <<sent, ring, log>>
  BY <1>1 DEF RingClaim, Goto, Cell
<1>3. /\ pc'[p] = "put" /\ index'[p] = Cell(w)
      /\ \A q \in Producers \ {p} : pc'[q] = pc[q] /\ index'[q] = index[q]
  BY <1>2 DEF TypeOK
<1>4. /\ \A j \in Window : j \in Nat /\ j < w /\ j \in Window' /\ Cell(j) # Cell(w)
      /\ w \in Window' /\ \A j \in Window' : j # w => j \in Window
  <2>1. RingSize \in Nat
    BY Constants
  <2>2. \A j \in Window : j \in Nat /\ r <= j /\ j < w
    BY <1>1 DEF Window
  <2>3. \A j \in Window : Cell(j) # Cell(w)
    BY <1>1, <2>1, <2>2, CellsDiffer
  <2>4. Window = r..(w - 1) /\ Window' = r..w
    BY <1>1 DEF Window
  <2> QED
    BY <1>1, <2>2, <2>3, <2>4
<1>5. Cell(w) \in 0..(RingSize - 1) /\ ring[Cell(w)] = NoLine
  <2>1. Cell(w) \in 0..(RingSize - 1)
    BY <1>1, Constants DEF Cell
  <2> QED
    BY <1>4, <2>1 DEF RingInv, RingClaims
<1>6. RingClaims'
  <2>1. readIndex' <= writeIndex' /\ writeIndex' <= readIndex' + RingSize
    BY <1>1, Constants
  <2>2. \A i \in 0..(RingSize - 1) : ring[i] # NoLine => \E j \in Window' : Cell(j) = i
    BY <1>4 DEF RingInv, RingClaims
  <2>3. ASSUME NEW j \in Window', ring[Cell(j)] = NoLine
        PROVE  \E q \in Producers : pc'[q] = "put" /\ index'[q] = Cell(j)
    <3>1. CASE j = w
      BY <1>3, <3>1
    <3>2. CASE j # w
      <4>1. PICK q \in Producers : pc[q] = "put" /\ index[q] = Cell(j)
        BY <1>4, <2>3, <3>2 DEF RingInv, RingClaims, At
      <4> QED
        BY <1>2, <1>3, <4>1
    <3> QED
      BY <3>1, <3>2
  <2>4. ASSUME NEW q \in Producers, pc'[q] = "put"
        PROVE  /\ ring[index'[q]] = NoLine
               /\ \A s \in Producers \ {q} : pc'[s] = "put" => index'[q] # index'[s]
               /\ \E j \in Window' :
                    /\ Cell(j) = index'[q]
                    /\ \A i \in Window' : ring[Cell(i)] # NoLine /\ ring[Cell(i)].by = q => i < j
    <3>1. \A s \in Producers \ {p} : pc[s] = "put" =>
            /\ ring[index[s]] = NoLine
            /\ \A t \in Producers \ {s} : pc[t] = "put" => index[s] # index[t]
            /\ \E j \in Window :
                 /\ Cell(j) = index[s]
                 /\ \A i \in Window : ring[Cell(i)] # NoLine /\ ring[Cell(i)].by = s => i < j
      BY DEF RingInv, RingClaims, At
    <3>2. \A s \in Producers \ {p} : pc[s] = "put" => index[s] # Cell(w)
      BY <1>4, <3>1
    <3>3. CASE q = p
      BY <1>3, <1>4, <1>5, <3>2, <3>3
    <3>4. CASE q # p
      <4>1. ring[index'[q]] = NoLine
        BY <1>3, <2>4, <3>1, <3>4
      <4>2. \A s \in Producers \ {q} : pc'[s] = "put" => index'[q] # index'[s]
        BY <1>3, <2>4, <3>1, <3>2, <3>4
      <4>3. PICK j \in Window :
              /\ Cell(j) = index[q]
              /\ \A i \in Window : ring[Cell(i)] # NoLine /\ ring[Cell(i)].by = q => i < j
        BY <1>3, <2>4, <3>1, <3>4
      <4>4. \A i \in Window' : ring[Cell(i)] # NoLine /\ ring[Cell(i)].by = q => i < j
        BY <1>4, <1>5, <4>3
      <4> QED
        BY <1>3, <1>4, <3>4, <4>1, <4>2, <4>3, <4>4
    <3> QED
      BY <3>3, <3>4
  <2> QED
    BY <1>2, <2>1, <2>2, <2>3, <2>4 DEF RingClaims, At
<1>7. RingOrder'
  <2>1. \A j \in Window' : ring[Cell(j)] # NoLine => j \in Window
    BY <1>4, <1>5
  <2> QED
    BY <1>2, <2>1 DEF RingInv, RingOrder, At
<1>8. RingKept'
  BY <1>2, <1>4 DEF RingInv, RingKept, At, InLog
<1>9. LogInOrder'
  <2>1. latest' = latest
    BY <1>2, <1>3 DEF latest
  <2> QED
    BY <1>2, <2>1 DEF LogInOrder
<1> QED
  BY <1>6, <1>7, <1>8, <1>9 DEF RingInv

(* A producer writes the line into the cell that it has claimed. *)
LEMMA PutRing ==
  ASSUME TypeOK, Control, RingInv, LogInOrder, NEW p \in Producers, RingPut(p)
  PROVE  RingInv' /\ LogInOrder'
<1>1. /\ pc[p] = "put" /\ pc' = [pc EXCEPT ![p] = "idle"]
      /\ sent' = [sent EXCEPT ![p] = sent[p] + 1] /\ index' = [index EXCEPT ![p] = 0]
      /\ ring' = [ring EXCEPT ![index[p]] = Line(p)]
      /\ UNCHANGED <<writeIndex, readIndex, log>>
  BY DEF RingPut, Return, Goto, reading
<1>2. /\ pc'[p] = "idle" /\ sent'[p] = sent[p] + 1 /\ sent[p] \in Nat
      /\ \A q \in Producers \ {p} : pc'[q] = pc[q] /\ sent'[q] = sent[q] /\ index'[q] = index[q]
  BY <1>1, Constants DEF TypeOK
<1>3. PICK c \in Window :
        /\ Cell(c) = index[p] /\ ring[Cell(c)] = NoLine
        /\ \A i \in Window : ring[Cell(i)] # NoLine /\ ring[Cell(i)].by = p => i < c
  BY <1>1 DEF RingInv, RingClaims, At
<1>4. /\ Line(p) \in LogLines /\ Line(p) # NoLine /\ Line(p).by = p /\ Line(p).nr = sent[p] + 1
  <2>1. sent[p] < Lines
    BY <1>1 DEF Control
  <2> QED
    BY <2>1, LineTyped
<1>5. /\ \A j \in Nat : Cell(j) \in 0..(RingSize - 1)
      /\ \A i, j \in Window : Cell(i) = Cell(j) => i = j
      /\ \A j \in Window : j \in Nat
  BY WindowCells DEF RingInv, RingClaims
<1>6. Window' = Window
  BY <1>1 DEF Window
<1>7. /\ ring'[Cell(c)] = Line(p)
      /\ \A i \in 0..(RingSize - 1) : i # Cell(c) => ring'[i] = ring[i]
  BY <1>1, <1>3, <1>5 DEF TypeOK
<1>8. \A j \in Window : /\ j = c => ring'[Cell(j)] = Line(p)
                        /\ j # c => ring'[Cell(j)] = ring[Cell(j)] /\ Cell(j) # Cell(c)
  BY <1>5, <1>7
<1>9. RingClaims'
  <2>1. readIndex <= writeIndex /\ writeIndex <= readIndex + RingSize
    BY DEF RingInv, RingClaims
  <2>2. \A i \in 0..(RingSize - 1) : ring'[i] # NoLine => \E j \in Window : Cell(j) = i
    BY <1>7 DEF RingInv, RingClaims
  <2>3. ASSUME NEW j \in Window, ring'[Cell(j)] = NoLine
        PROVE  \E q \in Producers : pc'[q] = "put" /\ index'[q] = Cell(j)
    <3>1. j # c /\ ring[Cell(j)] = NoLine
      BY <1>4, <1>8, <2>3
    <3>2. PICK q \in Producers : pc[q] = "put" /\ index[q] = Cell(j)
      BY <3>1 DEF RingInv, RingClaims, At
    <3> QED
      BY <1>2, <1>3, <1>8, <3>1, <3>2
  <2>4. ASSUME NEW q \in Producers, pc'[q] = "put"
        PROVE  /\ ring'[index'[q]] = NoLine
               /\ \A s \in Producers \ {q} : pc'[s] = "put" => index'[q] # index'[s]
               /\ \E j \in Window :
                    /\ Cell(j) = index'[q]
                    /\ \A i \in Window : ring'[Cell(i)] # NoLine /\ ring'[Cell(i)].by = q => i < j
    <3>1. q # p /\ pc[q] = "put" /\ index'[q] = index[q]
      BY <1>2, <2>4
    <3>2. \A s, t \in Producers : s # t /\ pc[s] = "put" /\ pc[t] = "put" => index[s] # index[t]
      BY DEF RingInv, RingClaims
    <3>3. \A s \in Producers \ {q} : pc'[s] = "put" => index'[q] # index'[s]
      BY <1>2, <3>1, <3>2
    <3>4. index[q] # Cell(c) /\ index[q] \in 0..(RingSize - 1) /\ ring[index[q]] = NoLine
      BY <1>1, <1>3, <3>1, <3>2 DEF RingInv, RingClaims, Control
    <3>5. PICK j \in Window :
            /\ Cell(j) = index[q]
            /\ \A i \in Window : ring[Cell(i)] # NoLine /\ ring[Cell(i)].by = q => i < j
      BY <3>1 DEF RingInv, RingClaims, At
    <3>6. \A i \in Window : ring'[Cell(i)] # NoLine /\ ring'[Cell(i)].by = q => i < j
      BY <1>4, <1>8, <3>1, <3>5
    <3> QED
      BY <1>7, <3>1, <3>3, <3>4, <3>5, <3>6
  <2> QED
    BY <1>1, <1>6, <2>1, <2>2, <2>3, <2>4 DEF RingClaims, At
<1>10. /\ \A j \in Window : ring[Cell(j)] # NoLine => ring[Cell(j)] \in LogLines
       /\ \A m \in 1..Len(log) : log[m] \in LogLines
  <2>1. \A i \in 0..(RingSize - 1) : ring[i] # NoLine => ring[i] \in LogLines
    BY DEF TypeOK
  <2>2. \A m \in 1..Len(log) : log[m] \in LogLines
    BY DEF TypeOK
  <2> QED
    BY <1>5, <2>1, <2>2
<1>11. /\ \A q \in Producers : latest[q] = sent[q] /\ latest'[q] = sent'[q]
       /\ \A q \in Producers : sent[q] \in Nat /\ sent[q] <= sent'[q] /\ sent'[q] \in Nat
  <2>1. kind = "ring"
    BY <1>1 DEF Control
  <2>2. \A q \in Producers : pc[q] \notin {"count", "make", "publish"}
    BY <2>1 DEF Control
  <2>3. \A q \in Producers : sent[q] \in Nat
    BY Constants DEF TypeOK
  <2> QED
    BY <1>2, <2>2, <2>3 DEF latest
<1>12. \A m \in 1..Len(log) : log[m].nr <= sent[log[m].by]
  BY <1>10, <1>11, LineParts DEF LogInOrder
<1>13. LogInOrder'
  <2>1. \A m \in 1..Len(log) : log[m].nr <= latest'[log[m].by]
    BY <1>10, <1>11, <1>12, LineParts
  <2> QED
    BY <1>1, <2>1 DEF LogInOrder
<1>14. RingOrder'
  <2>1. \A j \in Window : ring[Cell(j)] # NoLine => ring[Cell(j)].nr <= sent[ring[Cell(j)].by]
    BY DEF RingInv, RingOrder, At
  <2>2. ASSUME NEW j \in Window, ring'[Cell(j)] # NoLine
        PROVE  ring'[Cell(j)].nr <= sent'[ring'[Cell(j)].by]
    <3>1. CASE j = c
      BY <1>2, <1>4, <1>8, <3>1
    <3>2. CASE j # c
      BY <1>8, <1>10, <1>11, <2>1, <2>2, <3>2, LineParts
    <3> QED
      BY <3>1, <3>2
  <2>3. ASSUME NEW j \in Window, NEW m \in 1..Len(log), ring'[Cell(j)] # NoLine,
               ring'[Cell(j)].by = log[m].by
        PROVE  log[m].nr < ring'[Cell(j)].nr
    <3>1. CASE j = c
      BY <1>2, <1>4, <1>8, <1>10, <1>12, <2>3, <3>1, LineParts
    <3>2. CASE j # c
      BY <1>8, <2>3, <3>2 DEF RingInv, RingOrder, At
    <3> QED
      BY <3>1, <3>2
  <2>4. ASSUME NEW i \in Window, NEW j \in Window, i < j,
               ring'[Cell(i)] # NoLine, ring'[Cell(j)] # NoLine,
               ring'[Cell(i)].by = ring'[Cell(j)].by
        PROVE  ring'[Cell(i)].nr < ring'[Cell(j)].nr
    <3>1. CASE j = c
      <4>1. i # c /\ ring'[Cell(i)] = ring[Cell(i)] /\ ring'[Cell(j)] = Line(p)
        BY <1>5, <1>8, <2>4, <3>1
      <4>2. ring[Cell(i)].nr <= sent[p] /\ ring[Cell(i)].nr \in Nat
        BY <1>4, <1>10, <2>1, <2>4, <4>1, LineParts
      <4> QED
        BY <1>2, <1>4, <4>1, <4>2
    <3>2. CASE j # c /\ i = c
      <4>1. ring'[Cell(j)] = ring[Cell(j)] /\ ring'[Cell(i)] = Line(p)
        BY <1>8, <3>2
      <4>2. j < c
        BY <1>3, <1>4, <2>4, <4>1
      <4> QED
        BY <1>5, <2>4, <3>2, <4>2
    <3>3. CASE j # c /\ i # c
      BY <1>8, <2>4, <3>3 DEF RingInv, RingOrder, At
    <3> QED
      BY <3>1, <3>2, <3>3
  <2> QED
    BY <1>1, <1>6, <2>2, <2>3, <2>4 DEF RingOrder, At
<1>15. RingKept'
  <2> SUFFICES ASSUME NEW q \in Producers, NEW m \in 1..sent'[q]
               PROVE  \/ InLog([by |-> q, nr |-> m])
                      \/ \E j \in Window : ring'[Cell(j)] = [by |-> q, nr |-> m]
    BY <1>1, <1>6 DEF RingKept, At, InLog
  <2>1. CASE q = p /\ m = sent[p] + 1
    BY <1>8, <2>1 DEF Line
  <2>2. CASE ~(q = p /\ m = sent[p] + 1)
    <3>1. m \in 1..sent[q] /\ m \in 1..latest[q]
      BY <1>2, <1>11, <2>2
    <3>2. [by |-> q, nr |-> m] # NoLine
      BY <3>1, LatestLines
    <3>3. \/ InLog([by |-> q, nr |-> m])
          \/ \E j \in Window : ring[Cell(j)] = [by |-> q, nr |-> m]
      BY <3>1 DEF RingInv, RingKept, At
    <3> QED
      BY <1>3, <1>8, <3>2, <3>3
  <2> QED
    BY <2>1, <2>2
<1> QED
  BY <1>9, <1>13, <1>14, <1>15 DEF RingInv

(* The consumer takes the line of the first index of the window. *)
LEMMA PopFromRing ==
  ASSUME TypeOK, Control, RingInv, LogInOrder, PopRing
  PROVE  RingInv' /\ LogInOrder'
<1>1. PICK w \in Nat, r \in Nat : w = writeIndex /\ r = readIndex
  BY DEF TypeOK
<1>2. /\ ring[Cell(r)] # NoLine /\ log' = Append(log, ring[Cell(r)])
      /\ ring' = [ring EXCEPT ![Cell(r)] = NoLine] /\ readIndex' = r + 1 /\ kind = "ring"
      /\ UNCHANGED <<writeIndex, pc, sent, index, into>>
  BY <1>1 DEF PopRing, Ready, Cell, producers
<1>3. /\ \A j \in Nat : Cell(j) \in 0..(RingSize - 1)
      /\ \A i, j \in Window : Cell(i) = Cell(j) => i = j
      /\ \A j \in Window : j \in Nat /\ r <= j /\ j < w
      /\ \A j \in Nat : r <= j /\ j < w => j \in Window
      /\ w <= r + RingSize
  BY <1>1, WindowCells DEF RingInv, RingClaims
<1>4. r \in Window /\ r < w
  <2>1. PICK j \in Window : Cell(j) = Cell(r)
    BY <1>1, <1>2, <1>3 DEF RingInv, RingClaims
  <2> QED
    BY <1>1, <1>3, <2>1
<1>5. PICK l \in LogLines : l = ring[Cell(r)] /\ l # NoLine
  BY <1>1, <1>2, <1>3 DEF TypeOK
<1>6. Window' = Window \ {r}
  <2>1. Window = r..(w - 1) /\ Window' = (r + 1)..(w - 1)
    BY <1>1, <1>2 DEF Window
  <2> QED
    BY <1>1, <2>1
<1>7. \A i \in 0..(RingSize - 1) : ring'[i] = IF i = Cell(r) THEN NoLine ELSE ring[i]
  BY <1>2, <1>3 DEF TypeOK
<1>8. \A j \in Window' : j \in Window /\ j # r /\ ring'[Cell(j)] = ring[Cell(j)] /\ r < j
  <2>1. \A j \in Window' : j \in Window /\ j # r /\ j \in Nat /\ r < j
    BY <1>1, <1>3, <1>4, <1>6
  <2>2. \A j \in Window' : Cell(j) # Cell(r) /\ Cell(j) \in 0..(RingSize - 1)
    BY <1>3, <1>4, <2>1
  <2> QED
    BY <1>7, <2>1, <2>2
<1>9. PICK n \in Nat : n = Len(log) + 1
  BY DEF TypeOK
<1>10. /\ Len(log') = n /\ log'[n] = l /\ n \in 1..n
       /\ \A i \in 1..n : i # n => i \in 1..Len(log) /\ log'[i] = log[i]
       /\ \A i \in 1..Len(log) : i \in 1..n /\ log'[i] = log[i]
  BY <1>2, <1>5, <1>9 DEF TypeOK
<1>11. RingClaims'
  <2>1. r + 1 <= w /\ w <= (r + 1) + RingSize
    BY <1>1, <1>3, <1>4, Constants
  <2>2. \A i \in 0..(RingSize - 1) : ring'[i] # NoLine => \E j \in Window' : Cell(j) = i
    BY <1>6, <1>7 DEF RingInv, RingClaims
  <2>3. \A j \in Window' : ring'[Cell(j)] = NoLine =>
          \E p \in Producers : pc[p] = "put" /\ index[p] = Cell(j)
    BY <1>8 DEF RingInv, RingClaims, At
  <2>4. ASSUME NEW p \in Producers, pc[p] = "put"
        PROVE  /\ ring'[index[p]] = NoLine
               /\ \A q \in Producers \ {p} : pc[q] = "put" => index[p] # index[q]
               /\ \E j \in Window' :
                    /\ Cell(j) = index[p]
                    /\ \A i \in Window' : ring'[Cell(i)] # NoLine /\ ring'[Cell(i)].by = p => i < j
    <3>1. /\ ring[index[p]] = NoLine /\ index[p] \in 0..(RingSize - 1)
          /\ \A q \in Producers \ {p} : pc[q] = "put" => index[p] # index[q]
      BY <2>4 DEF RingInv, RingClaims, Control
    <3>2. PICK j \in Window :
            /\ Cell(j) = index[p]
            /\ \A i \in Window : ring[Cell(i)] # NoLine /\ ring[Cell(i)].by = p => i < j
      BY <2>4 DEF RingInv, RingClaims, At
    <3>3. j \in Window'
      BY <1>2, <1>6, <3>1, <3>2
    <3> QED
      BY <1>7, <1>8, <3>1, <3>2, <3>3
  <2> QED
    BY <1>1, <1>2, <2>1, <2>2, <2>3, <2>4 DEF RingClaims, At
<1>12. /\ l.nr <= sent[l.by]
       /\ \A m \in 1..Len(log) : l.by = log[m].by => log[m].nr < l.nr
       /\ \A j \in Window' : ring[Cell(j)] # NoLine /\ ring[Cell(j)].by = l.by => l.nr < ring[Cell(j)].nr
  BY <1>4, <1>5, <1>8 DEF RingInv, RingOrder, At
<1>13. RingOrder'
  <2>1. \A j \in Window' : ring'[Cell(j)] # NoLine => ring'[Cell(j)].nr <= sent[ring'[Cell(j)].by]
    BY <1>8 DEF RingInv, RingOrder, At
  <2>2. ASSUME NEW j \in Window', NEW m \in 1..n, ring'[Cell(j)] # NoLine,
               ring'[Cell(j)].by = log'[m].by
        PROVE  log'[m].nr < ring'[Cell(j)].nr
    <3>1. CASE m = n
      BY <1>8, <1>10, <1>12, <2>2, <3>1
    <3>2. CASE m # n
      BY <1>8, <1>10, <2>2, <3>2 DEF RingInv, RingOrder, At
    <3> QED
      BY <3>1, <3>2
  <2>3. \A i, j \in Window' :
          i < j /\ ring'[Cell(i)] # NoLine /\ ring'[Cell(j)] # NoLine
          /\ ring'[Cell(i)].by = ring'[Cell(j)].by => ring'[Cell(i)].nr < ring'[Cell(j)].nr
    BY <1>8 DEF RingInv, RingOrder, At
  <2>4. sent' = sent /\ Len(log') = n
    BY <1>2, <1>10
  <2> QED
    BY <2>1, <2>2, <2>3, <2>4 DEF RingOrder, At
<1>14. RingKept'
  <2> SUFFICES ASSUME NEW q \in Producers, NEW m \in 1..sent[q], ~InLog([by |-> q, nr |-> m])'
               PROVE  \E j \in Window' : ring'[Cell(j)] = [by |-> q, nr |-> m]
    <3>1. sent' = sent
      BY <1>2
    <3> QED
      BY <3>1 DEF RingKept, At
  <2>1. ~InLog([by |-> q, nr |-> m]) /\ l # [by |-> q, nr |-> m]
    <3>1. DOMAIN log = 1..Len(log) /\ DOMAIN log' = 1..n
      BY <1>2, <1>9 DEF TypeOK
    <3> QED
      BY <1>10, <3>1 DEF InLog
  <2>2. PICK j \in Window : ring[Cell(j)] = [by |-> q, nr |-> m]
    BY <2>1 DEF RingInv, RingKept, At
  <2>3. j # r
    BY <1>5, <2>1, <2>2
  <2> QED
    BY <1>6, <1>8, <2>2, <2>3
<1>15. LogInOrder'
  <2>1. latest' = latest /\ Len(log') = n
    BY <1>2, <1>10 DEF latest
  <2>2. \A q \in Producers : latest[q] = sent[q]
    BY <1>2 DEF latest, Control
  <2>3. \A i \in 1..n : log'[i].nr <= latest[log'[i].by]
    BY <1>5, <1>10, <1>12, <2>2, LineParts DEF LogInOrder
  <2>4. \A i, j \in 1..n : i < j /\ log'[i].by = log'[j].by => log'[i].nr < log'[j].nr
    <3> SUFFICES ASSUME NEW i \in 1..n, NEW j \in 1..n, i < j, log'[i].by = log'[j].by
                 PROVE  log'[i].nr < log'[j].nr
      OBVIOUS
    <3>1. i # n
      OBVIOUS
    <3> QED
      BY <1>10, <1>12, <3>1 DEF LogInOrder
  <2> QED
    BY <2>1, <2>3, <2>4 DEF LogInOrder
<1> QED
  BY <1>11, <1>13, <1>14, <1>15 DEF RingInv

-----------------------------------------------------------------------------
(* The queue and the ring do not change in a step of neither. *)
LEMMA Untouched ==
  ASSUME UNCHANGED <<pc, sent, index, into, writeIndex, readIndex, writeBuffer, buffers, alive,
                     slot, counted, ring, log>>
  PROVE  /\ QueueInv => QueueInv'
         /\ RingInv => RingInv'
         /\ LogInOrder => LogInOrder'
<1>1. Replacing' = Replacing /\ Publishing' = Publishing /\ Settled' = Settled /\ latest' = latest
  BY DEF Replacing, Publishing, Settled, latest
<1>2. QueueBuffers => QueueBuffers'
  BY <1>1 DEF QueueBuffers
<1>3. QueueReplace => QueueReplace'
  BY DEF QueueReplace
<1>4. QueueClaims => QueueClaims'
  BY <1>1 DEF QueueClaims, Line
<1>5. QueueSlots => QueueSlots'
  BY <1>1 DEF QueueSlots
<1>6. QueueCounted => QueueCounted'
  BY <1>1 DEF QueueCounted
<1>7. QueueOrder => QueueOrder'
  BY <1>1 DEF QueueOrder, Waiting
<1>8. QueueKept => QueueKept'
  BY <1>1 DEF QueueKept, Waiting, InLog
<1>9. RingInv => RingInv'
  <2>1. Window' = Window
    BY DEF Window
  <2> QED
    BY <2>1 DEF RingInv, RingClaims, RingOrder, RingKept, At, InLog
<1>10. LogInOrder => LogInOrder'
  BY <1>1 DEF LogInOrder
<1> QED
  BY <1>2, <1>3, <1>4, <1>5, <1>6, <1>7, <1>8, <1>9, <1>10 DEF QueueInv

(* What has gone wrong in the past stays so, and the kind of the buffer, too. *)
LEMMA Past ==
  ASSUME [Next]_vars
  PROVE  kind' = kind /\ (stray => stray') /\ (overrun => overrun')
         /\ (kind = "queue" => (overrun' <=> overrun))
<1>1. CASE UNCHANGED vars
  BY <1>1 DEF vars, control, history
<1>2. ASSUME NEW p \in Producers, Count(p)
      PROVE  /\ kind' = kind /\ (stray => stray') /\ overrun' = overrun
  <2>1. kind' = kind /\ stray' = (stray \/ slot[into[p]][index[p]] # Line(p)) /\ overrun' = overrun
    BY <1>2 DEF Count, control
  <2> QED
    BY <2>1, Zenon
<1>3. ASSUME NEW p \in Producers, RingClaim(p)
      PROVE  /\ kind' = kind /\ stray' = stray /\ (overrun => overrun') /\ kind = "ring"
  <2>1. /\ kind' = kind /\ stray' = stray /\ kind = "ring"
        /\ overrun' = (overrun \/ writeIndex >= readIndex + RingSize)
    BY <1>3 DEF RingClaim, control
  <2> QED
    BY <2>1, Zenon
<1>4. ASSUME NEW p \in Producers,
             Claim(p) \/ Spin(p) \/ Load(p) \/ Mark(p) \/ Make(p) \/ Publish(p) \/ RingPut(p)
      PROVE  kind' = kind /\ stray' = stray /\ overrun' = overrun
  BY <1>4 DEF Claim, Spin, Load, Mark, Make, Publish, RingPut, control, history
<1>5. ASSUME Pop \/ Start \/ Shutdown
      PROVE  kind' = kind /\ (stray => stray') /\ (overrun => overrun')
             /\ (kind = "queue" => (overrun' <=> overrun))
  <2>1. kind' = kind /\ stray' = stray /\ overrun' = overrun
    BY <1>5 DEF Pop, Test, PopQueue, PopRing, PopNothing, Start, Shutdown, history
  <2> QED
    BY <2>1, Zenon
<1>6. ASSUME NEW p \in Producers, Log(p) \/ Pushing(p)
      PROVE  kind' = kind /\ (stray => stray') /\ (overrun => overrun')
             /\ (kind = "queue" => (overrun' <=> overrun))
  <2>1. \/ Count(p) \/ RingClaim(p)
        \/ (Claim(p) \/ Spin(p) \/ Load(p) \/ Mark(p) \/ Make(p) \/ Publish(p) \/ RingPut(p))
    BY <1>6, Zenon DEF Log, Pushing
  <2>2. "ring" # "queue"
    OBVIOUS
  <2> QED
    BY <1>2, <1>3, <1>4, <2>1, <2>2, Zenon
<1>7. CASE Next
  BY <1>5, <1>6, <1>7, Zenon DEF Next
<1> QED
  BY <1>1, <1>7

(* A step of a producer, as long as nothing has gone wrong. *)
LEMMA ProducerStep ==
  ASSUME TypeOK, Control, LogInOrder, kind = "queue" => QueueInv, kind = "ring" => RingInv,
         ~stray', ~overrun', NEW p \in Producers, Log(p) \/ Pushing(p)
  PROVE  /\ LogInOrder' /\ (kind = "queue" => QueueInv') /\ (kind = "ring" => RingInv')
         /\ popper' # "ended"
<1>1. popper' = popper /\ state # "SHUTDOWN"
  BY DEF Log, Pushing, Claim, RingClaim, Spin, Load, Mark, Count, Make, Publish, RingPut, control,
         Control
<1>2. popper # "ended"
  BY <1>1 DEF Control
<1>3. CASE kind = "queue"
  <2>1. Claim(p) \/ Spin(p) \/ Load(p) \/ Mark(p) \/ Count(p) \/ Make(p) \/ Publish(p)
    BY <1>3 DEF Log, Pushing, RingClaim, RingPut, Control
  <2> QED
    BY <1>1, <1>2, <1>3, <2>1, ClaimQueue, SpinQueue, LoadQueue, MarkQueue, CountQueue, MakeQueue,
       PublishQueue
<1>4. CASE kind = "ring"
  <2>1. RingClaim(p) \/ RingPut(p)
    BY <1>4 DEF Log, Pushing, Claim, Spin, Load, Mark, Count, Make, Publish, Control
  <2> QED
    BY <1>1, <1>2, <1>4, <2>1, ClaimRing, PutRing
<1> QED
  BY <1>3, <1>4 DEF TypeOK

(* The drain ends when nothing is left: no producer is at work, so a slot that is
   not marked has not been claimed.                                            *)
LEMMA DrainEnds ==
  ASSUME TypeOK, Control, kind = "queue" => QueueInv, kind = "ring" => RingInv,
         PopNothing, popper = "draining"
  PROVE  \A p \in Producers : \A n \in 1..sent[p] : InLog([by |-> p, nr |-> n])
<1>1. ~Ready /\ \A p \in Producers : pc[p] = "idle"
  BY DEF PopNothing, Control
<1>2. SUFFICES ASSUME NEW p \in Producers, NEW m \in 1..sent[p], ~InLog([by |-> p, nr |-> m])
               PROVE  FALSE
  OBVIOUS
<1>3. m \in 1..latest[p]
  BY <1>1 DEF latest
<1>4. [by |-> p, nr |-> m] # NoLine
  BY <1>3, LatestLines
<1>5. CASE kind = "queue"
  <2>1. PICK k \in 1..Len(buffers), i \in Slots :
          Waiting(k, i) /\ slot[buffers[k]][i] = [by |-> p, nr |-> m]
    BY <1>2, <1>3, <1>5 DEF QueueInv, QueueKept
  <2>2. ~Marked
    BY <1>1, <1>5 DEF Ready
  <2>3. buffers \in Seq(Addresses) /\ buffers # <<>>
    BY <2>1 DEF TypeOK
  <2>4. 1 \in 1..Len(buffers) /\ buffers[1] \in Addresses /\ buffers[1] = Head(buffers)
    BY <2>3
  <2>5. First = buffers[1]
    BY <1>5, <2>3, <2>4 DEF First, Control
  <2>6. First # NoBuffer
    BY <2>4, <2>5, AddressesAssumption
  <2>7. slot[buffers[1]][readIndex] = NoLine /\ readIndex \in Slots
    BY <1>5, <2>2, <2>5, <2>6 DEF Marked, Control
  <2>8. ~Replacing
    BY <1>1 DEF Replacing
  <2>9. 1 = Len(buffers) /\ readIndex >= writeIndex
    <3>1. \A j \in Slots, l \in 1..Len(buffers) : slot[buffers[l]][j] = NoLine =>
            /\ l = Len(buffers)
            /\ j >= writeIndex \/ \E q \in Producers : pc[q] \in {"load", "mark"}
      BY <1>5 DEF QueueInv, QueueSlots
    <3>2. \A q \in Producers : pc[q] \notin {"load", "mark"}
      BY <1>1
    <3> QED
      BY <2>4, <2>7, <3>1, <3>2, Zenon
  <2>10. k = 1 /\ i >= readIndex
    <3>1. k = 1
      <4>1. \A n \in 1..1 : n = 1
        OBVIOUS
      <4>2. k \in 1..1
        BY <2>9, Zenon
      <4> QED
        BY <4>1, <4>2, Zenon
    <3>2. Waiting(k, i)
      BY <2>1
    <3> QED
      BY <3>1, <3>2 DEF Waiting
  <2>11. buffers[1] = writeBuffer
    BY <1>1, <1>5, <2>3, <2>9 DEF QueueInv, QueueBuffers, Publishing
  <2>12. i >= writeIndex
    BY <2>7, <2>9, <2>10, SlotNumbers DEF TypeOK
  <2>13. slot[writeBuffer][i] = NoLine
    BY <1>5, <2>8, <2>12 DEF QueueInv, QueueSlots
  <2> QED
    BY <1>4, <2>1, <2>10, <2>11, <2>13
<1>6. CASE kind = "ring"
  <2>1. PICK j \in Window : At(j) = [by |-> p, nr |-> m]
    BY <1>2, <1>6 DEF RingInv, RingKept
  <2>2. ring[Cell(readIndex)] = NoLine
    BY <1>1, <1>6 DEF Ready, Cell
  <2>3. readIndex \in Window
    BY <2>1 DEF Window, TypeOK
  <2>4. At(readIndex) # NoLine
    BY <1>1, <1>6, <2>3 DEF RingInv, RingClaims
  <2> QED
    BY <2>2, <2>4 DEF At
<1> QED
  BY <1>5, <1>6 DEF TypeOK

(* Every step preserves the invariant. *)
LEMMA InvStep == IInv /\ [Next]_vars => IInv'
<1> SUFFICES ASSUME IInv, [Next]_vars PROVE IInv'
  OBVIOUS
<1>1. TypeOK /\ Control /\ TypeOK' /\ Control'
  BY NextTyped DEF IInv
<1>2. kind' = kind /\ (stray => stray') /\ (overrun => overrun')
      /\ (kind = "queue" => (overrun' <=> overrun))
  BY Past
<1>3. kind' = "queue" => ~overrun'
  BY <1>2, Zenon DEF IInv
<1>4. ASSUME ~stray', ~overrun'
      PROVE  /\ LogInOrder' /\ Drained'
             /\ kind' = "queue" => QueueInv'
             /\ kind' = "ring" => RingInv'
  <2>1. /\ LogInOrder /\ Drained
        /\ kind = "queue" => QueueInv
        /\ kind = "ring" => RingInv
    BY <1>2, <1>4, Zenon DEF IInv
  <2>2. CASE \E p \in Producers : Log(p) \/ Pushing(p)
    <3>1. PICK p \in Producers : Log(p) \/ Pushing(p)
      BY <2>2
    <3>2. /\ LogInOrder' /\ (kind = "queue" => QueueInv') /\ (kind = "ring" => RingInv')
          /\ popper' # "ended"
      BY <1>1, <1>4, <2>1, <3>1, ProducerStep
    <3> QED
      BY <1>2, <3>2 DEF Drained
  <2>3. CASE PopQueue
    <3>1. kind = "queue" /\ popper' # "ended"
      BY <2>3 DEF PopQueue, Popping
    <3>2. QueueInv' /\ LogInOrder'
      BY <1>1, <2>1, <2>3, <3>1, PopLog, PopKeeping, PopFreeing
    <3> QED
      BY <1>2, <3>1, <3>2 DEF Drained
  <2>4. CASE PopRing
    <3>1. kind = "ring" /\ popper' # "ended"
      BY <2>4 DEF PopRing, Popping
    <3>2. RingInv' /\ LogInOrder'
      BY <1>1, <2>1, <2>4, <3>1, PopFromRing
    <3> QED
      BY <1>2, <3>1, <3>2 DEF Drained
  <2>5. CASE Test \/ PopNothing \/ Start \/ Shutdown \/ UNCHANGED vars
    <3>1. UNCHANGED <<pc, sent, index, into, writeIndex, readIndex, writeBuffer, buffers, alive,
                      slot, counted, ring, log>>
      BY <2>5 DEF Test, PopNothing, Start, Shutdown, vars, producers, reading, queueVars
    <3>2. LogInOrder' /\ (kind = "queue" => QueueInv') /\ (kind = "ring" => RingInv')
      BY <2>1, <3>1, Untouched
    <3>3. Drained'
      <4>1. CASE popper' # "ended"
        BY <4>1 DEF Drained
      <4>2. CASE popper = "ended"
        BY <2>1, <3>1, <4>2 DEF Drained, InLog
      <4>3. CASE popper # "ended" /\ popper' = "ended"
        <5>1. PopNothing /\ popper = "draining"
          BY <2>5, <4>3 DEF Test, PopNothing, Popping, Start, Shutdown, vars, control
        <5> QED
          BY <1>1, <2>1, <3>1, <5>1, DrainEnds DEF Drained, InLog
      <4> QED
        BY <4>1, <4>2, <4>3
    <3> QED
      BY <1>2, <3>2, <3>3
  <2> QED
    BY <2>2, <2>3, <2>4, <2>5 DEF Next, Pop
<1> QED
  BY <1>1, <1>3, <1>4, Zenon DEF IInv

(* At the start the only buffer is blank and nothing is logged. *)
LEMMA InitInv == Init => IInv
<1> SUFFICES ASSUME Init PROVE IInv
  OBVIOUS
<1>1. TypeOK /\ Control
  BY InitTyped
<1>2. ~stray /\ ~overrun
  BY Zenon DEF Init
<1>3. /\ writeIndex = 0 /\ readIndex = 0 /\ log = <<>> /\ popper = "waiting"
      /\ \A p \in Producers : pc[p] = "idle" /\ sent[p] = 0
      /\ \A i \in 0..(RingSize - 1) : ring[i] = NoLine
  BY DEF Init, InitRing
<1>4. /\ buffers = <<writeBuffer>> /\ alive = {writeBuffer} /\ writeBuffer \in Addresses
      /\ \A b \in Addresses : slot[b] = Blank /\ counted[b] = 0
  BY <1>1 DEF Init, InitQueue, TypeOK
<1>5. \A p \in Producers : latest[p] = 0
  BY <1>3 DEF latest
<1>6. ~Replacing /\ ~Publishing
  BY <1>3 DEF Replacing, Publishing
<1>7. LogInOrder /\ Drained
  BY <1>3 DEF LogInOrder, Drained
<1>8. /\ Len(buffers) = 1 /\ buffers[1] = writeBuffer
      /\ \A k \in 1..Len(buffers), i \in Slots : slot[buffers[k]][i] = NoLine /\ k = 1 /\ i >= 0
  BY <1>4, Constants
<1>9. QueueBuffers /\ QueueReplace /\ QueueClaims
  BY <1>3, <1>4, <1>6, <1>8 DEF QueueBuffers, QueueReplace, QueueClaims
<1>10. QueueSlots
  BY <1>3, <1>4, <1>6, <1>8, Constants DEF QueueSlots
<1>11. QueueCounted
  <2>1. Settled = {}
    BY <1>3, SlotNumbers DEF Settled
  <2> QED
    BY <1>4, <2>1, FS_EmptySet DEF QueueCounted
<1>12. QueueOrder /\ QueueKept
  BY <1>5, <1>8 DEF QueueOrder, QueueKept
<1>13. RingInv
  <2>1. Window = {}
    <3>1. writeIndex = 0 /\ readIndex = 0
      BY <1>3
    <3> QED
      BY <3>1 DEF Window
  <2>2. RingClaims
    <3>1. readIndex <= writeIndex /\ writeIndex <= readIndex + RingSize
      BY <1>3, Constants
    <3> QED
      BY <1>3, <2>1, <3>1 DEF RingClaims
  <2> QED
    BY <1>3, <2>1, <2>2 DEF RingInv, RingOrder, RingKept
<1> QED
  BY <1>1, <1>2, <1>7, <1>9, <1>10, <1>11, <1>12, <1>13, Zenon DEF IInv, QueueInv

-----------------------------------------------------------------------------
(* The invariant holds in every reachable state. *)
LEMMA Invariant == Spec => []IInv
<1>1. Init => IInv
  BY InitInv
<1>2. IInv /\ [Next]_vars => IInv'
  BY InvStep
<1> QED
  BY <1>1, <1>2, PTL DEF Spec

(* Every variable of the logger keeps its type, in freed memory, too. *)
THEOREM TypeCorrect == Spec => []TypeOK
<1>1. IInv => TypeOK
  BY DEF IInv
<1> QED
  BY <1>1, Invariant, PTL

(* A line that was pushed is popped or waits in a slot that the consumer is going
   to read: push() of either buffer loses none, unless memory was freed under a
   producer or the ring was overrun.                                           *)
THEOREM LinesKeptHolds == Spec => []LinesKept
<1>1. IInv => LinesKept
  <2> SUFFICES ASSUME IInv, ~stray, ~overrun,
                      NEW p \in Producers, NEW line \in Pushed(p), ~InLog(line)
               PROVE  line \in Unread
    BY DEF LinesKept
  <2>1. PICK m \in 1..sent[p] : line = [by |-> p, nr |-> m]
    BY DEF Pushed
  <2>2. TypeOK /\ Control
    BY DEF IInv
  <2>3. CASE kind = "queue"
    <3>1. QueueInv
      BY <2>3, Zenon DEF IInv
    <3>2. m \in 1..latest[p]
      BY <2>2, Constants DEF latest, TypeOK
    <3>3. PICK k \in 1..Len(buffers), i \in Slots : slot[buffers[k]][i] = line
      BY <2>1, <3>1, <3>2 DEF QueueInv, QueueKept
    <3>4. buffers[k] \in alive
      BY <3>1 DEF QueueInv, QueueBuffers
    <3> QED
      BY <3>3, <3>4 DEF Unread
  <2>4. CASE kind = "ring"
    <3>1. RingInv
      BY <2>4, Zenon DEF IInv
    <3>2. PICK j \in Window : ring[Cell(j)] = line
      BY <2>1, <3>1 DEF RingInv, RingKept, At
    <3>3. Cell(j) \in DOMAIN ring
      BY <2>2, <3>1, WindowCells DEF RingInv, RingClaims, TypeOK
    <3> QED
      BY <3>2, <3>3 DEF Unread
  <2> QED
    BY <2>2, <2>3, <2>4 DEF TypeOK
<1> QED
  BY <1>1, Invariant, PTL

(* Lines of one thread are popped in the order of its pushes, and none twice. *)
THEOREM LinesInOrderHolds == Spec => []LinesInOrder
<1>1. IInv => LinesInOrder
  <2> SUFFICES ASSUME IInv, ~stray, ~overrun PROVE LinesInOrder
    BY DEF LinesInOrder
  <2>1. LogInOrder
    BY Zenon DEF IInv
  <2>2. DOMAIN log = 1..Len(log)
    BY DEF IInv, TypeOK
  <2> QED
    BY <2>1, <2>2 DEF LinesInOrder, LogInOrder
<1> QED
  BY <1>1, Invariant, PTL

(* The slot that a producer has claimed is its own until it is marked, in the
   buffer that it loads, which is not freed before.                            *)
THEOREM SlotsExclusiveHolds == Spec => []SlotsExclusive
<1>1. IInv => SlotsExclusive
  <2> SUFFICES ASSUME IInv, ~stray,
                      NEW p \in Producers
               PROVE  /\ pc[p] = "mark" => /\ into[p] = writeBuffer /\ into[p] \in alive
                                           /\ slot[into[p]][index[p]] = NoLine
                      /\ \A q \in Producers \ {p} : {pc[p], pc[q]} \subseteq {"load", "mark"} =>
                           index[p] # index[q]
    BY DEF SlotsExclusive
  <2>1. CASE kind = "queue"
    <3>1. QueueInv
      BY <2>1, Zenon DEF IInv
    <3>2. pc[p] = "mark" => /\ into[p] = writeBuffer /\ slot[into[p]][index[p]] = NoLine
                            /\ buffers # <<>> /\ ~Publishing
      BY <3>1 DEF QueueInv, QueueClaims, QueueReplace, Publishing
    <3>3. buffers # <<>> => Len(buffers) \in 1..Len(buffers)
      BY DEF IInv, TypeOK
    <3>4. ~Publishing /\ buffers # <<>> => writeBuffer \in alive
      BY <3>1, <3>3 DEF QueueInv, QueueBuffers
    <3> QED
      BY <3>1, <3>2, <3>4 DEF QueueInv, QueueClaims
  <2>2. CASE kind = "ring"
    BY <2>2 DEF IInv, Control
  <2> QED
    BY <2>1, <2>2 DEF IInv, TypeOK
<1> QED
  BY <1>1, Invariant, PTL

(* When the logger's thread has ended, everything that was pushed is popped. *)
THEOREM DrainCompleteHolds == Spec => []DrainComplete
<1>1. IInv => DrainComplete
  <2> SUFFICES ASSUME IInv, ~stray, ~overrun, popper = "ended",
                      NEW p \in Producers, NEW line \in Pushed(p)
               PROVE  InLog(line)
    BY DEF DrainComplete
  <2>1. Drained
    BY Zenon DEF IInv
  <2> QED
    BY <2>1 DEF Drained, Pushed
<1> QED
  BY <1>1, Invariant, PTL

-----------------------------------------------------------------------------
(* The logger with its file behaves, up to the file, as the logger. *)
THEOREM LoggerImplemented == FileSpec => Spec
<1>1. FileInit => Init
  BY DEF FileInit
<1>2. [FileNext]_allVars => [Next]_vars
  BY DEF FileNext, Buffering, Writing, allVars
<1> QED
  BY <1>1, <1>2, PTL DEF FileSpec, Spec

(* A step appends a line to the log or leaves it. *)
LEMMA LogGrows ==
  ASSUME TypeOK, Control, Next, log' # log
  PROVE  \E line \in LogLines : log' = Append(log, line)
<1>1. PopQueue \/ PopRing
  BY DEF Next, Log, Pushing, Pop, Claim, RingClaim, Spin, Load, Mark, Count, Make, Publish, RingPut,
         Test, PopNothing, Start, Shutdown
<1>2. CASE PopQueue
  <2>1. kind = "queue" /\ Marked /\ log' = Append(log, slot[First][readIndex])
    BY <1>2 DEF PopQueue
  <2> QED
    BY <2>1, MarkedTyped
<1>3. CASE PopRing
  <2>1. PICK i \in 0..(RingSize - 1) : i = readIndex % RingSize
    BY Constants DEF TypeOK
  <2>2. ring[i] # NoLine /\ log' = Append(log, ring[i])
    BY <1>3, <2>1 DEF PopRing, Ready
  <2> QED
    BY <2>1, <2>2 DEF TypeOK
<1> QED
  BY <1>1, <1>2, <1>3

(* What has been appended to a sequence comes last in its tails. *)
LEMMA TailGrows ==
  ASSUME NEW S, NEW s \in Seq(S), NEW e \in S, NEW d \in 0..Len(s)
  PROVE  /\ SubSeq(s, d + 1, Len(s)) \in Seq(S)
         /\ SubSeq(Append(s, e), d + 1, Len(s) + 1)
              = Append(SubSeq(s, d + 1, Len(s)), e)
<1> DEFINE new == Append(s, e)
           old == SubSeq(s, d + 1, Len(s))
           sub == SubSeq(new, d + 1, Len(s) + 1)
           more == Append(old, e)
<1>1. /\ new \in Seq(S) /\ Len(new) = Len(s) + 1 /\ new[Len(s) + 1] = e
      /\ \A i \in 1..Len(s) : new[i] = s[i]
  BY AppendProperties
<1>2. /\ old \in Seq(S) /\ Len(old) = Len(s) - d
      /\ \A i \in 1..(Len(s) - d) : old[i] = s[d + i]
  <2>1. \A i \in (d + 1)..Len(s) : s[i] \in S
    OBVIOUS
  <2>2. d + 1 \in Int /\ Len(s) \in Int
    OBVIOUS
  <2> HIDE DEF old
  <2>3. /\ old \in Seq(S) /\ Len(old) = IF d + 1 <= Len(s) THEN Len(s) - (d + 1) + 1 ELSE 0
        /\ \A i \in 1..(Len(s) - (d + 1) + 1) : old[i] = s[(d + 1) + i - 1]
    BY <2>1, <2>2, SubSeqProperties DEF old
  <2> QED
    BY <2>3
<1> HIDE DEF new
<1>3. /\ sub \in Seq(S) /\ Len(sub) = Len(s) + 1 - d
      /\ \A i \in 1..(Len(s) + 1 - d) : sub[i] = new[d + i]
  <2>1. \A i \in (d + 1)..(Len(s) + 1) : new[i] \in S
    BY <1>1
  <2>2. d + 1 \in Int /\ Len(s) + 1 \in Int
    OBVIOUS
  <2> HIDE DEF sub
  <2>3. /\ sub \in Seq(S)
        /\ Len(sub) = IF d + 1 <= Len(s) + 1 THEN Len(s) + 1 - (d + 1) + 1 ELSE 0
        /\ \A i \in 1..(Len(s) + 1 - (d + 1) + 1) : sub[i] = new[(d + 1) + i - 1]
    BY <2>1, <2>2, SubSeqProperties DEF sub
  <2> QED
    BY <2>3
<1> HIDE DEF old
<1>4. /\ more \in Seq(S) /\ Len(more) = Len(old) + 1 /\ more[Len(old) + 1] = e
      /\ \A i \in 1..Len(old) : more[i] = old[i]
  BY <1>2, AppendProperties
<1> HIDE DEF sub, more
<1>5. Len(sub) = Len(more)
  BY <1>2, <1>3, <1>4
<1>6. ASSUME NEW i \in 1..Len(sub) PROVE sub[i] = more[i]
  <2>1. i \in 1..(Len(s) + 1 - d) /\ sub[i] = new[d + i]
    BY <1>3
  <2>2. CASE i = Len(s) + 1 - d
    <3>1. d + i = Len(s) + 1 /\ i = Len(old) + 1
      BY <2>2, <1>2
    <3> QED
      BY <2>1, <3>1, <1>1, <1>4
  <2>3. CASE i # Len(s) + 1 - d
    <3>1. i \in 1..(Len(s) - d) /\ d + i \in 1..Len(s)
      BY <2>1, <2>3
    <3>2. new[d + i] = s[d + i]
      BY <3>1, <1>1
    <3>3. old[i] = s[d + i] /\ i \in 1..Len(old)
      BY <3>1, <1>2
    <3>4. more[i] = old[i]
      BY <3>3, <1>4
    <3> QED
      BY <2>1, <3>2, <3>3, <3>4
  <2> QED
    BY <2>2, <2>3
<1>7. sub = more
  BY <1>3, <1>4, <1>5, <1>6, SeqEqual
<1> QED
  BY <1>2, <1>7 DEF sub, more, old, new

(* A prefix has the elements that the longer sequence starts with. *)
LEMMA PrefixElements ==
  ASSUME NEW S, NEW s \in Seq(S), NEW t \in Seq(S)
  PROVE  IsPrefix(s, t) <=> /\ Len(s) <= Len(t)
                            /\ \A i \in 1..Len(s) : s[i] = t[i]
<1>1. SubSeq(s, 1, Len(s)) = s
  BY SubSeqFull
<1>2. ASSUME Len(s) <= Len(t)
      PROVE  /\ SubSeq(t, 1, Len(s)) \in Seq(S) /\ Len(SubSeq(t, 1, Len(s))) = Len(s)
             /\ \A i \in 1..Len(s) : SubSeq(t, 1, Len(s))[i] = t[i]
  <2>1. \A i \in 1..Len(s) : t[i] \in S
    BY <1>2
  <2>2. 1 \in Int /\ Len(s) \in Int
    OBVIOUS
  <2> DEFINE sub == SubSeq(t, 1, Len(s))
  <2> HIDE DEF sub
  <2>3. /\ sub \in Seq(S) /\ Len(sub) = IF 1 <= Len(s) THEN Len(s) - 1 + 1 ELSE 0
        /\ \A i \in 1..(Len(s) - 1 + 1) : sub[i] = t[1 + i - 1]
    BY <2>1, <2>2, SubSeqProperties DEF sub
  <2>4. sub \in Seq(S) /\ Len(sub) = Len(s) /\ \A i \in 1..Len(s) : sub[i] = t[i]
    BY <2>3
  <2> QED
    BY <2>4 DEF sub
<1>3. ASSUME Len(s) <= Len(t), \A i \in 1..Len(s) : s[i] = t[i]
      PROVE  s = SubSeq(t, 1, Len(s))
  BY <1>2, <1>3, SeqEqual
<1> QED
  BY <1>1, <1>2, <1>3 DEF IsPrefix

(* The empty sequence and the sequence itself are prefixes of any. *)
LEMMA PrefixEnds ==
  ASSUME NEW S, NEW t \in Seq(S)
  PROVE  IsPrefix(<<>>, t) /\ IsPrefix(t, t)
<1>1. \A s \in Seq(S) : Len(s) = 0 => IsPrefix(s, t)
  <2> SUFFICES ASSUME NEW s \in Seq(S), Len(s) = 0 PROVE IsPrefix(s, t)
    OBVIOUS
  <2>1. Len(s) <= Len(t) /\ \A i \in 1..Len(s) : s[i] = t[i]
    OBVIOUS
  <2> QED
    BY <2>1, PrefixElements
<1>2. <<>> \in Seq(S) /\ Len(<<>>) = 0
  BY EmptySeq
<1>3. IsPrefix(<<>>, t)
  BY <1>1, <1>2, Zenon
<1>4. Len(t) <= Len(t) /\ \A i \in 1..Len(t) : t[i] = t[i]
  OBVIOUS
<1>5. IsPrefix(t, t)
  BY <1>4, PrefixElements
<1> QED
  BY <1>3, <1>5

(* A prefix of a sequence stays one when the sequence grows. *)
LEMMA PrefixGrows ==
  ASSUME NEW S, NEW s \in Seq(S), NEW t \in Seq(S), NEW e \in S, IsPrefix(s, t)
  PROVE  IsPrefix(s, Append(t, e))
<1>1. /\ Append(t, e) \in Seq(S) /\ Len(Append(t, e)) = Len(t) + 1
      /\ \A i \in 1..Len(t) : Append(t, e)[i] = t[i]
  BY AppendProperties
<1>2. Len(s) <= Len(t) /\ \A i \in 1..Len(s) : s[i] = t[i]
  BY PrefixElements
<1>3. Len(s) <= Len(Append(t, e)) /\ \A i \in 1..Len(s) : s[i] = Append(t, e)[i]
  BY <1>1, <1>2
<1> QED
  BY <1>1, <1>3, PrefixElements

(* What the day's file has got, and that a stream is good just as long as nothing
   has failed since the file was opened.                                       *)
Today == SubSeq(log, dawn + 1, Len(log))

FileInv ==
  /\ good \in BOOLEAN /\ failed \in BOOLEAN /\ good = ~failed
  /\ file \in Seq(LogLines) /\ dawn \in 0..Len(log)
  /\ IsPrefix(file, Today)
  /\ ~failed => file = Today

(* A line is written to the file of its day, where the others of that day are. *)
LEMMA FileStep ==
  ASSUME TypeOK, Control, FileInv, [FileNext]_allVars
  PROVE  FileInv'
<1>1. CASE UNCHANGED allVars \/ Buffering
  <2>1. log' = log /\ UNCHANGED fileVars
    BY <1>1 DEF allVars, vars, Buffering
  <2>2. log' = log /\ good' = good /\ file' = file /\ dawn' = dawn /\ failed' = failed
    BY <2>1 DEF fileVars
  <2>3. Today' = Today
    BY <2>2 DEF Today
  <2> QED
    BY <2>2, <2>3, Zenon DEF FileInv
<1>2. CASE Writing
  <2>1. log \in Seq(LogLines)
    BY DEF TypeOK
  <2>2. PICK line \in LogLines : log' = Append(log, line)
    BY <1>2, LogGrows DEF Writing
  <2>3. Len(log') = Len(log) + 1 /\ Len(log) \in Nat /\ Last(log') = line
    BY <2>1, <2>2 DEF Last
  <2>4. PICK midnight, opened \in BOOLEAN, failing \in SUBSET Streams :
          LET writable == IF midnight THEN roll_file(opened) ELSE good
              before == IF midnight THEN <<>> ELSE file
              written == writable /\ Taken(failing)
          IN /\ good' = written
             /\ file' = IF written THEN Append(before, line) ELSE before
             /\ dawn' = IF midnight THEN Len(log) ELSE dawn
             /\ failed' = \/ ~midnight /\ failed
                          \/ midnight /\ ~opened
                          \/ writable /\ ~Taken(failing)
    BY <1>2, <2>3, ZenonT(60) DEF Writing, write
  <2>5. FileInv
    OBVIOUS
  <2>6. CASE midnight
    <3>1. dawn' = Len(log) /\ good' = (opened /\ Taken(failing)) /\ failed' = ~good'
      BY <2>4, <2>6, Zenon DEF roll_file
    <3>2. file' = IF good' THEN Append(<<>>, line) ELSE <<>>
      BY <2>4, <2>6, <3>1, Zenon DEF roll_file
    <3>3. Today' = Append(<<>>, line)
      <4>1. Len(log) \in 0..Len(log)
        BY <2>1
      <4>2. SubSeq(Append(log, line), Len(log) + 1, Len(log) + 1)
              = Append(SubSeq(log, Len(log) + 1, Len(log)), line)
        BY <2>1, <4>1, TailGrows
      <4>3. SubSeq(log, Len(log) + 1, Len(log)) = <<>>
        BY <2>1, SubSeqEmpty
      <4> QED
        BY <3>1, <2>2, <2>3, <4>2, <4>3 DEF Today
    <3>4. <<>> \in Seq(LogLines) /\ Append(<<>>, line) \in Seq(LogLines)
      OBVIOUS
    <3>5. IsPrefix(<<>>, Append(<<>>, line)) /\ IsPrefix(Append(<<>>, line), Append(<<>>, line))
      BY <3>4, PrefixEnds, Zenon
    <3>6. good' \in BOOLEAN /\ failed' \in BOOLEAN /\ good' = ~failed'
      BY <3>1, Zenon DEF Taken
    <3>7. dawn' \in 0..Len(log')
      BY <3>1, <2>3
    <3>8. CASE good'
      BY <3>2, <3>3, <3>4, <3>5, <3>6, <3>7, <3>8, Zenon DEF FileInv
    <3>9. CASE ~good'
      BY <3>2, <3>3, <3>4, <3>5, <3>6, <3>7, <3>9, Zenon DEF FileInv
    <3> QED
      BY <3>8, <3>9, Zenon
  <2>7. CASE ~midnight
    <3>1. dawn' = dawn /\ good' = (good /\ Taken(failing)) /\ failed' = ~good'
      BY <2>4, <2>5, <2>7, Zenon DEF FileInv
    <3>2. file' = IF good' THEN Append(file, line) ELSE file
      BY <2>4, <2>7, <3>1, Zenon
    <3>3. dawn \in 0..Len(log) /\ file \in Seq(LogLines) /\ IsPrefix(file, Today)
      BY DEF FileInv
    <3>4. Today \in Seq(LogLines) /\ Today' = Append(Today, line)
      BY <2>1, <2>2, <2>3, <3>1, <3>3, TailGrows, ZenonT(60) DEF Today
    <3>5. IsPrefix(file, Append(Today, line))
      BY <3>3, <3>4, PrefixGrows
    <3>6. good' \in BOOLEAN /\ failed' \in BOOLEAN /\ good' = ~failed'
      BY <3>1, Zenon DEF Taken, FileInv
    <3>7. dawn' \in 0..Len(log')
      BY <3>1, <3>3, <2>3
    <3>8. CASE good'
      <4>1. good /\ file = Today
        BY <3>1, <3>8, Zenon DEF FileInv
      <4>2. file' = Append(Today, line) /\ Append(Today, line) \in Seq(LogLines)
        BY <4>1, <3>2, <3>4, <3>8
      <4>3. IsPrefix(Append(Today, line), Append(Today, line))
        BY <4>2, PrefixEnds, Zenon
      <4> QED
        BY <4>2, <4>3, <3>4, <3>6, <3>7, Zenon DEF FileInv
    <3>9. CASE ~good'
      <4>1. file' = file
        BY <3>2, <3>9
      <4> QED
        BY <4>1, <3>3, <3>4, <3>5, <3>6, <3>7, <3>9, Zenon DEF FileInv
    <3> QED
      BY <3>8, <3>9, Zenon
  <2> QED
    BY <2>6, <2>7
<1> QED
  BY <1>1, <1>2 DEF FileNext

(* The file of the day holds the lines popped on that day, in order: all of them while
   no stream has failed, else those of before the failure.                           *)
THEOREM LinesFiledHolds == FileSpec => []LinesFiled
<1>1. Init /\ FileInit => FileInv
  <2> SUFFICES ASSUME Init, FileInit PROVE FileInv
    OBVIOUS
  <2>1. log = <<>> /\ dawn = 0 /\ file = <<>> /\ Len(log) = 0
    BY DEF Init, FileInit
  <2>2. <<>> \in Seq(LogLines)
    OBVIOUS
  <2>3. Today = <<>>
    BY <2>1, SubSeqEmpty DEF Today
  <2>4. IsPrefix(<<>>, <<>>)
    BY <2>2, PrefixEnds, Zenon
  <2>5. dawn \in 0..Len(log)
    BY <2>1
  <2>6. good \in BOOLEAN /\ failed = ~good
    BY DEF FileInit
  <2> QED
    BY <2>1, <2>2, <2>3, <2>4, <2>5, <2>6, Zenon DEF FileInv
<1>2. IInv /\ FileInv /\ [FileNext]_allVars => FileInv'
  BY FileStep DEF IInv
<1>3. FileInv => LinesFiled
  BY Zenon DEF FileInv, LinesFiled, Today
<1>4. FileInit => Init
  BY DEF FileInit
<1> QED
  BY <1>1, <1>2, <1>3, <1>4, LoggerImplemented, Invariant, PTL DEF FileSpec
=============================================================================
