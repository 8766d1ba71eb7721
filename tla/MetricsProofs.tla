---------------------------- MODULE MetricsProofs ----------------------------
(* Proofs about MetricsPipeline, for any set of workers, any databases, and with
   or without failures.                                                      *)
EXTENDS MetricsPipeline, SequenceTheorems, TLAPS

(* Nothing of worker w that MongoDB holds is as late as metric n. *)
Above(w, n) == \A i \in DOMAIN mongo : mongo[i].by = w => mongo[i].nr < n

(* Nothing of worker w waits that is as early as metric n. *)
Below(w, n) == \A i \in DOMAIN queue[w] : n < queue[w][i]

(* A worker handles a request only if it may publish one more metric. *)
RequestsBounded == \A w \in handling : sent[w] < MaxMetrics

(* The poller has a metric in hand while it processes one. *)
HandFilled == poller \in {"lookup", "mongo", "series"} <=> hand # NoMetric

(* What waits was published, in this order, and after what is saved. *)
QueueInOrder ==
  \A w \in Workers :
    /\ \A i \in DOMAIN queue[w] : queue[w][i] <= sent[w] /\ Above(w, queue[w][i])
    /\ \A i, j \in DOMAIN queue[w] : i < j => queue[w][i] < queue[w][j]

(* What is in hand comes after what is saved and before what waits. *)
HandInOrder ==
  poller \in {"lookup", "mongo"} =>
    hand.nr <= sent[hand.by] /\ Above(hand.by, hand.nr) /\ Below(hand.by, hand.nr)

(* What is saved was published. *)
SavedPublished == \A i \in DOMAIN mongo : mongo[i].nr <= sent[mongo[i].by]

IInv == /\ TypeOK /\ RequestsBounded /\ HandFilled
        /\ QueueInOrder /\ HandInOrder /\ SavedPublished

-----------------------------------------------------------------------------
(* The elements of a sequence are of its type. *)
LEMMA Elements ==
  ASSUME NEW S, NEW s \in Seq(S)
  PROVE  DOMAIN s \subseteq Nat /\ \A i \in DOMAIN s : s[i] \in S
<1>1. Len(s) \in Nat /\ DOMAIN s = 1..Len(s)
  BY LenProperties
<1> QED
  BY <1>1, ElementOfSeq

(* What is at the front of a nonempty queue, and behind it. *)
LEMMA Front ==
  ASSUME NEW S, NEW s \in Seq(S), s # <<>>
  PROVE  /\ Head(s) \in S /\ Tail(s) \in Seq(S)
         /\ 1 \in DOMAIN s /\ Head(s) = s[1]
         /\ \A i \in DOMAIN Tail(s) :
              i \in Nat /\ i + 1 \in DOMAIN s /\ 1 < i + 1 /\ Tail(s)[i] = s[i + 1]
<1>1. Len(s) \in Nat \ {0} /\ DOMAIN s = 1..Len(s)
  BY EmptySeq, LenProperties
<1>2. /\ Head(s) = s[1] /\ Head(s) \in S /\ Tail(s) \in Seq(S)
      /\ Len(Tail(s)) = Len(s) - 1 /\ \A i \in 1..(Len(s) - 1) : Tail(s)[i] = s[i + 1]
  BY HeadTailProperties
<1>3. DOMAIN Tail(s) = 1..(Len(s) - 1)
  BY <1>2, LenProperties
<1> QED
  BY <1>1, <1>2, <1>3

(* What an element at the end adds. *)
LEMMA Back ==
  ASSUME NEW S, NEW s \in Seq(S), NEW e \in S
  PROVE  /\ Append(s, e) \in Seq(S) /\ DOMAIN s \subseteq Nat
         /\ \A i \in DOMAIN Append(s, e) :
              \/ i \in DOMAIN s /\ Append(s, e)[i] = s[i]
              \/ i \notin DOMAIN s /\ Append(s, e)[i] = e /\ \A j \in DOMAIN s : j < i
         /\ \A i \in DOMAIN s : i \in DOMAIN Append(s, e)
         /\ \A i, j \in DOMAIN Append(s, e) : i < j => i \in DOMAIN s
<1>1. /\ Append(s, e) \in Seq(S) /\ Len(Append(s, e)) = Len(s) + 1
      /\ \A i \in 1..Len(s) : Append(s, e)[i] = s[i]
      /\ Append(s, e)[Len(s) + 1] = e
  BY AppendProperties
<1>2. Len(s) \in Nat /\ DOMAIN s = 1..Len(s) /\ DOMAIN Append(s, e) = 1..(Len(s) + 1)
  BY <1>1, LenProperties
<1>3. \A i \in 1..(Len(s) + 1) : i \in 1..Len(s) \/ i = Len(s) + 1
  BY <1>2
<1> QED
  BY <1>1, <1>2, <1>3

(* The invariant holds at the start. *)
LEMMA InitIInv == Init => IInv
<1> SUFFICES ASSUME Init PROVE IInv
  OBVIOUS
<1>1. 0 \in 0..MaxMetrics
  BY MaxMetricsAssumption
<1>2. /\ sent = [w \in Workers |-> 0] /\ queue = [w \in Workers |-> <<>>]
      /\ mongo = <<>> /\ series = <<>>
      /\ handling = {} /\ poller = "connecting" /\ hand = NoMetric
  BY DEF Init
<1>3. TypeOK
  <2>1. \A S : <<>> \in Seq(S)
    BY EmptySeq
  <2> QED
    BY <1>1, <1>2, <2>1 DEF Init, TypeOK
<1>4. DOMAIN mongo = {} /\ \A w \in Workers : DOMAIN queue[w] = {}
  BY <1>2
<1> QED
  BY <1>2, <1>3, <1>4
  DEF IInv, RequestsBounded, HandFilled, QueueInOrder, HandInOrder, SavedPublished

-----------------------------------------------------------------------------
(* A worker publishes: the new metric is later than all others of its own. *)
LEMMA PublishKeeps ==
  ASSUME IInv, NEW w \in Workers, Publish(w)
  PROVE  IInv'
<1> USE DEF IInv
<1>1. sent[w] < MaxMetrics /\ sent[w] \in Nat /\ MaxMetrics \in Nat
  BY MaxMetricsAssumption DEF Publish, RequestsBounded, TypeOK
<1>2. /\ sent' = [sent EXCEPT ![w] = sent[w] + 1]
      /\ queue' = [queue EXCEPT ![w] = Append(queue[w], sent[w] + 1)]
      /\ handling' = handling \ {w}
      /\ UNCHANGED <<main, running, poller, hand, mongo, series, base, early, owed, failed>>
  BY DEF Publish, databases, history
<1>3. sent[w] + 1 \in 1..MaxMetrics /\ queue[w] \in Seq(1..MaxMetrics)
  BY <1>1 DEF TypeOK
<1>4. /\ queue'[w] \in Seq(1..MaxMetrics)
      /\ \A i \in DOMAIN queue'[w] :
              \/ i \in DOMAIN queue[w] /\ queue'[w][i] = queue[w][i]
              \/ i \notin DOMAIN queue[w] /\ queue'[w][i] = sent[w] + 1
      /\ \A i, j \in DOMAIN queue'[w] : i < j => i \in DOMAIN queue[w]
  BY <1>2, <1>3, Back DEF TypeOK
<1>5. /\ \A v \in Workers : sent[v] \in Nat /\ sent[v] <= sent'[v]
      /\ sent'[w] = sent[w] + 1
      /\ \A v \in Workers \ {w} : queue'[v] = queue[v]
  BY <1>2 DEF TypeOK
<1>6. TypeOK'
  <2>1. sent' \in [Workers -> 0..MaxMetrics]
    BY <1>2, <1>3 DEF TypeOK
  <2>2. queue' \in [Workers -> Seq(1..MaxMetrics)]
    BY <1>2, <1>4 DEF TypeOK
  <2> QED
    BY <1>2, <2>1, <2>2 DEF TypeOK
<1>7. RequestsBounded'
  BY <1>2 DEF RequestsBounded, TypeOK
<1>8. HandFilled'
  BY <1>2 DEF HandFilled
<1>9. SavedPublished'
  <2>1. \A i \in DOMAIN mongo : mongo[i] \in Metrics
    BY LenProperties, ElementOfSeq DEF TypeOK
  <2> QED
    BY <1>2, <1>5, <2>1 DEF SavedPublished, Metrics
<1>10. QueueInOrder'
  <2>1. \A i \in DOMAIN mongo : mongo[i].by = w => mongo[i].nr < sent[w] + 1
    <3>1. \A i \in DOMAIN mongo : mongo[i] \in Metrics
      BY LenProperties, ElementOfSeq DEF TypeOK
    <3> QED
      BY <1>1, <3>1 DEF SavedPublished, Metrics
  <2>0. \A v \in Workers : \A i \in DOMAIN queue[v] : queue[v][i] \in 1..MaxMetrics
    BY Elements DEF TypeOK
  <2>2. \A i \in DOMAIN queue[w] : queue[w][i] <= sent[w] /\ queue[w][i] \in Nat
    BY <2>0 DEF QueueInOrder
  <2>3. ASSUME NEW i \in DOMAIN queue'[w]
        PROVE  queue'[w][i] <= sent'[w] /\ Above(w, queue[w][i])'
    <3>1. CASE i \in DOMAIN queue[w] /\ queue'[w][i] = queue[w][i]
      <4>1. queue[w][i] <= sent[w] /\ queue[w][i] \in Nat /\ Above(w, queue[w][i])
        BY <2>2, <3>1 DEF QueueInOrder
      <4> QED
        BY <1>1, <1>2, <1>5, <3>1, <4>1 DEF Above
    <3>2. CASE queue'[w][i] = sent[w] + 1
      BY <1>1, <1>2, <1>5, <2>1, <3>2 DEF Above
    <3> QED
      BY <1>4, <3>1, <3>2
  <2>4. ASSUME NEW i \in DOMAIN queue'[w], NEW j \in DOMAIN queue'[w], i < j
        PROVE  queue'[w][i] < queue'[w][j]
    <3>1. i \in DOMAIN queue[w] /\ queue'[w][i] = queue[w][i]
      BY <1>4, <2>4
    <3>2. CASE j \in DOMAIN queue[w] /\ queue'[w][j] = queue[w][j]
      BY <2>4, <3>1, <3>2 DEF QueueInOrder
    <3>3. CASE queue'[w][j] = sent[w] + 1
      BY <1>1, <2>2, <3>1, <3>3
    <3> QED
      BY <1>4, <3>2, <3>3
  <2>5. ASSUME NEW v \in Workers \ {w}, NEW i \in DOMAIN queue'[v]
        PROVE  /\ queue'[v][i] <= sent'[v] /\ Above(v, queue[v][i])'
               /\ \A j \in DOMAIN queue'[v] : i < j => queue'[v][i] < queue'[v][j]
    <3>1. queue'[v] = queue[v] /\ sent[v] <= sent'[v] /\ sent[v] \in Nat
      BY <1>5
    <3>2. queue[v][i] \in Nat /\ queue[v][i] <= sent[v] /\ Above(v, queue[v][i])
      BY <2>0, <3>1 DEF QueueInOrder
    <3>3. sent'[v] = sent[v]
      BY <1>2 DEF TypeOK
    <3>4. \A j \in DOMAIN queue[v] : i < j => queue[v][i] < queue[v][j]
      BY <3>1 DEF QueueInOrder
    <3> QED
      BY <1>2, <3>1, <3>2, <3>3, <3>4 DEF Above
  <2>6. ASSUME NEW v \in Workers
        PROVE  /\ \A i \in DOMAIN queue'[v] : queue'[v][i] <= sent'[v] /\ Above(v, queue[v][i])'
               /\ \A i, j \in DOMAIN queue'[v] : i < j => queue'[v][i] < queue'[v][j]
    <3>1. CASE v = w
      BY <2>3, <2>4, <3>1
    <3>2. CASE v # w
      BY <2>5, <3>2
    <3> QED
      BY <3>1, <3>2
  <2> QED
    BY <2>6 DEF QueueInOrder
<1>11. HandInOrder'
  <2> SUFFICES ASSUME poller \in {"lookup", "mongo"}
               PROVE  (hand.nr <= sent[hand.by] /\ Above(hand.by, hand.nr) /\ Below(hand.by, hand.nr))'
    BY <1>2 DEF HandInOrder
  <2>1. /\ hand.nr \in Nat /\ hand.by \in Workers
        /\ hand.nr <= sent[hand.by] /\ Above(hand.by, hand.nr) /\ Below(hand.by, hand.nr)
    BY DEF HandInOrder, HandFilled, TypeOK, Metrics
  <2>2. hand.nr <= sent'[hand.by]
    <3>1. sent[hand.by] \in Nat /\ sent[hand.by] <= sent'[hand.by] /\ sent'[hand.by] \in Nat
      BY <1>5, <1>6, <2>1 DEF TypeOK
    <3> QED
      BY <2>1, <3>1
  <2>3. \A i \in DOMAIN queue'[hand.by] : hand.nr < queue'[hand.by][i]
    BY <1>1, <1>4, <1>5, <2>1, SMTT(40) DEF Below
  <2> QED
    BY <1>2, <2>1, <2>2, <2>3 DEF Above, Below
<1> QED
  BY <1>6, <1>7, <1>8, <1>9, <1>10, <1>11

(* The oldest metric of a queue: the others come later. *)
LEMMA DequeueKeeps ==
  ASSUME IInv, NEW w \in Workers, Dequeue(w)
  PROVE  IInv'
<1> USE DEF IInv
<1> DEFINE n == Head(queue[w])
<1>1. /\ queue[w] \in Seq(1..MaxMetrics) /\ queue[w] # <<>>
      /\ poller = "polling" /\ poller' = "lookup"
      /\ hand' = [by |-> w, nr |-> n]
      /\ queue' = [queue EXCEPT ![w] = Tail(queue[w])]
      /\ UNCHANGED <<main, handling, running, sent, mongo, series, base, early, owed, failed>>
  BY DEF Dequeue, Goto, databases, history, TypeOK
<1>2. /\ n \in 1..MaxMetrics /\ Tail(queue[w]) \in Seq(1..MaxMetrics)
      /\ 1 \in DOMAIN queue[w] /\ n = queue[w][1]
      /\ \A i \in DOMAIN Tail(queue[w]) :
           i \in Nat /\ i + 1 \in DOMAIN queue[w] /\ 1 < i + 1 /\ Tail(queue[w])[i] = queue[w][i + 1]
  BY <1>1, Front
<1>3. queue'[w] = Tail(queue[w]) /\ \A v \in Workers \ {w} : queue'[v] = queue[v]
  BY <1>1 DEF TypeOK
<1>4. hand' \in Metrics /\ hand' # NoMetric /\ hand'.by = w /\ hand'.nr = n
  BY <1>1, <1>2, NoMetricAssumption DEF Metrics
<1>5. TypeOK'
  <2>1. queue' \in [Workers -> Seq(1..MaxMetrics)]
    BY <1>1, <1>2 DEF TypeOK
  <2> QED
    BY <1>1, <1>4, <2>1 DEF TypeOK, Draining
<1>6. RequestsBounded' /\ HandFilled' /\ SavedPublished'
  BY <1>1, <1>4 DEF RequestsBounded, HandFilled, SavedPublished
<1>7. QueueInOrder'
  <2>1. ASSUME NEW v \in Workers
        PROVE  /\ \A i \in DOMAIN queue'[v] : queue'[v][i] <= sent[v] /\ Above(v, queue[v][i])'
               /\ \A i, j \in DOMAIN queue'[v] : i < j => queue'[v][i] < queue'[v][j]
    <3>1. CASE v = w
      <4>1. \A i \in DOMAIN queue'[w] : queue'[w][i] <= sent[w] /\ Above(w, queue[w][i])'
        BY <1>1, <1>2, <1>3 DEF QueueInOrder, Above
      <4>2. ASSUME NEW i \in DOMAIN queue'[w], NEW j \in DOMAIN queue'[w], i < j
            PROVE  queue'[w][i] < queue'[w][j]
        <5>1. i + 1 < j + 1 /\ i + 1 \in DOMAIN queue[w] /\ j + 1 \in DOMAIN queue[w]
          BY <1>2, <1>3, <4>2
        <5>2. queue[w][i + 1] < queue[w][j + 1]
          BY <5>1 DEF QueueInOrder
        <5> QED
          BY <1>2, <1>3, <5>2
      <4> QED
        BY <3>1, <4>1, <4>2
    <3>2. CASE v # w
      BY <1>1, <1>3, <3>2 DEF QueueInOrder, Above
    <3> QED
      BY <3>1, <3>2
  <2> QED
    BY <1>1, <2>1 DEF QueueInOrder
<1>8. HandInOrder'
  <2>1. n <= sent[w] /\ Above(w, n)
    BY <1>2 DEF QueueInOrder
  <2>2. \A i \in DOMAIN queue'[w] : n < queue'[w][i]
    BY <1>2, <1>3 DEF QueueInOrder
  <2> QED
    BY <1>1, <1>4, <2>1, <2>2 DEF HandInOrder, Above, Below
<1> QED
  BY <1>5, <1>6, <1>7, <1>8

(* The metric in hand is saved: what waits comes later. *)
LEMMA SaveKeeps ==
  ASSUME IInv, SaveMongo, mongo' # mongo
  PROVE  IInv'
<1> USE DEF IInv
<1>1. /\ poller = "mongo" /\ poller' = "series" /\ mongo' = Append(mongo, hand)
      /\ UNCHANGED <<main, handling, running, sent, queue, hand, series, base, early, owed>>
      /\ failed' = failed
  BY DEF SaveMongo, Goto
<1>2. /\ hand \in Metrics /\ hand.by \in Workers /\ hand.nr \in Nat
      /\ hand.nr <= sent[hand.by] /\ Below(hand.by, hand.nr)
  BY <1>1 DEF HandFilled, HandInOrder, TypeOK, Metrics
<1>3. /\ mongo' \in Seq(Metrics)
      /\ \A i \in DOMAIN mongo' : (i \in DOMAIN mongo /\ mongo'[i] = mongo[i]) \/ mongo'[i] = hand
  BY <1>1, <1>2, Back DEF TypeOK
<1>4. TypeOK' /\ RequestsBounded' /\ HandFilled' /\ HandInOrder'
  BY <1>1, <1>3 DEF TypeOK, RequestsBounded, HandFilled, HandInOrder, Draining
<1>5. SavedPublished'
  BY <1>1, <1>2, <1>3 DEF SavedPublished
<1>6. QueueInOrder'
  <2>1. ASSUME NEW v \in Workers, NEW i \in DOMAIN queue[v]
        PROVE  Above(v, queue[v][i])'
    BY <1>1, <1>2, <1>3 DEF QueueInOrder, Above, Below
  <2> QED
    BY <1>1, <2>1 DEF QueueInOrder
<1> QED
  BY <1>4, <1>5, <1>6

(* The process starts again: nothing waits. *)
LEMMA RestartKeeps ==
  ASSUME IInv, Restart
  PROVE  IInv'
<1> USE DEF IInv
<1>1. /\ handling' = {} /\ queue' = [w \in Workers |-> <<>>] /\ running' = FALSE
      /\ poller' = "connecting" /\ hand' = NoMetric /\ main' = "serving"
      /\ base' = sent /\ early' = FALSE /\ owed' = sent /\ failed' = FALSE
      /\ UNCHANGED <<sent, mongo, series>>
  BY DEF Restart, databases
<1>2. TypeOK'
  <2>1. <<>> \in Seq(1..MaxMetrics)
    BY EmptySeq
  <2> QED
    BY <1>1, <2>1 DEF TypeOK
<1> QED
  BY <1>1, <1>2
  DEF RequestsBounded, HandFilled, QueueInOrder, HandInOrder, SavedPublished

(* The other steps move no metric, except that some put the one in hand away. *)
LEMMA OthersKeep ==
  ASSUME IInv, UNCHANGED <<sent, queue, mongo>>, TypeOK', RequestsBounded', HandFilled',
         poller' \in {"lookup", "mongo"} => hand' = hand /\ poller \in {"lookup", "mongo"}
  PROVE  IInv'
BY DEF IInv, QueueInOrder, HandInOrder, SavedPublished, Above, Below

(* Every step keeps the invariant. *)
LEMMA NextIInv == IInv /\ [Next]_vars => IInv'
<1> SUFFICES ASSUME IInv, [Next]_vars PROVE IInv'
  OBVIOUS
<1> USE DEF Goto
<1>1. ASSUME NEW w \in Workers, Begin(w) PROVE IInv'
  <2>1. TypeOK' /\ RequestsBounded' /\ HandFilled'
    BY <1>1, MaxMetricsAssumption
    DEF Begin, IInv, TypeOK, RequestsBounded, HandFilled, databases, history
  <2> QED
    BY <1>1, <2>1, OthersKeep DEF Begin, databases
<1>2. ASSUME NEW w \in Workers, Publish(w) PROVE IInv'
  BY <1>2, PublishKeeps
<1>3. ASSUME NEW w \in Workers, Dequeue(w) PROVE IInv'
  BY <1>3, DequeueKeeps
<1>4. CASE SaveMongo /\ mongo' # mongo
  BY <1>4, SaveKeeps
<1>5. CASE Restart
  BY <1>5, RestartKeeps
<1>6. CASE SaveMongo /\ mongo' = mongo
  <2>1. TypeOK' /\ RequestsBounded' /\ HandFilled'
    BY <1>6 DEF SaveMongo, IInv, TypeOK, RequestsBounded, HandFilled, Draining, history
  <2> QED
    BY <1>6, <2>1, OthersKeep DEF SaveMongo
<1>7. CASE Start \/ Test \/ Empty \/ Lookup
  <2>1. TypeOK' /\ RequestsBounded' /\ HandFilled'
    BY <1>7 DEF Start, Test, Empty, Lookup, IInv, TypeOK, RequestsBounded, HandFilled,
                Draining, databases, history
  <2> QED
    BY <1>7, <2>1, OthersKeep DEF Start, Test, Empty, Lookup, databases
<1>8. CASE LookupFails \/ SaveSeries
  <2>1. TypeOK' /\ RequestsBounded' /\ HandFilled'
    BY <1>8 DEF LookupFails, SaveSeries, IInv, TypeOK, RequestsBounded, HandFilled,
                Draining, databases, history
  <2> QED
    BY <1>8, <2>1, OthersKeep DEF LookupFails, SaveSeries, databases
<1>9. CASE Signal \/ Stop \/ Join
  <2>1. TypeOK' /\ RequestsBounded' /\ HandFilled'
    BY <1>9 DEF Signal, Stop, Join, IInv, TypeOK, RequestsBounded, HandFilled,
                databases, history
  <2> QED
    BY <1>9, <2>1, OthersKeep DEF Signal, Stop, Join, databases
<1>10. CASE UNCHANGED vars
  BY <1>10, OthersKeep
  DEF vars, threads, databases, history, IInv, TypeOK, RequestsBounded, HandFilled, Draining
<1> QED
  BY <1>1, <1>2, <1>3, <1>4, <1>5, <1>6, <1>7, <1>8, <1>9, <1>10 DEF Next, Poll, Main

(* The invariant holds in every reachable state. *)
LEMMA PipelineInductive == Spec => []IInv
BY InitIInv, NextIInv, PTL DEF Spec

(* Every variable keeps its type. *)
THEOREM TypeCorrect == Spec => []TypeOK
<1>1. IInv => TypeOK
  BY DEF IInv
<1> QED BY <1>1, PipelineInductive, PTL

-----------------------------------------------------------------------------
(* The pipeline implements the log: publishing is publishing, saving records,
   and every other step, failures and restarts included, leaves the log alone. *)

(* A step of the pipeline is a step of the log, or none. *)
LEMMA StepsOfLog ==
  ASSUME IInv, [Next]_vars
  PROVE  [Log!Next]_<<sent, mongo>>
<1>1. ASSUME NEW w \in Workers, Publish(w) PROVE Log!Publish(w)
  BY <1>1 DEF Publish, Log!Publish, databases
<1>2. CASE SaveMongo /\ mongo' # mongo
  <2>1. /\ poller = "mongo" /\ mongo' = Append(mongo, hand) /\ sent' = sent
    BY <1>2 DEF SaveMongo
  <2>2. /\ hand \in Metrics /\ hand.nr <= sent[hand.by] /\ Above(hand.by, hand.nr)
    BY <2>1 DEF IInv, HandFilled, HandInOrder, TypeOK
  <2>3. /\ hand.by \in Workers /\ hand.nr \in 1..sent[hand.by]
        /\ hand = [by |-> hand.by, nr |-> hand.nr]
    BY <2>2 DEF Metrics, IInv, TypeOK
  <2>4. Log!Record(hand.by, hand.nr)
    BY <2>1, <2>2, <2>3 DEF Log!Record, Above
  <2> QED
    BY <2>3, <2>4 DEF Log!Next
<1>3. CASE UNCHANGED <<sent, mongo>>
  BY <1>3
<1> QED
  BY <1>1, <1>2, <1>3
  DEF Log!Next, Next, Poll, Main, Begin, Start, Test, Empty, Lookup, LookupFails, SaveMongo,
      SaveSeries, Dequeue, Signal, Stop, Join, Restart, vars, threads, databases, history

(* Whatever fails, MongoDB holds a log of what was published: nothing twice, and
   each worker's metrics in order.                                           *)
THEOREM Implements == Spec => ImplementsLog
<1>1. Init => Log!Init
  BY DEF Init, Log!Init
<1> QED BY <1>1, StepsOfLog, PipelineInductive, PTL DEF Spec, ImplementsLog, Log!Spec

-----------------------------------------------------------------------------
(* The pipeline loses nothing while nothing fails, and stop() cuts no drain short.
   The argument follows one metric from the queue through the hand of the poller
   into the database.                                                          *)

(* A stop is owed no more than was published. *)
OwedPublished == \A w \in Workers : owed[w] <= sent[w]

(* After MongoClient::save() what the poller has in hand is saved. *)
HandSaved == poller = "series" => Saved(hand.by, hand.nr)

(* The poller leaves loop() only with everything saved that a stop is owed. *)
Drained ==
  poller \in {"connecting", "testing", "ended"} =>
    \A w \in Workers : \A n \in (base[w] + 1)..owed[w] : Saved(w, n)

(* What holds of pipelines into MongoDB while nothing fails. *)
Kept == OwedPublished /\ NothingLost /\ (~failed /\ Mongo => HandSaved /\ Drained)

-----------------------------------------------------------------------------
(* At the start nothing was published. *)
LEMMA InitKept == Init => Kept
<1> SUFFICES ASSUME Init PROVE Kept
  OBVIOUS
<1>1. \A w \in Workers : sent[w] = 0 /\ base[w] = 0 /\ owed[w] = 0
  BY DEF Init
<1>2. \A w \in Workers : (base[w] + 1)..sent[w] = {} /\ (base[w] + 1)..owed[w] = {}
  BY <1>1
<1>3. poller = "connecting"
  BY DEF Init
<1> QED
  BY <1>1, <1>2, <1>3 DEF Kept, OwedPublished, NothingLost, HandSaved, Drained

(* What is saved stays saved. *)
LEMMA SavedStays ==
  ASSUME IInv, [Next]_vars, NEW w, NEW n, Saved(w, n)
  PROVE  Saved(w, n)'
<1>1. CASE mongo' = mongo
  BY <1>1 DEF Saved
<1>2. CASE SaveMongo /\ mongo' # mongo
  <2>1. /\ mongo \in Seq(Metrics) /\ hand \in Metrics
        /\ mongo' = Append(mongo, hand)
    BY <1>2 DEF SaveMongo, IInv, TypeOK, HandFilled
  <2>2. PICK i \in DOMAIN mongo : mongo[i] = [by |-> w, nr |-> n]
    BY DEF Saved
  <2>3. i \in DOMAIN mongo' /\ mongo'[i] = mongo[i]
    BY <2>1, Back
  <2> QED
    BY <2>2, <2>3 DEF Saved
<1> QED
  BY <1>1, <1>2
  DEF Next, Poll, Main, Begin, Publish, Start, Test, Empty, Lookup, LookupFails, SaveMongo,
      SaveSeries, Dequeue, Signal, Stop, Join, Restart, vars, databases

(* Steps that touch none of what a metric passes through keep Kept, unless the
   poller leaves loop() by them or ends a save.                              *)
LEMMA KeptFrame ==
  ASSUME IInv, Kept, UNCHANGED <<sent, queue, hand, mongo, base, owed, failed>>,
         poller' # poller => poller' # "series",
         poller' \in {"connecting", "testing", "ended"} =>
           poller \in {"connecting", "testing", "ended"}
  PROVE  Kept'
BY DEF Kept, OwedPublished, NothingLost, HandSaved, Drained, Saved, Waiting

(* A worker publishes: the metric waits. *)
LEMMA KeptPublish ==
  ASSUME IInv, Kept, NEW w \in Workers, Publish(w), [Next]_vars
  PROVE  Kept'
<1>1. sent[w] < MaxMetrics /\ sent[w] \in Nat /\ MaxMetrics \in Nat
  BY MaxMetricsAssumption DEF IInv, Publish, RequestsBounded, TypeOK
<1>2. /\ sent' = [sent EXCEPT ![w] = sent[w] + 1]
      /\ queue' = [queue EXCEPT ![w] = Append(queue[w], sent[w] + 1)]
      /\ UNCHANGED <<poller, hand, mongo, base, owed, failed>>
  BY DEF Publish, databases, history
<1>3. /\ queue[w] \in Seq(1..MaxMetrics) /\ sent[w] + 1 \in 1..MaxMetrics
      /\ queue'[w] = Append(queue[w], sent[w] + 1)
      /\ \A v \in Workers \ {w} : queue'[v] = queue[v] /\ sent'[v] = sent[v]
      /\ sent'[w] = sent[w] + 1
  BY <1>1, <1>2 DEF IInv, TypeOK
<1>4. \A v \in Workers, n \in Nat : Waiting(v, n) => Waiting(v, n)'
  BY <1>3, Back, SMTT(40) DEF Waiting
<1>5. Waiting(w, sent[w])'
  <2>1. /\ queue'[w] \in Seq(1..MaxMetrics) /\ Len(queue[w]) \in Nat
        /\ Len(queue'[w]) = Len(queue[w]) + 1
        /\ queue'[w][Len(queue[w]) + 1] = sent[w] + 1
    BY <1>3, AppendProperties, LenProperties
  <2>2. Len(queue[w]) + 1 \in DOMAIN queue'[w]
    BY <2>1, LenProperties
  <2>3. \E i \in DOMAIN queue'[w] : queue'[w][i] = sent[w] + 1
    BY <2>1, <2>2
  <2> QED
    BY <2>3, <1>3 DEF Waiting
<1>6. OwedPublished'
  BY <1>1, <1>2, <1>3 DEF IInv, TypeOK, Kept, OwedPublished
<1>7. NothingLost'
  <2> SUFFICES ASSUME ~failed, Mongo, NEW v \in Workers, NEW n \in (base[v] + 1)..sent'[v]
               PROVE  Waiting(v, n)' \/ hand = [by |-> v, nr |-> n] \/ Saved(v, n)'
    BY <1>2 DEF NothingLost
  <2>1. n \in Nat /\ (n \in (base[v] + 1)..sent[v] \/ (v = w /\ n = sent'[w]))
    BY <1>1, <1>3, SMTT(40) DEF IInv, TypeOK
  <2>2. CASE n \in (base[v] + 1)..sent[v]
    <3>1. Waiting(v, n) \/ hand = [by |-> v, nr |-> n] \/ Saved(v, n)
      BY <2>2 DEF Kept, NothingLost
    <3>2. Saved(v, n) => Saved(v, n)'
      BY SavedStays
    <3> QED
      BY <3>1, <3>2, <2>1, <1>4
  <2> QED
    BY <2>1, <2>2, <1>5
<1> QED
  BY <1>2, <1>6, <1>7 DEF Kept, HandSaved, Drained, Saved

(* A dequeue moves the first that waits into the hand, which was empty. *)
LEMMA KeptDequeue ==
  ASSUME IInv, Kept, NEW w \in Workers, Dequeue(w)
  PROVE  Kept'
<1>1. /\ queue[w] # <<>> /\ queue[w] \in Seq(1..MaxMetrics)
      /\ poller = "polling" /\ poller' = "lookup" /\ hand = NoMetric
      /\ hand' = [by |-> w, nr |-> Head(queue[w])]
      /\ queue' = [queue EXCEPT ![w] = Tail(queue[w])]
      /\ UNCHANGED <<sent, mongo, base, owed, failed>>
  BY DEF Dequeue, IInv, TypeOK, HandFilled, databases, history, Goto
<1>2. /\ queue'[w] = Tail(queue[w])
      /\ \A v \in Workers \ {w} : queue'[v] = queue[v]
  BY <1>1 DEF IInv, TypeOK
<1>3. ASSUME NEW v \in Workers, NEW n, Waiting(v, n)
      PROVE  Waiting(v, n)' \/ hand' = [by |-> v, nr |-> n]
  <2>1. CASE v # w
    BY <1>2, <1>3, <2>1 DEF Waiting
  <2>2. CASE v = w
    <3>1. PICK i \in DOMAIN queue[w] : queue[w][i] = n
      BY <1>3, <2>2 DEF Waiting
    <3>2. CASE i = 1
      BY <1>1, <2>2, <3>1, <3>2, HeadTailProperties
    <3>3. CASE i # 1
      <4>1. /\ i - 1 \in DOMAIN Tail(queue[w])
            /\ Tail(queue[w])[i - 1] = queue[w][i]
        BY <1>1, <3>3, HeadTailProperties, LenProperties
      <4> QED
        BY <1>2, <2>2, <3>1, <4>1 DEF Waiting
    <3> QED
      BY <3>2, <3>3
  <2> QED
    BY <2>1, <2>2
<1>4. NothingLost'
  <2> SUFFICES ASSUME ~failed, Mongo, NEW v \in Workers, NEW n \in (base[v] + 1)..sent[v]
               PROVE  Waiting(v, n)' \/ hand' = [by |-> v, nr |-> n] \/ Saved(v, n)
    BY <1>1 DEF NothingLost, Saved
  <2>1. n \in 1..MaxMetrics
    BY MaxMetricsAssumption DEF IInv, TypeOK
  <2>2. [by |-> v, nr |-> n] \in Metrics
    BY <2>1 DEF Metrics
  <2>3. hand # [by |-> v, nr |-> n]
    BY <1>1, <2>2, NoMetricAssumption
  <2> QED
    BY <2>3, <1>3 DEF Kept, NothingLost
<1> QED
  BY <1>1, <1>4 DEF Kept, OwedPublished, HandSaved, Drained

-----------------------------------------------------------------------------
(* The queues are empty: nothing is in hand, so all is saved. *)
LEMMA KeptEmpty ==
  ASSUME IInv, Kept, Empty
  PROVE  Kept'
<1>1. /\ poller = "polling" /\ hand = NoMetric
      /\ poller' = "testing"
      /\ UNCHANGED <<sent, queue, hand, mongo, base, owed, failed>>
  BY DEF Empty, IInv, HandFilled, databases, history, Goto
<1>2. \A w \in Workers : \A n : ~Waiting(w, n)
  BY DEF Empty, Waiting
<1>3. ASSUME ~failed, Mongo, NEW w \in Workers, NEW n \in (base[w] + 1)..owed[w]
      PROVE  Saved(w, n)
  <2>1. n \in (base[w] + 1)..sent[w] /\ n \in 1..MaxMetrics
    BY <1>3, MaxMetricsAssumption DEF Kept, OwedPublished, IInv, TypeOK
  <2>2. [by |-> w, nr |-> n] \in Metrics
    BY <2>1 DEF Metrics
  <2> QED
    BY <1>1, <1>2, <1>3, <2>1, <2>2, NoMetricAssumption DEF Kept, NothingLost
<1>4. ~failed /\ Mongo => Drained'
  BY <1>1, <1>3 DEF Drained, Saved
<1> QED
  BY <1>1, <1>4 DEF Kept, OwedPublished, NothingLost, HandSaved, Saved, Waiting

(* The metric in hand is saved. *)
LEMMA KeptSaveMongo ==
  ASSUME IInv, Kept, SaveMongo, [Next]_vars
  PROVE  Kept'
<1>1. /\ poller' = "series" /\ (~failed' /\ Mongo => mongo' = Append(mongo, hand))
      /\ ~failed' => ~failed
      /\ UNCHANGED <<sent, queue, hand, base, owed>>
  BY DEF SaveMongo, Goto
<1>2. ASSUME ~failed', Mongo
      PROVE  Saved(hand.by, hand.nr)'
  <2>1. /\ mongo' = Append(mongo, hand) /\ mongo \in Seq(Metrics) /\ hand \in Metrics
    BY <1>1, <1>2 DEF SaveMongo, IInv, TypeOK, HandFilled
  <2>2. /\ mongo' \in Seq(Metrics) /\ Len(mongo) \in Nat
        /\ Len(mongo') = Len(mongo) + 1 /\ mongo'[Len(mongo) + 1] = hand
    BY <2>1, AppendProperties, LenProperties
  <2>3. Len(mongo) + 1 \in DOMAIN mongo'
    BY <2>2, LenProperties
  <2>4. hand = [by |-> hand.by, nr |-> hand.nr]
    BY <2>1 DEF Metrics
  <2> QED
    BY <1>1, <2>2, <2>3, <2>4 DEF Saved
<1>3. NothingLost'
  <2> SUFFICES ASSUME ~failed', Mongo, NEW w \in Workers, NEW n \in (base[w] + 1)..sent[w]
               PROVE  Waiting(w, n) \/ hand = [by |-> w, nr |-> n] \/ Saved(w, n)'
    BY <1>1 DEF NothingLost, Waiting
  <2>1. Waiting(w, n) \/ hand = [by |-> w, nr |-> n] \/ Saved(w, n)
    BY <1>1 DEF Kept, NothingLost
  <2> QED
    BY <2>1, SavedStays
<1> QED
  BY <1>1, <1>2, <1>3 DEF Kept, OwedPublished, HandSaved, Drained

(* The poller lets go of what is saved. *)
LEMMA KeptSaveSeries ==
  ASSUME IInv, Kept, SaveSeries
  PROVE  Kept'
<1>1. /\ poller = "series" /\ poller' = "polling" /\ hand' = NoMetric
      /\ UNCHANGED <<sent, queue, mongo, base, owed, failed>>
  BY DEF SaveSeries, databases, history, Goto
<1>2. ~failed /\ Mongo => Saved(hand.by, hand.nr)
  BY <1>1 DEF Kept, HandSaved
<1>3. NothingLost'
  <2> SUFFICES ASSUME ~failed, Mongo, NEW w \in Workers, NEW n \in (base[w] + 1)..sent[w]
               PROVE  Waiting(w, n) \/ Saved(w, n)
    BY <1>1 DEF NothingLost, Waiting, Saved
  <2>1. Waiting(w, n) \/ hand = [by |-> w, nr |-> n] \/ Saved(w, n)
    BY DEF Kept, NothingLost
  <2> QED
    BY <2>1, <1>2
<1> QED
  BY <1>1, <1>3 DEF Kept, OwedPublished, HandSaved, Drained

(* A stop in the middle of a drain is owed what was published by then. *)
LEMMA KeptStop ==
  ASSUME IInv, Kept, Stop
  PROVE  Kept'
<1>1. /\ UNCHANGED <<poller, sent, queue, hand, mongo, base, failed>>
      /\ owed' = IF poller \in Draining THEN sent ELSE owed
  BY DEF Stop, databases
<1>2. OwedPublished'
  BY <1>1 DEF Kept, OwedPublished, IInv, TypeOK
<1> QED
  BY <1>1, <1>2 DEF Kept, NothingLost, HandSaved, Drained, Draining, Saved, Waiting

(* A new process owes nothing. *)
LEMMA KeptRestart ==
  ASSUME IInv, Kept, Restart
  PROVE  Kept'
<1>1. /\ sent' = sent /\ base' = sent /\ owed' = sent /\ poller' = "connecting"
  BY DEF Restart
<1>2. \A w \in Workers :
        /\ owed'[w] <= sent'[w]
        /\ (base'[w] + 1)..sent'[w] = {} /\ (base'[w] + 1)..owed'[w] = {}
  BY <1>1 DEF IInv, TypeOK
<1> QED
  BY <1>1, <1>2 DEF Kept, OwedPublished, NothingLost, HandSaved, Drained

(* Every step keeps Kept. *)
LEMMA NextKept == IInv /\ Kept /\ [Next]_vars => Kept'
<1> SUFFICES ASSUME IInv, Kept, [Next]_vars PROVE Kept'
  OBVIOUS
<1> USE DEF Goto
<1>1. ASSUME NEW w \in Workers, Begin(w) PROVE Kept'
  BY <1>1, KeptFrame DEF Begin, databases, history
<1>2. ASSUME NEW w \in Workers, Publish(w) PROVE Kept'
  BY <1>2, KeptPublish
<1>3. ASSUME NEW w \in Workers, Dequeue(w) PROVE Kept'
  BY <1>3, KeptDequeue
<1>4. CASE Empty
  BY <1>4, KeptEmpty
<1>5. CASE SaveMongo
  BY <1>5, KeptSaveMongo
<1>6. CASE SaveSeries
  BY <1>6, KeptSaveSeries
<1>7. CASE Stop
  BY <1>7, KeptStop
<1>8. CASE Restart
  BY <1>8, KeptRestart
<1>9. CASE Start \/ Test \/ Lookup
  BY <1>9, KeptFrame DEF Start, Test, Lookup, databases, history
<1>10. CASE LookupFails
  BY <1>10 DEF LookupFails, Kept, OwedPublished, NothingLost, history
<1>11. CASE Signal \/ Join \/ UNCHANGED vars
  BY <1>11, KeptFrame DEF Signal, Join, vars, threads, databases, history
<1> QED
  BY <1>1, <1>2, <1>3, <1>4, <1>5, <1>6, <1>7, <1>8, <1>9, <1>10, <1>11
  DEF Next, Poll, Main

(* Kept holds in every reachable state. *)
LEMMA KeptInductive == Spec => []Kept
BY InitKept, NextKept, PipelineInductive, PTL DEF Spec

(* While nothing fails, a published metric waits, is in hand, or is saved. *)
THEOREM NothingDisappears == Spec => []NothingLost
<1>1. Kept => NothingLost
  BY DEF Kept
<1> QED BY <1>1, KeptInductive, PTL

(* A stop in the middle of a drain finds it completed when the poller ends. *)
THEOREM DrainCompleted == Spec => []StopDrains
<1>1. Kept => StopDrains
  BY DEF Kept, Drained, StopDrains
<1> QED BY <1>1, KeptInductive, PTL

-----------------------------------------------------------------------------
(* What the log promises, of MongoDB: nothing is saved twice, or out of the
   order in which its worker published it.                                   *)
THEOREM SavedInOrder == Spec => []Log!InOrder
<1>1. Init => Log!InOrder
  BY DEF Init, Log!InOrder
<1>2. IInv /\ Log!InOrder /\ [Next]_vars => Log!InOrder'
  <2> SUFFICES ASSUME IInv, Log!InOrder, [Next]_vars PROVE Log!InOrder'
    OBVIOUS
  <2>1. CASE SaveMongo /\ mongo' # mongo
    <3>1. /\ mongo' = Append(mongo, hand) /\ mongo \in Seq(Metrics) /\ hand \in Metrics
          /\ Above(hand.by, hand.nr)
      BY <2>1 DEF SaveMongo, IInv, TypeOK, HandFilled, HandInOrder
    <3>2. /\ \A i \in DOMAIN mongo' :
                \/ i \in DOMAIN mongo /\ mongo'[i] = mongo[i]
                \/ i \notin DOMAIN mongo /\ mongo'[i] = hand
          /\ \A i, j \in DOMAIN mongo' : i < j => i \in DOMAIN mongo
      BY <3>1, Back
    <3> QED
      BY <3>1, <3>2 DEF Log!InOrder, Above
  <2>2. CASE mongo' = mongo
    BY <2>2 DEF Log!InOrder
  <2> QED
    BY <2>1, <2>2
    DEF Next, Poll, Main, Begin, Publish, Start, Test, Empty, Lookup, LookupFails, SaveMongo,
        SaveSeries, Dequeue, Signal, Stop, Join, Restart, vars, databases
<1> QED BY <1>1, <1>2, PipelineInductive, PTL DEF Spec
=============================================================================
