-------------------------- MODULE MetricsPipeline --------------------------
(* The metrics of s3-proxy: handlers publish one per request to a queue
   (server/response.cpp, queue/queuemanager.cpp), the poller thread takes them
   out, looks the client's location up and saves them (queue/poller.cpp), and
   the main thread starts and stops it (server/server.cpp).

   Steps of different threads interleave at each access to what they share: the
   queue and the flag running.  Metric number nr of worker by is a record of the
   two; what it measures is left out.                                         *)
EXTENDS Integers, Sequences, FiniteSets

CONSTANTS Workers,      \* worker threads of the HTTP/2 framework
          MaxMetrics,   \* bound: requests each worker handles
          NoMetric,     \* nothing in hand
          Mongo, TSDB   \* which databases are configured

ASSUME FlagsAssumption == {Mongo, TSDB} \subseteq BOOLEAN
ASSUME PublishAssumption == Mongo \/ TSDB  \* publishMetrics(): else nothing runs
ASSUME MaxMetricsAssumption == MaxMetrics \in Nat

Metrics == [by : Workers, nr : 1..MaxMetrics]
ASSUME NoMetricAssumption == NoMetric \notin Metrics

VARIABLES
  main,      \* where run() of server.cpp is
  handling,  \* workers with a request
  sent,      \* how many metrics each has published
  queue,     \* the metrics of each that wait: a FIFO per producer
  running,   \* Poller::running
  poller,    \* where Poller::run() is
  hand,      \* the metric it is processing
  mongo,     \* what MongoDB holds
  series,    \* what the time series database holds
  base,      \* history: sent, when the process started
  early,     \* history: stop() came before run() had set running
  owed,      \* history: sent, when stop() came in the middle of a drain
  failed     \* history: a lookup or a save has failed in this process

threads == <<main, handling, running, poller>>
databases == <<mongo, series>>
history == <<base, early, owed, failed>>
vars == <<threads, sent, queue, hand, databases, history>>

-----------------------------------------------------------------------------
Init ==
  /\ main = "serving" /\ handling = {}
  /\ sent = [w \in Workers |-> 0]
  /\ queue = [w \in Workers |-> <<>>]
  /\ running = FALSE /\ poller = "connecting" /\ hand = NoMetric
  /\ mongo = <<>> /\ series = <<>>
  /\ base = sent /\ early = FALSE /\ owed = sent /\ failed = FALSE

Alive == main # "exited"
Draining == {"polling", "lookup", "mongo", "series"}
Goto(there) == poller' = there

-----------------------------------------------------------------------------
(* Workers: the framework accepts a request while the server runs, and calls
   extraProcess() when it was answered, if need be after server.stop().      *)
Begin(w) ==
  /\ main = "serving" /\ w \notin handling /\ sent[w] < MaxMetrics
  /\ handling' = handling \cup {w}
  /\ UNCHANGED <<main, running, poller, sent, queue, hand, databases, history>>

Publish(w) ==
  /\ Alive /\ w \in handling
  /\ handling' = handling \ {w}
  /\ sent' = [sent EXCEPT ![w] = @ + 1]
  /\ queue' = [queue EXCEPT ![w] = Append(@, sent[w] + 1)]
  /\ UNCHANGED <<main, running, poller, hand, databases, history>>

-----------------------------------------------------------------------------
(* Mutant of Start: running is not set. *)
StartUnset ==
  /\ Alive /\ poller = "connecting"
  /\ Goto("testing")
  /\ UNCHANGED <<main, handling, running, sent, queue, hand, databases, history>>

(* Poller::run(): the clients are connected before running is set.  If one
   cannot be, the exception ends the process: Restart.                       *)
Start ==
  /\ Alive /\ poller = "connecting"
  /\ running' = TRUE
  /\ Goto("testing")
  /\ UNCHANGED <<main, handling, sent, queue, hand, databases, history>>

Test ==
  /\ Alive /\ poller = "testing"
  /\ Goto(IF running THEN "polling" ELSE "ended")
  /\ UNCHANGED <<main, handling, running, sent, queue, hand, databases, history>>

(* loop(): consume() takes the oldest metric of some producer. *)
Dequeue(w) ==
  /\ Alive /\ poller = "polling" /\ queue[w] # <<>>
  /\ hand' = [by |-> w, nr |-> Head(queue[w])]
  /\ queue' = [queue EXCEPT ![w] = Tail(@)]
  /\ Goto("lookup")
  /\ UNCHANGED <<main, handling, running, sent, databases, history>>

(* Nothing to take: loop() pauses for a second, unless it is to stop. *)
Empty ==
  /\ Alive /\ poller = "polling" /\ \A w \in Workers : queue[w] = <<>>
  /\ Goto("testing")
  /\ UNCHANGED <<main, handling, running, sent, queue, hand, databases, history>>

(* Mutant of LookupFails: the metric is queued again. *)
LookupRetried ==
  /\ Alive /\ poller = "lookup"
  /\ queue' = [queue EXCEPT ![hand.by] = Append(@, hand.nr)]
  /\ hand' = NoMetric
  /\ Goto("testing")
  /\ UNCHANGED <<main, handling, running, sent, databases, history>>

(* Mutant of Lookup: a metric without a location is skipped. *)
LookupRequired ==
  /\ Alive /\ poller = "lookup"
  /\ \/ Goto("mongo") /\ UNCHANGED hand
     \/ Goto("polling") /\ hand' = NoMetric
  /\ UNCHANGED <<main, handling, running, sent, queue, databases, history>>

(* The location of the client, if the pool and the service have one. *)
Lookup ==
  /\ Alive /\ poller = "lookup"
  /\ Goto("mongo")
  /\ UNCHANGED <<main, handling, running, sent, queue, hand, databases, history>>

(* acquire() throws when a connection cannot be made: run() catches that, and
   the metric is gone.                                                       *)
LookupFails ==
  /\ Alive /\ poller = "lookup"
  /\ hand' = NoMetric
  /\ failed' = TRUE
  /\ Goto("testing")
  /\ UNCHANGED <<main, handling, running, sent, queue, databases, base, early, owed>>

(* MongoClient::save(): errors are logged, and the write is not acknowledged. *)
SaveMongo ==
  /\ Alive /\ poller = "mongo"
  /\ \/ Mongo /\ mongo' = Append(mongo, hand) /\ UNCHANGED failed
     \/ Mongo /\ failed' = TRUE /\ UNCHANGED mongo
     \/ ~Mongo /\ UNCHANGED <<mongo, failed>>
  /\ Goto("series")
  /\ UNCHANGED <<main, handling, running, sent, queue, hand, series, base, early, owed>>

(* Mutant of SaveSeries: loop() returns after each metric. *)
SaveOne ==
  /\ Alive /\ poller = "series"
  /\ hand' = NoMetric
  /\ Goto("testing")
  /\ UNCHANGED <<main, handling, running, sent, queue, databases, history>>

(* TSDBClient::save() builds the line and drops it: nothing calls write().  The
   builder has no record to add tags to, for nothing starts one: what that does
   is undefined (poller.cpp:95), and if it ends the process, that is Restart.  *)
SaveSeries ==
  /\ Alive /\ poller = "series"
  /\ hand' = NoMetric
  /\ Goto("polling")
  /\ UNCHANGED <<main, handling, running, sent, queue, databases, history>>

-----------------------------------------------------------------------------
(* A signal stops the I/O context, and the main thread the server. *)
Signal ==
  /\ main = "serving"
  /\ main' = "stopping"
  /\ UNCHANGED <<handling, running, poller, sent, queue, hand, databases, history>>

(* Mutant of Stop: the flag is not reset. *)
StopForgotten ==
  /\ main = "stopping"
  /\ main' = "joining"
  /\ UNCHANGED <<handling, running, poller, sent, queue, hand, databases, history>>

(* Poller::stop(). *)
Stop ==
  /\ main = "stopping"
  /\ running' = FALSE
  /\ main' = "joining"
  /\ early' = (poller = "connecting")
  /\ owed' = IF poller \in Draining THEN sent ELSE owed
  /\ UNCHANGED <<handling, poller, sent, queue, hand, databases, base, failed>>

Join ==
  /\ main = "joining" /\ poller = "ended"
  /\ main' = "exited"
  /\ UNCHANGED <<handling, running, poller, sent, queue, hand, databases, history>>

(* The process ends or is killed, and the entrypoint starts it again. *)
Restart ==
  /\ main' = "serving" /\ handling' = {}
  /\ queue' = [w \in Workers |-> <<>>]
  /\ running' = FALSE /\ poller' = "connecting" /\ hand' = NoMetric
  /\ base' = sent /\ early' = FALSE /\ owed' = sent /\ failed' = FALSE
  /\ UNCHANGED <<sent, databases>>

-----------------------------------------------------------------------------
Poll == \/ Start \/ Test \/ Empty \/ Lookup \/ LookupFails
        \/ SaveMongo \/ SaveSeries
        \/ \E w \in Workers : Dequeue(w)
Main == Stop \/ Join

Next ==
  \/ \E w \in Workers : Begin(w) \/ Publish(w)
  \/ Poll \/ Signal \/ Main \/ Restart

Spec == Init /\ [][Next]_vars

(* The poller and the main thread are scheduled, and their calls return. *)
FairSpec == Spec /\ WF_vars(Poll) /\ WF_vars(Main)

-----------------------------------------------------------------------------
TypeOK ==
  /\ main \in {"serving", "stopping", "joining", "exited"}
  /\ handling \subseteq Workers
  /\ sent \in [Workers -> 0..MaxMetrics]
  /\ queue \in [Workers -> Seq(1..MaxMetrics)]
  /\ running \in BOOLEAN
  /\ poller \in {"connecting", "testing", "ended"} \cup Draining
  /\ hand \in Metrics \cup {NoMetric}
  /\ mongo \in Seq(Metrics) /\ series \in Seq(Metrics)
  /\ base \in [Workers -> 0..MaxMetrics] /\ owed \in [Workers -> 0..MaxMetrics]
  /\ early \in BOOLEAN /\ failed \in BOOLEAN

Saved(w, n) == \E i \in DOMAIN mongo : mongo[i] = [by |-> w, nr |-> n]
Waiting(w, n) == \E i \in DOMAIN queue[w] : queue[w][i] = n

(* Whatever fails and whoever restarts, MongoDB holds a log of published
   metrics: none twice, and those of one worker in order.                    *)
Log == INSTANCE MetricLog WITH log <- mongo
ImplementsLog == Log!Spec

(* As long as nothing fails no metric of this process disappears between
   extraProcess() and the database: it is waiting, in hand, or saved.        *)
NothingLost ==
  ~failed /\ Mongo =>
    \A w \in Workers : \A n \in (base[w] + 1)..sent[w] :
      Waiting(w, n) \/ hand = [by |-> w, nr |-> n] \/ Saved(w, n)

(* A stop does not cut a drain short: what was published before it is saved
   when the poller ends.  (What is published while the poller pauses is lost.) *)
StopDrains ==
  ~failed /\ Mongo /\ poller = "ended" =>
    \A w \in Workers : \A n \in (base[w] + 1)..owed[w] : Saved(w, n)

(* Every metric is saved in the end, unless something fails, or the process
   that holds it is stopped or killed first.                                 *)
MetricsSaved ==
  \A w \in Workers : \A n \in 1..MaxMetrics :
    base[w] < n /\ n <= sent[w]
      ~> Saved(w, n) \/ failed \/ main # "serving" \/ n <= base[w]

(* The shutdown ends, unless stop() came before run() had set running: then
   the poller runs on, and the join never returns (poller.cpp:173, 193).     *)
ShutdownEnds == main = "joining" /\ ~early ~> main \in {"exited", "serving"}
=============================================================================
