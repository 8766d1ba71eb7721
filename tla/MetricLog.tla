------------------------------ MODULE MetricLog ------------------------------
(* What the metrics pipeline promises of a database: a log of the metrics that
   request handlers published, where each appears at most once and those of one
   handler thread are in the order of publication.  Any may be missing.      *)
EXTENDS Integers, Sequences

CONSTANT Workers

VARIABLES sent,  \* how many metrics each worker has published
          log    \* the metrics in the database

Init == /\ sent = [w \in Workers |-> 0]
        /\ log = <<>>

Publish(w) == /\ sent' = [sent EXCEPT ![w] = @ + 1]
              /\ UNCHANGED log

(* Metric n of worker w is recorded, after all of w's that were recorded. *)
Record(w, n) == /\ n \in 1..sent[w]
                /\ \A i \in DOMAIN log : log[i].by = w => log[i].nr < n
                /\ log' = Append(log, [by |-> w, nr |-> n])
                /\ UNCHANGED sent

Next == \E w \in Workers : Publish(w) \/ \E n \in 1..sent[w] : Record(w, n)

Spec == Init /\ [][Next]_<<sent, log>>

-----------------------------------------------------------------------------
(* Of one worker's metrics none is recorded twice, or after a later one. *)
InOrder == \A i, j \in DOMAIN log :
             i < j /\ log[i].by = log[j].by => log[i].nr < log[j].nr
=============================================================================
