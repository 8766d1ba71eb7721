------------------------- MODULE MCConcurrentQueue -------------------------
EXTENDS ConcurrentQueue

CONSTANTS p1, p2, c1, c2

(* The program's cast: the handlers' threads and one poller; and the cast of
   the queue's own promise, several consumers of one producer.               *)
MCThreads == {p1, p2, c1, c2}
Cast(n1, n2, m1, m2) == [t \in MCThreads |->
  CASE t = p1 -> n1 [] t = p2 -> n2 [] t = c1 -> m1 [] t = c2 -> m2]
MCQuotas == {Cast(7, 0, 1, 0), Cast(3, 3, 1, 0), Cast(5, 0, 1, 1)}
=============================================================================
