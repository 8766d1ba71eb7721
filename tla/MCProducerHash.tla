--------------------------- MODULE MCProducerHash ---------------------------
EXTENDS ProducerHash

CONSTANTS t1, t2, t3

(* Three threads whose slots collide in a table of four. *)
MCHashedId == [t \in {t1, t2, t3} |-> CASE t = t1 -> 2 [] t = t2 -> 2 [] t = t3 -> 3]
=============================================================================
