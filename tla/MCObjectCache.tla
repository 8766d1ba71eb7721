--------------------------- MODULE MCObjectCache ---------------------------
(* Small instances of ObjectCache for TLC. *)
EXTENDS ObjectCacheInvariants, TLC

CONSTANTS w1, w2, k1

Request(key, head, gzip, validator, form) ==
  [key |-> key, head |-> head, gzip |-> gzip, validator |-> validator, form |-> form]

(* Plain reads of one object, with and without Accept-Encoding: gzip. *)
Reads == {Request(k1, FALSE, gzip, 0, "plain") : gzip \in BOOLEAN}

(* Compressed reads only: the longest way through the handler. *)
GzipReads == {Request(k1, FALSE, TRUE, 0, "plain")}

(* A compressed read that is conditional on the first revision, and the requests
   that are answered without reading the file: HEAD (with a query string), illegal
   path.                                                                    *)
AllRequests == {Request(k1, FALSE, TRUE, 1, "plain"),
                Request(k1, TRUE, FALSE, 0, "query"),
                Request(k1, FALSE, FALSE, 0, "illegal")}

Symmetric == Permutations(Workers)
=============================================================================
