------------------------ MODULE MCObjectCacheClear -------------------------
(* ObjectCache with a history of when the cache was last cleared. *)
EXTENDS MCObjectCache

VARIABLE floor   \* the revision the bucket had then

Clears == \/ \E w \in Workers : ClearRequest(w) /\ resp'[w].status = 304
          \/ Restart

ClearSpec ==
  /\ Init /\ floor = [k \in Keys |-> 0]
  /\ [][Next /\ floor' = IF Clears THEN latest ELSE floor]_<<vars, floor>>

(* README.md:299-303, the two ways of "Clearing the cache": afterwards "objects
   will be re-fetched from S3", so no entry is older than the last clear.
   False for the endpoint: a GetObject in flight at the clear (s3util.cpp:150)
   puts its entry afterwards, with a whole TTL to live, be it that there is no
   such object (s3util.cpp:89) or the object (s3util.cpp:134).              *)
ClearTakesEffect ==
  \A k \in Keys : meta[k] # NoEntry => meta[k].rev >= floor[k]
=============================================================================
