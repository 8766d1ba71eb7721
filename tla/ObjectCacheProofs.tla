------------------------- MODULE ObjectCacheProofs --------------------------
(* Theorems about ObjectCache, for any number of workers and objects, any TTL and
   any number of revisions: its types, what its steps never do, and its safety
   properties, which the inductive invariant IInv implies.                     *)
EXTENDS ObjectCacheInvariants, TLAPS

-----------------------------------------------------------------------------
(* Type correctness. *)

(* The request an idle worker is given is one of the requests. *)
LEMMA AnyRequestInRequests == AnyRequest \in Requests
BY RequestsAssumption DEF AnyRequest

(* Every request names an object and one of the request kinds. *)
LEMMA RequestsTyped ==
  ASSUME NEW r \in Requests PROVE r \in RequestType
BY RequestsAssumption

(* The values that stand for nothing have the types of the values they replace. *)
LEMMA Constants ==
  /\ TTL \in Nat \ {0} /\ MaxRev \in Nat \ {0}
  /\ 0 \in Revs /\ 1..MaxRev \subseteq Revs /\ 0 \in 0..TTL /\ TTL \in 0..TTL
  /\ NoFile \in Copies /\ Hollow \in Copies /\ NoEntry \in Entries
  /\ NoResponse \in Responses
<1>1. TTL \in Nat \ {0} /\ MaxRev \in Nat \ {0}
  BY BoundsAssumption
<1>2. 0 \in Revs /\ 1..MaxRev \subseteq Revs /\ 0 \in 0..TTL /\ TTL \in 0..TTL
  BY <1>1 DEF Revs
<1>3. NoFile \in Copies /\ Hollow \in Copies /\ NoEntry \in Entries
  BY <1>2 DEF NoFile, Hollow, NoEntry, Copies, Entries
<1>4. NoResponse \in Responses
  BY <1>2, <1>3 DEF NoResponse, Responses
<1> QED
  BY <1>1, <1>2, <1>3, <1>4

(* An error response is a response. *)
LEMMA FailureTyped ==
  ASSUME NEW code \in {0, 200, 304, 400, 403, 404, 500}
  PROVE  Failure(code) \in Responses
BY Constants DEF Failure, Responses

(* A clear is answered 304, 400 or 403 (s3resource.cpp:302-363). *)
LEMMA ClearStatusTyped ==
  ASSUME NEW t \in Tokens
  PROVE  ClearStatus(t) \in {304, 400, 403}
BY DEF Tokens, ClearStatus

(* What an open stream, a closed one and a compression leave are file contents. *)
LEMMA WrittenTyped ==
  ASSUME NEW c \in Copies
  PROVE  Begun(c) \subseteq Copies /\ Closed(c) \subseteq Copies /\ Compressed(c) \in Copies
<1>1. /\ [c EXCEPT !.open = TRUE] \in Copies /\ [c EXCEPT !.open = FALSE] \in Copies
      /\ [c EXCEPT !.open = FALSE, !.whole = FALSE] \in Copies
  BY DEF Copies
<1> QED
  BY <1>1, Constants DEF Begun, Closed, Compressed

(* The places a step can send a worker to are places. *)
LEMMA Labels ==
  {"idle", "find", "check", "hit", "fetch", "absent", "write", "close",
   "gzprobe", "gzrefresh", "gzfill", "gzreplace", "rename", "put", "encode",
   "gzopen", "gzcopy", "gzmove", "size", "exists", "open", "done"} \subseteq Locations
BY DEF Locations, Refreshing, Serving, Compressing

(* A reply built from what the handler holds is a response. *)
LEMMA ReplyTyped ==
  ASSUME TypeOK, NEW w \in Workers, NEW code \in {200, 304}, NEW c \in Copies
  PROVE  Reply(w, code, c) \in Responses
<1>1. Key(w) \in Keys
  BY RequestsTyped DEF TypeOK, Key, RequestType
<1>2. obj[w] \in Revs /\ (~raced[Key(w)]) \in BOOLEAN
  BY <1>1 DEF TypeOK
<1>3. (Exists(c) /\ c # size[w]) \in BOOLEAN
  OBVIOUS
<1> QED
  BY <1>2, <1>3 DEF Reply, Responses

(* Typing holds at the start. *)
LEMMA InitTypeOK == Init => TypeOK
<1> SUFFICES ASSUME Init PROVE TypeOK
  OBVIOUS
<1>1. 1 \in 1..MaxRev
  BY Constants
<1>2. uploads \in [Keys -> SUBSET (1..MaxRev)]
  BY <1>1 DEF Init
<1> QED
  BY <1>1, <1>2, Constants, AnyRequestInRequests, Labels DEF Init, TypeOK

(* Every step keeps every variable in its type. *)
LEMMA NextTypeOK == TypeOK /\ [Next]_vars => TypeOK'
<1> SUFFICES ASSUME TypeOK, [Next]_vars PROVE TypeOK'
  OBVIOUS
<1> USE Labels DEF TypeOK
<1>1. ASSUME NEW w \in Workers PROVE Key(w) \in Keys /\ req[w] \in RequestType
  BY RequestsTyped DEF Key, RequestType
<1>2. ASSUME NEW w \in Workers, Receive(w) PROVE TypeOK'
  BY <1>2, FailureTyped DEF Receive, Answer, Goto, bucket, disk, history
<1>3. ASSUME NEW w \in Workers, ClearRequest(w) PROVE TypeOK'
  BY <1>3, Constants, FailureTyped, ClearStatusTyped DEF ClearRequest, Answer, Goto, Cleared, bucket, disk, history
<1>4. ASSUME NEW w \in Workers, Find(w) PROVE TypeOK'
  BY <1>4, <1>1 DEF Find, Goto, bucket, disk, history
<1>5. ASSUME NEW w \in Workers, Check(w) PROVE TypeOK'
  BY <1>5, <1>1 DEF Check, Dereferenced, Goto, bucket, disk, history
<1>6. ASSUME NEW w \in Workers, Hit(w) PROVE TypeOK'
  <2>1. Dereferenced(w) \subseteq Entries
    BY <1>1 DEF Dereferenced
  <2>2. PICK e \in Entries :
          IF ~Found(Key(w), e.rev)
            THEN Answer(w, Failure(404)) /\ UNCHANGED obj
          ELSE IF Exists(file[Key(w)])
            THEN Goto(w, "encode") /\ obj' = [obj EXCEPT ![w] = e.rev] /\ UNCHANGED resp
          ELSE Goto(w, "fetch") /\ UNCHANGED <<obj, resp>>
    BY <1>6, <2>1 DEF Hit
  <2>4. e.rev \in Revs
    BY DEF Entries
  <2>5. obj' \in [Workers -> Revs]
    BY <2>2, <2>4
  <2>6. resp' \in [Workers -> Responses] /\ pc' \in [Workers -> Locations]
    BY <2>2, FailureTyped DEF Goto, Answer
  <2>3. iter' \in [Workers -> Entries]
    BY <1>6, Constants DEF Hit
  <2> QED
    BY <1>6, <2>5, <2>6, <2>3 DEF Hit, bucket, disk, history
<1>7. ASSUME NEW w \in Workers, Fetch(w) PROVE TypeOK'
  <2>1. raced' \in [Keys -> BOOLEAN] /\ solo' \in [Workers -> BOOLEAN]
    BY <1>7 DEF Fetch, Overlap, history
  <2>2. got' \in [Workers -> Revs] /\ iter' \in [Workers -> Entries]
    BY <1>7, <1>1, Constants DEF Fetch
  <2>3. resp' \in [Workers -> Responses] /\ pc' \in [Workers -> Locations]
    BY <1>7, FailureTyped DEF Fetch, Goto, Answer
  <2> QED
    BY <1>7, <2>1, <2>2, <2>3 DEF Fetch, bucket, disk
<1>8. ASSUME NEW w \in Workers, PutAbsent(w) PROVE TypeOK'
  BY <1>8, <1>1, Constants, FailureTyped DEF PutAbsent, Answer, Goto, Entry, Entries, bucket, disk, history
<1>9. ASSUME NEW w \in Workers, Write(w) PROVE TypeOK'
  <2>1. Copy(got[w]) \in Copies
    BY DEF Copy, Copies
  <2>2. tmp' \in [Workers -> Copies]
    BY <1>9, <2>1, WrittenTyped DEF Write
  <2> QED
    BY <1>9, <2>2 DEF Write, Goto, bucket, disk, history
<1>10. ASSUME NEW w \in Workers, Close(w) PROVE TypeOK'
  <2>1. tmp' \in [Workers -> Copies]
    BY <1>10, WrittenTyped DEF Close
  <2> QED
    BY <1>10, <2>1 DEF Close, Goto, bucket, disk, history
<1>11. ASSUME NEW w \in Workers, GzProbe(w) PROVE TypeOK'
  BY <1>11 DEF GzProbe, Goto, bucket, disk, history
<1>12. ASSUME NEW w \in Workers, GzRefresh(w) PROVE TypeOK'
  <2>1. Compressed(tmp[w]) \in Copies
    BY WrittenTyped
  <2>2. zip' \in [Workers -> Copies]
    BY <1>12, <2>1, WrittenTyped DEF GzRefresh
  <2> QED
    BY <1>12, <2>2 DEF GzRefresh, Goto, bucket, disk, history
<1>13. ASSUME NEW w \in Workers, GzFill(w) PROVE TypeOK'
  <2>1. zip' \in [Workers -> Copies]
    BY <1>13, WrittenTyped DEF GzFill
  <2> QED
    BY <1>13, <2>1 DEF GzFill, Goto, bucket, disk, history
<1>14. ASSUME NEW w \in Workers, GzReplace(w) PROVE TypeOK'
  <2>1. /\ gz' \in [Keys -> Copies] /\ tmp' \in [Workers -> Copies]
        /\ zip' \in [Workers -> Copies] /\ got' \in [Workers -> Revs]
    BY <1>14, <1>1, Constants DEF GzReplace
  <2>2. resp' \in [Workers -> Responses] /\ pc' \in [Workers -> Locations]
    BY <1>14, FailureTyped DEF GzReplace, Goto, Answer
  <2>3. solo' \in [Workers -> BOOLEAN]
    BY <1>14 DEF GzReplace, Leave
  <2> QED
    BY <1>14, <2>1, <2>2, <2>3 DEF GzReplace, bucket
<1>15. ASSUME NEW w \in Workers, Rename(w) PROVE TypeOK'
  <2>1. file' \in [Keys -> Copies] /\ tmp' \in [Workers -> Copies] /\ got' \in [Workers -> Revs]
    BY <1>15, <1>1, Constants DEF Rename, Renamed
  <2>2. resp' \in [Workers -> Responses] /\ pc' \in [Workers -> Locations]
    BY <1>15, FailureTyped DEF Rename, Goto, Answer
  <2>9. solo' \in [Workers -> BOOLEAN]
    BY <1>15 DEF Rename, Leave
  <2> QED
    BY <1>15, <2>1, <2>2, <2>9 DEF Rename, bucket
<1>16. ASSUME NEW w \in Workers, Put(w) PROVE TypeOK'
  BY <1>16, <1>1, Constants
  DEF Put, Goto, Leave, Entry, Entries, Revs, bucket, disk
<1>17. ASSUME NEW w \in Workers, Encode(w) PROVE TypeOK'
  BY <1>17 DEF Encode, Goto, bucket, disk, history
<1>18. ASSUME NEW w \in Workers, GzOpen(w) PROVE TypeOK'
  <2>1. Compressed(file[Key(w)]) \in Copies
    BY <1>1, WrittenTyped
  <2>2. zip' \in [Workers -> Copies]
    BY <1>18, <2>1, WrittenTyped DEF GzOpen
  <2>3. raced' \in [Keys -> BOOLEAN] /\ solo' \in [Workers -> BOOLEAN]
    BY <1>18 DEF GzOpen, Overlap
  <2> QED
    BY <1>18, <2>2, <2>3 DEF GzOpen, Goto, bucket, disk
<1>19. ASSUME NEW w \in Workers, GzCopy(w) PROVE TypeOK'
  <2>1. zip' \in [Workers -> Copies]
    BY <1>19, WrittenTyped DEF GzCopy
  <2> QED
    BY <1>19, <2>1 DEF GzCopy, Goto, bucket, disk, history
<1>20. ASSUME NEW w \in Workers, GzMove(w) PROVE TypeOK'
  <2>1. gz' \in [Keys -> Copies] /\ zip' \in [Workers -> Copies]
    BY <1>20, <1>1, Constants DEF GzMove
  <2>2. resp' \in [Workers -> Responses] /\ pc' \in [Workers -> Locations]
    BY <1>20, FailureTyped DEF GzMove, Goto, Answer
  <2>3. solo' \in [Workers -> BOOLEAN]
    BY <1>20 DEF GzMove, Leave
  <2> QED
    BY <1>20, <2>1, <2>2, <2>3 DEF GzMove, bucket
<1>21. ASSUME NEW w \in Workers, Measure(w) PROVE TypeOK'
  BY <1>21, <1>1, Constants, FailureTyped DEF Measure, Goto, Answer, Served, bucket, disk, history
<1>22. ASSUME NEW w \in Workers, Conditions(w) PROVE TypeOK'
  <2>1. NoFile \in Copies
    BY Constants
  <2>2. \A code \in {200, 304} : Reply(w, code, NoFile) \in Responses
    BY <2>1, ReplyTyped
  <2>3. resp' \in [Workers -> Responses]
    BY <1>22, <2>2, FailureTyped DEF Conditions, Answer
  <2>4. pc' \in [Workers -> Locations]
    BY <1>22 DEF Conditions, Goto, Answer
  <2> QED
    BY <1>22, <2>3, <2>4 DEF Conditions, bucket, disk, history
<1>23. ASSUME NEW w \in Workers, Open(w) PROVE TypeOK'
  <2>1. Served(w) \in Copies
    BY <1>1 DEF Served
  <2> QED
    BY <1>23, <2>1, ReplyTyped, FailureTyped DEF Open, Goto, Answer, bucket, disk, history
<1>24. ASSUME NEW w \in Workers, Send(w) PROVE TypeOK'
  BY <1>24, Constants, AnyRequestInRequests DEF Send, Goto, Revs, bucket, disk, history
<1>25. ASSUME NEW k \in Keys, Environment(k) PROVE TypeOK'
  <2>1. CASE Upload(k)
    BY <2>1, Constants DEF Upload, disk, history
  <2>2. CASE Delete(k)
    BY <2>2, Constants DEF Delete, disk, history
  <2>3. CASE Clean(k)
    BY <2>3, Constants DEF Clean, bucket, history
  <2> QED
    BY <1>25, <2>1, <2>2, <2>3 DEF Environment
<1>26. CASE Sweep
  BY <1>26, Constants DEF Sweep, Cleared, bucket, disk, history
<1>27. CASE Tick
  <2>1. ASSUME NEW e \in Entries PROVE Aged(e) \in Entries
    <3>1. (IF e.left > 0 THEN e.left - 1 ELSE 0) \in 0..TTL
      BY Constants DEF Entries
    <3> QED
      BY <3>1 DEF Aged, Entries
  <2>2. meta' \in [Keys -> Entries] /\ iter' \in [Workers -> Entries]
    BY <1>27, <2>1 DEF Tick
  <2> QED
    BY <1>27, <2>2 DEF Tick, bucket, disk, history
<1>28. CASE Restart
  BY <1>28, Constants, AnyRequestInRequests DEF Restart, Cleared, Revs, bucket, disk
<1>29. CASE UNCHANGED vars
  BY <1>29 DEF vars, bucket, disk, history
<1> QED
  BY <1>2, <1>3, <1>4, <1>5, <1>6, <1>7, <1>8, <1>9, <1>10, <1>11, <1>12,
     <1>13, <1>14, <1>15, <1>16, <1>17, <1>18, <1>19, <1>20, <1>21, <1>22,
     <1>23, <1>24, <1>25, <1>26, <1>27, <1>28, <1>29
  DEF Next, Handler

(* Every variable keeps its type. *)
THEOREM TypeCorrect == Spec => []TypeOK
<1> QED BY InitTypeOK, NextTypeOK, PTL DEF Spec

-----------------------------------------------------------------------------
(* What a step of ObjectCache can do to each part of the state that the safety
   properties are about, action by action: the invariant is argued from these
   cases instead of from the actions.                                       *)

(* The object a worker handles, and the revisions around it. *)
LEMMA KeyTyped ==
  ASSUME TypeOK, NEW w \in Workers
  PROVE  /\ Key(w) \in Keys
         /\ latest[Key(w)] \in Nat \ {0}
         /\ iter[w].rev \in Nat /\ got[w] \in Nat /\ obj[w] \in Nat
         /\ file[Key(w)].rev \in Nat /\ gz[Key(w)].rev \in Nat /\ tmp[w].rev \in Nat
         /\ zip[w].rev \in Nat
         /\ meta[Key(w)].rev \in Nat
<1>1. Key(w) \in Keys
  BY RequestsTyped DEF TypeOK, Key, RequestType
<1>2. Revs \subseteq Nat /\ 1..MaxRev \subseteq Nat \ {0}
  BY BoundsAssumption DEF Revs
<1> QED
  BY <1>1, <1>2 DEF TypeOK, Entries, Copies

(* A found revision is a positive number, and no newer than the newest. *)
LEMMA ZeroNotFound ==
  ASSUME KnownRevisions, TypeOK, NEW k \in Keys, NEW r \in uploads[k]
  PROVE  r # 0 /\ r \in Nat /\ r <= latest[k] /\ latest[k] \in Nat
BY BoundsAssumption DEF KnownRevisions, TypeOK

(* Opening a stream leaves nothing at all, or loses nothing. *)
LEMMA BegunKept ==
  ASSUME NEW c \in Copies, NEW d \in Begun(c)
  PROVE  /\ Exists(d) => d.rev = c.rev
         /\ ~FaultyDisk => d.rev = c.rev /\ d.whole = c.whole
BY DEF Begun, Copies, Exists

(* Closing it keeps what it is made from, and loses nothing without a fault. *)
LEMMA ClosedKept ==
  ASSUME NEW c \in Copies, NEW d \in Closed(c)
  PROVE  /\ d.rev = c.rev /\ ~d.open /\ (Exists(d) => Exists(c))
         /\ ~FaultyDisk => d.whole = c.whole
<1> DEFINE e == [c EXCEPT !.open = FALSE]
           f == [c EXCEPT !.open = FALSE, !.whole = FALSE]
<1>1. e.rev = c.rev /\ f.rev = c.rev /\ ~e.open /\ ~f.open /\ e.whole = c.whole
  BY DEF Copies
<1>2. CASE c.open
  <2>1. d \in {e, f} /\ (~FaultyDisk => d = e)
    BY <1>2 DEF Closed
  <2>2. Exists(c)
    BY <1>2 DEF Exists, NoFile
  <2> HIDE DEF e, f
  <2> QED
    BY <1>1, <2>1, <2>2
<1>3. CASE ~c.open
  BY <1>3 DEF Closed
<1> QED
  BY <1>2, <1>3

(* A copy is made from what its source is made from, or from nothing. *)
LEMMA CompressedKept ==
  ASSUME NEW c \in Copies
  PROVE  /\ Compressed(c).rev = c.rev
         /\ Exists(c) => Compressed(c).whole = c.whole
         /\ ~Exists(c) => ~Compressed(c).whole
<1>1. CASE Exists(c)
  BY <1>1 DEF Compressed
<1>2. CASE ~Exists(c)
  <2>1. c = NoFile /\ Compressed(c) = Hollow
    BY <1>2 DEF Compressed, Exists
  <2>2. Hollow.rev = NoFile.rev /\ ~Hollow.whole
    BY DEF Hollow, NoFile
  <2> QED
    BY <1>2, <2>1, <2>2
<1> QED
  BY <1>1, <1>2

(* A file is there when something of it has been written, or nothing will be. *)
LEMMA LastingExists ==
  ASSUME NEW c \in Copies
  PROVE  /\ Lasting(c) => Exists(c)
         /\ Exists(c) /\ ~c.open => Lasting(c)
BY DEF Lasting, Copies, Exists, NoFile

(* The status codes of the responses. *)
LEMMA Statuses ==
  /\ NoResponse.status = 0
  /\ \A code : Failure(code).status = code
  /\ \A w \in Workers : \A c : Reply(w, 200, c).status = 200 /\ Reply(w, 304, c).status = 304
  /\ \A t \in Tokens : ClearStatus(t) \notin {404, 500}
BY ClearStatusTyped DEF NoResponse, Failure, Reply

(* The responses without a body. *)
LEMMA BodilessInOrder ==
  /\ \A code : Failure(code).body = NoFile
  /\ NoResponse.body = NoFile
  /\ \A w \in Workers : \A code : Reply(w, code, NoFile).body = NoFile
  /\ ~Exists(NoFile)
BY DEF Failure, NoResponse, Reply, Exists

-----------------------------------------------------------------------------
(* The files. *)

(* What a step can do to a cached file: only Rename gives it a content. *)
FileCases(c) ==
  \/ file'[c] = file[c] \/ file'[c] = NoFile
  \/ \E v \in Workers : Rename(v) /\ Key(v) = c /\ file'[c] = tmp[v]

(* Every step of the model is one of the cases. *)
LEMMA FileStep ==
  ASSUME TypeOK, NEW c \in Keys, [Next]_vars
  PROVE  FileCases(c)
<1>1. ASSUME NEW w \in Workers, Receive(w) PROVE FileCases(c)
  BY <1>1
  DEF Receive, FileCases, disk
<1>2. ASSUME NEW w \in Workers, ClearRequest(w) PROVE FileCases(c)
  BY <1>2
  DEF ClearRequest, FileCases, disk
<1>3. ASSUME NEW w \in Workers, Find(w) PROVE FileCases(c)
  BY <1>3
  DEF Find, FileCases, disk
<1>4. ASSUME NEW w \in Workers, Check(w) PROVE FileCases(c)
  BY <1>4
  DEF Check, FileCases, disk
<1>5. ASSUME NEW w \in Workers, Hit(w) PROVE FileCases(c)
  BY <1>5
  DEF Hit, FileCases, disk
<1>6. ASSUME NEW w \in Workers, Fetch(w) PROVE FileCases(c)
  BY <1>6
  DEF Fetch, FileCases, disk
<1>7. ASSUME NEW w \in Workers, PutAbsent(w) PROVE FileCases(c)
  BY <1>7
  DEF PutAbsent, FileCases, disk
<1>8. ASSUME NEW w \in Workers, Write(w) PROVE FileCases(c)
  BY <1>8
  DEF Write, FileCases, disk
<1>9. ASSUME NEW w \in Workers, Close(w) PROVE FileCases(c)
  BY <1>9
  DEF Close, FileCases, disk
<1>10. ASSUME NEW w \in Workers, GzProbe(w) PROVE FileCases(c)
  BY <1>10
  DEF GzProbe, FileCases, disk
<1>11. ASSUME NEW w \in Workers, GzRefresh(w) PROVE FileCases(c)
  BY <1>11
  DEF GzRefresh, FileCases, disk
<1>12. ASSUME NEW w \in Workers, GzFill(w) PROVE FileCases(c)
  BY <1>12
  DEF GzFill, FileCases, disk
<1>13. ASSUME NEW w \in Workers, GzReplace(w) PROVE FileCases(c)
  BY <1>13
  DEF GzReplace, FileCases
<1>14. ASSUME NEW w \in Workers, Rename(w) PROVE FileCases(c)
  BY <1>14
  DEF Rename, Renamed, FileCases, TypeOK
<1>15. ASSUME NEW w \in Workers, Put(w) PROVE FileCases(c)
  BY <1>15
  DEF Put, FileCases, disk
<1>16. ASSUME NEW w \in Workers, Encode(w) PROVE FileCases(c)
  BY <1>16
  DEF Encode, FileCases, disk
<1>17. ASSUME NEW w \in Workers, GzOpen(w) PROVE FileCases(c)
  BY <1>17
  DEF GzOpen, FileCases, disk
<1>18. ASSUME NEW w \in Workers, GzCopy(w) PROVE FileCases(c)
  BY <1>18
  DEF GzCopy, FileCases, disk
<1>19. ASSUME NEW w \in Workers, GzMove(w) PROVE FileCases(c)
  BY <1>19
  DEF GzMove, FileCases
<1>20. ASSUME NEW w \in Workers, Measure(w) PROVE FileCases(c)
  BY <1>20
  DEF Measure, FileCases, disk
<1>21. ASSUME NEW w \in Workers, Conditions(w) PROVE FileCases(c)
  BY <1>21
  DEF Conditions, FileCases, disk
<1>22. ASSUME NEW w \in Workers, Open(w) PROVE FileCases(c)
  BY <1>22
  DEF Open, FileCases, disk
<1>23. ASSUME NEW w \in Workers, Send(w) PROVE FileCases(c)
  BY <1>23
  DEF Send, FileCases, disk
<1>24. ASSUME NEW j \in Keys, Upload(j) PROVE FileCases(c)
  BY <1>24
  DEF Upload, FileCases, disk
<1>25. ASSUME NEW j \in Keys, Delete(j) PROVE FileCases(c)
  BY <1>25
  DEF Delete, FileCases, disk
<1>26. ASSUME NEW j \in Keys, Clean(j) PROVE FileCases(c)
  BY <1>26
  DEF Clean, FileCases, TypeOK
<1>27. CASE Sweep
  BY <1>27
  DEF Sweep, FileCases, disk
<1>28. CASE Tick
  BY <1>28
  DEF Tick, FileCases, disk
<1>29. CASE Restart
  BY <1>29
  DEF Restart, FileCases, disk
<1>30. CASE UNCHANGED vars
  BY <1>30
  DEF FileCases, disk, vars
<1> QED
  BY <1>1, <1>2, <1>3, <1>4, <1>5, <1>6, <1>7, <1>8, <1>9, <1>10, <1>11,
     <1>12, <1>13, <1>14, <1>15, <1>16, <1>17, <1>18, <1>19, <1>20, <1>21,
     <1>22, <1>23, <1>24, <1>25, <1>26, <1>27, <1>28, <1>29, <1>30
  DEF Next, Handler, Environment

(* What a step can do to a gzip copy: GzMove and GzReplace give it a content. *)
GzCases(c) ==
  \/ gz'[c] = gz[c] \/ gz'[c] = NoFile
  \/ \E v \in Workers :
       (GzMove(v) \/ GzReplace(v)) /\ Key(v) = c /\ gz'[c] = zip[v]

(* Every step of the model is one of the cases. *)
LEMMA GzStep ==
  ASSUME TypeOK, NEW c \in Keys, [Next]_vars
  PROVE  GzCases(c)
<1>1. ASSUME NEW w \in Workers, Receive(w) PROVE GzCases(c)
  BY <1>1
  DEF Receive, GzCases, disk
<1>2. ASSUME NEW w \in Workers, ClearRequest(w) PROVE GzCases(c)
  BY <1>2
  DEF ClearRequest, GzCases, disk
<1>3. ASSUME NEW w \in Workers, Find(w) PROVE GzCases(c)
  BY <1>3
  DEF Find, GzCases, disk
<1>4. ASSUME NEW w \in Workers, Check(w) PROVE GzCases(c)
  BY <1>4
  DEF Check, GzCases, disk
<1>5. ASSUME NEW w \in Workers, Hit(w) PROVE GzCases(c)
  BY <1>5
  DEF Hit, GzCases, disk
<1>6. ASSUME NEW w \in Workers, Fetch(w) PROVE GzCases(c)
  BY <1>6
  DEF Fetch, GzCases, disk
<1>7. ASSUME NEW w \in Workers, PutAbsent(w) PROVE GzCases(c)
  BY <1>7
  DEF PutAbsent, GzCases, disk
<1>8. ASSUME NEW w \in Workers, Write(w) PROVE GzCases(c)
  BY <1>8
  DEF Write, GzCases, disk
<1>9. ASSUME NEW w \in Workers, Close(w) PROVE GzCases(c)
  BY <1>9
  DEF Close, GzCases, disk
<1>10. ASSUME NEW w \in Workers, GzProbe(w) PROVE GzCases(c)
  BY <1>10
  DEF GzProbe, GzCases, disk
<1>11. ASSUME NEW w \in Workers, GzRefresh(w) PROVE GzCases(c)
  BY <1>11
  DEF GzRefresh, GzCases, disk
<1>12. ASSUME NEW w \in Workers, GzFill(w) PROVE GzCases(c)
  BY <1>12
  DEF GzFill, GzCases, disk
<1>13. ASSUME NEW w \in Workers, GzReplace(w) PROVE GzCases(c)
  BY <1>13
  DEF GzReplace, GzCases, TypeOK
<1>14. ASSUME NEW w \in Workers, Rename(w) PROVE GzCases(c)
  BY <1>14
  DEF Rename, GzCases
<1>15. ASSUME NEW w \in Workers, Put(w) PROVE GzCases(c)
  BY <1>15
  DEF Put, GzCases, disk
<1>16. ASSUME NEW w \in Workers, Encode(w) PROVE GzCases(c)
  BY <1>16
  DEF Encode, GzCases, disk
<1>17. ASSUME NEW w \in Workers, GzOpen(w) PROVE GzCases(c)
  BY <1>17
  DEF GzOpen, GzCases, disk
<1>18. ASSUME NEW w \in Workers, GzCopy(w) PROVE GzCases(c)
  BY <1>18
  DEF GzCopy, GzCases, disk
<1>19. ASSUME NEW w \in Workers, GzMove(w) PROVE GzCases(c)
  BY <1>19
  DEF GzMove, GzCases, TypeOK
<1>20. ASSUME NEW w \in Workers, Measure(w) PROVE GzCases(c)
  BY <1>20
  DEF Measure, GzCases, disk
<1>21. ASSUME NEW w \in Workers, Conditions(w) PROVE GzCases(c)
  BY <1>21
  DEF Conditions, GzCases, disk
<1>22. ASSUME NEW w \in Workers, Open(w) PROVE GzCases(c)
  BY <1>22
  DEF Open, GzCases, disk
<1>23. ASSUME NEW w \in Workers, Send(w) PROVE GzCases(c)
  BY <1>23
  DEF Send, GzCases, disk
<1>24. ASSUME NEW j \in Keys, Upload(j) PROVE GzCases(c)
  BY <1>24
  DEF Upload, GzCases, disk
<1>25. ASSUME NEW j \in Keys, Delete(j) PROVE GzCases(c)
  BY <1>25
  DEF Delete, GzCases, disk
<1>26. ASSUME NEW j \in Keys, Clean(j) PROVE GzCases(c)
  BY <1>26
  DEF Clean, GzCases, TypeOK
<1>27. CASE Sweep
  BY <1>27
  DEF Sweep, GzCases, disk
<1>28. CASE Tick
  BY <1>28
  DEF Tick, GzCases, disk
<1>29. CASE Restart
  BY <1>29
  DEF Restart, GzCases, disk
<1>30. CASE UNCHANGED vars
  BY <1>30
  DEF GzCases, disk, vars
<1> QED
  BY <1>1, <1>2, <1>3, <1>4, <1>5, <1>6, <1>7, <1>8, <1>9, <1>10, <1>11,
     <1>12, <1>13, <1>14, <1>15, <1>16, <1>17, <1>18, <1>19, <1>20, <1>21,
     <1>22, <1>23, <1>24, <1>25, <1>26, <1>27, <1>28, <1>29, <1>30
  DEF Next, Handler, Environment

(* Without an external cleaner no file disappears. *)
LEMMA FilesStay ==
  ASSUME TypeOK, NEW c \in Keys, ~Cleaner, [Next]_vars
  PROVE  (Exists(file[c]) => Exists(file'[c])) /\ (Exists(gz[c]) => Exists(gz'[c]))
<1>1. ASSUME NEW w \in Workers, Receive(w) PROVE (Exists(file[c]) => Exists(file'[c])) /\ (Exists(gz[c]) => Exists(gz'[c]))
  BY <1>1
  DEF Receive, disk
<1>2. ASSUME NEW w \in Workers, ClearRequest(w) PROVE (Exists(file[c]) => Exists(file'[c])) /\ (Exists(gz[c]) => Exists(gz'[c]))
  BY <1>2
  DEF ClearRequest, disk
<1>3. ASSUME NEW w \in Workers, Find(w) PROVE (Exists(file[c]) => Exists(file'[c])) /\ (Exists(gz[c]) => Exists(gz'[c]))
  BY <1>3
  DEF Find, disk
<1>4. ASSUME NEW w \in Workers, Check(w) PROVE (Exists(file[c]) => Exists(file'[c])) /\ (Exists(gz[c]) => Exists(gz'[c]))
  BY <1>4
  DEF Check, disk
<1>5. ASSUME NEW w \in Workers, Hit(w) PROVE (Exists(file[c]) => Exists(file'[c])) /\ (Exists(gz[c]) => Exists(gz'[c]))
  BY <1>5
  DEF Hit, disk
<1>6. ASSUME NEW w \in Workers, Fetch(w) PROVE (Exists(file[c]) => Exists(file'[c])) /\ (Exists(gz[c]) => Exists(gz'[c]))
  BY <1>6
  DEF Fetch, disk
<1>7. ASSUME NEW w \in Workers, PutAbsent(w) PROVE (Exists(file[c]) => Exists(file'[c])) /\ (Exists(gz[c]) => Exists(gz'[c]))
  BY <1>7
  DEF PutAbsent, disk
<1>8. ASSUME NEW w \in Workers, Write(w) PROVE (Exists(file[c]) => Exists(file'[c])) /\ (Exists(gz[c]) => Exists(gz'[c]))
  BY <1>8
  DEF Write, disk
<1>9. ASSUME NEW w \in Workers, Close(w) PROVE (Exists(file[c]) => Exists(file'[c])) /\ (Exists(gz[c]) => Exists(gz'[c]))
  BY <1>9
  DEF Close, disk
<1>10. ASSUME NEW w \in Workers, GzProbe(w) PROVE (Exists(file[c]) => Exists(file'[c])) /\ (Exists(gz[c]) => Exists(gz'[c]))
  BY <1>10
  DEF GzProbe, disk
<1>11. ASSUME NEW w \in Workers, GzRefresh(w) PROVE (Exists(file[c]) => Exists(file'[c])) /\ (Exists(gz[c]) => Exists(gz'[c]))
  BY <1>11
  DEF GzRefresh, disk
<1>12. ASSUME NEW w \in Workers, GzFill(w) PROVE (Exists(file[c]) => Exists(file'[c])) /\ (Exists(gz[c]) => Exists(gz'[c]))
  BY <1>12
  DEF GzFill, disk
<1>13. ASSUME NEW w \in Workers, GzReplace(w) PROVE (Exists(file[c]) => Exists(file'[c])) /\ (Exists(gz[c]) => Exists(gz'[c]))
  BY <1>13
  DEF GzReplace, TypeOK
<1>14. ASSUME NEW w \in Workers, Rename(w) PROVE (Exists(file[c]) => Exists(file'[c])) /\ (Exists(gz[c]) => Exists(gz'[c]))
  BY <1>14
  DEF Rename, Renamed, TypeOK
<1>15. ASSUME NEW w \in Workers, Put(w) PROVE (Exists(file[c]) => Exists(file'[c])) /\ (Exists(gz[c]) => Exists(gz'[c]))
  BY <1>15
  DEF Put, disk
<1>16. ASSUME NEW w \in Workers, Encode(w) PROVE (Exists(file[c]) => Exists(file'[c])) /\ (Exists(gz[c]) => Exists(gz'[c]))
  BY <1>16
  DEF Encode, disk
<1>17. ASSUME NEW w \in Workers, GzOpen(w) PROVE (Exists(file[c]) => Exists(file'[c])) /\ (Exists(gz[c]) => Exists(gz'[c]))
  BY <1>17
  DEF GzOpen, disk
<1>18. ASSUME NEW w \in Workers, GzCopy(w) PROVE (Exists(file[c]) => Exists(file'[c])) /\ (Exists(gz[c]) => Exists(gz'[c]))
  BY <1>18
  DEF GzCopy, disk
<1>19. ASSUME NEW w \in Workers, GzMove(w) PROVE (Exists(file[c]) => Exists(file'[c])) /\ (Exists(gz[c]) => Exists(gz'[c]))
  BY <1>19
  DEF GzMove, TypeOK
<1>20. ASSUME NEW w \in Workers, Measure(w) PROVE (Exists(file[c]) => Exists(file'[c])) /\ (Exists(gz[c]) => Exists(gz'[c]))
  BY <1>20
  DEF Measure, disk
<1>21. ASSUME NEW w \in Workers, Conditions(w) PROVE (Exists(file[c]) => Exists(file'[c])) /\ (Exists(gz[c]) => Exists(gz'[c]))
  BY <1>21
  DEF Conditions, disk
<1>22. ASSUME NEW w \in Workers, Open(w) PROVE (Exists(file[c]) => Exists(file'[c])) /\ (Exists(gz[c]) => Exists(gz'[c]))
  BY <1>22
  DEF Open, disk
<1>23. ASSUME NEW w \in Workers, Send(w) PROVE (Exists(file[c]) => Exists(file'[c])) /\ (Exists(gz[c]) => Exists(gz'[c]))
  BY <1>23
  DEF Send, disk
<1>24. ASSUME NEW k \in Keys, Upload(k) PROVE (Exists(file[c]) => Exists(file'[c])) /\ (Exists(gz[c]) => Exists(gz'[c]))
  BY <1>24
  DEF Upload, disk
<1>25. ASSUME NEW k \in Keys, Delete(k) PROVE (Exists(file[c]) => Exists(file'[c])) /\ (Exists(gz[c]) => Exists(gz'[c]))
  BY <1>25
  DEF Delete, disk
<1>26. ASSUME NEW k \in Keys, Clean(k) PROVE (Exists(file[c]) => Exists(file'[c])) /\ (Exists(gz[c]) => Exists(gz'[c]))
  BY <1>26
  DEF Clean
<1>27. CASE Sweep
  BY <1>27
  DEF Sweep, disk
<1>28. CASE Tick
  BY <1>28
  DEF Tick, disk
<1>29. CASE Restart
  BY <1>29
  DEF Restart, disk
<1>30. CASE UNCHANGED vars
  BY <1>30
  DEF disk, vars
<1> QED
  BY <1>1, <1>2, <1>3, <1>4, <1>5, <1>6, <1>7, <1>8, <1>9, <1>10, <1>11,
     <1>12, <1>13, <1>14, <1>15, <1>16, <1>17, <1>18, <1>19, <1>20, <1>21,
     <1>22, <1>23, <1>24, <1>25, <1>26, <1>27, <1>28, <1>29, <1>30
  DEF Next, Handler, Environment

-----------------------------------------------------------------------------
(* Who comes to publish, and what. *)

(* A worker goes on with the same download of the same object. *)
SameWork(v) == req'[v] = req[v] /\ got'[v] = got[v]

(* How a worker comes to be refreshing with nobody interfering: it was already,
   or it has just downloaded the newest revision. *)
SoloCases(v) ==
  \/ pc[v] \in Refreshing /\ solo[v] /\ SameWork(v)
  \/ Fetch(v) /\ pc'[v] = "write" /\ got'[v] = latest[Key(v)] /\ req'[v] = req[v]

(* Every step after which a worker is so is one of the cases. *)
LEMMA SoloStep ==
  ASSUME TypeOK, NEW v \in Workers, pc'[v] \in Refreshing, solo'[v], [Next]_vars
  PROVE  SoloCases(v)
<1>1. ASSUME NEW w \in Workers, Receive(w) PROVE SoloCases(v)
  BY <1>1
  DEF Receive, Goto, Answer, SoloCases, SameWork, TypeOK, Refreshing, history
<1>2. ASSUME NEW w \in Workers, ClearRequest(w) PROVE SoloCases(v)
  BY <1>2
  DEF ClearRequest, Goto, Answer, SoloCases, SameWork, Refreshing, history
<1>3. ASSUME NEW w \in Workers, Find(w) PROVE SoloCases(v)
  BY <1>3
  DEF Find, Goto, SoloCases, SameWork, Refreshing, history
<1>4. ASSUME NEW w \in Workers, Check(w) PROVE SoloCases(v)
  BY <1>4
  DEF Check, Goto, Dereferenced, SoloCases, SameWork, Refreshing, history
<1>5. ASSUME NEW w \in Workers, Hit(w) PROVE SoloCases(v)
  BY <1>5
  DEF Hit, Goto, Answer, Dereferenced, SoloCases, SameWork, TypeOK, Refreshing, history
<1>6. ASSUME NEW w \in Workers, Fetch(w) PROVE SoloCases(v)
  <2>1. CASE v = w
    <3>1. pc'[w] = "write" /\ got' = [got EXCEPT ![w] = latest[Key(w)]]
      BY <1>6, <2>1 DEF Fetch, Goto, Answer, TypeOK, Refreshing
    <3> QED
      BY <1>6, <2>1, <3>1 DEF SoloCases, Fetch, TypeOK
  <2>2. CASE v # w
    <3>1. pc'[v] = pc[v] /\ SameWork(v)
      BY <1>6, <2>2 DEF Fetch, Goto, Answer, TypeOK, SameWork
    <3>2. solo[v]
      BY <1>6, <2>2 DEF Fetch, Overlap, TypeOK, history
    <3> QED
      BY <3>1, <3>2 DEF SoloCases
  <2> QED
    BY <2>1, <2>2
<1>7. ASSUME NEW w \in Workers, PutAbsent(w) PROVE SoloCases(v)
  BY <1>7
  DEF PutAbsent, Goto, Answer, SoloCases, SameWork, Refreshing, history
<1>8. ASSUME NEW w \in Workers, Write(w) PROVE SoloCases(v)
  BY <1>8
  DEF Write, Goto, At, SoloCases, SameWork, Refreshing, history
<1>9. ASSUME NEW w \in Workers, Close(w) PROVE SoloCases(v)
  BY <1>9
  DEF Close, Goto, At, SoloCases, SameWork, Refreshing, history
<1>10. ASSUME NEW w \in Workers, GzProbe(w) PROVE SoloCases(v)
  BY <1>10
  DEF GzProbe, Goto, At, SoloCases, SameWork, Refreshing, history
<1>11. ASSUME NEW w \in Workers, GzRefresh(w) PROVE SoloCases(v)
  BY <1>11
  DEF GzRefresh, Goto, At, SoloCases, SameWork, Refreshing, history
<1>12. ASSUME NEW w \in Workers, GzFill(w) PROVE SoloCases(v)
  BY <1>12
  DEF GzFill, Goto, At, SoloCases, SameWork, Refreshing, history
<1>13. ASSUME NEW w \in Workers, GzReplace(w) PROVE SoloCases(v)
  BY <1>13
  DEF GzReplace, Goto, Answer, Leave, At, SoloCases, SameWork, TypeOK, Refreshing
<1>14. ASSUME NEW w \in Workers, Rename(w) PROVE SoloCases(v)
  BY <1>14
  DEF Rename, Goto, Answer, Leave, At, SoloCases, SameWork, TypeOK, Refreshing
<1>15. ASSUME NEW w \in Workers, Put(w) PROVE SoloCases(v)
  BY <1>15
  DEF Put, Goto, Leave, SoloCases, SameWork, TypeOK
<1>16. ASSUME NEW w \in Workers, Encode(w) PROVE SoloCases(v)
  BY <1>16
  DEF Encode, Goto, SoloCases, SameWork, Refreshing, history
<1>17. ASSUME NEW w \in Workers, GzOpen(w) PROVE SoloCases(v)
  BY <1>17
  DEF GzOpen, Goto, Overlap, SoloCases, SameWork, TypeOK, Refreshing
<1>18. ASSUME NEW w \in Workers, GzCopy(w) PROVE SoloCases(v)
  BY <1>18
  DEF GzCopy, Goto, SoloCases, SameWork, Refreshing, history
<1>19. ASSUME NEW w \in Workers, GzMove(w) PROVE SoloCases(v)
  BY <1>19
  DEF GzMove, Goto, Answer, Leave, SoloCases, SameWork, TypeOK
<1>20. ASSUME NEW w \in Workers, Measure(w) PROVE SoloCases(v)
  BY <1>20
  DEF Measure, Goto, Answer, SoloCases, SameWork, TypeOK, Refreshing, history
<1>21. ASSUME NEW w \in Workers, Conditions(w) PROVE SoloCases(v)
  BY <1>21
  DEF Conditions, Goto, Answer, SoloCases, SameWork, TypeOK, Refreshing, history
<1>22. ASSUME NEW w \in Workers, Open(w) PROVE SoloCases(v)
  BY <1>22
  DEF Open, Goto, Answer, SoloCases, SameWork, Refreshing, history
<1>23. ASSUME NEW w \in Workers, Send(w) PROVE SoloCases(v)
  BY <1>23
  DEF Send, Goto, SoloCases, SameWork, TypeOK, Refreshing, history
<1>24. ASSUME NEW j \in Keys, Upload(j) PROVE SoloCases(v)
  BY <1>24
  DEF Upload, SoloCases, SameWork, history
<1>25. ASSUME NEW j \in Keys, Delete(j) PROVE SoloCases(v)
  BY <1>25
  DEF Delete, SoloCases, SameWork, history
<1>26. ASSUME NEW j \in Keys, Clean(j) PROVE SoloCases(v)
  BY <1>26
  DEF Clean, SoloCases, SameWork, history
<1>27. CASE Sweep
  BY <1>27
  DEF Sweep, SoloCases, SameWork, history
<1>28. CASE Tick
  BY <1>28
  DEF Tick, SoloCases, SameWork, history
<1>29. CASE Restart
  BY <1>29
  DEF Restart, SoloCases
<1>30. CASE UNCHANGED vars
  BY <1>30
  DEF SoloCases, SameWork, history, vars
<1> QED
  BY <1>1, <1>2, <1>3, <1>4, <1>5, <1>6, <1>7, <1>8, <1>9, <1>10, <1>11,
     <1>12, <1>13, <1>14, <1>15, <1>16, <1>17, <1>18, <1>19, <1>20, <1>21,
     <1>22, <1>23, <1>24, <1>25, <1>26, <1>27, <1>28, <1>29, <1>30
  DEF Next, Handler, Environment

(* How a worker comes to be about to publish a file or its metadata. *)
PublishCases(v) ==
  \/ pc[v] = "rename" /\ pc'[v] = "rename" /\ SameWork(v)
  \/ pc[v] = "put" /\ pc'[v] = "put" /\ SameWork(v)
  \/ Rename(v) /\ SameWork(v) /\ pc'[v] = "put" /\ file'[Key(v)] = tmp[v]
  \/ GzProbe(v) /\ SameWork(v) /\ pc'[v] = "rename" /\ gz'[Key(v)] = NoFile
  \/ GzReplace(v) /\ SameWork(v) /\ pc'[v] = "rename" /\ gz'[Key(v)] = zip[v]

(* Every step after which a worker is there is one of the cases. *)
LEMMA PublishStep ==
  ASSUME TypeOK, NEW v \in Workers, pc'[v] \in {"rename", "put"}, [Next]_vars
  PROVE  PublishCases(v)
<1>1. ASSUME NEW w \in Workers, Receive(w) PROVE PublishCases(v)
  BY <1>1
  DEF Receive, Goto, Answer, PublishCases, SameWork, TypeOK, disk
<1>2. ASSUME NEW w \in Workers, ClearRequest(w) PROVE PublishCases(v)
  BY <1>2
  DEF ClearRequest, Goto, Answer, PublishCases, SameWork, disk
<1>3. ASSUME NEW w \in Workers, Find(w) PROVE PublishCases(v)
  BY <1>3
  DEF Find, Goto, PublishCases, SameWork, disk
<1>4. ASSUME NEW w \in Workers, Check(w) PROVE PublishCases(v)
  BY <1>4
  DEF Check, Goto, Dereferenced, PublishCases, SameWork, disk
<1>5. ASSUME NEW w \in Workers, Hit(w) PROVE PublishCases(v)
  BY <1>5
  DEF Hit, Goto, Answer, Dereferenced, PublishCases, SameWork, TypeOK, disk
<1>6. ASSUME NEW w \in Workers, Fetch(w) PROVE PublishCases(v)
  BY <1>6
  DEF Fetch, Goto, Answer, PublishCases, SameWork, TypeOK, disk
<1>7. ASSUME NEW w \in Workers, PutAbsent(w) PROVE PublishCases(v)
  BY <1>7
  DEF PutAbsent, Goto, Answer, PublishCases, SameWork, disk
<1>8. ASSUME NEW w \in Workers, Write(w) PROVE PublishCases(v)
  BY <1>8
  DEF Write, Goto, PublishCases, SameWork, disk
<1>9. ASSUME NEW w \in Workers, Close(w) PROVE PublishCases(v)
  BY <1>9
  DEF Close, Goto, PublishCases, SameWork, disk
<1>10. ASSUME NEW w \in Workers, GzProbe(w) PROVE PublishCases(v)
  <2>1. SameWork(v)
    BY <1>10 DEF GzProbe, SameWork
  <2>2. CASE v = w
    BY <1>10, <2>1, <2>2, KeyTyped DEF GzProbe, Goto, PublishCases, TypeOK, Exists, disk
  <2>3. CASE v # w
    BY <1>10, <2>1, <2>3 DEF GzProbe, Goto, PublishCases, TypeOK
  <2> QED
    BY <2>2, <2>3
<1>11. ASSUME NEW w \in Workers, GzRefresh(w) PROVE PublishCases(v)
  BY <1>11
  DEF GzRefresh, Goto, PublishCases, SameWork, disk
<1>12. ASSUME NEW w \in Workers, GzFill(w) PROVE PublishCases(v)
  BY <1>12
  DEF GzFill, Goto, PublishCases, SameWork, disk
<1>13. ASSUME NEW w \in Workers, GzReplace(w) PROVE PublishCases(v)
  <2>1. CASE v = w
    <3>1. Exists(zip[w]) /\ pc'[w] = "rename"
      BY <1>13, <2>1 DEF GzReplace, Goto, Answer, TypeOK
    <3>2. SameWork(w) /\ gz'[Key(w)] = zip[w]
      BY <1>13, <3>1, KeyTyped DEF GzReplace, SameWork, TypeOK
    <3> QED
      BY <1>13, <2>1, <3>1, <3>2 DEF PublishCases
  <2>2. CASE v # w
    <3>1. pc'[v] = pc[v] /\ SameWork(v)
      BY <1>13, <2>2 DEF GzReplace, Goto, Answer, TypeOK, SameWork
    <3> QED
      BY <3>1 DEF PublishCases
  <2> QED
    BY <2>1, <2>2
<1>14. ASSUME NEW w \in Workers, Rename(w) PROVE PublishCases(v)
  <2>1. CASE v = w
    <3>1. Exists(tmp[w]) /\ pc'[w] = "put"
      BY <1>14, <2>1 DEF Rename, Goto, Answer, TypeOK
    <3>2. SameWork(w) /\ file'[Key(w)] = tmp[w]
      BY <1>14, <3>1, KeyTyped DEF Rename, Renamed, SameWork, TypeOK
    <3> QED
      BY <1>14, <2>1, <3>1, <3>2 DEF PublishCases
  <2>2. CASE v # w
    <3>1. pc'[v] = pc[v] /\ SameWork(v)
      BY <1>14, <2>2 DEF Rename, Goto, Answer, TypeOK, SameWork
    <3> QED
      BY <3>1 DEF PublishCases
  <2> QED
    BY <2>1, <2>2
<1>15. ASSUME NEW w \in Workers, Put(w) PROVE PublishCases(v)
  BY <1>15
  DEF Put, Goto, PublishCases, SameWork, TypeOK, disk
<1>16. ASSUME NEW w \in Workers, Encode(w) PROVE PublishCases(v)
  BY <1>16
  DEF Encode, Goto, PublishCases, SameWork, disk
<1>17. ASSUME NEW w \in Workers, GzOpen(w) PROVE PublishCases(v)
  BY <1>17
  DEF GzOpen, Goto, PublishCases, SameWork, disk
<1>18. ASSUME NEW w \in Workers, GzCopy(w) PROVE PublishCases(v)
  BY <1>18
  DEF GzCopy, Goto, PublishCases, SameWork, disk
<1>19. ASSUME NEW w \in Workers, GzMove(w) PROVE PublishCases(v)
  BY <1>19
  DEF GzMove, Goto, Answer, PublishCases, SameWork, TypeOK
<1>20. ASSUME NEW w \in Workers, Measure(w) PROVE PublishCases(v)
  BY <1>20
  DEF Measure, Goto, Answer, PublishCases, SameWork, TypeOK, disk
<1>21. ASSUME NEW w \in Workers, Conditions(w) PROVE PublishCases(v)
  BY <1>21
  DEF Conditions, Goto, Answer, PublishCases, SameWork, TypeOK, disk
<1>22. ASSUME NEW w \in Workers, Open(w) PROVE PublishCases(v)
  BY <1>22
  DEF Open, Goto, Answer, PublishCases, SameWork, disk
<1>23. ASSUME NEW w \in Workers, Send(w) PROVE PublishCases(v)
  BY <1>23
  DEF Send, Goto, PublishCases, SameWork, TypeOK, disk
<1>24. ASSUME NEW j \in Keys, Upload(j) PROVE PublishCases(v)
  BY <1>24
  DEF Upload, PublishCases, SameWork, disk
<1>25. ASSUME NEW j \in Keys, Delete(j) PROVE PublishCases(v)
  BY <1>25
  DEF Delete, PublishCases, SameWork, disk
<1>26. ASSUME NEW j \in Keys, Clean(j) PROVE PublishCases(v)
  BY <1>26
  DEF Clean, PublishCases, SameWork
<1>27. CASE Sweep
  BY <1>27
  DEF Sweep, PublishCases, SameWork, disk
<1>28. CASE Tick
  BY <1>28
  DEF Tick, PublishCases, SameWork, disk
<1>29. CASE Restart
  BY <1>29
  DEF Restart, PublishCases, disk
<1>30. CASE UNCHANGED vars
  BY <1>30
  DEF PublishCases, SameWork, disk, vars
<1> QED
  BY <1>1, <1>2, <1>3, <1>4, <1>5, <1>6, <1>7, <1>8, <1>9, <1>10, <1>11,
     <1>12, <1>13, <1>14, <1>15, <1>16, <1>17, <1>18, <1>19, <1>20, <1>21,
     <1>22, <1>23, <1>24, <1>25, <1>26, <1>27, <1>28, <1>29, <1>30
  DEF Next, Handler, Environment

(* What a step can do to a worker's download. *)
DownloadCases(v) ==
  \/ /\ pc'[v] \notin Downloaded
     /\ tmp'[v] = NoFile \/ (tmp'[v] = tmp[v] /\ pc[v] # "close")
  \/ /\ pc[v] \in Downloaded /\ pc'[v] \in Downloaded /\ SameWork(v) /\ tmp'[v] = tmp[v]
     /\ pc[v] = "close" <=> pc'[v] = "close"
  \/ /\ pc[v] = "write" /\ pc'[v] = "close" /\ SameWork(v)
     /\ tmp'[v] \in Begun(Copy(got[v]))
  \/ /\ pc[v] = "close" /\ pc'[v] = "gzprobe" /\ SameWork(v)
     /\ tmp'[v] \in Closed(tmp[v])

(* Every step of the model is one of the cases. *)
LEMMA DownloadStep ==
  ASSUME TypeOK, NEW v \in Workers, [Next]_vars
  PROVE  DownloadCases(v)
<1>1. ASSUME NEW w \in Workers, Receive(w) PROVE DownloadCases(v)
  BY <1>1 DEF Receive, Goto, Answer, At, DownloadCases, Downloaded, SameWork, TypeOK
<1>2. ASSUME NEW w \in Workers, ClearRequest(w) PROVE DownloadCases(v)
  BY <1>2 DEF ClearRequest, Goto, Answer, At, DownloadCases, Downloaded, SameWork, TypeOK
<1>3. ASSUME NEW w \in Workers, Find(w) PROVE DownloadCases(v)
  BY <1>3 DEF Find, Goto, At, DownloadCases, Downloaded, SameWork, TypeOK
<1>4. ASSUME NEW w \in Workers, Check(w) PROVE DownloadCases(v)
  BY <1>4 DEF Check, Goto, At, DownloadCases, Downloaded, SameWork, TypeOK
<1>5. ASSUME NEW w \in Workers, Hit(w) PROVE DownloadCases(v)
  BY <1>5 DEF Hit, Goto, Answer, At, DownloadCases, Downloaded, SameWork, TypeOK
<1>6. ASSUME NEW w \in Workers, Fetch(w) PROVE DownloadCases(v)
  BY <1>6 DEF Fetch, Goto, Answer, At, DownloadCases, Downloaded, SameWork, TypeOK
<1>7. ASSUME NEW w \in Workers, PutAbsent(w) PROVE DownloadCases(v)
  BY <1>7 DEF PutAbsent, Goto, Answer, At, DownloadCases, Downloaded, SameWork, TypeOK
<1>8. ASSUME NEW w \in Workers, Write(w) PROVE DownloadCases(v)
  BY <1>8 DEF Write, Goto, At, DownloadCases, Downloaded, SameWork, TypeOK
<1>9. ASSUME NEW w \in Workers, Close(w) PROVE DownloadCases(v)
  BY <1>9 DEF Close, Goto, At, DownloadCases, Downloaded, SameWork, TypeOK
<1>10. ASSUME NEW w \in Workers, GzProbe(w) PROVE DownloadCases(v)
  BY <1>10 DEF GzProbe, Goto, At, DownloadCases, Downloaded, SameWork, TypeOK
<1>11. ASSUME NEW w \in Workers, GzRefresh(w) PROVE DownloadCases(v)
  BY <1>11 DEF GzRefresh, Goto, At, DownloadCases, Downloaded, SameWork, TypeOK
<1>12. ASSUME NEW w \in Workers, GzFill(w) PROVE DownloadCases(v)
  BY <1>12 DEF GzFill, Goto, At, DownloadCases, Downloaded, SameWork, TypeOK
<1>13. ASSUME NEW w \in Workers, GzReplace(w) PROVE DownloadCases(v)
  BY <1>13 DEF GzReplace, Goto, Answer, At, DownloadCases, Downloaded, SameWork, TypeOK
<1>14. ASSUME NEW w \in Workers, Rename(w) PROVE DownloadCases(v)
  BY <1>14 DEF Rename, Goto, Answer, At, DownloadCases, Downloaded, SameWork, TypeOK
<1>15. ASSUME NEW w \in Workers, Put(w) PROVE DownloadCases(v)
  BY <1>15 DEF Put, Goto, At, DownloadCases, Downloaded, SameWork, TypeOK
<1>16. ASSUME NEW w \in Workers, Encode(w) PROVE DownloadCases(v)
  BY <1>16 DEF Encode, Goto, At, DownloadCases, Downloaded, SameWork, TypeOK
<1>17. ASSUME NEW w \in Workers, GzOpen(w) PROVE DownloadCases(v)
  BY <1>17 DEF GzOpen, Goto, At, DownloadCases, Downloaded, SameWork, TypeOK
<1>18. ASSUME NEW w \in Workers, GzCopy(w) PROVE DownloadCases(v)
  BY <1>18 DEF GzCopy, Goto, At, DownloadCases, Downloaded, SameWork, TypeOK
<1>19. ASSUME NEW w \in Workers, GzMove(w) PROVE DownloadCases(v)
  BY <1>19 DEF GzMove, Goto, Answer, At, DownloadCases, Downloaded, SameWork, TypeOK
<1>20. ASSUME NEW w \in Workers, Measure(w) PROVE DownloadCases(v)
  BY <1>20 DEF Measure, Goto, Answer, At, DownloadCases, Downloaded, SameWork, TypeOK
<1>21. ASSUME NEW w \in Workers, Conditions(w) PROVE DownloadCases(v)
  BY <1>21 DEF Conditions, Goto, Answer, At, DownloadCases, Downloaded, SameWork, TypeOK
<1>22. ASSUME NEW w \in Workers, Open(w) PROVE DownloadCases(v)
  BY <1>22 DEF Open, Goto, Answer, At, DownloadCases, Downloaded, SameWork, TypeOK
<1>23. ASSUME NEW w \in Workers, Send(w) PROVE DownloadCases(v)
  BY <1>23 DEF Send, Goto, At, DownloadCases, Downloaded, SameWork, TypeOK
<1>24. ASSUME NEW j \in Keys, Upload(j) PROVE DownloadCases(v)
  BY <1>24 DEF Upload, DownloadCases, Downloaded, SameWork, TypeOK
<1>25. ASSUME NEW j \in Keys, Delete(j) PROVE DownloadCases(v)
  BY <1>25 DEF Delete, DownloadCases, Downloaded, SameWork, TypeOK
<1>26. ASSUME NEW j \in Keys, Clean(j) PROVE DownloadCases(v)
  BY <1>26 DEF Clean, DownloadCases, Downloaded, SameWork, TypeOK
<1>27. CASE Sweep
  BY <1>27 DEF Sweep, DownloadCases, Downloaded, SameWork, TypeOK
<1>28. CASE Tick
  BY <1>28 DEF Tick, DownloadCases, Downloaded, SameWork, TypeOK
<1>29. CASE Restart
  BY <1>29 DEF Restart, DownloadCases, Downloaded
<1>30. CASE UNCHANGED vars
  BY <1>30 DEF vars, DownloadCases, Downloaded, SameWork, TypeOK
<1> QED
  BY <1>1, <1>2, <1>3, <1>4, <1>5, <1>6, <1>7, <1>8, <1>9, <1>10, <1>11,
     <1>12, <1>13, <1>14, <1>15, <1>16, <1>17, <1>18, <1>19, <1>20, <1>21,
     <1>22, <1>23, <1>24, <1>25, <1>26, <1>27, <1>28, <1>29, <1>30
  DEF Next, Handler, Environment

(* What a step can do to the copy that a worker's compress() makes. *)
CopyCases(v) ==
  \/ /\ pc'[v] \notin Zipping
     /\ zip'[v] = NoFile \/ (zip'[v] = zip[v] /\ pc[v] \notin {"gzfill", "gzcopy"})
  \/ pc[v] \in Zipping /\ pc'[v] = pc[v] /\ SameWork(v) /\ zip'[v] = zip[v]
  \/ /\ pc[v] = "gzrefresh" /\ pc'[v] = "gzfill" /\ SameWork(v)
     /\ zip'[v] \in Begun(Compressed(tmp[v]))
  \/ /\ pc[v] = "gzfill" /\ pc'[v] = "gzreplace" /\ SameWork(v)
     /\ zip'[v] \in Closed(zip[v])
  \/ GzOpen(v) /\ pc'[v] = "gzcopy" /\ SameWork(v) /\ zip'[v] \in Begun(Compressed(file[Key(v)]))
  \/ /\ pc[v] = "gzcopy" /\ pc'[v] = "gzmove" /\ SameWork(v)
     /\ zip'[v] \in Closed(zip[v])

(* Every step of the model is one of the cases. *)
LEMMA CopyStep ==
  ASSUME TypeOK, NEW v \in Workers, [Next]_vars
  PROVE  CopyCases(v)
<1>1. ASSUME NEW w \in Workers, Receive(w) PROVE CopyCases(v)
  BY <1>1 DEF Receive, Goto, Answer, At, CopyCases, Zipping, Compressing, SameWork, TypeOK
<1>2. ASSUME NEW w \in Workers, ClearRequest(w) PROVE CopyCases(v)
  BY <1>2 DEF ClearRequest, Goto, Answer, At, CopyCases, Zipping, Compressing, SameWork, TypeOK
<1>3. ASSUME NEW w \in Workers, Find(w) PROVE CopyCases(v)
  BY <1>3 DEF Find, Goto, At, CopyCases, Zipping, Compressing, SameWork, TypeOK
<1>4. ASSUME NEW w \in Workers, Check(w) PROVE CopyCases(v)
  BY <1>4 DEF Check, Goto, At, CopyCases, Zipping, Compressing, SameWork, TypeOK
<1>5. ASSUME NEW w \in Workers, Hit(w) PROVE CopyCases(v)
  BY <1>5 DEF Hit, Goto, Answer, At, CopyCases, Zipping, Compressing, SameWork, TypeOK
<1>6. ASSUME NEW w \in Workers, Fetch(w) PROVE CopyCases(v)
  BY <1>6 DEF Fetch, Goto, Answer, At, CopyCases, Zipping, Compressing, SameWork, TypeOK
<1>7. ASSUME NEW w \in Workers, PutAbsent(w) PROVE CopyCases(v)
  BY <1>7 DEF PutAbsent, Goto, Answer, At, CopyCases, Zipping, Compressing, SameWork, TypeOK
<1>8. ASSUME NEW w \in Workers, Write(w) PROVE CopyCases(v)
  BY <1>8 DEF Write, Goto, At, CopyCases, Zipping, Compressing, SameWork, TypeOK
<1>9. ASSUME NEW w \in Workers, Close(w) PROVE CopyCases(v)
  BY <1>9 DEF Close, Goto, At, CopyCases, Zipping, Compressing, SameWork, TypeOK
<1>10. ASSUME NEW w \in Workers, GzProbe(w) PROVE CopyCases(v)
  BY <1>10 DEF GzProbe, Goto, At, CopyCases, Zipping, Compressing, SameWork, TypeOK
<1>11. ASSUME NEW w \in Workers, GzRefresh(w) PROVE CopyCases(v)
  BY <1>11 DEF GzRefresh, Goto, At, CopyCases, Zipping, Compressing, SameWork, TypeOK
<1>12. ASSUME NEW w \in Workers, GzFill(w) PROVE CopyCases(v)
  BY <1>12 DEF GzFill, Goto, At, CopyCases, Zipping, Compressing, SameWork, TypeOK
<1>13. ASSUME NEW w \in Workers, GzReplace(w) PROVE CopyCases(v)
  BY <1>13 DEF GzReplace, Goto, Answer, At, CopyCases, Zipping, Compressing, SameWork, TypeOK
<1>14. ASSUME NEW w \in Workers, Rename(w) PROVE CopyCases(v)
  BY <1>14 DEF Rename, Goto, Answer, At, CopyCases, Zipping, Compressing, SameWork, TypeOK
<1>15. ASSUME NEW w \in Workers, Put(w) PROVE CopyCases(v)
  BY <1>15 DEF Put, Goto, At, CopyCases, Zipping, Compressing, SameWork, TypeOK
<1>16. ASSUME NEW w \in Workers, Encode(w) PROVE CopyCases(v)
  BY <1>16 DEF Encode, Goto, At, CopyCases, Zipping, Compressing, SameWork, TypeOK
<1>17. ASSUME NEW w \in Workers, GzOpen(w) PROVE CopyCases(v)
  BY <1>17 DEF GzOpen, Goto, At, CopyCases, Zipping, Compressing, SameWork, TypeOK
<1>18. ASSUME NEW w \in Workers, GzCopy(w) PROVE CopyCases(v)
  BY <1>18 DEF GzCopy, Goto, At, CopyCases, Zipping, Compressing, SameWork, TypeOK
<1>19. ASSUME NEW w \in Workers, GzMove(w) PROVE CopyCases(v)
  BY <1>19 DEF GzMove, Goto, Answer, At, CopyCases, Zipping, Compressing, SameWork, TypeOK
<1>20. ASSUME NEW w \in Workers, Measure(w) PROVE CopyCases(v)
  BY <1>20 DEF Measure, Goto, Answer, At, CopyCases, Zipping, Compressing, SameWork, TypeOK
<1>21. ASSUME NEW w \in Workers, Conditions(w) PROVE CopyCases(v)
  BY <1>21 DEF Conditions, Goto, Answer, At, CopyCases, Zipping, Compressing, SameWork, TypeOK
<1>22. ASSUME NEW w \in Workers, Open(w) PROVE CopyCases(v)
  BY <1>22 DEF Open, Goto, Answer, At, CopyCases, Zipping, Compressing, SameWork, TypeOK
<1>23. ASSUME NEW w \in Workers, Send(w) PROVE CopyCases(v)
  BY <1>23 DEF Send, Goto, At, CopyCases, Zipping, Compressing, SameWork, TypeOK
<1>24. ASSUME NEW j \in Keys, Upload(j) PROVE CopyCases(v)
  BY <1>24 DEF Upload, CopyCases, Zipping, Compressing, SameWork, TypeOK
<1>25. ASSUME NEW j \in Keys, Delete(j) PROVE CopyCases(v)
  BY <1>25 DEF Delete, CopyCases, Zipping, Compressing, SameWork, TypeOK
<1>26. ASSUME NEW j \in Keys, Clean(j) PROVE CopyCases(v)
  BY <1>26 DEF Clean, CopyCases, Zipping, Compressing, SameWork, TypeOK
<1>27. CASE Sweep
  BY <1>27 DEF Sweep, CopyCases, Zipping, Compressing, SameWork, TypeOK
<1>28. CASE Tick
  BY <1>28 DEF Tick, CopyCases, Zipping, Compressing, SameWork, TypeOK
<1>29. CASE Restart
  BY <1>29 DEF Restart, CopyCases, Zipping, Compressing
<1>30. CASE UNCHANGED vars
  BY <1>30 DEF vars, CopyCases, Zipping, Compressing, SameWork, TypeOK
<1> QED
  BY <1>1, <1>2, <1>3, <1>4, <1>5, <1>6, <1>7, <1>8, <1>9, <1>10, <1>11,
     <1>12, <1>13, <1>14, <1>15, <1>16, <1>17, <1>18, <1>19, <1>20, <1>21,
     <1>22, <1>23, <1>24, <1>25, <1>26, <1>27, <1>28, <1>29, <1>30
  DEF Next, Handler, Environment

(* A worker leaves "put" for "encode" only by publishing its metadata. *)
LEMMA OnlyPutPublishes ==
  ASSUME TypeOK, NEW v \in Workers, pc[v] = "put", pc'[v] = "encode", [Next]_vars
  PROVE  Put(v)
<1>1. ASSUME NEW w \in Workers, Receive(w) PROVE Put(v)
  BY <1>1
  DEF Receive, Goto, Answer, TypeOK
<1>2. ASSUME NEW w \in Workers, ClearRequest(w) PROVE Put(v)
  BY <1>2
  DEF ClearRequest, Goto, Answer
<1>3. ASSUME NEW w \in Workers, Find(w) PROVE Put(v)
  BY <1>3
  DEF Find, Goto
<1>4. ASSUME NEW w \in Workers, Check(w) PROVE Put(v)
  BY <1>4
  DEF Check, Goto, Dereferenced
<1>5. ASSUME NEW w \in Workers, Hit(w) PROVE Put(v)
  BY <1>5
  DEF Hit, Goto, Answer, Dereferenced, At, TypeOK
<1>6. ASSUME NEW w \in Workers, Fetch(w) PROVE Put(v)
  BY <1>6
  DEF Fetch, Goto, Answer, TypeOK
<1>7. ASSUME NEW w \in Workers, PutAbsent(w) PROVE Put(v)
  BY <1>7
  DEF PutAbsent, Goto, Answer
<1>8. ASSUME NEW w \in Workers, Write(w) PROVE Put(v)
  BY <1>8
  DEF Write, Goto
<1>9. ASSUME NEW w \in Workers, Close(w) PROVE Put(v)
  BY <1>9
  DEF Close, Goto
<1>10. ASSUME NEW w \in Workers, GzProbe(w) PROVE Put(v)
  BY <1>10
  DEF GzProbe, Goto
<1>11. ASSUME NEW w \in Workers, GzRefresh(w) PROVE Put(v)
  BY <1>11
  DEF GzRefresh, Goto
<1>12. ASSUME NEW w \in Workers, GzFill(w) PROVE Put(v)
  BY <1>12
  DEF GzFill, Goto
<1>13. ASSUME NEW w \in Workers, GzReplace(w) PROVE Put(v)
  BY <1>13
  DEF GzReplace, Goto, Answer, TypeOK
<1>14. ASSUME NEW w \in Workers, Rename(w) PROVE Put(v)
  BY <1>14
  DEF Rename, Goto, Answer, TypeOK
<1>15. ASSUME NEW w \in Workers, Put(w) PROVE Put(v)
  BY <1>15
  DEF Put, Goto, TypeOK
<1>16. ASSUME NEW w \in Workers, Encode(w) PROVE Put(v)
  BY <1>16
  DEF Encode, Goto
<1>17. ASSUME NEW w \in Workers, GzOpen(w) PROVE Put(v)
  BY <1>17
  DEF GzOpen, Goto
<1>18. ASSUME NEW w \in Workers, GzCopy(w) PROVE Put(v)
  BY <1>18
  DEF GzCopy, Goto
<1>19. ASSUME NEW w \in Workers, GzMove(w) PROVE Put(v)
  BY <1>19
  DEF GzMove, Goto, Answer, TypeOK
<1>20. ASSUME NEW w \in Workers, Measure(w) PROVE Put(v)
  BY <1>20
  DEF Measure, Goto, Answer, TypeOK
<1>21. ASSUME NEW w \in Workers, Conditions(w) PROVE Put(v)
  BY <1>21
  DEF Conditions, Goto, Answer, TypeOK
<1>22. ASSUME NEW w \in Workers, Open(w) PROVE Put(v)
  BY <1>22
  DEF Open, Goto, Answer
<1>23. ASSUME NEW w \in Workers, Send(w) PROVE Put(v)
  BY <1>23
  DEF Send, Goto
<1>24. ASSUME NEW j \in Keys, Upload(j) PROVE Put(v)
  BY <1>24
  DEF Upload
<1>25. ASSUME NEW j \in Keys, Delete(j) PROVE Put(v)
  BY <1>25
  DEF Delete
<1>26. ASSUME NEW j \in Keys, Clean(j) PROVE Put(v)
  BY <1>26
  DEF Clean
<1>27. CASE Sweep
  BY <1>27
  DEF Sweep
<1>28. CASE Tick
  BY <1>28
  DEF Tick
<1>29. CASE Restart
  BY <1>29
  DEF Restart
<1>30. CASE UNCHANGED vars
  BY <1>30
  DEF vars
<1> QED
  BY <1>1, <1>2, <1>3, <1>4, <1>5, <1>6, <1>7, <1>8, <1>9, <1>10, <1>11,
     <1>12, <1>13, <1>14, <1>15, <1>16, <1>17, <1>18, <1>19, <1>20, <1>21,
     <1>22, <1>23, <1>24, <1>25, <1>26, <1>27, <1>28, <1>29, <1>30
  DEF Next, Handler, Environment

(* What ends the record of a race: a restart, or a download nobody overlapped. *)
RaceCases(c) ==
  \/ Restart
  \/ \E v \in Workers : Put(v) /\ solo[v] /\ Key(v) = c

(* Every step that ends it is one of the cases. *)
LEMMA RaceStep ==
  ASSUME TypeOK, NEW c \in Keys, raced[c], ~raced'[c], [Next]_vars
  PROVE  RaceCases(c)
<1>1. ASSUME NEW w \in Workers, Receive(w) PROVE RaceCases(c)
  BY <1>1
  DEF Receive, RaceCases, history
<1>2. ASSUME NEW w \in Workers, ClearRequest(w) PROVE RaceCases(c)
  BY <1>2
  DEF ClearRequest, RaceCases, history
<1>3. ASSUME NEW w \in Workers, Find(w) PROVE RaceCases(c)
  BY <1>3
  DEF Find, RaceCases, history
<1>4. ASSUME NEW w \in Workers, Check(w) PROVE RaceCases(c)
  BY <1>4
  DEF Check, RaceCases, history
<1>5. ASSUME NEW w \in Workers, Hit(w) PROVE RaceCases(c)
  BY <1>5
  DEF Hit, RaceCases, history
<1>6. ASSUME NEW w \in Workers, Fetch(w) PROVE RaceCases(c)
  BY <1>6
  DEF Fetch, Overlap, RaceCases, TypeOK, history
<1>7. ASSUME NEW w \in Workers, PutAbsent(w) PROVE RaceCases(c)
  BY <1>7
  DEF PutAbsent, RaceCases, history
<1>8. ASSUME NEW w \in Workers, Write(w) PROVE RaceCases(c)
  BY <1>8
  DEF Write, RaceCases, history
<1>9. ASSUME NEW w \in Workers, Close(w) PROVE RaceCases(c)
  BY <1>9
  DEF Close, RaceCases, history
<1>10. ASSUME NEW w \in Workers, GzProbe(w) PROVE RaceCases(c)
  BY <1>10
  DEF GzProbe, RaceCases, history
<1>11. ASSUME NEW w \in Workers, GzRefresh(w) PROVE RaceCases(c)
  BY <1>11
  DEF GzRefresh, RaceCases, history
<1>12. ASSUME NEW w \in Workers, GzFill(w) PROVE RaceCases(c)
  BY <1>12
  DEF GzFill, RaceCases, history
<1>13. ASSUME NEW w \in Workers, GzReplace(w) PROVE RaceCases(c)
  BY <1>13
  DEF GzReplace, RaceCases
<1>14. ASSUME NEW w \in Workers, Rename(w) PROVE RaceCases(c)
  BY <1>14
  DEF Rename, RaceCases
<1>15. ASSUME NEW w \in Workers, Put(w) PROVE RaceCases(c)
  BY <1>15
  DEF Put, RaceCases, TypeOK
<1>16. ASSUME NEW w \in Workers, Encode(w) PROVE RaceCases(c)
  BY <1>16
  DEF Encode, RaceCases, history
<1>17. ASSUME NEW w \in Workers, GzOpen(w) PROVE RaceCases(c)
  BY <1>17
  DEF GzOpen, Overlap, RaceCases, TypeOK
<1>18. ASSUME NEW w \in Workers, GzCopy(w) PROVE RaceCases(c)
  BY <1>18
  DEF GzCopy, RaceCases, history
<1>19. ASSUME NEW w \in Workers, GzMove(w) PROVE RaceCases(c)
  BY <1>19
  DEF GzMove, RaceCases
<1>20. ASSUME NEW w \in Workers, Measure(w) PROVE RaceCases(c)
  BY <1>20
  DEF Measure, RaceCases, history
<1>21. ASSUME NEW w \in Workers, Conditions(w) PROVE RaceCases(c)
  BY <1>21
  DEF Conditions, RaceCases, history
<1>22. ASSUME NEW w \in Workers, Open(w) PROVE RaceCases(c)
  BY <1>22
  DEF Open, RaceCases, history
<1>23. ASSUME NEW w \in Workers, Send(w) PROVE RaceCases(c)
  BY <1>23
  DEF Send, RaceCases, history
<1>24. ASSUME NEW j \in Keys, Upload(j) PROVE RaceCases(c)
  BY <1>24
  DEF Upload, RaceCases, history
<1>25. ASSUME NEW j \in Keys, Delete(j) PROVE RaceCases(c)
  BY <1>25
  DEF Delete, RaceCases, history
<1>26. ASSUME NEW j \in Keys, Clean(j) PROVE RaceCases(c)
  BY <1>26
  DEF Clean, RaceCases, history
<1>27. CASE Sweep
  BY <1>27
  DEF Sweep, RaceCases, history
<1>28. CASE Tick
  BY <1>28
  DEF Tick, RaceCases, history
<1>29. CASE Restart
  BY <1>29
  DEF Restart, RaceCases
<1>30. CASE UNCHANGED vars
  BY <1>30
  DEF RaceCases, history, vars
<1> QED
  BY <1>1, <1>2, <1>3, <1>4, <1>5, <1>6, <1>7, <1>8, <1>9, <1>10, <1>11,
     <1>12, <1>13, <1>14, <1>15, <1>16, <1>17, <1>18, <1>19, <1>20, <1>21,
     <1>22, <1>23, <1>24, <1>25, <1>26, <1>27, <1>28, <1>29, <1>30
  DEF Next, Handler, Environment

(* Where a held revision comes from: it was held, or has just been published. *)
HeldCases(k, r) ==
  r \in Held(k) \/ \E v \in Workers : Put(v) /\ k = Key(v) /\ r = got[v]

(* Every step after which a revision is held is one of the cases. *)
LEMMA HeldStep ==
  ASSUME TypeOK, WorkerLocals, KnownRevisions, NEW k \in Keys, NEW r \in Held(k)', [Next]_vars
  PROVE  HeldCases(k, r)
<1>1. ASSUME NEW w \in Workers, Receive(w) PROVE HeldCases(k, r)
  <2>1. uploads' = uploads /\ meta' = meta /\ iter' = iter
    BY <1>1 DEF Receive, bucket
  <2>2. r \in uploads[k] /\ r # 0
    BY <2>1, ZeroNotFound DEF Held
  <2>3. iter[w].rev = 0 /\ obj'[w] = 0
    BY <1>1 DEF Receive, At, WorkerLocals, NoEntry, Serving, Compressing, TypeOK
  <2>4. ASSUME NEW v \in Workers, v # w PROVE Key(v)' = Key(v) /\ obj'[v] = obj[v]
    BY <1>1, <2>4 DEF Receive, Key, TypeOK
  <2>5. r = meta[k].rev \/ \E v \in Workers : Key(v)' = k /\ r \in {iter[v].rev, obj'[v]}
    BY <2>1 DEF Held, Holding
  <2>6. r = meta[k].rev \/ \E v \in Workers : Key(v) = k /\ r \in {iter[v].rev, obj[v]}
    BY <2>2, <2>3, <2>4, <2>5
  <2> QED
    BY <2>2, <2>6 DEF HeldCases, Held, Holding
<1>2. ASSUME NEW w \in Workers, ClearRequest(w) PROVE HeldCases(k, r)
  BY <1>2
  DEF ClearRequest, Cleared, HeldCases, Held, Holding, Key, TypeOK, NoEntry, bucket
<1>3. ASSUME NEW w \in Workers, Find(w) PROVE HeldCases(k, r)
  BY <1>3
  DEF Find, HeldCases, Held, Holding, Key, bucket
<1>4. ASSUME NEW w \in Workers, Check(w) PROVE HeldCases(k, r)
  BY <1>4
  DEF Check, Dereferenced, HeldCases, Held, Holding, Key, bucket
<1>5. ASSUME NEW w \in Workers, Hit(w) PROVE HeldCases(k, r)
  BY <1>5
  DEF Hit, Dereferenced, HeldCases, Held, Holding, Key, TypeOK, NoEntry, bucket
<1>6. ASSUME NEW w \in Workers, Fetch(w) PROVE HeldCases(k, r)
  BY <1>6
  DEF Fetch, Overlap, HeldCases, Held, Holding, Key, TypeOK, NoEntry, bucket
<1>7. ASSUME NEW w \in Workers, PutAbsent(w) PROVE HeldCases(k, r)
  BY <1>7
  DEF PutAbsent, Entry, At, HeldCases, Held, Holding, Key, WorkerLocals, Found, bucket
<1>8. ASSUME NEW w \in Workers, Write(w) PROVE HeldCases(k, r)
  BY <1>8
  DEF Write, HeldCases, Held, Holding, Key, bucket
<1>9. ASSUME NEW w \in Workers, Close(w) PROVE HeldCases(k, r)
  BY <1>9
  DEF Close, HeldCases, Held, Holding, Key, bucket
<1>10. ASSUME NEW w \in Workers, GzProbe(w) PROVE HeldCases(k, r)
  BY <1>10
  DEF GzProbe, HeldCases, Held, Holding, Key, bucket
<1>11. ASSUME NEW w \in Workers, GzRefresh(w) PROVE HeldCases(k, r)
  BY <1>11
  DEF GzRefresh, HeldCases, Held, Holding, Key, bucket
<1>12. ASSUME NEW w \in Workers, GzFill(w) PROVE HeldCases(k, r)
  BY <1>12
  DEF GzFill, HeldCases, Held, Holding, Key, bucket
<1>13. ASSUME NEW w \in Workers, GzReplace(w) PROVE HeldCases(k, r)
  BY <1>13
  DEF GzReplace, Leave, HeldCases, Held, Holding, Key, bucket
<1>14. ASSUME NEW w \in Workers, Rename(w) PROVE HeldCases(k, r)
  BY <1>14
  DEF Rename, Leave, Renamed, HeldCases, Held, Holding, Key, bucket
<1>15. ASSUME NEW w \in Workers, Put(w) PROVE HeldCases(k, r)
  BY <1>15
  DEF Put, Leave, Entry, HeldCases, Held, Holding, Key, TypeOK, bucket
<1>16. ASSUME NEW w \in Workers, Encode(w) PROVE HeldCases(k, r)
  BY <1>16
  DEF Encode, HeldCases, Held, Holding, Key, bucket
<1>17. ASSUME NEW w \in Workers, GzOpen(w) PROVE HeldCases(k, r)
  BY <1>17
  DEF GzOpen, Overlap, HeldCases, Held, Holding, Key, bucket
<1>18. ASSUME NEW w \in Workers, GzCopy(w) PROVE HeldCases(k, r)
  BY <1>18
  DEF GzCopy, HeldCases, Held, Holding, Key, bucket
<1>19. ASSUME NEW w \in Workers, GzMove(w) PROVE HeldCases(k, r)
  BY <1>19
  DEF GzMove, Leave, HeldCases, Held, Holding, Key, bucket
<1>20. ASSUME NEW w \in Workers, Measure(w) PROVE HeldCases(k, r)
  BY <1>20
  DEF Measure, HeldCases, Held, Holding, Key, bucket
<1>21. ASSUME NEW w \in Workers, Conditions(w) PROVE HeldCases(k, r)
  BY <1>21
  DEF Conditions, HeldCases, Held, Holding, Key, bucket
<1>22. ASSUME NEW w \in Workers, Open(w) PROVE HeldCases(k, r)
  BY <1>22
  DEF Open, HeldCases, Held, Holding, Key, bucket
<1>23. ASSUME NEW w \in Workers, Send(w) PROVE HeldCases(k, r)
  <2>1. uploads' = uploads /\ meta' = meta /\ iter' = iter
    BY <1>23 DEF Send, bucket
  <2>2. r \in uploads[k] /\ r # 0
    BY <2>1, ZeroNotFound DEF Held
  <2>3. iter[w].rev = 0 /\ obj'[w] = 0
    BY <1>23 DEF Send, At, WorkerLocals, NoEntry, Serving, Compressing, TypeOK
  <2>4. ASSUME NEW v \in Workers, v # w PROVE Key(v)' = Key(v) /\ obj'[v] = obj[v]
    BY <1>23, <2>4 DEF Send, Key, TypeOK
  <2>5. r = meta[k].rev \/ \E v \in Workers : Key(v)' = k /\ r \in {iter[v].rev, obj'[v]}
    BY <2>1 DEF Held, Holding
  <2>6. r = meta[k].rev \/ \E v \in Workers : Key(v) = k /\ r \in {iter[v].rev, obj[v]}
    BY <2>2, <2>3, <2>4, <2>5
  <2> QED
    BY <2>2, <2>6 DEF HeldCases, Held, Holding
<1>24. ASSUME NEW j \in Keys, Upload(j) PROVE HeldCases(k, r)
  BY <1>24
  DEF Upload, HeldCases, Held, Holding, Key, KnownRevisions, TypeOK
<1>25. ASSUME NEW j \in Keys, Delete(j) PROVE HeldCases(k, r)
  BY <1>25
  DEF Delete, HeldCases, Held, Holding, Key
<1>26. ASSUME NEW j \in Keys, Clean(j) PROVE HeldCases(k, r)
  BY <1>26
  DEF Clean, HeldCases, Held, Holding, Key, bucket
<1>27. CASE Sweep
  BY <1>27
  DEF Sweep, Cleared, HeldCases, Held, Holding, Key, TypeOK, NoEntry, bucket
<1>28. CASE Tick
  <2>1. \A j \in Keys : meta'[j].rev = meta[j].rev
    BY <1>28 DEF Tick, Aged, TypeOK, Entries
  <2>2. \A v \in Workers : iter'[v].rev = iter[v].rev
    BY <1>28 DEF Tick, Aged, TypeOK, Entries
  <2>3. uploads' = uploads /\ obj' = obj /\ req' = req
    BY <1>28 DEF Tick, bucket
  <2> QED
    BY <2>1, <2>2, <2>3 DEF HeldCases, Held, Holding, Key
<1>29. CASE Restart
  BY <1>29
  DEF Restart, Cleared, HeldCases, Held, Holding, TypeOK, NoEntry, bucket
<1>30. CASE UNCHANGED vars
  BY <1>30
  DEF HeldCases, Held, Holding, Key, bucket, vars
<1> QED
  BY <1>1, <1>2, <1>3, <1>4, <1>5, <1>6, <1>7, <1>8, <1>9, <1>10, <1>11,
     <1>12, <1>13, <1>14, <1>15, <1>16, <1>17, <1>18, <1>19, <1>20, <1>21,
     <1>22, <1>23, <1>24, <1>25, <1>26, <1>27, <1>28, <1>29, <1>30
  DEF Next, Handler, Environment

-----------------------------------------------------------------------------
(* A worker's variables agree with its place in the handler. *)
LEMMA WorkerLocalsKept ==
  ASSUME TypeOK, WorkerLocals, KnownRevisions, [Next]_vars
  PROVE  WorkerLocals'
<1>1. ASSUME NEW w \in Workers, Receive(w) PROVE WorkerLocals'
  BY <1>1
  DEF Receive, Goto, Answer, At, WorkerLocals, TypeOK, Key, Found, Refreshing, Serving, Compressing, bucket
<1>2. ASSUME NEW w \in Workers, ClearRequest(w) PROVE WorkerLocals'
  BY <1>2
  DEF ClearRequest, Goto, Answer, At, WorkerLocals, TypeOK, Key, Found, Refreshing, Serving, Compressing, bucket
<1>3. ASSUME NEW w \in Workers, Find(w) PROVE WorkerLocals'
  BY <1>3
  DEF Find, Goto, At, WorkerLocals, TypeOK, Key, Found, Refreshing, Serving, Compressing, bucket
<1>4. ASSUME NEW w \in Workers, Check(w) PROVE WorkerLocals'
  BY <1>4
  DEF Check, Goto, Dereferenced, At, WorkerLocals, Key, Found, Refreshing, Serving, Compressing, bucket
<1>5. ASSUME NEW w \in Workers, Hit(w) PROVE WorkerLocals'
  BY <1>5
  DEF Hit, Goto, Answer, Dereferenced, At, WorkerLocals, TypeOK, Key, Found, Refreshing, Serving, Compressing, bucket
<1>6. ASSUME NEW w \in Workers, Fetch(w) PROVE WorkerLocals'
  BY <1>6
  DEF Fetch, Goto, Answer, At, WorkerLocals, TypeOK, Key, Found, Refreshing, Serving, Compressing, bucket
<1>7. ASSUME NEW w \in Workers, PutAbsent(w) PROVE WorkerLocals'
  BY <1>7
  DEF PutAbsent, Goto, Answer, At, WorkerLocals, TypeOK, Key, Found, Refreshing, Serving, Compressing, bucket
<1>8. ASSUME NEW w \in Workers, Write(w) PROVE WorkerLocals'
  BY <1>8
  DEF Write, Goto, At, WorkerLocals, Key, Found, Refreshing, Serving, Compressing, bucket
<1>9. ASSUME NEW w \in Workers, Close(w) PROVE WorkerLocals'
  BY <1>9
  DEF Close, Goto, At, WorkerLocals, Key, Found, Refreshing, Serving, Compressing, bucket
<1>10. ASSUME NEW w \in Workers, GzProbe(w) PROVE WorkerLocals'
  BY <1>10
  DEF GzProbe, Goto, At, WorkerLocals, Key, Found, Refreshing, Serving, Compressing, bucket
<1>11. ASSUME NEW w \in Workers, GzRefresh(w) PROVE WorkerLocals'
  BY <1>11
  DEF GzRefresh, Goto, At, WorkerLocals, Key, Found, Refreshing, Serving, Compressing, bucket
<1>12. ASSUME NEW w \in Workers, GzFill(w) PROVE WorkerLocals'
  BY <1>12
  DEF GzFill, Goto, At, WorkerLocals, Key, Found, Refreshing, Serving, Compressing, bucket
<1>13. ASSUME NEW w \in Workers, GzReplace(w) PROVE WorkerLocals'
  BY <1>13
  DEF GzReplace, Goto, Answer, At, WorkerLocals, TypeOK, Key, Found, Refreshing, Serving, Compressing, bucket
<1>14. ASSUME NEW w \in Workers, Rename(w) PROVE WorkerLocals'
  BY <1>14
  DEF Rename, Goto, Answer, At, WorkerLocals, TypeOK, Key, Found, Refreshing, Serving, Compressing, bucket
<1>15. ASSUME NEW w \in Workers, Put(w) PROVE WorkerLocals'
  BY <1>15
  DEF Put, Goto, At, WorkerLocals, TypeOK, Key, Found, Refreshing, Serving, Compressing, bucket
<1>16. ASSUME NEW w \in Workers, Encode(w) PROVE WorkerLocals'
  BY <1>16
  DEF Encode, Goto, At, WorkerLocals, Key, Found, Refreshing, Serving, Compressing, bucket
<1>17. ASSUME NEW w \in Workers, GzOpen(w) PROVE WorkerLocals'
  BY <1>17
  DEF GzOpen, Goto, At, WorkerLocals, Key, Found, Refreshing, Serving, Compressing, bucket
<1>18. ASSUME NEW w \in Workers, GzCopy(w) PROVE WorkerLocals'
  BY <1>18
  DEF GzCopy, Goto, At, WorkerLocals, Key, Found, Refreshing, Serving, Compressing, bucket
<1>19. ASSUME NEW w \in Workers, GzMove(w) PROVE WorkerLocals'
  <2>1. \/ pc' = [pc EXCEPT ![w] = "size"] /\ resp' = resp
        \/ pc' = [pc EXCEPT ![w] = "done"] /\ \A v \in Workers \ {w} : resp'[v] = resp[v]
    BY <1>19 DEF GzMove, Goto, Answer, TypeOK
  <2>2. UNCHANGED <<uploads, req, iter, got, obj>>
    BY <1>19 DEF GzMove, bucket
  <2> QED
    BY <1>19, <2>1, <2>2
    DEF GzMove, At, WorkerLocals, Key, Found, Refreshing, Serving, Compressing, TypeOK
<1>20. ASSUME NEW w \in Workers, Measure(w) PROVE WorkerLocals'
  <2>1. \/ pc' = [pc EXCEPT ![w] = "exists"] /\ resp' = resp
        \/ pc' = [pc EXCEPT ![w] = "done"] /\ \A v \in Workers \ {w} : resp'[v] = resp[v]
    BY <1>20 DEF Measure, Goto, Answer, TypeOK
  <2>2. UNCHANGED <<uploads, req, iter, got, obj>>
    BY <1>20 DEF Measure, bucket
  <2> QED
    BY <1>20, <2>1, <2>2
    DEF Measure, At, WorkerLocals, Key, Found, Refreshing, Serving, Compressing, TypeOK
<1>21. ASSUME NEW w \in Workers, Conditions(w) PROVE WorkerLocals'
  <2>1. \/ pc' = [pc EXCEPT ![w] = "open"] /\ resp' = resp
        \/ pc' = [pc EXCEPT ![w] = "done"] /\ \A v \in Workers \ {w} : resp'[v] = resp[v]
    BY <1>21 DEF Conditions, Goto, Answer, TypeOK
  <2>2. UNCHANGED <<uploads, req, iter, got, obj>>
    BY <1>21 DEF Conditions, bucket
  <2> QED
    BY <1>21, <2>1, <2>2
    DEF Conditions, At, WorkerLocals, Key, Found, Refreshing, Serving, Compressing, TypeOK
<1>22. ASSUME NEW w \in Workers, Open(w) PROVE WorkerLocals'
  BY <1>22
  DEF Open, Goto, Answer, At, WorkerLocals, TypeOK, Key, Found, Refreshing, Serving, Compressing, bucket
<1>23. ASSUME NEW w \in Workers, Send(w) PROVE WorkerLocals'
  BY <1>23
  DEF Send, Goto, At, WorkerLocals, TypeOK, Key, Found, Refreshing, Serving, Compressing, bucket
<1>24. ASSUME NEW k \in Keys, Upload(k) PROVE WorkerLocals'
  BY <1>24
  DEF Upload, WorkerLocals, KnownRevisions, TypeOK, Key, Found
<1>25. ASSUME NEW k \in Keys, Delete(k) PROVE WorkerLocals'
  BY <1>25
  DEF Delete, WorkerLocals, Key, Found
<1>26. ASSUME NEW k \in Keys, Clean(k) PROVE WorkerLocals'
  BY <1>26
  DEF Clean, WorkerLocals, Key, Found, bucket
<1>27. CASE Sweep
  BY <1>27
  DEF Sweep, WorkerLocals, Key, Found, bucket
<1>28. CASE Tick
  BY <1>28
  DEF Tick, Aged, WorkerLocals, Key, Found, NoEntry, bucket
<1>29. CASE Restart
  BY <1>29
  DEF Restart, WorkerLocals, Refreshing, Serving, Compressing, bucket
<1>30. CASE UNCHANGED vars
  BY <1>30
  DEF WorkerLocals, Key, Found, bucket, vars
<1> QED
  BY <1>1, <1>2, <1>3, <1>4, <1>5, <1>6, <1>7, <1>8, <1>9, <1>10, <1>11,
     <1>12, <1>13, <1>14, <1>15, <1>16, <1>17, <1>18, <1>19, <1>20, <1>21,
     <1>22, <1>23, <1>24, <1>25, <1>26, <1>27, <1>28, <1>29, <1>30
  DEF Next, Handler, Environment

(* Nobody learns a revision the bucket has not had. *)
LEMMA KnownRevisionsKept ==
  ASSUME TypeOK, WorkerLocals, KnownRevisions, [Next]_vars
  PROVE  KnownRevisions'
<1>1. ASSUME NEW w \in Workers, Receive(w) PROVE KnownRevisions'
  <2>1. PICK r \in Requests : req' = [req EXCEPT ![w] = r]
    BY <1>1 DEF Receive
  <2>2. r.key \in Keys /\ 0 <= latest[r.key]
    BY RequestsTyped, BoundsAssumption DEF RequestType, TypeOK
  <2>3. iter[w] = NoEntry /\ obj[w] = 0 /\ got[w] = 0
    BY <1>1 DEF Receive, At, WorkerLocals, Refreshing, Serving, Compressing
  <2> QED
    BY <1>1, <2>1, <2>2, <2>3
    DEF Receive, KnownRevisions, NoEntry, Key, TypeOK, bucket, disk, history
<1>2. ASSUME NEW w \in Workers, ClearRequest(w) PROVE KnownRevisions'
  BY <1>2, BoundsAssumption, RequestsTyped
  DEF ClearRequest, Cleared, KnownRevisions, TypeOK, Key, NoEntry, Entries, Revs, bucket
<1>3. ASSUME NEW w \in Workers, Find(w) PROVE KnownRevisions'
  BY <1>3, KeyTyped
  DEF Find, KnownRevisions, Key, bucket, disk, history
<1>4. ASSUME NEW w \in Workers, Check(w) PROVE KnownRevisions'
  <2>1. \A e \in Dereferenced(w) : e.rev <= latest[Key(w)]
    BY KeyTyped DEF Dereferenced, KnownRevisions
  <2> QED
    BY <1>4, <2>1, KeyTyped
    DEF Check, Goto, Answer, KnownRevisions, NoEntry, TypeOK, Key, bucket, disk, history
<1>5. ASSUME NEW w \in Workers, Hit(w) PROVE KnownRevisions'
  <2>1. \A e \in Dereferenced(w) : e.rev <= latest[Key(w)]
    BY KeyTyped DEF Dereferenced, KnownRevisions
  <2> QED
    BY <1>5, <2>1, KeyTyped
    DEF Hit, Goto, Answer, KnownRevisions, NoEntry, TypeOK, Key, bucket, disk, history
<1>6. ASSUME NEW w \in Workers, Fetch(w) PROVE KnownRevisions'
  <2>1. got' = [got EXCEPT ![w] = latest[Key(w)]] \/ got' = got
    BY <1>6 DEF Fetch
  <2> QED
    BY <1>6, <2>1, KeyTyped DEF Fetch, KnownRevisions, NoEntry, Key, TypeOK, bucket, disk
<1>7. ASSUME NEW w \in Workers, PutAbsent(w) PROVE KnownRevisions'
  BY <1>7, BoundsAssumption, RequestsTyped
  DEF PutAbsent, Entry, KnownRevisions, Key, Entries, Revs, bucket
<1>8. ASSUME NEW w \in Workers, Write(w) PROVE KnownRevisions'
  BY <1>8, BoundsAssumption, RequestsTyped
  DEF Write, KnownRevisions, Key, Entries, Revs, bucket
<1>9. ASSUME NEW w \in Workers, Close(w) PROVE KnownRevisions'
  BY <1>9, BoundsAssumption, RequestsTyped
  DEF Close, KnownRevisions, Key, Entries, Revs, bucket
<1>10. ASSUME NEW w \in Workers, GzProbe(w) PROVE KnownRevisions'
  BY <1>10, BoundsAssumption, RequestsTyped
  DEF GzProbe, KnownRevisions, Key, Entries, Revs, bucket
<1>11. ASSUME NEW w \in Workers, GzRefresh(w) PROVE KnownRevisions'
  BY <1>11, BoundsAssumption, RequestsTyped
  DEF GzRefresh, KnownRevisions, Key, Entries, Revs, bucket
<1>12. ASSUME NEW w \in Workers, GzFill(w) PROVE KnownRevisions'
  BY <1>12, BoundsAssumption, RequestsTyped
  DEF GzFill, KnownRevisions, Key, Entries, Revs, bucket
<1>13. ASSUME NEW w \in Workers, GzReplace(w) PROVE KnownRevisions'
  BY <1>13, BoundsAssumption, RequestsTyped
  DEF GzReplace, At, WorkerLocals, KnownRevisions, TypeOK, Key, Found, Refreshing, Serving, Compressing, NoEntry, Entries, Revs, bucket
<1>14. ASSUME NEW w \in Workers, Rename(w) PROVE KnownRevisions'
  BY <1>14, BoundsAssumption, RequestsTyped
  DEF Rename, At, WorkerLocals, KnownRevisions, TypeOK, Key, Refreshing, Serving, Compressing, Entries, Revs, bucket
<1>15. ASSUME NEW w \in Workers, Put(w) PROVE KnownRevisions'
  BY <1>15, BoundsAssumption, RequestsTyped
  DEF Put, Entry, At, WorkerLocals, KnownRevisions, Key, Serving, Compressing, Entries, Revs, bucket
<1>16. ASSUME NEW w \in Workers, Encode(w) PROVE KnownRevisions'
  BY <1>16, BoundsAssumption, RequestsTyped
  DEF Encode, KnownRevisions, Key, Entries, Revs, bucket
<1>17. ASSUME NEW w \in Workers, GzOpen(w) PROVE KnownRevisions'
  BY <1>17, BoundsAssumption, RequestsTyped
  DEF GzOpen, KnownRevisions, Key, Entries, Revs, bucket
<1>18. ASSUME NEW w \in Workers, GzCopy(w) PROVE KnownRevisions'
  BY <1>18, BoundsAssumption, RequestsTyped
  DEF GzCopy, KnownRevisions, Key, Entries, Revs, bucket
<1>19. ASSUME NEW w \in Workers, GzMove(w) PROVE KnownRevisions'
  BY <1>19, BoundsAssumption, RequestsTyped
  DEF GzMove, KnownRevisions, Key, Entries, Revs, bucket
<1>20. ASSUME NEW w \in Workers, Measure(w) PROVE KnownRevisions'
  BY <1>20, BoundsAssumption, RequestsTyped
  DEF Measure, KnownRevisions, Key, Entries, Revs, bucket
<1>21. ASSUME NEW w \in Workers, Conditions(w) PROVE KnownRevisions'
  BY <1>21, BoundsAssumption, RequestsTyped
  DEF Conditions, KnownRevisions, Key, Entries, Revs, bucket
<1>22. ASSUME NEW w \in Workers, Open(w) PROVE KnownRevisions'
  BY <1>22, BoundsAssumption, RequestsTyped
  DEF Open, KnownRevisions, Key, Entries, Revs, bucket
<1>23. ASSUME NEW w \in Workers, Send(w) PROVE KnownRevisions'
  <2>1. AnyRequest \in Requests /\ AnyRequest.key \in Keys
    BY AnyRequestInRequests, RequestsTyped DEF RequestType
  <2>2. 0 <= latest[AnyRequest.key]
    BY <2>1, BoundsAssumption DEF TypeOK
  <2>3. iter[w] = NoEntry
    BY <1>23 DEF Send, At, WorkerLocals
  <2> QED
    BY <1>23, <2>1, <2>2, <2>3
    DEF Send, KnownRevisions, NoEntry, Key, TypeOK, bucket, disk, history
<1>24. ASSUME NEW k \in Keys, Upload(k) PROVE KnownRevisions'
  BY <1>24, BoundsAssumption, RequestsTyped
  DEF Upload, KnownRevisions, TypeOK, Key, Entries, Revs
<1>25. ASSUME NEW k \in Keys, Delete(k) PROVE KnownRevisions'
  BY <1>25, BoundsAssumption, RequestsTyped
  DEF Delete, KnownRevisions, TypeOK, Key, Entries, Revs
<1>26. ASSUME NEW k \in Keys, Clean(k) PROVE KnownRevisions'
  BY <1>26, BoundsAssumption, RequestsTyped
  DEF Clean, KnownRevisions, Key, Entries, Revs, bucket
<1>27. CASE Sweep
  BY <1>27, BoundsAssumption, RequestsTyped
  DEF Sweep, Cleared, KnownRevisions, TypeOK, Key, NoEntry, Entries, Revs, bucket
<1>28. CASE Tick
  <2>1. (\A k \in Keys : meta'[k].rev = meta[k].rev) /\ (\A w \in Workers : iter'[w].rev = iter[w].rev)
    BY <1>28 DEF Tick, Aged, TypeOK, Entries
  <2> QED
    BY <1>28, <2>1 DEF Tick, KnownRevisions, Key, bucket, disk, history
<1>29. CASE Restart
  <2>1. AnyRequest \in Requests /\ AnyRequest.key \in Keys
    BY AnyRequestInRequests, RequestsTyped DEF RequestType
  <2>2. \A k \in Keys : 0 <= latest[k]
    BY BoundsAssumption DEF TypeOK
  <2> QED
    BY <1>29, <2>1, <2>2 DEF Restart, Cleared, KnownRevisions, NoEntry, Key, bucket, disk
<1>30. CASE UNCHANGED vars
  BY <1>30, BoundsAssumption, RequestsTyped
  DEF KnownRevisions, Key, Entries, Revs, bucket, vars
<1> QED
  BY <1>1, <1>2, <1>3, <1>4, <1>5, <1>6, <1>7, <1>8, <1>9, <1>10, <1>11,
     <1>12, <1>13, <1>14, <1>15, <1>16, <1>17, <1>18, <1>19, <1>20, <1>21,
     <1>22, <1>23, <1>24, <1>25, <1>26, <1>27, <1>28, <1>29, <1>30
  DEF Next, Handler, Environment

(* Whoever starts to update an object's files while others do puts the race on
   record, and ends the others' claim to be alone. *)
LEMMA RacesStayRecorded ==
  ASSUME TypeOK, WorkerLocals, RacesRecorded, [Next]_vars
  PROVE  RacesRecorded'
<1>1. ASSUME NEW w \in Workers, Receive(w) PROVE RacesRecorded'
  BY <1>1
  DEF Receive, Goto, Answer, RacesRecorded, TypeOK, Key, Refreshing, Compressing, disk, history
<1>2. ASSUME NEW w \in Workers, ClearRequest(w) PROVE RacesRecorded'
  BY <1>2
  DEF ClearRequest, Goto, Answer, RacesRecorded, Key, Refreshing, Compressing, disk, history
<1>3. ASSUME NEW w \in Workers, Find(w) PROVE RacesRecorded'
  BY <1>3
  DEF Find, Goto, RacesRecorded, Key, Refreshing, Compressing, disk, history
<1>4. ASSUME NEW w \in Workers, Check(w) PROVE RacesRecorded'
  BY <1>4
  DEF Check, Goto, Dereferenced, RacesRecorded, Key, Refreshing, Compressing, disk, history
<1>5. ASSUME NEW w \in Workers, Hit(w) PROVE RacesRecorded'
  BY <1>5
  DEF Hit, Goto, Answer, Dereferenced, RacesRecorded, TypeOK, Key, Refreshing, Compressing, disk, history
<1>6. ASSUME NEW w \in Workers, Fetch(w) PROVE RacesRecorded'
  <2> SUFFICES ASSUME NEW v \in Workers, pc'[v] \in Refreshing
               PROVE  IF solo'[v]
                        THEN \A u \in Workers \ {v} :
                               Key(u) = Key(v) => pc'[u] \notin Refreshing \cup Compressing
                        ELSE raced'[Key(v)]
    BY <1>6 DEF Fetch, RacesRecorded, Key
  <2>1. CASE pc'[w] # "write"
    <3>1. pc'[w] \notin Refreshing \cup Compressing /\ raced' = raced /\ solo' = solo
      BY <1>6, <2>1 DEF Fetch, Goto, Answer, history, TypeOK, Refreshing, Compressing
    <3>2. \A u \in Workers : u # w => pc'[u] = pc[u]
      BY <1>6 DEF Fetch, Goto, Answer, TypeOK
    <3> QED
      BY <3>1, <3>2 DEF RacesRecorded
  <2>2. CASE pc'[w] = "write"
    <3> DEFINE others == Refreshers(Key(w)) \cup Compressors(Key(w))
    <3>1. Overlap(w, Key(w), others) /\ pc' = [pc EXCEPT ![w] = "write"] /\ pc[w] = "fetch"
      BY <1>6, <2>2 DEF Fetch, Goto, Answer, At, TypeOK
    <3>2. w \notin others
      BY <3>1 DEF Refreshers, Compressors, Refreshing, Compressing
    <3>3. \A u \in Workers : u \in others <=> pc[u] \in Refreshing \cup Compressing /\ Key(u) = Key(w)
      BY DEF Refreshers, Compressors
    <3> HIDE DEF others
    <3>4. /\ raced' = [raced EXCEPT ![Key(w)] = @ \/ others # {}]
          /\ solo' = [u \in Workers |-> IF u = w THEN others = {} ELSE solo[u] /\ u \notin others]
      BY <3>1 DEF Overlap
    <3>5. raced'[Key(w)] = (raced[Key(w)] \/ others # {})
      BY <3>4, KeyTyped DEF TypeOK
    <3>6. \A j \in Keys : raced[j] => raced'[j]
      BY <3>4, KeyTyped DEF TypeOK
    <3>7. CASE v = w
      BY <3>1, <3>2, <3>3, <3>4, <3>5, <3>7 DEF TypeOK
    <3>8. CASE v # w /\ v \in others
      BY <3>3, <3>4, <3>5, <3>8
    <3>9. CASE v # w /\ v \notin others
      BY <3>1, <3>3, <3>4, <3>6, <3>9, KeyTyped DEF RacesRecorded, TypeOK
    <3> QED
      BY <3>7, <3>8, <3>9
  <2> QED
    BY <2>1, <2>2
<1>7. ASSUME NEW w \in Workers, PutAbsent(w) PROVE RacesRecorded'
  BY <1>7
  DEF PutAbsent, Goto, Answer, RacesRecorded, Key, Refreshing, Compressing, disk, history
<1>8. ASSUME NEW w \in Workers, Write(w) PROVE RacesRecorded'
  BY <1>8
  DEF Write, Goto, At, RacesRecorded, Key, Refreshing, Compressing, disk, history
<1>9. ASSUME NEW w \in Workers, Close(w) PROVE RacesRecorded'
  BY <1>9
  DEF Close, Goto, At, RacesRecorded, Key, Refreshing, Compressing, disk, history
<1>10. ASSUME NEW w \in Workers, GzProbe(w) PROVE RacesRecorded'
  BY <1>10
  DEF GzProbe, Goto, At, RacesRecorded, Key, Refreshing, Compressing, disk, history
<1>11. ASSUME NEW w \in Workers, GzRefresh(w) PROVE RacesRecorded'
  BY <1>11
  DEF GzRefresh, Goto, At, RacesRecorded, Key, Refreshing, Compressing, disk, history
<1>12. ASSUME NEW w \in Workers, GzFill(w) PROVE RacesRecorded'
  BY <1>12
  DEF GzFill, Goto, At, RacesRecorded, Key, Refreshing, Compressing, disk, history
<1>13. ASSUME NEW w \in Workers, GzReplace(w) PROVE RacesRecorded'
  BY <1>13
  DEF GzReplace, Goto, Answer, Leave, At, RacesRecorded, TypeOK, Key, Refreshing, Compressing
<1>14. ASSUME NEW w \in Workers, Rename(w) PROVE RacesRecorded'
  BY <1>14
  DEF Rename, Goto, Answer, Leave, Renamed, At, RacesRecorded, TypeOK, Key, Refreshing, Compressing
<1>15. ASSUME NEW w \in Workers, Put(w) PROVE RacesRecorded'
  BY <1>15
  DEF Put, Goto, Leave, At, RacesRecorded, TypeOK, Key, Refreshing, Compressing, disk
<1>16. ASSUME NEW w \in Workers, Encode(w) PROVE RacesRecorded'
  BY <1>16
  DEF Encode, Goto, RacesRecorded, Key, Refreshing, Compressing, disk, history
<1>17. ASSUME NEW w \in Workers, GzOpen(w) PROVE RacesRecorded'
  BY <1>17, KeyTyped
  DEF GzOpen, Goto, Overlap, At, RacesRecorded, TypeOK, Key, Refreshing, Compressing, Refreshers, Compressors, disk
<1>18. ASSUME NEW w \in Workers, GzCopy(w) PROVE RacesRecorded'
  BY <1>18
  DEF GzCopy, Goto, At, RacesRecorded, Key, Refreshing, Compressing, disk, history
<1>19. ASSUME NEW w \in Workers, GzMove(w) PROVE RacesRecorded'
  BY <1>19
  DEF GzMove, Goto, Answer, Leave, RacesRecorded, TypeOK, Key, Refreshing, Compressing
<1>20. ASSUME NEW w \in Workers, Measure(w) PROVE RacesRecorded'
  BY <1>20
  DEF Measure, Goto, Answer, RacesRecorded, TypeOK, Key, Refreshing, Compressing, disk, history
<1>21. ASSUME NEW w \in Workers, Conditions(w) PROVE RacesRecorded'
  BY <1>21
  DEF Conditions, Goto, Answer, RacesRecorded, TypeOK, Key, Refreshing, Compressing, disk, history
<1>22. ASSUME NEW w \in Workers, Open(w) PROVE RacesRecorded'
  BY <1>22
  DEF Open, Goto, Answer, RacesRecorded, Key, Refreshing, Compressing, disk, history
<1>23. ASSUME NEW w \in Workers, Send(w) PROVE RacesRecorded'
  BY <1>23
  DEF Send, Goto, RacesRecorded, TypeOK, Key, Refreshing, Compressing, disk, history
<1>24. ASSUME NEW k \in Keys, Upload(k) PROVE RacesRecorded'
  BY <1>24
  DEF Upload, RacesRecorded, Key, disk, history
<1>25. ASSUME NEW k \in Keys, Delete(k) PROVE RacesRecorded'
  BY <1>25
  DEF Delete, RacesRecorded, Key, disk, history
<1>26. ASSUME NEW k \in Keys, Clean(k) PROVE RacesRecorded'
  BY <1>26
  DEF Clean, RacesRecorded, Key, history
<1>27. CASE Sweep
  BY <1>27
  DEF Sweep, RacesRecorded, Key, disk, history
<1>28. CASE Tick
  BY <1>28
  DEF Tick, RacesRecorded, Key, disk, history
<1>29. CASE Restart
  BY <1>29
  DEF Restart, RacesRecorded, Refreshing, Compressing, disk
<1>30. CASE UNCHANGED vars
  BY <1>30
  DEF RacesRecorded, Key, disk, history, vars
<1> QED
  BY <1>1, <1>2, <1>3, <1>4, <1>5, <1>6, <1>7, <1>8, <1>9, <1>10, <1>11,
     <1>12, <1>13, <1>14, <1>15, <1>16, <1>17, <1>18, <1>19, <1>20, <1>21,
     <1>22, <1>23, <1>24, <1>25, <1>26, <1>27, <1>28, <1>29, <1>30
  DEF Next, Handler, Environment

(* Nobody else updates the object of a worker that is alone ... *)
LEMMA SoloAlone ==
  ASSUME RacesRecorded, NEW v \in Workers, NEW u \in Workers, Key(u) = Key(v),
         pc[v] \in Refreshing, solo[v], pc[u] \in Refreshing \cup Compressing
  PROVE  u = v
BY DEF RacesRecorded

(* ... and without a race on record, whoever updates it is alone. *)
LEMMA UnracedSolo ==
  ASSUME RacesRecorded, NEW v \in Workers, pc[v] \in Refreshing, ~raced[Key(v)]
  PROVE  solo[v]
BY DEF RacesRecorded

-----------------------------------------------------------------------------
(* Nothing that somebody counts on disappears. *)

(* Without faults a worker's temporary file is there until it is published: nothing
   else removes it, and its stream is closed by then. *)
LEMMA TemporariesStayThere ==
  ASSUME TypeOK, WorkerLocals, KnownRevisions, FilesWhole, TemporariesClosed,
         TemporariesThere, [Next]_vars
  PROVE  TemporariesThere'
<1> SUFFICES ASSUME ~FaultyDisk, NEW v \in Workers
             PROVE  /\ pc'[v] \in Downloaded => Lasting(tmp'[v])
                    /\ pc'[v] \in Zipping => Lasting(zip'[v])
  BY DEF TemporariesThere, Lasting
<1>1. tmp[v] \in Copies /\ zip[v] \in Copies /\ file[Key(v)] \in Copies
  BY KeyTyped DEF TypeOK
<1>2. ASSUME NEW c \in Copies, NEW d \in Begun(c), Lasting(c) PROVE Lasting(d)
  BY <1>2, BegunKept DEF Lasting
<1>3. ASSUME NEW c \in Copies, NEW d \in Closed(c), Lasting(c) PROVE Lasting(d)
  BY <1>3, ClosedKept DEF Lasting
<1>4. ASSUME NEW c \in Copies, ~c.open PROVE Compressed(c) \in Copies /\ Lasting(Compressed(c))
  BY <1>4, WrittenTyped, CompressedKept, LastingExists DEF Lasting
<1>5. ASSUME pc'[v] \in Downloaded PROVE Lasting(tmp'[v])
  <2>1. CASE pc[v] = "write" /\ tmp'[v] \in Begun(Copy(got[v]))
    <3>1. Copy(got[v]) \in Copies /\ Copy(got[v]).rev = got[v]
      BY DEF Copy, Copies, TypeOK
    <3>2. got[v] # 0
      BY <2>1, KeyTyped, ZeroNotFound DEF WorkerLocals, Refreshing, Found
    <3> QED
      BY <1>2, <2>1, <3>1, <3>2 DEF Lasting
  <2>2. CASE pc[v] \in Downloaded /\ tmp'[v] \in {tmp[v]} \cup Closed(tmp[v])
    BY <1>1, <1>3, <2>2 DEF TemporariesThere
  <2> QED
    BY <1>5, <2>1, <2>2, DownloadStep DEF DownloadCases, Downloaded
<1>6. ASSUME pc'[v] \in Zipping PROVE Lasting(zip'[v])
  <2>1. CASE pc[v] \in Zipping /\ zip'[v] \in {zip[v]} \cup Closed(zip[v])
    BY <1>1, <1>3, <2>1 DEF TemporariesThere
  <2>2. CASE pc[v] = "gzrefresh" /\ zip'[v] \in Begun(Compressed(tmp[v]))
    <3>1. ~tmp[v].open
      BY <2>2 DEF TemporariesClosed
    <3> QED
      BY <1>1, <1>2, <1>4, <2>2, <3>1
  <2>3. CASE GzOpen(v) /\ zip'[v] \in Begun(Compressed(file[Key(v)]))
    <3>1. ~file[Key(v)].open
      BY KeyTyped DEF FilesWhole
    <3> QED
      BY <1>1, <1>2, <1>4, <2>3, <3>1
  <2> QED
    BY <1>6, <2>1, <2>2, <2>3, CopyStep DEF CopyCases, Zipping, Compressing
<1> QED
  BY <1>5, <1>6
(* Without a cleaner what a worker has published, or has seen, stays there. *)
LEMMA FilesStayThere ==
  ASSUME TypeOK, WorkerLocals, FilesThere, [Next]_vars
  PROVE  FilesThere'
<1>1. ASSUME NEW w \in Workers, Receive(w) PROVE FilesThere'
  BY <1>1
  DEF Receive, Goto, Answer, FilesThere, TypeOK, Key, disk
<1>2. ASSUME NEW w \in Workers, ClearRequest(w) PROVE FilesThere'
  BY <1>2
  DEF ClearRequest, Goto, Answer, FilesThere, Key, disk
<1>3. ASSUME NEW w \in Workers, Find(w) PROVE FilesThere'
  BY <1>3
  DEF Find, Goto, FilesThere, Key, disk
<1>4. ASSUME NEW w \in Workers, Check(w) PROVE FilesThere'
  BY <1>4
  DEF Check, Goto, Dereferenced, FilesThere, Key, disk
<1>5. ASSUME NEW w \in Workers, Hit(w) PROVE FilesThere'
  BY <1>5
  DEF Hit, Goto, Answer, Dereferenced, FilesThere, TypeOK, Key, disk
<1>6. ASSUME NEW w \in Workers, Fetch(w) PROVE FilesThere'
  BY <1>6
  DEF Fetch, Goto, Answer, FilesThere, TypeOK, Key, disk
<1>7. ASSUME NEW w \in Workers, PutAbsent(w) PROVE FilesThere'
  BY <1>7
  DEF PutAbsent, Goto, Answer, FilesThere, Key, disk
<1>8. ASSUME NEW w \in Workers, Write(w) PROVE FilesThere'
  BY <1>8
  DEF Write, Goto, FilesThere, Key, disk
<1>9. ASSUME NEW w \in Workers, Close(w) PROVE FilesThere'
  BY <1>9
  DEF Close, Goto, FilesThere, Key, disk
<1>10. ASSUME NEW w \in Workers, GzProbe(w) PROVE FilesThere'
  BY <1>10
  DEF GzProbe, Goto, FilesThere, Key, disk
<1>11. ASSUME NEW w \in Workers, GzRefresh(w) PROVE FilesThere'
  BY <1>11
  DEF GzRefresh, Goto, FilesThere, Key, disk
<1>12. ASSUME NEW w \in Workers, GzFill(w) PROVE FilesThere'
  BY <1>12
  DEF GzFill, Goto, FilesThere, Key, disk
<1>13. ASSUME NEW w \in Workers, GzReplace(w) PROVE FilesThere'
  <2> SUFFICES ASSUME ~Cleaner, NEW v \in Workers
               PROVE  /\ pc'[v] = "put" => Exists(file'[Key(v)])
                      /\ pc'[v] \in {"size", "exists", "open"} /\ req[v].gzip => Exists(gz'[Key(v)])
    BY <1>13 DEF GzReplace, FilesThere, Key
  <2>1. \A c \in Keys : (Exists(file[c]) => Exists(file'[c])) /\ (Exists(gz[c]) => Exists(gz'[c]))
    BY FilesStay
  <2>2. CASE v # w
    <3>1. pc'[v] = pc[v]
      BY <1>13, <2>2 DEF GzReplace, Goto, Answer, TypeOK
    <3> QED
      BY <2>1, <3>1, KeyTyped DEF FilesThere
  <2>3. CASE v = w
    BY <1>13, <2>3, KeyTyped DEF GzReplace, Goto, Answer, TypeOK
  <2> QED
    BY <2>2, <2>3
<1>14. ASSUME NEW w \in Workers, Rename(w) PROVE FilesThere'
  <2> SUFFICES ASSUME ~Cleaner, NEW v \in Workers
               PROVE  /\ pc'[v] = "put" => Exists(file'[Key(v)])
                      /\ pc'[v] \in {"size", "exists", "open"} /\ req[v].gzip => Exists(gz'[Key(v)])
    BY <1>14 DEF Rename, FilesThere, Key
  <2>1. \A c \in Keys : (Exists(file[c]) => Exists(file'[c])) /\ (Exists(gz[c]) => Exists(gz'[c]))
    BY FilesStay
  <2>2. CASE v # w
    <3>1. pc'[v] = pc[v]
      BY <1>14, <2>2 DEF Rename, Goto, Answer, TypeOK
    <3> QED
      BY <2>1, <3>1, KeyTyped DEF FilesThere
  <2>3. CASE v = w
    BY <1>14, <2>3, KeyTyped DEF Rename, Renamed, Goto, Answer, TypeOK
  <2> QED
    BY <2>2, <2>3
<1>15. ASSUME NEW w \in Workers, Put(w) PROVE FilesThere'
  BY <1>15
  DEF Put, Goto, FilesThere, Key, disk
<1>16. ASSUME NEW w \in Workers, Encode(w) PROVE FilesThere'
  BY <1>16
  DEF Encode, Goto, FilesThere, Key, disk
<1>17. ASSUME NEW w \in Workers, GzOpen(w) PROVE FilesThere'
  BY <1>17
  DEF GzOpen, Goto, FilesThere, Key, disk
<1>18. ASSUME NEW w \in Workers, GzCopy(w) PROVE FilesThere'
  BY <1>18
  DEF GzCopy, Goto, FilesThere, Key, disk
<1>19. ASSUME NEW w \in Workers, GzMove(w) PROVE FilesThere'
  <2> SUFFICES ASSUME ~Cleaner, NEW v \in Workers
               PROVE  /\ pc'[v] = "put" => Exists(file'[Key(v)])
                      /\ pc'[v] \in {"size", "exists", "open"} /\ req[v].gzip => Exists(gz'[Key(v)])
    BY <1>19 DEF GzMove, FilesThere, Key
  <2>1. \A c \in Keys : (Exists(file[c]) => Exists(file'[c])) /\ (Exists(gz[c]) => Exists(gz'[c]))
    BY FilesStay
  <2>2. CASE v # w
    <3>1. pc'[v] = pc[v]
      BY <1>19, <2>2 DEF GzMove, Goto, Answer, TypeOK
    <3> QED
      BY <2>1, <3>1, KeyTyped DEF FilesThere
  <2>3. CASE v = w
    BY <1>19, <2>3, KeyTyped DEF GzMove, Goto, Answer, TypeOK
  <2> QED
    BY <2>2, <2>3
<1>20. ASSUME NEW w \in Workers, Measure(w) PROVE FilesThere'
  BY <1>20
  DEF Measure, Goto, Answer, At, FilesThere, TypeOK, Key, disk
<1>21. ASSUME NEW w \in Workers, Conditions(w) PROVE FilesThere'
  BY <1>21
  DEF Conditions, Goto, Answer, At, FilesThere, TypeOK, Key, disk
<1>22. ASSUME NEW w \in Workers, Open(w) PROVE FilesThere'
  BY <1>22
  DEF Open, Goto, Answer, FilesThere, Key, disk
<1>23. ASSUME NEW w \in Workers, Send(w) PROVE FilesThere'
  BY <1>23
  DEF Send, Goto, FilesThere, TypeOK, Key, disk
<1>24. ASSUME NEW k \in Keys, Upload(k) PROVE FilesThere'
  BY <1>24
  DEF Upload, FilesThere, Key, disk
<1>25. ASSUME NEW k \in Keys, Delete(k) PROVE FilesThere'
  BY <1>25
  DEF Delete, FilesThere, Key, disk
<1>26. ASSUME NEW k \in Keys, Clean(k) PROVE FilesThere'
  BY <1>26
  DEF Clean, FilesThere
<1>27. CASE Sweep
  BY <1>27
  DEF Sweep, FilesThere, Key, disk
<1>28. CASE Tick
  BY <1>28
  DEF Tick, FilesThere, Key, disk
<1>29. CASE Restart
  BY <1>29
  DEF Restart, FilesThere, disk
<1>30. CASE UNCHANGED vars
  BY <1>30
  DEF FilesThere, Key, disk, vars
<1> QED
  BY <1>1, <1>2, <1>3, <1>4, <1>5, <1>6, <1>7, <1>8, <1>9, <1>10, <1>11,
     <1>12, <1>13, <1>14, <1>15, <1>16, <1>17, <1>18, <1>19, <1>20, <1>21,
     <1>22, <1>23, <1>24, <1>25, <1>26, <1>27, <1>28, <1>29, <1>30
  DEF Next, Handler, Environment

(* Whoever holds a revision of an object has its file. *)
LEMMA HeldFilesThere ==
  ASSUME TypeOK, WorkerLocals, KnownRevisions, FilesThere, EntriesBackedByFiles, [Next]_vars, ~Cleaner,
         NEW k \in Keys, NEW r \in Held(k)'
  PROVE  Exists(file'[k])
<1>1. CASE r \in Held(k)
  BY <1>1, FilesStay DEF EntriesBackedByFiles
<1>2. ASSUME NEW v \in Workers, Put(v), k = Key(v) PROVE Exists(file'[k])
  BY <1>2, FilesStay DEF Put, At, FilesThere
<1> QED
  BY <1>1, <1>2, HeldStep DEF HeldCases

(* A worker that serves an object holds it ... *)
LEMMA ServedHeld ==
  ASSUME WorkerLocals, NEW w \in Workers, pc[w] \in Serving
  PROVE  obj[w] \in Held(Key(w))
BY DEF WorkerLocals, Found, Held, Holding

(* ... so the file it serves is there. *)
LEMMA ServedExists ==
  ASSUME TypeOK, WorkerLocals, FilesThere, EntriesBackedByFiles, ~Cleaner,
         NEW w \in Workers, pc[w] \in {"size", "exists", "open"}
  PROVE  Exists(Served(w))
<1>1. CASE req[w].gzip
  BY <1>1 DEF FilesThere, Served
<1>2. CASE ~req[w].gzip
  <2>1. obj[w] \in Held(Key(w))
    BY DEF WorkerLocals, Serving, Compressing, Found, Held, Holding
  <2> QED
    BY <1>2, <2>1, KeyTyped DEF EntriesBackedByFiles, Served
<1> QED
  BY <1>1, <1>2

(* A worker that holds an object does not answer 404, nor 500 without a fault. *)
HonestFailure(v) == /\ resp[v].status = 404 => obj[v] = 0
                    /\ resp[v].status = 500 => FaultyDisk

(* No step makes a worker that holds an object fail. *)
LEMMA FailuresStayHonest ==
  ASSUME TypeOK, WorkerLocals, TemporariesThere, FilesThere, EntriesBackedByFiles, ~Cleaner, NEW v \in Workers, [Next]_vars
  PROVE  HonestFailure(v)'
<1>1. ASSUME NEW w \in Workers, Receive(w) PROVE HonestFailure(v)'
  <2>1. HonestFailure(v)
    BY DEF EntriesBackedByFiles, HonestFailure
  <2> QED
    BY <1>1, <2>1, Statuses
    DEF Receive, HonestFailure, Goto, Answer, At, WorkerLocals, Serving, Compressing, TypeOK
<1>2. ASSUME NEW w \in Workers, ClearRequest(w) PROVE HonestFailure(v)'
  <2>1. HonestFailure(v)
    BY DEF EntriesBackedByFiles, HonestFailure
  <2> QED
    BY <1>2, <2>1, Statuses
    DEF ClearRequest, HonestFailure, Goto, Answer, At, WorkerLocals, Serving, Compressing, TypeOK
<1>3. ASSUME NEW w \in Workers, Find(w) PROVE HonestFailure(v)'
  BY <1>3
  DEF Find, EntriesBackedByFiles, HonestFailure
<1>4. ASSUME NEW w \in Workers, Check(w) PROVE HonestFailure(v)'
  BY <1>4
  DEF Check, Dereferenced, EntriesBackedByFiles, HonestFailure
<1>5. ASSUME NEW w \in Workers, Hit(w) PROVE HonestFailure(v)'
  <2>1. HonestFailure(v)
    BY DEF EntriesBackedByFiles, HonestFailure
  <2> QED
    BY <1>5, <2>1, Statuses
    DEF Hit, HonestFailure, Goto, Answer, At, WorkerLocals, Serving, Compressing, TypeOK
<1>6. ASSUME NEW w \in Workers, Fetch(w) PROVE HonestFailure(v)'
  <2>1. HonestFailure(v)
    BY DEF EntriesBackedByFiles, HonestFailure
  <2> QED
    BY <1>6, <2>1, Statuses
    DEF Fetch, HonestFailure, Goto, Answer, At, WorkerLocals, Serving, Compressing, TypeOK
<1>7. ASSUME NEW w \in Workers, PutAbsent(w) PROVE HonestFailure(v)'
  <2>1. HonestFailure(v)
    BY DEF EntriesBackedByFiles, HonestFailure
  <2> QED
    BY <1>7, <2>1, Statuses
    DEF PutAbsent, HonestFailure, Goto, Answer, At, WorkerLocals, Serving, Compressing, TypeOK
<1>8. ASSUME NEW w \in Workers, Write(w) PROVE HonestFailure(v)'
  BY <1>8
  DEF Write, EntriesBackedByFiles, HonestFailure
<1>9. ASSUME NEW w \in Workers, Close(w) PROVE HonestFailure(v)'
  BY <1>9
  DEF Close, EntriesBackedByFiles, HonestFailure
<1>10. ASSUME NEW w \in Workers, GzProbe(w) PROVE HonestFailure(v)'
  BY <1>10
  DEF GzProbe, EntriesBackedByFiles, HonestFailure
<1>11. ASSUME NEW w \in Workers, GzRefresh(w) PROVE HonestFailure(v)'
  BY <1>11
  DEF GzRefresh, EntriesBackedByFiles, HonestFailure
<1>12. ASSUME NEW w \in Workers, GzFill(w) PROVE HonestFailure(v)'
  BY <1>12
  DEF GzFill, EntriesBackedByFiles, HonestFailure
<1>13. ASSUME NEW w \in Workers, GzReplace(w) PROVE HonestFailure(v)'
  <2>1. HonestFailure(v)
    BY DEF EntriesBackedByFiles, HonestFailure
  <2> QED
    BY <1>13, <2>1, Statuses
    DEF GzReplace, HonestFailure, Goto, Answer, At, WorkerLocals, Serving, Compressing, TypeOK
<1>14. ASSUME NEW w \in Workers, Rename(w) PROVE HonestFailure(v)'
  <2>1. HonestFailure(v)
    BY DEF EntriesBackedByFiles, HonestFailure
  <2> QED
    BY <1>14, <2>1, Statuses
    DEF Rename, HonestFailure, Goto, Answer, At, WorkerLocals, Serving, Compressing, TypeOK
<1>15. ASSUME NEW w \in Workers, Put(w) PROVE HonestFailure(v)'
  <2>1. HonestFailure(v)
    BY DEF EntriesBackedByFiles, HonestFailure
  <2> QED
    BY <1>15, <2>1, Statuses
    DEF Put, HonestFailure, Goto, Answer, At, WorkerLocals, Serving, Compressing, TypeOK
<1>16. ASSUME NEW w \in Workers, Encode(w) PROVE HonestFailure(v)'
  BY <1>16
  DEF Encode, EntriesBackedByFiles, HonestFailure
<1>17. ASSUME NEW w \in Workers, GzOpen(w) PROVE HonestFailure(v)'
  BY <1>17
  DEF GzOpen, EntriesBackedByFiles, HonestFailure
<1>18. ASSUME NEW w \in Workers, GzCopy(w) PROVE HonestFailure(v)'
  BY <1>18
  DEF GzCopy, EntriesBackedByFiles, HonestFailure
<1>19. ASSUME NEW w \in Workers, GzMove(w) PROVE HonestFailure(v)'
  <2>1. HonestFailure(v)
    BY DEF EntriesBackedByFiles, HonestFailure
  <2>2. ~FaultyDisk => Exists(zip[w])
    <3>1. zip[w] \in Copies /\ pc[w] \in Zipping
      BY <1>19 DEF GzMove, At, Zipping, Compressing, TypeOK
    <3> QED
      BY <3>1, LastingExists DEF TemporariesThere
  <2> QED
    BY <1>19, <2>1, <2>2, Statuses
    DEF GzMove, HonestFailure, Goto, Answer, At, WorkerLocals, TypeOK
<1>20. ASSUME NEW w \in Workers, Measure(w) PROVE HonestFailure(v)'
  <2>1. HonestFailure(v)
    BY DEF EntriesBackedByFiles, HonestFailure
  <2>2. Exists(Served(w))
    BY <1>20, ServedExists DEF Measure, At
  <2> QED
    BY <1>20, <2>1, <2>2, Statuses
    DEF Measure, HonestFailure, Goto, Answer, At, WorkerLocals, TypeOK
<1>21. ASSUME NEW w \in Workers, Conditions(w) PROVE HonestFailure(v)'
  <2>1. HonestFailure(v)
    BY DEF EntriesBackedByFiles, HonestFailure
  <2>2. Exists(Served(w))
    BY <1>21, ServedExists DEF Conditions, At
  <2> QED
    BY <1>21, <2>1, <2>2, Statuses
    DEF Conditions, HonestFailure, Goto, Answer, At, WorkerLocals, TypeOK
<1>22. ASSUME NEW w \in Workers, Open(w) PROVE HonestFailure(v)'
  <2>1. HonestFailure(v)
    BY DEF EntriesBackedByFiles, HonestFailure
  <2>2. Exists(Served(w))
    BY <1>22, ServedExists DEF Open, At
  <2> QED
    BY <1>22, <2>1, <2>2, Statuses
    DEF Open, HonestFailure, Goto, Answer, At, WorkerLocals, TypeOK
<1>23. ASSUME NEW w \in Workers, Send(w) PROVE HonestFailure(v)'
  <2>1. HonestFailure(v)
    BY DEF EntriesBackedByFiles, HonestFailure
  <2> QED
    BY <1>23, <2>1, Statuses
    DEF Send, HonestFailure, Goto, Answer, At, WorkerLocals, TypeOK
<1>24. ASSUME NEW k \in Keys, Upload(k) PROVE HonestFailure(v)'
  BY <1>24
  DEF Upload, EntriesBackedByFiles, HonestFailure
<1>25. ASSUME NEW k \in Keys, Delete(k) PROVE HonestFailure(v)'
  BY <1>25
  DEF Delete, EntriesBackedByFiles, HonestFailure
<1>26. ASSUME NEW k \in Keys, Clean(k) PROVE HonestFailure(v)'
  BY <1>26
  DEF Clean, EntriesBackedByFiles, HonestFailure
<1>27. CASE Sweep
  BY <1>27
  DEF Sweep, EntriesBackedByFiles, HonestFailure
<1>28. CASE Tick
  BY <1>28
  DEF Tick, EntriesBackedByFiles, HonestFailure
<1>29. CASE Restart
  BY <1>29, Statuses
  DEF Restart, EntriesBackedByFiles, HonestFailure
<1>30. CASE UNCHANGED vars
  BY <1>30
  DEF EntriesBackedByFiles, HonestFailure, vars
<1> QED
  BY <1>1, <1>2, <1>3, <1>4, <1>5, <1>6, <1>7, <1>8, <1>9, <1>10, <1>11,
     <1>12, <1>13, <1>14, <1>15, <1>16, <1>17, <1>18, <1>19, <1>20, <1>21,
     <1>22, <1>23, <1>24, <1>25, <1>26, <1>27, <1>28, <1>29, <1>30
  DEF Next, Handler, Environment

-----------------------------------------------------------------------------
(* Files before metadata. *)

(* A temporary file keeps the content of its worker's download. *)
LEMMA TemporariesStayNamed ==
  ASSUME TypeOK, TemporariesThere, TemporariesNamed, [Next]_vars
  PROVE  TemporariesNamed'
<1> SUFFICES ASSUME NEW v \in Workers
             PROVE  /\ pc'[v] \in Downloaded /\ Exists(tmp'[v]) => tmp'[v].rev = got'[v]
                    /\ ~FaultyDisk /\ pc'[v] \in {"gzfill", "gzreplace"} => zip'[v].rev = got'[v]
  BY DEF TemporariesNamed, Exists, NoFile
<1>1. tmp[v] \in Copies /\ zip[v] \in Copies
  BY DEF TypeOK
<1>2. Copy(got[v]) \in Copies /\ Copy(got[v]).rev = got[v]
  BY DEF Copy, Copies, TypeOK
<1>3. ASSUME pc'[v] \in Downloaded, Exists(tmp'[v]) PROVE tmp'[v].rev = got'[v]
  <2>1. CASE pc[v] = "write" /\ SameWork(v) /\ tmp'[v] \in Begun(Copy(got[v]))
    BY <1>2, <1>3, <2>1, BegunKept DEF SameWork
  <2>2. CASE pc[v] \in Downloaded /\ SameWork(v) /\ tmp'[v] = tmp[v]
    BY <1>3, <2>2 DEF TemporariesNamed, SameWork
  <2>3. CASE pc[v] \in Downloaded /\ SameWork(v) /\ tmp'[v] \in Closed(tmp[v])
    BY <1>1, <1>3, <2>3, ClosedKept DEF TemporariesNamed, SameWork
  <2> QED
    BY <1>3, <2>1, <2>2, <2>3, DownloadStep DEF DownloadCases, Downloaded
<1>4. ASSUME ~FaultyDisk, pc'[v] \in {"gzfill", "gzreplace"} PROVE zip'[v].rev = got'[v]
  <2>1. CASE pc[v] = "gzrefresh" /\ SameWork(v) /\ zip'[v] \in Begun(Compressed(tmp[v]))
    <3>1. Exists(tmp[v]) /\ tmp[v].rev = got[v]
      BY <1>1, <1>4, <2>1, LastingExists DEF TemporariesThere, TemporariesNamed, Downloaded
    <3> QED
      BY <1>1, <1>4, <2>1, <3>1, WrittenTyped, BegunKept, CompressedKept DEF SameWork
  <2>2. CASE pc[v] \in {"gzfill", "gzreplace"} /\ SameWork(v) /\ zip'[v] = zip[v]
    BY <1>4, <2>2 DEF TemporariesNamed, SameWork
  <2>3. CASE pc[v] = "gzfill" /\ SameWork(v) /\ zip'[v] \in Closed(zip[v])
    BY <1>1, <1>4, <2>3, ClosedKept DEF TemporariesNamed, SameWork
  <2> QED
    BY <1>4, <2>1, <2>2, <2>3, CopyStep DEF CopyCases, Zipping, Compressing
<1> QED
  BY <1>3, <1>4

(* A download nobody interferes with stays the newest that anybody holds: it was
   when it was fetched, and only a put, which nobody else can do meanwhile,
   makes more of the object's revisions held. *)
LEMMA DownloadsStayNewest ==
  ASSUME TypeOK, WorkerLocals, KnownRevisions, RacesRecorded, DownloadsNewest, [Next]_vars
  PROVE  DownloadsNewest'
<1> SUFFICES ASSUME NEW v \in Workers, pc'[v] \in Refreshing, solo'[v],
                    NEW r \in Held(Key(v))'
             PROVE  r <= got'[v]
  BY DEF DownloadsNewest
<1>1. SoloCases(v)
  BY SoloStep
<1>2. req'[v] = req[v]
  BY <1>1 DEF SoloCases, SameWork
<1>3. r \in Held(Key(v)) \/ \E u \in Workers : Put(u) /\ Key(v) = Key(u) /\ r = got[u]
  <2>1. ASSUME NEW c \in Keys, c = Key(v)' PROVE r \in Held(c)'
    BY <2>1 DEF Held
  <2> QED
    BY <1>2, <2>1, HeldStep, KeyTyped DEF HeldCases, Key
<1>4. CASE pc[v] \in Refreshing /\ solo[v] /\ SameWork(v)
  <2>1. ASSUME NEW u \in Workers, Put(u), Key(v) = Key(u) PROVE FALSE
    <3>1. pc[u] = "put" /\ pc'[u] = "encode"
      BY <2>1 DEF Put, At, Goto, TypeOK
    <3>2. u = v
      BY <1>4, <2>1, <3>1, SoloAlone DEF Refreshing
    <3> QED
      BY <3>1, <3>2 DEF Refreshing
  <2> QED
    BY <1>3, <1>4, <2>1 DEF DownloadsNewest, SameWork
<1>5. CASE Fetch(v) /\ pc'[v] = "write" /\ got'[v] = latest[Key(v)]
  <2>1. ASSUME NEW u \in Workers, Put(u) PROVE FALSE
    <3>1. pc[v] = "fetch" /\ pc[u] = "put" /\ pc' = [pc EXCEPT ![u] = "encode"]
      BY <1>5, <2>1 DEF Put, Fetch, At, Goto
    <3> QED
      BY <1>5, <3>1 DEF TypeOK
  <2> QED
    BY <1>3, <1>5, <2>1, ZeroNotFound, KeyTyped DEF Held
<1> QED
  BY <1>1, <1>4, <1>5 DEF SoloCases

(* Before such a download puts its metadata, file and gzip copy hold its revision:
   the probe found no gzip copy or the refresh wrote it, the rename wrote the
   file, and nobody else has written either since. *)
LEMMA FilesStayBeforeMetadata ==
  ASSUME TypeOK, RacesRecorded, TemporariesThere, TemporariesNamed,
         FilesBeforeMetadata, [Next]_vars
  PROVE  FilesBeforeMetadata'
<1> SUFFICES ASSUME NEW v \in Workers, solo'[v], pc'[v] \in {"rename", "put"}
             PROVE  /\ pc'[v] = "put" /\ Exists(file'[Key(v)']) => file'[Key(v)'].rev = got'[v]
                    /\ Healthy /\ Exists(gz'[Key(v)']) => gz'[Key(v)'].rev = got'[v]
  BY DEF FilesBeforeMetadata, Healthy, Exists, NoFile
<1> DEFINE k == Key(v)
<1>1. pc[v] \in Refreshing /\ solo[v] /\ SameWork(v)
  BY SoloStep DEF SoloCases, Refreshing
<1>2. Key(v)' = k /\ k \in Keys
  BY <1>1, KeyTyped DEF SameWork, Key
<1>3. ~Exists(NoFile)
  BY DEF Exists
<1>4. ASSUME NEW u \in Workers, Key(u) = k, pc[u] \in Refreshing \cup Compressing
      PROVE  u = v
  BY <1>1, <1>4, SoloAlone
<1>5. PublishCases(v)
  BY PublishStep
<1> HIDE DEF k
<1>6. CASE pc[v] \in {"rename", "put"} /\ ~Rename(v)
  <2>1. ASSUME pc'[v] = "put", Exists(file'[k]) PROVE file'[k].rev = got'[v]
    <3>1. pc[v] = "put"
      BY <1>5, <1>6, <2>1 DEF PublishCases, GzProbe, GzReplace, At
    <3>2. file'[k] = file[k]
      BY <1>2, <1>3, <1>4, <1>6, <2>1, FileStep
      DEF FileCases, Rename, At, Refreshing
    <3> QED
      BY <1>1, <1>2, <2>1, <3>1, <3>2 DEF FilesBeforeMetadata, SameWork, k
  <2>2. ASSUME Healthy, Exists(gz'[k]) PROVE gz'[k].rev = got'[v]
    <3>1. gz'[k] = gz[k]
      BY <1>2, <1>3, <1>4, <1>6, <2>2, GzStep
      DEF GzCases, GzMove, GzReplace, At, Refreshing, Compressing
    <3> QED
      BY <1>1, <1>2, <1>6, <2>2, <3>1 DEF FilesBeforeMetadata, SameWork, k
  <2> QED
    BY <1>2, <2>1, <2>2
<1>7. CASE Rename(v) /\ file'[k] = tmp[v]
  <2>1. pc[v] = "rename" /\ gz' = gz
    BY <1>7 DEF Rename, At
  <2>2. Exists(file'[k]) => file'[k].rev = got'[v]
    BY <1>1, <1>7, <2>1 DEF TemporariesNamed, SameWork, Downloaded
  <2>3. Healthy /\ Exists(gz'[k]) => gz'[k].rev = got'[v]
    BY <1>1, <2>1 DEF FilesBeforeMetadata, SameWork, k
  <2> QED
    BY <1>2, <2>2, <2>3
<1>8. CASE pc'[v] = "rename" /\ gz'[k] = NoFile
  BY <1>2, <1>3, <1>8
<1>9. CASE GzReplace(v) /\ pc'[v] = "rename" /\ gz'[k] = zip[v]
  <2>1. pc[v] = "gzreplace"
    BY <1>9 DEF GzReplace, At
  <2>2. Healthy => gz'[k].rev = got'[v]
    BY <1>1, <1>9, <2>1 DEF TemporariesNamed, SameWork, Healthy
  <2> QED
    BY <1>2, <1>9, <2>2
<1>10. Rename(v) => pc[v] = "rename" /\ pc'[v] # "rename"
  BY DEF Rename, Goto, Answer, At, TypeOK
<1> QED
  BY <1>5, <1>6, <1>7, <1>8, <1>9, <1>10 DEF PublishCases, k

(* The file does not change between a compression's read and its rename, unless
   the race with a download is on record. *)
LEMMA CompressionsStayCurrent ==
  ASSUME TypeOK, RacesRecorded, CompressionsCurrent, [Next]_vars
  PROVE  CompressionsCurrent'
<1> SUFFICES ASSUME Healthy, NEW v \in Workers, pc'[v] \in Compressing, ~raced'[Key(v)']
             PROVE  zip'[v].rev = file'[Key(v)'].rev
  BY DEF CompressionsCurrent, Healthy
<1>1. CopyCases(v)
  BY CopyStep
<1>2. SameWork(v) /\ Key(v)' = Key(v) /\ Key(v) \in Keys
  BY <1>1, KeyTyped DEF CopyCases, Key, SameWork, Zipping, Compressing
<1>3. CASE pc[v] \in Compressing /\ zip'[v] \in {zip[v]} \cup Closed(zip[v])
  <2>1. ASSUME NEW u \in Workers, Key(u) = Key(v), pc[u] \in Refreshing
        PROVE  ~solo[u] /\ raced[Key(v)]
    BY <1>3, <2>1 DEF RacesRecorded, Refreshing, Compressing
  <2>2. ~raced[Key(v)]
    <3>1. ~Restart
      BY DEF Restart, Compressing
    <3>2. ASSUME NEW u \in Workers, Put(u), solo[u], Key(u) = Key(v) PROVE FALSE
      BY <2>1, <3>2 DEF Put, At, Refreshing
    <3> QED
      BY <1>2, <3>1, <3>2, RaceStep DEF RaceCases
  <2>3. file'[Key(v)] = file[Key(v)]
    <3>1. ASSUME NEW u \in Workers, Rename(u), Key(u) = Key(v) PROVE FALSE
      BY <2>1, <2>2, <3>1 DEF Rename, At, Refreshing
    <3>2. Exists(file[Key(v)]) => Exists(file'[Key(v)])
      BY <1>2, FilesStay DEF Healthy
    <3> QED
      BY <1>2, <3>1, <3>2, FileStep DEF FileCases, Exists
  <2>4. zip'[v].rev = zip[v].rev
    BY <1>3, ClosedKept DEF TypeOK
  <2> QED
    BY <1>2, <1>3, <2>2, <2>3, <2>4 DEF CompressionsCurrent
<1>4. CASE GzOpen(v) /\ zip'[v] \in Begun(Compressed(file[Key(v)]))
  <2>1. file' = file /\ file[Key(v)] \in Copies
    BY <1>2, <1>4 DEF GzOpen, disk, TypeOK
  <2>2. zip'[v].rev = Compressed(file[Key(v)]).rev
    BY <1>4, <2>1, WrittenTyped, BegunKept DEF Healthy
  <2> QED
    BY <1>2, <2>1, <2>2, CompressedKept
<1> QED
  BY <1>1, <1>3, <1>4 DEF CopyCases, Zipping, Compressing

(* The heart of the argument: no step takes a file or a gzip copy behind a held
   revision, and no step makes a revision held that is ahead of them. *)
LEMMA FilesStayNotBehind ==
  ASSUME TypeOK, WorkerLocals, KnownRevisions, RacesRecorded, TemporariesThere,
         EntriesBackedByFiles, TemporariesNamed, DownloadsNewest,
         FilesBeforeMetadata, CompressionsCurrent, FilesNotBehindMetadata, [Next]_vars
  PROVE  FilesNotBehindMetadata'
<1> SUFFICES ASSUME NEW c \in Keys, ~raced'[c], NEW r \in Held(c)'
             PROVE  /\ Exists(file'[c]) => file'[c].rev >= r
                    /\ Healthy /\ Exists(gz'[c]) => gz'[c].rev >= r
  BY DEF FilesNotBehindMetadata, Healthy, Exists, NoFile
<1>1. ~Exists(NoFile)
  BY DEF Exists
<1>2. CASE Restart
  <2>1. r \in uploads[c] /\ r = 0
    BY <1>2 DEF Restart, Cleared, NoEntry, Held, Holding, bucket
  <2> QED
    BY <2>1, ZeroNotFound
<1>3. ASSUME NEW u \in Workers, Put(u), Key(u) = c
      PROVE  /\ Exists(file'[c]) => file'[c].rev >= r
             /\ Healthy /\ Exists(gz'[c]) => gz'[c].rev >= r
  <2>1. pc[u] = "put" /\ file' = file /\ gz' = gz
    BY <1>3 DEF Put, At, disk
  <2>2. solo[u]
    BY <1>3, <2>1 DEF Put, RacesRecorded, Refreshing, TypeOK
  <2>3. r <= got[u]
    <3>1. CASE r \in Held(c)
      BY <1>3, <2>1, <2>2, <3>1 DEF DownloadsNewest, Refreshing
    <3>2. ASSUME NEW v \in Workers, Put(v), c = Key(v), r = got[v] PROVE r <= got[u]
      <4>1. v = u
        BY <1>3, <2>1, <2>2, <3>2, SoloAlone DEF Put, At, Refreshing
      <4> QED
        BY <3>2, <4>1, KeyTyped
    <3> QED
      BY <3>1, <3>2, HeldStep DEF HeldCases
  <2>4. r \in Nat /\ got[u] \in Nat
    BY <1>3, KeyTyped, HeldStep, ZeroNotFound DEF HeldCases, Held
  <2> QED
    BY <1>3, <2>1, <2>2, <2>3, <2>4 DEF FilesBeforeMetadata
<1>4. CASE ~Restart /\ \A u \in Workers : Put(u) => Key(u) # c
  <2>1. ~raced[c]
    BY <1>4, RaceStep DEF RaceCases
  <2>2. r \in Held(c)
    BY <1>4, HeldStep DEF HeldCases
  <2>3. /\ Exists(file[c]) => file[c].rev >= r
        /\ Healthy /\ Exists(gz[c]) => gz[c].rev >= r
    BY <2>1, <2>2 DEF FilesNotBehindMetadata
  <2>4. ASSUME NEW u \in Workers, Key(u) = c, pc[u] \in Refreshing
        PROVE  got[u] >= r
    <3>1. solo[u]
      BY <2>1, <2>4, UnracedSolo
    <3>2. r <= got[u]
      BY <2>2, <2>4, <3>1 DEF DownloadsNewest
    <3> QED
      BY <3>2, KeyTyped, <2>2, ZeroNotFound DEF Held
  <2>5. ASSUME Exists(file'[c]) PROVE file'[c].rev >= r
    <3>1. ASSUME NEW u \in Workers, Rename(u), Key(u) = c, file'[c] = tmp[u]
          PROVE  file'[c].rev >= r
      BY <2>4, <2>5, <3>1 DEF TemporariesNamed, Downloaded, Rename, At, Refreshing
    <3> QED
      BY <1>1, <2>3, <2>5, <3>1, FileStep DEF FileCases
  <2>6. ASSUME Healthy, Exists(gz'[c]) PROVE gz'[c].rev >= r
    <3>1. ASSUME NEW u \in Workers, GzMove(u), Key(u) = c, gz'[c] = zip[u]
          PROVE  gz'[c].rev >= r
      <4>1. zip[u].rev = file[c].rev
        BY <2>1, <2>6, <3>1 DEF CompressionsCurrent, Compressing, GzMove, At
      <4>2. Exists(file[c])
        BY <2>2, <2>6 DEF EntriesBackedByFiles, Healthy
      <4> QED
        BY <2>3, <3>1, <4>1, <4>2
    <3>2. ASSUME NEW u \in Workers, GzReplace(u), Key(u) = c, gz'[c] = zip[u]
          PROVE  gz'[c].rev >= r
      BY <2>4, <2>6, <3>2 DEF TemporariesNamed, GzReplace, At, Refreshing, Healthy
    <3> QED
      BY <1>1, <2>3, <2>6, <3>1, <3>2, GzStep DEF GzCases
  <2> QED
    BY <2>5, <2>6
<1> QED
  BY <1>2, <1>3, <1>4

-----------------------------------------------------------------------------
(* Bodies. *)

(* One worker's part of BodyNotOlderThanETag. *)
BodyInOrder(v) ==
  resp[v].status = 200 /\ Exists(resp[v].body) /\ resp[v].clean
    => resp[v].body.rev >= resp[v].etag

(* Only Open answers with a body, and it holds the entry whose file it reads. *)
LEMMA BodiesStayInOrder ==
  ASSUME TypeOK, WorkerLocals, FilesNotBehindMetadata, BodyNotOlderThanETag, Healthy, NEW v \in Workers, [Next]_vars
  PROVE  BodyInOrder(v)'
<1>1. ASSUME NEW w \in Workers, Receive(w) PROVE BodyInOrder(v)'
  <2>1. BodyInOrder(v)
    BY DEF BodyNotOlderThanETag, BodyInOrder
  <2> QED
    BY <1>1, <2>1, BodilessInOrder DEF Receive, BodyInOrder, Answer, TypeOK, NoFile, Exists
<1>2. ASSUME NEW w \in Workers, ClearRequest(w) PROVE BodyInOrder(v)'
  <2>1. BodyInOrder(v)
    BY DEF BodyNotOlderThanETag, BodyInOrder
  <2> QED
    BY <1>2, <2>1, BodilessInOrder DEF ClearRequest, BodyInOrder, Answer, TypeOK, NoFile, Exists
<1>3. ASSUME NEW w \in Workers, Find(w) PROVE BodyInOrder(v)'
  BY <1>3
  DEF Find, BodyNotOlderThanETag, BodyInOrder, disk
<1>4. ASSUME NEW w \in Workers, Check(w) PROVE BodyInOrder(v)'
  BY <1>4
  DEF Check, Dereferenced, BodyNotOlderThanETag, BodyInOrder, disk
<1>5. ASSUME NEW w \in Workers, Hit(w) PROVE BodyInOrder(v)'
  <2>1. BodyInOrder(v)
    BY DEF BodyNotOlderThanETag, BodyInOrder
  <2> QED
    BY <1>5, <2>1, BodilessInOrder DEF Hit, BodyInOrder, Answer, TypeOK, NoFile, Exists
<1>6. ASSUME NEW w \in Workers, Fetch(w) PROVE BodyInOrder(v)'
  <2>1. BodyInOrder(v)
    BY DEF BodyNotOlderThanETag, BodyInOrder
  <2> QED
    BY <1>6, <2>1, BodilessInOrder DEF Fetch, BodyInOrder, Answer, TypeOK, NoFile, Exists
<1>7. ASSUME NEW w \in Workers, PutAbsent(w) PROVE BodyInOrder(v)'
  <2>1. BodyInOrder(v)
    BY DEF BodyNotOlderThanETag, BodyInOrder
  <2> QED
    BY <1>7, <2>1, BodilessInOrder DEF PutAbsent, BodyInOrder, Answer, TypeOK, NoFile, Exists
<1>8. ASSUME NEW w \in Workers, Write(w) PROVE BodyInOrder(v)'
  BY <1>8
  DEF Write, BodyNotOlderThanETag, BodyInOrder, disk
<1>9. ASSUME NEW w \in Workers, Close(w) PROVE BodyInOrder(v)'
  BY <1>9
  DEF Close, BodyNotOlderThanETag, BodyInOrder, disk
<1>10. ASSUME NEW w \in Workers, GzProbe(w) PROVE BodyInOrder(v)'
  BY <1>10
  DEF GzProbe, BodyNotOlderThanETag, BodyInOrder, disk
<1>11. ASSUME NEW w \in Workers, GzRefresh(w) PROVE BodyInOrder(v)'
  BY <1>11
  DEF GzRefresh, BodyNotOlderThanETag, BodyInOrder, disk
<1>12. ASSUME NEW w \in Workers, GzFill(w) PROVE BodyInOrder(v)'
  BY <1>12
  DEF GzFill, BodyNotOlderThanETag, BodyInOrder, disk
<1>13. ASSUME NEW w \in Workers, GzReplace(w) PROVE BodyInOrder(v)'
  <2>1. BodyInOrder(v)
    BY DEF BodyNotOlderThanETag, BodyInOrder
  <2> QED
    BY <1>13, <2>1, BodilessInOrder DEF GzReplace, BodyInOrder, Answer, TypeOK, NoFile, Exists
<1>14. ASSUME NEW w \in Workers, Rename(w) PROVE BodyInOrder(v)'
  <2>1. BodyInOrder(v)
    BY DEF BodyNotOlderThanETag, BodyInOrder
  <2> QED
    BY <1>14, <2>1, BodilessInOrder DEF Rename, BodyInOrder, Answer, TypeOK, NoFile, Exists
<1>15. ASSUME NEW w \in Workers, Put(w) PROVE BodyInOrder(v)'
  BY <1>15
  DEF Put, BodyNotOlderThanETag, BodyInOrder, disk
<1>16. ASSUME NEW w \in Workers, Encode(w) PROVE BodyInOrder(v)'
  BY <1>16
  DEF Encode, BodyNotOlderThanETag, BodyInOrder, disk
<1>17. ASSUME NEW w \in Workers, GzOpen(w) PROVE BodyInOrder(v)'
  BY <1>17
  DEF GzOpen, BodyNotOlderThanETag, BodyInOrder, disk
<1>18. ASSUME NEW w \in Workers, GzCopy(w) PROVE BodyInOrder(v)'
  BY <1>18
  DEF GzCopy, BodyNotOlderThanETag, BodyInOrder, disk
<1>19. ASSUME NEW w \in Workers, GzMove(w) PROVE BodyInOrder(v)'
  <2>1. BodyInOrder(v)
    BY DEF BodyNotOlderThanETag, BodyInOrder
  <2> QED
    BY <1>19, <2>1, BodilessInOrder DEF GzMove, BodyInOrder, Answer, TypeOK, NoFile, Exists
<1>20. ASSUME NEW w \in Workers, Measure(w) PROVE BodyInOrder(v)'
  <2>1. BodyInOrder(v)
    BY DEF BodyNotOlderThanETag, BodyInOrder
  <2> QED
    BY <1>20, <2>1, BodilessInOrder DEF Measure, BodyInOrder, Answer, TypeOK, NoFile, Exists
<1>21. ASSUME NEW w \in Workers, Conditions(w) PROVE BodyInOrder(v)'
  <2>1. BodyInOrder(v)
    BY DEF BodyNotOlderThanETag, BodyInOrder
  <2> QED
    BY <1>21, <2>1, BodilessInOrder DEF Conditions, BodyInOrder, Answer, TypeOK, NoFile, Exists
<1>22. ASSUME NEW w \in Workers, Open(w) PROVE BodyInOrder(v)'
  <2>1. BodyInOrder(v)
    BY DEF BodyNotOlderThanETag, BodyInOrder
  <2>2. CASE v # w \/ ~Exists(Served(w))
    BY <1>22, <2>1, <2>2, BodilessInOrder DEF Open, BodyInOrder, Answer, TypeOK, Exists, NoFile
  <2>3. CASE v = w /\ Exists(Served(w))
    <3>1. resp'[w] = Reply(w, 200, Served(w))
      BY <1>22, <2>3 DEF Open, Answer, TypeOK
    <3>2. obj[w] \in Held(Key(w)) /\ Key(w) \in Keys
      BY <1>22, ServedHeld, KeyTyped DEF Open, At, Serving, Compressing
    <3>3. ~raced[Key(w)] => Served(w).rev >= obj[w]
      BY <2>3, <3>2 DEF FilesNotBehindMetadata, Served
    <3>4. /\ resp'[w].etag = obj[w] /\ resp'[w].body = Served(w)
          /\ resp'[w].clean = ~raced[Key(w)]
      BY <3>1 DEF Reply
    <3> QED
      BY <2>3, <3>3, <3>4 DEF BodyInOrder
  <2> QED
    BY <2>2, <2>3
<1>23. ASSUME NEW w \in Workers, Send(w) PROVE BodyInOrder(v)'
  BY <1>23, BodilessInOrder
  DEF Send, BodyNotOlderThanETag, BodyInOrder, disk
<1>24. ASSUME NEW j \in Keys, Upload(j) PROVE BodyInOrder(v)'
  BY <1>24
  DEF Upload, BodyNotOlderThanETag, BodyInOrder, disk
<1>25. ASSUME NEW j \in Keys, Delete(j) PROVE BodyInOrder(v)'
  BY <1>25
  DEF Delete, BodyNotOlderThanETag, BodyInOrder, disk
<1>26. ASSUME NEW j \in Keys, Clean(j) PROVE BodyInOrder(v)'
  BY <1>26
  DEF Clean, BodyNotOlderThanETag, BodyInOrder
<1>27. CASE Sweep
  BY <1>27
  DEF Sweep, BodyNotOlderThanETag, BodyInOrder, disk
<1>28. CASE Tick
  BY <1>28
  DEF Tick, BodyNotOlderThanETag, BodyInOrder, disk
<1>29. CASE Restart
  BY <1>29, BodilessInOrder
  DEF Restart, BodyNotOlderThanETag, BodyInOrder, disk
<1>30. CASE UNCHANGED vars
  BY <1>30
  DEF BodyNotOlderThanETag, BodyInOrder, disk, vars
<1> QED
  BY <1>1, <1>2, <1>3, <1>4, <1>5, <1>6, <1>7, <1>8, <1>9, <1>10, <1>11,
     <1>12, <1>13, <1>14, <1>15, <1>16, <1>17, <1>18, <1>19, <1>20, <1>21,
     <1>22, <1>23, <1>24, <1>25, <1>26, <1>27, <1>28, <1>29, <1>30
  DEF Next, Handler, Environment

-----------------------------------------------------------------------------
(* Whole files. *)

(* A stream is closed before its worker goes on, and without faults or cleaners
   what it has written is whole. *)
LEMMA TemporariesStayClosed ==
  ASSUME TypeOK, WorkerLocals, EntriesBackedByFiles, TemporariesThere,
         TemporariesClosed, FilesWhole, [Next]_vars
  PROVE  TemporariesClosed'
<1> SUFFICES ASSUME NEW v \in Workers
             PROVE  /\ pc'[v] # "close" => ~tmp'[v].open
                    /\ pc'[v] \notin {"gzfill", "gzcopy"} => ~zip'[v].open
                    /\ ~FaultyDisk => tmp'[v].whole /\ (zip'[v].whole \/ Cleaner)
  BY DEF TemporariesClosed
<1>1. tmp[v] \in Copies /\ zip[v] \in Copies /\ file[Key(v)] \in Copies
  BY KeyTyped DEF TypeOK
<1>2. /\ Copy(got[v]) \in Copies /\ Copy(got[v]).whole
      /\ NoFile.whole /\ ~NoFile.open
  BY DEF Copy, Copies, NoFile, TypeOK
<1>3. pc'[v] # "close" => ~tmp'[v].open
  BY <1>1, <1>2, ClosedKept, DownloadStep DEF DownloadCases, TemporariesClosed, Downloaded
<1>4. pc'[v] \notin {"gzfill", "gzcopy"} => ~zip'[v].open
  BY <1>1, <1>2, ClosedKept, CopyStep DEF CopyCases, TemporariesClosed, Zipping, Compressing
<1>5. ~FaultyDisk => tmp'[v].whole
  BY <1>1, <1>2, BegunKept, ClosedKept, DownloadStep DEF DownloadCases, TemporariesClosed
<1>6. ASSUME ~FaultyDisk, ~Cleaner PROVE zip'[v].whole
  <2>1. CASE zip'[v] \in {zip[v], NoFile} \cup Closed(zip[v])
    BY <1>1, <1>2, <1>6, <2>1, ClosedKept DEF TemporariesClosed
  <2>2. CASE pc[v] = "gzrefresh" /\ zip'[v] \in Begun(Compressed(tmp[v]))
    <3>1. Exists(tmp[v]) /\ tmp[v].whole
      BY <1>1, <1>6, <2>2, LastingExists DEF TemporariesThere, TemporariesClosed, Downloaded
    <3> QED
      BY <1>1, <1>6, <2>2, <3>1, WrittenTyped, BegunKept, CompressedKept
  <2>3. CASE GzOpen(v) /\ zip'[v] \in Begun(Compressed(file[Key(v)]))
    <3>1. obj[v] \in Held(Key(v)) /\ Key(v) \in Keys
      BY <2>3, ServedHeld, KeyTyped DEF GzOpen, At, Serving
    <3>2. Exists(file[Key(v)]) /\ file[Key(v)].whole
      BY <1>6, <3>1 DEF EntriesBackedByFiles, FilesWhole
    <3> QED
      BY <1>1, <1>6, <2>3, <3>2, WrittenTyped, BegunKept, CompressedKept
  <2> QED
    BY <2>1, <2>2, <2>3, CopyStep DEF CopyCases
<1> QED
  BY <1>3, <1>4, <1>5, <1>6

(* Only temporary files whose streams are closed are published. *)
LEMMA FilesStayWhole ==
  ASSUME TypeOK, TemporariesClosed, FilesWhole, [Next]_vars
  PROVE  FilesWhole'
<1> SUFFICES ASSUME NEW c \in Keys
             PROVE  /\ ~file'[c].open /\ ~gz'[c].open
                    /\ ~FaultyDisk => file'[c].whole /\ (gz'[c].whole \/ Cleaner)
  BY DEF FilesWhole
<1>1. NoFile.whole /\ ~NoFile.open
  BY DEF NoFile
<1>2. ~file'[c].open /\ (~FaultyDisk => file'[c].whole)
  BY <1>1, FileStep DEF FileCases, Rename, At, TemporariesClosed, FilesWhole
<1>3. ~gz'[c].open /\ (~FaultyDisk => gz'[c].whole \/ Cleaner)
  BY <1>1, GzStep DEF GzCases, GzMove, GzReplace, At, TemporariesClosed, FilesWhole
<1> QED
  BY <1>2, <1>3

-----------------------------------------------------------------------------
(* The theorems. *)

(* IInv holds initially ... *)
LEMMA InitIInv == Init => IInv
<1> SUFFICES ASSUME Init PROVE IInv
  OBVIOUS
<1>1. TypeOK
  BY InitTypeOK
<1>2. \A k \in Keys : Held(k) = {} /\ uploads[k] \subseteq {1}
  BY DEF Init, Held, Holding, NoEntry
<1>3. NoFile.whole /\ ~NoFile.open /\ ~Exists(NoFile) /\ NoResponse.status = 0 /\ NoEntry.rev = 0
  BY DEF NoFile, Exists, NoResponse, NoEntry
<1>4. WorkerLocals /\ KnownRevisions
  BY <1>1, <1>2, <1>3, KeyTyped DEF Init, WorkerLocals, KnownRevisions, Serving, Compressing, Refreshing
<1>5. RacesRecorded /\ TemporariesThere /\ FilesThere /\ TemporariesNamed
  BY DEF Init, RacesRecorded, TemporariesThere, FilesThere, TemporariesNamed, Refreshing,
         Downloaded, Zipping, Compressing
<1>6. DownloadsNewest /\ FilesBeforeMetadata /\ CompressionsCurrent
  BY DEF Init, DownloadsNewest, FilesBeforeMetadata, CompressionsCurrent, Refreshing,
         Compressing
<1>7. EntriesBackedByFiles /\ FilesNotBehindMetadata /\ BodyNotOlderThanETag
  BY <1>2, <1>3 DEF Init, EntriesBackedByFiles, FilesNotBehindMetadata, BodyNotOlderThanETag
<1>8. TemporariesClosed /\ FilesWhole
  BY <1>3 DEF Init, TemporariesClosed, FilesWhole
<1> QED
  BY <1>1, <1>4, <1>5, <1>6, <1>7, <1>8 DEF IInv

(* ... and every step keeps it. *)
LEMMA NextIInv == IInv /\ [Next]_vars => IInv'
<1> SUFFICES ASSUME IInv, [Next]_vars PROVE IInv'
  OBVIOUS
<1> USE DEF IInv
<1>1. TypeOK'
  BY NextTypeOK
<1>2. WorkerLocals' /\ KnownRevisions' /\ RacesRecorded'
  BY WorkerLocalsKept, KnownRevisionsKept, RacesStayRecorded
<1>3. TemporariesThere' /\ FilesThere' /\ TemporariesNamed'
  BY TemporariesStayThere, FilesStayThere, TemporariesStayNamed
<1>4. EntriesBackedByFiles'
  <2>1. ASSUME ~Cleaner, NEW k \in Keys, NEW r \in Held(k)' PROVE Exists(file'[k])
    BY <2>1, HeldFilesThere
  <2>2. ASSUME ~Cleaner, NEW w \in Workers PROVE HonestFailure(w)'
    BY <2>2, FailuresStayHonest
  <2> QED
    BY <2>1, <2>2 DEF EntriesBackedByFiles, HonestFailure, Exists, NoFile
<1>5. DownloadsNewest' /\ FilesBeforeMetadata' /\ CompressionsCurrent'
  BY DownloadsStayNewest, FilesStayBeforeMetadata, CompressionsStayCurrent
<1>6. FilesNotBehindMetadata'
  BY FilesStayNotBehind
<1>7. BodyNotOlderThanETag'
  <2>1. ASSUME Healthy, NEW w \in Workers PROVE BodyInOrder(w)'
    BY <2>1, BodiesStayInOrder
  <2> QED
    BY <2>1 DEF BodyNotOlderThanETag, BodyInOrder, Healthy
<1>8. TemporariesClosed' /\ FilesWhole'
  BY TemporariesStayClosed, FilesStayWhole
<1> QED
  BY <1>1, <1>2, <1>3, <1>4, <1>5, <1>6, <1>7, <1>8

(* The inductive invariant holds in every reachable state. *)
THEOREM Inductive == Spec => []IInv
BY InitIInv, NextIInv, PTL DEF Spec

(* The order of the rename at s3util.cpp:118 and the put at 134 keeps files from
   falling behind metadata, whatever the workers, faults, cleaners and restarts. *)
THEOREM FilesFirst == Spec => []FilesNotBehindMetadata
<1>1. IInv => FilesNotBehindMetadata
  BY DEF IInv
<1> QED BY <1>1, Inductive, PTL

(* No client gets a body older than the ETag it comes with, unless a race between
   updates of the object's files is on record. *)
THEOREM BodiesCurrent == Spec => []BodyNotOlderThanETag
<1>1. IInv => BodyNotOlderThanETag
  BY DEF IInv
<1> QED BY <1>1, Inductive, PTL

(* Without a cleaner metadata is always backed by a file, and no reader that holds
   an entry is answered 404, or 500 without a disk fault. *)
THEOREM EntriesBacked == Spec => []EntriesBackedByFiles
<1>1. IInv => EntriesBackedByFiles
  BY DEF IInv
<1> QED BY <1>1, Inductive, PTL

(* Whatever fails, is deleted, is killed or overlaps, no reader can open a file, or a
   gzip copy, whose stream is still open; without write faults no file is short,
   and no gzip copy unless its file was deleted before it was read. *)
THEOREM NothingTorn == Spec => []FilesWhole
<1>1. IInv => FilesWhole
  BY DEF IInv
<1> QED BY <1>1, Inductive, PTL

(* A download that nobody interfered with leaves metadata, file and gzip copy with
   one and the same revision. *)
THEOREM Repaired == Spec => CleanDownloadRepairs
<1> DEFINE Repair == Healthy =>
       \A w \in Workers : pc[w] = "put" /\ solo[w] /\ pc'[w] = "encode" =>
         /\ file'[Key(w)].rev = meta'[Key(w)].rev
         /\ Exists(gz'[Key(w)]) => gz'[Key(w)].rev = meta'[Key(w)].rev
<1>1. IInv /\ [Next]_vars => Repair
  <2> SUFFICES ASSUME IInv, [Next]_vars, Healthy, NEW w \in Workers,
                      pc[w] = "put", solo[w], pc'[w] = "encode"
               PROVE  /\ file'[Key(w)].rev = meta'[Key(w)].rev
                      /\ Exists(gz'[Key(w)]) => gz'[Key(w)].rev = meta'[Key(w)].rev
    OBVIOUS
  <2> USE DEF IInv
  <2>1. Put(w)
    BY OnlyPutPublishes
  <2>2. file' = file /\ gz' = gz /\ meta'[Key(w)].rev = got[w]
    BY <2>1, KeyTyped DEF Put, Entry, TypeOK, disk
  <2>3. Exists(file[Key(w)])
    BY DEF FilesThere, Healthy
  <2> QED
    BY <2>2, <2>3 DEF FilesBeforeMetadata
<1>2. [][Repair]_vars => CleanDownloadRepairs
  BY DEF CleanDownloadRepairs
<1> HIDE DEF Repair
<1> QED BY <1>1, <1>2, Inductive, PTL DEF Spec

-----------------------------------------------------------------------------
(* Only objects are served. *)

(* One worker's part of OnlyObjectsServed. *)
ObjectServed(v) ==
  resp[v].status = 200 \/ resp[v].etag # 0 => Found(Key(v), resp[v].etag)

(* The responses that are not objects. *)
LEMMA NotObjects ==
  /\ NoResponse.status = 0 /\ NoResponse.etag = 0
  /\ \A code : Failure(code).status = code /\ Failure(code).etag = 0
  /\ \A w \in Workers : \A code, c : Reply(w, code, c).etag = obj[w]
  /\ \A t \in Tokens : ClearStatus(t) # 200
BY ClearStatusTyped DEF NoResponse, Failure, Reply

(* What is sent is what the handler holds, which is an object. *)
LEMMA OnlyObjectsStayServed ==
  ASSUME TypeOK, WorkerLocals, OnlyObjectsServed, NEW v \in Workers, [Next]_vars
  PROVE  ObjectServed(v)'
<1>1. ASSUME NEW w \in Workers, Receive(w) PROVE ObjectServed(v)'
  BY <1>1, NotObjects
  DEF Receive, Goto, Answer, At, ObjectServed, OnlyObjectsServed, WorkerLocals, Serving, Compressing, Found, Key, TypeOK, bucket, disk, history, vars
<1>2. ASSUME NEW w \in Workers, ClearRequest(w) PROVE ObjectServed(v)'
  BY <1>2, NotObjects
  DEF ClearRequest, Goto, Answer, Cleared, At, ObjectServed, OnlyObjectsServed, WorkerLocals, Serving, Compressing, Found, Key, TypeOK, bucket, disk, history, vars
<1>3. ASSUME NEW w \in Workers, Find(w) PROVE ObjectServed(v)'
  BY <1>3, NotObjects
  DEF Find, Goto, At, ObjectServed, OnlyObjectsServed, WorkerLocals, Serving, Compressing, Found, Key, TypeOK, bucket, disk, history, vars
<1>4. ASSUME NEW w \in Workers, Check(w) PROVE ObjectServed(v)'
  BY <1>4, NotObjects
  DEF Check, Goto, Dereferenced, At, ObjectServed, OnlyObjectsServed, WorkerLocals, Serving, Compressing, Found, Key, TypeOK, bucket, disk, history, vars
<1>5. ASSUME NEW w \in Workers, Hit(w) PROVE ObjectServed(v)'
  BY <1>5, NotObjects
  DEF Hit, Goto, Answer, Dereferenced, At, ObjectServed, OnlyObjectsServed, WorkerLocals, Serving, Compressing, Found, Key, TypeOK, bucket, disk, history, vars
<1>6. ASSUME NEW w \in Workers, Fetch(w) PROVE ObjectServed(v)'
  BY <1>6, NotObjects
  DEF Fetch, Goto, Answer, Overlap, At, ObjectServed, OnlyObjectsServed, WorkerLocals, Serving, Compressing, Found, Key, TypeOK, bucket, disk, history, vars
<1>7. ASSUME NEW w \in Workers, PutAbsent(w) PROVE ObjectServed(v)'
  BY <1>7, NotObjects
  DEF PutAbsent, Goto, Answer, Entry, At, ObjectServed, OnlyObjectsServed, WorkerLocals, Serving, Compressing, Found, Key, TypeOK, bucket, disk, history, vars
<1>8. ASSUME NEW w \in Workers, Write(w) PROVE ObjectServed(v)'
  BY <1>8, NotObjects
  DEF Write, Goto, At, ObjectServed, OnlyObjectsServed, WorkerLocals, Serving, Compressing, Found, Key, TypeOK, bucket, disk, history, vars
<1>9. ASSUME NEW w \in Workers, Close(w) PROVE ObjectServed(v)'
  BY <1>9, NotObjects
  DEF Close, Goto, At, ObjectServed, OnlyObjectsServed, WorkerLocals, Serving, Compressing, Found, Key, TypeOK, bucket, disk, history, vars
<1>10. ASSUME NEW w \in Workers, GzProbe(w) PROVE ObjectServed(v)'
  BY <1>10, NotObjects
  DEF GzProbe, Goto, At, ObjectServed, OnlyObjectsServed, WorkerLocals, Serving, Compressing, Found, Key, TypeOK, bucket, disk, history, vars
<1>11. ASSUME NEW w \in Workers, GzRefresh(w) PROVE ObjectServed(v)'
  BY <1>11, NotObjects
  DEF GzRefresh, Goto, At, ObjectServed, OnlyObjectsServed, WorkerLocals, Serving, Compressing, Found, Key, TypeOK, bucket, disk, history, vars
<1>12. ASSUME NEW w \in Workers, GzFill(w) PROVE ObjectServed(v)'
  BY <1>12, NotObjects
  DEF GzFill, Goto, At, ObjectServed, OnlyObjectsServed, WorkerLocals, Serving, Compressing, Found, Key, TypeOK, bucket, disk, history, vars
<1>13. ASSUME NEW w \in Workers, GzReplace(w) PROVE ObjectServed(v)'
  BY <1>13, NotObjects
  DEF GzReplace, Goto, Answer, Leave, At, ObjectServed, OnlyObjectsServed, WorkerLocals, Serving, Compressing, Found, Key, TypeOK, bucket, disk, history, vars
<1>14. ASSUME NEW w \in Workers, Rename(w) PROVE ObjectServed(v)'
  BY <1>14, NotObjects
  DEF Rename, Goto, Answer, Leave, Renamed, At, ObjectServed, OnlyObjectsServed, WorkerLocals, Serving, Compressing, Found, Key, TypeOK, bucket, disk, history, vars
<1>15. ASSUME NEW w \in Workers, Put(w) PROVE ObjectServed(v)'
  BY <1>15, NotObjects
  DEF Put, Goto, Leave, Entry, At, ObjectServed, OnlyObjectsServed, WorkerLocals, Serving, Compressing, Found, Key, TypeOK, bucket, disk, history, vars
<1>16. ASSUME NEW w \in Workers, Encode(w) PROVE ObjectServed(v)'
  BY <1>16, NotObjects
  DEF Encode, Goto, At, ObjectServed, OnlyObjectsServed, WorkerLocals, Serving, Compressing, Found, Key, TypeOK, bucket, disk, history, vars
<1>17. ASSUME NEW w \in Workers, GzOpen(w) PROVE ObjectServed(v)'
  BY <1>17, NotObjects
  DEF GzOpen, Goto, Overlap, At, ObjectServed, OnlyObjectsServed, WorkerLocals, Serving, Compressing, Found, Key, TypeOK, bucket, disk, history, vars
<1>18. ASSUME NEW w \in Workers, GzCopy(w) PROVE ObjectServed(v)'
  BY <1>18, NotObjects
  DEF GzCopy, Goto, At, ObjectServed, OnlyObjectsServed, WorkerLocals, Serving, Compressing, Found, Key, TypeOK, bucket, disk, history, vars
<1>19. ASSUME NEW w \in Workers, GzMove(w) PROVE ObjectServed(v)'
  BY <1>19, NotObjects
  DEF GzMove, Goto, Answer, Leave, At, ObjectServed, OnlyObjectsServed, WorkerLocals, Serving, Compressing, Found, Key, TypeOK, bucket, disk, history, vars
<1>20. ASSUME NEW w \in Workers, Measure(w) PROVE ObjectServed(v)'
  BY <1>20, NotObjects
  DEF Measure, Goto, Answer, At, ObjectServed, OnlyObjectsServed, WorkerLocals, Serving, Compressing, Found, Key, TypeOK, bucket, disk, history, vars
<1>21. ASSUME NEW w \in Workers, Conditions(w) PROVE ObjectServed(v)'
  BY <1>21, NotObjects
  DEF Conditions, Goto, Answer, At, ObjectServed, OnlyObjectsServed, WorkerLocals, Serving, Compressing, Found, Key, TypeOK, bucket, disk, history, vars
<1>22. ASSUME NEW w \in Workers, Open(w) PROVE ObjectServed(v)'
  BY <1>22, NotObjects
  DEF Open, Goto, Answer, At, ObjectServed, OnlyObjectsServed, WorkerLocals, Serving, Compressing, Found, Key, TypeOK, bucket, disk, history, vars
<1>23. ASSUME NEW w \in Workers, Send(w) PROVE ObjectServed(v)'
  BY <1>23, NotObjects
  DEF Send, Goto, At, ObjectServed, OnlyObjectsServed, WorkerLocals, Serving, Compressing, Found, Key, TypeOK, bucket, disk, history, vars
<1>24. ASSUME NEW j \in Keys, Upload(j) PROVE ObjectServed(v)'
  BY <1>24, NotObjects
  DEF Upload, ObjectServed, OnlyObjectsServed, WorkerLocals, Serving, Compressing, Found, Key, TypeOK, bucket, disk, history, vars
<1>25. ASSUME NEW j \in Keys, Delete(j) PROVE ObjectServed(v)'
  BY <1>25, NotObjects
  DEF Delete, ObjectServed, OnlyObjectsServed, WorkerLocals, Serving, Compressing, Found, Key, TypeOK, bucket, disk, history, vars
<1>26. ASSUME NEW j \in Keys, Clean(j) PROVE ObjectServed(v)'
  BY <1>26, NotObjects
  DEF Clean, ObjectServed, OnlyObjectsServed, WorkerLocals, Serving, Compressing, Found, Key, TypeOK, bucket, disk, history, vars
<1>27. CASE Sweep
  BY <1>27, NotObjects
  DEF Sweep, Cleared, ObjectServed, OnlyObjectsServed, WorkerLocals, Serving, Compressing, Found, Key, TypeOK, bucket, disk, history, vars
<1>28. CASE Tick
  BY <1>28, NotObjects
  DEF Tick, Aged, ObjectServed, OnlyObjectsServed, WorkerLocals, Serving, Compressing, Found, Key, TypeOK, bucket, disk, history, vars
<1>29. CASE Restart
  BY <1>29, NotObjects
  DEF Restart, Cleared, ObjectServed, OnlyObjectsServed, WorkerLocals, Serving, Compressing, Found, Key, TypeOK, bucket, disk, history, vars
<1>30. CASE UNCHANGED vars
  BY <1>30, NotObjects
  DEF ObjectServed, OnlyObjectsServed, WorkerLocals, Serving, Compressing, Found, Key, TypeOK, bucket, disk, history, vars
<1> QED
  BY <1>1, <1>2, <1>3, <1>4, <1>5, <1>6, <1>7, <1>8, <1>9, <1>10, <1>11,
     <1>12, <1>13, <1>14, <1>15, <1>16, <1>17, <1>18, <1>19, <1>20, <1>21,
     <1>22, <1>23, <1>24, <1>25, <1>26, <1>27, <1>28, <1>29, <1>30
  DEF Next, Handler, Environment

(* An answer of 200, or one with an ETag, is about a revision that was an object,
   although entries change and go while a handler reads them through its iterator
   (s3util.cpp:55-68). *)
THEOREM OnlyObjects == Spec => []OnlyObjectsServed
<1>1. Init => OnlyObjectsServed
  BY DEF Init, OnlyObjectsServed, NoResponse
<1>2. IInv /\ OnlyObjectsServed /\ [Next]_vars => OnlyObjectsServed'
  BY OnlyObjectsStayServed DEF IInv, OnlyObjectsServed, ObjectServed
<1> QED BY <1>1, <1>2, Inductive, PTL DEF Spec
=============================================================================
