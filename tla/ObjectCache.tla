---------------------------- MODULE ObjectCache ----------------------------
(* The object cache of s3-proxy: the request handler (server/s3resource.cpp),
   the download path (server/s3util.cpp), the metadata cache
   (util/ExpirationCache.hpp, util/cache.hpp), the gzip helper
   (util/compress.cpp) and the cache directory they share.

   A bucket object is the list of its revisions; the ETag and Last-Modified of
   a revision are its number.  Worker threads of the HTTP/2 framework run the
   handler concurrently; every step below is one access to state that another
   thread, or another process, can see: the metadata map (under its lock), a
   file of the cache directory, or the bucket.                              *)
EXTENDS Integers, FiniteSets

CONSTANTS Workers,            \* worker threads (2 * --threads)
          Keys,               \* object names
          Requests,           \* the GET and HEAD requests clients send
          TTL,                \* --ttl, in ticks
          MaxRev,             \* bound: revisions an object goes through
          RejectQueryStrings, \* --reject-query-strings
          Cleaner,            \* an external job deletes cached files
          FaultyDisk          \* writes may fail: full disk, missing directory

Forms == {"plain", "query", "illegal"}

RequestType ==
  [key: Keys, head: BOOLEAN, gzip: BOOLEAN, validator: 0..MaxRev, form: Forms]

ASSUME KeysAssumption == Keys # {}
ASSUME RequestsAssumption == Requests # {} /\ Requests \subseteq RequestType
ASSUME BoundsAssumption == TTL \in Nat \ {0} /\ MaxRev \in Nat \ {0}
ASSUME FlagsAssumption == {RejectQueryStrings, Cleaner, FaultyDisk} \subseteq BOOLEAN

VARIABLES
  latest,   \* number of the newest revision of each object
  uploads,  \* the revisions that hold an object; the others are deletions
  meta,     \* the metadata cache
  file, gz, \* the cached file of each object and its gzip copy
  pc, req,  \* where each worker is, and the request it handles
  iter,     \* the entry its find() iterator points to
  got,      \* the revision its GetObject returned
  tmp, zip, \* the contents of its temporary files: a download, compress()'s output
  obj,      \* the revision of the S3Object its handler holds
  size,     \* what file_size() measured
  resp,     \* the response it sends
  raced,    \* history: updates of the object's files overlapped since the last clean one
  solo      \* history: nobody else has updated them since this worker's download

bucket == <<latest, uploads>>
disk == <<file, gz>>
history == <<raced, solo>>
vars == <<bucket, meta, disk, pc, req, iter, got, tmp, zip, obj, size, resp, history>>

-----------------------------------------------------------------------------
(* Data. *)

(* A file's content: the revision it is made from, whether nothing of it was lost
   on the way, and whether its stream is still open, so that some is missing yet. *)
Revs == 0..MaxRev
Copies == [rev: Revs, whole: BOOLEAN, open: BOOLEAN]
NoFile == [rev |-> 0, whole |-> TRUE, open |-> FALSE]
Copy(r) == [rev |-> r, whole |-> TRUE, open |-> FALSE]
Hollow == [rev |-> 0, whole |-> FALSE, open |-> FALSE]   \* what compressing no input gives
Exists(c) == c # NoFile

(* A metadata entry: a revision and the ticks left before it expires.  An entry
   whose revision is a deletion is a cached not-found (no fileName).        *)
Entries == [rev: Revs, left: 0..TTL]
NoEntry == [rev |-> 0, left |-> 0]
Entry(r) == [rev |-> r, left |-> TTL]
Fresh(e) == e.left > 0
Found(k, r) == r \in uploads[k]

(* What there is of content c once a stream is opened to write it, ... *)
Begun(c) ==
  {[c EXCEPT !.open = TRUE]} \cup IF FaultyDisk THEN {NoFile} ELSE {}

(* ... and once the stream is closed.  No stream is checked after a write, so a
   short one goes unnoticed.                                                *)
Closed(c) ==
  IF c.open
    THEN {[c EXCEPT !.open = FALSE]} \cup
         IF FaultyDisk THEN {[c EXCEPT !.open = FALSE, !.whole = FALSE]} ELSE {}
    ELSE {c}

(* What compress() makes of its source: an unreadable one is an empty one. *)
Compressed(c) == IF Exists(c) THEN c ELSE Hollow

NoResponse == [status |-> 0, etag |-> 0, body |-> NoFile, torn |-> FALSE,
               clean |-> TRUE]
Responses == [status: {0, 200, 304, 400, 403, 404, 500}, etag: Revs, body: Copies,
              torn: BOOLEAN, clean: BOOLEAN]
Failure(code) == [NoResponse EXCEPT !.status = code]

AnyRequest == CHOOSE r \in Requests : TRUE
Key(w) == req[w].key

(* The path the handler checks: any query string has been cut off by then. *)
Target(form) == IF form = "query" THEN "plain" ELSE form
Rejected(r) == \/ Target(r.form) = "illegal"
               \/ RejectQueryStrings /\ Target(r.form) = "query"

(* The sections of the handler in which a worker updates an object's files. *)
Refreshing == {"write", "close", "gzprobe", "gzrefresh", "gzfill", "gzreplace",
               "rename", "put"}
Refreshers(k) == {w \in Workers : pc[w] \in Refreshing /\ Key(w) = k}
Compressing == {"gzcopy", "gzmove"}
Compressors(k) == {w \in Workers : pc[w] \in Compressing /\ Key(w) = k}
Serving == {"encode", "gzopen", "size", "exists", "open"} \cup Compressing

Locations == {"idle", "find", "check", "hit", "fetch", "absent", "done"}
               \cup Refreshing \cup Serving

-----------------------------------------------------------------------------
Init ==
  /\ latest = [k \in Keys |-> 1]
  /\ uploads \in [Keys -> {{}, {1}}]
  /\ meta = [k \in Keys |-> NoEntry]
  /\ file = [k \in Keys |-> NoFile]
  /\ gz = [k \in Keys |-> NoFile]
  /\ pc = [w \in Workers |-> "idle"]
  /\ req = [w \in Workers |-> AnyRequest]
  /\ iter = [w \in Workers |-> NoEntry]
  /\ got = [w \in Workers |-> 0]
  /\ tmp = [w \in Workers |-> NoFile]
  /\ zip = [w \in Workers |-> NoFile]
  /\ obj = [w \in Workers |-> 0]
  /\ size = [w \in Workers |-> NoFile]
  /\ resp = [w \in Workers |-> NoResponse]
  /\ raced = [k \in Keys |-> FALSE]
  /\ solo = [w \in Workers |-> FALSE]

At(w, here) == pc[w] = here
Goto(w, there) == pc' = [pc EXCEPT ![w] = there]
Answer(w, r) == Goto(w, "done") /\ resp' = [resp EXCEPT ![w] = r]

-----------------------------------------------------------------------------
(* server/s3resource.cpp, get(), up to the call of S3Util::get. *)
Receive(w) ==
  /\ At(w, "idle")
  /\ \E r \in Requests :
       /\ req' = [req EXCEPT ![w] = r]
       /\ IF Rejected(r) THEN Answer(w, Failure(400))
                         ELSE Goto(w, "find") /\ UNCHANGED resp
  /\ UNCHANGED <<bucket, meta, disk, iter, got, tmp, zip, obj, size, history>>

(* s3util.cpp:53, cache.find() under the shared lock. *)
Find(w) ==
  /\ At(w, "find")
  /\ iter' = [iter EXCEPT ![w] = meta[Key(w)]]
  /\ Goto(w, IF meta[Key(w)] = NoEntry THEN "fetch" ELSE "check")
  /\ UNCHANGED <<bucket, meta, disk, req, got, tmp, zip, obj, size, resp, history>>

(* The iterator is dereferenced after the lock is released.  Reading the entry
   while put() assigns it, or after clear() freed it, is undefined: the read
   gives the old entry or the new one (or the process dies, see Restart).   *)
Dereferenced(w) == {iter[w], meta[Key(w)]} \ {NoEntry}

(* Mutant of Check: an expired entry is looked up again until it is gone. *)
CheckAgain(w) ==
  /\ At(w, "check")
  /\ \E e \in Dereferenced(w) :
       /\ iter' = [iter EXCEPT ![w] = e]
       /\ Goto(w, IF Fresh(e) THEN "hit" ELSE "find")
  /\ UNCHANGED <<bucket, meta, disk, req, got, tmp, zip, obj, size, resp, history>>

(* s3util.cpp:56-57, has the entry expired? *)
Check(w) ==
  /\ At(w, "check")
  /\ \E e \in Dereferenced(w) :
       /\ iter' = [iter EXCEPT ![w] = e]
       /\ Goto(w, IF Fresh(e) THEN "hit" ELSE "fetch")
  /\ UNCHANGED <<bucket, meta, disk, req, got, tmp, zip, obj, size, resp, history>>

(* Mutant of Hit: a cached not-found is taken for an object. *)
HitAnyEntry(w) ==
  /\ At(w, "hit")
  /\ \E e \in Dereferenced(w) :
       IF Exists(file[Key(w)])
         THEN Goto(w, "encode") /\ obj' = [obj EXCEPT ![w] = e.rev]
         ELSE Goto(w, "fetch") /\ UNCHANGED obj
  /\ iter' = [iter EXCEPT ![w] = NoEntry]
  /\ UNCHANGED <<bucket, meta, disk, req, got, tmp, zip, size, resp, history>>

(* s3util.cpp:60-65: a cached not-found is returned as it is, a cached object
   when its file is still there. *)
Hit(w) ==
  /\ At(w, "hit")
  /\ \E e \in Dereferenced(w) :
       /\ IF ~Found(Key(w), e.rev)
            THEN Answer(w, Failure(404)) /\ UNCHANGED obj
          ELSE IF Exists(file[Key(w)])
            THEN Goto(w, "encode") /\ obj' = [obj EXCEPT ![w] = e.rev] /\ UNCHANGED resp
          ELSE Goto(w, "fetch") /\ UNCHANGED <<obj, resp>>
  /\ iter' = [iter EXCEPT ![w] = NoEntry]
  /\ UNCHANGED <<bucket, meta, disk, req, got, tmp, zip, size, history>>

(* History: worker w starts to update object k while the workers in others are
   doing so. *)
Overlap(w, k, others) ==
  /\ raced' = [raced EXCEPT ![k] = @ \/ others # {}]
  /\ solo' = [v \in Workers |->
                IF v = w THEN others = {} ELSE solo[v] /\ v \notin others]

(* s3util.cpp:73-93, GetObject: the object, a not-found, or any other error,
   which the handler answers as a not-found without caching it. *)
Fetch(w) ==
  /\ At(w, "fetch")
  /\ \/ /\ Found(Key(w), latest[Key(w)])
        /\ got' = [got EXCEPT ![w] = latest[Key(w)]]
        /\ Overlap(w, Key(w), Refreshers(Key(w)) \cup Compressors(Key(w)))
        /\ Goto(w, "write")
        /\ UNCHANGED resp
     \/ /\ ~Found(Key(w), latest[Key(w)])
        /\ got' = [got EXCEPT ![w] = latest[Key(w)]]
        /\ Goto(w, "absent")
        /\ UNCHANGED <<resp, history>>
     \/ /\ Answer(w, Failure(404))
        /\ UNCHANGED <<got, history>>
  /\ iter' = [iter EXCEPT ![w] = NoEntry]
  /\ UNCHANGED <<bucket, meta, disk, req, tmp, zip, obj, size>>

(* s3util.cpp:86-90 and s3resource.cpp:178-186: cache the not-found. *)
PutAbsent(w) ==
  /\ At(w, "absent")
  /\ meta' = [meta EXCEPT ![Key(w)] = Entry(got[w])]
  /\ Answer(w, Failure(404))
  /\ UNCHANGED <<bucket, disk, req, iter, got, tmp, zip, obj, size, history>>

(* Mutant of Write: the stream is left open until the function returns. *)
WriteUnclosed(w) ==
  /\ At(w, "write")
  /\ \E c \in Begun(Copy(got[w])) : tmp' = [tmp EXCEPT ![w] = c]
  /\ Goto(w, "gzprobe")
  /\ UNCHANGED <<bucket, meta, disk, req, iter, got, zip, obj, size, resp, history>>

(* s3util.cpp:95-109: open a private temporary file, and write the body to it ... *)
Write(w) ==
  /\ At(w, "write")
  /\ \E c \in Begun(Copy(got[w])) : tmp' = [tmp EXCEPT ![w] = c]
  /\ Goto(w, "close")
  /\ UNCHANGED <<bucket, meta, disk, req, iter, got, zip, obj, size, resp, history>>

(* ... and s3util.cpp:110: its stream is flushed and closed. *)
Close(w) ==
  /\ At(w, "close")
  /\ \E c \in Closed(tmp[w]) : tmp' = [tmp EXCEPT ![w] = c]
  /\ Goto(w, "gzprobe")
  /\ UNCHANGED <<bucket, meta, disk, req, iter, got, zip, obj, size, resp, history>>

(* Mutant of GzProbe: a gzip copy is left as it is. *)
GzForgotten(w) ==
  /\ At(w, "gzprobe")
  /\ Goto(w, "rename")
  /\ UNCHANGED <<bucket, meta, disk, req, iter, got, tmp, zip, obj, size, resp, history>>

(* s3util.cpp:112-113: is there a gzip copy to refresh? *)
GzProbe(w) ==
  /\ At(w, "gzprobe")
  /\ Goto(w, IF Exists(gz[Key(w)]) THEN "gzrefresh" ELSE "rename")
  /\ UNCHANGED <<bucket, meta, disk, req, iter, got, tmp, zip, obj, size, resp, history>>

(* History: worker w no longer updates any file. *)
Leave(w) == solo' = [solo EXCEPT ![w] = FALSE]

(* s3util.cpp:115, compress( target, tgz ), and in it compress.cpp:36-37: the
   download is read, and a private temporary file is opened for the copy, ... *)
GzRefresh(w) ==
  /\ At(w, "gzrefresh")
  /\ \E c \in Begun(Compressed(tmp[w])) : zip' = [zip EXCEPT ![w] = c]
  /\ Goto(w, "gzfill")
  /\ UNCHANGED <<bucket, meta, disk, req, iter, got, tmp, obj, size, resp, history>>

(* ... compress.cpp:38-41: boost's copy() writes it, and flushes its stream, ... *)
GzFill(w) ==
  /\ At(w, "gzfill")
  /\ \E c \in Closed(zip[w]) : zip' = [zip EXCEPT ![w] = c]
  /\ Goto(w, "gzreplace")
  /\ UNCHANGED <<bucket, meta, disk, req, iter, got, tmp, obj, size, resp, history>>

(* ... and compress.cpp:43 publishes it.  Without a file the rename throws, and
   the catch at s3util.cpp:137 makes the handler answer a not-found.        *)
GzReplace(w) ==
  /\ At(w, "gzreplace")
  /\ IF Exists(zip[w])
       THEN /\ gz' = [gz EXCEPT ![Key(w)] = zip[w]]
            /\ Goto(w, "rename")
            /\ UNCHANGED <<got, tmp, resp, solo>>
       ELSE /\ Answer(w, Failure(404))
            /\ got' = [got EXCEPT ![w] = 0]
            /\ tmp' = [tmp EXCEPT ![w] = NoFile]
            /\ Leave(w)
            /\ UNCHANGED gz
  /\ zip' = [zip EXCEPT ![w] = NoFile]
  /\ UNCHANGED <<bucket, meta, file, req, iter, obj, size, raced>>

(* Mutant of Renamed: a rename that does not replace an existing file. *)
RenamedOnce(old, c) == IF Exists(old) THEN old ELSE c

(* The cached file once a temporary one with content c is renamed over it. *)
Renamed(old, c) == c

(* s3util.cpp:118: publish the downloaded file. *)
Rename(w) ==
  /\ At(w, "rename")
  /\ IF Exists(tmp[w])
       THEN /\ file' = [file EXCEPT ![Key(w)] = Renamed(@, tmp[w])]
            /\ Goto(w, "put")
            /\ UNCHANGED <<got, resp, solo>>
       ELSE /\ Answer(w, Failure(404))
            /\ got' = [got EXCEPT ![w] = 0]
            /\ Leave(w)
            /\ UNCHANGED file
  /\ tmp' = [tmp EXCEPT ![w] = NoFile]
  /\ UNCHANGED <<bucket, meta, gz, req, iter, zip, obj, size, raced>>

(* s3util.cpp:120-135: publish the metadata, and return it to the handler. *)
Put(w) ==
  /\ At(w, "put")
  /\ meta' = [meta EXCEPT ![Key(w)] = Entry(got[w])]
  /\ obj' = [obj EXCEPT ![w] = got[w]]
  /\ got' = [got EXCEPT ![w] = 0]
  /\ raced' = [raced EXCEPT ![Key(w)] = @ /\ ~solo[w]]
  /\ Leave(w)
  /\ Goto(w, "encode")
  /\ UNCHANGED <<bucket, disk, req, iter, tmp, zip, size, resp>>

-----------------------------------------------------------------------------
(* server/s3resource.cpp, get(), once it has the object. *)

(* s3resource.cpp:197-202: the file to serve, and whether it must be made. *)
Encode(w) ==
  /\ At(w, "encode")
  /\ Goto(w, IF req[w].gzip /\ ~Exists(gz[Key(w)]) THEN "gzopen" ELSE "size")
  /\ UNCHANGED <<bucket, meta, disk, req, iter, got, tmp, zip, obj, size, resp, history>>

(* s3resource.cpp:204 and compress.cpp:36-37: open the cached file, whose content
   is this one whatever is renamed over it, and a temporary one for the copy, ... *)
GzOpen(w) ==
  /\ At(w, "gzopen")
  /\ \E c \in Begun(Compressed(file[Key(w)])) : zip' = [zip EXCEPT ![w] = c]
  /\ Overlap(w, Key(w), Refreshers(Key(w)))
  /\ Goto(w, "gzcopy")
  /\ UNCHANGED <<bucket, meta, disk, req, iter, got, tmp, obj, size, resp>>

(* ... compress.cpp:38-41: write the copy, ... *)
GzCopy(w) ==
  /\ At(w, "gzcopy")
  /\ \E c \in Closed(zip[w]) : zip' = [zip EXCEPT ![w] = c]
  /\ Goto(w, "gzmove")
  /\ UNCHANGED <<bucket, meta, disk, req, iter, got, tmp, obj, size, resp, history>>

(* ... and compress.cpp:43: publish it.  The catch of the handler answers a failed
   rename (s3resource.cpp:290).                                             *)
GzMove(w) ==
  /\ At(w, "gzmove")
  /\ IF Exists(zip[w])
       THEN /\ gz' = [gz EXCEPT ![Key(w)] = zip[w]]
            /\ Goto(w, "size")
            /\ UNCHANGED resp
       ELSE Answer(w, Failure(500)) /\ UNCHANGED gz
  /\ zip' = [zip EXCEPT ![w] = NoFile]
  /\ Leave(w)
  /\ UNCHANGED <<bucket, meta, file, req, iter, got, tmp, obj, size, raced>>

Served(w) == IF req[w].gzip THEN gz[Key(w)] ELSE file[Key(w)]

(* s3resource.cpp:207-216, file_size(). *)
Measure(w) ==
  /\ At(w, "size")
  /\ IF Exists(Served(w))
       THEN /\ size' = [size EXCEPT ![w] = Served(w)]
            /\ Goto(w, "exists")
            /\ UNCHANGED resp
       ELSE Answer(w, Failure(500)) /\ UNCHANGED size
  /\ UNCHANGED <<bucket, meta, disk, req, iter, got, tmp, zip, obj, history>>

(* A response made from the held object; as many bytes of the body are sent as
   were measured, those of another content cut short or padded.             *)
Reply(w, code, content) ==
  [status |-> code, etag |-> obj[w], body |-> content,
   torn |-> Exists(content) /\ content # size[w], clean |-> ~raced[Key(w)]]

(* s3resource.cpp:219-269: a HEAD, or a conditional request whose validator is
   the held entry's, is answered without reading the file.                  *)
Conditions(w) ==
  /\ At(w, "exists")
  /\ IF ~Exists(Served(w)) THEN Answer(w, Failure(404))
     ELSE IF req[w].head THEN Answer(w, Reply(w, 200, NoFile))
     ELSE IF req[w].validator = obj[w] THEN Answer(w, Reply(w, 304, NoFile))
     ELSE Goto(w, "open") /\ UNCHANGED resp
  /\ UNCHANGED <<bucket, meta, disk, req, iter, got, tmp, zip, obj, size, history>>

(* s3resource.cpp:271-288: read the file into the body. *)
Open(w) ==
  /\ At(w, "open")
  /\ Answer(w, IF Exists(Served(w)) THEN Reply(w, 200, Served(w)) ELSE Failure(404))
  /\ UNCHANGED <<bucket, meta, disk, req, iter, got, tmp, zip, obj, size, history>>

(* The framework sends the response, and the worker takes the next request. *)
Send(w) ==
  /\ At(w, "done")
  /\ Goto(w, "idle")
  /\ req' = [req EXCEPT ![w] = AnyRequest]
  /\ got' = [got EXCEPT ![w] = 0]
  /\ obj' = [obj EXCEPT ![w] = 0]
  /\ size' = [size EXCEPT ![w] = NoFile]
  /\ resp' = [resp EXCEPT ![w] = NoResponse]
  /\ UNCHANGED <<bucket, meta, disk, iter, tmp, zip, history>>

-----------------------------------------------------------------------------
(* The cache directory and the metadata cache, seen from outside a request. *)

Cleared == [k \in Keys |-> NoEntry]

(* The management endpoint (s3resource.cpp:302-363, s3util.cpp:145-152), one
   step: only a right token touches shared state, once, under its lock.     *)
Tokens == {"none", "malformed", "wrong", "right"}
ClearStatus(t) == CASE t = "none" -> 403 [] t = "malformed" -> 400
                    [] t = "wrong" -> 403 [] t = "right" -> 304

ClearRequest(w) ==
  /\ At(w, "idle")
  /\ \E t \in Tokens :
       /\ Answer(w, Failure(ClearStatus(t)))
       /\ meta' = IF t = "right" THEN Cleared ELSE meta
  /\ UNCHANGED <<bucket, disk, req, iter, got, tmp, zip, obj, size, history>>

(* Mutant of Sweep: the files expire with the metadata. *)
SweepFiles ==
  /\ meta' = Cleared
  /\ file' = [k \in Keys |-> NoFile]
  /\ UNCHANGED <<bucket, gz, pc, req, iter, got, tmp, zip, obj, size, resp, history>>

(* ExpirationCache.hpp:27-42 drops all metadata every CACHE_TTL seconds
   (CMakeLists.txt:101), whatever the age of an entry.                      *)
Sweep ==
  /\ meta' = Cleared
  /\ UNCHANGED <<bucket, disk, pc, req, iter, got, tmp, zip, obj, size, resp, history>>

(* Mutants of Aged: the last tick is never taken off, or one too many is. *)
AgedForever(e) == [e EXCEPT !.left = IF @ > 1 THEN @ - 1 ELSE @]
AgedBelowZero(e) == [e EXCEPT !.left = @ - 1]

(* Time passes.  An entry's expiry is a point in time, so the ticks left to it
   also run down for a worker that has just looked it up.                   *)
Aged(e) == [e EXCEPT !.left = IF @ > 0 THEN @ - 1 ELSE 0]
Tick ==
  /\ meta' = [k \in Keys |-> Aged(meta[k])]
  /\ iter' = [w \in Workers |-> Aged(iter[w])]
  /\ <<meta, iter>>' # <<meta, iter>>
  /\ UNCHANGED <<bucket, disk, pc, req, got, tmp, zip, obj, size, resp, history>>

(* The bucket's owner uploads a new revision of an object, or deletes it. *)
Upload(k) ==
  /\ latest[k] < MaxRev
  /\ latest' = [latest EXCEPT ![k] = @ + 1]
  /\ uploads' = [uploads EXCEPT ![k] = @ \cup {latest[k] + 1}]
  /\ UNCHANGED <<meta, disk, pc, req, iter, got, tmp, zip, obj, size, resp, history>>

Delete(k) ==
  /\ latest[k] < MaxRev
  /\ Found(k, latest[k])
  /\ latest' = [latest EXCEPT ![k] = @ + 1]
  /\ UNCHANGED <<uploads, meta, disk, pc, req, iter, got, tmp, zip, obj, size, resp, history>>

(* An external job deletes a cached file, or a gzip copy. *)
Clean(k) ==
  /\ Cleaner
  /\ \/ Exists(file[k]) /\ file' = [file EXCEPT ![k] = NoFile] /\ UNCHANGED gz
     \/ Exists(gz[k]) /\ gz' = [gz EXCEPT ![k] = NoFile] /\ UNCHANGED file
  /\ UNCHANGED <<bucket, meta, pc, req, iter, got, tmp, zip, obj, size, resp, history>>

(* The process dies or is stopped, and the entrypoint's loop starts it again:
   the files stay, everything else starts afresh.                           *)
Restart ==
  /\ meta' = Cleared
  /\ pc' = [w \in Workers |-> "idle"]
  /\ req' = [w \in Workers |-> AnyRequest]
  /\ iter' = [w \in Workers |-> NoEntry]
  /\ got' = [w \in Workers |-> 0]
  /\ tmp' = [w \in Workers |-> NoFile]
  /\ zip' = [w \in Workers |-> NoFile]
  /\ obj' = [w \in Workers |-> 0]
  /\ size' = [w \in Workers |-> NoFile]
  /\ resp' = [w \in Workers |-> NoResponse]
  /\ raced' = [k \in Keys |-> FALSE]
  /\ solo' = [w \in Workers |-> FALSE]
  /\ UNCHANGED <<bucket, disk>>

-----------------------------------------------------------------------------
Handler(w) == \/ Find(w) \/ Check(w) \/ Hit(w) \/ Fetch(w) \/ PutAbsent(w)
              \/ Write(w) \/ Close(w) \/ GzProbe(w) \/ GzRefresh(w) \/ GzFill(w)
              \/ GzReplace(w) \/ Rename(w) \/ Put(w)
              \/ Encode(w) \/ GzOpen(w) \/ GzCopy(w) \/ GzMove(w)
              \/ Measure(w) \/ Conditions(w) \/ Open(w) \/ Send(w)

Environment(k) == Upload(k) \/ Delete(k) \/ Clean(k)

Next == \/ \E w \in Workers : Receive(w) \/ ClearRequest(w) \/ Handler(w)
        \/ \E k \in Keys : Environment(k)
        \/ Sweep \/ Tick \/ Restart

Spec == Init /\ [][Next]_vars

(* Time passes, and a worker thread that has a request to handle is scheduled:
   none of the steps waits for another thread for ever, the locks are released
   on every path, and the blocking calls (GetObject, file I/O) return.      *)
FairSpec == /\ Spec
            /\ WF_vars(Tick)
            /\ \A w \in Workers : WF_vars(Handler(w))

-----------------------------------------------------------------------------
(* Properties. *)

(* Every variable keeps the type the code gives it. *)
TypeOK ==
  /\ latest \in [Keys -> 1..MaxRev] /\ uploads \in [Keys -> SUBSET (1..MaxRev)]
  /\ meta \in [Keys -> Entries]
  /\ file \in [Keys -> Copies] /\ gz \in [Keys -> Copies]
  /\ pc \in [Workers -> Locations]
  /\ req \in [Workers -> Requests]
  /\ iter \in [Workers -> Entries]
  /\ got \in [Workers -> Revs]
  /\ tmp \in [Workers -> Copies] /\ zip \in [Workers -> Copies]
  /\ obj \in [Workers -> Revs]
  /\ size \in [Workers -> Copies]
  /\ resp \in [Workers -> Responses]
  /\ raced \in [Keys -> BOOLEAN] /\ solo \in [Workers -> BOOLEAN]

Healthy == ~Cleaner /\ ~FaultyDisk

(* The revisions of object k that somebody may yet serve under their ETag: the
   cached entry's, and those of the entries and objects workers hold.       *)
Holding(w) == {iter[w].rev, obj[w]}
Held(k) == {r \in uploads[k] :
              r = meta[k].rev \/ \E w \in Workers : Key(w) = k /\ r \in Holding(w)}

(* The files are never behind the metadata: the rename at s3util.cpp:118 and
   the refresh of the gzip copy at 115 come before the put at 134.  So unless
   two updates of the object's files overlapped, whoever holds an entry finds
   its revision or a newer one in the file, even when writes fail and files
   are deleted, and (when they do not and are not) in the gzip copy.        *)
FilesNotBehindMetadata ==
  \A k \in Keys : ~raced[k] =>
    \A r \in Held(k) : /\ Exists(file[k]) => file[k].rev >= r
                       /\ Healthy /\ Exists(gz[k]) => gz[k].rev >= r

(* A 200 never carries a body older than its ETag, unless updates of the
   object's files overlapped since the last clean download.  A client that
   kept such a body would be told 304 until the object changes again.       *)
BodyNotOlderThanETag ==
  Healthy =>
    \A w \in Workers :
      LET r == resp[w] IN
      r.status = 200 /\ Exists(r.body) /\ r.clean => r.body.rev >= r.etag

(* The metadata never points at a file that is not there: a failed download
   leaves the old file in place, so a reader that holds a found entry never
   ends in a 404, nor in a 500 unless it could not write the gzip copy.     *)
EntriesBackedByFiles ==
  ~Cleaner =>
    /\ \A k \in Keys : Held(k) # {} => Exists(file[k])
    /\ \A w \in Workers :
         /\ resp[w].status = 404 => obj[w] = 0
         /\ resp[w].status = 500 => FaultyDisk

(* What is sent as an object, with its ETag or as a 304, is a revision that
   was in the bucket, never a deletion or nothing at all.                   *)
OnlyObjectsServed ==
  \A w \in Workers :
    resp[w].status = 200 \/ resp[w].etag # 0 => Found(Key(w), resp[w].etag)

(* A file is renamed over a cached one only after its stream was closed
   (s3util.cpp:110 before 115 and 118, compress.cpp:41 before 43), on either way
   to a gzip copy: whatever fails, overlaps, is deleted or killed, no reader
   opens a file that is still being written.  A body that is short all the same
   was cut by a write that failed, or is a gzip copy of a deleted file.     *)
FilesWhole ==
  /\ \A k \in Keys : ~file[k].open /\ ~gz[k].open
  /\ ~FaultyDisk => \A k \in Keys : file[k].whole /\ (gz[k].whole \/ Cleaner)

(* A download that no other update overlapped repairs whatever earlier races
   left: after it metadata, file and gzip copy have the same revision.      *)
CleanDownloadRepairs ==
  [][Healthy =>
       \A w \in Workers : pc[w] = "put" /\ solo[w] /\ pc'[w] = "encode" =>
         LET k == Key(w) IN
         /\ file'[k].rev = meta'[k].rev
         /\ Exists(gz'[k]) => gz'[k].rev = meta'[k].rev]_vars

(* README.md:48 the flat directory "makes it easy to have external jobs that
   delete the files": deleting one costs a download, not the content of an
   answer.  False: a file that is downloaded and put (s3util.cpp:118, 134), and
   deleted before compress() opens it (s3resource.cpp:204, compress.cpp:36), is
   served as an empty gzip body.  So is a cached one, after s3util.cpp:61.  *)
DeletedFilesNotServed ==
  \A w \in Workers : resp[w].status = 200 => resp[w].body # Hollow

(* A request is answered whatever else happens. *)
RequestsAnswered == \A w \in Workers : pc[w] # "idle" ~> pc[w] = "idle"

(* Once the bucket no longer changes, what the cache still considers fresh is
   the bucket's current revision: nothing outlives its TTL.                 *)
CacheConverges ==
  <>[](\A k \in Keys : Fresh(meta[k]) => meta[k].rev = latest[k])
=============================================================================
