----------------------- MODULE ObjectCacheInvariants -----------------------
(* The inductive invariant behind the safety properties of ObjectCache: what a
   worker's place in the handler says about the revisions it carries, the files
   it is about to publish and the other workers.                            *)
EXTENDS ObjectCache

(* A worker carries an entry, a download or an object only where the handler
   uses it, and only found revisions are written or served.                 *)
WorkerLocals ==
  \A w \in Workers :
    /\ pc[w] \notin {"check", "hit", "fetch"} => iter[w] = NoEntry
    /\ pc[w] \notin Serving \cup {"done"} => obj[w] = 0
    /\ pc[w] \notin Refreshing \cup {"absent", "done"} => got[w] = 0
    /\ pc[w] # "done" => resp[w] = NoResponse
    /\ pc[w] \in Serving => Found(Key(w), obj[w])
    /\ pc[w] \in Refreshing => Found(Key(w), got[w])
    /\ pc[w] = "absent" => ~Found(Key(w), got[w])

(* Nobody knows a revision the bucket has not had. *)
KnownRevisions ==
  /\ \A k \in Keys : uploads[k] \subseteq 1..latest[k] /\ meta[k].rev <= latest[k]
  /\ \A w \in Workers : /\ iter[w].rev <= latest[Key(w)]
                        /\ obj[w] <= latest[Key(w)]
                        /\ got[w] <= latest[Key(w)]

(* A download is alone, or the race is on record. *)
RacesRecorded ==
  \A w \in Workers : pc[w] \in Refreshing =>
    IF solo[w]
      THEN \A u \in Workers \ {w} :
             Key(u) = Key(w) => pc[u] \notin Refreshing \cup Compressing
      ELSE raced[Key(w)]

(* Where a worker has a download on disk, or an output of compress(). *)
Downloaded == {"close", "gzprobe", "gzrefresh", "gzfill", "gzreplace", "rename"}
Zipping == {"gzfill", "gzreplace"} \cup Compressing

(* A content that is there, whether its stream is open or has been closed. *)
Lasting(c) == c.rev # 0 \/ ~c.whole

(* A file that a worker is about to publish, or has found, is there. *)
TemporariesThere ==
  ~FaultyDisk =>
    \A w \in Workers : /\ pc[w] \in Downloaded => Lasting(tmp[w])
                       /\ pc[w] \in Zipping => Lasting(zip[w])

FilesThere ==
  ~Cleaner =>
    \A w \in Workers :
      /\ pc[w] = "put" => Exists(file[Key(w)])
      /\ pc[w] \in {"size", "exists", "open"} /\ req[w].gzip => Exists(gz[Key(w)])

(* A temporary file holds what its worker downloaded. *)
TemporariesNamed ==
  \A w \in Workers :
    /\ pc[w] \in Downloaded /\ Exists(tmp[w]) => tmp[w].rev = got[w]
    /\ ~FaultyDisk /\ pc[w] \in {"gzfill", "gzreplace"} => zip[w].rev = got[w]

(* What a download that nobody interferes with is about to publish is as new as
   what anybody holds, ... *)
DownloadsNewest ==
  \A w \in Workers :
    pc[w] \in Refreshing /\ solo[w] => \A r \in Held(Key(w)) : r <= got[w]

(* ... and the files are that new before the metadata is. *)
FilesBeforeMetadata ==
  \A w \in Workers : solo[w] =>
    LET k == Key(w) IN
    /\ pc[w] = "put" /\ Exists(file[k]) => file[k].rev = got[w]
    /\ Healthy /\ pc[w] \in {"rename", "put"} /\ Exists(gz[k]) => gz[k].rev = got[w]

(* A compression is about to publish the revision of the file. *)
CompressionsCurrent ==
  Healthy =>
    \A w \in Workers :
      pc[w] \in Compressing /\ ~raced[Key(w)] => zip[w].rev = file[Key(w)].rev

(* A stream is open only while its worker writes to it, and what it writes is
   all there is to write, unless it was lost.                               *)
TemporariesClosed ==
  \A w \in Workers :
    /\ pc[w] # "close" => ~tmp[w].open
    /\ pc[w] \notin {"gzfill", "gzcopy"} => ~zip[w].open
    /\ ~FaultyDisk => tmp[w].whole /\ (zip[w].whole \/ Cleaner)

IInv == /\ TypeOK /\ WorkerLocals /\ KnownRevisions /\ RacesRecorded
        /\ TemporariesThere /\ FilesThere /\ EntriesBackedByFiles
        /\ TemporariesNamed /\ DownloadsNewest /\ FilesBeforeMetadata
        /\ CompressionsCurrent /\ FilesNotBehindMetadata /\ BodyNotOlderThanETag
        /\ TemporariesClosed /\ FilesWhole
=============================================================================
