# Verification of s3-proxy

s3-proxy is an HTTP/2 server that answers GET and HEAD requests with objects of
one S3 bucket, which it caches: bodies as files of a cache directory, metadata
in memory. This directory holds TLA+ modules translated from its source, TLC
configurations that check them on small instances, and proofs that TLAPS checks
for every value of the constants.

    tlc -workers 2 -config cache_order.cfg MCObjectCache.tla
    tlapm ObjectCacheProofs.tla

Source paths below are relative to the repository.

## 1. The system

| Component | State it keeps | Operations | Modelled by |
|---|---|---|---|
| Object cache: `src/server/s3resource.cpp`, `s3util.cpp`, `handlers.cpp`, `src/util/ExpirationCache.hpp`, `cache.hpp`, `compress.cpp`, `src/model/s3object.hpp` | metadata map (name to `S3Object`), files and `.gz` copies in the cache directory | `get`, `clear`, `S3Util::get`, `S3Util::clear`, the sweep thread, `compress` | `ObjectCache` |
| Metrics pipeline: `src/server/response.cpp` (`extraProcess`), `src/queue/queuemanager.*`, `poller.*`, `src/model/metric.*` | queue, `running` flag, database clients | publish, consume, run, stop | `MetricsPipeline` |
| Metric queue: `src/queue/concurrentqueue.hpp` | a sub-queue per thread, its blocks and their index, a pool and a free list of blocks, a hash of the threads | enqueue, try_dequeue | `ConcurrentQueue`, `FreeList`, `ProducerHash`, in part |
| Connection pool: `src/client/pool.hpp` | idle connections, `total`, `created` | acquire, release, idle scan | `ConnectionPool` |
| MMDB client: `src/client/mmdb.*` | socket, buffer | fields, execute | `LocationLookup` |
| ILP client, line builder: `src/client/ilp.*`, `builder.*` | socket; a record | build, write | `LineProtocol`, in part: nothing calls `write` |
| HTTP router: `src/router/*` | sorted routes | add, route, canRoute | `HttpRouter` |
| Logger: `src/log/*` | queue of buffers or a ring, log file | push, try_pop, write, roll_file, encoding of a line | `NanoLog`, `LogFile`, `LogLine` |
| Server lifecycle: `src/server/server.cpp`, `src/main.cpp`, `src/contextholder.hpp`, `docker/scripts/entrypoint.sh` | threads, signal sets | run, stop, restart loop | in part: signal, stop, join and restart in `MetricsPipeline` |
| CORS and headers: `src/server/response.cpp`, `common.cpp` | configured origins | `Response::set`, `cors` | `Cors`, in part |
| Dates, configuration, splitting: `src/util/date.*`, `split.hpp`, `src/model/config.*` | none | formatting | `IsoDate`, in part |
| `src/util/clara.hpp` | | parsing of the command line | no: third party |
| `test/`, `docker/` otherwise | | | no: tests against a running server, packaging |

How they interact. The HTTP/2 framework calls `get` or `clear` on one of
`2 * --threads` worker threads (`server.cpp:37`). `get` calls `S3Util::get`,
which looks the name up in the metadata cache, downloads the object if it must,
writes the file and puts the metadata; `get` then compresses, measures and reads
that file. All workers share the metadata cache, behind a reader/writer lock
that is released before the found entry is read, and the cache directory, behind
no lock. A background thread clears the whole metadata cache every `CACHE_TTL`
seconds, `clear` does it on request, and external jobs may delete files. After
the response the framework calls `extraProcess`, which puts a metric into the worker's
sub-queue; the poller thread dequeues it, asks the MMDB service for a location over a
connection of the pool, and saves it. Every component logs through NanoLog, which
hands lines to a thread of its own. The router of `src/router` is in the repository,
but the program registers its routes with the framework's own, and nothing includes
it; nothing calls `isoDate` either.

What makes each one correct, and what is hard about it:

* Object cache: what a client gets belongs to the ETag it gets it with; nothing
  stale outlives its TTL; metadata is backed by files; nothing half-written is
  seen. Hard because three pieces of state (metadata, file, gzip copy) are updated
  one after the other without a common lock, by several workers at once, with
  writes that fail, files that vanish and restarts that forget only one of them.
* Metrics: a metric is saved at most once, those of one worker in order, none is lost
  while nothing fails, and stopping ends. Hard: both sides set the flag that stops
  the poller; an exception after a dequeue loses the metric; a stop, a kill or a
  restart may come at any step.
* Metric queue: FIFO per producer, nothing lost or taken twice. Hard: no locks at all;
  blocks, index entries and hash tables are used again or replaced while others read.
* Pool: a bound on the connections in use, nobody shares one, and none stays idle
  for ever. Hard: the count is read outside the lock, a factory that throws keeps
  its slot, and the scan looks only at the front of a list that changes meanwhile.
* MMDB client: a lookup gets its own answer. Hard: a connection whose exchange failed
  is used again, with what is left in its buffer.
* Router: the route a reference definition picks is picked. Hard: the search
  starts in the middle of a sorted list.
* Logger: nothing is lost, in the guaranteed mode; lines keep their order per
  thread. Hard: the consumer frees buffers producers may still count in.
* CORS: an origin is echoed only if it is allowed.

`PROJECT.json` lists the hazards line by line, with the properties that cover
each.

## 2. The modules

| Module | What it holds |
|---|---|
| `ObjectCache` | state, actions, specification and properties of the object cache |
| `ObjectCacheInvariants` | the inductive invariant `IInv`, as named conjuncts |
| `MCObjectCache` | the requests and the symmetry of the small instances |
| `MCObjectCacheClear` | adds a history of clears, for `ClearTakesEffect` |
| `ObjectCacheProofs` | types; what a step can do to each part of the state; `IInv` is inductive; the safety theorems |
| `ConnectionPool` | the pool and its users |
| `LocationLookup`, `MCLocationLookup` | extends the pool: what users do with a connection |
| `ConnectionPoolProofs` | the theorems of the pool; a lookup's steps are the pool's, and it gets its own answer |
| `MetricLog` | abstract: what a database may hold of the metrics published |
| `MetricsPipeline` | workers, queue, poller and main thread |
| `MetricsProofs` | types, the refinement of `MetricLog`; nothing lost, no drain cut short, order |
| `LineProtocol` | the record of a metric, and how a database reads it |
| `MCMetricsPipeline` | instances of `MetricsPipeline` |
| `MetricQueue` | abstract: a FIFO for each producer |
| `FreeList` | a lock-free stack of blocks |
| `ConcurrentQueue`, `MCConcurrentQueue` | extends `FreeList`: enqueue and dequeue; implements `MetricQueue` |
| `ConcurrentQueueLemmas` | the free list; the invariant of the queue, and the consumers' steps |
| `ConcurrentQueueProofs` | the producers' steps; the blocks; the refinement of `MetricQueue` |
| `ProducerHash`, `MCProducerHash` | how a thread finds its sub-queue |
| `ProducerHashProofs` | it has one, and the poller finds it |
| `NanoLog`, `MCNanoLog` | producers, buffers and the consumer thread of the logger |
| `LogFile` | extends `NanoLog`: what the consumer writes to the files |
| `NanoLogProofs` | the theorems of the logger and its file |
| `LogLine` | how a line is encoded and decoded |
| `MCLogFile` | instances of `LogFile` |
| `HttpRouter` | routes added one by one, and the answers to every request |
| `Cors` | what a browser is told about its origin |
| `IsoDate` | the dates of a clock |
| `SequentialProofs` | the theorems of `HttpRouter`, `Cors`, `IsoDate`, `LogLine` and `LineProtocol` |
| `MCSequential` | instances of `HttpRouter`, `Cors`, `IsoDate`, `LineProtocol` and `LogLine`, one at a time |

Where one component works on the state of another its module extends the other's:
`LocationLookup` on connections, `ConcurrentQueue` on blocks, `LogFile` on lines.
`MetricsPipeline` stands on `MetricQueue`, the queue's promise, instead of its code. The
object cache and the metrics meet only in the worker that first answers and then
publishes; they are modelled apart, with the other side as environment.

Definitions named "Mutant of ..." are deliberately wrong variants of an action or an
operator. They are not part of any specification: substituted for the original
they make a property fail, which shows that the property depends on it.

### ObjectCache and the code

A bucket object is the list of its revisions. A revision is a number, which also
stands for the ETag and the Last-Modified time of the object (one field: the code
compares each only with the same field of the cached entry). Some revisions are
deletions. A cached not-found (an `S3Object` without a `fileName`) is an entry
whose revision is a deletion.

| Variable | Code |
|---|---|
| `latest`, `uploads` | the bucket (external) |
| `meta` | `ExpirationCache::map_`; an entry's `left` is `expires` minus now, in ticks |
| `file`, `gz` | `<cacheDir>/<hash>` and `<cacheDir>/<hash>.gz`; a content is the revision it was made from, whether it is complete, and whether its stream is still open |
| `pc` | where a worker is in `get` and `S3Util::get` |
| `req`, `iter`, `got`, `tmp`, `zip`, `obj`, `size`, `resp` | locals: the request, the iterator, the result of GetObject, the temporary file of the download and that of `compress`, `downloaded`, `size`, the response |
| `raced`, `solo` | history, read by properties and by no guard: see below |

Each action is one access to state that somebody else can see, with all the local
work up to the next one:

| Action | Lines |
|---|---|
| `Receive` | `s3resource.cpp:133-177`: path and query-string checks |
| `Find`, `Check`, `Hit` | `s3util.cpp:53-71`: lookup under the lock; expiry and file name read through the iterator after it is released |
| `Fetch`, `PutAbsent` | `s3util.cpp:73-93`: found, not found (cached), any other error (answered 404, not cached) |
| `Write`, `Close`, `Rename`, `Put` | `s3util.cpp:95-135`, with the catch at 137: a temporary file is opened and written, and closed; rename, metadata |
| `GzProbe`, `GzRefresh`, `GzFill`, `GzReplace` | `s3util.cpp:112-116`, `compress.cpp:26-45`: a gzip copy that is there is replaced: open, write, rename |
| `Encode`, `GzOpen`, `GzCopy`, `GzMove` | `s3resource.cpp:190-205`, `compress.cpp:26-45`: a missing gzip copy is made, in the same three steps |
| `Measure`, `Conditions`, `Open` | `s3resource.cpp:207-288`: size, existence, HEAD, validators, body |
| `ClearRequest`, `Sweep` | `s3resource.cpp:302-363`, `ExpirationCache.hpp:27-42` |
| `Send`, `Upload`, `Delete`, `Clean` | the framework, the bucket, an external job |
| `Restart` | `entrypoint.sh:269-275`: files stay, the rest is lost, at any step |

Choices a reader should know:

* The iterator is used after the lock is released. If `put` has assigned the entry
  meanwhile, or a clear has freed it, the read is undefined; the model lets it
  return the old entry or the new one. That the process may die instead is
  `Restart`, which is enabled in every state.
* Between `Write` and `Close` a temporary file is open, and so is that of `compress`
  before `GzFill` and `GzCopy`: what a reader finds then is any part of the content. With
  `FaultyDisk` a file may not open at all (`Begun`), or be short once it is
  closed (`Closed`): no stream is checked. Compressing a source that cannot be opened gives `Hollow`, a valid gzip
  of nothing, since `compress` does not check that either.
* Temporary files are private to a worker: their names carry a nanosecond clock.
  File names are as distinct as object names. Both are listed as hazards.
* A response sends as many bytes as were measured (`s3resource.cpp:207`); its
  `torn` field records that the file had been replaced since. The code allows it.
* `raced[k]` is set when a worker starts to update the files of `k` while another is
  doing so; a download during which nobody else did (`solo`) resets it, and so
  does a restart. What the code guarantees about bodies it guarantees only while
  `raced` is false: two overlapping downloads may leave the older file under the
  newer metadata, and TLC shows that at once if the condition is dropped. The
  theorems say how far the damage goes, and `CleanDownloadRepairs` what ends it.

### ConnectionPool and the code

| Variable | Code (`src/client/pool.hpp`) |
|---|---|
| `available` | the idle connections, oldest release first; `age` is now minus `time`, in ticks |
| `total` | the member of that name |
| `admitted` | threads past the test at line 105 that wait for the mutex |
| `held` | the proxies |
| `due` | what was idle too long when the scan read the clock at line 152 |
| `mon`, `stop` | the monitor thread and the flag that ends it |
| `leaked` | history: acquires whose factory threw |

| Action | Lines |
|---|---|
| `Admit` | 103-106: the limit, tested without the lock; `nullopt` changes nothing |
| `TakeIdle`, `Create`, `CreateFails` | 107-119: the front connection, a new one, or an exception |
| `Release` | 122-129, from the destructor of the proxy |
| `StartScan`, `ScanFront`, `EndMonitor` | 149-176: each turn of the scan's loop takes the lock anew |
| `Init`, `Destroy`, `Tick` | 82-98: constructor, destructor; time |

Connection ids come from a bounded set and are used again after a connection is
closed. Ages saturate at `MaxIdleTime`, as the code only compares them with it; a tick
is a second, to which the code rounds. Instead of the time the scan read, `due` keeps
what was expired by it; a connection released later is not due, as long as
`MaxIdleTime` is at least a second. `Revocable` says whether users call
`setValid(false)`: nobody in the repository does, so it is one of the CONSTANTS. The
statistics (`created`, `count`) are left out. Time only moves forward; the code reads
the system clock, which need not (a hazard).

### LocationLookup and the code

It extends `ConnectionPool`: `Closing` empties what the pool's steps close.

| Variable | Code (`src/client/mmdb.cpp`) |
|---|---|
| `buffer` | the connection's `streambuf`: queries and parts of answers, in order |
| `link`, `wire`, `inbox` | the socket's state; answers, and what was sent, on their way (external) |
| `step`, `query`, `answer` | where each user is in `fields()`, what it asked and got |
| `asked` | the lookups so far, which number the queries |
| `upset` | history: connections on which an exchange has failed |

| Action | Lines |
|---|---|
| `Ask` | 83-89: the query goes behind what the buffer holds, and all of it is sent, or `send` throws |
| `Read` | 91-107: some of what has arrived, up to an empty line; the rest of the buffer is thrown away |
| `EndOfFile`, `Interrupted` | 91-97: the read fails and leaves the buffer as it is |
| `GiveBack` | the proxy's destructor, after `fields()` |
| `Serve`, `Break` | the service and the network |

A query is sent as a whole or not at all, and an answer arrives in two parts, of which
the second has the empty line. The service answers queries, and ignores the parts of
answers that an old buffer sends along. `AnswersMatch` is about connections on which no exchange
has failed, since after a failure an earlier answer may come first (`mmdb.cpp:93`).

### MetricsPipeline and the code

| Variable | Code |
|---|---|
| `main` | where `run()` of `server.cpp` is, from line 74 on; `"exited"` ends the process |
| `handling`, `sent` | requests being handled (framework); metrics each worker has published |
| `queue` | the queue: one FIFO per producer, and a dequeue takes from any |
| `running`, `poller`, `hand` | `Poller::running`; where its thread is; the local `metric` |
| `mongo`, `series` | what the databases hold |
| `base`, `early`, `owed`, `failed` | history: see the properties that use them |

| Action | Lines |
|---|---|
| `Begin` | the framework; no new request after `server.stop()` |
| `Publish` | `response.cpp:95-111`, `queuemanager.cpp:23-29` |
| `Start` | `poller.cpp:161-174`: clients, then `running = true` |
| `Test` | `poller.cpp:176`: the flag |
| `Dequeue`, `Empty` | `poller.cpp:201`, `219`: an empty queue ends `loop()`, after a pause that no property depends on |
| `Lookup`, `LookupFails` | `poller.cpp:203-214`: with a location or without; an exception is caught by `run()` |
| `SaveMongo`, `SaveSeries` | `poller.cpp:38-75`, `90-109` |
| `Signal`, `Stop`, `Join` | `server.cpp:55-82`, `poller.cpp:191` |
| `Restart` | the entrypoint's loop, after an exit or a kill at any step |

A metric is its worker and its number. Lookups may throw and writes vanish (their write
concern is unacknowledged) in any run; `failed` records that it happened in this process,
and the properties about losses say what holds until then, so that the only losses would be
the pipeline's own. A worker may publish after `server.stop()`, as the framework is
external: that only adds behaviours.

`MetricLog` is what all of it promises: a log of published metrics, none twice, and
those of one worker in order; any may be missing. `ImplementsLog` is the refinement,
with `log <- mongo`.

`LineProtocol` is the record that `TSDBClient::save` asks the builder for (`poller.cpp:90-148`,
`builder.cpp`): `clean` escapes, `addTag`, `addNumber` and `addText` add, and `save` puts the
metric's and the location's text in. Text is a sequence of characters, of which only those
that separate matter. The program neither starts nor ends a record (`startRecord` and
`endRecord` have no caller); the module is about what those calls would make of it. `Save` is the poller's one call
for a metric, in memory of its own. A reader of the protocol, written from its rules, is the reference.

### The queue and the code

`MetricQueue`, the promise, has two variables: what each producer has put in, and what
each consumer has taken out. `ConcurrentQueue` has (names of `concurrentqueue.hpp`):

| Variable | Code |
|---|---|
| `tail`, `head`, `optimistic`, `overcommit` | `tailIndex`, `headIndex`, `dequeueOptimisticCount`, `dequeueOvercommit` of each sub-queue |
| `tables`, `entries` | its `BlockIndexHeader`s, of which the last is in use, and the entries (key and block) they point to |
| `tailBlock`, `elements`, `dequeued` | the block being filled; of each block its elements and how many were moved out |
| `pool`, `created` | `initialBlockPoolIndex`; the blocks made since |
| `listHead`, `refs`, `next`, `at`, `node`, `seen` | the free list, and where each thread is in it (`FreeList`) |
| `pc`, `reg`, `todo` | where each thread is, its locals, what it has left to do |

| Action | Lines |
|---|---|
| `Publish` ... `Put` | `ImplicitProducer::enqueue`, 2456-2518: an index entry for a new block (`InsertKey`, `InsertTail`), in a larger index if need be (`NewBlockIndex`) and none without memory for that (`NoBlockIndex`), a block from the pool, the list or the heap (`PoolLook`, `PoolGet`, `FromList`), and without one the entry given back (`Rewind`, `Drop`) |
| `Scan` | `try_dequeue`, 1085-1112: the longest of three sub-queues first |
| `Look` ... `Undo` | 2520-2531 and 2583-2588: a consumer counts itself in, and out again when it came too late |
| `TakeIndex` ... `LoadKey` | 2532-2535, 2901-2924: which block an index is in, in three loads |
| `TakeElement` ... `Added` | 2537-2582: the element is moved out; who takes the last of a block gives the block back |
| `GetHead` ... `Dereference`, `Flag` ... `Reflag` | `FreeList`, 1424-1503 |

Every step is one access to an atomic that threads share, with the local work up to the next.
Memory is taken as sequentially consistent, and the 64-bit indices do not wrap around: the
orderings the code asks for are outside the model. What the refinement maps to
the promise is what a consumer *would find* at each index from head to tail, so that a
lookup that goes wrong in the index of blocks shows at once.

`ProducerHash` is `get_or_add_implicit_producer` (3350-3501) and `add_producer` (3218-3240): each
probe, insertion, count and turn of the lock is a step; memory for a larger table or for a
sub-queue may not be had. `Capacities` are the sizes a table may get: the initial one, doubled
as often as memory could allow (4, 8 and 16 in the run). What the poller's walk along the list
(1097) reaches, `Listed`, is the least set of sub-queues that is `Closed` under it. The two modules are apart because a thread goes through the hash
before every call and then has its sub-queue to itself.

### The logger and the code

`NanoLog` (`src/log/NanoLog.cpp`) has both buffers, of which `kind` chooses one, as
`initialize` does. `main.cpp:68` chooses the guaranteed one.

| Variable | Code |
|---|---|
| `state`, `popper` | `m_state`; where `NanoLogger::pop` is |
| `writeIndex`, `readIndex` | `m_write_index`, `m_read_index` of the buffer chosen |
| `writeBuffer`, `readBuffer`, `buffers` | the members of those names of `QueueBuffer` |
| `alive`, `slot`, `counted` | which addresses are allocated; of each the marked slots with their lines, and the count in `m_write_state[size]` |
| `ring` | the ring's written items |
| `pc`, `index`, `into`, `sent` | where each producer is in `push`, its slot, its buffer, and the lines it has pushed |
| `log` | the lines that were popped |
| `stray`, `overrun` | history: a producer counted in freed memory; the ring was overrun |

| Action | Lines |
|---|---|
| `Claim`, `Spin`, `Load`, `Mark`, `Count` | 523-538, 482-488: a slot number, the buffer, the line, the count |
| `Make`, `Publish` | 567-574: who fills a buffer makes the next one |
| `RingClaim`, `RingPut` | 417-424 |
| `PopQueue`, `PopRing`, `PopNothing`, `Test` | 540-564, 426-438, 666-687 |
| `Start`, `Shutdown` | 643-659: the destructor runs when `main()` has ended, and no thread logs any more |

A buffer that was freed may be allocated again at the same address, which is why buffers
are addresses. A count in freed memory may give any result. `LogFile` gives each popped line
to `write` (601-606): midnight may have come, the new file may not open (`roll_file`,
609-624), and either end of the stream may fail; a stream that failed stays silent, and with
echo that includes the file when stdout failed, since the tee (`tee.hpp:26-47`) reports
the failure of either end and `roll_file` alone makes new streams. The clock is taken never
to be set back. `LogLine` is the memory of one line, byte by byte, as far as sizes and types
go: the constructor, the encoders, `resize_buffer_if_needed` and `stringify`. `Insert` is
`operator<<`, called for one argument after another. Text has no NUL.

### The functions of a request

`HttpRouter`: `paths` is the sorted vector, `handlers` the routes in the order added, `errors` the
error handlers configured. `Add` (138-145 of `router.hpp`, with 365-414) is the one action; as the
vector was sorted, its sort after `push_back` inserts the new path (`Inserted`).
`Route` and `CanRoute` are operators, translated from `routeParameters` and `canRoute`, which search
`paths` in a loop each: `Comparison` is what a turn of the one finds about a path, `Turn` of the other.
Where `canRoute` reads past the parts of a path its answer is one of a set. Paths are
sequences of segments from one ordered list, in which some sort before and some after `{` and
`~`. The reference is `Fits` and `Outranks`: which routes fit, and which of two is more
precise. `Cors`: the server reads `ALLOWED_ORIGINS` once; a browser sends a preflight
(`Preflight`, which calls `cors`) and then its request, or the request alone (`Respond`, which
calls `set`). `IsoDate`: `isoDate`, down to minutes, against the day number of the Gregorian
calendar, while a clock ticks through the first and the last minute of each day.

These modules, `LineProtocol` and `LogLine` are sequential and share no state, so that a
behaviour of `MCSequential` is about one of them (`subject`) while the others stay as they began.

## 3. What is checked

The cache runs have two workers and one object: no step relates two objects, so that
objects interact only through clears and sweeps, which treat them alike. TTL is
one tick: an entry is fresh or expired, and the two cases of every comparison
occur. Worker symmetry is used in the safety runs. That nobody gets stuck is
`RequestsAnswered`: deadlock checking, though on, says nothing here, since a restart is
always possible. It is off elsewhere: in every other run something ends, be it the
pool, the process, or the calls, lines, routes, days or arguments that a bound allows. What must not get stuck
there are the liveness properties of those runs.

| Run | Instance | Shows |
|---|---|---|
| `cache_order` | plain and gzip reads, 3 revisions, no faults | `TypeOK`, `FilesNotBehindMetadata`, `BodyNotOlderThanETag`, `EntriesBackedByFiles`, `FilesWhole`, `CleanDownloadRepairs` |
| `cache_faults` | gzip, HEAD, conditional and illegal requests, 2 revisions, failing writes and a job that deletes files | `OnlyObjectsServed` |
| `cache_live` | gzip reads, 2 revisions, fairness | `RequestsAnswered`, `CacheConverges` |
| `pool` | 2 users, 2 lookups, limit 1, keeps 2, 1 at the start, 3 connections, fairness | `SlotsAccounted`, `UseBounded`, `Exclusive`, `AnswersMatch`, `ScansComplete`, `IdleClosed`, `LookupsEnd` |
| `metrics` | 2 workers, 2 metrics each, failures and restarts, fairness | `NothingLost`, `StopDrains`, `ImplementsLog`, `MetricsSaved`, `ShutdownEnds` |
| `log_lines` | 2 producers, 2 lines each, either buffer, 2 slots, 3 addresses, file and stdout; fairness | `LinesKept`, `LinesInOrder`, `SlotsExclusive`, `DrainComplete`, `LinesPopped`, `LinesFiled` |
| `queue` | one producer of 7 and one consumer; two of 3 and one; one of 5 and two consumers; blocks of 2, 3 blocks, an index of 2; fairness | `ImplementsQueue`, `BlocksOnce`, `BlocksReleased`, `MetricsTaken` |
| `producers` | 3 threads of 2 calls with colliding hashes, a table of 4; fairness | `OneProducer`, `ProducersListed`, `CallsReturn` |
| `sequential` | 3 of 12 paths for 2 methods in any order, 13 requests; 2 origins; the days of 10 years; resources of up to 3 of 9 characters; lines of up to 3 arguments | `MostSpecific`, `CanRouteTells`, `PreflightsAgree`, `DatesExact`, `RecordsParse`, `LinesRestored` |
| `clear_effect` | plain and gzip reads, 2 revisions | a violation, below |
| `deleted_files` | the same, with a cleaner | a violation, below |
| `log_dropped` | the queue of buffers as in `log_lines` | a violation, below |

Why the bounds are enough. `MaxRev`: two revisions are enough for an update to race a read or
another update; three, in `cache_order`, for two updates in flight and a third revision already
there when they end. In `pool` two threads overshoot a limit of one together, and give a
connection on to each other; two lookups let one find what the other left; three connections
are as many as are ever alive, and slots a failing factory keeps use the limit up, so
`leaked` needs no bound. Two metrics per worker let one be in hand, or saved, while another
waits. In `log_lines` two lines of two producers fill two buffers of two slots each, with
the third address there to be used again, or overrun a ring of two. In `queue` seven
elements go once around an index of two, make it larger and reuse blocks of the list; with one
consumer and two producers blocks change between sub-queues; two consumers race for one
block. `MaxAhead` bounds how far their claims run ahead of the tail: with two, both consumers have
claimed in vain before either takes its claim back. Three threads make a table of
four grow while the others are in it. Three routes are one more than a comparison
needs. Sizes in `LogLine` are small, so that arguments come to fill the stack buffer, the heap
buffer and its double exactly, and exceed them by one.

The properties:

* `FilesNotBehindMetadata`: whoever holds an entry (the map, an iterator, a handler)
  finds its revision or a newer one in the file and in the gzip copy. It rests on
  the order of `s3util.cpp:115`, `118` and `134`, and holds for the file even with
  faults and cleaners.
* `BodyNotOlderThanETag`: what that means for a client. An older body under a newer
  ETag would be confirmed by every later 304.
* `EntriesBackedByFiles`: an entry has its file, so a reader that holds one is not
  answered 404, nor 500 unless it could not write the gzip copy.
* `OnlyObjectsServed`: a 200 or 304 with an ETag is a revision that was an object,
  although entries change under the iterator.
* `FilesWhole`: no file or gzip copy is visible whose stream is still open, with failing
  writes, cleaners and restarts too; and a visible one is complete unless a write failed or,
  for a gzip copy, its source was deleted. The order of 110 before 115 and 118, and of
  `compress.cpp:41` before 43, is what it depends on.
* `CleanDownloadRepairs`: an undisturbed download leaves metadata, file and gzip copy
  with one revision, whatever was there.
* `RequestsAnswered`, `CacheConverges`: every request ends; and if the bucket stops
  changing, from some point on every fresh entry is the bucket's current revision.
* `SlotsAccounted`, `UseBounded`: `total` is what is in use plus what failed
  factories kept, and exceeds the limit by less than the number of threads.
* `Exclusive`: two threads never share a connection.
* `ScansComplete`: the scan stops at the first connection that is not due and yet overlooks
  none, whatever others do between its turns. `IdleClosed`: none is idle for ever.
* `AnswersMatch`, `LookupsEnd`: a lookup gets its own answer, until an exchange on its
  connection fails; it ends if the service answers, or closes its end.
* `ImplementsLog`: nothing is saved twice or out of order, across exceptions and restarts.
* `NothingLost`: while nothing fails a metric of this process (`base`: published before it)
  waits, is in hand or is saved. `StopDrains`: when the poller ends, all that was published
  before a stop that came during a drain (`owed`) is saved. A stop that comes
  during the pause leaves what was published since in the queue, for ever.
* `MetricsSaved`, `ShutdownEnds`: metrics are saved unless something fails or the server is
  stopped, and the shutdown ends, unless `stop()` came before `run()` had set the flag
  (`early`): then `poller.cpp:173` undoes the stop and the join at `server.cpp:79` never returns.
* `RecordsParse`: a record is read as one record whose tags and values are those of the
  metric and its location, whatever characters a client has sent.
* `ImplementsQueue`: the queue is a FIFO per producer. `MetricsTaken`: every call of a handler
  returns, and a single consumer gets everything (of two, each may fail for ever
  because of claims the other takes back; the program has one).
* `BlocksOnce`, `BlocksReleased`: each block is in one place; when all threads have left, the
  destructor frees each exactly once.
* `OneProducer`, `ProducersListed`, `CallsReturn`: a thread has one sub-queue, which the poller
  can see, and finds it in finitely many steps.
* `LinesKept`, `LinesInOrder`, `LinesPopped`, `DrainComplete`: a line that was pushed waits or was
  popped, is popped in the end, in its thread's order, and at the latest when the destructor
  has joined. All hold until a ring is overrun, which its documentation allows, or a producer
  counts in freed memory, which `LinesNotDropped` is about.
* `SlotsExclusive`: who has a slot has it alone, in a buffer that is not freed.
* `LinesFiled`: a day's file has that day's lines in order; after a failure lines are
  missing, until midnight. `LinesRestored`: a line is decoded to what was encoded.
* `MostSpecific`: for requests of ordinary segments, the most precise route
  that fits answers, in whatever order routes were added. `CanRouteTells`: for all requests, the loop of
  `canRoute` (`router.hpp:211-262`) reaches a handler, one for the method, or none, as that of `route`
  (444-544) does, but where both read past the parts of a route.
* `PreflightsAgree`, `DatesExact`: what a preflight promises the answer keeps, when origins
  are configured by name; dates are those of the calendar.

### Fairness

In the cache (`FairSpec`), time passes (`WF(Tick)`), and a worker with a request to handle
takes its next step (`WF(Handler(w))`): it waits for nobody except for locks that
are held for one map operation and released on every path, and for calls (S3, file
I/O) that return. Nothing is assumed of requests, uploads, clears, sweeps and
restarts: they may never happen, and they may go on for ever. That `MaxRev` ends
the uploads is what "stops changing" means in `CacheConverges`. In the pool (`FairLookups`) the
monitor's thread and time are fair: users may keep a connection for ever. A user that reads is
told of what arrives, and the service answers while its link is up; the read has no
timeout, so this must be assumed of it (a hazard). In the pipeline the poller and the main
thread are fair: they are scheduled, and their calls return. Workers may be slow for ever
and a signal may never come. In the queue every thread inside a call is
scheduled, and the poller asks again and again; in the hash likewise. In the logger
(`FairFileSpec`) the consumer thread and a producer inside `push` are scheduled; nobody need
log, or shut down. No fairness is strong.

### What disagrees with the documentation

With a run that shows it:

* `ClearTakesEffect` (`clear_effect`). README.md:299-303 offers the clear endpoint and
  a restart as equals, after which objects are re-fetched. A GetObject that is in
  flight at the clear puts an entry from before it, with a whole TTL to live: a not-found at
  `s3util.cpp:89` (the trace of the run), or an object at 134.
* `DeletedFilesNotServed` (`deleted_files`). README.md:48 invites jobs that delete cached
  files. One that deletes a file after it was renamed and put (`s3util.cpp:118`, 134) and
  before it is compressed (`s3resource.cpp:204`) makes the proxy answer 200 with an empty gzip
  body. A cached file has the same gap after the check at `s3util.cpp:61`. The next request that
  finds the file gone at 61 downloads it and replaces the copy (113-116).
* `LinesNotDropped` (`log_dropped`). `NanoLog.hpp:140-142` guarantees that no lines are dropped. The
  consumer frees a buffer after the last mark (`NanoLog.cpp:486`, `558`), but its
  producer counts in it afterwards (487); when it then misses that it was the last, nobody
  makes the next buffer, and all who log spin for ever.

Seen while modelling, and not a property of any run:

* `--reject-query-strings` (README.md:51-52) has no effect: the query string is cut off at
  `s3resource.cpp:145-148`, before line 162 looks for it.
* README.md:107-108 says that metrics are saved to the time series database. `TSDBClient::save`
  (`poller.cpp:90-109`) builds a line and drops it: nothing calls `ILPClient::write`; and since nothing
  calls `startRecord`, `addTag` works on an empty optional.
* `router.hpp:132-133` says that duplicate routes are refused. Line 400 looks at the methods of the
  path at the lower bound instead of the clashing one, so some are not.
* In the router a request with a segment that sorts after `{` misses parameter routes
  (`router.hpp:203`); a wildcard route compared with a longer request whose first segments
  equal all of its own, `~` included, is read past its end; and a path behind the last one gets
  no answer, not `notFound` (430). The properties are about the other requests, or leave
  these cases open.
* With no origin configured answers allow everyone and preflights nobody; with only `*` it is
  the other way round (`response.cpp:76`, `common.cpp:98`).
* The content-length a HEAD answer is given at `s3resource.cpp:248` is replaced by `set()` at 250
  with that of the empty body.
* The types from `webm` to `avi` at `s3resource.cpp:78-85` are compared without the dot of
  the extension, so they never match. `config.cpp:56` prints the host of the time series
  database as its port.

## 4. What is proved

Everything below holds for every value of the constants that satisfies the named
ASSUMEs of the component's module.

### The object cache

For any set of workers and (non-empty) set of objects, any requests, any TTL and
number of revisions, with and without faults and cleaners.

| Theorem | Statement |
|---|---|
| `TypeCorrect` | `Spec => []TypeOK` |
| `Inductive` | `Spec => []IInv` |
| `FilesFirst` | `Spec => []FilesNotBehindMetadata` |
| `BodiesCurrent` | `Spec => []BodyNotOlderThanETag` |
| `EntriesBacked` | `Spec => []EntriesBackedByFiles` |
| `NothingTorn` | `Spec => []FilesWhole` |
| `OnlyObjects` | `Spec => []OnlyObjectsServed` |
| `Repaired` | `Spec => CleanDownloadRepairs` |

None of the properties is inductive by itself. `FilesNotBehindMetadata` breaks if a worker can
put a revision newer than the file, or rename a file older than what others hold,
so `IInv` adds what a worker's place says about what it carries:

* `WorkerLocals`, `KnownRevisions`: locals are set only where they are used, and
  nobody knows a revision that the bucket has not had;
* `RacesRecorded`: a worker that updates an object's files is alone, or the race is
  on record; with it most interleavings disappear from the other arguments;
* `DownloadsNewest`: a download that is alone is as new as anything held: it was when
  it was fetched, and only a `Put` makes more revisions held;
* `TemporariesNamed`, `FilesBeforeMetadata`: before it puts its metadata, file and gzip
  copy have its revision;
* `CompressionsCurrent`: a reader's compression has the revision of the file, unless a
  download races it;
* `TemporariesThere`, `FilesThere`, `TemporariesClosed`: what is about to be renamed or
  opened is there, and its stream is closed by then, which is what `FilesWhole` rests on.

`ObjectCacheProofs` first says, action by action, what a step can do to the file, the gzip
copy, the race record, the held revisions, and how a worker comes to publish, then
argues from these cases, one lemma per conjunct, and ends in `FilesStayNotBehind`.

`OnlyObjectsServed` is inductive relative to `IInv`: `WorkerLocals` says that what a
handler serves is an object.

### The connection pool

For any finite set of threads, any sizes and limits.

| Theorem | Statement |
|---|---|
| `TypeCorrect` | `Spec => []TypeOK` |
| `Accounting` | `Spec => []SlotsAccounted` |
| `Bounded` | `Spec => []UseBounded` |
| `NoSharing` | `Spec => []Exclusive` |
| `IdleLimit` | `Spec => []IdleBounded` |
| `InOrder` | `Spec => []OldestFirst` |
| `NoneOverlooked` | `Spec => ScansComplete` |

`SlotsAccounted` and `Exclusive` need each other and that a thread that waits for the
lock holds nothing (`WaitersEmptyHanded`): taking a connection adds one holder, and
releasing one removes one. `UseBounded` follows because an acquire moves its thread from
`admitted` into `total`, and one that is admitted found `total` below the limit.
`ScansComplete` rests on `OldestFirst`: while a scan runs, what is due is a front segment
of the idle connections, so that if the front one is not due none is. The theorems are about
`ConnectionPool` by itself, whose users release whenever they like.

### Lookups

For the same, any number of lookups, and links that break at any time.

| Theorem | Statement |
|---|---|
| `UsesPool` | `SpecLookups => Spec` |
| `PoolKept` | `SpecLookups => [](SlotsAccounted /\ UseBounded /\ Exclusive) /\ ScansComplete` |
| `OwnAnswers` | `SpecLookups => []AnswersMatch` |

Every step of a lookup is a step of the pool or leaves the pool alone (`StepsOfPool`), so what
holds of the pool holds while it is used this way, which is what the run `pool` checks.
`AnswersMatch` rests on `Exchanges`: on a connection where no exchange has failed there is
either nothing at all, or one thread that reads (`Exclusive`), and what is under way is its own
query, or a part of its answer, and nothing behind it. A query therefore finds an empty
buffer, and the empty line that ends a read is the end of the answer to it. Closing a
connection empties it, and one that another thread gets was not being read from.

### The metrics pipeline

For any set of workers, either database or both. Failures and restarts are always possible.

| Theorem | Statement |
|---|---|
| `TypeCorrect` | `Spec => []TypeOK` |
| `Implements` | `Spec => ImplementsLog` |
| `NothingDisappears` | `Spec => []NothingLost` |
| `DrainCompleted` | `Spec => []StopDrains` |
| `SavedInOrder` | `Spec => []Log!InOrder` |

`Record` of `MetricLog` asks that a metric was published and comes after all of its
worker's in the log. `IInv` says so of what is in hand
(`HandInOrder`), and, for what is in hand next, of what waits (`QueueInOrder`): numbers
in a queue rise, are published, and are above what is saved. For the rest `Kept`
follows a metric through the poller, while `~failed`: with `HandSaved`
nothing is let go of before it is saved, and `Drained` holds when `loop()` is left, which
without failures happens only with all queues empty.

### The hash of the threads

For any set of threads, any hash of them, any capacities, any number of calls, and memory that
may run out at any allocation.

| Theorem | Statement |
|---|---|
| `Inductive` | `Spec => []IInv` |
| `OneEach` | `Spec => []OneProducer` |
| `AllListed` | `Spec => []ProducersListed` |

`OneProducer` needs to know that a thread which takes itself for new has no sub-queue, and that
needs what the tables look like and what a search has seen of them:

* `KeysPlaced`: a thread in a table is found there, since no slot between its hash and its slot
  is free. Slots never become free again, so a search may rely on those it has passed;
* `OwnersFound`: a thread with a sub-queue is in some table, or on its way into one;
* `Probing`: a search has not missed its thread in the slots it has passed, nor in the tables after
  the one it is in: no other thread ever puts it there, and tables made since the call began
  are empty of it;
* `New`: so a thread that reaches the end of the first table has no sub-queue, and nobody makes
  one for it while it counts, waits or makes a larger table;
* `ValuesListed`, `Pushing`, `Inserting`, `Returned`, `ListInside`: the sub-queue in a thread's slot
  is its own and on the list; one that is being pushed is not yet. A push that finds the tail
  changed tries again, and one that does not makes the list larger by exactly one.

### The metric queue

For any finite set of threads, divided into producers and consumers, any finite number of
blocks, any sizes of blocks and index of at least two, and any number of elements.

| Theorem | Statement |
|---|---|
| `InvariantHolds` | `Spec => []IInv` |
| `BlocksOnceHolds` | `Spec => []BlocksOnce` |
| `BlocksReleasedHolds` | `Spec => []BlocksReleased` |
| `QueueImplemented` | `Spec => ImplementsQueue` |

The invariant has a part for each thing that a lock would have kept together:

* `ListInv`, of the free list: the count of a block is the number of threads that hold it, plus
  one while it is listed; a block that is flagged or owned by a thread is not listed; and the
  `next` that a thread has read is still that of the head it read it from, as long as it
  holds a reference (`NextSeen`). Without it the swap of the head, which compares only the
  head, could put a stale block on the list;
* `IndexInv`, `ProducerInv`: an entry of the index that refers to a block has the key of the block's
  first element, and so has the last entry, used or not: a consumer computes the others'
  places from it. The producer is between the steps of one change at most;
* `ClaimsInv`: the counters of a sub-queue account for every consumer that has asked for
  an element: `optimistic` is what was given, plus those who are about to learn that there is
  nothing, plus what was taken back. A claim succeeds only if as many smaller claims have
  failed as the claimant had seen taken back, so it is for an element that is there. This
  is the argument for which no test exists, and it needs a count of the claimants by number;
* `BlocksInv`: the counter of emptied slots of a block is the number of its elements that were
  taken, less those whose consumers have yet to count; only the one that counts the last
  unlinks the block, and a block that is gone has no consumers left in it;
* `ConsumerInv`: a consumer that walks the index by an old table still finds its block: old
  tables share their entries with new ones, and the entry it starts from has its key;
* `IndicesDiffer`: no two consumers have one element;
* `Placed`: a block is in the pool, not made yet, with the free list, with one producer, or in
  one entry. `BlocksOnce` and `BlocksReleased` follow from it, the second with the
  blocks that the destructor walks over.

For the refinement `AllFound` says that every element between the counters is the one that a
consumer finds through the table in use, `ItemsSame` that only the producer's `Put` changes what is
there, and `Asked` that what it puts is one of the `Items`. A `Put` then appends to the
abstract contents, a claim that succeeds takes their first element, and every other step
stutters.

### The logger

For any set of threads, any set of addresses, any sizes of buffers and ring, any number of
lines, and any failures of the files.

| Theorem | Statement |
|---|---|
| `TypeCorrect` | `Spec => []TypeOK` |
| `LinesKeptHolds` | `Spec => []LinesKept` |
| `LinesInOrderHolds` | `Spec => []LinesInOrder` |
| `SlotsExclusiveHolds` | `Spec => []SlotsExclusive` |
| `DrainCompleteHolds` | `Spec => []DrainComplete` |
| `LoggerImplemented` | `FileSpec => Spec` |
| `LinesFiledHolds` | `FileSpec => []LinesFiled` |

The properties of the lines say nothing once a producer has counted in freed memory (`stray`) or the
ring was overrun (`overrun`), and so does the invariant: both happen (section 3), and
nothing holds of the lines afterwards. Types hold even then. What the invariant says until then:

* `QueueBuffers`, `QueueReplace`: the buffers are distinct and alive, the last one is the one that is
  filled, but for the moment in which its successor is stored and not published, and a
  successor is made by one producer, after the last slot was claimed;
* `QueueClaims`: two producers that have claimed have different slots, and the buffer that is
  loaded by one that has claimed cannot have been replaced: nobody makes the next
  one before all slots of this one were counted;
* `QueueSlots`, `QueueCounted`: a slot below the index holds a line or has a producer that is about
  to write it, and the count of a buffer is the number of its written slots less those whose
  producers have yet to count. So the one that counts the last is unique;
* `QueueOrder`, `QueueKept`: lines of one thread rise from what is popped to the first buffer and
  on to the last, and each of them is in one of these;
* `RingClaims`, `RingOrder`, `RingKept`: the same for the ring, where the indices between the read
  and the write index are at most `RingSize` while it is not overrun, so that no two of
  them share a cell.

`LoggerImplemented` says that what the consumer does with the file changes nothing of the logger, so
all of this holds with files. `LinesFiledHolds` rests on `FileInv`: a stream is good exactly until
something fails, and until then every line that is popped goes to the file of its day.

### Requests, dates, lines and records

| Theorem | Statement |
|---|---|
| `CanRouteHolds` | `Spec => []CanRouteTells` |
| `RoutesHold` | `PlainRoutes => (Spec => []MostSpecific)` |
| `PreflightsHold` | `CorsSpec => []PreflightsAgree` |
| `DatesHold` | `ClockSpec => []DatesExact` |
| `LinesHold` | `LineSpec => []LinesRestored` |
| `RecordsHold` | `RecordSpec => []RecordsParse` |

These are about what sequential code computes from data of any size. Where that is a
recursive function (a decoder, a reader of text, the days before a year), a step of it is shown first,
and what follows for all inputs from its least counterexample: every set of numbers has a least one
(`LeastNumber`), which the step contradicts.

*Routing.* For any methods, paths and requests, the loops of `route` and `canRoute` come to the same
path: what a turn of the one compares with a path decides what a turn of the other does (`TurnDecides`), so
that the first path that decides is the first for both. They differ in how they treat lengths and
wildcards, and agree because an entry is marked as a wildcard exactly if one of its parts is `~`
(`AllParted`, an invariant). That the
answer is by the most precise route which fits rests on the invariant `Kept`: every entry of `paths` is
what `add` stores of a route, points to the handlers of its methods, every handler has an entry, and
the entries are sorted. `add` inserts at the lower bound, so the order is kept (`SortedInsertion`); in
this order, an entry that outranks another and fits a request that both fit comes first
(`OutranksBefore`), and `route`, which starts at the lower bound of the request, misses none that
fits (`FitsNotBefore`, `FittingTried`). The order of whole paths is that of their parts only for
`PlainRoutes`: no segment but the last is empty, and none is `~`, the character that `add` puts for a
last `*`. The hypothesis is met by the routes that the server adds (`server.cpp:46-50`), and by those
of the run.

*Preflights.* For any origins and list of them: what a browser was told is what `set` or `cors` says of
the configured list (`Told`), and with a name in it both are membership (`DecisionsAgree`).

*Dates.* For any years from 1970 that have a last one, which only bounds the table of days. Days of the
years and of the months add up strictly (`DaysGrow`, `MonthDaysGrow`), so that there is one year and one month
in which a day number falls, and `isoDate` finds it.

*Lines.* For any arguments, any length of a text and any sizes of the header and the buffers that
leave the header space, `LineInv` says where in the memory each argument starts and that it is there
encoded; `resize` copies all of that (`Resized`), a write does not touch what is
before it (`StaysEncoded`), and nothing is written past the buffer (`wild`). The decoder is at
the start of each argument in turn (`DecodedSoFar`), so it prints all of them, in order.

*Records.* For any path, type and texts of a location. Text is *quiet* in a place when it only
makes the last piece longer: no separator in it has its meaning there (`Quiet`). A character that
separates nothing is quiet, so is an escaped one, a text in quotes, and quiet texts joined; hence what `clean`
makes is quiet, in a tag and in a value (`QuietClean`). The pieces of a record are then those that the
builder put separators between, and each means the text that was given (`TagsRead`, `ValuesRead`, `RecordRead`).

### Only model-checked

Every safety invariant that a passing run checks is stated by a theorem. The liveness properties
(`RequestsAnswered`, `CacheConverges`, `IdleClosed`, `LookupsEnd`, `MetricsSaved`, `ShutdownEnds`,
`MetricsTaken`, `CallsReturn`, `LinesPopped`) are beyond the prover, as ENABLED is: they hold for the
instances of the runs.

## 5. Not modelled, and what is left

Left out of modelled components:

* Object cache: MIME types, the text of bodies and headers other than those of CORS. Two object
  names with one hash share a file (`s3util.cpp:96`); two downloads at one clock value share
  a temporary file. Neither happens in the model.
* Pool and logger: a system clock that is set back.
* Metrics: `size` and `compressed` of a metric, which nothing sets although README.md:144 describes
  the size; the growth of a queue whose poller is too slow, which `MaxMetrics` bounds.
* Queue: explicit producers, tokens, bulk operations, moves, `thread_local` support, the
  destruction of elements: the program uses none. A sub-queue for whose first index there is no memory
  (2866-2868): it takes nothing. Weak memory orders; indices that wrap around.
* Lookups: how an answer is parsed into properties; a query sent in part.
* Router: `json`, and the text of parameters; `route` with `trim` is an operator that no property
  is about.
* Logger: levels, and the text of a line's header.

Components left out: the ILP client, which is never called; parsing of the command line (`clara.hpp`, third
party) and of the configuration, which happen once before anything runs; the framework's own
start and stop; tests, images and deployment, except for the entrypoint's restart loop.

Next would be, in this order:

1. an abstract cache (an answer is a revision the bucket had within the last TTL, or is marked
   as raced) that `ObjectCache` implements, and the proof of that refinement;
2. an abstract logger (lines of each thread are appended to the log in order) that `NanoLog`
   implements while nobody strays.
