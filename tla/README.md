# A TLA+ verification project for bazel-remote

bazel-remote is a remote build cache: clients store and fetch blobs by hash over
HTTP and gRPC, the server keeps them as files below a size limit and may pass
them on to a slower backend ("proxy"). This directory models the parts of it in
which steps of several goroutines, failures, stops and restarts meet, checks them
with TLC, and proves their safety with TLAPS.

Paths below are relative to the repository's root (`src/`).

## 1. Inventory

| part | source | state | operations | what makes it hard | what makes it correct |
|---|---|---|---|---|---|
| LRU index | `cache/disk/lru.go` | eviction list, map, three totals | Add, Get, Remove, Reserve, Unreserve | totals kept by differences, rounding, int64 limits, eviction inside Add | list = map, totals = sums, never over capacity, strict LRU order |
| disk cache | `cache/disk/disk.go` | index under a mutex, files, per-request cleanup flags | Put, Get, Contains, commit, removal of evicted files | the lock is released around all file operations; every step can fail; removals are asynchronous | each file has one owner, each reservation is returned once, hits and misses are those of a store of whole blobs |
| tempfiles | `utils/tempfile/tempfile.go` | random generator | Create | name collisions, setgid marker | a new file never has a name in use |
| loading, migration | `cache/disk/load.go` | channels and workers | migrateDirectory, scanDir, loadExistingFiles | whatever a stopped process left behind; errors race with the loop that feeds the workers | no file is lost, the new index owns every file |
| FindMissingBlobs | `cache/disk/findmissing.go` | slice of digests, wait group, semaphore, context | batch lookup, proxy checks in goroutines | goroutines write into the caller's slice, share a semaphore, cancel each other | exact answer, true error, nothing written after the return |
| CAS blob format | `cache/disk/casblob` | header with a chunk table, frames | WriteAndClose, readers with an offset, compression on the fly | chunk arithmetic; a file torn by a stop; a goroutine feeding a pipe | an accepted file is whole, a reader at any offset yields the rest of the blob |
| action results, LRU capture | `disk.go`, `lru_capture.go`, `server/grpc_ac.go`, `server/http.go` | memory budget, observed closures | GetActionResult, UpdateActionResult, GetValidatedActionResult, inlining, closures | blobs vanish between validation, inlining and answer; budget must come back | a hit is complete, a closure is complete or dropped |
| upload queue and proxies | `utils/backendproxy`, `cache/*proxy` | bounded channel, workers | Put, UploadFile, Get, Contains | full queue, asynchronous upload of a file that may be evicted, namespaces | every handed-over file is closed once, no request waits, namespaces are kept |
| ByteStream, CAS, AC, HTTP services | `server/` | streams, pipes, goroutines per request | Read, Write, batch calls, handlers | either side of a pipe may end first; offsets and limits | right bytes, true answers, no leaked goroutine |
| process start and stop, idle timer | `main.go`, `utils/idle`, `server/grpc_idle_timeout.go` | a semaphore per server, the timer | start, signal, idle timeout, graceful stop | a stop may come before, during or after the start of a server | a stop comes to its end and cuts off no gRPC call |
| asset service, configuration, flags, metrics, generated code, read client | `server/grpc_asset.go`, `config/`, `utils/flags`, `genproto/`, `utils/grpcreadclient` | - | - | - | not modelled |

How they interact: the services call the disk cache; the disk cache calls the
index with `diskCache.mu` held, the proxy without it; the index calls back
`onEvict`, which starts a goroutine per evicted file; a Put hands an open file to
the proxy's queue before it commits; the validation of an action result and
FindMissingBlobs share the local lookup and the semaphore for proxy checks; `main`
runs migration and loading before it starts the servers.

`PROJECT.json` lists every component and, under "hazards", each place in this
code where something can go wrong that a test would hardly reach, with the
properties that would show it.

## 2. Modules

| module | what it is |
|---|---|
| `LRUIndex` | the index as a record and one operator per method of `SizedLRU` |
| `Sums` | sums over finite sets, defined by counting; used by `LRUIndex` and `ActionCache` |
| `SizedLRU` | the index as a state machine: any sequence of calls by clients that reserve and give back |
| `DiskCache` | requests, files, removal goroutines, crash and restart; uses `LRUIndex` for every critical section |
| `BlobStore` | the abstract specification of `DiskCache`: a store of whole blobs that may forget |
| `FindMissing` | calls of `findMissingCasBlobsInternal` and their goroutines |
| `CasBlob` | the file format: operators for the header, the chunk table, the frames and the three readers |
| `BlobRead` | a casblob or raw file is written, perhaps torn, and read by one request (ByteStream, HTTP, batch); uses `CasBlob` |
| `ByteStreamWrite` | one `ByteStream.Write`: receiver, `Put` and handler around a pipe |
| `ActionCache` | calls that read and write action results over gRPC and HTTP, with validation, inlining and LRU capture |
| `UploadQueue` | the end of `Put`, the upload queue, its workers, and the proxies' uploads and reads |
| `Migration` | `migrateDirectory` with its workers and channels |
| `Server` | `run` of `main.go`: migration (by `Migration`), loading, both servers, signal, idle timer, stop, restart |
| `Sums_proofs`, `LRUIndex_proofs`, `SizedLRU_proofs`, `DiskCache_proofs`, `BlobRead_proofs`, `ActionCache_proofs` | lemmas and theorems about the module each is named after (section 6) |
| `Queues_proofs` | theorems about `FindMissing` and `UploadQueue` |
| `Server_proofs` | theorems about `Server` and `ByteStreamWrite` |
| `MC*` | small constants for TLC |

Where a module of proofs is about two specifications, one of them has names of its
own: `UploadSpec`, `UploadNext` in `UploadQueue`, `WriteSpec`, `WriteNext` in
`ByteStreamWrite`.

An action is what a goroutine does between two points where another can run.
Operators whose names end in `_` and a fault (for instance `GetOpen_NoRetry`) are
plausible faults of the code: each property of a passing run is violated when one
of them takes the place of the definition it is named after.

### LRUIndex and SizedLRU

The list is a sequence of keys, most recent first, the map a function from keys
to items. An eviction loop is "evict the n oldest for the least n after which the
loop's condition is false"; no such n means that the loop meets an empty list,
where `Reserve` returns `errReservation` and `Add` would spin (`hung`). Integers
wrap at `MaxInt` in the sums the code tests (`Plus`), and `ItemAssumption` says
what `Add`, which tests nothing, relies on. What is passed to `onEvict` is
returned as a set. The metrics are left out; `Peek` and the accessors read only.
In `SizedLRU` a client holds at most one reservation and gives exactly that back,
as `Put` and `Get` do.

### DiskCache and BlobStore

State: `lru` (the index), `disk` (a function from `<<key, random>>` to what the
file holds: its blob, length, whether it is complete, its setgid bit), `req` (one
record per request, with the fields `unreserve`, `removeTempfile`, `blobFile` that
the code's deferred function looks at), `pending` and `removing` (the removal
goroutines before and after they get the semaphore), `loading`, `serving`,
`crashes`, and one history variable `excused`.

| action | code |
|---|---|
| `PutReserve`, `CreateTempfile`, `WriteSome`, `WriteFile`, `Commit`, `DeferFile`, `DeferUnreserve` | `Put` from top to bottom; the last two are its deferred function; a Get from the proxy joins at `CreateTempfile` |
| `GetLookup`, `GetOpen`, `GetSlowPath`, `GetMiss` with `TryProxy`, `GetFetch` | `availableOrTryProxy` and `get` |
| `ContainsLookup` | the local part of `Contains` and of FindMissingBlobs: touches the LRU order |
| `RemovalAcquire`, `removeFile` | `removeFile` |
| `Crash`, `LoadFile`, `LoadDone` | the process stops; `scanDir`, `loadExistingFiles` of the next one; a scan that fails ends that process, which is one more stop |

Every file operation of a request may fail. An open that fails other than for want of
the file, a seek, or a read of the header (`Unreadable`) makes a Get treat its item as
missing, while a failing Stat or Seek of an action result is an error. The requests that `Put` and `Get`
refuse before they touch any state (bad sizes, bad hashes, the empty blob) are
left out. Kinds are AC (RAW behaves alike) and CAS; `Compressed` says whether the
storage mode writes casblobs, which carry a header, are compared with their hash
and show in it if they are cut short, or plain files. The storage mode does not
change across a restart, and `os.Remove` of an evicted file succeeds. Files are
loaded in any order, of which the order of access times is one. The random part of
a name is any one not in use: the code draws one of 10^9 per file.

`BlobStore` has no files, reservations or order of eviction. It says: a Put that
succeeds has stored its blob and never leaves an older one in its place, though an
eviction may make the store forget the blob in the same step (finding 1); only genuine
blobs are ever stored (in compressed mode those that match their hash); a Get hits
what the store had at some moment of the call or has just brought in, and misses only
if the store was without the blob at some moment of the call or could not read what it
had found.
`ImplementsStore` is its specification under this mapping: `store` is the index
with the file that each item leads to, `call` is the request without its program
counter, `excused` is the history variable of the same name (the Gets during which the
key was missing or whose file could not be read), `had` are the Gets that have found their item and not yet opened
its file. The linearization points are the lookup of a miss and the opening of a
hit, with the retry under the lock between them.

### FindMissing

The slice is the set of positions that are not nil. `NextBatch`, `Dispatch`,
`ChunkDone`, `BatchesDone`, `Wait` are the calling goroutine; `CheckStart`,
`CheckAnswer`, `CheckCancel`, `CheckFinish`, `CheckRelease` a proxy check, where
recording the reason, cancelling the context, `wg.Done` and the release of the
semaphore are separate steps because the caller can see each without the next.
`semaphore.Weighted.Acquire` (external) fails once the context is done. The
contents of index and backend are chosen at the start and stay.

### CasBlob and BlobRead

Contents are positions: an interval `<<a, b>>` stands for the bytes `a` to `b - 1`,
a frame decodes to the interval that was compressed into it and has any size on
disk. `WithHeader`, `WithChunk`, `WithTable` are `WriteAndClose`, which writes a
blank chunk table first and the real one last; `readHeader` is the test of a file
when it is opened; `StreamFrom` and `ClosedEarly` are what the readers find from an
offset. In `BlobRead` the writer (`wpc`, `file`, `body`) may fail or be stopped
(`Crash`) between any two writes. The upload is the blob, or too short, too long (by
`Surplus`) or of the right length with other contents; a raw file is compared by its
length only, and one that is torn has any number of the bytes that were `Delivered`,
which the next process takes for its size. Then one request is refused (`RefuseName`,
`RefuseURL`, `RefuseDigest`, `Refuse`), misses, or opens the file (`OpenCasblob`,
`OpenRaw`), reads in pieces of any size up to `MaxRead` and is answered; a raw
file is compressed by a goroutine (`enc`) that feeds a pipe (`EncWrite`, `EncEnd`).
A read, a write to the client and the decoder can fail at each step, and the client
can leave. `open` counts the open files, `found` is the size that the cache reports.

### ByteStreamWrite

The receiver (`rcv`, with the message `msg` it is writing), the goroutine of
`Put` (`put`), the handler (`handler`, `result`), the pipe, the two channels
(`recvResult`, `putResult`, each written at most once) and `resp.CommittedSize`
(`committed`). Data is counted, not stored. `RecvEnd`, `RefuseName`,
`SkipExisting`, `RefuseOffset`, `StartPut`, `NextMessage`, `RefuseChangedName` are
one pass of the receive loop up to `pw.Write`; `PipeWrite` is the write, which
waits for a reader, and the rest of the pass. `PutFails` (then Put only discards),
`DecodeFails` and `PutEnds` are the ways in which `Put` ends; `SelectRecv`,
`SelectPut`, `AwaitPut` are the handler. The inner select on the resource name is
for logging only and left out, so is a closed `recvResult`, which nobody closes.
The history variable `origin` says how the call came to know that the cache has
the blob.

### ActionCache

All calls share one action key. A result is a record: its two streams and its files
are slots, each with contents (`raw`), a digest, both or neither; its directories
are trees with files below them. The disk cache below is what these handlers see of
it: `BlobComesOrGoes` and `ResultGoes` happen between any two of their calls to it.
`compressed` is the storage mode, chosen at the start: `CasPut` compares the number of
bytes with the size it is given and, in compressed mode only, the hash. A batch upload
gives it the length of its data, `UpdateActionResult` the size in the digest; contents
under the digest of the empty blob are discarded when that size is zero.

| action | code |
|---|---|
| `StartGet`, `ReadTree`, `TreesRead`, `Validate`, `Validated` | `GetValidatedActionResult`, and the fail-fast search as one lookup per blob |
| `StripContents`, `KeepSlot`, `InlineBlob`, `Inlined` | `maybeInline` of `grpc_ac.go` for each slot in turn |
| `StartStore` (in `StartUpdate` and `StartHttpPut`), `PutAC`, `PutACFails`, `LookupLeaf`, `EmitFromWrite`, `PutContents`, `UpdateDone` | `UpdateActionResult` and PUT of `/ac/`; the part of `diskCache.Put` that buffers the result within the budget and emits its closure; the contents stored afterwards |
| `StartBatch`, `BatchNext` | `BatchUpdateBlobs` |

History variables: `seen[c]`, the blobs that were there at some moment of call `c`,
`stored`, the calls whose result was the stored one at some moment, and the field `excused`, the blobs that the race of a fail-fast search lets through
(finding 2) or that an unsupported compressor makes pass for stored.

### UploadQueue

`put` and `handle` follow each `Put` and the reader it opens on its file; `queue`
and `worker` are the channel and goroutines of `StartUploaders`; `backend` maps an
object's name to the Put whose data it holds. `proxy` is chosen at the start.
`ProxyPut` is the `Put` of all proxies (they differ in the prefix only s3 keeps),
`HttpHead` and `Send`, `S3Upload`, `GrpcReadFails` are their `UploadFile`s, and
`S3Get`, `HttpGet`, `AzblobGet`, `GrpcGet` with the corresponding `Contains` the
reads of other requests. The context of a request, with its storage prefix, is gone
after `PutReturns`. The backend is external: one version per object, any request to
it may fail, and the conditional PUT of s3 is atomic. When its answer is lost the client
library sends it again, so that `S3Upload` may report `already_exists` for the object
that it has just created. A request without the storage prefix it needs falls back to
the configured one (`prefixForContext`).

### Migration and Server

`place` says where each file of the old structure is and `oldDir` whether the old
directory still exists; the code migrates three of them (`ac`, `cas`, `raw`) one after
the other, by the same steps on files of their own, and the model has one. `listing` is what the loop of
`migrateDirectory` has still to send, `mworker` the workers, `itemChan` and
`migErr` the channel and the error of the loop. The loop goes on after it has
received an error and closed the channel, so that the process panics
(`SendToClosed`, `LoopDone`); an error that comes after the loop is received by
nobody (`Stuck`).

`Server` adds `main` (migrating, loading, serving, or how the process ended), the
state of each server (`srv`), its semaphore (`sem`) at which start and stop meet,
the goroutine that stops both (`shut`, `stop`), the reasons to stop, the idle timer
(`timer`, `recent`) and the requests. `Restart` is the
next process after an end, a panic or a kill at any moment; it keeps the files only.
`CallHangs` is the gRPC call whose handler never returns (`EmptyStream` of
`ByteStreamWrite`).
`http.Server.Shutdown` and `grpc.Server.GracefulStop` are external.

## 3. Runs

| run | checks | bounds |
|---|---|---|
| `index` | list = map, totals, capacity, no internal error, evictions from the cold end and no more than needed, exact reservations | 3 keys, 2 clients, blocks of 2, capacity 9, items of 1 to 8 bytes: several evictions for one Add, overwrites in both directions, an item that is too large |
| `index_add` | violated: `AddedIsPresent` | finding 1 |
| `disk` | reservations, every Unreserve works and no Add hangs, no spurious miss, implements `BlobStore` | 2 requests, an action result and a CAS blob (right and wrong), capacity 6, one removal slot, a backend that has the blob and an action result too large to fetch, known and unknown sizes |
| `disk_crash` | one owner per file, before, during and after a stop and restart at any point; requests end, evicted files go | one key, so that two files for it are left behind; a file too large for the index |
| `disk_torn` | violated: `ReadsAreWhole` | finding 3 |
| `findmissing` | exact answers, true errors, stable slice, slots, everything ends | a plain and a fail-fast call, 3 digests in batches of 2, one too large for the backend, 2 slots, clients may go away |
| `findmissing_failfast` | violated: `FailFastComplete` | finding 2 |
| `bytestream_write` | success is true, nothing incomplete is stored, a dead branch, calls and goroutines end | blobs of 0 to 2 bytes, plain and compressed, up to 3 messages of 0 to 2 bytes, offsets -1 to 1 |
| `uploads` | each reader closed once, namespaces, reports of s3, Put never waits | 3 Puts of one hash, two in one namespace and one without the prefix it needs; 2 workers, a queue of 1; one read of the hash in that namespace, in another one or without a prefix, or of a blob that is nowhere; each kind of proxy; answers of s3 lost and PUTs sent again |
| `blobread` | accepted files are whole, the right bytes are sent, requests and goroutines end | casblobs and raw files, whole and torn, from uploads that are right, too short, one byte too long or of other contents; blobs of 2 and 5 bytes in chunks of 2 (one to three chunks, the last one short), chunks of 1 or 3 bytes on disk, reads of at most 2, every offset from -1 to 6, limits -1, 0, 1, 4 |
| `actioncache` | hits are complete, inlining is bounded, closures are complete, the budget is accounted for, what is acknowledged was stored | 2 calls in five pairs of kinds, 5 results (all ways of giving contents, one with a tree, one with wrong digests, one not valid), 3 blobs of which two can vanish and one is in the backend, inlining up to 2 bytes, both storage modes, a budget of 3 with results of up to 2 captured, so that two calls can hold it at once |
| `server` | no file is lost but those of an unmigrated subdirectory, gRPC calls finish, a stop ends unless the migration or a call hangs | 2 workers, 2 files, a subdirectory with 2 more and a foreign entry; one request per server; the process is started twice |

Why the bounds are enough. Two requests are what every race in `disk.go` needs (one
that holds a path or a reservation, one that changes the index); two random parts
let a file be replaced while the old one is open or waits for removal (the slow
path looks the item up again, so a second replacement looks like the first);
capacity 6 with blocks of 2 lets two reservations fill the cache. Requests and
random parts are interchangeable, so runs without liveness use symmetry. Three
messages are a first, a middle and a last one, and three bytes too many for every
blob. Two workers and a queue of one make three Puts overtake, wait and be dropped;
with one version per object a third worker adds nothing, and a read changes nothing,
so one at a time is enough (`MaxReads`). Blobs of one and of three chunks have a
first, a middle and a short last one, and the offsets hit every boundary and both
sides of it. In `actioncache` a reader meets one writer, which is what changes the
result under it, and the environment changes the blobs. In `server` two workers are
one that fails and one that goes on; the second start meets every state that the
first can leave (`MaxStarts`).

Deadlock checking is off in `uploads`, where a system without open requests may
stop, and in `server`, where the last process may end, hang in `Stuck` or wait for a
call that hangs.

## 4. Fairness

Go runs every goroutine that is ready, file operations and the backend return, so
each request and each goroutine gets weak fairness on its steps. In `DiskCache` this
is written out: a request that stays busy takes steps again and again. Both
semaphores of `golang.org/x/sync` serve waiters in order, so acquiring gets strong
fairness. Clients need not send requests, cancel or leave, and processes need not
be stopped. In `ByteStreamWrite` a call of `Recv` returns in the end, since gRPC
fails it when the client is gone or the handler has returned; `Put` need not fail.
In `UploadQueue` only the requests are fair: workers wait for the network, so
`PutsEnd` must hold without them, and `ReadersAreClosed` has their fairness as its
premise. In `BlobRead` writer, handler and compressor are fair, the client is not.
In `Server` the goroutines are fair, the ticker of the idle timer ticks, and a request
that has not hung ends: its client goes on with the stream or the connection is lost.
Nothing is assumed of a call that hangs.

## 5. Exceptions and findings

Some properties name exceptions, because the code has them:

- a Write whose stream is closed before its first message waits for a `Put` that was
  never started (`EmptyStream`, grpc_bytestream.go:564), and a graceful stop, with it
  the process, waits for that call (`Hung` in `ShutdownEnds`);
- the receiver of a compressed upload stays in `pw.Write` when the decoder failed
  (grpc_bytestream.go:471);
- a worker of the gRPC proxy spins on an action result that it cannot read
  (grpcproxy.go:116), and with every worker spinning no upload is closed any more, so
  that `ReadersAreClosed` says nothing once one of them spins;
- a compressed HTTP answer that fails half way ends like a complete one
  (http.go:268);
- a raw CAS file has the length of its blob and whatever contents were uploaded, since
  uncompressed mode does not compare the hash (disk.go:466); one that is torn is served
  to a request that does not know the size, as an HTTP GET (`TornRaw` in `SentIsRight`);
- the closure of a hit leaves out the output files whose contents are in the result
  (disk.go:926; `InlinedFiles` in `ClosureIsComplete`);
- an item whose file cannot be opened or read counts as missing (disk.go:546);
- a hit may lack a blob that the race of finding 2 let through (`excused`);
- `BatchUpdateBlobs` answers OK for a blob with an unsupported compressor if it
  comes first (grpc_cas.go:108);
- a migration hangs when a worker's error comes after the loop (`Stuck`,
  load.go:240), and files of a subdirectory that could not be migrated are removed
  with the old directory (`unread`, load.go:253).

Findings, each a run that ends in a violation of what the repository says:

1. `Add` (lru.go:140) may evict the item it just added and return true.
2. `findMissingCasBlobsInternal` (findmissing.go:151), fail-fast: when the last
   check misses, both branches of the final select are ready; `nil` can be
   returned although a blob is missing.
3. `scanDir` (load.go:459) ignores the setgid marker; a partial file left by a
   stopped process is served as an action result.

Seen while modelling, without a run of its own:

- `Put` in uncompressed mode (disk.go:466) does not compare contents and hash,
  although the comment at disk.go:272 says so.
- `commit` (disk.go:513) can be refused for a Put that holds a reservation, because
  Reserve counts bytes and Add counts blocks: its "INTERNAL ERROR" can be met.
  `EveryUnreserveWorks` is about the others.
- The closure of an action result is not complete in the words of
  `cache/lru_observer.go:34`, which counts the output files to it: those with inlined
  contents are no leaves on a hit (disk.go:926), while `lru_capture.go:181` leaves them
  to the read path.
- An s3 upload whose answer is lost can report `already_exists` for an object that it
  created itself (s3proxy.go:229); nobody counts that object as created.
  `ReportsAreTrue` demands that a reported object exists, and of a created one that it
  holds this upload.
- All requests without the prefix they need share the configured one
  (s3proxy.go:27, 162). `NamespacesKept` counts it as their namespace.
- `BatchUpdateBlobs` puts with the length of its data (grpc_cas.go:121), so that in
  uncompressed mode data of any length is stored under the digest, and
  `UpdateActionResult` confirms contents sent under the digest of the empty blob without
  storing them.
- The migration removes its source directory with all it holds, under the comment
  "Remove the empty directories." (load.go:252).
- `Add`'s own sums (lru.go:115) are not tested for overflow, which matters only for
  a maximum size above half of the int64 range; `ItemAssumption` excludes it. No sum
  that the code does test wraps in run `index`, since larger requests are refused
  first; `SumLargerThanExact` covers wrapped sums.
- The lookup in the backend by `findMissingCasBlobsInternal` takes an error of the
  backend for a miss; `MissingExact` is about a backend that answers.
- After a stop between the replacement of an action result and the removal of the
  old file, access times decide which one is kept (load.go:640).
- A Get can commit an action result from the proxy after a Put of a newer one
  (disk.go:764).
- A CAS file of size zero has a name that `scanDir` rejects (load.go:394), and a
  directory with a name of one letter makes it panic (load.go:192).
- `Contains` of the gRPC proxy closes a reader that is nil (grpcproxy.go:335); the
  outcome "panic" of `UploadQueue`.
- HTTP requests under way are cut off if the process exits while `Shutdown` waits
  (main.go:349): `Serve` returns at once, `run` does not wait for the goroutine that
  stops the servers. `GrpcCallsFinish` is about gRPC for this reason.
- Some early returns leave a descriptor or a response body open (disk.go:596,
  disk.go:780, httpproxy.go:177).

## 6. Proofs

All theorems hold for every value of the constants that the named assumptions of
the modules allow; most of these say no more than that numbers are numbers, sets
are finite where they are counted, and markers such as "idle" are no entries. Those
of substance are `ItemAssumption` (the sums that `Add` does not test stay in range),
`DiskAssumption` (every file, whole or cut short, makes an item of that kind; an
action result is as long on disk as it is), `BlobReadAssumption` (blobs and chunks are
not empty, only ByteStream knows of offsets) and `ActionAssumption` (trees and the
empty blob are blobs with their contents). TLC evaluates each of them.

`SizedLRU_proofs` proves `TypeCorrect`, `ListAndMapAgree`, `TotalsAreExact`,
`CapacityIsKept`, `NoCallFailsInternally` and the action properties
`ReservationsAreExact` and `EvictionIsMinimal`. The inductive invariant `IInv` is the
conjunction of these invariants. Capacity alone is not inductive: that `Add` and
`Reserve` stop evicting in time follows only if the totals are exact (then an empty
list means that everything left is reserved, and the first test of each method has
shown that the reservations leave room), and the totals stay exact only if the list
and the map hold the same keys once each. `LRUIndex_proofs` gives one lemma per method
(`GetKeeps`, `RemoveKeeps`, `ReserveKeeps`, `UnreserveKeeps`, `AddKeeps`) over a
theory of finite sums (`Sums_proofs`; `SumOver` counts, so that no induction is
needed) and of the eviction loop (`LeastStop`, `EvictOldestKeeps`).
`EvictionIsMinimal` rests on `ReserveEvicts` and `AddEvicts`: what goes is the cold
end of the list (`ColdEnd`, stated with `Precedes`, because an `Add` also moves its
key to the front), and with the last victim kept there would be no room (`NoRoom`),
because the loop stops at the least number for which there is. `SumLargerThanExact`
shows that the overflow test is right for all operands in range.

`Queues_proofs` proves, about `FindMissing`, `AnswersAreExact`, `NoLateWrite`,
`ErrorsStayTrue` and `SlotsAreAccounted`. The inductive invariant says how far each
call has come (`Reached`): below that, everything the index has is struck out and each
blob that the backend has, and that is not struck out, has a goroutine under way,
unless the search was cut short; above it no goroutine was started, which is why none
is started twice and the slots add up. `Reasons` relates the context to the recorded
reason, but only until the call returns: the deferred cancel lets late goroutines
record a reason that is none, which nobody reads any more.

`DiskCache_proofs` proves `OneOwner`, `SpaceIsAccounted` and `UnreservesWork` for any number of requests and restarts, and, up to the first
stop of the process, `MissesAreGenuine`, `ReadsWhole` and the refinement
`CacheImplementsStore`. The restriction is needed: a scan after a stop takes in files
that were cut short. Run `disk_torn` shows an action result among them to be served; a
casblob is turned down by its header, so that a Get misses what the index has. The
inductive invariant `Inv` has four layers. What a request may hold at each of its
steps (`RequestInv`) ties the flags that the deferred function looks at to the program
counter. The reservations of the requests add up to `lru.reservedSize`
(`ReservedInv`), which with `IndexInv` of `LRUIndex_proofs` is why `Unreserve` cannot
fail and `Add` cannot hang. Each file belongs to the index, one request, one removal
or the scan (`Owned`, `Distinct`, `Writes`); this is not inductive without the first
layer, since a request gives its file up by clearing a flag. Before a stop, the files
of the index, and those that a Get has looked up and not yet opened, are whole
(`BeforeCrash`): the latter because a path that somebody knows is not used again, so
that the file is either still the one that was looked up or gone. Each action has a
lemma `...Keeps`; the lemmas `RequestStepKeeps`, `OtherStepKeeps` and `EvictStepKeeps`
carry what the other requests and items rely on.

For the refinement each action has a lemma `...Maps`. `StoredIs` says what the mapped
store is in terms of index and files; `SilentMapped`, `StepMapped`, `AnswersMapped`,
`BeginMapped` and `EndMapped` say when a change of index, files and one request is a
step of `BlobStore`. The commit is the only step that adds to the store. A miss maps
to a step because `excused` follows the index and the failed opens in every step
(`WatchedMapped`), a hit
because the file that is opened is the one that was looked up.

`BlobRead_proofs` proves `OnlyWholeIsAccepted` and `ClientsGetTheBlob`. The invariant
of the first (`FileInv`) says that an unfinished file has a blank table (its second
offset is zero, so that the header test fails, whatever the sizes) and frames that
follow each other without a gap from the end of the header, so that the table
written last leads to each of them. The second (`ReadInv`) says that what is still to
be read continues what was sent, up to the end of the blob, in each of the three
forms it can have: frames left in the file, a frame in the pipe, and what the
compressor has still to read. `StreamFromOffset` shows this for the opening at any
offset: the chunk that is chosen holds the offset (`OffsetInChunk`), and the part of
it before the offset is dropped. That intervals follow each other is stated pairwise
(`Covers`), so that appending, taking the first and cutting it need no induction over
the sequence. `FoundInv` adds the size that the request found when it opened the file:
that of the blob, unless the file is raw and torn and the request named no size or that
one.

`ActionCache_proofs` proves `HitsAreComplete`, `InliningIsBounded`,
`ClosuresAreComplete`, `BudgetIsAccounted` and `AcknowledgedIsStored` for any calls,
results and blobs. None of the properties is inductive: each is about the end of a
call, and the invariant `ActionInv` says for each phase what was achieved so far. A
hit is complete because what is not in `todo` any more was seen (`SeenInv`), a
closure because its leaves are those of the result and were all looked up
(`ClosureInv`), inlining is bounded because `soFar` is exactly the sum of the
contents in the slots already visited (`InlineInv`, over `Visited`), and what is
acknowledged is stored because each of the contents is acknowledged or still to come
in `rest` (`StoreInv`). `AckInv` adds that a call which is past its Put has stored its
result, and that what is acknowledged was delivered with it. A lemma `...Keeps` per step is about the record of one call
alone, `StepKeeps` adds that the other calls only see more blobs, and the budget, a
sum over all calls, changes by what the one call takes or gives back (`PlainStep`,
`LastStep`).

`Server_proofs` proves, about `ByteStreamWrite`, `AnswersAreTrue`,
`NothingPartialIsStored` and `EarlyReturnIsDead` for any sizes, offsets and numbers of
messages. Its inductive invariant adds to these what each goroutine relies on of the
others: the pipe is closed only with the receiver's verdict and the receiver has ended
by then (so `pw.Write` cannot fail and the counts agree), `Put` succeeds only on a
pipe that was closed without an error, and "exists" is sent only if no `Put` was
started.

`Queues_proofs` proves, about `UploadQueue`, `EveryHandleHasOneHolder`,
`UploadsStayInNamespace` and `ReportsStayTrue`. The invariant says that an upload is
in one place at a time (`OneHolder`), carries the namespace of its request from the
moment it is queued (`Items`), while the context is there until the Put returns
(`Contexts`), and that what was reported is over, so that nothing sent later can
change what it was about (`Objects`).

`Server_proofs` proves, about `Server`, `NoFileIsLost` and `NoCallIsCutOff`. The
invariant of the first says that, while the migration runs, a file in its old place is
known to somebody (`OldIsKnown`: its entry is to be sent or was not readable, a worker
has it or has failed on it, or the error was received) and that an error that was
received makes the process panic before it removes anything (`ErrorPanics`); a source
directory that is gone has no files (`GoneIsEmpty`). The
invariant of the second is about the order of a stop: the process ends in order only
after the gRPC server's `Serve` has returned, which a graceful stop lets happen only
without open calls.

Only model-checked: all liveness (`RequestsEnd`, `EvictedFilesGo`, `AllEnd`,
`CallIsAnswered`, `GoroutinesEnd`, `PutsEnd`, `ReadersAreClosed`, `ReadsEnd`,
`ShutdownEnds`), because the prover has no rules for fairness and ENABLED; and the
three violations. Every safety property of a passing run is stated by a theorem. No
definition is recursive, since what a recursive definition computes for every input
would be out of the prover's reach; sums, runs of bytes and the eviction loop are
therefore defined by counting, pairwise and as a least number.

## 7. Not modelled, and the plan

Next, in this order:

1. More of what holds of `DiskCache` after a stop: that a blob committed by the process
   that serves it is read whole, of whatever kind, and a `BlobStore` in which a stop
   is a step.
2. The whole `HitIsComplete` with `FindMissing` in place of the lookups that
   `ActionCache` takes one by one.

Left out for good: the remote asset service (a download and a Put, no state of its
own), `QueryWriteStatus` and `GetTree` (lookups and an answer), authentication,
configuration and flags (settings are constants of the models), metrics and logging,
the proxies' update of timestamps (changes no contents), the read client, generated
code, the cloud client libraries and the zstd library. The string functions that
build keys and names are represented by the keys themselves.
