----------------------------- MODULE DiskCache ------------------------------
(***************************************************************************)
(* The disk cache of cache/disk/disk.go and load.go: concurrent Put, Get   *)
(* and Contains requests over the LRU index, the files below the cache     *)
(* directory, the goroutines that remove evicted files, and a restart that *)
(* rebuilds the index from the files.                                      *)
(*                                                                         *)
(* An action is what one goroutine does between two points where another   *)
(* can run: a critical section of diskCache.mu, or one file operation.     *)
(* The proxy backend is external: it returns any blob of ProxyBlob, or     *)
(* none, or an error, and proxy.Put only reads the file handed to it.      *)
(***************************************************************************)
EXTENDS LRUIndex

CONSTANTS
    Request,     \* the requests in flight
    Kind,        \* the kind, "AC" or "CAS", of each key (RAW is stored like AC)
    Upload,      \* the blobs that clients store: [key, size, sizeOnDisk, good]
    ProxyBlob,   \* the blobs the proxy backend has, as Upload
    AskSize,     \* the sizes that a Get asks for; -1 if unknown
    Random,      \* the random parts of file names
    RemovalSlots,\* the weight of fileRemovalSem
    Compressed,  \* whether the storage mode of the CAS is not casblob.Identity
    HasProxy,    \* whether there is a proxy backend
    MaxProxyBlobSize,
    MaxCrashes   \* bound: how often the process may stop and be restarted

ASSUME DiskAssumption ==
    /\ Kind \in [Key -> {"AC", "CAS"}]
    /\ RemovalSlots \in Nat \ {0}
    /\ MaxCrashes \in Nat
    /\ \A u \in Upload \cup ProxyBlob : Kind[u.key] = "AC" => u.size = u.sizeOnDisk
    /\ IsFiniteSet(Request)
    /\ AskSize \subseteq -1 .. MaxInt
    /\ \A u \in Upload \cup ProxyBlob :
          u \in [key : Key, size : 0 .. MaxInt, sizeOnDisk : Nat, good : BOOLEAN]
    \* The items of whole files, and of files cut short that a scan finds.
    /\ \A u \in Upload \cup ProxyBlob, x \in Random :
       \A onDisk \in {0, 1, u.sizeOnDisk} : \A size \in {u.size, onDisk} :
          [size |-> size, sizeOnDisk |-> onDisk, random |-> x] \in Item

VARIABLES
    lru,      \* diskCache.lru
    disk,     \* the files: a function from <<key, random>> to what they hold
    req,      \* the state of each request
    pending,  \* files whose removal goroutine waits for fileRemovalSem
    removing, \* files whose removal goroutine holds fileRemovalSem
    loading,  \* files found by scanDir and not yet added to the index
    serving,  \* whether loadExistingFiles has returned
    crashes,  \* how often the process has stopped
    excused   \* history: the Gets with a reason to miss: the index was without their
              \* item at some moment of the call, or its file could not be read

vars == <<lru, disk, req, pending, removing, loading, serving, crashes, excused>>

-----------------------------------------------------------------------------
(***************************************************************************)
(* Files and requests.                                                     *)
(***************************************************************************)

NoBlob == [key |-> "none", size |-> 0, sizeOnDisk |-> 0, good |-> TRUE]
NoRandom == "none"

Idle ==
    [pc |-> "idle", op |-> "none", key |-> "none", size |-> 0, blob |-> NoBlob,
     random |-> NoRandom, unreserve |-> FALSE, removeTempfile |-> FALSE,
     blobFile |-> FALSE, result |-> "none"]

\* A file: the blob it is meant to hold, its length, whether all of the blob has
\* been written, and the setgid bit.
TempFile(blob) == [blob |-> blob, len |-> 0, whole |-> FALSE, wip |-> TRUE]

PathOf(r) == <<req[r].key, req[r].random>>
Paths(entries) == {<<e[1], e[2].random>> : e \in entries}
IndexPaths(l) == {<<k, l.cache[k].random>> : k \in DOMAIN l.cache}

\* The paths that some goroutine still knows of.  There are 10^9 random parts:
\* one is not drawn again for the same key while a goroutine knows of the file
\* that had it before.
KnownPaths ==
    DOMAIN disk \cup pending \cup removing \cup {PathOf(r) : r \in Request}

\* The legacy flag of an item, inverted: a file with a casblob header, whose name
\* has the blob's size in it.  Other files are the plain bytes.
Casblob(k) == Kind[k] = "CAS" /\ Compressed

isSizeMismatch(requested, found) ==
    requested > -1 /\ found > -1 /\ requested # found

Step(r, q) == req' = [req EXCEPT ![r] = q]

Goto(q, pc) == [q EXCEPT !.pc = pc]

\* Return from Put or Get through the deferred function.  The caller is then free
\* to send its next request: the state is Idle again.
Return(q, result) == [q EXCEPT !.pc = "defer", !.result = result]

evict(entries) == pending' = pending \cup Paths(entries)

Init ==
    /\ lru = NewSizedLRU
    /\ disk = [p \in {} |-> 0]
    /\ req = [r \in Request |-> Idle]
    /\ pending = {} /\ removing = {} /\ loading = {}
    /\ serving = TRUE
    /\ crashes = 0
    /\ excused = {}

-----------------------------------------------------------------------------
(***************************************************************************)
(* Put.                                                                    *)
(***************************************************************************)

\* The size checks have passed; a non-empty blob reserves its space.
PutReserve(r, u) ==
    LET res == Reserve(lru, u.size)
        put == [Idle EXCEPT !.op = "Put", !.key = u.key, !.size = u.size,
                            !.pc = "create", !.blob = u, !.unreserve = u.size > 0]
    IN  /\ serving /\ req[r] = Idle
        /\ lru' = res.lru
        /\ evict(res.evicted)
        /\ Step(r, IF res.err = "none" THEN put ELSE Idle)
        /\ UNCHANGED <<disk, removing, loading, serving, crashes>>

\* tempfile.Creator.Create, for Put and for a Get from the proxy.
CreateTempfile(r) ==
    LET q == req[r] IN
    /\ q.pc = "create"
    /\ \/ \E x \in Random :
            /\ <<q.key, x>> \notin KnownPaths
            /\ disk' = [p \in DOMAIN disk \cup {<<q.key, x>>} |->
                          IF p = <<q.key, x>> THEN TempFile(q.blob) ELSE disk[p]]
            /\ Step(r, [q EXCEPT !.pc = "write", !.random = x, !.blobFile = TRUE,
                                 !.removeTempfile = TRUE])
       \/ Step(r, Return(q, "error")) /\ UNCHANGED disk
    /\ UNCHANGED <<lru, pending, removing, loading, serving, crashes>>

\* Some of the data reaches the file; a crash can leave it like this.
WriteSome(r) ==
    /\ MaxCrashes > 0
    /\ req[r].pc = "write"
    /\ disk[PathOf(r)].len = 0 /\ req[r].blob.sizeOnDisk > 1
    /\ disk' = [disk EXCEPT ![PathOf(r)].len = 1]
    /\ UNCHANGED <<lru, req, pending, removing, loading, serving, crashes>>

WriteFile_NoHashTest(r) ==
    /\ req[r].pc = "write"
    /\ disk' = [disk EXCEPT ![PathOf(r)].len = req[r].blob.sizeOnDisk,
                            ![PathOf(r)].whole = TRUE]
    /\ Step(r, Goto(req[r], "commit"))
    /\ UNCHANGED <<lru, pending, removing, loading, serving, crashes>>

\* writeAndCloseFile of Put, or the io.Copy of Get from the proxy and the opening
\* of a reader on the result.  casblob.WriteAndClose compares the hash of what it
\* wrote, the plain copy compares the size only.  The stream or the file system
\* may fail at any point.  proxy.Put is called here: it reads the complete file.
WriteFile(r) ==
    LET blob == req[r].blob IN
    /\ req[r].pc = "write"
    /\ \/ /\ req[r].op = "Put" /\ Casblob(blob.key) => blob.good
          /\ disk' = [disk EXCEPT ![PathOf(r)].len = blob.sizeOnDisk,
                                  ![PathOf(r)].whole = TRUE]
          /\ Step(r, Goto(req[r], "commit"))
       \/ Step(r, Return(req[r], "error")) /\ UNCHANGED disk
    /\ UNCHANGED <<lru, pending, removing, loading, serving, crashes>>

CommitOutcome_StillReserved(q, add) ==
    [q EXCEPT !.pc = "defer", !.removeTempfile = ~add.ok,
              !.result = IF ~add.ok THEN "addFailed"
                         ELSE IF q.op = "Put" THEN "ok" ELSE "hit"]

\* What commit returns after the attempt to add, and how Put or Get then ends.
CommitOutcome(q, add) ==
    [q EXCEPT !.pc = "defer", !.unreserve = FALSE, !.removeTempfile = ~add.ok,
              !.result = CASE add.hung -> "hung"
                           [] ~add.ok /\ ~add.hung -> "addFailed"
                           [] add.ok /\ q.op = "Put" -> "ok"
                           [] add.ok /\ q.op = "Get" -> "hit"]

\* commit: give the reservation back and put the file into the index, in one
\* critical section.
Commit(r) ==
    LET q    == req[r]
        unr  == IF q.size > 0 THEN Unreserve(lru, q.size)
                              ELSE [ok |-> TRUE, lru |-> lru]
        item == [size |-> q.blob.size, sizeOnDisk |-> q.blob.sizeOnDisk,
                 random |-> q.random]
        add  == Add(unr.lru, q.key, item)
    IN  /\ q.pc = "commit"
        /\ IF unr.ok
           THEN /\ lru' = add.lru
                /\ evict(add.evicted)
                /\ Step(r, CommitOutcome(q, add))
           ELSE /\ Step(r, Return(q, "unreserveFailed"))
                /\ UNCHANGED <<lru, pending>>
        /\ UNCHANGED <<disk, removing, loading, serving, crashes>>

\* The deferred function of Put and Get, up to the point where it takes the lock:
\* remove the tempfile, or clear its setgid bit if it is still there.
DeferFile(r) ==
    LET q == req[r] IN
    /\ q.pc = "defer" /\ q.result # "hung"
    /\ disk' = CASE q.removeTempfile -> Restrict(disk, DOMAIN disk \ {PathOf(r)})
                 [] ~q.removeTempfile /\ q.blobFile /\ PathOf(r) \in DOMAIN disk ->
                      [disk EXCEPT ![PathOf(r)].wip = FALSE]
                 [] OTHER -> disk
    /\ Step(r, IF q.unreserve THEN Goto(q, "unreserve") ELSE Idle)
    /\ UNCHANGED <<lru, pending, removing, loading, serving, crashes>>

\* The rest of the deferred function.
DeferUnreserve(r) ==
    LET unr == Unreserve(lru, req[r].size) IN
    /\ req[r].pc = "unreserve"
    /\ lru' = unr.lru
    /\ Step(r, IF unr.ok THEN Idle ELSE [Idle EXCEPT !.result = "unreserveFailed"])
    /\ UNCHANGED <<disk, pending, removing, loading, serving, crashes>>

-----------------------------------------------------------------------------
(***************************************************************************)
(* Get and Contains.                                                       *)
(***************************************************************************)

TryProxy_ForgetsReservation(r, l, q) ==
    LET res == Reserve(l, q.size) IN
        IF HasProxy /\ q.size <= MaxProxyBlobSize
        THEN /\ lru' = res.lru
             /\ evict(res.evicted)
             /\ Step(r, Goto(q, "fetch"))
        ELSE /\ lru' = l
             /\ Step(r, Return(q, "miss"))
             /\ UNCHANGED pending

\* The end of availableOrTryProxy after a local miss: reserve space for a blob of
\* known size.  l is the index and q the request at that point.
TryProxy(r, l, q) ==
    LET res == Reserve(l, q.size) IN
        IF HasProxy /\ q.size <= MaxProxyBlobSize
        THEN IF q.size > 0
             THEN /\ lru' = res.lru
                  /\ evict(res.evicted)
                  /\ Step(r, IF res.err = "none"
                             THEN [q EXCEPT !.pc = "fetch", !.unreserve = TRUE]
                             ELSE Return(q, "error"))
             ELSE /\ lru' = l
                  /\ Step(r, Goto(q, "fetch"))
                  /\ UNCHANGED pending
        ELSE /\ lru' = l
             /\ Step(r, Return(q, "miss"))
             /\ UNCHANGED pending

\* The start of availableOrTryProxy: on a hit the lock is released before the
\* file is opened, on a miss it is kept until space is reserved.
GetLookup(r, k, size) ==
    LET get   == [Idle EXCEPT !.op = "Get", !.key = k, !.size = size]
        item  == lru.cache[k]
        found == k \in DOMAIN lru.cache
    IN  /\ serving /\ req[r] = Idle
        /\ IF found
           THEN /\ lru' = Get(lru, k)
                /\ Step(r, IF isSizeMismatch(size, item.size) THEN Goto(get, "miss")
                           ELSE [get EXCEPT !.pc = "open", !.random = item.random])
                /\ UNCHANGED pending
           ELSE TryProxy(r, lru, get)
        /\ UNCHANGED <<disk, removing, loading, serving, crashes>>

\* Whether a Get q that has opened file f turns it down: a casblob that is cut
\* short or has another size is noticed in its header, for AC and RAW the length
\* of the file is compared, for a plain CAS file nothing is.
Rejected(q, f) ==
    CASE Casblob(f.blob.key) -> ~f.whole \/ isSizeMismatch(q.size, f.blob.size)
      [] Kind[f.blob.key] = "AC" -> isSizeMismatch(q.size, f.len)
      [] OTHER -> FALSE

Opened(q, f) ==
    IF Rejected(q, f) THEN Goto(q, "miss")
    ELSE Return(q, IF f.whole THEN "hit" ELSE "torn")

\* Opening path p fails other than for want of the file, or the file is there and
\* cannot be read: the seek, the header or the making of a reader fails.  This is a
\* local miss, but for AC and RAW, where a failed Stat or Seek is an error.
Unreadable(r, q, p) ==
    \/ Step(r, Goto(q, "unreadable"))
    \/ Kind[q.key] = "AC" /\ p \in DOMAIN disk /\ Step(r, Return(q, "error"))

GetOpen_NoRetry(r) ==
    /\ req[r].pc = "open"
    /\ Step(r, IF PathOf(r) \in DOMAIN disk THEN Opened(req[r], disk[PathOf(r)])
                                            ELSE Goto(req[r], "miss"))
    /\ UNCHANGED <<lru, disk, pending, removing, loading, serving, crashes>>

GetOpen(r) ==
    /\ req[r].pc = "open"
    /\ \/ Step(r, IF PathOf(r) \in DOMAIN disk THEN Opened(req[r], disk[PathOf(r)])
                                               ELSE Goto(req[r], "slow"))
       \/ Unreadable(r, req[r], PathOf(r))
    /\ UNCHANGED <<lru, disk, pending, removing, loading, serving, crashes>>

GetSlowPath_Spins(r) ==
    /\ req[r].pc = "slow"
    /\ Step(r, Goto(req[r], "open"))
    /\ UNCHANGED <<lru, disk, pending, removing, loading, serving, crashes>>

\* The file was gone: look again, and this time open it with the lock held.
GetSlowPath(r) ==
    LET q == req[r]
        x == lru.cache[q.key].random
        p == <<q.key, x>>
    IN  /\ q.pc = "slow"
        /\ lru' = Get(lru, q.key)
        /\ \/ Step(r, IF q.key \in DOMAIN lru.cache /\ p \in DOMAIN disk
                      THEN Opened([q EXCEPT !.random = x], disk[p])
                      ELSE Goto(q, "miss"))
           \/ q.key \in DOMAIN lru.cache /\ Unreadable(r, q, p)
        /\ UNCHANGED <<disk, pending, removing, loading, serving, crashes>>

\* A local miss found out after the lock was released takes it again.
GetMiss(r) ==
    /\ req[r].pc \in {"miss", "unreadable"}
    /\ TryProxy(r, lru, [req[r] EXCEPT !.random = NoRandom])
    /\ UNCHANGED <<disk, removing, loading, serving, crashes>>

\* The answer of proxy.Get: an error, nothing, or a blob, which is refused if it
\* is too large or not of the size asked for.
GetFetch(r) ==
    LET q == req[r] IN
    /\ q.pc = "fetch"
    /\ \/ Step(r, Return(q, "error"))
       \/ Step(r, Return(q, "miss"))
       \/ \E b \in ProxyBlob :
            /\ b.key = q.key
            /\ Step(r, IF b.size > MaxProxyBlobSize \/ isSizeMismatch(q.size, b.size)
                       THEN Return(q, "miss")
                       ELSE [q EXCEPT !.pc = "create", !.blob = b])
    /\ UNCHANGED <<lru, disk, pending, removing, loading, serving, crashes>>

\* The local part of Contains, and of findMissingLocalCAS for one digest: it makes
\* the item the most recently used one.
ContainsLookup(k) ==
    /\ serving
    /\ lru' = Get(lru, k)
    /\ UNCHANGED <<disk, req, pending, removing, loading, serving, crashes>>

-----------------------------------------------------------------------------
(***************************************************************************)
(* Removal of evicted files, stop and restart.                             *)
(***************************************************************************)

RemovalAcquire_OffByOne(p) ==
    /\ p \in pending
    /\ Cardinality(removing) < RemovalSlots - 1
    /\ pending' = pending \ {p}
    /\ removing' = removing \cup {p}
    /\ UNCHANGED <<lru, disk, req, loading, serving, crashes>>

RemovalAcquire(p) ==
    /\ p \in pending
    /\ Cardinality(removing) < RemovalSlots
    /\ pending' = pending \ {p}
    /\ removing' = removing \cup {p}
    /\ UNCHANGED <<lru, disk, req, loading, serving, crashes>>

removeFile(p) ==
    /\ p \in removing
    /\ disk' = Restrict(disk, DOMAIN disk \ {p})
    /\ removing' = removing \ {p}
    /\ UNCHANGED <<lru, req, pending, loading, serving, crashes>>

\* The process stops, and scanDir of its successor finds the files.  A scan that fails
\* ends the successor: with the next one this is another stop.
Crash ==
    /\ crashes < MaxCrashes
    /\ crashes' = crashes + 1
    /\ lru' = NewSizedLRU
    /\ req' = [r \in Request |-> Idle]
    /\ pending' = {} /\ removing' = {}
    /\ loading' = DOMAIN disk
    /\ serving' = FALSE
    /\ UNCHANGED disk

\* The item that scanDir makes of a file: the size of a casblob is in the name.
ScannedItem(p) ==
    [size |-> IF Casblob(p[1]) THEN disk[p].blob.size ELSE disk[p].len,
     sizeOnDisk |-> disk[p].len, random |-> p[2]]

LoadFile_NoEvictCallback(p) ==
    /\ p \in loading
    /\ loading' = loading \ {p}
    /\ lru' = Add(lru, p[1], ScannedItem(p)).lru
    /\ UNCHANGED <<disk, req, pending, removing, serving, crashes>>

\* loadExistingFiles adds the files in the order of their access times, which is
\* any order; a file that the index refuses is removed.
LoadFile(p) ==
    LET add == Add(lru, p[1], ScannedItem(p)) IN
    /\ p \in loading
    /\ loading' = loading \ {p}
    /\ lru' = add.lru
    /\ evict(add.evicted)
    /\ disk' = IF add.ok THEN disk ELSE Restrict(disk, DOMAIN disk \ {p})
    /\ UNCHANGED <<req, removing, serving, crashes>>

LoadDone ==
    /\ ~serving /\ loading = {}
    /\ serving' = TRUE
    /\ UNCHANGED <<lru, disk, req, pending, removing, loading, crashes>>

-----------------------------------------------------------------------------

\* Whether index l has nothing for what request q asks for.
Absent(l, q) ==
    q.key \notin DOMAIN l.cache \/ isSizeMismatch(q.size, l.cache[q.key].size)

\* The history variable.
Watch ==
    excused' = {r \in Request :
                  /\ req'[r].op = "Get"
                  /\ \/ r \in excused
                     \/ Absent(lru, req'[r]) \/ Absent(lru', req'[r])
                     \/ req[r].pc \in {"open", "slow"} /\ req'[r].pc = "unreadable"}

RequestStep(r) ==
    \/ \E u \in Upload : PutReserve(r, u)
    \/ \E k \in Key, size \in AskSize : GetLookup(r, k, size)
    \/ CreateTempfile(r)
    \/ WriteSome(r)
    \/ WriteFile(r)
    \/ Commit(r)
    \/ DeferFile(r)
    \/ DeferUnreserve(r)
    \/ GetOpen(r)
    \/ GetSlowPath(r)
    \/ GetMiss(r)
    \/ GetFetch(r)

Next ==
    /\ \/ \E r \in Request : RequestStep(r)
       \/ \E k \in Key : ContainsLookup(k)
       \/ \E p \in pending : RemovalAcquire(p)
       \/ \E p \in removing : removeFile(p)
       \/ Crash
       \/ \E p \in loading : LoadFile(p)
       \/ LoadDone
    /\ Watch

Spec == Init /\ [][Next]_vars

\* The steps that a request takes without waiting for anybody.
Progress(r) ==
    \/ CreateTempfile(r) \/ WriteFile(r) \/ Commit(r) \/ DeferFile(r)
    \/ DeferUnreserve(r) \/ GetOpen(r) \/ GetSlowPath(r)
    \/ GetMiss(r) \/ GetFetch(r)

Busy(r) == req[r].pc # "idle" /\ req[r].result # "hung"

\* Go runs every goroutine that is ready.  A busy request always can take a step
\* (each of them may fail, but none waits), so this is weak fairness of Progress;
\* a removal takes its own steps, and fileRemovalSem serves its waiters first
\* come, first served.  Clients need not send another request, and the process
\* need not stop.
Fairness ==
    /\ \A r \in Request : <>[]Busy(r) => []<><<Progress(r)>>_req
    /\ \A p \in Key \X Random : SF_pending(RemovalAcquire(p)) /\ WF_removing(removeFile(p))

FairSpec == Spec /\ Fairness

-----------------------------------------------------------------------------
(***************************************************************************)
(* Properties.                                                             *)
(***************************************************************************)

\* The tempfiles that a request will remove unless it commits them.
TempPaths ==
    {PathOf(r) : r \in {x \in Request :
        req[x].removeTempfile /\ req[x].pc \in {"write", "commit", "defer"}}}

\* Every file below the cache directory belongs to exactly one of the index, a
\* request that is writing it, a removal goroutine, or the scan of a restart, and
\* each of these finds its file: nothing is leaked, and nothing is removed twice
\* or while somebody still counts on it.
FilesHaveOneOwner ==
    LET owners == <<IndexPaths(lru), TempPaths, pending, removing, loading>> IN
    /\ DOMAIN disk = UNION Range(owners)
    /\ \A i, j \in DOMAIN owners : i # j => owners[i] \cap owners[j] = {}

\* The reserved space is what the requests in flight will give back, through
\* commit or through the deferred function, once each, and the cache with its
\* reservations stays within its capacity.
SpaceAccounted ==
    /\ lru.reservedSize =
         SumOver([r \in Request |-> IF req[r].unreserve THEN req[r].size ELSE 0],
                 Request)
    /\ lru.currentSize = lru.reservedSize + Used(lru)
    /\ lru.currentSize <= MaxSize

\* No request fails to give its reservation back, on any of its paths (the error of
\* a failed Unreserve is one that the code calls internal), and none spins in Add's
\* eviction loop with the lock held.
EveryUnreserveWorks ==
    \A r \in Request : req[r].result \notin {"hung", "unreserveFailed"}

\* A Get does not miss an item that was in the index, with the size asked for and a
\* file that could be read, all the time the Get ran: the slow path makes up for a
\* file that was replaced between the lookup and the opening.
NoSpuriousMiss ==
    \A r \in Request :
        req[r].op = "Get" /\ req[r].pc \in {"miss", "unreadable", "fetch", "create"} =>
            r \in excused

\* A Get never hands out a file that is cut short.
ReadsAreWhole == \A r \in Request : req[r].result # "torn"

\* Every request ends, whatever it meets.
RequestsEnd == \A r \in Request : req[r].pc # "idle" ~> req[r].pc = "idle"

\* Every evicted or replaced file is removed in the end, unless the process stops
\* first: removals are served although there is one slot for many of them.
EvictedFilesGo ==
    \A p \in Key \X Random : p \in pending ~> p \notin DOMAIN disk \/ ~serving

-----------------------------------------------------------------------------
(***************************************************************************)
(* The disk cache implements BlobStore, as long as the process runs: its   *)
(* blobs are those in the index whose file is whole and on the disk.       *)
(***************************************************************************)

Genuine == ProxyBlob \cup {b \in Upload : Casblob(b.key) => b.good}

Stored ==
    [k \in DOMAIN lru.cache |->
        LET p == <<k, lru.cache[k].random>> IN
        IF p \in DOMAIN disk /\ disk[p].whole THEN disk[p].blob ELSE NoBlob]

Answer(result) ==
    CASE result = "none" -> "running"
      [] result \in {"error", "addFailed"} -> "failed"
      [] OTHER -> result

CallOf(q) ==
    IF q.op = "none" THEN [op |-> "none"]
    ELSE [op |-> q.op, key |-> q.key, size |-> q.size,
          blob |-> IF q.op = "Put" THEN q.blob ELSE NoBlob,
          result |-> Answer(q.result)]

Calls == [r \in Request |-> CallOf(req[r])]

Opening == {r \in Request : req[r].op = "Get" /\ req[r].pc \in {"open", "slow"}}

Abstract == INSTANCE BlobStore WITH
    Client <- Request,
    store <- Stored,
    call <- Calls,
    had <- Opening,
    excused <- excused

\* disk.go Put and Get: a Put that returns without an error has stored the whole
\* blob with the right contents, a Get answers with a blob that the cache had
\* during the call or has just fetched, and with a miss only if the cache was
\* without it at some moment of the call or could not read the file that it found;
\* nothing else ever changes what is stored, but for blobs that are evicted.
ImplementsStore == Abstract!Spec
=============================================================================
