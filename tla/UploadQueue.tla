---------------------------- MODULE UploadQueue -----------------------------
(***************************************************************************)
(* Asynchronous uploads to a proxy backend: the end of diskCache.Put, the  *)
(* bounded queue and the workers of utils/backendproxy, and Put and        *)
(* UploadFile of the four proxies (http, also used for gcs; s3; azblob;    *)
(* grpc); and Get and Contains of the proxies, with which other requests   *)
(* read what is uploaded.                                                  *)
(*                                                                         *)
(* The backend is external: it holds one version of an object at a time,   *)
(* a request to it may fail, and for s3 a PUT that must not replace an     *)
(* object is atomic.                                                       *)
(***************************************************************************)
EXTENDS Naturals, Sequences, FiniteSets, Functions

CONSTANTS
    Request,          \* the Puts of the disk cache
    Reader,           \* the requests that look a blob up in the backend
    MaxReads,         \* how many of them there are in a behaviour
    Key,              \* the key of each: kind and hash
    Kind,             \* the kind of each: "AC", "CAS" or "RAW"
    CtxPrefix,        \* the storage prefix in the context of each; "" if none
    Prefix,           \* the configured prefix
    Worker,           \* the numUploaders goroutines
    MaxQueuedUploads,
    Proxy             \* the kinds of proxy: subset of http, s3, azblob, grpc

ASSUME UploadAssumption ==
    /\ Request \cap Reader = {}
    /\ DOMAIN Key = Request \cup Reader
    /\ Kind \in [Request \cup Reader -> {"AC", "CAS", "RAW"}]
    /\ CtxPrefix \in [Request \cup Reader -> STRING]
    /\ Prefix \in STRING \ {""}
    /\ Request \cap {"none", "miss", "error", "found", "panic"} = {}
    /\ MaxReads \in Nat
    /\ MaxQueuedUploads \in Nat
    /\ Proxy \subseteq {"http", "s3", "azblob", "grpc"}

VARIABLES
    proxy,    \* the kind of proxy in use
    put,      \* where each Put is
    handle,   \* the reader on the file that each Put hands to the proxy
    prefix,   \* the prefix in the context while the request lives
    queue,    \* uploadQueue: UploadReqs
    worker,   \* what each worker does, and with which UploadReq
    backend,  \* the objects of the backend, by prefix and key: whose data it is
    outcome,  \* what s3 reports to its observer for each Put
    got       \* what each reader has found: a Put's data, or how it ended

uploadVars == <<proxy, put, handle, prefix, queue, worker, backend, outcome, got>>

NoItem == [req |-> "none", prefix |-> ""]
Idle == [pc |-> "idle", item |-> NoItem]

UploadInit ==
    /\ proxy \in Proxy
    /\ put = [r \in Request |-> "written"]
    /\ handle = [r \in Request |-> "none"]
    /\ prefix = CtxPrefix
    /\ queue = <<>>
    /\ worker = [w \in Worker |-> Idle]
    /\ backend = [o \in {} |-> "none"]
    /\ outcome = [r \in Request |-> "none"]
    /\ got = [x \in Reader |-> "none"]

-----------------------------------------------------------------------------
(***************************************************************************)
(* The end of diskCache.Put: open the complete tempfile, hand it to the    *)
(* proxy, commit.                                                          *)
(***************************************************************************)

OpenFile(r) ==
    /\ put[r] = "written"
    /\ \/ handle' = [handle EXCEPT ![r] = "open"] /\ put' = [put EXCEPT ![r] = "opened"]
       \/ put' = [put EXCEPT ![r] = "commit"] /\ UNCHANGED handle
    /\ UNCHANGED <<proxy, prefix, queue, worker, backend, outcome, got>>

\* The prefix that s3 keeps with an upload; the other proxies know only their own.
prefixForContext(r) ==
    IF proxy = "s3" /\ Kind[r] # "RAW" /\ prefix[r] # "" THEN prefix[r] ELSE Prefix

Dropped_Leaks(r) ==
    /\ outcome' = IF proxy = "s3" /\ MaxQueuedUploads > 0 /\ Worker # {}
                  THEN [outcome EXCEPT ![r] = "dropped"] ELSE outcome
    /\ UNCHANGED <<handle, queue>>

\* The queue is full, or there is none because no upload may be queued or no
\* worker was asked for.  Without a queue nothing is reported.
Dropped(r) ==
    /\ handle' = [handle EXCEPT ![r] = "closed"]
    /\ outcome' = IF proxy = "s3" /\ MaxQueuedUploads > 0 /\ Worker # {}
                  THEN [outcome EXCEPT ![r] = "dropped"] ELSE outcome
    /\ UNCHANGED queue

ProxyPut_Blocks(r) ==
    /\ put[r] = "opened"
    /\ Len(queue) < MaxQueuedUploads /\ Worker # {}
    /\ queue' = Append(queue, [req |-> r, prefix |-> prefixForContext(r)])
    /\ put' = [put EXCEPT ![r] = "commit"]
    /\ UNCHANGED <<proxy, handle, prefix, worker, backend, outcome, got>>

\* proxy.Put: a send to the queue that does not block.
ProxyPut(r) ==
    /\ put[r] = "opened"
    /\ IF Len(queue) < MaxQueuedUploads /\ Worker # {}
       THEN /\ queue' = Append(queue, [req |-> r, prefix |-> prefixForContext(r)])
            /\ UNCHANGED <<handle, outcome>>
       ELSE Dropped(r)
    /\ put' = [put EXCEPT ![r] = "commit"]
    /\ UNCHANGED <<proxy, prefix, worker, backend, got>>

\* commit succeeds or fails, which makes no difference to the upload: in the second
\* case the file is removed, and the open reader does not notice.  Then the request
\* and its context end.
PutReturns(r) ==
    /\ put[r] = "commit"
    /\ put' = [put EXCEPT ![r] = "ended"]
    /\ prefix' = [prefix EXCEPT ![r] = ""]
    /\ UNCHANGED <<proxy, handle, queue, worker, backend, outcome, got>>

-----------------------------------------------------------------------------
(***************************************************************************)
(* The workers.                                                            *)
(***************************************************************************)

Take(w) ==
    /\ worker[w].pc = "idle" /\ queue # <<>>
    /\ queue' = Tail(queue)
    /\ worker' = [worker EXCEPT ![w] = [pc |-> "upload", item |-> Head(queue)]]
    /\ UNCHANGED <<proxy, put, handle, prefix, backend, outcome, got>>

ObjectKey_AtUpload(item) == <<prefixForContext(item.req), Key[item.req]>>

\* The name under which an upload goes to the backend.
ObjectKey(item) == <<item.prefix, Key[item.req]>>

Store(item) ==
    backend' = [o \in DOMAIN backend \cup {ObjectKey(item)} |->
                   IF o = ObjectKey(item) THEN item.req ELSE backend[o]]

Finish_KeepsOpen(w) ==
    /\ worker' = [worker EXCEPT ![w] = Idle]
    /\ UNCHANGED handle

\* UploadFile closes the reader and returns.
Finish(w) ==
    /\ worker' = [worker EXCEPT ![w] = Idle]
    /\ handle' = [handle EXCEPT ![worker[w].item.req] = "closed"]

\* UploadFile of httpproxy asks first whether the object is there.
HttpHead(w) ==
    LET item == worker[w].item IN
    /\ proxy = "http" /\ worker[w].pc = "upload"
    /\ \/ ObjectKey(item) \in DOMAIN backend /\ Finish(w)
       \/ worker' = [worker EXCEPT ![w].pc = "send"] /\ UNCHANGED handle
    /\ UNCHANGED <<proxy, put, prefix, queue, backend, outcome, got>>

\* UploadFile of azblobproxy and grpcproxy, and the rest of that of httpproxy:
\* send the data.
Send(w) ==
    /\ worker[w].pc = IF proxy = "http" THEN "send" ELSE "upload"
    /\ proxy # "s3"
    /\ Store(worker[w].item) \/ UNCHANGED backend
    /\ Finish(w)
    /\ UNCHANGED <<proxy, put, prefix, queue, outcome, got>>

\* UploadFile of grpcproxy reads an action result until all of it is there or
\* the file ends: after any other read error it tries again for ever.
GrpcReadFails(w) ==
    /\ proxy = "grpc" /\ worker[w].pc = "upload"
    /\ Kind[worker[w].item.req] # "CAS"
    /\ worker' = [worker EXCEPT ![w].pc = "spin"]
    /\ UNCHANGED <<proxy, put, handle, prefix, queue, backend, outcome, got>>

S3Upload_Replaces(w) ==
    LET item == worker[w].item IN
    /\ proxy = "s3" /\ worker[w].pc = "upload"
    /\ \/ /\ Store(item)
          /\ outcome' = [outcome EXCEPT ![item.req] = "created"]
       \/ /\ outcome' = [outcome EXCEPT ![item.req] = "error"]
          /\ UNCHANGED backend
    /\ Finish(w)
    /\ UNCHANGED <<proxy, put, prefix, queue, got>>

\* UploadFile of s3proxy: create the object if it is absent, and report.  The
\* answer to a PUT that created the object may be lost.  The client library then
\* sends it again, since the reader is a file that it can rewind: the second PUT finds
\* the object that the first one made, or the library gives up.
S3Upload(w) ==
    LET item == worker[w].item IN
    /\ proxy = "s3" /\ worker[w].pc = "upload"
    /\ \E status \in {"created", "already_exists", "error"} :
          /\ \/ ObjectKey(item) \notin DOMAIN backend /\ Store(item)
             \/ /\ status = "already_exists" => ObjectKey(item) \in DOMAIN backend
                /\ status # "created"
                /\ UNCHANGED backend
          /\ outcome' = [outcome EXCEPT ![item.req] = status]
    /\ Finish(w)
    /\ UNCHANGED <<proxy, put, prefix, queue, got>>

-----------------------------------------------------------------------------
(***************************************************************************)
(* Get and Contains of the proxies.                                        *)
(***************************************************************************)

\* The object that a reader asks for; the context of a reader that is under way
\* still has its prefix.
Wanted(x) == <<prefixForContext(x), Key[x]>>
Found(x) == Wanted(x) \in DOMAIN backend

Answer(x, a) ==
    /\ got[x] = "none" /\ Cardinality({y \in Reader : got[y] # "none"}) < MaxReads
    /\ got' = [got EXCEPT ![x] = a]
    /\ UNCHANGED <<proxy, put, handle, prefix, queue, worker, backend, outcome>>

\* The early header of a v2 blob gives its logical size: a blob that is too short,
\* or has no positive size, is refused.
ExtractLogicalSize(x) ==
    /\ Found(x)
    /\ \E a \in {backend[Wanted(x)], "error"} :
          (a = "error" => Kind[x] = "CAS") /\ Answer(x, a)

\* What the backend answers to a GET: the data, "not found", or an error.
Fetch(x) ==
    \/ ExtractLogicalSize(x)
    \/ ~Found(x) /\ Answer(x, "miss")
    \/ Answer(x, "error")

S3Get(x) == proxy = "s3" /\ Fetch(x)
HttpGet(x) == proxy = "http" /\ Fetch(x)
AzblobGet(x) == proxy = "azblob" /\ Fetch(x)

\* An action result is asked for as such.  A CAS blob is streamed, and is asked
\* for by its digest first if the size is not known: an absent one is an error.
GrpcGet(x) ==
    /\ proxy = "grpc"
    /\ \/ Found(x) /\ Answer(x, backend[Wanted(x)])
       \/ ~Found(x) /\ Kind[x] # "CAS" /\ Answer(x, "miss")
       \/ Answer(x, "error")

\* A HEAD: every error is a miss.
Stat(x) ==
    \/ Found(x) /\ Answer(x, "found")
    \/ Answer(x, "miss")

S3Contains(x) == proxy = "s3" /\ Stat(x)
HttpContains(x) == proxy = "http" /\ Stat(x)
AzblobContains(x) == proxy = "azblob" /\ Stat(x)

\* For an action result Contains calls Get and closes what that returned, which is
\* nil unless there is a result: the call panics.
GrpcContains(x) ==
    /\ proxy = "grpc"
    /\ \/ Found(x) /\ Answer(x, "found")
       \/ Kind[x] = "CAS" /\ Answer(x, "miss")
       \/ Kind[x] # "CAS" /\ Answer(x, "panic")

ProxyGet(x) == S3Get(x) \/ HttpGet(x) \/ AzblobGet(x) \/ GrpcGet(x)

ProxyContains(x) == S3Contains(x) \/ HttpContains(x) \/ AzblobContains(x) \/ GrpcContains(x)

-----------------------------------------------------------------------------

Requests == \E r \in Request : OpenFile(r) \/ ProxyPut(r) \/ PutReturns(r)

Upload(w) == HttpHead(w) \/ Send(w) \/ GrpcReadFails(w) \/ S3Upload(w)

UploadNext ==
    \/ Requests
    \/ \E w \in Worker : Take(w) \/ Upload(w)
    \/ \E x \in Reader : ProxyGet(x) \/ ProxyContains(x)

UploadSpec == UploadInit /\ [][UploadNext]_uploadVars

\* Requests go on; nothing is said of the workers, which wait for the network.
FairUploadSpec == UploadSpec /\ WF_uploadVars(Requests)

FairWorkers == \A w \in Worker : WF_uploadVars(Take(w)) /\ WF_uploadVars(Upload(w))

-----------------------------------------------------------------------------
(***************************************************************************)
(* Properties.                                                             *)
(***************************************************************************)

InQueue(r) == {i \in 1 .. Len(queue) : queue[i].req = r}
InHand(r) == {w \in Worker : worker[w].item.req = r}

\* A reader is open exactly while one of Put, the queue and the workers has it:
\* it is closed on every way out, and not used after that (the Close calls of
\* Put, lines 153, 286, 224, and of UploadFile).  So no more readers are open than
\* there are Puts, places in the queue and workers.
HandlesAccounted ==
    \A r \in Request :
        Cardinality(InQueue(r)) + Cardinality(InHand(r))
            + (IF put[r] = "opened" THEN 1 ELSE 0)
          = IF handle[r] = "open" THEN 1 ELSE 0

\* The namespace of a request: its own if it has one.  All requests that should have
\* one and do not (s3proxy.go counts them as potential cross-namespace accesses) share
\* the configured one, with each other and with RAW.
Namespace(r) ==
    IF proxy = "s3" /\ Kind[r] # "RAW" /\ CtxPrefix[r] # "" THEN CtxPrefix[r] ELSE Prefix

\* An object holds data of its own key from a request of its own namespace,
\* although the request's context is gone when the upload takes place; and a
\* reader gets data of its key that was put in its namespace: one with a prefix never
\* what was put under another prefix or under none, and one without a prefix never
\* what was put under one.
NamespacesKept ==
    /\ \A o \in DOMAIN backend : o = <<Namespace(backend[o]), Key[backend[o]]>>
    /\ \A x \in Reader : got[x] \in Request =>
          /\ Namespace(got[x]) = Namespace(x)
          /\ Key[got[x]] = Key[x]

\* What s3 reports for the accounting of the storage footprint is true for good,
\* however the workers overtake each other: the object holds the data of the upload
\* that reported "created", so that no object is counted twice, and an object that
\* "already_exists" is there.  (An object whose creation was reported as
\* "already_exists" or "error", for want of the answer, is counted by nobody.)
ReportsAreTrue ==
    proxy = "s3" =>
        \A r \in Request :
            LET o == <<Namespace(r), Key[r]>> IN
            /\ outcome[r] = "created" => o \in DOMAIN backend /\ backend[o] = r
            /\ outcome[r] = "already_exists" => o \in DOMAIN backend

\* A Put ends whatever the workers do ("Doesn't block, should be fast.").
PutsEnd == \A r \in Request : <>(put[r] = "ended")

\* With workers that go on, every reader is closed in the end, unless a worker
\* hangs on a file that it cannot read.
ReadersAreClosed ==
    FairWorkers =>
        <>[](\/ \A r \in Request : handle[r] # "open"
             \/ \E w \in Worker : worker[w].pc = "spin")
=============================================================================
