-------------------------- MODULE DiskCache_proofs --------------------------
(***************************************************************************)
(* Proofs about DiskCache, for every number of requests, keys, sizes and   *)
(* restarts: each file has one owner, each reservation is given back once, *)
(* no Unreserve fails, and, up to the first stop of the process, a Get     *)
(* misses only what was absent or unreadable, hands out only whole files,  *)
(* and the cache as a whole implements BlobStore.                          *)
(***************************************************************************)
EXTENDS DiskCache, LRUIndex_proofs

-----------------------------------------------------------------------------
(***************************************************************************)
(* The inductive invariant.                                                *)
(***************************************************************************)

Blobs == Upload \cup ProxyBlob
FileType == [blob : Blobs, len : Nat, whole : BOOLEAN, wip : BOOLEAN]
Steps ==
    {"idle", "create", "write", "commit", "defer", "unreserve", "open", "slow",
     "miss", "unreadable", "fetch"}
Results ==
    {"none", "ok", "hit", "miss", "error", "torn", "hung", "addFailed",
     "unreserveFailed"}
RequestType ==
    [pc : Steps, op : {"none", "Put", "Get"}, key : Key \cup {"none"}, size : Int,
     blob : Blobs \cup {NoBlob}, random : Random \cup {NoRandom},
     unreserve : BOOLEAN, removeTempfile : BOOLEAN, blobFile : BOOLEAN,
     result : Results]

\* The files d: each has a length that a write can leave.
FilesOK(d) ==
    /\ DOMAIN d \subseteq Key \X Random
    /\ d = [p \in DOMAIN d |-> d[p]]
    /\ \A p \in DOMAIN d :
          /\ d[p] \in FileType
          /\ d[p].len \in {0, 1, d[p].blob.sizeOnDisk}

TypeInv == FilesOK(disk) /\ req \in [Request -> RequestType] /\ crashes \in Nat

\* What holds of a request by itself, whatever the others do.
RequestInv(q) ==
    /\ q.pc # "idle" => q.key \in Key /\ q.op \in {"Put", "Get"}
    /\ q.pc \in {"open", "slow", "miss", "unreadable", "fetch"} => q.op = "Get"
    /\ -1 <= q.size /\ q.size <= MaxInt
    \* Who holds a reservation.
    /\ q.unreserve => q.size > 0
    /\ q.pc \in {"create", "write", "commit", "fetch"} /\ q.size > 0 => q.unreserve
    /\ q.pc \in {"idle", "open", "slow", "miss", "unreadable"} => ~q.unreserve
    /\ q.pc = "unreserve" => q.unreserve
    \* Who has a tempfile to remove.
    /\ q.pc \in {"write", "commit"} => q.removeTempfile
    /\ q.pc \in {"idle", "create", "open", "slow", "miss", "unreadable", "fetch"} =>
          ~q.removeTempfile
    /\ q.removeTempfile => q.key \in Key /\ q.random \in Random
    \* What it stores.
    /\ q.pc \in {"create", "write", "commit"} =>
          /\ q.blob.key = q.key
          /\ q.op = "Put" => q.blob \in Upload
          /\ q.op = "Get" => q.blob \in ProxyBlob /\ q.size \in {-1, q.blob.size}
    /\ q.pc = "commit" => q.blob \in Genuine
    /\ q.result \notin {"hung", "unreserveFailed"}
    /\ q.pc \notin {"defer", "unreserve"} => q.result = "none"

\* Whether request q has a tempfile, the path that q knows of, and the tempfile.
Holds(q) == q.removeTempfile /\ q.pc \in {"write", "commit", "defer"}
Path(q) == <<q.key, q.random>>
TempOf(q) == IF Holds(q) THEN {Path(q)} ELSE {}

\* A file that holds all of a genuine blob for key k.
Complete(f, k) ==
    /\ f.whole
    /\ f.blob.key = k
    /\ f.len = f.blob.sizeOnDisk
    /\ f.blob \in Genuine

\* The file that a request writes holds what it means to store, and is its own.
Writes(q) ==
    /\ q.pc \in {"write", "commit"} => disk[Path(q)].blob = q.blob
    /\ q.pc = "commit" => Complete(disk[Path(q)], q.key)
Distinct ==
    \A r, s \in Request :
        r # s /\ Holds(req[r]) /\ Holds(req[s]) => Path(req[r]) # Path(req[s])

\* What request q has reserved.
Reserved(q) == IF q.unreserve THEN q.size ELSE 0

ReservedInv ==
    lru.reservedSize = SumOver([r \in Request |-> Reserved(req[r])], Request)

\* FilesHaveOneOwner, owner by owner.
Owned ==
    /\ DOMAIN disk = IndexPaths(lru) \cup TempPaths \cup pending \cup removing
                       \cup loading
    /\ IndexPaths(lru) \cap (TempPaths \cup pending \cup removing \cup loading) = {}
    /\ TempPaths \cap (pending \cup removing \cup loading) = {}
    /\ pending \cap (removing \cup loading) = {}
    /\ removing \cap loading = {}

\* The files of the index, and those that a Get is about to open, are whole: no
\* path is used again while somebody knows of it.
IndexFile(k) ==
    LET f == disk[<<k, lru.cache[k].random>>] IN
    Complete(f, k) /\ f.blob.size = lru.cache[k].size
OpenFile(q) ==
    LET f == disk[Path(q)] IN
    Complete(f, q.key) /\ ~isSizeMismatch(q.size, f.blob.size)

BeforeCrash ==
    /\ loading = {}
    /\ \A k \in DOMAIN lru.cache : IndexFile(k)
    /\ \A r \in Request :
          req[r].pc = "open" /\ Path(req[r]) \in DOMAIN disk => OpenFile(req[r])
    /\ NoSpuriousMiss
    /\ ReadsAreWhole

Inv ==
    /\ TypeInv
    /\ \A r \in Request : RequestInv(req[r])
    /\ IndexInv(lru)
    /\ ReservedInv
    /\ \A r \in Request : Writes(req[r])
    /\ Distinct
    /\ Owned
    /\ crashes = 0 => BeforeCrash

-----------------------------------------------------------------------------
(***************************************************************************)
(* Paths.                                                                  *)
(***************************************************************************)

\* FilesHaveOneOwner is about the five owners of Owned.
LEMMA OwnersUnfolded == Owned <=> FilesHaveOneOwner
<1> DEFINE owners == <<IndexPaths(lru), TempPaths, pending, removing, loading>>
<1>1. DOMAIN owners = 1 .. 5
  OBVIOUS
<1>2. /\ owners[1] = IndexPaths(lru) /\ owners[2] = TempPaths
      /\ owners[3] = pending /\ owners[4] = removing /\ owners[5] = loading
  OBVIOUS
<1> HIDE DEF owners
<1>3. UNION Range(owners) = owners[1] \cup owners[2] \cup owners[3] \cup owners[4]
                              \cup owners[5]
  <2>1. Range(owners) = {owners[1], owners[2], owners[3], owners[4], owners[5]}
    BY <1>1 DEF Range
  <2> QED
    BY <2>1
<1>4. (\A i, j \in DOMAIN owners : i # j => owners[i] \cap owners[j] = {}) <=>
        /\ owners[1] \cap (owners[2] \cup owners[3] \cup owners[4] \cup owners[5]) = {}
        /\ owners[2] \cap (owners[3] \cup owners[4] \cup owners[5]) = {}
        /\ owners[3] \cap (owners[4] \cup owners[5]) = {}
        /\ owners[4] \cap owners[5] = {}
  <2>1. ASSUME \A i, j \in DOMAIN owners : i # j => owners[i] \cap owners[j] = {}
        PROVE  /\ owners[1] \cap (owners[2] \cup owners[3] \cup owners[4] \cup owners[5]) = {}
               /\ owners[2] \cap (owners[3] \cup owners[4] \cup owners[5]) = {}
               /\ owners[3] \cap (owners[4] \cup owners[5]) = {}
               /\ owners[4] \cap owners[5] = {}
    BY <1>1, <2>1
  <2>2. ASSUME /\ owners[1] \cap (owners[2] \cup owners[3] \cup owners[4] \cup owners[5]) = {}
               /\ owners[2] \cap (owners[3] \cup owners[4] \cup owners[5]) = {}
               /\ owners[3] \cap (owners[4] \cup owners[5]) = {}
               /\ owners[4] \cap owners[5] = {},
               NEW i \in DOMAIN owners, NEW j \in DOMAIN owners, i # j
        PROVE  owners[i] \cap owners[j] = {}
    <3>1. i \in {1, 2, 3, 4, 5} /\ j \in {1, 2, 3, 4, 5}
      BY <1>1
    <3> QED
      BY <2>2, <3>1
  <2> QED
    BY <2>1, <2>2
<1> QED
  BY <1>2, <1>3, <1>4 DEF Owned, FilesHaveOneOwner, owners

\* The paths of the entries that reach onEvict.
LEMMA PathsOfEntries ==
    ASSUME NEW f, NEW S
    PROVE  Paths(Entries(f, S)) = {<<k, f[k].random>> : k \in S}
<1>1. ASSUME NEW k \in S PROVE <<k, f[k].random>> \in Paths(Entries(f, S))
  <2>1. <<k, f[k]>> \in Entries(f, S)
    BY DEF Entries
  <2>2. <<k, f[k]>>[1] = k /\ <<k, f[k]>>[2] = f[k]
    OBVIOUS
  <2> QED
    BY <2>1, <2>2, Zenon DEF Paths
<1>2. ASSUME NEW p \in Paths(Entries(f, S))
      PROVE  p \in {<<k, f[k].random>> : k \in S}
  <2>1. PICK e \in Entries(f, S) : p = <<e[1], e[2].random>>
    BY Zenon DEF Paths
  <2>2. PICK k \in S : e = <<k, f[k]>>
    BY Zenon DEF Entries
  <2> QED
    BY <2>1, <2>2
<1> QED
  BY <1>1, <1>2

\* The paths of index l are split between what Reserve keeps and what it evicts.
LEMMA ReservePaths ==
    ASSUME NEW l, IndexInv(l), NEW size
    PROVE  LET r == Reserve(l, size) IN
           /\ IndexPaths(r.lru) \cup Paths(r.evicted) = IndexPaths(l)
           /\ IndexPaths(r.lru) \cap Paths(r.evicted) = {}
           /\ \A k \in DOMAIN r.lru.cache :
                 k \in DOMAIN l.cache /\ r.lru.cache[k] = l.cache[k]
<1> DEFINE r == Reserve(l, size)
<1>1. PICK gone \in SUBSET DOMAIN l.cache :
        /\ Without(r.lru.cache, l.cache, gone)
        /\ r.evicted = Entries(l.cache, gone)
  BY ReserveDrops
<1> HIDE DEF r
<1>2. /\ DOMAIN r.lru.cache = DOMAIN l.cache \ gone
      /\ \A k \in DOMAIN r.lru.cache : r.lru.cache[k] = l.cache[k]
  BY <1>1 DEF Without, Restrict
<1>3. Paths(r.evicted) = {<<k, l.cache[k].random>> : k \in gone}
  BY <1>1, PathsOfEntries
<1> QED
  BY <1>2, <1>3 DEF IndexPaths, r

\* An Add that fails leaves the paths alone.  One that succeeds splits them, and
\* the path of the new item, between what it keeps and what it evicts.
LEMMA AddPaths ==
    ASSUME NEW l, IndexInv(l), NEW k \in Key, NEW item \in Item,
           <<k, item.random>> \notin IndexPaths(l)
    PROVE  LET r == Add(l, k, item) IN
           /\ ~r.ok => r.lru = l /\ Paths(r.evicted) = {}
           /\ r.ok =>
                /\ IndexPaths(r.lru) \cup Paths(r.evicted)
                     = IndexPaths(l) \cup {<<k, item.random>>}
                /\ IndexPaths(r.lru) \cap Paths(r.evicted) = {}
                /\ \A j \in DOMAIN r.lru.cache :
                      \/ j = k /\ r.lru.cache[j] = item
                      \/ j # k /\ j \in DOMAIN l.cache /\ r.lru.cache[j] = l.cache[j]
<1> DEFINE r == Add(l, k, item)
           f == With(l.cache, k, item)
<1>1. CASE ~r.ok
  <2>1. r.lru = l /\ r.evicted = {}
    BY <1>1, AddReplaces
  <2> HIDE DEF r
  <2> QED
    BY <1>1, <2>1 DEF Paths, r
<1>2. CASE r.ok
  <2>1. PICK gone \in SUBSET DOMAIN f :
          /\ Without(r.lru.cache, f, gone)
          /\ r.evicted = Entries(l.cache, {k} \cap DOMAIN l.cache) \cup Entries(f, gone)
    BY <1>2, AddReplaces
  <2>2. /\ DOMAIN f = DOMAIN l.cache \cup {k}
        /\ f[k] = item
        /\ \A j \in DOMAIN l.cache \ {k} : f[j] = l.cache[j]
    BY DEF With
  <2> HIDE DEF r, f
  <2>3. /\ DOMAIN r.lru.cache = DOMAIN f \ gone
        /\ \A j \in DOMAIN r.lru.cache : r.lru.cache[j] = f[j]
    BY <2>1 DEF Without, Restrict
  <2>4. Paths(r.evicted) = {<<j, l.cache[j].random>> : j \in {k} \cap DOMAIN l.cache}
                             \cup {<<j, f[j].random>> : j \in gone}
    <3>1. Paths(r.evicted) = Paths(Entries(l.cache, {k} \cap DOMAIN l.cache))
                               \cup Paths(Entries(f, gone))
      BY <2>1 DEF Paths
    <3> QED
      BY <3>1, PathsOfEntries
  <2>5. IndexPaths(r.lru) = {<<j, f[j].random>> : j \in DOMAIN f \ gone}
    BY <2>3 DEF IndexPaths
  <2>6. IndexPaths(l) = {<<j, l.cache[j].random>> : j \in DOMAIN l.cache}
    BY DEF IndexPaths
  <2>7. IndexPaths(r.lru) \cup Paths(r.evicted) = IndexPaths(l) \cup {<<k, item.random>>}
    BY <2>2, <2>4, <2>5, <2>6
  <2>8. IndexPaths(r.lru) \cap Paths(r.evicted) = {}
    BY <2>2, <2>4, <2>5, <2>6
  <2>9. \A j \in DOMAIN r.lru.cache :
           \/ j = k /\ r.lru.cache[j] = item
           \/ j # k /\ j \in DOMAIN l.cache /\ r.lru.cache[j] = l.cache[j]
    BY <2>2, <2>3
  <2> QED
    BY <1>2, <2>7, <2>8, <2>9 DEF r
<1> QED
  BY <1>1, <1>2

-----------------------------------------------------------------------------
(***************************************************************************)
(* Requests: the fields of a request after each kind of change.            *)
(***************************************************************************)

\* A blob that is stored has a key and sizes.
LEMMA BlobType ==
    ASSUME NEW b \in Blobs
    PROVE  /\ b.key \in Key /\ b.size \in 0 .. MaxInt /\ b.sizeOnDisk \in Nat
           /\ b.good \in BOOLEAN
           /\ Kind[b.key] = "AC" => b.size = b.sizeOnDisk
  BY DiskAssumption DEF Blobs

\* The request before it is sent.
LEMMA IdleFields ==
    /\ Idle \in RequestType
    /\ Idle.pc = "idle" /\ Idle.op = "none" /\ Idle.key = "none" /\ Idle.size = 0
    /\ Idle.random = NoRandom /\ ~Idle.unreserve /\ ~Idle.removeTempfile
    /\ Idle.result = "none"
<1>1. ASSUME NEW s \in Steps, NEW t \in {"none", "Put", "Get"}, NEW n \in Int,
             NEW k \in Key \cup {"none"}, NEW b \in Blobs \cup {NoBlob},
             NEW x \in Random \cup {NoRandom}, NEW f \in BOOLEAN, NEW v \in Results
      PROVE  [pc |-> s, op |-> t, key |-> k, size |-> n, blob |-> b, random |-> x,
              unreserve |-> f, removeTempfile |-> f, blobFile |-> f, result |-> v]
               \in RequestType
  BY Zenon DEF RequestType
<1>2. /\ "idle" \in Steps /\ "none" \in {"none", "Put", "Get"} /\ 0 \in Int
      /\ "none" \in Key \cup {"none"} /\ NoBlob \in Blobs \cup {NoBlob}
      /\ NoRandom \in Random \cup {NoRandom} /\ FALSE \in BOOLEAN
      /\ "none" \in Results
  BY DEF Steps, Results
<1>3. Idle \in RequestType
  BY <1>1, <1>2, Zenon DEF Idle
<1> QED
  BY <1>3 DEF Idle

\* A request with one field changed: every change that an action makes is a chain
\* of these.
SetPc(q, v) == [q EXCEPT !.pc = v]
SetOp(q, v) == [q EXCEPT !.op = v]
SetKey(q, v) == [q EXCEPT !.key = v]
SetSize(q, v) == [q EXCEPT !.size = v]
SetBlob(q, v) == [q EXCEPT !.blob = v]
SetRandom(q, v) == [q EXCEPT !.random = v]
SetUnreserve(q, v) == [q EXCEPT !.unreserve = v]
SetRemoveTempfile(q, v) == [q EXCEPT !.removeTempfile = v]
SetBlobFile(q, v) == [q EXCEPT !.blobFile = v]
SetResult(q, v) == [q EXCEPT !.result = v]

\* The fields after the step has changed.
LEMMA SetPcFields ==
    ASSUME NEW q \in RequestType, NEW v \in Steps
    PROVE  LET c == SetPc(q, v) IN
           /\ c \in RequestType
           /\ c.pc = v /\ c.op = q.op /\ c.key = q.key
           /\ c.size = q.size /\ c.blob = q.blob /\ c.random = q.random
           /\ c.unreserve = q.unreserve /\ c.removeTempfile = q.removeTempfile
           /\ c.blobFile = q.blobFile /\ c.result = q.result
<1> DEFINE c == SetPc(q, v)
<1>1. c \in RequestType
  BY Zenon DEF RequestType, SetPc
<1>2. /\ c.pc = v /\ c.op = q.op /\ c.key = q.key
      /\ c.size = q.size /\ c.blob = q.blob /\ c.random = q.random
      /\ c.unreserve = q.unreserve /\ c.removeTempfile = q.removeTempfile
      /\ c.blobFile = q.blobFile /\ c.result = q.result
  BY DEF RequestType, SetPc
<1> QED
  BY <1>1, <1>2

\* The fields after the operation has changed.
LEMMA SetOpFields ==
    ASSUME NEW q \in RequestType, NEW v \in {"none", "Put", "Get"}
    PROVE  LET c == SetOp(q, v) IN
           /\ c \in RequestType
           /\ c.pc = q.pc /\ c.op = v /\ c.key = q.key
           /\ c.size = q.size /\ c.blob = q.blob /\ c.random = q.random
           /\ c.unreserve = q.unreserve /\ c.removeTempfile = q.removeTempfile
           /\ c.blobFile = q.blobFile /\ c.result = q.result
<1> DEFINE c == SetOp(q, v)
<1>1. c \in RequestType
  BY Zenon DEF RequestType, SetOp
<1>2. /\ c.pc = q.pc /\ c.op = v /\ c.key = q.key
      /\ c.size = q.size /\ c.blob = q.blob /\ c.random = q.random
      /\ c.unreserve = q.unreserve /\ c.removeTempfile = q.removeTempfile
      /\ c.blobFile = q.blobFile /\ c.result = q.result
  BY DEF RequestType, SetOp
<1> QED
  BY <1>1, <1>2

\* The fields after the key has changed.
LEMMA SetKeyFields ==
    ASSUME NEW q \in RequestType, NEW v \in Key \cup {"none"}
    PROVE  LET c == SetKey(q, v) IN
           /\ c \in RequestType
           /\ c.pc = q.pc /\ c.op = q.op /\ c.key = v
           /\ c.size = q.size /\ c.blob = q.blob /\ c.random = q.random
           /\ c.unreserve = q.unreserve /\ c.removeTempfile = q.removeTempfile
           /\ c.blobFile = q.blobFile /\ c.result = q.result
<1> DEFINE c == SetKey(q, v)
<1>1. c \in RequestType
  BY Zenon DEF RequestType, SetKey
<1>2. /\ c.pc = q.pc /\ c.op = q.op /\ c.key = v
      /\ c.size = q.size /\ c.blob = q.blob /\ c.random = q.random
      /\ c.unreserve = q.unreserve /\ c.removeTempfile = q.removeTempfile
      /\ c.blobFile = q.blobFile /\ c.result = q.result
  BY DEF RequestType, SetKey
<1> QED
  BY <1>1, <1>2

\* The fields after the size has changed.
LEMMA SetSizeFields ==
    ASSUME NEW q \in RequestType, NEW v \in Int
    PROVE  LET c == SetSize(q, v) IN
           /\ c \in RequestType
           /\ c.pc = q.pc /\ c.op = q.op /\ c.key = q.key
           /\ c.size = v /\ c.blob = q.blob /\ c.random = q.random
           /\ c.unreserve = q.unreserve /\ c.removeTempfile = q.removeTempfile
           /\ c.blobFile = q.blobFile /\ c.result = q.result
<1> DEFINE c == SetSize(q, v)
<1>1. c \in RequestType
  BY Zenon DEF RequestType, SetSize
<1>2. /\ c.pc = q.pc /\ c.op = q.op /\ c.key = q.key
      /\ c.size = v /\ c.blob = q.blob /\ c.random = q.random
      /\ c.unreserve = q.unreserve /\ c.removeTempfile = q.removeTempfile
      /\ c.blobFile = q.blobFile /\ c.result = q.result
  BY DEF RequestType, SetSize
<1> QED
  BY <1>1, <1>2

\* The fields after the blob has changed.
LEMMA SetBlobFields ==
    ASSUME NEW q \in RequestType, NEW v \in Blobs \cup {NoBlob}
    PROVE  LET c == SetBlob(q, v) IN
           /\ c \in RequestType
           /\ c.pc = q.pc /\ c.op = q.op /\ c.key = q.key
           /\ c.size = q.size /\ c.blob = v /\ c.random = q.random
           /\ c.unreserve = q.unreserve /\ c.removeTempfile = q.removeTempfile
           /\ c.blobFile = q.blobFile /\ c.result = q.result
<1> DEFINE c == SetBlob(q, v)
<1>1. c \in RequestType
  BY Zenon DEF RequestType, SetBlob
<1>2. /\ c.pc = q.pc /\ c.op = q.op /\ c.key = q.key
      /\ c.size = q.size /\ c.blob = v /\ c.random = q.random
      /\ c.unreserve = q.unreserve /\ c.removeTempfile = q.removeTempfile
      /\ c.blobFile = q.blobFile /\ c.result = q.result
  BY DEF RequestType, SetBlob
<1> QED
  BY <1>1, <1>2

\* The fields after the random part has changed.
LEMMA SetRandomFields ==
    ASSUME NEW q \in RequestType, NEW v \in Random \cup {NoRandom}
    PROVE  LET c == SetRandom(q, v) IN
           /\ c \in RequestType
           /\ c.pc = q.pc /\ c.op = q.op /\ c.key = q.key
           /\ c.size = q.size /\ c.blob = q.blob /\ c.random = v
           /\ c.unreserve = q.unreserve /\ c.removeTempfile = q.removeTempfile
           /\ c.blobFile = q.blobFile /\ c.result = q.result
<1> DEFINE c == SetRandom(q, v)
<1>1. c \in RequestType
  BY Zenon DEF RequestType, SetRandom
<1>2. /\ c.pc = q.pc /\ c.op = q.op /\ c.key = q.key
      /\ c.size = q.size /\ c.blob = q.blob /\ c.random = v
      /\ c.unreserve = q.unreserve /\ c.removeTempfile = q.removeTempfile
      /\ c.blobFile = q.blobFile /\ c.result = q.result
  BY DEF RequestType, SetRandom
<1> QED
  BY <1>1, <1>2

\* The fields after what is to be given back has changed.
LEMMA SetUnreserveFields ==
    ASSUME NEW q \in RequestType, NEW v \in BOOLEAN
    PROVE  LET c == SetUnreserve(q, v) IN
           /\ c \in RequestType
           /\ c.pc = q.pc /\ c.op = q.op /\ c.key = q.key
           /\ c.size = q.size /\ c.blob = q.blob /\ c.random = q.random
           /\ c.unreserve = v /\ c.removeTempfile = q.removeTempfile
           /\ c.blobFile = q.blobFile /\ c.result = q.result
<1> DEFINE c == SetUnreserve(q, v)
<1>1. c \in RequestType
  BY Zenon DEF RequestType, SetUnreserve
<1>2. /\ c.pc = q.pc /\ c.op = q.op /\ c.key = q.key
      /\ c.size = q.size /\ c.blob = q.blob /\ c.random = q.random
      /\ c.unreserve = v /\ c.removeTempfile = q.removeTempfile
      /\ c.blobFile = q.blobFile /\ c.result = q.result
  BY DEF RequestType, SetUnreserve
<1> QED
  BY <1>1, <1>2

\* The fields after whether the tempfile is to be removed has changed.
LEMMA SetRemoveTempfileFields ==
    ASSUME NEW q \in RequestType, NEW v \in BOOLEAN
    PROVE  LET c == SetRemoveTempfile(q, v) IN
           /\ c \in RequestType
           /\ c.pc = q.pc /\ c.op = q.op /\ c.key = q.key
           /\ c.size = q.size /\ c.blob = q.blob /\ c.random = q.random
           /\ c.unreserve = q.unreserve /\ c.removeTempfile = v
           /\ c.blobFile = q.blobFile /\ c.result = q.result
<1> DEFINE c == SetRemoveTempfile(q, v)
<1>1. c \in RequestType
  BY Zenon DEF RequestType, SetRemoveTempfile
<1>2. /\ c.pc = q.pc /\ c.op = q.op /\ c.key = q.key
      /\ c.size = q.size /\ c.blob = q.blob /\ c.random = q.random
      /\ c.unreserve = q.unreserve /\ c.removeTempfile = v
      /\ c.blobFile = q.blobFile /\ c.result = q.result
  BY DEF RequestType, SetRemoveTempfile
<1> QED
  BY <1>1, <1>2

\* The fields after whether there is a file has changed.
LEMMA SetBlobFileFields ==
    ASSUME NEW q \in RequestType, NEW v \in BOOLEAN
    PROVE  LET c == SetBlobFile(q, v) IN
           /\ c \in RequestType
           /\ c.pc = q.pc /\ c.op = q.op /\ c.key = q.key
           /\ c.size = q.size /\ c.blob = q.blob /\ c.random = q.random
           /\ c.unreserve = q.unreserve /\ c.removeTempfile = q.removeTempfile
           /\ c.blobFile = v /\ c.result = q.result
<1> DEFINE c == SetBlobFile(q, v)
<1>1. c \in RequestType
  BY Zenon DEF RequestType, SetBlobFile
<1>2. /\ c.pc = q.pc /\ c.op = q.op /\ c.key = q.key
      /\ c.size = q.size /\ c.blob = q.blob /\ c.random = q.random
      /\ c.unreserve = q.unreserve /\ c.removeTempfile = q.removeTempfile
      /\ c.blobFile = v /\ c.result = q.result
  BY DEF RequestType, SetBlobFile
<1> QED
  BY <1>1, <1>2

\* The fields after the result has changed.
LEMMA SetResultFields ==
    ASSUME NEW q \in RequestType, NEW v \in Results
    PROVE  LET c == SetResult(q, v) IN
           /\ c \in RequestType
           /\ c.pc = q.pc /\ c.op = q.op /\ c.key = q.key
           /\ c.size = q.size /\ c.blob = q.blob /\ c.random = q.random
           /\ c.unreserve = q.unreserve /\ c.removeTempfile = q.removeTempfile
           /\ c.blobFile = q.blobFile /\ c.result = v
<1> DEFINE c == SetResult(q, v)
<1>1. c \in RequestType
  BY Zenon DEF RequestType, SetResult
<1>2. /\ c.pc = q.pc /\ c.op = q.op /\ c.key = q.key
      /\ c.size = q.size /\ c.blob = q.blob /\ c.random = q.random
      /\ c.unreserve = q.unreserve /\ c.removeTempfile = q.removeTempfile
      /\ c.blobFile = q.blobFile /\ c.result = v
  BY DEF RequestType, SetResult
<1> QED
  BY <1>1, <1>2

\* The request that a client sends.
Begun(o, k, n) == [Idle EXCEPT !.op = o, !.key = k, !.size = n]

\* The fields of a request that a client sends.
LEMMA BegunFields ==
    ASSUME NEW o \in {"none", "Put", "Get"}, NEW k \in Key, NEW n \in Int
    PROVE  LET c == Begun(o, k, n) IN
           /\ c \in RequestType
           /\ c.pc = "idle" /\ c.op = o /\ c.key = k /\ c.size = n
           /\ c.random = NoRandom /\ ~c.unreserve /\ ~c.removeTempfile
           /\ c.result = "none"
<1> DEFINE b == SetOp(Idle, o)
           c == SetSize(SetKey(b, k), n)
<1>1. Begun(o, k, n) = c
  BY DEF Begun, SetOp, SetKey, SetSize
<1>2. /\ b \in RequestType
      /\ b.pc = "idle" /\ b.op = o
      /\ b.random = NoRandom /\ b.unreserve = FALSE /\ b.removeTempfile = FALSE
      /\ b.result = "none"
  BY IdleFields, SetOpFields
<1> HIDE DEF b
<1>3. k \in Key \cup {"none"}
  OBVIOUS
<1>4. /\ c \in RequestType
      /\ c.pc = "idle" /\ c.op = o /\ c.key = k /\ c.size = n
      /\ c.random = NoRandom /\ c.unreserve = FALSE /\ c.removeTempfile = FALSE
      /\ c.result = "none"
  BY <1>2, <1>3, SetKeyFields, SetSizeFields
<1> QED
  BY <1>1, <1>4

\* A step of request r changes r only.
LEMMA StepFields ==
    ASSUME TypeInv, NEW r \in Request, NEW q \in RequestType, Step(r, q)
    PROVE  /\ req' \in [Request -> RequestType]
           /\ req'[r] = q
           /\ \A s \in Request \ {r} : req'[s] = req[s]
  BY DEF TypeInv, Step

-----------------------------------------------------------------------------
(***************************************************************************)
(* Reservations.                                                           *)
(***************************************************************************)

\* What a request has reserved is a natural number.
LEMMA ReservedType ==
    ASSUME NEW q \in RequestType, RequestInv(q)
    PROVE  /\ Reserved(q) \in 0 .. MaxInt
           /\ q.unreserve => Reserved(q) = q.size /\ q.size \in 1 .. MaxInt
           /\ ~q.unreserve => Reserved(q) = 0
<1>1. q.size \in Int /\ MaxInt \in Nat
  BY SizeAssumption DEF RequestType
<1> QED
  BY <1>1 DEF Reserved, RequestInv, RequestType

\* No request has reserved more than all of them together.
LEMMA ReservedBound ==
    ASSUME Inv, NEW r \in Request
    PROVE  Reserved(req[r]) <= lru.reservedSize
<1> DEFINE f == [s \in Request |-> Reserved(req[s])]
<1>1. \A s \in Request : f[s] \in Nat
  <2>1. \A s \in Request : req[s] \in RequestType /\ RequestInv(req[s])
    BY DEF Inv, TypeInv
  <2> QED
    BY <2>1, ReservedType, SizeAssumption
<1>2. f[r] = Reserved(req[r])
  OBVIOUS
<1>3. lru.reservedSize = SumOver(f, Request)
  BY DEF Inv, ReservedInv
<1>4. IsFiniteSet(Request)
  BY DiskAssumption
<1> HIDE DEF f
<1>5. SumOver(f, Request \ {r}) = SumOver(f, Request) - SumOver(f, {r})
  BY <1>1, <1>4, SumWithout
<1>6. SumOver(f, {r}) = f[r]
  BY <1>1, SumOne
<1>7. SumOver(f, Request \ {r}) \in Nat /\ SumOver(f, Request) \in Nat
  <2>1. IsFiniteSet(Request \ {r})
    BY <1>4, FS_Subset
  <2> QED
    BY <1>1, <1>4, <2>1, SumType
<1>8. f[r] \in Nat
  BY <1>1
<1>9. f[r] <= SumOver(f, Request)
  BY <1>5, <1>6, <1>7, <1>8
<1> QED
  BY <1>2, <1>3, <1>9

\* The total follows the reservation of the request that takes a step.
LEMMA ReservedStep ==
    ASSUME Inv, NEW r \in Request, NEW q \in RequestType, RequestInv(q), Step(r, q),
           lru'.reservedSize = lru.reservedSize - Reserved(req[r]) + Reserved(q)
    PROVE  ReservedInv'
<1> DEFINE f == [s \in Request |-> Reserved(req[s])]
           g == [s \in Request |-> Reserved(req'[s])]
<1>1. /\ req'[r] = q
      /\ \A s \in Request \ {r} : req'[s] = req[s]
  BY StepFields DEF Inv
<1>2. \A s \in Request : f[s] \in Nat
  <2>1. \A s \in Request : req[s] \in RequestType /\ RequestInv(req[s])
    BY DEF Inv, TypeInv
  <2> QED
    BY <2>1, ReservedType, SizeAssumption
<1>3. f[r] = Reserved(req[r]) /\ g[r] = Reserved(q)
  BY <1>1
<1>4. \A s \in Request \ {r} : g[s] = f[s]
  BY <1>1
<1>5. g[r] \in Nat
  BY <1>3, ReservedType, SizeAssumption
<1>6. lru.reservedSize = SumOver(f, Request)
  BY DEF Inv, ReservedInv
<1>7. IsFiniteSet(Request)
  BY DiskAssumption
<1>8. ReservedInv' <=> lru'.reservedSize = SumOver(g, Request)
  BY DEF ReservedInv, Reserved
<1> HIDE DEF f, g
<1>9. \A s \in Request : f[s] \in Nat /\ g[s] \in Nat
  BY <1>2, <1>4, <1>5
<1>10. SumOver(g, Request) = SumOver(f, Request) - f[r] + g[r]
  BY <1>4, <1>7, <1>9, SumUpdate
<1> QED
  BY <1>3, <1>6, <1>8, <1>10

-----------------------------------------------------------------------------
(***************************************************************************)
(* Files.                                                                  *)
(***************************************************************************)

\* Removing files leaves the others as they are.
LEMMA FilesRestricted ==
    ASSUME NEW d, FilesOK(d), NEW S \in SUBSET DOMAIN d
    PROVE  /\ FilesOK(Restrict(d, S))
           /\ DOMAIN Restrict(d, S) = S
           /\ \A p \in S : Restrict(d, S)[p] = d[p]
  BY DEF FilesOK, Restrict

\* A new tempfile is empty.
LEMMA FilesAdded ==
    ASSUME NEW d, FilesOK(d), NEW p \in Key \X Random, NEW b \in Blobs
    PROVE  LET e == [x \in DOMAIN d \cup {p} |-> IF x = p THEN TempFile(b) ELSE d[x]] IN
           /\ FilesOK(e)
           /\ DOMAIN e = DOMAIN d \cup {p}
           /\ e[p] = TempFile(b)
           /\ \A x \in DOMAIN d \ {p} : e[x] = d[x]
<1> DEFINE e == [x \in DOMAIN d \cup {p} |-> IF x = p THEN TempFile(b) ELSE d[x]]
<1>1. TempFile(b) \in FileType /\ TempFile(b).len = 0 /\ TempFile(b).blob = b
  <2>1. ASSUME NEW n \in Nat, NEW w \in BOOLEAN, NEW v \in BOOLEAN
        PROVE  [blob |-> b, len |-> n, whole |-> w, wip |-> v] \in FileType
    BY Zenon DEF FileType
  <2>2. 0 \in Nat /\ FALSE \in BOOLEAN /\ TRUE \in BOOLEAN
    OBVIOUS
  <2>3. TempFile(b) \in FileType
    BY <2>1, <2>2, Zenon DEF TempFile
  <2> QED
    BY <2>3 DEF TempFile
<1>2. /\ DOMAIN e = DOMAIN d \cup {p}
      /\ e[p] = TempFile(b)
      /\ \A x \in DOMAIN d \ {p} : e[x] = d[x]
  OBVIOUS
<1>3. e = [x \in DOMAIN e |-> e[x]]
  OBVIOUS
<1> HIDE DEF e
<1>4. \A x \in DOMAIN e :
         /\ e[x] \in FileType
         /\ e[x].len \in {0, 1, e[x].blob.sizeOnDisk}
  BY <1>1, <1>2 DEF FilesOK
<1>5. DOMAIN e \subseteq Key \X Random
  BY <1>2 DEF FilesOK
<1>6. FilesOK(e)
  BY <1>3, <1>4, <1>5 DEF FilesOK
<1> QED
  BY <1>2, <1>6 DEF e

\* A file, and the files, with one change.
SetLen(f, n) == [f EXCEPT !.len = n]
SetWhole(f, w) == [f EXCEPT !.whole = w]
SetWip(f, v) == [f EXCEPT !.wip = v]
SetFile(d, p, f) == [d EXCEPT ![p] = f]
Lengthened(d, p, n) == [d EXCEPT ![p].len = n]
Marked(d, p, v) == [d EXCEPT ![p].wip = v]
Filled(d, p, n, w) == [d EXCEPT ![p].len = n, ![p].whole = w]

\* Changing one file leaves the others as they are.
LEMMA FilesChanged ==
    ASSUME NEW d, FilesOK(d), NEW p \in DOMAIN d, NEW f \in FileType,
           f.len \in {0, 1, f.blob.sizeOnDisk}
    PROVE  LET e == SetFile(d, p, f) IN
           /\ FilesOK(e)
           /\ DOMAIN e = DOMAIN d
           /\ e[p] = f
           /\ \A x \in DOMAIN d \ {p} : e[x] = d[x]
<1> DEFINE e == SetFile(d, p, f)
<1>1. d = [x \in DOMAIN d |-> d[x]]
  BY DEF FilesOK
<1>2. /\ DOMAIN e = DOMAIN d
      /\ e[p] = f
      /\ \A x \in DOMAIN d \ {p} : e[x] = d[x]
      /\ e = [x \in DOMAIN e |-> e[x]]
  BY <1>1 DEF SetFile
<1> HIDE DEF e
<1>3. FilesOK(e)
  BY <1>2 DEF FilesOK
<1> QED
  BY <1>2, <1>3 DEF e

\* The fields of a file after a change of its length, its completeness or its
\* setgid bit.
LEMMA FileFields ==
    ASSUME NEW f \in FileType, NEW n \in Nat, NEW w \in BOOLEAN
    PROVE  LET a == SetLen(f, n)
               b == SetWhole(f, w)
               c == SetWip(f, w)
           IN  /\ a \in FileType /\ b \in FileType /\ c \in FileType
               /\ a.blob = f.blob /\ a.len = n
               /\ b.blob = f.blob /\ b.len = f.len /\ b.whole = w
               /\ c.blob = f.blob /\ c.len = f.len /\ c.whole = f.whole
<1> DEFINE a == SetLen(f, n)
           b == SetWhole(f, w)
           c == SetWip(f, w)
<1>1. a \in FileType /\ b \in FileType /\ c \in FileType
  BY Zenon DEF FileType, SetLen, SetWhole, SetWip
<1>2. /\ a.blob = f.blob /\ a.len = n
      /\ b.blob = f.blob /\ b.len = f.len /\ b.whole = w
      /\ c.blob = f.blob /\ c.len = f.len /\ c.whole = f.whole
  BY DEF FileType, SetLen, SetWhole, SetWip
<1> QED
  BY <1>1, <1>2

\* Writing some of a file leaves the others as they are.
LEMMA FileLengthened ==
    ASSUME NEW d, FilesOK(d), NEW p \in DOMAIN d, NEW n \in Nat,
           n \in {0, 1, d[p].blob.sizeOnDisk}
    PROVE  /\ FilesOK(Lengthened(d, p, n))
           /\ DOMAIN Lengthened(d, p, n) = DOMAIN d
           /\ Lengthened(d, p, n)[p] \in FileType
           /\ Lengthened(d, p, n)[p].blob = d[p].blob
           /\ Lengthened(d, p, n)[p].len = n
           /\ \A x \in DOMAIN d \ {p} : Lengthened(d, p, n)[x] = d[x]
<1> DEFINE f == SetLen(d[p], n)
           a == SetFile(d, p, f)
           t == TRUE
<1>1. d[p] \in FileType /\ t \in BOOLEAN
  BY DEF FilesOK
<1> HIDE DEF t
<1>2. f \in FileType /\ f.blob = d[p].blob /\ f.len = n
  BY <1>1, FileFields
<1>3. Lengthened(d, p, n) = a
  BY DEF SetLen, SetFile, Lengthened
<1> HIDE DEF f
<1>4. /\ FilesOK(a) /\ DOMAIN a = DOMAIN d /\ a[p] = f
      /\ \A x \in DOMAIN d \ {p} : a[x] = d[x]
  BY <1>2, FilesChanged
<1> HIDE DEF a
<1> QED
  BY <1>2, <1>3, <1>4

\* Writing all of a file leaves the others as they are.
LEMMA FileFilled ==
    ASSUME NEW d, FilesOK(d), NEW p \in DOMAIN d, NEW n \in Nat,
           n \in {0, 1, d[p].blob.sizeOnDisk}, NEW w \in BOOLEAN
    PROVE  /\ FilesOK(Filled(d, p, n, w))
           /\ DOMAIN Filled(d, p, n, w) = DOMAIN d
           /\ Filled(d, p, n, w)[p].blob = d[p].blob
           /\ Filled(d, p, n, w)[p].len = n
           /\ Filled(d, p, n, w)[p].whole = w
           /\ \A x \in DOMAIN d \ {p} : Filled(d, p, n, w)[x] = d[x]
<1> DEFINE a == Lengthened(d, p, n)
           g == SetWhole(a[p], w)
           b == SetFile(a, p, g)
<1>1. /\ FilesOK(a) /\ DOMAIN a = DOMAIN d
      /\ a[p] \in FileType /\ a[p].blob = d[p].blob /\ a[p].len = n
      /\ \A x \in DOMAIN d \ {p} : a[x] = d[x]
  BY FileLengthened
<1>2. Filled(d, p, n, w) = b
  BY DEF Filled, Lengthened, SetWhole, SetFile
<1> HIDE DEF a
<1>3. g \in FileType /\ g.blob = d[p].blob /\ g.len = n /\ g.whole = w
  BY <1>1, FileFields
<1> HIDE DEF g
<1>4. /\ FilesOK(b) /\ DOMAIN b = DOMAIN a /\ b[p] = g
      /\ \A x \in DOMAIN a \ {p} : b[x] = a[x]
  BY <1>1, <1>3, FilesChanged
<1> HIDE DEF b
<1> QED
  BY <1>1, <1>2, <1>3, <1>4

\* Changing the setgid bit of one file leaves the others as they are.
LEMMA FileMarked ==
    ASSUME NEW d, FilesOK(d), NEW p \in DOMAIN d, NEW v \in BOOLEAN
    PROVE  LET a == Marked(d, p, v) IN
           /\ FilesOK(a)
           /\ DOMAIN a = DOMAIN d
           /\ a[p].blob = d[p].blob /\ a[p].len = d[p].len /\ a[p].whole = d[p].whole
           /\ \A x \in DOMAIN d \ {p} : a[x] = d[x]
<1> DEFINE f == SetWip(d[p], v)
           a == SetFile(d, p, f)
<1>1. d[p] \in FileType /\ d[p].len \in {0, 1, d[p].blob.sizeOnDisk} /\ 0 \in Nat
  BY DEF FilesOK
<1>2. /\ f \in FileType /\ f.blob = d[p].blob /\ f.len = d[p].len
      /\ f.whole = d[p].whole
  BY <1>1, FileFields
<1>3. a = Marked(d, p, v)
  BY DEF SetWip, SetFile, Marked
<1> HIDE DEF f
<1>4. /\ FilesOK(a) /\ DOMAIN a = DOMAIN d /\ a[p] = f
      /\ \A x \in DOMAIN d \ {p} : a[x] = d[x]
  BY <1>1, <1>2, FilesChanged
<1> HIDE DEF a
<1> QED
  BY <1>2, <1>3, <1>4

\* The tempfiles are those of the requests.
LEMMA TempMembers ==
    /\ \A r \in Request : PathOf(r) = Path(req[r])
    /\ \A r \in Request : Holds(req[r]) => Path(req[r]) \in TempPaths
    /\ \A p \in TempPaths : \E r \in Request : Holds(req[r]) /\ p = Path(req[r])
  BY DEF TempPaths, PathOf, Path, Holds

\* A step of request r trades its tempfile for the one it has afterwards.
LEMMA TempStep ==
    ASSUME TypeInv, Distinct, NEW r \in Request, NEW q \in RequestType, Step(r, q)
    PROVE  /\ TempPaths' = (TempPaths \ TempOf(req[r])) \cup TempOf(q)
           /\ TempOf(q) \cap (TempPaths \ TempOf(req[r])) = {} => Distinct'
<1>1. /\ req'[r] = q
      /\ \A s \in Request \ {r} : req'[s] = req[s]
  BY StepFields
<1>2. /\ \A s \in Request : Holds(req[s]) => Path(req[s]) \in TempPaths
      /\ \A p \in TempPaths : \E s \in Request : Holds(req[s]) /\ p = Path(req[s])
  BY TempMembers
<1>3. /\ \A s \in Request : Holds(req'[s]) => Path(req'[s]) \in TempPaths'
      /\ \A p \in TempPaths' : \E s \in Request : Holds(req'[s]) /\ p = Path(req'[s])
  BY DEF TempPaths, PathOf, Path, Holds
<1>4. ASSUME NEW s \in Request \ {r}, Holds(req[s])
      PROVE  Path(req[s]) \in TempPaths \ TempOf(req[r])
  BY <1>2, <1>4 DEF TempOf, Distinct
<1>5. ASSUME NEW p \in TempPaths \ TempOf(req[r])
      PROVE  \E s \in Request \ {r} : Holds(req[s]) /\ p = Path(req[s])
  BY <1>2, <1>5 DEF TempOf
<1>6. TempPaths' = (TempPaths \ TempOf(req[r])) \cup TempOf(q)
  <2>1. ASSUME NEW p \in TempPaths'
        PROVE  p \in (TempPaths \ TempOf(req[r])) \cup TempOf(q)
    <3>1. PICK s \in Request : Holds(req'[s]) /\ p = Path(req'[s])
      BY <1>3
    <3>2. CASE s = r
      BY <1>1, <3>1, <3>2 DEF TempOf
    <3>3. CASE s # r
      BY <1>1, <1>4, <3>1, <3>3
    <3> QED
      BY <3>2, <3>3
  <2>2. ASSUME NEW p \in TempPaths \ TempOf(req[r]) PROVE p \in TempPaths'
    <3>1. PICK s \in Request \ {r} : Holds(req[s]) /\ p = Path(req[s])
      BY <1>5
    <3>2. req'[s] = req[s]
      BY <1>1
    <3> QED
      BY <1>3, <3>1, <3>2
  <2>3. ASSUME NEW p \in TempOf(q) PROVE p \in TempPaths'
    BY <1>1, <1>3, <2>3 DEF TempOf
  <2> QED
    BY <2>1, <2>2, <2>3
<1>7. ASSUME TempOf(q) \cap (TempPaths \ TempOf(req[r])) = {}
      PROVE  Distinct'
  <2>1. SUFFICES ASSUME NEW s \in Request, NEW t \in Request, s # t,
                        Holds(req'[s]), Holds(req'[t]), Path(req'[s]) = Path(req'[t])
                 PROVE  FALSE
    BY DEF Distinct, Holds, Path
  <2>2. CASE s # r /\ t # r
    BY <1>1, <2>1, <2>2 DEF Distinct
  <2>3. CASE s = r
    <3>1. Path(req[t]) \in TempPaths \ TempOf(req[r]) /\ Path(req[t]) = Path(q)
      BY <1>1, <1>4, <2>1, <2>3
    <3>2. Path(q) \in TempOf(q)
      BY <1>1, <2>1, <2>3 DEF TempOf
    <3> QED
      BY <1>7, <3>1, <3>2
  <2>4. CASE t = r
    <3>1. Path(req[s]) \in TempPaths \ TempOf(req[r]) /\ Path(req[s]) = Path(q)
      BY <1>1, <1>4, <2>1, <2>4
    <3>2. Path(q) \in TempOf(q)
      BY <1>1, <2>1, <2>4 DEF TempOf
    <3> QED
      BY <1>7, <3>1, <3>2
  <2> QED
    BY <2>2, <2>3, <2>4
<1> QED
  BY <1>6, <1>7

-----------------------------------------------------------------------------
(***************************************************************************)
(* What a step leaves alone.                                               *)
(***************************************************************************)

\* A file keeps its blob, and stays complete if it is.
Evolves ==
    \A p \in DOMAIN disk \cap DOMAIN disk' :
        /\ disk'[p].blob = disk[p].blob
        /\ disk[p].whole /\ disk[p].len = disk[p].blob.sizeOnDisk =>
              disk'[p].whole /\ disk'[p].len = disk'[p].blob.sizeOnDisk

\* A file appears only where nobody knows of an older one.
FreshPaths == (DOMAIN disk' \ DOMAIN disk) \cap KnownPaths = {}

\* A complete file stays complete.
LEMMA CompleteKept ==
    ASSUME Evolves, NEW p \in DOMAIN disk, p \in DOMAIN disk', NEW k,
           Complete(disk[p], k)
    PROVE  Complete(disk'[p], k) /\ disk'[p].blob = disk[p].blob
  BY DEF Evolves, Complete

\* What holds of a request and its file still holds when others take a step.
LEMMA OtherRequest ==
    ASSUME Inv, Owned', Evolves, FreshPaths, NEW s \in Request, req'[s] = req[s]
    PROVE  /\ Writes(req[s])'
           /\ BeforeCrash =>
                (req[s].pc = "open" /\ Path(req[s]) \in DOMAIN disk => OpenFile(req[s]))'
<1> DEFINE q == req[s]
           p == Path(q)
<1>1. /\ Writes(req[s])' <=>
            /\ q.pc \in {"write", "commit"} => disk'[p].blob = q.blob
            /\ q.pc = "commit" => Complete(disk'[p], q.key)
      /\ OpenFile(req[s])' <=>
            Complete(disk'[p], q.key) /\ ~isSizeMismatch(q.size, disk'[p].blob.size)
      /\ Path(req[s])' = p
      /\ req'[s].pc = q.pc
  BY DEF Writes, OpenFile, Path, Complete, isSizeMismatch, Genuine
<1>2. Writes(req[s])'
  <2>1. SUFFICES ASSUME q.pc \in {"write", "commit"}
                 PROVE  /\ disk'[p].blob = q.blob
                        /\ q.pc = "commit" => Complete(disk'[p], q.key)
    BY <1>1
  <2>2. Holds(q)
    BY <2>1 DEF Inv, RequestInv, Holds
  <2>3. p \in DOMAIN disk
    BY <2>2, TempMembers DEF Inv, Owned
  <2>4. p \in DOMAIN disk'
    <3>1. p \in TempPaths'
      BY <2>2 DEF TempPaths, PathOf, Path, Holds
    <3> QED
      BY <3>1 DEF Owned
  <2>5. disk[p].blob = q.blob /\ (q.pc = "commit" => Complete(disk[p], q.key))
    BY <2>1 DEF Inv, Writes
  <2> QED
    BY <2>3, <2>4, <2>5, CompleteKept DEF Evolves
<1>3. ASSUME BeforeCrash, q.pc = "open", p \in DOMAIN disk'
      PROVE  OpenFile(req[s])'
  <2>1. p \in KnownPaths
    BY DEF KnownPaths, PathOf, Path
  <2>2. p \in DOMAIN disk
    BY <1>3, <2>1 DEF FreshPaths
  <2>3. Complete(disk[p], q.key) /\ ~isSizeMismatch(q.size, disk[p].blob.size)
    BY <1>3, <2>2 DEF BeforeCrash, OpenFile
  <2> QED
    BY <1>1, <1>3, <2>2, <2>3, CompleteKept
<1> QED
  BY <1>1, <1>2, <1>3

\* An item that stays in the index keeps its file.
LEMMA OtherItem ==
    ASSUME Inv, BeforeCrash, Owned', Evolves,
           NEW k \in DOMAIN lru'.cache, k \in DOMAIN lru.cache,
           lru'.cache[k] = lru.cache[k]
    PROVE  IndexFile(k)'
<1> DEFINE p == <<k, lru.cache[k].random>>
<1>1. p \in DOMAIN disk
  BY DEF Inv, Owned, IndexPaths
<1>2. p \in DOMAIN disk'
  <2>1. p \in IndexPaths(lru')
    BY DEF IndexPaths
  <2> QED
    BY <2>1 DEF Owned, IndexPaths
<1>3. Complete(disk[p], k) /\ disk[p].blob.size = lru.cache[k].size
  BY DEF BeforeCrash, IndexFile
<1>4. Complete(disk'[p], k) /\ disk'[p].blob = disk[p].blob
  BY <1>1, <1>2, <1>3, CompleteKept
<1> QED
  BY <1>3, <1>4 DEF IndexFile, Complete, Genuine

\* A Get that has met an absence remembers it.
LEMMA OtherAbsent ==
    ASSUME Watch, NEW s \in Request, req'[s] = req[s],
           req[s].op = "Get" /\ req[s].pc \in {"miss", "unreadable", "fetch", "create"} => s \in excused
    PROVE  req'[s].op = "Get" /\ req'[s].pc \in {"miss", "unreadable", "fetch", "create"} =>
              s \in excused'
  BY DEF Watch

\* Every item of the new index was there before or has a file that it describes.
IndexMoves ==
    \A k \in DOMAIN lru'.cache :
        \/ k \in DOMAIN lru.cache /\ lru'.cache[k] = lru.cache[k]
        \/ IndexFile(k)'

\* The invariant after a step of request r: what is left to show for each action
\* are its effects on r, on the index and on the owners of the files.
LEMMA RequestStepKeeps ==
    ASSUME Inv, Watch, NEW r \in Request, NEW q \in RequestType, RequestInv(q),
           Step(r, q), FilesOK(disk'), Evolves, FreshPaths, Owned', Distinct',
           IndexInv(lru'),
           lru'.reservedSize = lru.reservedSize - Reserved(req[r]) + Reserved(q),
           crashes' = crashes, loading' = loading,
           Writes(req[r])',
           BeforeCrash =>
             /\ IndexMoves
             /\ (req[r].pc = "open" /\ Path(req[r]) \in DOMAIN disk => OpenFile(req[r]))'
             /\ q.op = "Get" /\ q.pc \in {"miss", "unreadable", "fetch", "create"} => r \in excused'
             /\ q.result # "torn"
    PROVE  Inv'
<1>1. /\ req' \in [Request -> RequestType]
      /\ req'[r] = q
      /\ \A s \in Request \ {r} : req'[s] = req[s]
  BY StepFields DEF Inv
<1>2. TypeInv'
  <2>1. crashes' \in Nat
    BY DEF Inv, TypeInv
  <2> QED
    BY <1>1, <2>1 DEF TypeInv, FilesOK, FileType
<1>3. (\A s \in Request : RequestInv(req[s]))'
  <2>1. \A s \in Request : RequestInv(req'[s])
    BY <1>1 DEF Inv
  <2> QED
    BY <2>1 DEF RequestInv, Genuine
<1>4. ReservedInv'
  BY ReservedStep
<1>5. (\A s \in Request : Writes(req[s]))'
  <2>1. ASSUME NEW s \in Request PROVE Writes(req[s])'
    BY <1>1, OtherRequest
  <2> QED
    BY <2>1
<1>6. ASSUME crashes' = 0 PROVE BeforeCrash'
  <2>1. BeforeCrash
    BY <1>6 DEF Inv
  <2>2. (loading = {})'
    BY <2>1 DEF BeforeCrash
  <2>3. (\A k \in DOMAIN lru.cache : IndexFile(k))'
    <3>1. ASSUME NEW k \in DOMAIN lru'.cache PROVE IndexFile(k)'
      BY <2>1, OtherItem DEF IndexMoves
    <3> QED
      BY <3>1
  <2>4. (\A s \in Request :
            req[s].pc = "open" /\ Path(req[s]) \in DOMAIN disk => OpenFile(req[s]))'
    <3>1. ASSUME NEW s \in Request
          PROVE  (req[s].pc = "open" /\ Path(req[s]) \in DOMAIN disk => OpenFile(req[s]))'
      BY <1>1, <2>1, OtherRequest
    <3> QED
      BY <3>1
  <2>5. NoSpuriousMiss'
    <3>1. ASSUME NEW s \in Request
          PROVE  req'[s].op = "Get" /\ req'[s].pc \in {"miss", "unreadable", "fetch", "create"} =>
                    s \in excused'
      <4>1. CASE s = r
        BY <1>1, <2>1, <4>1
      <4>2. CASE s # r
        BY <1>1, <2>1, <4>2, OtherAbsent DEF BeforeCrash, NoSpuriousMiss
      <4> QED
        BY <4>1, <4>2
    <3> QED
      BY <3>1 DEF NoSpuriousMiss
  <2>6. ReadsAreWhole'
    BY <1>1, <2>1 DEF BeforeCrash, ReadsAreWhole
  <2> QED
    BY <2>2, <2>3, <2>4, <2>5, <2>6 DEF BeforeCrash
<1> QED
  BY <1>2, <1>3, <1>4, <1>5, <1>6 DEF Inv

\* The invariant after a step that is no request's.
LEMMA OtherStepKeeps ==
    ASSUME Inv, Watch, req' = req, FilesOK(disk'), Evolves, FreshPaths, Owned',
           IndexInv(lru'), lru'.reservedSize = lru.reservedSize,
           crashes' = crashes, BeforeCrash => IndexMoves /\ loading' = {}
    PROVE  Inv'
<1>1. TypeInv'
  BY DEF Inv, TypeInv, FilesOK, FileType
<1>2. (\A s \in Request : RequestInv(req[s]))'
  BY DEF Inv, RequestInv, Genuine
<1>3. ReservedInv' /\ Distinct'
  BY DEF Inv, ReservedInv, Reserved, Distinct, Holds, Path
<1>4. (\A s \in Request : Writes(req[s]))'
  <2>1. ASSUME NEW s \in Request PROVE Writes(req[s])'
    BY OtherRequest
  <2> QED
    BY <2>1
<1>5. ASSUME crashes' = 0 PROVE BeforeCrash'
  <2>1. BeforeCrash
    BY <1>5 DEF Inv
  <2>2. (loading = {})'
    BY <2>1
  <2>3. (\A k \in DOMAIN lru.cache : IndexFile(k))'
    <3>1. ASSUME NEW k \in DOMAIN lru'.cache PROVE IndexFile(k)'
      BY <2>1, OtherItem DEF IndexMoves
    <3> QED
      BY <3>1
  <2>4. (\A s \in Request :
            req[s].pc = "open" /\ Path(req[s]) \in DOMAIN disk => OpenFile(req[s]))'
    <3>1. ASSUME NEW s \in Request
          PROVE  (req[s].pc = "open" /\ Path(req[s]) \in DOMAIN disk => OpenFile(req[s]))'
      BY <2>1, OtherRequest
    <3> QED
      BY <3>1
  <2>5. NoSpuriousMiss'
    <3>1. ASSUME NEW s \in Request
          PROVE  req'[s].op = "Get" /\ req'[s].pc \in {"miss", "unreadable", "fetch", "create"} =>
                    s \in excused'
      BY <2>1, OtherAbsent DEF BeforeCrash, NoSpuriousMiss
    <3> QED
      BY <3>1 DEF NoSpuriousMiss
  <2>6. ReadsAreWhole'
    BY <2>1 DEF BeforeCrash, ReadsAreWhole
  <2> QED
    BY <2>2, <2>3, <2>4, <2>5, <2>6 DEF BeforeCrash
<1> QED
  BY <1>1, <1>2, <1>3, <1>4, <1>5 DEF Inv

\* A step that leaves the files where they are but for handing those of evicted
\* items, E, to removal goroutines.
LEMMA EvictOwned ==
    ASSUME Inv, disk' = disk, removing' = removing, loading' = loading,
           TempPaths' = TempPaths,
           NEW E, pending' = pending \cup E,
           IndexPaths(lru') \cup E = IndexPaths(lru), IndexPaths(lru') \cap E = {}
    PROVE  Owned' /\ FilesOK(disk') /\ Evolves /\ FreshPaths
<1>1. Owned'
  <2>1. IndexPaths(lru)' = IndexPaths(lru')
    BY DEF IndexPaths
  <2> QED
    BY <2>1 DEF Inv, Owned
<1> QED
  BY <1>1 DEF Inv, TypeInv, Evolves, FreshPaths

\* A step of request r that touches no file, and evicts the files E.
LEMMA EvictStepKeeps ==
    ASSUME Inv, Watch, NEW r \in Request, NEW q \in RequestType, RequestInv(q),
           Step(r, q), disk' = disk, removing' = removing, loading' = loading,
           crashes' = crashes, TempOf(q) = TempOf(req[r]),
           NEW E, pending' = pending \cup E,
           IndexPaths(lru') \cup E = IndexPaths(lru), IndexPaths(lru') \cap E = {},
           \A k \in DOMAIN lru'.cache :
              k \in DOMAIN lru.cache /\ lru'.cache[k] = lru.cache[k],
           IndexInv(lru'),
           lru'.reservedSize = lru.reservedSize - Reserved(req[r]) + Reserved(q),
           q.pc \notin {"write", "commit"},
           BeforeCrash =>
             /\ q.pc = "open" /\ Path(q) \in DOMAIN disk => OpenFile(q)
             /\ q.op = "Get" /\ q.pc \in {"miss", "unreadable", "fetch", "create"} => r \in excused'
             /\ q.result # "torn"
    PROVE  Inv'
<1>1. /\ TempPaths' = (TempPaths \ TempOf(req[r])) \cup TempOf(q)
      /\ TempOf(q) \cap (TempPaths \ TempOf(req[r])) = {} => Distinct'
  BY TempStep DEF Inv
<1>2. TempOf(req[r]) \subseteq TempPaths
  BY TempMembers DEF TempOf
<1>3. TempPaths' = TempPaths /\ Distinct'
  BY <1>1, <1>2
<1>4. Owned' /\ FilesOK(disk') /\ Evolves /\ FreshPaths
  BY <1>3, EvictOwned
<1>5. req'[r] = q
  BY StepFields DEF Inv
<1>6. Writes(req[r])'
  BY <1>5 DEF Writes
<1>7. IndexMoves
  BY DEF IndexMoves
<1>8. BeforeCrash =>
        (req[r].pc = "open" /\ Path(req[r]) \in DOMAIN disk => OpenFile(req[r]))'
  BY <1>5 DEF OpenFile, Path, Complete, isSizeMismatch, Genuine
<1> QED
  BY <1>3, <1>4, <1>6, <1>7, <1>8, RequestStepKeeps

\* A step of request r that touches neither a file nor the map of the index.
LEMMA QuietStepKeeps ==
    ASSUME Inv, Watch, NEW r \in Request, NEW q \in RequestType, RequestInv(q),
           Step(r, q), disk' = disk, removing' = removing, loading' = loading,
           crashes' = crashes, TempOf(q) = TempOf(req[r]),
           pending' = pending, lru'.cache = lru.cache,
           IndexInv(lru'),
           lru'.reservedSize = lru.reservedSize - Reserved(req[r]) + Reserved(q),
           q.pc \notin {"write", "commit"},
           BeforeCrash =>
             /\ q.pc = "open" /\ Path(q) \in DOMAIN disk => OpenFile(q)
             /\ q.op = "Get" /\ q.pc \in {"miss", "unreadable", "fetch", "create"} => r \in excused'
             /\ q.result # "torn"
    PROVE  Inv'
<1> DEFINE E == {}
<1>1. IndexPaths(lru') = IndexPaths(lru)
  BY DEF IndexPaths
<1>2. /\ pending' = pending \cup E
      /\ IndexPaths(lru') \cup E = IndexPaths(lru) /\ IndexPaths(lru') \cap E = {}
      /\ \A k \in DOMAIN lru'.cache :
            k \in DOMAIN lru.cache /\ lru'.cache[k] = lru.cache[k]
  BY <1>1
<1> HIDE DEF E
<1> QED
  BY <1>2, EvictStepKeeps

\* The facts about a request that every step starts from.
LEMMA RequestFacts ==
    ASSUME Inv, NEW r \in Request
    PROVE  /\ req[r] \in RequestType /\ RequestInv(req[r])
           /\ PathOf(r) = Path(req[r])
           /\ lru.reservedSize \in Nat /\ Reserved(req[r]) \in Nat
<1>1. req[r] \in RequestType /\ RequestInv(req[r]) /\ IndexInv(lru)
  BY DEF Inv, TypeInv
<1>2. lru.reservedSize \in Nat
  BY <1>1 DEF IndexInv
<1>3. Reserved(req[r]) \in Nat
  BY <1>1, ReservedType, SizeAssumption
<1> QED
  BY <1>1, <1>2, <1>3 DEF PathOf, Path

\* The state of a client without a request.
LEMMA IdleInv == RequestInv(Idle) /\ Reserved(Idle) = 0 /\ TempOf(Idle) = {}
<1>1. RequestInv(Idle)
  BY IdleFields, SizeAssumption DEF RequestInv
<1> QED
  BY <1>1, IdleFields DEF Reserved, TempOf, Holds

\* A request that returns keeps its tempfile and its reservation for the deferred
\* function.
LEMMA ReturnInv ==
    ASSUME NEW q \in RequestType, RequestInv(q), q.key \in Key, q.op \in {"Put", "Get"},
           q.pc # "unreserve", NEW v \in Results \ {"hung", "unreserveFailed"}
    PROVE  LET c == Return(q, v) IN
           /\ c \in RequestType /\ RequestInv(c)
           /\ c.pc = "defer" /\ c.result = v
           /\ TempOf(c) = TempOf(q) /\ Reserved(c) = Reserved(q)
<1> DEFINE c == SetResult(SetPc(q, "defer"), v)
<1>1. Return(q, v) = c
  BY DEF Return, SetResult, SetPc
<1>2. "defer" \in Steps /\ v \in Results
  BY DEF Steps
<1>3. /\ c \in RequestType
      /\ c.pc = "defer" /\ c.result = v /\ c.op = q.op /\ c.key = q.key
      /\ c.size = q.size /\ c.random = q.random /\ c.unreserve = q.unreserve
      /\ c.removeTempfile = q.removeTempfile
  BY <1>2, SetPcFields, SetResultFields
<1> HIDE DEF c
<1>4. RequestInv(c)
  BY <1>3 DEF RequestInv
<1>5. Reserved(c) = Reserved(q)
  BY <1>3 DEF Reserved
<1>6. Holds(c) <=> Holds(q)
  <2>1. q.pc \in Steps
    BY DEF RequestType
  <2> QED
    BY <1>3, <2>1 DEF Holds, RequestInv, Steps
<1>7. TempOf(c) = TempOf(q)
  BY <1>3, <1>6 DEF TempOf, Path
<1> QED
  BY <1>1, <1>3, <1>4, <1>5, <1>7

\* A request returns, and neither files nor the map of the index change.
LEMMA ReturnStepKeeps ==
    ASSUME Inv, Watch, NEW r \in Request,
           NEW q \in RequestType, RequestInv(q), q.key \in Key, q.op \in {"Put", "Get"},
           q.pc # "unreserve", TempOf(q) = TempOf(req[r]), Reserved(q) = Reserved(req[r]),
           NEW v \in Results \ {"hung", "unreserveFailed"}, BeforeCrash => v # "torn",
           Step(r, Return(q, v)),
           disk' = disk, removing' = removing, loading' = loading, crashes' = crashes,
           pending' = pending, lru'.cache = lru.cache,
           IndexInv(lru'), lru'.reservedSize = lru.reservedSize
    PROVE  Inv'
<1> DEFINE c == Return(q, v)
<1>1. /\ c \in RequestType /\ RequestInv(c)
      /\ c.pc = "defer" /\ c.result = v
      /\ TempOf(c) = TempOf(req[r]) /\ Reserved(c) = Reserved(req[r])
  BY ReturnInv
<1> HIDE DEF c
<1>2. Step(r, c)
  BY DEF c
<1>3. lru'.reservedSize = lru.reservedSize - Reserved(req[r]) + Reserved(c)
  BY <1>1, RequestFacts
<1>4. /\ c.pc \notin {"write", "commit"}
      /\ BeforeCrash =>
           /\ c.pc = "open" /\ Path(c) \in DOMAIN disk => OpenFile(c)
           /\ c.op = "Get" /\ c.pc \in {"miss", "unreadable", "fetch", "create"} => r \in excused'
           /\ c.result # "torn"
  BY <1>1
<1> QED
  BY <1>1, <1>2, <1>3, <1>4, QuietStepKeeps

-----------------------------------------------------------------------------
(***************************************************************************)
(* The actions of Put.                                                     *)
(***************************************************************************)

\* A Put reserves what it will give back.
LEMMA PutReserveKeeps ==
    ASSUME Inv, Watch, NEW r \in Request, NEW u \in Upload, PutReserve(r, u)
    PROVE  Inv'
<1> DEFINE res == Reserve(lru, u.size)
           put == [Idle EXCEPT !.op = "Put", !.key = u.key, !.size = u.size,
                               !.pc = "create", !.blob = u, !.unreserve = u.size > 0]
           q   == IF res.err = "none" THEN put ELSE Idle
<1>1. u \in Blobs /\ u.key \in Key /\ u.size \in 0 .. MaxInt
  BY BlobType DEF Blobs
<1>2. /\ req[r] = Idle /\ Step(r, q) /\ lru' = res.lru
      /\ pending' = pending \cup Paths(res.evicted)
      /\ disk' = disk /\ removing' = removing /\ loading' = loading
      /\ crashes' = crashes
  BY DEF PutReserve, evict
<1>3. IndexInv(lru) /\ u.size \in Int /\ u.size <= MaxInt /\ MaxInt \in Nat
  BY <1>1, SizeAssumption DEF Inv
<1>4. /\ IndexInv(res.lru)
      /\ res.lru.reservedSize = lru.reservedSize + (IF res.err = "none" THEN u.size ELSE 0)
  BY <1>3, ReserveKeeps
<1>5. /\ IndexPaths(res.lru) \cup Paths(res.evicted) = IndexPaths(lru)
      /\ IndexPaths(res.lru) \cap Paths(res.evicted) = {}
      /\ \A k \in DOMAIN res.lru.cache :
            k \in DOMAIN lru.cache /\ res.lru.cache[k] = lru.cache[k]
  BY <1>3, ReservePaths
<1>6. /\ put \in RequestType
      /\ put.pc = "create" /\ put.op = "Put" /\ put.key = u.key
      /\ put.size = u.size /\ put.blob = u /\ put.random = NoRandom
      /\ (put.unreserve <=> u.size > 0) /\ ~put.removeTempfile
      /\ put.result = "none"
  <2> DEFINE b  == u.size > 0
             h  == Begun("Put", u.key, u.size)
             h2 == SetBlob(SetPc(h, "create"), u)
             h3 == SetUnreserve(h2, b)
  <2>1. /\ "create" \in Steps /\ "Put" \in {"none", "Put", "Get"}
        /\ u.key \in Key \cup {"none"} /\ u.size \in Int /\ u \in Blobs \cup {NoBlob}
        /\ b \in BOOLEAN
    BY <1>1 DEF Steps
  <2>2. put = h3
    BY DEF Begun, SetUnreserve, SetBlob, SetPc
  <2> HIDE DEF b, put
  <2>3. /\ h \in RequestType
        /\ h.op = "Put" /\ h.key = u.key /\ h.size = u.size
        /\ h.random = NoRandom /\ h.removeTempfile = FALSE /\ h.result = "none"
    BY <1>1, <2>1, BegunFields
  <2> HIDE DEF h
  <2>4. /\ h2 \in RequestType
        /\ h2.pc = "create" /\ h2.op = "Put" /\ h2.key = u.key
        /\ h2.size = u.size /\ h2.blob = u /\ h2.random = NoRandom
        /\ h2.removeTempfile = FALSE /\ h2.result = "none"
    BY <2>1, <2>3, SetPcFields, SetBlobFields
  <2> HIDE DEF h2
  <2>5. /\ h3 \in RequestType
        /\ h3.pc = "create" /\ h3.op = "Put" /\ h3.key = u.key
        /\ h3.size = u.size /\ h3.blob = u /\ h3.random = NoRandom
        /\ h3.unreserve = b /\ h3.removeTempfile = FALSE /\ h3.result = "none"
    BY <2>1, <2>4, SetUnreserveFields
  <2> QED
    BY <2>2, <2>5 DEF b
<1> HIDE DEF res, put
<1>7. lru.reservedSize \in Nat
  BY RequestFacts
<1>8. CASE res.err = "none"
  <2>1. q = put
    BY <1>8
  <2>2. RequestInv(put)
    BY <1>1, <1>3, <1>6, IdleFields DEF RequestInv
  <2>3. Reserved(put) = u.size
    BY <1>1, <1>6 DEF Reserved
  <2>4. TempOf(put) = TempOf(req[r])
    BY <1>2, <1>6, IdleInv DEF TempOf, Holds
  <2>5. lru'.reservedSize = lru.reservedSize - Reserved(req[r]) + Reserved(put)
    BY <1>2, <1>3, <1>4, <1>7, <1>8, <2>3, IdleInv
  <2>6. BeforeCrash =>
          /\ put.pc = "open" /\ Path(put) \in DOMAIN disk => OpenFile(put)
          /\ put.op = "Get" /\ put.pc \in {"miss", "unreadable", "fetch", "create"} => r \in excused'
          /\ put.result # "torn"
    BY <1>6, IdleFields
  <2>7. put.pc \notin {"write", "commit"}
    BY <1>6
  <2> QED
    BY <1>2, <1>4, <1>5, <1>6, <2>1, <2>2, <2>4, <2>5, <2>6, <2>7, EvictStepKeeps
<1>9. CASE res.err # "none"
  <2>1. q = Idle
    BY <1>9
  <2>2. lru'.reservedSize = lru.reservedSize - Reserved(req[r]) + Reserved(Idle)
    BY <1>2, <1>4, <1>7, <1>9, IdleInv
  <2>3. BeforeCrash =>
          /\ Idle.pc = "open" /\ Path(Idle) \in DOMAIN disk => OpenFile(Idle)
          /\ Idle.op = "Get" /\ Idle.pc \in {"miss", "unreadable", "fetch", "create"} => r \in excused'
          /\ Idle.result # "torn"
    BY IdleFields
  <2>4. Idle.pc \notin {"write", "commit"}
    BY IdleFields
  <2> QED
    BY <1>2, <1>4, <1>5, <2>1, <2>2, <2>3, <2>4, IdleFields, IdleInv, EvictStepKeeps
<1> QED
  BY <1>8, <1>9

\* A new tempfile has a path that nobody knows of.
LEMMA CreateTempfileKeeps ==
    ASSUME Inv, Watch, NEW r \in Request, CreateTempfile(r)
    PROVE  Inv'
<1> DEFINE q == req[r]
<1>1. /\ q \in RequestType /\ RequestInv(q) /\ q.pc = "create"
      /\ lru' = lru /\ pending' = pending /\ removing' = removing
      /\ loading' = loading /\ crashes' = crashes
  BY RequestFacts DEF CreateTempfile
<1>2. /\ q.key \in Key /\ q.op \in {"Put", "Get"} /\ q.blob \in Blobs
      /\ ~q.removeTempfile
  BY <1>1 DEF RequestInv, Blobs
<1>3. TempOf(q) = {}
  BY <1>2 DEF TempOf, Holds
<1>4. IndexInv(lru') /\ lru'.cache = lru.cache /\ lru'.reservedSize = lru.reservedSize
  BY <1>1 DEF Inv
<1>5. ASSUME NEW x \in Random, <<q.key, x>> \notin KnownPaths,
             disk' = [p \in DOMAIN disk \cup {<<q.key, x>>} |->
                        IF p = <<q.key, x>> THEN TempFile(q.blob) ELSE disk[p]],
             Step(r, [q EXCEPT !.pc = "write", !.random = x, !.blobFile = TRUE,
                               !.removeTempfile = TRUE])
      PROVE  Inv'
  <2> DEFINE t == TRUE
             b == SetRandom(SetPc(q, "write"), x)
             c == SetRemoveTempfile(SetBlobFile(b, t), t)
             p == <<q.key, x>>
  <2>1. Step(r, c)
    BY <1>5 DEF SetPc, SetRandom, SetBlobFile, SetRemoveTempfile
  <2>2. "write" \in Steps /\ x \in Random \cup {NoRandom} /\ t \in BOOLEAN
    BY DEF Steps
  <2>3. /\ b \in RequestType
        /\ b.pc = "write" /\ b.random = x /\ b.op = q.op /\ b.key = q.key
        /\ b.size = q.size /\ b.blob = q.blob /\ b.unreserve = q.unreserve
        /\ b.result = q.result
    BY <1>1, <2>2, SetPcFields, SetRandomFields
  <2> HIDE DEF b, t
  <2>4. /\ c \in RequestType
        /\ c.pc = "write" /\ c.random = x /\ c.op = q.op /\ c.key = q.key
        /\ c.size = q.size /\ c.blob = q.blob /\ c.unreserve = q.unreserve
        /\ c.result = q.result /\ c.removeTempfile = t
    BY <2>2, <2>3, SetBlobFileFields, SetRemoveTempfileFields
  <2> USE DEF t
  <2> HIDE DEF c
  <2>5. RequestInv(c)
    BY <1>1, <1>2, <2>4 DEF RequestInv
  <2>6. /\ Reserved(c) = Reserved(q)
        /\ TempOf(c) = {p} /\ Path(c) = p
    BY <2>4 DEF Reserved, TempOf, Holds, Path
  <2>7. p \in Key \X Random /\ p \notin DOMAIN disk
    BY <1>1, <1>2, <1>5 DEF KnownPaths
  <2>8. /\ FilesOK(disk')
        /\ DOMAIN disk' = DOMAIN disk \cup {p}
        /\ disk'[p] = TempFile(q.blob)
        /\ \A y \in DOMAIN disk \ {p} : disk'[y] = disk[y]
    BY <1>2, <1>5, <2>7, FilesAdded DEF Inv, TypeInv
  <2>9. Evolves
    BY <2>7, <2>8 DEF Evolves
  <2>10. FreshPaths
    BY <1>5, <2>8 DEF FreshPaths
  <2>11. /\ TempPaths' = (TempPaths \ TempOf(req[r])) \cup TempOf(c)
         /\ TempOf(c) \cap (TempPaths \ TempOf(req[r])) = {} => Distinct'
    BY <2>1, <2>4, TempStep DEF Inv
  <2>12. TempPaths' = TempPaths \cup {p}
    BY <1>3, <2>6, <2>11
  <2>13. Owned'
    <3>1. IndexPaths(lru)' = IndexPaths(lru)
      BY <1>1 DEF IndexPaths
    <3> QED
      BY <1>1, <2>7, <2>8, <2>12, <3>1 DEF Inv, Owned
  <2>14. Distinct'
    BY <1>3, <2>6, <2>7, <2>11 DEF Inv, Owned
  <2>15. req'[r] = c
    BY <2>1, <2>4, StepFields DEF Inv
  <2>16. Writes(req[r])'
    BY <2>4, <2>6, <2>8, <2>15 DEF Writes, TempFile, Path
  <2>17. lru'.reservedSize = lru.reservedSize - Reserved(req[r]) + Reserved(c)
    BY <1>1, <2>6, RequestFacts
  <2>18. BeforeCrash =>
           /\ IndexMoves
           /\ (req[r].pc = "open" /\ Path(req[r]) \in DOMAIN disk => OpenFile(req[r]))'
           /\ c.op = "Get" /\ c.pc \in {"miss", "unreadable", "fetch", "create"} => r \in excused'
           /\ c.result # "torn"
    BY <1>1, <2>4, <2>15 DEF IndexMoves, BeforeCrash, ReadsAreWhole
  <2> QED
    BY <1>1, <1>4, <2>1, <2>4, <2>5, <2>8, <2>9, <2>10, <2>13, <2>14, <2>16, <2>17,
       <2>18, RequestStepKeeps
<1>6. ASSUME Step(r, Return(q, "error")), disk' = disk
      PROVE  Inv'
  <2>1. "error" \in Results \ {"hung", "unreserveFailed"}
    BY DEF Results
  <2> QED
    BY <1>1, <1>2, <1>4, <1>6, <2>1, ReturnStepKeeps
<1> QED
  BY <1>5, <1>6 DEF CreateTempfile

\* The file that a request writes is among the files, and is nobody else's.
LEMMA TempFacts ==
    ASSUME Inv, NEW r \in Request, req[r].pc \in {"write", "commit"}
    PROVE  /\ Holds(req[r]) /\ TempOf(req[r]) = {Path(req[r])}
           /\ Path(req[r]) \in DOMAIN disk
           /\ Path(req[r]) \notin IndexPaths(lru) \cup pending \cup removing \cup loading
           /\ req[r].key \in Key /\ req[r].random \in Random
           /\ disk[Path(req[r])] \in FileType
           /\ disk[Path(req[r])].blob = req[r].blob
<1>1. RequestInv(req[r]) /\ Writes(req[r])
  BY DEF Inv
<1>2. /\ Holds(req[r]) /\ req[r].key \in Key /\ req[r].random \in Random
      /\ disk[Path(req[r])].blob = req[r].blob
  BY <1>1 DEF RequestInv, Holds, Writes
<1>3. Path(req[r]) \in TempPaths
  BY <1>2, TempMembers
<1>4. /\ Path(req[r]) \in DOMAIN disk
      /\ Path(req[r]) \notin IndexPaths(lru) \cup pending \cup removing \cup loading
  BY <1>3 DEF Inv, Owned
<1>5. disk[Path(req[r])] \in FileType
  BY <1>4 DEF Inv, TypeInv, FilesOK
<1> QED
  BY <1>2, <1>4, <1>5 DEF TempOf

\* A write that has not ended.
LEMMA WriteSomeKeeps ==
    ASSUME Inv, Watch, NEW r \in Request, WriteSome(r)
    PROVE  Inv'
<1> DEFINE p == Path(req[r])
<1>1. /\ req[r].pc = "write" /\ disk[p].len = 0 /\ req[r].blob.sizeOnDisk > 1
      /\ disk' = Lengthened(disk, p, 1)
      /\ lru' = lru /\ pending' = pending /\ removing' = removing
      /\ loading' = loading /\ crashes' = crashes /\ req' = req
  BY DEF WriteSome, PathOf, Path, Lengthened
<1>2. /\ p \in DOMAIN disk /\ disk[p].blob = req[r].blob /\ disk[p] \in FileType
  BY <1>1, TempFacts
<1>3. FilesOK(disk) /\ 1 \in Nat /\ 1 \in {0, 1, disk[p].blob.sizeOnDisk}
  BY DEF Inv, TypeInv
<1> HIDE DEF p
<1>4. /\ FilesOK(disk') /\ DOMAIN disk' = DOMAIN disk
      /\ disk'[p].blob = disk[p].blob
      /\ \A x \in DOMAIN disk \ {p} : disk'[x] = disk[x]
  BY <1>1, <1>2, <1>3, FileLengthened
<1>5. req[r].blob.sizeOnDisk \in Nat
  <2>1. disk[p].blob \in Blobs
    BY <1>2 DEF FileType
  <2> QED
    BY <1>2, <2>1, BlobType
<1>6. Evolves
  BY <1>1, <1>2, <1>4, <1>5 DEF Evolves
<1>7. FreshPaths
  BY <1>4 DEF FreshPaths
<1>8. Owned'
  <2>1. IndexPaths(lru)' = IndexPaths(lru) /\ TempPaths' = TempPaths
    BY <1>1 DEF IndexPaths, TempPaths, PathOf
  <2> QED
    BY <1>1, <1>4, <2>1 DEF Inv, Owned
<1>9. IndexInv(lru') /\ lru'.reservedSize = lru.reservedSize
  BY <1>1 DEF Inv
<1>10. BeforeCrash => IndexMoves /\ loading' = {}
  BY <1>1 DEF BeforeCrash, IndexMoves
<1> QED
  BY <1>1, <1>4, <1>6, <1>7, <1>8, <1>9, <1>10, OtherStepKeeps

\* A write that has ended well holds all of a genuine blob.
LEMMA WriteFileKeeps ==
    ASSUME Inv, Watch, NEW r \in Request, WriteFile(r)
    PROVE  Inv'
<1> DEFINE q == req[r]
           p == Path(q)
           n == q.blob.sizeOnDisk
           t == TRUE
<1>1. /\ q \in RequestType /\ RequestInv(q) /\ q.pc = "write"
      /\ lru' = lru /\ pending' = pending /\ removing' = removing
      /\ loading' = loading /\ crashes' = crashes
  BY RequestFacts DEF WriteFile
<1>2. /\ q.key \in Key /\ q.op \in {"Put", "Get"} /\ q.blob \in Blobs
  BY <1>1 DEF RequestInv, Blobs
<1>3. IndexInv(lru') /\ lru'.cache = lru.cache /\ lru'.reservedSize = lru.reservedSize
  BY <1>1 DEF Inv
<1>4. ASSUME q.op = "Put" /\ Casblob(q.blob.key) => q.blob.good,
             disk' = [disk EXCEPT ![p].len = n, ![p].whole = t],
             Step(r, Goto(q, "commit"))
      PROVE  Inv'
  <2> DEFINE c == SetPc(q, "commit")
  <2>1. Step(r, c) /\ "commit" \in Steps
    BY <1>4 DEF Goto, SetPc, Steps
  <2>2. /\ c \in RequestType
        /\ c.pc = "commit" /\ c.op = q.op /\ c.key = q.key
        /\ c.size = q.size /\ c.blob = q.blob /\ c.random = q.random
        /\ c.unreserve = q.unreserve /\ c.removeTempfile = q.removeTempfile
        /\ c.result = q.result
    BY <1>1, <2>1, SetPcFields
  <2> HIDE DEF c
  <2>3. q.blob \in Genuine
    BY <1>1, <1>2, <1>4 DEF RequestInv, Genuine
  <2>4. RequestInv(c)
    BY <1>1, <2>2, <2>3 DEF RequestInv
  <2>5. /\ TempOf(c) = TempOf(q) /\ Reserved(c) = Reserved(q) /\ Path(c) = p
    BY <1>1, <2>2 DEF TempOf, Reserved, Holds, Path
  <2>6. p \in DOMAIN disk /\ disk[p].blob = q.blob /\ TempOf(q) = {p}
    BY <1>1, TempFacts
  <2>7. FilesOK(disk) /\ n \in Nat /\ n \in {0, 1, disk[p].blob.sizeOnDisk} /\ t \in BOOLEAN
    BY <1>2, <2>6, BlobType DEF Inv, TypeInv
  <2> HIDE DEF t, p
  <2>8. /\ FilesOK(disk') /\ DOMAIN disk' = DOMAIN disk
        /\ disk'[p].blob = disk[p].blob /\ disk'[p].len = n /\ disk'[p].whole = t
        /\ \A x \in DOMAIN disk \ {p} : disk'[x] = disk[x]
    <3>1. disk' = Filled(disk, p, n, t)
      BY <1>4 DEF Filled
    <3> HIDE DEF n
    <3> QED
      BY <2>6, <2>7, <3>1, FileFilled
  <2> USE DEF t
  <2>9. Evolves
    BY <2>6, <2>8 DEF Evolves
  <2>10. FreshPaths
    BY <2>8 DEF FreshPaths
  <2>11. /\ TempPaths' = (TempPaths \ TempOf(q)) \cup TempOf(c)
         /\ TempOf(c) \cap (TempPaths \ TempOf(q)) = {} => Distinct'
    BY <2>1, <2>2, TempStep DEF Inv
  <2>12. p \in TempPaths
    BY <1>1, TempFacts, TempMembers DEF p
  <2>13. TempPaths' = TempPaths /\ Distinct'
    BY <2>5, <2>6, <2>11, <2>12
  <2>14. Owned'
    <3>1. IndexPaths(lru)' = IndexPaths(lru)
      BY <1>1 DEF IndexPaths
    <3> QED
      BY <1>1, <2>8, <2>13, <3>1 DEF Inv, Owned
  <2>15. req'[r] = c
    BY <2>1, <2>2, StepFields DEF Inv
  <2>16. Writes(req[r])'
    <3>1. q.blob.key = q.key
      BY <1>1 DEF RequestInv
    <3> QED
      BY <2>2, <2>3, <2>5, <2>6, <2>8, <2>15, <3>1 DEF Writes, Path, Complete, Genuine
  <2>17. lru'.reservedSize = lru.reservedSize - Reserved(req[r]) + Reserved(c)
    BY <1>1, <2>5, RequestFacts
  <2>18. BeforeCrash =>
           /\ IndexMoves
           /\ (req[r].pc = "open" /\ Path(req[r]) \in DOMAIN disk => OpenFile(req[r]))'
           /\ c.op = "Get" /\ c.pc \in {"miss", "unreadable", "fetch", "create"} => r \in excused'
           /\ c.result # "torn"
    BY <1>1, <2>2, <2>15 DEF IndexMoves, BeforeCrash, ReadsAreWhole
  <2> QED
    BY <1>1, <1>3, <2>1, <2>2, <2>4, <2>8, <2>9, <2>10, <2>13, <2>14, <2>16, <2>17,
       <2>18, RequestStepKeeps
<1>5. ASSUME Step(r, Return(q, "error")), disk' = disk
      PROVE  Inv'
  <2>1. "error" \in Results \ {"hung", "unreserveFailed"}
    BY DEF Results
  <2> QED
    BY <1>1, <1>2, <1>3, <1>5, <2>1, ReturnStepKeeps
<1> QED
  BY <1>4, <1>5 DEF WriteFile, PathOf, Path

\* The fields of a request that ends with or without a reservation and a tempfile.
LEMMA EndedFields ==
    ASSUME NEW q \in RequestType, NEW s \in Steps, NEW f \in BOOLEAN, NEW x \in BOOLEAN,
           NEW v \in Results
    PROVE  LET c == SetResult(SetRemoveTempfile(SetUnreserve(SetPc(q, s), f), x), v) IN
           /\ c \in RequestType
           /\ c.pc = s /\ c.op = q.op /\ c.key = q.key /\ c.size = q.size
           /\ c.blob = q.blob /\ c.random = q.random /\ c.unreserve = f
           /\ c.removeTempfile = x /\ c.result = v
<1> DEFINE b == SetUnreserve(SetPc(q, s), f)
           d == SetRemoveTempfile(b, x)
           c == SetResult(d, v)
<1>1. /\ b \in RequestType
      /\ b.pc = s /\ b.op = q.op /\ b.key = q.key /\ b.size = q.size
      /\ b.blob = q.blob /\ b.random = q.random /\ b.unreserve = f
  BY SetPcFields, SetUnreserveFields
<1> HIDE DEF b
<1>2. /\ d \in RequestType
      /\ d.pc = s /\ d.op = q.op /\ d.key = q.key /\ d.size = q.size
      /\ d.blob = q.blob /\ d.random = q.random /\ d.unreserve = f /\ d.removeTempfile = x
  BY <1>1, SetRemoveTempfileFields
<1> HIDE DEF d
<1>3. /\ c \in RequestType
      /\ c.pc = s /\ c.op = q.op /\ c.key = q.key /\ c.size = q.size
      /\ c.blob = q.blob /\ c.random = q.random /\ c.unreserve = f
      /\ c.removeTempfile = x /\ c.result = v
  BY <1>2, SetResultFields
<1> QED
  BY <1>3 DEF b, d

\* The fields of a request after commit.
LEMMA CommitOutcomeFields ==
    ASSUME NEW q \in RequestType, q.op \in {"Put", "Get"}, NEW add,
           ~add.hung, add.ok \in BOOLEAN
    PROVE  LET c == CommitOutcome(q, add) IN
           /\ c \in RequestType
           /\ c.pc = "defer" /\ c.op = q.op /\ c.key = q.key /\ c.size = q.size
           /\ c.blob = q.blob /\ c.random = q.random
           /\ ~c.unreserve /\ (c.removeTempfile <=> ~add.ok)
           /\ c.result \in {"addFailed", "ok", "hit"}
           /\ ~add.ok => c.result = "addFailed"
           /\ add.ok /\ q.op = "Put" => c.result = "ok"
           /\ add.ok /\ q.op = "Get" => c.result = "hit"
<1> DEFINE f == FALSE
           x == ~add.ok
           v == CASE add.hung -> "hung"
                  [] ~add.ok /\ ~add.hung -> "addFailed"
                  [] add.ok /\ q.op = "Put" -> "ok"
                  [] add.ok /\ q.op = "Get" -> "hit"
           c == SetResult(SetRemoveTempfile(SetUnreserve(SetPc(q, "defer"), f), x), v)
<1>1. CommitOutcome(q, add) = c
  BY DEF CommitOutcome, SetPc, SetUnreserve, SetRemoveTempfile, SetResult
<1>2. /\ v \in {"addFailed", "ok", "hit"}
      /\ ~add.ok => v = "addFailed"
      /\ add.ok /\ q.op = "Put" => v = "ok"
      /\ add.ok /\ q.op = "Get" => v = "hit"
  <2>1. CASE ~add.ok
    BY <2>1
  <2>2. CASE add.ok /\ q.op = "Put"
    BY <2>2
  <2>3. CASE add.ok /\ q.op = "Get"
    BY <2>3
  <2> QED
    BY <2>1, <2>2, <2>3
<1> HIDE DEF v
<1>3. "defer" \in Steps /\ v \in Results
  BY <1>2 DEF Steps, Results
<1>4. f \in BOOLEAN /\ x \in BOOLEAN
  OBVIOUS
<1> HIDE DEF f, x
<1>6. /\ c \in RequestType
      /\ c.pc = "defer" /\ c.op = q.op /\ c.key = q.key /\ c.size = q.size
      /\ c.blob = q.blob /\ c.random = q.random /\ c.unreserve = f
      /\ c.removeTempfile = x /\ c.result = v
  BY <1>3, <1>4, EndedFields
<1> HIDE DEF c
<1>7. ~c.unreserve /\ (c.removeTempfile <=> ~add.ok)
  BY <1>6 DEF f, x
<1> QED
  BY <1>1, <1>2, <1>6, <1>7

\* The reservation is given back, and the file goes from the request to the index or
\* stays with the request.
LEMMA CommitKeeps ==
    ASSUME Inv, Watch, NEW r \in Request, Commit(r)
    PROVE  Inv'
<1> DEFINE q    == req[r]
           p    == Path(q)
           unr  == IF q.size > 0 THEN Unreserve(lru, q.size)
                                 ELSE [ok |-> TRUE, lru |-> lru]
           item == [size |-> q.blob.size, sizeOnDisk |-> q.blob.sizeOnDisk,
                    random |-> q.random]
           add  == Add(unr.lru, q.key, item)
           c    == CommitOutcome(q, add)
           E    == Paths(add.evicted)
<1>1. /\ q \in RequestType /\ RequestInv(q) /\ q.pc = "commit"
      /\ Reserved(q) \in Nat /\ lru.reservedSize \in Nat
  BY RequestFacts DEF Commit
<1>2. /\ q.op \in {"Put", "Get"} /\ q.blob \in Blobs
  BY <1>1 DEF RequestInv, Blobs
<1>3. /\ TempOf(q) = {p} /\ p \in DOMAIN disk /\ disk[p].blob = q.blob
      /\ p \notin IndexPaths(lru) \cup pending \cup removing \cup loading
      /\ q.key \in Key /\ q.random \in Random /\ p \in TempPaths
  BY <1>1, TempFacts, TempMembers
<1>4. /\ unr.ok /\ IndexInv(unr.lru) /\ unr.lru.cache = lru.cache
      /\ unr.lru.reservedSize = lru.reservedSize - Reserved(q)
  <2>1. IndexInv(lru) /\ q.size \in Int
    BY <1>1 DEF Inv, RequestType
  <2>2. CASE q.size > 0
    <3>1. q.unreserve
      BY <1>1, <2>2 DEF RequestInv
    <3>2. Reserved(q) = q.size /\ q.size \in Nat
      BY <2>1, <2>2, <3>1 DEF Reserved
    <3>3. q.size <= lru.reservedSize
      BY <3>2, ReservedBound
    <3> QED
      BY <2>1, <2>2, <3>2, <3>3, UnreserveKeeps, UnreserveMap
  <2>3. CASE ~(q.size > 0)
    <3>1. ~q.unreserve
      BY <1>1, <2>3 DEF RequestInv
    <3>2. Reserved(q) = 0
      BY <3>1 DEF Reserved
    <3> QED
      BY <1>1, <2>1, <2>3, <3>2
  <2> QED
    BY <2>2, <2>3
<1>5. item \in Item
  BY <1>2, <1>3, DiskAssumption DEF Blobs
<1>6. item.random = q.random /\ item.size = q.blob.size
  OBVIOUS
<1>7. Commit(r) => /\ lru' = add.lru /\ evict(add.evicted) /\ Step(r, c)
                   /\ UNCHANGED <<disk, removing, loading, serving, crashes>>
  BY <1>4 DEF Commit
<1> HIDE DEF unr, item
<1>8. IndexPaths(unr.lru) = IndexPaths(lru)
  BY <1>4 DEF IndexPaths
<1>9. /\ ~add.hung /\ add.ok \in BOOLEAN /\ IndexInv(add.lru)
      /\ add.lru.reservedSize = lru.reservedSize - Reserved(q)
  BY <1>3, <1>4, <1>5, AddKeeps
<1>10. <<q.key, item.random>> = p
  BY <1>6 DEF Path
<1>11. /\ ~add.ok => add.lru = unr.lru /\ E = {}
       /\ add.ok =>
            /\ IndexPaths(add.lru) \cup E = IndexPaths(unr.lru) \cup {p}
            /\ IndexPaths(add.lru) \cap E = {}
            /\ \A j \in DOMAIN add.lru.cache :
                  \/ j = q.key /\ add.lru.cache[j] = item
                  \/ /\ j # q.key /\ j \in DOMAIN unr.lru.cache
                     /\ add.lru.cache[j] = unr.lru.cache[j]
  BY <1>3, <1>4, <1>5, <1>8, <1>10, AddPaths
<1>12. /\ c \in RequestType
       /\ c.pc = "defer" /\ c.op = q.op /\ c.key = q.key /\ c.size = q.size
       /\ c.random = q.random /\ ~c.unreserve /\ (c.removeTempfile <=> ~add.ok)
       /\ c.result \in {"addFailed", "ok", "hit"}
  BY <1>1, <1>2, <1>9, CommitOutcomeFields
<1> HIDE DEF add, c
<1>13. /\ lru' = add.lru /\ pending' = pending \cup E /\ Step(r, c)
       /\ disk' = disk /\ removing' = removing /\ loading' = loading
       /\ crashes' = crashes
  BY <1>7 DEF evict
<1> HIDE DEF E
<1>14. RequestInv(c)
  BY <1>1, <1>2, <1>3, <1>12 DEF RequestInv
<1>15. Reserved(c) = 0 /\ TempOf(c) = IF add.ok THEN {} ELSE {p}
  BY <1>12 DEF Reserved, TempOf, Holds, Path
<1>16. /\ TempPaths' = (TempPaths \ TempOf(q)) \cup TempOf(c)
       /\ TempOf(c) \cap (TempPaths \ TempOf(q)) = {} => Distinct'
  BY <1>12, <1>13, TempStep DEF Inv
<1>17. Distinct'
  BY <1>3, <1>15, <1>16
<1>18. Owned'
  <2>1. IndexPaths(lru)' = IndexPaths(add.lru)
    BY <1>13 DEF IndexPaths
  <2> HIDE DEF p
  <2>2. CASE add.ok
    <3>1. TempPaths' = TempPaths \ {p}
      BY <1>3, <1>15, <1>16, <2>2
    <3>2. IndexPaths(lru)' \cup E = IndexPaths(lru) \cup {p}
      BY <1>8, <1>11, <2>1, <2>2
    <3>3. IndexPaths(lru)' \cap E = {}
      BY <1>11, <2>1, <2>2
    <3> QED
      BY <1>3, <1>13, <3>1, <3>2, <3>3 DEF Inv, Owned
  <2>3. CASE ~add.ok
    <3>1. TempPaths' = TempPaths
      BY <1>3, <1>15, <1>16, <2>3
    <3>2. IndexPaths(lru)' = IndexPaths(lru) /\ pending' = pending
      BY <1>8, <1>11, <1>13, <2>1, <2>3
    <3> QED
      BY <1>13, <3>1, <3>2 DEF Inv, Owned
  <2> QED
    BY <2>2, <2>3
<1>19. FilesOK(disk') /\ Evolves /\ FreshPaths
  BY <1>13 DEF Inv, TypeInv, Evolves, FreshPaths
<1>20. req'[r] = c
  BY <1>12, <1>13, StepFields DEF Inv
<1>21. Writes(req[r])'
  BY <1>12, <1>20 DEF Writes
<1>22. lru'.reservedSize = lru.reservedSize - Reserved(req[r]) + Reserved(c)
  BY <1>1, <1>9, <1>13, <1>15
<1>23. ASSUME NEW j \in DOMAIN lru'.cache
       PROVE  \/ j \in DOMAIN lru.cache /\ lru'.cache[j] = lru.cache[j]
              \/ IndexFile(j)'
  <2>1. CASE add.ok /\ j = q.key
    <3>1. lru'.cache[j] = item
      BY <1>11, <1>13, <1>23, <2>1
    <3>2. Complete(disk[p], q.key)
      BY <1>1 DEF Inv, Writes
    <3> QED
      BY <1>3, <1>6, <1>10, <1>13, <2>1, <3>1, <3>2 DEF IndexFile, Complete, Genuine
  <2>2. CASE ~(add.ok /\ j = q.key)
    BY <1>4, <1>11, <1>13, <1>23, <2>2
  <2> QED
    BY <2>1, <2>2
<1>24. BeforeCrash =>
         /\ IndexMoves
         /\ (req[r].pc = "open" /\ Path(req[r]) \in DOMAIN disk => OpenFile(req[r]))'
         /\ c.op = "Get" /\ c.pc \in {"miss", "unreadable", "fetch", "create"} => r \in excused'
         /\ c.result # "torn"
  BY <1>12, <1>20, <1>23 DEF IndexMoves
<1> QED
  BY <1>9, <1>12, <1>13, <1>14, <1>17, <1>18, <1>19, <1>21, <1>22, <1>24,
     RequestStepKeeps

\* The deferred function removes the tempfile that was not committed, and no other.
LEMMA DeferFileKeeps ==
    ASSUME Inv, Watch, NEW r \in Request, DeferFile(r)
    PROVE  Inv'
<1> DEFINE q == req[r]
           p == Path(q)
           g == Goto(q, "unreserve")
           c == IF q.unreserve THEN g ELSE Idle
           f == FALSE
<1>1. /\ q \in RequestType /\ RequestInv(q) /\ q.pc = "defer" /\ PathOf(r) = p
      /\ lru' = lru /\ pending' = pending /\ removing' = removing
      /\ loading' = loading /\ crashes' = crashes /\ Step(r, c)
  BY RequestFacts DEF DeferFile
<1>2. /\ g \in RequestType
      /\ g.pc = "unreserve" /\ g.op = q.op /\ g.key = q.key /\ g.size = q.size
      /\ g.random = q.random /\ g.unreserve = q.unreserve
      /\ g.removeTempfile = q.removeTempfile /\ g.result = q.result
  <2>1. "unreserve" \in Steps
    BY DEF Steps
  <2>2. g = SetPc(q, "unreserve")
    BY DEF Goto, SetPc
  <2> HIDE DEF g
  <2> QED
    BY <1>1, <2>1, <2>2, SetPcFields
<1> HIDE DEF g
<1>3. c \in RequestType /\ RequestInv(c) /\ Reserved(c) = Reserved(q) /\ TempOf(c) = {}
  <2>1. CASE q.unreserve
    <3>1. RequestInv(g)
      BY <1>1, <1>2, <2>1 DEF RequestInv
    <3>2. Reserved(g) = Reserved(q) /\ TempOf(g) = {}
      BY <1>2 DEF Reserved, TempOf, Holds
    <3> QED
      BY <1>2, <2>1, <3>1, <3>2
  <2>2. CASE ~q.unreserve
    <3>1. Reserved(q) = 0
      BY <2>2 DEF Reserved
    <3> QED
      BY <2>2, <3>1, IdleFields, IdleInv
  <2> QED
    BY <2>1, <2>2
<1>4. /\ c.pc \in {"unreserve", "idle"} /\ c.result \in {q.result, "none"}
  BY <1>2, IdleFields
<1> HIDE DEF c
<1>5. FilesOK(disk) /\ TempOf(q) \subseteq TempPaths
  BY TempMembers DEF Inv, TypeInv, TempOf
<1>6. TempOf(q) = IF q.removeTempfile THEN {p} ELSE {}
  BY <1>1 DEF TempOf, Holds
<1>7. /\ FilesOK(disk') /\ Evolves /\ DOMAIN disk' = DOMAIN disk \ TempOf(q)
  <2>1. CASE q.removeTempfile
    <3> DEFINE S == DOMAIN disk \ {p}
    <3>1. disk' = Restrict(disk, S)
      BY <1>1, <2>1 DEF DeferFile
    <3>2. S \in SUBSET DOMAIN disk
      OBVIOUS
    <3> HIDE DEF S
    <3>3. FilesOK(disk') /\ DOMAIN disk' = S /\ \A x \in S : disk'[x] = disk[x]
      BY <1>5, <3>1, <3>2, FilesRestricted
    <3> QED
      BY <1>6, <2>1, <3>3 DEF Evolves, S
  <2>2. CASE ~q.removeTempfile /\ q.blobFile /\ p \in DOMAIN disk
    <3>1. disk' = [disk EXCEPT ![p].wip = FALSE]
      BY <1>1, <2>2 DEF DeferFile
    <3>2. disk' = Marked(disk, p, f) /\ f \in BOOLEAN
      BY <3>1 DEF Marked
    <3> HIDE DEF f, p
    <3>3. /\ FilesOK(disk') /\ DOMAIN disk' = DOMAIN disk
          /\ disk'[p].blob = disk[p].blob /\ disk'[p].len = disk[p].len
          /\ disk'[p].whole = disk[p].whole
          /\ \A x \in DOMAIN disk \ {p} : disk'[x] = disk[x]
      BY <1>5, <2>2, <3>2, FileMarked
    <3>4. Evolves
      BY <3>3 DEF Evolves
    <3> QED
      BY <1>6, <2>2, <3>3, <3>4
  <2>3. CASE ~q.removeTempfile /\ ~(q.blobFile /\ p \in DOMAIN disk)
    <3>1. disk' = disk
      BY <1>1, <2>3 DEF DeferFile
    <3> QED
      BY <1>5, <1>6, <2>3, <3>1 DEF Evolves
  <2> QED
    BY <2>1, <2>2, <2>3
<1>8. FreshPaths
  BY <1>7 DEF FreshPaths
<1>9. /\ TempPaths' = (TempPaths \ TempOf(q)) \cup TempOf(c)
      /\ TempOf(c) \cap (TempPaths \ TempOf(q)) = {} => Distinct'
  BY <1>1, <1>3, TempStep DEF Inv
<1>10. Distinct' /\ TempPaths' = TempPaths \ TempOf(q)
  BY <1>3, <1>9
<1>11. Owned'
  <2>1. IndexPaths(lru)' = IndexPaths(lru)
    BY <1>1 DEF IndexPaths
  <2> QED
    BY <1>1, <1>5, <1>7, <1>10, <2>1 DEF Inv, Owned
<1>12. req'[r] = c
  BY <1>1, <1>3, StepFields DEF Inv
<1>13. Writes(req[r])'
  BY <1>4, <1>12 DEF Writes
<1>14. IndexInv(lru') /\ lru'.reservedSize = lru.reservedSize - Reserved(q) + Reserved(c)
  BY <1>1, <1>3, RequestFacts DEF Inv
<1>15. BeforeCrash =>
         /\ IndexMoves
         /\ (req[r].pc = "open" /\ Path(req[r]) \in DOMAIN disk => OpenFile(req[r]))'
         /\ c.op = "Get" /\ c.pc \in {"miss", "unreadable", "fetch", "create"} => r \in excused'
         /\ c.result # "torn"
  BY <1>1, <1>4, <1>12 DEF IndexMoves, BeforeCrash, ReadsAreWhole
<1> QED
  BY <1>1, <1>3, <1>7, <1>8, <1>10, <1>11, <1>13, <1>14, <1>15, RequestStepKeeps

\* The deferred function gives back what the request has reserved, which always
\* can be given back.
LEMMA DeferUnreserveKeeps ==
    ASSUME Inv, Watch, NEW r \in Request, DeferUnreserve(r)
    PROVE  Inv'
<1> DEFINE q   == req[r]
           unr == Unreserve(lru, q.size)
<1>1. /\ q \in RequestType /\ RequestInv(q) /\ q.pc = "unreserve"
      /\ Reserved(q) \in Nat /\ lru.reservedSize \in Nat
      /\ lru' = unr.lru /\ pending' = pending /\ removing' = removing
      /\ loading' = loading /\ crashes' = crashes /\ disk' = disk
      /\ Step(r, IF unr.ok THEN Idle ELSE [Idle EXCEPT !.result = "unreserveFailed"])
  BY RequestFacts DEF DeferUnreserve
<1>2. q.unreserve /\ q.size > 0 /\ q.size \in Int
  BY <1>1 DEF RequestInv, RequestType
<1>3. Reserved(q) = q.size
  BY <1>2 DEF Reserved
<1>4. q.size \in Nat /\ q.size <= lru.reservedSize
  BY <1>1, <1>3, ReservedBound
<1>5. IndexInv(lru)
  BY DEF Inv
<1>6. /\ unr.ok /\ IndexInv(unr.lru) /\ unr.lru.cache = lru.cache
      /\ unr.lru.reservedSize = lru.reservedSize - q.size
  BY <1>4, <1>5, UnreserveKeeps, UnreserveMap
<1>7. Step(r, Idle)
  BY <1>1, <1>6
<1> HIDE DEF unr
<1>8. TempOf(Idle) = TempOf(q)
  BY <1>1, IdleInv DEF TempOf, Holds
<1>9. lru'.reservedSize = lru.reservedSize - Reserved(q) + Reserved(Idle)
  BY <1>1, <1>3, <1>6, IdleInv
<1>10. /\ Idle.pc \notin {"write", "commit"}
       /\ BeforeCrash =>
            /\ Idle.pc = "open" /\ Path(Idle) \in DOMAIN disk => OpenFile(Idle)
            /\ Idle.op = "Get" /\ Idle.pc \in {"miss", "unreadable", "fetch", "create"} => r \in excused'
            /\ Idle.result # "torn"
  BY IdleFields
<1> QED
  BY <1>1, <1>6, <1>7, <1>8, <1>9, <1>10, IdleFields, IdleInv, QuietStepKeeps

-----------------------------------------------------------------------------
(***************************************************************************)
(* The actions of Get and Contains.                                        *)
(***************************************************************************)

\* The absence that a Get meets is recorded.
LEMMA AbsentStep ==
    ASSUME Watch, NEW r \in Request, NEW q, NEW c, req'[r] = c, c.op = "Get",
           c.key = q.key, c.size = q.size, r \in excused \/ Absent(lru, q)
    PROVE  r \in excused'
  BY DEF Watch, Absent

\* A request that goes on to another step of a Get, with nothing reserved so far.
LEMMA GotoInv ==
    ASSUME NEW q \in RequestType, RequestInv(q), q.key \in Key, q.op = "Get",
           ~q.unreserve, ~q.removeTempfile, q.result = "none",
           NEW s \in {"open", "slow", "miss", "unreadable", "fetch"},
           s = "fetch" => ~(q.size > 0)
    PROVE  LET c == Goto(q, s) IN
           /\ c \in RequestType /\ RequestInv(c)
           /\ c.pc = s /\ c.op = "Get" /\ c.key = q.key /\ c.size = q.size
           /\ c.random = q.random /\ c.result = q.result
           /\ TempOf(c) = {} /\ Reserved(c) = 0
<1> DEFINE c == SetPc(q, s)
<1>1. Goto(q, s) = c
  BY DEF Goto, SetPc
<1>2. s \in Steps
  BY DEF Steps
<1>3. /\ c \in RequestType
      /\ c.pc = s /\ c.op = "Get" /\ c.key = q.key /\ c.size = q.size
      /\ c.random = q.random /\ c.result = q.result
      /\ c.unreserve = q.unreserve /\ c.removeTempfile = q.removeTempfile
  BY <1>2, SetPcFields
<1> HIDE DEF c
<1>4. RequestInv(c)
  BY <1>3 DEF RequestInv
<1>5. TempOf(c) = {} /\ Reserved(c) = 0
  BY <1>3 DEF TempOf, Holds, Reserved
<1> QED
  BY <1>1, <1>3, <1>4, <1>5

\* After a local miss: the space for a blob of known size is reserved for the Get
\* that will give it back.
LEMMA TryProxyKeeps ==
    ASSUME Inv, Watch, NEW r \in Request,
           NEW q \in RequestType, RequestInv(q), q.key \in Key, q.op = "Get",
           q.pc # "unreserve", ~q.unreserve, ~q.removeTempfile,
           TempOf(req[r]) = {}, Reserved(req[r]) = 0,
           TryProxy(r, lru, q),
           disk' = disk, removing' = removing, loading' = loading, crashes' = crashes,
           BeforeCrash => r \in excused \/ Absent(lru, q), q.result = "none"
    PROVE  Inv'
<1> DEFINE res == Reserve(lru, q.size)
<1>1. /\ IndexInv(lru) /\ q.size \in Int /\ q.size <= MaxInt /\ lru.reservedSize \in Nat
  BY RequestFacts DEF Inv, RequestInv, RequestType
<1>2. /\ IndexInv(res.lru)
      /\ res.lru.reservedSize = lru.reservedSize + (IF res.err = "none" THEN q.size ELSE 0)
  BY <1>1, ReserveKeeps
<1>3. /\ IndexPaths(res.lru) \cup Paths(res.evicted) = IndexPaths(lru)
      /\ IndexPaths(res.lru) \cap Paths(res.evicted) = {}
      /\ \A k \in DOMAIN res.lru.cache :
            k \in DOMAIN lru.cache /\ res.lru.cache[k] = lru.cache[k]
  BY <1>1, ReservePaths
<1>4. TempOf(q) = {} /\ Reserved(q) = 0
  BY DEF TempOf, Holds, Reserved
<1>5. ASSUME q.size > 0, lru' = res.lru, evict(res.evicted), res.err = "none",
             Step(r, [q EXCEPT !.pc = "fetch", !.unreserve = TRUE])
      PROVE  Inv'
  <2> DEFINE t == TRUE
             c == SetUnreserve(SetPc(q, "fetch"), t)
  <2>1. Step(r, c)
    BY <1>5 DEF SetPc, SetUnreserve
  <2>2. "fetch" \in Steps /\ t \in BOOLEAN
    BY DEF Steps
  <2> HIDE DEF t
  <2>3. /\ c \in RequestType
        /\ c.pc = "fetch" /\ c.op = q.op /\ c.key = q.key /\ c.size = q.size
        /\ c.random = q.random /\ c.result = q.result
        /\ c.unreserve = t /\ c.removeTempfile = q.removeTempfile
    BY <2>2, SetPcFields, SetUnreserveFields
  <2> HIDE DEF c
  <2>4. c.unreserve
    BY <2>3 DEF t
  <2>5. RequestInv(c)
    BY <1>5, <2>3, <2>4 DEF RequestInv
  <2>6. TempOf(c) = TempOf(req[r]) /\ Reserved(c) = q.size
    BY <2>3, <2>4 DEF TempOf, Holds, Reserved
  <2>7. req'[r] = c
    BY <2>1, <2>3, StepFields DEF Inv
  <2>8. BeforeCrash => r \in excused'
    BY <2>3, <2>7, AbsentStep
  <2>9. /\ pending' = pending \cup Paths(res.evicted)
        /\ lru'.reservedSize = lru.reservedSize - Reserved(req[r]) + Reserved(c)
    BY <1>1, <1>2, <1>5, <2>6 DEF evict
  <2>10. /\ c.pc \notin {"write", "commit"}
         /\ BeforeCrash =>
              /\ c.pc = "open" /\ Path(c) \in DOMAIN disk => OpenFile(c)
              /\ c.op = "Get" /\ c.pc \in {"miss", "unreadable", "fetch", "create"} => r \in excused'
              /\ c.result # "torn"
    BY <2>3, <2>8
  <2> HIDE DEF res
  <2> QED
    BY <1>2, <1>3, <1>5, <2>1, <2>3, <2>5, <2>6, <2>9, <2>10, EvictStepKeeps
<1>6. ASSUME q.size > 0, lru' = res.lru, evict(res.evicted), res.err # "none",
             Step(r, Return(q, "error"))
      PROVE  Inv'
  <2> DEFINE c == Return(q, "error")
  <2>1. "error" \in Results \ {"hung", "unreserveFailed"} /\ q.op \in {"Put", "Get"}
    BY DEF Results
  <2>2. /\ c \in RequestType /\ RequestInv(c)
        /\ c.pc = "defer" /\ c.result = "error"
        /\ TempOf(c) = TempOf(req[r]) /\ Reserved(c) = 0
    BY <1>4, <2>1, ReturnInv
  <2> HIDE DEF c
  <2>3. /\ pending' = pending \cup Paths(res.evicted) /\ Step(r, c)
        /\ lru'.reservedSize = lru.reservedSize - Reserved(req[r]) + Reserved(c)
    BY <1>1, <1>2, <1>6, <2>2 DEF evict, c
  <2>4. /\ c.pc \notin {"write", "commit"}
        /\ BeforeCrash =>
             /\ c.pc = "open" /\ Path(c) \in DOMAIN disk => OpenFile(c)
             /\ c.op = "Get" /\ c.pc \in {"miss", "unreadable", "fetch", "create"} => r \in excused'
             /\ c.result # "torn"
    BY <2>2
  <2> HIDE DEF res
  <2> QED
    BY <1>2, <1>3, <1>6, <2>2, <2>3, <2>4, EvictStepKeeps
<1>7. ASSUME ~(q.size > 0), lru' = lru, pending' = pending, Step(r, Goto(q, "fetch"))
      PROVE  Inv'
  <2> DEFINE c == Goto(q, "fetch")
  <2>1. /\ c \in RequestType /\ RequestInv(c)
        /\ c.pc = "fetch" /\ c.op = "Get" /\ c.key = q.key /\ c.size = q.size
        /\ c.random = q.random /\ c.result = q.result
        /\ TempOf(c) = {} /\ Reserved(c) = 0
    BY <1>7, GotoInv
  <2> HIDE DEF c
  <2>2. Step(r, c)
    BY <1>7 DEF c
  <2>3. req'[r] = c
    BY <2>1, <2>2, StepFields DEF Inv
  <2>4. BeforeCrash => r \in excused'
    BY <2>1, <2>3, AbsentStep
  <2>5. /\ c.pc \notin {"write", "commit"}
        /\ BeforeCrash =>
             /\ c.pc = "open" /\ Path(c) \in DOMAIN disk => OpenFile(c)
             /\ c.op = "Get" /\ c.pc \in {"miss", "unreadable", "fetch", "create"} => r \in excused'
             /\ c.result # "torn"
    BY <2>1, <2>4
  <2>6. /\ lru'.cache = lru.cache /\ IndexInv(lru')
        /\ lru'.reservedSize = lru.reservedSize - Reserved(req[r]) + Reserved(c)
        /\ TempOf(c) = TempOf(req[r])
    BY <1>1, <1>7, <2>1
  <2> QED
    BY <1>7, <2>1, <2>2, <2>5, <2>6, QuietStepKeeps
<1>8. ASSUME lru' = lru, pending' = pending, Step(r, Return(q, "miss"))
      PROVE  Inv'
  <2>1. "miss" \in Results \ {"hung", "unreserveFailed"} /\ q.op \in {"Put", "Get"}
    BY DEF Results
  <2>2. lru'.cache = lru.cache /\ IndexInv(lru') /\ lru'.reservedSize = lru.reservedSize
    BY <1>1, <1>8
  <2> QED
    BY <1>4, <1>8, <2>1, <2>2, ReturnStepKeeps
<1> QED
  BY <1>5, <1>6, <1>7, <1>8 DEF TryProxy

\* A Get turns to its second look at the index, or to the proxy.
LEMMA GotoStepKeeps ==
    ASSUME Inv, Watch, NEW r \in Request,
           NEW q \in RequestType, RequestInv(q), q.key \in Key, q.op = "Get",
           ~q.unreserve, ~q.removeTempfile, NEW s \in {"slow", "miss", "unreadable"},
           s = "unreadable" => req[r].pc \in {"open", "slow"},
           TempOf(req[r]) = {}, Reserved(req[r]) = 0,
           Step(r, Goto(q, s)),
           disk' = disk, removing' = removing, loading' = loading, crashes' = crashes,
           pending' = pending, lru'.cache = lru.cache,
           IndexInv(lru'), lru'.reservedSize = lru.reservedSize,
           BeforeCrash /\ s = "miss" => r \in excused \/ Absent(lru, q), q.result = "none"
    PROVE  Inv'
<1> DEFINE c == Goto(q, s)
<1>1. /\ c \in RequestType /\ RequestInv(c)
      /\ c.pc = s /\ c.op = "Get" /\ c.key = q.key /\ c.size = q.size
      /\ c.result = q.result /\ TempOf(c) = {} /\ Reserved(c) = 0
  BY GotoInv
<1> HIDE DEF c
<1>2. Step(r, c)
  BY DEF c
<1>3. req'[r] = c
  BY <1>1, <1>2, StepFields DEF Inv
<1>4. /\ BeforeCrash /\ s = "miss" => r \in excused'
      /\ s = "unreadable" => r \in excused'
  BY <1>1, <1>3, AbsentStep DEF Watch
<1>5. /\ c.pc \notin {"write", "commit"}
      /\ BeforeCrash =>
           /\ c.pc = "open" /\ Path(c) \in DOMAIN disk => OpenFile(c)
           /\ c.op = "Get" /\ c.pc \in {"miss", "unreadable", "fetch", "create"} => r \in excused'
           /\ c.result # "torn"
  BY <1>1, <1>4
<1>6. /\ lru'.reservedSize = lru.reservedSize - Reserved(req[r]) + Reserved(c)
      /\ TempOf(c) = TempOf(req[r])
  BY <1>1, RequestFacts
<1> QED
  BY <1>1, <1>2, <1>5, <1>6, QuietStepKeeps

\* A file that holds all of a genuine blob is turned down for its size only.
LEMMA CompleteAccepted ==
    ASSUME NEW f \in FileType, NEW q, Complete(f, q.key), Rejected(q, f)
    PROVE  isSizeMismatch(q.size, f.blob.size)
<1>1. f.blob \in Blobs /\ f.whole /\ f.len = f.blob.sizeOnDisk
  BY DEF FileType, Complete
<1>2. Kind[f.blob.key] = "AC" => f.blob.size = f.blob.sizeOnDisk
  BY <1>1, BlobType
<1> QED
  BY <1>1, <1>2 DEF Rejected

\* A Get has opened file f.
LEMMA OpenedKeeps ==
    ASSUME Inv, Watch, NEW r \in Request,
           NEW q \in RequestType, RequestInv(q), q.key \in Key, q.op = "Get",
           q.pc # "unreserve", ~q.unreserve, ~q.removeTempfile,
           TempOf(req[r]) = {}, Reserved(req[r]) = 0,
           NEW f \in FileType, Step(r, Opened(q, f)),
           disk' = disk, removing' = removing, loading' = loading, crashes' = crashes,
           pending' = pending, lru'.cache = lru.cache,
           IndexInv(lru'), lru'.reservedSize = lru.reservedSize,
           BeforeCrash =>
             /\ Complete(f, q.key)
             /\ isSizeMismatch(q.size, f.blob.size) => r \in excused \/ Absent(lru, q),
           q.result = "none"
    PROVE  Inv'
<1>1. CASE Rejected(q, f)
  <2> DEFINE s == "miss"
  <2>1. Step(r, Goto(q, s)) /\ s \in {"slow", "miss", "unreadable"} /\ s # "unreadable"
    BY <1>1 DEF Opened
  <2>2. BeforeCrash => r \in excused \/ Absent(lru, q)
    BY <1>1, CompleteAccepted
  <2> HIDE DEF s
  <2> QED
    BY <2>1, <2>2, GotoStepKeeps
<1>2. CASE ~Rejected(q, f)
  <2> DEFINE v == IF f.whole THEN "hit" ELSE "torn"
  <2>1. Step(r, Return(q, v))
    BY <1>2 DEF Opened
  <2>2. v \in Results \ {"hung", "unreserveFailed"} /\ q.op \in {"Put", "Get"}
    BY DEF Results
  <2>3. BeforeCrash => v # "torn"
    BY DEF Complete
  <2>4. TempOf(q) = TempOf(req[r]) /\ Reserved(q) = Reserved(req[r])
    BY DEF TempOf, Holds, Reserved
  <2> HIDE DEF v
  <2> QED
    BY <2>1, <2>2, <2>3, <2>4, ReturnStepKeeps
<1> QED
  BY <1>1, <1>2

\* A Get cannot read its file.
LEMMA UnreadableKeeps ==
    ASSUME Inv, Watch, NEW r \in Request, NEW p, req[r].pc \in {"open", "slow"},
           Unreadable(r, req[r], p),
           disk' = disk, removing' = removing, loading' = loading, crashes' = crashes,
           pending' = pending, lru'.cache = lru.cache,
           IndexInv(lru'), lru'.reservedSize = lru.reservedSize
    PROVE  Inv'
<1> DEFINE q == req[r]
<1>1. /\ q \in RequestType /\ RequestInv(q) /\ q.key \in Key /\ q.op = "Get"
      /\ ~q.unreserve /\ ~q.removeTempfile /\ q.result = "none" /\ q.pc # "unreserve"
  BY RequestFacts DEF RequestInv
<1>2. TempOf(q) = {} /\ Reserved(q) = 0
  BY <1>1 DEF TempOf, Holds, Reserved
<1>3. CASE Step(r, Goto(q, "unreadable"))
  <2> DEFINE s == "unreadable"
  <2>1. /\ Step(r, Goto(q, s)) /\ s \in {"slow", "miss", "unreadable"} /\ s # "miss"
    BY <1>3
  <2> HIDE DEF s
  <2> QED
    BY <1>1, <1>2, <2>1, GotoStepKeeps
<1>4. CASE Step(r, Return(q, "error"))
  <2> DEFINE v == "error"
  <2>1. /\ Step(r, Return(q, v)) /\ v \in Results \ {"hung", "unreserveFailed"}
        /\ v # "torn" /\ q.op \in {"Put", "Get"}
    BY <1>1, <1>4 DEF Results
  <2> HIDE DEF v
  <2> QED
    BY <1>1, <2>1, ReturnStepKeeps
<1> QED
  BY <1>3, <1>4 DEF Unreadable

\* The opening of the file without the lock.
LEMMA GetOpenKeeps ==
    ASSUME Inv, Watch, NEW r \in Request, GetOpen(r)
    PROVE  Inv'
<1> DEFINE q == req[r]
           p == Path(q)
<1>1. /\ q \in RequestType /\ RequestInv(q) /\ q.pc = "open" /\ PathOf(r) = p
      /\ lru' = lru /\ pending' = pending /\ removing' = removing
      /\ loading' = loading /\ crashes' = crashes /\ disk' = disk
  BY RequestFacts DEF GetOpen
<1>2. q.key \in Key /\ q.op = "Get" /\ ~q.unreserve /\ ~q.removeTempfile
  BY <1>1 DEF RequestInv
<1>3. TempOf(q) = {} /\ Reserved(q) = 0
  BY <1>2 DEF TempOf, Holds, Reserved
<1>4. lru'.cache = lru.cache /\ IndexInv(lru') /\ lru'.reservedSize = lru.reservedSize
  BY <1>1 DEF Inv
<1>5. q.result = "none"
  BY <1>1 DEF RequestInv
<1> DEFINE step == IF p \in DOMAIN disk THEN Opened(q, disk[p]) ELSE Goto(q, "slow")
<1>6. CASE p \in DOMAIN disk /\ Step(r, step)
  <2>1. Step(r, Opened(q, disk[p])) /\ disk[p] \in FileType
    BY <1>1, <1>6 DEF Inv, TypeInv, FilesOK
  <2>2. BeforeCrash => Complete(disk[p], q.key)
                         /\ ~isSizeMismatch(q.size, disk[p].blob.size)
    BY <1>1, <1>6 DEF BeforeCrash, OpenFile
  <2> QED
    BY <1>1, <1>2, <1>3, <1>4, <1>5, <2>1, <2>2, OpenedKeeps
<1>7. CASE p \notin DOMAIN disk /\ Step(r, step)
  <2> DEFINE s == "slow"
  <2>1. Step(r, Goto(q, s)) /\ s \in {"slow", "miss", "unreadable"} /\ s \notin {"miss", "unreadable"}
    BY <1>7
  <2> HIDE DEF s
  <2> QED
    BY <1>1, <1>2, <1>3, <1>4, <1>5, <2>1, GotoStepKeeps
<1>8. CASE Unreadable(r, q, p)
  BY <1>1, <1>4, <1>8, UnreadableKeeps
<1>9. Step(r, step) \/ Unreadable(r, q, p)
  BY <1>1 DEF GetOpen
<1> QED
  BY <1>6, <1>7, <1>8, <1>9

\* A Get begins: what it finds in the index it will open, and what it does not find
\* it may ask the proxy for.
LEMMA GetLookupKeeps ==
    ASSUME Inv, Watch, NEW r \in Request, NEW k \in Key, NEW size \in AskSize,
           GetLookup(r, k, size)
    PROVE  Inv'
<1> DEFINE get  == Begun("Get", k, size)
           item == lru.cache[k]
<1>1. size \in Int /\ -1 <= size /\ size <= MaxInt /\ MaxInt \in Nat
  BY DiskAssumption, SizeAssumption
<1>2. /\ get \in RequestType
      /\ get.pc = "idle" /\ get.op = "Get" /\ get.key = k /\ get.size = size
      /\ get.random = NoRandom /\ ~get.unreserve /\ ~get.removeTempfile
      /\ get.result = "none"
  BY <1>1, BegunFields
<1>3. /\ req[r] = Idle
      /\ disk' = disk /\ removing' = removing /\ loading' = loading
      /\ crashes' = crashes
      /\ IF k \in DOMAIN lru.cache
         THEN /\ lru' = Get(lru, k)
              /\ Step(r, IF isSizeMismatch(size, item.size) THEN Goto(get, "miss")
                         ELSE [get EXCEPT !.pc = "open", !.random = item.random])
              /\ pending' = pending
         ELSE TryProxy(r, lru, get)
  BY DEF GetLookup, Begun
<1> HIDE DEF get
<1>4. RequestInv(get)
  BY <1>1, <1>2 DEF RequestInv
<1>5. TempOf(req[r]) = {} /\ Reserved(req[r]) = 0 /\ IndexInv(lru)
  BY <1>3, IdleInv DEF Inv
<1>6. /\ Get(lru, k).cache = lru.cache /\ IndexInv(Get(lru, k))
      /\ Get(lru, k).reservedSize = lru.reservedSize
  BY <1>5, GetKeeps, GetMap
<1>7. CASE k \in DOMAIN lru.cache /\ isSizeMismatch(size, item.size)
  <2> DEFINE s == "miss"
  <2>1. Step(r, Goto(get, s)) /\ s \in {"slow", "miss", "unreadable"} /\ s # "unreadable" /\ pending' = pending
    BY <1>3, <1>7
  <2>2. Absent(lru, get)
    BY <1>2, <1>7 DEF Absent
  <2>3. /\ lru'.cache = lru.cache /\ IndexInv(lru')
        /\ lru'.reservedSize = lru.reservedSize
    BY <1>3, <1>6, <1>7
  <2> HIDE DEF s
  <2> QED
    BY <1>2, <1>3, <1>4, <1>5, <2>1, <2>2, <2>3, GotoStepKeeps
<1>8. CASE k \in DOMAIN lru.cache /\ ~isSizeMismatch(size, item.size)
  <2> DEFINE x == item.random
             c == SetRandom(SetPc(get, "open"), x)
  <2>1. Step(r, c) /\ pending' = pending
    BY <1>3, <1>8 DEF SetPc, SetRandom
  <2>2. <<k, x>> \in DOMAIN disk
    BY <1>8 DEF Inv, Owned, IndexPaths
  <2>3. x \in Random
    BY <2>2 DEF Inv, TypeInv, FilesOK
  <2>4. x \in Random \cup {NoRandom} /\ "open" \in Steps
    BY <2>3 DEF Steps
  <2> HIDE DEF x
  <2>5. /\ c \in RequestType
        /\ c.pc = "open" /\ c.op = "Get" /\ c.key = k /\ c.size = size
        /\ c.random = x /\ c.result = "none"
        /\ c.unreserve = get.unreserve /\ c.removeTempfile = get.removeTempfile
    BY <1>2, <2>4, SetPcFields, SetRandomFields
  <2> HIDE DEF c
  <2>6. RequestInv(c)
    BY <1>1, <1>2, <2>5 DEF RequestInv
  <2>7. TempOf(c) = TempOf(req[r]) /\ Reserved(c) = 0
    BY <1>2, <1>5, <2>5 DEF TempOf, Holds, Reserved
  <2>8. BeforeCrash => OpenFile(c)
    BY <1>8, <2>5 DEF BeforeCrash, IndexFile, OpenFile, Path, x
  <2>9. /\ c.pc \notin {"write", "commit"}
        /\ BeforeCrash =>
             /\ c.pc = "open" /\ Path(c) \in DOMAIN disk => OpenFile(c)
             /\ c.op = "Get" /\ c.pc \in {"miss", "unreadable", "fetch", "create"} => r \in excused'
             /\ c.result # "torn"
    BY <2>5, <2>8
  <2>10. /\ lru'.cache = lru.cache /\ IndexInv(lru')
         /\ lru'.reservedSize = lru.reservedSize - Reserved(req[r]) + Reserved(c)
    BY <1>3, <1>5, <1>6, <1>8, <2>7, RequestFacts
  <2> QED
    BY <1>3, <2>1, <2>5, <2>6, <2>7, <2>9, <2>10, QuietStepKeeps
<1>9. CASE k \notin DOMAIN lru.cache
  <2>1. TryProxy(r, lru, get)
    BY <1>3, <1>9
  <2>2. Absent(lru, get)
    BY <1>2, <1>9 DEF Absent
  <2>3. get.key \in Key /\ get.pc # "unreserve"
    BY <1>2
  <2> QED
    BY <1>2, <1>3, <1>4, <1>5, <2>1, <2>2, <2>3, TryProxyKeeps
<1> QED
  BY <1>7, <1>8, <1>9

\* A Get with another random part.
LEMMA SetRandomInv ==
    ASSUME NEW q \in RequestType, RequestInv(q), q.pc \in {"slow", "miss", "unreadable"},
           NEW x \in Random \cup {NoRandom}
    PROVE  LET c == [q EXCEPT !.random = x] IN
           /\ c \in RequestType /\ RequestInv(c)
           /\ c.pc = q.pc /\ c.key \in Key /\ c.op = "Get" /\ c.result = "none"
           /\ ~c.unreserve /\ ~c.removeTempfile
           /\ c.key = q.key /\ c.size = q.size
<1> DEFINE c == SetRandom(q, x)
<1>1. c = [q EXCEPT !.random = x]
  BY DEF SetRandom
<1>2. /\ c \in RequestType
      /\ c.pc = q.pc /\ c.op = q.op /\ c.key = q.key /\ c.size = q.size
      /\ c.unreserve = q.unreserve /\ c.removeTempfile = q.removeTempfile
      /\ c.result = q.result
  BY SetRandomFields
<1> HIDE DEF c
<1>3. /\ q.key \in Key /\ q.op = "Get" /\ q.result = "none" /\ ~q.unreserve
      /\ ~q.removeTempfile
  BY DEF RequestInv
<1>4. RequestInv(c)
  BY <1>2, <1>3 DEF RequestInv
<1> QED
  BY <1>1, <1>2, <1>3, <1>4

\* A Get whose file was gone finds the one that has replaced it, unless the item
\* itself is gone.
LEMMA GetSlowPathKeeps ==
    ASSUME Inv, Watch, NEW r \in Request, GetSlowPath(r)
    PROVE  Inv'
<1> DEFINE q == req[r]
           x == lru.cache[q.key].random
           p == <<q.key, x>>
           c == [q EXCEPT !.random = x]
<1>1. /\ q \in RequestType /\ RequestInv(q) /\ q.pc = "slow"
      /\ lru' = Get(lru, q.key) /\ pending' = pending /\ removing' = removing
      /\ loading' = loading /\ crashes' = crashes /\ disk' = disk
  BY RequestFacts DEF GetSlowPath
<1>2. /\ q.key \in Key /\ q.op = "Get" /\ ~q.unreserve /\ ~q.removeTempfile
      /\ q.result = "none"
  BY <1>1 DEF RequestInv
<1>3. TempOf(q) = {} /\ Reserved(q) = 0 /\ IndexInv(lru)
  BY <1>2 DEF TempOf, Holds, Reserved, Inv
<1>4. lru'.cache = lru.cache /\ IndexInv(lru') /\ lru'.reservedSize = lru.reservedSize
  BY <1>1, <1>2, <1>3, GetKeeps, GetMap
<1>5. q.key \in DOMAIN lru.cache => p \in DOMAIN disk
  BY DEF Inv, Owned, IndexPaths
<1> DEFINE step == IF q.key \in DOMAIN lru.cache /\ p \in DOMAIN disk
                   THEN Opened(c, disk[p]) ELSE Goto(q, "miss")
<1>6. CASE q.key \in DOMAIN lru.cache /\ Step(r, step)
  <2>1. Step(r, Opened(c, disk[p])) /\ disk[p] \in FileType
    BY <1>5, <1>6 DEF Inv, TypeInv, FilesOK
  <2>2. x \in Random \cup {NoRandom}
    BY <1>5, <1>6 DEF Inv, TypeInv, FilesOK
  <2> HIDE DEF x
  <2>3. /\ c \in RequestType /\ RequestInv(c)
        /\ c.pc = "slow" /\ c.key \in Key /\ c.op = "Get" /\ c.result = "none"
        /\ ~c.unreserve /\ ~c.removeTempfile /\ c.key = q.key /\ c.size = q.size
    BY <1>1, <2>2, SetRandomInv
  <2> HIDE DEF c
  <2>4. BeforeCrash => Complete(disk[p], q.key)
                         /\ disk[p].blob.size = lru.cache[q.key].size
    BY <1>6 DEF BeforeCrash, IndexFile, x
  <2>5. BeforeCrash =>
          /\ Complete(disk[p], c.key)
          /\ isSizeMismatch(c.size, disk[p].blob.size) => r \in excused \/ Absent(lru, c)
    BY <2>3, <2>4 DEF Absent
  <2>6. c.pc # "unreserve"
    BY <2>3
  <2> QED
    BY <1>1, <1>3, <1>4, <2>1, <2>3, <2>5, <2>6, OpenedKeeps
<1>7. CASE q.key \notin DOMAIN lru.cache /\ Step(r, step)
  <2> DEFINE s == "miss"
  <2>1. Step(r, Goto(q, s)) /\ s \in {"slow", "miss", "unreadable"} /\ s # "unreadable"
    BY <1>7
  <2>2. Absent(lru, q)
    BY <1>7 DEF Absent
  <2> HIDE DEF s
  <2> QED
    BY <1>1, <1>2, <1>3, <1>4, <2>1, <2>2, GotoStepKeeps
<1>8. CASE Unreadable(r, q, p)
  BY <1>1, <1>4, <1>8, UnreadableKeeps
<1>9. Step(r, step) \/ Unreadable(r, q, p)
  BY DEF GetSlowPath
<1> QED
  BY <1>6, <1>7, <1>8, <1>9

\* A Get that found its file missing or of the wrong size turns to the proxy.
LEMMA GetMissKeeps ==
    ASSUME Inv, Watch, NEW r \in Request, GetMiss(r)
    PROVE  Inv'
<1> DEFINE q == req[r]
           x == NoRandom
           c == [q EXCEPT !.random = x]
<1>1. /\ q \in RequestType /\ RequestInv(q) /\ q.pc \in {"miss", "unreadable"}
      /\ TryProxy(r, lru, c) /\ removing' = removing
      /\ loading' = loading /\ crashes' = crashes /\ disk' = disk
  BY RequestFacts DEF GetMiss
<1>2. q.op = "Get" /\ ~q.unreserve /\ ~q.removeTempfile /\ x \in Random \cup {NoRandom}
  BY <1>1 DEF RequestInv
<1>3. TempOf(q) = {} /\ Reserved(q) = 0
  BY <1>2 DEF TempOf, Holds, Reserved
<1> HIDE DEF x
<1>4. /\ c \in RequestType /\ RequestInv(c)
      /\ c.pc = q.pc /\ c.key \in Key /\ c.op = "Get" /\ c.result = "none"
      /\ ~c.unreserve /\ ~c.removeTempfile
  BY <1>1, <1>2, SetRandomInv
<1> HIDE DEF c
<1>5. BeforeCrash => r \in excused
  BY <1>1, <1>2 DEF BeforeCrash, NoSpuriousMiss
<1>6. c.pc # "unreserve"
  BY <1>1, <1>4
<1> QED
  BY <1>1, <1>3, <1>4, <1>5, <1>6, TryProxyKeeps

\* What the proxy answers: a blob that is taken has the key and the size asked for.
LEMMA GetFetchKeeps ==
    ASSUME Inv, Watch, NEW r \in Request, GetFetch(r)
    PROVE  Inv'
<1> DEFINE q == req[r]
<1>1. /\ q \in RequestType /\ RequestInv(q) /\ q.pc = "fetch"
      /\ lru' = lru /\ pending' = pending /\ removing' = removing
      /\ loading' = loading /\ crashes' = crashes /\ disk' = disk
  BY RequestFacts DEF GetFetch
<1>2. /\ q.key \in Key /\ q.op = "Get" /\ q.op \in {"Put", "Get"} /\ ~q.removeTempfile
      /\ q.result = "none" /\ q.size \in Int /\ -1 <= q.size
  BY <1>1 DEF RequestInv, RequestType
<1>3. lru'.cache = lru.cache /\ IndexInv(lru') /\ lru'.reservedSize = lru.reservedSize
  BY <1>1 DEF Inv
<1>4. ASSUME NEW v \in {"error", "miss"}, Step(r, Return(q, v))
      PROVE  Inv'
  <2>1. v \in Results \ {"hung", "unreserveFailed"} /\ v # "torn"
    BY DEF Results
  <2> QED
    BY <1>1, <1>2, <1>3, <1>4, <2>1, ReturnStepKeeps
<1>5. ASSUME NEW b \in ProxyBlob, b.key = q.key, ~isSizeMismatch(q.size, b.size),
             Step(r, [q EXCEPT !.pc = "create", !.blob = b])
      PROVE  Inv'
  <2> DEFINE c == SetBlob(SetPc(q, "create"), b)
  <2>1. Step(r, c)
    BY <1>5 DEF SetPc, SetBlob
  <2>2. /\ "create" \in Steps /\ b \in Blobs \cup {NoBlob}
        /\ b.size \in Int /\ 0 <= b.size
    <3>1. b \in Blobs
      BY DEF Blobs
    <3> QED
      BY <3>1, BlobType, SizeAssumption DEF Steps
  <2>3. /\ c \in RequestType
        /\ c.pc = "create" /\ c.op = q.op /\ c.key = q.key /\ c.size = q.size
        /\ c.blob = b /\ c.random = q.random /\ c.result = q.result
        /\ c.unreserve = q.unreserve /\ c.removeTempfile = q.removeTempfile
    BY <1>1, <2>2, SetPcFields, SetBlobFields
  <2> HIDE DEF c
  <2>4. q.size \in {-1, b.size}
    BY <1>2, <1>5, <2>2 DEF isSizeMismatch
  <2>5. RequestInv(c)
    BY <1>1, <1>2, <1>5, <2>3, <2>4 DEF RequestInv
  <2>6. TempOf(c) = TempOf(q) /\ Reserved(c) = Reserved(q)
    BY <1>2, <2>3 DEF TempOf, Holds, Reserved
  <2>7. req'[r] = c
    BY <2>1, <2>3, StepFields DEF Inv
  <2>8. BeforeCrash => r \in excused
    BY <1>1, <1>2 DEF BeforeCrash, NoSpuriousMiss
  <2>9. BeforeCrash => r \in excused'
    BY <1>2, <2>3, <2>7, <2>8, AbsentStep
  <2>10. /\ c.pc \notin {"write", "commit"}
         /\ BeforeCrash =>
              /\ c.pc = "open" /\ Path(c) \in DOMAIN disk => OpenFile(c)
              /\ c.op = "Get" /\ c.pc \in {"miss", "unreadable", "fetch", "create"} => r \in excused'
              /\ c.result # "torn"
    BY <1>2, <2>3, <2>9
  <2>11. lru'.reservedSize = lru.reservedSize - Reserved(req[r]) + Reserved(c)
    BY <1>3, <2>6, RequestFacts
  <2> QED
    BY <1>1, <1>3, <2>1, <2>3, <2>5, <2>6, <2>10, <2>11, QuietStepKeeps
<1> QED
  BY <1>4, <1>5 DEF GetFetch

\* A lookup moves an item within the list only.
LEMMA ContainsLookupKeeps ==
    ASSUME Inv, Watch, NEW k \in Key, ContainsLookup(k)
    PROVE  Inv'
<1>1. /\ lru' = Get(lru, k) /\ req' = req /\ disk' = disk /\ pending' = pending
      /\ removing' = removing /\ loading' = loading /\ crashes' = crashes
  BY DEF ContainsLookup
<1>2. IndexInv(lru)
  BY DEF Inv
<1>3. lru'.cache = lru.cache /\ IndexInv(lru') /\ lru'.reservedSize = lru.reservedSize
  BY <1>1, <1>2, GetKeeps, GetMap
<1>4. IndexPaths(lru') = IndexPaths(lru)
  BY <1>3 DEF IndexPaths
<1> DEFINE E == {}
<1>5. /\ pending' = pending \cup E
      /\ IndexPaths(lru') \cup E = IndexPaths(lru) /\ IndexPaths(lru') \cap E = {}
      /\ TempPaths' = TempPaths
  BY <1>1, <1>4 DEF TempPaths, PathOf
<1> HIDE DEF E
<1>6. Owned' /\ FilesOK(disk') /\ Evolves /\ FreshPaths
  BY <1>1, <1>5, EvictOwned
<1>7. BeforeCrash => IndexMoves /\ loading' = {}
  BY <1>1, <1>3 DEF IndexMoves, BeforeCrash
<1> QED
  BY <1>1, <1>3, <1>6, <1>7, OtherStepKeeps

-----------------------------------------------------------------------------
(***************************************************************************)
(* Removals, stop and restart.                                             *)
(***************************************************************************)

\* A file goes from those that wait for their removal to those being removed.
LEMMA RemovalAcquireKeeps ==
    ASSUME Inv, Watch, NEW p \in pending, RemovalAcquire(p)
    PROVE  Inv'
<1>1. /\ lru' = lru /\ req' = req /\ disk' = disk /\ pending' = pending \ {p}
      /\ removing' = removing \cup {p} /\ loading' = loading /\ crashes' = crashes
  BY DEF RemovalAcquire
<1>2. IndexPaths(lru)' = IndexPaths(lru) /\ TempPaths' = TempPaths
  BY <1>1 DEF IndexPaths, TempPaths, PathOf
<1>3. Owned'
  BY <1>1, <1>2 DEF Inv, Owned
<1>4. /\ FilesOK(disk') /\ Evolves /\ FreshPaths /\ IndexInv(lru')
      /\ lru'.reservedSize = lru.reservedSize
  BY <1>1 DEF Inv, TypeInv, Evolves, FreshPaths
<1>5. BeforeCrash => IndexMoves /\ loading' = {}
  BY <1>1 DEF IndexMoves, BeforeCrash
<1> QED
  BY <1>1, <1>3, <1>4, <1>5, OtherStepKeeps

\* The file that is removed is nobody else's.
LEMMA removeFileKeeps ==
    ASSUME Inv, Watch, NEW p \in removing, removeFile(p)
    PROVE  Inv'
<1> DEFINE S == DOMAIN disk \ {p}
<1>1. /\ lru' = lru /\ req' = req /\ disk' = Restrict(disk, S) /\ pending' = pending
      /\ removing' = removing \ {p} /\ loading' = loading /\ crashes' = crashes
  BY DEF removeFile
<1>2. FilesOK(disk) /\ S \in SUBSET DOMAIN disk
  BY DEF Inv, TypeInv
<1> HIDE DEF S
<1>3. FilesOK(disk') /\ DOMAIN disk' = S /\ \A x \in S : disk'[x] = disk[x]
  BY <1>1, <1>2, FilesRestricted
<1>4. IndexPaths(lru)' = IndexPaths(lru) /\ TempPaths' = TempPaths
  BY <1>1 DEF IndexPaths, TempPaths, PathOf
<1>5. Owned'
  BY <1>1, <1>3, <1>4 DEF Inv, Owned, S
<1>6. Evolves /\ FreshPaths
  BY <1>3 DEF Evolves, FreshPaths, S
<1>7. IndexInv(lru') /\ lru'.reservedSize = lru.reservedSize
  BY <1>1 DEF Inv
<1>8. BeforeCrash => IndexMoves /\ loading' = {}
  BY <1>1 DEF IndexMoves, BeforeCrash
<1> QED
  BY <1>1, <1>3, <1>5, <1>6, <1>7, <1>8, OtherStepKeeps

\* A process that has just started.
Fresh == lru = NewSizedLRU /\ req = [r \in Request |-> Idle]
FreshFacts ==
    /\ req \in [Request -> RequestType]
    /\ \A r \in Request : RequestInv(req[r])
    /\ IndexInv(lru) /\ DOMAIN lru.cache = {}
    /\ ReservedInv
    /\ \A r \in Request : Writes(req[r])
    /\ Distinct
    /\ IndexPaths(lru) = {} /\ TempPaths = {}

\* Without requests, and with an empty index, nothing is reserved or owned.
LEMMA FreshProcess == Fresh => FreshFacts
<1> SUFFICES ASSUME Fresh PROVE FreshFacts
  OBVIOUS
<1>1. \A r \in Request : req[r] = Idle
  BY DEF Fresh
<1>2. req \in [Request -> RequestType] /\ \A r \in Request : RequestInv(req[r])
  BY <1>1, IdleFields, IdleInv DEF Fresh
<1>3. IndexInv(lru) /\ lru.reservedSize = 0 /\ DOMAIN lru.cache = {}
  BY NewIndexInv DEF NewSizedLRU, Fresh
<1>4. ReservedInv
  <2> DEFINE f == [r \in Request |-> Reserved(req[r])]
  <2>1. \A r \in Request : f[r] = 0
    BY <1>1, IdleInv
  <2> HIDE DEF f
  <2>2. SumOver(f, Request) = 0
    BY <2>1, SumZero
  <2> QED
    BY <1>3, <2>2 DEF ReservedInv, f
<1>5. \A r \in Request : ~Holds(req[r]) /\ Writes(req[r])
  BY <1>1, IdleFields DEF Holds, Writes
<1>6. Distinct /\ TempPaths = {}
  BY <1>5, TempMembers DEF Distinct
<1>7. IndexPaths(lru) = {}
  BY <1>3 DEF IndexPaths
<1> QED
  BY <1>2, <1>3, <1>4, <1>5, <1>6, <1>7 DEF FreshFacts

\* A restart finds every file and owns nothing else.
LEMMA CrashKeeps ==
    ASSUME Inv, Crash
    PROVE  Inv'
<1>1. /\ lru' = NewSizedLRU /\ req' = [r \in Request |-> Idle] /\ disk' = disk
      /\ pending' = {} /\ removing' = {} /\ loading' = DOMAIN disk
      /\ crashes' = crashes + 1
  BY DEF Crash
<1>2. /\ req' \in [Request -> RequestType]
      /\ (\A r \in Request : RequestInv(req[r]))'
      /\ IndexInv(lru')
      /\ ReservedInv'
      /\ (\A r \in Request : Writes(req[r]))'
      /\ Distinct'
      /\ IndexPaths(lru)' = {} /\ TempPaths' = {}
  <2>1. Fresh'
    BY <1>1 DEF Fresh, NewSizedLRU, Idle, NoBlob, NoRandom
  <2>2. FreshFacts'
    BY <2>1, FreshProcess, PTL
  <2> QED
    BY <2>2 DEF FreshFacts, RequestType, IndexInv, IndexShape, IndexPaths
<1>3. crashes' \in Nat /\ crashes' # 0
  BY <1>1 DEF Inv, TypeInv
<1>4. TypeInv'
  BY <1>1, <1>2, <1>3 DEF Inv, TypeInv, FilesOK, FileType
<1>5. Owned'
  BY <1>1, <1>2 DEF Owned
<1> QED
  BY <1>2, <1>3, <1>4, <1>5 DEF Inv

\* A file that the scan has found goes to the index or is removed.
LEMMA LoadFileKeeps ==
    ASSUME Inv, Watch, NEW p \in loading, LoadFile(p)
    PROVE  Inv'
<1> DEFINE k    == p[1]
           item == ScannedItem(p)
           add  == Add(lru, k, item)
           E    == Paths(add.evicted)
           S    == DOMAIN disk \ {p}
<1>1. /\ lru' = add.lru /\ evict(add.evicted) /\ req' = req /\ removing' = removing
      /\ loading' = loading \ {p} /\ crashes' = crashes
      /\ disk' = IF add.ok THEN disk ELSE Restrict(disk, S)
  BY DEF LoadFile
<1>2. /\ p \in DOMAIN disk /\ FilesOK(disk) /\ IndexInv(lru) /\ p \notin IndexPaths(lru)
  BY DEF Inv, Owned, TypeInv
<1>3. /\ k \in Key /\ p[2] \in Random /\ p = <<k, p[2]>> /\ disk[p].blob \in Blobs
      /\ disk[p].len \in {0, 1, disk[p].blob.sizeOnDisk}
  BY <1>2 DEF FilesOK, FileType
<1>4. item \in Item /\ item.random = p[2]
  <2> DEFINE n == IF Casblob(k) THEN disk[p].blob.size ELSE disk[p].len
  <2>1. item = [size |-> n, sizeOnDisk |-> disk[p].len, random |-> p[2]]
    BY DEF ScannedItem
  <2>2. n \in {disk[p].blob.size, disk[p].len}
    OBVIOUS
  <2> HIDE DEF n
  <2>3. [size |-> n, sizeOnDisk |-> disk[p].len, random |-> p[2]] \in Item
    BY <1>3, <2>2, DiskAssumption DEF Blobs
  <2> QED
    BY <2>1, <2>3
<1> HIDE DEF item, k
<1>5. <<k, item.random>> = p
  BY <1>3, <1>4
<1>6. /\ IndexInv(add.lru) /\ add.ok \in BOOLEAN
      /\ add.lru.reservedSize = lru.reservedSize
  BY <1>2, <1>3, <1>4, AddKeeps
<1>7. /\ ~add.ok => add.lru = lru /\ E = {}
      /\ add.ok => /\ IndexPaths(add.lru) \cup E = IndexPaths(lru) \cup {p}
                   /\ IndexPaths(add.lru) \cap E = {}
  BY <1>2, <1>3, <1>4, <1>5, AddPaths
<1> HIDE DEF add
<1>8. pending' = pending \cup E
  BY <1>1 DEF evict
<1> HIDE DEF E
<1>9. IndexPaths(lru)' = IndexPaths(add.lru) /\ TempPaths' = TempPaths
  BY <1>1 DEF IndexPaths, TempPaths, PathOf
<1>10. FilesOK(disk') /\ Evolves /\ FreshPaths /\ Owned'
  <2>1. CASE add.ok
    <3>1. disk' = disk
      BY <1>1, <2>1
    <3>2. FilesOK(disk') /\ Evolves /\ FreshPaths
      BY <1>2, <3>1 DEF Evolves, FreshPaths
    <3>3. IndexPaths(lru)' \cup E = IndexPaths(lru) \cup {p} /\ IndexPaths(lru)' \cap E = {}
      BY <1>7, <1>9, <2>1
    <3>4. Owned'
      BY <1>1, <1>8, <1>9, <3>1, <3>3 DEF Inv, Owned
    <3> QED
      BY <3>2, <3>4
  <2>2. CASE ~add.ok
    <3>1. disk' = Restrict(disk, S) /\ S \in SUBSET DOMAIN disk
      BY <1>1, <2>2
    <3> HIDE DEF S
    <3>2. FilesOK(disk') /\ DOMAIN disk' = S /\ \A x \in S : disk'[x] = disk[x]
      BY <1>2, <3>1, FilesRestricted
    <3>3. Evolves /\ FreshPaths
      BY <3>2 DEF Evolves, FreshPaths, S
    <3>4. IndexPaths(lru)' = IndexPaths(lru) /\ pending' = pending
      BY <1>7, <1>8, <1>9, <2>2
    <3>5. Owned'
      BY <1>1, <1>9, <3>2, <3>4 DEF Inv, Owned, S
    <3> QED
      BY <3>2, <3>3, <3>5
  <2> QED
    BY <2>1, <2>2
<1>11. ~BeforeCrash
  BY DEF BeforeCrash
<1> QED
  BY <1>1, <1>6, <1>10, <1>11, OtherStepKeeps

\* The process begins to serve.
LEMMA LoadDoneKeeps ==
    ASSUME Inv, Watch, LoadDone
    PROVE  Inv'
<1>1. /\ lru' = lru /\ req' = req /\ disk' = disk /\ pending' = pending
      /\ removing' = removing /\ loading' = loading /\ crashes' = crashes
  BY DEF LoadDone
<1>2. IndexPaths(lru)' = IndexPaths(lru) /\ TempPaths' = TempPaths
  BY <1>1 DEF IndexPaths, TempPaths, PathOf
<1>3. Owned'
  BY <1>1, <1>2 DEF Inv, Owned
<1>4. /\ FilesOK(disk') /\ Evolves /\ FreshPaths /\ IndexInv(lru')
      /\ lru'.reservedSize = lru.reservedSize
  BY <1>1 DEF Inv, TypeInv, Evolves, FreshPaths
<1>5. BeforeCrash => IndexMoves /\ loading' = {}
  BY <1>1 DEF IndexMoves, BeforeCrash
<1> QED
  BY <1>1, <1>3, <1>4, <1>5, OtherStepKeeps

-----------------------------------------------------------------------------
(***************************************************************************)
(* The theorems.                                                           *)
(***************************************************************************)

\* The invariant holds of a new cache directory.
LEMMA InitInv == Init => Inv
<1> SUFFICES ASSUME Init PROVE Inv
  OBVIOUS
<1>1. FreshFacts
  BY FreshProcess DEF Init, Fresh
<1>2. /\ DOMAIN disk = {} /\ disk = [p \in {} |-> 0] /\ pending = {} /\ removing = {}
      /\ loading = {} /\ crashes = 0 /\ \A r \in Request : req[r] = Idle
  BY DEF Init
<1>3. FilesOK(disk)
  BY <1>2 DEF FilesOK
<1>4. Owned
  BY <1>1, <1>2 DEF FreshFacts, Owned
<1>5. BeforeCrash
  <2>1. NoSpuriousMiss /\ ReadsAreWhole
    BY <1>2, IdleFields DEF NoSpuriousMiss, ReadsAreWhole
  <2> QED
    BY <1>1, <1>2, <2>1 DEF FreshFacts, BeforeCrash
<1> QED
  BY <1>1, <1>2, <1>3, <1>4, <1>5 DEF FreshFacts, Inv, TypeInv

\* A step that changes nothing keeps the invariant.
LEMMA StutterKeeps ==
    ASSUME Inv, UNCHANGED vars
    PROVE  Inv'
<1>1. /\ lru' = lru /\ req' = req /\ disk' = disk /\ pending' = pending
      /\ removing' = removing /\ loading' = loading /\ crashes' = crashes
      /\ excused' = excused
  BY DEF vars
<1>2. TypeInv' /\ (\A r \in Request : RequestInv(req[r]))' /\ IndexInv(lru)'
  BY <1>1 DEF Inv, TypeInv, FilesOK, FileType, RequestType, RequestInv, Genuine, IndexInv,
              IndexShape, Used, UsedLogical
<1>3. ReservedInv' /\ Distinct' /\ (\A r \in Request : Writes(req[r]))'
  BY <1>1 DEF Inv, ReservedInv, Reserved, Distinct, Holds, Path, Writes, Complete, Genuine
<1>4. Owned'
  BY <1>1 DEF Inv, Owned, IndexPaths, TempPaths, PathOf
<1>5. BeforeCrash => BeforeCrash'
  BY <1>1 DEF BeforeCrash, IndexFile, OpenFile, Path, Complete, Genuine, NoSpuriousMiss,
              ReadsAreWhole, isSizeMismatch
<1> QED
  BY <1>1, <1>2, <1>3, <1>4, <1>5 DEF Inv

\* Every step of a request keeps the invariant.
LEMMA RequestKeeps ==
    ASSUME Inv, Watch, NEW r \in Request, RequestStep(r)
    PROVE  Inv'
<1>1. CASE \E u \in Upload : PutReserve(r, u)
  BY <1>1, PutReserveKeeps
<1>2. CASE \E k \in Key, size \in AskSize : GetLookup(r, k, size)
  BY <1>2, GetLookupKeeps
<1>3. CASE CreateTempfile(r)
  BY <1>3, CreateTempfileKeeps
<1>4. CASE WriteSome(r)
  BY <1>4, WriteSomeKeeps
<1>5. CASE WriteFile(r)
  BY <1>5, WriteFileKeeps
<1>6. CASE Commit(r)
  BY <1>6, CommitKeeps
<1>7. CASE DeferFile(r)
  BY <1>7, DeferFileKeeps
<1>8. CASE DeferUnreserve(r)
  BY <1>8, DeferUnreserveKeeps
<1>9. CASE GetOpen(r)
  BY <1>9, GetOpenKeeps
<1>10. CASE GetSlowPath(r)
  BY <1>10, GetSlowPathKeeps
<1>11. CASE GetMiss(r)
  BY <1>11, GetMissKeeps
<1>12. CASE GetFetch(r)
  BY <1>12, GetFetchKeeps
<1> QED
  BY <1>1, <1>2, <1>3, <1>4, <1>5, <1>6, <1>7, <1>8, <1>9, <1>10, <1>11, <1>12
     DEF RequestStep

\* Every step keeps the invariant.
LEMMA NextKeeps == Inv /\ [Next]_vars => Inv'
<1> SUFFICES ASSUME Inv, [Next]_vars PROVE Inv'
  OBVIOUS
<1>1. CASE UNCHANGED vars
  BY <1>1, StutterKeeps
<1>2. ASSUME Watch, NEW r \in Request, RequestStep(r) PROVE Inv'
  BY <1>2, RequestKeeps
<1>3. ASSUME Watch, NEW k \in Key, ContainsLookup(k) PROVE Inv'
  BY <1>3, ContainsLookupKeeps
<1>4. ASSUME Watch, NEW p \in pending, RemovalAcquire(p) PROVE Inv'
  BY <1>4, RemovalAcquireKeeps
<1>5. ASSUME Watch, NEW p \in removing, removeFile(p) PROVE Inv'
  BY <1>5, removeFileKeeps
<1>6. CASE Crash
  BY <1>6, CrashKeeps
<1>7. ASSUME Watch, NEW p \in loading, LoadFile(p) PROVE Inv'
  BY <1>7, LoadFileKeeps
<1>8. CASE Watch /\ LoadDone
  BY <1>8, LoadDoneKeeps
<1> QED
  BY <1>1, <1>2, <1>3, <1>4, <1>5, <1>6, <1>7, <1>8 DEF Next

\* The inductive invariant.
LEMMA InvHolds == Spec => []Inv
  BY InitInv, NextKeeps, PTL DEF Spec

\* disk.go and load.go, for every set of requests, keys, blobs and sizes and any
\* number of restarts: every file belongs to exactly one of the index, a request, a
\* removal and the scan, and each of them finds its file.
THEOREM OneOwner == Spec => []FilesHaveOneOwner
<1>1. Inv => FilesHaveOneOwner
  BY OwnersUnfolded DEF Inv
<1> QED
  BY <1>1, InvHolds, PTL

\* Put, Get, commit and the deferred function: the reserved space is what the
\* requests in flight will give back, once each, and the cache with its
\* reservations stays within its capacity.
THEOREM SpaceIsAccounted == Spec => []SpaceAccounted
<1>1. Inv => SpaceAccounted
  BY DEF Inv, ReservedInv, Reserved, IndexInv, SpaceAccounted
<1> QED
  BY <1>1, InvHolds, PTL

\* Put, Get, commit and the deferred function: no Unreserve ever fails on any path,
\* and Add's eviction loop always ends.
THEOREM UnreservesWork == Spec => []EveryUnreserveWorks
<1>1. Inv => EveryUnreserveWorks
  BY DEF Inv, RequestInv, EveryUnreserveWorks
<1> QED
  BY <1>1, InvHolds, PTL

\* availableOrTryProxy, up to the first stop of the process: a Get turns to the proxy
\* only if the index was without its item at some moment of the call or its file was
\* there and could not be read, although the lock is released between the lookup and
\* the opening.  (After a stop a casblob that is cut short is in the index and turned
\* down.)
THEOREM MissesAreGenuine == Spec => [](crashes = 0 => NoSpuriousMiss)
<1>1. Inv => (crashes = 0 => NoSpuriousMiss)
  BY DEF Inv, BeforeCrash
<1> QED
  BY <1>1, InvHolds, PTL

\* Up to the first stop of the process, no Get hands out a file that is cut short.
THEOREM ReadsWhole == Spec => [](crashes = 0 => ReadsAreWhole)
<1>1. Inv => (crashes = 0 => ReadsAreWhole)
  BY DEF Inv, BeforeCrash
<1> QED
  BY <1>1, InvHolds, PTL

-----------------------------------------------------------------------------
(***************************************************************************)
(* The refinement: before the first stop of the process, every step of the *)
(* disk cache is a step of BlobStore or leaves its variables alone.        *)
(***************************************************************************)

\* What the abstract store holds is what the files of the index hold.
StoredFacts ==
    /\ DOMAIN Stored = DOMAIN lru.cache
    /\ \A k \in DOMAIN lru.cache :
          /\ <<k, lru.cache[k].random>> \in DOMAIN disk
          /\ Stored[k] = disk[<<k, lru.cache[k].random>>].blob
          /\ Stored[k].size = lru.cache[k].size
          /\ Stored[k].size \in Nat
          /\ Stored[k] \in Genuine /\ Stored[k].key = k

\* The index has an item for every stored blob, whose file holds all of it.
LEMMA StoredIs == Inv /\ BeforeCrash => StoredFacts
<1> SUFFICES ASSUME Inv, BeforeCrash PROVE StoredFacts
  OBVIOUS
<1>1. DOMAIN Stored = DOMAIN lru.cache
  BY DEF Stored
<1>2. ASSUME NEW k \in DOMAIN lru.cache
      PROVE  /\ <<k, lru.cache[k].random>> \in DOMAIN disk
             /\ Stored[k] = disk[<<k, lru.cache[k].random>>].blob
             /\ Stored[k].size = lru.cache[k].size
             /\ Stored[k].size \in Nat
             /\ Stored[k] \in Genuine /\ Stored[k].key = k
  <2> DEFINE p == <<k, lru.cache[k].random>>
  <2>1. p \in DOMAIN disk
    BY DEF Inv, Owned, IndexPaths
  <2>2. Complete(disk[p], k) /\ disk[p].blob.size = lru.cache[k].size
    BY DEF BeforeCrash, IndexFile
  <2>3. Stored[k] = disk[p].blob
    BY <2>1, <2>2 DEF Stored, Complete
  <2>4. disk[p].blob \in Blobs
    BY <2>1 DEF Inv, TypeInv, FilesOK, FileType
  <2>5. disk[p].blob.size \in Nat
    BY <2>4, BlobType, SizeAssumption
  <2> QED
    BY <2>1, <2>2, <2>3, <2>5 DEF Complete
<1> QED
  BY <1>1, <1>2 DEF StoredFacts

\* A file that stays keeps its blob.
KeepsBlobs == \A p \in DOMAIN disk \cap DOMAIN disk' : disk'[p].blob = disk[p].blob

\* Every item of the new index but that of k was there before.
Shrinks(k) ==
    \A j \in DOMAIN lru'.cache \ {k} :
        j \in DOMAIN lru.cache /\ lru'.cache[j] = lru.cache[j]

\* Blobs in files that stay in the index stay in the store.
LEMMA KeepsMapped ==
    ASSUME StoredFacts, StoredFacts', KeepsBlobs, NEW k, Shrinks(k)
    PROVE  Abstract!Keeps(k)
<1>1. SUFFICES ASSUME NEW j \in DOMAIN Stored' \ {k}
               PROVE  j \in DOMAIN Stored /\ Stored'[j] = Stored[j]
  BY DEF Abstract!Keeps
<1>2. /\ j \in DOMAIN lru'.cache
      /\ <<j, lru'.cache[j].random>> \in DOMAIN disk'
      /\ Stored'[j] = disk'[<<j, lru'.cache[j].random>>].blob
  BY <1>1 DEF StoredFacts
<1>3. j \in DOMAIN lru.cache /\ lru'.cache[j] = lru.cache[j]
  BY <1>1, <1>2 DEF Shrinks
<1>4. /\ j \in DOMAIN Stored
      /\ <<j, lru.cache[j].random>> \in DOMAIN disk
      /\ Stored[j] = disk[<<j, lru.cache[j].random>>].blob
  BY <1>3 DEF StoredFacts
<1> QED
  BY <1>2, <1>3, <1>4 DEF KeepsBlobs

\* What is absent from the index is what does not fit in the store.
FitsFacts ==
    \A q \in RequestType : q.op # "none" /\ -1 <= q.size =>
        (Absent(lru, q) <=> ~Abstract!Fits(Stored, CallOf(q)))

\* The sizes in the index are those of the stored blobs.
LEMMA FitsMapped == StoredFacts => FitsFacts
<1> SUFFICES ASSUME StoredFacts, NEW q \in RequestType, q.op # "none", -1 <= q.size
             PROVE  Absent(lru, q) <=> ~Abstract!Fits(Stored, CallOf(q))
  BY DEF FitsFacts
<1>1. CallOf(q).key = q.key /\ CallOf(q).size = q.size
  BY DEF CallOf
<1>2. q.size \in Int
  BY DEF RequestType
<1>3. q.key \in DOMAIN Stored <=> q.key \in DOMAIN lru.cache
  BY DEF StoredFacts
<1>4. CASE q.key \notin DOMAIN lru.cache
  BY <1>1, <1>3, <1>4 DEF Absent, Abstract!Fits
<1>5. CASE q.key \in DOMAIN lru.cache
  <2>1. Stored[q.key].size = lru.cache[q.key].size /\ Stored[q.key].size \in Nat
    BY <1>5 DEF StoredFacts
  <2> QED
    BY <1>1, <1>2, <1>3, <1>5, <2>1 DEF Absent, isSizeMismatch, Abstract!Fits
<1> QED
  BY <1>4, <1>5

\* The calls of the abstract store are those of the requests.
CallsFacts ==
    \A s \in Request :
        /\ Calls[s] = CallOf(req[s])
        /\ Calls[s].op = req[s].op
        /\ req[s] \in RequestType
        /\ -1 <= req[s].size

\* The calls are those of the requests, whose sizes are at least -1.
LEMMA CallsAre == Inv => CallsFacts
<1> SUFFICES ASSUME Inv, NEW s \in Request
             PROVE  /\ Calls[s] = CallOf(req[s])
                    /\ Calls[s].op = req[s].op
                    /\ req[s] \in RequestType
                    /\ -1 <= req[s].size
  BY DEF CallsFacts
<1>1. Calls[s] = CallOf(req[s])
  BY DEF Calls
<1>2. CallOf(req[s]).op = req[s].op
  BY DEF CallOf
<1>3. req[s] \in RequestType /\ RequestInv(req[s])
  BY DEF Inv, TypeInv
<1> QED
  BY <1>1, <1>2, <1>3 DEF RequestInv

\* What becomes known of the running Gets is what the history variable records, and
\* a Get that is about to open a file has met it in the index.
LEMMA WatchedMapped ==
    ASSUME Inv, FitsFacts, FitsFacts', CallsFacts, CallsFacts', Watch,
           \A s \in Opening' \ Opening : ~Absent(lru, req'[s])
    PROVE  Abstract!Watched
<1> DEFINE gets == {c \in Request : Calls'[c].op = "Get"}
<1>1. gets = {c \in Request : req'[c].op = "Get"}
  BY DEF CallsFacts
<1>2. ASSUME NEW c \in Request, req'[c].op = "Get"
      PROVE  /\ Absent(lru, req'[c]) <=> ~Abstract!Fits(Stored, Calls'[c])
             /\ Absent(lru', req'[c]) <=> ~Abstract!Fits(Stored', Calls'[c])
  <2>1. req'[c] \in RequestType /\ -1 <= req'[c].size /\ Calls'[c] = CallOf(req'[c])
    BY DEF CallsFacts
  <2>2. req'[c].op # "none"
    BY <1>2
  <2>3. Absent(lru, req'[c]) <=> ~Abstract!Fits(Stored, CallOf(req'[c]))
    BY <2>1, <2>2 DEF FitsFacts
  <2>4. Absent(lru', req'[c]) <=> ~Abstract!Fits(Stored', CallOf(req'[c]))
    BY <2>1, <2>2 DEF FitsFacts, Absent, CallOf
  <2> QED
    BY <2>1, <2>3, <2>4
<1> DEFINE lacks(c) == ~Abstract!Fits(Stored, Calls'[c]) \/ ~Abstract!Fits(Stored', Calls'[c])
           without == {c \in gets : lacks(c)}
<1>3. /\ without \cup (gets \cap excused) \subseteq excused'
      /\ excused' \subseteq gets \cap (without \cup excused \cup Opening)
  <2>1. \A c \in Request : req[c].pc \in {"open", "slow"} => c \in Opening
    BY RequestFacts DEF Opening, RequestInv
  <2>2. \A c \in Request :
          c \in without <=>
            req'[c].op = "Get" /\ (Absent(lru, req'[c]) \/ Absent(lru', req'[c]))
    BY <1>1, <1>2
  <2>3. /\ \A c \in Request : req'[c].op = "Get" =>
              (c \in excused \/ Absent(lru, req'[c]) \/ Absent(lru', req'[c])
               => c \in excused')
        /\ \A c \in excused' :
              /\ c \in Request /\ req'[c].op = "Get"
              /\ \/ c \in excused \/ Absent(lru, req'[c]) \/ Absent(lru', req'[c])
                 \/ req[c].pc \in {"open", "slow"}
    BY Zenon DEF Watch
  <2>4. without \subseteq gets /\ gets \subseteq Request
    OBVIOUS
  <2>5. \A c \in Request : c \in gets <=> req'[c].op = "Get"
    BY <1>1
  <2> HIDE DEF without, gets
  <2> QED
    BY <2>1, <2>2, <2>3, <2>4, <2>5
<1>4. Opening' \subseteq Opening \cup
        {c \in gets : Abstract!Fits(Stored, Calls'[c]) \/ Abstract!Fits(Stored', Calls'[c])}
  <2>1. \A c \in Opening' : c \in Request /\ req'[c].op = "Get"
    BY DEF Opening
  <2> QED
    BY <1>1, <1>2, <2>1
<1> QED
  BY <1>3, <1>4 DEF Abstract!Watched

\* The facts about the mapping, of a state before a crash.
Map == StoredFacts /\ FitsFacts /\ CallsFacts

\* The mapping, from the invariant.
LEMMA MapHolds == Inv /\ BeforeCrash => Map
  BY StoredIs, FitsMapped, CallsAre DEF Map

\* Two states of a request that are the same call, but for its answer.
SameCall(p, q) ==
    /\ q.op = p.op /\ q.key = p.key /\ q.size = p.size
    /\ p.op = "Put" => q.blob = p.blob

\* The call of the abstract store sees the answer of a request only.
LEMMA SameAnswer ==
    ASSUME NEW p, NEW q, SameCall(p, q), q.result = p.result
    PROVE  CallOf(q) = CallOf(p)
<1>1. CASE p.op = "Put"
  BY <1>1 DEF SameCall, CallOf
<1>2. CASE p.op # "Put"
  BY <1>2 DEF SameCall, CallOf
<1> QED
  BY <1>1, <1>2

\* A new answer changes the result of the call only.
LEMMA NewAnswer ==
    ASSUME NEW p, NEW q, SameCall(p, q), p.op # "none"
    PROVE  CallOf(q) = [CallOf(p) EXCEPT !.result = Answer(q.result)]
<1> DEFINE b == IF p.op = "Put" THEN p.blob ELSE NoBlob
           x == Answer(p.result)
           y == Answer(q.result)
<1>1. CallOf(p) = [op |-> p.op, key |-> p.key, size |-> p.size, blob |-> b, result |-> x]
  BY DEF CallOf
<1>2. (IF q.op = "Put" THEN q.blob ELSE NoBlob) = b
  BY DEF SameCall
<1>3. CallOf(q) = [op |-> p.op, key |-> p.key, size |-> p.size, blob |-> b, result |-> y]
  BY <1>2 DEF CallOf, SameCall
<1> HIDE DEF b, x, y
<1> QED
  BY <1>1, <1>3 DEF y

\* A step of request r that answers nothing.
LEMMA SilentMapped ==
    ASSUME Inv, Map, Map', Watch, NEW r \in Request, NEW c \in RequestType, Step(r, c),
           SameCall(req[r], c), c.result = req[r].result, KeepsBlobs, Shrinks("none"),
           c.pc \in {"open", "slow"} => req[r].pc \in {"open", "slow"}
    PROVE  Abstract!Next
<1>1. req'[r] = c /\ \A s \in Request \ {r} : req'[s] = req[s]
  BY StepFields DEF Inv
<1>2. Calls' = Calls
  <2>1. ASSUME NEW s \in Request PROVE CallOf(req'[s]) = CallOf(req[s])
    BY <1>1, SameAnswer
  <2> QED
    BY <2>1 DEF Calls, CallOf, Answer
<1>3. Abstract!Forget
  BY <1>2, KeepsMapped DEF Map, Abstract!Forget, Abstract!Forgets
<1>4. Opening' \subseteq Opening
  BY <1>1 DEF Opening, SameCall
<1>5. Abstract!Watched
  BY <1>4, WatchedMapped DEF Map
<1> QED
  BY <1>3, <1>5 DEF Abstract!Next

\* What every step of request r shows: the other calls stay, and what is known of the
\* Gets is what the history variable records.
LEMMA StepMapped ==
    ASSUME Inv, Map, Map', Watch, NEW r \in Request, NEW c \in RequestType, Step(r, c),
           r \in Opening' \ Opening => ~Absent(lru, c)
    PROVE  /\ Calls[r] = CallOf(req[r]) /\ Calls'[r] = CallOf(c)
           /\ \A s \in Request \ {r} : Calls'[s] = Calls[s]
           /\ Abstract!Watched
<1>1. req'[r] = c /\ \A s \in Request \ {r} : req'[s] = req[s]
  BY StepFields DEF Inv
<1>2. \A s \in Request : Calls[s] = CallOf(req[s]) /\ Calls'[s] = CallOf(req'[s])
  BY DEF Map, CallsFacts, CallOf, Answer
<1>3. \A s \in Opening' \ Opening : s = r
  BY <1>1 DEF Opening
<1>4. \A s \in Opening' \ Opening : ~Absent(lru, req'[s])
  BY <1>1, <1>3
<1>5. Abstract!Watched
  BY <1>4, WatchedMapped DEF Map
<1> QED
  BY <1>1, <1>2, <1>5

\* A running call gets its answer.
LEMMA AnswersMapped ==
    ASSUME NEW r \in Request, NEW c \in RequestType, SameCall(req[r], c),
           req[r].op # "none", req[r].result = "none",
           Calls[r] = CallOf(req[r]), Calls'[r] = CallOf(c)
    PROVE  Abstract!Answers(r, Answer(c.result))
<1>1. Calls'[r] = [Calls[r] EXCEPT !.result = Answer(c.result)]
  BY NewAnswer
<1>2. CallOf(req[r]).op = req[r].op /\ CallOf(req[r]).result = Answer(req[r].result)
  BY DEF CallOf
<1>3. Answer(req[r].result) = "running"
  BY DEF Answer
<1>4. Calls[r].op # "none" /\ Calls[r].result = "running"
  BY <1>2, <1>3
<1> QED
  BY <1>1, <1>4 DEF Abstract!Answers, Abstract!Running

\* A step of request r that may answer, but that stores nothing.
LEMMA AnswerMapped ==
    ASSUME Inv, Map, Map', Watch, NEW r \in Request, NEW c \in RequestType, Step(r, c),
           SameCall(req[r], c), req[r].op # "none", req[r].result = "none",
           KeepsBlobs, Shrinks("none"),
           c.pc \in {"open", "slow"} => req[r].pc \in {"open", "slow"},
           c.result \in {"none", "error", "addFailed", "miss", "hit"},
           c.result = "miss" => req[r].op = "Get" /\ r \in excused',
           c.result = "hit" => r \in Opening
    PROVE  Abstract!Next
<1>1. CASE c.result = "none"
  BY <1>1, SilentMapped
<1>2. CASE c.result # "none"
  <2>1. req'[r] = c
    BY StepFields DEF Inv
  <2>2. r \in Opening' => r \in Opening
    BY <2>1 DEF Opening, SameCall
  <2>3. /\ Calls[r] = CallOf(req[r]) /\ Calls'[r] = CallOf(c)
        /\ \A s \in Request \ {r} : Calls'[s] = Calls[s]
        /\ Abstract!Watched
    BY <2>2, StepMapped
  <2>4. Abstract!Answers(r, Answer(c.result))
    BY <2>3, AnswersMapped
  <2>5. Abstract!Forgets
    BY KeepsMapped DEF Map, Abstract!Forgets
  <2>6. Calls[r].op = req[r].op
    BY DEF Map, CallsFacts
  <2>7. CASE c.result \in {"error", "addFailed"}
    <3>1. Answer(c.result) = "failed"
      BY <2>7 DEF Answer
    <3>2. Abstract!Fails(r)
      BY <2>4, <2>5, <3>1 DEF Abstract!Fails
    <3> QED
      BY <2>3, <3>2 DEF Abstract!CallStep, Abstract!Next
  <2>8. CASE c.result = "miss"
    <3>1. Answer(c.result) = "miss"
      BY <2>8 DEF Answer
    <3>2. Abstract!GetMisses(r)
      BY <2>4, <2>5, <2>6, <2>8, <3>1 DEF Abstract!GetMisses
    <3> QED
      BY <2>3, <3>2 DEF Abstract!CallStep, Abstract!Next
  <2>9. CASE c.result = "hit"
    <3>1. Answer(c.result) = "hit"
      BY <2>9 DEF Answer
    <3>2. req[r].op = "Get"
      BY <2>9 DEF Opening
    <3>3. Abstract!GetHits(r)
      BY <2>4, <2>5, <2>6, <2>9, <3>1, <3>2 DEF Abstract!GetHits
    <3> QED
      BY <2>3, <3>3 DEF Abstract!CallStep, Abstract!Next
  <2> QED
    BY <1>2, <2>7, <2>8, <2>9
<1> QED
  BY <1>1, <1>2

\* A call begins.
LEMMA BeginMapped ==
    ASSUME Inv, Map, Map', Watch, NEW r \in Request, NEW c \in RequestType, Step(r, c),
           req[r] = Idle, c.op \in {"Put", "Get"}, c.result \in {"none", "error", "miss"},
           c.result = "miss" => c.op = "Get" /\ r \in excused',
           KeepsBlobs, Shrinks("none"),
           c.pc \in {"open", "slow"} => ~Absent(lru, c)
    PROVE  Abstract!Next
<1>1. req'[r] = c
  BY StepFields DEF Inv
<1>2. r \in Opening' => ~Absent(lru, c)
  BY <1>1 DEF Opening
<1>3. /\ Calls[r] = CallOf(Idle) /\ Calls'[r] = CallOf(c)
      /\ \A s \in Request \ {r} : Calls'[s] = Calls[s]
      /\ Abstract!Watched
  BY <1>2, StepMapped
<1>4. Calls[r] = Abstract!NoCall
  BY <1>3, IdleFields DEF CallOf, Abstract!NoCall
<1>5. Calls'[r].op = c.op /\ Calls'[r].result = Answer(c.result)
  BY <1>3 DEF CallOf
<1>6. Abstract!Forgets
  BY KeepsMapped DEF Map, Abstract!Forgets
<1>7. \/ Calls'[r].result \in {"running", "failed"}
      \/ c.op = "Get" /\ Calls'[r].result = "miss" /\ r \in excused'
  BY <1>5 DEF Answer
<1>8. Abstract!Begin(r)
  BY <1>4, <1>5, <1>6, <1>7 DEF Abstract!Begin
<1> QED
  BY <1>3, <1>8 DEF Abstract!CallStep, Abstract!Next

\* A call whose answer has been given is over, or one that ends at once.
LEMMA EndMapped ==
    ASSUME Inv, Map, Map', Watch, NEW r \in Request, Step(r, Idle),
           KeepsBlobs, Shrinks("none")
    PROVE  Abstract!Next
<1>1. Idle \in RequestType /\ Idle.op = "none"
  BY IdleFields
<1>2. req'[r] = Idle
  BY <1>1, StepFields DEF Inv
<1>3. r \notin Opening'
  BY <1>1, <1>2 DEF Opening
<1>4. /\ Calls'[r] = CallOf(Idle)
      /\ \A s \in Request \ {r} : Calls'[s] = Calls[s]
      /\ Abstract!Watched
  BY <1>1, <1>3, StepMapped
<1>5. Calls'[r] = Abstract!NoCall
  BY <1>1, <1>4 DEF CallOf, Abstract!NoCall
<1>6. Abstract!End(r)
  BY <1>5, KeepsMapped DEF Map, Abstract!End, Abstract!Forgets
<1> QED
  BY <1>4, <1>6 DEF Abstract!CallStep, Abstract!Next

\* Request q goes on as the same call and has one of the results R; it does not open
\* a file next.
GoesOn(r, q, R) ==
    \E c \in RequestType :
        /\ Step(r, c) /\ SameCall(q, c)
        /\ c.pc \notin {"open", "slow"} /\ c.result \in R

\* A request that returns has an answer.
LEMMA ReturnCall ==
    ASSUME NEW q \in RequestType, NEW v \in Results
    PROVE  LET c == Return(q, v) IN
           c \in RequestType /\ SameCall(q, c) /\ c.pc = "defer" /\ c.result = v
<1> DEFINE c == SetResult(SetPc(q, "defer"), v)
<1>1. Return(q, v) = c
  BY DEF Return, SetResult, SetPc
<1>2. "defer" \in Steps
  BY DEF Steps
<1>3. /\ c \in RequestType
      /\ c.pc = "defer" /\ c.result = v /\ c.op = q.op /\ c.key = q.key
      /\ c.size = q.size /\ c.blob = q.blob
  BY <1>2, SetPcFields, SetResultFields
<1> HIDE DEF c
<1> QED
  BY <1>1, <1>3 DEF SameCall

\* A request that goes to its next step has no new answer.
LEMMA GotoCall ==
    ASSUME NEW q \in RequestType, NEW s \in Steps
    PROVE  LET c == Goto(q, s) IN
           c \in RequestType /\ SameCall(q, c) /\ c.pc = s /\ c.result = q.result
<1> DEFINE c == SetPc(q, s)
<1>1. Goto(q, s) = c
  BY DEF Goto, SetPc
<1>2. /\ c \in RequestType
      /\ c.pc = s /\ c.result = q.result /\ c.op = q.op /\ c.key = q.key
      /\ c.size = q.size /\ c.blob = q.blob
  BY SetPcFields
<1> HIDE DEF c
<1> QED
  BY <1>1, <1>2 DEF SameCall

\* After a local miss a Get goes on, or fails, or misses.
LEMMA TryProxyCall ==
    ASSUME IndexInv(lru), NEW r \in Request, NEW q \in RequestType, q.result = "none",
           TryProxy(r, lru, q)
    PROVE  GoesOn(r, q, {"none", "error", "miss"}) /\ Shrinks("none")
<1> DEFINE res == Reserve(lru, q.size)
<1>1. \A k \in DOMAIN res.lru.cache :
         k \in DOMAIN lru.cache /\ res.lru.cache[k] = lru.cache[k]
  BY ReservePaths
<1>2. lru' \in {lru, res.lru}
  BY DEF TryProxy
<1>3. Shrinks("none")
  BY <1>1, <1>2 DEF Shrinks
<1>4. CASE Step(r, [q EXCEPT !.pc = "fetch", !.unreserve = TRUE])
  <2> DEFINE t == TRUE
             c == SetUnreserve(SetPc(q, "fetch"), t)
  <2>1. Step(r, c)
    BY <1>4 DEF SetPc, SetUnreserve
  <2>2. "fetch" \in Steps /\ t \in BOOLEAN
    BY DEF Steps
  <2> HIDE DEF t
  <2>3. /\ c \in RequestType
        /\ c.pc = "fetch" /\ c.op = q.op /\ c.key = q.key /\ c.size = q.size
        /\ c.blob = q.blob /\ c.result = q.result
    BY <2>2, SetPcFields, SetUnreserveFields
  <2> HIDE DEF c
  <2> QED
    BY <1>3, <2>1, <2>3 DEF GoesOn, SameCall
<1>5. ASSUME NEW v \in {"error", "miss"}, Step(r, Return(q, v))
      PROVE  GoesOn(r, q, {"none", "error", "miss"})
  <2>1. v \in Results
    BY DEF Results
  <2> QED
    BY <1>5, <2>1, ReturnCall DEF GoesOn
<1>6. ASSUME NEW s \in {"fetch"}, Step(r, Goto(q, s))
      PROVE  GoesOn(r, q, {"none", "error", "miss"})
  <2>1. s \in Steps /\ s \notin {"open", "slow"}
    BY DEF Steps
  <2> QED
    BY <1>6, <2>1, GotoCall DEF GoesOn
<1> QED
  BY <1>3, <1>4, <1>5, <1>6 DEF TryProxy

\* A Get that has opened a whole file hits, or turns it down.
LEMMA OpenedCall ==
    ASSUME NEW r \in Request, NEW q \in RequestType, q.result = "none",
           NEW f, f.whole, Step(r, Opened(q, f))
    PROVE  GoesOn(r, q, {"none", "hit"})
<1>1. ASSUME NEW v \in {"hit"}, Step(r, Return(q, v))
      PROVE  GoesOn(r, q, {"none", "hit"})
  <2>1. v \in Results
    BY DEF Results
  <2> QED
    BY <1>1, <2>1, ReturnCall DEF GoesOn
<1>2. ASSUME NEW s \in {"miss"}, Step(r, Goto(q, s))
      PROVE  GoesOn(r, q, {"none", "hit"})
  <2>1. s \in Steps /\ s \notin {"open", "slow"}
    BY DEF Steps
  <2> QED
    BY <1>2, <2>1, GotoCall DEF GoesOn
<1> QED
  BY <1>1, <1>2 DEF Opened

\* The steps of a request that go on with its call, or answer it without storing.
LEMMA GoesOnMapped ==
    ASSUME Inv, Map, Map', Watch, NEW r \in Request, req[r].pc # "idle",
           NEW q, SameCall(req[r], q), req[r].result = "none",
           NEW R \in SUBSET {"none", "error", "miss", "hit"}, GoesOn(r, q, R),
           KeepsBlobs, Shrinks("none"),
           "miss" \in R => req[r].op = "Get" /\ r \in excused \cup excused',
           "hit" \in R => r \in Opening
    PROVE  Abstract!Next
<1>1. PICK c \in RequestType :
        /\ Step(r, c) /\ SameCall(q, c)
        /\ c.pc \notin {"open", "slow"} /\ c.result \in R
  BY DEF GoesOn
<1>2. SameCall(req[r], c)
  BY <1>1 DEF SameCall
<1>3. req[r].op # "none"
  BY RequestFacts DEF RequestInv
<1>4. req'[r] = c
  BY <1>1, StepFields DEF Inv
<1>5. c.result = "miss" => req[r].op = "Get" /\ r \in excused'
  BY <1>1, <1>2, <1>4 DEF Watch, SameCall
<1>6. c.result \in {"none", "error", "addFailed", "miss", "hit"}
  BY <1>1
<1>7. c.result = "hit" => r \in Opening
  BY <1>1
<1> QED
  BY <1>1, <1>2, <1>3, <1>5, <1>6, <1>7, AnswerMapped

\* A request fails.
LEMMA FailMapped ==
    ASSUME Inv, Map, Map', Watch, NEW r \in Request, req[r].pc # "idle",
           req[r].result = "none", NEW v \in {"error"}, Step(r, Return(req[r], v)),
           KeepsBlobs, Shrinks("none")
    PROVE  Abstract!Next
<1> DEFINE R == {"error"}
<1>1. v \in Results /\ req[r] \in RequestType
  BY RequestFacts DEF Results
<1>2. GoesOn(r, req[r], R)
  BY <1>1, ReturnCall DEF GoesOn
<1>3. R \in SUBSET {"none", "error", "miss", "hit"} /\ "miss" \notin R /\ "hit" \notin R
  OBVIOUS
<1>4. SameCall(req[r], req[r])
  BY DEF SameCall
<1> HIDE DEF R
<1> QED
  BY <1>2, <1>3, <1>4, GoesOnMapped

\* A step that is no request's.
LEMMA OtherMapped ==
    ASSUME Inv, Map, Map', Watch, req' = req, KeepsBlobs, Shrinks("none")
    PROVE  Abstract!Next
<1>1. Calls' = Calls /\ Opening' = Opening
  BY DEF Calls, CallOf, Answer, Opening
<1>2. Abstract!Forget
  BY <1>1, KeepsMapped DEF Map, Abstract!Forget, Abstract!Forgets
<1>3. Abstract!Watched
  BY <1>1, WatchedMapped DEF Map
<1> QED
  BY <1>2, <1>3 DEF Abstract!Next

\* A Put begins, or ends at once for want of space.
LEMMA PutReserveMaps ==
    ASSUME Inv, Map, Map', Watch, NEW r \in Request, NEW u \in Upload, PutReserve(r, u)
    PROVE  Abstract!Next
<1> DEFINE res == Reserve(lru, u.size)
           put == [Idle EXCEPT !.op = "Put", !.key = u.key, !.size = u.size,
                               !.pc = "create", !.blob = u, !.unreserve = u.size > 0]
           b   == u.size > 0
           h   == Begun("Put", u.key, u.size)
           h2  == SetBlob(SetPc(h, "create"), u)
           h3  == SetUnreserve(h2, b)
<1>1. /\ req[r] = Idle /\ lru' = res.lru /\ disk' = disk
      /\ Step(r, IF res.err = "none" THEN put ELSE Idle)
  BY DEF PutReserve
<1>2. \A k \in DOMAIN res.lru.cache :
         k \in DOMAIN lru.cache /\ res.lru.cache[k] = lru.cache[k]
  BY ReservePaths DEF Inv
<1>3. Shrinks("none") /\ KeepsBlobs
  BY <1>1, <1>2 DEF Shrinks, KeepsBlobs
<1> HIDE DEF res
<1>4. u \in Blobs /\ u.key \in Key /\ u.size \in Int
  BY BlobType DEF Blobs
<1>5. /\ "create" \in Steps /\ "Put" \in {"none", "Put", "Get"}
      /\ u \in Blobs \cup {NoBlob} /\ b \in BOOLEAN
  BY <1>4 DEF Steps
<1>6. put = h3
  BY DEF Begun, SetUnreserve, SetBlob, SetPc
<1> HIDE DEF b, put
<1>7. h \in RequestType /\ h.op = "Put" /\ h.result = "none"
  BY <1>4, <1>5, BegunFields
<1> HIDE DEF h
<1>8. h2 \in RequestType /\ h2.pc = "create" /\ h2.op = "Put" /\ h2.result = "none"
  BY <1>5, <1>7, SetPcFields, SetBlobFields
<1> HIDE DEF h2
<1>9. h3 \in RequestType /\ h3.pc = "create" /\ h3.op = "Put" /\ h3.result = "none"
  BY <1>5, <1>8, SetUnreserveFields
<1> HIDE DEF h3
<1>10. CASE Step(r, Idle)
  BY <1>3, <1>10, EndMapped
<1>11. CASE Step(r, h3)
  <2>1. /\ h3.op \in {"Put", "Get"} /\ h3.result \in {"none", "error", "miss"}
        /\ h3.result # "miss" /\ h3.pc \notin {"open", "slow"}
    BY <1>9
  <2> QED
    BY <1>1, <1>3, <1>9, <1>11, <2>1, BeginMapped
<1> QED
  BY <1>1, <1>6, <1>10, <1>11

\* A tempfile is not in the store.
LEMMA CreateTempfileMaps ==
    ASSUME Inv, Map, Map', Watch, NEW r \in Request, CreateTempfile(r)
    PROVE  Abstract!Next
<1> DEFINE q == req[r]
<1>1. /\ q \in RequestType /\ RequestInv(q) /\ q.pc = "create" /\ lru' = lru
  BY RequestFacts DEF CreateTempfile
<1>2. q.result = "none" /\ Shrinks("none") /\ SameCall(q, q)
  BY <1>1 DEF RequestInv, Shrinks, SameCall
<1>3. ASSUME NEW x \in Random, <<q.key, x>> \notin KnownPaths,
             disk' = [p \in DOMAIN disk \cup {<<q.key, x>>} |->
                        IF p = <<q.key, x>> THEN TempFile(q.blob) ELSE disk[p]],
             Step(r, [q EXCEPT !.pc = "write", !.random = x, !.blobFile = TRUE,
                               !.removeTempfile = TRUE])
      PROVE  Abstract!Next
  <2> DEFINE t == TRUE
             b == SetRandom(SetPc(q, "write"), x)
             c == SetRemoveTempfile(SetBlobFile(b, t), t)
  <2>1. Step(r, c)
    BY <1>3 DEF SetPc, SetRandom, SetBlobFile, SetRemoveTempfile
  <2>2. "write" \in Steps /\ x \in Random \cup {NoRandom} /\ t \in BOOLEAN
    BY DEF Steps
  <2>3. /\ b \in RequestType
        /\ b.pc = "write" /\ b.op = q.op /\ b.key = q.key
        /\ b.size = q.size /\ b.blob = q.blob /\ b.result = q.result
    BY <1>1, <2>2, SetPcFields, SetRandomFields
  <2> HIDE DEF b, t
  <2>4. /\ c \in RequestType
        /\ c.pc = "write" /\ c.op = q.op /\ c.key = q.key
        /\ c.size = q.size /\ c.blob = q.blob /\ c.result = q.result
    BY <2>2, <2>3, SetBlobFileFields, SetRemoveTempfileFields
  <2> HIDE DEF c
  <2>5. KeepsBlobs
    BY <1>3 DEF KeepsBlobs, KnownPaths
  <2>6. SameCall(q, c) /\ c.pc \notin {"open", "slow"}
    BY <2>4 DEF SameCall
  <2> QED
    BY <1>2, <2>1, <2>4, <2>5, <2>6, SilentMapped
<1>4. ASSUME NEW v \in {"error"}, Step(r, Return(q, v)), disk' = disk
      PROVE  Abstract!Next
  <2>1. KeepsBlobs /\ q.pc # "idle"
    BY <1>1, <1>4 DEF KeepsBlobs
  <2> QED
    BY <1>2, <1>4, <2>1, FailMapped
<1> QED
  BY <1>3, <1>4 DEF CreateTempfile

\* Nor is a file that is partly written.
LEMMA WriteSomeMaps ==
    ASSUME Inv, Map, Map', Watch, NEW r \in Request, WriteSome(r)
    PROVE  Abstract!Next
<1> DEFINE p == Path(req[r])
<1>1. /\ req[r].pc = "write" /\ disk' = Lengthened(disk, p, 1)
      /\ lru' = lru /\ req' = req
  BY DEF WriteSome, PathOf, Path, Lengthened
<1>2. p \in DOMAIN disk /\ FilesOK(disk) /\ 1 \in Nat
      /\ 1 \in {0, 1, disk[p].blob.sizeOnDisk}
  BY <1>1, TempFacts DEF Inv, TypeInv
<1> HIDE DEF p
<1>3. /\ DOMAIN disk' = DOMAIN disk /\ disk'[p].blob = disk[p].blob
      /\ \A x \in DOMAIN disk \ {p} : disk'[x] = disk[x]
  BY <1>1, <1>2, FileLengthened
<1>4. KeepsBlobs /\ Shrinks("none")
  BY <1>1, <1>3 DEF KeepsBlobs, Shrinks
<1> QED
  BY <1>1, <1>4, OtherMapped

\* Nor is a file that is whole but not committed.
LEMMA WriteFileMaps ==
    ASSUME Inv, Map, Map', Watch, NEW r \in Request, WriteFile(r)
    PROVE  Abstract!Next
<1> DEFINE q == req[r]
           p == Path(q)
           n == q.blob.sizeOnDisk
           t == TRUE
<1>1. q \in RequestType /\ RequestInv(q) /\ q.pc = "write" /\ lru' = lru
  BY RequestFacts DEF WriteFile
<1>2. q.result = "none" /\ Shrinks("none")
  BY <1>1 DEF RequestInv, Shrinks
<1>3. ASSUME disk' = [disk EXCEPT ![p].len = n, ![p].whole = t],
             Step(r, Goto(q, "commit"))
      PROVE  Abstract!Next
  <2> DEFINE s == "commit"
             c == Goto(q, s)
  <2>1. s \in Steps /\ s \notin {"open", "slow"} /\ Step(r, c)
    BY <1>3 DEF Steps
  <2> HIDE DEF s
  <2>2. c \in RequestType /\ SameCall(q, c) /\ c.pc = s /\ c.result = q.result
    BY <1>1, <2>1, GotoCall
  <2> HIDE DEF c
  <2>3. p \in DOMAIN disk /\ disk[p].blob = q.blob /\ q.blob \in Blobs
    BY <1>1, TempFacts DEF RequestInv, Blobs
  <2>4. FilesOK(disk) /\ n \in Nat /\ n \in {0, 1, disk[p].blob.sizeOnDisk} /\ t \in BOOLEAN
    BY <2>3, BlobType DEF Inv, TypeInv
  <2>5. disk' = Filled(disk, p, n, t)
    BY <1>3 DEF Filled
  <2> HIDE DEF t, p, n
  <2>6. /\ DOMAIN disk' = DOMAIN disk /\ disk'[p].blob = disk[p].blob
        /\ \A x \in DOMAIN disk \ {p} : disk'[x] = disk[x]
    BY <2>3, <2>4, <2>5, FileFilled
  <2>7. KeepsBlobs
    BY <2>6 DEF KeepsBlobs
  <2> QED
    BY <1>2, <2>1, <2>2, <2>7, SilentMapped
<1>4. ASSUME NEW v \in {"error"}, Step(r, Return(q, v)), disk' = disk
      PROVE  Abstract!Next
  <2>1. KeepsBlobs /\ q.pc # "idle"
    BY <1>1, <1>4 DEF KeepsBlobs
  <2> QED
    BY <1>2, <1>4, <2>1, FailMapped
<1> QED
  BY <1>3, <1>4 DEF WriteFile, PathOf, Path

\* The deferred function removes nothing that is stored.
LEMMA DeferFileMaps ==
    ASSUME Inv, Map, Map', Watch, NEW r \in Request, DeferFile(r)
    PROVE  Abstract!Next
<1> DEFINE q == req[r]
           p == Path(q)
           s == "unreserve"
           c == Goto(q, s)
           f == FALSE
<1>1. /\ q \in RequestType /\ lru' = lru /\ PathOf(r) = p
      /\ Step(r, IF q.unreserve THEN c ELSE Idle)
  BY RequestFacts DEF DeferFile
<1>2. s \in Steps /\ s \notin {"open", "slow"}
  BY DEF Steps
<1> HIDE DEF s
<1>3. c \in RequestType /\ SameCall(q, c) /\ c.pc = s /\ c.result = q.result
  BY <1>1, <1>2, GotoCall
<1> HIDE DEF c
<1>4. Shrinks("none")
  BY <1>1 DEF Shrinks
<1>5. KeepsBlobs
  <2>1. FilesOK(disk)
    BY DEF Inv, TypeInv
  <2>2. CASE q.removeTempfile
    <3> DEFINE S == DOMAIN disk \ {p}
    <3>1. disk' = Restrict(disk, S)
      BY <1>1, <2>2 DEF DeferFile
    <3>2. S \in SUBSET DOMAIN disk
      OBVIOUS
    <3> HIDE DEF S
    <3>3. DOMAIN disk' = S /\ \A x \in S : disk'[x] = disk[x]
      BY <2>1, <3>1, <3>2, FilesRestricted
    <3> QED
      BY <3>3 DEF KeepsBlobs
  <2>3. CASE ~q.removeTempfile /\ q.blobFile /\ p \in DOMAIN disk
    <3>1. disk' = [disk EXCEPT ![p].wip = FALSE]
      BY <1>1, <2>3 DEF DeferFile
    <3>2. disk' = Marked(disk, p, f) /\ f \in BOOLEAN
      BY <3>1 DEF Marked
    <3> HIDE DEF f, p
    <3>3. /\ DOMAIN disk' = DOMAIN disk /\ disk'[p].blob = disk[p].blob
          /\ \A x \in DOMAIN disk \ {p} : disk'[x] = disk[x]
      BY <2>1, <2>3, <3>2, FileMarked
    <3> QED
      BY <3>3 DEF KeepsBlobs
  <2>4. CASE ~q.removeTempfile /\ ~(q.blobFile /\ p \in DOMAIN disk)
    <3>1. disk' = disk
      BY <1>1, <2>4 DEF DeferFile
    <3> QED
      BY <3>1 DEF KeepsBlobs
  <2> QED
    BY <2>2, <2>3, <2>4
<1>6. CASE Step(r, c)
  BY <1>2, <1>3, <1>4, <1>5, <1>6, SilentMapped
<1>7. CASE Step(r, Idle)
  BY <1>4, <1>5, <1>7, EndMapped
<1> QED
  BY <1>1, <1>6, <1>7

\* The end of the deferred function is the end of the call.
LEMMA DeferUnreserveMaps ==
    ASSUME Inv, Map, Map', Watch, NEW r \in Request, DeferUnreserve(r)
    PROVE  Abstract!Next
<1> DEFINE q   == req[r]
           unr == Unreserve(lru, q.size)
<1>1. /\ q \in RequestType /\ RequestInv(q) /\ q.pc = "unreserve"
      /\ Reserved(q) \in Nat /\ lru.reservedSize \in Nat
      /\ lru' = unr.lru /\ disk' = disk
      /\ Step(r, IF unr.ok THEN Idle ELSE [Idle EXCEPT !.result = "unreserveFailed"])
  BY RequestFacts DEF DeferUnreserve
<1>2. q.unreserve /\ q.size > 0 /\ q.size \in Int
  BY <1>1 DEF RequestInv, RequestType
<1>3. Reserved(q) = q.size
  BY <1>2 DEF Reserved
<1>4. q.size \in Nat /\ q.size <= lru.reservedSize /\ IndexInv(lru)
  BY <1>1, <1>3, ReservedBound DEF Inv
<1>5. unr.ok /\ unr.lru.cache = lru.cache
  BY <1>4, UnreserveKeeps, UnreserveMap
<1>6. Step(r, Idle)
  BY <1>1, <1>5
<1> HIDE DEF unr
<1>7. KeepsBlobs /\ Shrinks("none")
  BY <1>1, <1>5 DEF KeepsBlobs, Shrinks
<1> QED
  BY <1>6, <1>7, EndMapped

\* A commit that succeeds puts the blob into the store, unless it is evicted at once.
LEMMA CommitMaps ==
    ASSUME Inv, Map, Map', Watch, NEW r \in Request, Commit(r)
    PROVE  Abstract!Next
<1> DEFINE q    == req[r]
           p    == Path(q)
           unr  == IF q.size > 0 THEN Unreserve(lru, q.size)
                                 ELSE [ok |-> TRUE, lru |-> lru]
           item == [size |-> q.blob.size, sizeOnDisk |-> q.blob.sizeOnDisk,
                    random |-> q.random]
           add  == Add(unr.lru, q.key, item)
           c    == CommitOutcome(q, add)
<1>1. /\ q \in RequestType /\ RequestInv(q) /\ q.pc = "commit"
      /\ Reserved(q) \in Nat /\ lru.reservedSize \in Nat
  BY RequestFacts DEF Commit
<1>2. /\ q.op \in {"Put", "Get"} /\ q.op # "none" /\ q.blob \in Blobs /\ q.blob \in Genuine
      /\ q.blob.key = q.key /\ q.result = "none"
      /\ q.op = "Get" => q.size \in {-1, q.blob.size}
  BY <1>1 DEF RequestInv, Blobs
<1>3. /\ p \in DOMAIN disk /\ disk[p].blob = q.blob
      /\ p \notin IndexPaths(lru)
      /\ q.key \in Key /\ q.random \in Random
  BY <1>1, TempFacts
<1>4. unr.ok /\ IndexInv(unr.lru) /\ unr.lru.cache = lru.cache
  <2>1. IndexInv(lru) /\ q.size \in Int
    BY <1>1 DEF Inv, RequestType
  <2>2. CASE q.size > 0
    <3>1. q.unreserve
      BY <1>1, <2>2 DEF RequestInv
    <3>2. Reserved(q) = q.size /\ q.size \in Nat
      BY <2>1, <2>2, <3>1 DEF Reserved
    <3>3. q.size <= lru.reservedSize
      BY <3>2, ReservedBound
    <3> QED
      BY <2>1, <2>2, <3>2, <3>3, UnreserveKeeps, UnreserveMap
  <2>3. CASE ~(q.size > 0)
    BY <2>1, <2>3
  <2> QED
    BY <2>2, <2>3
<1>5. item \in Item
  BY <1>2, <1>3, DiskAssumption DEF Blobs
<1>6. item.random = q.random
  OBVIOUS
<1>7. lru' = add.lru /\ disk' = disk /\ Step(r, c)
  BY <1>4 DEF Commit
<1> HIDE DEF unr, item
<1>8. ~add.hung /\ add.ok \in BOOLEAN
  BY <1>3, <1>4, <1>5, AddKeeps
<1>9. <<q.key, item.random>> = p /\ IndexPaths(unr.lru) = IndexPaths(lru)
  BY <1>4, <1>6 DEF Path, IndexPaths
<1>10. /\ ~add.ok => add.lru = unr.lru
       /\ add.ok =>
            \A j \in DOMAIN add.lru.cache :
               \/ j = q.key /\ add.lru.cache[j] = item
               \/ /\ j # q.key /\ j \in DOMAIN unr.lru.cache
                  /\ add.lru.cache[j] = unr.lru.cache[j]
  BY <1>3, <1>4, <1>5, <1>9, AddPaths
<1>11. /\ c \in RequestType
       /\ c.pc = "defer" /\ c.op = q.op /\ c.key = q.key /\ c.size = q.size
       /\ c.blob = q.blob
       /\ ~add.ok => c.result = "addFailed"
       /\ add.ok /\ q.op = "Put" => c.result = "ok"
       /\ add.ok /\ q.op = "Get" => c.result = "hit"
  BY <1>1, <1>2, <1>8, CommitOutcomeFields
<1> HIDE DEF add, c
<1>12. KeepsBlobs /\ SameCall(q, c) /\ c.pc \notin {"open", "slow"}
  BY <1>7, <1>11 DEF KeepsBlobs, SameCall
<1>13. CASE ~add.ok
  <2>1. Shrinks("none")
    BY <1>4, <1>7, <1>10, <1>13 DEF Shrinks
  <2>2. /\ c.result \in {"none", "error", "addFailed", "miss", "hit"}
        /\ c.result # "miss" /\ c.result # "hit"
    BY <1>11, <1>13
  <2> QED
    BY <1>2, <1>7, <1>11, <1>12, <2>1, <2>2, AnswerMapped
<1>14. CASE add.ok
  <2>1. Shrinks(q.key)
    BY <1>4, <1>7, <1>10, <1>14 DEF Shrinks
  <2>2. Abstract!Keeps(q.key)
    BY <1>12, <2>1, KeepsMapped DEF Map
  <2>3. q.key \in DOMAIN Stored' => Stored'[q.key] = q.blob
    <3>1. ASSUME q.key \in DOMAIN Stored'
          PROVE  Stored'[q.key] = q.blob
      <4>1. /\ q.key \in DOMAIN lru'.cache
            /\ Stored'[q.key] = disk'[<<q.key, lru'.cache[q.key].random>>].blob
        BY <3>1 DEF Map, StoredFacts
      <4>2. lru'.cache[q.key] = item
        BY <1>7, <1>10, <1>14, <4>1
      <4> QED
        BY <1>3, <1>7, <1>9, <4>1, <4>2
    <3> QED
      BY <3>1
  <2>4. Abstract!Stores(q.blob)
    BY <1>2, <2>2, <2>3 DEF Abstract!Stores
  <2>5. req'[r] = c
    BY <1>7, <1>11, StepFields DEF Inv
  <2>6. r \notin Opening'
    BY <1>12, <2>5 DEF Opening
  <2>7. /\ Calls[r] = CallOf(q) /\ Calls'[r] = CallOf(c)
        /\ \A s \in Request \ {r} : Calls'[s] = Calls[s]
        /\ Abstract!Watched
    BY <1>7, <1>11, <2>6, StepMapped
  <2>8. Abstract!Answers(r, Answer(c.result))
    BY <1>2, <1>11, <1>12, <2>7, AnswersMapped
  <2>9. CASE q.op = "Put"
    <3>1. Answer(c.result) = "ok"
      BY <1>11, <1>14, <2>9 DEF Answer
    <3>2. Calls[r].op = "Put" /\ Calls[r].blob = q.blob
      BY <2>7, <2>9 DEF CallOf
    <3>3. Abstract!PutSucceeds(r)
      BY <2>4, <2>8, <3>1, <3>2 DEF Abstract!PutSucceeds
    <3> QED
      BY <2>7, <3>3 DEF Abstract!CallStep, Abstract!Next
  <2>10. CASE q.op = "Get"
    <3>1. Answer(c.result) = "hit"
      BY <1>11, <1>14, <2>10 DEF Answer
    <3>2. Calls[r].op = "Get" /\ Calls[r].key = q.key /\ Calls[r].size = q.size
      BY <2>7, <2>10 DEF CallOf
    <3>3. Abstract!GetHits(r)
      BY <1>2, <2>4, <2>8, <2>10, <3>1, <3>2 DEF Abstract!GetHits
    <3> QED
      BY <2>7, <3>3 DEF Abstract!CallStep, Abstract!Next
  <2> QED
    BY <1>2, <2>9, <2>10
<1> QED
  BY <1>8, <1>13, <1>14

\* A Get begins: it has met its blob, or the store was without it.
LEMMA GetLookupMaps ==
    ASSUME Inv, Map, Map', Watch, NEW r \in Request, NEW k \in Key, NEW size \in AskSize,
           GetLookup(r, k, size)
    PROVE  Abstract!Next
<1> DEFINE get  == Begun("Get", k, size)
           item == lru.cache[k]
<1>1. size \in Int
  BY DiskAssumption, SizeAssumption
<1>2. /\ get \in RequestType /\ get.op = "Get" /\ get.key = k /\ get.size = size
      /\ get.result = "none"
  BY <1>1, BegunFields
<1>3. /\ req[r] = Idle /\ disk' = disk
      /\ IF k \in DOMAIN lru.cache
         THEN /\ lru' = Get(lru, k)
              /\ Step(r, IF isSizeMismatch(size, item.size) THEN Goto(get, "miss")
                         ELSE [get EXCEPT !.pc = "open", !.random = item.random])
         ELSE TryProxy(r, lru, get)
  BY DEF GetLookup, Begun
<1> HIDE DEF get
<1>4. KeepsBlobs /\ IndexInv(lru)
  BY <1>3 DEF KeepsBlobs, Inv
<1>5. Get(lru, k).cache = lru.cache
  BY <1>4, GetMap
<1>6. CASE k \in DOMAIN lru.cache /\ isSizeMismatch(size, item.size)
  <2> DEFINE s == "miss"
             c == Goto(get, s)
  <2>1. Step(r, c) /\ s \in Steps /\ s \notin {"open", "slow"}
    BY <1>3, <1>6 DEF Steps
  <2> HIDE DEF s
  <2>2. c \in RequestType /\ SameCall(get, c) /\ c.pc = s /\ c.result = get.result
    BY <1>2, <2>1, GotoCall
  <2> HIDE DEF c
  <2>3. /\ c.op \in {"Put", "Get"} /\ c.result \in {"none", "error", "miss"}
        /\ c.result # "miss"
    BY <1>2, <2>2 DEF SameCall
  <2>4. Shrinks("none")
    BY <1>3, <1>5, <1>6 DEF Shrinks
  <2> QED
    BY <1>3, <1>4, <2>1, <2>2, <2>3, <2>4, BeginMapped
<1>7. CASE k \in DOMAIN lru.cache /\ ~isSizeMismatch(size, item.size)
  <2> DEFINE x == item.random
             c == SetRandom(SetPc(get, "open"), x)
  <2>1. Step(r, c)
    BY <1>3, <1>7 DEF SetPc, SetRandom
  <2>2. <<k, x>> \in DOMAIN disk
    BY <1>7 DEF Inv, Owned, IndexPaths
  <2>3. x \in Random \cup {NoRandom} /\ "open" \in Steps
    BY <2>2 DEF Inv, TypeInv, FilesOK, Steps
  <2> HIDE DEF x
  <2>4. /\ c \in RequestType
        /\ c.pc = "open" /\ c.op = "Get" /\ c.key = k /\ c.size = size
        /\ c.result = "none"
    BY <1>2, <2>3, SetPcFields, SetRandomFields
  <2> HIDE DEF c
  <2>5. ~Absent(lru, c)
    BY <1>7, <2>4 DEF Absent
  <2>6. /\ c.op \in {"Put", "Get"} /\ c.result \in {"none", "error", "miss"}
        /\ c.result # "miss"
    BY <2>4
  <2>7. Shrinks("none")
    BY <1>3, <1>5, <1>7 DEF Shrinks
  <2> QED
    BY <1>3, <1>4, <2>1, <2>4, <2>5, <2>6, <2>7, BeginMapped
<1>8. CASE k \notin DOMAIN lru.cache
  <2>1. GoesOn(r, get, {"none", "error", "miss"}) /\ Shrinks("none")
    BY <1>2, <1>3, <1>4, <1>8, TryProxyCall
  <2>2. PICK c \in RequestType :
          /\ Step(r, c) /\ SameCall(get, c)
          /\ c.pc \notin {"open", "slow"} /\ c.result \in {"none", "error", "miss"}
    BY <2>1 DEF GoesOn
  <2>3. c.op = "Get" /\ c.key = get.key /\ c.size = get.size /\ c.op \in {"Put", "Get"}
    BY <1>2, <2>2 DEF SameCall
  <2>4. Absent(lru, get)
    BY <1>2, <1>8 DEF Absent
  <2>5. req'[r] = c
    BY <2>2, StepFields DEF Inv
  <2>6. r \in excused'
    BY <2>3, <2>4, <2>5, AbsentStep
  <2> QED
    BY <1>3, <1>4, <2>1, <2>2, <2>3, <2>6, BeginMapped
<1> QED
  BY <1>6, <1>7, <1>8

\* A Get that cannot read its file has met it.
LEMMA UnreadableMaps ==
    ASSUME Inv, Map, Map', Watch, NEW r \in Request, NEW p,
           req[r].pc \in {"open", "slow"}, Unreadable(r, req[r], p),
           KeepsBlobs, Shrinks("none")
    PROVE  Abstract!Next
<1> DEFINE q == req[r]
<1>1. q \in RequestType /\ q.result = "none" /\ q.pc # "idle"
  BY RequestFacts DEF RequestInv
<1>2. CASE Step(r, Goto(q, "unreadable"))
  <2> DEFINE s == "unreadable"
             c == Goto(q, s)
  <2>1. Step(r, c) /\ s \in Steps
    BY <1>2 DEF Steps
  <2> HIDE DEF s
  <2>2. c \in RequestType /\ SameCall(q, c) /\ c.result = q.result
    BY <1>1, <2>1, GotoCall
  <2> HIDE DEF c
  <2> QED
    BY <2>1, <2>2, SilentMapped
<1>3. CASE Step(r, Return(q, "error"))
  <2> DEFINE v == "error"
  <2>1. v \in {"error"} /\ Step(r, Return(q, v))
    BY <1>3
  <2> HIDE DEF v
  <2> QED
    BY <1>1, <2>1, FailMapped
<1> QED
  BY <1>2, <1>3 DEF Unreadable

\* A Get that opens the file it has met hits.
LEMMA GetOpenMaps ==
    ASSUME Inv, BeforeCrash, Map, Map', Watch, NEW r \in Request, GetOpen(r)
    PROVE  Abstract!Next
<1> DEFINE q == req[r]
           p == Path(q)
<1>1. /\ q \in RequestType /\ RequestInv(q) /\ q.pc = "open" /\ PathOf(r) = p
      /\ lru' = lru /\ disk' = disk
  BY RequestFacts DEF GetOpen
<1>2. q.op = "Get" /\ q.result = "none" /\ q.pc # "idle" /\ SameCall(q, q)
  BY <1>1 DEF RequestInv, SameCall
<1>3. r \in Opening /\ KeepsBlobs /\ Shrinks("none")
  BY <1>1, <1>2 DEF Opening, KeepsBlobs, Shrinks
<1> DEFINE step == IF p \in DOMAIN disk THEN Opened(q, disk[p]) ELSE Goto(q, "slow")
<1>4. CASE p \in DOMAIN disk /\ Step(r, step)
  <2> DEFINE R == {"none", "hit"}
  <2>1. Step(r, Opened(q, disk[p])) /\ disk[p].whole
    BY <1>1, <1>4 DEF BeforeCrash, OpenFile, Complete
  <2>2. GoesOn(r, q, R)
    BY <1>1, <1>2, <2>1, OpenedCall
  <2>3. R \in SUBSET {"none", "error", "miss", "hit"} /\ "miss" \notin R
    OBVIOUS
  <2> HIDE DEF R
  <2> QED
    BY <1>2, <1>3, <2>2, <2>3, GoesOnMapped
<1>5. CASE p \notin DOMAIN disk /\ Step(r, step)
  <2> DEFINE s == "slow"
             c == Goto(q, s)
  <2>1. Step(r, c) /\ s \in Steps
    BY <1>5 DEF Steps
  <2> HIDE DEF s
  <2>2. c \in RequestType /\ SameCall(q, c) /\ c.result = q.result
    BY <1>1, <2>1, GotoCall
  <2> HIDE DEF c
  <2>3. q.pc \in {"open", "slow"}
    BY <1>1
  <2> QED
    BY <1>3, <2>1, <2>2, <2>3, SilentMapped
<1>6. CASE Unreadable(r, q, p)
  BY <1>1, <1>3, <1>6, UnreadableMaps
<1>7. Step(r, step) \/ Unreadable(r, q, p)
  BY <1>1 DEF GetOpen
<1> QED
  BY <1>4, <1>5, <1>6, <1>7

\* A Get that opens the file with the lock held hits.
LEMMA GetSlowPathMaps ==
    ASSUME Inv, BeforeCrash, Map, Map', Watch, NEW r \in Request, GetSlowPath(r)
    PROVE  Abstract!Next
<1> DEFINE q == req[r]
           x == lru.cache[q.key].random
           p == <<q.key, x>>
           c == SetRandom(q, x)
<1>1. /\ q \in RequestType /\ RequestInv(q) /\ q.pc = "slow"
      /\ lru' = Get(lru, q.key) /\ disk' = disk
  BY RequestFacts DEF GetSlowPath
<1>2. /\ q.key \in Key /\ q.op = "Get" /\ q.result = "none" /\ q.pc # "idle"
      /\ SameCall(q, q)
  BY <1>1 DEF RequestInv, SameCall
<1>3. lru'.cache = lru.cache
  BY <1>1, <1>2, GetMap DEF Inv
<1>4. r \in Opening /\ KeepsBlobs /\ Shrinks("none")
  BY <1>1, <1>2, <1>3 DEF Opening, KeepsBlobs, Shrinks
<1> DEFINE step == IF q.key \in DOMAIN lru.cache /\ p \in DOMAIN disk
                   THEN Opened(c, disk[p]) ELSE Goto(q, "miss")
<1>5. CASE q.key \in DOMAIN lru.cache /\ Step(r, step)
  <2> DEFINE R == {"none", "hit"}
  <2>1. p \in DOMAIN disk
    BY <1>5 DEF Inv, Owned, IndexPaths
  <2>2. Step(r, Opened(c, disk[p]))
    BY <1>5, <2>1
  <2>3. disk[p].whole
    BY <1>5 DEF BeforeCrash, IndexFile, Complete
  <2>4. x \in Random \cup {NoRandom}
    BY <2>1 DEF Inv, TypeInv, FilesOK
  <2> HIDE DEF x
  <2>5. /\ c \in RequestType /\ c.op = q.op /\ c.key = q.key /\ c.size = q.size
        /\ c.blob = q.blob /\ c.result = "none"
    BY <1>1, <1>2, <2>4, SetRandomFields
  <2> HIDE DEF c
  <2>6. GoesOn(r, c, R)
    BY <2>2, <2>3, <2>5, OpenedCall
  <2>7. R \in SUBSET {"none", "error", "miss", "hit"} /\ "miss" \notin R
    OBVIOUS
  <2> HIDE DEF R
  <2>8. SameCall(q, c)
    BY <2>5 DEF SameCall
  <2> QED
    BY <1>2, <1>4, <2>6, <2>7, <2>8, GoesOnMapped
<1>6. CASE q.key \notin DOMAIN lru.cache /\ Step(r, step)
  <2> DEFINE s == "miss"
             d == Goto(q, s)
  <2>1. Step(r, d) /\ s \in Steps
    BY <1>6 DEF Steps
  <2> HIDE DEF s
  <2>2. d \in RequestType /\ SameCall(q, d) /\ d.result = q.result
    BY <1>1, <2>1, GotoCall
  <2> HIDE DEF d
  <2>3. q.pc \in {"open", "slow"}
    BY <1>1
  <2> QED
    BY <1>4, <2>1, <2>2, <2>3, SilentMapped
<1>7. CASE Unreadable(r, q, p)
  BY <1>1, <1>4, <1>7, UnreadableMaps
<1>8. Step(r, step) \/ Unreadable(r, q, p)
  BY DEF GetSlowPath, SetRandom
<1> QED
  BY <1>5, <1>6, <1>7, <1>8

\* A Get that turns to the proxy has a reason to.
LEMMA GetMissMaps ==
    ASSUME Inv, BeforeCrash, Map, Map', Watch, NEW r \in Request, GetMiss(r)
    PROVE  Abstract!Next
<1> DEFINE q == req[r]
           x == NoRandom
           c == SetRandom(q, x)
           R == {"none", "error", "miss"}
<1>1. /\ q \in RequestType /\ RequestInv(q) /\ q.pc \in {"miss", "unreadable"}
      /\ TryProxy(r, lru, c) /\ disk' = disk
  BY RequestFacts DEF GetMiss, SetRandom
<1>2. /\ q.op = "Get" /\ q.result = "none" /\ q.pc # "idle"
      /\ x \in Random \cup {NoRandom}
  BY <1>1 DEF RequestInv
<1> HIDE DEF x
<1>3. /\ c \in RequestType /\ c.op = q.op /\ c.key = q.key /\ c.size = q.size
      /\ c.blob = q.blob /\ c.result = "none"
  BY <1>1, <1>2, SetRandomFields
<1> HIDE DEF c
<1>4. GoesOn(r, c, R) /\ Shrinks("none")
  BY <1>1, <1>3, TryProxyCall DEF Inv
<1>5. r \in excused
  BY <1>1, <1>2 DEF BeforeCrash, NoSpuriousMiss
<1>6. R \in SUBSET {"none", "error", "miss", "hit"} /\ "hit" \notin R
  OBVIOUS
<1> HIDE DEF R
<1>7. SameCall(q, c) /\ KeepsBlobs
  BY <1>1, <1>3 DEF SameCall, KeepsBlobs
<1> QED
  BY <1>2, <1>4, <1>5, <1>6, <1>7, GoesOnMapped

\* The proxy answers a Get that has a reason to miss.
LEMMA GetFetchMaps ==
    ASSUME Inv, BeforeCrash, Map, Map', Watch, NEW r \in Request, GetFetch(r)
    PROVE  Abstract!Next
<1> DEFINE q == req[r]
           R == {"none", "error", "miss"}
<1>1. /\ q \in RequestType /\ RequestInv(q) /\ q.pc = "fetch"
      /\ lru' = lru /\ disk' = disk
  BY RequestFacts DEF GetFetch
<1>2. q.op = "Get" /\ q.result = "none" /\ q.pc # "idle" /\ SameCall(q, q)
  BY <1>1 DEF RequestInv, SameCall
<1>3. r \in excused /\ KeepsBlobs /\ Shrinks("none")
  BY <1>1, <1>2 DEF BeforeCrash, NoSpuriousMiss, KeepsBlobs, Shrinks
<1>4. ASSUME NEW v \in {"error", "miss"}, Step(r, Return(q, v))
      PROVE  GoesOn(r, q, R)
  <2>1. v \in Results
    BY DEF Results
  <2> QED
    BY <1>1, <1>4, <2>1, ReturnCall DEF GoesOn
<1>5. ASSUME NEW b \in ProxyBlob, Step(r, [q EXCEPT !.pc = "create", !.blob = b])
      PROVE  GoesOn(r, q, R)
  <2> DEFINE c == SetBlob(SetPc(q, "create"), b)
  <2>1. Step(r, c)
    BY <1>5 DEF SetPc, SetBlob
  <2>2. "create" \in Steps /\ b \in Blobs \cup {NoBlob}
    BY DEF Steps, Blobs
  <2>3. /\ c \in RequestType
        /\ c.pc = "create" /\ c.op = q.op /\ c.key = q.key /\ c.size = q.size
        /\ c.result = q.result
    BY <1>1, <2>2, SetPcFields, SetBlobFields
  <2> HIDE DEF c
  <2>4. SameCall(q, c)
    BY <1>2, <2>3 DEF SameCall
  <2> QED
    BY <1>2, <2>1, <2>3, <2>4 DEF GoesOn
<1>6. R \in SUBSET {"none", "error", "miss", "hit"} /\ "hit" \notin R
  OBVIOUS
<1> HIDE DEF R
<1>7. GoesOn(r, q, R)
  BY <1>4, <1>5 DEF GetFetch
<1> QED
  BY <1>2, <1>3, <1>6, <1>7, GoesOnMapped

\* Every step of a request is one of its call, or only forgets.
LEMMA RequestMaps ==
    ASSUME Inv, BeforeCrash, Map, Map', Watch, NEW r \in Request, RequestStep(r)
    PROVE  Abstract!Next
<1>1. CASE \E u \in Upload : PutReserve(r, u)
  BY <1>1, PutReserveMaps
<1>2. CASE \E k \in Key, size \in AskSize : GetLookup(r, k, size)
  BY <1>2, GetLookupMaps
<1>3. CASE CreateTempfile(r)
  BY <1>3, CreateTempfileMaps
<1>4. CASE WriteSome(r)
  BY <1>4, WriteSomeMaps
<1>5. CASE WriteFile(r)
  BY <1>5, WriteFileMaps
<1>6. CASE Commit(r)
  BY <1>6, CommitMaps
<1>7. CASE DeferFile(r)
  BY <1>7, DeferFileMaps
<1>8. CASE DeferUnreserve(r)
  BY <1>8, DeferUnreserveMaps
<1>9. CASE GetOpen(r)
  BY <1>9, GetOpenMaps
<1>10. CASE GetSlowPath(r)
  BY <1>10, GetSlowPathMaps
<1>11. CASE GetMiss(r)
  BY <1>11, GetMissMaps
<1>12. CASE GetFetch(r)
  BY <1>12, GetFetchMaps
<1> QED
  BY <1>1, <1>2, <1>3, <1>4, <1>5, <1>6, <1>7, <1>8, <1>9, <1>10, <1>11, <1>12
     DEF RequestStep

\* The index and the files of a step of no request: some files may go.
LEMMA OtherMaps ==
    ASSUME Inv, BeforeCrash, Map, Map', Watch,
           \/ \E k \in Key : ContainsLookup(k)
           \/ \E p \in pending : RemovalAcquire(p)
           \/ \E p \in removing : removeFile(p)
           \/ \E p \in loading : LoadFile(p)
           \/ LoadDone
    PROVE  Abstract!Next
<1>1. ASSUME NEW k \in Key, ContainsLookup(k) PROVE Abstract!Next
  <2>1. lru' = Get(lru, k) /\ req' = req /\ disk' = disk
    BY <1>1 DEF ContainsLookup
  <2>2. Get(lru, k).cache = lru.cache
    BY GetMap DEF Inv
  <2>3. KeepsBlobs /\ Shrinks("none")
    BY <2>1, <2>2 DEF KeepsBlobs, Shrinks
  <2> QED
    BY <2>1, <2>3, OtherMapped
<1>2. ASSUME NEW p \in pending, RemovalAcquire(p) PROVE Abstract!Next
  <2>1. lru' = lru /\ req' = req /\ disk' = disk
    BY <1>2 DEF RemovalAcquire
  <2>2. KeepsBlobs /\ Shrinks("none")
    BY <2>1 DEF KeepsBlobs, Shrinks
  <2> QED
    BY <2>1, <2>2, OtherMapped
<1>3. ASSUME NEW p \in removing, removeFile(p) PROVE Abstract!Next
  <2> DEFINE S == DOMAIN disk \ {p}
  <2>1. lru' = lru /\ req' = req /\ disk' = Restrict(disk, S)
    BY <1>3 DEF removeFile
  <2>2. FilesOK(disk) /\ S \in SUBSET DOMAIN disk
    BY DEF Inv, TypeInv
  <2> HIDE DEF S
  <2>3. DOMAIN disk' = S /\ \A x \in S : disk'[x] = disk[x]
    BY <2>1, <2>2, FilesRestricted
  <2>4. KeepsBlobs /\ Shrinks("none")
    BY <2>1, <2>3 DEF KeepsBlobs, Shrinks
  <2> QED
    BY <2>1, <2>4, OtherMapped
<1>4. loading = {}
  BY DEF BeforeCrash
<1>5. CASE LoadDone
  <2>1. lru' = lru /\ req' = req /\ disk' = disk
    BY <1>5 DEF LoadDone
  <2>2. KeepsBlobs /\ Shrinks("none")
    BY <2>1 DEF KeepsBlobs, Shrinks
  <2> QED
    BY <2>1, <2>2, OtherMapped
<1> QED
  BY <1>1, <1>2, <1>3, <1>4, <1>5

\* A new cache is an empty store.
LEMMA InitMaps == Init => Abstract!Init
<1> SUFFICES ASSUME Init PROVE Abstract!Init
  OBVIOUS
<1>1. lru.cache = [k \in {} |-> 0] /\ \A r \in Request : req[r] = Idle
  BY DEF Init, NewSizedLRU
<1>2. Stored = [k \in {} |-> 0]
  BY <1>1 DEF Stored
<1>3. CallOf(Idle) = Abstract!NoCall
  BY IdleFields DEF CallOf, Abstract!NoCall
<1>4. Calls = [c \in Request |-> Abstract!NoCall]
  BY <1>1, <1>3 DEF Calls
<1>5. Opening = {} /\ excused = {}
  BY <1>1, IdleFields DEF Opening, Init
<1> QED
  BY <1>2, <1>4, <1>5 DEF Abstract!Init

\* Every step before the first stop of the process is one of the store.
LEMMA NextMaps ==
    Inv /\ Inv' /\ crashes = 0 /\ (crashes = 0)' /\ Map /\ Map' /\ [Next]_vars =>
        [Abstract!Next]_(Abstract!storeVars)
<1> SUFFICES ASSUME Inv, Inv', crashes = 0, crashes' = 0, Map, Map', [Next]_vars
             PROVE  [Abstract!Next]_(Abstract!storeVars)
  OBVIOUS
<1>1. BeforeCrash
  BY DEF Inv
<1>2. CASE UNCHANGED vars
  <2>1. lru' = lru /\ req' = req /\ disk' = disk /\ excused' = excused
    BY <1>2 DEF vars
  <2>2. Stored' = Stored /\ Calls' = Calls /\ Opening' = Opening
    BY <2>1 DEF Stored, Calls, CallOf, Answer, Opening
  <2> QED
    BY <2>1, <2>2 DEF Abstract!storeVars
<1>3. CASE Next
  <2>1. Watch
    BY <1>3 DEF Next
  <2>2. ~Crash
    BY DEF Crash
  <2>3. CASE \E r \in Request : RequestStep(r)
    BY <1>1, <2>1, <2>3, RequestMaps
  <2>4. CASE \/ \E k \in Key : ContainsLookup(k)
             \/ \E p \in pending : RemovalAcquire(p)
             \/ \E p \in removing : removeFile(p)
             \/ \E p \in loading : LoadFile(p)
             \/ LoadDone
    BY <1>1, <2>1, <2>4, OtherMaps
  <2> QED
    BY <1>3, <2>2, <2>3, <2>4 DEF Next
<1> QED
  BY <1>2, <1>3

\* disk.go, for every set of requests, keys, blobs and sizes, as long as the process
\* runs: a Put that succeeds has stored a genuine blob, a Get hits only what was
\* stored during the call or what it has just fetched and stored, and misses only what
\* was not stored at some moment of the call or could not be read.
THEOREM CacheImplementsStore == Spec /\ [](crashes = 0) => ImplementsStore
<1>1. Inv /\ crashes = 0 => Map
  BY MapHolds DEF Inv
<1> QED
  BY <1>1, InitMaps, NextMaps, InvHolds, PTL DEF Spec, ImplementsStore, Abstract!Spec
=============================================================================
