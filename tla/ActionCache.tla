---------------------------- MODULE ActionCache -----------------------------
(***************************************************************************)
(* Action results: GetActionResult, UpdateActionResult and                 *)
(* BatchUpdateBlobs (server/grpc_ac.go, server/grpc_cas.go), GET, HEAD and *)
(* PUT of /ac/ in server/http.go, GetValidatedActionResult and the part of *)
(* diskCache.Put that observes action results (cache/disk/disk.go,         *)
(* lru_capture.go).                                                        *)
(*                                                                         *)
(* The calls share one action key.  The disk cache below them is what      *)
(* these handlers see of it: blobs and the action result can vanish, or be *)
(* stored by others, between any two of their calls to the cache, and each *)
(* of those calls can fail.  Of a blob only its identity (its hash) and its*)
(* size are kept; the digest sent along with contents may be a wrong one.  *)
(***************************************************************************)
EXTENDS Sums, Sequences

CONSTANTS
    Blob,       \* the CAS blobs, directory trees among them
    EmptyBlob,  \* the blob of no bytes, which the cache always has
    NoBlob,     \* no contents, or no digest
    BlobSize,   \* the size of each blob
    TreeFiles,  \* the files below each blob that is a tree
    Result,     \* the action results that clients send
    NoResult,
    Call,       \* the calls
    Kind,       \* the combinations of kinds that they may be
    HasProxy,   \* whether there is a proxy backend
    Backed,     \* the blobs that the backend may have
    Want,       \* bound: the sets of slots that clients want inlined
    Lossy,      \* bound: the blobs that come and go; the others stay
    MaxInline,  \* maxInlineSize
    MaxCapture, \* lruMaxACCaptureBytes
    Budget      \* lruCaptureBudgetBytes

Get == {"grpcGet", "nodepsGet", "http"}   \* http: GET and HEAD
Update == {"grpcUpdate", "httpPut", "batch"}

\* One place of a result that holds a blob: contents, digest, or both.
Slot == [raw : Blob \cup {NoBlob}, digest : Blob \cup {EmptyBlob, NoBlob}]

ASSUME ActionAssumption ==
    /\ EmptyBlob \notin Blob /\ NoBlob \notin Blob \cup {EmptyBlob}
    /\ BlobSize \in [Blob \cup {EmptyBlob} -> Nat] /\ BlobSize[EmptyBlob] = 0
    /\ DOMAIN TreeFiles \subseteq Blob
    /\ \A t \in DOMAIN TreeFiles : TreeFiles[t] \subseteq Blob \cup {EmptyBlob}
    /\ \A ar \in Result :
          /\ ar.stdout \in Slot /\ ar.stderr \in Slot /\ ar.files \in Seq(Slot)
          /\ ar.dirs \subseteq DOMAIN TreeFiles
          /\ ar.size \in Nat /\ ar.malformed \in BOOLEAN
    /\ NoResult \notin Result
    /\ Kind \subseteq [Call -> Get \cup Update]
    /\ Lossy \subseteq Blob /\ Backed \subseteq Lossy
    /\ IsFiniteSet(Call)
    /\ MaxInline \in Nat /\ Budget \in Nat

VARIABLES
    ac,     \* the stored action result
    local,  \* the blobs in the disk cache, by the digest of their files
    remote, \* the blobs that the backend has
    compressed, \* the storage mode of the cache; the other one is uncompressed
    budget, \* the capture budget in use (lruCaptureSem)
    call,   \* the state of each call
    seen,   \* history: the blobs that existed at some moment of each call
    stored  \* history: the calls whose result was the stored one at some moment

vars == <<ac, local, remote, compressed, budget, call, seen, stored>>
store == <<ac, local, remote>>

Present == local \cup {EmptyBlob} \cup IF HasProxy THEN remote ELSE {}

\* A call that has not started.  Later: ar is the result it works on, slots what
\* it makes of its slots, want those to inline, todo the blobs still to look at,
\* leaves those of the closure, sized those whose size is known, rest the slots
\* still to visit, soFar the bytes inlined, acked the blobs whose upload was
\* confirmed, holds whether it has taken its part of the budget, emitted whether
\* a closure was sent, and excused the blobs for which the code gives a wrong
\* answer (see Validate and BatchNext).
NewCall(kind) ==
    [kind |-> kind, pc |-> "start", ar |-> NoResult, slots |-> <<>>, want |-> {},
     todo |-> {}, leaves |-> {}, sized |-> {}, rest |-> <<>>, soFar |-> 0,
     acked |-> {}, holds |-> FALSE, emitted |-> FALSE, excused |-> {}, end |-> "none"]

Init ==
    /\ ac \in Result \cup {NoResult}
    /\ local \in {Blob \ S : S \in SUBSET Lossy}
    /\ remote \in SUBSET Backed
    /\ budget = 0
    /\ \E kind \in Kind : call = [c \in Call |-> NewCall(kind[c])]
    /\ seen = [c \in Call |-> {}]
    /\ stored = {}
    /\ compressed \in BOOLEAN

\* The state of call c becomes q.
Becomes(c, q) == call' = [call EXCEPT ![c] = q]

\* The call succeeds.  It fails: nothing of what it had is left.
Succeed(c) ==
    Becomes(c, [call[c] EXCEPT !.pc = "returned", !.end = "ok",
                               !.sized = {}, !.soFar = 0])
Fail(c, end) ==
    Becomes(c, [NewCall(call[c].kind) EXCEPT !.pc = "returned", !.end = end])

\* An error; over HTTP a read that fails is reported as "Not found".
Error(c) == Fail(c, IF call[c].kind = "http" THEN "notfound" ELSE "error")

\* validate.ActionResult: every output file has a digest, and the other fields
\* that it looks at (paths, targets, hashes, sizes) are well formed.
validateActionResult(ar) ==
    ~ar.malformed /\ \A i \in DOMAIN ar.files : ar.files[i].digest # NoBlob

\* The slots of a result in the order in which GetActionResult visits them.
Slots(ar) == <<ar.stdout, ar.stderr>> \o ar.files

\* The slots of a sequence that have contents.
Filled(slots) == {i \in DOMAIN slots : slots[i].raw # NoBlob}
Contents(ar) == Filled(Slots(ar))

-----------------------------------------------------------------------------
(***************************************************************************)
(* GetValidatedActionResult, and GetActionResult without a check of the    *)
(* dependencies.                                                           *)
(***************************************************************************)

\* The files below the output directories.
TreeBlobs(ar) == UNION {TreeFiles[t] : t \in ar.dirs}

\* The blobs whose existence is checked: the contents of a file replace its blob.
Pending(ar) ==
    {ar.files[i].digest : i \in {j \in DOMAIN ar.files : ar.files[j].raw = NoBlob}}
      \cup TreeBlobs(ar)
      \cup ({ar.stdout.digest, ar.stderr.digest} \ {NoBlob})

\* Get of the action result, which is parsed and validated.
StartGet(c) ==
    /\ call[c].pc = "start" /\ call[c].kind \in Get
    /\ \/ ac = NoResult /\ Fail(c, "notfound")
       \/ Error(c)
       \/ /\ ac # NoResult /\ validateActionResult(ac)
          /\ \E want \in IF call[c].kind = "grpcGet" THEN Want ELSE {{}} :
               Becomes(c, [call[c] EXCEPT
                     !.ar = ac, !.slots = Slots(ac), !.want = want,
                     !.pc = IF call[c].kind = "nodepsGet" THEN "returned" ELSE "trees",
                     !.end = IF call[c].kind = "nodepsGet" THEN "ok" ELSE "none",
                     !.todo = ac.dirs, !.leaves = Pending(ac) \cup ac.dirs])
    /\ UNCHANGED <<store, budget>>

\* Blob b is there; sized is {b} if its size is known, and else empty.
Found(c, b, sized) ==
    Becomes(c, [call[c] EXCEPT !.todo = @ \ {b}, !.sized = @ \cup sized])

\* Read the tree of an output directory, from the disk or through it from the
\* backend.  Its size is looked up afterwards, when it may be gone again.
ReadTree(c, t) ==
    /\ call[c].pc = "trees" /\ t \in call[c].todo
    /\ \/ t \notin local /\ Fail(c, "notfound") /\ UNCHANGED local
       \/ Error(c) /\ UNCHANGED local
       \/ /\ t \in Present
          /\ local' = local \cup {t}
          /\ \E sized \in SUBSET {t} : Found(c, t, sized)
    /\ UNCHANGED <<ac, remote, budget>>

TreesRead(c) ==
    /\ call[c].pc = "trees" /\ call[c].todo = {}
    /\ Becomes(c, [call[c] EXCEPT !.pc = "validate", !.todo = Pending(call[c].ar)])
    /\ UNCHANGED <<store, budget>>

\* findMissingCasBlobsInternal, blob by blob (FindMissing has its details): found
\* on the disk with its size, found in the backend with or without it, missing
\* as far as it can tell, or let through by the race of a fail-fast search.
Validate(c, b) ==
    /\ call[c].pc = "validate" /\ b \in call[c].todo
    /\ \/ b = EmptyBlob /\ Found(c, b, {})
       \/ b \in local /\ Found(c, b, {b})
       \/ HasProxy /\ b \in remote \ local /\ \E sized \in SUBSET {b} : Found(c, b, sized)
       \/ b \notin local \cup {EmptyBlob} /\ Fail(c, "notfound")
       \/ /\ HasProxy /\ b \notin Present
          /\ Becomes(c, [call[c] EXCEPT !.todo = @ \ {b}, !.excused = @ \cup {b}])
       \/ Error(c)
    /\ UNCHANGED <<store, budget>>

emitFromHit_Always(c) == TRUE

\* emitACClosureFromHit: only if the size of every leaf is known.
emitFromHit(c) == call[c].leaves \ {EmptyBlob} \subseteq call[c].sized

\* All blobs are there: emit the closure.  HTTP sends the result as it is stored.
Validated(c) ==
    /\ call[c].pc = "validate" /\ call[c].todo = {}
    /\ LET http == call[c].kind # "grpcGet" IN
       Becomes(c, [call[c] EXCEPT !.emitted = emitFromHit(c),
                                  !.pc = IF http THEN "returned" ELSE "inline",
                                  !.end = IF http THEN "ok" ELSE "none",
                                  !.rest = [i \in DOMAIN Slots(call[c].ar) |-> i]])
    /\ UNCHANGED <<store, budget>>

-----------------------------------------------------------------------------
(***************************************************************************)
(* maybeInline, for the slot whose turn it is.                             *)
(***************************************************************************)

Length(b) == IF b = NoBlob THEN 0 ELSE BlobSize[b]

inline_ContentsOnly(c, i) ==
    /\ i \in call[c].want
    /\ call[c].soFar + Length(call[c].slots[i].raw) <= MaxInline

\* Whether slot i is to be inlined: it was asked for and there is room.
inline(c, i) ==
    LET s == call[c].slots[i] IN
    /\ i \in call[c].want
    /\ call[c].soFar + Length(s.raw) <= MaxInline
    /\ call[c].soFar + Length(s.digest) <= MaxInline

\* The call goes on to the next slot, with s for this one and n more bytes inlined.
SlotDone(c, s, n) ==
    Becomes(c, [call[c] EXCEPT !.rest = Tail(@), !.soFar = @ + n,
                               !.slots[Head(call[c].rest)] = s])

\* The digest of inlined contents: the one given, or else their own.
DigestOf(s) == IF s.digest = NoBlob THEN s.raw ELSE s.digest

\* cache.Put of the contents of a slot under its digest, as n bytes.  It is refused
\* if they have another length or, when the cache compresses, another hash.
\* Nothing is stored, or looked at, for the blob of no bytes.
CasPut(s, n) ==
    IF DigestOf(s) = EmptyBlob /\ n = 0 THEN UNCHANGED local
    ELSE /\ n = Length(s.raw)
         /\ compressed => DigestOf(s) = s.raw
         /\ local' = local \cup {DigestOf(s)}

StripContents_NoPut(c) ==
    LET i == Head(call[c].rest)
        s == call[c].slots[i]
    IN
    /\ call[c].pc = "inline" /\ call[c].rest # <<>>
    /\ ~inline(c, i) /\ s.raw # NoBlob
    /\ SlotDone(c, [raw |-> NoBlob, digest |-> DigestOf(s)], 0)
    /\ UNCHANGED <<ac, local, remote, budget>>

\* Not to be inlined, but it is: make sure that the CAS has it, and strip it.
StripContents(c) ==
    LET i == Head(call[c].rest)
        s == call[c].slots[i]
    IN
    /\ call[c].pc = "inline" /\ call[c].rest # <<>>
    /\ ~inline(c, i) /\ s.raw # NoBlob
    /\ \/ /\ DigestOf(s) \in Present /\ UNCHANGED local
          /\ SlotDone(c, [raw |-> NoBlob, digest |-> DigestOf(s)], 0)
       \/ /\ DigestOf(s) \notin local /\ CasPut(s, Length(DigestOf(s)))
          /\ SlotDone(c, [raw |-> NoBlob, digest |-> DigestOf(s)], 0)
       \/ DigestOf(s) \notin local /\ Error(c) /\ UNCHANGED local
    /\ UNCHANGED <<ac, remote, budget>>

\* There is nothing to do, or nothing but to count what is inlined already.
KeepSlot(c) ==
    LET i == Head(call[c].rest)
        s == call[c].slots[i]
    IN
    /\ call[c].pc = "inline" /\ call[c].rest # <<>>
    /\ IF inline(c, i) THEN s.raw # NoBlob \/ Length(s.digest) = 0 ELSE s.raw = NoBlob
    /\ SlotDone(c, s, IF inline(c, i) THEN Length(s.raw) ELSE 0)
    /\ UNCHANGED <<store, budget>>

\* Read the blob into the result; if it has gone by now the call fails.
InlineBlob(c) ==
    LET i == Head(call[c].rest)
        s == call[c].slots[i]
    IN
    /\ call[c].pc = "inline" /\ call[c].rest # <<>>
    /\ inline(c, i) /\ s.raw = NoBlob /\ Length(s.digest) > 0
    /\ \/ /\ s.digest \in Present
          /\ local' = local \cup {s.digest}
          /\ SlotDone(c, [s EXCEPT !.raw = s.digest], Length(s.digest))
       \/ Error(c) /\ UNCHANGED local
    /\ UNCHANGED <<ac, remote, budget>>

Inlined(c) ==
    /\ call[c].pc = "inline" /\ call[c].rest = <<>>
    /\ Succeed(c)
    /\ UNCHANGED <<store, budget>>

-----------------------------------------------------------------------------
(***************************************************************************)
(* UpdateActionResult, and PUT of an action result.                        *)
(***************************************************************************)

\* Put observes a result that is not too large if the budget allows.
Captured(ar) == ar.size <= MaxCapture /\ budget + ar.size <= Budget

\* Files first, then stdout and stderr: the order in which contents go to the CAS.
StoreOrder(ar) == [i \in DOMAIN ar.files |-> i + 2] \o <<1, 2>>

\* Put starts to store the result, if it is a valid one.
StartStore(c, ar) ==
    /\ validateActionResult(ar)
    /\ Becomes(c, [call[c] EXCEPT !.pc = "putAC", !.ar = ar, !.holds = Captured(ar)])
    /\ budget' = budget + IF Captured(ar) THEN ar.size ELSE 0

StartUpdate(c, ar) ==
    /\ call[c].pc = "start" /\ call[c].kind = "grpcUpdate"
    /\ \/ StartStore(c, ar)
       \/ ~validateActionResult(ar) /\ Error(c) /\ UNCHANGED budget
    /\ UNCHANGED store

\* PUT of a result: refused also for its headers, its encoding, or a body that
\* cannot be read or has another length.
StartHttpPut(c, ar) ==
    /\ call[c].pc = "start" /\ call[c].kind = "httpPut"
    /\ \/ StartStore(c, ar)
       \/ Error(c) /\ UNCHANGED budget
    /\ UNCHANGED store

\* What Put gives back when it returns.
Held(c) == IF call[c].holds THEN call[c].ar.size ELSE 0

PutACFails_NoRelease(c) ==
    /\ call[c].pc = "putAC"
    /\ Error(c)
    /\ UNCHANGED <<store, budget>>

PutACFails(c) ==
    /\ call[c].pc = "putAC"
    /\ Error(c)
    /\ budget' = budget - Held(c)
    /\ UNCHANGED store

\* Put has returned, with its closure emitted or not: HTTP is done, gRPC goes on
\* with the contents of the result.
PutDone(c, emitted) ==
    /\ Becomes(c, [call[c] EXCEPT
          !.pc = IF call[c].kind = "httpPut" THEN "returned" ELSE "putCAS",
          !.end = IF call[c].kind = "httpPut" THEN "ok" ELSE "none",
          !.rest = IF call[c].kind = "httpPut" THEN <<>> ELSE StoreOrder(call[c].ar),
          !.emitted = emitted, !.holds = FALSE])
    /\ budget' = budget - Held(c)

\* emitACClosureFromWrite leaves a result with directories or with contents to
\* the next hit.
emitFromWrite(ar) == ar.dirs = {} /\ Contents(ar) = {}

\* Put commits the result, and observes it.
PutAC(c) ==
    LET ar == call[c].ar IN
    /\ call[c].pc = "putAC"
    /\ ac' = ar
    /\ IF call[c].holds /\ emitFromWrite(ar)
       THEN /\ Becomes(c, [call[c] EXCEPT !.pc = "emit", !.todo = Pending(ar),
                                          !.leaves = Pending(ar)])
            /\ UNCHANGED budget
       ELSE PutDone(c, FALSE)
    /\ UNCHANGED <<local, remote>>

\* lookupSizeOnDisk of a leaf; without it there is no closure.
LookupLeaf(c, b) ==
    /\ call[c].pc = "emit" /\ b \in call[c].todo
    /\ IF b \in local \cup {EmptyBlob}
       THEN Found(c, b, {}) /\ UNCHANGED budget
       ELSE PutDone(c, FALSE)
    /\ UNCHANGED store

EmitFromWrite(c) ==
    /\ call[c].pc = "emit" /\ call[c].todo = {}
    /\ PutDone(c, TRUE)
    /\ UNCHANGED store

\* The call goes on to the next slot or request, and has confirmed some blobs,
\* some of them wrongly.
Confirm(c, acked, excused) ==
    Becomes(c, [call[c] EXCEPT !.rest = Tail(@), !.acked = @ \cup acked,
                               !.excused = @ \cup excused])

PutContents_IgnoresError(c) ==
    /\ call[c].pc = "putCAS" /\ call[c].kind = "grpcUpdate" /\ call[c].rest # <<>>
    /\ LET s == Slots(call[c].ar)[Head(call[c].rest)] IN
       /\ CasPut(s, Length(DigestOf(s))) \/ UNCHANGED local
       /\ Confirm(c, IF s.raw = NoBlob THEN {} ELSE {DigestOf(s)}, {})
    /\ UNCHANGED <<ac, remote, budget>>

\* The contents of a slot, if it has any, go to the CAS.  A failure ends the
\* call, although the action result is stored.
PutContents(c) ==
    /\ call[c].pc = "putCAS" /\ call[c].kind = "grpcUpdate" /\ call[c].rest # <<>>
    /\ LET s == Slots(call[c].ar)[Head(call[c].rest)] IN
       \/ s.raw = NoBlob /\ Confirm(c, {}, {}) /\ UNCHANGED local
       \/ /\ s.raw # NoBlob /\ CasPut(s, Length(DigestOf(s)))
          /\ Confirm(c, {DigestOf(s)}, {})
       \/ s.raw # NoBlob /\ Error(c) /\ UNCHANGED local
    /\ UNCHANGED <<ac, remote, budget>>

UpdateDone(c) ==
    /\ call[c].pc = "putCAS" /\ call[c].rest = <<>>
    /\ Succeed(c)
    /\ UNCHANGED <<store, budget>>

-----------------------------------------------------------------------------
(***************************************************************************)
(* BatchUpdateBlobs: the files of a result stand for the requests of a     *)
(* batch, each with data and a digest.                                     *)
(***************************************************************************)

StartBatch(c, ar) ==
    /\ call[c].pc = "start" /\ call[c].kind = "batch"
    /\ Becomes(c, [call[c] EXCEPT !.pc = "putCAS", !.ar = ar,
                                  !.rest = [i \in DOMAIN ar.files |-> i + 2]])
    /\ UNCHANGED <<store, budget>>

\* One request of the batch: a bad digest ends the call, a failure goes into the
\* response and the next request is looked at.  A compressor that is not known
\* gets the status of an error that is nil, which is OK.  Put is told the length of
\* the data, not the size that the digest gives.
BatchNext(c) ==
    /\ call[c].pc = "putCAS" /\ call[c].kind = "batch" /\ call[c].rest # <<>>
    /\ LET s == Slots(call[c].ar)[Head(call[c].rest)] IN
       \/ s.digest = NoBlob /\ Error(c) /\ UNCHANGED local
       \/ s.digest # NoBlob /\ Confirm(c, {}, {}) /\ UNCHANGED local
       \/ s.digest # NoBlob /\ Confirm(c, {s.digest}, {s.digest}) /\ UNCHANGED local
       \/ /\ s.digest # NoBlob
          /\ CasPut(s, Length(s.raw)) /\ Confirm(c, {s.digest}, {})
    /\ UNCHANGED <<ac, remote, budget>>

-----------------------------------------------------------------------------

\* Other requests and evictions.
BlobComesOrGoes(b) ==
    /\ \/ local' = local \ {b} /\ b \in local /\ UNCHANGED remote
       \/ local' = local \cup {b} /\ b \notin local /\ UNCHANGED remote
       \/ /\ HasProxy /\ b \in Backed /\ UNCHANGED local
          /\ remote' = IF b \in remote THEN remote \ {b} ELSE remote \cup {b}
    /\ UNCHANGED <<ac, budget, call>>

ResultGoes ==
    /\ ac # NoResult
    /\ ac' = NoResult
    /\ UNCHANGED <<local, remote, budget, call>>

Step(c) ==
    \/ StartGet(c) \/ TreesRead(c) \/ Validated(c)
    \/ \E b \in call[c].todo : ReadTree(c, b) \/ Validate(c, b) \/ LookupLeaf(c, b)
    \/ StripContents(c) \/ KeepSlot(c) \/ InlineBlob(c) \/ Inlined(c)
    \/ \E ar \in Result : StartUpdate(c, ar) \/ StartHttpPut(c, ar) \/ StartBatch(c, ar)
    \/ PutAC(c) \/ PutACFails(c) \/ EmitFromWrite(c) \/ PutContents(c)
    \/ BatchNext(c) \/ UpdateDone(c)

\* What each call could have seen: every blob there is while it is active, and
\* whether the action result it works on is the stored one.
Witness ==
    /\ seen' = [c \in Call |->
               CASE call'[c].end \in {"error", "notfound"} \/ call'[c].pc = "start" -> {}
                 [] call[c].end = "ok" -> seen[c]
                 [] OTHER -> seen[c] \cup Present \cup Present']
    /\ stored' = {c \in Call : /\ call'[c].ar # NoResult
                               /\ \/ c \in stored
                                  \/ call[c].end # "ok" /\ ac' = call'[c].ar}

AllReturned == \A c \in Call : call[c].pc = "returned"

Next ==
    \/ /\ \/ \E c \in Call : Step(c)
          \/ \E b \in Lossy : BlobComesOrGoes(b)
          \/ ResultGoes
       /\ ~AllReturned
       /\ UNCHANGED compressed
       /\ Witness
    \/ AllReturned /\ UNCHANGED vars

Spec == Init /\ [][Next]_vars

-----------------------------------------------------------------------------
(***************************************************************************)
(* Properties.                                                             *)
(***************************************************************************)

\* The blobs of an answer that are given by their digest only.
ByDigest(slots) ==
    {slots[i].digest : i \in DOMAIN slots \ Filled(slots)} \ {NoBlob}

\* A client that gets a result with checked dependencies does not get a pointer to
\* a blob that was not there: every blob named without its contents, every tree
\* and every file below it existed at some moment of the call, also the contents
\* that maybeInline moved out of the result.  Except for what the race in a
\* fail-fast search lets through (FailFastComplete of FindMissing).
HitIsComplete ==
    \A c \in Call :
        call[c].kind \in Get \ {"nodepsGet"} /\ call[c].end = "ok" =>
            LET ar == call[c].ar IN
            ByDigest(call[c].slots) \cup ar.dirs \cup TreeBlobs(ar)
              \subseteq seen[c] \cup call[c].excused

\* The bytes of the contents in each slot.
Bytes(slots) == [i \in DOMAIN slots |-> Length(slots[i].raw)]

\* What GetActionResult inlines stays below maxInlineSize, counting both what it
\* reads and what was in the stored result, so that the answer fits into a gRPC
\* message; and it leaves no contents in the result that were not asked for.
InlineBounded ==
    \A c \in Call :
        call[c].kind = "grpcGet" /\ call[c].end = "ok" =>
            /\ Filled(call[c].slots) \subseteq call[c].want
            /\ SumOver(Bytes(call[c].slots), DOMAIN call[c].slots) <= MaxInline

\* The blobs that a result names, and those of its files whose contents it has.
Named(ar) ==
    ({Slots(ar)[i].digest : i \in DOMAIN Slots(ar)} \ {NoBlob})
      \cup ar.dirs \cup TreeBlobs(ar)
InlinedFiles(ar) ==
    {ar.files[i].digest : i \in {j \in DOMAIN ar.files : ar.files[j].raw # NoBlob}}

\* An emitted closure is real and complete but for output files whose contents are in
\* the result: it has every other blob that the result names, and each of its blobs
\* existed during the call.  ("Producers emit a closure only when every leaf size is
\* resolved (complete-or-drop)"; GetValidatedActionResult leaves the inlined files
\* out of the leaves, although the closure is said to have the output files, and
\* although their blobs are in the CAS once UpdateActionResult has ended.)
ClosureIsComplete ==
    \A c \in Call :
        call[c].emitted =>
            /\ Named(call[c].ar) \ InlinedFiles(call[c].ar) \subseteq call[c].leaves
            /\ call[c].leaves \subseteq seen[c]

\* The capture budget in use is what the Puts under way have taken, on every way
\* out of Put, and never more than there is.
BudgetAccounted ==
    /\ budget = SumOver([c \in Call |-> Held(c)], Call)
    /\ budget <= Budget

\* Digest d of result ar has contents, which are the blob's if the cache looks: that
\* is, if it compresses, and not for the blob of no bytes.
Delivers(ar, d) ==
    \E i \in DOMAIN Slots(ar) :
        /\ DigestOf(Slots(ar)[i]) = d
        /\ compressed /\ d # EmptyBlob => Slots(ar)[i].raw = d

\* An action result whose upload is confirmed was the stored one at some moment of
\* the call.  A blob whose upload is confirmed, as the contents of an action result
\* or in a batch, was in the cache during the call, and was sent with the right
\* contents; and none of the contents of an action result is forgotten.  Except for
\* a blob sent in a batch with an unknown compressor; and when the cache does not
\* compress, other contents may be stored under the digest.
AckedIsStored ==
    \A c \in Call :
        call[c].kind \in Update /\ call[c].end = "ok" =>
            /\ call[c].kind # "batch" => c \in stored
            /\ \A d \in call[c].acked \ call[c].excused :
                  d \in seen[c] /\ Delivers(call[c].ar, d)
            /\ call[c].kind = "grpcUpdate" =>
                  {DigestOf(Slots(call[c].ar)[i]) : i \in Contents(call[c].ar)}
                    \subseteq call[c].acked
=============================================================================
