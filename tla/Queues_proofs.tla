--------------------------- MODULE Queues_proofs ----------------------------
(***************************************************************************)
(* The two bounded queues that goroutines of the server drain: the lookups *)
(* of FindMissingBlobs, for any number of calls, digests, batch sizes and  *)
(* slots of the semaphore; and the uploads to the proxy backend with the   *)
(* reads from it, for any number of requests, readers and workers, any     *)
(* length of the queue and each kind of proxy.                             *)
(***************************************************************************)
EXTENDS FindMissing, UploadQueue, FiniteSetTheorems, WellFoundedInduction, TLAPS

(***************************************************************************)
(* What a search for missing blobs promises (FindMissing).                 *)
(***************************************************************************)

CallType ==
    [pc : {"loop", "dispatch", "wait", "returned"}, next : Nat \ {0}, at : Nat \ {0},
     blobs : SUBSET Pos, ctxDone : BOOLEAN, cancelledDueToFailFast : BOOLEAN,
     clientGone : BOOLEAN,
     result : {"none", "nil", "errMissingBlob", "errRequestCancelled"}]

Types ==
    /\ call \in [Call -> CallType]
    /\ check \in [Call -> [Pos -> {"none", "new", "asking", "cancel", "finish",
                                   "leaving", "gone"}]]
    /\ held \in Int
    /\ local \subseteq Pos
    /\ remote \subseteq Pos \ (local \cup Oversize)

\* How far a call has come: the positions below have been looked up and, where
\* that is needed, a goroutine has been started for them.
Reached(q) == IF q.pc = "dispatch" THEN q.at ELSE q.next

\* Where the loops are.
Loops ==
    \A c \in Call :
        /\ call[c].pc = "returned" <=> call[c].result # "none"
        /\ call[c].pc = "wait" => call[c].next > N
        /\ call[c].pc = "dispatch" => HasProxy /\ call[c].at <= call[c].next

\* A goroutine is started at most once for a position, and only for one that the
\* index does not have and the backend may have.
Started ==
    \A c \in Call, i \in Pos :
        /\ call[c].pc # "returned" /\ i >= Reached(call[c]) => check[c][i] = "none"
        /\ check[c][i] # "none" => HasProxy /\ i \notin local

\* Nothing that is missing is struck out, and all that the index has is, as far
\* as the lookups have come.
Struck ==
    \A c \in Call :
        /\ Nowhere \subseteq call[c].blobs
        /\ call[c].pc # "returned" =>
              \A i \in call[c].blobs : i < call[c].next => i \notin local

\* Each blob of the backend that is not struck out yet has its goroutine under
\* way, unless the search is cut short.
UnderWay ==
    \A c \in Call \ FailFast :
        ~call[c].clientGone =>
            /\ ~call[c].ctxDone
            /\ HasProxy /\ call[c].pc # "returned" =>
                  \A i \in call[c].blobs \cap remote :
                      i < Reached(call[c]) => check[c][i] \in {"new", "asking"}

\* Why a context is done.  After the return the deferred cancel adds to it.
Reasons ==
    \A c \in Call :
        /\ call[c].pc # "returned" =>
              /\ call[c].cancelledDueToFailFast => Nowhere # {} \/ call[c].clientGone
              /\ call[c].ctxDone => call[c].cancelledDueToFailFast \/ call[c].clientGone
        /\ \A i \in Pos : check[c][i] = "cancel" =>
                          c \in FailFast /\ call[c].cancelledDueToFailFast

Inv == Types /\ Loops /\ Started /\ Struck /\ UnderWay /\ Reasons
         /\ SliceIsStable /\ ErrorsAreTrue /\ MissingExact

-----------------------------------------------------------------------------

\* A set of positions that is not empty has a least one, where the loop goes on.
LEMMA LeastPosition ==
    ASSUME NEW S \in SUBSET Nat, S # {}
    PROVE  Min(S) \in S /\ \A y \in S : Min(S) <= y
<1>1. \E n \in S : \A m \in S : ~(<<m, n>> \in OpToRel(<, Nat))
  BY NatLessThanWellFounded, WFMin, Zenon
<1>2. PICK n \in S : \A m \in S : ~(<<m, n>> \in OpToRel(<, Nat))
  BY <1>1
<1>3. ASSUME NEW m \in S PROVE n <= m
  <2>1. ~(<<m, n>> \in {ss \in Nat \X Nat : ss[1] < ss[2]})
    BY <1>2, Zenon DEF OpToRel
  <2> QED
    BY <2>1
<1> QED
  BY <1>3 DEF Min

\* The batch at the start of remaining, the last one perhaps shorter.
LEMMA ChunkIs ==
    ASSUME NEW q \in CallType
    PROVE  Chunk(q) = {i \in Pos : q.next <= i /\ i < q.next + BatchSize}
<1> DEFINE a == q.next + BatchSize - 1
<1>1. q.next \in Nat \ {0} /\ a \in Nat /\ N \in Nat /\ BatchSize \in Nat \ {0}
  BY FindAssumption DEF CallType
<1> HIDE DEF a
<1>2. Min({a, N}) \in {a, N} /\ \A y \in {a, N} : Min({a, N}) <= y
  BY <1>1, LeastPosition
<1>3. Chunk(q) = q.next .. Min({a, N})
  BY DEF Chunk, a
<1> QED
  BY <1>1, <1>2, <1>3 DEF Pos, a

\* The next digest of a chunk that is not nil.
LEMMA NextTodo ==
    ASSUME NEW q \in CallType, Todo(q) # {}
    PROVE  /\ Min(Todo(q)) \in q.blobs /\ Min(Todo(q)) \in Pos
           /\ q.at <= Min(Todo(q)) /\ Min(Todo(q)) < q.next
           /\ \A j \in q.blobs : q.at <= j /\ j < q.next => Min(Todo(q)) <= j
<1>1. Todo(q) \in SUBSET Nat
  BY FindAssumption DEF CallType, Todo, Pos
<1>2. Min(Todo(q)) \in Todo(q) /\ \A y \in Todo(q) : Min(Todo(q)) <= y
  BY <1>1, LeastPosition
<1> QED
  BY <1>2 DEF Todo, CallType

\* The calls start with nothing looked up.
LEMMA InitInv == Init => Inv
<1> SUFFICES ASSUME Init PROVE Inv
  OBVIOUS
<1>1. Types
  BY FindAssumption DEF Init, NewCall, Types, CallType
<1>2. Loops /\ Started /\ Struck /\ UnderWay /\ Reasons
  BY FindAssumption DEF Init, NewCall, Loops, Started, Struck, UnderWay, Reasons, Nowhere, Reached, Pos
<1>3. SliceIsStable /\ ErrorsAreTrue /\ MissingExact
  BY DEF Init, NewCall, SliceIsStable, ErrorsAreTrue, MissingExact
<1> QED BY <1>1, <1>2, <1>3 DEF Inv

\* The record of a call that returns.
LEMMA ReturnedType ==
    ASSUME NEW q \in CallType, NEW n \in Nat \ {0}, NEW done \in BOOLEAN,
           NEW result \in {"nil", "errMissingBlob", "errRequestCancelled"}
    PROVE  [q EXCEPT !.pc = "returned", !.result = result, !.next = n, !.at = n,
                     !.ctxDone = done] \in CallType
BY Zenon DEF CallType

\* A return with a true result is a return in order.
LEMMA ReturnKeeps ==
    ASSUME Inv, NEW c \in Call, call[c].pc # "returned",
           NEW result \in {"nil", "errMissingBlob", "errRequestCancelled"},
           Return(c, result), UNCHANGED <<check, held, local, remote>>,
           result = "nil" =>
               call[c].pc # "dispatch" /\ call[c].next > N /\ Working(c) = {},
           result = "errMissingBlob" => Nowhere # {} \/ call[c].clientGone,
           result = "errRequestCancelled" => call[c].clientGone
    PROVE  Inv'
<1> USE FindAssumption DEF Inv
<1> DEFINE done == call[c].ctxDone \/ (c \in FailFast /\ HasProxy)
<1>0. done \in BOOLEAN /\ (c \notin FailFast => done = call[c].ctxDone)
  <2>1. call[c].ctxDone \in BOOLEAN
    BY DEF Types, CallType
  <2> QED BY <2>1, Zenon
<1>1. call' = [call EXCEPT ![c] = [call[c] EXCEPT
                 !.pc = "returned", !.result = result, !.next = 1, !.at = 1,
                 !.ctxDone = done]]
  BY DEF Return, Types, CallType
<1> HIDE DEF done
<1>2. Types'
  <2>1. call[c] \in CallType /\ 1 \in Nat \ {0}
    BY DEF Types
  <2>2. [call[c] EXCEPT !.pc = "returned", !.result = result, !.next = 1, !.at = 1,
                        !.ctxDone = done] \in CallType
    BY <1>0, <2>1, ReturnedType
  <2> QED BY <1>1, <2>2 DEF Types
<1>3. Loops' /\ Started' /\ Struck'
  BY <1>1, <1>2 DEF Types, CallType, Loops, Started, Struck, Reached, Nowhere
<1>4. UnderWay' /\ Reasons'
  BY <1>0, <1>1, <1>2 DEF Types, CallType, UnderWay, Reasons, Reached, Nowhere
<1>5. SliceIsStable' /\ ErrorsAreTrue'
  BY <1>1, <1>2 DEF Types, CallType, SliceIsStable, ErrorsAreTrue, Working, Nowhere
<1>6. MissingExact'
  <2> SUFFICES ASSUME NEW d \in Call \ FailFast, (call[d].result = "nil")', (~call[d].clientGone)'
               PROVE  (call[d].blobs = Nowhere)'
    BY DEF MissingExact
  <2>1. CASE d # c
    BY <1>1, <2>1 DEF Types, CallType, MissingExact, Nowhere
  <2>2. CASE d = c
    <3>1. call'[c].blobs = call[c].blobs /\ result = "nil" /\ ~call[c].clientGone
      BY <1>1, <2>2 DEF Types, CallType
    <3>2. \A i \in call[c].blobs : i \in Pos /\ i < call[c].next /\ i \notin local
      BY <3>1 DEF Types, CallType, Struck, Pos
    <3>3. HasProxy => \A i \in call[c].blobs : i \notin remote
      <4> SUFFICES ASSUME HasProxy, NEW i \in call[c].blobs, i \in remote PROVE FALSE
        OBVIOUS
      <4>1. i \in Pos /\ check[c][i] \notin {"new", "asking"}
        BY <3>1, <3>2 DEF Working
      <4>2. i >= Reached(call[c])
        BY <2>2, <3>1, <4>1 DEF UnderWay, Types, CallType, Reached, Pos
      <4>3. call[c].pc = "dispatch"
        BY <3>1, <3>2, <4>2 DEF Types, CallType, Reached, Pos
      <4> QED BY <3>1, <4>3
    <3> QED BY <3>1, <3>2, <3>3, <2>2 DEF Nowhere, Struck
  <2> QED BY <2>1, <2>2
<1> QED BY <1>2, <1>3, <1>4, <1>5, <1>6

\* The error when the context is found to be done is the true one.
LEMMA CancelledKeeps ==
    ASSUME Inv, NEW c \in Call, call[c].pc # "returned", call[c].ctxDone,
           Return(c, Cancelled(c)), UNCHANGED <<check, held, local, remote>>
    PROVE  Inv'
<1>1. Cancelled(c) \in {"errMissingBlob", "errRequestCancelled"}
  BY DEF Cancelled
<1>2. Cancelled(c) = "errMissingBlob" => Nowhere # {} \/ call[c].clientGone
  BY DEF Cancelled, Inv, Reasons
<1>3. Cancelled(c) = "errRequestCancelled" => call[c].clientGone
  BY DEF Cancelled, Inv, Reasons
<1> QED BY <1>1, <1>2, <1>3, ReturnKeeps

\* A batch is looked up.
LEMMA NextBatchKeeps ==
    ASSUME Inv, NEW c \in Call, NextBatch(c)
    PROVE  Inv'
<1> DEFINE q == call[c]
           missing == findMissingLocalCAS(Chunk(q))
           blobs == q.blobs \ (Chunk(q) \ missing)
           looked == [q EXCEPT !.blobs = blobs, !.at = q.next, !.next = q.next + BatchSize]
           new == IF missing # {} /\ HasProxy THEN [looked EXCEPT !.pc = "dispatch"]
                                              ELSE looked
<1> USE FindAssumption
<1>1. q \in CallType /\ q.pc = "loop" /\ q.next <= N
  BY DEF NextBatch, Inv, Types
<1>2. Chunk(q) = {i \in Pos : q.next <= i /\ i < q.next + BatchSize}
  BY <1>1, ChunkIs
<1>3. missing = Chunk(q) \ local
  BY DEF findMissingLocalCAS
<1>4. CASE q.ctxDone
  BY <1>1, <1>4, CancelledKeeps DEF NextBatch
<1>5. CASE ~q.ctxDone /\ missing # {} /\ ~HasProxy /\ c \in FailFast
  <2>1. Return(c, "errMissingBlob") /\ UNCHANGED <<check, held, local, remote>>
    BY <1>5 DEF NextBatch
  <2>2. Nowhere # {}
    BY <1>2, <1>3, <1>5 DEF Nowhere
  <2> QED BY <1>1, <2>1, <2>2, ReturnKeeps
<1>6. CASE ~q.ctxDone /\ ~(missing # {} /\ ~HasProxy /\ c \in FailFast)
  <2>1. call' = [call EXCEPT ![c] = new] /\ UNCHANGED <<check, held, local, remote>>
    BY <1>6 DEF NextBatch
  <2>2. /\ q.next \in Nat \ {0} /\ q.next + BatchSize \in Nat \ {0}
        /\ blobs \in SUBSET Pos
    BY <1>1 DEF CallType
  <2>3. /\ new \in CallType
        /\ new.pc = (IF missing # {} /\ HasProxy THEN "dispatch" ELSE "loop")
        /\ new.next = q.next + BatchSize /\ new.at = q.next /\ new.blobs = blobs
        /\ new.ctxDone = q.ctxDone /\ new.clientGone = q.clientGone
        /\ new.cancelledDueToFailFast = q.cancelledDueToFailFast
        /\ new.result = q.result
    <3> HIDE DEF q, missing, blobs
    <3>1. \A n \in Nat \ {0}, m \in Nat \ {0} :
             /\ [q EXCEPT !.blobs = blobs, !.at = n, !.next = m] \in CallType
             /\ [q EXCEPT !.blobs = blobs, !.at = n, !.next = m, !.pc = "dispatch"]
                  \in CallType
      BY <1>1, <2>2, Zenon DEF CallType
    <3>2. new \in CallType
      BY <2>2, <3>1
    <3> QED BY <1>1, <3>2 DEF CallType
  <2> HIDE DEF new
  <2>4. /\ call'[c] = new
        /\ \A d \in Call : d # c => call'[d] = call[d]
        /\ call' \in [Call -> CallType]
    BY <2>1, <2>3 DEF Inv, Types
  <2>5. \A i \in Pos : i \in blobs <=> i \in q.blobs /\ ~(i \in Chunk(q) /\ i \in local)
    BY <1>3, <2>2
  <2>6. Types'
    BY <2>1, <2>4 DEF Inv, Types
  <2> HIDE DEF blobs, missing
  <2>7. Loops'
    BY <1>1, <2>2, <2>3, <2>4 DEF Inv, Loops, Types
  <2>8. Started'
    BY <1>1, <2>1, <2>2, <2>3, <2>4, <2>6 DEF Inv, Started, Types, Reached, CallType, Pos
  <2>9. Struck'
    BY <1>1, <1>2, <2>1, <2>2, <2>3, <2>4, <2>5 DEF Inv, Struck, Types, Nowhere, CallType, Pos
  <2>10. UnderWay'
    <3> SUFFICES ASSUME NEW d \in Call \ FailFast, ~call'[d].clientGone
                 PROVE  /\ ~call'[d].ctxDone
                        /\ HasProxy /\ call'[d].pc # "returned" =>
                              \A i \in call'[d].blobs \cap remote' :
                                  i < Reached(call'[d]) => check'[d][i] \in {"new", "asking"}
      BY DEF UnderWay
    <3>1. CASE d # c
      BY <2>1, <2>4, <3>1 DEF Inv, UnderWay
    <3>2. CASE d = c
      <4>1. /\ ~q.clientGone /\ ~q.ctxDone
            /\ HasProxy => \A i \in q.blobs \cap remote : i < q.next => check[c][i] \in {"new", "asking"}
        BY <1>1, <2>3, <2>4, <3>2 DEF Inv, UnderWay, Reached
      <4>2. ASSUME HasProxy, NEW i \in blobs \cap remote, i < Reached(new) PROVE i < q.next
        <5>1. i \in Pos /\ i \in q.blobs /\ i \notin local
          BY <2>2, <2>5 DEF Inv, Types
        <5>2. i \in Chunk(q) => missing # {}
          BY <1>3, <5>1
        <5> QED
          BY <1>1, <1>2, <2>2, <2>3, <4>2, <5>1, <5>2 DEF Reached, Pos
      <4>3. ASSUME HasProxy, NEW i \in new.blobs \cap remote, i < Reached(new)
            PROVE  check[c][i] \in {"new", "asking"}
        <5>1. i \in blobs \cap remote /\ i \in q.blobs \cap remote
          BY <2>2, <2>3, <2>5, <4>3 DEF Inv, Types
        <5> QED BY <4>1, <4>2, <4>3, <5>1
      <4>4. ~new.ctxDone /\ call'[d] = new /\ check' = check /\ remote' = remote
        BY <2>1, <2>3, <2>4, <3>2, <4>1
      <4> HIDE DEF q
      <4> QED BY <3>2, <4>3, <4>4
    <3> QED BY <3>1, <3>2
  <2>11. Reasons'
    BY <1>1, <2>1, <2>3, <2>4 DEF Inv, Reasons, Nowhere
  <2>12. SliceIsStable' /\ ErrorsAreTrue' /\ MissingExact'
    <3>1. Nowhere' = Nowhere
      BY <1>1, <2>1, <2>3, <2>4 DEF Nowhere
    <3>2. SliceIsStable'
      BY <1>1, <2>1, <2>3, <2>4
         DEF Inv, Loops, SliceIsStable, Working
    <3>3. ErrorsAreTrue'
      BY <1>1, <2>1, <2>3, <2>4, <3>1
         DEF Inv, Loops, ErrorsAreTrue
    <3>4. MissingExact'
      BY <1>1, <2>1, <2>3, <2>4, <3>1
         DEF Inv, Loops, MissingExact
    <3> QED BY <3>2, <3>3, <3>4
  <2> QED BY <2>6, <2>7, <2>8, <2>9, <2>10, <2>11, <2>12 DEF Inv
<1> QED BY <1>4, <1>5, <1>6

\* The record of a call in a loop whose position changes.
LEMMA MovedType ==
    ASSUME NEW q \in CallType, NEW n \in Nat \ {0},
           NEW pc \in {"loop", "wait"}
    PROVE  [q EXCEPT !.at = n] \in CallType /\ [q EXCEPT !.pc = pc] \in CallType
BY Zenon DEF CallType

\* After the last batch.
LEMMA BatchesDoneKeeps ==
    ASSUME Inv, NEW c \in Call, BatchesDone(c)
    PROVE  Inv'
<1> USE FindAssumption
<1>0. /\ call[c] \in CallType /\ call[c].pc = "loop" /\ call[c].next > N
      /\ UNCHANGED <<check, held, local, remote>>
  BY DEF BatchesDone, Inv, Types
<1>1. CASE ~HasProxy
  <2>1. Return(c, "nil")
    BY <1>1 DEF BatchesDone
  <2>2. Working(c) = {}
    BY <1>1 DEF Working, Inv, Started
  <2> QED BY <1>0, <2>1, <2>2, ReturnKeeps
<1>2. CASE HasProxy
  <2>1. call' = [call EXCEPT ![c] = [call[c] EXCEPT !.pc = "wait"]]
    BY <1>2 DEF BatchesDone, Inv, Types
  <2>2. [call[c] EXCEPT !.pc = "wait"] \in CallType
    BY <1>0, MovedType
  <2>3. Types'
    BY <1>0, <2>1, <2>2 DEF Inv, Types
  <2>4. Loops' /\ Started' /\ Struck'
    BY <1>0, <2>1 DEF Inv, Types, CallType, Loops, Started, Struck, Reached, Nowhere
  <2>5. UnderWay' /\ Reasons'
    BY <1>0, <2>1 DEF Inv, Types, CallType, UnderWay, Reasons, Reached, Nowhere
  <2>6. SliceIsStable' /\ ErrorsAreTrue' /\ MissingExact'
    <3>1. Nowhere' = Nowhere
      BY <1>0, <2>1 DEF Nowhere
    <3>2. SliceIsStable'
      BY <1>0, <2>1
         DEF Inv, Types, CallType, Loops, SliceIsStable, Working
    <3>3. ErrorsAreTrue'
      BY <1>0, <2>1, <3>1
         DEF Inv, Types, CallType, Loops, ErrorsAreTrue
    <3>4. MissingExact'
      BY <1>0, <2>1, <3>1
         DEF Inv, Types, CallType, Loops, MissingExact
    <3> QED BY <3>2, <3>3, <3>4
  <2> QED BY <2>3, <2>4, <2>5, <2>6 DEF Inv
<1> QED BY <1>1, <1>2

\* The end of the loop over a chunk.
LEMMA ChunkDoneKeeps ==
    ASSUME Inv, NEW c \in Call, ChunkDone(c)
    PROVE  Inv'
<1> USE FindAssumption
<1>1. /\ call[c] \in CallType /\ call[c].pc = "dispatch" /\ Todo(call[c]) = {}
      /\ call' = [call EXCEPT ![c] = [call[c] EXCEPT !.pc = "loop"]]
      /\ UNCHANGED <<check, held, local, remote>>
  BY DEF ChunkDone, Inv, Types
<1>2. [call[c] EXCEPT !.pc = "loop"] \in CallType
  BY <1>1, MovedType
<1>3. Types'
  BY <1>1, <1>2 DEF Inv, Types
<1>4. Loops' /\ Started' /\ Struck'
  BY <1>1 DEF Inv, Types, CallType, Loops, Started, Struck, Reached, Nowhere, Pos
<1>5. UnderWay' /\ Reasons'
  BY <1>1 DEF Inv, Types, CallType, UnderWay, Reasons, Reached, Nowhere, Todo, Pos
<1>6. SliceIsStable' /\ ErrorsAreTrue' /\ MissingExact'
  <2>1. Nowhere' = Nowhere
    BY <1>1 DEF Nowhere
  <2>2. SliceIsStable'
    BY <1>1
       DEF Inv, Types, CallType, Loops, SliceIsStable, Working
  <2>3. ErrorsAreTrue'
    BY <1>1, <2>1
       DEF Inv, Types, CallType, Loops, ErrorsAreTrue
  <2>4. MissingExact'
    BY <1>1, <2>1
       DEF Inv, Types, CallType, Loops, MissingExact
  <2> QED BY <2>2, <2>3, <2>4
<1> QED BY <1>3, <1>4, <1>5, <1>6 DEF Inv

\* The last select.
LEMMA WaitKeeps ==
    ASSUME Inv, NEW c \in Call, Wait(c)
    PROVE  Inv'
<1>0. call[c].pc = "wait" /\ UNCHANGED <<check, held, local, remote>>
  BY DEF Wait
<1>1. CASE call[c].ctxDone /\ Return(c, Cancelled(c))
  BY <1>0, <1>1, CancelledKeeps
<1>2. CASE Working(c) = {} /\ Return(c, "nil")
  <2>1. call[c].next > N
    BY <1>0 DEF Inv, Loops
  <2> QED BY <1>0, <1>2, <2>1, ReturnKeeps
<1> QED BY <1>1, <1>2 DEF Wait

\* A digest of a chunk is skipped, or a goroutine started for it.
LEMMA DispatchKeeps ==
    ASSUME Inv, NEW c \in Call, Dispatch(c)
    PROVE  Inv'
<1> USE FindAssumption
<1> DEFINE q == call[c]
           i == Min(Todo(q))
           started == i \notin Oversize
<1>0. /\ q \in CallType /\ q.pc = "dispatch" /\ Todo(q) # {}
      /\ UNCHANGED <<local, remote>>
  BY DEF Dispatch, Inv, Types
<1>1. /\ i \in q.blobs /\ i \in Pos /\ q.at <= i /\ i < q.next
      /\ \A j \in q.blobs : q.at <= j /\ j < q.next => i <= j
  BY <1>0, NextTodo
<1>2. i \notin local /\ HasProxy /\ check[c][i] = "none"
  BY <1>0, <1>1 DEF Inv, Struck, Started, Loops, Reached, CallType, Pos
<1>3. CASE i \in Oversize /\ c \in FailFast
  <2>1. Return(c, "errMissingBlob") /\ UNCHANGED <<check, held>>
    BY <1>3 DEF Dispatch
  <2>2. i \in Nowhere
    BY <1>1, <1>2, <1>3 DEF Nowhere, Inv, Types
  <2> QED BY <1>0, <2>1, <2>2, ReturnKeeps
<1>4. CASE i \notin Oversize /\ q.ctxDone
  <2>1. Return(c, Cancelled(c)) /\ UNCHANGED <<check, held>>
    BY <1>4 DEF Dispatch
  <2> QED BY <1>0, <1>4, <2>1, CancelledKeeps
<1>5. CASE (i \in Oversize /\ c \notin FailFast) \/ (i \notin Oversize /\ ~q.ctxDone)
  <2> DEFINE new == [q EXCEPT !.at = i + 1]
  <2>1. /\ call' = [call EXCEPT ![c] = new]
        /\ check' = IF i \in Oversize THEN check ELSE [check EXCEPT ![c][i] = "new"]
        /\ held' = IF i \in Oversize THEN held ELSE held + 1
    BY <1>5 DEF Dispatch, Inv, Types
  <2>2. i + 1 \in Nat \ {0}
    BY <1>1 DEF Pos
  <2> HIDE DEF i
  <2>3. /\ new \in CallType /\ new.at = i + 1
        /\ new.pc = "dispatch" /\ new.next = q.next /\ new.blobs = q.blobs
        /\ new.ctxDone = q.ctxDone /\ new.clientGone = q.clientGone
        /\ new.cancelledDueToFailFast = q.cancelledDueToFailFast
        /\ new.result = q.result
    <3>1. new \in CallType
      BY <1>0, <2>2, MovedType
    <3> QED BY <1>0, <3>1 DEF CallType
  <2> HIDE DEF new
  <2>4. /\ call'[c] = new
        /\ \A d \in Call : d # c => call'[d] = call[d]
        /\ call' \in [Call -> CallType]
        /\ held' \in Int
    BY <2>1, <2>3 DEF Inv, Types
  <2>5. /\ \A d \in Call, j \in Pos :
             check'[d][j] = IF d = c /\ j = i /\ started THEN "new" ELSE check[d][j]
        /\ check' \in [Call -> [Pos -> {"none", "new", "asking", "cancel", "finish",
                                        "leaving", "gone"}]]
    BY <1>1, <2>1 DEF Inv, Types
  <2> HIDE DEF q
  <2>6. Types'
    BY <1>0, <2>4, <2>5 DEF Inv, Types
  <2>7. Loops'
    BY <1>0, <1>1, <2>3, <2>4 DEF q, Inv, Loops, CallType, Pos
  <2>8. Started'
    <3> SUFFICES ASSUME NEW d \in Call, NEW j \in Pos
                 PROVE  /\ call'[d].pc # "returned" /\ j >= Reached(call'[d])
                              => check'[d][j] = "none"
                        /\ check'[d][j] # "none" => HasProxy /\ j \notin local
      BY <1>0 DEF Started
    <3>1. CASE d # c
      BY <2>4, <2>5, <3>1 DEF Inv, Started
    <3>2. CASE d = c
      <4>1. Reached(call'[d]) = i + 1 /\ Reached(q) = q.at
        BY <1>0, <2>3, <2>4, <3>2 DEF Reached
      <4>2. j >= q.at => check[c][j] = "none"
        BY <1>0, <4>1 DEF q, Inv, Started
      <4>3. j >= i + 1 => j >= q.at /\ j # i
        BY <1>0, <1>1 DEF CallType, Pos
      <4> QED BY <1>2, <2>5, <3>2, <4>1, <4>2, <4>3 DEF Inv, Started
    <3> QED BY <3>1, <3>2
  <2>9. Struck'
    BY <1>0, <2>3, <2>4 DEF q, Inv, Struck, Nowhere
  <2>10. UnderWay'
    <3> SUFFICES ASSUME NEW d \in Call \ FailFast, ~call'[d].clientGone
                 PROVE  /\ ~call'[d].ctxDone
                        /\ HasProxy /\ call'[d].pc # "returned" =>
                              \A j \in call'[d].blobs \cap remote' :
                                  j < Reached(call'[d]) => check'[d][j] \in {"new", "asking"}
      BY DEF UnderWay
    <3>1. CASE d # c
      BY <1>0, <2>4, <2>5, <3>1 DEF Inv, UnderWay, Types
    <3>2. CASE d = c
      <4>1. /\ ~q.ctxDone
            /\ \A j \in q.blobs \cap remote : j < q.at => check[c][j] \in {"new", "asking"}
        BY <1>0, <1>2, <2>3, <2>4, <3>2 DEF q, Inv, UnderWay, Reached
      <4>2. ASSUME NEW j \in q.blobs \cap remote, j < i + 1
            PROVE  check'[c][j] \in {"new", "asking"}
        <5>1. j \in Pos /\ j \notin Oversize
          BY DEF Inv, Types
        <5>2. j < q.at \/ j = i
          BY <1>0, <1>1, <4>2, <5>1 DEF CallType, Pos
        <5> QED BY <2>5, <4>1, <5>1, <5>2
      <4>3. /\ call'[d] = new /\ remote' = remote /\ Reached(new) = i + 1
            /\ new.blobs = q.blobs /\ ~new.ctxDone
        BY <1>0, <2>3, <2>4, <3>2, <4>1 DEF Reached
      <4> QED BY <3>2, <4>2, <4>3
    <3> QED BY <3>1, <3>2
  <2>11. Reasons'
    <3>0. Nowhere' = Nowhere
      BY <1>0 DEF Nowhere
    <3> SUFFICES ASSUME NEW d \in Call
                 PROVE  /\ call'[d].pc # "returned" =>
                              /\ call'[d].cancelledDueToFailFast =>
                                    Nowhere # {} \/ call'[d].clientGone
                              /\ call'[d].ctxDone =>
                                    call'[d].cancelledDueToFailFast \/ call'[d].clientGone
                        /\ \A j \in Pos : check'[d][j] = "cancel" =>
                                    d \in FailFast /\ call'[d].cancelledDueToFailFast
      BY <3>0 DEF Reasons
    <3>1. \A j \in Pos : check'[d][j] = "cancel" => check[d][j] = "cancel"
      BY <2>5
    <3>2. CASE d = c
      BY <1>0, <2>3, <2>4, <3>1, <3>2 DEF q, Inv, Reasons
    <3>3. CASE d # c
      BY <2>3, <2>4, <3>1, <3>3 DEF Inv, Reasons
    <3> QED BY <3>2, <3>3
  <2>12. SliceIsStable' /\ ErrorsAreTrue' /\ MissingExact'
    <3>1. Nowhere' = Nowhere
      BY <1>0, <2>3, <2>4, <2>5 DEF Nowhere
    <3>2. SliceIsStable'
      BY <1>0, <2>3, <2>4, <2>5
         DEF q, Inv, Loops, SliceIsStable, Working
    <3>3. ErrorsAreTrue'
      BY <1>0, <2>3, <2>4, <2>5, <3>1
         DEF q, Inv, Loops, ErrorsAreTrue
    <3>4. MissingExact'
      BY <1>0, <2>3, <2>4, <2>5, <3>1
         DEF q, Inv, Loops, MissingExact
    <3> QED BY <3>2, <3>3, <3>4
  <2> QED BY <2>6, <2>7, <2>8, <2>9, <2>10, <2>11, <2>12 DEF Inv
<1> QED BY <1>3, <1>4, <1>5

-----------------------------------------------------------------------------

\* The record of a call of which a goroutine, or its client, changes a field.
LEMMA TouchedType ==
    ASSUME NEW q \in CallType, NEW blobs \in SUBSET Pos, NEW b \in BOOLEAN
    PROVE  /\ [q EXCEPT !.blobs = blobs] \in CallType
           /\ [q EXCEPT !.cancelledDueToFailFast = b] \in CallType
           /\ [q EXCEPT !.ctxDone = b] \in CallType
           /\ [q EXCEPT !.clientGone = b, !.ctxDone = b] \in CallType
BY Zenon DEF CallType

\* A step of a goroutine that leaves its call alone.
LEMMA GotoKeeps ==
    ASSUME Inv, NEW c \in Call, NEW i \in Pos, NEW pc \in {"asking", "finish", "leaving", "gone"},
           Goto(c, i, pc), check[c][i] # "none",
           pc = "asking" => check[c][i] = "new",
           pc \in {"leaving", "gone"} => check[c][i] \in {"finish", "leaving"},
           pc = "finish" =>
               /\ check[c][i] \in {"new", "asking"}
               /\ i \notin remote \/ call[c].ctxDone,
           UNCHANGED <<call, local, remote>>, held' \in Int
    PROVE  Inv'
<1>1. /\ \A d \in Call, j \in Pos :
           check'[d][j] = IF d = c /\ j = i THEN pc ELSE check[d][j]
      /\ check' \in [Call -> [Pos -> {"none", "new", "asking", "cancel", "finish",
                                      "leaving", "gone"}]]
  BY DEF Goto, Inv, Types
<1>2. Types'
  BY <1>1 DEF Inv, Types
<1>3. Loops' /\ Struck'
  BY DEF Inv, Loops, Struck, Nowhere
<1>4. Started'
  BY <1>1 DEF Inv, Started
<1>5. UnderWay'
  BY <1>1 DEF Inv, UnderWay, Types
<1>6. Reasons'
  BY <1>1 DEF Inv, Reasons, Nowhere
<1>7. SliceIsStable' /\ ErrorsAreTrue' /\ MissingExact'
  <2>1. Nowhere' = Nowhere
    BY <1>1 DEF Nowhere
  <2>2. SliceIsStable'
    BY <1>1
       DEF Inv, SliceIsStable, Working
  <2>3. ErrorsAreTrue'
    BY <1>1, <2>1
       DEF Inv, ErrorsAreTrue
  <2>4. MissingExact'
    BY <1>1, <2>1
       DEF Inv, MissingExact
  <2> QED BY <2>2, <2>3, <2>4
<1> QED BY <1>2, <1>3, <1>4, <1>5, <1>6, <1>7 DEF Inv

\* The backend has the blob: it is struck out.
LEMMA FoundKeeps ==
    ASSUME Inv, NEW c \in Call, NEW i \in Pos, check[c][i] = "asking", i \in remote,
           call' = [call EXCEPT ![c].blobs = @ \ {i}], Goto(c, i, "finish"),
           UNCHANGED <<held, local, remote>>
    PROVE  Inv'
<1> DEFINE new == [call[c] EXCEPT !.blobs = call[c].blobs \ {i}]
<1>0. call[c] \in CallType /\ HasProxy
  BY DEF Inv, Types, Started
<1>1. /\ \A d \in Call, j \in Pos :
           check'[d][j] = IF d = c /\ j = i THEN "finish" ELSE check[d][j]
      /\ check' \in [Call -> [Pos -> {"none", "new", "asking", "cancel", "finish",
                                      "leaving", "gone"}]]
  BY DEF Goto, Inv, Types
<1>2. call' = [call EXCEPT ![c] = new]
  BY DEF Inv, Types
<1>3. /\ new \in CallType /\ new.pc = call[c].pc /\ new.next = call[c].next
      /\ new.at = call[c].at /\ new.blobs = call[c].blobs \ {i}
      /\ new.ctxDone = call[c].ctxDone /\ new.clientGone = call[c].clientGone
      /\ new.cancelledDueToFailFast = call[c].cancelledDueToFailFast
      /\ new.result = call[c].result
  <2>1. call[c].blobs \ {i} \in SUBSET Pos
    BY <1>0 DEF CallType
  <2>2. new \in CallType
    BY <1>0, <2>1, TouchedType
  <2> QED BY <1>0, <2>2 DEF CallType
<1> HIDE DEF new
<1>4. /\ call'[c] = new
      /\ \A d \in Call : d # c => call'[d] = call[d]
      /\ call' \in [Call -> CallType]
  BY <1>2, <1>3 DEF Inv, Types
<1>5. Types'
  BY <1>1, <1>4 DEF Inv, Types
<1>6. Loops' /\ Reasons' /\ ErrorsAreTrue'
  <2>1. Nowhere' = Nowhere
    BY DEF Nowhere
  <2>2. Loops'
    BY <1>3, <1>4 DEF Inv, Loops
  <2>3. ErrorsAreTrue'
    BY <1>3, <1>4, <2>1 DEF Inv, ErrorsAreTrue
  <2>4. Reasons'
    <3> SUFFICES ASSUME NEW d \in Call
                 PROVE  /\ call'[d].pc # "returned" =>
                              /\ call'[d].cancelledDueToFailFast =>
                                    Nowhere # {} \/ call'[d].clientGone
                              /\ call'[d].ctxDone =>
                                    call'[d].cancelledDueToFailFast \/ call'[d].clientGone
                        /\ \A j \in Pos : check'[d][j] = "cancel" =>
                                    d \in FailFast /\ call'[d].cancelledDueToFailFast
      BY <2>1 DEF Reasons
    <3>1. \A j \in Pos : check'[d][j] = "cancel" => check[d][j] = "cancel"
      BY <1>1
    <3>2. CASE d = c
      BY <1>3, <1>4, <3>1, <3>2 DEF Inv, Reasons
    <3>3. CASE d # c
      BY <1>3, <1>4, <3>1, <3>3 DEF Inv, Reasons
    <3> QED BY <3>2, <3>3
  <2> QED BY <2>2, <2>3, <2>4
<1>7. Struck'
  BY <1>0, <1>3, <1>4 DEF Inv, Struck, Nowhere
<1>8. Started'
  BY <1>1, <1>3, <1>4 DEF Inv, Started, Reached
<1>9. UnderWay'
  BY <1>1, <1>3, <1>4 DEF Inv, UnderWay, Reached, Types, CallType
<1>10. SliceIsStable'
  BY <1>1, <1>3, <1>4 DEF Inv, SliceIsStable, Working
<1>11. MissingExact'
  <2>1. call[c].result # "nil"
    BY DEF Inv, SliceIsStable, Working
  <2> QED BY <1>3, <1>4, <2>1 DEF Inv, MissingExact, Nowhere
<1> QED BY <1>5, <1>6, <1>7, <1>8, <1>9, <1>10, <1>11 DEF Inv

\* The backend does not have the blob, in a fail-fast call: the reason is recorded.
LEMMA NotFoundKeeps ==
    ASSUME Inv, NEW c \in Call, NEW i \in Pos, check[c][i] = "asking",
           c \in FailFast, i \notin remote \/ call[c].ctxDone,
           call' = [call EXCEPT ![c].cancelledDueToFailFast = TRUE], Goto(c, i, "cancel"),
           UNCHANGED <<held, local, remote>>
    PROVE  Inv'
<1> DEFINE new == [call[c] EXCEPT !.cancelledDueToFailFast = TRUE]
<1>0. call[c] \in CallType /\ HasProxy /\ i \notin local
  BY DEF Inv, Types, Started
<1>1. /\ \A d \in Call, j \in Pos :
           check'[d][j] = IF d = c /\ j = i THEN "cancel" ELSE check[d][j]
      /\ check' \in [Call -> [Pos -> {"none", "new", "asking", "cancel", "finish",
                                      "leaving", "gone"}]]
  BY DEF Goto, Inv, Types
<1>2. call' = [call EXCEPT ![c] = new]
  BY DEF Inv, Types
<1>3. /\ new \in CallType /\ new.pc = call[c].pc /\ new.next = call[c].next
      /\ new.at = call[c].at /\ new.blobs = call[c].blobs
      /\ new.ctxDone = call[c].ctxDone /\ new.clientGone = call[c].clientGone
      /\ new.cancelledDueToFailFast = TRUE
      /\ new.result = call[c].result
  <2>1. new \in CallType
    BY <1>0, TouchedType
  <2> QED BY <1>0, <2>1 DEF CallType
<1> HIDE DEF new
<1>4. /\ call'[c] = new
      /\ \A d \in Call : d # c => call'[d] = call[d]
      /\ call' \in [Call -> CallType]
  BY <1>2, <1>3 DEF Inv, Types
<1>5. Types'
  BY <1>1, <1>4 DEF Inv, Types
<1>6. Loops' /\ Struck'
  BY <1>3, <1>4 DEF Inv, Loops, Struck, Nowhere
<1>7. Started'
  BY <1>1, <1>3, <1>4 DEF Inv, Started, Reached
<1>8. Reasons'
  <2>1. call[c].pc # "returned" => Nowhere # {} \/ call[c].clientGone
    BY <1>0 DEF Inv, Reasons, Nowhere
  <2>2. Nowhere' = Nowhere
    BY DEF Nowhere
  <2> SUFFICES ASSUME NEW d \in Call
               PROVE  /\ call'[d].pc # "returned" =>
                            /\ call'[d].cancelledDueToFailFast =>
                                  Nowhere # {} \/ call'[d].clientGone
                            /\ call'[d].ctxDone =>
                                  call'[d].cancelledDueToFailFast \/ call'[d].clientGone
                      /\ \A j \in Pos : check'[d][j] = "cancel" =>
                                  d \in FailFast /\ call'[d].cancelledDueToFailFast
    BY <2>2 DEF Reasons
  <2>3. CASE d = c
    BY <1>3, <1>4, <2>1, <2>3
  <2>4. CASE d # c
    BY <1>1, <1>4, <2>4 DEF Inv, Reasons
  <2> QED BY <2>3, <2>4
<1>9. UnderWay'
  BY <1>1, <1>3, <1>4 DEF Inv, UnderWay, Reached, Types, CallType
<1>10. SliceIsStable' /\ ErrorsAreTrue' /\ MissingExact'
  <2>1. Nowhere' = Nowhere
    BY DEF Nowhere
  <2>2. SliceIsStable'
    BY <1>1, <1>3, <1>4 DEF Inv, SliceIsStable, Working
  <2>3. ErrorsAreTrue' /\ MissingExact'
    BY <1>3, <1>4, <2>1 DEF Inv, ErrorsAreTrue, MissingExact
  <2> QED BY <2>2, <2>3
<1> QED BY <1>5, <1>6, <1>7, <1>8, <1>9, <1>10 DEF Inv

\* The answer of the backend, in each case.
LEMMA CheckAnswerKeeps ==
    ASSUME Inv, NEW c \in Call, NEW i \in Pos, CheckAnswer(c, i)
    PROVE  Inv'
<1>0. /\ call[c] \in CallType /\ check[c][i] = "asking" /\ held \in Int
      /\ UNCHANGED <<held, local, remote>>
  BY DEF CheckAnswer, Inv, Types
<1>1. CASE /\ i \in remote
           /\ call' = [call EXCEPT ![c].blobs = @ \ {i}]
           /\ Goto(c, i, "finish")
  BY <1>0, <1>1, FoundKeeps
<1>2. CASE /\ i \notin remote \/ call[c].ctxDone
           /\ call' = [call EXCEPT ![c].cancelledDueToFailFast = @ \/ c \in FailFast]
           /\ Goto(c, i, IF c \in FailFast THEN "cancel" ELSE "finish")
  <2>1. CASE c \in FailFast
    <3>1. (call[c].cancelledDueToFailFast \/ c \in FailFast) = TRUE
      BY <2>1
    <3>2. call' = [call EXCEPT ![c].cancelledDueToFailFast = TRUE] /\ Goto(c, i, "cancel")
      BY <1>2, <2>1, <3>1
    <3> QED BY <1>0, <1>2, <2>1, <3>2, NotFoundKeeps
  <2>2. CASE c \notin FailFast
    <3>1. call[c].cancelledDueToFailFast \in BOOLEAN
      BY <1>0 DEF CallType
    <3>2. (call[c].cancelledDueToFailFast \/ c \in FailFast) = call[c].cancelledDueToFailFast
      BY <2>2, <3>1, Zenon
    <3>3. call' = call
      BY <1>0, <1>2, <3>2 DEF Inv, Types, CallType
    <3> QED BY <1>0, <1>2, <2>2, <3>3, GotoKeeps
  <2> QED BY <2>1, <2>2
<1> QED BY <1>1, <1>2 DEF CheckAnswer

\* The context is ended.
LEMMA DoneKeeps ==
    ASSUME Inv, NEW c \in Call, NEW new \in CallType,
           call' = [call EXCEPT ![c] = new],
           new.pc = call[c].pc, new.next = call[c].next, new.at = call[c].at,
           new.blobs = call[c].blobs, new.result = call[c].result,
           new.cancelledDueToFailFast = call[c].cancelledDueToFailFast,
           call[c].clientGone => new.clientGone,
           new.cancelledDueToFailFast \/ new.clientGone,
           c \in FailFast \/ new.clientGone,
           UNCHANGED <<local, remote>>, held' = held,
           check' \in [Call -> [Pos -> {"none", "new", "asking", "cancel", "finish",
                                        "leaving", "gone"}]],
           \A d \in Call, j \in Pos :
               check'[d][j] # check[d][j] =>
                   check[d][j] = "cancel" /\ check'[d][j] = "finish"
    PROVE  Inv'
<1>1. /\ call'[c] = new
      /\ \A d \in Call : d # c => call'[d] = call[d]
      /\ call' \in [Call -> CallType]
  BY DEF Inv, Types
<1>2. Nowhere' = Nowhere
  BY DEF Nowhere
<1>3. Types'
  BY <1>1 DEF Inv, Types
<1>4. Loops' /\ Struck'
  BY <1>1, <1>2 DEF Inv, Loops, Struck
<1>5. Started'
  BY <1>1 DEF Inv, Started, Reached
<1>6. UnderWay'
  <2> SUFFICES ASSUME NEW d \in Call \ FailFast, ~call'[d].clientGone
               PROVE  /\ ~call'[d].ctxDone
                      /\ HasProxy /\ call'[d].pc # "returned" =>
                            \A j \in call'[d].blobs \cap remote' :
                                j < Reached(call'[d]) => check'[d][j] \in {"new", "asking"}
    BY DEF UnderWay
  <2>1. d # c
    BY <1>1
  <2>2. \A j \in Pos : check[d][j] \in {"new", "asking"} => check'[d][j] = check[d][j]
    BY <2>1
  <2> QED BY <1>1, <2>1, <2>2 DEF Inv, UnderWay, Types, CallType
<1>7. Reasons'
  <2> SUFFICES ASSUME NEW d \in Call
               PROVE  /\ call'[d].pc # "returned" =>
                            /\ call'[d].cancelledDueToFailFast =>
                                  Nowhere # {} \/ call'[d].clientGone
                            /\ call'[d].ctxDone =>
                                  call'[d].cancelledDueToFailFast \/ call'[d].clientGone
                      /\ \A j \in Pos : check'[d][j] = "cancel" =>
                                  d \in FailFast /\ call'[d].cancelledDueToFailFast
    BY <1>2 DEF Reasons
  <2>1. \A j \in Pos : check'[d][j] = "cancel" => check[d][j] = "cancel"
    OBVIOUS
  <2>2. CASE d = c
    BY <1>1, <2>1, <2>2 DEF Inv, Reasons
  <2>3. CASE d # c
    BY <1>1, <2>1, <2>3 DEF Inv, Reasons
  <2> QED BY <2>2, <2>3
<1>8. SliceIsStable'
  <2>1. \A d \in Call, j \in Pos :
           check'[d][j] \in {"new", "asking", "cancel", "finish"} =>
               check[d][j] \in {"new", "asking", "cancel", "finish"}
    OBVIOUS
  <2> QED BY <1>1, <2>1 DEF Inv, SliceIsStable, Working
<1>9. ErrorsAreTrue' /\ MissingExact'
  BY <1>1, <1>2 DEF Inv, ErrorsAreTrue, MissingExact
<1> QED BY <1>3, <1>4, <1>5, <1>6, <1>7, <1>8, <1>9 DEF Inv

\* A goroutine cancels the context for the reason it has recorded.
LEMMA CheckCancelKeeps ==
    ASSUME Inv, NEW c \in Call, NEW i \in Pos, CheckCancel(c, i)
    PROVE  Inv'
<1> DEFINE new == [call[c] EXCEPT !.ctxDone = TRUE]
<1>1. call[c] \in CallType /\ c \in FailFast /\ call[c].cancelledDueToFailFast
  BY DEF CheckCancel, Inv, Types, Reasons
<1>2. new \in CallType
  BY <1>1, TouchedType
<1>3. call' = [call EXCEPT ![c] = new]
  BY DEF CheckCancel, Inv, Types
<1>4. /\ new.pc = call[c].pc /\ new.next = call[c].next /\ new.at = call[c].at
      /\ new.blobs = call[c].blobs /\ new.result = call[c].result
      /\ new.cancelledDueToFailFast = call[c].cancelledDueToFailFast
      /\ new.clientGone = call[c].clientGone
  BY <1>1 DEF CallType
<1>5. /\ check' \in [Call -> [Pos -> {"none", "new", "asking", "cancel", "finish",
                                      "leaving", "gone"}]]
      /\ \A d \in Call, j \in Pos :
             check'[d][j] # check[d][j] =>
                 check[d][j] = "cancel" /\ check'[d][j] = "finish"
      /\ held' = held /\ UNCHANGED <<local, remote>>
  BY DEF CheckCancel, Goto, Inv, Types
<1> HIDE DEF new
<1> QED BY <1>1, <1>2, <1>3, <1>4, <1>5, DoneKeeps

\* The client goes away.
LEMMA ClientCancelKeeps ==
    ASSUME Inv, NEW c \in Call, ClientCancel(c)
    PROVE  Inv'
<1> DEFINE new == [call[c] EXCEPT !.clientGone = TRUE, !.ctxDone = TRUE]
<1>1. call[c] \in CallType
  BY DEF Inv, Types
<1>2. new \in CallType
  BY <1>1, TouchedType
<1>3. call' = [call EXCEPT ![c] = new]
  BY DEF ClientCancel, Inv, Types
<1>4. /\ new.pc = call[c].pc /\ new.next = call[c].next /\ new.at = call[c].at
      /\ new.blobs = call[c].blobs /\ new.result = call[c].result
      /\ new.cancelledDueToFailFast = call[c].cancelledDueToFailFast
      /\ new.clientGone = TRUE
  BY <1>1 DEF CallType
<1>5. /\ UNCHANGED <<check, held, local, remote>>
      /\ check \in [Call -> [Pos -> {"none", "new", "asking", "cancel", "finish",
                                     "leaving", "gone"}]]
  BY DEF ClientCancel, Inv, Types
<1> HIDE DEF new
<1> QED BY <1>2, <1>3, <1>4, <1>5, DoneKeeps

\* A step keeps the invariant.
LEMMA NextKeeps == Inv /\ [Next]_vars => Inv'
<1> SUFFICES ASSUME Inv, [Next]_vars PROVE Inv'
  OBVIOUS
<1>1. ASSUME NEW c \in Call, CallStep(c) PROVE Inv'
  BY <1>1, NextBatchKeeps, BatchesDoneKeeps, DispatchKeeps, ChunkDoneKeeps, WaitKeeps
     DEF CallStep
<1>2. ASSUME NEW c \in Call, ClientCancel(c) PROVE Inv'
  BY <1>2, ClientCancelKeeps
<1>3. ASSUME NEW c \in Call, NEW i \in Pos, CheckStep(c, i) PROVE Inv'
  <2>0. held \in Int /\ held - 1 \in Int
    BY DEF Inv, Types
  <2>1. CASE CheckStart(c, i)
    BY <2>0, <2>1, GotoKeeps DEF CheckStart
  <2>2. CASE CheckAnswer(c, i)
    BY <2>2, CheckAnswerKeeps
  <2>3. CASE CheckCancel(c, i)
    BY <2>3, CheckCancelKeeps
  <2>4. CASE CheckFinish(c, i)
    BY <2>0, <2>4, GotoKeeps DEF CheckFinish
  <2>5. CASE CheckRelease(c, i)
    BY <2>0, <2>5, GotoKeeps DEF CheckRelease
  <2> QED BY <1>3, <2>1, <2>2, <2>3, <2>4, <2>5 DEF CheckStep
<1>4. CASE UNCHANGED vars
  <2> USE <1>4 DEF vars
  <2>1. Types' /\ Loops' /\ Started' /\ Struck'
    BY DEF Inv, Types, Loops, Started, Struck, Nowhere
  <2>2. UnderWay' /\ Reasons'
    BY DEF Inv, UnderWay, Reasons, Nowhere
  <2>3. SliceIsStable' /\ ErrorsAreTrue' /\ MissingExact'
    BY DEF Inv, SliceIsStable, ErrorsAreTrue, MissingExact, Working, Nowhere
  <2> QED BY <2>1, <2>2, <2>3 DEF Inv
<1> QED BY <1>1, <1>2, <1>3, <1>4 DEF Next, Rest

\* The invariant holds in every state of every execution.
THEOREM Invariance == Spec => []Inv
BY InitInv, NextKeeps, PTL DEF Spec

\* FindMissingCasBlobs: an answer without an error is exact, for any number of
\* digests, any batch size and any order of the goroutines.
THEOREM AnswersAreExact == Spec => []MissingExact
<1>1. Inv => MissingExact
  BY DEF Inv
<1> QED BY <1>1, Invariance, PTL

\* findMissingCasBlobsInternal: no goroutine writes to a slice that was returned
\* without an error.
THEOREM NoLateWrite == Spec => []SliceIsStable
<1>1. Inv => SliceIsStable
  BY DEF Inv
<1> QED BY <1>1, Invariance, PTL

\* findMissingCasBlobsInternal: errMissingBlob and errRequestCancelled are true.
THEOREM ErrorsStayTrue == Spec => []ErrorsAreTrue
<1>1. Inv => ErrorsAreTrue
  BY DEF Inv
<1> QED BY <1>1, Invariance, PTL

-----------------------------------------------------------------------------

\* The goroutines that hold a slot.
Holders == {x \in Call \X Pos : check[x[1]][x[2]] \notin {"none", "gone"}}

\* There are finitely many of them.
LEMMA HoldersFinite == IsFiniteSet(Holders) /\ Cardinality(Holders) \in Nat
<1>1. IsFiniteSet(Call) /\ IsFiniteSet(Pos)
  BY FindAssumption, FS_Interval DEF Pos
<1>2. IsFiniteSet(Call \X Pos)
  BY <1>1, FS_Product
<1>3. Holders \in SUBSET (Call \X Pos)
  BY DEF Holders
<1>4. IsFiniteSet(Holders)
  BY <1>2, <1>3, FS_Subset
<1> QED BY <1>4, FS_CardinalityType

\* Steps that neither start nor end a goroutine leave the holders alone.
LEMMA HoldersSame ==
    ASSUME SlotsAccounted, held' = held,
           \A c \in Call, i \in Pos :
               check'[c][i] \in {"none", "gone"} <=> check[c][i] \in {"none", "gone"}
    PROVE  SlotsAccounted'
<1>1. Holders' = Holders
  BY DEF Holders
<1> QED BY <1>1 DEF SlotsAccounted, Holders

\* containsSem.Acquire and Release keep the count.
LEMMA SlotsKept == Inv /\ SlotsAccounted /\ [Next]_vars => SlotsAccounted'
<1> SUFFICES ASSUME Inv, SlotsAccounted, [Next]_vars PROVE SlotsAccounted'
  OBVIOUS
<1>0. held = Cardinality(Holders) /\ held <= Slots
  BY DEF SlotsAccounted, Holders
<1>1. ASSUME UNCHANGED <<check, held>> PROVE SlotsAccounted'
  BY <1>1, HoldersSame
<1>2. ASSUME NEW c \in Call, Dispatch(c) PROVE SlotsAccounted'
  <2> DEFINE i == Min(Todo(call[c]))
  <2>1. CASE UNCHANGED <<check, held>>
    BY <1>1, <2>1
  <2>2. CASE ~UNCHANGED <<check, held>>
    <3>1. /\ call[c].pc = "dispatch" /\ Todo(call[c]) # {}
          /\ held < Slots /\ held' = held + 1
          /\ check' = [check EXCEPT ![c][i] = "new"]
      BY <1>2, <2>2 DEF Dispatch
    <3>2. i \in Pos /\ call[c].at <= i
      BY <3>1, NextTodo DEF Inv, Types
    <3>3. check[c][i] = "none"
      BY <3>1, <3>2 DEF Inv, Types, CallType, Started, Reached, Pos
    <3> HIDE DEF i
    <3>4. \A d \in Call, j \in Pos :
             check'[d][j] = IF d = c /\ j = i THEN "new" ELSE check[d][j]
      BY <3>1, <3>2 DEF Inv, Types
    <3>5. Holders' = Holders \cup {<<c, i>>} /\ <<c, i>> \notin Holders
      BY <3>2, <3>3, <3>4 DEF Holders
    <3>6. Cardinality(Holders') = held + 1
      BY <1>0, <3>5, HoldersFinite, FS_AddElement
    <3>7. held + 1 <= Slots
      BY <1>0, <3>1, HoldersFinite, FindAssumption
    <3> QED BY <3>1, <3>6, <3>7 DEF SlotsAccounted, Holders
  <2> QED BY <2>1, <2>2
<1>3. ASSUME NEW c \in Call, NEW i \in Pos, CheckRelease(c, i) PROVE SlotsAccounted'
  <2>1. check[c][i] = "leaving" /\ held' = held - 1
    BY <1>3 DEF CheckRelease
  <2>2. \A d \in Call, j \in Pos :
           check'[d][j] = IF d = c /\ j = i THEN "gone" ELSE check[d][j]
    BY <1>3 DEF CheckRelease, Goto, Inv, Types
  <2>3. Holders' = Holders \ {<<c, i>>} /\ <<c, i>> \in Holders
    BY <2>1, <2>2 DEF Holders
  <2>4. Cardinality(Holders') = held - 1
    BY <1>0, <2>3, HoldersFinite, FS_RemoveElement
  <2>5. held - 1 <= Slots
    BY <1>0, HoldersFinite, FindAssumption
  <2> QED BY <2>1, <2>4, <2>5 DEF SlotsAccounted, Holders
<1>4. ASSUME NEW c \in Call, NEW i \in Pos, CheckStep(c, i), ~CheckRelease(c, i)
      PROVE  SlotsAccounted'
  <2>1. /\ check[c][i] \in {"new", "asking", "cancel", "finish"} /\ held' = held
        /\ \E pc \in {"asking", "cancel", "finish", "leaving"} : Goto(c, i, pc)
    BY <1>4 DEF CheckStep, CheckStart, CheckAnswer, CheckCancel, CheckFinish
  <2>2. \A d \in Call, j \in Pos :
           check'[d][j] \in {"none", "gone"} <=> check[d][j] \in {"none", "gone"}
    BY <2>1 DEF Goto, Inv, Types
  <2> QED BY <2>1, <2>2, HoldersSame
<1>5. ASSUME NEW c \in Call, CallStep(c), ~Dispatch(c) PROVE UNCHANGED <<check, held>>
  BY <1>5 DEF CallStep, NextBatch, BatchesDone, ChunkDone, Wait
<1>6. ASSUME NEW c \in Call, ClientCancel(c) PROVE UNCHANGED <<check, held>>
  BY <1>6 DEF ClientCancel
<1>7. ASSUME Rest \/ UNCHANGED vars PROVE UNCHANGED <<check, held>>
  BY <1>7 DEF Rest, vars
<1> QED BY <1>1, <1>2, <1>3, <1>4, <1>5, <1>6, <1>7 DEF Next

\* findMissingCasBlobsInternal: every slot of containsSem that is taken belongs to
\* one goroutine under way, and there are never more of them than slots.
THEOREM SlotsAreAccounted == Spec => []SlotsAccounted
<1>1. Init => SlotsAccounted
  <2> SUFFICES ASSUME Init PROVE SlotsAccounted
    OBVIOUS
  <2>1. Holders = {}
    BY DEF Init, Holders
  <2>2. Cardinality(Holders) = 0
    BY <2>1, FS_EmptySet
  <2>3. held = 0 /\ 0 <= Slots
    BY FindAssumption DEF Init
  <2> QED BY <2>2, <2>3 DEF SlotsAccounted, Holders
<1> QED BY <1>1, Invariance, SlotsKept, PTL DEF Spec

-----------------------------------------------------------------------------
(***************************************************************************)
(* The safety of uploads and of reads from the backend (UploadQueue).      *)
(***************************************************************************)

\* The UploadReq of a request: it carries the namespace, whatever becomes of the
\* request's context.
Item(r) == [req |-> r, prefix |-> Namespace(r)]
Items == {Item(r) : r \in Request}

UploadTypes ==
    /\ put \in [Request -> {"written", "opened", "commit", "ended"}]
    /\ handle \in [Request -> {"none", "open", "closed"}]
    /\ queue \in Seq(Items)
    /\ worker \in [Worker -> [pc : {"idle", "upload", "send", "spin"},
                              item : Items \cup {NoItem}]]
    /\ \A w \in Worker : worker[w].pc = "idle" <=> worker[w].item = NoItem
    /\ outcome \in [Request -> {"none", "dropped", "created", "already_exists", "error"}]
    /\ got \in [Reader -> Request \cup {"none", "miss", "error", "found", "panic"}]

\* The context of a request is there until it returns, that of a reader always.
Contexts ==
    /\ prefix = [x \in Request \cup Reader |-> prefix[x]]
    /\ \A x \in Request \cup Reader :
          prefix[x] = CtxPrefix[x] \/ (x \in Request /\ put[x] = "ended")

Queued(r) == \E i \in 1 .. Len(queue) : queue[i].req = r
Held(r) == \E w \in Worker : worker[w].item.req = r

\* A reader is in one place at a time, and open as long as it is in one.
OneHolder ==
    /\ \A i, j \in 1 .. Len(queue) : queue[i].req = queue[j].req => i = j
    /\ \A v, w \in Worker :
          worker[v].item.req = worker[w].item.req /\ worker[v].item # NoItem => v = w
    /\ \A i \in 1 .. Len(queue), w \in Worker : queue[i].req # worker[w].item.req
    /\ \A r \in Request :
          /\ put[r] \in {"written", "opened"} => ~Queued(r) /\ ~Held(r)
          /\ handle[r] = "open" <=> put[r] = "opened" \/ Queued(r) \/ Held(r)

\* What was reported is over, and what the backend holds was sent.
Objects ==
    /\ \A o \in DOMAIN backend :
          /\ backend[o] \in Request
          /\ o = <<Namespace(backend[o]), Key[backend[o]]>>
          /\ proxy = "s3" => outcome[backend[o]] \in {"created", "already_exists", "error"}
    /\ \A r \in Request : outcome[r] # "none" =>
          /\ ~Queued(r) /\ ~Held(r) /\ put[r] \notin {"written", "opened"}
    /\ proxy = "s3" => \A r \in Request :
          LET o == <<Namespace(r), Key[r]>> IN
          /\ outcome[r] = "created" => o \in DOMAIN backend /\ backend[o] = r
          /\ outcome[r] = "already_exists" => o \in DOMAIN backend

ReadsKept ==
    \A x \in Reader : got[x] \in Request =>
        Namespace(got[x]) = Namespace(x) /\ Key[got[x]] = Key[x]

UploadInv == UploadTypes /\ Contexts /\ OneHolder /\ Objects /\ ReadsKept

-----------------------------------------------------------------------------

\* s3proxy.go prefixForContext: while the context lives it gives the namespace.
LEMMA PrefixIsNamespace ==
    ASSUME Contexts, NEW x \in Request \cup Reader,
           x \in Request => put[x] # "ended"
    PROVE  prefixForContext(x) = Namespace(x)
BY DEF Contexts, prefixForContext, Namespace

\* The UploadReq of a worker that is busy.
LEMMA BusyItem ==
    ASSUME UploadTypes, NEW w \in Worker, worker[w].pc # "idle"
    PROVE  /\ worker[w].item \in Items /\ worker[w].item # NoItem
           /\ worker[w].item.req \in Request
           /\ worker[w].item.prefix = Namespace(worker[w].item.req)
           /\ ObjectKey(worker[w].item) =
                <<Namespace(worker[w].item.req), Key[worker[w].item.req]>>
<1>1. worker[w].item \in Items /\ worker[w].item # NoItem
  BY DEF UploadTypes
<1>2. PICK r \in Request : worker[w].item = Item(r)
  BY <1>1 DEF Items
<1>3. worker[w].item.req = r /\ worker[w].item.prefix = Namespace(r)
  BY <1>2 DEF Item
<1> QED BY <1>1, <1>3 DEF ObjectKey

\* NoItem is nobody's.
LEMMA IdleItem == NoItem.req \notin Request /\ NoItem \notin Items
<1>1. NoItem.req \notin Request
  BY UploadAssumption DEF NoItem
<1> QED BY <1>1 DEF Items, Item, NoItem

\* The file of a request is opened, handed over or closed, queued in any case in
\* the place after the others.
LEMMA QueueGrows ==
    ASSUME UploadTypes, NEW r \in Request, queue' = Append(queue, Item(r))
    PROVE  /\ Len(queue') = Len(queue) + 1 /\ Len(queue) \in Nat
           /\ queue'[Len(queue) + 1].req = r
           /\ \A i \in 1 .. Len(queue) : queue'[i] = queue[i]
           /\ \A s : Queued(s)' <=> Queued(s) \/ s = r
           /\ queue' \in Seq(Items)
<1>1. queue \in Seq(Items) /\ Item(r) \in Items
  BY DEF UploadTypes, Items
<1>2. /\ Len(queue') = Len(queue) + 1 /\ Len(queue) \in Nat
      /\ queue'[Len(queue) + 1] = Item(r)
      /\ \A i \in 1 .. Len(queue) : queue'[i] = queue[i]
      /\ queue' \in Seq(Items)
  BY <1>1
<1>3. queue'[Len(queue) + 1].req = r
  BY <1>2 DEF Item
<1>4. \A s : Queued(s)' <=> Queued(s) \/ s = r
  BY <1>2, <1>3 DEF Queued
<1> QED BY <1>2, <1>3, <1>4

\* The first one of the queue is taken, the others move up.
LEMMA QueueShrinks ==
    ASSUME UploadTypes, queue # <<>>, queue' = Tail(queue)
    PROVE  /\ Len(queue') = Len(queue) - 1 /\ Len(queue) \in Nat \ {0}
           /\ \A i \in 1 .. Len(queue) - 1 : queue'[i] = queue[i + 1]
           /\ Head(queue) = queue[1] /\ Head(queue) \in Items
           /\ queue' \in Seq(Items)
BY DEF UploadTypes

-----------------------------------------------------------------------------

\* At the start nothing is open, queued or stored.
LEMMA UploadInitInv == UploadInit => UploadInv
<1> SUFFICES ASSUME UploadInit PROVE UploadInv
  OBVIOUS
<1>1. UploadTypes
  BY DEF UploadInit, UploadTypes, Idle
<1>2. Contexts
  BY UploadAssumption DEF UploadInit, Contexts
<1>3. \A r \in Request : ~Queued(r) /\ ~Held(r)
  BY IdleItem DEF UploadInit, Queued, Held, Idle
<1>4. OneHolder
  BY <1>3 DEF UploadInit, OneHolder, Idle
<1>5. Objects
  BY DEF UploadInit, Objects
<1>6. ReadsKept
  BY UploadAssumption DEF UploadInit, ReadsKept
<1> QED BY <1>1, <1>2, <1>4, <1>5, <1>6 DEF UploadInv

\* The end of Put: the file is opened, or cannot be.
LEMMA OpenKeeps == ASSUME UploadInv, NEW r \in Request, OpenFile(r) PROVE UploadInv'
<1> USE DEF UploadInv, OpenFile
<1>1. Namespace(r) = Namespace(r)' /\ Items' = Items
  BY DEF Namespace, Items, Item
<1>2. UploadTypes'
  BY <1>1 DEF UploadTypes
<1>3. Contexts'
  BY DEF UploadTypes, Contexts
<1>4. OneHolder'
  <2>1. \A s : (Held(s)' <=> Held(s)) /\ (Queued(s)' <=> Queued(s))
    BY DEF Held, Queued
  <2>2. put[r] = "written" /\ ~Queued(r) /\ ~Held(r) /\ handle[r] # "open"
    BY DEF OneHolder
  <2>3. \A s \in Request \ {r} : put'[s] = put[s] /\ handle'[s] = handle[s]
    BY DEF UploadTypes
  <2>4. handle'[r] = "open" <=> put'[r] = "opened"
    BY <2>2 DEF UploadTypes
  <2>5. UNCHANGED <<queue, worker>>
    OBVIOUS
  <2> HIDE DEF OpenFile
  <2> QED BY <2>1, <2>2, <2>3, <2>4, <2>5 DEF OneHolder
<1>5. Objects'
  <2>1. \A s : (Held(s)' <=> Held(s)) /\ (Queued(s)' <=> Queued(s))
    BY DEF Held, Queued
  <2>2. \A x : Namespace(x)' = Namespace(x)
    BY DEF Namespace
  <2>3. outcome[r] = "none"
    BY DEF Objects, UploadTypes
  <2>4. \A s \in Request : s # r => put'[s] = put[s]
    BY DEF UploadTypes
  <2>5. UNCHANGED <<proxy, backend, outcome>>
    OBVIOUS
  <2> QED BY <2>1, <2>2, <2>3, <2>4, <2>5 DEF Objects
<1>6. ReadsKept'
  BY DEF ReadsKept, Namespace
<1> QED BY <1>2, <1>3, <1>4, <1>5, <1>6

\* proxy.Put: the file goes to the queue, or is closed.
LEMMA ProxyPutKeeps == ASSUME UploadInv, NEW r \in Request, ProxyPut(r) PROVE UploadInv'
<1> USE DEF UploadInv
<1>1. Items' = Items /\ \A x : Namespace(x)' = Namespace(x)
  BY DEF ProxyPut, Namespace, Items, Item
<1>2. /\ put[r] = "opened" /\ put' = [put EXCEPT ![r] = "commit"]
      /\ UNCHANGED <<proxy, prefix, worker, backend, got>>
  BY DEF ProxyPut
<1>3. ~Queued(r) /\ ~Held(r) /\ handle[r] = "open"
  BY <1>2 DEF OneHolder
<1>4. Contexts' /\ ReadsKept'
  BY <1>1, <1>2 DEF UploadTypes, Contexts, ReadsKept
<1>5. CASE /\ queue' = Append(queue, [req |-> r, prefix |-> prefixForContext(r)])
           /\ UNCHANGED <<handle, outcome>>
  <2>1. queue' = Append(queue, Item(r))
    BY <1>2, <1>5, PrefixIsNamespace DEF Item
  <2>2. /\ Len(queue') = Len(queue) + 1 /\ Len(queue) \in Nat
        /\ queue'[Len(queue) + 1].req = r
        /\ \A i \in 1 .. Len(queue) : queue'[i] = queue[i]
        /\ \A s : Queued(s)' <=> Queued(s) \/ s = r
        /\ queue' \in Seq(Items)
    BY <2>1, QueueGrows
  <2>3. \A s : Held(s)' <=> Held(s)
    BY <1>2 DEF Held
  <2>4. UploadTypes'
    BY <1>1, <1>2, <1>5, <2>2 DEF UploadTypes
  <2>5. \A i \in 1 .. Len(queue) : queue[i].req # r
    BY <1>3 DEF Queued
  <2>6. \A w \in Worker : worker[w].item.req # r
    BY <1>3 DEF Held
  <2>7. OneHolder'
    <3>1. \A i, j \in 1 .. Len(queue') : queue'[i].req = queue'[j].req => i = j
      BY <2>2, <2>5 DEF OneHolder
    <3>2. \A i \in 1 .. Len(queue'), w \in Worker : queue'[i].req # worker[w].item.req
      BY <2>2, <2>6 DEF OneHolder
    <3>3. \A s \in Request :
            /\ put'[s] \in {"written", "opened"} => ~Queued(s)' /\ ~Held(s)'
            /\ handle[s] = "open" <=> put'[s] = "opened" \/ Queued(s)' \/ Held(s)'
      BY <1>2, <1>3, <2>2, <2>3 DEF UploadTypes, OneHolder
    <3> QED BY <1>2, <1>5, <3>1, <3>2, <3>3 DEF OneHolder
  <2>8. Objects'
    BY <1>1, <1>2, <1>5, <2>2, <2>3 DEF UploadTypes, Objects
  <2> QED BY <1>4, <2>4, <2>7, <2>8
<1>6. CASE Dropped(r)
  <2>1. /\ queue' = queue /\ handle' = [handle EXCEPT ![r] = "closed"]
        /\ outcome' = outcome \/ outcome' = [outcome EXCEPT ![r] = "dropped"]
    BY <1>6 DEF Dropped
  <2>2. \A s : (Held(s)' <=> Held(s)) /\ (Queued(s)' <=> Queued(s))
    BY <1>2, <2>1 DEF Held, Queued
  <2>3. UploadTypes'
    BY <1>1, <1>2, <2>1 DEF UploadTypes
  <2>4. OneHolder'
    BY <1>2, <1>3, <2>1, <2>2 DEF UploadTypes, OneHolder
  <2>5. outcome[r] = "none"
    BY <1>2 DEF Objects, UploadTypes
  <2>6. Objects'
    BY <1>1, <1>2, <1>3, <2>1, <2>2, <2>5 DEF UploadTypes, Objects
  <2> QED BY <1>4, <2>3, <2>4, <2>6
<1> QED BY <1>5, <1>6 DEF ProxyPut

\* The request returns, and its context with it.
LEMMA UploadReturnKeeps == ASSUME UploadInv, NEW r \in Request, PutReturns(r) PROVE UploadInv'
<1> USE DEF UploadInv
<1>0. /\ put[r] = "commit" /\ put' = [put EXCEPT ![r] = "ended"]
      /\ prefix' = [prefix EXCEPT ![r] = ""]
      /\ UNCHANGED <<proxy, handle, queue, worker, backend, outcome, got>>
  BY DEF PutReturns
<1>1. Items' = Items /\ \A x : Namespace(x)' = Namespace(x)
  BY <1>0 DEF Namespace, Items, Item
<1>2. \A s : (Held(s)' <=> Held(s)) /\ (Queued(s)' <=> Queued(s))
  BY <1>0 DEF Held, Queued
<1>3. UploadTypes'
  BY <1>0, <1>1 DEF UploadTypes
<1>4. Contexts'
  <2>1. prefix' = [x \in Request \cup Reader |-> prefix'[x]]
    BY <1>0 DEF Contexts
  <2>2. ASSUME NEW x \in Request \cup Reader, x # r
        PROVE  prefix'[x] = prefix[x] /\ (x \in Request => put'[x] = put[x])
    BY <1>0, <2>2 DEF Contexts, UploadTypes
  <2>3. put'[r] = "ended"
    BY <1>0 DEF UploadTypes
  <2> QED BY <2>1, <2>2, <2>3 DEF Contexts
<1>5. OneHolder'
  <2>1. \A s \in Request :
          /\ put'[s] \in {"written", "opened"} => put[s] = put'[s]
          /\ put'[s] = "opened" <=> put[s] = "opened"
    BY <1>0 DEF UploadTypes
  <2> QED BY <1>0, <1>2, <2>1 DEF OneHolder
<1>6. Objects'
  BY <1>0, <1>1, <1>2 DEF UploadTypes, Objects
<1>7. ReadsKept'
  BY <1>0, <1>1 DEF ReadsKept
<1> QED BY <1>3, <1>4, <1>5, <1>6, <1>7

\* A worker takes the first UploadReq of the queue.
LEMMA TakeKeeps == ASSUME UploadInv, NEW w \in Worker, Take(w) PROVE UploadInv'
<1> USE DEF UploadInv
<1>1. /\ worker[w].pc = "idle" /\ queue # <<>> /\ queue' = Tail(queue)
      /\ worker' = [worker EXCEPT ![w] = [pc |-> "upload", item |-> Head(queue)]]
      /\ UNCHANGED <<proxy, put, handle, prefix, backend, outcome, got>>
  BY DEF Take
<1>2. Items' = Items /\ \A x : Namespace(x)' = Namespace(x)
  BY <1>1 DEF Namespace, Items, Item
<1>3. /\ Len(queue') = Len(queue) - 1 /\ Len(queue) \in Nat \ {0}
      /\ \A i \in 1 .. Len(queue) - 1 : queue'[i] = queue[i + 1]
      /\ Head(queue) = queue[1] /\ Head(queue) \in Items
      /\ queue' \in Seq(Items)
  BY <1>1, QueueShrinks
<1>4. worker'[w].item = queue[1] /\ \A v \in Worker \ {w} : worker'[v] = worker[v]
  BY <1>1, <1>3 DEF UploadTypes
<1>5. queue[1] \in Items /\ queue[1] # NoItem /\ queue[1].req \in Request
  <2>1. PICK r \in Request : queue[1] = Item(r)
    BY <1>3 DEF Items
  <2> QED BY <1>3, <2>1, IdleItem DEF Item
<1>6. worker[w].item = NoItem /\ NoItem.req \notin Request
  BY <1>1, IdleItem DEF UploadTypes
<1>7. UploadTypes'
  <2>1. worker' \in [Worker -> [pc : {"idle", "upload", "send", "spin"},
                                item : Items \cup {NoItem}]]
    BY <1>1, <1>3 DEF UploadTypes
  <2>2. \A v \in Worker : worker'[v].pc = "idle" <=> worker'[v].item = NoItem
    BY <1>1, <1>4, <1>5 DEF UploadTypes
  <2> QED BY <1>1, <1>2, <1>3, <2>1, <2>2 DEF UploadTypes
<1>8. \A r \in Request : Queued(r) <=> Queued(r)' \/ r = queue[1].req
  <2> SUFFICES ASSUME NEW r \in Request
               PROVE  Queued(r) <=> Queued(r)' \/ r = queue[1].req
    OBVIOUS
  <2>1. Queued(r)' => Queued(r)
    BY <1>3 DEF Queued
  <2>2. r = queue[1].req => Queued(r)
    BY <1>3 DEF Queued
  <2>3. ASSUME NEW i \in 1 .. Len(queue), queue[i].req = r, i # 1 PROVE Queued(r)'
    <3>1. i - 1 \in 1 .. Len(queue') /\ queue'[i - 1] = queue[i]
      BY <1>3, <2>3
    <3> QED BY <3>1, <2>3 DEF Queued
  <2>4. Queued(r) => Queued(r)' \/ r = queue[1].req
    BY <2>3 DEF Queued
  <2> QED BY <2>1, <2>2, <2>4
<1>9. \A r \in Request : Held(r)' <=> Held(r) \/ r = queue[1].req
  BY <1>4, <1>6 DEF Held
<1>10. OneHolder'
  <2>1. \A i, j \in 1 .. Len(queue') : queue'[i].req = queue'[j].req => i = j
    BY <1>3 DEF OneHolder
  <2>2. \A i \in 1 .. Len(queue') : queue'[i].req # queue[1].req
    BY <1>3 DEF OneHolder
  <2>3. \A i \in 1 .. Len(queue'), v \in Worker : queue'[i].req # worker'[v].item.req
    BY <1>3, <1>4, <2>2 DEF OneHolder
  <2>4. \A v \in Worker \ {w} : worker[v].item.req # queue[1].req
    BY <1>3 DEF OneHolder
  <2>5. \A u, v \in Worker :
          worker'[u].item.req = worker'[v].item.req /\ worker'[u].item # NoItem => u = v
    BY <1>4, <2>4 DEF OneHolder
  <2>6. \A r \in Request :
          /\ put[r] \in {"written", "opened"} => ~Queued(r)' /\ ~Held(r)'
          /\ handle[r] = "open" <=> put[r] = "opened" \/ Queued(r)' \/ Held(r)'
    BY <1>8, <1>9 DEF OneHolder
  <2> QED BY <1>1, <2>1, <2>3, <2>5, <2>6 DEF OneHolder
<1>11. Objects'
  BY <1>1, <1>2, <1>8, <1>9 DEF Objects
<1>12. Contexts' /\ ReadsKept'
  BY <1>1, <1>2 DEF Contexts, ReadsKept
<1> QED BY <1>7, <1>10, <1>11, <1>12

\* UploadFile changes what its worker does but keeps its UploadReq.
LEMMA PhaseKeeps ==
    ASSUME UploadInv, NEW w \in Worker, worker[w].pc # "idle", NEW pc \in {"send", "spin"},
           worker' = [worker EXCEPT ![w].pc = pc],
           UNCHANGED <<proxy, put, handle, prefix, queue, backend, outcome, got>>
    PROVE  UploadInv'
<1> USE DEF UploadInv
<1>1. Items' = Items /\ \A x : Namespace(x)' = Namespace(x)
  BY DEF Namespace, Items, Item
<1>2. \A v \in Worker : worker'[v].item = worker[v].item
  BY DEF UploadTypes
<1>3. \A s : (Held(s)' <=> Held(s)) /\ (Queued(s)' <=> Queued(s))
  BY <1>2 DEF Held, Queued
<1>4. UploadTypes'
  <2>1. worker' \in [Worker -> [pc : {"idle", "upload", "send", "spin"},
                                item : Items \cup {NoItem}]]
    BY DEF UploadTypes
  <2>2. \A v \in Worker : worker'[v].pc = "idle" <=> worker'[v].item = NoItem
    BY <1>2 DEF UploadTypes
  <2> QED BY <1>1, <2>1, <2>2 DEF UploadTypes
<1>5. OneHolder'
  BY <1>2, <1>3 DEF OneHolder
<1>6. Objects'
  BY <1>1, <1>3 DEF Objects
<1>7. Contexts' /\ ReadsKept'
  BY <1>1 DEF Contexts, ReadsKept
<1> QED BY <1>4, <1>5, <1>6, <1>7

\* UploadFile ends: whatever was sent and reported, its file is closed and has no
\* holder any more.
LEMMA FinishKeeps ==
    ASSUME UploadInv, NEW w \in Worker, worker[w].pc # "idle", Finish(w),
           UNCHANGED <<put, queue>>
    PROVE  LET r == worker[w].item.req IN
           /\ \A s \in Request : Queued(s)' <=> Queued(s)
           /\ \A s \in Request : Held(s)' <=> Held(s) /\ s # r
           /\ ~Queued(r) /\ Held(r) /\ put[r] \notin {"written", "opened"}
           /\ OneHolder'
           /\ worker' \in [Worker -> [pc : {"idle", "upload", "send", "spin"},
                                      item : Items \cup {NoItem}]]
           /\ \A v \in Worker : worker'[v].pc = "idle" <=> worker'[v].item = NoItem
           /\ handle' \in [Request -> {"none", "open", "closed"}]
<1> DEFINE r == worker[w].item.req
<1> USE DEF UploadInv
<1>1. r \in Request /\ worker[w].item # NoItem
  BY BusyItem
<1>2. worker' = [worker EXCEPT ![w] = Idle] /\ handle' = [handle EXCEPT ![r] = "closed"]
  BY DEF Finish
<1>3. worker'[w] = Idle /\ \A v \in Worker \ {w} : worker'[v] = worker[v]
  BY <1>2 DEF UploadTypes
<1>4. \A s \in Request : Queued(s)' <=> Queued(s)
  BY DEF Queued
<1>5. \A v \in Worker \ {w} : worker[v].item.req # r
  BY <1>1 DEF OneHolder
<1>6. \A s \in Request : Held(s)' <=> Held(s) /\ s # r
  BY <1>1, <1>3, <1>5, IdleItem DEF Held, Idle
<1>7. Held(r)
  BY DEF Held
<1>8. ~Queued(r)
  BY DEF Queued, OneHolder
<1>9. put[r] \notin {"written", "opened"}
  BY <1>1, <1>7 DEF OneHolder
<1>10. handle' \in [Request -> {"none", "open", "closed"}]
  BY <1>2 DEF UploadTypes
<1>11. worker' \in [Worker -> [pc : {"idle", "upload", "send", "spin"},
                               item : Items \cup {NoItem}]]
  BY <1>2 DEF UploadTypes, Idle
<1>12. \A v \in Worker : worker'[v].pc = "idle" <=> worker'[v].item = NoItem
  BY <1>3 DEF UploadTypes, Idle
<1>13. OneHolder'
  <2>1. \A u, v \in Worker :
          worker'[u].item.req = worker'[v].item.req /\ worker'[u].item # NoItem => u = v
    <3> SUFFICES ASSUME NEW u \in Worker, NEW v \in Worker, u # v,
                        worker'[u].item # NoItem
                 PROVE  worker'[u].item.req # worker'[v].item.req
      OBVIOUS
    <3>1. u # w /\ worker'[u] = worker[u]
      BY <1>3 DEF Idle
    <3>2. CASE v # w
      BY <1>3, <3>1, <3>2 DEF OneHolder
    <3>3. CASE v = w
      BY <1>3, <3>1, <3>3, BusyItem, IdleItem DEF Idle, UploadTypes
    <3> QED BY <3>2, <3>3
  <2>2. \A i \in 1 .. Len(queue) : queue[i].req \in Request
    BY DEF UploadTypes, Items, Item
  <2>3. \A i \in 1 .. Len(queue), v \in Worker : queue[i].req # worker'[v].item.req
    BY <1>3, <2>2, IdleItem DEF OneHolder, Idle
  <2>4. \A s \in Request :
          /\ put[s] \in {"written", "opened"} => ~Queued(s)' /\ ~Held(s)'
          /\ handle'[s] = "open" <=> put[s] = "opened" \/ Queued(s)' \/ Held(s)'
    BY <1>1, <1>2, <1>4, <1>6, <1>8, <1>9 DEF OneHolder, UploadTypes
  <2> QED BY <2>1, <2>3, <2>4 DEF OneHolder
<1> QED BY <1>4, <1>6, <1>7, <1>8, <1>9, <1>10, <1>11, <1>12, <1>13

\* UploadFile of a proxy other than s3, which reports nothing: the object is
\* sent, or it is not.
LEMMA SendKeeps ==
    ASSUME UploadInv, NEW w \in Worker, worker[w].pc # "idle", Finish(w), proxy # "s3",
           Store(worker[w].item) \/ UNCHANGED backend,
           UNCHANGED <<proxy, put, prefix, queue, outcome, got>>
    PROVE  UploadInv'
<1> DEFINE r == worker[w].item.req
           o == <<Namespace(r), Key[r]>>
<1> USE DEF UploadInv
<1>1. Items' = Items /\ \A x : Namespace(x)' = Namespace(x)
  BY DEF Namespace, Items, Item
<1>2. r \in Request /\ ObjectKey(worker[w].item) = o
  BY BusyItem
<1>3. /\ \A s \in Request : Queued(s)' <=> Queued(s)
      /\ \A s \in Request : Held(s)' <=> Held(s) /\ s # r
      /\ OneHolder'
      /\ worker' \in [Worker -> [pc : {"idle", "upload", "send", "spin"},
                                 item : Items \cup {NoItem}]]
      /\ \A v \in Worker : worker'[v].pc = "idle" <=> worker'[v].item = NoItem
      /\ handle' \in [Request -> {"none", "open", "closed"}]
  BY FinishKeeps
<1>4. UploadTypes'
  BY <1>1, <1>3 DEF UploadTypes
<1>5. \A p \in DOMAIN backend' :
        \/ p \in DOMAIN backend /\ backend'[p] = backend[p]
        \/ p = o /\ backend'[p] = r
  BY <1>2 DEF Store
<1>6. Objects'
  BY <1>1, <1>2, <1>3, <1>5 DEF Objects
<1>7. Contexts' /\ ReadsKept'
  BY <1>1 DEF Contexts, ReadsKept
<1> QED BY <1>3, <1>4, <1>6, <1>7

\* UploadFile of s3: an object is only ever created, and what is reported is so.
LEMMA S3UploadKeeps == ASSUME UploadInv, NEW w \in Worker, S3Upload(w) PROVE UploadInv'
<1> DEFINE r == worker[w].item.req
           o == <<Namespace(r), Key[r]>>
<1> USE DEF UploadInv
<1>0. /\ proxy = "s3" /\ worker[w].pc # "idle" /\ Finish(w)
      /\ UNCHANGED <<proxy, put, prefix, queue, got>>
  BY DEF S3Upload
<1>1. Items' = Items /\ \A x : Namespace(x)' = Namespace(x)
  BY <1>0 DEF Namespace, Items, Item
<1>2. r \in Request /\ ObjectKey(worker[w].item) = o
  BY <1>0, BusyItem
<1>3. /\ \A s \in Request : Queued(s)' <=> Queued(s)
      /\ \A s \in Request : Held(s)' <=> Held(s) /\ s # r
      /\ ~Queued(r) /\ Held(r) /\ put[r] \notin {"written", "opened"}
      /\ OneHolder'
      /\ worker' \in [Worker -> [pc : {"idle", "upload", "send", "spin"},
                                 item : Items \cup {NoItem}]]
      /\ \A v \in Worker : worker'[v].pc = "idle" <=> worker'[v].item = NoItem
      /\ handle' \in [Request -> {"none", "open", "closed"}]
  BY <1>0, FinishKeeps
<1>4. outcome[r] = "none" /\ \A p \in DOMAIN backend : backend[p] # r
  BY <1>0, <1>2, <1>3 DEF Objects
<1>5. PICK a \in {"created", "already_exists", "error"} :
        /\ outcome' = [outcome EXCEPT ![r] = a]
        /\ \/ o \notin DOMAIN backend /\ Store(worker[w].item)
           \/ /\ UNCHANGED backend /\ a # "created"
              /\ a = "already_exists" => o \in DOMAIN backend
  BY <1>2 DEF S3Upload
<1>6. UploadTypes'
  <2>1. outcome' \in [Request -> {"none", "dropped", "created", "already_exists", "error"}]
    BY <1>5 DEF UploadTypes
  <2> QED BY <1>0, <1>1, <1>3, <2>1 DEF UploadTypes
<1>7. outcome'[r] = a /\ \A s \in Request \ {r} : outcome'[s] = outcome[s]
  BY <1>2, <1>5 DEF UploadTypes
<1>8. /\ DOMAIN backend \subseteq DOMAIN backend'
      /\ \A p \in DOMAIN backend : backend'[p] = backend[p]
      /\ \A p \in DOMAIN backend' \ DOMAIN backend :
            p = o /\ backend'[p] = r
      /\ a = "already_exists" => o \in DOMAIN backend'
      /\ a = "created" => o \in DOMAIN backend' /\ backend'[o] = r
  BY <1>2, <1>5 DEF Store
<1>9. \A p \in DOMAIN backend' :
        /\ backend'[p] \in Request
        /\ p = <<Namespace(backend'[p]), Key[backend'[p]]>>
        /\ outcome'[backend'[p]] \in {"created", "already_exists", "error"}
  <2> SUFFICES ASSUME NEW p \in DOMAIN backend'
               PROVE  /\ backend'[p] \in Request
                      /\ p = <<Namespace(backend'[p]), Key[backend'[p]]>>
                      /\ outcome'[backend'[p]] \in {"created", "already_exists", "error"}
    OBVIOUS
  <2>1. CASE p \in DOMAIN backend
    BY <1>0, <1>4, <1>7, <1>8, <2>1 DEF Objects
  <2>2. CASE p \notin DOMAIN backend
    BY <1>2, <1>7, <1>8, <2>2
  <2> QED BY <2>1, <2>2
<1>10. \A s \in Request : outcome'[s] # "none" =>
          ~Queued(s)' /\ ~Held(s)' /\ put[s] \notin {"written", "opened"}
  BY <1>3, <1>7 DEF Objects
<1>11. ASSUME NEW s \in Request
       PROVE  LET q == <<Namespace(s), Key[s]>> IN
              /\ outcome'[s] = "created" => q \in DOMAIN backend' /\ backend'[q] = s
              /\ outcome'[s] = "already_exists" => q \in DOMAIN backend'
  <2>1. CASE s = r
    BY <1>5, <1>7, <1>8, <2>1
  <2>2. CASE s # r
    BY <1>0, <1>7, <1>8, <2>2 DEF Objects
  <2> QED BY <2>1, <2>2
<1>12. Objects'
  BY <1>0, <1>1, <1>9, <1>10, <1>11 DEF Objects
<1>13. Contexts' /\ ReadsKept'
  BY <1>0, <1>1 DEF Contexts, ReadsKept
<1> QED BY <1>3, <1>6, <1>12, <1>13

\* A reader's answer is data only of the object it asked for.
LEMMA ReadKeeps ==
    ASSUME UploadInv, NEW x \in Reader, ProxyGet(x) \/ ProxyContains(x)
    PROVE  UploadInv'
<1> USE DEF UploadInv
<1>1. PICK a : /\ Answer(x, a)
               /\ \/ a \in {"miss", "error", "found", "panic"}
                  \/ Found(x) /\ a = backend[Wanted(x)]
  BY DEF ProxyGet, ProxyContains, S3Get, HttpGet, AzblobGet, GrpcGet, Fetch,
         ExtractLogicalSize, S3Contains, HttpContains, AzblobContains, GrpcContains, Stat
<1>2. /\ got' = [got EXCEPT ![x] = a]
      /\ UNCHANGED <<proxy, put, handle, prefix, queue, worker, backend, outcome>>
  BY <1>1 DEF Answer
<1>3. Items' = Items /\ \A y : Namespace(y)' = Namespace(y)
  BY <1>2 DEF Namespace, Items, Item
<1>4. Wanted(x) = <<Namespace(x), Key[x]>>
  BY UploadAssumption, PrefixIsNamespace DEF Wanted
<1>5. a \in Request =>
        Found(x) /\ Namespace(a) = Namespace(x) /\ Key[a] = Key[x]
  <2> SUFFICES ASSUME a \in Request
               PROVE  Found(x) /\ Namespace(a) = Namespace(x) /\ Key[a] = Key[x]
    OBVIOUS
  <2>1. Found(x) /\ a = backend[Wanted(x)]
    BY <1>1, UploadAssumption
  <2>2. Wanted(x) = <<Namespace(a), Key[a]>>
    BY <2>1 DEF Found, Objects
  <2> QED BY <1>4, <2>1, <2>2
<1>6. a \in Request \cup {"none", "miss", "error", "found", "panic"}
  BY <1>1 DEF Found, Objects
<1>7. UploadTypes'
  BY <1>2, <1>3, <1>6 DEF UploadTypes
<1>8. ReadsKept'
  BY <1>2, <1>3, <1>5 DEF ReadsKept, UploadTypes
<1>9. \A s : (Held(s)' <=> Held(s)) /\ (Queued(s)' <=> Queued(s))
  BY <1>2 DEF Held, Queued
<1>10. Contexts'
  BY <1>2 DEF Contexts
<1>11. OneHolder' /\ Objects'
  BY <1>2, <1>3, <1>9 DEF OneHolder, Objects
<1> QED BY <1>7, <1>8, <1>10, <1>11

\* Every step keeps the invariant.
LEMMA NextInv == UploadInv /\ [UploadNext]_uploadVars => UploadInv'
<1> SUFFICES ASSUME UploadInv, [UploadNext]_uploadVars PROVE UploadInv'
  OBVIOUS
<1>1. ASSUME NEW r \in Request, OpenFile(r) \/ ProxyPut(r) \/ PutReturns(r) PROVE UploadInv'
  BY <1>1, OpenKeeps, ProxyPutKeeps, UploadReturnKeeps
<1>2. ASSUME NEW w \in Worker, Take(w) PROVE UploadInv'
  BY <1>2, TakeKeeps
<1>3. ASSUME NEW w \in Worker, HttpHead(w) PROVE UploadInv'
  <2>1. /\ proxy # "s3" /\ worker[w].pc # "idle"
        /\ UNCHANGED <<proxy, put, prefix, queue, backend, outcome, got>>
    BY <1>3 DEF HttpHead
  <2>2. CASE Finish(w)
    BY <2>1, <2>2, SendKeeps
  <2>3. CASE worker' = [worker EXCEPT ![w].pc = "send"] /\ UNCHANGED handle
    BY <2>1, <2>3, PhaseKeeps
  <2> QED BY <1>3, <2>2, <2>3 DEF HttpHead
<1>4. ASSUME NEW w \in Worker, Send(w) PROVE UploadInv'
  <2>1. /\ proxy # "s3" /\ worker[w].pc # "idle" /\ Finish(w)
        /\ Store(worker[w].item) \/ UNCHANGED backend
        /\ UNCHANGED <<proxy, put, prefix, queue, outcome, got>>
    BY <1>4 DEF Send
  <2> QED BY <2>1, SendKeeps
<1>5. ASSUME NEW w \in Worker, GrpcReadFails(w) PROVE UploadInv'
  <2>1. /\ worker[w].pc # "idle" /\ worker' = [worker EXCEPT ![w].pc = "spin"]
        /\ UNCHANGED <<proxy, put, handle, prefix, queue, backend, outcome, got>>
    BY <1>5 DEF GrpcReadFails
  <2> QED BY <2>1, PhaseKeeps
<1>6. ASSUME NEW w \in Worker, S3Upload(w) PROVE UploadInv'
  BY <1>6, S3UploadKeeps
<1>7. ASSUME NEW x \in Reader, ProxyGet(x) \/ ProxyContains(x) PROVE UploadInv'
  BY <1>7, ReadKeeps
<1>8. CASE UNCHANGED uploadVars
  <2>1. Items' = Items /\ \A x : Namespace(x)' = Namespace(x)
    BY <1>8 DEF uploadVars, Namespace, Items, Item
  <2>2. \A s : (Held(s)' <=> Held(s)) /\ (Queued(s)' <=> Queued(s))
    BY <1>8 DEF uploadVars, Held, Queued
  <2>3. UploadTypes' /\ Contexts' /\ ReadsKept'
    BY <1>8, <2>1 DEF uploadVars, UploadInv, UploadTypes, Contexts, ReadsKept
  <2>4. OneHolder' /\ Objects'
    BY <1>8, <2>1, <2>2 DEF uploadVars, UploadInv, OneHolder, Objects
  <2> QED BY <2>3, <2>4 DEF UploadInv
<1> QED
  BY <1>1, <1>2, <1>3, <1>4, <1>5, <1>6, <1>7, <1>8 DEF UploadNext, Requests, Upload

-----------------------------------------------------------------------------

\* s3proxy.go UploadFile and Get: what is stored and what is read stays in the
\* namespace of its request, for any number of requests, workers and readers.
THEOREM UploadsStayInNamespace == UploadSpec => []NamespacesKept
<1>1. UploadInv => NamespacesKept
  BY DEF UploadInv, Objects, ReadsKept, NamespacesKept
<1> QED BY <1>1, UploadInitInv, NextInv, PTL DEF UploadSpec

\* s3proxy.go UploadFile: in whatever order any number of workers upload, and
\* although the client library may repeat a PUT whose answer was lost, the object of
\* an upload that reported "created" holds that upload's data from then on, and an
\* object that was reported as "already_exists" stays there.
THEOREM ReportsStayTrue == UploadSpec => []ReportsAreTrue
<1>1. UploadInv => ReportsAreTrue
  BY DEF UploadInv, Objects, ReportsAreTrue
<1> QED BY <1>1, UploadInitInv, NextInv, PTL DEF UploadSpec

\* disk.go Put, backendproxy.go and the proxies: the open file of a Put has one
\* holder until it is closed, for any number of Puts and workers and any queue.
THEOREM EveryHandleHasOneHolder == UploadSpec => []HandlesAccounted
<1>1. ASSUME UploadInv, NEW r \in Request
      PROVE  Cardinality(InQueue(r)) + Cardinality(InHand(r))
                 + (IF put[r] = "opened" THEN 1 ELSE 0)
               = IF handle[r] = "open" THEN 1 ELSE 0
  <2> USE <1>1 DEF UploadInv
  <2>1. Cardinality(InQueue(r)) = IF Queued(r) THEN 1 ELSE 0
    <3>1. CASE Queued(r)
      <4>1. PICK i \in 1 .. Len(queue) : queue[i].req = r
        BY <3>1 DEF Queued
      <4>2. InQueue(r) = {i}
        BY <4>1 DEF InQueue, OneHolder
      <4> QED BY <3>1, <4>2, FS_Singleton
    <3>2. CASE ~Queued(r)
      <4>1. InQueue(r) = {}
        BY <3>2 DEF InQueue, Queued
      <4> QED BY <3>2, <4>1, FS_EmptySet
    <3> QED BY <3>1, <3>2
  <2>2. Cardinality(InHand(r)) = IF Held(r) THEN 1 ELSE 0
    <3>1. CASE Held(r)
      <4>1. PICK w \in Worker : worker[w].item.req = r
        BY <3>1 DEF Held
      <4>2. worker[w].item # NoItem
        BY <4>1, IdleItem
      <4>3. InHand(r) = {w}
        BY <4>1, <4>2 DEF InHand, OneHolder
      <4> QED BY <3>1, <4>3, FS_Singleton
    <3>2. CASE ~Held(r)
      <4>1. InHand(r) = {}
        BY <3>2 DEF InHand, Held
      <4> QED BY <3>2, <4>1, FS_EmptySet
    <3> QED BY <3>1, <3>2
  <2>3. /\ ~(Queued(r) /\ Held(r))
        /\ put[r] = "opened" => ~Queued(r) /\ ~Held(r)
        /\ handle[r] = "open" <=> put[r] = "opened" \/ Queued(r) \/ Held(r)
    BY DEF OneHolder, Queued, Held
  <2> QED BY <2>1, <2>2, <2>3
<1>2. UploadInv => HandlesAccounted
  BY <1>1 DEF HandlesAccounted
<1> QED BY <1>2, UploadInitInv, NextInv, PTL DEF UploadSpec
=============================================================================
