---------------------------- MODULE FindMissing -----------------------------
(***************************************************************************)
(* findMissingCasBlobsInternal of cache/disk/findmissing.go: concurrent    *)
(* calls look a list of digests up in the local index, batch by batch, and *)
(* start a goroutine for every local miss that the proxy backend may have. *)
(* A semaphore shared by all calls limits the goroutines.  In a fail-fast  *)
(* call (the validation of an action result) the first proxy miss cancels  *)
(* the others.                                                             *)
(*                                                                         *)
(* The slice of digests is the set of the positions that are not nil yet.  *)
(* What the index and the backend hold is fixed while the calls run.  The  *)
(* backend is external: Contains finds what is there unless the context is *)
(* done, when it may fail, which reads as a miss.                          *)
(***************************************************************************)
EXTENDS Integers, FiniteSets, FiniteSetsExt

CONSTANTS
    Call,      \* the concurrent calls
    FailFast,  \* the calls that are fail-fast
    N,         \* the number of digests in a call
    BatchSize, \* how many are looked up with the lock held
    Slots,     \* maxConcurrentContainsChecks
    HasProxy,  \* whether there is a proxy backend
    Oversize,  \* the positions of blobs larger than maxProxyBlobSize
    MayCancel  \* whether clients may cancel a call

Pos == 1 .. N

ASSUME FindAssumption ==
    /\ IsFiniteSet(Call)
    /\ FailFast \subseteq Call
    /\ N \in Nat
    /\ BatchSize \in Nat \ {0}
    /\ Slots \in Nat \ {0}
    /\ Oversize \subseteq Pos

VARIABLES
    call,   \* the state of each call
    check,  \* the state of the goroutine for each call and position
    held,   \* how much of containsSem is taken
    local,  \* the positions whose blob is in the local index
    remote  \* the positions whose blob the backend has, of those it is asked about

vars == <<call, check, held, local, remote>>

-----------------------------------------------------------------------------

\* next is the start of remaining, at the loop index in the current chunk.
NewCall ==
    [pc |-> "loop", next |-> 1, at |-> 1, blobs |-> Pos, ctxDone |-> FALSE,
     cancelledDueToFailFast |-> FALSE, clientGone |-> FALSE, result |-> "none"]

Init ==
    /\ call = [c \in Call |-> NewCall]
    /\ check = [c \in Call |-> [i \in Pos |-> "none"]]
    /\ held = 0
    /\ local \in SUBSET Pos
    /\ remote \in SUBSET (Pos \ (local \cup Oversize))

\* A return; the deferred cancel of a fail-fast call ends its context, and the
\* loop variables are gone.
Return(c, result) ==
    call' = [call EXCEPT ![c].pc = "returned", ![c].result = result,
                         ![c].next = 1, ![c].at = 1,
                         ![c].ctxDone = @ \/ (c \in FailFast /\ HasProxy)]

\* The error when the context is found to be done.
Cancelled(c) ==
    IF call[c].cancelledDueToFailFast THEN "errMissingBlob" ELSE "errRequestCancelled"

Chunk_Short(q) == q.next .. Min({q.next + BatchSize - 2, N})

\* The batch at the start of remaining.
Chunk(q) == q.next .. Min({q.next + BatchSize - 1, N})

\* The digests of a chunk that the local index does not have.
findMissingLocalCAS(chunk) == chunk \ local

\* One round of the loop over the batches.
NextBatch(c) ==
    LET q       == call[c]
        chunk   == Chunk(q)
        missing == findMissingLocalCAS(chunk)
        looked  == [q EXCEPT !.blobs = @ \ (chunk \ missing),
                             !.at = q.next, !.next = q.next + BatchSize]
    IN  /\ q.pc = "loop" /\ q.next <= N
        /\ CASE q.ctxDone -> Return(c, Cancelled(c))
             [] ~q.ctxDone /\ missing # {} /\ ~HasProxy /\ c \in FailFast ->
                  Return(c, "errMissingBlob")
             [] OTHER -> call' = [call EXCEPT ![c] =
                  IF missing # {} /\ HasProxy THEN [looked EXCEPT !.pc = "dispatch"]
                                              ELSE looked]
        /\ UNCHANGED <<check, held, local, remote>>

\* After the last batch.
BatchesDone(c) ==
    /\ call[c].pc = "loop" /\ call[c].next > N
    /\ IF HasProxy THEN call' = [call EXCEPT ![c].pc = "wait"] ELSE Return(c, "nil")
    /\ UNCHANGED <<check, held, local, remote>>

\* The digests of the chunk that the loop over it has still to deal with.
Todo(q) == {i \in q.blobs : q.at <= i /\ i < q.next}

\* One round of the loop over a chunk, for its next digest that is not nil: skip
\* it, fail, or acquire the semaphore and start the goroutine.  Acquire waits for
\* a slot, and fails once the context is done.
Dispatch(c) ==
    LET q == call[c]
        i == Min(Todo(q))
    IN  /\ q.pc = "dispatch" /\ Todo(q) # {}
        /\ \/ /\ i \in Oversize
              /\ IF c \in FailFast THEN Return(c, "errMissingBlob")
                                   ELSE call' = [call EXCEPT ![c].at = i + 1]
              /\ UNCHANGED <<check, held>>
           \/ /\ i \notin Oversize /\ q.ctxDone
              /\ Return(c, Cancelled(c))
              /\ UNCHANGED <<check, held>>
           \/ /\ i \notin Oversize /\ ~q.ctxDone
              /\ held < Slots
              /\ held' = held + 1
              /\ check' = [check EXCEPT ![c][i] = "new"]
              /\ call' = [call EXCEPT ![c].at = i + 1]
        /\ UNCHANGED <<local, remote>>

ChunkDone_SameBatch(c) ==
    /\ call[c].pc = "dispatch" /\ Todo(call[c]) = {}
    /\ call' = [call EXCEPT ![c].pc = "loop", ![c].next = @ - BatchSize]
    /\ UNCHANGED <<check, held, local, remote>>

ChunkDone(c) ==
    /\ call[c].pc = "dispatch" /\ Todo(call[c]) = {}
    /\ call' = [call EXCEPT ![c].pc = "loop"]
    /\ UNCHANGED <<check, held, local, remote>>

\* The WaitGroup: the goroutines that have not called wg.Done.
Working(c) == {i \in Pos : check[c][i] \in {"new", "asking", "cancel", "finish"}}

Wait_NotAtAll(c) ==
    /\ call[c].pc = "wait"
    /\ Return(c, IF call[c].ctxDone THEN Cancelled(c) ELSE "nil")
    /\ UNCHANGED <<check, held, local, remote>>

\* The last select.  When the context is done and the goroutines have finished
\* too, either branch may be taken.
Wait(c) ==
    /\ call[c].pc = "wait"
    /\ \/ call[c].ctxDone /\ Return(c, Cancelled(c))
       \/ Working(c) = {} /\ Return(c, "nil")
    /\ UNCHANGED <<check, held, local, remote>>

-----------------------------------------------------------------------------
(***************************************************************************)
(* processContainsCheck, in a goroutine of its own.                        *)
(***************************************************************************)

Goto(c, i, pc) == check' = [check EXCEPT ![c][i] = pc]

CheckStart(c, i) ==
    /\ check[c][i] = "new"
    /\ Goto(c, i, IF call[c].ctxDone THEN "finish" ELSE "asking")
    /\ UNCHANGED <<call, held, local, remote>>

CheckAnswer_NoReason(c, i) ==
    /\ check[c][i] = "asking"
    /\ IF i \in remote
       THEN /\ call' = [call EXCEPT ![c].blobs = @ \ {i}]
            /\ Goto(c, i, "finish")
       ELSE /\ Goto(c, i, IF c \in FailFast THEN "cancel" ELSE "finish")
            /\ UNCHANGED call
    /\ UNCHANGED <<held, local, remote>>

\* The answer of proxy.Contains.  A fail-fast call records why it is cancelled
\* before it cancels the context.
CheckAnswer(c, i) ==
    /\ check[c][i] = "asking"
    /\ \/ /\ i \in remote
          /\ call' = [call EXCEPT ![c].blobs = @ \ {i}]
          /\ Goto(c, i, "finish")
       \/ /\ i \notin remote \/ call[c].ctxDone
          /\ call' = [call EXCEPT ![c].cancelledDueToFailFast = @ \/ c \in FailFast]
          /\ Goto(c, i, IF c \in FailFast THEN "cancel" ELSE "finish")
    /\ UNCHANGED <<held, local, remote>>

CheckCancel(c, i) ==
    /\ check[c][i] = "cancel"
    /\ call' = [call EXCEPT ![c].ctxDone = TRUE]
    /\ Goto(c, i, "finish")
    /\ UNCHANGED <<held, local, remote>>

\* wg.Done, and after it the release of the semaphore.
CheckFinish(c, i) ==
    /\ check[c][i] = "finish"
    /\ Goto(c, i, "leaving")
    /\ UNCHANGED <<call, held, local, remote>>

CheckRelease_Twice(c, i) ==
    /\ check[c][i] = "leaving"
    /\ held' = held - 1
    /\ UNCHANGED <<call, check, local, remote>>

CheckRelease(c, i) ==
    /\ check[c][i] = "leaving"
    /\ held' = held - 1
    /\ Goto(c, i, "gone")
    /\ UNCHANGED <<call, local, remote>>

\* The client goes away: gRPC ends the context of the call.
ClientCancel(c) ==
    /\ MayCancel /\ call[c].pc # "returned"
    /\ ~call[c].clientGone
    /\ call' = [call EXCEPT ![c].clientGone = TRUE, ![c].ctxDone = TRUE]
    /\ UNCHANGED <<check, held, local, remote>>

-----------------------------------------------------------------------------

CallStep(c) ==
    NextBatch(c) \/ BatchesDone(c) \/ Dispatch(c) \/ ChunkDone(c) \/ Wait(c)

CheckStep(c, i) ==
    \/ CheckStart(c, i) \/ CheckAnswer(c, i) \/ CheckCancel(c, i)
    \/ CheckFinish(c, i) \/ CheckRelease(c, i)

\* Every call has returned and every goroutine has ended.
Quiet ==
    /\ \A c \in Call : call[c].pc = "returned"
    /\ \A c \in Call, i \in Pos : check[c][i] \in {"none", "gone"}

Rest == Quiet /\ UNCHANGED vars

Next ==
    \/ \E c \in Call : CallStep(c) \/ ClientCancel(c)
    \/ \E c \in Call, i \in Pos : CheckStep(c, i)
    \/ Rest

Spec == Init /\ [][Next]_vars

\* Go runs every goroutine that is ready, and the backend answers.  containsSem
\* serves the calls that wait for it first come, first served: a call whose turn
\* comes again and again is served, hence strong fairness.
Fairness ==
    /\ \A c \in Call : SF_vars(CallStep(c))
    /\ \A c \in Call, i \in Pos : WF_vars(CheckStep(c, i))

FairSpec == Spec /\ Fairness

-----------------------------------------------------------------------------
(***************************************************************************)
(* Properties.                                                             *)
(***************************************************************************)

\* The positions that are nowhere to be found.
Nowhere == Pos \ (local \cup IF HasProxy THEN remote ELSE {})

\* FindMissingCasBlobs without an error leaves exactly the digests that neither
\* the index nor the backend has, whatever the goroutines' order.
MissingExact ==
    \A c \in Call \ FailFast :
        call[c].result = "nil" /\ ~call[c].clientGone => call[c].blobs = Nowhere

\* FindMissingCasBlobs compacts the slice after a return without an error: no
\* goroutine may write to it any more.
SliceIsStable ==
    \A c \in Call : call[c].result = "nil" => Working(c) = {}

\* The errors give the true reason: a call says that a blob is missing only if one
\* is, or if its client has gone and a lookup failed for that, and it says that it
\* was cancelled only if its client cancelled it: the reason of an internal
\* cancellation is recorded before the context ends.
ErrorsAreTrue ==
    \A c \in Call :
        CASE call[c].result = "errMissingBlob" -> Nowhere # {} \/ call[c].clientGone
          [] call[c].result = "errRequestCancelled" -> call[c].clientGone
          [] OTHER -> TRUE

\* The semaphore is taken by the goroutines that have not released it, once each,
\* and never by more of them than it has slots.
SlotsAccounted ==
    /\ held = Cardinality({x \in Call \X Pos : check[x[1]][x[2]] \notin {"none", "gone"}})
    /\ held <= Slots

\* "When failFast is true and a blob could not be found in the local cache nor in
\* the proxy back end, the search will immediately terminate and errMissingBlob
\* will be returned": a fail-fast call that succeeds has found every blob.
FailFastComplete ==
    \A c \in FailFast : call[c].result = "nil" => call[c].blobs = {}

\* Every call returns, although calls share one semaphore and goroutines outlive
\* the calls that started them, and every goroutine ends.
AllEnd == <>[]Quiet
=============================================================================
