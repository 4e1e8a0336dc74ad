-------------------------- MODULE ByteStreamWrite ---------------------------
(***************************************************************************)
(* One call of ByteStream.Write (server/grpc_bytestream.go).  Three        *)
(* goroutines work on it: the receiver takes messages from the client's    *)
(* stream and writes their data to a pipe, the putter runs cache.Put on    *)
(* the other end of the pipe, the handler waits for either and answers.    *)
(* They meet in the pipe, which is synchronous, and in two channels of     *)
(* capacity 1 that are written at most once.                               *)
(*                                                                         *)
(* The client is external: it sends any messages, and may close the stream *)
(* or go away at any time.  Of the cache only what the call sees is kept:  *)
(* whether Contains finds the blob, which other requests and evictions may *)
(* change at any time, and how Put reads and ends.                         *)
(***************************************************************************)
EXTENDS Integers

CONSTANTS
    Size,       \* the blob sizes that clients announce
    Offset,     \* the write offsets that clients send
    MaxChunk,   \* bound: the largest data of one message
    MaxMessages \* bound: the messages in one call

ASSUME WriteAssumption ==
    /\ Size \subseteq Nat
    /\ Offset \subseteq Int
    /\ MaxChunk \in Nat
    /\ MaxMessages \in Nat

VARIABLES
    res,        \* cmp and size, from the resource name
    rcv,        \* the receiver: at Recv, in pw.Write, or ended
    msg,        \* the message whose data it writes
    msgs,       \* how many messages it has received
    committed,  \* resp.CommittedSize
    put,        \* the putter: not started, copying, discarding, or ended
    copied,     \* the bytes it has taken from the pipe
    pipe,       \* open, or closed by the handler with or without an error
    recvResult, \* what was sent to the channel of this name
    putResult,  \* the same; io.EOF, for a blob that exists, is "exists"
    handler,    \* the handler: at the select, waiting for Put, or returned
    result,     \* what it returned
    stored,     \* whether the cache has the blob
    origin      \* history: how this call knows that the cache had the blob

receiver == <<res, rcv, msg, msgs, committed, recvResult>>
writeVars == <<receiver, put, copied, pipe, putResult, handler, result, stored, origin>>

Message == [n : 0 .. MaxChunk, finish : BOOLEAN]
Resource == [cmp : {"identity", "zstd"}, size : Size]

TypeOK ==
    /\ res \in [cmp : {"identity", "zstd"}, size : Nat]
    /\ rcv \in {"recv", "write", "ended"}
    /\ msg \in Message
    /\ msgs \in Nat
    /\ committed \in Int
    /\ rcv # "ended" => committed \in Nat
    /\ put \in {"none", "copy", "drain", "ended"}
    /\ copied \in Nat
    /\ pipe \in {"open", "closed", "failed"}
    /\ recvResult \in {"none", "eof", "error"}
    /\ putResult \in {"none", "nil", "exists", "error"}
    /\ handler \in {"select", "wait", "returned"}
    /\ result \in {"none", "ok", "error", "internal"}
    /\ stored \in BOOLEAN
    /\ origin \in {"none", "found", "wrote"}

WriteInit ==
    /\ res = [cmp |-> "identity", size |-> 0]
    /\ rcv = "recv" /\ msg = [n |-> 0, finish |-> FALSE] /\ msgs = 0
    /\ committed = 0
    /\ put = "none" /\ copied = 0
    /\ pipe = "open"
    /\ recvResult = "none" /\ putResult = "none"
    /\ handler = "select" /\ result = "none"
    /\ stored \in BOOLEAN
    /\ origin = "none"

-----------------------------------------------------------------------------
(***************************************************************************)
(* The receiver.                                                           *)
(***************************************************************************)

EndReceive(verdict) == rcv' = "ended" /\ recvResult' = verdict

\* The verdict on c received bytes at the end of the data.  The length of
\* compressed data is not known in advance.
Verdict(c) == IF res.cmp = "identity" /\ c # res.size THEN "error" ELSE "eof"

\* Recv returns io.EOF, or an error.
RecvEnd ==
    /\ rcv = "recv"
    /\ EndReceive(Verdict(committed)) \/ EndReceive("error")
    /\ UNCHANGED <<res, msg, msgs, committed, put, copied, pipe, putResult,
                   handler, result, stored, origin>>

\* The first message: no resource name, or one that cannot be parsed.
RefuseName ==
    /\ rcv = "recv" /\ msgs = 0
    /\ msgs' = 1
    /\ EndReceive("error")
    /\ UNCHANGED <<res, msg, committed, put, copied, pipe, putResult,
                   handler, result, stored, origin>>

\* Contains finds every blob that is stored, and the empty blob.
Exists(r) == stored \/ r.size = 0

\* The first message, for a blob that the cache has: nothing is written.
SkipExisting(r) ==
    /\ rcv = "recv" /\ msgs = 0
    /\ Exists(r)
    /\ res' = r /\ msgs' = 1
    /\ committed' = IF r.cmp = "identity" THEN r.size ELSE -1
    /\ putResult' = "exists"
    /\ rcv' = "ended"
    /\ origin' = "found"
    /\ UNCHANGED <<msg, recvResult, put, copied, pipe, handler, result, stored>>

\* The first message: an offset other than zero, or no decoder to be had.
RefuseOffset(r, offset) ==
    /\ rcv = "recv" /\ msgs = 0
    /\ ~Exists(r)
    /\ offset # 0 \/ r.cmp = "zstd"
    /\ res' = r /\ msgs' = 1
    /\ committed' = offset
    /\ EndReceive("error")
    /\ UNCHANGED <<msg, put, copied, pipe, putResult, handler, result, stored, origin>>

\* The first message: start the putter, then write the data.
StartPut(r, offset, m) ==
    /\ rcv = "recv" /\ msgs = 0
    /\ ~Exists(r)
    /\ offset = 0
    /\ res' = r /\ msgs' = 1
    /\ committed' = offset
    /\ put' = "copy"
    /\ rcv' = "write" /\ msg' = m
    /\ UNCHANGED <<recvResult, copied, pipe, putResult, handler, result, stored, origin>>

\* A later message; its resource name is empty or that of the first.
NextMessage(m) ==
    /\ rcv = "recv" /\ msgs \in 1 .. MaxMessages - 1
    /\ msgs' = msgs + 1
    /\ rcv' = "write" /\ msg' = m
    /\ UNCHANGED <<res, committed, recvResult, put, copied, pipe, putResult,
                   handler, result, stored, origin>>

\* A later message with another resource name.
RefuseChangedName ==
    /\ rcv = "recv" /\ msgs \in 1 .. MaxMessages - 1
    /\ msgs' = msgs + 1
    /\ EndReceive("error")
    /\ UNCHANGED <<res, msg, committed, put, copied, pipe, putResult,
                   handler, result, stored, origin>>

\* How the receiver goes on when c bytes are written.
AfterWrite(c) ==
    IF res.cmp = "identity" /\ c > res.size
    THEN EndReceive("error")
    ELSE IF msg.finish
         THEN EndReceive(Verdict(c))
         ELSE rcv' = "recv" /\ UNCHANGED recvResult

\* pw.Write returns when the putter has taken the data.  It cannot fail: nobody
\* closes the read end, and the handler closes the write end only after the
\* receiver has ended.
PipeWrite ==
    /\ rcv = "write"
    /\ put \in {"copy", "drain"}
    /\ copied' = copied + msg.n
    /\ committed' = committed + msg.n
    /\ AfterWrite(committed')
    /\ UNCHANGED <<res, msg, msgs, put, pipe, putResult, handler, result, stored, origin>>

-----------------------------------------------------------------------------
(***************************************************************************)
(* The putter: cache.Put with the read end of the pipe, or with a decoder  *)
(* on it.                                                                  *)
(***************************************************************************)

PutFails_NoDrain ==
    /\ put = "copy"
    /\ put' = "ended" /\ putResult' = "error"
    /\ UNCHANGED <<receiver, copied, pipe, handler, result, stored, origin>>

\* Put fails before or while it stores the data: the deferred io.Copy to
\* io.Discard reads on.
PutFails ==
    /\ put = "copy"
    /\ put' = "drain"
    /\ UNCHANGED <<receiver, copied, pipe, putResult, handler, result, stored, origin>>

\* The decoder meets bytes that are not zstd data: every read fails from then
\* on, the deferred io.Copy returns at once, and nobody reads from the pipe.
DecodeFails ==
    /\ put \in {"copy", "drain"}
    /\ res.cmp = "zstd" /\ copied > 0
    /\ put' = "ended" /\ putResult' = "error"
    /\ UNCHANGED <<receiver, copied, pipe, handler, result, stored, origin>>

PutEnds_AtSize ==
    /\ put \in {"copy", "drain"}
    /\ put' = "ended"
    /\ \/ /\ put = "copy"
          /\ IF res.cmp = "identity" THEN copied = res.size ELSE copied > 0
          /\ putResult' = "nil" /\ stored' = TRUE /\ origin' = "wrote"
       \/ pipe # "open" /\ putResult' = "error" /\ UNCHANGED <<stored, origin>>
    /\ UNCHANGED <<receiver, copied, pipe, handler, result>>

\* The end of the pipe.  After io.EOF the blob is committed if its size is right
\* and no file operation fails.  Of compressed data the decoded size counts,
\* which may be right for any data but none at all: an empty blob is never put.
PutEnds ==
    /\ put \in {"copy", "drain"}
    /\ pipe # "open"
    /\ put' = "ended"
    /\ \/ /\ put = "copy" /\ pipe = "closed"
          /\ IF res.cmp = "identity" THEN copied = res.size ELSE copied > 0
          /\ putResult' = "nil" /\ stored' = TRUE /\ origin' = "wrote"
       \/ putResult' = "error" /\ UNCHANGED <<stored, origin>>
    /\ UNCHANGED <<receiver, copied, pipe, handler, result>>

-----------------------------------------------------------------------------
(***************************************************************************)
(* The handler.                                                            *)
(***************************************************************************)

Return(r) == handler' = "returned" /\ result' = r

\* SendAndClose, which may fail.
SendAndClose == Return("ok") \/ Return("error")

SelectRecv_PlainClose ==
    /\ handler = "select" /\ recvResult # "none"
    /\ pipe' = "closed"
    /\ IF recvResult = "eof" THEN handler' = "wait" /\ UNCHANGED result
                             ELSE Return("error")
    /\ UNCHANGED <<receiver, put, copied, putResult, stored, origin>>

SelectRecv_NoClose ==
    /\ handler = "select"
    /\ \/ /\ recvResult = "eof"
          /\ handler' = "wait" /\ UNCHANGED <<pipe, result>>
       \/ /\ recvResult = "error"
          /\ pipe' = "failed"
          /\ Return("error")
    /\ UNCHANGED <<receiver, put, copied, putResult, stored, origin>>

\* The select takes the receiver's verdict.
SelectRecv ==
    /\ handler = "select"
    /\ \/ /\ recvResult = "eof"
          /\ pipe' = "closed"
          /\ handler' = "wait" /\ UNCHANGED result
       \/ /\ recvResult = "error"
          /\ pipe' = "failed"
          /\ Return("error")
    /\ UNCHANGED <<receiver, put, copied, putResult, stored, origin>>

\* The select takes the result of Put, or the receiver's word that the blob
\* exists.  Success is not expected here.
SelectPut ==
    /\ handler = "select" /\ putResult # "none"
    /\ CASE putResult = "exists" -> SendAndClose
         [] putResult = "nil"    -> Return("internal")
         [] putResult = "error"  -> Return("error")
    /\ UNCHANGED <<receiver, put, copied, pipe, putResult, stored, origin>>

AwaitPut_IgnoresError ==
    /\ handler = "wait" /\ putResult # "none"
    /\ SendAndClose
    /\ UNCHANGED <<receiver, put, copied, pipe, putResult, stored, origin>>

\* The data has ended: wait for Put.
AwaitPut ==
    /\ handler = "wait" /\ putResult # "none"
    /\ IF putResult = "error" THEN Return("error") ELSE SendAndClose
    /\ UNCHANGED <<receiver, put, copied, pipe, putResult, stored, origin>>

-----------------------------------------------------------------------------

\* Another request stores the blob, or it is evicted.
OthersStoreOrEvict ==
    /\ stored' = ~stored
    /\ UNCHANGED <<receiver, put, copied, pipe, putResult, handler, result, origin>>

Recv ==
    \/ RecvEnd
    \/ RefuseName
    \/ \E r \in Resource : SkipExisting(r)
    \/ \E r \in Resource, offset \in Offset : RefuseOffset(r, offset)
    \/ \E r \in Resource, offset \in Offset, m \in Message : StartPut(r, offset, m)
    \/ \E m \in Message : NextMessage(m)
    \/ RefuseChangedName

Handler == SelectRecv \/ SelectPut \/ AwaitPut

WriteNext ==
    \/ Recv \/ PipeWrite
    \/ PutFails \/ DecodeFails \/ PutEnds
    \/ Handler
    \/ OthersStoreOrEvict

WriteSpec == WriteInit /\ [][WriteNext]_writeVars

\* Goroutines that can go on do so.  Recv returns in the end: gRPC fails it when
\* the client is gone or the handler has returned.  Put need not fail.
FairWriteSpec ==
    /\ WriteSpec
    /\ WF_writeVars(Recv) /\ WF_writeVars(PipeWrite)
    /\ WF_writeVars(PutEnds) /\ WF_writeVars(Handler)

-----------------------------------------------------------------------------
(***************************************************************************)
(* Properties.                                                             *)
(***************************************************************************)

\* A client that is told of success can rely on it: the cache had the blob when
\* the call began, or Put has committed it (the answers at lines 539, 568, 583).
\* The size in the answer, which the receiver counts and the handler reads
\* without a lock, is the size of the blob; for a compressed upload it is -1 or
\* the bytes received.
OkMeansStored ==
    result = "ok" =>
        /\ origin # "none"
        /\ committed \in IF res.cmp = "identity" THEN {res.size} ELSE {-1, copied}

\* Put commits a blob only when the receiver has found the data complete: after
\* an early end, too much data, a changed name or a broken connection the pipe
\* ends in an error that makes Put fail, although the handler does not wait for
\* it and the bytes so far may have been all of the blob.
OnlyWholeIsStored ==
    origin = "wrote" =>
        /\ recvResult = "eof"
        /\ copied = committed
        /\ res.cmp = "identity" => copied = res.size

\* The branch "Unexpected early return. Should not happen." is not taken: Put
\* does not succeed before the handler has closed the pipe.
NoEarlyReturn == result # "internal"

\* The client closed the stream before it sent a message: the receiver reports a
\* complete upload of no bytes, and the handler waits for a Put that never starts.
EmptyStream == handler = "wait" /\ put = "none"

\* Every call is answered, except one whose stream was empty.
CallIsAnswered == <>(handler = "returned" \/ EmptyStream)

\* The putter ends, and so does the receiver, except when the decoder of a
\* compressed upload fails while the receiver has data to write.
GoroutinesEnd ==
    <>(/\ put \in {"none", "ended"}
       /\ rcv = "ended" \/ (rcv = "write" /\ res.cmp = "zstd" /\ put = "ended"))
=============================================================================
