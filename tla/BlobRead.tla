----------------------------- MODULE BlobRead ------------------------------
(***************************************************************************)
(* A CAS blob is written to its file, perhaps by a process that stops half *)
(* way, and then read by one request: ByteStream.Read, an HTTP GET or an   *)
(* entry of BatchReadBlobs, compressed or not, from an offset, with a      *)
(* limit.  The file is a casblob (module CasBlob), or raw when the storage *)
(* mode is uncompressed; a raw file is compressed on the fly by a          *)
(* goroutine that feeds a pipe.                                            *)
(*                                                                         *)
(* Sources: casblob.WriteAndClose and the readers of casblob.go,           *)
(* diskCache.get and availableOrTryProxy (without a proxy backend),        *)
(* grpcServer.Read, getBlobResponse and getBlobData, httpCache.CacheHandler*)
(* for GET.  Which file a key leads to is the subject of DiskCache.        *)
(***************************************************************************)
EXTENDS CasBlob

CONSTANTS
  BlobSize,        \* set of sizes of the blob
  CompressedSize,  \* set of sizes that a chunk may compress to
  Surplus,         \* bytes that an upload delivers too many if it is too long
  Request,         \* set of requests [front, zstd, size, offset, limit]
  MaxRead          \* most bytes that one Read call delivers (maxChunkSize)

ASSUME BlobReadAssumption ==
  /\ BlobSize \subseteq Nat \ {0}
  /\ CompressedSize \subseteq Nat \ {0}
  /\ MaxRead \in Nat \ {0}
  /\ Surplus \in Nat \ {0}
  /\ Request \subseteq [front : {"bytestream", "http", "batch"}, zstd : BOOLEAN,
                        size : Int, offset : Int, limit : Int]
  \* Only ByteStream.Read knows of offsets.
  /\ \A r \in Request : r.front # "bytestream" => r.offset = 0

VARIABLES
  size,    \* the true size of the blob
  raw,     \* the file is stored uncompressed
  file,    \* the file, see CasBlob; when it is raw, size is all the bytes it has
  wpc,     \* how far the writer is
  body,    \* what the upload delivers: the blob, the start of it, the blob and
           \* more, or other bytes in the same number
  req,     \* the request that reads
  found,   \* the size that the cache reports for what it found
  pc,      \* how far its handler is
  rest,    \* what the reader will still deliver
  sent,    \* what the client was sent
  limit,   \* sendLimitRemaining
  res,     \* the answer
  open,    \* number of open handles of the file
  enc,     \* the compressing goroutine: state, and what it has still to read
  pipe,    \* the frame it is trying to write, and whether an end is closed
  client   \* the client is still there

writerVars == <<size, raw, file, wpc, body>>
encVars == <<enc, pipe>>
vars == <<writerVars, req, found, pc, rest, sent, limit, res, open, encVars, client>>

Init ==
  /\ size \in BlobSize
  /\ raw \in BOOLEAN
  /\ body \in {"good", "short", "long", "other"}
  /\ file = EmptyFile
  /\ wpc = "header"
  /\ req \in Request
  /\ found = 0
  /\ pc = "start"
  /\ rest = <<>> /\ sent = <<>>
  /\ limit = req.limit
  /\ res = "none"
  /\ open = 0
  /\ enc = [pc |-> "none", todo |-> <<0, 0>>]
  /\ pipe = [frame |-> <<>>, closed |-> FALSE, failed |-> FALSE]
  /\ client = TRUE

---------------------------------------------------------------------------
(* WriteAndClose.                                                          *)

reading == <<req, found, pc, rest, sent, limit, res, open, encVars, client>>

\* A raw file is copied and its length, not its hash, is compared with the
\* expected one.
WriteRaw ==
  /\ raw /\ wpc = "header"
  /\ wpc' \in {"failed"} \cup (IF body \in {"short", "long"} THEN {} ELSE {"done"})
  /\ file' = [EmptyFile EXCEPT !.size = size]
  /\ UNCHANGED <<size, raw, body, reading>>

WriteHeader ==
  /\ ~raw /\ wpc = "header"
  /\ file' = WithHeader(size)
  /\ wpc' = "chunks"
  /\ UNCHANGED <<size, raw, body, reading>>

\* A chunk is read whole; an upload that is too short shows at the last one.
WriteChunk ==
  /\ wpc = "chunks"
  /\ Len(file.frames) < numChunks(size)
  /\ ~(body = "short" /\ Len(file.frames) + 1 = numChunks(size))
  /\ \E len \in CompressedSize : file' = WithChunk(file, len)
  /\ UNCHANGED <<size, raw, wpc, body, reading>>

\* WriteTable as soon as the chunks are there.
WriteTable_BeforeTests ==
  /\ wpc = "chunks"
  /\ Len(file.frames) = numChunks(size)
  /\ file' = WithTable(file)
  /\ wpc' = IF body = "good" THEN "done" ELSE "failed"
  /\ UNCHANGED <<size, raw, body, reading>>

\* The offsets are filled in once the data is known to end here and to have
\* the right hash.
WriteTable ==
  /\ wpc = "chunks"
  /\ Len(file.frames) = numChunks(size)
  /\ body = "good"
  /\ file' = WithTable(file)
  /\ wpc' = "done"
  /\ UNCHANGED <<size, raw, body, reading>>

\* The upload is wrong, or a read or a write fails.  Put removes the file.
WriteFails ==
  /\ wpc = "chunks"
  /\ wpc' = "failed"
  /\ UNCHANGED <<size, raw, file, body, reading>>

\* How much of a raw file there may be when the process stops.
Delivered ==
  CASE body = "short"           -> size - 1
    [] body = "long"            -> size + Surplus
    [] body \in {"good", "other"} -> size

\* The process stops.  The next one finds the file and puts it into its
\* index, a casblob with the size that its name gives, a raw file with the
\* number of its bytes.
Crash ==
  /\ \/ ~raw /\ wpc = "chunks" /\ UNCHANGED file
     \/ /\ raw /\ wpc = "header"
        /\ \E n \in 0 .. Delivered : file' = [EmptyFile EXCEPT !.size = n]
  /\ wpc' = "torn"
  /\ UNCHANGED <<size, raw, body, reading>>

---------------------------------------------------------------------------
(* The handlers up to the open file.                                       *)

Answer(r) == pc' = "done" /\ res' = r

\* What Read refuses before it asks the cache, and what get refuses then.
ReadRefusal ==
  IF req.offset < 0 \/ (req.zstd /\ req.limit # 0) THEN "InvalidArgument"
  ELSE IF req.limit < 0 \/ req.offset > req.size THEN "OutOfRange"
  ELSE IF req.offset = req.size THEN "InvalidArgument"
  ELSE "none"

Refusal ==
  CASE req.front = "bytestream" -> ReadRefusal
    [] req.front = "batch"      -> IF ~req.zstd /\ req.size < 0 THEN "Internal"
                                                               ELSE "none"
    [] req.front = "http"       -> "none"

Ready == pc = "start" /\ wpc \in {"done", "torn", "failed"}

\* A resource name, a URL or a digest that cannot be parsed.
RefuseWith(front, answer) ==
  /\ Ready /\ req.front = front
  /\ Answer(answer)
  /\ UNCHANGED <<writerVars, req, found, rest, sent, limit, open, encVars, client>>

RefuseName == RefuseWith("bytestream", "InvalidArgument")
RefuseURL == RefuseWith("http", "BadRequest")
RefuseDigest == RefuseWith("batch", "InvalidArgument")

Refuse ==
  /\ Ready /\ req.size # 0 /\ Refusal # "none"
  /\ Answer(Refusal)
  /\ UNCHANGED <<writerVars, req, found, rest, sent, limit, open, encVars, client>>

\* The empty blob is never stored; it is answered without the cache's files,
\* in its compressed form by a message that may fail to be sent.
ReadEmpty ==
  /\ Ready /\ req.size = 0
  /\ \/ Answer("Empty")
     \/ req.front = "bytestream" /\ req.zstd /\ Answer("Unknown")
  /\ UNCHANGED <<writerVars, req, found, rest, sent, limit, open, encVars, client>>

\* The cache is asked.
Asking == Ready /\ Refusal = "none" /\ req.size # 0

\* Nothing is there, its size is another one, or its file cannot be opened
\* or decoded: a warning in the log and a miss.
Miss ==
  /\ Asking
  /\ Answer("NotFound")
  /\ UNCHANGED <<writerVars, req, found, rest, sent, limit, open, encVars, client>>

\* An unknown size fits; BatchReadBlobs compares it with the found one.
SizeFits == req.size = file.size \/ (req.size = -1 /\ req.front # "batch")

\* The blob is read from a casblob file, after the tests of its header.
OpenCasblob ==
  /\ Asking
  /\ ~raw /\ wpc # "failed" /\ SizeFits
  /\ readHeader(file)
  /\ pc' = "stream"
  /\ rest' = StreamFrom(file, req.offset)
  /\ open' = IF ClosedEarly(file, req.offset) THEN 0 ELSE 1
  /\ found' = file.size
  /\ UNCHANGED <<writerVars, req, sent, limit, res, encVars, client>>

\* The blob is read from a raw file, directly or through the compressor.
OpenRaw ==
  /\ Asking
  /\ raw /\ wpc # "failed" /\ SizeFits
  /\ pc' = "stream"
  /\ open' = 1
  /\ found' = file.size
  /\ IF req.zstd
     THEN /\ enc' = [pc |-> "run", todo |-> <<req.offset, file.size>>]
          /\ rest' = <<>>
     ELSE /\ rest' = IF file.size = 0 THEN <<>> ELSE << <<req.offset, file.size>> >>
          /\ UNCHANGED enc
  /\ UNCHANGED <<writerVars, req, sent, limit, res, pipe, client>>

---------------------------------------------------------------------------
(* The loop that reads and sends.                                          *)

Close(r) == pc' = "close" /\ res' = r

Limited == req.front = "bytestream" /\ req.limit # 0 /\ ~req.zstd

\* What becomes of n bytes that were read, as the interval part.
Send(part) ==
  LET n == part[2] - part[1]
  IN  IF Limited /\ limit - n < 0
      THEN Close("OutOfRange") /\ UNCHANGED <<sent, limit>>
      ELSE \/ /\ sent' = Append(sent, part)
              /\ limit' = IF Limited THEN limit - n ELSE limit
              /\ UNCHANGED <<pc, res>>
           \/ /\ ~client /\ req.front # "batch"
              /\ Close("Unknown")
              /\ UNCHANGED <<sent, limit>>

Streaming == pc = "stream"

\* A Read returns some bytes of an uncompressed stream, or a frame of a
\* compressed one.
ReadSome ==
  /\ Streaming /\ rest # <<>>
  /\ LET part == Head(rest)
     IN  \E n \in 1 .. part[2] - part[1] :
           /\ IF req.zstd THEN n = part[2] - part[1] ELSE n <= MaxRead
           /\ Send(<<part[1], part[1] + n>>)
           /\ rest' = IF n = part[2] - part[1]
                      THEN Tail(rest)
                      ELSE << <<part[1] + n, part[2]>> >> \o Tail(rest)
  /\ UNCHANGED <<writerVars, req, found, open, encVars, client>>

\* A Read takes what the compressor is writing.
ReadPipe ==
  /\ Streaming /\ pipe.frame # <<>>
  /\ Send(pipe.frame)
  /\ pipe' = [pipe EXCEPT !.frame = <<>>]
  /\ UNCHANGED <<writerVars, req, found, rest, open, enc, client>>

AtEnd == rest = <<>> /\ pipe.frame = <<>> /\ enc.pc \in {"none", "done"}

ReadEOF ==
  /\ Streaming /\ AtEnd /\ ~pipe.failed
  /\ Close("OK")
  /\ UNCHANGED <<writerVars, req, found, rest, sent, limit, open, encVars, client>>

\* The answer to a failure in the middle.  The HTTP handler just returns:
\* a client that was told a length sees that the body is too short, but a
\* compressed body has no length and simply ends.
FailureAnswer ==
  CASE req.front = "bytestream"           -> "Unknown"
    [] req.front = "batch"                -> "Internal"
    [] req.front = "http" /\ ~req.zstd    -> "Broken"
    [] req.front = "http" /\ req.zstd     -> "CutShort"

\* A Read fails, in the file, in the decoder, or in the compressor.
ReadError ==
  /\ Streaming
  /\ enc.pc = "none" \/ (AtEnd /\ pipe.failed)
  /\ Close(FailureAnswer)
  /\ UNCHANGED <<writerVars, req, found, rest, sent, limit, open, encVars, client>>

\* A handler that closes only what it has read to the end.
CloseReader_OnlyOK ==
  /\ pc = "close"
  /\ pc' = "done"
  /\ IF res # "OK" THEN UNCHANGED <<open, pipe>>
     ELSE IF enc.pc # "none"
     THEN pipe' = [pipe EXCEPT !.closed = TRUE, !.frame = <<>>] /\ UNCHANGED open
     ELSE open' = 0 /\ UNCHANGED pipe
  /\ UNCHANGED <<writerVars, req, found, rest, sent, limit, res, enc, client>>

\* rc.Close: the pipe's reading end, or the file if the reader has it open.
CloseReader ==
  /\ pc = "close"
  /\ pc' = "done"
  /\ IF enc.pc # "none"
     THEN pipe' = [pipe EXCEPT !.closed = TRUE, !.frame = <<>>] /\ UNCHANGED open
     ELSE open' = 0 /\ UNCHANGED pipe
  /\ UNCHANGED <<writerVars, req, found, rest, sent, limit, res, enc, client>>

---------------------------------------------------------------------------
(* The compressor of GetLegacyZstdReadCloser.                              *)

\* It compresses a part of the file and writes it to the pipe, which blocks
\* until the frame is read.
EncWrite ==
  /\ enc.pc = "run" /\ pipe.frame = <<>> /\ ~pipe.closed
  /\ \E b \in enc.todo[1] + 1 .. enc.todo[2] :
       /\ pipe' = [pipe EXCEPT !.frame = <<enc.todo[1], b>>]
       /\ enc' = [enc EXCEPT !.todo = <<b, enc.todo[2]>>]
  /\ UNCHANGED <<writerVars, req, found, pc, rest, sent, limit, res, open, client>>

\* It ends when the file is read, when a read fails, or when a write fails
\* because nobody reads any more; the file is closed in each case.
EncEnd ==
  /\ enc.pc = "run" /\ pipe.frame = <<>>
  /\ \/ enc.todo[1] = enc.todo[2] /\ UNCHANGED pipe
     \/ pipe' = [pipe EXCEPT !.failed = TRUE]
  /\ enc' = [enc EXCEPT !.pc = "done"]
  /\ open' = open - 1
  /\ UNCHANGED <<writerVars, req, found, pc, rest, sent, limit, res, client>>

ClientLeaves ==
  /\ client /\ pc = "stream"
  /\ client' = FALSE
  /\ UNCHANGED <<writerVars, req, found, pc, rest, sent, limit, res, open, encVars>>

---------------------------------------------------------------------------
Write == WriteRaw \/ WriteHeader \/ WriteChunk \/ WriteTable \/ WriteFails

Handle == \/ RefuseName \/ RefuseURL \/ RefuseDigest \/ Refuse
          \/ ReadEmpty \/ Miss \/ OpenCasblob \/ OpenRaw
          \/ ReadSome \/ ReadPipe \/ ReadEOF \/ ReadError \/ CloseReader

Compress == EncWrite \/ EncEnd

\* The request is answered and nothing is left behind.
Finished == pc = "done" /\ open = 0 /\ enc.pc \in {"none", "done"}

Next == \/ Write \/ Crash \/ Handle \/ Compress \/ ClientLeaves
        \/ pc = "done" /\ UNCHANGED vars

Spec == Init /\ [][Next]_vars

\* The writer, the handler and the compressor are goroutines that run until
\* they block; a client that takes nothing any more is one that leaves.
FairSpec == Spec /\ WF_vars(Write) /\ WF_vars(Handle) /\ WF_vars(Compress)

---------------------------------------------------------------------------
(* Properties.                                                             *)

\* casblob.go readHeader: a file that a process left half-written, or that
\* got contents with the wrong length or hash, is never accepted: what the
\* header test lets through is a whole file whose table leads to its frames.
AcceptedIsWhole == (~raw /\ readHeader(file)) => (Whole(file) /\ body = "good")

\* A raw file that a process left half-written is found by a request that
\* does not say the size of the blob, or says another one.
TornRaw == raw /\ wpc = "torn" /\ req.size # size

\* grpc_bytestream.go Read, http.go GET, grpc_cas.go BatchReadBlobs: what a
\* client has been sent is, at any moment, a gapless run of bytes from its
\* offset, no longer than its limit, and after a success it reaches the end
\* of the blob; a client that names the blob's size never gets another one.
\* The bytes are the blob's unless the file is raw and the upload had others:
\* without compression only their number is compared.  Further exceptions are
\* a raw file that is torn, which a request without a size takes for the
\* blob, and the compressed body of an HTTP GET that failed half way, which
\* ends like a complete one.
SentIsRight ==
  /\ sent # <<>> =>
       /\ Covers(sent, req.offset, sent[Len(sent)][2])
       /\ Limited => sent[Len(sent)][2] - req.offset <= req.limit
       /\ body = "other" => raw
  /\ sent # <<>> \/ res = "OK" => found = size \/ TornRaw
  /\ res = "OK" => Covers(sent, req.offset, found)
  /\ res = "CutShort" => req.front = "http" /\ req.zstd

\* Every request is answered, its file is closed and the compressor has
\* ended, also when the client leaves in the middle of a compressed read.
ReadsEnd == <>Finished
============================================================================
