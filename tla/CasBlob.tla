------------------------------ MODULE CasBlob ------------------------------
(***************************************************************************)
(* The file format of compressed CAS blobs, cache/disk/casblob/casblob.go: *)
(* a header with a table of chunk offsets, then the chunks, each one a     *)
(* zstd frame of its own.                                                  *)
(*                                                                         *)
(* Contents are represented by the positions of the bytes: an interval     *)
(* <<a, b>> stands for the bytes a .. b - 1 of the blob.  A frame decodes  *)
(* to the interval that was compressed into it; its size on disk is        *)
(* arbitrary.  A stream is a sequence of intervals.                        *)
(***************************************************************************)
EXTENDS Integers, Sequences

CONSTANT ChunkSize    \* uncompressed bytes per chunk (defaultChunkSize)

ASSUME ChunkSizeAssumption == ChunkSize \in Nat \ {0}

\* Bytes before the chunk table: magic number, frame size, uncompressed
\* size, compression type, chunk size and number of offsets.
chunkTableOffset == 4 + 4 + 8 + 1 + 4 + 8

\* Size of a header with n chunk offsets.
headerSize(n) == chunkTableOffset + 8 * n

numChunks(size) ==
  size \div ChunkSize + (IF size % ChunkSize > 0 THEN 1 ELSE 0)

\* The end of chunk i (counted from 1) of a blob.
chunkEnd(size, i) == IF i * ChunkSize <= size THEN i * ChunkSize ELSE size

---------------------------------------------------------------------------
(* A file is [size, offsets, frames, length]: the uncompressed size and    *)
(* the chunk table in its header, the frames [at, len, from, to] after the *)
(* header, each with its place in the file and the interval it decodes to, *)
(* and the length of the file.                                             *)

\* The empty tempfile.
EmptyFile == [size |-> 0, offsets |-> <<>>, frames |-> <<>>, length |-> 0]

\* The header is written first, with a table whose entries are zero but for
\* the first.
WithHeader(size) ==
  LET n == numChunks(size) + 1
  IN  [size    |-> size,
       offsets |-> [i \in 1 .. n |-> IF i = 1 THEN chunkTableOffset ELSE 0],
       frames  |-> <<>>,
       length  |-> headerSize(n)]

\* The next chunk is compressed to len bytes and written at the end.
WithChunk(f, len) ==
  LET i == Len(f.frames) + 1
  IN  [f EXCEPT !.frames = Append(@, [at   |-> f.length,
                                      len  |-> len,
                                      from |-> (i - 1) * ChunkSize,
                                      to   |-> chunkEnd(f.size, i)]),
                !.length = @ + len]

\* The chunk offsets are filled in when all chunks are there.
WithTable(f) ==
  [f EXCEPT !.offsets = [i \in 1 .. Len(f.frames) + 1 |->
                           IF i <= Len(f.frames) THEN f.frames[i].at
                                                 ELSE f.length]]

\* The tests of readHeader; magic number and frame size are part of what
\* WithHeader writes at once.
readHeader(f) ==
  /\ f.length > chunkTableOffset + 16
  /\ Len(f.offsets) >= 2
  /\ \A i \in 1 .. Len(f.offsets) - 1 : f.offsets[i] < f.offsets[i + 1]
  /\ f.offsets[Len(f.offsets)] = f.length

---------------------------------------------------------------------------
(* Reading from an offset.                                                 *)

\* What a decoder delivers that starts at place pos of the file: the frames
\* from there on, if a frame starts there, and nothing but an error else.
NoFrame == <<<<-1, -1>>>>

FramesFrom(f, pos) ==
  IF pos = f.length THEN <<>>
  ELSE IF \E k \in 1 .. Len(f.frames) : f.frames[k].at = pos
       THEN LET k == CHOOSE k \in 1 .. Len(f.frames) : f.frames[k].at = pos
            IN  [j \in 1 .. Len(f.frames) - k + 1 |->
                   <<f.frames[k + j - 1].from, f.frames[k + j - 1].to>>]
       ELSE NoFrame

\* SeekTo that does not skip the first entry of the table.
SeekTo_OffByOne(f, chunkNum) ==
  IF chunkNum > 0 THEN f.offsets[chunkNum] ELSE headerSize(Len(f.offsets))

\* The place of the first chunk that is read: the file is left after its
\* header, and moved only for a chunk that is not the first.
SeekTo(f, chunkNum) ==
  IF chunkNum > 0 THEN f.offsets[chunkNum + 1] ELSE headerSize(Len(f.offsets))

\* GetUncompressedReadCloser and GetZstdReadCloser deliver the same bytes
\* (the second one compresses the rest of the first chunk again).
StreamFrom(f, offset) ==
  LET chunkNum  == offset \div ChunkSize
      remainder == offset % ChunkSize
      pos       == SeekTo(f, chunkNum)
      first     == FramesFrom(f, pos)[1]
      next      == pos + f.offsets[chunkNum + 2] - f.offsets[chunkNum + 1]
  IN  IF remainder = 0 THEN FramesFrom(f, pos)
      ELSE IF chunkNum = Len(f.offsets) - 2
           THEN << <<first[1] + remainder, first[2]>> >>
           ELSE << <<first[1] + remainder, first[2]>> >> \o FramesFrom(f, next)

\* Whether the readers close the file themselves: what they return for the
\* last chunk, from within, is in memory.
ClosedEarly(f, offset) ==
  /\ offset % ChunkSize # 0
  /\ offset \div ChunkSize = Len(f.offsets) - 2

---------------------------------------------------------------------------
(* What a reader may expect.                                               *)

\* The stream s is the bytes a .. b - 1, in order and without a gap.
Covers(s, a, b) ==
  IF s = <<>> THEN a = b
  ELSE /\ s[1][1] = a
       /\ s[Len(s)][2] = b
       /\ \A i \in 1 .. Len(s) - 1 : s[i][2] = s[i + 1][1]
       /\ \A i \in 1 .. Len(s) : s[i][1] < s[i][2]

\* The file holds the whole blob, and its table leads to the frames.
Whole(f) ==
  /\ f.size \in Nat \ {0}
  /\ Len(f.frames) = numChunks(f.size)
  /\ Len(f.offsets) = Len(f.frames) + 1
  /\ f.offsets[1] = headerSize(Len(f.offsets))
  /\ f.offsets[Len(f.offsets)] = f.length
  /\ \A i \in 1 .. Len(f.frames) :
       /\ f.frames[i].at = f.offsets[i]
       /\ f.frames[i].from = (i - 1) * ChunkSize
       /\ f.frames[i].to = chunkEnd(f.size, i)
       /\ f.offsets[i] < f.offsets[i + 1]
============================================================================
