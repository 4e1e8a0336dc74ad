-------------------------- MODULE BlobRead_proofs ---------------------------
(***************************************************************************)
(* Proofs about BlobRead, for any sizes of blobs, chunks and compressed    *)
(* chunks: a casblob file that the header test accepts is whole, wherever  *)
(* its writer stopped, the readers deliver it from any offset, and what a  *)
(* client is sent is what was found from its offset on, within its limit.  *)
(***************************************************************************)
EXTENDS BlobRead, TLAPS

\* What each frame of an unfinished file is.
Frame(f, i) ==
  /\ f.frames[i].from = (i - 1) * ChunkSize
  /\ f.frames[i].to = chunkEnd(f.size, i)
  /\ f.frames[i].at \in Nat /\ f.frames[i].len \in Nat \ {0}

\* The frames follow each other without a gap, from the header to the end.
Contiguous(f) ==
  /\ \A i \in 1 .. Len(f.frames) : Frame(f, i)
  /\ \A i \in 1 .. Len(f.frames) :
       f.frames[i].at = IF i = 1 THEN headerSize(numChunks(f.size) + 1)
                        ELSE f.frames[i - 1].at + f.frames[i - 1].len
  /\ f.length = IF Len(f.frames) = 0 THEN headerSize(numChunks(f.size) + 1)
                ELSE f.frames[Len(f.frames)].at + f.frames[Len(f.frames)].len

\* No two frames start at the same place, and none at the end of the file.
Ordered(f) ==
  /\ \A i, j \in 1 .. Len(f.frames) : i < j => f.frames[i].at < f.frames[j].at
  /\ \A i \in 1 .. Len(f.frames) : f.frames[i].at < f.length

Shape(f) ==
  f \in [size : Nat, offsets : Seq(Int), length : Nat,
         frames : Seq([at : Nat, len : Nat, from : Nat, to : Nat])]

\* The table as header.write leaves it: all entries but the first are zero.
BlankTable(f) ==
  f.offsets = [i \in 1 .. numChunks(f.size) + 1 |->
                 IF i = 1 THEN chunkTableOffset ELSE 0]

Unfinished(f) ==
  /\ Shape(f) /\ f.size \in BlobSize
  /\ BlankTable(f) /\ Contiguous(f) /\ Ordered(f)
  /\ Len(f.frames) <= numChunks(f.size)

\* A whole file in which a place leads to one frame.
Sound(f) == Whole(f) /\ Shape(f) /\ Ordered(f)

FileInv ==
  /\ size \in BlobSize
  /\ ~raw /\ wpc = "header" => file = EmptyFile
  /\ ~raw /\ wpc # "header" => file.size = size
  /\ ~raw /\ wpc \in {"chunks", "failed", "torn"} => Unfinished(file)
  /\ ~raw /\ wpc = "done" => Sound(file) /\ body = "good"
  /\ raw => file.size \in Nat /\ wpc # "chunks"
  /\ raw /\ wpc = "done" => file.size = size
  /\ wpc \in {"header", "chunks", "done", "failed", "torn"}

---------------------------------------------------------------------------

\* WriteAndClose: a blob that is not empty has at least one chunk.
LEMMA SomeChunk ==
  ASSUME NEW s \in Nat \ {0}
  PROVE  /\ numChunks(s) \in Nat \ {0}
         /\ \A i \in Nat \ {0} : chunkEnd(s, i) \in Nat
<1>1. s \div ChunkSize \in Nat /\ s % ChunkSize \in 0 .. ChunkSize - 1
  BY ChunkSizeAssumption
<1>2. s = ChunkSize * (s \div ChunkSize) + (s % ChunkSize)
  BY ChunkSizeAssumption
<1>3. s \div ChunkSize = 0 => s % ChunkSize > 0
  BY <1>1, <1>2, ChunkSizeAssumption
<1>4. numChunks(s) \in Nat \ {0}
  BY <1>1, <1>3 DEF numChunks
<1>5. \A i \in Nat \ {0} : i * ChunkSize \in Nat
  BY ChunkSizeAssumption
<1> QED
  BY <1>4, <1>5 DEF chunkEnd

\* readHeader: a file whose table is still blank is refused.
LEMMA UnfinishedIsRefused ==
  ASSUME NEW f, Unfinished(f)
  PROVE  ~readHeader(f)
<1>1. f.size \in Nat \ {0}
  BY BlobReadAssumption DEF Unfinished
<1>2. numChunks(f.size) \in Nat \ {0}
  BY <1>1, SomeChunk
<1>3. /\ Len(f.offsets) = numChunks(f.size) + 1
      /\ f.offsets[1] = chunkTableOffset /\ f.offsets[2] = 0
  <2>1. f.offsets = [i \in 1 .. numChunks(f.size) + 1 |->
                       IF i = 1 THEN chunkTableOffset ELSE 0]
    BY DEF Unfinished, BlankTable
  <2>2. DOMAIN f.offsets = 1 .. numChunks(f.size) + 1
    BY <2>1
  <2>3. Len(f.offsets) = numChunks(f.size) + 1
    BY <2>2, <1>2 DEF Unfinished, Shape
  <2> QED BY <1>2, <2>1, <2>3
<1> QED
  BY <1>2, <1>3 DEF readHeader, chunkTableOffset

\* header.write: the file that starts with its header is unfinished.
LEMMA HeaderIsUnfinished ==
  ASSUME NEW s \in BlobSize
  PROVE  Unfinished(WithHeader(s)) /\ WithHeader(s).size = s
<1>1. s \in Nat \ {0} /\ numChunks(s) \in Nat \ {0}
  BY BlobReadAssumption, SomeChunk
<1>2. [i \in 1 .. numChunks(s) + 1 |-> IF i = 1 THEN chunkTableOffset ELSE 0] \in Seq(Int)
  BY <1>1 DEF chunkTableOffset
<1>3. headerSize(numChunks(s) + 1) \in Nat
  BY <1>1 DEF headerSize, chunkTableOffset
<1>4. Shape(WithHeader(s))
  BY <1>1, <1>2, <1>3 DEF WithHeader, Shape
<1> QED
  BY <1>1, <1>4 DEF WithHeader, Unfinished, BlankTable, Contiguous, Ordered

\* WriteAndClose: the next chunk continues the frames.
LEMMA ChunkIsUnfinished ==
  ASSUME NEW f, Unfinished(f), Len(f.frames) < numChunks(f.size),
         NEW len \in CompressedSize
  PROVE  Unfinished(WithChunk(f, len)) /\ WithChunk(f, len).size = f.size
<1> DEFINE g == WithChunk(f, len)
           n == Len(f.frames)
           new == [at |-> f.length, len |-> len, from |-> n * ChunkSize,
                   to |-> chunkEnd(f.size, n + 1)]
<1>1. /\ f.size \in Nat \ {0} /\ numChunks(f.size) \in Nat \ {0}
      /\ n \in Nat /\ f.length \in Nat /\ len \in Nat \ {0}
      /\ f.frames \in Seq([at : Nat, len : Nat, from : Nat, to : Nat])
  <2>1. f.size \in Nat \ {0} /\ len \in Nat \ {0}
    BY BlobReadAssumption DEF Unfinished
  <2>2. numChunks(f.size) \in Nat \ {0}
    BY <2>1, SomeChunk
  <2>3. f.frames \in Seq([at : Nat, len : Nat, from : Nat, to : Nat]) /\ f.length \in Nat
    BY DEF Unfinished, Shape
  <2>4. n \in Nat
    BY <2>3
  <2> QED BY <2>1, <2>2, <2>3, <2>4
<1>2. n * ChunkSize \in Nat /\ chunkEnd(f.size, n + 1) \in Nat
  <2>1. n * ChunkSize \in Nat
    BY <1>1, ChunkSizeAssumption
  <2>2. chunkEnd(f.size, n + 1) \in Nat
    <3>1. \A i \in Nat \ {0} : chunkEnd(f.size, i) \in Nat
      BY <1>1, SomeChunk
    <3>2. n + 1 \in Nat \ {0}
      BY <1>1
    <3> QED BY <3>1, <3>2
  <2> QED BY <2>1, <2>2
<1>3. new \in [at : Nat, len : Nat, from : Nat, to : Nat]
  BY <1>1, <1>2
<1>4. /\ g.size = f.size /\ g.offsets = f.offsets /\ g.length = f.length + len
      /\ g.frames = Append(f.frames, new)
  <2>1. n + 1 - 1 = n
    BY <1>1
  <2> QED BY <2>1, <1>1 DEF WithChunk, Unfinished, Shape
<1>5. /\ Len(g.frames) = n + 1 /\ g.frames[n + 1] = new
      /\ \A i \in 1 .. n : g.frames[i] = f.frames[i]
      /\ g.frames \in Seq([at : Nat, len : Nat, from : Nat, to : Nat])
  BY <1>1, <1>3, <1>4
<1>6. Shape(g)
  <2>1. g = [f EXCEPT !.frames = Append(f.frames, new), !.length = f.length + len]
    BY <1>1 DEF WithChunk
  <2>2. Append(f.frames, new) \in Seq([at : Nat, len : Nat, from : Nat, to : Nat])
    BY <1>4, <1>5
  <2>3. f.length + len \in Nat
    BY <1>1
  <2> HIDE DEF new
  <2> QED BY <2>1, <2>2, <2>3 DEF Unfinished, Shape
<1>7. \A i \in 1 .. n + 1 : Frame(g, i)
  <2>1. \A i \in 1 .. n : Frame(g, i)
    BY <1>4, <1>5 DEF Unfinished, Contiguous, Frame
  <2>2. Frame(g, n + 1)
    BY <1>1, <1>2, <1>4, <1>5 DEF Frame
  <2> QED BY <1>1, <2>1, <2>2
<1>8. Contiguous(g)
  <2>1. \A i \in 1 .. n + 1 :
           g.frames[i].at = IF i = 1 THEN headerSize(numChunks(g.size) + 1)
                            ELSE g.frames[i - 1].at + g.frames[i - 1].len
    <3> SUFFICES ASSUME NEW i \in 1 .. n + 1
                 PROVE  g.frames[i].at = IF i = 1 THEN headerSize(numChunks(g.size) + 1)
                                         ELSE g.frames[i - 1].at + g.frames[i - 1].len
      OBVIOUS
    <3>1. CASE i \in 1 .. n
      <4>1. i # 1 => i - 1 \in 1 .. n
        BY <1>1, <3>1
      <4> HIDE DEF g
      <4> QED BY <3>1, <4>1, <1>4, <1>5 DEF Unfinished, Contiguous
    <3>2. CASE i = n + 1
      <4>1. g.frames[i].at = f.length
        BY <1>5, <3>2
      <4> HIDE DEF g
      <4>2. CASE n = 0
        BY <4>1, <4>2, <3>2, <1>4 DEF Unfinished, Contiguous
      <4>3. CASE n # 0
        <5>1. n \in 1 .. n /\ i # 1 /\ i - 1 = n
          <6> HIDE DEF n
          <6> QED BY <1>1, <3>2, <4>3
        <5>2. g.frames[n] = f.frames[n]
          BY <1>5, <5>1
        <5>3. f.length = f.frames[n].at + f.frames[n].len
          BY <4>3 DEF Unfinished, Contiguous
        <5> HIDE DEF n
        <5> QED BY <4>1, <5>1, <5>2, <5>3
      <4> QED BY <4>2, <4>3
    <3>3. i \in 1 .. n \/ i = n + 1
      <4> HIDE DEF n
      <4> QED BY <1>1
    <3> QED BY <3>1, <3>2, <3>3
  <2>2. g.length = g.frames[n + 1].at + g.frames[n + 1].len /\ n + 1 # 0
    BY <1>1, <1>4, <1>5
  <2> HIDE DEF g
  <2> QED BY <1>5, <1>7, <2>1, <2>2 DEF Contiguous
<1>9. Ordered(g)
  <2>1. \A i \in 1 .. n : g.frames[i].at < f.length
    BY <1>5 DEF Unfinished, Ordered
  <2>2. g.frames[n + 1].at = f.length /\ f.length < g.length
    BY <1>1, <1>4, <1>5
  <2>3. \A i \in 1 .. n + 1 : g.frames[i].at \in Nat
    BY <1>7 DEF Frame
  <2>4. ASSUME NEW i \in 1 .. n + 1 PROVE g.frames[i].at < g.length
    <3>1. CASE i = n + 1
      BY <2>2, <3>1
    <3>2. CASE i \in 1 .. n
      <4>1. g.frames[i].at < f.length
        BY <2>1, <3>2
      <4>2. g.frames[i].at \in Nat
        BY <2>3
      <4>3. g.length \in Nat
        BY <1>1, <1>4
      <4> HIDE DEF g, n
      <4> QED BY <1>1, <2>2, <4>1, <4>2, <4>3
    <3>3. i = n + 1 \/ i \in 1 .. n
      <4> HIDE DEF n
      <4> QED BY <1>1
    <3> QED BY <3>1, <3>2, <3>3
  <2>5. ASSUME NEW i \in 1 .. n + 1, NEW j \in 1 .. n + 1, i < j
        PROVE  g.frames[i].at < g.frames[j].at
    <3>1. i \in 1 .. n
      BY <1>1, <2>5
    <3>2. CASE j = n + 1
      BY <2>1, <2>2, <3>1, <3>2
    <3>3. CASE j \in 1 .. n
      BY <1>5, <2>5, <3>1, <3>3 DEF Unfinished, Ordered
    <3>4. j = n + 1 \/ j \in 1 .. n
      <4> HIDE DEF n
      <4> QED BY <1>1
    <3> QED BY <3>2, <3>3, <3>4
  <2> HIDE DEF g, n
  <2> QED BY <1>5, <2>4, <2>5 DEF Ordered
<1> QED
  BY <1>1, <1>4, <1>5, <1>6, <1>8, <1>9 DEF Unfinished, BlankTable

\* WriteAndClose: filling in the table of a file with all its chunks makes it
\* whole.
LEMMA TableIsWhole ==
  ASSUME NEW f, Unfinished(f), Len(f.frames) = numChunks(f.size)
  PROVE  Sound(WithTable(f)) /\ WithTable(f).size = f.size
<1> DEFINE g == WithTable(f)
           n == Len(f.frames)
<1>1. f.size \in Nat \ {0} /\ n \in Nat \ {0} /\ f.length \in Nat
  BY BlobReadAssumption, SomeChunk DEF Unfinished, Shape
<1>2. /\ g.size = f.size /\ g.frames = f.frames /\ g.length = f.length
      /\ g.offsets = [i \in 1 .. n + 1 |-> IF i <= n THEN f.frames[i].at ELSE f.length]
  BY <1>1 DEF WithTable, Unfinished, Shape
<1>3. Len(g.offsets) = n + 1
  BY <1>1, <1>2
<1>4. \A i \in 1 .. n : f.frames[i].at \in Nat /\ f.frames[i].len \in Nat \ {0}
  BY DEF Unfinished, Contiguous, Frame
<1>5. \A i \in 1 .. n : g.offsets[i] < g.offsets[i + 1]
  <2> SUFFICES ASSUME NEW i \in 1 .. n PROVE g.offsets[i] < g.offsets[i + 1]
    OBVIOUS
  <2>1. CASE i = n
    BY <1>1, <1>2, <1>4, <2>1 DEF Unfinished, Contiguous
  <2>2. CASE i < n
    <3>1. i + 1 \in 1 .. n /\ i + 1 # 1 /\ i + 1 - 1 = i
      BY <1>1, <2>2
    <3>2. f.frames[i + 1].at = f.frames[i].at + f.frames[i].len
      BY <3>1 DEF Unfinished, Contiguous
    <3> QED BY <1>1, <1>2, <1>4, <3>1, <3>2
  <2> QED BY <1>1, <2>1, <2>2
<1>6. g.offsets[1] = headerSize(n + 1) /\ g.offsets[n + 1] = f.length
  BY <1>1, <1>2 DEF Unfinished, Contiguous
<1>7. \A i \in 1 .. n :
        /\ f.frames[i].at = g.offsets[i]
        /\ f.frames[i].from = (i - 1) * ChunkSize
        /\ f.frames[i].to = chunkEnd(f.size, i)
  BY <1>1, <1>2 DEF Unfinished, Contiguous, Frame
<1>8. Whole(g)
  BY <1>1, <1>2, <1>3, <1>5, <1>6, <1>7 DEF Whole
<1>9. g.offsets \in Seq(Int)
  <2>1. \A i \in 1 .. n + 1 : g.offsets[i] \in Int
    BY <1>1, <1>2, <1>4
  <2> QED BY <1>1, <1>2, <2>1
<1>10. Shape(g)
  <2>1. g = [f EXCEPT !.offsets = g.offsets]
    BY <1>2 DEF WithTable, Unfinished, Shape
  <2> HIDE DEF g
  <2> QED BY <1>9, <2>1 DEF Unfinished, Shape
<1>11. Ordered(g)
  BY <1>2 DEF Unfinished, Ordered
<1> QED
  BY <1>2, <1>8, <1>10, <1>11 DEF Sound

\* The writer's steps keep the invariant of the file; no other step touches it.
LEMMA FileInvKept ==
  ASSUME FileInv, [Next]_vars
  PROVE  FileInv'
<1> USE DEF FileInv
<1>0. size \in Nat /\ EmptyFile.size = 0 /\ \A n : [EmptyFile EXCEPT !.size = n].size = n
  BY BlobReadAssumption DEF EmptyFile
<1>1. CASE WriteRaw
  BY <1>0, <1>1 DEF WriteRaw
<1>2. CASE WriteHeader
  BY <1>2, HeaderIsUnfinished DEF WriteHeader
<1>3. CASE WriteChunk
  BY <1>3, ChunkIsUnfinished DEF WriteChunk
<1>4. CASE WriteTable
  BY <1>4, TableIsWhole DEF WriteTable
<1>5. CASE WriteFails
  BY <1>5 DEF WriteFails
<1>7. CASE Crash
  <2>1. CASE ~raw
    BY <1>7, <2>1 DEF Crash
  <2>2. CASE raw
    <3>1. PICK n \in 0 .. Delivered : file' = [EmptyFile EXCEPT !.size = n]
      BY <1>7, <2>2 DEF Crash
    <3> QED BY <1>0, <1>7, <2>2, <3>1 DEF Crash
  <2> QED BY <2>1, <2>2
<1>6. CASE Handle \/ Compress \/ ClientLeaves \/ UNCHANGED vars
  <2>1. UNCHANGED writerVars
    BY <1>6 DEF Handle, Compress, ClientLeaves, vars, RefuseName, RefuseURL,
       RefuseDigest, RefuseWith, Refuse, ReadEmpty, Miss, OpenCasblob, OpenRaw,
       ReadSome, ReadPipe, ReadEOF, ReadError, CloseReader, EncWrite, EncEnd
  <2> QED BY <2>1 DEF writerVars
<1> QED
  BY <1>1, <1>2, <1>3, <1>4, <1>5, <1>6, <1>7 DEF Next, Write

\* The inductive invariant of the file.
LEMMA FileInvHolds == Spec => []FileInv
<1>1. Init => FileInv
  <2>1. EmptyFile.size \in Nat
    BY DEF EmptyFile
  <2> QED BY <2>1 DEF Init, FileInv
<1>2. FileInv /\ [Next]_vars => FileInv'
  BY FileInvKept
<1> QED
  BY <1>1, <1>2, PTL DEF Spec

\* A casblob that passes the test of its header is whole.
LEMMA AcceptedIsSound ==
  ASSUME FileInv, ~raw, readHeader(file)
  PROVE  Sound(file) /\ file.size = size /\ body = "good" /\ wpc = "done"
<1>1. wpc # "header"
  BY DEF FileInv, readHeader, EmptyFile, chunkTableOffset
<1>2. wpc \notin {"chunks", "failed", "torn"}
  BY UnfinishedIsRefused DEF FileInv
<1> QED BY <1>1, <1>2 DEF FileInv

\* casblob.go WriteAndClose and readHeader: whatever the writer got and wherever
\* it stopped, the header test accepts only whole files with the right contents.
THEOREM OnlyWholeIsAccepted == Spec => []AcceptedIsWhole
<1>1. FileInv => AcceptedIsWhole
  <2> SUFFICES ASSUME FileInv, ~raw, readHeader(file)
               PROVE  Whole(file) /\ body = "good"
    BY DEF AcceptedIsWhole
  <2> QED BY AcceptedIsSound DEF Sound
<1> QED
  BY <1>1, FileInvHolds, PTL

-----------------------------------------------------------------------------
(* Reading.                                                                *)

\* A stream of intervals.
Stream == Seq(Int \X Int)

\* Only the empty stream has no intervals.
LEMMA EmptyStream ==
  ASSUME NEW s \in Stream
  PROVE  Len(s) \in Nat /\ (s = <<>> <=> Len(s) = 0)
  BY DEF Stream

\* What follows a run of bytes continues it.
LEMMA CoversAppend ==
  ASSUME NEW s \in Stream, NEW a \in Int, NEW b \in Int, Covers(s, a, b),
         NEW c \in Int, b < c
  PROVE  Append(s, <<b, c>>) \in Stream /\ Covers(Append(s, <<b, c>>), a, c)
<1> DEFINE p == <<b, c>>
           t == Append(s, p)
           n == Len(s)
<1>1. p \in Int \X Int /\ p[1] = b /\ p[2] = c
  OBVIOUS
<1> HIDE DEF p
<1>2. /\ n \in Nat /\ t \in Stream /\ Len(t) = n + 1 /\ t[n + 1] = p
      /\ \A i \in 1 .. n : t[i] = s[i]
  BY <1>1 DEF Stream
<1>3. t # <<>> /\ t[Len(t)][2] = c
  <2> HIDE DEF t, n
  <2>1. Len(t) # 0
    BY <1>2
  <2>2. t # <<>>
    BY <1>2, <2>1, EmptyStream
  <2> QED
    BY <1>1, <1>2, <2>2
<1>4. CASE s = <<>>
  <2>1. n = 0 /\ a = b
    BY <1>4 DEF Covers
  <2> HIDE DEF t, n
  <2> QED
    BY <1>1, <1>2, <1>3, <2>1 DEF Covers, t, p
<1>5. CASE s # <<>>
  <2>1. /\ n > 0 /\ s[1][1] = a /\ s[n][2] = b
        /\ \A i \in 1 .. n - 1 : s[i][2] = s[i + 1][1]
        /\ \A i \in 1 .. n : s[i][1] < s[i][2]
    <3>1. n > 0
      BY <1>5, EmptyStream
    <3> QED BY <1>5, <3>1 DEF Covers
  <2> HIDE DEF t, n
  <2>2. t[1][1] = a
    BY <1>2, <2>1
  <2>3. ASSUME NEW i \in 1 .. n PROVE t[i][2] = t[i + 1][1]
    <3>1. CASE i = n
      BY <1>1, <1>2, <2>1, <3>1
    <3>2. CASE i # n
      <4>1. i \in 1 .. n - 1 /\ i + 1 \in 1 .. n
        BY <1>2, <3>2
      <4> QED
        BY <1>2, <2>1, <4>1
    <3> QED
      BY <3>1, <3>2
  <2>4. ASSUME NEW i \in 1 .. n + 1 PROVE t[i][1] < t[i][2]
    <3>1. CASE i = n + 1
      BY <1>1, <1>2, <3>1
    <3>2. CASE i \in 1 .. n
      BY <1>2, <2>1, <3>2
    <3> QED
      BY <1>2, <3>1, <3>2
  <2>5. Len(t) - 1 = n
    BY <1>2
  <2>6. Covers(t, a, c)
    BY <1>2, <1>3, <2>2, <2>3, <2>4, <2>5 DEF Covers
  <2> QED
    BY <1>2, <2>6 DEF t, p
<1> QED
  BY <1>4, <1>5

\* What is left of a run of bytes after its first interval.
LEMMA CoversTail ==
  ASSUME NEW s \in Stream, NEW a \in Int, NEW b \in Int, Covers(s, a, b), s # <<>>
  PROVE  /\ Tail(s) \in Stream /\ Covers(Tail(s), s[1][2], b)
         /\ s[1] \in Int \X Int /\ Head(s) = s[1] /\ s[1][1] = a /\ a < s[1][2]
<1> DEFINE t == Tail(s)
           n == Len(s)
<1>1. /\ n \in Nat /\ n > 0 /\ t \in Stream /\ Len(t) = n - 1
      /\ \A i \in 1 .. n - 1 : t[i] = s[i + 1]
      /\ Head(s) = s[1] /\ s[1] \in Int \X Int
  BY DEF Stream
<1>2. /\ s[1][1] = a /\ s[n][2] = b
      /\ \A i \in 1 .. n - 1 : s[i][2] = s[i + 1][1]
      /\ \A i \in 1 .. n : s[i][1] < s[i][2]
  BY DEF Covers
<1>3. CASE n = 1
  <2>1. t = <<>>
    <3> HIDE DEF t, n
    <3>1. Len(t) = 0
      BY <1>1, <1>3
    <3> QED
      BY <1>1, <3>1, EmptyStream
  <2> QED
    BY <1>1, <1>2, <1>3, <2>1 DEF Covers
<1>4. CASE n # 1
  <2>1. t # <<>> /\ n - 1 \in 1 .. n - 1 /\ 1 \in 1 .. n - 1 /\ 1 + 1 \in 1 .. n
    <3> HIDE DEF t, n
    <3>1. n - 1 \in 1 .. n - 1 /\ 1 \in 1 .. n - 1 /\ 1 + 1 \in 1 .. n
      BY <1>1, <1>4
    <3>2. Len(t) # 0
      BY <1>1, <3>1
    <3> QED
      BY <1>1, <3>1, <3>2, EmptyStream
  <2>2. t[1][1] = s[1][2]
    BY <1>1, <1>2, <2>1
  <2>3. t[n - 1][2] = b
    BY <1>1, <1>2, <2>1
  <2>4. ASSUME NEW i \in 1 .. n - 1 - 1 PROVE t[i][2] = t[i + 1][1]
    <3>1. i \in 1 .. n - 1 /\ i + 1 \in 1 .. n - 1
      BY <1>1
    <3> HIDE DEF t, n
    <3> QED
      BY <1>1, <1>2, <3>1
  <2>5. ASSUME NEW i \in 1 .. n - 1 PROVE t[i][1] < t[i][2]
    <3>1. i + 1 \in 1 .. n
      BY <1>1
    <3> HIDE DEF t, n
    <3> QED
      BY <1>1, <1>2, <3>1
  <2> HIDE DEF t, n
  <2>6. Covers(t, s[1][2], b)
    BY <1>1, <2>1, <2>2, <2>3, <2>4, <2>5 DEF Covers
  <2> QED
    BY <1>1, <1>2, <2>6 DEF t
<1> QED
  BY <1>3, <1>4

\* An interval before a run of bytes extends it.
LEMMA CoversCons ==
  ASSUME NEW s \in Stream, NEW a \in Int, NEW x \in Int, NEW b \in Int,
         a < x, Covers(s, x, b)
  PROVE  << <<a, x>> >> \o s \in Stream /\ Covers(<< <<a, x>> >> \o s, a, b)
<1> DEFINE p == <<a, x>>
           t == <<p>> \o s
           n == Len(s)
<1>1. p \in Int \X Int /\ p[1] = a /\ p[2] = x
  OBVIOUS
<1> HIDE DEF p
<1>2. /\ n \in Nat /\ t \in Stream /\ Len(t) = n + 1 /\ t[1] = p
      /\ \A i \in 2 .. n + 1 : t[i] = s[i - 1]
  BY <1>1 DEF Stream
<1>3. t # <<>>
  BY <1>2
<1>4. CASE s = <<>>
  <2>1. n = 0 /\ x = b
    BY <1>4 DEF Covers
  <2> HIDE DEF t, n
  <2> QED
    BY <1>1, <1>2, <1>3, <2>1 DEF Covers, t, p
<1>5. CASE s # <<>>
  <2>1. /\ n > 0 /\ s[1][1] = x /\ s[n][2] = b
        /\ \A i \in 1 .. n - 1 : s[i][2] = s[i + 1][1]
        /\ \A i \in 1 .. n : s[i][1] < s[i][2]
    <3>1. n > 0
      BY <1>5, EmptyStream
    <3> QED BY <1>5, <3>1 DEF Covers
  <2> HIDE DEF t, n
  <2>2. t[1][1] = a /\ t[n + 1][2] = b
    <3>1. n + 1 \in 2 .. n + 1 /\ n + 1 - 1 = n
      BY <1>2, <2>1
    <3> QED
      BY <1>1, <1>2, <2>1, <3>1
  <2>3. ASSUME NEW i \in 1 .. n PROVE t[i][2] = t[i + 1][1]
    <3>1. i + 1 \in 2 .. n + 1 /\ i + 1 - 1 = i
      BY <1>2
    <3>2. t[i + 1] = s[i]
      BY <1>2, <3>1
    <3>3. CASE i = 1
      BY <1>1, <1>2, <2>1, <3>2, <3>3
    <3>4. CASE i # 1
      <4>1. i \in 2 .. n + 1 /\ i - 1 \in 1 .. n - 1 /\ i - 1 + 1 = i
        BY <1>2, <3>4
      <4>2. t[i] = s[i - 1]
        BY <1>2, <4>1
      <4>3. s[i - 1][2] = s[i - 1 + 1][1]
        BY <2>1, <4>1
      <4> QED
        BY <3>2, <4>1, <4>2, <4>3
    <3> QED
      BY <3>3, <3>4
  <2>4. ASSUME NEW i \in 1 .. n + 1 PROVE t[i][1] < t[i][2]
    <3>1. CASE i = 1
      BY <1>1, <1>2, <3>1
    <3>2. CASE i # 1
      <4>1. i \in 2 .. n + 1 /\ i - 1 \in 1 .. n
        BY <1>2, <3>2
      <4> QED
        BY <1>2, <2>1, <4>1
    <3> QED
      BY <3>1, <3>2
  <2>5. Len(t) - 1 = n
    BY <1>2
  <2>6. Covers(t, a, b)
    BY <1>2, <1>3, <2>2, <2>3, <2>4, <2>5 DEF Covers
  <2> QED
    BY <1>2, <2>6 DEF t, p
<1> QED
  BY <1>4, <1>5

\* Multiplying by the size of a chunk.
LEMMA TimesChunk ==
  /\ \A a \in Int : a * ChunkSize \in Int /\ (a + 1) * ChunkSize = a * ChunkSize + ChunkSize
  /\ \A a, b \in Int : a <= b => a * ChunkSize <= b * ChunkSize
<1>1. ChunkSize \in Nat
  BY ChunkSizeAssumption
<1>2. ASSUME NEW a \in Int, NEW b \in Int, a <= b
      PROVE  a * ChunkSize <= b * ChunkSize
  BY <1>1, <1>2
<1> QED
  BY <1>1, <1>2

\* An offset lies in the chunk that the readers seek.
LEMMA ChunkOf ==
  ASSUME NEW o \in Nat
  PROVE  /\ o \div ChunkSize \in Nat /\ o % ChunkSize \in 0 .. ChunkSize - 1
         /\ o = (o \div ChunkSize) * ChunkSize + (o % ChunkSize)
  BY ChunkSizeAssumption

\* numChunks and chunkEnd: the chunks of a blob are not empty, each but the last
\* is full, and the last ends where the blob does.
LEMMA ChunkEnds ==
  ASSUME NEW s \in Nat \ {0}
  PROVE  /\ chunkEnd(s, numChunks(s)) = s
         /\ \A i \in 1 .. numChunks(s) - 1 : chunkEnd(s, i) = i * ChunkSize
         /\ \A i \in 1 .. numChunks(s) : (i - 1) * ChunkSize < chunkEnd(s, i)
<1> DEFINE q == s \div ChunkSize
           r == s % ChunkSize
           n == numChunks(s)
<1>1. q \in Nat /\ r \in 0 .. ChunkSize - 1 /\ s = q * ChunkSize + r
  BY ChunkOf
<1>2. n \in Nat \ {0} /\ n = IF r > 0 THEN q + 1 ELSE q
  BY <1>1, SomeChunk DEF numChunks
<1> HIDE DEF q, r, n
<1>3. (n - 1) * ChunkSize < s /\ s <= n * ChunkSize
  <2>1. /\ q * ChunkSize \in Int /\ (q + 1) * ChunkSize = q * ChunkSize + ChunkSize
        /\ (q - 1) * ChunkSize \in Int
        /\ q * ChunkSize = (q - 1) * ChunkSize + ChunkSize
    BY <1>1, ChunkSizeAssumption
  <2>2. CASE r > 0
    <3>1. n = q + 1 /\ n - 1 = q
      BY <1>1, <1>2, <2>2
    <3>2. n * ChunkSize = q * ChunkSize + ChunkSize /\ (n - 1) * ChunkSize = q * ChunkSize
      BY <2>1, <3>1
    <3> QED
      BY <1>1, <2>1, <2>2, <3>2, ChunkSizeAssumption
  <2>3. CASE r = 0
    <3>1. n = q /\ q - 1 + 1 = q
      BY <1>1, <1>2, <2>3
    <3>2. n * ChunkSize = s /\ (n - 1) * ChunkSize = s - ChunkSize
      BY <1>1, <2>1, <2>3, <3>1, ChunkSizeAssumption
    <3> QED
      BY <3>2, ChunkSizeAssumption
  <2> QED
    BY <1>1, <2>2, <2>3, ChunkSizeAssumption
<1>4. chunkEnd(s, n) = s
  <2>1. n * ChunkSize \in Int
    BY <1>2, ChunkSizeAssumption
  <2> QED
    BY <1>3, <2>1 DEF chunkEnd
<1>5. ASSUME NEW i \in 1 .. n - 1 PROVE i * ChunkSize < s
  <2>1. i <= n - 1 /\ n - 1 \in Int /\ i \in Int
    BY <1>2
  <2>2. i * ChunkSize <= (n - 1) * ChunkSize
    BY <2>1, TimesChunk
  <2> QED
    BY <1>3, <2>1, <2>2, TimesChunk
<1>6. \A i \in 1 .. n - 1 : chunkEnd(s, i) = i * ChunkSize
  BY <1>2, <1>5, TimesChunk DEF chunkEnd
<1>7. ASSUME NEW i \in 1 .. n PROVE (i - 1) * ChunkSize < chunkEnd(s, i)
  <2>1. CASE i = n
    BY <1>3, <1>4, <2>1
  <2>2. CASE i # n
    <3>1. i \in 1 .. n - 1 /\ i - 1 \in Int /\ i - 1 + 1 = i
      BY <1>2, <2>2
    <3>2. i * ChunkSize = (i - 1) * ChunkSize + ChunkSize /\ (i - 1) * ChunkSize \in Int
      BY <3>1, TimesChunk
    <3> QED
      BY <1>6, <3>1, <3>2, ChunkSizeAssumption
  <2> QED
    BY <2>1, <2>2
<1> QED
  BY <1>4, <1>6, <1>7 DEF n

\* The readers: an offset within the blob lies in one of its chunks.
LEMMA OffsetInChunk ==
  ASSUME NEW s \in Nat \ {0}, NEW o \in 0 .. s - 1
  PROVE  /\ o \div ChunkSize + 1 \in 1 .. numChunks(s)
         /\ o < chunkEnd(s, o \div ChunkSize + 1)
<1> DEFINE k == o \div ChunkSize
           m == o % ChunkSize
           n == numChunks(s)
<1>1. o \in Nat /\ k \in Nat /\ m \in 0 .. ChunkSize - 1 /\ o = k * ChunkSize + m
  BY ChunkOf
<1>2. n \in Nat \ {0}
  BY SomeChunk
<1>3. /\ chunkEnd(s, n) = s
      /\ \A i \in 1 .. n - 1 : chunkEnd(s, i) = i * ChunkSize
      /\ n * ChunkSize >= s
  <2>1. chunkEnd(s, n) = s
    BY ChunkEnds
  <2> QED
    BY <1>2, <2>1, ChunkEnds, TimesChunk DEF chunkEnd
<1> HIDE DEF k, m, n
<1>4. k < n
  <2> SUFFICES ASSUME n <= k PROVE FALSE
    BY <1>1, <1>2
  <2>1. n * ChunkSize <= k * ChunkSize /\ n * ChunkSize \in Int /\ k * ChunkSize \in Int
    <3>1. n * ChunkSize \in Int /\ k * ChunkSize \in Int
      BY <1>1, <1>2, ChunkSizeAssumption
    <3>2. n * ChunkSize <= k * ChunkSize
      BY <1>1, <1>2, ChunkSizeAssumption
    <3> QED
      BY <3>1, <3>2
  <2> QED
    BY <1>1, <1>3, <2>1
<1>5. k + 1 \in 1 .. n
  BY <1>1, <1>2, <1>4
<1>6. o < chunkEnd(s, k + 1)
  <2>1. CASE k + 1 = n
    BY <1>3, <2>1
  <2>2. CASE k + 1 # n
    <3>1. k + 1 \in 1 .. n - 1
      BY <1>1, <1>2, <1>5, <2>2
    <3>2. (k + 1) * ChunkSize = k * ChunkSize + ChunkSize /\ k * ChunkSize \in Int
      BY <1>1, TimesChunk
    <3> QED
      BY <1>1, <1>3, <3>1, <3>2, ChunkSizeAssumption
  <2> QED
    BY <2>1, <2>2
<1> QED
  BY <1>5, <1>6 DEF k, n

\* A decoder that starts where chunk k does delivers the blob from there to its end.
LEMMA FramesFromChunk ==
  ASSUME NEW f, Sound(f), NEW k \in 1 .. Len(f.frames)
  PROVE  LET t == FramesFrom(f, f.offsets[k])
         IN  /\ t \in Stream /\ Covers(t, (k - 1) * ChunkSize, f.size)
             /\ t[1] = <<(k - 1) * ChunkSize, chunkEnd(f.size, k)>>
<1> DEFINE n == Len(f.frames)
           pos == f.offsets[k]
           from(i) == (i - 1) * ChunkSize
           to(i) == chunkEnd(f.size, i)
           t == [j \in 1 .. n - k + 1 |-> <<f.frames[k + j - 1].from, f.frames[k + j - 1].to>>]
<1>1. f.size \in Nat \ {0} /\ n \in Nat /\ n = numChunks(f.size)
  BY DEF Sound, Whole, Shape
<1>2. /\ \A i \in 1 .. n : f.frames[i].from = from(i) /\ f.frames[i].to = to(i)
      /\ \A i \in 1 .. n : f.frames[i].from \in Int /\ f.frames[i].to \in Int
      /\ \A i \in 1 .. n : f.frames[i].at \in Nat
      /\ f.frames[k].at = pos /\ f.length \in Nat
  <2>1. \A i \in 1 .. n : f.frames[i].from = from(i) /\ f.frames[i].to = to(i)
    BY DEF Sound, Whole
  <2>2. f.frames \in Seq([at : Nat, len : Nat, from : Nat, to : Nat]) /\ f.length \in Nat
    BY DEF Sound, Shape
  <2>3. \A i \in 1 .. n : f.frames[i] \in [at : Nat, len : Nat, from : Nat, to : Nat]
    <3> DEFINE F == [at : Nat, len : Nat, from : Nat, to : Nat]
               s == f.frames
    <3>1. s \in Seq(F)
      BY <2>2
    <3> HIDE DEF F, s
    <3>2. \A i \in 1 .. Len(s) : s[i] \in F
      BY <3>1
    <3> QED BY <3>2 DEF F, s
  <2>4. \A i \in 1 .. n : f.frames[i].from \in Int /\ f.frames[i].to \in Int
    BY <2>3
  <2>5. \A i \in 1 .. n : f.frames[i].at \in Nat
    BY <2>3
  <2>6. f.frames[k].at = pos
    BY DEF Sound, Whole
  <2> QED BY <2>1, <2>2, <2>4, <2>5, <2>6
<1>3. /\ to(n) = f.size
      /\ \A i \in 1 .. n - 1 : to(i) = from(i + 1)
      /\ \A i \in 1 .. n : from(i) < to(i)
  <2>1. to(n) = f.size /\ \A i \in 1 .. n - 1 : to(i) = i * ChunkSize
    BY <1>1, ChunkEnds
  <2>2. \A i \in 1 .. n : from(i) < to(i)
    BY <1>1, ChunkEnds
  <2>3. \A i \in 1 .. n - 1 : i + 1 - 1 = i
    BY <1>1
  <2> QED BY <2>1, <2>2, <2>3
<1>4. FramesFrom(f, pos) = t
  <2>1. pos # f.length
    BY <1>2 DEF Sound, Ordered
  <2>2. \A i \in 1 .. n : f.frames[i].at = pos => i = k
    <3> SUFFICES ASSUME NEW i \in 1 .. n, f.frames[i].at = pos, i # k PROVE FALSE
      OBVIOUS
    <3>1. i < k \/ k < i
      BY <1>1
    <3>2. f.frames[i].at < f.frames[k].at \/ f.frames[k].at < f.frames[i].at
      BY <3>1 DEF Sound, Ordered
    <3> QED BY <1>2, <3>2
  <2>3. (CHOOSE i \in 1 .. n : f.frames[i].at = pos) = k
    BY <1>2, <2>2
  <2> QED BY <1>2, <2>1, <2>3 DEF FramesFrom
<1>5. ASSUME NEW j \in 1 .. n - k + 1
      PROVE  /\ k + j - 1 \in 1 .. n /\ t[j] \in Int \X Int
             /\ t[j] = <<from(k + j - 1), to(k + j - 1)>>
  <2>1. k + j - 1 \in 1 .. n
    BY <1>1
  <2> HIDE DEF from, to
  <2> QED BY <1>2, <2>1
<1>6. t \in Stream /\ Len(t) = n - k + 1 /\ n - k + 1 \in Nat \ {0}
  <2>1. n - k + 1 \in Nat \ {0}
    BY <1>1
  <2>2. \A j \in 1 .. n - k + 1 : <<f.frames[k + j - 1].from, f.frames[k + j - 1].to>> \in Int \X Int
    BY <1>5
  <2> DEFINE N == n - k + 1
             e(j) == <<f.frames[k + j - 1].from, f.frames[k + j - 1].to>>
  <2>3. \A j \in 1 .. N : e(j) \in Int \X Int
    BY <2>2
  <2>4. t = [j \in 1 .. N |-> e(j)]
    OBVIOUS
  <2>5. N \in Nat
    BY <2>1
  <2> HIDE DEF N, e
  <2>6. [j \in 1 .. N |-> e(j)] \in Seq(Int \X Int)
    BY <2>3, <2>5
  <2>7. Len([j \in 1 .. N |-> e(j)]) = N
    BY <2>5
  <2> QED BY <2>1, <2>4, <2>6, <2>7 DEF N, Stream
<1>7. t # <<>>
  <2> HIDE DEF t
  <2> QED BY <1>6, EmptyStream
<1> HIDE DEF n, t, from, to
<1>8. t[1] = <<from(k), to(k)>> /\ t[n - k + 1] = <<from(n), to(n)>>
  <2>1. /\ 1 \in 1 .. n - k + 1 /\ k + 1 - 1 = k
        /\ n - k + 1 \in 1 .. n - k + 1 /\ k + (n - k + 1) - 1 = n
    BY <1>1, <1>6
  <2> QED BY <1>5, <2>1
<1>9. ASSUME NEW j \in 1 .. n - k + 1 - 1 PROVE t[j][2] = t[j + 1][1]
  <2>1. /\ j \in 1 .. n - k + 1 /\ j + 1 \in 1 .. n - k + 1
        /\ k + (j + 1) - 1 = (k + j - 1) + 1 /\ k + j - 1 \in 1 .. n - 1
    BY <1>1, <1>6 DEF n
  <2>2. t[j][2] = to(k + j - 1) /\ t[j + 1][1] = from((k + j - 1) + 1)
    BY <1>5, <2>1
  <2> QED BY <1>3, <2>1, <2>2
<1>10. ASSUME NEW j \in 1 .. n - k + 1 PROVE t[j][1] < t[j][2]
  BY <1>3, <1>5
<1>11. Covers(t, from(k), f.size)
  <2>1. t[1][1] = from(k)
    BY <1>8
  <2>2. t[Len(t)][2] = f.size
    BY <1>3, <1>6, <1>8
  <2>3. \A j \in 1 .. Len(t) - 1 : t[j][2] = t[j + 1][1]
    <3>1. Len(t) - 1 = n - k + 1 - 1
      BY <1>1, <1>6
    <3> QED BY <1>9, <3>1
  <2>4. \A j \in 1 .. Len(t) : t[j][1] < t[j][2]
    BY <1>6, <1>10
  <2> QED BY <1>7, <2>1, <2>2, <2>3, <2>4 DEF Covers
<1> QED
  BY <1>4, <1>6, <1>8, <1>11 DEF from, to

\* GetUncompressedReadCloser and GetZstdReadCloser: from any offset within the blob
\* the readers deliver its bytes from there to its end.
LEMMA StreamFromOffset ==
  ASSUME NEW f, Sound(f), NEW o \in 0 .. f.size - 1
  PROVE  StreamFrom(f, o) \in Stream /\ Covers(StreamFrom(f, o), o, f.size)
<1> DEFINE n == Len(f.frames)
           c == o \div ChunkSize
           m == o % ChunkSize
           k == c + 1
           t == FramesFrom(f, f.offsets[k])
           u == FramesFrom(f, f.offsets[k + 1])
<1>1. /\ f.size \in Nat \ {0} /\ n \in Nat /\ n = numChunks(f.size)
      /\ Len(f.offsets) = n + 1 /\ f.offsets[1] = headerSize(Len(f.offsets))
      /\ \A i \in 1 .. n + 1 : f.offsets[i] \in Int
  <2>1. /\ f.size \in Nat \ {0} /\ n = numChunks(f.size)
        /\ Len(f.offsets) = n + 1 /\ f.offsets[1] = headerSize(Len(f.offsets))
    BY DEF Sound, Whole
  <2>2. f.offsets \in Seq(Int)
    BY DEF Sound, Shape
  <2>3. \A i \in 1 .. n + 1 : f.offsets[i] \in Int
    BY <2>1, <2>2
  <2>4. n \in Nat
    BY <2>1, SomeChunk
  <2> QED BY <2>1, <2>3, <2>4
<1>2. /\ o \in Nat /\ c \in Nat /\ m \in 0 .. ChunkSize - 1 /\ o = c * ChunkSize + m
      /\ c * ChunkSize \in Int
  <2>1. o \in Nat
    BY <1>1
  <2>2. c \in Nat /\ m \in 0 .. ChunkSize - 1 /\ o = c * ChunkSize + m
    BY <2>1, ChunkOf
  <2>3. c * ChunkSize \in Int
    <3> HIDE DEF c
    <3> QED BY <2>2, ChunkSizeAssumption
  <2> QED BY <2>1, <2>2, <2>3
<1>3. k \in 1 .. n /\ o < chunkEnd(f.size, k) /\ k - 1 = c /\ c + 2 = k + 1
  <2>1. k \in 1 .. n /\ o < chunkEnd(f.size, k)
    BY <1>1, OffsetInChunk
  <2>2. k - 1 = c /\ c + 2 = k + 1
    <3> HIDE DEF c
    <3> QED BY <1>2
  <2> QED BY <2>1, <2>2
<1>4. SeekTo(f, c) = f.offsets[k]
  <2>1. CASE c > 0
    BY <2>1 DEF SeekTo
  <2>2. CASE c = 0
    <3>1. k = 1 /\ ~(c > 0)
      BY <2>2
    <3> QED BY <1>1, <3>1 DEF SeekTo
  <2> QED
    <3> HIDE DEF c
    <3> QED BY <1>2, <2>1, <2>2
<1>5. k = c + 1
  OBVIOUS
<1> HIDE DEF c, m, n, k
<1>6. SeekTo(f, c) + f.offsets[c + 2] - f.offsets[c + 1] = f.offsets[k + 1]
  <2>1. k \in 1 .. n + 1 /\ k + 1 \in 1 .. n + 1
    BY <1>1, <1>3
  <2>2. f.offsets[k] \in Int /\ f.offsets[k + 1] \in Int
    BY <1>1, <2>1
  <2> QED BY <1>3, <1>4, <1>5, <2>2
<1>7. t \in Stream /\ Covers(t, c * ChunkSize, f.size) /\ t[1] = <<c * ChunkSize, chunkEnd(f.size, k)>>
  <2>1. k \in 1 .. Len(f.frames)
    BY <1>3 DEF n
  <2> QED BY <1>3, <2>1, FramesFromChunk
<1>8. StreamFrom(f, o) = IF m = 0 THEN t
                         ELSE IF c = Len(f.offsets) - 2
                              THEN << <<t[1][1] + m, t[1][2]>> >>
                              ELSE << <<t[1][1] + m, t[1][2]>> >> \o u
  <2>1. StreamFrom(f, o) =
          IF m = 0 THEN FramesFrom(f, SeekTo(f, c))
          ELSE IF c = Len(f.offsets) - 2
               THEN << <<FramesFrom(f, SeekTo(f, c))[1][1] + m,
                         FramesFrom(f, SeekTo(f, c))[1][2]>> >>
               ELSE << <<FramesFrom(f, SeekTo(f, c))[1][1] + m,
                         FramesFrom(f, SeekTo(f, c))[1][2]>> >>
                    \o FramesFrom(f, SeekTo(f, c) + f.offsets[c + 2] - f.offsets[c + 1])
    BY DEF StreamFrom, c, m
  <2> QED BY <1>4, <1>6, <2>1
<1> HIDE DEF t, u
<1>9. CASE m = 0
  BY <1>2, <1>7, <1>8, <1>9
<1>10. CASE m # 0
  <2>1. t[1][1] + m = o /\ t[1][2] = chunkEnd(f.size, k) /\ chunkEnd(f.size, k) \in Int
    <3>1. k \in Nat \ {0}
      BY <1>3
    <3>2. chunkEnd(f.size, k) \in Nat
      BY <1>1, <3>1, SomeChunk
    <3> QED BY <1>2, <1>7, <3>2
  <2>2. CASE k = n
    <3>1. c = Len(f.offsets) - 2
      BY <1>1, <1>2, <1>3, <2>2
    <3>2. chunkEnd(f.size, k) = f.size
      BY <1>1, <2>2, ChunkEnds
    <3>3. StreamFrom(f, o) = << <<o, f.size>> >>
      BY <1>8, <1>10, <2>1, <3>1, <3>2
    <3>4. <<>> \in Stream /\ Covers(<<>>, f.size, f.size)
      BY DEF Stream, Covers
    <3>5. << <<o, f.size>> >> = << <<o, f.size>> >> \o <<>>
      BY <1>1, <1>2
    <3>6. o \in Int /\ f.size \in Int /\ o < f.size
      BY <1>1, <1>2, <1>3, <3>2
    <3> QED BY <3>3, <3>4, <3>5, <3>6, CoversCons
  <2>3. CASE k # n
    <3>1. c # Len(f.offsets) - 2 /\ k \in 1 .. n - 1 /\ k + 1 \in 1 .. n /\ k + 1 - 1 = k
      <4>1. k < n
        BY <1>1, <1>3, <2>3
      <4>2. k \in 1 .. n - 1 /\ k + 1 \in 1 .. n /\ k + 1 - 1 = k
        BY <1>1, <1>3, <4>1
      <4>3. c # Len(f.offsets) - 2
        BY <1>1, <1>2, <1>3, <4>1
      <4> QED BY <4>2, <4>3
    <3>2. u \in Stream /\ Covers(u, k * ChunkSize, f.size)
      <4>1. k + 1 \in 1 .. Len(f.frames)
        BY <3>1 DEF n
      <4> QED BY <3>1, <4>1, FramesFromChunk DEF u
    <3>3. chunkEnd(f.size, k) = k * ChunkSize
      BY <1>1, <3>1, ChunkEnds
    <3>4. StreamFrom(f, o) = << <<o, chunkEnd(f.size, k)>> >> \o u
      BY <1>8, <1>10, <2>1, <3>1
    <3> DEFINE e == chunkEnd(f.size, k)
    <3>5. e \in Int /\ o \in Int /\ f.size \in Int /\ o < e
      <4>1. o \in Int /\ f.size \in Int
        BY <1>1, <1>2
      <4> QED BY <1>3, <2>1, <4>1
    <3>6. u \in Stream /\ Covers(u, e, f.size) /\ StreamFrom(f, o) = << <<o, e>> >> \o u
      BY <3>2, <3>3, <3>4
    <3> HIDE DEF e
    <3> QED BY <3>5, <3>6, CoversCons
  <2> QED BY <2>2, <2>3
<1> QED
  BY <1>9, <1>10

-----------------------------------------------------------------------------
(* The requests.                                                           *)

\* How far a client is that asked from offset o and was sent s.
Reached(s, o) == IF s = <<>> THEN o ELSE s[Len(s)][2]
Pos == Reached(sent, req.offset)

\* The compressor: a frame in the pipe continues what was sent, and what is still to
\* be read of the file continues the frame; it ends early only after a failure.
Compressing ==
  /\ enc.todo \in Int \X Int /\ enc.todo[2] = found /\ enc.todo[1] <= found
  /\ pipe.frame = <<>> => enc.todo[1] = Pos
  /\ pipe.frame # <<>> => pipe.frame = <<Pos, enc.todo[1]>> /\ Pos < enc.todo[1]
  /\ enc.pc = "done" => pipe.frame = <<>> /\ (enc.todo[1] = found \/ pipe.failed)

\* What is still to be sent continues what was sent, to the end of the blob.
StreamInv ==
  pc = "stream" =>
    /\ res = "none"
    /\ enc.pc = "none" => Covers(rest, Pos, found) /\ pipe.frame = <<>>
    /\ enc.pc # "none" => rest = <<>> /\ Compressing

\* The limit counts what was sent.
LimitInv ==
  Limited => /\ limit = req.limit - (Pos - req.offset)
             /\ sent # <<>> => limit >= 0

ReadInv ==
  /\ req \in Request /\ found \in Nat
  /\ sent \in Stream /\ rest \in Stream
  /\ enc \in [pc : {"none", "run", "done"}, todo : Int \X Int]
  /\ pipe \in [frame : {<<>>} \cup (Int \X Int), closed : BOOLEAN, failed : BOOLEAN]
  /\ Covers(sent, req.offset, Pos)
  /\ pc = "start" => /\ sent = <<>> /\ enc.pc = "none" /\ pipe.frame = <<>>
                     /\ limit = req.limit /\ res = "none"
  /\ StreamInv /\ LimitInv
  /\ res = "OK" => Pos = found
  /\ res = "CutShort" => req.front = "http" /\ req.zstd

\* What a client has reached is where the run of bytes ends that it was sent.
LEMMA ReachedIsEnd ==
  ASSUME NEW s \in Stream, NEW a \in Int, NEW b \in Int, Covers(s, a, b)
  PROVE  Reached(s, a) = b
  BY DEF Covers, Reached

\* The types of what the invariant speaks of.
LEMMA ReadTypes ==
  ASSUME ReadInv
  PROVE  /\ Pos \in Int /\ found \in Nat
         /\ req.offset \in Int /\ req.limit \in Int /\ req.size \in Int
         /\ req.front \in {"bytestream", "http", "batch"} /\ req.zstd \in BOOLEAN
         /\ req.front # "bytestream" => req.offset = 0
<1>1. /\ req \in [front : {"bytestream", "http", "batch"}, zstd : BOOLEAN,
                  size : Int, offset : Int, limit : Int]
      /\ req.front # "bytestream" => req.offset = 0
      /\ found \in Nat
  BY BlobReadAssumption DEF ReadInv
<1>2. req.offset \in Int /\ req.limit \in Int /\ req.size \in Int
  BY <1>1
<1>3. req.front \in {"bytestream", "http", "batch"} /\ req.zstd \in BOOLEAN
  BY <1>1
<1>4. Pos \in Int
  <2>1. CASE sent = <<>>
    BY <1>2, <2>1 DEF Pos, Reached
  <2>2. CASE sent # <<>>
    <3>1. sent \in Stream /\ Len(sent) \in Nat /\ Len(sent) # 0
      BY <2>2, EmptyStream DEF ReadInv
    <3>2. sent[Len(sent)] \in Int \X Int
      BY <3>1 DEF Stream
    <3> QED BY <2>2, <3>2 DEF Pos, Reached
  <2> QED BY <2>1, <2>2
<1> QED
  BY <1>1, <1>2, <1>3, <1>4

\* A step that sends nothing leaves the client where it is.
LEMMA NothingSent ==
  ASSUME ReadInv, UNCHANGED <<found, req, sent, limit>>
  PROVE  /\ Pos' = Pos /\ LimitInv'
         /\ req' \in Request /\ found' \in Nat
         /\ sent' \in Stream /\ Covers(sent', req'.offset, Pos')
<1>1. Pos' = Pos /\ (Limited' <=> Limited)
  BY DEF Pos, Limited
<1>2. LimitInv'
  BY <1>1 DEF ReadInv, LimitInv
<1> QED
  BY <1>1, <1>2 DEF ReadInv

\* Read, CacheHandler and getBlobData: what follows the bytes already sent is sent
\* next, unless the limit or the client is gone.
LEMMA Sent ==
  ASSUME ReadInv, pc = "stream", res = "none", NEW x \in Int, Pos < x,
         Send(<<Pos, x>>), UNCHANGED <<found, req>>
  PROVE  /\ req' \in Request /\ found' \in Nat
         /\ sent' \in Stream /\ Covers(sent', req'.offset, Pos') /\ LimitInv'
         /\ \/ pc' = "stream" /\ res' = "none" /\ Pos' = x
            \/ pc' = "close" /\ res' \in {"OutOfRange", "Unknown"}
<1> DEFINE n == x - Pos
           p == <<Pos, x>>
<1>1. Pos \in Int /\ n \in Int /\ n > 0 /\ req.offset \in Int /\ req.limit \in Int
  BY ReadTypes
<1>2. Send(p) <=> IF Limited /\ limit - n < 0
                  THEN Close("OutOfRange") /\ UNCHANGED <<sent, limit>>
                  ELSE \/ /\ sent' = Append(sent, p)
                          /\ limit' = IF Limited THEN limit - n ELSE limit
                          /\ UNCHANGED <<pc, res>>
                       \/ /\ ~client /\ req.front # "batch"
                          /\ Close("Unknown")
                          /\ UNCHANGED <<sent, limit>>
  BY DEF Send
<1>3. CASE UNCHANGED <<sent, limit>> /\ (Close("OutOfRange") \/ Close("Unknown"))
  BY <1>3, NothingSent DEF Close
<1>4. CASE /\ ~(Limited /\ limit - n < 0)
           /\ sent' = Append(sent, p)
           /\ limit' = IF Limited THEN limit - n ELSE limit
           /\ UNCHANGED <<pc, res>>
  <2>1. sent \in Stream /\ Covers(sent, req.offset, Pos)
    BY DEF ReadInv
  <2>2. sent' \in Stream /\ Covers(sent', req.offset, x)
    BY <1>1, <1>4, <2>1, CoversAppend
  <2>3. Reached(sent', req.offset) = x
    BY <1>1, <2>2, ReachedIsEnd
  <2>4. Pos' = x
    BY <2>3 DEF Pos
  <2>5. Limited' <=> Limited
    BY DEF Limited
  <2>6. ASSUME Limited PROVE limit' = req.limit - (x - req.offset) /\ limit' >= 0
    <3>1. limit = req.limit - (Pos - req.offset)
      BY <2>6 DEF ReadInv, LimitInv
    <3>2. limit' = limit - n /\ ~(limit - n < 0)
      BY <1>4, <2>6
    <3> QED BY <1>1, <3>1, <3>2
  <2>7. LimitInv'
    BY <2>4, <2>5, <2>6 DEF LimitInv
  <2> QED
    BY <1>4, <2>2, <2>4, <2>7 DEF ReadInv
<1> QED
  BY <1>2, <1>3, <1>4

\* A step that only ends the request keeps what the client was sent.
LEMMA Ended ==
  ASSUME ReadInv, UNCHANGED <<found, req, sent, limit, rest, enc, pipe>>,
         pc' \in {"close", "done"},
         res' = "OK" => Pos = found, res' = "CutShort" => req.front = "http" /\ req.zstd
  PROVE  ReadInv'
<1>1. /\ Pos' = Pos /\ LimitInv' /\ req' \in Request /\ found' \in Nat
      /\ sent' \in Stream /\ Covers(sent', req'.offset, Pos')
  BY NothingSent
<1>2. StreamInv' /\ pc' # "start"
  BY DEF StreamInv
<1> QED
  BY <1>1, <1>2 DEF ReadInv

\* The refusals, the empty blob and the miss.
LEMMA RefusedKeeps ==
  ASSUME ReadInv,
         RefuseName \/ RefuseURL \/ RefuseDigest \/ Refuse \/ ReadEmpty \/ Miss
  PROVE  ReadInv'
<1>1. UNCHANGED <<found, req, sent, limit, rest, enc, pipe>> /\ pc' = "done"
  BY DEF RefuseName, RefuseURL, RefuseDigest, RefuseWith, Refuse, ReadEmpty, Miss,
     Answer, writerVars, encVars
<1>2. res' \notin {"OK", "CutShort"}
  <2>1. CASE Refuse
    <3>1. Refusal \notin {"OK", "CutShort"}
      BY ReadTypes DEF Refusal, ReadRefusal
    <3> QED BY <2>1, <3>1 DEF Refuse, Answer
  <2>2. CASE RefuseName \/ RefuseURL \/ RefuseDigest \/ ReadEmpty \/ Miss
    BY <2>2 DEF RefuseName, RefuseURL, RefuseDigest, RefuseWith, ReadEmpty, Miss, Answer
  <2> QED BY <2>1, <2>2
<1> QED
  BY <1>1, <1>2, Ended

\* A request that passes the tests asks for an offset within what is found.
LEMMA OffsetFits ==
  ASSUME ReadInv, Refusal = "none", SizeFits, file.size \in Nat
  PROVE  /\ req.offset \in Int /\ 0 <= req.offset /\ req.offset <= file.size
         /\ req.offset = file.size => file.size = 0
<1>1. /\ req.offset \in Int /\ req.size \in Int
      /\ req.front # "bytestream" => req.offset = 0
  BY ReadTypes
<1>2. CASE req.front = "bytestream"
  <2>1. ReadRefusal = "none"
    BY <1>2 DEF Refusal
  <2>2. req.offset >= 0 /\ req.offset <= req.size /\ req.offset # req.size
    BY <1>1, <2>1 DEF ReadRefusal
  <2>3. req.size = file.size \/ req.size = -1
    BY DEF SizeFits
  <2> QED BY <1>1, <2>2, <2>3
<1>3. CASE req.front # "bytestream"
  BY <1>1, <1>3
<1> QED
  BY <1>2, <1>3

\* The cache reports what it found; nothing was sent yet.
LEMMA Opened ==
  ASSUME ReadInv, pc = "start", found' \in Nat, UNCHANGED <<req, sent, limit, res>>
  PROVE  /\ Pos' = req.offset /\ LimitInv' /\ req' \in Request
         /\ sent' \in Stream /\ Covers(sent', req'.offset, Pos')
         /\ enc.pc = "none" /\ pipe.frame = <<>> /\ res = "none"
<1>1. Pos' = Pos /\ (Limited' <=> Limited)
  BY DEF Pos, Limited
<1>2. sent = <<>> /\ Pos = req.offset
  BY DEF ReadInv, Pos, Reached
<1>3. LimitInv'
  BY <1>1 DEF ReadInv, LimitInv
<1> QED
  BY <1>1, <1>2, <1>3 DEF ReadInv

\* availableOrTryProxy and the readers of casblob.go.
LEMMA OpenCasblobKeeps ==
  ASSUME FileInv, ReadInv, OpenCasblob
  PROVE  ReadInv'
<1>1. /\ UNCHANGED <<req, sent, limit, enc, pipe, res>> /\ found' = file.size
      /\ pc = "start" /\ pc' = "stream" /\ rest' = StreamFrom(file, req.offset)
      /\ ~raw /\ readHeader(file) /\ Refusal = "none" /\ SizeFits
  BY DEF OpenCasblob, Asking, Ready, writerVars, encVars
<1>2. Sound(file) /\ file.size \in Nat \ {0}
  BY <1>1, AcceptedIsSound, BlobReadAssumption DEF FileInv
<1>3. rest' \in Stream /\ Covers(rest', req.offset, file.size)
  <2>1. req.offset \in 0 .. file.size - 1
    BY <1>1, <1>2, OffsetFits
  <2> QED BY <1>1, <1>2, <2>1, StreamFromOffset
<1>4. /\ Pos' = req.offset /\ LimitInv' /\ req' \in Request
      /\ sent' \in Stream /\ Covers(sent', req'.offset, Pos')
      /\ enc.pc = "none" /\ pipe.frame = <<>> /\ res = "none"
  BY <1>1, <1>2, Opened
<1>5. StreamInv'
  BY <1>1, <1>3, <1>4 DEF StreamInv
<1> QED
  BY <1>1, <1>2, <1>3, <1>4, <1>5 DEF ReadInv

\* A raw file is read from the offset on, directly or by the compressor.
LEMMA OpenRawKeeps ==
  ASSUME FileInv, ReadInv, OpenRaw
  PROVE  ReadInv'
<1> DEFINE o == req.offset
           z == file.size
<1>1. /\ UNCHANGED <<req, sent, limit, pipe, res>> /\ found' = z
      /\ pc = "start" /\ pc' = "stream" /\ Refusal = "none" /\ SizeFits
      /\ IF req.zstd
         THEN enc' = [pc |-> "run", todo |-> <<o, z>>] /\ rest' = <<>>
         ELSE rest' = (IF z = 0 THEN <<>> ELSE << <<o, z>> >>) /\ enc' = enc
  BY DEF OpenRaw, Asking, Ready, writerVars
<1>2. z \in Nat
  BY DEF FileInv, OpenRaw
<1>3. o \in Int /\ 0 <= o /\ o <= z /\ (o = z => z = 0)
  BY <1>1, <1>2, OffsetFits
<1>4. /\ Pos' = o /\ LimitInv' /\ req' \in Request
      /\ sent' \in Stream /\ Covers(sent', req'.offset, Pos')
      /\ enc.pc = "none" /\ pipe.frame = <<>> /\ res = "none"
  BY <1>1, <1>2, Opened
<1> HIDE DEF o, z
<1>5. <<>> \in Stream /\ Covers(<<>>, z, z)
  BY DEF Stream, Covers
<1>6. CASE req.zstd
  <2>1. enc' = [pc |-> "run", todo |-> <<o, z>>] /\ rest' = <<>>
    BY <1>1, <1>6
  <2>2. /\ enc'.pc = "run" /\ enc'.todo = <<o, z>>
        /\ enc' \in [pc : {"none", "run", "done"}, todo : Int \X Int]
    BY <1>2, <1>3, <2>1
  <2>3. Compressing'
    BY <1>1, <1>2, <1>3, <1>4, <2>2 DEF Compressing
  <2>4. StreamInv'
    BY <1>1, <1>4, <2>1, <2>2, <2>3 DEF StreamInv
  <2> QED BY <1>1, <1>2, <1>4, <1>5, <2>1, <2>2, <2>4 DEF ReadInv
<1>7. CASE ~req.zstd
  <2>1. rest' = (IF z = 0 THEN <<>> ELSE << <<o, z>> >>) /\ enc' = enc
    BY <1>1, <1>7
  <2>2. rest' \in Stream /\ Covers(rest', o, z)
    <3>1. CASE z = 0
      <4>1. o = z
        BY <1>2, <1>3, <3>1
      <4> QED BY <1>5, <2>1, <3>1, <4>1
    <3>2. CASE z # 0
      <4>1. o < z /\ o \in Int /\ z \in Int
        BY <1>2, <1>3, <3>2
      <4>2. << <<o, z>> >> = << <<o, z>> >> \o <<>>
        BY <1>2, <1>3
      <4>3. /\ << <<o, z>> >> \o <<>> \in Stream
            /\ Covers(<< <<o, z>> >> \o <<>>, o, z)
        BY <1>5, <4>1, CoversCons
      <4>4. rest' = << <<o, z>> >>
        BY <2>1, <3>2
      <4> QED BY <4>2, <4>3, <4>4
    <3> QED BY <3>1, <3>2
  <2>3. StreamInv'
    BY <1>1, <1>4, <2>1, <2>2 DEF StreamInv
  <2> QED BY <1>1, <1>2, <1>4, <2>1, <2>2, <2>3 DEF ReadInv
<1> QED
  BY <1>6, <1>7

\* A Read returns the next bytes of the stream; the rest continues them.
LEMMA ReadSomeKeeps ==
  ASSUME ReadInv, ReadSome
  PROVE  ReadInv'
<1> DEFINE part == Head(rest)
           tail == Tail(rest)
<1>1. /\ UNCHANGED <<found, req, enc, pipe>> /\ pc = "stream" /\ rest # <<>>
  BY DEF ReadSome, Streaming, writerVars, encVars
<1>2. res = "none" /\ enc.pc = "none" /\ Covers(rest, Pos, found) /\ pipe.frame = <<>>
  BY <1>1 DEF ReadInv, StreamInv
<1>3. Pos \in Int /\ found \in Int
  BY ReadTypes
<1>4. /\ tail \in Stream /\ Covers(tail, part[2], found)
      /\ part[1] = Pos /\ part[2] \in Int /\ Pos < part[2]
  <2>1. rest \in Stream
    BY DEF ReadInv
  <2>2. /\ tail \in Stream /\ Covers(tail, rest[1][2], found)
        /\ rest[1] \in Int \X Int /\ part = rest[1] /\ rest[1][1] = Pos /\ Pos < rest[1][2]
    BY <1>1, <1>2, <1>3, <2>1, CoversTail
  <2> HIDE DEF part, tail
  <2>3. part[2] \in Int
    BY <2>2
  <2> QED BY <2>2, <2>3
<1>5. PICK n \in 1 .. part[2] - part[1] :
        /\ Send(<<part[1], part[1] + n>>)
        /\ rest' = IF n = part[2] - part[1] THEN tail
                   ELSE << <<part[1] + n, part[2]>> >> \o tail
  BY DEF ReadSome
<1> HIDE DEF part, tail
<1> DEFINE x == Pos + n
<1>6. x \in Int /\ Pos < x /\ x <= part[2] /\ (n = part[2] - part[1] <=> x = part[2])
  BY <1>3, <1>4
<1>7. /\ Send(<<Pos, x>>)
      /\ rest' = IF x = part[2] THEN tail ELSE << <<x, part[2]>> >> \o tail
  BY <1>4, <1>5, <1>6
<1> HIDE DEF x
<1>8. rest' \in Stream /\ Covers(rest', x, found)
  <2>1. CASE x = part[2]
    BY <1>4, <1>7, <2>1
  <2>2. CASE x # part[2]
    <3>1. x < part[2]
      BY <1>4, <1>6, <2>2
    <3> QED BY <1>3, <1>4, <1>6, <1>7, <2>2, <3>1, CoversCons
  <2> QED BY <2>1, <2>2
<1>9. /\ req' \in Request /\ found' \in Nat
      /\ sent' \in Stream /\ Covers(sent', req'.offset, Pos') /\ LimitInv'
      /\ \/ pc' = "stream" /\ res' = "none" /\ Pos' = x
         \/ pc' = "close" /\ res' \in {"OutOfRange", "Unknown"}
  BY <1>1, <1>2, <1>6, <1>7, Sent
<1>10. StreamInv'
  BY <1>1, <1>2, <1>8, <1>9 DEF StreamInv
<1> QED
  BY <1>1, <1>8, <1>9, <1>10 DEF ReadInv

\* A Read takes the frame that the compressor writes.
LEMMA ReadPipeKeeps ==
  ASSUME ReadInv, ReadPipe
  PROVE  ReadInv'
<1>1. /\ UNCHANGED <<found, req, rest, enc>> /\ pc = "stream" /\ pipe.frame # <<>>
      /\ Send(pipe.frame) /\ pipe' = [pipe EXCEPT !.frame = <<>>]
  BY DEF ReadPipe, Streaming, writerVars
<1>2. res = "none" /\ enc.pc # "none" /\ rest = <<>> /\ Compressing
  BY <1>1 DEF ReadInv, StreamInv
<1> DEFINE x == enc.todo[1]
<1>3. /\ pipe.frame = <<Pos, x>> /\ Pos < x /\ enc.pc # "done"
      /\ enc.todo \in Int \X Int /\ enc.todo[2] = found /\ enc.todo[1] <= found
  BY <1>1, <1>2 DEF Compressing
<1>4. x \in Int
  BY <1>3
<1>5. /\ req' \in Request /\ found' \in Nat
      /\ sent' \in Stream /\ Covers(sent', req'.offset, Pos') /\ LimitInv'
      /\ \/ pc' = "stream" /\ res' = "none" /\ Pos' = x
         \/ pc' = "close" /\ res' \in {"OutOfRange", "Unknown"}
  BY <1>1, <1>2, <1>3, <1>4, Sent
<1>6. /\ pipe'.frame = <<>>
      /\ pipe' \in [frame : {<<>>} \cup (Int \X Int), closed : BOOLEAN, failed : BOOLEAN]
  BY <1>1 DEF ReadInv
<1>7. ASSUME pc' = "stream" PROVE Compressing'
  BY <1>1, <1>3, <1>5, <1>6, <1>7 DEF Compressing
<1>8. StreamInv'
  BY <1>1, <1>2, <1>5, <1>7 DEF StreamInv
<1> QED
  BY <1>1, <1>5, <1>6, <1>8 DEF ReadInv

\* The end of the stream is the end of the blob.
LEMMA ReadEOFKeeps ==
  ASSUME ReadInv, ReadEOF
  PROVE  ReadInv'
<1>1. /\ UNCHANGED <<found, req, sent, limit, rest, enc, pipe>>
      /\ pc = "stream" /\ pc' = "close" /\ res' = "OK"
      /\ rest = <<>> /\ pipe.frame = <<>> /\ enc.pc \in {"none", "done"} /\ ~pipe.failed
  BY DEF ReadEOF, Streaming, AtEnd, Close, writerVars, encVars
<1>2. Pos = found
  <2>1. CASE enc.pc = "none"
    BY <1>1, <2>1 DEF ReadInv, StreamInv, Covers
  <2>2. CASE enc.pc = "done"
    BY <1>1, <2>2 DEF ReadInv, StreamInv, Compressing
  <2> QED BY <1>1, <2>1, <2>2
<1> QED
  BY <1>1, <1>2, Ended

\* A failure is answered as one, but for the compressed body of an HTTP GET.
LEMMA ReadErrorKeeps ==
  ASSUME ReadInv, ReadError
  PROVE  ReadInv'
<1>1. /\ UNCHANGED <<found, req, sent, limit, rest, enc, pipe>>
      /\ pc' = "close" /\ res' = FailureAnswer
  BY DEF ReadError, Close, writerVars, encVars
<1>2. /\ FailureAnswer # "OK"
      /\ FailureAnswer = "CutShort" => req.front = "http" /\ req.zstd
  BY ReadTypes DEF FailureAnswer
<1> QED
  BY <1>1, <1>2, Ended

\* Closing the reader changes nothing of what was sent.
LEMMA CloseReaderKeeps ==
  ASSUME ReadInv, CloseReader
  PROVE  ReadInv'
<1>1. UNCHANGED <<found, req, sent, limit, rest, res, enc>> /\ pc' = "done"
  BY DEF CloseReader, writerVars
<1>2. pipe' \in [frame : {<<>>} \cup (Int \X Int), closed : BOOLEAN, failed : BOOLEAN]
  <2> DEFINE t == TRUE
  <2>1. t \in BOOLEAN /\ (pipe' = pipe \/ pipe' = [pipe EXCEPT !.closed = t, !.frame = <<>>])
    BY DEF CloseReader
  <2> HIDE DEF t
  <2> QED BY <2>1 DEF ReadInv
<1>3. /\ Pos' = Pos /\ LimitInv' /\ req' \in Request /\ found' \in Nat
      /\ sent' \in Stream /\ Covers(sent', req'.offset, Pos')
  BY <1>1, NothingSent
<1>4. StreamInv'
  BY <1>1 DEF StreamInv
<1> QED
  BY <1>1, <1>2, <1>3, <1>4 DEF ReadInv

\* GetLegacyZstdReadCloser: the compressor's next frame continues what was sent.
LEMMA EncWriteKeeps ==
  ASSUME ReadInv, EncWrite
  PROVE  ReadInv'
<1>1. /\ UNCHANGED <<found, req, pc, rest, sent, limit, res>>
      /\ enc.pc = "run" /\ pipe.frame = <<>>
  BY DEF EncWrite, writerVars
<1>2. PICK b \in enc.todo[1] + 1 .. enc.todo[2] :
        /\ pipe' = [pipe EXCEPT !.frame = <<enc.todo[1], b>>]
        /\ enc' = [enc EXCEPT !.todo = <<b, enc.todo[2]>>]
  BY DEF EncWrite
<1>3. enc.todo \in Int \X Int
  BY DEF ReadInv
<1> DEFINE a == enc.todo[1]
           z == enc.todo[2]
<1>4. a \in Int /\ z \in Int /\ b \in Int /\ a < b /\ b <= z
  BY <1>3
<1> HIDE DEF a, z
<1>5. /\ enc'.pc = "run" /\ enc'.todo = <<b, z>>
      /\ enc' \in [pc : {"none", "run", "done"}, todo : Int \X Int]
  BY <1>1, <1>2, <1>4 DEF ReadInv, z
<1>6. /\ pipe'.frame = <<a, b>>
      /\ pipe' \in [frame : {<<>>} \cup (Int \X Int), closed : BOOLEAN, failed : BOOLEAN]
  BY <1>2, <1>4 DEF ReadInv, a
<1>7. /\ Pos' = Pos /\ LimitInv' /\ req' \in Request /\ found' \in Nat
      /\ sent' \in Stream /\ Covers(sent', req'.offset, Pos')
  BY <1>1, NothingSent
<1>8. ASSUME pc = "stream" PROVE Compressing' /\ rest = <<>> /\ res = "none"
  <2>1. rest = <<>> /\ res = "none" /\ a = Pos /\ z = found
    BY <1>1, <1>8 DEF ReadInv, StreamInv, Compressing, a, z
  <2>2. enc'.todo[1] = b /\ enc'.todo[2] = found' /\ enc'.todo \in Int \X Int
    BY <1>1, <1>4, <1>5, <2>1
  <2>3. pipe'.frame = <<Pos', b>> /\ Pos' < b /\ b <= found'
    BY <1>1, <1>4, <1>6, <1>7, <2>1
  <2>4. pipe'.frame # <<>>
    BY <1>6
  <2> QED BY <1>5, <2>1, <2>2, <2>3, <2>4 DEF Compressing
<1>9. StreamInv'
  BY <1>1, <1>5, <1>8 DEF StreamInv
<1>10. pc # "start"
  BY <1>1 DEF ReadInv
<1> QED
  BY <1>1, <1>5, <1>6, <1>7, <1>9, <1>10 DEF ReadInv

\* The compressor ends at the end of the file or with a failure that the reader sees.
LEMMA EncEndKeeps ==
  ASSUME ReadInv, EncEnd
  PROVE  ReadInv'
<1>1. /\ UNCHANGED <<found, req, pc, rest, sent, limit, res>>
      /\ enc.pc = "run" /\ pipe.frame = <<>> /\ enc' = [enc EXCEPT !.pc = "done"]
  BY DEF EncEnd, writerVars
<1>2. /\ enc'.pc = "done" /\ enc'.todo = enc.todo
      /\ enc' \in [pc : {"none", "run", "done"}, todo : Int \X Int]
  BY <1>1 DEF ReadInv
<1>3. /\ pipe'.frame = <<>> /\ (enc.todo[1] = enc.todo[2] \/ pipe'.failed)
      /\ pipe' \in [frame : {<<>>} \cup (Int \X Int), closed : BOOLEAN, failed : BOOLEAN]
  <2> DEFINE t == TRUE
  <2>1. t \in BOOLEAN /\ t
    OBVIOUS
  <2>2. (enc.todo[1] = enc.todo[2] /\ pipe' = pipe) \/ pipe' = [pipe EXCEPT !.failed = t]
    BY DEF EncEnd
  <2> HIDE DEF t
  <2>3. CASE enc.todo[1] = enc.todo[2] /\ pipe' = pipe
    BY <1>1, <2>3 DEF ReadInv
  <2>4. CASE pipe' = [pipe EXCEPT !.failed = t]
    <3>1. /\ pipe'.frame = pipe.frame /\ pipe'.failed = t
          /\ pipe' \in [frame : {<<>>} \cup (Int \X Int), closed : BOOLEAN, failed : BOOLEAN]
      BY <2>1, <2>4 DEF ReadInv
    <3> QED BY <1>1, <2>1, <3>1
  <2> QED BY <2>2, <2>3, <2>4
<1>4. /\ Pos' = Pos /\ LimitInv' /\ req' \in Request /\ found' \in Nat
      /\ sent' \in Stream /\ Covers(sent', req'.offset, Pos')
  BY <1>1, NothingSent
<1>5. ASSUME pc = "stream" PROVE Compressing' /\ rest = <<>> /\ res = "none"
  <2>1. rest = <<>> /\ res = "none" /\ Compressing
    BY <1>1, <1>5 DEF ReadInv, StreamInv
  <2> QED BY <1>1, <1>2, <1>3, <1>4, <2>1 DEF Compressing
<1>6. StreamInv'
  BY <1>1, <1>2, <1>5 DEF StreamInv
<1>7. pc # "start"
  BY <1>1 DEF ReadInv
<1> QED
  BY <1>1, <1>2, <1>3, <1>4, <1>6, <1>7 DEF ReadInv

\* What the writer and the client do, and a step that changes nothing.
LEMMA OthersKeep ==
  ASSUME ReadInv, UNCHANGED <<found, req, pc, rest, sent, limit, res, enc, pipe>>
  PROVE  ReadInv'
<1>1. /\ Pos' = Pos /\ LimitInv' /\ req' \in Request /\ found' \in Nat
      /\ sent' \in Stream /\ Covers(sent', req'.offset, Pos')
  BY NothingSent
<1>2. Compressing' <=> Compressing
  BY <1>1 DEF Compressing
<1>3. StreamInv'
  BY <1>1, <1>2 DEF ReadInv, StreamInv
<1> QED
  BY <1>1, <1>3 DEF ReadInv

\* Every step of the writer, the handler and the compressor keeps the invariant.
LEMMA ReadInvKept ==
  ASSUME FileInv, ReadInv, [Next]_vars
  PROVE  ReadInv'
<1>1. CASE Write \/ Crash \/ ClientLeaves \/ UNCHANGED vars
  <2>1. UNCHANGED <<found, req, pc, rest, sent, limit, res, enc, pipe>>
    BY <1>1 DEF Write, WriteRaw, WriteHeader, WriteChunk, WriteTable, WriteFails, Crash,
       ClientLeaves, reading, vars, writerVars, encVars
  <2> QED BY <2>1, OthersKeep
<1>2. CASE Handle
  BY <1>2, RefusedKeeps, OpenCasblobKeeps, OpenRawKeeps, ReadSomeKeeps, ReadPipeKeeps,
     ReadEOFKeeps, ReadErrorKeeps, CloseReaderKeeps DEF Handle
<1>3. CASE Compress
  BY <1>3, EncWriteKeeps, EncEndKeeps DEF Compress
<1> QED
  BY <1>1, <1>2, <1>3 DEF Next

\* Before the first step nothing was sent.
LEMMA InitRead == Init => ReadInv
<1> SUFFICES ASSUME Init PROVE ReadInv
  OBVIOUS
<1>1. /\ req \in Request /\ found \in Nat /\ pc = "start" /\ res = "none"
      /\ sent = <<>> /\ rest = <<>> /\ limit = req.limit
      /\ enc = [pc |-> "none", todo |-> <<0, 0>>]
  BY DEF Init
<1>2. sent \in Stream /\ rest \in Stream
  BY <1>1 DEF Stream
<1>3. enc.pc = "none" /\ enc \in [pc : {"none", "run", "done"}, todo : Int \X Int]
  BY <1>1
<1>4. /\ pipe.frame = <<>>
      /\ pipe \in [frame : {<<>>} \cup (Int \X Int), closed : BOOLEAN, failed : BOOLEAN]
  <2> DEFINE f == FALSE
  <2>1. f \in BOOLEAN /\ pipe = [frame |-> <<>>, closed |-> f, failed |-> f]
    BY DEF Init
  <2> HIDE DEF f
  <2> QED BY <2>1
<1>5. Pos = req.offset
  BY <1>1 DEF Pos, Reached
<1>6. Covers(sent, req.offset, Pos)
  BY <1>1, <1>5 DEF Covers
<1>7. StreamInv
  BY <1>1 DEF StreamInv
<1>8. LimitInv
  <2>1. req.offset \in Int /\ req.limit \in Int
    <3>1. req \in [front : {"bytestream", "http", "batch"}, zstd : BOOLEAN,
                   size : Int, offset : Int, limit : Int]
      BY <1>1, BlobReadAssumption
    <3> QED BY <3>1
  <2> QED BY <1>1, <1>5, <2>1 DEF LimitInv
<1> QED
  BY <1>1, <1>2, <1>3, <1>4, <1>6, <1>7, <1>8 DEF ReadInv

\* What is read is what the request asked for: the blob, unless the file is raw and
\* torn or was given other bytes.
FoundInv ==
  pc = "stream" \/ sent # <<>> \/ res = "OK" =>
    /\ wpc \in {"done", "torn"}
    /\ found = size \/ (raw /\ wpc = "torn" /\ (req.size = found \/ req.size = -1))
    /\ body = "other" => raw

\* The size is settled when the file is opened, and the file stays as it is.
LEMMA FoundInvKept ==
  ASSUME FileInv, ReadInv, FoundInv, [Next]_vars
  PROVE  FoundInv'
<1>1. CASE Write \/ Crash
  <2>1. /\ UNCHANGED <<req, found, pc, sent, res>>
        /\ wpc \in {"header", "chunks"}
    BY <1>1 DEF Write, WriteRaw, WriteHeader, WriteChunk, WriteTable, WriteFails, Crash,
       reading
  <2> QED BY <2>1 DEF FoundInv
<1>2. CASE RefuseName \/ RefuseURL \/ RefuseDigest \/ Refuse \/ ReadEmpty \/ Miss
  <2>1. /\ pc = "start" /\ pc' = "done" /\ sent' = sent
    BY <1>2 DEF RefuseName, RefuseURL, RefuseDigest, RefuseWith, Refuse, ReadEmpty, Miss,
       Answer, Asking, Ready
  <2>2. sent = <<>>
    BY <2>1 DEF ReadInv
  <2>3. res' # "OK"
    <3>1. Refusal # "OK"
      BY ReadTypes DEF Refusal, ReadRefusal
    <3> QED BY <1>2, <3>1 DEF RefuseName, RefuseURL, RefuseDigest, RefuseWith, Refuse,
               ReadEmpty, Miss, Answer
  <2> QED BY <2>1, <2>2, <2>3 DEF FoundInv
<1>3. CASE OpenCasblob
  BY <1>3, AcceptedIsSound DEF OpenCasblob, FoundInv, writerVars
<1>4. CASE OpenRaw
  <2>1. /\ raw /\ wpc \in {"done", "torn"} /\ SizeFits /\ found' = file.size
        /\ UNCHANGED <<size, raw, wpc, body, req>>
    BY <1>4 DEF OpenRaw, Asking, Ready, writerVars
  <2>2. wpc = "done" => file.size = size
    BY <2>1 DEF FileInv
  <2> QED BY <2>1, <2>2 DEF FoundInv, SizeFits
<1>5. CASE \/ ReadSome \/ ReadPipe \/ ReadEOF \/ ReadError
  <2>1. pc = "stream" /\ UNCHANGED <<size, raw, wpc, body, req, found>>
    BY <1>5 DEF ReadSome, ReadPipe, ReadEOF, ReadError, Streaming, writerVars
  <2> QED BY <2>1 DEF FoundInv
<1>6. CASE CloseReader \/ Compress \/ ClientLeaves \/ UNCHANGED vars
  <2>1. /\ UNCHANGED <<size, raw, wpc, body, req, found, sent, res>>
        /\ pc' = "stream" => pc = "stream"
    BY <1>6 DEF CloseReader, Compress, EncWrite, EncEnd, ClientLeaves, vars, writerVars
  <2> QED BY <2>1 DEF FoundInv
<1> QED
  BY <1>1, <1>2, <1>3, <1>4, <1>5, <1>6 DEF Next, Handle

\* grpc_bytestream.go Read, http.go GET, grpc_cas.go BatchReadBlobs, for every size of
\* blobs and chunks, every offset and limit, compressed or not, whoever fails or leaves
\* and wherever the writer stopped: what a client was sent is a gapless run of what
\* was found from its offset on, within its limit, and reaches its end when the answer
\* is a success; what was found has the blob's size, unless a raw file was torn and the
\* client did not say the size; and its bytes are the blob's, unless a raw file was
\* given others.
THEOREM ClientsGetTheBlob == Spec => []SentIsRight
<1>1. FileInv /\ ReadInv /\ FoundInv /\ [Next]_vars => ReadInv' /\ FoundInv'
  BY ReadInvKept, FoundInvKept
<1>2. Init => FoundInv
  BY DEF Init, FoundInv
<1>3. FileInv /\ ReadInv /\ FoundInv => SentIsRight
  <2> SUFFICES ASSUME FileInv, ReadInv, FoundInv PROVE SentIsRight
    OBVIOUS
  <2>1. Covers(sent, req.offset, Pos)
    BY DEF ReadInv
  <2>2. ASSUME sent # <<>> PROVE Pos = sent[Len(sent)][2]
    BY <2>2 DEF Pos, Reached
  <2>3. ASSUME sent # <<>>, Limited PROVE Pos - req.offset <= req.limit
    <3>1. limit = req.limit - (Pos - req.offset) /\ limit >= 0
      BY <2>3 DEF ReadInv, LimitInv
    <3> QED BY <3>1, ReadTypes
  <2>4. res = "OK" => Covers(sent, req.offset, found)
    BY <2>1 DEF ReadInv
  <2>5. res = "CutShort" => req.front = "http" /\ req.zstd
    BY DEF ReadInv
  <2>6. sent # <<>> => (body = "other" => raw)
    BY DEF FoundInv
  <2>7. sent # <<>> \/ res = "OK" => found = size \/ TornRaw
    <3>1. size # -1
      BY BlobReadAssumption DEF FileInv
    <3> QED BY <3>1 DEF FoundInv, TornRaw
  <2> QED BY <2>1, <2>2, <2>3, <2>4, <2>5, <2>6, <2>7 DEF SentIsRight
<1> QED
  BY <1>1, <1>2, <1>3, InitRead, FileInvHolds, PTL DEF Spec
=============================================================================
