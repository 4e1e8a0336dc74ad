----------------------------- MODULE MCBlobRead ----------------------------
\* Instance of BlobRead for TLC: blobs of one to three chunks of two bytes.
EXTENDS BlobRead

\* Every ByteStream read of a blob of up to five bytes, also with an offset
\* or a limit outside of it, plain and compressed.
MCRead ==
  [front : {"bytestream"}, zstd : BOOLEAN, size : {0, 2, 5}, offset : -1 .. 6,
   limit : {-1, 0, 1, 4}]

\* HTTP asks for the whole blob and does not know its size.
MCGet == [front : {"http"}, zstd : BOOLEAN, size : {-1}, offset : {0}, limit : {0}]

MCBatch == [front : {"batch"}, zstd : BOOLEAN, size : {-1, 0, 5}, offset : {0}, limit : {0}]

MCRequest == MCRead \cup MCGet \cup MCBatch
============================================================================
