------------------------- MODULE MCByteStreamWrite --------------------------
(***************************************************************************)
(* Blobs of up to two bytes in up to three messages; an offset may be      *)
(* negative.                                                               *)
(***************************************************************************)
EXTENDS ByteStreamWrite

MCOffset == {-1, 0, 1}
=============================================================================
