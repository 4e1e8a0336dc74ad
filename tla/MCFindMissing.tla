--------------------------- MODULE MCFindMissing ----------------------------
(***************************************************************************)
(* Small instances of FindMissing: three digests in batches of two, the    *)
(* second of them too large for the backend or not.                        *)
(***************************************************************************)
EXTENDS FindMissing

MCNone == {}
MCSecond == {2}
=============================================================================
