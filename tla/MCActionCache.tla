--------------------------- MODULE MCActionCache ----------------------------
(***************************************************************************)
(* A reader or a writer, and a writer of one action.  Result r1 has an     *)
(* output file, a directory with one file below it and stdout; r2 has      *)
(* contents for a file and for stderr, which has no digest; r3 contents    *)
(* under the digest of another blob and under that of the empty one; r4 is *)
(* not valid; r5 names stdout and stderr by their digests only.  r5 and one*)
(* of r1 and r3 can be captured at the same time, r1 and r3 cannot.        *)
(***************************************************************************)
EXTENDS ActionCache, TLC

CONSTANTS b1, b2, t1, empty, none, c1, c2

MCBlob == {b1, b2, t1}
MCBlobSize == b1 :> 1 @@ b2 :> 2 @@ t1 :> 1 @@ empty :> 0
MCTreeFiles == t1 :> {b2, empty}

Nothing == [raw |-> none, digest |-> none]
Ref(b) == [raw |-> none, digest |-> b]
Both(b, d) == [raw |-> b, digest |-> d]

R1 == [stdout |-> Ref(b1), stderr |-> Nothing, files |-> <<Ref(b1)>>,
       dirs |-> {t1}, size |-> 2, malformed |-> FALSE]
R2 == [stdout |-> Nothing, stderr |-> Both(b1, none), files |-> <<Both(b2, b2)>>,
       dirs |-> {}, size |-> 3, malformed |-> FALSE]
R3 == [stdout |-> Both(b1, empty), stderr |-> Both(b1, t1), files |-> <<Ref(b2)>>,
       dirs |-> {}, size |-> 2, malformed |-> FALSE]
R4 == [stdout |-> Ref(b1), stderr |-> Nothing, files |-> <<Both(b2, none)>>,
       dirs |-> {}, size |-> 1, malformed |-> FALSE]
R5 == [stdout |-> Ref(b1), stderr |-> Ref(b2), files |-> <<>>,
       dirs |-> {}, size |-> 1, malformed |-> FALSE]
MCResult == {R1, R2, R3, R4, R5}

MCKind ==
    {c1 :> "grpcGet" @@ c2 :> "grpcUpdate", c1 :> "http" @@ c2 :> "httpPut",
     c1 :> "nodepsGet" @@ c2 :> "grpcUpdate", c1 :> "batch" @@ c2 :> "httpPut",
     c1 :> "grpcUpdate" @@ c2 :> "httpPut"}
=============================================================================
