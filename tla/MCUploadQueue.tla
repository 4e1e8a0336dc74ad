--------------------------- MODULE MCUploadQueue ----------------------------
(***************************************************************************)
(* Three Puts of the same action result, two of them in one namespace and  *)
(* one whose context has no prefix although it needs one, which goes to    *)
(* the configured one; two workers and room for one upload, so that        *)
(* uploads overtake each other and are dropped.  One reader at a time: of  *)
(* the action result in its namespace, in another one and without one, or  *)
(* of a blob that is nowhere.                                              *)
(***************************************************************************)
EXTENDS UploadQueue, TLC

CONSTANTS r1, r2, r3, x1, x2, x3, x4

MCRequest == {r1, r2, r3}
MCReader == {x1, x2, x3, x4}
MCKey == [r \in MCRequest \cup MCReader |-> IF r = x4 THEN "k2" ELSE "k1"]
MCKind == [r \in MCRequest \cup MCReader |-> IF r = x4 THEN "CAS" ELSE "AC"]
MCCtxPrefix ==
    [r \in MCRequest \cup MCReader |->
        CASE r \in {r3, x3} -> ""
          [] r = x2 -> "other"
          [] OTHER -> "ns"]
MCProxy == {"http", "s3", "azblob", "grpc"}
=============================================================================
