------------------------------ MODULE MCServer ------------------------------
(***************************************************************************)
(* Two workers migrate two files of the v0 structure and a subdirectory    *)
(* with two more; one request for each server; one restart.                *)
(***************************************************************************)
EXTENDS Server, TLC

CONSTANTS f1, f2, d1, g1, g2, x, r1, r2

MCFiles == f1 :> {f1} @@ f2 :> {f2} @@ d1 :> {g1, g2} @@ x :> {}
MCProto == r1 :> "http" @@ r2 :> "grpc"
=============================================================================
