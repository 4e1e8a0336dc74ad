---------------------------- MODULE MCSizedLRU ------------------------------
(***************************************************************************)
(* Small instances of SizedLRU: files of up to three blocks of two bytes   *)
(* in a cache of nine bytes, so that rounding, overwriting with a larger  *)
(* or a smaller file, and evicting several files for one all happen.       *)
(***************************************************************************)
EXTENDS SizedLRU

MCItem == {[size |-> 1, sizeOnDisk |-> 1], [size |-> 3, sizeOnDisk |-> 2],
           [size |-> 4, sizeOnDisk |-> 5], [size |-> 8, sizeOnDisk |-> 8]}
MCSize == {-1, 1, 3, 8}
MCKeySymmetry == Permutations(Key)
MCClientSymmetry == Permutations(Client)
MCSymmetry == MCKeySymmetry \cup MCClientSymmetry
=============================================================================
