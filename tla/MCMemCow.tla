------------------------------ MODULE MCMemCow ------------------------------
(***************************************************************************)
(* A small instance of MemCow for TLC: bytes 0 and 1, files of at most     *)
(* two bytes.                                                              *)
(***************************************************************************)
EXTENDS MemCow, TLC

MCBytes == {0, 1}
MCPieces == {<<1>>}
MCSymmetry == Permutations(Systems) \union Permutations(Inodes) \union Permutations(Blocks)
=============================================================================
