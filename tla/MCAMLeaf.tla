------------------------------ MODULE MCAMLeaf ------------------------------
(***************************************************************************)
(* An instance of a leaf page for TLC: three keys with a record id each,   *)
(* or one with four.                                                       *)
(***************************************************************************)
EXTENDS AMLeafPage, TLC

CONSTANTS r1, r2

RecIdSymmetry == Permutations(RecIds)

=============================================================================
