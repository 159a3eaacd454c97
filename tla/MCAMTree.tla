------------------------------ MODULE MCAMTree ------------------------------
(***************************************************************************)
(* Instances of the B+ tree for TLC.                                       *)
(***************************************************************************)
EXTENDS AMTreeProps

CONSTANTS r1, r2, r3

=============================================================================
