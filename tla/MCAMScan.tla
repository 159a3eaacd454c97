------------------------------ MODULE MCAMScan ------------------------------
(***************************************************************************)
(* Instances of index scans and bulk loads for TLC.                        *)
(***************************************************************************)
EXTENDS AMScanProps

CONSTANTS r1, r2

(* Data files with as many records as are here keys from the first on:     *)
(* for one leaf, for two, and for nodes of two levels.                     *)
File(n) == [i \in 1 .. n |-> <<i, r1>>]
NoLoads == {}
AllLoads == {File(n) : n \in {0, 2, 4, 10}}
LoadOfTwoLeaves == {File(3)}

=============================================================================
