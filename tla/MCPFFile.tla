----------------------------- MODULE MCPFFile ------------------------------
(***************************************************************************)
(* An instance of the Paged File layer for TLC.                            *)
(***************************************************************************)
EXTENDS PFFileProps

LruPool2 == {<<2, "LRU">>}

=============================================================================
