-------------------------- MODULE MCPFReplacement --------------------------
(***************************************************************************)
(* Instances of the Paged File layer, with the history of the page uses    *)
(* beside it, for TLC.                                                     *)
(***************************************************************************)
EXTENDS PFReplacement

LruPool2 == {<<2, "LRU">>}
MruPool1LruPool2 == {<<1, "MRU">>, <<2, "LRU">>}

=============================================================================
