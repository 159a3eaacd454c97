----------------------------- MODULE AMLeafSpec -----------------------------
(***************************************************************************)
(* One leaf under insertions, deletions and the compactions of a split: it *)
(* is what AMLeafPage, with its offsets and lists, is shown to implement.  *)
(***************************************************************************)
EXTENDS AMLeaf

VARIABLE leaf

Init == leaf = EmptyLeaf

Insert(key, id) ==
  LET at == AM_SearchLeaf(leaf, key) IN
  /\ InsertFits(leaf, at.found)
  /\ leaf' = AM_InsertintoLeaf(leaf, key, id, at)

Delete(key, id) ==
  LET at == AM_SearchLeaf(leaf, key) IN
  /\ at.found /\ Contains(leaf.keys[at.index].ids, id)
  /\ leaf' = DeleteFromLeaf(leaf, id, at.index)

(* One half of a split.                                                    *)
Half(low, high) ==
  /\ Len(leaf.keys) >= 2
  /\ leaf' = AM_Compact(leaf, low, high, 0)

Next ==
  \/ \E key \in Keys, id \in RecIds : Insert(key, id) \/ Delete(key, id)
  \/ Half(1, Len(leaf.keys) \div 2)
  \/ Half(Len(leaf.keys) \div 2 + 1, Len(leaf.keys))

Spec == Init /\ [][Next]_leaf

=============================================================================
