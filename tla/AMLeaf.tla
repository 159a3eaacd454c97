------------------------------- MODULE AMLeaf -------------------------------
(***************************************************************************)
(* A leaf of the B+ tree, as its operations leave it (amlayer/src/         *)
(* aminsert.c, amsearch.c, and the part of AM_DeleteEntry that works on    *)
(* the page).                                                              *)
(*                                                                         *)
(* A leaf has its keys in order, each with a list of record ids, and a     *)
(* free list of cells whose record id was deleted.  gap is the room        *)
(* between the keys, which grow from the start of the page, and the cells, *)
(* which grow from its end: recIdPtr - keyPtr.  AMLeafPage has the lists   *)
(* as they are laid out in the page, and is shown to implement this.       *)
(*                                                                         *)
(* A definition whose name ends in _Mutant... is a wrong version of the    *)
(* definition after it; no specification uses it.  It is what the property *)
(* named in its comment has been seen to catch.                            *)
(***************************************************************************)
EXTENDS Integers, FiniteSets, SequencesExt

CONSTANTS
  LeafSpace,  (* PF_PAGE_SIZE - AM_sl                                      *)
  KeySize,    (* attrLength + AM_ss: a key and the head of its list        *)
  CellSize,   (* AM_si + AM_ss: a record id and the next of the list       *)
  Keys,       (* the values of the attribute                               *)
  RecIds      (* the record ids                                            *)

ASSUME LeafAssumption ==
  /\ KeySize \in Nat \ {0} /\ CellSize \in Nat \ {0}
  /\ LeafSpace \in Nat /\ LeafSpace >= KeySize + CellSize
  /\ Keys \subseteq Int

AM_NULL_PAGE == -1

KeyEntry(key, ids) == [key |-> key, ids |-> ids]

(* The leaf AM_CreateIndex starts with.                                    *)
EmptyLeaf == [type |-> "l", keys |-> <<>>, free |-> 0, gap |-> LeafSpace,
              next |-> AM_NULL_PAGE]

IdsOf(keys) == FlattenSeq([i \in DOMAIN keys |-> keys[i].ids])
RoomFor(keys) == Len(keys) * KeySize + Len(IdsOf(keys)) * CellSize

-----------------------------------------------------------------------------
(* One turn of the loop of AM_SearchLeaf and AM_BinSearch, from low and    *)
(* high before it to those after it, or to the same if the loop is over.   *)
(* A key that is met is a range of its own.                                *)
Turn(keys, value) ==
  [range \in (DOMAIN keys) \X (DOMAIN keys) |->
     LET low == range[1]
         high == range[2]
         mid == (low + high) \div 2
     IN IF high - low <= 1 THEN range
        ELSE IF value < keys[mid] THEN <<low, mid - 1>>
        ELSE IF value > keys[mid] THEN <<mid + 1, high>>
        ELSE <<mid, mid>>]

(* The one or two places in which the two compare after the loop, which    *)
(* has fewer turns than there are keys.                                    *)
Narrowed(keys, value) ==
  LET range[turn \in 0 .. Len(keys)] ==
        IF turn = 0 THEN <<1, Len(keys)>> ELSE Turn(keys, value)[range[turn - 1]]
      last == range[Len(keys)]
  IN last[1] .. last[2]

KeysOf(leaf) == [i \in DOMAIN leaf.keys |-> leaf.keys[i].key]

(* SearchFindsPlace: a key greater than both of the last range goes        *)
(* between them.                                                           *)
AM_SearchLeaf_MutantBetween(leaf, value) ==
  LET keys == KeysOf(leaf)
      range == IF keys = <<>> THEN {} ELSE Narrowed(keys, value)
      index == IF range = {} THEN 1
               ELSE IF \E i \in range : value <= keys[i]
                    THEN CHOOSE i \in range :
                           value <= keys[i] /\ \A j \in range : j < i => value > keys[j]
                    ELSE CHOOSE i \in range : \A j \in range : j <= i
  IN [found |-> index \in range /\ keys[index] = value, index |-> index]

(* AM_SearchLeaf: where the key is, or would be inserted.                  *)
AM_SearchLeaf(leaf, value) ==
  LET keys == KeysOf(leaf)
      range == IF keys = <<>> THEN {} ELSE Narrowed(keys, value)
      index == IF range = {} THEN 1
               ELSE IF \E i \in range : value <= keys[i]
                    THEN CHOOSE i \in range :
                           value <= keys[i] /\ \A j \in range : j < i => value > keys[j]
                    ELSE 1 + CHOOSE i \in range : \A j \in range : j <= i
  IN [found |-> index \in range /\ keys[index] = value, index |-> index]

-----------------------------------------------------------------------------
(* The record id fits on the page, if need be after compaction.            *)
InsertFits(leaf, found) ==
  IF found THEN leaf.free > 0 \/ leaf.gap >= CellSize
  ELSE IF leaf.free = 0 THEN leaf.gap >= KeySize + CellSize
  ELSE \/ leaf.gap > KeySize
       \/ leaf.free * CellSize + leaf.gap > KeySize + CellSize

(* The keys from low to high alone.  If there are none, keyPtr is computed *)
(* from a variable that has no value yet: then the gap is any number.      *)
AM_Compact(leaf, low, high, anyGap) ==
  LET kept == SubSeq(leaf.keys, low, high) IN
  [leaf EXCEPT !.keys = kept, !.free = 0,
               !.gap = IF high < low THEN anyGap ELSE LeafSpace - RoomFor(kept)]

(* A cell comes from the free list if there is one there.                  *)
AM_InsertToLeafFound(leaf, id, index) ==
  LET with == [leaf EXCEPT !.keys[index].ids = <<id>> \o @] IN
  IF leaf.free = 0 THEN [with EXCEPT !.gap = @ - CellSize]
  ELSE [with EXCEPT !.free = @ - 1]

AM_InsertToLeafNotFound(leaf, key, id, index) ==
  AM_InsertToLeafFound(
    [leaf EXCEPT !.keys = InsertAt(@, index, KeyEntry(key, <<>>)),
                 !.gap = @ - KeySize],
    id, index)

NeedsCompaction(leaf) == leaf.free > 0 /\ leaf.gap <= KeySize

(* AM_InsertintoLeaf at the place that AM_SearchLeaf gave.  A leaf with no *)
(* room is left as it is: the code returns FALSE.                          *)
(* The 0 stands for the gap of a compaction of no keys, which is any       *)
(* number.  AMLeafPage has that (KeyFits); the proofs on the tree exclude  *)
(* it (AllListsFit), and no leaf of its instances can come to it.          *)
AM_InsertintoLeaf(leaf, key, id, at) ==
  IF ~InsertFits(leaf, at.found) THEN leaf
  ELSE IF at.found THEN AM_InsertToLeafFound(leaf, id, at.index)
  ELSE IF NeedsCompaction(leaf)
  THEN AM_InsertToLeafNotFound(AM_Compact(leaf, 1, Len(leaf.keys), 0), key, id, at.index)
  ELSE AM_InsertToLeafNotFound(leaf, key, id, at.index)

(* TypeOK: the room of the key is not given back.                          *)
DeleteFromLeaf_MutantKeepsRoom(leaf, id, index) ==
  LET left == RemoveFirst(leaf.keys[index].ids, id)
      freed == [leaf EXCEPT !.free = @ + 1] IN
  IF left = <<>> THEN [freed EXCEPT !.keys = RemoveAt(@, index)]
  ELSE [freed EXCEPT !.keys[index].ids = left]

(* What AM_DeleteEntry does to the page: the cell goes to the free list,   *)
(* and a key with no record id left is removed.                            *)
DeleteFromLeaf(leaf, id, index) ==
  LET left == RemoveFirst(leaf.keys[index].ids, id)
      freed == [leaf EXCEPT !.free = @ + 1] IN
  IF left = <<>> THEN [freed EXCEPT !.keys = RemoveAt(@, index), !.gap = @ + KeySize]
  ELSE [freed EXCEPT !.keys[index].ids = left]

=============================================================================
