----------------------------- MODULE AMLeafPage -----------------------------
(***************************************************************************)
(* A leaf of the B+ tree as it is laid out in its page (amlayer/src/       *)
(* aminsert.c, amfns.c).                                                   *)
(*                                                                         *)
(* The keys, each with the head of its list, grow from the start of the    *)
(* page; the cells, each a record id and the next of its list, grow from   *)
(* its end.  Heads and nexts are offsets in the page, and 0 ends a list.   *)
(* The cells that were deleted are linked in the free list.                *)
(***************************************************************************)
EXTENDS AMLeaf

CONSTANTS
  HeaderSize, (* AM_sl                                                     *)
  AnyKeyPtrs, (* keyPtr as AM_Compact may leave it if there are no keys    *)
  SearchKeys  (* bound: AM_SearchLeaf is compared on leaves of these keys  *)

ASSUME HeaderAssumption ==
  /\ HeaderSize \in Nat \ {0}
  /\ AnyKeyPtrs \subseteq Int /\ AnyKeyPtrs # {}
  /\ SearchKeys \subseteq Int /\ IsFiniteSet(SearchKeys)

VARIABLE page

PageSize == HeaderSize + LeafSpace
AM_NULL == 0

EmptyPage ==
  [keys |-> <<>>, cells |-> <<>>, recIdPtr |-> PageSize, keyPtr |-> HeaderSize,
   freeListPtr |-> AM_NULL, numinfreeList |-> 0]

Init == page = EmptyPage

(* The offsets of the cells of the list that starts at head: one turn of   *)
(* the loops that follow a list, and all of them.                          *)
OneCell(cells, head) ==
  [list \in Seq(DOMAIN cells) |->
     LET cell == IF list = <<>> THEN head ELSE cells[Last(list)].next IN
     IF cell = AM_NULL THEN list ELSE Append(list, cell)]

CellList(pg, head) ==
  LET size == Cardinality(DOMAIN pg.cells)
      list[n \in 0 .. size] == IF n = 0 THEN <<>> ELSE OneCell(pg.cells, head)[list[n - 1]]
  IN list[size]

IdList(pg, head) ==
  LET list == CellList(pg, head) IN [i \in DOMAIN list |-> pg.cells[list[i]].id]

(* The leaf that the page represents.                                      *)
AsLeaf(pg) ==
  [EmptyLeaf EXCEPT
     !.keys = [i \in DOMAIN pg.keys |-> KeyEntry(pg.keys[i].key, IdList(pg, pg.keys[i].head))],
     !.free = pg.numinfreeList,
     !.gap = pg.recIdPtr - pg.keyPtr]

-----------------------------------------------------------------------------
WithCell(cells, cell, id, next) == (* cells with this one, a new one or not *)
  [c \in DOMAIN cells \cup {cell} |-> IF c = cell THEN [id |-> id, next |-> next] ELSE cells[c]]

(* PageWellFormed: the cell stays in the free list.                        *)
InsertToLeafFound_MutantStaysFree(pg, id, index) ==
  LET fresh == pg.freeListPtr = AM_NULL
      cell == IF fresh THEN pg.recIdPtr - CellSize ELSE pg.freeListPtr IN
  [pg EXCEPT
     !.recIdPtr = IF fresh THEN cell ELSE @,
     !.numinfreeList = IF fresh THEN @ ELSE @ - 1,
     !.cells = WithCell(@, cell, id, pg.keys[index].head),
     !.keys[index].head = cell]

(* The record id becomes the head of the key's list.                       *)
InsertToLeafFound(pg, id, index) ==
  LET fresh == pg.freeListPtr = AM_NULL
      cell == IF fresh THEN pg.recIdPtr - CellSize ELSE pg.freeListPtr IN
  [pg EXCEPT
     !.recIdPtr = IF fresh THEN cell ELSE @,
     !.freeListPtr = IF fresh THEN @ ELSE pg.cells[cell].next,
     !.numinfreeList = IF fresh THEN @ ELSE @ - 1,
     !.cells = WithCell(@, cell, id, pg.keys[index].head),
     !.keys[index].head = cell]

InsertToLeafNotFound(pg, key, id, index) ==
  InsertToLeafFound(
    [pg EXCEPT !.keys = InsertAt(@, index, [key |-> key, head |-> AM_NULL]),
               !.keyPtr = @ + KeySize],
    id, index)

(* ImplementsLeaf: the first key's list is continued into the second's.    *)
Compact_MutantNoEnd(pg, low, high) ==
  LET ids(i) == IdList(pg, pg.keys[i].head)
      all == FlattenSeq([j \in 1 .. high - low + 1 |-> ids(low + j - 1)])
      before(i) == Len(FlattenSeq([j \in 1 .. i - low |-> ids(low + j - 1)]))
      offset(n) == PageSize - n * CellSize
  IN [keys |-> [j \in 1 .. high - low + 1 |->
                  [key |-> pg.keys[low + j - 1].key,
                   head |-> offset(before(low + j - 1) + 1)]],
      cells |-> [cell \in {offset(n) : n \in DOMAIN all} |->
                   LET n == (PageSize - cell) \div CellSize IN
                   [id |-> all[n], next |-> IF n = Len(all) THEN AM_NULL ELSE offset(n + 1)]],
      recIdPtr |-> offset(Len(all)),
      keyPtr |-> HeaderSize + (high - low + 1) * KeySize,
      freeListPtr |-> AM_NULL, numinfreeList |-> 0]

(* AM_Compact: the cells of the keys from low to high, one list after the  *)
(* other, downwards from the end of the page.                              *)
Compact(pg, low, high) ==
  LET ids(i) == IdList(pg, pg.keys[i].head)
      all == FlattenSeq([j \in 1 .. high - low + 1 |-> ids(low + j - 1)])
      before(i) == Len(FlattenSeq([j \in 1 .. i - low |-> ids(low + j - 1)]))
      ends == {before(i) + Len(ids(i)) : i \in low .. high}
      offset(n) == PageSize - n * CellSize
  IN [keys |-> [j \in 1 .. high - low + 1 |->
                  [key |-> pg.keys[low + j - 1].key,
                   head |-> offset(before(low + j - 1) + 1)]],
      cells |-> [cell \in {offset(n) : n \in DOMAIN all} |->
                   LET n == (PageSize - cell) \div CellSize IN
                   [id |-> all[n], next |-> IF n \in ends THEN AM_NULL ELSE offset(n + 1)]],
      recIdPtr |-> offset(Len(all)),
      keyPtr |-> HeaderSize + (high - low + 1) * KeySize,
      freeListPtr |-> AM_NULL, numinfreeList |-> 0]

(* AM_Compact on all keys.  Where there are none, keyPtr is computed from a *)
(* variable that has no value yet.                                         *)
WholeCompacted(pg) ==
  LET compact == Compact(pg, 1, Len(pg.keys)) IN
  IF pg.keys = <<>> THEN {[compact EXCEPT !.keyPtr = ptr] : ptr \in AnyKeyPtrs} ELSE {compact}

(* The cell is taken out of the key's list and put at the head of the free *)
(* list; the next of the cell before it, or the head, skips it.            *)
RemoveCell(pg, id, index) ==
  LET list == CellList(pg, pg.keys[index].head)
      n == CHOOSE i \in DOMAIN list :
             pg.cells[list[i]].id = id /\ \A j \in 1 .. i - 1 : pg.cells[list[j]].id # id
      cell == list[n]
      freed == [pg EXCEPT !.freeListPtr = cell, !.numinfreeList = @ + 1,
                          !.cells[cell].next = pg.freeListPtr]
  IN IF n = 1 THEN [freed EXCEPT !.keys[index].head = pg.cells[cell].next]
     ELSE [freed EXCEPT !.cells[list[n - 1]].next = pg.cells[cell].next]

-----------------------------------------------------------------------------
(* AM_InsertintoLeaf, where it returns TRUE.                               *)
Insert(key, id) ==
  LET at == AM_SearchLeaf(AsLeaf(page), key)
      gap == page.recIdPtr - page.keyPtr IN
  \/ /\ at.found
     /\ page.freeListPtr # AM_NULL \/ gap >= CellSize
     /\ page' = InsertToLeafFound(page, id, at.index)
  \/ /\ ~at.found
     /\ IF page.freeListPtr = AM_NULL THEN gap >= CellSize + KeySize ELSE gap > KeySize
     /\ page' = InsertToLeafNotFound(page, key, id, at.index)
  \/ /\ ~at.found /\ page.freeListPtr # AM_NULL
     /\ gap <= KeySize /\ page.numinfreeList * CellSize + gap > KeySize + CellSize
     /\ \E compacted \in WholeCompacted(page) :
          page' = InsertToLeafNotFound(compacted, key, id, at.index)

(* AM_DeleteEntry, where it finds the entry.                               *)
Delete(key, id) ==
  LET at == AM_SearchLeaf(AsLeaf(page), key)
      left == RemoveCell(page, id, at.index) IN
  /\ at.found /\ Contains(IdList(page, page.keys[at.index].head), id)
  /\ page' = IF left.keys[at.index].head = AM_NULL
             THEN [left EXCEPT !.keys = RemoveAt(@, at.index), !.keyPtr = @ - KeySize]
             ELSE left

(* AM_SplitLeaf compacts one half into each page.  (The lower half of a    *)
(* leaf with one key has none: AMTree has that split.)                     *)
LowerHalf ==
  /\ Len(page.keys) >= 2
  /\ page' = Compact(page, 1, Len(page.keys) \div 2)

UpperHalf ==
  /\ Len(page.keys) >= 2
  /\ page' = Compact(page, Len(page.keys) \div 2 + 1, Len(page.keys))

Next ==
  \/ \E key \in Keys, id \in RecIds : Insert(key, id) \/ Delete(key, id)
  \/ LowerHalf \/ UpperHalf

Spec == Init /\ [][Next]_page

-----------------------------------------------------------------------------
(* Every cell is in one list, and in it once: a key's or the free list.    *)
(* No key is without a record id.  Header, keys and cells do not overlap.  *)
(* (Of sizes for which an insertion never compacts no keys: see KeyFits.)  *)
PageWellFormed ==
  LET heads == [i \in DOMAIN page.keys |-> page.keys[i].head]
      lists == [i \in DOMAIN heads |-> CellList(page, heads[i])]
      free == CellList(page, page.freeListPtr)
      all == FlattenSeq(lists) \o free
  IN /\ \A i \in DOMAIN lists : lists[i] # <<>>
     /\ Len(free) = page.numinfreeList
     /\ Len(all) = Cardinality(DOMAIN page.cells)
     /\ ToSet(all) = DOMAIN page.cells
     /\ DOMAIN page.cells =
          {PageSize - n * CellSize : n \in 1 .. (PageSize - page.recIdPtr) \div CellSize}
     /\ page.keyPtr = HeaderSize + Len(page.keys) * KeySize
     /\ page.keyPtr <= page.recIdPtr

(* An insertion that compacts the page compacts at least one key: where    *)
(* all keys are deleted there are more bytes between keys and cells than a *)
(* key takes.  It is so for integers and floats, whose sizes are 4072, 6   *)
(* and 6, and wherever a key and its record ids cannot fill the page to    *)
(* the last byte: (LeafSpace - KeySize) % CellSize # 0.                    *)
KeyFits == page.keys = <<>> => page.recIdPtr - page.keyPtr > KeySize

(* Where a scan of the keys finds a key, or the place for it.              *)
PlaceOf(keys, key) ==
  [found |-> key \in ToSet(keys), index |-> 1 + Cardinality({i \in DOMAIN keys : keys[i] < key})]

LeafWith(keys) ==
  [EmptyLeaf EXCEPT !.keys = [i \in DOMAIN keys |-> KeyEntry(keys[i], <<>>)]]

(* The numbers of S in order.                                              *)
Sorted(S) ==
  [i \in 1 .. Cardinality(S) |-> CHOOSE k \in S : Cardinality({j \in S : j < k}) = i - 1]

SearchIsScan ==
  \A S \in SUBSET SearchKeys, key \in SearchKeys :
    AM_SearchLeaf(LeafWith(Sorted(S)), key) = PlaceOf(Sorted(S), key)

(* The binary search of AM_SearchLeaf finds what a scan of the keys would, *)
(* for keys that are there, that lie between two and at either end, on any *)
(* leaf whose keys are in order; and those of this leaf are, whatever was  *)
(* inserted, deleted and split off.                                        *)
SearchFindsPlace ==
  /\ SearchIsScan
  /\ \A i, j \in DOMAIN page.keys : i < j => page.keys[i].key < page.keys[j].key

(* The page, with its offsets and lists, does what AMLeafSpec says of the  *)
(* leaf: every insertion, deletion and compaction has its effect on the    *)
(* lists of record ids, keeps their order, and takes the room it should.   *)
L == INSTANCE AMLeafSpec WITH leaf <- AsLeaf(page)
ImplementsLeaf == L!Spec

=============================================================================
