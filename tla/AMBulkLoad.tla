----------------------------- MODULE AMBulkLoad -----------------------------
(***************************************************************************)
(* AM_BulkLoad: the tree of a new index, built from a sorted data file     *)
(* from the leaves up (amlayer/src/am_bulkload.c).                         *)
(*                                                                         *)
(* The leaf that is filled stays fixed, and so does a page of the data     *)
(* file, which has its buffer from the same pool.  The last page that is   *)
(* built becomes the root: it is copied to page 0 and disposed of.  Since  *)
(* it is the page with the highest number, and the first that the Paged    *)
(* File layer will allocate again, the model takes it out of the file.     *)
(***************************************************************************)
EXTENDS AMTreeProps

CONSTANTS
  Loads,             (* the data files: sequences of pairs of key and      *)
                     (* record id, in the order of the keys                *)
  MaxParentEntries   (* the separators for which memory is got at first    *)

ASSUME LoadAssumption ==
  /\ MaxParentEntries \in Nat \ {0}
  /\ \A file \in Loads : file \in Seq(Keys \X RecIds)

VARIABLE
  load  (* file: the data file; done: the number of its records that are   *)
        (* in leaves; data: it has a page fixed; parents: parentEntries,   *)
        (* the separators with their right child; first: the child left of *)
        (* all of them                                                     *)

NoLoad == [file |-> <<>>, done |-> 0, data |-> FALSE, parents |-> <<>>, first |-> NoPage]

LoadType ==
  /\ load.file \in Loads \cup {<<>>} /\ load.done \in 0 .. Len(load.file)
  /\ load.data \in BOOLEAN /\ load.first \in {NoPage} \cup DOMAIN page
  /\ load.parents \in Seq([key : Keys, page : DOMAIN page])

Loading == call.op = "load"
AtLeaves == Loading /\ call.at # NoPage
BuffersLeft == FreeBuffers - IF load.data THEN 1 ELSE 0

(* The page that AM_CreateIndex makes, and none but it.                    *)
NewIndex == page = [pg \in {Root} |-> EmptyLeaf] /\ fixed = {}

(* A load that fails leaves fixed what it has fixed and gives up.          *)
LoadFails(err) ==
  /\ Return([op |-> "load", err |-> err])
  /\ load' = NoLoad

-----------------------------------------------------------------------------
(***************************************************************************)
(* The leaves.                                                             *)
(***************************************************************************)
NewLeaf == NumPages  (* the number of the page allocated next              *)

(* The first leaf is allocated and the first page of the data file got.    *)
StartLoad(file) ==
  LET data == file # <<>> IN
  /\ call = Idle /\ NewIndex /\ "err" \notin DOMAIN ret
  /\ page' = With(NewLeaf, EmptyLeaf, page)
  /\ leftPageNum' = NewLeaf
  /\ fixed' = {NewLeaf}
  /\ IF data /\ numBuffers = 1 THEN LoadFails("PF")
     ELSE /\ call' = [Idle EXCEPT !.op = "load", !.at = NewLeaf]
          /\ load' = [NoLoad EXCEPT !.file = file, !.data = data, !.first = NewLeaf]
          /\ UNCHANGED ret
  /\ UNCHANGED <<stack, numBuffers>>

StartLoadFails ==
  /\ call = Idle /\ NewIndex /\ "err" \notin DOMAIN ret
  /\ LoadFails("NOMEM")
  /\ UNCHANGED <<page, fixed, stack, leftPageNum, numBuffers>>

RecordsLeft == load.done < Len(load.file)
Record == load.file[load.done + 1]  (* SP_GetNextRecord                     *)

(* The page has no room for another key and its cell.                      *)
PackFull(leaf) == leaf.gap < KeySize + CellSize

(* ScanTypeOK: the room of the cell is not taken off.                      *)
PackLeafPage_MutantNoCell(leaf, record) ==
  [leaf EXCEPT !.keys = Append(@, KeyEntry(record[1], <<record[2]>>)),
               !.gap = @ - KeySize]

(* PackLeafPage: a key of its own for each record.                         *)
PackLeafPage(leaf, record) ==
  [leaf EXCEPT !.keys = Append(@, KeyEntry(record[1], <<record[2]>>)),
               !.gap = @ - (KeySize + CellSize)]

LoadRecord ==
  /\ AtLeaves /\ RecordsLeft /\ ~PackFull(Leaf)
  /\ page' = [page EXCEPT ![call.at] = PackLeafPage(Leaf, Record)]
  /\ load' = [load EXCEPT !.done = @ + 1]
  /\ UNCHANGED <<fixed, stack, leftPageNum, numBuffers, call, ret>>

(* The full leaf is unfixed for the new one, and got again to be linked to *)
(* it: with the page of the data file, that makes three.                   *)
LinkedLeaves ==
  With(NewLeaf, EmptyLeaf, [page EXCEPT ![call.at].next = NewLeaf])

(* EntriesFindable: the separator is the last key of the full leaf.        *)
LoadNextLeaf_MutantLastKey ==
  /\ AtLeaves /\ RecordsLeft /\ PackFull(Leaf) /\ BuffersLeft > 0
  /\ page' = [LinkedLeaves EXCEPT ![NewLeaf] = PackLeafPage(@, Record)]
  /\ fixed' = {NewLeaf}
  /\ call' = [call EXCEPT !.at = NewLeaf]
  /\ load' = [load EXCEPT !.done = @ + 1,
                          !.parents = Append(@, [key |-> Last(Leaf.keys).key,
                                                 page |-> NewLeaf])]
  /\ UNCHANGED <<stack, leftPageNum, numBuffers, ret>>

LoadNextLeaf ==
  /\ AtLeaves /\ RecordsLeft /\ PackFull(Leaf) /\ BuffersLeft > 0
  /\ page' = [LinkedLeaves EXCEPT ![NewLeaf] = PackLeafPage(@, Record)]
  /\ fixed' = {NewLeaf}
  /\ call' = [call EXCEPT !.at = NewLeaf]
  /\ load' = [load EXCEPT !.done = @ + 1,
                          !.parents = Append(@, [key |-> Record[1],
                                                 page |-> NewLeaf])]
  /\ UNCHANGED <<stack, leftPageNum, numBuffers, ret>>

(* The room for separators is doubled whenever it is used up.              *)
NeedsRealloc ==
  \E n \in 0 .. Len(load.parents) : Len(load.parents) = MaxParentEntries * 2 ^ n

(* No third buffer for the leaf before, or no memory for its separator     *)
(* once the two are linked.  Leaf and data page remain fixed.              *)
NextLeafFails ==
  /\ AtLeaves /\ RecordsLeft /\ PackFull(Leaf)
  /\ fixed' = {NewLeaf}
  /\ \/ /\ BuffersLeft = 0
        /\ page' = With(NewLeaf, EmptyLeaf, page)
        /\ LoadFails("PF")
     \/ /\ BuffersLeft > 0 /\ NeedsRealloc
        /\ page' = LinkedLeaves
        /\ LoadFails("NOMEM")
  /\ UNCHANGED <<stack, leftPageNum, numBuffers>>

-----------------------------------------------------------------------------
(***************************************************************************)
(* The root and the nodes between.                                         *)
(***************************************************************************)
Without(pg, pages) == [p \in DOMAIN pages \ {pg} |-> pages[p]]

(* One leaf has held all records: it is the root.                          *)
LoadOneLeaf ==
  /\ AtLeaves /\ ~RecordsLeft /\ load.parents = <<>>
  /\ IF numBuffers = 1
     THEN LoadFails("PF") /\ UNCHANGED <<page, fixed, leftPageNum>>
     ELSE /\ page' = Without(call.at, [page EXCEPT ![Root] = Leaf])
          /\ fixed' = {}
          /\ leftPageNum' = Root
          /\ Return(OK("load")) /\ load' = NoLoad
  /\ UNCHANGED <<stack, numBuffers>>

LoadLeavesDone ==
  /\ AtLeaves /\ ~RecordsLeft /\ load.parents # <<>>
  /\ fixed' = {}
  /\ call' = [call EXCEPT !.at = NoPage]
  /\ load' = [load EXCEPT !.data = FALSE]
  /\ UNCHANGED <<page, stack, leftPageNum, numBuffers, ret>>

(* The separators of the nodes of a level, MaxKeys for each.               *)
NumNodes == (Len(load.parents) + MaxKeys - 1) \div MaxKeys
Chunk(n) ==
  SubSeq(load.parents, (n - 1) * MaxKeys + 1,
         IF n = NumNodes THEN Len(load.parents) ELSE n * MaxKeys)

(* LoadAllOrNothing: the leftmost child is left out.                       *)
BuiltNode_MutantNoFirst(n) ==
  LET chunk == Chunk(n)
      keys == [i \in DOMAIN chunk |-> chunk[i].key]
      pages == [i \in DOMAIN chunk |-> chunk[i].page] IN
  InternalNode(keys, <<pages[1]>> \o pages)

(* A node but the first one has the child right of its first key on the    *)
(* left of it as well.                                                     *)
BuiltNode(n) ==
  LET chunk == Chunk(n)
      keys == [i \in DOMAIN chunk |-> chunk[i].key]
      pages == [i \in DOMAIN chunk |-> chunk[i].page] IN
  InternalNode(keys, <<IF n = 1 THEN load.first ELSE pages[1]>> \o pages)

AtLevel == Loading /\ call.at = NoPage

(* BuildInternalLevel: the first key of each node but the first goes up.   *)
BuildInternalLevel ==
  /\ AtLevel /\ NumNodes > 1
  /\ page' = [pg \in DOMAIN page \cup NumPages .. NumPages + NumNodes - 1 |->
                IF pg \in DOMAIN page THEN page[pg] ELSE BuiltNode(pg - NumPages + 1)]
  /\ load' = [load EXCEPT
                !.first = NumPages,
                !.parents = [n \in 1 .. NumNodes - 1 |->
                               [key |-> Chunk(n + 1)[1].key, page |-> NumPages + n]]]
  /\ UNCHANGED <<fixed, stack, leftPageNum, numBuffers, call, ret>>

BuildRoot ==
  /\ AtLevel /\ NumNodes = 1
  /\ page' = [page EXCEPT ![Root] = BuiltNode(1)]
  /\ Return(OK("load")) /\ load' = NoLoad
  /\ UNCHANGED <<fixed, stack, leftPageNum, numBuffers>>

(* No memory for the separators of the next level.  The error of a level   *)
(* above the first is returned as AME_PF.                                  *)
BuildLevelFails ==
  /\ AtLevel
  /\ LoadFails(IF IsLeaf(page[load.first]) THEN "NOMEM" ELSE "PF")
  /\ UNCHANGED <<page, fixed, stack, leftPageNum, numBuffers>>

-----------------------------------------------------------------------------
LoadStep ==
  \/ LoadRecord \/ LoadNextLeaf \/ NextLeafFails
  \/ LoadOneLeaf \/ LoadLeavesDone
  \/ BuildInternalLevel \/ BuildRoot \/ BuildLevelFails

BulkLoad == (\E file \in Loads : StartLoad(file)) \/ StartLoadFails \/ LoadStep

(* A client whose load has failed ends.                                    *)
LoadFailed == ret.op = "load" /\ "err" \in DOMAIN ret

-----------------------------------------------------------------------------
(* What searches from the root find.                                       *)
EntriesFound ==
  {pair \in Keys \X RecIds :
     LET place == AM_SearchLeaf(page[LeafFor(pair[1])], pair[1]) IN
     /\ place.found
     /\ Contains(page[LeafFor(pair[1])].keys[place.index].ids, pair[2])}

(* am.h:416: until AM_BulkLoad returns AME_OK searches find       *)
(* nothing, however many pages there are already, and the same when it     *)
(* fails, at whatever step; with AME_OK they find all records of the data  *)
(* file, and nothing else.                                                 *)
LoadAllOrNothing ==
  [][Loading =>
       EntriesFound' = IF call' = Idle /\ ret' = OK("load") THEN ToSet(load.file) ELSE {}
    ]_<<vars, load>>

=============================================================================
