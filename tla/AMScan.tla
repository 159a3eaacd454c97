------------------------------- MODULE AMScan -------------------------------
(***************************************************************************)
(* Index scans: AM_OpenIndexScan, AM_FindNextEntry and AM_CloseIndexScan   *)
(* (amlayer/src/amscan.c), on a tree that is built by insertions or by a   *)
(* bulk load, with one entry of the scan table.                            *)
(*                                                                         *)
(* As amlayer/DOC has it, the one change that a client may make during a   *)
(* scan is to delete the entry the scan has just returned.                 *)
(***************************************************************************)
EXTENDS AMBulkLoad

CONSTANTS
  Ops,          (* the operators the clients scan with                     *)
  Values,       (* bound: the values that scans are opened with            *)
  TreeKeys,     (* bound: the keys that clients insert and delete          *)
  MaxStack      (* bound: with as much on the stack, no scan for a value   *)
                (* is opened                                               *)

AllOps == {"ALL", "EQUAL", "LESS_THAN", "GREATER_THAN",
           "LESS_THAN_EQUAL", "GREATER_THAN_EQUAL", "NOT_EQUAL"}

ASSUME ScanAssumption ==
  /\ Ops \subseteq AllOps /\ Values \subseteq Int
  /\ TreeKeys \subseteq Keys /\ MaxStack \in Nat \ {0}

VARIABLE
  scan  (* the entry of AM_scanTable                                       *)

scanVars == <<page, fixed, stack, leftPageNum, numBuffers, call, ret, load, scan>>

(* A record id stands for the entry it is of.  nextRecIdPtr is the cell of *)
(* an entry, the end of a list, or an offset that is of no cell.           *)
NullCell == <<"null">>
WildCell == <<"wild">>

FreeSlot ==
  [status |-> "FREE", op |-> "ALL", value |-> <<>>, pageNum |-> 0, index |-> 0, actindex |-> 0,
   nextpageNum |-> 0, nextvalue |-> <<>>, nextIndex |-> 0, cell |-> NullCell,
   lastpageNum |-> 0, lastIndex |-> 0]

Returned(entry) == [op |-> "next", entry |-> entry]
EOF == [op |-> "next", err |-> "EOF"]

-----------------------------------------------------------------------------
(* A page that is no leaf of the index, or is fixed, cannot be got, nor    *)
(* any page if held buffers are in use besides those of fixed pages.       *)
CanGet(pg, held) == pg \in DOMAIN page \ fixed /\ FreeBuffers > held

(* The key, or nothing if i is behind the last one.                        *)
KeyAt(pg, i) == IF i \in DOMAIN page[pg].keys THEN <<page[pg].keys[i].key>> ELSE <<>>
NumKeys(pg) == Len(page[pg].keys)

(* The list head of key i.  Behind the last key is what was there before.  *)
CellAt(pg, i) ==
  IF i \in DOMAIN page[pg].keys
  THEN <<page[pg].keys[i].key, Head(page[pg].keys[i].ids)>>
  ELSE WildCell

(* The next of the list that the cell is in.                               *)
CellAfter(pg, cell) ==
  LET ids == (CHOOSE entry \in ToSet(page[pg].keys) : entry.key = cell[1]).ids
      i == CHOOSE j \in DOMAIN ids : ids[j] = cell[2] IN
  IF i = Len(ids) THEN NullCell ELSE <<cell[1], ids[i + 1]>>

(* The scan at key i of the page.                                          *)
At(s, pg, i) ==
  [s EXCEPT !.nextpageNum = pg, !.nextIndex = i, !.actindex = i, !.cell = CellAt(pg, i)]

-----------------------------------------------------------------------------
(***************************************************************************)
(* AM_OpenIndexScan.                                                       *)
(***************************************************************************)

(* GetLeftPageNum leaves its error, AME_PF, in AM_LeftPageNum.             *)
LeftPage == IF CanGet(Root, 0) THEN GetLeftPageNum ELSE NoPage

(* TwoBuffersForScans: the leaf is got also when the search has it.        *)
FromLeft_MutantGetsAgain(s, leaf) ==
  IF leaf # LeftPage /\ CanGet(LeftPage, 1)
  THEN {At(s, LeftPage, 1)} ELSE {}

(* From the leftmost leaf on: it has to be got, unless the search has it.  *)
FromLeft(s, leaf) ==
  IF leaf = LeftPage \/ CanGet(LeftPage, 1)
  THEN {At(s, LeftPage, 1)} ELSE {}

(* The scan, when the search for the value has ended at the leaf; the      *)
(* empty set if a page cannot be got.  pageNum and index are where the     *)
(* value is, or would be: behind the last leaf if pageNum is NoPage.       *)
Positioned(s, leaf, found) ==
  LET after == IF s.index < NumKeys(leaf) THEN {At(s, leaf, s.index + 1)}
               ELSE IF page[leaf].next = AM_NULL_PAGE THEN {[s EXCEPT !.status = "OVER"]}
               ELSE IF CanGet(page[leaf].next, 1) THEN {At(s, page[leaf].next, 1)}
               ELSE {}
      here == {IF s.pageNum = NoPage
               THEN [s EXCEPT !.nextpageNum = NoPage, !.cell = WildCell,
                              !.nextIndex = s.index, !.actindex = s.index]
               ELSE At(s, s.pageNum, s.index)}
      lastAt(i) == {[from EXCEPT !.lastpageNum = s.pageNum, !.lastIndex = i] :
                      from \in FromLeft(s, leaf)}
  IN CASE s.op = "EQUAL" /\ found ->
            {[At(s, leaf, s.index) EXCEPT !.lastpageNum = leaf, !.lastIndex = s.index]}
       [] s.op = "EQUAL" /\ ~found -> {[s EXCEPT !.status = "OVER"]}
       [] s.op = "LESS_THAN" -> lastAt(s.index - 1)
       [] s.op = "LESS_THAN_EQUAL" -> lastAt(IF found THEN s.index ELSE s.index - 1)
       [] s.op = "GREATER_THAN" -> IF found THEN after ELSE here
       [] s.op = "GREATER_THAN_EQUAL" -> here
       [] s.op = "NOT_EQUAL" -> FromLeft(s, leaf)

MayOpen ==
  /\ call = Idle /\ scan.status = "FREE" /\ ~LoadFailed
  /\ "err" \in DOMAIN ret => ret.err # "PF"

OpenError == ret' = PFError("open")

(* value is NULL.  If the page cannot be got, the entry of the table is    *)
(* not given back.                                                         *)
OpenFullScan ==
  LET s == [FreeSlot EXCEPT !.status = "FIRST"] IN
  /\ MayOpen /\ "ALL" \in Ops
  /\ leftPageNum' = LeftPage
  /\ IF CanGet(LeftPage, 0)
     THEN scan' = At(s, LeftPage, 1) /\ ret' = OK("open")
     ELSE scan' = [s EXCEPT !.nextpageNum = LeftPage, !.nextIndex = 1, !.actindex = 1]
          /\ OpenError
  /\ UNCHANGED <<page, fixed, stack, numBuffers, call, load>>

MayOpenAt(op) == MayOpen /\ op # "ALL" /\ Len(stack) < MaxStack

(* The search fails as in SearchFails.                                     *)
OpenSearchFails(op, value) ==
  /\ MayOpenAt(op)
  /\ ~CanGet(LeafAt(Path(value)), 0)
  /\ stack' = IF FreeBuffers = 0 THEN stack ELSE stack \o Path(value)
  /\ leftPageNum' = LeftPage
  /\ OpenError
  /\ UNCHANGED <<page, fixed, numBuffers, call, load, scan>>

(* The leaf where the search ends is fixed until the scan has its place.   *)
OpenScanAt(op, value) ==
  LET leaf == LeafAt(Path(value))
      place == AM_SearchLeaf(page[leaf], value)
      past == place.index > NumKeys(leaf)
      s == [FreeSlot EXCEPT !.status = "FIRST", !.op = op, !.value = <<value>>,
                            !.index = place.index, !.pageNum = IF past THEN NoPage ELSE leaf]
      positions == Positioned(s, leaf, place.found)
  IN
  /\ MayOpenAt(op) /\ CanGet(leaf, 0)
  /\ past => page[leaf].next = AM_NULL_PAGE
  /\ op = "NOT_EQUAL" => place.found
  /\ stack' = stack \o Path(value)
  /\ leftPageNum' = LeftPage
  /\ IF positions = {} THEN scan' = s /\ fixed' = fixed \cup {leaf} /\ OpenError
     ELSE scan' \in positions /\ UNCHANGED fixed /\ ret' = OK("open")
  /\ UNCHANGED <<page, numBuffers, call, load>>

(* The value is behind the last key of a leaf that has another one after   *)
(* it.  That one is got, and its header read over the one that has its     *)
(* page number: so the page after it is unfixed in its place, which fails  *)
(* if nobody has it fixed.  Both leaves remain fixed.                      *)
OpenPastLeaf(op, value) ==
  LET leaf == LeafAt(Path(value))
      next == page[leaf].next IN
  /\ MayOpenAt(op) /\ CanGet(leaf, 0)
  /\ AM_SearchLeaf(page[leaf], value).index > NumKeys(leaf) /\ next # AM_NULL_PAGE
  /\ page[next].next \notin fixed
  /\ stack' = stack \o Path(value)
  /\ leftPageNum' = LeftPage
  /\ scan' = [FreeSlot EXCEPT !.status = "FIRST", !.op = op, !.value = <<value>>]
  /\ fixed' = fixed \cup {leaf} \cup IF CanGet(next, 1) THEN {next} ELSE {}
  /\ OpenError
  /\ UNCHANGED <<page, numBuffers, call, load>>

-----------------------------------------------------------------------------
(***************************************************************************)
(* AM_FindNextEntry.                                                       *)
(***************************************************************************)
InScan ==
  /\ call = Idle /\ scan.status # "FREE"
  /\ "err" \in DOMAIN ret => ret.err # "PF"

(* The page where the loop over empty leaves ends, or cannot go on.        *)
LoopEnd ==
  LET from[pg \in DOMAIN page, n \in 0 .. NumPages] ==
        IF NumKeys(pg) > 0 \/ n = 0 \/ ~CanGet(page[pg].next, 0) THEN pg
        ELSE from[page[pg].next, n - 1]
  IN from[scan.nextpageNum, NumPages]

(* The scan behind the empty leaves, where it begins anew.                 *)
Reached ==
  IF LoopEnd = scan.nextpageNum THEN scan
  ELSE [At(scan, LoopEnd, 1) EXCEPT !.status = "FIRST"]

(* The check for having overshot, by the numbers of the pages.             *)
Overshot(s) ==
  /\ s.op \in {"LESS_THAN", "LESS_THAN_EQUAL"}
  /\ s.lastpageNum <= s.nextpageNum /\ s.lastIndex = 0

MustSkip(s) ==
  s.op = "NOT_EQUAL" /\ s.pageNum = s.nextpageNum /\ s.index = s.actindex

(* One key further on in the leaf.                                         *)
Advanced(s) ==
  [s EXCEPT !.nextIndex = @ + 1, !.actindex = @ + 1,
            !.cell = CellAt(s.nextpageNum, s.nextIndex + 1)]

(* NextEntryInOrder: the place is not looked at again after a deletion.    *)
Resynced_MutantStays(s) ==
  IF s.status = "FIRST"
  THEN [s EXCEPT !.status = "BUSY", !.nextvalue = KeyAt(s.nextpageNum, s.nextIndex)]
  ELSE s

(* If the key at the scan's place is another one than before, the entry    *)
(* that was returned last has been deleted with its key.  The slot behind  *)
(* the last key still has the key that has moved from there.               *)
Resynced(s) ==
  IF s.status = "FIRST"
  THEN [s EXCEPT !.status = "BUSY", !.nextvalue = KeyAt(s.nextpageNum, s.nextIndex)]
  ELSE IF KeyAt(s.nextpageNum, s.nextIndex) \in {s.nextvalue, <<>>} THEN s
  ELSE [s EXCEPT !.nextIndex = @ - 1, !.cell = CellAt(s.nextpageNum, s.nextIndex - 1)]

(* EOFOnlyAtEnd: the scan ends where its leaf ends.                        *)
Moved_MutantOneLeaf(s, cell) ==
  IF cell # NullCell THEN [s EXCEPT !.cell = cell]
  ELSE IF s.nextIndex < NumKeys(s.nextpageNum)
  THEN [Advanced(s) EXCEPT !.nextvalue = KeyAt(s.nextpageNum, s.nextIndex + 1)]
  ELSE [s EXCEPT !.cell = NullCell, !.status = "OVER"]

(* The place of the entry after the cell s.cell, whose next cell is cell.  *)
Moved(s, cell) ==
  LET next == page[s.nextpageNum].next IN
  IF cell # NullCell THEN [s EXCEPT !.cell = cell]
  ELSE IF s.nextIndex < NumKeys(s.nextpageNum)
  THEN [Advanced(s) EXCEPT !.nextvalue = KeyAt(s.nextpageNum, s.nextIndex + 1)]
  ELSE IF next = AM_NULL_PAGE THEN [s EXCEPT !.cell = NullCell, !.status = "OVER"]
  ELSE IF CanGet(next, 0) THEN [At(s, next, 1) EXCEPT !.nextvalue = KeyAt(next, 1)]
  ELSE [s EXCEPT !.nextpageNum = next, !.nextIndex = 1, !.actindex = 1, !.cell = NullCell]

(* What the checks for the end of the range make of the status.            *)
EndOfRange(s) ==
  IF s.op = "EQUAL" /\ (s.pageNum # s.nextpageNum \/ s.index # s.actindex)
  THEN [s EXCEPT !.status = "OVER"]
  ELSE IF s.op \notin {"LESS_THAN", "LESS_THAN_EQUAL"} THEN s
  ELSE IF s.lastpageNum = s.nextpageNum /\ s.lastIndex = s.actindex
  THEN [s EXCEPT !.status = "LAST"]
  ELSE IF (s.lastpageNum = s.nextpageNum /\ s.lastIndex < s.actindex) \/ s.status = "LAST"
  THEN [s EXCEPT !.status = "OVER"]
  ELSE s

AtEnd == scan.status = "OVER" \/ scan.nextpageNum = NoPage

(* The leaf of the scan, or one that follows it and is not empty.          *)
OnLeaf == ~AtEnd /\ CanGet(scan.nextpageNum, 0) /\ NumKeys(LoopEnd) > 0

FindNothing ==
  /\ InScan
  /\ \/ AtEnd /\ scan' = [scan EXCEPT !.status = "OVER"]
     \/ /\ ~AtEnd /\ CanGet(scan.nextpageNum, 0)
        /\ NumKeys(LoopEnd) = 0 /\ page[LoopEnd].next = AM_NULL_PAGE
        /\ scan' = [Reached EXCEPT !.status = "OVER"]
     \/ /\ OnLeaf /\ Overshot(Reached)
        /\ scan' = [Reached EXCEPT !.status = "OVER"]
  /\ ret' = EOF
  /\ UNCHANGED <<page, fixed, stack, leftPageNum, numBuffers, call, load>>

(* The value to be left out is the last of its leaf.  Here too the next    *)
(* page's header is read too early, and the unfix fails.                   *)
SkipsLeaf == MustSkip(Reached) /\ Reached.nextIndex >= NumKeys(LoopEnd)

FindAfterSkip ==
  LET next == page[LoopEnd].next IN
  /\ InScan /\ OnLeaf /\ SkipsLeaf
  /\ IF next = AM_NULL_PAGE
     THEN scan' = Reached /\ ret' = EOF /\ UNCHANGED fixed
     ELSE /\ page[next].next \notin fixed
          /\ scan' = At(Reached, next, 1) /\ ret' = PFError("next")
          /\ fixed' = fixed \cup IF CanGet(next, 0) THEN {next} ELSE {}
  /\ UNCHANGED <<page, stack, leftPageNum, numBuffers, call, load>>

(* If the next page is needed and cannot be got, the entry is not returned *)
(* any more.  Where the scan follows an offset that is of no cell, it      *)
(* returns anything.                                                       *)
AM_FindNextEntry ==
  LET s == Resynced(IF MustSkip(Reached) THEN Advanced(Reached) ELSE Reached)
      isCell == s.cell \notin {NullCell, WildCell}
      afters == IF isCell THEN {CellAfter(s.nextpageNum, s.cell)} ELSE {NullCell, WildCell}
  IN
  /\ InScan /\ OnLeaf /\ ~Overshot(Reached) /\ ~SkipsLeaf
  /\ \E cell \in afters :
       LET moved == Moved(s, cell) IN
       IF moved.nextpageNum = s.nextpageNum \/ CanGet(moved.nextpageNum, 0)
       THEN scan' = EndOfRange(moved) /\ ret' = Returned(s.cell)
       ELSE scan' = moved /\ ret' = PFError("next")
  /\ UNCHANGED <<page, fixed, stack, leftPageNum, numBuffers, call, load>>

(* A leaf on the way to the next entry cannot be got.  The leaf that the   *)
(* scan is at has been got by the call before.                             *)
FindFails ==
  /\ InScan /\ ~AtEnd
  /\ NumKeys(LoopEnd) = 0 /\ page[LoopEnd].next # AM_NULL_PAGE
  /\ scan' = Reached
  /\ ret' = PFError("next")
  /\ UNCHANGED <<page, fixed, stack, leftPageNum, numBuffers, call, load>>

AM_CloseIndexScan ==
  /\ InScan
  /\ scan' = FreeSlot
  /\ ret' = OK("close")
  /\ UNCHANGED <<page, fixed, stack, leftPageNum, numBuffers, call, load>>

-----------------------------------------------------------------------------
AM_OpenIndexScan ==
  \/ OpenFullScan
  \/ \E op \in Ops, value \in Values :
       OpenSearchFails(op, value) \/ OpenScanAt(op, value) \/ OpenPastLeaf(op, value)

ScanStep ==
  \/ AM_OpenIndexScan
  \/ FindNothing \/ FindAfterSkip \/ AM_FindNextEntry \/ FindFails
  \/ AM_CloseIndexScan

(* During a scan, only the entry it has just returned may be deleted.      *)
TreeCall(op, key, id) ==
  /\ ~LoadFailed
  /\ scan.status = "FREE" \/ (op = "delete" /\ ret = Returned(<<key, id>>))
  /\ AM_Search(op, key, id) \/ SearchFails(op, key, id)

TreeStep ==
  /\ \/ \E op \in {"insert", "delete"}, key \in TreeKeys, id \in RecIds : TreeCall(op, key, id)
     \/ LeafStep \/ ParentStep
  /\ UNCHANGED <<load, scan>>

InitScan == Init /\ load = NoLoad /\ scan = FreeSlot

NextScan == TreeStep \/ (scan.status = "FREE" /\ BulkLoad /\ UNCHANGED scan) \/ ScanStep

SpecScan == InitScan /\ [][NextScan]_scanVars

=============================================================================
