------------------------------- MODULE AMTree -------------------------------
(***************************************************************************)
(* The B+ tree of one index: AM_InsertEntry and AM_DeleteEntry, in as many *)
(* steps as they get or allocate a page in turn (amlayer/src/amfns.c,      *)
(* am.c, amsearch.c, amstack.c).                                           *)
(*                                                                         *)
(* Of the Paged File layer the model has what these calls can see: a page  *)
(* that is fixed cannot be got again (PFE_PAGEFIXED), and no page can be   *)
(* got or allocated if all buffers hold fixed pages (PFE_NOBUF).  I/O does *)
(* not fail.  Every page that is written is unfixed as dirty, so pages are *)
(* not evicted in the model: PFFile shows that nobody would notice.        *)
(***************************************************************************)
EXTENDS AMLeaf

CONSTANTS
  MaxKeys,     (* maxKeys of the header: of keys in an internal node       *)
  AnyGaps,     (* gaps that a leaf may have by accident (see AM_Compact)   *)
  BufferCounts,(* the numbers of buffers the index may have to itself      *)
  MaxPages,    (* bound: with as many pages, no insertion is begun         *)
  MissPages    (* bound: with more pages, no deletion of an entry that is  *)
               (* not there is begun                                       *)

(* AM_CreateIndex takes care that maxKeys is even.                         *)
ASSUME TreeAssumption ==
  /\ MaxKeys \in Nat \ {0} /\ MaxKeys % 2 = 0
  /\ AnyGaps \subseteq Int /\ BufferCounts \subseteq Nat \ {0}
  /\ MaxPages \in Nat /\ MissPages \in Nat

VARIABLES
  page,         (* the pages of the index, leaves and internal nodes       *)
  fixed,        (* the pages that are fixed                                *)
  stack,        (* AM_Stack: the path of the search                        *)
  leftPageNum,  (* AM_LeftPageNum                                          *)
  numBuffers,   (* the buffers of this behaviour                           *)
  call,         (* the call in progress                                    *)
  ret           (* what the last call returned                             *)

vars == <<page, fixed, stack, leftPageNum, numBuffers, call, ret>>

Root == 0  (* AM_RootPageNum: AM_CreateIndex allocates it first            *)
NoPage == -1

NumPages == Cardinality(DOMAIN page)
IsLeaf(node) == node.type = "l"

(* An internal node has one child more than keys: child i is left of key   *)
(* i, and offset i of the code is child i + 1.                             *)
InternalNode(keys, children) == [type |-> "i", keys |-> keys, children |-> children]

(* at: the page fixed by the search; up: the new page to be added to its   *)
(* parent, with the key sep, once the leaf is split.                       *)
Idle == [op |-> "idle", key |-> 0, id |-> 0, at |-> NoPage, up |-> NoPage, sep |-> 0]
OK(op) == [op |-> op]
PFError(op) == [op |-> op, err |-> "PF"]
Return(r) == call' = Idle /\ ret' = r

Init ==
  /\ page = [pg \in {Root} |-> EmptyLeaf]
  /\ fixed = {} /\ stack = <<>> /\ leftPageNum = 0
  /\ numBuffers \in BufferCounts
  /\ call = Idle /\ ret = OK("none")

Entries == UNION {{<<entry.key, entry.ids[i]>> : i \in DOMAIN entry.ids} :
                    entry \in UNION {ToSet(page[pg].keys) :
                                       pg \in {p \in DOMAIN page : IsLeaf(page[p])}}}

(* The client inserts no entry twice, and ends when the Paged File layer   *)
(* has failed, as the functions of misc.c do.                              *)
Calls(op, key, id) ==
  /\ call = Idle
  /\ "err" \in DOMAIN ret => ret.err # "PF"
  /\ IF op = "insert" THEN NumPages < MaxPages /\ <<key, id>> \notin Entries
     ELSE NumPages <= MissPages \/ <<key, id>> \in Entries

FreeBuffers == numBuffers - Cardinality(fixed)

-----------------------------------------------------------------------------
(***************************************************************************)
(* AM_Search, from the root down.  No page but a leaf is fixed between two *)
(* calls, so it can fail only at the root, if there is no buffer, and at   *)
(* the leaf.                                                               *)
(***************************************************************************)

(* EntriesFindable: a key equal to a separator goes to its left.           *)
AM_BinSearch_MutantLeft(node, value) ==
  LET range == Narrowed(node.keys, value) IN
  IF \E i \in range : value <= node.keys[i]
  THEN (CHOOSE i \in range : value <= node.keys[i] /\
                              \A j \in range : j < i => value > node.keys[j]) - 1
  ELSE CHOOSE i \in range : \A j \in range : j <= i

(* AM_BinSearch: the offset of the child to go to, which has the keys from *)
(* the separator before it on.                                             *)
AM_BinSearch(node, value) ==
  LET range == Narrowed(node.keys, value) IN
  IF \E i \in range : value < node.keys[i]
  THEN (CHOOSE i \in range : value < node.keys[i] /\
                              \A j \in range : j < i => value >= node.keys[j]) - 1
  ELSE CHOOSE i \in range : \A j \in range : j <= i

(* The page at the end of a path from the root.                            *)
LeafAt(path) ==
  IF path = <<>> THEN Root
  ELSE page[Last(path).page].children[Last(path).offset + 1]

(* One turn of the loop in AM_Search: what AM_PushStack is called with, if *)
(* the page is not a leaf.                                                 *)
OneDown(key) ==
  [path \in Seq([page : Nat, offset : Nat]) |->
     LET pg == LeafAt(path) IN
     IF IsLeaf(page[pg]) THEN path
     ELSE Append(path, [page |-> pg, offset |-> AM_BinSearch(page[pg], key)])]

(* The way from the root to the leaf, which has no more steps than there   *)
(* are pages.                                                              *)
Path(key) ==
  LET path[n \in 0 .. NumPages] == IF n = 0 THEN <<>> ELSE OneDown(key)[path[n - 1]]
  IN path[NumPages]

(* AM_InsertEntry and AM_DeleteEntry begin with a search, in which each    *)
(* page is unfixed before the next is fixed.                               *)
AM_Search(op, key, id) ==
  LET path == Path(key)
      leaf == LeafAt(path) IN
  /\ Calls(op, key, id)
  /\ leaf \notin fixed /\ FreeBuffers > 0
  /\ fixed' = fixed \cup {leaf}
  /\ stack' = stack \o path
  /\ call' = [Idle EXCEPT !.op = op, !.key = key, !.id = id, !.at = leaf]
  /\ UNCHANGED <<page, leftPageNum, numBuffers, ret>>

(* There is no buffer for the root, or the leaf is fixed.  AM_InsertEntry  *)
(* empties the stack and AM_DeleteEntry does not.                          *)
SearchFails(op, key, id) ==
  LET path == IF FreeBuffers = 0 THEN <<>> ELSE Path(key) IN
  /\ Calls(op, key, id)
  /\ FreeBuffers = 0 \/ \E pg \in fixed : pg = LeafAt(path)
  /\ stack' = IF op = "insert" THEN <<>> ELSE stack \o path
  /\ Return(PFError(op))
  /\ UNCHANGED <<page, fixed, leftPageNum, numBuffers>>

-----------------------------------------------------------------------------
(***************************************************************************)
(* At the leaf.                                                            *)
(***************************************************************************)
AtLeaf(op) == call.op = op /\ call.at # NoPage
Leaf == page[call.at]
Place == AM_SearchLeaf(Leaf, call.key)

EntryThere == Place.found /\ Contains(Leaf.keys[Place.index].ids, call.id)

AM_DeleteEntry ==
  /\ AtLeaf("delete") /\ EntryThere
  /\ page' = [page EXCEPT ![call.at] = DeleteFromLeaf(Leaf, call.id, Place.index)]
  /\ fixed' = fixed \ {call.at}
  /\ stack' = <<>>
  /\ Return(OK("delete"))
  /\ UNCHANGED <<leftPageNum, numBuffers>>

(* The entry is not there: the leaf remains fixed, and the path remains on *)
(* the stack.                                                              *)
DeleteNotFound ==
  /\ AtLeaf("delete") /\ ~EntryThere
  /\ Return([op |-> "delete", err |-> "NOTFOUND"])
  /\ UNCHANGED <<page, fixed, stack, leftPageNum, numBuffers>>

InsertIntoLeaf ==
  /\ AtLeaf("insert") /\ InsertFits(Leaf, Place.found)
  /\ page' = [page EXCEPT ![call.at] = AM_InsertintoLeaf(Leaf, call.key, call.id, Place)]
  /\ fixed' = fixed \ {call.at}
  /\ stack' = <<>>
  /\ Return(OK("insert"))
  /\ UNCHANGED <<leftPageNum, numBuffers>>

(* ChainInOrder: the new leaf does not go on to the next one.              *)
Halves_MutantChainEnds(new, anyGap) ==
  LET half == Len(Leaf.keys) \div 2
      lower == AM_Compact(Leaf, 1, half, anyGap)
      upper == [AM_Compact(Leaf, half + 1, Len(Leaf.keys), anyGap) EXCEPT !.next = AM_NULL_PAGE]
      inLower == Place.index <= half
      place == IF inLower THEN Place ELSE [Place EXCEPT !.index = @ - half]
      insert(leaf) == AM_InsertintoLeaf(leaf, call.key, call.id, place)
  IN [lower |-> [(IF inLower THEN insert(lower) ELSE lower) EXCEPT !.next = new],
      upper |-> IF inLower THEN upper ELSE insert(upper)]

(* ImplementsIndex: an entry of the upper half is not inserted.            *)
Halves_MutantLosesUpper(new, anyGap) ==
  LET half == Len(Leaf.keys) \div 2
      lower == AM_Compact(Leaf, 1, half, anyGap)
      upper == AM_Compact(Leaf, half + 1, Len(Leaf.keys), anyGap)
      inLower == Place.index <= half
      insert(leaf) == AM_InsertintoLeaf(leaf, call.key, call.id, Place)
  IN [lower |-> [(IF inLower THEN insert(lower) ELSE lower) EXCEPT !.next = new],
      upper |-> upper]

(* The two halves of the leaf in AM_SplitLeaf, with the entry inserted in  *)
(* one of them - if it has room: the code does not look.                   *)
Halves(new, anyGap) ==
  LET half == Len(Leaf.keys) \div 2
      lower == AM_Compact(Leaf, 1, half, anyGap)
      upper == AM_Compact(Leaf, half + 1, Len(Leaf.keys), anyGap)
      inLower == Place.index <= half
      place == IF inLower THEN Place ELSE [Place EXCEPT !.index = @ - half]
      insert(leaf) == AM_InsertintoLeaf(leaf, call.key, call.id, place)
  IN [lower |-> [(IF inLower THEN insert(lower) ELSE lower) EXCEPT !.next = new],
      upper |-> IF inLower THEN upper ELSE insert(upper)]

(* The key the parent gets is the first of the upper half.                 *)
Separator(halves) == halves.upper.keys[1].key

(* The gaps AM_Compact may leave by accident if there is but one key.      *)
Gaps == IF Len(Leaf.keys) \div 2 = 0 THEN AnyGaps ELSE {0}

With(pg, node, pages) == (* pages with node at page number pg, or one more *)
  [p \in DOMAIN pages \cup {pg} |-> IF p = pg THEN node ELSE pages[p]]

MustSplit == AtLeaf("insert") /\ ~InsertFits(Leaf, Place.found)

(* ThreeBuffersSuffice: the new page is not unfixed.                       *)
SplitLeaf_MutantKeepsFixed ==
  /\ MustSplit /\ call.at # Root /\ FreeBuffers > 0
  /\ \E gap \in Gaps :
       LET halves == Halves(NumPages, gap) IN
       /\ page' = With(NumPages, halves.upper, With(call.at, halves.lower, page))
       /\ call' = [call EXCEPT !.at = NoPage, !.up = NumPages, !.sep = Separator(halves)]
  /\ fixed' = (fixed \ {call.at}) \cup {NumPages}
  /\ UNCHANGED <<stack, leftPageNum, numBuffers, ret>>

SplitLeaf ==
  /\ MustSplit /\ call.at # Root /\ FreeBuffers > 0
  /\ \E gap \in Gaps :
       LET halves == Halves(NumPages, gap) IN
       /\ page' = With(NumPages, halves.upper, With(call.at, halves.lower, page))
       /\ call' = [call EXCEPT !.at = NoPage, !.up = NumPages, !.sep = Separator(halves)]
  /\ fixed' = fixed \ {call.at}
  /\ UNCHANGED <<stack, leftPageNum, numBuffers, ret>>

(* The root remains where it is: its lower half moves to a second new page *)
(* and the root becomes an internal node.                                  *)
SplitRootLeaf ==
  /\ MustSplit /\ call.at = Root /\ FreeBuffers > 1
  /\ \E gap \in Gaps :
       LET halves == Halves(NumPages, gap)
           root == InternalNode(<<Separator(halves)>>, <<NumPages + 1, NumPages>>) IN
       page' = With(NumPages + 1, halves.lower,
                 With(NumPages, halves.upper, With(Root, root, page)))
  /\ leftPageNum' = NumPages + 1
  /\ fixed' = fixed \ {Root}
  /\ stack' = <<>>
  /\ Return(OK("insert"))
  /\ UNCHANGED numBuffers

(* No buffer for the new page, or for the second one of a root, when the   *)
(* root has been cut in half already.  The pages remain fixed.             *)
SplitLeafFails ==
  /\ MustSplit
  /\ \/ /\ FreeBuffers = 0
        /\ UNCHANGED <<page, fixed>>
     \/ /\ call.at = Root /\ FreeBuffers = 1
        /\ \E gap \in Gaps :
             LET halves == Halves(NumPages, gap) IN
             page' = With(NumPages, halves.upper, With(Root, halves.lower, page))
        /\ fixed' = fixed \cup {NumPages}
  /\ stack' = <<>>
  /\ Return(PFError("insert"))
  /\ UNCHANGED <<leftPageNum, numBuffers>>

-----------------------------------------------------------------------------
(***************************************************************************)
(* AM_AddtoParent, one level for each step.                                *)
(***************************************************************************)
AddingToParent == call.up # NoPage
Parent == Last(stack).page
ParentNode == page[Parent]

(* The node with the new child right of the offset.                        *)
AM_AddtoIntPage(node, sep, child, offset) ==
  InternalNode(InsertAt(node.keys, offset + 1, sep),
               InsertAt(node.children, offset + 2, child))

Widened == AM_AddtoIntPage(ParentNode, call.sep, call.up, Last(stack).offset)

(* TreeShape: the upper node has one key too few.                          *)
AM_SplitIntNode_MutantShort(node) ==
  LET half == MaxKeys \div 2 IN
  [lower |-> InternalNode(SubSeq(node.keys, 1, half), SubSeq(node.children, 1, half + 1)),
   sep |-> node.keys[half + 1],
   upper |-> InternalNode(SubSeq(node.keys, half + 3, MaxKeys + 1),
                          SubSeq(node.children, half + 3, MaxKeys + 2))]

(* AM_SplitIntNode: of MaxKeys + 1 keys, the one in the middle goes up.    *)
AM_SplitIntNode(node) ==
  LET half == MaxKeys \div 2 IN
  [lower |-> InternalNode(SubSeq(node.keys, 1, half), SubSeq(node.children, 1, half + 1)),
   sep |-> node.keys[half + 1],
   upper |-> InternalNode(SubSeq(node.keys, half + 2, MaxKeys + 1),
                          SubSeq(node.children, half + 2, MaxKeys + 2))]

HasRoom == Len(ParentNode.keys) < MaxKeys

AddToParent ==
  /\ AddingToParent /\ HasRoom
  /\ page' = [page EXCEPT ![Parent] = Widened]
  /\ stack' = <<>>
  /\ Return(OK("insert"))
  /\ UNCHANGED <<fixed, leftPageNum, numBuffers>>

(* The parent and the new page are fixed, and unfixed before the next      *)
(* level.  The split of the leaf needed as many buffers.                   *)
SplitParent ==
  /\ AddingToParent /\ ~HasRoom /\ Parent # Root
  /\ LET split == AM_SplitIntNode(Widened) IN
     /\ page' = With(NumPages, split.upper, With(Parent, split.lower, page))
     /\ call' = [call EXCEPT !.up = NumPages, !.sep = split.sep]
  /\ stack' = Front(stack)
  /\ UNCHANGED <<fixed, leftPageNum, numBuffers, ret>>

SplitRoot ==
  /\ AddingToParent /\ ~HasRoom /\ Parent = Root /\ FreeBuffers > 2
  /\ LET split == AM_SplitIntNode(Widened)
         root == InternalNode(<<split.sep>>, <<NumPages + 1, NumPages>>) IN
     page' = With(NumPages + 1, split.lower,
               With(NumPages, split.upper, With(Root, root, page)))
  /\ stack' = <<>>
  /\ Return(OK("insert"))
  /\ UNCHANGED <<fixed, leftPageNum, numBuffers>>

(* No buffer for the second new page: root and new page remain fixed, and  *)
(* the new child is in no parent.                                          *)
SplitRootFails ==
  /\ AddingToParent /\ ~HasRoom /\ Parent = Root /\ FreeBuffers = 2
  /\ page' = With(NumPages, AM_SplitIntNode(Widened).upper, page)
  /\ fixed' = fixed \cup {Root, NumPages}
  /\ stack' = <<>>
  /\ Return(PFError("insert"))
  /\ UNCHANGED <<leftPageNum, numBuffers>>

-----------------------------------------------------------------------------
LeafStep ==
  \/ AM_DeleteEntry \/ DeleteNotFound
  \/ InsertIntoLeaf \/ SplitLeaf \/ SplitRootLeaf \/ SplitLeafFails
ParentStep == AddToParent \/ SplitParent \/ SplitRoot \/ SplitRootFails

Next ==
  \/ \E op \in {"insert", "delete"}, key \in Keys, id \in RecIds :
       AM_Search(op, key, id) \/ SearchFails(op, key, id)
  \/ LeafStep \/ ParentStep

Spec == Init /\ [][Next]_vars

=============================================================================
