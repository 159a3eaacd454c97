---------------------------- MODULE AMTreeProps ----------------------------
(***************************************************************************)
(* What must be true of the B+ tree.                                       *)
(***************************************************************************)
EXTENDS AMTree

LeafType(leaf) ==
  /\ \A i \in DOMAIN leaf.keys :
       leaf.keys[i].key \in Keys /\ leaf.keys[i].ids \in Seq(RecIds) \ {<<>>}
  /\ leaf.free \in Nat /\ leaf.gap \in Nat
  /\ leaf.gap = LeafSpace - RoomFor(leaf.keys) - leaf.free * CellSize
  /\ leaf.next \in {AM_NULL_PAGE} \cup DOMAIN page

InternalType(node) ==
  /\ node.keys \in Seq(Keys) /\ Len(node.keys) \in 1 .. MaxKeys
  /\ node.children \in Seq(DOMAIN page) /\ Len(node.children) = Len(node.keys) + 1

(* Every variable has its type; the gap of every leaf is what its keys and *)
(* cells leave of the page, and never less than nothing.                   *)
TypeOK ==
  /\ DOMAIN page = 0 .. NumPages - 1
  /\ \A pg \in DOMAIN page :
       IF IsLeaf(page[pg]) THEN LeafType(page[pg]) ELSE InternalType(page[pg])
  /\ fixed \subseteq DOMAIN page /\ Cardinality(fixed) <= numBuffers
  /\ \A i \in DOMAIN stack : stack[i].page \in DOMAIN page /\ stack[i].offset \in Nat
  /\ leftPageNum \in DOMAIN page
  /\ call.op \in {"idle", "insert", "delete"}
  /\ {call.at, call.up} \subseteq {NoPage} \cup DOMAIN page

(* No call is in progress, and none has failed half way.                   *)
Intact == call = Idle /\ ("err" \in DOMAIN ret => ret.err \notin {"PF", "NOMEM"})

(* The pages at each distance from the root, from left to right.           *)
ChildrenOf ==
  [above \in Seq(DOMAIN page) |->
     IF \E i \in DOMAIN above : IsLeaf(page[above[i]]) THEN <<>>
     ELSE FlattenSeq([i \in DOMAIN above |-> page[above[i]].children])]

Level ==
  LET level[n \in 0 .. NumPages] == IF n = 0 THEN <<Root>> ELSE ChildrenOf[level[n - 1]]
  IN level

Height ==
  LET level == Level IN
  CHOOSE n \in 0 .. NumPages : level[n] # <<>> /\ (n = NumPages \/ level[n + 1] = <<>>)

(* After any sequence of splits, of leaves and internal nodes, up to the   *)
(* root, all leaves are at the same distance from the root, and every page *)
(* of the file is in the tree, once.                                       *)
TreeShape ==
  Intact =>
    LET level == Level
        height == Height
        all == FlattenSeq([n \in 1 .. height + 1 |-> level[n - 1]]) IN
    /\ \A pg \in ToSet(level[height]) : IsLeaf(page[pg])
    /\ Len(all) = NumPages /\ ToSet(all) = DOMAIN page

(* The leaf where AM_Search ends.                                          *)
LeafFor(key) == LeafAt(Path(key))

(* A search from the root ends at the leaf that has the key: no split      *)
(* leaves an entry where a search does not come, and no deletion makes a   *)
(* separator wrong.                                                        *)
EntriesFindable ==
  Intact =>
    \A pg \in DOMAIN page : IsLeaf(page[pg]) =>
      \A i \in DOMAIN page[pg].keys : LeafFor(page[pg].keys[i].key) = pg

(* GetLeftPageNum: if the root is no leaf, the leftmost leaf is page 2.    *)
GetLeftPageNum == IF IsLeaf(page[Root]) THEN Root ELSE 2

(* The leaves from there on, each the next of the one before.              *)
Followed ==
  [leaves \in Seq(DOMAIN page) |->
     LET next == page[Last(leaves)].next IN
     IF next = AM_NULL_PAGE THEN leaves ELSE Append(leaves, next)]

Chain ==
  LET chain[n \in 0 .. NumPages] ==
        IF n = 0 THEN <<GetLeftPageNum>> ELSE Followed[chain[n - 1]]
  IN chain[NumPages]

(* What the scans rely on: the leaves are linked from the page that        *)
(* GetLeftPageNum takes for the leftmost one, all of them and from left to *)
(* right, and their keys are in order.                                     *)
ChainInOrder ==
  Intact =>
    LET chain == Chain
        keys == FlattenSeq([i \in DOMAIN chain |-> KeysOf(page[chain[i]])]) IN
    /\ leftPageNum = GetLeftPageNum
    /\ chain = Level[Height]
    /\ \A i, j \in DOMAIN keys : i < j => keys[i] < keys[j]

(* am.h:182, 193: the index is a set of entries, AM_InsertEntry inserts    *)
(* one and no other entry changes, AM_DeleteEntry deletes one, and says    *)
(* that there is none only if there is none.  While a split is on its way  *)
(* up, the insertion has not happened yet.                                 *)
I == INSTANCE AMIndex WITH
       entries <- IF call.up = NoPage THEN Entries
                  ELSE Entries \ {<<call.key, call.id>>},
       call <- IF call = Idle THEN [op |-> "idle"]
               ELSE [op |-> call.op, key |-> call.key, id |-> call.id]
ImplementsIndex == I!Spec

(* Each step of a call that does not end it with an error unfixes all that *)
(* the call has fixed.  So with three buffers, and no page left fixed by   *)
(* an earlier call, none is short of a buffer, however far a split goes.   *)
ThreeBuffersSuffice ==
  [][/\ call # Idle /\ ~("err" \in DOMAIN ret' /\ call' = Idle) =>
          fixed' = fixed \ {call.at}
     /\ "err" \in DOMAIN ret' /\ ret'.err = "PF" =>
          numBuffers < 3 \/ fixed \ {call.at} # {}]_vars

(* am.h:193 AM_InsertEntry: "Inserts a value,recId pair into the tree."    *)
InsertTakesEffect ==
  [][call.op = "insert" /\ call' = Idle /\ ret' = OK("insert") =>
       <<call.key, call.id>> \in Entries']_vars

=============================================================================
