----------------------------- MODULE AMTreeProofs ----------------------------
(***************************************************************************)
(* The B+ tree stays a search tree, whatever is inserted and deleted and   *)
(* however far the splits go up.                                           *)
(*                                                                         *)
(* Each page has a height h[pg] above the leaves and a range r[pg], the    *)
(* numbers that the search takes to it from the root.  They are no part of *)
(* the pages: the inductive invariant says that there are some that fit.   *)
(***************************************************************************)
EXTENDS AMTreeProps, AMLeafProofs

-----------------------------------------------------------------------------
(***************************************************************************)
(* Ranges.                                                                 *)
(***************************************************************************)

(* The numbers of a range that can be separators in it: something is less. *)
Interior(S) == {v \in S : \E u \in S : u < v}

(* What the i-th child of a node with these keys has of the range.         *)
Part(keys, i, S) ==
  {v \in S : (i > 1 => keys[i - 1] <= v) /\ (i <= Len(keys) => v < keys[i])}

(* The two sides of a separator.                                           *)
Low(S, sep) == {v \in S : v < sep}
High(S, sep) == {v \in S : v >= sep}

Separators(keys, S) ==
  /\ keys \in Seq(Keys) /\ keys # <<>> /\ InOrder(keys)
  /\ \A i \in 1 .. Len(keys) : keys[i] \in Interior(S)

LEMMA KeysAreNumbers ==
  ASSUME NEW S \in SUBSET Int, NEW keys, Separators(keys, S)
  PROVE  /\ keys \in Seq(Int) /\ Len(keys) \in Nat \ {0} /\ DOMAIN keys = 1 .. Len(keys)
         /\ \A i \in 1 .. Len(keys) : keys[i] \in Int /\ keys[i] \in Keys /\ keys[i] \in S
         /\ \A i, j \in 1 .. Len(keys) : i < j => keys[i] < keys[j]
         /\ \A i \in 1 .. Len(keys) : \E u \in S : u < keys[i]
<1>1. Keys \subseteq Int
  BY LeafAssumption
<1>2. keys \in Seq(Keys) /\ keys # <<>>
  BY DEF Separators
<1>3. /\ keys \in Seq(Int) /\ Len(keys) \in Nat \ {0} /\ DOMAIN keys = 1 .. Len(keys)
      /\ \A i \in 1 .. Len(keys) : keys[i] \in Int /\ keys[i] \in Keys
  <2>1. Len(keys) \in Nat \ {0} /\ DOMAIN keys = 1 .. Len(keys)
    BY ONLY <1>2
  <2>2. \A i \in 1 .. Len(keys) : keys[i] \in Keys
    BY ONLY <1>2
  <2>3. \A i \in 1 .. Len(keys) : keys[i] \in Int
    BY ONLY <1>1, <2>2
  <2>4. keys = [i \in 1 .. Len(keys) |-> keys[i]]
    BY ONLY <1>2
  <2>5. keys \in [1 .. Len(keys) -> Int]
    BY ONLY <2>3, <2>4
  <2>6. keys \in Seq(Int)
    BY ONLY <2>1, <2>5
  <2> QED
    BY ONLY <2>1, <2>2, <2>3, <2>6
<1>4. \A i, j \in 1 .. Len(keys) : i < j => keys[i] < keys[j]
  BY <1>3 DEF Separators, InOrder
<1>5. \A i \in 1 .. Len(keys) : keys[i] \in S /\ \E u \in S : u < keys[i]
  BY DEF Separators, Interior
<1> QED
  BY ONLY <1>3, <1>4, <1>5

(* The parts of a range: none is empty, no two meet, and each number is in *)
(* the part that AM_BinSearch finds.                                       *)
LEMMA PartsOf ==
  ASSUME NEW S \in SUBSET Int, NEW keys, Separators(keys, S)
  PROVE  /\ \A i \in 1 .. Len(keys) + 1 : Part(keys, i, S) # {} /\ Part(keys, i, S) \subseteq S
         /\ \A i, j \in 1 .. Len(keys) + 1 :
              i # j => Part(keys, i, S) \cap Part(keys, j, S) = {}
<1>1. PICK n : n = Len(keys)
  OBVIOUS
<1>2. /\ n \in Nat \ {0}
      /\ \A i \in 1 .. n : keys[i] \in Int /\ keys[i] \in S
      /\ \A i, j \in 1 .. n : i < j => keys[i] < keys[j]
      /\ \A i \in 1 .. n : \E u \in S : u < keys[i]
  BY ONLY <1>1, S \in SUBSET Int, Separators(keys, S), KeysAreNumbers
<1>3. ASSUME NEW i \in 1 .. n + 1 PROVE Part(keys, i, S) # {} /\ Part(keys, i, S) \subseteq S
  <2>1. CASE i = 1
    <3>1. 1 \in 1 .. n
      BY ONLY <1>2
    <3>2. PICK u \in S : u < keys[1]
      BY ONLY <1>2, <3>1
    <3>3. u \in Part(keys, i, S)
      BY ONLY <2>1, <3>2, u \in S DEF Part
    <3> QED
      BY ONLY <3>3 DEF Part
  <2>2. CASE i # 1
    <3>1. PICK j : j = i - 1
      OBVIOUS
    <3>2. j \in 1 .. n /\ i \in Int /\ j < i
      BY ONLY <1>2, <2>2, <3>1, i \in 1 .. n + 1
    <3>3. i <= n => keys[j] < keys[i]
      BY ONLY <1>2, <3>2
    <3>4. keys[j] \in S /\ keys[j] <= keys[j]
      BY ONLY <1>2, <3>2
    <3>5. keys[j] \in Part(keys, i, S)
      BY ONLY <1>1, <3>1, <3>3, <3>4 DEF Part
    <3> QED
      BY ONLY <3>5 DEF Part
  <2> QED
    BY ONLY <2>1, <2>2
<1>4. ASSUME NEW i \in 1 .. n + 1, NEW j \in 1 .. n + 1, i < j, NEW v \in Int,
             v \in Part(keys, i, S), v \in Part(keys, j, S)
      PROVE  FALSE
  <2>1. i \in 1 .. n /\ j - 1 \in 1 .. n /\ j > 1
    BY ONLY <1>2, <1>4, i \in 1 .. n + 1, j \in 1 .. n + 1
  <2>2. v < keys[i] /\ keys[j - 1] <= v
    BY ONLY <1>1, <1>4, <2>1, i <= n DEF Part
  <2>3. keys[i] <= keys[j - 1]
    <3>1. i < j - 1 \/ i = j - 1
      BY ONLY <1>2, <1>4, i \in 1 .. n + 1, j \in 1 .. n + 1
    <3> QED
      BY ONLY <1>2, <2>1, <3>1
  <2> QED
    BY ONLY <1>2, <2>1, <2>2, <2>3, v \in Int
<1>5. ASSUME NEW i \in 1 .. n + 1, NEW j \in 1 .. n + 1, i # j, NEW v,
             v \in Part(keys, i, S), v \in Part(keys, j, S)
      PROVE  FALSE
  <2>1. v \in Int
    BY <1>5 DEF Part
  <2>2. i < j \/ j < i
    BY ONLY <1>2, <1>5, i \in 1 .. n + 1, j \in 1 .. n + 1
  <2> QED
    BY ONLY <1>4, <1>5, <2>1, <2>2, i \in 1 .. n + 1, j \in 1 .. n + 1
<1> QED
  BY ONLY <1>1, <1>3, <1>5

LEMMA PartFound ==
  ASSUME NEW S \in SUBSET Int, NEW keys, Separators(keys, S), NEW v \in S,
         NEW offset, offset = ChildAmong(keys, Narrowed(keys, v), v)
  PROVE  offset \in 0 .. Len(keys) /\ v \in Part(keys, offset + 1, S)
<1>1. /\ keys \in Seq(Int) /\ keys # <<>> /\ InOrder(keys) /\ v \in Int
      /\ Len(keys) \in Nat /\ DOMAIN keys = 1 .. Len(keys)
      /\ \A i \in 1 .. Len(keys) : keys[i] \in Int
  BY KeysAreNumbers DEF Separators
<1>2. PICK n : n = Len(keys)
  OBVIOUS
<1>3. /\ offset \in 0 .. n
      /\ \A i \in 1 .. n : (i <= offset => keys[i] <= v) /\ (i > offset => keys[i] > v)
  BY ONLY <1>1, <1>2, offset = ChildAmong(keys, Narrowed(keys, v), v), BinSearchFinds
<1>4. offset + 1 > 1 => keys[(offset + 1) - 1] <= v
  <2>1. offset + 1 > 1 => offset \in 1 .. n /\ offset <= offset /\ (offset + 1) - 1 = offset
    BY ONLY <1>1, <1>2, <1>3
  <2> QED
    BY ONLY <1>3, <2>1
<1>5. offset + 1 <= n => v < keys[offset + 1]
  <2>1. offset + 1 <= n => offset + 1 \in 1 .. n /\ offset + 1 > offset
    BY ONLY <1>1, <1>2, <1>3
  <2>2. offset + 1 <= n => keys[offset + 1] > v /\ keys[offset + 1] \in Int
    BY ONLY <1>1, <1>2, <1>3, <2>1
  <2> QED
    BY ONLY <1>1, <2>2
<1> QED
  BY ONLY <1>2, <1>3, <1>4, <1>5, v \in S DEF Part

-----------------------------------------------------------------------------
(***************************************************************************)
(* Nodes.                                                                  *)
(***************************************************************************)

(* A leaf whose keys are in the range S, at height 0; or an internal node  *)
(* at height n whose children, one below, have the parts of S between its  *)
(* keys.                                                                   *)
LeafNode(node, S) ==
  GoodLeaf(node) /\ \A k, x : Holds(node.keys, k, x) => k \in S

Fans(keys, children, n, S, h, r) ==
  /\ Separators(keys, S)
  /\ children \in Seq(DOMAIN h) /\ Len(children) = Len(keys) + 1
  /\ \A i \in 1 .. Len(keys) + 1 :
       h[children[i]] + 1 = n /\ r[children[i]] = Part(keys, i, S)

InnerNode(node, n, S, h, r) ==
  node = InternalNode(node.keys, node.children) /\ Fans(node.keys, node.children, n, S, h, r)

GoodNode(node, n, S, h, r) ==
  IF n = 0 THEN LeafNode(node, S) ELSE InnerNode(node, n, S, h, r)

LEMMA InternalIs ==
  ASSUME NEW keys, NEW children
  PROVE  /\ InternalNode(keys, children).keys = keys
         /\ InternalNode(keys, children).children = children
         /\ ~IsLeaf(InternalNode(keys, children))
BY DEF InternalNode, IsLeaf

LEMMA WhichNode ==
  ASSUME NEW node, NEW n \in Nat, NEW S, NEW h, NEW r, GoodNode(node, n, S, h, r)
  PROVE  /\ IsLeaf(node) <=> n = 0
         /\ n = 0 => LeafNode(node, S)
         /\ n # 0 => InnerNode(node, n, S, h, r)
<1>1. n = 0 => LeafNode(node, S) /\ IsLeaf(node)
  BY GoodLeafIs DEF GoodNode, LeafNode, IsLeaf
<1>2. n # 0 => InnerNode(node, n, S, h, r)
  BY DEF GoodNode
<1>3. n # 0 => ~IsLeaf(node)
  BY <1>2, InternalIs DEF InnerNode
<1> QED
  BY ONLY <1>1, <1>2, <1>3

(* A node stays good as long as its children are what they were.           *)
Same(h, r, h2, r2, pg) == pg \in DOMAIN h2 /\ h2[pg] = h[pg] /\ r2[pg] = r[pg]

LEMMA NodeKept ==
  ASSUME NEW node, NEW n \in Nat, NEW S \in SUBSET Int, NEW h, NEW r, NEW h2, NEW r2,
         GoodNode(node, n, S, h, r),
         \A pg \in DOMAIN h : h[pg] + 1 = n /\ r[pg] \subseteq S => Same(h, r, h2, r2, pg)
  PROVE  GoodNode(node, n, S, h2, r2)
<1>1. CASE n = 0
  BY <1>1 DEF GoodNode
<1>2. CASE n # 0
  <2>1. PICK keys, children, m : keys = node.keys /\ children = node.children /\ m = Len(keys)
    OBVIOUS
  <2>2. node = InternalNode(keys, children) /\ Fans(keys, children, n, S, h, r)
    BY <1>2, <2>1 DEF GoodNode, InnerNode
  <2>3. /\ Separators(keys, S)
        /\ children \in Seq(DOMAIN h) /\ Len(children) = m + 1
        /\ \A i \in 1 .. m + 1 : h[children[i]] + 1 = n /\ r[children[i]] = Part(keys, i, S)
    BY ONLY <2>1, <2>2 DEF Fans
  <2>4. m \in Nat
    BY ONLY <2>1, <2>3, S \in SUBSET Int, KeysAreNumbers
  <2>5. \A i \in 1 .. m + 1 : children[i] \in DOMAIN h
    BY ONLY <2>3, <2>4
  <2>6. \A i \in 1 .. m + 1 : Part(keys, i, S) \subseteq S
    BY ONLY <2>1, <2>3, S \in SUBSET Int, PartsOf
  <2>7. \A i \in 1 .. m + 1 : Same(h, r, h2, r2, children[i])
    BY ONLY <2>3, <2>5, <2>6,
            \A pg \in DOMAIN h : h[pg] + 1 = n /\ r[pg] \subseteq S => Same(h, r, h2, r2, pg)
  <2>8. \A i \in 1 .. m + 1 :
          children[i] \in DOMAIN h2 /\ h2[children[i]] + 1 = n /\ r2[children[i]] = Part(keys, i, S)
    BY ONLY <2>3, <2>7 DEF Same
  <2>9. children \in Seq(DOMAIN h2)
    <3>1. children = [i \in 1 .. m + 1 |-> children[i]]
      BY ONLY <2>3, <2>4
    <3>2. children \in [1 .. m + 1 -> DOMAIN h2]
      BY ONLY <2>8, <3>1
    <3> QED
      BY ONLY <2>4, <3>2
  <2>10. Fans(keys, children, n, S, h2, r2)
    BY ONLY <2>1, <2>3, <2>8, <2>9 DEF Fans
  <2> QED
    BY ONLY <1>2, <2>1, <2>2, <2>10 DEF GoodNode, InnerNode
<1> QED
  BY <1>1, <1>2

(* AM_AddtoIntPage: a node gets a separator inside the part of a child,    *)
(* and the new page has the upper side of it.                              *)
Inserted(s, p, e, t) ==
  /\ Len(t) = Len(s) + 1
  /\ \A i \in 1 .. Len(s) + 1 : t[i] = IF i < p THEN s[i] ELSE IF i = p THEN e ELSE s[i - 1]

LEMMA InsertedAt ==
  ASSUME NEW S, NEW s \in Seq(S), NEW p \in 1 .. Len(s) + 1, NEW e \in S,
         NEW t, t = InsertAt(s, p, e)
  PROVE  t \in Seq(S) /\ Inserted(s, p, e, t)
<1>1. /\ InsertAt(s, p, e) \in Seq(S)
      /\ Len(InsertAt(s, p, e)) = Len(s) + 1
      /\ \A i \in 1 .. Len(s) + 1 :
           InsertAt(s, p, e)[i] = IF i < p THEN s[i] ELSE IF i = p THEN e ELSE s[i - 1]
  BY ONLY s \in Seq(S), p \in 1 .. Len(s) + 1, e \in S, InsertAtIs
<1> QED
  BY ONLY <1>1, t = InsertAt(s, p, e) DEF Inserted

LEMMA SeparatorAdded ==
  ASSUME NEW S \in SUBSET Int, NEW keys, Separators(keys, S),
         NEW p \in 1 .. Len(keys) + 1, NEW sep \in Keys, sep \in Interior(Part(keys, p, S)),
         NEW more, more \in Seq(Keys), Inserted(keys, p, sep, more)
  PROVE  /\ Separators(more, S)
         /\ \A i \in 1 .. Len(keys) + 1 :
              /\ i < p => Part(more, i, S) = Part(keys, i, S)
              /\ i = p => /\ Part(more, i, S) = Low(Part(keys, i, S), sep)
                          /\ Part(more, i + 1, S) = High(Part(keys, i, S), sep)
              /\ i > p => Part(more, i + 1, S) = Part(keys, i, S)
<1>1. PICK n : n = Len(keys)
  OBVIOUS
<1>2. /\ n \in Nat \ {0} /\ sep \in Int /\ p \in 1 .. n + 1 /\ p \in Int
      /\ \A i \in 1 .. n : keys[i] \in Int /\ keys[i] \in S
      /\ \A i, j \in 1 .. n : i < j => keys[i] < keys[j]
      /\ \A i \in 1 .. n : \E u \in S : u < keys[i]
  <2>1. /\ n \in Nat \ {0}
        /\ \A i \in 1 .. n : keys[i] \in Int /\ keys[i] \in S
        /\ \A i, j \in 1 .. n : i < j => keys[i] < keys[j]
        /\ \A i \in 1 .. n : \E u \in S : u < keys[i]
    BY ONLY <1>1, S \in SUBSET Int, Separators(keys, S), KeysAreNumbers
  <2>2. sep \in Int
    BY LeafAssumption
  <2>3. p \in 1 .. n + 1 /\ p \in Int
    BY ONLY <1>1, <2>1, p \in 1 .. Len(keys) + 1
  <2> QED
    BY ONLY <2>1, <2>2, <2>3
<1>3. /\ Len(more) = n + 1 /\ DOMAIN more = 1 .. n + 1 /\ more \in Seq(Keys)
      /\ \A i \in 1 .. n + 1 : i < p => more[i] = keys[i]
      /\ more[p] = sep
      /\ \A i \in 1 .. n + 1 : i > p => more[i] = keys[i - 1]
  <2>1. Len(more) = n + 1 /\ more \in Seq(Keys)
    BY <1>1 DEF Inserted
  <2>2. \A i \in 1 .. n + 1 : more[i] = IF i < p THEN keys[i] ELSE IF i = p THEN sep ELSE keys[i - 1]
    BY <1>1 DEF Inserted
  <2>3. \A i \in 1 .. n + 1 : i > p => ~(i < p) /\ i # p
    BY ONLY <1>2
  <2>4. p \in 1 .. n + 1 /\ ~(p < p)
    BY ONLY <1>2
  <2>5. DOMAIN more = 1 .. n + 1
    BY ONLY <1>2, <2>1
  <2> QED
    BY ONLY <2>1, <2>2, <2>3, <2>4, <2>5
<1>4. /\ sep \in S
      /\ p > 1 => keys[p - 1] < sep
      /\ p <= n => sep < keys[p]
      /\ \E u \in S : u < sep
  <2>1. sep \in Part(keys, p, S)
    BY DEF Interior
  <2>2. PICK u \in Part(keys, p, S) : u < sep
    BY DEF Interior
  <2>4. p > 1 => keys[p - 1] <= u
    BY ONLY <2>2 DEF Part
  <2>5. u \in S /\ u \in Int
    BY ONLY <2>2, S \in SUBSET Int DEF Part
  <2>7. p <= n => sep < keys[p]
    BY ONLY <1>1, <2>1 DEF Part
  <2>8. sep \in S
    BY ONLY <2>1 DEF Part
  <2>9. p > 1 => p - 1 \in 1 .. n
    BY ONLY <1>2
  <2>10. p > 1 => keys[p - 1] < sep
    BY ONLY <1>2, <2>2, <2>4, <2>5, <2>9
  <2> QED
    BY ONLY <2>2, <2>5, <2>7, <2>8, <2>10
<1>5. ASSUME NEW i \in 1 .. n
      PROVE  (i < p => keys[i] < sep) /\ (i >= p => sep < keys[i])
  <2>1. i < p => p > 1 /\ p - 1 \in 1 .. n /\ (i = p - 1 \/ i < p - 1)
    BY ONLY <1>2, i \in 1 .. n
  <2>2. i >= p => p <= n /\ p \in 1 .. n /\ (i = p \/ p < i)
    BY ONLY <1>2, i \in 1 .. n
  <2>3. i < p => keys[i] < sep
    <3>1. i < p => keys[i] <= keys[p - 1]
      BY ONLY <1>2, <2>1
    <3> QED
      BY ONLY <1>2, <1>4, <2>1, <3>1
  <2>4. i >= p => sep < keys[i]
    <3>1. i >= p => keys[p] <= keys[i]
      BY ONLY <1>2, <2>2
    <3> QED
      BY ONLY <1>2, <1>4, <2>2, <3>1
  <2> QED
    BY ONLY <2>3, <2>4
<1>6. \A i \in 1 .. n + 1 : more[i] \in Int
  <2>1. \A i \in 1 .. n + 1 : more[i] \in Keys
    BY ONLY <1>2, <1>3
  <2> QED
    BY <2>1, LeafAssumption
<1>7. ASSUME NEW i \in 1 .. n + 1, NEW j \in 1 .. n + 1, i < j PROVE more[i] < more[j]
  <2>1. CASE j < p
    <3>1. i \in 1 .. n /\ j \in 1 .. n /\ i < p
      BY ONLY <1>2, <1>7, <2>1
    <3> QED
      BY ONLY <1>2, <1>3, <1>7, <2>1, <3>1
  <2>2. CASE j = p
    <3>1. i \in 1 .. n /\ i < p
      BY ONLY <1>2, <1>7, <2>2
    <3> QED
      BY ONLY <1>3, <1>5, <2>2, <3>1
  <2>3. CASE j > p
    <3>1. j - 1 \in 1 .. n /\ j - 1 >= p
      BY ONLY <1>2, <1>7, <2>3
    <3>2. more[j] = keys[j - 1]
      BY ONLY <1>3, <2>3, j \in 1 .. n + 1
    <3>3. CASE i < p
      <4>1. i \in 1 .. n /\ i < j - 1
        BY ONLY <1>2, <1>7, <2>3, <3>3
      <4> QED
        BY ONLY <1>2, <1>3, <3>1, <3>2, <3>3, <4>1
    <3>4. CASE i = p
      BY ONLY <1>3, <1>5, <3>1, <3>2, <3>4
    <3>5. CASE i > p
      <4>1. i - 1 \in 1 .. n /\ i - 1 < j - 1
        BY ONLY <1>2, <1>7, <3>5
      <4>2. more[i] = keys[i - 1]
        BY ONLY <1>3, <3>5, i \in 1 .. n + 1
      <4> QED
        BY ONLY <1>2, <3>1, <3>2, <4>1, <4>2
    <3> QED
      BY ONLY <1>2, <3>3, <3>4, <3>5, i \in 1 .. n + 1
  <2> QED
    BY ONLY <1>2, <2>1, <2>2, <2>3, j \in 1 .. n + 1
<1>8. Separators(more, S)
  <2>1. ASSUME NEW i \in 1 .. n + 1 PROVE more[i] \in Interior(S)
    <3>1. CASE i < p
      <4>1. i \in 1 .. n
        BY ONLY <1>2, <3>1
      <4>2. more[i] = keys[i]
        BY ONLY <1>3, <3>1, i \in 1 .. n + 1
      <4> QED
        BY ONLY <1>2, <4>1, <4>2 DEF Interior
    <3>2. CASE i = p
      BY ONLY <1>3, <1>4, <3>2 DEF Interior
    <3>3. CASE i > p
      <4>1. i - 1 \in 1 .. n
        BY ONLY <1>2, <3>3
      <4>2. more[i] = keys[i - 1]
        BY ONLY <1>3, <3>3, i \in 1 .. n + 1
      <4> QED
        BY ONLY <1>2, <4>1, <4>2 DEF Interior
    <3> QED
      BY ONLY <1>2, <3>1, <3>2, <3>3, i \in 1 .. n + 1
  <2>2. more # <<>>
    BY ONLY <1>2, <1>3
  <2>3. InOrder(more)
    BY ONLY <1>3, <1>7 DEF InOrder
  <2> QED
    BY ONLY <1>3, <2>1, <2>2, <2>3 DEF Separators
<1>9. ASSUME NEW i \in 1 .. n + 1, i < p PROVE Part(more, i, S) = Part(keys, i, S)
  <2>1. i \in 1 .. n /\ i <= n + 1 /\ i <= n /\ (i > 1 => i - 1 \in 1 .. n + 1 /\ i - 1 < p)
    BY ONLY <1>2, <1>9
  <2>2. more[i] = keys[i] /\ (i > 1 => more[i - 1] = keys[i - 1])
    BY ONLY <1>3, <1>9, <2>1
  <2> QED
    BY ONLY <1>1, <1>3, <2>1, <2>2 DEF Part
<1>10. Part(more, p, S) = Low(Part(keys, p, S), sep)
  <2>1. p <= n + 1 /\ (p > 1 => p - 1 \in 1 .. n + 1 /\ p - 1 < p)
    BY ONLY <1>2
  <2>2. p > 1 => more[p - 1] = keys[p - 1]
    BY ONLY <1>3, <2>1
  <2>3. ASSUME NEW v \in S, v < sep PROVE p <= n => v < keys[p]
    <3>1. p <= n => p \in 1 .. n
      BY ONLY <1>2
    <3>2. v \in Int
      BY ONLY v \in S, S \in SUBSET Int
    <3> QED
      BY ONLY <1>2, <1>4, <2>3, <3>1, <3>2
  <2> QED
    BY ONLY <1>1, <1>3, <2>1, <2>2, <2>3 DEF Part, Low
<1>11. Part(more, p + 1, S) = High(Part(keys, p, S), sep)
  <2>1. /\ p + 1 > 1 /\ (p + 1) - 1 = p
        /\ p + 1 <= n + 1 <=> p <= n
        /\ p <= n => p + 1 \in 1 .. n + 1 /\ p + 1 > p /\ (p + 1) - 1 = p
    BY ONLY <1>2
  <2>2. p <= n => more[p + 1] = keys[p]
    BY ONLY <1>3, <2>1
  <2>3. ASSUME NEW v \in S PROVE (sep <= v <=> v >= sep) /\ (v >= sep => (p > 1 => keys[p - 1] <= v))
    <3>1. p > 1 => p - 1 \in 1 .. n
      BY ONLY <1>2
    <3>2. v \in Int
      BY ONLY v \in S, S \in SUBSET Int
    <3> QED
      BY ONLY <1>2, <1>4, <3>1, <3>2
  <2>4. Part(more, p + 1, S) = {v \in S : sep <= v /\ (p <= n => v < keys[p])}
    BY ONLY <1>3, <2>1, <2>2 DEF Part
  <2> QED
    BY ONLY <1>1, <2>3, <2>4 DEF Part, High
<1>12. ASSUME NEW i \in 1 .. n + 1, i > p PROVE Part(more, i + 1, S) = Part(keys, i, S)
  <2>1. /\ i + 1 > 1 /\ (i + 1) - 1 = i /\ i > 1
        /\ i + 1 <= n + 1 <=> i <= n
        /\ i <= n => i + 1 \in 1 .. n + 1 /\ i + 1 > p
    BY ONLY <1>2, <1>12, i \in 1 .. n + 1
  <2>2. more[i] = keys[i - 1] /\ (i <= n => more[i + 1] = keys[i])
    BY ONLY <1>3, <1>12, <2>1, i \in 1 .. n + 1
  <2> QED
    BY ONLY <1>1, <1>3, <2>1, <2>2 DEF Part
<1> QED
  BY ONLY <1>1, <1>8, <1>9, <1>10, <1>11, <1>12

(* The node with the new child, when the child at the offset has the lower *)
(* side of its part and the new one the upper side.                        *)
LEMMA NodeWidened ==
  ASSUME NEW S \in SUBSET Int, NEW n \in Nat, NEW h, NEW r, NEW h2, NEW r2,
         NEW node, InnerNode(node, n, S, h, r),
         NEW offset \in 0 .. Len(node.keys), NEW pg, pg = node.children[offset + 1],
         NEW sep \in Keys, sep \in Interior(r[pg]), NEW new,
         \A x \in DOMAIN h : x # pg => Same(h, r, h2, r2, x),
         pg \in DOMAIN h2, h2[pg] = h[pg], r2[pg] = Low(r[pg], sep),
         new \in DOMAIN h2, h2[new] = h[pg], r2[new] = High(r[pg], sep)
  PROVE  InnerNode(AM_AddtoIntPage(node, sep, new, offset), n, S, h2, r2)
<1>1. PICK keys, children, m, p :
        keys = node.keys /\ children = node.children /\ m = Len(keys) /\ p = offset + 1
  OBVIOUS
<1>2. Fans(keys, children, n, S, h, r)
  BY <1>1 DEF InnerNode
<1>3. /\ Separators(keys, S)
      /\ children \in Seq(DOMAIN h) /\ Len(children) = m + 1
      /\ \A i \in 1 .. m + 1 : h[children[i]] + 1 = n /\ r[children[i]] = Part(keys, i, S)
  BY ONLY <1>1, <1>2 DEF Fans
<1>4. /\ m \in Nat \ {0} /\ p \in 1 .. m + 1 /\ p \in Int /\ offset + 2 = p + 1
      /\ keys \in Seq(Keys) /\ pg = children[p]
  <2>1. m \in Nat \ {0}
    BY ONLY <1>1, <1>3, S \in SUBSET Int, KeysAreNumbers
  <2>2. offset \in 0 .. m
    BY <1>1
  <2>3. p \in 1 .. m + 1 /\ p \in Int /\ offset + 2 = p + 1
    BY ONLY <1>1, <2>1, <2>2
  <2>4. keys \in Seq(Keys) /\ pg = children[p]
    BY <1>1, <1>3 DEF Separators
  <2> QED
    BY ONLY <2>1, <2>3, <2>4
<1>5. PICK more, longer :
        more = InsertAt(keys, offset + 1, sep) /\ longer = InsertAt(children, offset + 2, new)
  OBVIOUS
<1>6. more \in Seq(Keys) /\ Inserted(keys, p, sep, more)
  <2>1. keys \in Seq(Keys) /\ p \in 1 .. Len(keys) + 1 /\ more = InsertAt(keys, p, sep)
    BY ONLY <1>1, <1>4, <1>5
  <2> QED
    BY ONLY <2>1, sep \in Keys, InsertedAt
<1>7. \A i \in 1 .. m + 1 : children[i] \in DOMAIN h
  BY ONLY <1>3, <1>4
<1>8. DOMAIN h \subseteq DOMAIN h2
  BY DEF Same
<1>9. Inserted(children, p + 1, new, longer) /\ longer \in Seq(DOMAIN h2) /\ Len(longer) = m + 2
  <2>1. children \in Seq(DOMAIN h2)
    <3>1. children = [i \in 1 .. m + 1 |-> children[i]]
      BY ONLY <1>3, <1>4
    <3>2. children \in [1 .. m + 1 -> DOMAIN h2]
      BY ONLY <1>7, <1>8, <3>1
    <3> QED
      BY ONLY <1>4, <3>2
  <2>2. PICK q : q = p + 1
    OBVIOUS
  <2>3. q \in 1 .. Len(children) + 1 /\ longer = InsertAt(children, q, new)
    BY ONLY <1>3, <1>4, <1>5, <2>2
  <2>5. PICK D : D = DOMAIN h2
    OBVIOUS
  <2>6. children \in Seq(D) /\ new \in D
    BY <2>1, <2>5
  <2>7. longer \in Seq(D) /\ Inserted(children, q, new, longer)
    BY ONLY <2>3, <2>6, InsertedAt
  <2>8. Len(longer) = Len(children) + 1
    BY ONLY <2>7 DEF Inserted
  <2>9. Len(longer) = m + 2
    BY ONLY <1>3, <1>4, <2>8
  <2> QED
    BY ONLY <2>2, <2>5, <2>7, <2>9
<1>10. r[pg] = Part(keys, p, S)
  BY ONLY <1>3, <1>4
<1>11. /\ Separators(more, S) /\ Len(more) = m + 1
       /\ \A i \in 1 .. m + 1 :
            /\ i < p => Part(more, i, S) = Part(keys, i, S)
            /\ i = p => /\ Part(more, i, S) = Low(Part(keys, i, S), sep)
                        /\ Part(more, i + 1, S) = High(Part(keys, i, S), sep)
            /\ i > p => Part(more, i + 1, S) = Part(keys, i, S)
  <2>1. sep \in Interior(Part(keys, p, S)) /\ p \in 1 .. Len(keys) + 1
    BY <1>1, <1>4, <1>10
  <2>2. /\ Separators(more, S)
        /\ \A i \in 1 .. Len(keys) + 1 :
             /\ i < p => Part(more, i, S) = Part(keys, i, S)
             /\ i = p => /\ Part(more, i, S) = Low(Part(keys, i, S), sep)
                         /\ Part(more, i + 1, S) = High(Part(keys, i, S), sep)
             /\ i > p => Part(more, i + 1, S) = Part(keys, i, S)
    BY ONLY <1>3, <1>6, <2>1, sep \in Keys, S \in SUBSET Int, SeparatorAdded
  <2>3. Len(more) = m + 1
    BY ONLY <1>1, <1>6 DEF Inserted
  <2> QED
    BY ONLY <1>1, <2>2, <2>3
<1>12. ASSUME NEW i \in 1 .. m + 1, i # p
       PROVE  Same(h, r, h2, r2, children[i])
  <2>1. Part(keys, i, S) # {} /\ Part(keys, i, S) \cap Part(keys, p, S) = {}
    BY ONLY <1>1, <1>3, <1>4, <1>12, S \in SUBSET Int, PartsOf
  <2>2. children[i] # pg
    BY ONLY <1>3, <1>10, <2>1, i \in 1 .. m + 1
  <2> QED
    BY <1>7, <2>2
<1>13. ASSUME NEW i \in 1 .. m + 2
       PROVE  h2[longer[i]] + 1 = n /\ r2[longer[i]] = Part(more, i, S)
  <2>1. longer[i] = IF i < p + 1 THEN children[i] ELSE IF i = p + 1 THEN new ELSE children[i - 1]
    <3>1. i \in 1 .. Len(children) + 1
      BY ONLY <1>3, <1>4, i \in 1 .. m + 2
    <3> QED
      BY ONLY <1>9, <3>1 DEF Inserted
  <2>2. CASE i < p
    <3>1. i \in 1 .. m + 1 /\ i # p /\ i < p + 1
      BY ONLY <1>4, <2>2, i \in 1 .. m + 2
    <3>2. longer[i] = children[i] /\ Same(h, r, h2, r2, children[i])
      BY ONLY <1>12, <2>1, <3>1
    <3> QED
      BY ONLY <1>3, <1>11, <2>2, <3>1, <3>2 DEF Same
  <2>3. CASE i = p
    <3>1. i \in 1 .. m + 1 /\ i < p + 1
      BY ONLY <1>4, <2>3
    <3>2. longer[i] = pg
      BY ONLY <1>4, <2>1, <2>3, <3>1
    <3>3. h[pg] + 1 = n
      BY ONLY <1>3, <1>4
    <3> QED
      BY <1>10, <1>11, <2>3, <3>1, <3>2, <3>3
  <2>4. CASE i = p + 1
    <3>1. ~(i < p + 1) /\ p \in 1 .. m + 1
      BY ONLY <1>4, <2>4
    <3>2. longer[i] = new
      BY ONLY <2>1, <2>4, <3>1
    <3>3. h[pg] + 1 = n
      BY ONLY <1>3, <1>4
    <3>4. Part(more, i, S) = High(Part(keys, p, S), sep)
      BY ONLY <1>11, <2>4, <3>1
    <3> QED
      BY <1>10, <3>2, <3>3, <3>4
  <2>5. CASE i > p + 1
    <3>1. PICK j : j = i - 1
      OBVIOUS
    <3>2. j \in 1 .. m + 1 /\ j > p /\ j # p /\ i = j + 1 /\ ~(i < p + 1) /\ i # p + 1
      BY ONLY <1>4, <2>5, <3>1, i \in 1 .. m + 2
    <3>3. longer[i] = children[j] /\ Same(h, r, h2, r2, children[j])
      BY ONLY <1>12, <2>1, <3>1, <3>2
    <3> QED
      BY ONLY <1>3, <1>11, <3>2, <3>3 DEF Same
  <2> QED
    BY ONLY <1>4, <2>2, <2>3, <2>4, <2>5, i \in 1 .. m + 2
<1>14. AM_AddtoIntPage(node, sep, new, offset) = InternalNode(more, longer)
  BY <1>1, <1>5 DEF AM_AddtoIntPage
<1>15. Fans(more, longer, n, S, h2, r2)
  <2>1. Len(more) + 1 = m + 2
    BY ONLY <1>4, <1>11
  <2> QED
    BY ONLY <1>9, <1>11, <1>13, <2>1 DEF Fans
<1> QED
  BY ONLY <1>14, <1>15, InternalIs DEF InnerNode

IsPart(s, shift, len, t) == Len(t) = len /\ \A i \in 1 .. len : t[i] = s[shift + i]

LEMMA PartFrom ==
  ASSUME NEW S, NEW s \in Seq(S), NEW shift \in Nat, NEW len \in Nat, shift + len <= Len(s),
         NEW low, low = shift + 1, NEW high, high = shift + len,
         NEW t, t = SubSeq(s, low, high)
  PROVE  t \in Seq(S) /\ IsPart(s, shift, len, t)
<1>1. low \in 1 .. Len(s) + 1 /\ high \in low - 1 .. Len(s) /\ high - low + 1 = len
  OBVIOUS
<1>2. \A i \in 1 .. len : low + i - 1 = shift + i
  OBVIOUS
<1>3. /\ t \in Seq(S) /\ Len(t) = high - low + 1
      /\ \A i \in 1 .. high - low + 1 : t[i] = s[low + i - 1]
  BY ONLY <1>1, s \in Seq(S), t = SubSeq(s, low, high), PartIs
<1> QED
  BY ONLY <1>1, <1>2, <1>3 DEF IsPart

(* AM_SplitIntNode: the key in the middle separates the two halves.        *)
LEMMA NodeSplit ==
  ASSUME NEW S \in SUBSET Int, NEW n \in Nat, NEW h, NEW r,
         NEW node, InnerNode(node, n, S, h, r), Len(node.keys) = MaxKeys + 1,
         NEW split, split = AM_SplitIntNode(node)
  PROVE  /\ split.sep \in Keys /\ split.sep \in Interior(S)
         /\ InnerNode(split.lower, n, Low(S, split.sep), h, r)
         /\ InnerNode(split.upper, n, High(S, split.sep), h, r)
         /\ Len(split.lower.keys) \in 1 .. MaxKeys /\ Len(split.upper.keys) \in 1 .. MaxKeys
<1>1. PICK keys, children, half, sep :
        /\ keys = node.keys /\ children = node.children /\ half = MaxKeys \div 2
        /\ sep = keys[half + 1]
  OBVIOUS
<1>2. PICK m : m = MaxKeys + 1
  OBVIOUS
<1>3. half \in Nat \ {0} /\ m = 2 * half + 1 /\ MaxKeys = 2 * half
  <2>1. MaxKeys \in Nat \ {0} /\ MaxKeys % 2 = 0
    BY TreeAssumption
  <2> QED
    BY ONLY <1>1, <1>2, <2>1
<1>4. Fans(keys, children, n, S, h, r) /\ Len(keys) = m
  BY <1>1, <1>2 DEF InnerNode
<1>5. /\ Separators(keys, S) /\ Len(keys) = m
      /\ children \in Seq(DOMAIN h) /\ Len(children) = m + 1
      /\ \A i \in 1 .. m + 1 : h[children[i]] + 1 = n /\ r[children[i]] = Part(keys, i, S)
  BY ONLY <1>4 DEF Fans
<1>6. /\ keys \in Seq(Keys) /\ DOMAIN keys = 1 .. m
      /\ \A i \in 1 .. m : keys[i] \in Int /\ keys[i] \in Keys /\ keys[i] \in S
      /\ \A i, j \in 1 .. m : i < j => keys[i] < keys[j]
      /\ \A i \in 1 .. m : \E u \in S : u < keys[i]
  <2>1. keys \in Seq(Keys)
    BY ONLY <1>5 DEF Separators
  <2> QED
    BY ONLY <1>5, <2>1, S \in SUBSET Int, KeysAreNumbers
<1>7. PICK lkeys, lchildren, ukeys, uchildren :
        /\ lkeys = SubSeq(keys, 1, half) /\ lchildren = SubSeq(children, 1, half + 1)
        /\ ukeys = SubSeq(keys, half + 2, MaxKeys + 1)
        /\ uchildren = SubSeq(children, half + 2, MaxKeys + 2)
  OBVIOUS
<1>8. /\ split.lower = InternalNode(lkeys, lchildren) /\ split.sep = sep
      /\ split.upper = InternalNode(ukeys, uchildren)
  BY ONLY <1>1, <1>7, split = AM_SplitIntNode(node) DEF AM_SplitIntNode
<1>9. half + 1 \in 1 .. m /\ sep \in Keys /\ sep \in S /\ sep \in Int /\ sep \in Interior(S)
  <2>1. half + 1 \in 1 .. m
    BY ONLY <1>3
  <2> QED
    BY ONLY <1>1, <1>6, <2>1 DEF Interior
<1>10. /\ lkeys \in Seq(Keys) /\ Len(lkeys) = half
       /\ \A i \in 1 .. half : lkeys[i] = keys[i]
  <2>1. PICK shift : shift = 0
    OBVIOUS
  <2>2. /\ keys \in Seq(Keys) /\ shift \in Nat /\ half \in Nat /\ shift + half <= Len(keys)
        /\ 1 = shift + 1 /\ half = shift + half
    BY ONLY <1>2, <1>3, <1>5, <1>6, <2>1
  <2>3. lkeys = SubSeq(keys, 1, half)
    BY <1>7
  <2>4. lkeys \in Seq(Keys) /\ IsPart(keys, shift, half, lkeys)
    BY ONLY <2>2, <2>3, PartFrom
  <2>5. \A i \in 1 .. half : shift + i = i
    BY ONLY <2>1, <2>2
  <2> QED
    BY ONLY <2>4, <2>5 DEF IsPart
<1>11. /\ lchildren \in Seq(DOMAIN h) /\ Len(lchildren) = half + 1
       /\ \A i \in 1 .. half + 1 : lchildren[i] = children[i]
  <2>1. PICK shift : shift = 0
    OBVIOUS
  <2>2. /\ children \in Seq(DOMAIN h) /\ shift \in Nat /\ half + 1 \in Nat
        /\ shift + (half + 1) <= Len(children)
        /\ 1 = shift + 1 /\ half + 1 = shift + (half + 1)
    BY ONLY <1>2, <1>3, <1>5, <1>6, <2>1
  <2>3. lchildren = SubSeq(children, 1, half + 1)
    BY <1>7
  <2>4. lchildren \in Seq(DOMAIN h) /\ IsPart(children, shift, half + 1, lchildren)
    BY ONLY <2>2, <2>3, PartFrom
  <2>5. \A i \in 1 .. half + 1 : shift + i = i
    BY ONLY <2>1, <2>2
  <2> QED
    BY ONLY <2>4, <2>5 DEF IsPart
<1>12. /\ ukeys \in Seq(Keys) /\ Len(ukeys) = half
       /\ \A i \in 1 .. half : ukeys[i] = keys[half + 1 + i]
  <2>1. PICK shift : shift = half + 1
    OBVIOUS
  <2>2. /\ keys \in Seq(Keys) /\ shift \in Nat /\ half \in Nat /\ shift + half <= Len(keys)
        /\ half + 2 = shift + 1 /\ MaxKeys + 1 = shift + half
    BY ONLY <1>2, <1>3, <1>5, <1>6, <2>1
  <2>3. ukeys = SubSeq(keys, half + 2, MaxKeys + 1)
    BY <1>7
  <2>4. ukeys \in Seq(Keys) /\ IsPart(keys, shift, half, ukeys)
    BY ONLY <2>2, <2>3, PartFrom
  <2>5. \A i \in 1 .. half : shift + i = half + 1 + i
    BY ONLY <2>1, <2>2
  <2> QED
    BY ONLY <2>4, <2>5 DEF IsPart
<1>13. /\ uchildren \in Seq(DOMAIN h) /\ Len(uchildren) = half + 1
       /\ \A i \in 1 .. half + 1 : uchildren[i] = children[half + 1 + i]
  <2>1. PICK shift : shift = half + 1
    OBVIOUS
  <2>2. /\ children \in Seq(DOMAIN h) /\ shift \in Nat /\ half + 1 \in Nat
        /\ shift + (half + 1) <= Len(children)
        /\ half + 2 = shift + 1 /\ MaxKeys + 2 = shift + (half + 1)
    BY ONLY <1>2, <1>3, <1>5, <1>6, <2>1
  <2>3. uchildren = SubSeq(children, half + 2, MaxKeys + 2)
    BY <1>7
  <2>4. uchildren \in Seq(DOMAIN h) /\ IsPart(children, shift, half + 1, uchildren)
    BY ONLY <2>2, <2>3, PartFrom
  <2>5. \A i \in 1 .. half + 1 : shift + i = half + 1 + i
    BY ONLY <2>1, <2>2
  <2> QED
    BY ONLY <2>4, <2>5 DEF IsPart
<1>14. Fans(lkeys, lchildren, n, Low(S, sep), h, r)
  <2>1. ASSUME NEW i \in 1 .. half PROVE keys[i] < sep /\ i \in 1 .. m
    <3>1. i \in 1 .. m /\ i < half + 1
      BY ONLY <1>3, i \in 1 .. half
    <3> QED
      BY ONLY <1>1, <1>6, <1>9, <3>1
  <2>2. ASSUME NEW i \in 1 .. half PROVE lkeys[i] \in Interior(Low(S, sep))
    <3>1. PICK u \in S : u < keys[i]
      BY ONLY <1>6, <2>1, i \in 1 .. half
    <3>2. u \in Int /\ keys[i] \in Int /\ keys[i] \in S
      BY ONLY <1>6, <2>1, i \in 1 .. half, u \in S, S \in SUBSET Int
    <3>3. u < sep
      BY ONLY <1>9, <2>1, <3>1, <3>2, i \in 1 .. half
    <3> QED
      BY ONLY <1>10, <2>1, <3>1, <3>2, <3>3, i \in 1 .. half DEF Interior, Low
  <2>3. InOrder(lkeys)
    <3>1. DOMAIN lkeys = 1 .. half
      BY ONLY <1>3, <1>10
    <3> QED
      BY ONLY <1>6, <1>10, <2>1, <3>1 DEF InOrder
  <2>4. lkeys # <<>>
    BY ONLY <1>3, <1>10
  <2>5. Separators(lkeys, Low(S, sep))
    BY ONLY <1>10, <2>2, <2>3, <2>4 DEF Separators
  <2>6. ASSUME NEW i \in 1 .. half + 1
        PROVE  Part(lkeys, i, Low(S, sep)) = Part(keys, i, S)
    <3>1. /\ i \in 1 .. m /\ i <= m
          /\ i > 1 => i - 1 \in 1 .. half
          /\ i <= half => i \in 1 .. half
          /\ i > half => i = half + 1
      BY ONLY <1>3, i \in 1 .. half + 1
    <3>2. Part(lkeys, i, Low(S, sep)) =
            {v \in S : v < sep /\ (i > 1 => keys[i - 1] <= v) /\ (i <= half => v < keys[i])}
      BY ONLY <1>10, <3>1 DEF Part, Low
    <3>3. Part(keys, i, S) = {v \in S : (i > 1 => keys[i - 1] <= v) /\ v < keys[i]}
      BY ONLY <1>5, <3>1 DEF Part
    <3>4. ASSUME NEW v \in S PROVE v < keys[i] <=> v < sep /\ (i <= half => v < keys[i])
      <4>1. v \in Int /\ sep \in Int /\ keys[i] \in Int
        BY ONLY <1>6, <1>9, <3>1, v \in S, S \in SUBSET Int
      <4>2. CASE i <= half
        <5>1. keys[i] < sep
          BY ONLY <2>1, <3>1, <4>2
        <5> QED
          BY ONLY <4>1, <4>2, <5>1
      <4>3. CASE i > half
        <5>1. keys[i] = sep
          BY ONLY <1>1, <3>1, <4>3
        <5> QED
          BY ONLY <1>3, <4>1, <4>3, <5>1, <3>1
      <4> QED
        BY ONLY <1>3, <3>1, <4>2, <4>3
    <3> QED
      BY ONLY <3>2, <3>3, <3>4
  <2>7. ASSUME NEW i \in 1 .. half + 1
        PROVE  h[lchildren[i]] + 1 = n /\ r[lchildren[i]] = Part(lkeys, i, Low(S, sep))
    <3>1. i \in 1 .. m + 1
      BY ONLY <1>3, i \in 1 .. half + 1
    <3> QED
      BY ONLY <1>5, <1>11, <2>6, <3>1, i \in 1 .. half + 1
  <2> QED
    BY ONLY <1>10, <1>11, <2>5, <2>7 DEF Fans
<1>15. Fans(ukeys, uchildren, n, High(S, sep), h, r)
  <2>1. ASSUME NEW i \in 1 .. half PROVE keys[half + 1 + i] > sep /\ half + 1 + i \in 1 .. m
    <3>1. half + 1 + i \in 1 .. m /\ half + 1 < half + 1 + i
      BY ONLY <1>3, i \in 1 .. half
    <3>2. sep < keys[half + 1 + i] /\ keys[half + 1 + i] \in Int
      BY ONLY <1>1, <1>6, <1>9, <3>1
    <3> QED
      BY ONLY <1>9, <3>1, <3>2
  <2>2. ASSUME NEW i \in 1 .. half PROVE ukeys[i] \in Interior(High(S, sep))
    <3>1. PICK key : key = keys[half + 1 + i]
      OBVIOUS
    <3>2. key \in S /\ key \in Int /\ key > sep
      BY ONLY <1>6, <2>1, <3>1, i \in 1 .. half
    <3>3. key >= sep /\ sep >= sep /\ sep < key
      BY ONLY <1>9, <3>2
    <3>4. ukeys[i] = key
      BY ONLY <1>12, <3>1, i \in 1 .. half
    <3> QED
      BY ONLY <1>9, <3>2, <3>3, <3>4 DEF Interior, High
  <2>3. InOrder(ukeys)
    <3>1. DOMAIN ukeys = 1 .. half
      BY ONLY <1>3, <1>12
    <3>2. ASSUME NEW i \in 1 .. half, NEW j \in 1 .. half, i < j PROVE ukeys[i] < ukeys[j]
      <4>1. half + 1 + i < half + 1 + j
        BY ONLY <1>3, <3>2, i \in 1 .. half, j \in 1 .. half
      <4> QED
        BY ONLY <1>6, <1>12, <2>1, <4>1, i \in 1 .. half, j \in 1 .. half
    <3> QED
      BY ONLY <3>1, <3>2 DEF InOrder
  <2>4. ukeys # <<>>
    BY ONLY <1>3, <1>12
  <2>5. Separators(ukeys, High(S, sep))
    BY ONLY <1>12, <2>2, <2>3, <2>4 DEF Separators
  <2>6. ASSUME NEW i \in 1 .. half + 1
        PROVE  Part(ukeys, i, High(S, sep)) = Part(keys, half + 1 + i, S)
    <3>1. PICK j : j = half + 1 + i
      OBVIOUS
    <3>2. /\ j > 1 /\ j - 1 \in 1 .. m
          /\ i > 1 => i - 1 \in 1 .. half /\ half + 1 + (i - 1) = j - 1
          /\ i <= half => i \in 1 .. half
          /\ i <= half <=> j <= m
          /\ ~(i > 1) => j - 1 = half + 1
      BY ONLY <1>3, <3>1, i \in 1 .. half + 1
    <3>3. i > 1 => ukeys[i - 1] = keys[j - 1] /\ keys[j - 1] > sep
      BY ONLY <1>12, <2>1, <3>2
    <3>4. i <= half => ukeys[i] = keys[j]
      BY ONLY <1>12, <3>1, <3>2
    <3>5. Part(ukeys, i, High(S, sep)) =
            {v \in S : v >= sep /\ (i > 1 => keys[j - 1] <= v) /\ (j <= m => v < keys[j])}
      BY ONLY <1>12, <3>2, <3>3, <3>4 DEF Part, High
    <3>6. Part(keys, j, S) = {v \in S : keys[j - 1] <= v /\ (j <= m => v < keys[j])}
      BY ONLY <1>5, <3>2 DEF Part
    <3>7. ASSUME NEW v \in S PROVE keys[j - 1] <= v <=> v >= sep /\ (i > 1 => keys[j - 1] <= v)
      <4>1. v \in Int /\ sep \in Int /\ keys[j - 1] \in Int
        BY ONLY <1>6, <1>9, <3>2, v \in S, S \in SUBSET Int
      <4>2. CASE i > 1
        BY ONLY <3>3, <4>1, <4>2
      <4>3. CASE ~(i > 1)
        <5>1. keys[j - 1] = sep
          BY ONLY <1>1, <3>2, <4>3
        <5> QED
          BY ONLY <4>1, <4>3, <5>1
      <4> QED
        BY ONLY <4>2, <4>3
    <3> QED
      BY ONLY <3>1, <3>5, <3>6, <3>7
  <2>7. ASSUME NEW i \in 1 .. half + 1
        PROVE  h[uchildren[i]] + 1 = n /\ r[uchildren[i]] = Part(ukeys, i, High(S, sep))
    <3>1. half + 1 + i \in 1 .. m + 1
      BY ONLY <1>3, i \in 1 .. half + 1
    <3> QED
      BY ONLY <1>5, <1>13, <2>6, <3>1, i \in 1 .. half + 1
  <2> QED
    BY ONLY <1>12, <1>13, <2>5, <2>7 DEF Fans
<1>16. half \in 1 .. MaxKeys
  BY ONLY <1>3
<1> QED
  BY ONLY <1>8, <1>9, <1>10, <1>12, <1>14, <1>15, <1>16, InternalIs DEF InnerNode

-----------------------------------------------------------------------------
(***************************************************************************)
(* Trees.                                                                  *)
(***************************************************************************)

(* The n pages of P are a search tree with heights h and ranges r: the     *)
(* root is above all others, and no two pages of the same height have the  *)
(* same number in their ranges.                                            *)
Heights(P, n, h) ==
  /\ n \in Nat \ {0} /\ DOMAIN P = 0 .. n - 1
  /\ h \in [0 .. n - 1 -> Nat] /\ h[Root] < n
  /\ \A pg \in 0 .. n - 1 : pg # Root => h[pg] < h[Root]

RangesOf(n, h, r) ==
  /\ r \in [0 .. n - 1 -> SUBSET Int] /\ r[Root] = Int
  /\ \A pg \in 0 .. n - 1 : r[pg] # {}
  /\ \A p1, p2 \in 0 .. n - 1 : h[p1] = h[p2] /\ p1 # p2 => r[p1] \cap r[p2] = {}

NodesOf(P, n, h, r) == \A pg \in 0 .. n - 1 : GoodNode(P[pg], h[pg], r[pg], h, r)

(* A range that is to the left of another one.                             *)
LeftOf(A, B) == \A u \in A, v \in B : u < v

(* The leaves are linked from the first one, from left to right: there is  *)
(* no leaf between one and the next, and none to the right of the last.    *)
Linked(leaves, first, P, r) ==
  /\ first \in leaves /\ \A x \in leaves : x # first => LeftOf(r[first], r[x])
  /\ \A y \in leaves : P[y].next # AM_NULL_PAGE =>
       P[y].next \in leaves /\ LeftOf(r[y], r[P[y].next])
  /\ \A x, y \in leaves : x # y =>
       \/ LeftOf(r[x], r[y])
       \/ P[y].next # AM_NULL_PAGE /\ (x = P[y].next \/ LeftOf(r[P[y].next], r[x]))

LeavesOf(n, h) == {pg \in 0 .. n - 1 : h[pg] = 0}
FirstLeaf(h) == IF h[Root] = 0 THEN Root ELSE 2
LinksOf(P, n, h, r) == Linked(LeavesOf(n, h), FirstLeaf(h), P, r)

GoodTree(P, n, h, r) ==
  Heights(P, n, h) /\ RangesOf(n, h, r) /\ NodesOf(P, n, h, r) /\ LinksOf(P, n, h, r)

LEMMA LeftOfLeft ==
  ASSUME NEW R \in SUBSET Int, NEW S \in SUBSET Int, NEW T \in SUBSET Int, S # {},
         LeftOf(R, S), LeftOf(S, T)
  PROVE  LeftOf(R, T) /\ ~LeftOf(S, S)
<1>1. PICK v \in S : TRUE
  OBVIOUS
<1>2. ASSUME NEW u \in R, NEW w \in T PROVE u < w
  <2>1. u < v /\ v < w
    BY ONLY <1>1, LeftOf(R, S), LeftOf(S, T), u \in R, w \in T DEF LeftOf
  <2>2. u \in Int /\ v \in Int /\ w \in Int
    BY ONLY <1>1, R \in SUBSET Int, S \in SUBSET Int, T \in SUBSET Int, u \in R, w \in T
  <2> QED
    BY ONLY <2>1, <2>2
<1>3. ~(v < v)
  BY ONLY <1>1, S \in SUBSET Int
<1> QED
  BY ONLY <1>1, <1>2, <1>3 DEF LeftOf

(* Links that do not change.                                               *)
LEMMA LinksKept ==
  ASSUME NEW P, NEW n, NEW h, NEW r, LinksOf(P, n, h, r),
         NEW P2, NEW n2, NEW h2, NEW r2,
         LeavesOf(n2, h2) = LeavesOf(n, h), FirstLeaf(h2) = FirstLeaf(h),
         \A x \in LeavesOf(n, h) : P2[x].next = P[x].next /\ r2[x] = r[x]
  PROVE  LinksOf(P2, n2, h2, r2)
<1>1. PICK A, first : A = LeavesOf(n, h) /\ first = FirstLeaf(h)
  OBVIOUS
<1>2. Linked(A, first, P, r) /\ \A x \in A : P2[x].next = P[x].next /\ r2[x] = r[x]
  BY <1>1 DEF LinksOf
<1>3. first \in A /\ \A x \in A : x # first => LeftOf(r2[first], r2[x])
  BY ONLY <1>2 DEF Linked
<1>4. \A y \in A : P2[y].next # AM_NULL_PAGE =>
        P2[y].next \in A /\ LeftOf(r2[y], r2[P2[y].next])
  BY ONLY <1>2 DEF Linked
<1>5. \A x, y \in A : x # y =>
        \/ LeftOf(r2[x], r2[y])
        \/ P2[y].next # AM_NULL_PAGE /\ (x = P2[y].next \/ LeftOf(r2[P2[y].next], r2[x]))
  BY ONLY <1>2 DEF Linked
<1>6. Linked(A, first, P2, r2)
  BY ONLY <1>3, <1>4, <1>5 DEF Linked
<1> QED
  BY <1>1, <1>6 DEF LinksOf

(* A leaf pg is split, and the new leaf is n.                              *)
NewLink(A, P, r, pg, n, P2, r2) ==
  /\ \A x \in A : r[x] \in SUBSET Int /\ r[x] # {}
  /\ pg \in A /\ n \notin A /\ n # AM_NULL_PAGE
  /\ P2[pg].next = n /\ P2[n].next = P[pg].next
  /\ \A x \in A : x # pg => P2[x].next = P[x].next /\ r2[x] = r[x]
  /\ r2[pg] \subseteq r[pg] /\ r2[n] \subseteq r[pg] /\ LeftOf(r2[pg], r2[n])

LEMMA LinksSplit ==
  ASSUME NEW A, NEW first, NEW P, NEW r, Linked(A, first, P, r),
         NEW pg, NEW n, NEW P2, NEW r2, NewLink(A, P, r, pg, n, P2, r2)
  PROVE  Linked(A \cup {n}, first, P2, r2)
<1>0. /\ \A x \in A : r[x] \in SUBSET Int /\ r[x] # {}
      /\ pg \in A /\ n \notin A /\ n # AM_NULL_PAGE
      /\ P2[pg].next = n /\ P2[n].next = P[pg].next
      /\ \A x \in A : x # pg => P2[x].next = P[x].next /\ r2[x] = r[x]
      /\ r2[pg] \subseteq r[pg] /\ r2[n] \subseteq r[pg] /\ LeftOf(r2[pg], r2[n])
  BY ONLY NewLink(A, P, r, pg, n, P2, r2) DEF NewLink
<1> USE <1>0
<1>1. PICK S, z : S = r[pg] /\ z = P[pg].next
  OBVIOUS
<1>2. ASSUME NEW x \in A PROVE r2[x] \subseteq r[x]
  BY x \in A
<1>3. ASSUME NEW x \in A, NEW y \in A, LeftOf(r[x], r[y]) PROVE LeftOf(r2[x], r2[y])
  BY ONLY <1>2, <1>3, x \in A, y \in A DEF LeftOf
<1>4. ASSUME NEW x \in A, LeftOf(r[x], S) PROVE LeftOf(r2[x], r2[n])
  BY ONLY <1>1, <1>2, <1>4, x \in A, r2[n] \subseteq r[pg] DEF LeftOf
<1>5. ASSUME NEW x \in A, LeftOf(S, r[x]) PROVE LeftOf(r2[n], r2[x])
  BY ONLY <1>1, <1>2, <1>5, x \in A, r2[n] \subseteq r[pg] DEF LeftOf
<1>6. /\ first \in A /\ \A x \in A : x # first => LeftOf(r[first], r[x])
      /\ \A y \in A : P[y].next # AM_NULL_PAGE =>
           P[y].next \in A /\ LeftOf(r[y], r[P[y].next])
      /\ \A x, y \in A : x # y =>
           \/ LeftOf(r[x], r[y])
           \/ P[y].next # AM_NULL_PAGE /\ (x = P[y].next \/ LeftOf(r[P[y].next], r[x]))
  BY DEF Linked
<1>7. ASSUME NEW x \in A, NEW y \in A, x # y
      PROVE  \/ LeftOf(r[x], r[y])
             \/ \E w : w = P[y].next /\ w # AM_NULL_PAGE /\ (x = w \/ LeftOf(r[w], r[x]))
  BY ONLY <1>6, <1>7, x \in A, y \in A
<1>8. ASSUME NEW x \in A \cup {n}, x # first PROVE LeftOf(r2[first], r2[x])
  <2>1. CASE x \in A
    BY ONLY <1>3, <1>6, <1>8, <2>1
  <2>2. CASE x = n /\ pg = first
    BY ONLY <2>2, LeftOf(r2[pg], r2[n])
  <2>3. CASE x = n /\ pg # first
    <3>1. LeftOf(r[first], S)
      BY ONLY <1>1, <1>6, <2>3, pg \in A
    <3> QED
      BY ONLY <1>4, <1>6, <2>3, <3>1
  <2> QED
    BY ONLY <2>1, <2>2, <2>3, x \in A \cup {n}
<1>9. ASSUME NEW y \in A \cup {n}, P2[y].next # AM_NULL_PAGE
      PROVE  P2[y].next \in A \cup {n} /\ LeftOf(r2[y], r2[P2[y].next])
  <2>1. CASE y \in A /\ y # pg
    <3>1. P2[y].next = P[y].next
      BY <2>1
    <3>2. P[y].next \in A /\ LeftOf(r[y], r[P[y].next])
      BY ONLY <1>6, <1>9, <2>1, <3>1
    <3> QED
      BY ONLY <1>3, <2>1, <3>1, <3>2
  <2>2. CASE y = pg
    BY <2>2
  <2>3. CASE y = n
    <3>1. P2[y].next = z /\ z # AM_NULL_PAGE
      BY ONLY <1>1, <1>9, <2>3, P2[n].next = P[pg].next
    <3>2. z \in A /\ LeftOf(S, r[z])
      BY ONLY <1>1, <1>6, <3>1, pg \in A
    <3> QED
      BY ONLY <1>5, <2>3, <3>1, <3>2
  <2> QED
    BY ONLY <2>1, <2>2, <2>3, y \in A \cup {n}
<1>10. ASSUME NEW x \in A \cup {n}, NEW y \in A \cup {n}, x # y
      PROVE  \/ LeftOf(r2[x], r2[y])
             \/ P2[y].next # AM_NULL_PAGE /\ (x = P2[y].next \/ LeftOf(r2[P2[y].next], r2[x]))
  <2>1. CASE x \in A /\ y \in A /\ y # pg
    <3>1. P2[y].next = P[y].next
      BY <2>1
    <3>2. \/ LeftOf(r[x], r[y])
          \/ P[y].next # AM_NULL_PAGE /\ (x = P[y].next \/ LeftOf(r[P[y].next], r[x]))
      BY ONLY <1>7, <1>10, <2>1
    <3>3. P[y].next # AM_NULL_PAGE => P[y].next \in A
      BY ONLY <1>6, <2>1
    <3> QED
      BY ONLY <1>3, <2>1, <3>1, <3>2, <3>3
  <2>2. CASE x = n /\ y \in A /\ y # pg
    <3>1. P2[y].next = P[y].next
      BY <2>2
    <3>2. PICK w : w = P[y].next
      OBVIOUS
    <3>3. LeftOf(S, r[y]) \/ (w # AM_NULL_PAGE /\ (pg = w \/ LeftOf(r[w], S)))
      <4>1. pg # y /\ y \in A
        BY ONLY <2>2
      <4> QED
        BY ONLY <1>1, <1>7, <3>2, <4>1, pg \in A
    <3>4. w # AM_NULL_PAGE => w \in A
      BY ONLY <1>6, <2>2, <3>2
    <3>5. LeftOf(S, r[y]) => LeftOf(r2[n], r2[y])
      BY ONLY <1>5, <2>2
    <3>6. w \in A /\ LeftOf(r[w], S) => LeftOf(r2[w], r2[n])
      BY ONLY <1>4
    <3> QED
      BY ONLY <2>2, <3>1, <3>2, <3>3, <3>4, <3>5, <3>6, LeftOf(r2[pg], r2[n])
  <2>3. CASE x \in A /\ y = pg
    <3>1. LeftOf(r[x], S) \/ (z # AM_NULL_PAGE /\ (x = z \/ LeftOf(r[z], r[x])))
      <4>1. x # pg /\ x \in A
        BY ONLY <1>10, <2>3
      <4> QED
        BY ONLY <1>1, <1>7, <4>1, pg \in A
    <3>2. ASSUME z # AM_NULL_PAGE, x = z \/ LeftOf(r[z], r[x]) PROVE LeftOf(S, r[x])
      <4>1. z \in A /\ LeftOf(S, r[z])
        BY ONLY <1>1, <1>6, <3>2, pg \in A
      <4>2. r[z] \in SUBSET Int /\ r[z] # {} /\ S \in SUBSET Int /\ r[x] \in SUBSET Int
        BY ONLY <1>0, <1>1, <2>3, <4>1
      <4>3. ASSUME LeftOf(r[z], r[x]) PROVE LeftOf(S, r[x])
        BY ONLY <4>1, <4>2, <4>3, LeftOfLeft
      <4> QED
        BY ONLY <3>2, <4>1, <4>3
    <3>3. LeftOf(r[x], S) => LeftOf(r2[x], r2[y])
      BY ONLY <1>0, <1>1, <1>3, <2>3
    <3>4. LeftOf(S, r[x]) => LeftOf(r2[n], r2[x])
      BY ONLY <1>5, <2>3
    <3>5. P2[y].next = n
      BY <2>3
    <3> QED
      BY ONLY <3>1, <3>2, <3>3, <3>4, <3>5, n # AM_NULL_PAGE
  <2>4. CASE x = n /\ y = pg
    BY ONLY <2>4, P2[pg].next = n, n # AM_NULL_PAGE
  <2>5. CASE x \in A /\ x # pg /\ y = n
    <3>1. P2[y].next = z
      BY ONLY <1>1, <2>5, P2[n].next = P[pg].next
    <3>2. LeftOf(r[x], S) \/ (z # AM_NULL_PAGE /\ (x = z \/ LeftOf(r[z], r[x])))
      <4>1. x # pg /\ x \in A
        BY ONLY <2>5
      <4> QED
        BY ONLY <1>1, <1>7, <4>1, pg \in A
    <3>3. z # AM_NULL_PAGE => z \in A
      BY ONLY <1>1, <1>6, pg \in A
    <3> QED
      BY ONLY <1>3, <1>4, <2>5, <3>1, <3>2, <3>3
  <2>6. CASE x = pg /\ y = n
    BY ONLY <2>6, LeftOf(r2[pg], r2[n])
  <2> QED
    BY ONLY <1>10, <2>1, <2>2, <2>3, <2>4, <2>5, <2>6, x \in A \cup {n}, y \in A \cup {n}
<1> QED
  BY ONLY <1>6, <1>8, <1>9, <1>10 DEF Linked

(* One step of a search: from the page of e to the one below.              *)
Hop(P, h, e, below) ==
  /\ e.page \in DOMAIN P /\ h[e.page] = h[below] + 1
  /\ e.offset \in 0 .. Len(P[e.page].keys)
  /\ P[e.page].children[e.offset + 1] = below

LEMMA TreeIs ==
  ASSUME NEW P, NEW n, NEW h, NEW r, GoodTree(P, n, h, r)
  PROVE  /\ n \in Nat \ {0} /\ DOMAIN P = 0 .. n - 1 /\ DOMAIN h = 0 .. n - 1
         /\ Root \in 0 .. n - 1 /\ h[Root] < n /\ r[Root] = Int
         /\ \A pg \in 0 .. n - 1 :
              /\ h[pg] \in Nat /\ (pg # Root => h[pg] < h[Root]) /\ h[pg] <= h[Root]
              /\ r[pg] \in SUBSET Int /\ r[pg] # {}
              /\ GoodNode(P[pg], h[pg], r[pg], h, r)
              /\ IsLeaf(P[pg]) <=> h[pg] = 0
<1>1. /\ n \in Nat \ {0} /\ DOMAIN P = 0 .. n - 1 /\ h \in [0 .. n - 1 -> Nat] /\ h[Root] < n
      /\ \A pg \in 0 .. n - 1 : pg # Root => h[pg] < h[Root]
  BY DEF GoodTree, Heights
<1>2. /\ r[Root] = Int /\ r \in [0 .. n - 1 -> SUBSET Int]
      /\ \A pg \in 0 .. n - 1 : r[pg] # {}
  BY DEF GoodTree, RangesOf
<1>3. \A pg \in 0 .. n - 1 : GoodNode(P[pg], h[pg], r[pg], h, r)
  BY DEF GoodTree, NodesOf
<1>4. Root \in 0 .. n - 1
  BY ONLY <1>1 DEF Root
<1>5. \A pg \in 0 .. n - 1 : h[pg] \in Nat /\ r[pg] \in SUBSET Int
  BY ONLY <1>1, <1>2
<1>6. \A pg \in 0 .. n - 1 : IsLeaf(P[pg]) <=> h[pg] = 0
  BY ONLY <1>3, <1>5, WhichNode
<1>7. \A pg \in 0 .. n - 1 : h[pg] <= h[Root]
  BY ONLY <1>1, <1>4, <1>5
<1> QED
  BY ONLY <1>1, <1>2, <1>3, <1>4, <1>5, <1>6, <1>7

(* A page above another one is an internal node, whose range the other's   *)
(* is a part of.                                                           *)
LEMMA HopIs ==
  ASSUME NEW P, NEW n, NEW h, NEW r, GoodTree(P, n, h, r),
         NEW pg \in 0 .. n - 1, NEW e, Hop(P, h, e, pg)
  PROVE  /\ e.page \in 0 .. n - 1 /\ h[e.page] = h[pg] + 1 /\ h[e.page] # 0
         /\ InnerNode(P[e.page], h[e.page], r[e.page], h, r)
         /\ e.offset \in 0 .. Len(P[e.page].keys)
         /\ pg = P[e.page].children[e.offset + 1]
         /\ r[pg] \subseteq r[e.page]
<1>1. PICK q, keys, offset : q = e.page /\ keys = P[q].keys /\ offset = e.offset
  OBVIOUS
<1>2. /\ q \in 0 .. n - 1 /\ h[q] = h[pg] + 1 /\ offset \in 0 .. Len(keys)
      /\ pg = P[q].children[offset + 1]
  BY <1>1, TreeIs DEF Hop
<1>3. /\ h[q] \in Nat /\ h[pg] \in Nat /\ r[q] \in SUBSET Int
      /\ GoodNode(P[q], h[q], r[q], h, r)
  BY <1>2, TreeIs
<1>4. h[q] # 0
  BY ONLY <1>2, <1>3
<1>5. InnerNode(P[q], h[q], r[q], h, r)
  BY ONLY <1>3, <1>4, WhichNode
<1>6. /\ Separators(keys, r[q])
      /\ r[pg] = Part(keys, offset + 1, r[q])
  <2>1. Fans(keys, P[q].children, h[q], r[q], h, r)
    BY <1>1, <1>5 DEF InnerNode
  <2>2. Separators(keys, r[q])
    BY ONLY <2>1 DEF Fans
  <2>3. Len(keys) \in Nat
    BY ONLY <1>3, <2>2, KeysAreNumbers
  <2>4. offset + 1 \in 1 .. Len(keys) + 1
    BY ONLY <1>2, <2>3
  <2> QED
    BY ONLY <1>2, <2>1, <2>2, <2>4 DEF Fans
<1>7. r[pg] \subseteq r[q]
  BY ONLY <1>6 DEF Part
<1> QED
  BY ONLY <1>1, <1>2, <1>4, <1>5, <1>7

(* A leaf that changes, within its range.                                  *)
LEMMA LeafReplaced ==
  ASSUME NEW P, NEW n, NEW h, NEW r, GoodTree(P, n, h, r),
         NEW pg \in 0 .. n - 1, h[pg] = 0, NEW leaf, LeafNode(leaf, r[pg]),
         leaf.next = P[pg].next,
         NEW P2, P2 = [P EXCEPT ![pg] = leaf]
  PROVE  GoodTree(P2, n, h, r)
<1>1. /\ DOMAIN P = 0 .. n - 1
      /\ \A x \in 0 .. n - 1 : GoodNode(P[x], h[x], r[x], h, r)
  BY TreeIs
<1>2. DOMAIN P2 = 0 .. n - 1 /\ P2[pg] = leaf /\ \A x \in 0 .. n - 1 : x # pg => P2[x] = P[x]
  BY <1>1
<1>3. GoodNode(leaf, h[pg], r[pg], h, r)
  BY DEF GoodNode
<1>4. ASSUME NEW x \in 0 .. n - 1 PROVE GoodNode(P2[x], h[x], r[x], h, r)
  BY ONLY <1>1, <1>2, <1>3, x \in 0 .. n - 1
<1>5. NodesOf(P2, n, h, r)
  BY ONLY <1>4 DEF NodesOf
<1>6. Heights(P2, n, h)
  BY <1>2 DEF GoodTree, Heights
<1>7. RangesOf(n, h, r) /\ LinksOf(P, n, h, r)
  BY DEF GoodTree
<1>8. LinksOf(P2, n, h, r)
  <2>1. \A x \in LeavesOf(n, h) : P2[x].next = P[x].next /\ r[x] = r[x]
    BY ONLY <1>2, leaf.next = P[pg].next DEF LeavesOf
  <2> QED
    BY ONLY <1>7, <2>1, LinksKept
<1> QED
  BY ONLY <1>5, <1>6, <1>7, <1>8 DEF GoodTree

(* A page that is not the root is split, and its parent gets the separator *)
(* and the new page, which is the next one of the file.                    *)
SplitPages(P, P2, n, pg, lower, upper, e, sep) ==
  /\ DOMAIN P2 = 0 .. n
  /\ P2[pg] = lower /\ P2[n] = upper
  /\ P2[e.page] = AM_AddtoIntPage(P[e.page], sep, n, e.offset)
  /\ \A x \in 0 .. n - 1 : x # pg /\ x # e.page => P2[x] = P[x]

(* The halves of a leaf, the upper one of which is page n, are linked.     *)
HalvesLinked(P, H, pg, n, lower, upper) ==
  H = 0 => lower.next = n /\ upper.next = P[pg].next

LEMMA TreeSplit ==
  ASSUME NEW P, NEW n, NEW h, NEW r, GoodTree(P, n, h, r),
         NEW pg \in 0 .. n - 1, pg # Root,
         NEW sep \in Keys, sep \in Interior(r[pg]),
         NEW lower, GoodNode(lower, h[pg], Low(r[pg], sep), h, r),
         NEW upper, GoodNode(upper, h[pg], High(r[pg], sep), h, r),
         HalvesLinked(P, h[pg], pg, n, lower, upper),
         NEW e, Hop(P, h, e, pg),
         NEW P2, SplitPages(P, P2, n, pg, lower, upper, e, sep)
  PROVE  \E h2, r2 : /\ GoodTree(P2, n + 1, h2, r2)
                     /\ \A x \in 0 .. n - 1 : h2[x] = h[x]
<1>1. /\ n \in Nat \ {0} /\ DOMAIN P = 0 .. n - 1 /\ DOMAIN h = 0 .. n - 1
      /\ Root \in 0 .. n - 1 /\ h[Root] < n /\ r[Root] = Int
      /\ \A x \in 0 .. n - 1 : h[x] \in Nat /\ r[x] \in SUBSET Int /\ r[x] # {}
      /\ \A x \in 0 .. n - 1 : x # Root => h[x] < h[Root]
      /\ \A x \in 0 .. n - 1 : GoodNode(P[x], h[x], r[x], h, r)
  BY ONLY GoodTree(P, n, h, r), TreeIs
<1>2. \A p1, p2 \in 0 .. n - 1 : h[p1] = h[p2] /\ p1 # p2 => r[p1] \cap r[p2] = {}
  BY DEF GoodTree, RangesOf
<1>3. PICK q, offset, S, H : q = e.page /\ offset = e.offset /\ S = r[pg] /\ H = h[pg]
  OBVIOUS
<1>4. /\ q \in 0 .. n - 1 /\ h[q] = H + 1 /\ InnerNode(P[q], H + 1, r[q], h, r)
      /\ offset \in 0 .. Len(P[q].keys) /\ pg = P[q].children[offset + 1]
      /\ S \subseteq r[q]
  <2>1. /\ e.page \in 0 .. n - 1 /\ h[e.page] = h[pg] + 1
        /\ InnerNode(P[e.page], h[e.page], r[e.page], h, r)
        /\ e.offset \in 0 .. Len(P[e.page].keys)
        /\ pg = P[e.page].children[e.offset + 1]
        /\ r[pg] \subseteq r[e.page]
    BY ONLY GoodTree(P, n, h, r), pg \in 0 .. n - 1, Hop(P, h, e, pg), HopIs
  <2>2. InnerNode(P[e.page], h[pg] + 1, r[e.page], h, r)
    BY ONLY <2>1
  <2> QED
    BY ONLY <1>3, <2>1, <2>2
<1>5. S \in SUBSET Int /\ S # {} /\ H \in Nat /\ q # pg /\ n \notin 0 .. n - 1 /\ H < h[Root]
  <2>1. S \in SUBSET Int /\ S # {} /\ H \in Nat
    BY ONLY <1>1, <1>3, pg \in 0 .. n - 1
  <2>2. q # pg
    <3>1. h[q] = H + 1 /\ h[pg] = H
      BY <1>3, <1>4
    <3> QED
      BY ONLY <2>1, <3>1
  <2>3. n \notin 0 .. n - 1
    BY ONLY <1>1
  <2> QED
    BY ONLY <1>1, <1>3, <2>1, <2>2, <2>3, pg \in 0 .. n - 1, pg # Root
<1>6. /\ DOMAIN P2 = 0 .. n /\ P2[pg] = lower /\ P2[n] = upper
      /\ P2[q] = AM_AddtoIntPage(P[q], sep, n, offset)
      /\ \A x \in 0 .. n - 1 : x # pg /\ x # q => P2[x] = P[x]
  BY <1>3 DEF SplitPages
<1>7. \A x \in 0 .. n : x \in 0 .. n - 1 \/ x = n
  BY ONLY <1>1
<1>8. PICK h2 : h2 = [x \in 0 .. n |-> IF x = n THEN H ELSE h[x]]
  OBVIOUS
<1>9. PICK r2 : r2 = [x \in 0 .. n |-> IF x = n THEN High(S, sep)
                                      ELSE IF x = pg THEN Low(S, sep) ELSE r[x]]
  OBVIOUS
<1>10. 0 .. n - 1 \subseteq 0 .. n /\ n \in 0 .. n
  BY ONLY <1>1
<1>11. /\ DOMAIN h2 = 0 .. n /\ h2[n] = H /\ \A x \in 0 .. n - 1 : h2[x] = h[x]
       /\ r2[n] = High(S, sep) /\ r2[pg] = Low(S, sep)
       /\ \A x \in 0 .. n - 1 : x # pg => r2[x] = r[x]
  BY ONLY <1>5, <1>8, <1>9, <1>10, pg \in 0 .. n - 1
<1>12. ASSUME NEW x \in 0 .. n - 1, x # pg PROVE Same(h, r, h2, r2, x)
  BY ONLY <1>10, <1>11, <1>12, x \in 0 .. n - 1 DEF Same
<1>13. Low(S, sep) \subseteq S /\ High(S, sep) \subseteq S /\ Low(S, sep) # {} /\ High(S, sep) # {}
       /\ Low(S, sep) \cap High(S, sep) = {}
  <2>1. sep \in Int /\ sep \in S /\ \E u \in S : u < sep
    BY <1>3, LeafAssumption DEF Interior
  <2>2. PICK u \in S : u < sep
    BY ONLY <2>1
  <2>3. sep >= sep
    BY ONLY <2>1
  <2>4. \A v \in S : ~(v < sep /\ v >= sep)
    BY ONLY <1>5, <2>1
  <2> QED
    BY ONLY <2>1, <2>2, <2>3, <2>4 DEF Low, High
<1>14. Heights(P2, n + 1, h2)
  <2>1. (n + 1) - 1 = n /\ n + 1 \in Nat \ {0} /\ Root \in 0 .. n
    BY ONLY <1>1, <1>10
  <2>2. \A x \in 0 .. n : h2[x] \in Nat
    BY ONLY <1>1, <1>5, <1>7, <1>11
  <2>3. h2 = [x \in 0 .. n |-> h2[x]]
    BY ONLY <1>8, <1>11
  <2>4. h2 \in [0 .. n -> Nat]
    BY ONLY <2>2, <2>3
  <2>5. h2[Root] = h[Root] /\ h[Root] \in Nat
    BY ONLY <1>1, <1>11
  <2>6. h2[Root] < n + 1
    BY ONLY <1>1, <2>5
  <2>7. ASSUME NEW x \in 0 .. n, x # Root PROVE h2[x] < h2[Root]
    BY ONLY <1>1, <1>5, <1>7, <1>11, <2>5, <2>7, x \in 0 .. n
  <2> QED
    BY ONLY <1>6, <2>1, <2>4, <2>6, <2>7 DEF Heights
<1>15. RangesOf(n + 1, h2, r2)
  <2>1. (n + 1) - 1 = n
    BY ONLY <1>1
  <2>2. \A x \in 0 .. n : r2[x] \in SUBSET Int /\ r2[x] # {}
    BY ONLY <1>1, <1>5, <1>7, <1>11, <1>13
  <2>3. r2 = [x \in 0 .. n |-> r2[x]]
    <3>1. DOMAIN r2 = 0 .. n
      BY ONLY <1>9
    <3> QED
      BY ONLY <1>9, <3>1
  <2>4. r2 \in [0 .. n -> SUBSET Int]
    BY ONLY <2>2, <2>3
  <2>5. r2[Root] = Int
    BY ONLY <1>1, <1>11, pg # Root
  <2>6. PICK old : old = [x \in 0 .. n |-> IF x = n THEN pg ELSE x]
    OBVIOUS
  <2>7. ASSUME NEW x \in 0 .. n
        PROVE  old[x] \in 0 .. n - 1 /\ h2[x] = h[old[x]] /\ r2[x] \subseteq r[old[x]]
    <3>1. CASE x = n
      BY ONLY <1>3, <1>10, <1>11, <1>13, <2>6, <3>1, pg \in 0 .. n - 1
    <3>2. CASE x # n
      <4>1. x \in 0 .. n - 1 /\ old[x] = x
        BY ONLY <1>7, <2>6, <3>2, x \in 0 .. n
      <4> QED
        BY ONLY <1>3, <1>11, <1>13, <4>1
    <3> QED
      BY ONLY <3>1, <3>2
  <2>8. ASSUME NEW p1 \in 0 .. n, NEW p2 \in 0 .. n, h2[p1] = h2[p2], p1 # p2
        PROVE  r2[p1] \cap r2[p2] = {}
    <3>1. CASE old[p1] # old[p2]
      <4>1. r[old[p1]] \cap r[old[p2]] = {}
        BY ONLY <1>2, <2>7, <2>8, <3>1, p1 \in 0 .. n, p2 \in 0 .. n
      <4> QED
        BY ONLY <2>7, <4>1, p1 \in 0 .. n, p2 \in 0 .. n
    <3>2. CASE old[p1] = old[p2]
      <4>1. (p1 = n /\ p2 = pg) \/ (p1 = pg /\ p2 = n)
        BY ONLY <2>6, <2>8, <3>2, p1 \in 0 .. n, p2 \in 0 .. n
      <4> QED
        BY ONLY <1>11, <1>13, <4>1
    <3> QED
      BY ONLY <3>1, <3>2
  <2> QED
    BY ONLY <2>1, <2>2, <2>4, <2>5, <2>8 DEF RangesOf
<1>16. ASSUME NEW x \in 0 .. n PROVE GoodNode(P2[x], h2[x], r2[x], h2, r2)
  <2>1. ASSUME NEW node, NEW T \in SUBSET Int, GoodNode(node, H, T, h, r)
        PROVE  GoodNode(node, H, T, h2, r2)
    <3>1. ASSUME NEW y \in DOMAIN h, h[y] + 1 = H PROVE Same(h, r, h2, r2, y)
      <4>1. y \in 0 .. n - 1 /\ y # pg
        BY ONLY <1>1, <1>3, <1>5, <3>1, y \in DOMAIN h
      <4> QED
        BY ONLY <1>12, <4>1
    <3> QED
      BY ONLY <1>5, <2>1, <3>1, NodeKept
  <2>2. CASE x = n
    BY <1>3, <1>5, <1>6, <1>11, <1>13, <2>1, <2>2
  <2>3. CASE x = pg
    <3>1. h2[x] = H
      BY ONLY <1>3, <1>11, <2>3, pg \in 0 .. n - 1
    <3> QED
      BY <1>3, <1>5, <1>6, <1>11, <1>13, <2>1, <2>3, <3>1
  <2>4. CASE x = q
    <3>1. \A y \in DOMAIN h : y # pg => Same(h, r, h2, r2, y)
      BY ONLY <1>1, <1>12
    <3>2. /\ pg \in DOMAIN h2 /\ h2[pg] = h[pg] /\ r2[pg] = Low(r[pg], sep)
          /\ n \in DOMAIN h2 /\ h2[n] = h[pg] /\ r2[n] = High(r[pg], sep)
      BY ONLY <1>3, <1>10, <1>11, pg \in 0 .. n - 1
    <3>3. r[q] \in SUBSET Int /\ H + 1 \in Nat
      BY ONLY <1>1, <1>4, <1>5
    <3>4. InnerNode(AM_AddtoIntPage(P[q], sep, n, offset), H + 1, r[q], h2, r2)
      BY ONLY <1>4, <3>1, <3>2, <3>3, sep \in Keys, sep \in Interior(r[pg]), NodeWidened
    <3>5. h2[x] = H + 1 /\ r2[x] = r[q] /\ H + 1 # 0
      BY ONLY <1>4, <1>5, <1>11, <2>4
    <3> QED
      BY ONLY <1>6, <2>4, <3>4, <3>5 DEF GoodNode
  <2>5. CASE x # n /\ x # pg /\ x # q
    <3>1. x \in 0 .. n - 1 /\ P2[x] = P[x] /\ h2[x] = h[x] /\ r2[x] = r[x]
      BY ONLY <1>6, <1>7, <1>11, <2>5, x \in 0 .. n
    <3>2. ASSUME NEW y \in DOMAIN h, h[y] + 1 = h[x], r[y] \subseteq r[x]
          PROVE  Same(h, r, h2, r2, y)
      <4>1. \A z \in DOMAIN h : z # pg => Same(h, r, h2, r2, z)
        BY ONLY <1>1, <1>12
      <4>2. ASSUME y = pg PROVE FALSE
        <5>1. h[x] = h[q]
          BY ONLY <1>3, <1>4, <3>2, <4>2
        <5>2. r[x] \cap r[q] = {}
          BY ONLY <1>2, <1>4, <2>5, <3>1, <5>1
        <5> QED
          BY ONLY <1>3, <1>4, <1>5, <3>2, <4>2, <5>2
      <4> QED
        BY ONLY <4>1, <4>2, y \in DOMAIN h
    <3>3. GoodNode(P[x], h[x], r[x], h, r) /\ h[x] \in Nat /\ r[x] \in SUBSET Int
      BY ONLY <1>1, <3>1
    <3>4. GoodNode(P[x], h[x], r[x], h2, r2)
      BY ONLY <3>2, <3>3, NodeKept
    <3> QED
      BY ONLY <3>1, <3>4
  <2> QED
    BY ONLY <2>2, <2>3, <2>4, <2>5
<1>17. NodesOf(P2, n + 1, h2, r2)
  <2>1. (n + 1) - 1 = n
    BY ONLY <1>1
  <2> QED
    BY ONLY <1>16, <2>1 DEF NodesOf
<1>18. LinksOf(P2, n + 1, h2, r2)
  <2>1. LinksOf(P, n, h, r) /\ FirstLeaf(h2) = FirstLeaf(h)
    BY ONLY <1>1, <1>11, GoodTree(P, n, h, r) DEF GoodTree, FirstLeaf
  <2>2. LeavesOf(n + 1, h2) = IF H = 0 THEN LeavesOf(n, h) \cup {n} ELSE LeavesOf(n, h)
    <3>1. (n + 1) - 1 = n
      BY ONLY <1>1
    <3> QED
      BY ONLY <1>7, <1>10, <1>11, <3>1 DEF LeavesOf
  <2>3. \A x \in LeavesOf(n, h) : x \in 0 .. n - 1 /\ h[x] = 0
    BY ONLY DEF LeavesOf
  <2>4. CASE H = 0
    <3>1. PICK A, first : A = LeavesOf(n, h) /\ first = FirstLeaf(h)
      OBVIOUS
    <3>2. Linked(A, first, P, r) /\ pg \in A /\ n \notin A
      BY ONLY <1>3, <1>5, <2>1, <2>3, <2>4, <3>1, pg \in 0 .. n - 1 DEF LinksOf, LeavesOf
    <3>3. \A x \in A : r[x] \in SUBSET Int /\ r[x] # {}
      BY ONLY <1>1, <2>3, <3>1
    <3>4. P2[pg].next = n /\ P2[n].next = P[pg].next /\ n # AM_NULL_PAGE
      BY ONLY <1>1, <1>3, <1>6, <2>4, HalvesLinked(P, h[pg], pg, n, lower, upper)
         DEF HalvesLinked, AM_NULL_PAGE
    <3>5. ASSUME NEW x \in A, x # pg PROVE P2[x].next = P[x].next /\ r2[x] = r[x]
      <4>1. x \in 0 .. n - 1 /\ h[x] = 0 /\ x # q
        BY ONLY <1>4, <1>5, <2>3, <2>4, <3>1, x \in A
      <4> QED
        BY ONLY <1>6, <1>11, <3>5, <4>1
    <3>6. r2[pg] \subseteq r[pg] /\ r2[n] \subseteq r[pg]
      BY ONLY <1>3, <1>11, <1>13
    <3>7. LeftOf(r2[pg], r2[n])
      <4>1. ASSUME NEW u \in Low(S, sep), NEW v \in High(S, sep) PROVE u < v
        <5>1. sep \in Int
          BY LeafAssumption
        <5> QED
          BY ONLY <1>5, <5>1, u \in Low(S, sep), v \in High(S, sep) DEF Low, High
      <4> QED
        BY ONLY <1>11, <4>1 DEF LeftOf
    <3>8. \A x \in A : x # pg => P2[x].next = P[x].next /\ r2[x] = r[x]
      BY ONLY <3>5
    <3>9. NewLink(A, P, r, pg, n, P2, r2)
      BY ONLY <3>2, <3>3, <3>4, <3>6, <3>7, <3>8 DEF NewLink
    <3>10. Linked(A \cup {n}, first, P2, r2)
      BY ONLY <3>2, <3>9, LinksSplit
    <3> QED
      BY ONLY <2>1, <2>2, <2>4, <3>1, <3>10 DEF LinksOf
  <2>5. CASE H # 0
    <3>1. ASSUME NEW x \in LeavesOf(n, h) PROVE P2[x].next = P[x].next /\ r2[x] = r[x]
      <4>1. x \in 0 .. n - 1 /\ h[x] = 0
        BY ONLY <2>3, x \in LeavesOf(n, h)
      <4>2. h[pg] # 0 /\ h[q] # 0
        <5>1. h[pg] = H
          BY ONLY <1>3
        <5>2. h[q] = H + 1
          BY ONLY <1>4
        <5>3. H \in Nat
          BY ONLY <1>5
        <5> QED
          BY ONLY <2>5, <5>1, <5>2, <5>3
      <4>3. x # pg /\ x # q
        BY ONLY <4>1, <4>2
      <4> QED
        BY ONLY <1>6, <1>11, <4>1, <4>3
    <3> QED
      BY ONLY <2>1, <2>2, <2>5, <3>1, LinksKept
  <2> QED
    BY ONLY <2>4, <2>5
<1> QED
  BY ONLY <1>11, <1>14, <1>15, <1>17, <1>18 DEF GoodTree

(* The root is split: its lower side moves to the second of two new pages, *)
(* and the root is one higher, with two children.                          *)
LEMMA RootNode ==
  ASSUME NEW n \in Nat, NEW sep \in Keys, NEW h2, NEW r2, NEW H \in Nat,
         n \in DOMAIN h2, n + 1 \in DOMAIN h2, h2[n] = H, h2[n + 1] = H,
         r2[n + 1] = Low(Int, sep), r2[n] = High(Int, sep)
  PROVE  GoodNode(InternalNode(<<sep>>, <<n + 1, n>>), H + 1, Int, h2, r2)
<1>1. PICK keys, children : keys = <<sep>> /\ children = <<n + 1, n>>
  OBVIOUS
<1>2. /\ sep \in Int /\ keys \in Seq(Keys) /\ Len(keys) = 1 /\ keys[1] = sep /\ keys # <<>>
      /\ children \in Seq(DOMAIN h2) /\ Len(children) = 2
      /\ children[1] = n + 1 /\ children[2] = n
      /\ DOMAIN keys = {1}
  <2>1. sep \in Int
    BY LeafAssumption
  <2>2. keys \in Seq(Keys) /\ Len(keys) = 1 /\ keys[1] = sep /\ keys # <<>> /\ DOMAIN keys = {1}
    BY ONLY <1>1, sep \in Keys
  <2>3. /\ children \in Seq(DOMAIN h2) /\ Len(children) = 2
        /\ children[1] = n + 1 /\ children[2] = n
    BY ONLY <1>1, n \in DOMAIN h2, n + 1 \in DOMAIN h2
  <2> QED
    BY ONLY <2>1, <2>2, <2>3
<1>3. Separators(keys, Int)
  <2>1. sep - 1 \in Int /\ sep - 1 < sep
    BY ONLY <1>2
  <2>2. sep \in Interior(Int)
    BY ONLY <1>2, <2>1 DEF Interior
  <2>3. InOrder(keys)
    BY ONLY <1>2 DEF InOrder
  <2>4. \A i \in 1 .. Len(keys) : keys[i] \in Interior(Int)
    BY ONLY <1>2, <2>2
  <2> QED
    BY ONLY <1>2, <2>3, <2>4 DEF Separators
<1>4. Part(keys, 1, Int) = Low(Int, sep) /\ Part(keys, 2, Int) = High(Int, sep)
  <2>1. Part(keys, 1, Int) = {v \in Int : v < keys[1]}
    BY ONLY <1>2 DEF Part
  <2>2. Part(keys, 2, Int) = {v \in Int : keys[1] <= v}
    BY ONLY <1>2 DEF Part
  <2> QED
    BY ONLY <1>2, <2>1, <2>2 DEF Low, High
<1>5. Fans(keys, children, H + 1, Int, h2, r2)
  <2>1. Len(children) = Len(keys) + 1
    BY ONLY <1>2
  <2>2. ASSUME NEW i \in 1 .. Len(keys) + 1
        PROVE  h2[children[i]] + 1 = H + 1 /\ r2[children[i]] = Part(keys, i, Int)
    <3>1. i = 1 \/ i = 2
      BY ONLY <1>2, i \in 1 .. Len(keys) + 1
    <3> QED
      BY <1>2, <1>4, <3>1
  <2> QED
    BY ONLY <1>2, <1>3, <2>1, <2>2 DEF Fans
<1>6. H + 1 # 0
  OBVIOUS
<1> QED
  BY ONLY <1>1, <1>5, <1>6, InternalIs DEF GoodNode, InnerNode

Raised(P, P2, n, lower, upper, sep) ==
  /\ DOMAIN P2 = 0 .. n + 1
  /\ P2[Root] = InternalNode(<<sep>>, <<n + 1, n>>)
  /\ P2[n] = upper /\ P2[n + 1] = lower
  /\ \A x \in 0 .. n - 1 : x # Root => P2[x] = P[x]

LEMMA RootIsSplit ==
  ASSUME NEW P, NEW n, NEW h, NEW r, GoodTree(P, n, h, r), NEW sep \in Keys,
         NEW lower, GoodNode(lower, h[Root], Low(Int, sep), h, r),
         NEW upper, GoodNode(upper, h[Root], High(Int, sep), h, r),
         HalvesLinked(P, h[Root], Root, n, lower, upper),
         NEW P2, Raised(P, P2, n, lower, upper, sep)
  PROVE  \E h2, r2 : GoodTree(P2, n + 2, h2, r2)
<1>1. /\ n \in Nat \ {0} /\ DOMAIN P = 0 .. n - 1 /\ DOMAIN h = 0 .. n - 1
      /\ Root \in 0 .. n - 1 /\ h[Root] < n /\ r[Root] = Int
      /\ \A x \in 0 .. n - 1 : h[x] \in Nat /\ r[x] \in SUBSET Int /\ r[x] # {}
      /\ \A x \in 0 .. n - 1 : x # Root => h[x] < h[Root]
      /\ \A x \in 0 .. n - 1 : GoodNode(P[x], h[x], r[x], h, r)
  BY ONLY GoodTree(P, n, h, r), TreeIs
<1>2. \A p1, p2 \in 0 .. n - 1 : h[p1] = h[p2] /\ p1 # p2 => r[p1] \cap r[p2] = {}
  BY DEF GoodTree, RangesOf
<1>3. PICK H : H = h[Root]
  OBVIOUS
<1>4. H \in Nat /\ sep \in Int
  BY <1>1, <1>3, LeafAssumption
<1>5. /\ DOMAIN P2 = 0 .. n + 1 /\ P2[Root] = InternalNode(<<sep>>, <<n + 1, n>>)
      /\ P2[n] = upper /\ P2[n + 1] = lower
      /\ \A x \in 0 .. n - 1 : x # Root => P2[x] = P[x]
  BY DEF Raised
<1>6. /\ \A x \in 0 .. n + 1 : x \in 0 .. n - 1 \/ x = n \/ x = n + 1
      /\ n \in 0 .. n + 1 /\ n + 1 \in 0 .. n + 1 /\ n # n + 1
      /\ n \notin 0 .. n - 1 /\ n + 1 \notin 0 .. n - 1
      /\ 0 .. n - 1 \subseteq 0 .. n + 1
  BY ONLY <1>1
<1>7. PICK h2 : h2 = [x \in 0 .. n + 1 |-> IF x = Root THEN H + 1
                                          ELSE IF x \in {n, n + 1} THEN H ELSE h[x]]
  OBVIOUS
<1>8. PICK r2 : r2 = [x \in 0 .. n + 1 |-> IF x = n THEN High(Int, sep)
                                          ELSE IF x = n + 1 THEN Low(Int, sep) ELSE r[x]]
  OBVIOUS
<1>9. /\ DOMAIN h2 = 0 .. n + 1 /\ h2[Root] = H + 1 /\ h2[n] = H /\ h2[n + 1] = H
      /\ \A x \in 0 .. n - 1 : x # Root => h2[x] = h[x]
      /\ r2[n] = High(Int, sep) /\ r2[n + 1] = Low(Int, sep)
      /\ \A x \in 0 .. n - 1 : r2[x] = r[x]
  <2>1. Root # n /\ Root # n + 1 /\ Root \in 0 .. n + 1
    BY ONLY <1>1, <1>6
  <2> QED
    BY ONLY <1>6, <1>7, <1>8, <2>1
<1>10. ASSUME NEW x \in 0 .. n - 1, x # Root PROVE Same(h, r, h2, r2, x)
  BY ONLY <1>6, <1>9, <1>10, x \in 0 .. n - 1 DEF Same
<1>11. /\ Low(Int, sep) \in SUBSET Int /\ Low(Int, sep) # {}
       /\ High(Int, sep) \in SUBSET Int /\ High(Int, sep) # {}
       /\ Low(Int, sep) \cap High(Int, sep) = {}
  <2>1. sep - 1 \in Int /\ sep - 1 < sep /\ sep >= sep
    BY ONLY <1>4
  <2>2. \A v \in Int : ~(v < sep /\ v >= sep)
    BY ONLY <1>4
  <2> QED
    BY ONLY <1>4, <2>1, <2>2 DEF Low, High
<1>12. (n + 2) - 1 = n + 1 /\ n + 2 \in Nat \ {0}
  BY ONLY <1>1
<1>13. Heights(P2, n + 2, h2)
  <2>1. ASSUME NEW x \in 0 .. n + 1 PROVE h2[x] \in Nat
    <3>1. CASE x = n \/ x = n + 1 \/ x = Root
      BY ONLY <1>4, <1>9, <3>1
    <3>2. CASE x \in 0 .. n - 1 /\ x # Root
      BY ONLY <1>1, <1>9, <3>2
    <3> QED
      BY ONLY <1>6, <3>1, <3>2, x \in 0 .. n + 1
  <2>2. h2 = [x \in 0 .. n + 1 |-> h2[x]]
    BY ONLY <1>7, <1>9
  <2>3. h2 \in [0 .. n + 1 -> Nat]
    BY ONLY <2>1, <2>2
  <2>4. h2[Root] < n + 2
    BY ONLY <1>1, <1>3, <1>4, <1>9
  <2>5. ASSUME NEW x \in 0 .. n + 1, x # Root PROVE h2[x] < h2[Root]
    <3>1. CASE x = n \/ x = n + 1
      BY ONLY <1>4, <1>9, <3>1
    <3>2. CASE x \in 0 .. n - 1
      <4>1. h2[x] = h[x] /\ h[x] < H /\ h[x] \in Nat
        BY ONLY <1>1, <1>3, <1>9, <2>5, <3>2
      <4> QED
        BY ONLY <1>4, <1>9, <4>1
    <3> QED
      BY ONLY <1>6, <3>1, <3>2, x \in 0 .. n + 1
  <2> QED
    BY ONLY <1>5, <1>12, <2>3, <2>4, <2>5 DEF Heights
<1>14. RangesOf(n + 2, h2, r2)
  <2>1. \A x \in 0 .. n + 1 : r2[x] \in SUBSET Int /\ r2[x] # {}
    BY ONLY <1>1, <1>6, <1>9, <1>11
  <2>2. r2 = [x \in 0 .. n + 1 |-> r2[x]]
    <3>1. DOMAIN r2 = 0 .. n + 1
      BY ONLY <1>8
    <3> QED
      BY ONLY <1>8, <3>1
  <2>3. r2 \in [0 .. n + 1 -> SUBSET Int]
    BY ONLY <2>1, <2>2
  <2>4. r2[Root] = Int
    BY ONLY <1>1, <1>9
  <2>5. ASSUME NEW x \in 0 .. n + 1 PROVE h2[x] # H => x \in 0 .. n - 1
    BY ONLY <1>6, <1>9, x \in 0 .. n + 1
  <2>6. ASSUME NEW x \in 0 .. n + 1, h2[x] = H PROVE x = n \/ x = n + 1
    <3>1. ASSUME x \in 0 .. n - 1 PROVE FALSE
      <4>1. x # Root
        BY ONLY <1>4, <1>9, <2>6
      <4>2. h[x] < H /\ h[x] = H /\ h[x] \in Nat
        BY ONLY <1>1, <1>3, <1>9, <2>6, <3>1, <4>1
      <4> QED
        BY ONLY <1>4, <4>2
    <3> QED
      BY ONLY <1>6, <3>1, x \in 0 .. n + 1
  <2>7. ASSUME NEW p1 \in 0 .. n + 1, NEW p2 \in 0 .. n + 1, h2[p1] = h2[p2], p1 # p2
        PROVE  r2[p1] \cap r2[p2] = {}
    <3>1. CASE h2[p1] = H
      BY ONLY <1>9, <1>11, <2>6, <2>7, <3>1, p1 \in 0 .. n + 1, p2 \in 0 .. n + 1
    <3>2. CASE h2[p1] # H
      <4>1. p1 \in 0 .. n - 1 /\ p2 \in 0 .. n - 1
        BY ONLY <2>5, <2>7, <3>2, p1 \in 0 .. n + 1, p2 \in 0 .. n + 1
      <4>2. CASE p1 = Root
        <5>1. h2[p2] = h[p2] /\ h[p2] < H /\ h2[p2] = H + 1 /\ h[p2] \in Nat
          BY ONLY <1>1, <1>3, <1>9, <2>7, <4>1, <4>2
        <5> QED
          BY ONLY <1>4, <5>1
      <4>3. CASE p2 = Root
        <5>1. h2[p1] = h[p1] /\ h[p1] < H /\ h2[p1] = H + 1 /\ h[p1] \in Nat
          BY ONLY <1>1, <1>3, <1>9, <2>7, <4>1, <4>3
        <5> QED
          BY ONLY <1>4, <5>1
      <4>4. CASE p1 # Root /\ p2 # Root
        <5>1. h[p1] = h[p2]
          BY ONLY <1>9, <2>7, <4>1, <4>4
        <5>2. r[p1] \cap r[p2] = {}
          BY ONLY <1>2, <2>7, <4>1, <5>1
        <5> QED
          BY ONLY <1>9, <4>1, <5>2
      <4> QED
        BY ONLY <4>2, <4>3, <4>4
    <3> QED
      BY ONLY <3>1, <3>2
  <2> QED
    BY ONLY <1>12, <2>1, <2>3, <2>4, <2>7 DEF RangesOf
<1>15. ASSUME NEW x \in 0 .. n + 1 PROVE GoodNode(P2[x], h2[x], r2[x], h2, r2)
  <2>1. ASSUME NEW node, NEW m \in Nat, m <= H, NEW T \in SUBSET Int, GoodNode(node, m, T, h, r)
        PROVE  GoodNode(node, m, T, h2, r2)
    <3>1. ASSUME NEW y \in DOMAIN h, h[y] + 1 = m PROVE Same(h, r, h2, r2, y)
      <4>1. y \in 0 .. n - 1 /\ y # Root
        BY ONLY <1>1, <1>3, <1>4, <2>1, <3>1, m \in Nat, y \in DOMAIN h
      <4> QED
        BY ONLY <1>10, <4>1
    <3> QED
      BY ONLY <2>1, <3>1, m \in Nat, T \in SUBSET Int, NodeKept
  <2>2. CASE x = n
    BY <1>3, <1>4, <1>5, <1>9, <1>11, <2>1, <2>2
  <2>3. CASE x = n + 1
    BY <1>3, <1>4, <1>5, <1>9, <1>11, <2>1, <2>3
  <2>4. CASE x = Root
    <3>1. GoodNode(InternalNode(<<sep>>, <<n + 1, n>>), H + 1, Int, h2, r2)
      BY ONLY <1>1, <1>4, <1>6, <1>9, sep \in Keys, RootNode
    <3>2. h2[x] = H + 1 /\ r2[x] = Int /\ P2[x] = InternalNode(<<sep>>, <<n + 1, n>>)
      BY ONLY <1>1, <1>5, <1>9, <2>4
    <3> QED
      BY ONLY <3>1, <3>2
  <2>5. CASE x \in 0 .. n - 1 /\ x # Root
    <3>1. P2[x] = P[x] /\ h2[x] = h[x] /\ r2[x] = r[x]
      BY ONLY <1>5, <1>9, <2>5
    <3>2. h[x] \in Nat /\ h[x] <= H /\ r[x] \in SUBSET Int /\ GoodNode(P[x], h[x], r[x], h, r)
      BY ONLY <1>1, <1>3, <1>4, <2>5
    <3> QED
      BY ONLY <2>1, <3>1, <3>2
  <2> QED
    BY ONLY <1>6, <2>2, <2>3, <2>4, <2>5, x \in 0 .. n + 1
<1>16. NodesOf(P2, n + 2, h2, r2)
  BY ONLY <1>12, <1>15 DEF NodesOf
<1>17. LinksOf(P2, n + 2, h2, r2)
  <2>1. LinksOf(P, n, h, r)
    BY ONLY GoodTree(P, n, h, r) DEF GoodTree
  <2>2. \A x \in LeavesOf(n, h) : x \in 0 .. n - 1 /\ h[x] = 0
    BY ONLY DEF LeavesOf
  <2>3. \A x \in LeavesOf(n + 2, h2) : x \in 0 .. n + 1 /\ h2[x] = 0
    BY ONLY <1>12 DEF LeavesOf
  <2>4. FirstLeaf(h2) = 2
    BY ONLY <1>4, <1>9 DEF FirstLeaf
  <2>5. CASE H # 0
    <3>1. LeavesOf(n + 2, h2) = LeavesOf(n, h)
      <4>1. ASSUME NEW x \in 0 .. n - 1 PROVE h2[x] = 0 <=> h[x] = 0
        BY ONLY <1>3, <1>4, <1>9, <2>5, x \in 0 .. n - 1
      <4> QED
        BY ONLY <1>6, <1>9, <1>12, <2>5, <4>1 DEF LeavesOf
    <3>2. FirstLeaf(h) = 2
      BY ONLY <1>3, <2>5 DEF FirstLeaf
    <3>3. ASSUME NEW x \in LeavesOf(n, h) PROVE P2[x].next = P[x].next /\ r2[x] = r[x]
      <4>1. x \in 0 .. n - 1 /\ x # Root
        BY ONLY <1>3, <2>2, <2>5, x \in LeavesOf(n, h)
      <4> QED
        BY ONLY <1>5, <1>9, <4>1
    <3> QED
      BY ONLY <2>1, <2>4, <3>1, <3>2, <3>3, LinksKept
  <2>6. CASE H = 0
    <3>1. n = 1
      <4>1. ASSUME n # 1 PROVE FALSE
        <5>1. 1 \in 0 .. n - 1 /\ 1 # Root
          BY ONLY <1>1, <4>1 DEF Root
        <5>2. h[1] < 0 /\ h[1] \in Nat
          BY ONLY <1>1, <1>3, <2>6, <5>1
        <5> QED
          BY ONLY <5>2
      <4> QED
        BY ONLY <4>1
    <3>2. LeavesOf(n, h) = {Root} /\ Root = 0
      <4>1. 0 .. n - 1 = {0} /\ h[0] = 0
        BY ONLY <1>3, <2>6, <3>1 DEF Root
      <4> QED
        BY ONLY <4>1 DEF LeavesOf, Root
    <3>3. P[Root].next = AM_NULL_PAGE
      <4>1. Linked({Root}, Root, P, r)
        BY ONLY <1>3, <2>1, <2>6, <3>2 DEF LinksOf, FirstLeaf
      <4>2. P[Root].next # AM_NULL_PAGE => P[Root].next = Root /\ LeftOf(r[Root], r[Root])
        BY ONLY <4>1 DEF Linked
      <4>3. ~LeftOf(r[Root], r[Root])
        <5>1. LeftOf(Int, Int) => 0 < 0
          BY ONLY DEF LeftOf
        <5> QED
          BY ONLY <1>1, <5>1
      <4> QED
        BY ONLY <4>2, <4>3
    <3>4. LeavesOf(n + 2, h2) = {1, 2}
      <4>1. h2[0] # 0 /\ h2[1] = 0 /\ h2[2] = 0
        BY ONLY <1>4, <1>9, <2>6, <3>1, <3>2
      <4>2. 0 .. (n + 2) - 1 = {0, 1, 2}
        BY ONLY <3>1
      <4> QED
        BY ONLY <4>1, <4>2 DEF LeavesOf
    <3>5. P2[1].next = AM_NULL_PAGE /\ P2[2].next = 1 /\ r2[1] = High(Int, sep) /\ r2[2] = Low(Int, sep)
      BY ONLY <1>3, <1>5, <1>9, <2>6, <3>1, <3>3,
              HalvesLinked(P, h[Root], Root, n, lower, upper) DEF HalvesLinked
    <3>6. LeftOf(r2[2], r2[1])
      <4>1. ASSUME NEW u \in Low(Int, sep), NEW v \in High(Int, sep) PROVE u < v
        BY ONLY <1>4, u \in Low(Int, sep), v \in High(Int, sep) DEF Low, High
      <4> QED
        BY ONLY <3>5, <4>1 DEF LeftOf
    <3>7. 1 # AM_NULL_PAGE
      BY DEF AM_NULL_PAGE
    <3>8. Linked({1, 2}, 2, P2, r2)
      BY ONLY <3>5, <3>6, <3>7 DEF Linked
    <3> QED
      BY ONLY <2>4, <3>4, <3>8 DEF LinksOf
  <2> QED
    BY ONLY <2>5, <2>6
<1> QED
  BY ONLY <1>13, <1>14, <1>16, <1>17 DEF GoodTree

-----------------------------------------------------------------------------
(***************************************************************************)
(* The search.                                                             *)
(***************************************************************************)
StepsOf(P) == [page : DOMAIN P, offset : Nat]

(* The page that step i of a stack leads to, if the last leads to target.  *)
After(st, i, target) == IF i = Len(st) THEN target ELSE st[i + 1].page

TrailStep(P, h, st, i, target) ==
  /\ Hop(P, h, st[i], After(st, i, target))
  /\ h[st[i].page] = h[target] + (Len(st) + 1 - i)

(* The top of the stack is the way from the root to target.  What is below *)
(* it was left there by calls before.                                      *)
Trail(P, h, st, target) ==
  /\ st \in Seq(StepsOf(P))
  /\ h[Root] - h[target] <= Len(st)
  /\ \A i \in 1 .. Len(st) :
       i > Len(st) - (h[Root] - h[target]) => TrailStep(P, h, st, i, target)

LEMMA TrailTop ==
  ASSUME NEW P, NEW n, NEW h, NEW r, GoodTree(P, n, h, r),
         NEW st, NEW target \in 0 .. n - 1, target # Root, Trail(P, h, st, target)
  PROVE  /\ st # <<>> /\ Last(st) \in StepsOf(P) /\ Last(st).page \in 0 .. n - 1
         /\ Front(st) \in Seq(StepsOf(P))
         /\ Hop(P, h, Last(st), target)
         /\ Trail(P, h, Front(st), Last(st).page)
<1>1. PICK len, top, q, rest : len = Len(st) /\ top = Last(st) /\ q = top.page /\ rest = Front(st)
  OBVIOUS
<1>2. PICK R, H, S : R = h[Root] /\ H = h[target] /\ S = StepsOf(P)
  OBVIOUS
<1>3. R \in Nat /\ H \in Nat /\ H < R
  <2>1. h[Root] \in Nat /\ h[target] \in Nat /\ h[target] < h[Root]
    BY ONLY GoodTree(P, n, h, r), target \in 0 .. n - 1, target # Root, TreeIs
  <2> QED
    BY ONLY <1>2, <2>1
<1>4. /\ st \in Seq(S) /\ R - H <= len /\ len = Len(st) /\ len \in Nat
      /\ \A i \in 1 .. len : i > len - (R - H) => TrailStep(P, h, st, i, target)
  BY <1>1, <1>2 DEF Trail
<1>5. len >= 1 /\ len \in 1 .. len /\ len > len - (R - H)
  BY ONLY <1>3, <1>4
<1>6. /\ st # <<>> /\ top = st[len] /\ top \in S
      /\ rest \in Seq(S) /\ Len(rest) = len - 1 /\ \A i \in 1 .. len - 1 : rest[i] = st[i]
  <2>1. rest = SubSeq(st, 1, len - 1) /\ top = st[len]
    BY <1>1 DEF Front, Last
  <2>2. st # <<>> /\ st[len] \in S
    BY ONLY <1>4, <1>5
  <2>3. PICK none, less : none = 0 /\ less = len - 1
    OBVIOUS
  <2>4. /\ none \in Nat /\ less \in Nat /\ none + less <= Len(st) /\ 1 = none + 1 /\ less = none + less
        /\ \A i \in 1 .. less : none + i = i
    BY ONLY <1>4, <1>5, <2>3
  <2>5. rest = SubSeq(st, 1, less)
    BY ONLY <2>1, <2>3
  <2>6. rest \in Seq(S) /\ IsPart(st, none, less, rest)
    BY ONLY <1>4, <2>4, <2>5, PartFrom
  <2> QED
    BY ONLY <2>1, <2>2, <2>3, <2>4, <2>6 DEF IsPart
<1>7. Hop(P, h, top, target)
  <2>1. TrailStep(P, h, st, len, target)
    BY ONLY <1>4, <1>5
  <2> QED
    BY ONLY <1>4, <1>6, <2>1 DEF TrailStep, After
<1>8. q \in 0 .. n - 1 /\ h[q] = H + 1
  BY ONLY <1>1, <1>2, <1>7, GoodTree(P, n, h, r), target \in 0 .. n - 1, HopIs
<1>9. Trail(P, h, rest, q)
  <2>1. R - (H + 1) <= len - 1 /\ len - 1 \in Nat
    BY ONLY <1>3, <1>4, <1>5
  <2>2. ASSUME NEW i \in 1 .. len - 1, i > (len - 1) - (R - (H + 1))
        PROVE  TrailStep(P, h, rest, i, q)
    <3>1. /\ i \in 1 .. len /\ i > len - (R - H) /\ i # len
          /\ i = len - 1 <=> i + 1 = len
          /\ i # len - 1 => i + 1 \in 1 .. len - 1
          /\ H + (len + 1 - i) = (H + 1) + ((len - 1) + 1 - i)
      BY ONLY <1>3, <1>4, <2>2, i \in 1 .. len - 1
    <3>2. TrailStep(P, h, st, i, target)
      BY ONLY <1>4, <3>1
    <3>3. rest[i] = st[i] /\ After(st, i, target) = st[i + 1].page
      BY ONLY <1>4, <1>6, <3>1, i \in 1 .. len - 1 DEF After
    <3>4. After(rest, i, q) = st[i + 1].page
      BY ONLY <1>1, <1>6, <3>1 DEF After
    <3>5. Hop(P, h, rest[i], After(rest, i, q))
      BY ONLY <3>2, <3>3, <3>4 DEF TrailStep
    <3>6. h[rest[i].page] = h[q] + (Len(rest) + 1 - i)
      BY ONLY <1>2, <1>4, <1>6, <1>8, <3>1, <3>2, <3>3 DEF TrailStep
    <3> QED
      BY ONLY <3>5, <3>6 DEF TrailStep
  <2> QED
    BY ONLY <1>2, <1>6, <1>8, <2>1, <2>2 DEF Trail
<1> QED
  BY ONLY <1>1, <1>2, <1>6, <1>7, <1>8, <1>9

(* A trail remains one as long as the pages above its target do not        *)
(* change.                                                                 *)
LEMMA TrailKept ==
  ASSUME NEW P, NEW n, NEW h, NEW r, GoodTree(P, n, h, r),
         NEW st, NEW target \in 0 .. n - 1, Trail(P, h, st, target),
         NEW P2, NEW h2, DOMAIN P \subseteq DOMAIN P2,
         \A x \in 0 .. n - 1 : h2[x] = h[x],
         \A x \in 0 .. n - 1 : h[x] > h[target] => P2[x] = P[x]
  PROVE  Trail(P2, h2, st, target)
<1>1. /\ DOMAIN P = 0 .. n - 1 /\ Root \in 0 .. n - 1
      /\ \A x \in 0 .. n - 1 : h[x] \in Nat
  BY ONLY GoodTree(P, n, h, r), TreeIs
<1>2. PICK len, R, H : len = Len(st) /\ R = h[Root] /\ H = h[target]
  OBVIOUS
<1>3. /\ st \in Seq(StepsOf(P)) /\ R - H <= len /\ len = Len(st) /\ len \in Nat
      /\ \A i \in 1 .. len : i > len - (R - H) => TrailStep(P, h, st, i, target)
  BY <1>2 DEF Trail
<1>4. h2[Root] = R /\ h2[target] = H
  BY ONLY <1>1, <1>2, target \in 0 .. n - 1, \A x \in 0 .. n - 1 : h2[x] = h[x]
<1>5. \A i \in 1 .. len : st[i] \in StepsOf(P)
  BY ONLY <1>3
<1>6. st \in Seq(StepsOf(P2))
  <2>1. \A e \in StepsOf(P) : e \in StepsOf(P2)
    BY DEF StepsOf
  <2>2. st = [i \in 1 .. len |-> st[i]]
    BY ONLY <1>3
  <2>3. st \in [1 .. len -> StepsOf(P2)]
    BY ONLY <1>5, <2>1, <2>2
  <2> QED
    BY ONLY <1>3, <2>3
<1>7. ASSUME NEW i \in 1 .. len, i > len - (R - H)
      PROVE  TrailStep(P2, h2, st, i, target)
  <2>1. TrailStep(P, h, st, i, target)
    BY ONLY <1>3, <1>7, i \in 1 .. len
  <2>2. PICK e, below : e = st[i] /\ below = After(st, i, target)
    OBVIOUS
  <2>3. Hop(P, h, e, below) /\ h[e.page] = H + (len + 1 - i)
    BY ONLY <1>2, <2>1, <2>2 DEF TrailStep
  <2>4. e.page \in 0 .. n - 1 /\ below \in 0 .. n - 1
    <3>1. e.page \in 0 .. n - 1
      BY ONLY <1>1, <1>5, <2>2, i \in 1 .. len DEF StepsOf
    <3>2. CASE i = len
      BY ONLY <1>3, <2>2, <3>1, <3>2, target \in 0 .. n - 1 DEF After
    <3>3. CASE i # len
      <4>1. i + 1 \in 1 .. len
        BY ONLY <1>3, <3>3, i \in 1 .. len
      <4>2. below = st[i + 1].page
        BY ONLY <1>3, <2>2, <3>3 DEF After
      <4> QED
        BY ONLY <1>1, <1>5, <3>1, <4>1, <4>2 DEF StepsOf
    <3> QED
      BY ONLY <3>2, <3>3
  <2>5. h[e.page] > H
    <3>1. H \in Nat /\ h[e.page] \in Nat
      BY ONLY <1>1, <1>2, <2>4, target \in 0 .. n - 1
    <3> QED
      BY ONLY <1>3, <2>3, <3>1, i \in 1 .. len
  <2>6. P2[e.page] = P[e.page] /\ h2[e.page] = h[e.page] /\ h2[below] = h[below]
    BY <1>2, <2>4, <2>5
  <2>7. e.page \in DOMAIN P2
    BY <1>1, <2>4
  <2>8. Hop(P2, h2, e, below)
    BY ONLY <2>3, <2>6, <2>7 DEF Hop
  <2> QED
    BY ONLY <1>3, <1>4, <2>2, <2>3, <2>6, <2>8 DEF TrailStep
<1> QED
  BY ONLY <1>3, <1>4, <1>6, <1>7 DEF Trail

(* The paths that the search for a key goes.                               *)
Leads(path, h, r, key) ==
  /\ path \in Seq(StepsOf(page))
  /\ LeafAt(path) \in DOMAIN page /\ key \in r[LeafAt(path)]
  /\ h[LeafAt(path)] + Len(path) = h[Root]
  /\ \A i \in 1 .. Len(path) : TrailStep(page, h, path, i, LeafAt(path))

StepFrom(pg, key) == [page |-> pg, offset |-> AM_BinSearch(page[pg], key)]
Down(path, key) == Append(path, StepFrom(LeafAt(path), key))

LEMMA DownLeads ==
  ASSUME NEW n, NEW h, NEW r, GoodTree(page, n, h, r), NEW key \in Keys,
         NEW path, Leads(path, h, r, key),
         h[LeafAt(path)] # 0
  PROVE  Leads(Down(path, key), h, r, key) /\ Len(Down(path, key)) = Len(path) + 1
<1>0. PICK pg, new : pg = LeafAt(path) /\ h[pg] # 0 /\ new = Append(path, StepFrom(pg, key))
  OBVIOUS
<1>1. PICK len, H, node, keys, offset, c, step :
        /\ step = StepFrom(pg, key)
        /\ len = Len(path) /\ H = h[pg] /\ node = page[pg] /\ keys = node.keys
        /\ offset = AM_BinSearch(node, key) /\ c = node.children[offset + 1]
  OBVIOUS
<1>2. /\ path \in Seq(StepsOf(page)) /\ len \in Nat /\ len = Len(path)
      /\ pg \in DOMAIN page /\ key \in r[pg] /\ H + len = h[Root]
      /\ \A i \in 1 .. len : TrailStep(page, h, path, i, pg)
  BY <1>0, <1>1 DEF Leads
<1>3. /\ DOMAIN page = 0 .. n - 1 /\ DOMAIN h = 0 .. n - 1
      /\ \A x \in 0 .. n - 1 : h[x] \in Nat /\ r[x] \in SUBSET Int
      /\ \A x \in 0 .. n - 1 : GoodNode(page[x], h[x], r[x], h, r)
  BY ONLY GoodTree(page, n, h, r), TreeIs
<1>4. H \in Nat /\ H # 0 /\ r[pg] \in SUBSET Int /\ GoodNode(node, H, r[pg], h, r)
  BY <1>0, <1>1, <1>2, <1>3
<1>5. InnerNode(node, H, r[pg], h, r)
  BY ONLY <1>4, WhichNode
<1>6. Fans(keys, node.children, H, r[pg], h, r)
  BY ONLY <1>1, <1>5 DEF InnerNode
<1>7. /\ Separators(keys, r[pg])
      /\ node.children \in Seq(DOMAIN h) /\ Len(node.children) = Len(keys) + 1
      /\ \A i \in 1 .. Len(keys) + 1 :
           h[node.children[i]] + 1 = H /\ r[node.children[i]] = Part(keys, i, r[pg])
  BY ONLY <1>6 DEF Fans
<1>8. offset \in 0 .. Len(keys) /\ key \in Part(keys, offset + 1, r[pg])
  <2>1. offset = ChildAmong(keys, Narrowed(keys, key), key)
    BY <1>1 DEF AM_BinSearch, ChildAmong
  <2> QED
    BY ONLY <1>2, <1>4, <1>7, <2>1, PartFound
<1>9. c \in 0 .. n - 1 /\ h[c] + 1 = H /\ key \in r[c] /\ h[c] \in Nat
  <2>1. Len(keys) \in Nat
    BY ONLY <1>4, <1>7, KeysAreNumbers
  <2>2. offset + 1 \in 1 .. Len(keys) + 1 /\ offset + 1 \in 1 .. Len(node.children)
    BY ONLY <1>7, <1>8, <2>1
  <2>3. c \in DOMAIN h
    BY ONLY <1>1, <1>7, <2>2
  <2> QED
    BY ONLY <1>1, <1>3, <1>7, <1>8, <2>2, <2>3
<1>10. step \in StepsOf(page) /\ step.page = pg /\ step.offset = offset
  <2>1. offset \in Nat
    BY ONLY <1>8
  <2>2. step = [page |-> pg, offset |-> offset]
    BY <1>1 DEF StepFrom
  <2> QED
    BY ONLY <1>2, <2>1, <2>2 DEF StepsOf
<1>11. /\ new \in Seq(StepsOf(page)) /\ Len(new) = len + 1
       /\ \A i \in 1 .. len : new[i] = path[i]
       /\ new[len + 1] = step /\ new # <<>> /\ Last(new) = step
  <2>1. /\ new \in Seq(StepsOf(page)) /\ Len(new) = len + 1
        /\ \A i \in 1 .. len : new[i] = path[i]
        /\ new[len + 1] = step
    BY ONLY <1>0, <1>1, <1>2, <1>10
  <2>2. new # <<>> /\ Last(new) = step
    BY ONLY <1>2, <2>1 DEF Last
  <2> QED
    BY ONLY <2>1, <2>2
<1>12. LeafAt(new) = c
  BY <1>1, <1>10, <1>11 DEF LeafAt
<1>13. Hop(page, h, step, c)
  BY <1>1, <1>2, <1>8, <1>9, <1>10 DEF Hop
<1>14. ASSUME NEW i \in 1 .. len + 1 PROVE TrailStep(page, h, new, i, c)
  <2>1. CASE i = len + 1
    <3>1. h[c] + (Len(new) + 1 - i) = H
      BY ONLY <1>2, <1>9, <1>11, <2>1
    <3> QED
      BY ONLY <1>1, <1>10, <1>11, <1>13, <2>1, <3>1 DEF TrailStep, After
  <2>2. CASE i # len + 1
    <3>1. i \in 1 .. len /\ (i # len => i + 1 \in 1 .. len) /\ i \in Int
      BY ONLY <1>2, <2>2, i \in 1 .. len + 1
    <3>2. TrailStep(page, h, path, i, pg)
      BY ONLY <1>2, <3>1
    <3>3. new[i] = path[i]
      BY ONLY <1>11, <3>1
    <3>4. After(new, i, c) = After(path, i, pg)
      <4>1. After(new, i, c) = new[i + 1].page
        BY ONLY <1>11, <2>2 DEF After
      <4>2. CASE i = len
        BY ONLY <1>2, <1>10, <1>11, <4>1, <4>2 DEF After
      <4>3. CASE i # len
        BY ONLY <1>2, <1>11, <3>1, <4>1, <4>3 DEF After
      <4> QED
        BY ONLY <4>2, <4>3
    <3>5. h[path[i].page] = H + (len + 1 - i)
      BY ONLY <1>1, <3>2 DEF TrailStep
    <3>6. H + (len + 1 - i) = h[c] + ((len + 1) + 1 - i)
      BY ONLY <1>2, <1>9, <3>1
    <3> QED
      BY ONLY <1>11, <3>2, <3>3, <3>4, <3>5, <3>6 DEF TrailStep
  <2> QED
    BY ONLY <2>1, <2>2
<1>15. h[c] + Len(new) = h[Root]
  BY ONLY <1>2, <1>4, <1>9, <1>11
<1>16. Leads(new, h, r, key)
  BY ONLY <1>3, <1>9, <1>11, <1>12, <1>14, <1>15 DEF Leads
<1> QED
  BY ONLY <1>0, <1>1, <1>11, <1>16 DEF Down

LEMMA OneDownLeads ==
  ASSUME NEW n, NEW h, NEW r, GoodTree(page, n, h, r), NEW key \in Keys,
         NEW path, Leads(path, h, r, key)
  PROVE  /\ Leads(OneDown(key)[path], h, r, key)
         /\ h[LeafAt(path)] = 0 => OneDown(key)[path] = path
         /\ h[LeafAt(path)] # 0 => Len(OneDown(key)[path]) = Len(path) + 1
<1>1. PICK pg : pg = LeafAt(path)
  OBVIOUS
<1>2. pg \in 0 .. n - 1 /\ (IsLeaf(page[pg]) <=> h[pg] = 0) /\ path \in Seq(StepsOf(page))
  <2>1. pg \in DOMAIN page /\ path \in Seq(StepsOf(page))
    BY <1>1 DEF Leads
  <2>2. /\ DOMAIN page = 0 .. n - 1
        /\ \A x \in 0 .. n - 1 : IsLeaf(page[x]) <=> h[x] = 0
    BY ONLY GoodTree(page, n, h, r), TreeIs
  <2> QED
    BY ONLY <2>1, <2>2
<1>3. path \in Seq([page : Nat, offset : Nat])
  <2>1. StepsOf(page) \subseteq [page : Nat, offset : Nat]
    <3>1. DOMAIN page \subseteq Nat
      BY ONLY GoodTree(page, n, h, r), TreeIs
    <3> QED
      BY ONLY <3>1 DEF StepsOf
  <2>2. PICK S, T : S = StepsOf(page) /\ T = [page : Nat, offset : Nat]
    OBVIOUS
  <2>3. S \subseteq T /\ path \in Seq(S)
    BY ONLY <1>2, <2>1, <2>2
  <2>4. path \in Seq(T)
    BY ONLY <2>3
  <2> QED
    BY ONLY <2>2, <2>4
<1>4. OneDown(key)[path] = IF IsLeaf(page[pg]) THEN path ELSE Down(path, key)
  BY ONLY <1>1, <1>3 DEF OneDown, StepFrom, Down
<1>5. CASE h[pg] = 0
  <2>1. OneDown(key)[path] = path
    BY ONLY <1>2, <1>4, <1>5
  <2> QED
    BY <1>1, <1>5, <2>1
<1>6. CASE h[pg] # 0
  <2>1. OneDown(key)[path] = Down(path, key)
    BY ONLY <1>2, <1>4, <1>6
  <2>2. h[LeafAt(path)] # 0
    BY ONLY <1>1, <1>6
  <2>3. Leads(Down(path, key), h, r, key) /\ Len(Down(path, key)) = Len(path) + 1
    BY ONLY <2>2, GoodTree(page, n, h, r), key \in Keys, Leads(path, h, r, key), DownLeads
  <2> QED
    BY ONLY <2>1, <2>2, <2>3
<1> QED
  BY ONLY <1>5, <1>6

(* AM_Search: the path leads to the one leaf whose range has the key, from *)
(* a root at any height.                                                   *)
LEMMA PathLeads ==
  ASSUME NEW n, NEW h, NEW r, GoodTree(page, n, h, r), NumPages = n, NEW key \in Keys
  PROVE  /\ Leads(Path(key), h, r, key)
         /\ h[LeafAt(Path(key))] = 0
<1> DEFINE V == {path \in Seq(StepsOf(page)) : Leads(path, h, r, key)}
           turn == OneDown(key)
           f == LoopOf(n, <<>>, turn)
<1>1. /\ n \in Nat /\ DOMAIN page = 0 .. n - 1 /\ Root \in 0 .. n - 1
      /\ h[Root] < n /\ r[Root] = Int
      /\ \A x \in 0 .. n - 1 : h[x] \in Nat
  BY TreeIs
<1>2. <<>> \in V
  <2>1. PICK none, path : none = 0 /\ path = <<>>
    OBVIOUS
  <2>2. path \in Seq(StepsOf(page)) /\ Len(path) = none /\ none \in Nat
    BY ONLY <2>1
  <2>3. LeafAt(path) = Root
    BY ONLY <2>1 DEF LeafAt
  <2>4. key \in Int
    BY LeafAssumption
  <2>5. h[Root] + none = h[Root]
    BY ONLY <1>1, <2>1
  <2>6. \A i \in 1 .. Len(path) : TrailStep(page, h, path, i, LeafAt(path))
    BY ONLY <2>1, <2>2
  <2>7. Leads(path, h, r, key)
    BY ONLY <1>1, <2>2, <2>3, <2>4, <2>5, <2>6 DEF Leads
  <2> QED
    BY <2>1, <2>2, <2>7
<1>3. \A path \in V : turn[path] \in V
  <2>1. ASSUME NEW path, Leads(path, h, r, key) PROVE Leads(turn[path], h, r, key)
    BY ONLY <2>1, GoodTree(page, n, h, r), key \in Keys, OneDownLeads
  <2> QED
    BY <2>1 DEF Leads
<1>4. Path(key) = f[n]
  BY DEF Path, LoopOf, IsLoop
<1> HIDE DEF f, V, turn
<1>5. /\ f \in [0 .. n -> V] /\ f[0] = <<>>
      /\ \A i \in 1 .. n : f[i] = turn[f[i - 1]]
  BY <1>1, <1>2, <1>3, LoopInvariant DEF f
<1>6. \A i \in 0 .. n : Leads(f[i], h, r, key)
  BY <1>5 DEF V
<1>7. \A i \in 0 .. n : /\ Len(f[i]) \in Nat /\ LeafAt(f[i]) \in 0 .. n - 1
                        /\ h[LeafAt(f[i])] \in Nat /\ h[LeafAt(f[i])] + Len(f[i]) = h[Root]
  BY <1>1, <1>6 DEF Leads
<1> DEFINE Far(i) == h[LeafAt(f[i])] = 0 \/ Len(f[i]) >= i
<1>8. Far(n)
  <2> DEFINE T == {i \in 0 .. n : ~Far(i)}
  <2>1. SUFFICES ASSUME T # {} PROVE FALSE
    BY <1>1
  <2>2. T \in SUBSET Nat
    BY <1>1
  <2>3. PICK i \in T : \A j \in T : i <= j
    <3> HIDE DEF T
    <3> QED
      BY <2>1, <2>2, LeastNumber
  <2>4. i \in 0 .. n /\ ~(h[LeafAt(f[i])] = 0) /\ ~(Len(f[i]) >= i)
    BY <2>3
  <2>5. i \in Nat /\ i # 0 /\ i \in 1 .. n /\ i - 1 \in 0 .. n
    <3>1. PICK len : len = Len(f[i])
      OBVIOUS
    <3>2. len \in Nat /\ ~(len >= i) /\ i \in 0 .. n
      BY ONLY <1>7, <2>4, <3>1
    <3> QED
      BY ONLY <1>1, <3>2
  <2>6. i - 1 \notin T
    <3> HIDE DEF T
    <3> QED
      BY <2>3, <2>5
  <2>7. h[LeafAt(f[i - 1])] = 0 \/ Len(f[i - 1]) >= i - 1
    BY <2>5, <2>6
  <2>8. /\ h[LeafAt(f[i - 1])] = 0 => f[i] = f[i - 1]
        /\ h[LeafAt(f[i - 1])] # 0 => Len(f[i]) = Len(f[i - 1]) + 1
    <3>1. f[i] = turn[f[i - 1]] /\ Leads(f[i - 1], h, r, key)
      BY ONLY <1>5, <1>6, <2>5
    <3>2. PICK path : path = f[i - 1]
      OBVIOUS
    <3>3. /\ h[LeafAt(path)] = 0 => turn[path] = path
          /\ h[LeafAt(path)] # 0 => Len(turn[path]) = Len(path) + 1
      BY <3>1, <3>2, OneDownLeads DEF turn
    <3> QED
      BY ONLY <3>1, <3>2, <3>3
  <2>9. Len(f[i]) \in Nat /\ Len(f[i - 1]) \in Nat
    BY ONLY <1>7, <2>5
  <2> QED
    BY ONLY <2>4, <2>5, <2>7, <2>8, <2>9
<1>9. n \in 0 .. n
  BY <1>1
<1>10. h[LeafAt(f[n])] = 0
  BY ONLY <1>1, <1>7, <1>8, <1>9
<1> QED
  BY <1>4, <1>6, <1>9, <1>10

-----------------------------------------------------------------------------
(***************************************************************************)
(* The inductive invariant.                                                *)
(***************************************************************************)

(* The pages, one by one: what can be said of them even when an insertion  *)
(* has failed half way.                                                    *)
LeafOK(leaf, D) == GoodLeaf(leaf) /\ leaf.next \in {AM_NULL_PAGE} \cup D

NodeOK(node, D) ==
  /\ node = InternalNode(node.keys, node.children)
  /\ node.keys \in Seq(Keys) /\ Len(node.keys) \in 1 .. MaxKeys
  /\ node.children \in Seq(D) /\ Len(node.children) = Len(node.keys) + 1

PageOK(node, D) == IF IsLeaf(node) THEN LeafOK(node, D) ELSE NodeOK(node, D)

PagesOK(P) ==
  /\ \E n \in Nat \ {0} : DOMAIN P = 0 .. n - 1
  /\ \A pg \in DOMAIN P : PageOK(P[pg], DOMAIN P)

RestOK(P, f, st, left, bufs) ==
  /\ f \subseteq DOMAIN P /\ Cardinality(f) <= bufs /\ bufs \in Nat \ {0}
  /\ st \in Seq(StepsOf(P)) /\ left \in DOMAIN P

(* A call in progress is at a leaf, or it is an insertion with a new page  *)
(* to be added to the parent.                                              *)
HasPFError(rt) == "err" \in DOMAIN rt /\ rt.err = "PF"

CallRec(op, key, id, at, up, sep) ==
  [op |-> op, key |-> key, id |-> id, at |-> at, up |-> up, sep |-> sep]

InCall(c, P) ==
  /\ c = CallRec(c.op, c.key, c.id, c.at, c.up, c.sep)
  /\ c.op \in {"insert", "delete"} /\ c.key \in Keys /\ c.id \in RecIds
  /\ \/ c.at \in DOMAIN P /\ c.up = NoPage
     \/ c.op = "insert" /\ c.at = NoPage /\ c.up \in DOMAIN P /\ c.sep \in Keys

CallOK(c, P, rt) == c = Idle \/ (InCall(c, P) /\ ~HasPFError(rt))

Failed(c, rt) == c = Idle /\ HasPFError(rt)

(* The entries of the pages.                                               *)
HeldIn(P, key, id) == \E pg \in DOMAIN P : IsLeaf(P[pg]) /\ Holds(P[pg].keys, key, id)

(* The pages, with the new page in its parent already.                     *)
TopAdded(P, c, e) == AM_AddtoIntPage(P[e.page], c.sep, c.up, e.offset)
Completed(P, c, st) ==
  IF c.up = NoPage THEN P
  ELSE [P EXCEPT ![Last(st).page] = TopAdded(P, c, Last(st))]

(* The search has come to the leaf that has the key.                       *)
Searched(P, c, st, h, r) ==
  /\ h[c.at] = 0 /\ c.key \in r[c.at] /\ Trail(P, h, st, c.at)
  /\ c.op = "insert" => ~HeldIn(P, c.key, c.id)

(* The top of the stack is the parent, and the way to it is below it.      *)
Ascends(P, T, c, st, h) ==
  /\ st # <<>> /\ Last(st) \in StepsOf(P) /\ ~IsLeaf(P[Last(st).page])
  /\ Last(st).offset <= Len(P[Last(st).page].keys)
  /\ Front(st) \in Seq(StepsOf(P))
  /\ Trail(T, h, Front(st), Last(st).page)
  /\ HeldIn(P, c.key, c.id)

TreeWith(P, c, st, n, h, r) ==
  /\ GoodTree(Completed(P, c, st), n, h, r)
  /\ c.at # NoPage => Searched(P, c, st, h, r)
  /\ c.up # NoPage => Ascends(P, Completed(P, c, st), c, st, h)

TreeOK(P, c, st) == \E n, h, r : TreeWith(P, c, st, n, h, r)

IInv ==
  /\ PagesOK(page)
  /\ RestOK(page, fixed, stack, leftPageNum, numBuffers)
  /\ CallOK(call, page, ret)
  /\ Failed(call, ret) \/ TreeOK(page, call, stack)

(* The hypothesis of the theorems: the record ids of a key are never so    *)
(* many that a leaf with two keys would not have room for them.  Where it  *)
(* fails, an insertion may be lost (InsertTakesEffect).                    *)
FitIn(P) == \A pg \in DOMAIN P : IsLeaf(P[pg]) => ListsFit(P[pg].keys)
AllListsFit == FitIn(page)

LEMMA CallIs ==
  ASSUME NEW op, NEW key, NEW id, NEW at, NEW up, NEW sep
  PROVE  /\ CallRec(op, key, id, at, up, sep).op = op
         /\ CallRec(op, key, id, at, up, sep).key = key
         /\ CallRec(op, key, id, at, up, sep).id = id
         /\ CallRec(op, key, id, at, up, sep).at = at
         /\ CallRec(op, key, id, at, up, sep).up = up
         /\ CallRec(op, key, id, at, up, sep).sep = sep
BY DEF CallRec

LEMMA IdleIs == Idle.op = "idle" /\ Idle.at = NoPage /\ Idle.up = NoPage
BY DEF Idle

LEMMA FirstPages ==
  ASSUME NEW n \in Nat \ {0}, NEW D, D = 0 .. n - 1
  PROVE  /\ IsFiniteSet(D) /\ Cardinality(D) = n /\ Root \in D /\ NoPage \notin D
         /\ D \subseteq Int
<1>1. IsFiniteSet(D) /\ Cardinality(D) = n
  <2>1. IsFiniteSet(0 .. n - 1) /\ Cardinality(0 .. n - 1) = IF 0 > n - 1 THEN 0 ELSE (n - 1) - 0 + 1
    BY FS_Interval
  <2>2. ~(0 > n - 1) /\ (n - 1) - 0 + 1 = n
    OBVIOUS
  <2> QED
    BY <2>1, <2>2
<1>2. Root \in D /\ NoPage \notin D /\ D \subseteq Int
  BY DEF Root, NoPage
<1> QED
  BY <1>1, <1>2

LEMMA NumPagesIs ==
  ASSUME PagesOK(page)
  PROVE  /\ NumPages \in Nat \ {0} /\ DOMAIN page = 0 .. NumPages - 1
         /\ IsFiniteSet(DOMAIN page) /\ Root \in DOMAIN page /\ NoPage \notin DOMAIN page
<1>1. PICK n \in Nat \ {0} : DOMAIN page = 0 .. n - 1
  BY DEF PagesOK
<1>2. /\ IsFiniteSet(DOMAIN page) /\ Cardinality(DOMAIN page) = n
      /\ Root \in DOMAIN page /\ NoPage \notin DOMAIN page
  BY ONLY <1>1, FirstPages
<1> QED
  BY ONLY <1>1, <1>2 DEF NumPages

(* A tree has as many pages as there are.                                  *)
LEMMA TreePages ==
  ASSUME NEW P, NEW n, NEW h, NEW r, GoodTree(P, n, h, r), NEW m \in Nat \ {0},
         DOMAIN P = 0 .. m - 1
  PROVE  n = m
<1>1. n \in Nat \ {0} /\ DOMAIN P = 0 .. n - 1
  BY ONLY GoodTree(P, n, h, r), TreeIs
<1>2. Cardinality(DOMAIN P) = n
  BY ONLY <1>1, FirstPages
<1>3. Cardinality(DOMAIN P) = m
  BY ONLY m \in Nat \ {0}, DOMAIN P = 0 .. m - 1, FirstPages
<1> QED
  BY ONLY <1>2, <1>3

(* Pages remain good when some change and others are added.                *)
LEMMA PageStays ==
  ASSUME NEW node, NEW D, NEW D2, D \subseteq D2, PageOK(node, D)
  PROVE  PageOK(node, D2)
<1>1. CASE IsLeaf(node)
  BY <1>1 DEF PageOK, LeafOK
<1>2. CASE ~IsLeaf(node)
  <2>1. NodeOK(node, D)
    BY <1>2 DEF PageOK
  <2>2. PICK children, m : children = node.children /\ m = Len(node.keys)
    OBVIOUS
  <2>3. children \in Seq(D) /\ Len(children) = m + 1 /\ m \in 1 .. MaxKeys
    BY ONLY <2>1, <2>2 DEF NodeOK
  <2>4. children \in Seq(D2)
    <3>1. MaxKeys \in Nat
      BY TreeAssumption
    <3>2. m \in Nat
      BY ONLY <2>3, <3>1
    <3>3. children = [i \in 1 .. m + 1 |-> children[i]] /\ \A i \in 1 .. m + 1 : children[i] \in D
      BY ONLY <2>3, <3>2
    <3>4. children \in [1 .. m + 1 -> D2]
      BY ONLY <3>3, D \subseteq D2
    <3> QED
      BY ONLY <3>2, <3>4
  <2> QED
    BY ONLY <1>2, <2>1, <2>2, <2>4 DEF PageOK, NodeOK
<1> QED
  BY <1>1, <1>2

LEMMA PagesChanged ==
  ASSUME NEW P, PagesOK(P), NEW P2, NEW m \in Nat \ {0}, DOMAIN P2 = 0 .. m - 1,
         DOMAIN P \subseteq DOMAIN P2,
         \A pg \in DOMAIN P2 : (pg \in DOMAIN P /\ P2[pg] = P[pg]) \/ PageOK(P2[pg], DOMAIN P2)
  PROVE  PagesOK(P2)
<1>1. ASSUME NEW pg \in DOMAIN P2 PROVE PageOK(P2[pg], DOMAIN P2)
  <2>1. pg \in DOMAIN P /\ P2[pg] = P[pg] => PageOK(P2[pg], DOMAIN P)
    BY DEF PagesOK
  <2>2. pg \in DOMAIN P /\ P2[pg] = P[pg] => PageOK(P2[pg], DOMAIN P2)
    BY ONLY <2>1, DOMAIN P \subseteq DOMAIN P2, PageStays
  <2> QED
    BY ONLY <2>2, pg \in DOMAIN P2,
            \A x \in DOMAIN P2 : (x \in DOMAIN P /\ P2[x] = P[x]) \/ PageOK(P2[x], DOMAIN P2)
<1> QED
  BY <1>1 DEF PagesOK

LEMMA RestKept ==
  ASSUME NEW P, NEW f, NEW st, NEW left, NEW bufs, RestOK(P, f, st, left, bufs),
         NEW P2, DOMAIN P \subseteq DOMAIN P2,
         NEW f2, f2 \subseteq DOMAIN P2, Cardinality(f2) <= bufs,
         NEW st2, st2 = <<>> \/ st2 \in Seq(StepsOf(P)) \/ st2 \in Seq(StepsOf(P2)),
         NEW left2, left2 = left \/ left2 \in DOMAIN P2
  PROVE  RestOK(P2, f2, st2, left2, bufs)
<1>1. st2 \in Seq(StepsOf(P2))
  <2>1. StepsOf(P) \subseteq StepsOf(P2)
    BY DEF StepsOf
  <2>2. ASSUME st2 \in Seq(StepsOf(P)) PROVE st2 \in Seq(StepsOf(P2))
    <3>1. PICK n : n = Len(st2)
      OBVIOUS
    <3>2. n \in Nat /\ st2 = [i \in 1 .. n |-> st2[i]] /\ \A i \in 1 .. n : st2[i] \in StepsOf(P)
      BY ONLY <2>2, <3>1
    <3>3. st2 \in [1 .. n -> StepsOf(P2)]
      BY ONLY <2>1, <3>2
    <3> QED
      BY ONLY <3>2, <3>3
  <2>3. <<>> \in Seq(StepsOf(P2))
    OBVIOUS
  <2> QED
    BY <2>2, <2>3
<1>2. bufs \in Nat \ {0} /\ left \in DOMAIN P
  BY DEF RestOK
<1> QED
  BY <1>1, <1>2 DEF RestOK

(* Entries as a set of pairs that are held.                                *)
EntriesOf(P) ==
  UNION {{<<entry.key, entry.ids[i]>> : i \in DOMAIN entry.ids} :
           entry \in UNION {ToSet(P[pg].keys) : pg \in {p \in DOMAIN P : IsLeaf(P[p])}}}

PairsIn(P) == {e \in Keys \X RecIds : HeldIn(P, e[1], e[2])}

LEMMA EntriesArePairs ==
  ASSUME NEW P, PagesOK(P)
  PROVE  EntriesOf(P) = PairsIn(P)
<1>1. ASSUME NEW pg \in DOMAIN P, IsLeaf(P[pg]) PROVE GoodKeys(P[pg].keys)
  BY <1>1, GoodLeafIs DEF PagesOK, PageOK, LeafOK
<1>2. ASSUME NEW e \in EntriesOf(P) PROVE e \in PairsIn(P)
  <2>1. PICK entry \in UNION {ToSet(P[pg].keys) : pg \in {p \in DOMAIN P : IsLeaf(P[p])}} :
          e \in {<<entry.key, entry.ids[i]>> : i \in DOMAIN entry.ids}
    BY DEF EntriesOf
  <2>2. PICK pg \in DOMAIN P : IsLeaf(P[pg]) /\ entry \in ToSet(P[pg].keys)
    BY <2>1
  <2>3. PICK keys : keys = P[pg].keys
    OBVIOUS
  <2>4. PICK i \in DOMAIN keys : entry = keys[i]
    BY <2>2, <2>3 DEF ToSet
  <2>5. PICK j \in DOMAIN entry.ids : e = <<entry.key, entry.ids[j]>>
    BY <2>1
  <2>6. GoodKeys(keys)
    BY <1>1, <2>2, <2>3
  <2>7. entry.key \in Keys /\ GoodIds(entry.ids)
    BY ONLY <2>4, <2>6, GoodKeysAre, i \in DOMAIN keys
  <2>8. entry.ids[j] \in RecIds
    BY ONLY <2>7, j \in DOMAIN entry.ids DEF GoodIds
  <2>9. Holds(keys, entry.key, entry.ids[j])
    BY <2>4 DEF Holds, HasId
  <2>10. HeldIn(P, entry.key, entry.ids[j])
    BY <2>2, <2>3, <2>9 DEF HeldIn
  <2> QED
    BY ONLY <2>5, <2>7, <2>8, <2>10 DEF PairsIn
<1>3. ASSUME NEW e \in PairsIn(P) PROVE e \in EntriesOf(P)
  <2>1. PICK key, id : e = <<key, id>> /\ key \in Keys /\ id \in RecIds /\ HeldIn(P, key, id)
    BY DEF PairsIn
  <2>2. PICK pg \in DOMAIN P : IsLeaf(P[pg]) /\ Holds(P[pg].keys, key, id)
    BY <2>1 DEF HeldIn
  <2>3. PICK i \in DOMAIN P[pg].keys : P[pg].keys[i].key = key /\ HasId(P[pg].keys[i].ids, id)
    BY <2>2 DEF Holds
  <2>4. PICK j \in DOMAIN P[pg].keys[i].ids : P[pg].keys[i].ids[j] = id
    BY <2>3 DEF HasId
  <2>5. PICK entry : entry = P[pg].keys[i]
    OBVIOUS
  <2>6. entry \in ToSet(P[pg].keys)
    BY <2>5 DEF ToSet
  <2>7. entry \in UNION {ToSet(P[p].keys) : p \in {p \in DOMAIN P : IsLeaf(P[p])}}
    BY <2>2, <2>6
  <2>8. e = <<entry.key, entry.ids[j]>> /\ j \in DOMAIN entry.ids
    BY <2>1, <2>3, <2>4, <2>5
  <2> QED
    BY <2>7, <2>8 DEF EntriesOf
<1> QED
  BY <1>2, <1>3

LEMMA EntriesAre ==
  ASSUME PagesOK(page)
  PROVE  Entries = PairsIn(page)
BY EntriesArePairs DEF Entries, EntriesOf

(* What two sets of pages hold, when they differ by an entry.              *)
Gains(P, P2, key, id) ==
  \A k, x : HeldIn(P2, k, x) <=> (k = key /\ x = id) \/ HeldIn(P, k, x)
Loses(P, P2, key, id) ==
  \A k, x : HeldIn(P2, k, x) <=> ~(k = key /\ x = id) /\ HeldIn(P, k, x)
SameHeld(P, P2) == \A k, x : HeldIn(P2, k, x) <=> HeldIn(P, k, x)

LEMMA PairsChange ==
  ASSUME NEW P, NEW P2, NEW key \in Keys, NEW id \in RecIds
  PROVE  /\ Gains(P, P2, key, id) => PairsIn(P2) = PairsIn(P) \cup {<<key, id>>}
         /\ Loses(P, P2, key, id) => PairsIn(P2) = PairsIn(P) \ {<<key, id>>}
         /\ SameHeld(P, P2) => PairsIn(P2) = PairsIn(P)
         /\ <<key, id>> \in PairsIn(P) <=> HeldIn(P, key, id)
<1>1. ASSUME NEW Q, NEW k, NEW x
      PROVE  <<k, x>> \in PairsIn(Q) <=> k \in Keys /\ x \in RecIds /\ HeldIn(Q, k, x)
  BY DEF PairsIn
<1>2. \A Q : \A e \in PairsIn(Q) : e = <<e[1], e[2]>> /\ e[1] \in Keys /\ e[2] \in RecIds
  BY DEF PairsIn
<1>3. ASSUME Gains(P, P2, key, id) PROVE PairsIn(P2) = PairsIn(P) \cup {<<key, id>>}
  <2>1. ASSUME NEW e \in PairsIn(P2) PROVE e \in PairsIn(P) \cup {<<key, id>>}
    <3>1. PICK k \in Keys, x \in RecIds : e = <<k, x>>
      BY <1>2
    <3>2. HeldIn(P2, k, x)
      BY <1>1, <3>1
    <3>3. (k = key /\ x = id) \/ HeldIn(P, k, x)
      BY <1>3, <3>2 DEF Gains
    <3> QED
      BY <1>1, <3>1, <3>3
  <2>2. ASSUME NEW e \in PairsIn(P) \cup {<<key, id>>} PROVE e \in PairsIn(P2)
    <3>1. PICK k \in Keys, x \in RecIds : e = <<k, x>>
      BY <1>2
    <3>2. (k = key /\ x = id) \/ HeldIn(P, k, x)
      BY <1>1, <3>1
    <3>3. HeldIn(P2, k, x)
      BY <1>3, <3>2 DEF Gains
    <3> QED
      BY <1>1, <3>1, <3>3
  <2> QED
    BY <2>1, <2>2
<1>4. ASSUME Loses(P, P2, key, id) PROVE PairsIn(P2) = PairsIn(P) \ {<<key, id>>}
  <2>1. ASSUME NEW e \in PairsIn(P2) PROVE e \in PairsIn(P) \ {<<key, id>>}
    <3>1. PICK k \in Keys, x \in RecIds : e = <<k, x>>
      BY <1>2
    <3>2. HeldIn(P2, k, x)
      BY <1>1, <3>1
    <3>3. ~(k = key /\ x = id) /\ HeldIn(P, k, x)
      BY <1>4, <3>2 DEF Loses
    <3> QED
      BY <1>1, <3>1, <3>3
  <2>2. ASSUME NEW e \in PairsIn(P) \ {<<key, id>>} PROVE e \in PairsIn(P2)
    <3>1. PICK k \in Keys, x \in RecIds : e = <<k, x>>
      BY <1>2
    <3>2. ~(k = key /\ x = id) /\ HeldIn(P, k, x)
      BY <1>1, <3>1
    <3>3. HeldIn(P2, k, x)
      BY <1>4, <3>2 DEF Loses
    <3> QED
      BY <1>1, <3>1, <3>3
  <2> QED
    BY <2>1, <2>2
<1>5. ASSUME SameHeld(P, P2) PROVE PairsIn(P2) = PairsIn(P)
  BY <1>5 DEF SameHeld, PairsIn
<1> QED
  BY <1>1, <1>3, <1>4, <1>5

LEMMA PairsLess ==
  ASSUME NEW P, NEW P2, NEW key \in Keys, NEW id \in RecIds, Loses(P, P2, key, id)
  PROVE  PairsIn(P2) = PairsIn(P) \ {<<key, id>>}
<1>1. /\ Gains(P, P2, key, id) => PairsIn(P2) = PairsIn(P) \cup {<<key, id>>}
      /\ Loses(P, P2, key, id) => PairsIn(P2) = PairsIn(P) \ {<<key, id>>}
      /\ SameHeld(P, P2) => PairsIn(P2) = PairsIn(P)
      /\ <<key, id>> \in PairsIn(P) <=> HeldIn(P, key, id)
  BY ONLY key \in Keys, id \in RecIds, PairsChange
<1> QED
  BY ONLY <1>1, Loses(P, P2, key, id)

LEMMA PairsMore ==
  ASSUME NEW P, NEW P2, NEW key \in Keys, NEW id \in RecIds, Gains(P, P2, key, id)
  PROVE  PairsIn(P2) = PairsIn(P) \cup {<<key, id>>}
<1>1. /\ Gains(P, P2, key, id) => PairsIn(P2) = PairsIn(P) \cup {<<key, id>>}
      /\ Loses(P, P2, key, id) => PairsIn(P2) = PairsIn(P) \ {<<key, id>>}
      /\ SameHeld(P, P2) => PairsIn(P2) = PairsIn(P)
      /\ <<key, id>> \in PairsIn(P) <=> HeldIn(P, key, id)
  BY ONLY key \in Keys, id \in RecIds, PairsChange
<1> QED
  BY ONLY <1>1, Gains(P, P2, key, id)

LEMMA PairsSame ==
  ASSUME NEW P, NEW P2, SameHeld(P, P2)
  PROVE  PairsIn(P2) = PairsIn(P)
BY DEF SameHeld, PairsIn

LEMMA OneMorePage ==
  ASSUME NEW n \in Nat \ {0}, NEW D, D = 0 .. n - 1
  PROVE  /\ D \cup {n} = 0 .. (n + 1) - 1 /\ n \notin D
         /\ (D \cup {n}) \cup {n + 1} = 0 .. (n + 2) - 1 /\ n + 1 \notin D
         /\ n + 1 \in Nat \ {0} /\ n + 2 \in Nat \ {0}
         /\ D \subseteq 0 .. n /\ D \cup {n} = 0 .. n /\ (D \cup {n}) \cup {n + 1} = 0 .. n + 1
OBVIOUS

-----------------------------------------------------------------------------
(***************************************************************************)
(* The initial states.                                                     *)
(***************************************************************************)
LEMMA EmptyLeafIs == GoodLeaf(EmptyLeaf) /\ EmptyLeaf.keys = <<>>
<1>1. EmptyLeaf = LeafRec(<<>>, 0, LeafSpace, AM_NULL_PAGE)
  BY DEF EmptyLeaf, LeafRec
<1>2. GoodKeys(<<>>)
  BY DEF GoodKeys
<1>3. Count(<<>>) = 0 /\ Len(<<>>) = 0
  BY CountOfNone
<1>4. Space(0, 0) = 0 /\ Space(1, 0) = KeySize /\ AM_NULL_PAGE \in Int
  BY LeafAssumption DEF Space, AM_NULL_PAGE
<1>5. LeafSpace \in Nat /\ KeySize < LeafSpace
  BY LeafAssumption
<1>6. PICK keys, c, n : keys = <<>> /\ c = Count(keys) /\ n = Len(keys)
  OBVIOUS
<1>7. Count(keys) + 0 = 0 /\ Len(keys) = 0
  BY ONLY <1>3, <1>6
<1>8. LeafSpace + Space(Len(keys), Count(keys) + 0) = LeafSpace /\ Space(1, Count(keys) + 0) < LeafSpace
  BY ONLY <1>4, <1>5, <1>7
<1>9. /\ GoodLeaf(LeafRec(keys, 0, LeafSpace, AM_NULL_PAGE))
      /\ LeafRec(keys, 0, LeafSpace, AM_NULL_PAGE).keys = keys
  BY ONLY <1>2, <1>4, <1>5, <1>6, <1>8, LeafIsGood
<1> QED
  BY ONLY <1>1, <1>6, <1>9

LEMMA InitOK ==
  ASSUME Init
  PROVE  IInv /\ PairsIn(page) = {}
<1>1. page = [pg \in {Root} |-> EmptyLeaf] /\ fixed = {} /\ stack = <<>> /\ leftPageNum = 0
      /\ numBuffers \in Nat \ {0} /\ call = Idle /\ ret = OK("none")
  BY TreeAssumption DEF Init
<1>2. DOMAIN page = 0 .. 1 - 1 /\ DOMAIN page = {0} /\ page[0] = EmptyLeaf /\ 1 \in Nat \ {0}
  BY <1>1 DEF Root
<1>3. GoodLeaf(EmptyLeaf) /\ EmptyLeaf.keys = <<>> /\ IsLeaf(EmptyLeaf)
  BY EmptyLeafIs DEF IsLeaf, EmptyLeaf
<1>4. PagesOK(page)
  <2>1. PageOK(EmptyLeaf, DOMAIN page)
    BY <1>3 DEF PageOK, LeafOK, EmptyLeaf
  <2> QED
    BY ONLY <1>2, <2>1 DEF PagesOK
<1>5. RestOK(page, fixed, stack, leftPageNum, numBuffers)
  <2>1. Cardinality({}) = 0
    BY FS_EmptySet
  <2> QED
    BY <1>1, <1>2, <2>1 DEF RestOK
<1>6. CallOK(call, page, ret)
  BY <1>1 DEF CallOK
<1>7. \A k, x : ~HeldIn(page, k, x)
  BY <1>2, <1>3 DEF HeldIn, Holds
<1>8. TreeOK(page, call, stack)
  <2>1. PICK h, r : h = [pg \in {0} |-> 0] /\ r = [pg \in {0} |-> Int]
    OBVIOUS
  <2>2. \A pg \in 0 .. 1 - 1 : pg = 0
    OBVIOUS
  <2>3. {0} = 0 .. 1 - 1
    OBVIOUS
  <2>4. Heights(page, 1, h)
    BY <1>2, <2>1, <2>3 DEF Heights, Root
  <2>5. RangesOf(1, h, r)
    BY <2>1, <2>3 DEF RangesOf, Root
  <2>6. NodesOf(page, 1, h, r)
    <3>1. LeafNode(EmptyLeaf, Int)
      BY <1>3 DEF LeafNode, Holds
    <3>2. GoodNode(page[0], h[0], r[0], h, r)
      BY <1>2, <2>1, <3>1 DEF GoodNode
    <3> QED
      BY <2>2, <3>2 DEF NodesOf
  <2>7. call.up = NoPage /\ call.at = NoPage
    BY <1>1, IdleIs
  <2>8. LinksOf(page, 1, h, r)
    <3>1. LeavesOf(1, h) = {0} /\ FirstLeaf(h) = 0
      BY <2>1, <2>3 DEF LeavesOf, FirstLeaf, Root
    <3>2. page[0].next = AM_NULL_PAGE
      BY <1>2 DEF EmptyLeaf
    <3>3. Linked({0}, 0, page, r)
      BY ONLY <3>2 DEF Linked
    <3> QED
      BY ONLY <3>1, <3>3 DEF LinksOf
  <2>9. TreeWith(page, call, stack, 1, h, r)
    BY ONLY <2>4, <2>5, <2>6, <2>7, <2>8 DEF TreeWith, Completed, GoodTree
  <2> QED
    BY ONLY <2>9 DEF TreeOK
<1> QED
  BY <1>4, <1>5, <1>6, <1>7, <1>8 DEF IInv, PairsIn

-----------------------------------------------------------------------------
(***************************************************************************)
(* The searches.                                                           *)
(***************************************************************************)
LEMMA TrailExtended ==
  ASSUME NEW P, NEW n, NEW h, NEW r, GoodTree(P, n, h, r),
         NEW st \in Seq(StepsOf(P)), NEW path \in Seq(StepsOf(P)), NEW target \in 0 .. n - 1,
         h[target] + Len(path) = h[Root],
         \A i \in 1 .. Len(path) : TrailStep(P, h, path, i, target)
  PROVE  Trail(P, h, st \o path, target)
<1>1. PICK m, d, all : m = Len(st) /\ d = Len(path) /\ all = st \o path
  OBVIOUS
<1>2. /\ all \in Seq(StepsOf(P)) /\ m \in Nat /\ d \in Nat /\ Len(all) = m + d
      /\ \A i \in 1 .. m + d : all[i] = IF i <= m THEN st[i] ELSE path[i - m]
  <2>1. /\ st \o path \in Seq(StepsOf(P)) /\ Len(st \o path) = Len(st) + Len(path)
        /\ \A i \in 1 .. Len(st) + Len(path) :
             (st \o path)[i] = IF i <= Len(st) THEN st[i] ELSE path[i - Len(st)]
    BY ONLY st \in Seq(StepsOf(P)), path \in Seq(StepsOf(P)), ConcatIs
  <2>2. m \in Nat /\ d \in Nat
    BY ONLY <1>1, st \in Seq(StepsOf(P)), path \in Seq(StepsOf(P))
  <2> QED
    BY ONLY <1>1, <2>1, <2>2
<1>3. h[target] \in Nat /\ h[Root] \in Nat
  <2>1. Root \in 0 .. n - 1 /\ \A pg \in 0 .. n - 1 : h[pg] \in Nat
    BY ONLY GoodTree(P, n, h, r), TreeIs
  <2> QED
    BY ONLY <2>1, target \in 0 .. n - 1
<1>4. PICK up : up = h[Root] - h[target]
  OBVIOUS
<1>5. up = d
  BY ONLY <1>1, <1>2, <1>3, <1>4, h[target] + Len(path) = h[Root]
<1>6. ASSUME NEW i \in 1 .. Len(all), i > Len(all) - up
      PROVE  TrailStep(P, h, all, i, target)
  <2>1. PICK j : j = i - m
    OBVIOUS
  <2>2. i \in 1 .. m + d /\ i > m /\ j \in 1 .. d /\ ~(i <= m) /\ i \in Int /\ j \in Int
    BY ONLY <1>2, <1>5, <1>6, <2>1
  <2>3. all[i] = path[j]
    BY ONLY <1>2, <2>1, <2>2
  <2>4. After(all, i, target) = After(path, j, target)
    <3>1. CASE i = m + d
      <4>1. j = d
        BY ONLY <1>2, <2>1, <2>2, <3>1
      <4> QED
        BY ONLY <1>1, <1>2, <3>1, <4>1 DEF After
    <3>2. CASE i # m + d
      <4>1. j # d /\ i + 1 \in 1 .. m + d /\ ~(i + 1 <= m) /\ (i + 1) - m = j + 1
        BY ONLY <1>2, <2>1, <2>2, <3>2
      <4>2. all[i + 1] = path[j + 1]
        BY ONLY <1>2, <4>1
      <4> QED
        BY ONLY <1>1, <1>2, <3>2, <4>1, <4>2 DEF After
    <3> QED
      BY <3>1, <3>2
  <2>5. Len(all) + 1 - i = Len(path) + 1 - j
    BY ONLY <1>1, <1>2, <2>1, <2>2
  <2>6. TrailStep(P, h, path, j, target)
    BY ONLY <1>1, <2>2, \A x \in 1 .. Len(path) : TrailStep(P, h, path, x, target)
  <2> QED
    BY ONLY <2>3, <2>4, <2>5, <2>6 DEF TrailStep
<1>7. h[Root] - h[target] <= Len(all)
  BY ONLY <1>2, <1>4, <1>5
<1> QED
  BY ONLY <1>1, <1>2, <1>4, <1>6, <1>7 DEF Trail

(* Between two calls the pages are a tree.                                 *)
LEMMA IdleTree ==
  ASSUME IInv, call = Idle, ~HasPFError(ret)
  PROVE  \E h, r : GoodTree(page, NumPages, h, r)
<1>1. TreeOK(page, call, stack) /\ PagesOK(page)
  BY DEF IInv, Failed
<1>2. PICK n, h, r : TreeWith(page, call, stack, n, h, r)
  BY ONLY <1>1 DEF TreeOK
<1>3. GoodTree(page, n, h, r)
  BY ONLY <1>2, call = Idle, IdleIs DEF TreeWith, Completed
<1>4. NumPages \in Nat \ {0} /\ DOMAIN page = 0 .. NumPages - 1
  BY ONLY <1>1, NumPagesIs
<1>5. n = NumPages
  BY ONLY <1>3, <1>4, TreePages
<1> QED
  BY ONLY <1>3, <1>5

(* What a call begins with.                                                *)
LEMMA CallBegins ==
  ASSUME IInv, NEW op \in {"insert", "delete"}, NEW key \in Keys, NEW id \in RecIds,
         Calls(op, key, id)
  PROVE  /\ call = Idle /\ ~HasPFError(ret)
         /\ op = "insert" => ~HeldIn(page, key, id)
         /\ \E h, r : /\ GoodTree(page, NumPages, h, r) /\ NumPages \in Nat \ {0}
                      /\ Path(key) \in Seq(StepsOf(page))
                      /\ LeafAt(Path(key)) \in 0 .. NumPages - 1
                      /\ h[LeafAt(Path(key))] = 0 /\ key \in r[LeafAt(Path(key))]
                      /\ Trail(page, h, stack \o Path(key), LeafAt(Path(key)))
<1>1. call = Idle /\ ~HasPFError(ret)
  BY DEF Calls, HasPFError
<1>2. PagesOK(page) /\ stack \in Seq(StepsOf(page))
  BY DEF IInv, RestOK
<1>3. op = "insert" => ~HeldIn(page, key, id)
  <2>1. op = "insert" => <<key, id>> \notin Entries
    BY DEF Calls
  <2>2. Entries = PairsIn(page)
    BY <1>2, EntriesAre
  <2>3. <<key, id>> \in PairsIn(page) <=> HeldIn(page, key, id)
    BY ONLY key \in Keys, id \in RecIds, PairsChange
  <2> QED
    BY ONLY <2>1, <2>2, <2>3
<1>4. PICK h, r : GoodTree(page, NumPages, h, r)
  BY ONLY IInv, <1>1, IdleTree
<1>5. NumPages \in Nat \ {0} /\ DOMAIN page = 0 .. NumPages - 1
  BY ONLY <1>2, NumPagesIs
<1>6. Leads(Path(key), h, r, key) /\ h[LeafAt(Path(key))] = 0
  BY ONLY <1>4, key \in Keys, PathLeads
<1>7. PICK path, leaf : path = Path(key) /\ leaf = LeafAt(path)
  OBVIOUS
<1>8. /\ path \in Seq(StepsOf(page)) /\ leaf \in 0 .. NumPages - 1 /\ key \in r[leaf] /\ h[leaf] = 0
      /\ h[leaf] + Len(path) = h[Root]
      /\ \A i \in 1 .. Len(path) : TrailStep(page, h, path, i, leaf)
  BY ONLY <1>5, <1>6, <1>7 DEF Leads
<1>9. Trail(page, h, stack \o path, leaf)
  BY ONLY <1>2, <1>4, <1>8, TrailExtended
<1> QED
  BY ONLY <1>1, <1>3, <1>4, <1>5, <1>7, <1>8, <1>9

LEMMA OneMoreFixed ==
  ASSUME NEW D, IsFiniteSet(D), NEW f, f \subseteq D, NEW pg
  PROVE  /\ IsFiniteSet(f) /\ Cardinality(f) \in Nat
         /\ Cardinality(f \cup {pg}) <= Cardinality(f) + 1
         /\ Cardinality(f \ {pg}) <= Cardinality(f) /\ Cardinality(f \ {pg}) >= Cardinality(f) - 1
         /\ pg \notin f => f \ {pg} = f
         /\ Cardinality(f \ {pg}) \in Nat /\ Cardinality(f \cup {pg}) \in Nat
         /\ Cardinality(f) > 0 => f # {}
<1>1. IsFiniteSet(f) /\ Cardinality(f) \in Nat
  BY FS_Subset, FS_CardinalityType
<1>2. /\ IsFiniteSet(f \cup {pg})
      /\ Cardinality(f \cup {pg}) = IF pg \in f THEN Cardinality(f) ELSE Cardinality(f) + 1
  BY <1>1, FS_AddElement
<1>3. IsFiniteSet(f \ {pg}) /\ Cardinality(f \ {pg}) = IF pg \in f THEN Cardinality(f) - 1 ELSE Cardinality(f)
  BY <1>1, FS_RemoveElement
<1>4. Cardinality(f \ {pg}) \in Nat /\ Cardinality(f \cup {pg}) \in Nat
  BY <1>2, <1>3, FS_CardinalityType
<1>5. Cardinality(f) > 0 => f # {}
  BY FS_EmptySet
<1> QED
  BY <1>1, <1>2, <1>3, <1>4, <1>5

LEMMA AfterSearch ==
  ASSUME IInv, NEW op \in {"insert", "delete"}, NEW key \in Keys, NEW id \in RecIds,
         AM_Search(op, key, id)
  PROVE  IInv' /\ PairsIn(page') = PairsIn(page)
<1>1. PICK path, leaf : path = Path(key) /\ leaf = LeafAt(path)
  OBVIOUS
<1>2. /\ Calls(op, key, id) /\ leaf \notin fixed /\ FreeBuffers > 0
      /\ fixed' = fixed \cup {leaf} /\ stack' = stack \o path
      /\ call' = [Idle EXCEPT !.op = op, !.key = key, !.id = id, !.at = leaf]
      /\ page' = page /\ leftPageNum' = leftPageNum /\ numBuffers' = numBuffers /\ ret' = ret
  BY <1>1 DEF AM_Search
<1>3. PICK h, r : /\ GoodTree(page, NumPages, h, r) /\ NumPages \in Nat \ {0}
                  /\ path \in Seq(StepsOf(page))
                  /\ leaf \in 0 .. NumPages - 1
                  /\ h[leaf] = 0 /\ key \in r[leaf]
                  /\ Trail(page, h, stack \o path, leaf)
  BY ONLY <1>1, <1>2, IInv, op \in {"insert", "delete"}, key \in Keys, id \in RecIds, CallBegins
<1>4. ~HasPFError(ret) /\ (op = "insert" => ~HeldIn(page, key, id))
  BY ONLY <1>2, IInv, op \in {"insert", "delete"}, key \in Keys, id \in RecIds, CallBegins
<1>5. PagesOK(page) /\ RestOK(page, fixed, stack, leftPageNum, numBuffers)
  BY DEF IInv
<1>6. /\ DOMAIN page = 0 .. NumPages - 1 /\ IsFiniteSet(DOMAIN page) /\ NoPage \notin DOMAIN page
  BY ONLY <1>5, NumPagesIs
<1>7. call' = CallRec(op, key, id, leaf, NoPage, 0)
  BY <1>2 DEF Idle, CallRec
<1>8. /\ call'.op = op /\ call'.key = key /\ call'.id = id /\ call'.at = leaf /\ call'.up = NoPage
      /\ call'.sep = 0
  BY ONLY <1>7, CallIs
<1>9. RestOK(page', fixed', stack', leftPageNum', numBuffers')
  <2>1. fixed \subseteq DOMAIN page /\ Cardinality(fixed) <= numBuffers /\ numBuffers \in Nat
        /\ leftPageNum \in DOMAIN page /\ numBuffers \in Nat \ {0}
    BY ONLY <1>5 DEF RestOK
  <2>2. Cardinality(fixed \cup {leaf}) <= Cardinality(fixed) + 1 /\ Cardinality(fixed) \in Nat
        /\ Cardinality(fixed \cup {leaf}) \in Nat
    BY ONLY <1>6, <2>1, OneMoreFixed
  <2>3. Cardinality(fixed) + 1 <= numBuffers
    BY ONLY <1>2, <2>1, <2>2 DEF FreeBuffers
  <2>4. Cardinality(fixed') <= numBuffers
    BY ONLY <1>2, <2>1, <2>2, <2>3
  <2>5. stack \o path \in Seq(StepsOf(page))
    BY ONLY <1>3 DEF Trail
  <2>6. fixed' \subseteq DOMAIN page
    BY ONLY <1>2, <1>3, <1>6, <2>1
  <2> QED
    BY ONLY <1>2, <2>1, <2>4, <2>5, <2>6 DEF RestOK
<1>10. CallOK(call', page', ret')
  <2>1. leaf \in DOMAIN page
    BY ONLY <1>3, <1>6
  <2> QED
    BY ONLY <1>2, <1>4, <1>7, <1>8, <2>1, op \in {"insert", "delete"}, key \in Keys, id \in RecIds
       DEF CallOK, InCall
<1>11. TreeOK(page', call', stack')
  <2>1. Searched(page, call', stack', h, r)
    BY ONLY <1>2, <1>3, <1>4, <1>8 DEF Searched
  <2>2. TreeWith(page, call', stack', NumPages, h, r)
    BY ONLY <1>3, <1>8, <2>1 DEF TreeWith, Completed
  <2> QED
    BY ONLY <1>2, <2>2 DEF TreeOK
<1>12. PagesOK(page') /\ PairsIn(page') = PairsIn(page)
  BY ONLY <1>2, <1>5 DEF PairsIn, HeldIn
<1> QED
  BY ONLY <1>9, <1>10, <1>11, <1>12 DEF IInv

(* An insertion or deletion that has failed: nothing can be done after it. *)
LEMMA FailedOK ==
  ASSUME NEW P, PagesOK(P), NEW f, NEW st, NEW left, NEW bufs, RestOK(P, f, st, left, bufs),
         NEW c, c = Idle, NEW rt, HasPFError(rt)
  PROVE  CallOK(c, P, rt) /\ Failed(c, rt)
BY DEF CallOK, Failed

LEMMA ReturnedIs ==
  ASSUME NEW op
  PROVE  /\ HasPFError(PFError(op)) /\ ~HasPFError(OK(op))
         /\ ~HasPFError([op |-> op, err |-> "NOTFOUND"])
         /\ "err" \notin DOMAIN OK(op)
BY DEF HasPFError, PFError, OK

LEMMA AfterSearchFails ==
  ASSUME IInv, NEW op \in {"insert", "delete"}, NEW key \in Keys, NEW id \in RecIds,
         SearchFails(op, key, id)
  PROVE  IInv' /\ PairsIn(page') = PairsIn(page)
<1>1. PICK path : path = IF FreeBuffers = 0 THEN <<>> ELSE Path(key)
  OBVIOUS
<1>2. /\ Calls(op, key, id)
      /\ stack' = IF op = "insert" THEN <<>> ELSE stack \o path
      /\ call' = Idle /\ ret' = PFError(op)
      /\ page' = page /\ fixed' = fixed /\ leftPageNum' = leftPageNum /\ numBuffers' = numBuffers
  BY <1>1 DEF SearchFails, Return
<1>3. PagesOK(page) /\ RestOK(page, fixed, stack, leftPageNum, numBuffers)
  BY DEF IInv
<1>4. Path(key) \in Seq(StepsOf(page))
  BY ONLY <1>2, IInv, op \in {"insert", "delete"}, key \in Keys, id \in RecIds, CallBegins
<1>5. stack' = <<>> \/ stack' \in Seq(StepsOf(page))
  <2>1. path \in Seq(StepsOf(page))
    BY ONLY <1>1, <1>4
  <2>2. stack \in Seq(StepsOf(page))
    BY ONLY <1>3 DEF RestOK
  <2>3. stack \o path \in Seq(StepsOf(page))
    BY ONLY <2>1, <2>2, ConcatIs
  <2> QED
    BY ONLY <1>2, <2>3
<1>6. RestOK(page, fixed, stack', leftPageNum, numBuffers)
  <2>1. fixed \subseteq DOMAIN page /\ Cardinality(fixed) <= numBuffers
    BY ONLY <1>3 DEF RestOK
  <2> QED
    BY ONLY <1>3, <1>5, <2>1, RestKept
<1>7. HasPFError(ret') /\ call' = Idle
  BY ONLY <1>2, ReturnedIs
<1>8. CallOK(call', page, ret') /\ Failed(call', ret')
  BY ONLY <1>7 DEF CallOK, Failed
<1>9. PagesOK(page') /\ PairsIn(page') = PairsIn(page)
  BY ONLY <1>2, <1>3 DEF PairsIn, HeldIn
<1> QED
  BY ONLY <1>2, <1>6, <1>8, <1>9 DEF IInv

-----------------------------------------------------------------------------
(***************************************************************************)
(* At the leaf.                                                            *)
(***************************************************************************)
LeafState(n, h, r) ==
  /\ GoodTree(page, n, h, r) /\ n \in Nat \ {0} /\ DOMAIN page = 0 .. n - 1
  /\ call.at \in 0 .. n - 1 /\ h[call.at] = 0 /\ call.key \in r[call.at] /\ r[call.at] \in SUBSET Int
  /\ Trail(page, h, stack, call.at)
  /\ LeafNode(Leaf, r[call.at]) /\ GoodLeaf(Leaf) /\ IsLeaf(Leaf)
  /\ Leaf.next \in {AM_NULL_PAGE} \cup DOMAIN page
  /\ KeyPlace(Leaf.keys, call.key, Place)
  /\ Place = [found |-> Place.found, index |-> Place.index]

CallState ==
  /\ call = CallRec(call.op, call.key, call.id, call.at, NoPage, call.sep)
  /\ call.key \in Keys /\ call.id \in RecIds /\ call.up = NoPage /\ call # Idle
  /\ ~HasPFError(ret)
  /\ call.op = "insert" => ~HeldIn(page, call.key, call.id) /\ ~Holds(Leaf.keys, call.key, call.id)

LEMMA AtTheLeaf ==
  ASSUME IInv, call.at # NoPage
  PROVE  (\E h, r : LeafState(NumPages, h, r)) /\ CallState
<1>1. /\ PagesOK(page) /\ CallOK(call, page, ret)
      /\ Failed(call, ret) \/ TreeOK(page, call, stack)
  BY DEF IInv
<1>2. call # Idle
  BY IdleIs
<1>3. InCall(call, page) /\ ~HasPFError(ret) /\ TreeOK(page, call, stack)
  BY ONLY <1>1, <1>2 DEF CallOK, Failed
<1>4. call.at \in DOMAIN page /\ call.up = NoPage
  BY ONLY <1>3, call.at # NoPage DEF InCall
<1>5. PICK n, h, r : TreeWith(page, call, stack, n, h, r)
  BY ONLY <1>3 DEF TreeOK
<1>6. GoodTree(page, n, h, r) /\ Searched(page, call, stack, h, r)
  BY ONLY <1>4, <1>5, call.at # NoPage DEF TreeWith, Completed
<1>7. NumPages \in Nat \ {0} /\ DOMAIN page = 0 .. NumPages - 1
  BY ONLY <1>1, NumPagesIs
<1>8. n = NumPages
  BY ONLY <1>6, <1>7, TreePages
<1>9. h[call.at] = 0 /\ call.key \in r[call.at] /\ Trail(page, h, stack, call.at)
  BY ONLY <1>6 DEF Searched
<1>10. call.at \in 0 .. n - 1
  BY ONLY <1>4, <1>7, <1>8
<1>11. /\ GoodNode(page[call.at], h[call.at], r[call.at], h, r) /\ r[call.at] \in SUBSET Int
       /\ IsLeaf(page[call.at])
  BY ONLY <1>6, <1>9, <1>10, TreeIs
<1>12. LeafNode(Leaf, r[call.at]) /\ IsLeaf(Leaf)
  BY ONLY <1>9, <1>11 DEF Leaf, GoodNode
<1>13. GoodLeaf(Leaf) /\ GoodKeys(Leaf.keys)
  BY ONLY <1>12, GoodLeafIs DEF LeafNode
<1>14. Leaf.next \in {AM_NULL_PAGE} \cup DOMAIN page
  BY ONLY <1>1, <1>4, <1>12 DEF PagesOK, PageOK, LeafOK, Leaf
<1>15. call.key \in Keys
  BY ONLY <1>3 DEF InCall
<1>16. /\ KeyPlace(Leaf.keys, call.key, AM_SearchLeaf(Leaf, call.key))
       /\ AM_SearchLeaf(Leaf, call.key) =
            [found |-> AM_SearchLeaf(Leaf, call.key).found,
             index |-> AM_SearchLeaf(Leaf, call.key).index]
  BY ONLY <1>13, <1>15, PlaceFound
<1>17. LeafState(n, h, r)
  BY ONLY <1>6, <1>7, <1>8, <1>9, <1>10, <1>11, <1>12, <1>13, <1>14, <1>16 DEF LeafState, Place
<1>18. CallState
  <2>1. /\ call = CallRec(call.op, call.key, call.id, call.at, call.up, call.sep)
        /\ call.id \in RecIds
    BY ONLY <1>3 DEF InCall
  <2>2. call.op = "insert" => ~HeldIn(page, call.key, call.id)
    BY ONLY <1>6 DEF Searched
  <2>3. Holds(Leaf.keys, call.key, call.id) => HeldIn(page, call.key, call.id)
    BY ONLY <1>4, <1>12 DEF HeldIn, Leaf
  <2> QED
    BY ONLY <1>2, <1>3, <1>4, <1>15, <2>1, <2>2, <2>3 DEF CallState
<1> QED
  BY ONLY <1>8, <1>17, <1>18

(* A leaf that changes, and the other pages do not.                        *)
LEMMA LeafChanges ==
  ASSUME NEW n, NEW h, NEW r, LeafState(n, h, r),
         PagesOK(page), RestOK(page, fixed, stack, leftPageNum, numBuffers),
         NEW leaf, GoodLeaf(leaf), leaf.next = Leaf.next,
         \A k, x : Holds(leaf.keys, k, x) => k \in r[call.at],
         NEW P2, P2 = [page EXCEPT ![call.at] = leaf]
  PROVE  /\ PagesOK(P2) /\ RestOK(P2, fixed \ {call.at}, <<>>, leftPageNum, numBuffers)
         /\ GoodTree(P2, n, h, r)
         /\ \A k, x : HeldIn(P2, k, x) <=>
              \/ Holds(leaf.keys, k, x)
              \/ \E pg \in DOMAIN page \ {call.at} : IsLeaf(page[pg]) /\ Holds(page[pg].keys, k, x)
<1>1. /\ GoodTree(page, n, h, r) /\ n \in Nat \ {0} /\ DOMAIN page = 0 .. n - 1
      /\ call.at \in 0 .. n - 1 /\ h[call.at] = 0
      /\ Leaf.next \in {AM_NULL_PAGE} \cup DOMAIN page
  BY ONLY LeafState(n, h, r) DEF LeafState
<1>2. DOMAIN P2 = DOMAIN page /\ P2[call.at] = leaf /\ \A x \in DOMAIN page : x # call.at => P2[x] = page[x]
  BY ONLY <1>1, P2 = [page EXCEPT ![call.at] = leaf]
<1>3. IsLeaf(leaf)
  BY ONLY GoodLeaf(leaf), GoodLeafIs DEF IsLeaf
<1>4. LeafNode(leaf, r[call.at])
  BY ONLY GoodLeaf(leaf), \A k, x : Holds(leaf.keys, k, x) => k \in r[call.at] DEF LeafNode
<1>5. GoodTree(P2, n, h, r)
  BY ONLY <1>1, <1>4, P2 = [page EXCEPT ![call.at] = leaf], leaf.next = Leaf.next, LeafReplaced
     DEF Leaf
<1>6. PageOK(leaf, DOMAIN P2)
  BY ONLY <1>1, <1>2, <1>3, GoodLeaf(leaf), leaf.next = Leaf.next DEF PageOK, LeafOK
<1>7. PagesOK(P2)
  <2>1. \A pg \in DOMAIN P2 : (pg \in DOMAIN page /\ P2[pg] = page[pg]) \/ PageOK(P2[pg], DOMAIN P2)
    BY ONLY <1>2, <1>6
  <2>2. DOMAIN P2 = 0 .. n - 1 /\ DOMAIN page \subseteq DOMAIN P2
    BY ONLY <1>1, <1>2
  <2> QED
    BY ONLY <1>1, <2>1, <2>2, PagesOK(page), PagesChanged
<1>8. RestOK(P2, fixed \ {call.at}, <<>>, leftPageNum, numBuffers)
  <2>1. fixed \subseteq DOMAIN page /\ Cardinality(fixed) <= numBuffers /\ numBuffers \in Nat
    BY ONLY RestOK(page, fixed, stack, leftPageNum, numBuffers) DEF RestOK
  <2>2. IsFiniteSet(DOMAIN page)
    BY ONLY <1>1, FirstPages
  <2>3. Cardinality(fixed \ {call.at}) <= Cardinality(fixed) /\ Cardinality(fixed \ {call.at}) \in Nat
        /\ Cardinality(fixed) \in Nat
    BY ONLY <2>1, <2>2, OneMoreFixed
  <2>4. Cardinality(fixed \ {call.at}) <= numBuffers
    BY ONLY <2>1, <2>3
  <2>5. fixed \ {call.at} \subseteq DOMAIN P2 /\ DOMAIN page \subseteq DOMAIN P2
    BY ONLY <1>2, <2>1
  <2>6. PICK f2, st2, left2 : f2 = fixed \ {call.at} /\ st2 = <<>> /\ left2 = leftPageNum
    OBVIOUS
  <2>7. /\ f2 \subseteq DOMAIN P2 /\ DOMAIN page \subseteq DOMAIN P2 /\ Cardinality(f2) <= numBuffers
        /\ st2 = <<>> \/ st2 \in Seq(StepsOf(page)) \/ st2 \in Seq(StepsOf(P2))
        /\ left2 = leftPageNum \/ left2 \in DOMAIN P2
    BY ONLY <2>4, <2>5, <2>6
  <2>8. RestOK(P2, f2, st2, left2, numBuffers)
    BY ONLY <2>7, RestOK(page, fixed, stack, leftPageNum, numBuffers), RestKept
  <2> QED
    BY ONLY <2>6, <2>8
<1>9. ASSUME NEW k, NEW x
      PROVE  HeldIn(P2, k, x) <=>
               \/ Holds(leaf.keys, k, x)
               \/ \E pg \in DOMAIN page \ {call.at} : IsLeaf(page[pg]) /\ Holds(page[pg].keys, k, x)
  <2>1. PICK at, D : at = call.at /\ D = DOMAIN page
    OBVIOUS
  <2>2. /\ DOMAIN P2 = D /\ at \in D /\ P2[at] = leaf
        /\ \A p \in D \ {at} : P2[p] = page[p]
    BY ONLY <1>1, <1>2, <2>1
  <2>3. ASSUME HeldIn(P2, k, x)
        PROVE  \/ Holds(leaf.keys, k, x)
               \/ \E pg \in D \ {at} : IsLeaf(page[pg]) /\ Holds(page[pg].keys, k, x)
    <3>1. PICK pg \in D : IsLeaf(P2[pg]) /\ Holds(P2[pg].keys, k, x)
      BY ONLY <2>2, <2>3 DEF HeldIn
    <3> QED
      BY ONLY <2>2, <3>1
  <2>4. ASSUME Holds(leaf.keys, k, x)
        PROVE  HeldIn(P2, k, x)
    BY ONLY <1>3, <2>2, <2>4 DEF HeldIn
  <2>5. ASSUME NEW pg \in D \ {at}, IsLeaf(page[pg]), Holds(page[pg].keys, k, x)
        PROVE  HeldIn(P2, k, x)
    BY ONLY <2>2, <2>5 DEF HeldIn
  <2> QED
    BY ONLY <2>1, <2>3, <2>4, <2>5
<1> QED
  BY ONLY <1>5, <1>7, <1>8, <1>9

(* A key is in no other leaf than the one the search comes to.             *)
LEMMA OnlyHere ==
  ASSUME NEW n, NEW h, NEW r, LeafState(n, h, r), NEW pg \in DOMAIN page, pg # call.at,
         IsLeaf(page[pg]), NEW x
  PROVE  ~Holds(page[pg].keys, call.key, x)
<1>1. /\ GoodTree(page, n, h, r) /\ DOMAIN page = 0 .. n - 1
      /\ call.at \in 0 .. n - 1 /\ h[call.at] = 0 /\ call.key \in r[call.at]
  BY ONLY LeafState(n, h, r) DEF LeafState
<1>2. pg \in 0 .. n - 1
  BY ONLY <1>1, pg \in DOMAIN page
<1>3. h[pg] = 0 /\ GoodNode(page[pg], h[pg], r[pg], h, r)
  BY ONLY <1>1, <1>2, IsLeaf(page[pg]), TreeIs
<1>4. Holds(page[pg].keys, call.key, x) => call.key \in r[pg]
  BY ONLY <1>3 DEF GoodNode, LeafNode
<1>5. r[pg] \cap r[call.at] = {}
  BY ONLY <1>1, <1>2, <1>3, pg # call.at DEF GoodTree, RangesOf
<1> QED
  BY ONLY <1>1, <1>4, <1>5

(* AM_DeleteEntry.                                                         *)
LEMMA AfterDelete ==
  ASSUME IInv, AM_DeleteEntry
  PROVE  /\ IInv'
         /\ PairsIn(page') = PairsIn(page) \ {<<call.key, call.id>>}
         /\ <<call.key, call.id>> \in PairsIn(page)
<1>1. /\ call.op = "delete" /\ call.at # NoPage /\ EntryThere
      /\ page' = [page EXCEPT ![call.at] = DeleteFromLeaf(Leaf, call.id, Place.index)]
      /\ fixed' = fixed \ {call.at} /\ stack' = <<>>
      /\ call' = Idle /\ ret' = OK("delete")
      /\ leftPageNum' = leftPageNum /\ numBuffers' = numBuffers
  BY DEF AM_DeleteEntry, AtLeaf, Return
<1>2. PagesOK(page) /\ RestOK(page, fixed, stack, leftPageNum, numBuffers)
  BY DEF IInv
<1>3. PICK h, r : LeafState(NumPages, h, r)
  BY ONLY <1>1, IInv, AtTheLeaf
<1>4. call.key \in Keys /\ call.id \in RecIds
  <2>1. CallState
    BY ONLY <1>1, IInv, AtTheLeaf
  <2> QED
    BY ONLY <2>1 DEF CallState
<1>5. PICK leaf, p, new : leaf = Leaf /\ p = Place.index /\ new = DeleteFromLeaf(leaf, call.id, p)
  OBVIOUS
<1>6. /\ GoodLeaf(leaf) /\ p \in 1 .. Len(leaf.keys) /\ leaf.keys[p].key = call.key
      /\ Contains(leaf.keys[p].ids, call.id)
  <2>1. GoodLeaf(Leaf) /\ KeyPlace(Leaf.keys, call.key, Place)
    BY ONLY <1>3 DEF LeafState
  <2>2. Place.found /\ Contains(Leaf.keys[Place.index].ids, call.id)
    BY ONLY <1>1 DEF EntryThere
  <2>3. Place.index \in 1 .. Len(Leaf.keys) /\ Leaf.keys[Place.index].key = call.key
    BY ONLY <2>1, <2>2 DEF KeyPlace
  <2> QED
    BY ONLY <1>5, <2>1, <2>2, <2>3
<1>7. /\ GoodLeaf(new) /\ new.next = leaf.next
      /\ Removes(leaf.keys, new.keys, leaf.keys[p].key, call.id)
  BY ONLY <1>5, <1>6, LeafDeleted
<1>8. \A k, x : Holds(new.keys, k, x) <=> ~(k = call.key /\ x = call.id) /\ Holds(leaf.keys, k, x)
  BY ONLY <1>6, <1>7 DEF Removes
<1>9. \A k, x : Holds(new.keys, k, x) => k \in r[call.at]
  <2>1. LeafNode(Leaf, r[call.at])
    BY ONLY <1>3 DEF LeafState
  <2> QED
    BY ONLY <1>5, <1>8, <2>1 DEF LeafNode
<1>10. new.next = Leaf.next /\ page' = [page EXCEPT ![call.at] = new]
  BY ONLY <1>1, <1>5, <1>7
<1>11. /\ PagesOK(page') /\ RestOK(page', fixed \ {call.at}, <<>>, leftPageNum, numBuffers)
       /\ GoodTree(page', NumPages, h, r)
       /\ \A k, x : HeldIn(page', k, x) <=>
            \/ Holds(new.keys, k, x)
            \/ \E pg \in DOMAIN page \ {call.at} : IsLeaf(page[pg]) /\ Holds(page[pg].keys, k, x)
  BY ONLY <1>2, <1>3, <1>7, <1>9, <1>10, LeafChanges
<1>12. call.at \in DOMAIN page /\ IsLeaf(page[call.at]) /\ leaf = page[call.at]
  BY ONLY <1>3, <1>5 DEF LeafState, Leaf
<1>13. ASSUME NEW k, NEW x
       PROVE  HeldIn(page, k, x) <=>
            \/ Holds(leaf.keys, k, x)
            \/ \E pg \in DOMAIN page \ {call.at} : IsLeaf(page[pg]) /\ Holds(page[pg].keys, k, x)
  BY ONLY <1>12 DEF HeldIn
<1>14. ~(\E pg \in DOMAIN page \ {call.at} : IsLeaf(page[pg]) /\ Holds(page[pg].keys, call.key, call.id))
  <2>1. ASSUME NEW pg \in DOMAIN page \ {call.at}, IsLeaf(page[pg])
        PROVE  ~Holds(page[pg].keys, call.key, call.id)
    BY ONLY <1>3, <2>1, OnlyHere
  <2> QED
    BY ONLY <2>1
<1>15. Loses(page, page', call.key, call.id)
  BY ONLY <1>8, <1>11, <1>13, <1>14 DEF Loses
<1>16. HeldIn(page, call.key, call.id)
  <2>1. HasId(leaf.keys[p].ids, call.id)
    BY ONLY <1>6 DEF Contains, HasId
  <2>2. p \in DOMAIN leaf.keys
    <3>1. GoodKeys(leaf.keys)
      BY ONLY <1>6, GoodLeafIs
    <3>2. DOMAIN leaf.keys = 1 .. Len(leaf.keys)
      BY ONLY <3>1, GoodKeysAre
    <3> QED
      BY ONLY <1>6, <3>2
  <2>3. Holds(leaf.keys, call.key, call.id)
    BY ONLY <1>6, <2>1, <2>2 DEF Holds
  <2> QED
    BY ONLY <1>13, <2>3
<1>17. TreeOK(page', call', stack')
  <2>1. call'.at = NoPage /\ call'.up = NoPage
    BY ONLY <1>1, IdleIs
  <2>2. TreeWith(page', call', stack', NumPages, h, r)
    BY ONLY <1>11, <2>1 DEF TreeWith, Completed
  <2> QED
    BY ONLY <2>2 DEF TreeOK
<1>18. IInv'
  BY ONLY <1>1, <1>11, <1>17 DEF IInv, CallOK
<1>19. /\ PairsIn(page') = PairsIn(page) \ {<<call.key, call.id>>}
       /\ <<call.key, call.id>> \in PairsIn(page)
  <2>1. PICK key, id, P, P2 : key = call.key /\ id = call.id /\ P = page /\ P2 = page'
    OBVIOUS
  <2>2. key \in Keys /\ id \in RecIds /\ Loses(P, P2, key, id) /\ HeldIn(P, key, id)
    BY ONLY <1>4, <1>15, <1>16, <2>1
  <2>3. PairsIn(P2) = PairsIn(P) \ {<<key, id>>}
    BY ONLY <2>2, PairsLess
  <2>4. <<key, id>> \in PairsIn(P)
    BY ONLY <2>2, PairsChange
  <2> QED
    BY ONLY <2>1, <2>3, <2>4
<1> QED
  BY ONLY <1>18, <1>19

(* If the entry is not in the leaf, it is in none.                         *)
LEMMA AfterNotFound ==
  ASSUME IInv, DeleteNotFound
  PROVE  /\ IInv'
         /\ PairsIn(page') = PairsIn(page)
         /\ <<call.key, call.id>> \notin PairsIn(page)
<1>1. /\ call.op = "delete" /\ call.at # NoPage /\ ~EntryThere
      /\ call' = Idle /\ ret' = [op |-> "delete", err |-> "NOTFOUND"]
      /\ page' = page /\ fixed' = fixed /\ stack' = stack
      /\ leftPageNum' = leftPageNum /\ numBuffers' = numBuffers
  BY DEF DeleteNotFound, AtLeaf, Return
<1>2. PagesOK(page) /\ RestOK(page, fixed, stack, leftPageNum, numBuffers)
  BY DEF IInv
<1>3. PICK h, r : LeafState(NumPages, h, r)
  BY ONLY <1>1, IInv, AtTheLeaf
<1>4. call.key \in Keys /\ call.id \in RecIds
  <2>1. CallState
    BY ONLY <1>1, IInv, AtTheLeaf
  <2> QED
    BY ONLY <2>1 DEF CallState
<1>5. ~Holds(Leaf.keys, call.key, call.id)
  <2>1. GoodKeys(Leaf.keys) /\ KeyPlace(Leaf.keys, call.key, Place)
    <3>1. GoodLeaf(Leaf) /\ KeyPlace(Leaf.keys, call.key, Place)
      BY ONLY <1>3 DEF LeafState
    <3> QED
      BY ONLY <3>1, GoodLeafIs
  <2>2. PICK keys, p, found : keys = Leaf.keys /\ p = Place.index /\ found = Place.found
    OBVIOUS
  <2>3. DOMAIN keys = 1 .. Len(keys)
    BY ONLY <2>1, <2>2, GoodKeysAre
  <2>4. ASSUME NEW i \in 1 .. Len(keys), keys[i].key = call.key, HasId(keys[i].ids, call.id)
        PROVE  FALSE
    <3>1. keys[i].key \in Int /\ Len(keys) \in Nat
      BY ONLY <2>1, <2>2, GoodKeysAre, i \in 1 .. Len(keys)
    <3>2. found
      <4>1. ASSUME ~found PROVE FALSE
        <5>1. Between(keys, p, call.key)
          BY ONLY <2>1, <2>2, <4>1 DEF KeyPlace
        <5>2. p \in Int
          BY ONLY <3>1, <5>1 DEF Between
        <5>3. (i < p => keys[i].key < call.key) /\ (i >= p => keys[i].key > call.key)
          BY ONLY <5>1, i \in 1 .. Len(keys) DEF Between
        <5> QED
          BY ONLY <2>4, <3>1, <5>2, <5>3
      <4>2. found \in BOOLEAN
        BY ONLY <2>1, <2>2 DEF KeyPlace
      <4> QED
        BY ONLY <4>1, <4>2
    <3>3. p \in 1 .. Len(keys) /\ keys[p].key = call.key
      BY ONLY <2>1, <2>2, <3>2 DEF KeyPlace
    <3>4. i = p
      BY ONLY <2>1, <2>2, <2>4, <3>3, SameKey, i \in 1 .. Len(keys)
    <3>5. Contains(keys[p].ids, call.id)
      BY ONLY <2>4, <3>4 DEF Contains, HasId
    <3> QED
      BY ONLY <1>1, <2>2, <3>2, <3>5 DEF EntryThere
  <2> QED
    BY ONLY <2>2, <2>3, <2>4 DEF Holds
<1>6. ~HeldIn(page, call.key, call.id)
  <2>1. ASSUME NEW pg \in DOMAIN page, IsLeaf(page[pg]), Holds(page[pg].keys, call.key, call.id)
        PROVE  FALSE
    <3>1. pg # call.at
      BY ONLY <1>5, <2>1 DEF Leaf
    <3> QED
      BY ONLY <1>3, <2>1, <3>1, OnlyHere
  <2> QED
    BY ONLY <2>1 DEF HeldIn
<1>7. TreeOK(page, call', stack)
  <2>1. call'.at = NoPage /\ call'.up = NoPage
    BY ONLY <1>1, IdleIs
  <2>2. GoodTree(page, NumPages, h, r)
    BY ONLY <1>3 DEF LeafState
  <2>3. TreeWith(page, call', stack, NumPages, h, r)
    BY ONLY <2>1, <2>2 DEF TreeWith, Completed
  <2> QED
    BY ONLY <2>3 DEF TreeOK
<1>8. IInv'
  BY ONLY <1>1, <1>2, <1>7 DEF IInv, CallOK
<1>9. <<call.key, call.id>> \notin PairsIn(page)
  BY ONLY <1>4, <1>6, PairsChange
<1>10. PairsIn(page') = PairsIn(page)
  BY ONLY <1>1 DEF PairsIn, HeldIn
<1> QED
  BY ONLY <1>8, <1>9, <1>10

(* AM_InsertintoLeaf leaves a leaf, whatever is said of its room.          *)
IsLeafRec(leaf) == \E keys, free, gap, next : leaf = LeafRec(keys, free, gap, next)

LEMMA LeafRecIs ==
  ASSUME NEW leaf, IsLeafRec(leaf), NEW next
  PROVE  /\ IsLeaf(leaf) /\ IsLeafRec([leaf EXCEPT !.next = next])
         /\ [leaf EXCEPT !.next = next].keys = leaf.keys
<1>1. PICK keys, free, gap, old : leaf = LeafRec(keys, free, gap, old)
  BY DEF IsLeafRec
<1>2. [leaf EXCEPT !.next = next] = LeafRec(keys, free, gap, next)
  BY <1>1 DEF LeafRec
<1>3. \A n : LeafRec(keys, free, gap, n).keys = keys /\ LeafRec(keys, free, gap, n).type = "l"
  BY DEF LeafRec
<1> QED
  BY ONLY <1>1, <1>2, <1>3 DEF IsLeafRec, IsLeaf

LEMMA FoundLeaf ==
  ASSUME NEW leaf, NEW keys, NEW free \in Nat, NEW gap \in Int, NEW next,
         leaf = LeafRec(keys, free, gap, next), NEW p, NEW id
  PROVE  IsLeafRec(AM_InsertToLeafFound(leaf, id, p))
<1>1. AM_InsertToLeafFound(LeafRec(keys, free, gap, next), id, p) =
        IF free = 0
        THEN LeafRec(WithId(keys, p, id), free, gap - CellSize, next)
        ELSE LeafRec(WithId(keys, p, id), free - 1, gap, next)
  BY ONLY free \in Nat, gap \in Int, FoundRecord
<1> QED
  BY ONLY <1>1, leaf = LeafRec(keys, free, gap, next) DEF IsLeafRec

LEMMA NotFoundLeaf ==
  ASSUME NEW leaf, NEW keys, NEW free \in Nat, NEW gap \in Int, NEW next,
         leaf = LeafRec(keys, free, gap, next), NEW p, NEW key, NEW id
  PROVE  IsLeafRec(AM_InsertToLeafNotFound(leaf, key, id, p))
<1>1. AM_InsertToLeafNotFound(LeafRec(keys, free, gap, next), key, id, p) =
        AM_InsertToLeafFound(
          LeafRec(InsertAt(keys, p, KeyEntry(key, <<>>)), free, gap - KeySize, next), id, p)
  BY ONLY free \in Nat, gap \in Int, NotFoundRecord
<1>2. PICK more, room, left : /\ more = InsertAt(keys, p, KeyEntry(key, <<>>)) /\ room = gap - KeySize
                              /\ left = LeafRec(more, free, room, next)
  OBVIOUS
<1>3. room \in Int
  BY <1>2, LeafAssumption
<1>4. IsLeafRec(AM_InsertToLeafFound(left, id, p))
  BY ONLY <1>2, <1>3, free \in Nat, FoundLeaf
<1> QED
  BY ONLY <1>1, <1>2, <1>4, leaf = LeafRec(keys, free, gap, next)

LEMMA InsertLeaves ==
  ASSUME NEW leaf, GoodLeaf(leaf), ListsFit(leaf.keys), NEW key, NEW id, NEW at
  PROVE  IsLeafRec(AM_InsertintoLeaf(leaf, key, id, at))
<1>1. ASSUME NEW l, GoodLeaf(l)
      PROVE  /\ l = LeafRec(l.keys, l.free, l.gap, l.next) /\ l.free \in Nat /\ l.gap \in Int
             /\ IsLeafRec(l)
             /\ IsLeafRec(AM_InsertToLeafFound(l, id, at.index))
             /\ IsLeafRec(AM_InsertToLeafNotFound(l, key, id, at.index))
  <2>1. PICK keys, free, gap, next : keys = l.keys /\ free = l.free /\ gap = l.gap /\ next = l.next
    OBVIOUS
  <2>2. l = LeafRec(keys, free, gap, next) /\ free \in Nat /\ gap \in Int
    <3>1. l = LeafRec(l.keys, l.free, l.gap, l.next) /\ l.free \in Nat /\ l.gap \in Nat
      BY ONLY <1>1, GoodLeafIs
    <3> QED
      BY ONLY <2>1, <3>1
  <2>3. IsLeafRec(AM_InsertToLeafFound(l, id, at.index))
    BY ONLY <2>2, FoundLeaf
  <2>4. IsLeafRec(AM_InsertToLeafNotFound(l, key, id, at.index))
    BY ONLY <2>2, NotFoundLeaf
  <2> QED
    BY ONLY <2>1, <2>2, <2>3, <2>4 DEF IsLeafRec
<1>2. IsLeafRec(leaf) /\ IsLeafRec(AM_InsertToLeafFound(leaf, id, at.index))
      /\ IsLeafRec(AM_InsertToLeafNotFound(leaf, key, id, at.index))
  BY ONLY <1>1, GoodLeaf(leaf)
<1>3. ASSUME NeedsCompaction(leaf)
      PROVE  IsLeafRec(AM_InsertToLeafNotFound(AM_Compact(leaf, 1, Len(leaf.keys), 0), key, id, at.index))
  <2>1. leaf.gap <= KeySize
    BY ONLY <1>3 DEF NeedsCompaction
  <2>2. PICK new : new = AM_Compact(leaf, 1, Len(leaf.keys), 0)
    OBVIOUS
  <2>3. GoodLeaf(new)
    BY ONLY <2>1, <2>2, GoodLeaf(leaf), ListsFit(leaf.keys), AllCompacted
  <2> QED
    BY ONLY <1>1, <2>2, <2>3
<1> QED
  BY ONLY <1>2, <1>3 DEF AM_InsertintoLeaf

(* InsertIntoLeaf.                                                         *)
LEMMA AfterInsert ==
  ASSUME IInv, AllListsFit, AllListsFit', InsertIntoLeaf
  PROVE  /\ IInv'
         /\ PairsIn(page') = PairsIn(page) \cup {<<call.key, call.id>>}
<1>1. /\ call.op = "insert" /\ call.at # NoPage /\ InsertFits(Leaf, Place.found)
      /\ page' = [page EXCEPT ![call.at] = AM_InsertintoLeaf(Leaf, call.key, call.id, Place)]
      /\ fixed' = fixed \ {call.at} /\ stack' = <<>>
      /\ call' = Idle /\ ret' = OK("insert")
      /\ leftPageNum' = leftPageNum /\ numBuffers' = numBuffers
  BY DEF InsertIntoLeaf, AtLeaf, Return
<1>2. PagesOK(page) /\ RestOK(page, fixed, stack, leftPageNum, numBuffers)
  BY DEF IInv
<1>3. PICK h, r : LeafState(NumPages, h, r)
  BY ONLY <1>1, IInv, AtTheLeaf
<1>4. call.key \in Keys /\ call.id \in RecIds /\ ~Holds(Leaf.keys, call.key, call.id)
  <2>1. CallState
    BY ONLY <1>1, IInv, AtTheLeaf
  <2> QED
    BY ONLY <1>1, <2>1 DEF CallState
<1>5. /\ GoodLeaf(Leaf) /\ KeyPlace(Leaf.keys, call.key, Place) /\ call.at \in DOMAIN page
      /\ LeafNode(Leaf, r[call.at]) /\ call.key \in r[call.at] /\ IsLeaf(Leaf)
  BY ONLY <1>3 DEF LeafState
<1>6. ListsFit(Leaf.keys)
  BY ONLY <1>5, AllListsFit DEF AllListsFit, FitIn, Leaf
<1>7. PICK leaf, key, id, at, new : /\ leaf = Leaf /\ key = call.key /\ id = call.id /\ at = Place
                                    /\ new = AM_InsertintoLeaf(leaf, key, id, at)
  OBVIOUS
<1>8. page' = [page EXCEPT ![call.at] = new]
  BY ONLY <1>1, <1>7
<1>9. ListsFit(new.keys)
  <2>1. IsLeafRec(new)
    BY ONLY <1>5, <1>6, <1>7, InsertLeaves
  <2>2. IsLeaf(new)
    BY ONLY <2>1, LeafRecIs
  <2>3. page'[call.at] = new /\ call.at \in DOMAIN page'
    BY ONLY <1>5, <1>8
  <2> QED
    BY ONLY <2>2, <2>3, AllListsFit' DEF AllListsFit, FitIn
<1>10. GoodLeaf(new) /\ new.next = leaf.next /\ Adds(leaf.keys, new.keys, key, id)
  <2>1. /\ GoodLeaf(leaf) /\ ListsFit(leaf.keys) /\ key \in Keys /\ id \in RecIds
        /\ ~Holds(leaf.keys, key, id) /\ KeyPlace(leaf.keys, key, at) /\ InsertFits(leaf, at.found)
    BY ONLY <1>1, <1>4, <1>5, <1>6, <1>7
  <2> QED
    BY ONLY <1>7, <1>9, <2>1, LeafInserted
<1>11. \A k, x : Holds(new.keys, k, x) <=> (k = call.key /\ x = call.id) \/ Holds(leaf.keys, k, x)
  BY ONLY <1>7, <1>10 DEF Adds
<1>12. \A k, x : Holds(new.keys, k, x) => k \in r[call.at]
  BY ONLY <1>5, <1>7, <1>11 DEF LeafNode
<1>13. new.next = Leaf.next
  BY ONLY <1>7, <1>10
<1>14. /\ PagesOK(page') /\ RestOK(page', fixed \ {call.at}, <<>>, leftPageNum, numBuffers)
       /\ GoodTree(page', NumPages, h, r)
       /\ \A k, x : HeldIn(page', k, x) <=>
            \/ Holds(new.keys, k, x)
            \/ \E pg \in DOMAIN page \ {call.at} : IsLeaf(page[pg]) /\ Holds(page[pg].keys, k, x)
  BY ONLY <1>2, <1>3, <1>8, <1>10, <1>12, <1>13, LeafChanges
<1>15. ASSUME NEW k, NEW x
       PROVE  HeldIn(page, k, x) <=>
            \/ Holds(leaf.keys, k, x)
            \/ \E pg \in DOMAIN page \ {call.at} : IsLeaf(page[pg]) /\ Holds(page[pg].keys, k, x)
  <2>1. call.at \in DOMAIN page /\ IsLeaf(page[call.at]) /\ leaf = page[call.at]
    BY ONLY <1>5, <1>7 DEF Leaf
  <2> QED
    BY ONLY <2>1 DEF HeldIn
<1>16. Gains(page, page', call.key, call.id)
  BY ONLY <1>11, <1>14, <1>15 DEF Gains
<1>17. TreeOK(page', call', stack')
  <2>1. call'.at = NoPage /\ call'.up = NoPage
    BY ONLY <1>1, IdleIs
  <2>2. TreeWith(page', call', stack', NumPages, h, r)
    BY ONLY <1>14, <2>1 DEF TreeWith, Completed
  <2> QED
    BY ONLY <2>2 DEF TreeOK
<1>18. IInv'
  BY ONLY <1>1, <1>14, <1>17 DEF IInv, CallOK
<1>19. PairsIn(page') = PairsIn(page) \cup {<<call.key, call.id>>}
  <2>1. PICK P, P2 : P = page /\ P2 = page'
    OBVIOUS
  <2>2. key \in Keys /\ id \in RecIds /\ Gains(P, P2, key, id)
    BY ONLY <1>4, <1>7, <1>16, <2>1
  <2>3. PairsIn(P2) = PairsIn(P) \cup {<<key, id>>}
    BY ONLY <2>2, PairsMore
  <2> QED
    BY ONLY <1>7, <2>1, <2>3
<1> QED
  BY ONLY <1>18, <1>19

(* A leaf that must be split has two keys at least, and there are no       *)
(* accidents with the gaps of its halves.                                  *)
Halved(new, half, lower, upper, gap, low, up) ==
  /\ Cut(Leaf, half, lower, upper, gap)
  /\ low = IF Place.index <= half
           THEN AM_InsertintoLeaf(lower, call.key, call.id, PlaceInHalf(Place, half)) ELSE lower
  /\ up = IF Place.index <= half
          THEN upper ELSE AM_InsertintoLeaf(upper, call.key, call.id, PlaceInHalf(Place, half))
  /\ Halves(new, gap) = [lower |-> [low EXCEPT !.next = new], upper |-> up]

LEMMA HalvesCut ==
  ASSUME NEW n, NEW h, NEW r, LeafState(n, h, r), ListsFit(Leaf.keys),
         ~InsertFits(Leaf, Place.found), NEW gap \in Gaps, NEW new
  PROVE  \E half, lower, upper, low, up : Halved(new, half, lower, upper, gap, low, up)
<1>1. GoodLeaf(Leaf) /\ Place.found \in BOOLEAN
  BY DEF LeafState, KeyPlace
<1>2. PICK len, half : len = Len(Leaf.keys) /\ half = len \div 2
  OBVIOUS
<1>3. len \in Nat
  BY ONLY <1>1, <1>2, GoodLeafIs
<1>4. ~(len < 2)
  <2>1. PICK leaf, found : leaf = Leaf /\ found = Place.found
    OBVIOUS
  <2>2. /\ GoodLeaf(leaf) /\ ListsFit(leaf.keys) /\ found \in BOOLEAN
        /\ ~InsertFits(leaf, found) /\ len = Len(leaf.keys)
    BY ONLY <1>1, <1>2, <2>1, ListsFit(Leaf.keys), ~InsertFits(Leaf, Place.found)
  <2>3. ASSUME Len(leaf.keys) < 2 PROVE InsertFits(leaf, found)
    BY ONLY <2>2, <2>3, SmallFits
  <2> QED
    BY ONLY <2>2, <2>3
<1>5. half \in 1 .. len - 1
  <2>1. len \in Nat /\ len >= 2
    BY ONLY <1>3, <1>4
  <2>2. len \div 2 \in 1 .. len - 1
    BY ONLY <2>1
  <2> QED
    BY ONLY <1>2, <2>2
<1>6. PICK lower, upper : /\ lower = AM_Compact(Leaf, 1, half, gap)
                          /\ upper = AM_Compact(Leaf, half + 1, len, gap)
  OBVIOUS
<1>7. Cut(Leaf, half, lower, upper, gap)
  BY ONLY <1>2, <1>5, <1>6 DEF Cut
<1>8. PICK low, up :
        /\ low = IF Place.index <= half
                 THEN AM_InsertintoLeaf(lower, call.key, call.id, PlaceInHalf(Place, half)) ELSE lower
        /\ up = IF Place.index <= half
                THEN upper ELSE AM_InsertintoLeaf(upper, call.key, call.id, PlaceInHalf(Place, half))
  OBVIOUS
<1>9. Halves(new, gap) = [lower |-> [low EXCEPT !.next = new], upper |-> up]
  <2>1. CASE Place.index <= half
    BY ONLY <1>2, <1>6, <1>8, <2>1 DEF Halves, PlaceInHalf
  <2>2. CASE ~(Place.index <= half)
    BY ONLY <1>2, <1>6, <1>8, <2>2 DEF Halves, PlaceInHalf
  <2> QED
    BY ONLY <2>1, <2>2
<1> QED
  BY ONLY <1>7, <1>8, <1>9 DEF Halved

LEMMA HalvesAreLeaves ==
  ASSUME NEW n, NEW h, NEW r, LeafState(n, h, r), ListsFit(Leaf.keys),
         ~InsertFits(Leaf, Place.found), NEW gap \in Gaps, NEW new
  PROVE  IsLeaf(Halves(new, gap).lower) /\ IsLeaf(Halves(new, gap).upper)
<1>1. PICK half, lower, upper, low, up : Halved(new, half, lower, upper, gap, low, up)
  BY HalvesCut
<1>2. Cut(Leaf, half, lower, upper, gap) /\ GoodLeaf(Leaf)
  BY <1>1 DEF Halved, LeafState
<1>3. GoodLeaf(lower) /\ GoodLeaf(upper) /\ ListsFit(lower.keys) /\ ListsFit(upper.keys)
  BY ONLY <1>2, ListsFit(Leaf.keys), LeafCut
<1>4. IsLeafRec(lower) /\ IsLeafRec(upper)
  <2>1. ASSUME NEW leaf, GoodLeaf(leaf) PROVE IsLeafRec(leaf)
    <3>1. leaf = LeafRec(leaf.keys, leaf.free, leaf.gap, leaf.next)
      BY ONLY <2>1, GoodLeafIs
    <3> QED
      BY ONLY <3>1 DEF IsLeafRec
  <2> QED
    BY ONLY <1>3, <2>1
<1>5. \A at : /\ IsLeafRec(AM_InsertintoLeaf(lower, call.key, call.id, at))
              /\ IsLeafRec(AM_InsertintoLeaf(upper, call.key, call.id, at))
  BY ONLY <1>3, InsertLeaves
<1>6. IsLeafRec(low) /\ IsLeafRec(up)
  BY ONLY <1>1, <1>4, <1>5 DEF Halved
<1>7. IsLeaf([low EXCEPT !.next = new]) /\ IsLeaf(up)
  BY ONLY <1>6, LeafRecIs
<1>8. Halves(new, gap) = [lower |-> [low EXCEPT !.next = new], upper |-> up]
  BY ONLY <1>1 DEF Halved
<1> QED
  BY ONLY <1>7, <1>8

(* The two leaves that AM_SplitLeaf makes of one with the range S.         *)
TwoLeaves(new, S, lower, upper, sep) ==
  /\ GoodLeaf(lower) /\ lower.next = new
  /\ GoodLeaf(upper) /\ upper.next = Leaf.next
  /\ LeafNode(lower, Low(S, sep)) /\ LeafNode(upper, High(S, sep))
  /\ sep \in Keys /\ sep \in Interior(S)
  /\ \A k, x : Holds(lower.keys, k, x) \/ Holds(upper.keys, k, x)
               <=> (k = call.key /\ x = call.id) \/ Holds(Leaf.keys, k, x)

LEMMA HalvesAre ==
  ASSUME NEW n, NEW h, NEW r, LeafState(n, h, r), CallState, call.op = "insert",
         ListsFit(Leaf.keys), ~InsertFits(Leaf, Place.found),
         NEW gap \in Gaps, NEW new \in Int, NEW halves, halves = Halves(new, gap),
         ListsFit(halves.lower.keys), ListsFit(halves.upper.keys)
  PROVE  TwoLeaves(new, r[call.at], halves.lower, halves.upper, Separator(halves))
<1>1. PICK half, lower, upper, low, up : Halved(new, half, lower, upper, gap, low, up)
  BY HalvesCut
<1>2. PICK key, id, at, leaf, S :
        key = call.key /\ id = call.id /\ at = Place /\ leaf = Leaf /\ S = r[call.at]
  OBVIOUS
<1>3. /\ GoodLeaf(leaf) /\ ListsFit(leaf.keys) /\ key \in Keys /\ id \in RecIds
      /\ ~Holds(leaf.keys, key, id) /\ KeyPlace(leaf.keys, key, at)
      /\ at = [found |-> at.found, index |-> at.index]
      /\ LeafNode(leaf, S) /\ key \in S /\ S \in SUBSET Int
  BY ONLY <1>2, LeafState(n, h, r), CallState, call.op = "insert", ListsFit(Leaf.keys)
     DEF LeafState, CallState
<1>4. /\ Cut(leaf, half, lower, upper, gap)
      /\ low = IF at.index <= half
               THEN AM_InsertintoLeaf(lower, key, id, PlaceInHalf(at, half)) ELSE lower
      /\ up = IF at.index <= half
              THEN upper ELSE AM_InsertintoLeaf(upper, key, id, PlaceInHalf(at, half))
      /\ halves = [lower |-> [low EXCEPT !.next = new], upper |-> up]
  BY ONLY <1>1, <1>2, halves = Halves(new, gap) DEF Halved
<1>5. halves.lower = [low EXCEPT !.next = new] /\ halves.upper = up
  BY ONLY <1>4
<1>6. IsLeafRec(low)
  <2>1. GoodLeaf(lower) /\ ListsFit(lower.keys)
    BY ONLY <1>3, <1>4, LeafCut
  <2>2. IsLeafRec(lower)
    <3>1. lower = LeafRec(lower.keys, lower.free, lower.gap, lower.next)
      BY ONLY <2>1, GoodLeafIs
    <3> QED
      BY ONLY <3>1 DEF IsLeafRec
  <2>3. \A a : IsLeafRec(AM_InsertintoLeaf(lower, key, id, a))
    BY ONLY <2>1, InsertLeaves
  <2> QED
    BY ONLY <1>4, <2>2, <2>3
<1>7. halves.lower.keys = low.keys
  BY ONLY <1>5, <1>6, LeafRecIs
<1>8. ListsFit(low.keys) /\ ListsFit(up.keys)
  BY ONLY <1>5, <1>7, ListsFit(halves.lower.keys), ListsFit(halves.upper.keys)
<1>9. /\ GoodLeaf(low) /\ GoodLeaf(up) /\ up.next = leaf.next
      /\ Split(leaf.keys, low.keys, up.keys, key, id) /\ low.keys # <<>> /\ up.keys # <<>>
  BY ONLY <1>3, <1>4, <1>8, LeafSplit
<1>10. PICK linked : linked = [low EXCEPT !.next = new]
  OBVIOUS
<1>11. GoodLeaf(linked) /\ linked.keys = low.keys /\ linked.next = new
  BY ONLY <1>9, <1>10, new \in Int, LeafLinked
<1>12. PICK sep, first, lows, ups : /\ lows = low.keys /\ ups = up.keys
                                    /\ sep = ups[1].key /\ first = lows[1].key
  OBVIOUS
<1>13. GoodKeys(lows) /\ GoodKeys(ups) /\ lows # <<>> /\ ups # <<>>
  BY ONLY <1>9, <1>12, GoodLeafIs
<1>14. /\ sep \in Keys /\ sep \in Int /\ \E x : Holds(ups, sep, x)
       /\ \A k, x : Holds(ups, k, x) => k \in Keys /\ k >= sep
  BY ONLY <1>12, <1>13, FirstKey
<1>15. /\ first \in Int /\ \E x : Holds(lows, first, x)
       /\ \A k, x : Holds(lows, k, x) => k \in Keys
  BY ONLY <1>12, <1>13, FirstKey
<1>16. /\ \A k, x : Holds(lows, k, x) \/ Holds(ups, k, x) <=> (k = key /\ x = id) \/ Holds(leaf.keys, k, x)
       /\ \E m \in Keys : /\ \A k, x : Holds(lows, k, x) => k <= m
                          /\ \A k, x : Holds(ups, k, x) => k > m
  BY ONLY <1>9, <1>12 DEF Split
<1>17. \A k, x : Holds(lows, k, x) \/ Holds(ups, k, x) => k \in S
  BY ONLY <1>3, <1>16 DEF LeafNode
<1>18. Keys \subseteq Int
  BY LeafAssumption
<1>19. \A k, x : Holds(lows, k, x) => k < sep
  <2>1. PICK m \in Keys : /\ \A k, x : Holds(lows, k, x) => k <= m
                          /\ \A k, x : Holds(ups, k, x) => k > m
    BY ONLY <1>16
  <2>2. sep > m
    BY ONLY <1>14, <2>1
  <2>3. m \in Int
    BY ONLY <1>18, m \in Keys
  <2>4. ASSUME NEW k, NEW x, Holds(lows, k, x) PROVE k < sep
    <3>1. k \in Int /\ k <= m
      BY ONLY <1>15, <1>18, <2>1, <2>4
    <3> QED
      BY ONLY <1>14, <2>2, <2>3, <3>1
  <2> QED
    BY ONLY <2>4
<1>20. sep \in Interior(S)
  <2>1. sep \in S /\ first \in S /\ first < sep
    BY ONLY <1>14, <1>15, <1>17, <1>19
  <2> QED
    BY ONLY <2>1 DEF Interior
<1>21. LeafNode(linked, Low(S, sep))
  BY ONLY <1>11, <1>12, <1>17, <1>19 DEF LeafNode, Low
<1>22. LeafNode(up, High(S, sep))
  BY ONLY <1>9, <1>12, <1>14, <1>17 DEF LeafNode, High
<1>23. Separator(halves) = sep
  BY ONLY <1>5, <1>12 DEF Separator
<1>24. halves.lower = linked /\ halves.upper = up
  BY ONLY <1>5, <1>10
<1> QED
  BY ONLY <1>2, <1>9, <1>11, <1>12, <1>14, <1>16, <1>20, <1>21, <1>22, <1>23, <1>24 DEF TwoLeaves

(* What the pages hold when a leaf is replaced by two.                     *)
LEMMA HeldByTwo ==
  ASSUME NEW P, NEW P2, NEW at \in DOMAIN P, IsLeaf(P[at]),
         NEW lo \in DOMAIN P2, IsLeaf(P2[lo]), NEW hi \in DOMAIN P2, IsLeaf(P2[hi]),
         \A x \in DOMAIN P : x # at => x \in DOMAIN P2 /\ P2[x] = P[x],
         \A x \in DOMAIN P2 : x = lo \/ x = hi \/ (x \in DOMAIN P /\ x # at) \/ ~IsLeaf(P2[x]),
         NEW key, NEW id,
         \A k, x : Holds(P2[lo].keys, k, x) \/ Holds(P2[hi].keys, k, x)
                   <=> (k = key /\ x = id) \/ Holds(P[at].keys, k, x)
  PROVE  Gains(P, P2, key, id)
<1>1. ASSUME NEW k, NEW x, HeldIn(P2, k, x) PROVE (k = key /\ x = id) \/ HeldIn(P, k, x)
  <2>1. PICK pg \in DOMAIN P2 : IsLeaf(P2[pg]) /\ Holds(P2[pg].keys, k, x)
    BY ONLY <1>1 DEF HeldIn
  <2>2. CASE pg = lo \/ pg = hi
    <3>1. Holds(P2[lo].keys, k, x) \/ Holds(P2[hi].keys, k, x)
      BY ONLY <2>1, <2>2
    <3>2. (k = key /\ x = id) \/ Holds(P[at].keys, k, x)
      BY <3>1
    <3> QED
      BY ONLY <3>2, at \in DOMAIN P, IsLeaf(P[at]) DEF HeldIn
  <2>3. CASE pg \in DOMAIN P /\ pg # at
    <3>1. P2[pg] = P[pg]
      BY <2>3
    <3> QED
      BY ONLY <2>1, <2>3, <3>1 DEF HeldIn
  <2> QED
    BY <2>1, <2>2, <2>3
<1>2. ASSUME NEW k, NEW x, (k = key /\ x = id) \/ HeldIn(P, k, x) PROVE HeldIn(P2, k, x)
  <2>1. ASSUME Holds(P2[lo].keys, k, x) \/ Holds(P2[hi].keys, k, x) PROVE HeldIn(P2, k, x)
    BY ONLY <2>1, IsLeaf(P2[lo]), IsLeaf(P2[hi]), lo \in DOMAIN P2, hi \in DOMAIN P2 DEF HeldIn
  <2>2. CASE k = key /\ x = id
    BY <2>1, <2>2
  <2>3. CASE HeldIn(P, k, x)
    <3>1. PICK pg \in DOMAIN P : IsLeaf(P[pg]) /\ Holds(P[pg].keys, k, x)
      BY ONLY <2>3 DEF HeldIn
    <3>2. CASE pg = at
      BY <2>1, <3>1, <3>2
    <3>3. CASE pg # at
      <4>1. pg \in DOMAIN P2 /\ P2[pg] = P[pg]
        BY <3>3
      <4> QED
        BY ONLY <3>1, <4>1 DEF HeldIn
    <3> QED
      BY ONLY <3>2, <3>3
  <2> QED
    BY ONLY <1>2, <2>2, <2>3
<1> QED
  BY <1>1, <1>2 DEF Gains

(* What they hold when no leaf changes.                                    *)
LEMMA HeldBySame ==
  ASSUME NEW P, NEW P2,
         \A x \in DOMAIN P : IsLeaf(P[x]) => x \in DOMAIN P2 /\ P2[x] = P[x],
         \A x \in DOMAIN P2 : IsLeaf(P2[x]) => x \in DOMAIN P /\ P2[x] = P[x]
  PROVE  SameHeld(P, P2)
<1>1. ASSUME NEW k, NEW x, HeldIn(P2, k, x) PROVE HeldIn(P, k, x)
  <2>1. PICK pg \in DOMAIN P2 : IsLeaf(P2[pg]) /\ Holds(P2[pg].keys, k, x)
    BY ONLY <1>1 DEF HeldIn
  <2>2. pg \in DOMAIN P /\ P2[pg] = P[pg]
    BY <2>1
  <2> QED
    BY ONLY <2>1, <2>2 DEF HeldIn
<1>2. ASSUME NEW k, NEW x, HeldIn(P, k, x) PROVE HeldIn(P2, k, x)
  <2>1. PICK pg \in DOMAIN P : IsLeaf(P[pg]) /\ Holds(P[pg].keys, k, x)
    BY ONLY <1>2 DEF HeldIn
  <2>2. pg \in DOMAIN P2 /\ P2[pg] = P[pg]
    BY <2>1
  <2> QED
    BY ONLY <2>1, <2>2 DEF HeldIn
<1> QED
  BY <1>1, <1>2 DEF SameHeld

(* A page is split whose way from the root is on the stack: then there is  *)
(* a tree as soon as the parent, at the top of the stack, has the new page.*)
SplitInTwo(P, Q, n, pg, lower, upper) ==
  /\ DOMAIN Q = 0 .. n /\ Q[pg] = lower /\ Q[n] = upper
  /\ \A x \in 0 .. n - 1 : x # pg => Q[x] = P[x]

LEMMA SplitGoesUp ==
  ASSUME NEW P, NEW n, NEW h, NEW r, GoodTree(P, n, h, r),
         NEW pg \in 0 .. n - 1, pg # Root, NEW st, Trail(P, h, st, pg),
         NEW sep \in Keys, sep \in Interior(r[pg]),
         NEW lower, GoodNode(lower, h[pg], Low(r[pg], sep), h, r),
         NEW upper, GoodNode(upper, h[pg], High(r[pg], sep), h, r),
         HalvesLinked(P, h[pg], pg, n, lower, upper),
         NEW Q, SplitInTwo(P, Q, n, pg, lower, upper),
         NEW c, c.at = NoPage, c.up = n, c.sep = sep, HeldIn(Q, c.key, c.id)
  PROVE  TreeOK(Q, c, st)
<1>1. n \in Nat \ {0} /\ DOMAIN P = 0 .. n - 1
  BY ONLY GoodTree(P, n, h, r), TreeIs
<1>2. /\ st # <<>> /\ Last(st) \in StepsOf(P) /\ Last(st).page \in 0 .. n - 1
      /\ Front(st) \in Seq(StepsOf(P))
      /\ Hop(P, h, Last(st), pg)
      /\ Trail(P, h, Front(st), Last(st).page)
  BY ONLY GoodTree(P, n, h, r), pg \in 0 .. n - 1, pg # Root, Trail(P, h, st, pg), TrailTop
<1>3. PICK e, below : e = Last(st) /\ below = Front(st)
  OBVIOUS
<1>4. /\ e \in StepsOf(P) /\ e.page \in 0 .. n - 1 /\ Hop(P, h, e, pg)
      /\ Trail(P, h, below, e.page)
  BY ONLY <1>2, <1>3
<1>5. /\ h[e.page] = h[pg] + 1 /\ h[e.page] # 0 /\ e.offset \in 0 .. Len(P[e.page].keys)
      /\ InnerNode(P[e.page], h[e.page], r[e.page], h, r)
  BY ONLY <1>4, GoodTree(P, n, h, r), pg \in 0 .. n - 1, HopIs
<1>6. \A x \in 0 .. n - 1 : h[x] \in Nat
  BY ONLY GoodTree(P, n, h, r), TreeIs
<1>7. e.page # pg
  <2>1. h[pg] \in Nat
    BY ONLY <1>6, pg \in 0 .. n - 1
  <2>2. h[pg] # h[pg] + 1
    BY ONLY <2>1
  <2> QED
    BY ONLY <1>5, <2>2
<1>8. Q[e.page] = P[e.page]
  BY ONLY <1>4, <1>7, SplitInTwo(P, Q, n, pg, lower, upper) DEF SplitInTwo
<1>9. PICK node : node = AM_AddtoIntPage(P[e.page], sep, n, e.offset)
  OBVIOUS
<1>10. PICK T : T = [Q EXCEPT ![e.page] = node]
  OBVIOUS
<1>11. Completed(Q, c, st) = T
  <2>1. c.up # NoPage
    BY ONLY <1>1, c.up = n DEF NoPage
  <2>2. TopAdded(Q, c, Last(st)) = node
    BY ONLY <1>3, <1>8, <1>9, c.up = n, c.sep = sep DEF TopAdded
  <2> QED
    BY ONLY <1>3, <1>10, <2>1, <2>2 DEF Completed
<1>12. DOMAIN Q = 0 .. n /\ e.page \in 0 .. n /\ n \notin 0 .. n - 1 /\ DOMAIN P \subseteq DOMAIN Q
  BY ONLY <1>1, <1>4, SplitInTwo(P, Q, n, pg, lower, upper) DEF SplitInTwo
<1>13. /\ DOMAIN T = 0 .. n /\ T[e.page] = node /\ \A x \in 0 .. n : x # e.page => T[x] = Q[x]
  BY ONLY <1>10, <1>12
<1>14. /\ T[pg] = lower /\ T[n] = upper
       /\ \A x \in 0 .. n - 1 : x # pg /\ x # e.page => T[x] = P[x]
  <2>1. pg \in 0 .. n /\ n \in 0 .. n /\ n # e.page /\ \A x \in 0 .. n - 1 : x \in 0 .. n
    BY ONLY <1>1, <1>4, pg \in 0 .. n - 1
  <2> QED
    BY ONLY <1>7, <1>13, <2>1, SplitInTwo(P, Q, n, pg, lower, upper) DEF SplitInTwo
<1>15. SplitPages(P, T, n, pg, lower, upper, e, sep)
  BY ONLY <1>9, <1>13, <1>14 DEF SplitPages
<1>16. PICK h2, r2 : GoodTree(T, n + 1, h2, r2) /\ \A x \in 0 .. n - 1 : h2[x] = h[x]
  BY ONLY <1>4, <1>15, GoodTree(P, n, h, r), pg \in 0 .. n - 1, pg # Root,
          sep \in Keys, sep \in Interior(r[pg]), GoodNode(lower, h[pg], Low(r[pg], sep), h, r),
          GoodNode(upper, h[pg], High(r[pg], sep), h, r),
          HalvesLinked(P, h[pg], pg, n, lower, upper), TreeSplit
<1>17. Trail(T, h2, below, e.page)
  <2>1. DOMAIN P \subseteq DOMAIN T
    BY ONLY <1>12, <1>13
  <2>2. ASSUME NEW x \in 0 .. n - 1, h[x] > h[e.page] PROVE T[x] = P[x]
    <3>1. h[x] \in Nat /\ h[e.page] \in Nat /\ h[pg] \in Nat
      BY ONLY <1>4, <1>6, x \in 0 .. n - 1, pg \in 0 .. n - 1
    <3>2. h[x] # h[pg] /\ h[x] # h[e.page]
      BY ONLY <1>5, <2>2, <3>1
    <3> QED
      BY ONLY <1>14, <3>2, x \in 0 .. n - 1
  <2> QED
    BY ONLY <1>4, <1>16, <2>1, <2>2, GoodTree(P, n, h, r), TrailKept
<1>18. Ascends(Q, T, c, st, h2)
  <2>1. ~IsLeaf(P[e.page])
    <3>1. P[e.page] = InternalNode(P[e.page].keys, P[e.page].children)
      BY ONLY <1>5 DEF InnerNode
    <3> QED
      BY ONLY <3>1, InternalIs
  <2>2. e \in StepsOf(Q)
    BY ONLY <1>4, <1>12 DEF StepsOf
  <2>3. e.offset <= Len(P[e.page].keys)
    BY ONLY <1>5
  <2>4. below \in Seq(StepsOf(Q))
    <3>1. below \in Seq(StepsOf(T))
      BY ONLY <1>17 DEF Trail
    <3>2. StepsOf(T) = StepsOf(Q)
      BY ONLY <1>12, <1>13 DEF StepsOf
    <3> QED
      BY ONLY <3>1, <3>2
  <2> QED
    BY ONLY <1>2, <1>3, <1>8, <1>17, <2>1, <2>2, <2>3, <2>4, HeldIn(Q, c.key, c.id) DEF Ascends
<1>19. TreeWith(Q, c, st, n + 1, h2, r2)
  BY ONLY <1>11, <1>16, <1>18, c.at = NoPage DEF TreeWith
<1> QED
  BY ONLY <1>19 DEF TreeOK

(* The leaf of the call is split, and both halves are among the pages P2.  *)
LEMMA LeafIsSplit ==
  ASSUME IInv, AllListsFit, MustSplit, NEW gap \in Gaps,
         NEW halves, halves = Halves(NumPages, gap), NEW P2, FitIn(P2),
         NEW lo \in DOMAIN P2, P2[lo] = halves.lower, NEW hi \in DOMAIN P2, P2[hi] = halves.upper
  PROVE  /\ IsLeaf(halves.lower) /\ IsLeaf(halves.upper)
         /\ CallState /\ call.op = "insert"
         /\ \E h, r : /\ LeafState(NumPages, h, r)
                      /\ TwoLeaves(NumPages, r[call.at], halves.lower, halves.upper, Separator(halves))
<1>1. call.op = "insert" /\ call.at # NoPage /\ ~InsertFits(Leaf, Place.found)
  BY DEF MustSplit, AtLeaf
<1>2. PICK h, r : LeafState(NumPages, h, r)
  BY ONLY <1>1, IInv, AtTheLeaf
<1>3. CallState
  BY ONLY <1>1, IInv, AtTheLeaf
<1>4. ListsFit(Leaf.keys)
  <2>1. call.at \in DOMAIN page /\ IsLeaf(Leaf)
    BY ONLY <1>2 DEF LeafState
  <2> QED
    BY ONLY <2>1, AllListsFit DEF AllListsFit, FitIn, Leaf
<1>5. IsLeaf(halves.lower) /\ IsLeaf(halves.upper)
  <2>1. IsLeaf(Halves(NumPages, gap).lower) /\ IsLeaf(Halves(NumPages, gap).upper)
    BY ONLY <1>1, <1>2, <1>4, gap \in Gaps, HalvesAreLeaves
  <2> QED
    BY ONLY <2>1, halves = Halves(NumPages, gap)
<1>6. ListsFit(halves.lower.keys) /\ ListsFit(halves.upper.keys)
  BY ONLY <1>5, FitIn(P2), lo \in DOMAIN P2, P2[lo] = halves.lower, hi \in DOMAIN P2,
          P2[hi] = halves.upper DEF FitIn
<1>7. NumPages \in Int
  <2>1. NumPages \in Nat \ {0}
    BY ONLY <1>2 DEF LeafState
  <2> QED
    BY ONLY <2>1
<1>8. TwoLeaves(NumPages, r[call.at], halves.lower, halves.upper, Separator(halves))
  BY ONLY <1>1, <1>2, <1>3, <1>4, <1>6, <1>7, gap \in Gaps, halves = Halves(NumPages, gap), HalvesAre
<1> QED
  BY ONLY <1>1, <1>2, <1>3, <1>5, <1>8

(* The pages are what they were but for a leaf that is split: its upper    *)
(* half is the page after them.                                            *)
LEMMA TwoLeafPages ==
  ASSUME NEW n, NEW h, NEW r, LeafState(n, h, r), PagesOK(page),
         NEW lower, NEW upper, NEW sep, NEW S, TwoLeaves(n, S, lower, upper, sep),
         IsLeaf(lower), IsLeaf(upper),
         NEW P2, P2 = With(n, upper, With(call.at, lower, page))
  PROVE  /\ SplitInTwo(page, P2, n, call.at, lower, upper)
         /\ PagesOK(P2) /\ DOMAIN page \subseteq DOMAIN P2 /\ DOMAIN P2 = 0 .. n
         /\ Gains(page, P2, call.key, call.id)
<1>1. /\ n \in Nat \ {0} /\ DOMAIN page = 0 .. n - 1 /\ call.at \in 0 .. n - 1
      /\ Leaf.next \in {AM_NULL_PAGE} \cup DOMAIN page /\ IsLeaf(page[call.at])
  BY ONLY LeafState(n, h, r) DEF LeafState, Leaf
<1>2. PICK at, Q : at = call.at /\ Q = With(at, lower, page)
  OBVIOUS
<1>3. DOMAIN Q = DOMAIN page \cup {at} /\ Q[at] = lower /\ \A x \in DOMAIN page : x # at => Q[x] = page[x]
  BY ONLY <1>2 DEF With
<1>4. P2 = With(n, upper, Q)
  BY ONLY <1>2, P2 = With(n, upper, With(call.at, lower, page))
<1>5. DOMAIN P2 = DOMAIN Q \cup {n} /\ P2[n] = upper /\ \A x \in DOMAIN Q : x # n => P2[x] = Q[x]
  BY ONLY <1>4 DEF With
<1>6. /\ DOMAIN page \cup {n} = 0 .. n /\ n \notin DOMAIN page /\ (n + 1) - 1 = n
      /\ n + 1 \in Nat \ {0}
  BY ONLY <1>1
<1>7. at \in DOMAIN page /\ DOMAIN Q = DOMAIN page
  BY ONLY <1>1, <1>2, <1>3
<1>8. /\ DOMAIN P2 = 0 .. n /\ P2[n] = upper /\ P2[at] = lower
      /\ \A x \in DOMAIN page : x # at => P2[x] = page[x]
  BY ONLY <1>3, <1>5, <1>6, <1>7
<1>9. SplitInTwo(page, P2, n, call.at, lower, upper)
  BY ONLY <1>1, <1>2, <1>8 DEF SplitInTwo
<1>10. DOMAIN page \subseteq DOMAIN P2
  BY ONLY <1>6, <1>8
<1>11. PagesOK(P2)
  <2>1. PageOK(lower, DOMAIN P2) /\ PageOK(upper, DOMAIN P2)
    <3>1. n \in DOMAIN P2
      BY ONLY <1>1, <1>8
    <3>2. GoodLeaf(lower) /\ lower.next = n /\ GoodLeaf(upper) /\ upper.next = Leaf.next
      BY ONLY TwoLeaves(n, S, lower, upper, sep) DEF TwoLeaves
    <3> QED
      BY ONLY <1>1, <1>10, <3>1, <3>2, IsLeaf(lower), IsLeaf(upper) DEF PageOK, LeafOK
  <2>2. \A pg \in DOMAIN P2 : (pg \in DOMAIN page /\ P2[pg] = page[pg]) \/ PageOK(P2[pg], DOMAIN P2)
    BY ONLY <1>6, <1>8, <2>1
  <2>3. PICK m : m = n + 1
    OBVIOUS
  <2>4. m \in Nat \ {0} /\ DOMAIN P2 = 0 .. m - 1
    BY ONLY <1>6, <1>8, <2>3
  <2> QED
    BY ONLY <1>10, <2>2, <2>4, PagesOK(page), PagesChanged
<1>12. Gains(page, P2, call.key, call.id)
  <2>1. \A k, x : Holds(P2[at].keys, k, x) \/ Holds(P2[n].keys, k, x)
                  <=> (k = call.key /\ x = call.id) \/ Holds(page[at].keys, k, x)
    BY ONLY <1>2, <1>8, TwoLeaves(n, S, lower, upper, sep) DEF TwoLeaves, Leaf
  <2>2. \A x \in DOMAIN page : x # at => x \in DOMAIN P2 /\ P2[x] = page[x]
    BY ONLY <1>8, <1>10
  <2>3. \A x \in DOMAIN P2 : x = at \/ x = n \/ (x \in DOMAIN page /\ x # at) \/ ~IsLeaf(P2[x])
    BY ONLY <1>6, <1>8
  <2>4. at \in DOMAIN P2 /\ n \in DOMAIN P2 /\ IsLeaf(P2[at]) /\ IsLeaf(P2[n])
    BY ONLY <1>6, <1>7, <1>8, IsLeaf(lower), IsLeaf(upper)
  <2> QED
    BY ONLY <1>1, <1>2, <1>7, <2>1, <2>2, <2>3, <2>4, HeldByTwo
<1> QED
  BY ONLY <1>8, <1>9, <1>10, <1>11, <1>12

(* SplitLeaf: the entry is in one of the two leaves, and the tree is one   *)
(* as soon as the new leaf is in its parent.                               *)
LEMMA AfterSplitLeaf ==
  ASSUME IInv, AllListsFit, AllListsFit', SplitLeaf
  PROVE  /\ IInv'
         /\ PairsIn(page') = PairsIn(page) \cup {<<call.key, call.id>>}
         /\ <<call.key, call.id>> \notin PairsIn(page)
         /\ call' = CallRec("insert", call.key, call.id, NoPage, NumPages, call'.sep)
         /\ NumPages # NoPage /\ call.up = NoPage /\ call.op = "insert"
<1>1. /\ MustSplit /\ call.at # Root
      /\ fixed' = fixed \ {call.at} /\ stack' = stack
      /\ leftPageNum' = leftPageNum /\ numBuffers' = numBuffers /\ ret' = ret
  BY DEF SplitLeaf
<1>2. PICK gap \in Gaps :
        /\ page' = With(NumPages, Halves(NumPages, gap).upper,
                     With(call.at, Halves(NumPages, gap).lower, page))
        /\ call' = [call EXCEPT !.at = NoPage, !.up = NumPages,
                                !.sep = Separator(Halves(NumPages, gap))]
  BY DEF SplitLeaf
<1>3. PICK n, at, halves, lower, upper, sep :
        /\ n = NumPages /\ at = call.at /\ halves = Halves(n, gap)
        /\ lower = halves.lower /\ upper = halves.upper /\ sep = Separator(halves)
  OBVIOUS
<1>4. PagesOK(page) /\ RestOK(page, fixed, stack, leftPageNum, numBuffers)
  BY DEF IInv
<1>5. n \in Nat \ {0} /\ DOMAIN page = 0 .. n - 1 /\ n \notin DOMAIN page /\ n # NoPage
  <2>1. NumPages \in Nat \ {0} /\ DOMAIN page = 0 .. NumPages - 1
    BY ONLY <1>4, NumPagesIs
  <2> QED
    BY ONLY <1>3, <2>1 DEF NoPage
<1>6. page' = With(n, upper, With(at, lower, page))
  BY ONLY <1>2, <1>3
<1>7. at \in DOMAIN page
  <2>1. call.at # NoPage
    BY ONLY <1>1 DEF MustSplit, AtLeaf
  <2>2. \E h, r : LeafState(NumPages, h, r)
    BY ONLY <2>1, IInv, AtTheLeaf
  <2> QED
    BY ONLY <1>3, <2>2 DEF LeafState
<1>8. /\ n \in DOMAIN page' /\ at \in DOMAIN page' /\ page'[n] = upper /\ page'[at] = lower
  <2>1. PICK Q : Q = With(at, lower, page)
    OBVIOUS
  <2>2. DOMAIN Q = DOMAIN page \cup {at} /\ Q[at] = lower
    BY ONLY <2>1 DEF With
  <2>3. PICK Q2 : Q2 = With(n, upper, Q)
    OBVIOUS
  <2>4. DOMAIN Q2 = DOMAIN Q \cup {n} /\ Q2[n] = upper /\ \A x \in DOMAIN Q : x # n => Q2[x] = Q[x]
    BY ONLY <2>3 DEF With
  <2> QED
    BY ONLY <1>5, <1>6, <1>7, <2>1, <2>2, <2>3, <2>4
<1>9. FitIn(page')
  BY ONLY AllListsFit' DEF AllListsFit
<1>10. /\ IsLeaf(lower) /\ IsLeaf(upper) /\ CallState /\ call.op = "insert"
       /\ \E h, r : LeafState(n, h, r) /\ TwoLeaves(n, r[at], lower, upper, sep)
  <2>1. halves = Halves(NumPages, gap) /\ page'[at] = halves.lower /\ page'[n] = halves.upper
    BY ONLY <1>3, <1>8
  <2>2. /\ IsLeaf(halves.lower) /\ IsLeaf(halves.upper) /\ CallState /\ call.op = "insert"
        /\ \E h, r : /\ LeafState(NumPages, h, r)
                     /\ TwoLeaves(NumPages, r[call.at], halves.lower, halves.upper, Separator(halves))
    BY ONLY <1>1, <1>8, <1>9, <2>1, IInv, AllListsFit, gap \in Gaps, LeafIsSplit
  <2> QED
    BY ONLY <1>3, <2>2
<1>11. PICK h, r : LeafState(n, h, r) /\ TwoLeaves(n, r[at], lower, upper, sep)
  BY ONLY <1>10
<1>12. /\ SplitInTwo(page, page', n, at, lower, upper)
       /\ PagesOK(page') /\ DOMAIN page \subseteq DOMAIN page' /\ DOMAIN page' = 0 .. n
       /\ Gains(page, page', call.key, call.id)
  BY ONLY <1>3, <1>4, <1>6, <1>10, <1>11, TwoLeafPages
<1>13. /\ call.key \in Keys /\ call.id \in RecIds /\ call.up = NoPage /\ ~HasPFError(ret)
       /\ ~HeldIn(page, call.key, call.id)
       /\ call = CallRec("insert", call.key, call.id, call.at, NoPage, call.sep)
  BY ONLY <1>10 DEF CallState
<1>14. call' = CallRec("insert", call.key, call.id, NoPage, n, sep)
  <2>1. PICK key, id, old, at2 : key = call.key /\ id = call.id /\ old = call.sep /\ at2 = call.at
    OBVIOUS
  <2>2. call = CallRec("insert", key, id, at2, NoPage, old)
    BY ONLY <1>13, <2>1
  <2>3. call' = [call EXCEPT !.at = NoPage, !.up = n, !.sep = sep]
    BY ONLY <1>2, <1>3
  <2>4. PICK op, none, c, c2 : op = "insert" /\ none = NoPage /\ c = call /\ c2 = call'
    OBVIOUS
  <2>5. /\ c = CallRec(op, key, id, at2, none, old)
        /\ c2 = [c EXCEPT !.at = none, !.up = n, !.sep = sep]
    BY ONLY <2>2, <2>3, <2>4
  <2>6. c2 = CallRec(op, key, id, none, n, sep)
    BY ONLY <2>5, Zenon DEF CallRec
  <2> QED
    BY ONLY <2>1, <2>4, <2>6
<1>15. /\ call'.op = "insert" /\ call'.key = call.key /\ call'.id = call.id /\ call'.at = NoPage
       /\ call'.up = n /\ call'.sep = sep
  BY ONLY <1>14, CallIs
<1>16. HeldIn(page', call.key, call.id)
  BY ONLY <1>12 DEF Gains
<1>17. sep \in Keys /\ sep \in Interior(r[at])
       /\ LeafNode(lower, Low(r[at], sep)) /\ LeafNode(upper, High(r[at], sep))
  BY ONLY <1>11 DEF TwoLeaves
<1>18. GoodTree(page, n, h, r) /\ at \in 0 .. n - 1 /\ h[at] = 0 /\ Trail(page, h, stack, at)
  BY ONLY <1>3, <1>11 DEF LeafState
<1>19. GoodNode(lower, h[at], Low(r[at], sep), h, r) /\ GoodNode(upper, h[at], High(r[at], sep), h, r)
  BY ONLY <1>17, <1>18 DEF GoodNode
<1>20. TreeOK(page', call', stack)
  <2>1. at # Root /\ HeldIn(page', call'.key, call'.id)
    BY ONLY <1>1, <1>3, <1>15, <1>16
  <2>2. HalvesLinked(page, h[at], at, n, lower, upper)
    BY ONLY <1>3, <1>11 DEF TwoLeaves, Leaf, HalvesLinked
  <2> QED
    BY ONLY <1>12, <1>15, <1>17, <1>18, <1>19, <2>1, <2>2, SplitGoesUp
<1>21. CallOK(call', page', ret')
  <2>1. n \in DOMAIN page'
    BY ONLY <1>8
  <2> QED
    BY ONLY <1>1, <1>13, <1>14, <1>15, <1>17, <2>1 DEF CallOK, InCall
<1>22. RestOK(page', fixed', stack', leftPageNum', numBuffers')
  <2>1. fixed \subseteq DOMAIN page /\ Cardinality(fixed) <= numBuffers /\ numBuffers \in Nat
        /\ stack \in Seq(StepsOf(page))
    BY ONLY <1>4 DEF RestOK
  <2>2. IsFiniteSet(DOMAIN page)
    BY ONLY <1>5, FirstPages
  <2>3. Cardinality(fixed \ {at}) <= Cardinality(fixed) /\ Cardinality(fixed \ {at}) \in Nat
        /\ Cardinality(fixed) \in Nat
    BY ONLY <2>1, <2>2, OneMoreFixed
  <2>4. PICK f2 : f2 = fixed \ {at}
    OBVIOUS
  <2>5. Cardinality(f2) <= numBuffers /\ f2 \subseteq DOMAIN page'
    BY ONLY <1>12, <2>1, <2>3, <2>4
  <2>6. RestOK(page', f2, stack, leftPageNum, numBuffers)
    BY ONLY <1>4, <1>12, <2>1, <2>5, RestKept
  <2> QED
    BY ONLY <1>1, <1>3, <2>4, <2>6
<1>23. IInv'
  BY ONLY <1>1, <1>12, <1>20, <1>21, <1>22 DEF IInv
<1>24. /\ PairsIn(page') = PairsIn(page) \cup {<<call.key, call.id>>}
       /\ <<call.key, call.id>> \notin PairsIn(page)
  <2>1. PICK P, P2, key, id : P = page /\ P2 = page' /\ key = call.key /\ id = call.id
    OBVIOUS
  <2>2. key \in Keys /\ id \in RecIds /\ Gains(P, P2, key, id) /\ ~HeldIn(P, key, id)
    BY ONLY <1>12, <1>13, <2>1
  <2>3. PairsIn(P2) = PairsIn(P) \cup {<<key, id>>}
    BY ONLY <2>2, PairsMore
  <2>4. <<key, id>> \notin PairsIn(P)
    BY ONLY <2>2, PairsChange
  <2> QED
    BY ONLY <2>1, <2>3, <2>4
<1> QED
  BY ONLY <1>3, <1>5, <1>10, <1>13, <1>14, <1>15, <1>23, <1>24

(* The root is split: both halves are new pages.                           *)
LEMMA RaisedPages ==
  ASSUME NEW P, NEW n \in Nat \ {0}, DOMAIN P = 0 .. n - 1, NEW lower, NEW upper, NEW sep,
         NEW P2, P2 = With(n + 1, lower,
                        With(n, upper, With(Root, InternalNode(<<sep>>, <<n + 1, n>>), P)))
  PROVE  /\ Raised(P, P2, n, lower, upper, sep)
         /\ DOMAIN P \subseteq DOMAIN P2 /\ n \in DOMAIN P2 /\ n + 1 \in DOMAIN P2
<1>1. PICK m, root, Q1, Q2 :
        /\ m = n + 1 /\ root = InternalNode(<<sep>>, <<n + 1, n>>)
        /\ Q1 = With(Root, root, P) /\ Q2 = With(n, upper, Q1)
  OBVIOUS
<1>2. Root \in DOMAIN P /\ n # Root /\ m # Root /\ m # n /\ n \notin DOMAIN P /\ m \notin DOMAIN P
      /\ (DOMAIN P \cup {n}) \cup {m} = 0 .. m
  BY ONLY <1>1, DOMAIN P = 0 .. n - 1, n \in Nat \ {0} DEF Root
<1>3. DOMAIN Q1 = DOMAIN P \cup {Root} /\ Q1[Root] = root /\ \A x \in DOMAIN P : x # Root => Q1[x] = P[x]
  BY ONLY <1>1 DEF With
<1>4. DOMAIN Q2 = DOMAIN Q1 \cup {n} /\ Q2[n] = upper /\ \A x \in DOMAIN Q1 : x # n => Q2[x] = Q1[x]
  BY ONLY <1>1 DEF With
<1>5. P2 = With(m, lower, Q2)
  BY ONLY <1>1, P2 = With(n + 1, lower,
                       With(n, upper, With(Root, InternalNode(<<sep>>, <<n + 1, n>>), P)))
<1>6. DOMAIN P2 = DOMAIN Q2 \cup {m} /\ P2[m] = lower /\ \A x \in DOMAIN Q2 : x # m => P2[x] = Q2[x]
  BY ONLY <1>5 DEF With
<1>7. DOMAIN Q1 = DOMAIN P /\ DOMAIN P2 = 0 .. m /\ DOMAIN Q2 = DOMAIN P \cup {n}
  BY ONLY <1>2, <1>3, <1>4, <1>6
<1>8. P2[Root] = root /\ P2[n] = upper /\ P2[m] = lower
  BY ONLY <1>2, <1>3, <1>4, <1>6, <1>7
<1>9. ASSUME NEW x \in DOMAIN P, x # Root PROVE P2[x] = P[x]
  <2>1. x # n /\ x # m
    BY ONLY <1>2, x \in DOMAIN P
  <2> QED
    BY ONLY <1>3, <1>4, <1>6, <1>7, <1>9, <2>1
<1>10. DOMAIN P \subseteq DOMAIN P2 /\ n \in DOMAIN P2 /\ m \in DOMAIN P2
  BY ONLY <1>6, <1>7
<1> QED
  BY ONLY <1>1, <1>7, <1>8, <1>9, <1>10, DOMAIN P = 0 .. n - 1 DEF Raised

LEMMA RaisedOK ==
  ASSUME NEW P, PagesOK(P), NEW n \in Nat \ {0}, DOMAIN P = 0 .. n - 1,
         NEW lower, NEW upper, NEW sep \in Keys, NEW P2, Raised(P, P2, n, lower, upper, sep),
         PageOK(lower, DOMAIN P2), PageOK(upper, DOMAIN P2)
  PROVE  PagesOK(P2) /\ ~IsLeaf(P2[Root])
<1>1. PICK m, root : m = n + 1 /\ root = InternalNode(<<sep>>, <<n + 1, n>>)
  OBVIOUS
<1>2. /\ DOMAIN P2 = 0 .. m /\ P2[Root] = root /\ P2[n] = upper /\ P2[m] = lower
      /\ \A x \in DOMAIN P : x # Root => P2[x] = P[x]
  BY ONLY <1>1, Raised(P, P2, n, lower, upper, sep), DOMAIN P = 0 .. n - 1 DEF Raised
<1>3. /\ m + 1 \in Nat \ {0} /\ (m + 1) - 1 = m /\ DOMAIN P \subseteq 0 .. m
      /\ n \in 0 .. m /\ m \in 0 .. m /\ \A x \in 0 .. m : x \in DOMAIN P \/ x = n \/ x = m
  BY ONLY <1>1, n \in Nat \ {0}, DOMAIN P = 0 .. n - 1
<1>4. /\ root.keys = <<sep>> /\ root.children = <<m, n>> /\ ~IsLeaf(root)
      /\ root = InternalNode(root.keys, root.children)
  <2>1. PICK keys, children : keys = <<sep>> /\ children = <<m, n>>
    OBVIOUS
  <2>2. root = InternalNode(keys, children)
    BY ONLY <1>1, <2>1
  <2>3. root.keys = keys /\ root.children = children /\ ~IsLeaf(root)
    BY ONLY <2>2, InternalIs
  <2> QED
    BY ONLY <2>1, <2>2, <2>3
<1>5. PageOK(root, DOMAIN P2)
  <2>1. MaxKeys \in Nat \ {0}
    BY TreeAssumption
  <2>2. <<sep>> \in Seq(Keys) /\ Len(<<sep>>) = 1 /\ 1 \in 1 .. MaxKeys
    BY ONLY <2>1, sep \in Keys
  <2>3. <<m, n>> \in Seq(DOMAIN P2) /\ Len(<<m, n>>) = 1 + 1
    <3>1. m \in DOMAIN P2 /\ n \in DOMAIN P2
      BY ONLY <1>2, <1>3
    <3> QED
      BY ONLY <3>1
  <2>4. NodeOK(root, DOMAIN P2)
    BY ONLY <1>4, <2>2, <2>3 DEF NodeOK
  <2> QED
    BY ONLY <1>4, <2>4 DEF PageOK
<1>6. \A pg \in DOMAIN P2 : (pg \in DOMAIN P /\ P2[pg] = P[pg]) \/ PageOK(P2[pg], DOMAIN P2)
  BY ONLY <1>2, <1>3, <1>5, PageOK(lower, DOMAIN P2), PageOK(upper, DOMAIN P2)
<1>7. PICK k : k = m + 1
  OBVIOUS
<1>8. k \in Nat \ {0} /\ DOMAIN P2 = 0 .. k - 1 /\ DOMAIN P \subseteq DOMAIN P2
  BY ONLY <1>2, <1>3, <1>7
<1>9. PagesOK(P2)
  BY ONLY <1>6, <1>8, PagesOK(P), PagesChanged
<1> QED
  BY ONLY <1>2, <1>4, <1>9

(* SplitRootLeaf: the root is a leaf no longer.                            *)
LEMMA AfterSplitRootLeaf ==
  ASSUME IInv, AllListsFit, AllListsFit', SplitRootLeaf
  PROVE  /\ IInv'
         /\ PairsIn(page') = PairsIn(page) \cup {<<call.key, call.id>>}
         /\ call.up = NoPage /\ call.op = "insert"
<1>1. /\ MustSplit /\ call.at = Root
      /\ leftPageNum' = NumPages + 1 /\ fixed' = fixed \ {Root} /\ stack' = <<>>
      /\ call' = Idle /\ ret' = OK("insert") /\ numBuffers' = numBuffers
  BY DEF SplitRootLeaf, Return
<1>2. PICK gap \in Gaps :
        page' = With(NumPages + 1, Halves(NumPages, gap).lower,
                  With(NumPages, Halves(NumPages, gap).upper,
                    With(Root, InternalNode(<<Separator(Halves(NumPages, gap))>>,
                                            <<NumPages + 1, NumPages>>), page)))
  BY DEF SplitRootLeaf
<1>3. PICK n, halves, lower, upper, sep :
        /\ n = NumPages /\ halves = Halves(n, gap)
        /\ lower = halves.lower /\ upper = halves.upper /\ sep = Separator(halves)
  OBVIOUS
<1>4. PagesOK(page) /\ RestOK(page, fixed, stack, leftPageNum, numBuffers)
  BY DEF IInv
<1>5. n \in Nat \ {0} /\ DOMAIN page = 0 .. n - 1
  <2>1. NumPages \in Nat \ {0} /\ DOMAIN page = 0 .. NumPages - 1
    BY ONLY <1>4, NumPagesIs
  <2> QED
    BY ONLY <1>3, <2>1
<1>6. page' = With(n + 1, lower, With(n, upper, With(Root, InternalNode(<<sep>>, <<n + 1, n>>), page)))
  BY ONLY <1>2, <1>3
<1>7. /\ Raised(page, page', n, lower, upper, sep)
      /\ DOMAIN page \subseteq DOMAIN page' /\ n \in DOMAIN page' /\ n + 1 \in DOMAIN page'
  BY ONLY <1>5, <1>6, RaisedPages
<1>8. /\ DOMAIN page' = 0 .. n + 1 /\ page'[n] = upper /\ page'[n + 1] = lower
      /\ \A x \in DOMAIN page : x # Root => page'[x] = page[x]
  BY ONLY <1>5, <1>7 DEF Raised
<1>9. FitIn(page')
  BY ONLY AllListsFit' DEF AllListsFit
<1>10. /\ IsLeaf(lower) /\ IsLeaf(upper) /\ CallState /\ call.op = "insert"
       /\ \E h, r : LeafState(n, h, r) /\ TwoLeaves(n, r[Root], lower, upper, sep)
  <2>1. halves = Halves(NumPages, gap) /\ page'[n + 1] = halves.lower /\ page'[n] = halves.upper
    BY ONLY <1>3, <1>8
  <2>2. /\ IsLeaf(halves.lower) /\ IsLeaf(halves.upper) /\ CallState /\ call.op = "insert"
        /\ \E h, r : /\ LeafState(NumPages, h, r)
                     /\ TwoLeaves(NumPages, r[call.at], halves.lower, halves.upper, Separator(halves))
    BY ONLY <1>1, <1>7, <1>9, <2>1, IInv, AllListsFit, gap \in Gaps, LeafIsSplit
  <2> QED
    BY ONLY <1>1, <1>3, <2>2
<1>11. PICK h, r : LeafState(n, h, r) /\ TwoLeaves(n, r[Root], lower, upper, sep)
  BY ONLY <1>10
<1>12. /\ GoodTree(page, n, h, r) /\ h[Root] = 0 /\ IsLeaf(page[Root]) /\ Root \in DOMAIN page
       /\ Leaf.next \in {AM_NULL_PAGE} \cup DOMAIN page /\ Leaf = page[Root]
  BY ONLY <1>1, <1>11 DEF LeafState, Leaf
<1>13. r[Root] = Int
  BY ONLY <1>12, TreeIs
<1>14. /\ GoodLeaf(lower) /\ lower.next = n /\ GoodLeaf(upper) /\ upper.next = Leaf.next
       /\ LeafNode(lower, Low(Int, sep)) /\ LeafNode(upper, High(Int, sep)) /\ sep \in Keys
       /\ \A k, x : Holds(lower.keys, k, x) \/ Holds(upper.keys, k, x)
                    <=> (k = call.key /\ x = call.id) \/ Holds(Leaf.keys, k, x)
  BY ONLY <1>11, <1>13 DEF TwoLeaves
<1>15. GoodNode(lower, h[Root], Low(Int, sep), h, r) /\ GoodNode(upper, h[Root], High(Int, sep), h, r)
  BY ONLY <1>12, <1>14 DEF GoodNode
<1>16. PICK h2, r2 : GoodTree(page', n + 2, h2, r2)
  <2>1. HalvesLinked(page, h[Root], Root, n, lower, upper)
    BY ONLY <1>12, <1>14 DEF HalvesLinked
  <2> QED
    BY ONLY <1>7, <1>12, <1>14, <1>15, <2>1, RootIsSplit
<1>17. PagesOK(page') /\ ~IsLeaf(page'[Root])
  <2>1. PageOK(lower, DOMAIN page') /\ PageOK(upper, DOMAIN page')
    BY ONLY <1>7, <1>10, <1>12, <1>14 DEF PageOK, LeafOK
  <2> QED
    BY ONLY <1>4, <1>5, <1>7, <1>14, <2>1, RaisedOK
<1>18. TreeOK(page', call', stack')
  <2>1. call'.at = NoPage /\ call'.up = NoPage
    BY ONLY <1>1, IdleIs
  <2>2. \E m : TreeWith(page', call', stack', m, h2, r2)
    BY ONLY <1>16, <2>1 DEF TreeWith, Completed
  <2> QED
    BY ONLY <2>2 DEF TreeOK
<1>19. RestOK(page', fixed', stack', leftPageNum', numBuffers')
  <2>1. fixed \subseteq DOMAIN page /\ Cardinality(fixed) <= numBuffers /\ numBuffers \in Nat
    BY ONLY <1>4 DEF RestOK
  <2>2. IsFiniteSet(DOMAIN page)
    BY ONLY <1>5, FirstPages
  <2>3. Cardinality(fixed \ {Root}) <= Cardinality(fixed) /\ Cardinality(fixed \ {Root}) \in Nat
        /\ Cardinality(fixed) \in Nat
    BY ONLY <2>1, <2>2, OneMoreFixed
  <2>4. PICK f2, left2, st2 : f2 = fixed \ {Root} /\ left2 = n + 1 /\ st2 = <<>>
    OBVIOUS
  <2>5. /\ Cardinality(f2) <= numBuffers /\ f2 \subseteq DOMAIN page'
        /\ left2 = leftPageNum \/ left2 \in DOMAIN page'
        /\ st2 = <<>> \/ st2 \in Seq(StepsOf(page)) \/ st2 \in Seq(StepsOf(page'))
    BY ONLY <1>7, <2>1, <2>3, <2>4
  <2>6. RestOK(page', f2, st2, left2, numBuffers)
    BY ONLY <1>4, <1>7, <2>5, RestKept
  <2> QED
    BY ONLY <1>1, <1>3, <2>4, <2>6
<1>20. IInv'
  BY ONLY <1>1, <1>17, <1>18, <1>19 DEF IInv, CallOK
<1>21. Gains(page, page', call.key, call.id)
  <2>1. PICK m : m = n + 1
    OBVIOUS
  <2>2. /\ m \in DOMAIN page' /\ IsLeaf(page'[m]) /\ n \in DOMAIN page' /\ IsLeaf(page'[n])
        /\ page'[m] = lower /\ page'[n] = upper
    BY ONLY <1>7, <1>8, <1>10, <2>1
  <2>3. \A k, x : Holds(page'[m].keys, k, x) \/ Holds(page'[n].keys, k, x)
                  <=> (k = call.key /\ x = call.id) \/ Holds(page[Root].keys, k, x)
    BY ONLY <1>12, <1>14, <2>2
  <2>4. \A x \in DOMAIN page : x # Root => x \in DOMAIN page' /\ page'[x] = page[x]
    BY ONLY <1>7, <1>8
  <2>5. \A x \in DOMAIN page' : x = m \/ x = n \/ (x \in DOMAIN page /\ x # Root) \/ ~IsLeaf(page'[x])
    <3>1. \A x \in DOMAIN page' : x = m \/ x = n \/ x \in DOMAIN page
      BY ONLY <1>5, <1>8, <2>1
    <3> QED
      BY ONLY <1>17, <3>1
  <2> QED
    BY ONLY <1>12, <2>2, <2>3, <2>4, <2>5, HeldByTwo
<1>22. call.key \in Keys /\ call.id \in RecIds /\ call.up = NoPage
  BY ONLY <1>10 DEF CallState
<1>23. PairsIn(page') = PairsIn(page) \cup {<<call.key, call.id>>}
  <2>1. PICK P, P2, key, id : P = page /\ P2 = page' /\ key = call.key /\ id = call.id
    OBVIOUS
  <2>2. key \in Keys /\ id \in RecIds /\ Gains(P, P2, key, id)
    BY ONLY <1>21, <1>22, <2>1
  <2>3. PairsIn(P2) = PairsIn(P) \cup {<<key, id>>}
    BY ONLY <2>2, PairsMore
  <2> QED
    BY ONLY <2>1, <2>3
<1> QED
  BY ONLY <1>10, <1>20, <1>22, <1>23

(* SplitLeafFails: the entry may be in the pages, and nothing follows.     *)
LEMMA AfterSplitLeafFails ==
  ASSUME IInv, AllListsFit, AllListsFit', SplitLeafFails
  PROVE  /\ IInv' /\ call.up = NoPage /\ call.op = "insert"
         /\ \/ PairsIn(page') = PairsIn(page)
            \/ PairsIn(page') = PairsIn(page) \cup {<<call.key, call.id>>}
<1>1. /\ MustSplit /\ stack' = <<>> /\ call' = Idle /\ ret' = PFError("insert")
      /\ leftPageNum' = leftPageNum /\ numBuffers' = numBuffers
      /\ call.op = "insert" /\ call.at # NoPage
  BY DEF SplitLeafFails, Return, MustSplit, AtLeaf
<1>2. PagesOK(page) /\ RestOK(page, fixed, stack, leftPageNum, numBuffers)
  BY DEF IInv
<1>3. HasPFError(ret')
  BY ONLY <1>1, ReturnedIs
<1>4. CallOK(call', page', ret') /\ Failed(call', ret')
  BY ONLY <1>1, <1>3 DEF CallOK, Failed
<1>5. CallState
  BY ONLY <1>1, IInv, AtTheLeaf
<1>6. call.key \in Keys /\ call.id \in RecIds /\ call.up = NoPage
  BY ONLY <1>5 DEF CallState
<1>7. /\ fixed \subseteq DOMAIN page /\ Cardinality(fixed) <= numBuffers /\ numBuffers \in Nat
  BY ONLY <1>2 DEF RestOK
<1>8. CASE page' = page /\ fixed' = fixed
  <2>1. RestOK(page, fixed, stack', leftPageNum, numBuffers)
    <3>1. stack' = <<>> \/ stack' \in Seq(StepsOf(page))
      BY ONLY <1>1
    <3> QED
      BY ONLY <1>2, <1>7, <3>1, RestKept
  <2>2. IInv'
    BY ONLY <1>1, <1>2, <1>4, <1>8, <2>1 DEF IInv
  <2> QED
    BY ONLY <1>1, <1>6, <1>8, <2>2
<1>9. CASE /\ call.at = Root /\ FreeBuffers = 1
           /\ \E gap \in Gaps :
                page' = With(NumPages, Halves(NumPages, gap).upper,
                          With(Root, Halves(NumPages, gap).lower, page))
           /\ fixed' = fixed \cup {NumPages}
  <2>1. PICK gap \in Gaps :
          page' = With(NumPages, Halves(NumPages, gap).upper,
                    With(Root, Halves(NumPages, gap).lower, page))
    BY ONLY <1>9
  <2>2. PICK n, halves, lower, upper, sep :
          /\ n = NumPages /\ halves = Halves(n, gap)
          /\ lower = halves.lower /\ upper = halves.upper /\ sep = Separator(halves)
    OBVIOUS
  <2>3. n \in Nat \ {0} /\ DOMAIN page = 0 .. n - 1 /\ IsFiniteSet(DOMAIN page) /\ Root \in DOMAIN page
    <3>1. /\ NumPages \in Nat \ {0} /\ DOMAIN page = 0 .. NumPages - 1
          /\ IsFiniteSet(DOMAIN page) /\ Root \in DOMAIN page
      BY ONLY <1>2, NumPagesIs
    <3> QED
      BY ONLY <2>2, <3>1
  <2>4. PICK Q : Q = With(Root, lower, page)
    OBVIOUS
  <2>5. page' = With(n, upper, Q)
    BY ONLY <2>1, <2>2, <2>4
  <2>6. DOMAIN Q = DOMAIN page \cup {Root} /\ Q[Root] = lower
    BY ONLY <2>4 DEF With
  <2>7. /\ DOMAIN page' = DOMAIN Q \cup {n} /\ page'[n] = upper
        /\ \A x \in DOMAIN Q : x # n => page'[x] = Q[x]
    BY ONLY <2>5 DEF With
  <2>8. Root # n
    BY ONLY <2>3
  <2>9. Root \in DOMAIN page' /\ page'[Root] = lower /\ n \in DOMAIN page'
    BY ONLY <2>6, <2>7, <2>8
  <2>10. FitIn(page')
    BY ONLY AllListsFit' DEF AllListsFit
  <2>11. /\ IsLeaf(lower) /\ IsLeaf(upper)
         /\ \E h, r : LeafState(n, h, r) /\ TwoLeaves(n, r[Root], lower, upper, sep)
    <3>1. halves = Halves(NumPages, gap) /\ page'[Root] = halves.lower /\ page'[n] = halves.upper
      BY ONLY <2>2, <2>7, <2>9
    <3>2. /\ IsLeaf(halves.lower) /\ IsLeaf(halves.upper)
          /\ \E h, r : /\ LeafState(NumPages, h, r)
                       /\ TwoLeaves(NumPages, r[call.at], halves.lower, halves.upper, Separator(halves))
      BY ONLY <1>1, <2>9, <2>10, <3>1, IInv, AllListsFit, gap \in Gaps, LeafIsSplit
    <3> QED
      BY ONLY <1>9, <2>2, <3>2
  <2>12. PICK h, r : LeafState(n, h, r) /\ TwoLeaves(n, r[Root], lower, upper, sep)
    BY ONLY <2>11
  <2>13. page' = With(n, upper, With(call.at, lower, page))
    BY ONLY <1>9, <2>1, <2>2
  <2>14. /\ PagesOK(page') /\ DOMAIN page \subseteq DOMAIN page'
         /\ Gains(page, page', call.key, call.id)
    BY ONLY <1>2, <2>11, <2>12, <2>13, TwoLeafPages
  <2>15. RestOK(page', fixed', stack', leftPageNum, numBuffers)
    <3>1. Cardinality(fixed \cup {n}) <= Cardinality(fixed) + 1 /\ Cardinality(fixed) \in Nat
          /\ Cardinality(fixed \cup {n}) \in Nat
      BY ONLY <1>7, <2>3, OneMoreFixed
    <3>2. numBuffers - Cardinality(fixed) = 1
      BY ONLY <1>9 DEF FreeBuffers
    <3>3. PICK f2, st2 : f2 = fixed \cup {n} /\ st2 = <<>>
      OBVIOUS
    <3>4. Cardinality(f2) <= numBuffers
      BY ONLY <1>7, <3>1, <3>2, <3>3
    <3>5. f2 \subseteq DOMAIN page' /\ (st2 = <<>> \/ st2 \in Seq(StepsOf(page)))
      BY ONLY <1>7, <2>9, <2>14, <3>3
    <3>6. RestOK(page', f2, st2, leftPageNum, numBuffers)
      BY ONLY <1>2, <2>14, <3>4, <3>5, RestKept
    <3> QED
      BY ONLY <1>1, <1>9, <2>2, <3>3, <3>6
  <2>16. IInv'
    BY ONLY <1>1, <1>4, <2>14, <2>15 DEF IInv
  <2>17. PairsIn(page') = PairsIn(page) \cup {<<call.key, call.id>>}
    <3>1. PICK P, P2, key, id : P = page /\ P2 = page' /\ key = call.key /\ id = call.id
      OBVIOUS
    <3>2. key \in Keys /\ id \in RecIds /\ Gains(P, P2, key, id)
      BY ONLY <1>6, <2>14, <3>1
    <3>3. PairsIn(P2) = PairsIn(P) \cup {<<key, id>>}
      BY ONLY <3>2, PairsMore
    <3> QED
      BY ONLY <3>1, <3>3
  <2> QED
    BY ONLY <1>1, <1>6, <2>16, <2>17
<1> QED
  BY <1>8, <1>9 DEF SplitLeafFails

-----------------------------------------------------------------------------
(***************************************************************************)
(* At the parent.                                                          *)
(***************************************************************************)
UpState(T, n, h, r) ==
  /\ T = [page EXCEPT ![Parent] = Widened]
  /\ GoodTree(T, n, h, r) /\ n \in Nat \ {0} /\ DOMAIN page = 0 .. n - 1 /\ DOMAIN T = 0 .. n - 1
  /\ Parent \in 0 .. n - 1 /\ T[Parent] = Widened
  /\ \A x \in 0 .. n - 1 : x # Parent => T[x] = page[x]
  /\ ~IsLeaf(page[Parent]) /\ ~IsLeaf(Widened)
  /\ InnerNode(Widened, h[Parent], r[Parent], h, r) /\ h[Parent] # 0 /\ h[Parent] \in Nat
  /\ r[Parent] \in SUBSET Int
  /\ Len(Widened.keys) = Len(ParentNode.keys) + 1 /\ Len(ParentNode.keys) \in 1 .. MaxKeys
  /\ Trail(T, h, Front(stack), Parent) /\ Front(stack) \in Seq(StepsOf(page))

UpCall ==
  /\ call = CallRec("insert", call.key, call.id, NoPage, call.up, call.sep)
  /\ call.op = "insert" /\ call.key \in Keys /\ call.id \in RecIds /\ call.at = NoPage
  /\ call # Idle /\ ~HasPFError(ret) /\ HeldIn(page, call.key, call.id)

LEMMA AtTheParent ==
  ASSUME IInv, call.up # NoPage
  PROVE  (\E T, h, r : UpState(T, NumPages, h, r)) /\ UpCall
<1>1. /\ PagesOK(page) /\ CallOK(call, page, ret)
      /\ Failed(call, ret) \/ TreeOK(page, call, stack)
  BY DEF IInv
<1>2. call # Idle
  BY IdleIs
<1>3. InCall(call, page) /\ ~HasPFError(ret) /\ TreeOK(page, call, stack)
  BY ONLY <1>1, <1>2 DEF CallOK, Failed
<1>4. /\ call.op = "insert" /\ call.at = NoPage /\ call.up \in DOMAIN page /\ call.sep \in Keys
      /\ call.key \in Keys /\ call.id \in RecIds
      /\ call = CallRec(call.op, call.key, call.id, call.at, call.up, call.sep)
  BY ONLY <1>3, call.up # NoPage DEF InCall
<1>5. PICK n, h, r : TreeWith(page, call, stack, n, h, r)
  BY ONLY <1>3 DEF TreeOK
<1>6. PICK T, e : T = Completed(page, call, stack) /\ e = Last(stack)
  OBVIOUS
<1>7. GoodTree(T, n, h, r) /\ Ascends(page, T, call, stack, h)
  BY ONLY <1>5, <1>6, call.up # NoPage DEF TreeWith
<1>8. /\ e \in StepsOf(page) /\ ~IsLeaf(page[e.page]) /\ e.offset <= Len(page[e.page].keys)
      /\ Front(stack) \in Seq(StepsOf(page)) /\ Trail(T, h, Front(stack), e.page)
      /\ HeldIn(page, call.key, call.id)
  BY ONLY <1>6, <1>7 DEF Ascends
<1>9. e.page \in DOMAIN page /\ e.offset \in Nat
  BY ONLY <1>8 DEF StepsOf
<1>10. e.page = Parent /\ TopAdded(page, call, e) = Widened
  BY ONLY <1>6 DEF Parent, TopAdded, Widened, ParentNode
<1>11. T = [page EXCEPT ![Parent] = Widened]
  BY ONLY <1>6, <1>10, call.up # NoPage DEF Completed
<1>12. /\ DOMAIN T = DOMAIN page /\ T[Parent] = Widened
       /\ \A x \in DOMAIN page : x # Parent => T[x] = page[x]
  BY ONLY <1>9, <1>10, <1>11
<1>13. NumPages \in Nat \ {0} /\ DOMAIN page = 0 .. NumPages - 1
  BY ONLY <1>1, NumPagesIs
<1>14. n = NumPages
  BY ONLY <1>7, <1>12, <1>13, TreePages
<1>15. NodeOK(page[e.page], DOMAIN page)
  BY ONLY <1>1, <1>8, <1>9 DEF PagesOK, PageOK
<1>16. PICK node, keys, children, offset :
         node = page[e.page] /\ keys = node.keys /\ children = node.children /\ offset = e.offset
  OBVIOUS
<1>17. keys \in Seq(Keys) /\ Len(keys) \in 1 .. MaxKeys /\ Len(keys) \in Nat
  <2>1. keys \in Seq(Keys) /\ Len(keys) \in 1 .. MaxKeys
    BY ONLY <1>15, <1>16 DEF NodeOK
  <2> QED
    BY ONLY <2>1
<1>18. PICK more : more = InsertAt(keys, offset + 1, call.sep)
  OBVIOUS
<1>19. Len(more) = Len(keys) + 1
  <2>1. PICK p, sep : p = offset + 1 /\ sep = call.sep
    OBVIOUS
  <2>2. p \in 1 .. Len(keys) + 1 /\ sep \in Keys /\ more = InsertAt(keys, p, sep)
    BY ONLY <1>4, <1>8, <1>9, <1>16, <1>17, <1>18, <2>1
  <2>3. Inserted(keys, p, sep, more)
    BY ONLY <1>17, <2>2, InsertedAt
  <2> QED
    BY ONLY <2>3 DEF Inserted
<1>20. Widened.keys = more /\ ~IsLeaf(Widened) /\ Len(ParentNode.keys) = Len(keys)
  <2>1. PICK many : many = InsertAt(children, offset + 2, call.up)
    OBVIOUS
  <2>2. Widened = InternalNode(more, many)
    BY ONLY <1>10, <1>16, <1>18, <2>1 DEF TopAdded, AM_AddtoIntPage
  <2>3. InternalNode(more, many).keys = more /\ ~IsLeaf(InternalNode(more, many))
    BY ONLY InternalIs
  <2>4. ParentNode = node
    BY ONLY <1>10, <1>16 DEF ParentNode
  <2> QED
    BY ONLY <1>16, <2>2, <2>3, <2>4
<1>21. Parent \in 0 .. n - 1
  BY ONLY <1>9, <1>10, <1>13, <1>14
<1>22. /\ h[Parent] \in Nat /\ r[Parent] \in SUBSET Int
       /\ GoodNode(T[Parent], h[Parent], r[Parent], h, r)
       /\ IsLeaf(T[Parent]) <=> h[Parent] = 0
  BY ONLY <1>7, <1>21, TreeIs
<1>23. h[Parent] # 0 /\ InnerNode(Widened, h[Parent], r[Parent], h, r)
  BY ONLY <1>12, <1>20, <1>22 DEF GoodNode
<1>24. UpState(T, n, h, r)
  BY ONLY <1>7, <1>8, <1>10, <1>11, <1>12, <1>13, <1>14, <1>17, <1>19, <1>20, <1>21, <1>22, <1>23
     DEF UpState
<1>25. UpCall
  BY ONLY <1>2, <1>3, <1>4, <1>8 DEF UpCall
<1> QED
  BY ONLY <1>14, <1>24, <1>25

(* A node of a tree that is not too full is a node of the file.            *)
LEMMA NodeOfTree ==
  ASSUME NEW node, NEW n, NEW S, NEW h, NEW r, InnerNode(node, n, S, h, r),
         Len(node.keys) \in 1 .. MaxKeys, NEW D, DOMAIN h \subseteq D
  PROVE  ~IsLeaf(node) /\ PageOK(node, D)
<1>1. PICK keys, children, m : keys = node.keys /\ children = node.children /\ m = Len(keys)
  OBVIOUS
<1>2. node = InternalNode(keys, children) /\ Fans(keys, children, n, S, h, r)
  BY ONLY <1>1, InnerNode(node, n, S, h, r) DEF InnerNode
<1>3. keys \in Seq(Keys) /\ children \in Seq(DOMAIN h) /\ Len(children) = m + 1 /\ m \in Nat
  <2>1. keys \in Seq(Keys) /\ children \in Seq(DOMAIN h) /\ Len(children) = m + 1
    BY ONLY <1>1, <1>2 DEF Fans, Separators
  <2> QED
    BY ONLY <1>1, <2>1
<1>4. children \in Seq(D)
  <2>1. children = [i \in 1 .. m + 1 |-> children[i]] /\ \A i \in 1 .. m + 1 : children[i] \in DOMAIN h
    BY ONLY <1>3
  <2>2. children \in [1 .. m + 1 -> D]
    BY ONLY <2>1, DOMAIN h \subseteq D
  <2> QED
    BY ONLY <1>3, <2>2
<1>5. ~IsLeaf(node)
  BY ONLY <1>2, InternalIs
<1>6. NodeOK(node, D)
  BY ONLY <1>1, <1>2, <1>3, <1>4, Len(node.keys) \in 1 .. MaxKeys DEF NodeOK
<1> QED
  BY ONLY <1>5, <1>6 DEF PageOK

(* AddToParent: the tree that was complete but for its parent is complete. *)
LEMMA AfterAddToParent ==
  ASSUME IInv, AddToParent
  PROVE  /\ IInv' /\ PairsIn(page') = PairsIn(page)
         /\ <<call.key, call.id>> \in PairsIn(page) /\ call.op = "insert"
<1>1. /\ call.up # NoPage /\ Len(ParentNode.keys) < MaxKeys
      /\ page' = [page EXCEPT ![Parent] = Widened] /\ stack' = <<>>
      /\ call' = Idle /\ ret' = OK("insert")
      /\ fixed' = fixed /\ leftPageNum' = leftPageNum /\ numBuffers' = numBuffers
  BY DEF AddToParent, AddingToParent, HasRoom, Return
<1>2. PagesOK(page) /\ RestOK(page, fixed, stack, leftPageNum, numBuffers)
  BY DEF IInv
<1>3. PICK T, h, r, n : n = NumPages /\ UpState(T, n, h, r)
  BY ONLY <1>1, IInv, AtTheParent
<1>4. UpCall
  BY ONLY <1>1, IInv, AtTheParent
<1>5. /\ page' = T /\ GoodTree(T, n, h, r) /\ n \in Nat \ {0}
      /\ DOMAIN page = 0 .. n - 1 /\ DOMAIN page' = 0 .. n - 1
      /\ Parent \in 0 .. n - 1 /\ page'[Parent] = Widened
      /\ \A x \in 0 .. n - 1 : x # Parent => page'[x] = page[x]
      /\ ~IsLeaf(page[Parent]) /\ ~IsLeaf(Widened)
      /\ InnerNode(Widened, h[Parent], r[Parent], h, r)
      /\ Len(Widened.keys) = Len(ParentNode.keys) + 1 /\ Len(ParentNode.keys) \in 1 .. MaxKeys
  BY ONLY <1>1, <1>3 DEF UpState
<1>6. Len(Widened.keys) \in 1 .. MaxKeys
  <2>1. MaxKeys \in Nat
    BY TreeAssumption
  <2> QED
    BY ONLY <1>1, <1>5, <2>1
<1>7. PagesOK(page')
  <2>1. DOMAIN h \subseteq DOMAIN page'
    BY ONLY <1>5, TreeIs
  <2>2. PageOK(Widened, DOMAIN page')
    BY ONLY <1>5, <1>6, <2>1, NodeOfTree
  <2>3. \A pg \in DOMAIN page' :
          (pg \in DOMAIN page /\ page'[pg] = page[pg]) \/ PageOK(page'[pg], DOMAIN page')
    BY ONLY <1>5, <2>2
  <2>4. DOMAIN page \subseteq DOMAIN page'
    BY ONLY <1>5
  <2> QED
    BY ONLY <1>2, <1>5, <2>3, <2>4, PagesChanged
<1>8. TreeOK(page', call', stack')
  <2>1. call'.at = NoPage /\ call'.up = NoPage
    BY ONLY <1>1, IdleIs
  <2>2. TreeWith(page', call', stack', n, h, r)
    BY ONLY <1>5, <2>1 DEF TreeWith, Completed
  <2> QED
    BY ONLY <2>2 DEF TreeOK
<1>9. RestOK(page', fixed', stack', leftPageNum', numBuffers')
  <2>1. fixed \subseteq DOMAIN page' /\ Cardinality(fixed) <= numBuffers /\ DOMAIN page \subseteq DOMAIN page'
    BY ONLY <1>2, <1>5 DEF RestOK
  <2>2. stack' = <<>> \/ stack' \in Seq(StepsOf(page))
    BY ONLY <1>1
  <2>3. RestOK(page', fixed, stack', leftPageNum, numBuffers)
    BY ONLY <1>2, <2>1, <2>2, RestKept
  <2> QED
    BY ONLY <1>1, <2>3
<1>10. IInv'
  BY ONLY <1>1, <1>7, <1>8, <1>9 DEF IInv, CallOK
<1>11. PairsIn(page') = PairsIn(page)
  <2>1. \A x \in DOMAIN page : IsLeaf(page[x]) => x \in DOMAIN page' /\ page'[x] = page[x]
    BY ONLY <1>5
  <2>2. \A x \in DOMAIN page' : IsLeaf(page'[x]) => x \in DOMAIN page /\ page'[x] = page[x]
    BY ONLY <1>5
  <2>3. SameHeld(page, page')
    BY ONLY <2>1, <2>2, HeldBySame
  <2> QED
    BY ONLY <2>3, PairsSame
<1>12. <<call.key, call.id>> \in PairsIn(page) /\ call.op = "insert"
  <2>1. call.key \in Keys /\ call.id \in RecIds /\ HeldIn(page, call.key, call.id) /\ call.op = "insert"
    BY ONLY <1>4 DEF UpCall
  <2> QED
    BY ONLY <2>1, PairsChange
<1> QED
  BY ONLY <1>10, <1>11, <1>12

(* What the split of the parent, with the new page in it, gives.           *)
LEMMA ParentIsSplit ==
  ASSUME NEW T, NEW n, NEW h, NEW r, UpState(T, n, h, r), ~HasRoom,
         NEW split, split = AM_SplitIntNode(Widened)
  PROVE  /\ split.sep \in Keys /\ split.sep \in Interior(r[Parent])
         /\ GoodNode(split.lower, h[Parent], Low(r[Parent], split.sep), h, r)
         /\ GoodNode(split.upper, h[Parent], High(r[Parent], split.sep), h, r)
         /\ \A D : 0 .. n - 1 \subseteq D => PageOK(split.lower, D) /\ PageOK(split.upper, D)
         /\ ~IsLeaf(split.lower) /\ ~IsLeaf(split.upper)
<1>1. /\ GoodTree(T, n, h, r)
      /\ InnerNode(Widened, h[Parent], r[Parent], h, r) /\ h[Parent] # 0 /\ h[Parent] \in Nat
      /\ r[Parent] \in SUBSET Int
      /\ Len(Widened.keys) = Len(ParentNode.keys) + 1 /\ Len(ParentNode.keys) \in 1 .. MaxKeys
  BY ONLY UpState(T, n, h, r) DEF UpState
<1>2. Len(Widened.keys) = MaxKeys + 1
  <2>1. MaxKeys \in Nat
    BY TreeAssumption
  <2>2. ~(Len(ParentNode.keys) < MaxKeys)
    BY ONLY ~HasRoom DEF HasRoom
  <2> QED
    BY ONLY <1>1, <2>1, <2>2
<1>3. PICK node, H, S : node = Widened /\ H = h[Parent] /\ S = r[Parent]
  OBVIOUS
<1>4. /\ S \in SUBSET Int /\ H \in Nat /\ H # 0 /\ InnerNode(node, H, S, h, r)
      /\ Len(node.keys) = MaxKeys + 1 /\ split = AM_SplitIntNode(node)
  BY ONLY <1>1, <1>2, <1>3, split = AM_SplitIntNode(Widened)
<1>5. /\ split.sep \in Keys /\ split.sep \in Interior(S)
      /\ InnerNode(split.lower, H, Low(S, split.sep), h, r)
      /\ InnerNode(split.upper, H, High(S, split.sep), h, r)
      /\ Len(split.lower.keys) \in 1 .. MaxKeys /\ Len(split.upper.keys) \in 1 .. MaxKeys
  BY ONLY <1>4, NodeSplit
<1>6. DOMAIN h = 0 .. n - 1
  BY ONLY <1>1, TreeIs
<1>7. ASSUME NEW D, 0 .. n - 1 \subseteq D
      PROVE  PageOK(split.lower, D) /\ PageOK(split.upper, D)
  <2>1. DOMAIN h \subseteq D
    BY ONLY <1>6, <1>7
  <2> QED
    BY ONLY <1>5, <2>1, NodeOfTree
<1>8. ~IsLeaf(split.lower) /\ ~IsLeaf(split.upper)
  <2>1. DOMAIN h \subseteq DOMAIN h
    OBVIOUS
  <2> QED
    BY ONLY <1>5, <2>1, NodeOfTree
<1>9. GoodNode(split.lower, H, Low(S, split.sep), h, r) /\ GoodNode(split.upper, H, High(S, split.sep), h, r)
  BY ONLY <1>4, <1>5 DEF GoodNode
<1> QED
  BY ONLY <1>3, <1>5, <1>7, <1>8, <1>9

(* SplitParent: the new page is to be added one level up.                  *)
LEMMA AfterSplitParent ==
  ASSUME IInv, SplitParent
  PROVE  /\ IInv' /\ PairsIn(page') = PairsIn(page)
         /\ call' = CallRec("insert", call.key, call.id, NoPage, NumPages, call'.sep)
         /\ NumPages # NoPage /\ call.op = "insert"
         /\ call = CallRec("insert", call.key, call.id, NoPage, call.up, call.sep)
<1>1. PICK split : split = AM_SplitIntNode(Widened)
  OBVIOUS
<1>2. /\ call.up # NoPage /\ ~HasRoom /\ Parent # Root
      /\ page' = With(NumPages, split.upper, With(Parent, split.lower, page))
      /\ call' = [call EXCEPT !.up = NumPages, !.sep = split.sep]
      /\ stack' = Front(stack)
      /\ fixed' = fixed /\ leftPageNum' = leftPageNum /\ numBuffers' = numBuffers /\ ret' = ret
  BY ONLY <1>1, SplitParent DEF SplitParent, AddingToParent
<1>3. PagesOK(page) /\ RestOK(page, fixed, stack, leftPageNum, numBuffers)
  BY DEF IInv
<1>4. PICK T, h, r, n, pg, lower, upper, sep :
        /\ n = NumPages /\ UpState(T, n, h, r) /\ pg = Parent
        /\ lower = split.lower /\ upper = split.upper /\ sep = split.sep
  BY ONLY <1>2, IInv, AtTheParent
<1>5. UpCall
  BY ONLY <1>2, IInv, AtTheParent
<1>6. /\ GoodTree(T, n, h, r) /\ n \in Nat \ {0} /\ DOMAIN page = 0 .. n - 1
      /\ pg \in 0 .. n - 1 /\ \A x \in 0 .. n - 1 : x # pg => T[x] = page[x]
      /\ ~IsLeaf(page[pg])
      /\ Trail(T, h, Front(stack), pg) /\ Front(stack) \in Seq(StepsOf(page))
  BY ONLY <1>4 DEF UpState
<1>7. /\ sep \in Keys /\ sep \in Interior(r[pg])
      /\ GoodNode(lower, h[pg], Low(r[pg], sep), h, r)
      /\ GoodNode(upper, h[pg], High(r[pg], sep), h, r)
      /\ \A D : 0 .. n - 1 \subseteq D => PageOK(lower, D) /\ PageOK(upper, D)
      /\ ~IsLeaf(lower) /\ ~IsLeaf(upper)
  <2>1. UpState(T, n, h, r)
    BY ONLY <1>4
  <2>2. /\ split.sep \in Keys /\ split.sep \in Interior(r[Parent])
        /\ GoodNode(split.lower, h[Parent], Low(r[Parent], split.sep), h, r)
        /\ GoodNode(split.upper, h[Parent], High(r[Parent], split.sep), h, r)
        /\ \A D : 0 .. n - 1 \subseteq D => PageOK(split.lower, D) /\ PageOK(split.upper, D)
        /\ ~IsLeaf(split.lower) /\ ~IsLeaf(split.upper)
    BY ONLY <1>1, <1>2, <2>1, ParentIsSplit
  <2> QED
    BY ONLY <1>4, <2>2
<1>8. PICK Q : Q = With(pg, lower, page)
  OBVIOUS
<1>9. DOMAIN Q = DOMAIN page \cup {pg} /\ Q[pg] = lower /\ \A x \in DOMAIN page : x # pg => Q[x] = page[x]
  BY ONLY <1>8 DEF With
<1>10. page' = With(n, upper, Q)
  BY ONLY <1>2, <1>4, <1>8
<1>11. DOMAIN page' = DOMAIN Q \cup {n} /\ page'[n] = upper /\ \A x \in DOMAIN Q : x # n => page'[x] = Q[x]
  BY ONLY <1>10 DEF With
<1>12. /\ DOMAIN page \cup {n} = 0 .. n /\ n \notin DOMAIN page /\ (n + 1) - 1 = n
       /\ n + 1 \in Nat \ {0} /\ pg \in DOMAIN page
  BY ONLY <1>6
<1>13. /\ DOMAIN page' = 0 .. n /\ page'[n] = upper /\ page'[pg] = lower
       /\ \A x \in DOMAIN page : x # pg => page'[x] = page[x]
       /\ DOMAIN page \subseteq DOMAIN page'
  BY ONLY <1>9, <1>11, <1>12
<1>14. SplitInTwo(T, page', n, pg, lower, upper)
  BY ONLY <1>6, <1>13 DEF SplitInTwo
<1>15. PagesOK(page')
  <2>1. PageOK(lower, DOMAIN page') /\ PageOK(upper, DOMAIN page')
    BY ONLY <1>6, <1>7, <1>13
  <2>2. \A x \in DOMAIN page' : (x \in DOMAIN page /\ page'[x] = page[x]) \/ PageOK(page'[x], DOMAIN page')
    BY ONLY <1>12, <1>13, <2>1
  <2>3. PICK m : m = n + 1
    OBVIOUS
  <2>4. m \in Nat \ {0} /\ DOMAIN page' = 0 .. m - 1
    BY ONLY <1>12, <1>13, <2>3
  <2> QED
    BY ONLY <1>3, <1>13, <2>2, <2>4, PagesChanged
<1>16. SameHeld(page, page')
  <2>1. \A x \in DOMAIN page : IsLeaf(page[x]) => x \in DOMAIN page' /\ page'[x] = page[x]
    BY ONLY <1>6, <1>13
  <2>2. \A x \in DOMAIN page' : IsLeaf(page'[x]) => x \in DOMAIN page /\ page'[x] = page[x]
    BY ONLY <1>7, <1>12, <1>13
  <2> QED
    BY ONLY <2>1, <2>2, HeldBySame
<1>17. /\ call.op = "insert" /\ call.key \in Keys /\ call.id \in RecIds /\ ~HasPFError(ret)
       /\ call = CallRec("insert", call.key, call.id, NoPage, call.up, call.sep)
       /\ HeldIn(page, call.key, call.id)
  BY ONLY <1>5 DEF UpCall
<1>18. call' = CallRec("insert", call.key, call.id, NoPage, n, sep)
  <2>1. PICK op, none, key, id, old, up, c, c2 :
          /\ op = "insert" /\ none = NoPage /\ key = call.key /\ id = call.id
          /\ old = call.sep /\ up = call.up /\ c = call /\ c2 = call'
    OBVIOUS
  <2>2. /\ c = CallRec(op, key, id, none, up, old)
        /\ c2 = [c EXCEPT !.up = n, !.sep = sep]
    BY ONLY <1>2, <1>4, <1>17, <2>1
  <2>3. c2 = CallRec(op, key, id, none, n, sep)
    BY ONLY <2>2, Zenon DEF CallRec
  <2> QED
    BY ONLY <2>1, <2>3
<1>19. /\ call'.op = "insert" /\ call'.key = call.key /\ call'.id = call.id /\ call'.at = NoPage
       /\ call'.up = n /\ call'.sep = sep
  BY ONLY <1>18, CallIs
<1>20. TreeOK(page', call', stack')
  <2>1. HeldIn(page', call'.key, call'.id)
    BY ONLY <1>16, <1>17, <1>19 DEF SameHeld
  <2>2. PICK st : st = Front(stack)
    OBVIOUS
  <2>3. pg # Root /\ Trail(T, h, st, pg)
    BY ONLY <1>2, <1>4, <1>6, <2>2
  <2>4. TreeOK(page', call', st)
    <3>1. HalvesLinked(T, h[pg], pg, n, lower, upper)
      BY ONLY <1>4 DEF UpState, HalvesLinked
    <3> QED
      BY ONLY <1>6, <1>7, <1>14, <1>19, <2>1, <2>3, <3>1, SplitGoesUp
  <2> QED
    BY ONLY <1>2, <2>2, <2>4
<1>21. CallOK(call', page', ret')
  <2>1. n \in DOMAIN page'
    BY ONLY <1>6, <1>13
  <2> QED
    BY ONLY <1>2, <1>7, <1>17, <1>18, <1>19, <2>1 DEF CallOK, InCall
<1>22. RestOK(page', fixed', stack', leftPageNum', numBuffers')
  <2>1. fixed \subseteq DOMAIN page' /\ Cardinality(fixed) <= numBuffers
    BY ONLY <1>3, <1>13 DEF RestOK
  <2>2. stack' = <<>> \/ stack' \in Seq(StepsOf(page))
    BY ONLY <1>2, <1>6
  <2>3. RestOK(page', fixed, stack', leftPageNum, numBuffers)
    BY ONLY <1>3, <1>13, <2>1, <2>2, RestKept
  <2> QED
    BY ONLY <1>2, <2>3
<1>23. IInv'
  BY ONLY <1>15, <1>20, <1>21, <1>22 DEF IInv
<1>24. PairsIn(page') = PairsIn(page)
  BY ONLY <1>16, PairsSame
<1>25. NumPages # NoPage
  BY ONLY <1>4, <1>6 DEF NoPage
<1> QED
  BY ONLY <1>4, <1>17, <1>18, <1>19, <1>23, <1>24, <1>25

(* SplitRoot: the tree is one level higher.                                *)
LEMMA AfterSplitRoot ==
  ASSUME IInv, SplitRoot
  PROVE  /\ IInv' /\ PairsIn(page') = PairsIn(page)
         /\ <<call.key, call.id>> \in PairsIn(page) /\ call.op = "insert"
<1>1. PICK split : split = AM_SplitIntNode(Widened)
  OBVIOUS
<1>2. /\ call.up # NoPage /\ ~HasRoom /\ Parent = Root
      /\ page' = With(NumPages + 1, split.lower,
                   With(NumPages, split.upper,
                     With(Root, InternalNode(<<split.sep>>, <<NumPages + 1, NumPages>>), page)))
      /\ stack' = <<>> /\ call' = Idle /\ ret' = OK("insert")
      /\ fixed' = fixed /\ leftPageNum' = leftPageNum /\ numBuffers' = numBuffers
  BY ONLY <1>1, SplitRoot DEF SplitRoot, AddingToParent, Return
<1>3. PagesOK(page) /\ RestOK(page, fixed, stack, leftPageNum, numBuffers)
  BY DEF IInv
<1>4. PICK T, h, r, n, lower, upper, sep :
        /\ n = NumPages /\ UpState(T, n, h, r)
        /\ lower = split.lower /\ upper = split.upper /\ sep = split.sep
  BY ONLY <1>2, IInv, AtTheParent
<1>5. UpCall
  BY ONLY <1>2, IInv, AtTheParent
<1>6. /\ GoodTree(T, n, h, r) /\ n \in Nat \ {0} /\ DOMAIN page = 0 .. n - 1
      /\ \A x \in 0 .. n - 1 : x # Root => T[x] = page[x]
      /\ ~IsLeaf(page[Root])
  BY ONLY <1>2, <1>4 DEF UpState
<1>7. r[Root] = Int /\ DOMAIN T = 0 .. n - 1
  BY ONLY <1>6, TreeIs
<1>8. /\ sep \in Keys
      /\ GoodNode(lower, h[Root], Low(Int, sep), h, r)
      /\ GoodNode(upper, h[Root], High(Int, sep), h, r)
      /\ \A D : 0 .. n - 1 \subseteq D => PageOK(lower, D) /\ PageOK(upper, D)
      /\ ~IsLeaf(lower) /\ ~IsLeaf(upper)
  <2>1. UpState(T, n, h, r)
    BY ONLY <1>4
  <2>2. /\ split.sep \in Keys
        /\ GoodNode(split.lower, h[Parent], Low(r[Parent], split.sep), h, r)
        /\ GoodNode(split.upper, h[Parent], High(r[Parent], split.sep), h, r)
        /\ \A D : 0 .. n - 1 \subseteq D => PageOK(split.lower, D) /\ PageOK(split.upper, D)
        /\ ~IsLeaf(split.lower) /\ ~IsLeaf(split.upper)
    BY ONLY <1>1, <1>2, <2>1, ParentIsSplit
  <2> QED
    BY ONLY <1>2, <1>4, <1>7, <2>2
<1>9. /\ Raised(page, page', n, lower, upper, sep)
      /\ DOMAIN page \subseteq DOMAIN page' /\ n \in DOMAIN page' /\ n + 1 \in DOMAIN page'
  <2>1. PICK P : P = page
    OBVIOUS
  <2>2. n \in Nat \ {0} /\ DOMAIN P = 0 .. n - 1
    BY ONLY <1>6, <2>1
  <2>3. page' = With(n + 1, lower,
                  With(n, upper, With(Root, InternalNode(<<sep>>, <<n + 1, n>>), P)))
    BY ONLY <1>2, <1>4, <2>1
  <2>4. /\ Raised(P, page', n, lower, upper, sep)
        /\ DOMAIN P \subseteq DOMAIN page' /\ n \in DOMAIN page' /\ n + 1 \in DOMAIN page'
    BY ONLY <2>2, <2>3, RaisedPages
  <2> QED
    BY ONLY <2>1, <2>4
<1>10. /\ DOMAIN page' = 0 .. n + 1 /\ page'[n] = upper /\ page'[n + 1] = lower
       /\ \A x \in 0 .. n - 1 : x # Root => page'[x] = page[x]
  BY ONLY <1>9 DEF Raised
<1>11. Raised(T, page', n, lower, upper, sep)
  BY ONLY <1>6, <1>9 DEF Raised
<1>12. PICK h2, r2 : GoodTree(page', n + 2, h2, r2)
  <2>1. HalvesLinked(T, h[Root], Root, n, lower, upper)
    BY ONLY <1>2, <1>4 DEF UpState, HalvesLinked
  <2> QED
    BY ONLY <1>6, <1>8, <1>11, <2>1, RootIsSplit
<1>13. PagesOK(page') /\ ~IsLeaf(page'[Root])
  <2>1. PageOK(lower, DOMAIN page') /\ PageOK(upper, DOMAIN page')
    BY ONLY <1>6, <1>8, <1>9
  <2> QED
    BY ONLY <1>3, <1>6, <1>8, <1>9, <2>1, RaisedOK
<1>14. TreeOK(page', call', stack')
  <2>1. call'.at = NoPage /\ call'.up = NoPage
    BY ONLY <1>2, IdleIs
  <2>2. \E m : TreeWith(page', call', stack', m, h2, r2)
    BY ONLY <1>12, <2>1 DEF TreeWith, Completed
  <2> QED
    BY ONLY <2>2 DEF TreeOK
<1>15. RestOK(page', fixed', stack', leftPageNum', numBuffers')
  <2>1. fixed \subseteq DOMAIN page' /\ Cardinality(fixed) <= numBuffers
    BY ONLY <1>3, <1>9 DEF RestOK
  <2>2. stack' = <<>> \/ stack' \in Seq(StepsOf(page))
    BY ONLY <1>2
  <2>3. RestOK(page', fixed, stack', leftPageNum, numBuffers)
    BY ONLY <1>3, <1>9, <2>1, <2>2, RestKept
  <2> QED
    BY ONLY <1>2, <2>3
<1>16. IInv'
  BY ONLY <1>2, <1>13, <1>14, <1>15 DEF IInv, CallOK
<1>17. PairsIn(page') = PairsIn(page)
  <2>1. \A x \in DOMAIN page : IsLeaf(page[x]) => x \in DOMAIN page' /\ page'[x] = page[x]
    BY ONLY <1>6, <1>9, <1>10
  <2>2. ASSUME NEW x \in DOMAIN page', IsLeaf(page'[x])
        PROVE  x \in DOMAIN page /\ page'[x] = page[x]
    <3>1. x \in 0 .. n - 1 \/ x = n \/ x = n + 1
      BY ONLY <1>6, <1>10, x \in DOMAIN page'
    <3>2. x # n /\ x # n + 1 /\ x # Root
      BY ONLY <1>8, <1>10, <1>13, <2>2
    <3> QED
      BY ONLY <1>6, <1>10, <3>1, <3>2
  <2>3. SameHeld(page, page')
    BY ONLY <2>1, <2>2, HeldBySame
  <2> QED
    BY ONLY <2>3, PairsSame
<1>18. <<call.key, call.id>> \in PairsIn(page) /\ call.op = "insert"
  <2>1. call.key \in Keys /\ call.id \in RecIds /\ HeldIn(page, call.key, call.id) /\ call.op = "insert"
    BY ONLY <1>5 DEF UpCall
  <2> QED
    BY ONLY <2>1, PairsChange
<1> QED
  BY ONLY <1>16, <1>17, <1>18

(* SplitRootFails: the entry is in the pages, and nothing follows.         *)
LEMMA AfterSplitRootFails ==
  ASSUME IInv, SplitRootFails
  PROVE  /\ IInv' /\ PairsIn(page') = PairsIn(page)
         /\ <<call.key, call.id>> \in PairsIn(page) /\ call.op = "insert"
<1>1. PICK split : split = AM_SplitIntNode(Widened)
  OBVIOUS
<1>2. /\ call.up # NoPage /\ ~HasRoom /\ Parent = Root /\ FreeBuffers = 2
      /\ page' = With(NumPages, split.upper, page)
      /\ fixed' = fixed \cup {Root, NumPages}
      /\ stack' = <<>> /\ call' = Idle /\ ret' = PFError("insert")
      /\ leftPageNum' = leftPageNum /\ numBuffers' = numBuffers
  BY ONLY <1>1, SplitRootFails DEF SplitRootFails, AddingToParent, Return
<1>3. PagesOK(page) /\ RestOK(page, fixed, stack, leftPageNum, numBuffers)
  BY DEF IInv
<1>4. PICK T, h, r, n, upper : n = NumPages /\ UpState(T, n, h, r) /\ upper = split.upper
  BY ONLY <1>2, IInv, AtTheParent
<1>5. UpCall
  BY ONLY <1>2, IInv, AtTheParent
<1>6. n \in Nat \ {0} /\ DOMAIN page = 0 .. n - 1
  BY ONLY <1>4 DEF UpState
<1>7. (\A D : 0 .. n - 1 \subseteq D => PageOK(upper, D)) /\ ~IsLeaf(upper)
  <2>1. UpState(T, n, h, r)
    BY ONLY <1>4
  <2>2. /\ \A D : 0 .. n - 1 \subseteq D => PageOK(split.lower, D) /\ PageOK(split.upper, D)
        /\ ~IsLeaf(split.lower) /\ ~IsLeaf(split.upper)
    BY ONLY <1>1, <1>2, <2>1, ParentIsSplit
  <2> QED
    BY ONLY <1>4, <2>2
<1>8. page' = With(n, upper, page)
  BY ONLY <1>2, <1>4
<1>9. /\ DOMAIN page' = DOMAIN page \cup {n} /\ page'[n] = upper
      /\ \A x \in DOMAIN page : x # n => page'[x] = page[x]
  BY ONLY <1>8 DEF With
<1>10. /\ DOMAIN page \cup {n} = 0 .. n /\ n \notin DOMAIN page /\ (n + 1) - 1 = n
       /\ n + 1 \in Nat \ {0} /\ DOMAIN page \subseteq DOMAIN page'
  BY ONLY <1>6, <1>9
<1>11. PagesOK(page')
  <2>1. PageOK(upper, DOMAIN page')
    BY ONLY <1>6, <1>7, <1>10
  <2>2. \A x \in DOMAIN page' : (x \in DOMAIN page /\ page'[x] = page[x]) \/ PageOK(page'[x], DOMAIN page')
    BY ONLY <1>9, <1>10, <2>1
  <2>3. PICK m : m = n + 1
    OBVIOUS
  <2>4. m \in Nat \ {0} /\ DOMAIN page' = 0 .. m - 1
    BY ONLY <1>9, <1>10, <2>3
  <2> QED
    BY ONLY <1>3, <1>10, <2>2, <2>4, PagesChanged
<1>12. RestOK(page', fixed', stack', leftPageNum', numBuffers')
  <2>1. fixed \subseteq DOMAIN page /\ Cardinality(fixed) <= numBuffers /\ numBuffers \in Nat
    BY ONLY <1>3 DEF RestOK
  <2>2. PICK f1, f2 : f1 = fixed \cup {Root} /\ f2 = f1 \cup {n}
    OBVIOUS
  <2>3. IsFiniteSet(DOMAIN page) /\ Root \in DOMAIN page
    BY ONLY <1>6, FirstPages
  <2>4. Cardinality(f1) <= Cardinality(fixed) + 1 /\ Cardinality(fixed) \in Nat /\ Cardinality(f1) \in Nat
    BY ONLY <2>1, <2>2, <2>3, OneMoreFixed
  <2>5. Cardinality(f2) <= Cardinality(f1) + 1 /\ Cardinality(f2) \in Nat
    <3>1. f1 \subseteq DOMAIN page
      BY ONLY <2>1, <2>2, <2>3
    <3> QED
      BY ONLY <2>2, <2>3, <3>1, OneMoreFixed
  <2>6. numBuffers - Cardinality(fixed) = 2
    BY ONLY <1>2 DEF FreeBuffers
  <2>7. Cardinality(f2) <= numBuffers
    BY ONLY <2>1, <2>4, <2>5, <2>6
  <2>8. f2 \subseteq DOMAIN page' /\ fixed' = f2
    BY ONLY <1>2, <1>4, <1>9, <2>1, <2>2, <2>3
  <2>9. stack' = <<>> \/ stack' \in Seq(StepsOf(page))
    BY ONLY <1>2
  <2>10. RestOK(page', f2, stack', leftPageNum, numBuffers)
    BY ONLY <1>3, <1>10, <2>7, <2>8, <2>9, RestKept
  <2> QED
    BY ONLY <1>2, <2>8, <2>10
<1>13. HasPFError(ret')
  BY ONLY <1>2, ReturnedIs
<1>14. IInv'
  BY ONLY <1>2, <1>11, <1>12, <1>13 DEF IInv, CallOK, Failed
<1>15. PairsIn(page') = PairsIn(page)
  <2>1. \A x \in DOMAIN page : IsLeaf(page[x]) => x \in DOMAIN page' /\ page'[x] = page[x]
    BY ONLY <1>9, <1>10
  <2>2. \A x \in DOMAIN page' : IsLeaf(page'[x]) => x \in DOMAIN page /\ page'[x] = page[x]
    BY ONLY <1>7, <1>9, <1>10
  <2>3. SameHeld(page, page')
    BY ONLY <2>1, <2>2, HeldBySame
  <2> QED
    BY ONLY <2>3, PairsSame
<1>16. <<call.key, call.id>> \in PairsIn(page) /\ call.op = "insert"
  <2>1. call.key \in Keys /\ call.id \in RecIds /\ HeldIn(page, call.key, call.id) /\ call.op = "insert"
    BY ONLY <1>5 DEF UpCall
  <2> QED
    BY ONLY <2>1, PairsChange
<1> QED
  BY ONLY <1>14, <1>15, <1>16

-----------------------------------------------------------------------------
(***************************************************************************)
(* Each step, in turn.                                                     *)
(***************************************************************************)
LEMMA NextOK ==
  ASSUME IInv, AllListsFit, AllListsFit', [Next]_vars
  PROVE  IInv'
<1>1. CASE UNCHANGED vars
  BY <1>1 DEF vars, IInv
<1>2. ASSUME NEW op \in {"insert", "delete"}, NEW key \in Keys, NEW id \in RecIds,
             AM_Search(op, key, id) \/ SearchFails(op, key, id)
      PROVE  IInv'
  BY ONLY <1>2, IInv, AfterSearch, AfterSearchFails
<1>3. CASE LeafStep
  BY ONLY <1>3, IInv, AllListsFit, AllListsFit', AfterDelete, AfterNotFound, AfterInsert,
          AfterSplitLeaf, AfterSplitRootLeaf, AfterSplitLeafFails DEF LeafStep
<1>4. CASE ParentStep
  BY ONLY <1>4, IInv, AfterAddToParent, AfterSplitParent, AfterSplitRoot, AfterSplitRootFails
     DEF ParentStep
<1> QED
  BY <1>1, <1>2, <1>3, <1>4 DEF Next

-----------------------------------------------------------------------------
(***************************************************************************)
(* What the invariant says of the states.                                  *)
(***************************************************************************)
LEMMA TypesOK ==
  ASSUME IInv
  PROVE  TypeOK
<1>1. /\ PagesOK(page) /\ RestOK(page, fixed, stack, leftPageNum, numBuffers)
      /\ CallOK(call, page, ret)
  BY DEF IInv
<1>2. DOMAIN page = 0 .. NumPages - 1
  BY ONLY <1>1, NumPagesIs
<1>3. ASSUME NEW pg \in DOMAIN page, IsLeaf(page[pg]) PROVE LeafType(page[pg])
  <2>1. PICK leaf, keys : leaf = page[pg] /\ keys = leaf.keys
    OBVIOUS
  <2>2. GoodLeaf(leaf) /\ leaf.next \in {AM_NULL_PAGE} \cup DOMAIN page
    BY ONLY <1>1, <1>3, <2>1, pg \in DOMAIN page DEF PagesOK, PageOK, LeafOK
  <2>3. /\ leaf.free \in Nat /\ leaf.gap \in Nat /\ GoodKeys(keys)
        /\ leaf.gap + Space(Len(keys), Count(keys) + leaf.free) = LeafSpace
    BY ONLY <2>1, <2>2, GoodLeafIs
  <2>4. PICK free, gap : free = leaf.free /\ gap = leaf.gap
    OBVIOUS
  <2>5. gap = LeafSpace - RoomFor(keys) - free * CellSize
    <3>1. /\ RoomFor(keys) + free * CellSize = Space(Len(keys), Count(keys) + free)
          /\ RoomFor(keys) = Space(Len(keys), Count(keys))
          /\ Len(keys) \in Nat /\ Count(keys) \in Nat /\ free * CellSize \in Nat
      BY ONLY <2>3, <2>4, RoomIsSpace
    <3>2. Space(Len(keys), Count(keys)) \in Nat /\ LeafSpace \in Nat
      BY ONLY <3>1, SpaceIs
    <3>3. PICK room, cells, space : room = RoomFor(keys) /\ cells = free * CellSize
                                    /\ space = Space(Len(keys), Count(keys) + free)
      OBVIOUS
    <3>4. /\ room + cells = space /\ room \in Nat /\ cells \in Nat /\ gap \in Nat
          /\ gap + space = LeafSpace /\ LeafSpace \in Nat
      BY ONLY <2>3, <2>4, <3>1, <3>2, <3>3
    <3>5. gap = LeafSpace - room - cells
      BY ONLY <3>4
    <3> QED
      BY ONLY <3>3, <3>5
  <2>6. ASSUME NEW i \in DOMAIN keys PROVE keys[i].key \in Keys /\ keys[i].ids \in Seq(RecIds) \ {<<>>}
    <3>1. keys[i].key \in Keys /\ GoodIds(keys[i].ids)
      BY ONLY <2>3, i \in DOMAIN keys, GoodKeysAre
    <3> QED
      BY ONLY <3>1 DEF GoodIds
  <2>7. LeafType(leaf)
    BY ONLY <2>1, <2>2, <2>3, <2>4, <2>5, <2>6 DEF LeafType
  <2> QED
    BY ONLY <2>1, <2>7
<1>4. ASSUME NEW pg \in DOMAIN page, ~IsLeaf(page[pg]) PROVE InternalType(page[pg])
  BY ONLY <1>1, <1>4, pg \in DOMAIN page DEF PagesOK, PageOK, NodeOK, InternalType
<1>5. /\ fixed \subseteq DOMAIN page /\ Cardinality(fixed) <= numBuffers /\ leftPageNum \in DOMAIN page
      /\ \A i \in DOMAIN stack : stack[i].page \in DOMAIN page /\ stack[i].offset \in Nat
  <2>1. stack \in Seq(StepsOf(page))
    BY ONLY <1>1 DEF RestOK
  <2>2. \A i \in DOMAIN stack : stack[i] \in StepsOf(page)
    BY ONLY <2>1
  <2>3. \A i \in DOMAIN stack : stack[i].page \in DOMAIN page /\ stack[i].offset \in Nat
    BY ONLY <2>2 DEF StepsOf
  <2> QED
    BY ONLY <1>1, <2>3 DEF RestOK
<1>6. /\ call.op \in {"idle", "insert", "delete"}
      /\ call.at \in {NoPage} \cup DOMAIN page /\ call.up \in {NoPage} \cup DOMAIN page
  BY ONLY <1>1, IdleIs DEF CallOK, InCall
<1> QED
  BY ONLY <1>2, <1>3, <1>4, <1>5, <1>6 DEF TypeOK

(* The range of a leaf has its keys, and a search for a key of the range   *)
(* ends at a leaf that has it in its range: there is only one.             *)
LEMMA KeysAreFound ==
  ASSUME IInv
  PROVE  EntriesFindable
<1> SUFFICES ASSUME Intact, NEW pg \in DOMAIN page, IsLeaf(page[pg]), NEW i \in DOMAIN page[pg].keys
             PROVE  LeafFor(page[pg].keys[i].key) = pg
  BY DEF EntriesFindable
<1>1. call = Idle /\ ~HasPFError(ret)
  BY DEF Intact, HasPFError
<1>2. PICK h, r, n : n = NumPages /\ GoodTree(page, n, h, r)
  BY ONLY <1>1, IInv, IdleTree
<1>3. PICK keys, key : keys = page[pg].keys /\ key = keys[i].key
  OBVIOUS
<1>4. /\ DOMAIN page = 0 .. n - 1
      /\ \A x \in 0 .. n - 1 : /\ GoodNode(page[x], h[x], r[x], h, r)
                               /\ IsLeaf(page[x]) <=> h[x] = 0
  BY ONLY <1>2, TreeIs
<1>5. pg \in 0 .. n - 1 /\ h[pg] = 0 /\ LeafNode(page[pg], r[pg])
  BY ONLY <1>4, pg \in DOMAIN page, IsLeaf(page[pg]) DEF GoodNode
<1>6. GoodLeaf(page[pg]) /\ \A k, x : Holds(keys, k, x) => k \in r[pg]
  BY ONLY <1>3, <1>5 DEF LeafNode
<1>7. GoodKeys(keys) /\ i \in DOMAIN keys
  BY ONLY <1>3, <1>6, i \in DOMAIN page[pg].keys, GoodLeafIs
<1>8. key \in Keys /\ GoodIds(keys[i].ids)
  BY ONLY <1>3, <1>7, GoodKeysAre
<1>9. key \in r[pg]
  <2>1. PICK ids : ids = keys[i].ids
    OBVIOUS
  <2>2. ids \in Seq(RecIds) /\ ids # <<>>
    BY ONLY <1>8, <2>1 DEF GoodIds
  <2>3. 1 \in DOMAIN ids
    BY ONLY <2>2
  <2>4. HasId(ids, ids[1])
    BY ONLY <2>3 DEF HasId
  <2>5. Holds(keys, key, ids[1])
    BY ONLY <1>3, <1>7, <2>1, <2>4 DEF Holds
  <2> QED
    BY ONLY <1>6, <2>5
<1>10. PICK leaf : leaf = LeafAt(Path(key))
  OBVIOUS
<1>11. Leads(Path(key), h, r, key) /\ h[leaf] = 0
  BY ONLY <1>2, <1>8, <1>10, PathLeads
<1>12. leaf \in 0 .. n - 1 /\ key \in r[leaf]
  BY ONLY <1>4, <1>10, <1>11 DEF Leads
<1>13. \A p1, p2 \in 0 .. n - 1 : h[p1] = h[p2] /\ p1 # p2 => r[p1] \cap r[p2] = {}
  BY ONLY <1>2 DEF GoodTree, RangesOf
<1>14. leaf = pg
  <2>1. key \in r[leaf] \cap r[pg]
    BY ONLY <1>9, <1>12
  <2> QED
    BY ONLY <1>5, <1>11, <1>12, <1>13, <2>1
<1> QED
  BY ONLY <1>3, <1>10, <1>14 DEF LeafFor

-----------------------------------------------------------------------------
(***************************************************************************)
(* The shape of the tree.                                                  *)
(***************************************************************************)

LEMMA PartsInOrder ==
  ASSUME NEW S \in SUBSET Int, NEW keys, Separators(keys, S),
         NEW i \in 1 .. Len(keys) + 1, NEW j \in 1 .. Len(keys) + 1, i < j
  PROVE  LeftOf(Part(keys, i, S), Part(keys, j, S))
<1>1. PICK n : n = Len(keys)
  OBVIOUS
<1>2. /\ n \in Nat \ {0} /\ \A x \in 1 .. n : keys[x] \in Int
      /\ \A x, y \in 1 .. n : x < y => keys[x] < keys[y]
  BY ONLY <1>1, S \in SUBSET Int, Separators(keys, S), KeysAreNumbers
<1>3. i \in 1 .. n /\ j - 1 \in 1 .. n /\ j > 1 /\ (i < j - 1 \/ i = j - 1)
  BY ONLY <1>1, <1>2, i \in 1 .. Len(keys) + 1, j \in 1 .. Len(keys) + 1, i < j
<1>4. keys[i] <= keys[j - 1] /\ keys[i] \in Int /\ keys[j - 1] \in Int
  BY ONLY <1>2, <1>3
<1>5. ASSUME NEW u \in Part(keys, i, S), NEW v \in Part(keys, j, S) PROVE u < v
  <2>1. u \in Int /\ v \in Int
    BY ONLY S \in SUBSET Int, u \in Part(keys, i, S), v \in Part(keys, j, S) DEF Part
  <2>2. u < keys[i] /\ keys[j - 1] <= v
    <3>1. i <= Len(keys)
      BY ONLY <1>1, <1>3
    <3> QED
      BY ONLY <1>3, <3>1, u \in Part(keys, i, S), v \in Part(keys, j, S) DEF Part
  <2> QED
    BY ONLY <1>4, <2>1, <2>2
<1> QED
  BY ONLY <1>5 DEF LeftOf

(* The children of a node divide its range among them, from left to right. *)
LEMMA NodeChildren ==
  ASSUME NEW P, NEW n, NEW h, NEW r, GoodTree(P, n, h, r), NEW pg \in 0 .. n - 1, h[pg] # 0,
         NEW children, children = P[pg].children
  PROVE  /\ children \in Seq(0 .. n - 1)
         /\ \A j \in 1 .. Len(children) :
              h[children[j]] = h[pg] - 1 /\ r[children[j]] \subseteq r[pg]
         /\ \A i, j \in 1 .. Len(children) :
              i < j => LeftOf(r[children[i]], r[children[j]])
         /\ \A v \in r[pg] : \E j \in 1 .. Len(children) : v \in r[children[j]]
<1>1. /\ DOMAIN h = 0 .. n - 1 /\ h[pg] \in Nat /\ r[pg] \in SUBSET Int
      /\ GoodNode(P[pg], h[pg], r[pg], h, r) /\ \A x \in 0 .. n - 1 : h[x] \in Nat
  BY ONLY GoodTree(P, n, h, r), pg \in 0 .. n - 1, TreeIs
<1>2. PICK keys, H, S : keys = P[pg].keys /\ H = h[pg] /\ S = r[pg]
  OBVIOUS
<1>3. InnerNode(P[pg], h[pg], r[pg], h, r)
  BY ONLY <1>1, h[pg] # 0, WhichNode
<1>4. Fans(keys, children, H, S, h, r)
  BY ONLY <1>2, <1>3, children = P[pg].children DEF InnerNode
<1>5. /\ Separators(keys, S) /\ children \in Seq(0 .. n - 1) /\ Len(children) = Len(keys) + 1
      /\ \A i \in 1 .. Len(keys) + 1 : h[children[i]] + 1 = H /\ r[children[i]] = Part(keys, i, S)
  BY ONLY <1>1, <1>4 DEF Fans
<1>6. S \in SUBSET Int /\ Len(keys) \in Nat
  <2>1. S \in SUBSET Int
    BY ONLY <1>1, <1>2
  <2> QED
    BY ONLY <1>5, <2>1, KeysAreNumbers
<1>7. ASSUME NEW j \in 1 .. Len(children)
      PROVE  h[children[j]] = h[pg] - 1 /\ r[children[j]] \subseteq r[pg]
  <2>1. j \in 1 .. Len(keys) + 1 /\ children[j] \in 0 .. n - 1
    <3>1. \A x \in 1 .. Len(children) : children[x] \in 0 .. n - 1
      BY ONLY <1>5, SeqIs
    <3> QED
      BY ONLY <1>5, <3>1, j \in 1 .. Len(children)
  <2>2. h[children[j]] + 1 = h[pg] /\ h[children[j]] \in Nat
    BY ONLY <1>1, <1>2, <1>5, <2>1
  <2>3. r[children[j]] = Part(keys, j, S)
    BY ONLY <1>5, <2>1
  <2> QED
    BY ONLY <1>1, <1>2, <2>2, <2>3 DEF Part
<1>8. ASSUME NEW i \in 1 .. Len(children), NEW j \in 1 .. Len(children), i < j
      PROVE  LeftOf(r[children[i]], r[children[j]])
  <2>1. i \in 1 .. Len(keys) + 1 /\ j \in 1 .. Len(keys) + 1
    BY ONLY <1>5, i \in 1 .. Len(children), j \in 1 .. Len(children)
  <2>2. LeftOf(Part(keys, i, S), Part(keys, j, S))
    BY ONLY <1>5, <1>6, <1>8, <2>1, PartsInOrder
  <2> QED
    BY ONLY <1>5, <2>1, <2>2
<1>9. ASSUME NEW v \in S PROVE \E j \in 1 .. Len(children) : v \in r[children[j]]
  <2>1. PICK offset : offset = ChildAmong(keys, Narrowed(keys, v), v)
    OBVIOUS
  <2>2. offset \in 0 .. Len(keys) /\ v \in Part(keys, offset + 1, S)
    BY ONLY <1>5, <1>6, <2>1, v \in S, PartFound
  <2>3. offset + 1 \in 1 .. Len(keys) + 1
    BY ONLY <1>6, <2>2
  <2> QED
    BY ONLY <1>5, <2>2, <2>3
<1> QED
  BY ONLY <1>2, <1>5, <1>7, <1>8, <1>9

(* The pages of height k from left to right: their ranges are all numbers. *)
LevelAt(level, n, h, r, k) ==
  /\ level \in Seq(0 .. n - 1)
  /\ \A i \in 1 .. Len(level) : h[level[i]] = k
  /\ \A i, j \in 1 .. Len(level) : i < j => LeftOf(r[level[i]], r[level[j]])
  /\ \A v \in Int : \E i \in 1 .. Len(level) : v \in r[level[i]]

(* There is one place in it for each of these pages.                       *)
LEMMA LevelHasAll ==
  ASSUME NEW P, NEW n, NEW h, NEW r, GoodTree(P, n, h, r),
         NEW k, NEW level, LevelAt(level, n, h, r, k)
  PROVE  /\ level # <<>> /\ Len(level) \in Nat
         /\ \A i \in 1 .. Len(level) : level[i] \in 0 .. n - 1
         /\ \A pg \in 0 .. n - 1 : h[pg] = k => \E i \in 1 .. Len(level) : level[i] = pg
         /\ \A i, j \in 1 .. Len(level) : i # j => level[i] # level[j]
<1>1. \A pg \in 0 .. n - 1 : r[pg] \in SUBSET Int /\ r[pg] # {}
  BY ONLY GoodTree(P, n, h, r), TreeIs
<1>2. \A p1, p2 \in 0 .. n - 1 : h[p1] = h[p2] /\ p1 # p2 => r[p1] \cap r[p2] = {}
  BY ONLY GoodTree(P, n, h, r) DEF GoodTree, RangesOf
<1>3. /\ level \in Seq(0 .. n - 1) /\ Len(level) \in Nat
      /\ \A i \in 1 .. Len(level) : level[i] \in 0 .. n - 1 /\ h[level[i]] = k
      /\ \A i, j \in 1 .. Len(level) : i < j => LeftOf(r[level[i]], r[level[j]])
      /\ \A v \in Int : \E i \in 1 .. Len(level) : v \in r[level[i]]
  <2>1. level \in Seq(0 .. n - 1)
    BY ONLY LevelAt(level, n, h, r, k) DEF LevelAt
  <2>2. Len(level) \in Nat /\ \A i \in 1 .. Len(level) : level[i] \in 0 .. n - 1
    BY ONLY <2>1, SeqIs
  <2> QED
    BY ONLY <2>1, <2>2, LevelAt(level, n, h, r, k) DEF LevelAt
<1>4. level # <<>>
  <2>1. PICK i \in 1 .. Len(level) : 0 \in r[level[i]]
    BY ONLY <1>3
  <2> QED
    BY ONLY <1>3, <2>1
<1>5. ASSUME NEW pg \in 0 .. n - 1, h[pg] = k PROVE \E i \in 1 .. Len(level) : level[i] = pg
  <2>1. PICK v \in Int : v \in r[pg]
    BY ONLY <1>1, pg \in 0 .. n - 1
  <2>2. PICK i \in 1 .. Len(level) : v \in r[level[i]]
    BY ONLY <1>3
  <2>3. level[i] \in 0 .. n - 1 /\ h[level[i]] = h[pg] /\ v \in r[level[i]] \cap r[pg]
    BY ONLY <1>3, <1>5, <2>1, <2>2
  <2> QED
    BY ONLY <1>2, <2>3, pg \in 0 .. n - 1
<1>6. ASSUME NEW i \in 1 .. Len(level), NEW j \in 1 .. Len(level), i < j, level[i] = level[j]
      PROVE  FALSE
  <2>1. PICK v \in Int : v \in r[level[i]]
    BY ONLY <1>1, <1>3, i \in 1 .. Len(level)
  <2>2. v < v
    BY ONLY <1>3, <1>6, <2>1 DEF LeftOf
  <2> QED
    BY ONLY <2>2, v \in Int
<1>7. ASSUME NEW i \in 1 .. Len(level), NEW j \in 1 .. Len(level), i # j PROVE level[i] # level[j]
  <2>1. i < j \/ j < i
    BY ONLY <1>3, <1>7, i \in 1 .. Len(level), j \in 1 .. Len(level)
  <2> QED
    BY ONLY <1>6, <2>1
<1> QED
  BY ONLY <1>3, <1>4, <1>5, <1>7

(* ChildrenOf appends the children of one page after the other.            *)
LEMMA ChildrenAre ==
  ASSUME NEW n, NEW h, NEW r, GoodTree(page, n, h, r), NEW above \in Seq(0 .. n - 1)
  PROVE  /\ ChildrenOf[above] \in Seq(0 .. n - 1)
         /\ (\E i \in DOMAIN above : h[above[i]] = 0) => ChildrenOf[above] = <<>>
         /\ above = <<>> => ChildrenOf[above] = <<>>
         /\ \A k \in Nat \ {0} :
              LevelAt(above, n, h, r, k) => LevelAt(ChildrenOf[above], n, h, r, k - 1)
<1>1. /\ DOMAIN page = 0 .. n - 1
      /\ \A pg \in 0 .. n - 1 : IsLeaf(page[pg]) <=> h[pg] = 0
      /\ \A pg \in 0 .. n - 1 : r[pg] \in SUBSET Int
  BY ONLY GoodTree(page, n, h, r), TreeIs
<1>2. PICK lists : lists = [i \in DOMAIN above |-> page[above[i]].children]
  OBVIOUS
<1>3. PICK all : all = FlattenSeq(lists)
  OBVIOUS
<1>4. /\ DOMAIN above = 1 .. Len(above) /\ Len(above) \in Nat
      /\ \A i \in 1 .. Len(above) : above[i] \in 0 .. n - 1
  BY ONLY above \in Seq(0 .. n - 1), SeqIs
<1>5. ChildrenOf[above] = IF \E i \in DOMAIN above : h[above[i]] = 0 THEN <<>> ELSE all
  <2>1. above \in Seq(DOMAIN page)
    BY ONLY <1>1, above \in Seq(0 .. n - 1)
  <2>2. ChildrenOf[above] =
          IF \E i \in DOMAIN above : IsLeaf(page[above[i]]) THEN <<>> ELSE all
    BY ONLY <1>2, <1>3, <2>1 DEF ChildrenOf
  <2>3. (\E i \in DOMAIN above : IsLeaf(page[above[i]])) <=> \E i \in DOMAIN above : h[above[i]] = 0
    BY ONLY <1>1, <1>4
  <2> QED
    BY ONLY <2>2, <2>3
<1>6. CASE \E i \in DOMAIN above : h[above[i]] = 0
  <2>1. ChildrenOf[above] = <<>>
    BY ONLY <1>5, <1>6
  <2>2. ASSUME NEW k \in Nat \ {0}, LevelAt(above, n, h, r, k) PROVE FALSE
    BY ONLY <1>4, <1>6, <2>2 DEF LevelAt
  <2> QED
    BY ONLY <2>1, <2>2
<1>7. CASE ~ \E i \in DOMAIN above : h[above[i]] = 0
  <2>1. \A i \in 1 .. Len(above) :
          LET children == lists[i] IN
          /\ children \in Seq(0 .. n - 1)
          /\ \A j \in 1 .. Len(children) :
               h[children[j]] = h[above[i]] - 1 /\ r[children[j]] \subseteq r[above[i]]
          /\ \A j, m \in 1 .. Len(children) :
               j < m => LeftOf(r[children[j]], r[children[m]])
          /\ \A v \in r[above[i]] : \E j \in 1 .. Len(children) : v \in r[children[j]]
    <3> TAKE i \in 1 .. Len(above)
    <3>1. PICK pg : pg = above[i]
      OBVIOUS
    <3>2. pg \in 0 .. n - 1 /\ h[pg] # 0 /\ lists[i] = page[pg].children
      BY ONLY <1>2, <1>4, <1>7, <3>1, i \in 1 .. Len(above)
    <3> HIDE DEF ChildrenOf
    <3>3. PICK children : children = lists[i]
      OBVIOUS
    <3>4. /\ children \in Seq(0 .. n - 1)
          /\ \A j \in 1 .. Len(children) :
               h[children[j]] = h[pg] - 1 /\ r[children[j]] \subseteq r[pg]
          /\ \A j, m \in 1 .. Len(children) :
               j < m => LeftOf(r[children[j]], r[children[m]])
          /\ \A v \in r[pg] : \E j \in 1 .. Len(children) : v \in r[children[j]]
      BY ONLY <3>2, <3>3, GoodTree(page, n, h, r), NodeChildren
    <3> QED
      BY ONLY <3>1, <3>3, <3>4
  <2>2. DOMAIN lists = 1 .. Len(above) /\ Len(lists) = Len(above) /\ lists \in Seq(Seq(0 .. n - 1))
    <3>1. lists \in [1 .. Len(above) -> Seq(0 .. n - 1)]
      <4>1. \A i \in 1 .. Len(above) : lists[i] \in Seq(0 .. n - 1)
        BY ONLY <2>1
      <4> QED
        BY ONLY <1>2, <1>4, <4>1
    <3> QED
      BY ONLY <1>4, <3>1
  <2>3. /\ all \in Seq(0 .. n - 1)
        /\ \A k, j : InLists(lists, k, j) => \E p \in 1 .. Len(all) : all[p] = lists[k][j]
        /\ \A p \in 1 .. Len(all) : \E k, j : InLists(lists, k, j) /\ all[p] = lists[k][j]
        /\ \A p, q \in 1 .. Len(all) : p < q =>
             \E k, j, l, m :
               /\ InLists(lists, k, j) /\ all[p] = lists[k][j]
               /\ InLists(lists, l, m) /\ all[q] = lists[l][m]
               /\ Sooner(k, j, l, m)
    <3>1. PICK S : S = 0 .. n - 1
      OBVIOUS
    <3>2. lists \in Seq(Seq(S))
      BY ONLY <2>2, <3>1
    <3>3. HasAllOf(all, S, lists)
      BY ONLY <1>3, <3>2, FlattenOrder
    <3> QED
      BY ONLY <3>1, <3>3 DEF HasAllOf
  <2>4. ChildrenOf[above] = all
    BY ONLY <1>5, <1>7
  <2>5. ASSUME above = <<>> PROVE all = <<>>
    <3>1. Len(above) = 0
      BY ONLY <2>5
    <3>2. ASSUME NEW p \in 1 .. Len(all) PROVE FALSE
      <4>1. PICK k, j : InLists(lists, k, j)
        BY ONLY <2>3, p \in 1 .. Len(all)
      <4> QED
        BY ONLY <2>2, <3>1, <4>1 DEF InLists
    <3> QED
      BY ONLY <2>3, <3>2
  <2>6. ASSUME NEW k \in Nat \ {0}, LevelAt(above, n, h, r, k)
        PROVE  LevelAt(all, n, h, r, k - 1)
    <3>1. /\ \A i \in 1 .. Len(above) : h[above[i]] = k
          /\ \A i, j \in 1 .. Len(above) : i < j => LeftOf(r[above[i]], r[above[j]])
          /\ \A v \in Int : \E i \in 1 .. Len(above) : v \in r[above[i]]
      BY ONLY <2>6 DEF LevelAt
    <3>2. ASSUME NEW i, NEW j, InLists(lists, i, j)
          PROVE  /\ i \in 1 .. Len(above) /\ j \in 1 .. Len(lists[i])
                 /\ h[lists[i][j]] = k - 1 /\ r[lists[i][j]] \subseteq r[above[i]]
      <4>1. i \in 1 .. Len(above) /\ j \in 1 .. Len(lists[i])
        BY ONLY <2>2, <3>2 DEF InLists
      <4> QED
        BY ONLY <2>1, <3>1, <4>1
    <3>3. ASSUME NEW p \in 1 .. Len(all) PROVE h[all[p]] = k - 1
      <4>1. PICK i, j : InLists(lists, i, j) /\ all[p] = lists[i][j]
        BY ONLY <2>3, p \in 1 .. Len(all)
      <4> QED
        BY ONLY <3>2, <4>1
    <3>4. ASSUME NEW p \in 1 .. Len(all), NEW q \in 1 .. Len(all), p < q
          PROVE  LeftOf(r[all[p]], r[all[q]])
      <4>1. PICK i, j, l, m :
              /\ InLists(lists, i, j) /\ all[p] = lists[i][j]
              /\ InLists(lists, l, m) /\ all[q] = lists[l][m]
              /\ Sooner(i, j, l, m)
        BY ONLY <2>3, <3>4, p \in 1 .. Len(all), q \in 1 .. Len(all)
      <4>2. /\ i \in 1 .. Len(above) /\ j \in 1 .. Len(lists[i])
            /\ r[lists[i][j]] \subseteq r[above[i]]
            /\ l \in 1 .. Len(above) /\ m \in 1 .. Len(lists[l])
            /\ r[lists[l][m]] \subseteq r[above[l]]
        BY ONLY <3>2, <4>1
      <4>3. CASE i < l
        <5>1. LeftOf(r[above[i]], r[above[l]])
          BY ONLY <3>1, <4>2, <4>3
        <5> QED
          BY ONLY <4>1, <4>2, <5>1 DEF LeftOf
      <4>4. CASE i = l /\ j < m
        <5>1. LeftOf(r[lists[i][j]], r[lists[i][m]])
          BY ONLY <2>1, <4>2, <4>4
        <5> QED
          BY ONLY <4>1, <4>4, <5>1
      <4> QED
        BY ONLY <4>1, <4>3, <4>4 DEF Sooner
    <3>5. ASSUME NEW v \in Int PROVE \E p \in 1 .. Len(all) : v \in r[all[p]]
      <4>1. PICK i \in 1 .. Len(above) : v \in r[above[i]]
        BY ONLY <3>1
      <4>2. PICK j \in 1 .. Len(lists[i]) : v \in r[lists[i][j]]
        BY ONLY <2>1, <4>1
      <4>3. InLists(lists, i, j)
        BY ONLY <2>2, i \in 1 .. Len(above), j \in 1 .. Len(lists[i]) DEF InLists
      <4>4. PICK p \in 1 .. Len(all) : all[p] = lists[i][j]
        BY ONLY <2>3, <4>3
      <4> QED
        BY ONLY <4>2, <4>4
    <3> QED
      BY ONLY <2>3, <3>3, <3>4, <3>5 DEF LevelAt
  <2> QED
    BY ONLY <1>7, <2>3, <2>4, <2>5, <2>6
<1> QED
  BY ONLY <1>6, <1>7

(* Level h[Root] - k has the pages of height k, and there is none further  *)
(* down than the leaves.                                                   *)
LEMMA LevelsAre ==
  ASSUME NEW n, NEW h, NEW r, GoodTree(page, n, h, r), NumPages = n
  PROVE  /\ h[Root] \in 0 .. n - 1
         /\ \A m \in 0 .. h[Root] : LevelAt(Level[m], n, h, r, h[Root] - m)
         /\ \A m \in 0 .. n : m > h[Root] => Level[m] = <<>>
         /\ Height = h[Root]
<1>1. /\ n \in Nat \ {0} /\ DOMAIN page = 0 .. n - 1 /\ Root \in 0 .. n - 1
      /\ h[Root] \in Nat /\ h[Root] < n /\ r[Root] = Int
  BY ONLY GoodTree(page, n, h, r), TreeIs
<1>2. PICK H, level, V : H = h[Root] /\ level = Level /\ V = Seq(0 .. n - 1)
  OBVIOUS
<1>3. H \in 0 .. n - 1 /\ H \in Nat /\ n \in Nat
  BY ONLY <1>1, <1>2
<1>4. level = LoopOf(n, <<Root>>, ChildrenOf)
  BY ONLY <1>2, NumPages = n DEF Level, LoopOf, IsLoop
<1>5. <<Root>> \in V /\ \A v \in V : ChildrenOf[v] \in V
  <2>1. <<Root>> \in Seq(0 .. n - 1)
    BY ONLY <1>1
  <2>2. \A v \in Seq(0 .. n - 1) : ChildrenOf[v] \in Seq(0 .. n - 1)
    BY ONLY GoodTree(page, n, h, r), ChildrenAre
  <2> QED
    BY ONLY <1>2, <2>1, <2>2
<1>6. /\ level[0] = <<Root>> /\ level \in [0 .. n -> V]
      /\ \A i \in 1 .. n : level[i] = ChildrenOf[level[i - 1]]
  BY ONLY <1>3, <1>4, <1>5, LoopInvariant
<1>7. \A i \in 0 .. n : level[i] \in Seq(0 .. n - 1)
  BY ONLY <1>2, <1>6
<1>8. LevelAt(level[0], n, h, r, H)
  <2>1. PICK top : top = <<Root>>
    OBVIOUS
  <2>2. top \in Seq(0 .. n - 1) /\ Len(top) = 1 /\ top[1] = Root
    BY ONLY <1>1, <2>1
  <2>3. \A i \in 1 .. Len(top) : i = 1
    BY ONLY <2>2
  <2>4. \A i \in 1 .. Len(top) : h[top[i]] = H
    BY ONLY <1>2, <2>2, <2>3
  <2>5. \A i, j \in 1 .. Len(top) : i < j => LeftOf(r[top[i]], r[top[j]])
    BY ONLY <2>2, <2>3
  <2>6. \A v \in Int : \E i \in 1 .. Len(top) : v \in r[top[i]]
    BY ONLY <1>1, <2>2
  <2> QED
    BY ONLY <1>6, <2>1, <2>2, <2>4, <2>5, <2>6 DEF LevelAt
<1> DEFINE Right(m) == IF m <= H THEN LevelAt(level[m], n, h, r, H - m) ELSE level[m] = <<>>
<1>9. ASSUME NEW m \in 1 .. n, Right(m - 1) PROVE Right(m)
  <2>1. PICK above : above = level[m - 1]
    OBVIOUS
  <2>2. above \in Seq(0 .. n - 1) /\ level[m] = ChildrenOf[above]
    BY ONLY <1>3, <1>6, <1>7, <2>1, m \in 1 .. n
  <2>3. /\ (\E i \in DOMAIN above : h[above[i]] = 0) => ChildrenOf[above] = <<>>
        /\ above = <<>> => ChildrenOf[above] = <<>>
        /\ \A k \in Nat \ {0} :
             LevelAt(above, n, h, r, k) => LevelAt(ChildrenOf[above], n, h, r, k - 1)
    BY ONLY <2>2, GoodTree(page, n, h, r), ChildrenAre
  <2>4. CASE m <= H
    <3>1. m - 1 <= H /\ H - (m - 1) \in Nat \ {0} /\ (H - (m - 1)) - 1 = H - m
      BY ONLY <1>3, <2>4, m \in 1 .. n
    <3>2. LevelAt(above, n, h, r, H - (m - 1))
      BY ONLY <1>9, <2>1, <3>1
    <3>3. LevelAt(ChildrenOf[above], n, h, r, (H - (m - 1)) - 1)
      BY ONLY <2>3, <3>1, <3>2
    <3> QED
      BY ONLY <2>2, <2>4, <3>1, <3>3
  <2>5. CASE m = H + 1
    <3>1. m - 1 <= H /\ H - (m - 1) = 0 /\ ~(m <= H)
      BY ONLY <1>3, <2>5
    <3>2. LevelAt(above, n, h, r, 0)
      BY ONLY <1>9, <2>1, <3>1
    <3>3. above # <<>> /\ Len(above) \in Nat
      BY ONLY <3>2, GoodTree(page, n, h, r), LevelHasAll
    <3>4. DOMAIN above = 1 .. Len(above) /\ 1 \in 1 .. Len(above)
      BY ONLY <2>2, <3>3
    <3>5. h[above[1]] = 0
      BY ONLY <3>2, <3>4 DEF LevelAt
    <3> QED
      BY ONLY <2>2, <2>3, <3>1, <3>4, <3>5
  <2>6. CASE m > H + 1
    <3>1. ~(m - 1 <= H) /\ ~(m <= H)
      BY ONLY <1>3, <2>6, m \in 1 .. n
    <3>2. above = <<>>
      BY ONLY <1>9, <2>1, <3>1
    <3> QED
      BY ONLY <2>2, <2>3, <3>1, <3>2
  <2>7. m <= H \/ m = H + 1 \/ m > H + 1
    BY ONLY <1>3, m \in 1 .. n
  <2> QED
    BY ONLY <2>4, <2>5, <2>6, <2>7
<1>10. \A m \in 0 .. n : Right(m)
  <2>1. Right(0)
    BY ONLY <1>3, <1>8
  <2> HIDE DEF Right
  <2> DEFINE T == {i \in 0 .. n : ~Right(i)}
  <2>2. SUFFICES ASSUME T # {} PROVE FALSE
    OBVIOUS
  <2>3. T \in SUBSET Nat
    BY ONLY <1>3
  <2>4. PICK i \in T : \A j \in T : i <= j
    <3> HIDE DEF T
    <3> QED
      BY ONLY <2>2, <2>3, LeastNumber
  <2>5. i \in 1 .. n /\ i - 1 \in 0 .. n /\ i - 1 < i
    BY ONLY <1>3, <2>1, <2>4
  <2>6. i - 1 \notin T
    <3> HIDE DEF T
    <3> QED
      BY ONLY <2>3, <2>4, <2>5
  <2> QED
    BY ONLY <1>9, <2>4, <2>5, <2>6
<1>11. \A m \in 0 .. H : LevelAt(level[m], n, h, r, H - m)
  BY ONLY <1>3, <1>10
<1>12. \A m \in 0 .. n : m > H => level[m] = <<>>
  BY ONLY <1>3, <1>10
<1>13. \A m \in 0 .. H : level[m] # <<>>
  BY ONLY <1>11, GoodTree(page, n, h, r), LevelHasAll
<1>14. Height = H
  <2>1. Height = CHOOSE m \in 0 .. n : level[m] # <<>> /\ (m = n \/ level[m + 1] = <<>>)
    BY ONLY <1>2, NumPages = n DEF Height
  <2>2. H \in 0 .. n /\ level[H] # <<>> /\ level[H + 1] = <<>>
    BY ONLY <1>3, <1>12, <1>13
  <2>3. ASSUME NEW m \in 0 .. n, level[m] # <<>>, m = n \/ level[m + 1] = <<>>
        PROVE  m = H
    <3>1. m <= H
      BY ONLY <1>3, <1>12, <2>3, m \in 0 .. n
    <3>2. m # n
      BY ONLY <1>3, <3>1
    <3>3. ~(m + 1 \in 0 .. H)
      BY ONLY <1>13, <2>3, <3>2
    <3> QED
      BY ONLY <1>3, <3>1, <3>3, m \in 0 .. n
  <2> QED
    BY ONLY <2>1, <2>2, <2>3
<1> QED
  BY ONLY <1>2, <1>3, <1>11, <1>12, <1>14

(* All leaves are on the last level, and the levels together have each     *)
(* page once.                                                              *)
LEMMA ShapeIsGood ==
  ASSUME IInv
  PROVE  TreeShape
<1> SUFFICES ASSUME Intact
             PROVE  LET all == FlattenSeq([m \in 1 .. Height + 1 |-> Level[m - 1]]) IN
                    /\ \A pg \in ToSet(Level[Height]) : IsLeaf(page[pg])
                    /\ Len(all) = NumPages /\ ToSet(all) = DOMAIN page
  BY DEF TreeShape
<1>1. call = Idle /\ ~HasPFError(ret)
  BY DEF Intact, HasPFError
<1>2. PICK h, r, n : n = NumPages /\ GoodTree(page, n, h, r)
  BY ONLY <1>1, IInv, IdleTree
<1>3. PICK H, level : H = h[Root] /\ level = Level
  OBVIOUS
<1>4. /\ H \in 0 .. n - 1 /\ Height = H
      /\ \A m \in 0 .. H : LevelAt(level[m], n, h, r, H - m)
  BY ONLY <1>2, <1>3, LevelsAre
<1>5. /\ n \in Nat \ {0} /\ DOMAIN page = 0 .. n - 1
      /\ \A pg \in 0 .. n - 1 : h[pg] \in 0 .. H /\ (IsLeaf(page[pg]) <=> h[pg] = 0)
  <2>1. /\ n \in Nat \ {0} /\ DOMAIN page = 0 .. n - 1
        /\ \A pg \in 0 .. n - 1 :
             h[pg] \in Nat /\ h[pg] <= h[Root] /\ (IsLeaf(page[pg]) <=> h[pg] = 0)
    BY ONLY <1>2, TreeIs
  <2> QED
    BY ONLY <1>3, <1>4, <2>1
<1>6. PICK lists : lists = [m \in 1 .. H + 1 |-> level[m - 1]]
  OBVIOUS
<1>7. PICK all : all = FlattenSeq(lists)
  OBVIOUS
<1>8. \A m \in 1 .. H + 1 :
        /\ lists[m] = level[m - 1] /\ m - 1 \in 0 .. H
        /\ LevelAt(lists[m], n, h, r, H - (m - 1))
  BY ONLY <1>4, <1>6
<1>9. ASSUME NEW m \in 1 .. H + 1
      PROVE  /\ lists[m] \in Seq(0 .. n - 1) /\ Len(lists[m]) \in Nat
             /\ \A i \in 1 .. Len(lists[m]) :
                  lists[m][i] \in 0 .. n - 1 /\ h[lists[m][i]] = H - (m - 1)
             /\ \A pg \in 0 .. n - 1 :
                  h[pg] = H - (m - 1) => \E i \in 1 .. Len(lists[m]) : lists[m][i] = pg
             /\ \A i, j \in 1 .. Len(lists[m]) : i # j => lists[m][i] # lists[m][j]
  <2>1. PICK list, k : list = lists[m] /\ k = H - (m - 1)
    OBVIOUS
  <2>2. LevelAt(list, n, h, r, k)
    BY ONLY <1>8, <2>1, m \in 1 .. H + 1
  <2>3. /\ Len(list) \in Nat /\ \A i \in 1 .. Len(list) : list[i] \in 0 .. n - 1
        /\ \A pg \in 0 .. n - 1 : h[pg] = k => \E i \in 1 .. Len(list) : list[i] = pg
        /\ \A i, j \in 1 .. Len(list) : i # j => list[i] # list[j]
    BY ONLY <1>2, <2>2, LevelHasAll
  <2>4. list \in Seq(0 .. n - 1) /\ \A i \in 1 .. Len(list) : h[list[i]] = k
    BY ONLY <2>2 DEF LevelAt
  <2> QED
    BY ONLY <2>1, <2>3, <2>4
<1>10. Len(lists) = H + 1 /\ lists \in Seq(Seq(0 .. n - 1)) /\ H + 1 \in Nat
  <2>1. H + 1 \in Nat /\ DOMAIN lists = 1 .. H + 1
    BY ONLY <1>4, <1>6
  <2>2. lists \in [1 .. H + 1 -> Seq(0 .. n - 1)]
    BY ONLY <1>6, <1>9
  <2> QED
    BY ONLY <2>1, <2>2
<1>11. HasAllOf(all, 0 .. n - 1, lists)
  <2>1. PICK S : S = 0 .. n - 1
    OBVIOUS
  <2>2. lists \in Seq(Seq(S))
    BY ONLY <1>10, <2>1
  <2>3. HasAllOf(all, S, lists)
    BY ONLY <1>7, <2>2, FlattenOrder
  <2> QED
    BY ONLY <2>1, <2>3
<1>12. all \in Seq(0 .. n - 1) /\ Len(all) \in Nat /\ DOMAIN all = 1 .. Len(all)
       /\ \A p \in 1 .. Len(all) : all[p] \in 0 .. n - 1
  <2>1. all \in Seq(0 .. n - 1)
    BY ONLY <1>11 DEF HasAllOf
  <2> QED
    BY ONLY <2>1, SeqIs
<1>13. ASSUME NEW pg \in 0 .. n - 1 PROVE \E p \in 1 .. Len(all) : all[p] = pg
  <2>1. PICK m : m = H - h[pg] + 1
    OBVIOUS
  <2>2. m \in 1 .. H + 1 /\ h[pg] = H - (m - 1)
    BY ONLY <1>4, <1>5, <2>1, pg \in 0 .. n - 1
  <2>3. PICK i \in 1 .. Len(lists[m]) : lists[m][i] = pg
    BY ONLY <1>9, <2>2, pg \in 0 .. n - 1
  <2>4. InLists(lists, m, i)
    BY ONLY <1>10, <2>2, i \in 1 .. Len(lists[m]) DEF InLists
  <2> QED
    BY ONLY <1>11, <2>3, <2>4 DEF HasAllOf
<1>14. ASSUME NEW p \in 1 .. Len(all), NEW q \in 1 .. Len(all), p < q PROVE all[p] # all[q]
  <2>1. PICK k, i, l, j :
          /\ InLists(lists, k, i) /\ all[p] = lists[k][i]
          /\ InLists(lists, l, j) /\ all[q] = lists[l][j]
          /\ Sooner(k, i, l, j)
    BY ONLY <1>11, <1>14, p \in 1 .. Len(all), q \in 1 .. Len(all) DEF HasAllOf
  <2>2. /\ k \in 1 .. H + 1 /\ i \in 1 .. Len(lists[k])
        /\ l \in 1 .. H + 1 /\ j \in 1 .. Len(lists[l])
    BY ONLY <1>10, <2>1 DEF InLists
  <2>3. CASE k < l
    <3>1. h[all[p]] = H - (k - 1) /\ h[all[q]] = H - (l - 1)
      BY ONLY <1>9, <2>1, <2>2
    <3>2. H - (k - 1) # H - (l - 1)
      BY ONLY <1>4, <2>2, <2>3
    <3> QED
      BY ONLY <3>1, <3>2
  <2>4. CASE k = l /\ i < j
    <3>1. i # j
      BY ONLY <1>9, <2>2, <2>4
    <3> QED
      BY ONLY <1>9, <2>1, <2>2, <2>4, <3>1
  <2> QED
    BY ONLY <2>1, <2>3, <2>4 DEF Sooner
<1>15. all \in Bijection(1 .. Len(all), 0 .. n - 1)
  <2>1. all \in [1 .. Len(all) -> 0 .. n - 1]
    BY ONLY <1>12
  <2>2. \A p, q \in 1 .. Len(all) : all[p] = all[q] => p = q
    BY ONLY <1>12, <1>14
  <2>3. all \in Injection(1 .. Len(all), 0 .. n - 1)
    BY ONLY <2>1, <2>2 DEF Injection, IsInjective
  <2>4. all \in Surjection(1 .. Len(all), 0 .. n - 1)
    BY ONLY <1>13, <2>1 DEF Surjection
  <2> QED
    BY ONLY <2>3, <2>4 DEF Bijection
<1>16. Len(all) = n
  <2>1. IsFiniteSet(1 .. Len(all)) /\ Cardinality(1 .. Len(all)) = Len(all)
    <3>1. /\ IsFiniteSet(1 .. Len(all))
          /\ Cardinality(1 .. Len(all)) = IF 1 > Len(all) THEN 0 ELSE Len(all) - 1 + 1
      BY ONLY <1>12, FS_Interval
    <3> QED
      BY ONLY <1>12, <3>1
  <2>2. Cardinality(0 .. n - 1) = n
    BY ONLY <1>5, FirstPages
  <2>3. ExistsBijection(1 .. Len(all), 0 .. n - 1)
    BY ONLY <1>15 DEF ExistsBijection
  <2>4. Cardinality(1 .. Len(all)) = Cardinality(0 .. n - 1)
    BY ONLY <2>1, <2>3, FS_Bijection
  <2> QED
    BY ONLY <2>1, <2>2, <2>4
<1>17. ToSet(all) = DOMAIN page
  BY ONLY <1>5, <1>12, <1>13 DEF ToSet
<1>18. \A pg \in ToSet(level[H]) : IsLeaf(page[pg])
  <2>1. LevelAt(level[H], n, h, r, 0)
    <3>1. H \in 0 .. H /\ H - H = 0
      BY ONLY <1>4
    <3> QED
      BY ONLY <1>4, <3>1
  <2>2. PICK list : list = level[H]
    OBVIOUS
  <2>3. list \in Seq(0 .. n - 1) /\ \A i \in 1 .. Len(list) : h[list[i]] = 0
    BY ONLY <2>1, <2>2 DEF LevelAt
  <2>4. DOMAIN list = 1 .. Len(list) /\ \A i \in 1 .. Len(list) : list[i] \in 0 .. n - 1
    BY ONLY <2>3, SeqIs
  <2> QED
    BY ONLY <1>5, <2>2, <2>3, <2>4 DEF ToSet
<1>19. all = FlattenSeq([m \in 1 .. Height + 1 |-> Level[m - 1]])
  BY ONLY <1>3, <1>4, <1>6, <1>7
<1> QED
  BY ONLY <1>2, <1>3, <1>4, <1>16, <1>17, <1>18, <1>19

-----------------------------------------------------------------------------
(***************************************************************************)
(* The leaves, from one to the next.                                       *)
(***************************************************************************)
NextOf(P, leaves, i) == IF i = Len(leaves) THEN AM_NULL_PAGE ELSE leaves[i + 1]

(* The links lead through the last level from left to right.               *)
LEMMA LeavesAreLinked ==
  ASSUME NEW P, NEW n, NEW h, NEW r, GoodTree(P, n, h, r),
         NEW leaves, LevelAt(leaves, n, h, r, 0)
  PROVE  /\ Len(leaves) \in 1 .. n /\ leaves[1] = FirstLeaf(h)
         /\ \A i \in 1 .. Len(leaves) : P[leaves[i]].next = NextOf(P, leaves, i)
<1>1. PICK A, m, first : A = LeavesOf(n, h) /\ m = Len(leaves) /\ first = FirstLeaf(h)
  OBVIOUS
<1>2. /\ n \in Nat \ {0}
      /\ \A x \in 0 .. n - 1 : r[x] \in SUBSET Int /\ r[x] # {}
  BY ONLY GoodTree(P, n, h, r), TreeIs
<1>3. /\ m \in Nat /\ leaves # <<>> /\ \A i \in 1 .. m : leaves[i] \in 0 .. n - 1
      /\ \A pg \in 0 .. n - 1 : h[pg] = 0 => \E i \in 1 .. m : leaves[i] = pg
      /\ \A i, j \in 1 .. m : i # j => leaves[i] # leaves[j]
  BY ONLY <1>1, GoodTree(P, n, h, r), LevelAt(leaves, n, h, r, 0), LevelHasAll
<1>4. /\ leaves \in Seq(0 .. n - 1) /\ \A i \in 1 .. m : h[leaves[i]] = 0
      /\ \A i, j \in 1 .. m : i < j => LeftOf(r[leaves[i]], r[leaves[j]])
  BY ONLY <1>1, LevelAt(leaves, n, h, r, 0) DEF LevelAt
<1>5. \A x \in A : x \in 0 .. n - 1 /\ \E i \in 1 .. m : leaves[i] = x
  BY ONLY <1>1, <1>3 DEF LeavesOf
<1>6. \A i \in 1 .. m : leaves[i] \in A
  BY ONLY <1>1, <1>3, <1>4 DEF LeavesOf
<1>7. Linked(A, first, P, r)
  BY ONLY <1>1, GoodTree(P, n, h, r) DEF GoodTree, LinksOf
<1>8. /\ first \in A /\ \A x \in A : x # first => LeftOf(r[first], r[x])
      /\ \A y \in A : P[y].next # AM_NULL_PAGE =>
           P[y].next \in A /\ LeftOf(r[y], r[P[y].next])
      /\ \A x, y \in A : x # y =>
           \/ LeftOf(r[x], r[y])
           \/ P[y].next # AM_NULL_PAGE /\ (x = P[y].next \/ LeftOf(r[P[y].next], r[x]))
  BY ONLY <1>7 DEF Linked
<1>9. m \in 1 .. n
  <2>1. m # 0
    BY ONLY <1>1, <1>3, <1>4
  <2>2. leaves \in [1 .. m -> 0 .. n - 1]
    <3>1. PICK S : S = 0 .. n - 1
      OBVIOUS
    <3>2. leaves \in Seq(S)
      BY ONLY <1>4, <3>1
    <3>3. m = Len(leaves)
      BY ONLY <1>1
    <3>4. leaves \in [1 .. m -> S]
      BY ONLY <3>2, <3>3
    <3> QED
      BY ONLY <3>1, <3>4
  <2>3. leaves \in Injection(1 .. m, 0 .. n - 1)
    BY ONLY <1>3, <2>2 DEF Injection, IsInjective
  <2>4. IsFiniteSet(0 .. n - 1) /\ Cardinality(0 .. n - 1) = n
    BY ONLY <1>2, FirstPages
  <2>5. Cardinality(1 .. m) <= n
    BY ONLY <2>3, <2>4, FS_Injection
  <2>6. Cardinality(1 .. m) = IF 1 > m THEN 0 ELSE m - 1 + 1
    BY ONLY <1>3, FS_Interval
  <2> QED
    BY ONLY <1>2, <1>3, <2>1, <2>5, <2>6
<1>10. ASSUME NEW i \in 1 .. m, NEW j \in 1 .. m, LeftOf(r[leaves[i]], r[leaves[j]])
       PROVE  i < j
  <2>1. PICK R, S : R = r[leaves[i]] /\ S = r[leaves[j]]
    OBVIOUS
  <2>2. R \in SUBSET Int /\ R # {} /\ S \in SUBSET Int /\ S # {} /\ LeftOf(R, S)
    BY ONLY <1>2, <1>3, <1>10, <2>1, i \in 1 .. m, j \in 1 .. m
  <2>3. SUFFICES ASSUME ~(i < j) PROVE FALSE
    OBVIOUS
  <2>4. CASE i = j
    <3>1. LeftOf(R, R)
      BY ONLY <2>1, <2>2, <2>4
    <3> QED
      BY ONLY <2>2, <3>1, LeftOfLeft
  <2>5. CASE j < i
    <3>1. LeftOf(S, R)
      BY ONLY <1>4, <2>1, <2>5, i \in 1 .. m, j \in 1 .. m
    <3>2. LeftOf(R, R)
      BY ONLY <2>2, <3>1, LeftOfLeft
    <3> QED
      BY ONLY <2>2, <3>2, LeftOfLeft
  <2> QED
    BY ONLY <1>3, <2>3, <2>4, <2>5, i \in 1 .. m, j \in 1 .. m
<1>11. leaves[1] = first
  <2>1. PICK k \in 1 .. m : leaves[k] = first
    BY ONLY <1>5, <1>8
  <2>2. 1 \in 1 .. m /\ ~(k < 1)
    BY ONLY <1>9, k \in 1 .. m
  <2>3. leaves[1] # first => k < 1
    BY ONLY <1>6, <1>8, <1>10, <2>1, <2>2
  <2> QED
    BY ONLY <2>2, <2>3
<1>12. ASSUME NEW i \in 1 .. m PROVE P[leaves[i]].next = NextOf(P, leaves, i)
  <2>1. PICK y, z : y = leaves[i] /\ z = P[y].next
    OBVIOUS
  <2>2. y \in A
    BY ONLY <1>6, <2>1, i \in 1 .. m
  <2>3. i # m => /\ i + 1 \in 1 .. m /\ leaves[i + 1] \in A /\ leaves[i + 1] # y
                 /\ ~LeftOf(r[leaves[i + 1]], r[y])
    <3>1. i # m => i + 1 \in 1 .. m /\ i # i + 1 /\ ~(i + 1 < i)
      BY ONLY <1>3, i \in 1 .. m
    <3> QED
      BY ONLY <1>3, <1>6, <1>10, <2>1, <3>1, i \in 1 .. m
  <2>4. CASE z = AM_NULL_PAGE
    <3>1. i = m
      BY ONLY <1>8, <2>1, <2>2, <2>3, <2>4
    <3> QED
      BY ONLY <1>1, <2>1, <2>4, <3>1 DEF NextOf
  <2>5. CASE z # AM_NULL_PAGE
    <3>1. z \in A /\ LeftOf(r[y], r[z])
      BY ONLY <1>8, <2>1, <2>2, <2>5
    <3>2. PICK k \in 1 .. m : leaves[k] = z
      BY ONLY <1>5, <3>1
    <3>3. i < k
      BY ONLY <1>10, <2>1, <3>1, <3>2, i \in 1 .. m, k \in 1 .. m
    <3>4. i # m
      BY ONLY <1>3, <3>3, i \in 1 .. m, k \in 1 .. m
    <3>5. leaves[i + 1] = z \/ LeftOf(r[z], r[leaves[i + 1]])
      BY ONLY <1>8, <2>1, <2>2, <2>3, <3>4
    <3>6. LeftOf(r[z], r[leaves[i + 1]]) => k < i + 1
      BY ONLY <1>10, <2>3, <3>2, <3>4, k \in 1 .. m
    <3>7. ~(k < i + 1)
      BY ONLY <3>3, i \in 1 .. m, k \in 1 .. m
    <3> QED
      BY ONLY <1>1, <2>1, <3>4, <3>5, <3>6, <3>7 DEF NextOf
  <2> QED
    BY ONLY <2>4, <2>5
<1> QED
  BY ONLY <1>1, <1>9, <1>11, <1>12

(* The walk along the links ends with the last level of the tree.          *)
LEMMA ChainIs ==
  ASSUME NEW n, NEW h, NEW r, GoodTree(page, n, h, r), NumPages = n,
         NEW leaves, LevelAt(leaves, n, h, r, 0)
  PROVE  Chain = leaves /\ GetLeftPageNum = leaves[1]
<1>1. /\ n \in Nat \ {0} /\ DOMAIN page = 0 .. n - 1
      /\ Root \in 0 .. n - 1 /\ (IsLeaf(page[Root]) <=> h[Root] = 0)
  BY ONLY GoodTree(page, n, h, r), TreeIs
<1>2. /\ Len(leaves) \in 1 .. n /\ leaves[1] = FirstLeaf(h)
      /\ \A i \in 1 .. Len(leaves) : page[leaves[i]].next = NextOf(page, leaves, i)
  BY ONLY GoodTree(page, n, h, r), LevelAt(leaves, n, h, r, 0), LeavesAreLinked
<1>3. leaves \in Seq(0 .. n - 1) /\ \A i \in 1 .. Len(leaves) : leaves[i] \in 0 .. n - 1
  <2>1. leaves \in Seq(0 .. n - 1)
    BY ONLY LevelAt(leaves, n, h, r, 0) DEF LevelAt
  <2> QED
    BY ONLY <2>1, SeqIs
<1>4. GetLeftPageNum = leaves[1]
  BY ONLY <1>1, <1>2 DEF GetLeftPageNum, FirstLeaf
<1>5. PICK m, S : m = Len(leaves) /\ S = 0 .. n - 1
  OBVIOUS
<1>6. /\ m \in 1 .. n /\ m \in Nat /\ n \in Nat /\ leaves \in Seq(S)
      /\ 1 \in 0 .. Len(leaves) /\ Len(leaves) <= 1 + n
  BY ONLY <1>1, <1>2, <1>3, <1>5
<1>7. ASSUME NEW k \in 1 .. m
      PROVE  Followed[FirstOf(leaves, k)] = FirstOf(leaves, IF k = m THEN k ELSE k + 1)
  <2>1. PICK s : s = FirstOf(leaves, k)
    OBVIOUS
  <2>2. /\ s \in Seq(S) /\ Last(s) = leaves[k]
        /\ k # m => Append(s, leaves[k + 1]) = FirstOf(leaves, k + 1)
    <3>1. k \in 0 .. Len(leaves) /\ k # 0
      BY ONLY <1>5, <1>6, k \in 1 .. m
    <3>2. /\ FirstOf(leaves, k) \in Seq(S) /\ Last(FirstOf(leaves, k)) = leaves[k]
          /\ k # Len(leaves) => Append(FirstOf(leaves, k), leaves[k + 1]) = FirstOf(leaves, k + 1)
      BY ONLY <1>6, <3>1, FirstOfIs
    <3> QED
      BY ONLY <1>5, <2>1, <3>2
  <2>3. s \in Seq(DOMAIN page)
    BY ONLY <1>1, <1>5, <2>2
  <2>4. Followed[s] = LET next == page[leaves[k]].next IN
                      IF next = AM_NULL_PAGE THEN s ELSE Append(s, next)
    BY ONLY <2>2, <2>3 DEF Followed
  <2>5. page[leaves[k]].next = IF k = m THEN AM_NULL_PAGE ELSE leaves[k + 1]
    BY ONLY <1>2, <1>5, k \in 1 .. m DEF NextOf
  <2>6. k # m => leaves[k + 1] # AM_NULL_PAGE
    <3>1. k # m => k + 1 \in 1 .. m
      BY ONLY <1>6, k \in 1 .. m
    <3>2. k # m => leaves[k + 1] \in 0 .. n - 1
      BY ONLY <1>3, <1>5, <3>1
    <3> QED
      BY ONLY <3>2, <1>6 DEF AM_NULL_PAGE
  <2> QED
    BY ONLY <2>1, <2>2, <2>4, <2>5, <2>6
<1>8. Walks(Followed, leaves, 1)
  BY ONLY <1>5, <1>7 DEF Walks
<1>9. LoopOf(n, FirstOf(leaves, 1), Followed)[n] = leaves
  BY ONLY <1>6, <1>8, WalkIs
<1>10. FirstOf(leaves, 1) = <<leaves[1]>>
  BY ONLY <1>6, FirstOfIs
<1>11. Chain = LoopOf(n, <<GetLeftPageNum>>, Followed)[n]
  BY ONLY NumPages = n DEF Chain, LoopOf, IsLoop
<1> QED
  BY ONLY <1>4, <1>9, <1>10, <1>11

(* The keys along the chain are in order: those of a leaf are, and they    *)
(* are in the range of the leaf, left of the keys of the leaves after it.  *)
LEMMA ChainOrdered ==
  ASSUME NEW n, NEW h, NEW r, GoodTree(page, n, h, r),
         NEW leaves, LevelAt(leaves, n, h, r, 0),
         NEW keys, keys = FlattenSeq([i \in DOMAIN leaves |-> KeysOf(page[leaves[i]])])
  PROVE  \A i, j \in DOMAIN keys : i < j => keys[i] < keys[j]
<1>1. /\ DOMAIN page = 0 .. n - 1
      /\ \A pg \in 0 .. n - 1 : GoodNode(page[pg], h[pg], r[pg], h, r) /\ r[pg] \in SUBSET Int
  BY ONLY GoodTree(page, n, h, r), TreeIs
<1>2. PICK m : m = Len(leaves)
  OBVIOUS
<1>3. /\ leaves \in Seq(0 .. n - 1) /\ \A i \in 1 .. m : h[leaves[i]] = 0
      /\ \A i, j \in 1 .. m : i < j => LeftOf(r[leaves[i]], r[leaves[j]])
  BY ONLY <1>2, LevelAt(leaves, n, h, r, 0) DEF LevelAt
<1>4. m \in Nat /\ DOMAIN leaves = 1 .. m /\ \A i \in 1 .. m : leaves[i] \in 0 .. n - 1
  BY ONLY <1>2, <1>3, SeqIs
<1>5. PICK lists : lists = [i \in DOMAIN leaves |-> KeysOf(page[leaves[i]])]
  OBVIOUS
<1>6. ASSUME NEW i \in 1 .. m
      PROVE  /\ lists[i] \in Seq(Int) /\ Len(lists[i]) \in Nat
             /\ \A p \in 1 .. Len(lists[i]) : lists[i][p] \in r[leaves[i]]
             /\ \A p, q \in 1 .. Len(lists[i]) : p < q => lists[i][p] < lists[i][q]
  <2>1. PICK list, leaf, places, S :
          list = lists[i] /\ leaf = page[leaves[i]] /\ places = leaf.keys /\ S = r[leaves[i]]
    OBVIOUS
  <2>2. list = [p \in DOMAIN places |-> places[p].key]
    BY ONLY <1>4, <1>5, <2>1, i \in 1 .. m DEF KeysOf
  <2>3. LeafNode(leaf, S)
    BY ONLY <1>1, <1>3, <1>4, <2>1, i \in 1 .. m DEF GoodNode
  <2>4. GoodLeaf(leaf) /\ \A k, x : Holds(places, k, x) => k \in S
    BY ONLY <2>1, <2>3 DEF LeafNode
  <2>5. GoodKeys(places)
    BY ONLY <2>1, <2>4, GoodLeafIs
  <2>6. /\ Len(places) \in Nat /\ DOMAIN places = 1 .. Len(places)
        /\ \A p \in 1 .. Len(places) : places[p].key \in Int /\ GoodIds(places[p].ids)
        /\ \A p, q \in 1 .. Len(places) : p < q => places[p].key < places[q].key
    BY ONLY <2>5, GoodKeysAre
  <2>7. list \in Seq(Int) /\ Len(list) = Len(places)
    <3>1. list \in [1 .. Len(places) -> Int]
      BY ONLY <2>2, <2>6
    <3> QED
      BY ONLY <2>6, <3>1
  <2>8. \A p \in 1 .. Len(places) : list[p] = places[p].key
    BY ONLY <2>2, <2>6
  <2>9. ASSUME NEW p \in 1 .. Len(places) PROVE list[p] \in S
    <3>1. PICK ids : ids = places[p].ids
      OBVIOUS
    <3>2. HasId(ids, ids[1])
      <4>1. ids # <<>> /\ ids \in Seq(RecIds)
        BY ONLY <2>6, <3>1, p \in 1 .. Len(places) DEF GoodIds
      <4>2. 1 \in DOMAIN ids
        BY ONLY <4>1
      <4> QED
        BY ONLY <4>2 DEF HasId
    <3>3. Holds(places, list[p], ids[1])
      BY ONLY <2>6, <2>8, <3>1, <3>2, p \in 1 .. Len(places) DEF Holds
    <3> QED
      BY ONLY <2>4, <3>3
  <2> QED
    BY ONLY <2>1, <2>6, <2>7, <2>8, <2>9
<1>7. Len(lists) = m /\ lists \in Seq(Seq(Int))
  <2>1. lists \in [1 .. m -> Seq(Int)]
    BY ONLY <1>4, <1>5, <1>6
  <2> QED
    BY ONLY <1>4, <2>1
<1>8. HasAllOf(keys, Int, lists)
  BY ONLY <1>5, <1>7, keys = FlattenSeq([i \in DOMAIN leaves |-> KeysOf(page[leaves[i]])]),
          FlattenOrder
<1>9. DOMAIN keys = 1 .. Len(keys)
  <2>1. keys \in Seq(Int)
    BY ONLY <1>8 DEF HasAllOf
  <2> QED
    BY ONLY <2>1
<1>10. ASSUME NEW p \in 1 .. Len(keys), NEW q \in 1 .. Len(keys), p < q PROVE keys[p] < keys[q]
  <2>1. PICK k, i, l, j :
          /\ InLists(lists, k, i) /\ keys[p] = lists[k][i]
          /\ InLists(lists, l, j) /\ keys[q] = lists[l][j]
          /\ Sooner(k, i, l, j)
    BY ONLY <1>8, <1>10, p \in 1 .. Len(keys), q \in 1 .. Len(keys) DEF HasAllOf
  <2>2. /\ k \in 1 .. m /\ i \in 1 .. Len(lists[k])
        /\ l \in 1 .. m /\ j \in 1 .. Len(lists[l])
    BY ONLY <1>7, <2>1 DEF InLists
  <2>3. CASE k < l
    <3>1. LeftOf(r[leaves[k]], r[leaves[l]])
      BY ONLY <1>3, <2>2, <2>3
    <3>2. lists[k][i] \in r[leaves[k]] /\ lists[l][j] \in r[leaves[l]]
      BY ONLY <1>6, <2>2
    <3> QED
      BY ONLY <2>1, <3>1, <3>2 DEF LeftOf
  <2>4. CASE k = l /\ i < j
    <3>1. lists[k][i] < lists[k][j]
      BY ONLY <1>6, <2>2, <2>4
    <3> QED
      BY ONLY <2>1, <2>4, <3>1
  <2> QED
    BY ONLY <2>1, <2>3, <2>4 DEF Sooner
<1> QED
  BY ONLY <1>9, <1>10

(* What the scans rely on, if they begin at the right leaf.                *)
LeftOK == Failed(call, ret) \/ leftPageNum = GetLeftPageNum

LEMMA ChainIsGood ==
  ASSUME IInv, LeftOK
  PROVE  ChainInOrder
<1> SUFFICES ASSUME Intact
             PROVE  LET keys == FlattenSeq([i \in DOMAIN Chain |-> KeysOf(page[Chain[i]])]) IN
                    /\ leftPageNum = GetLeftPageNum
                    /\ Chain = Level[Height]
                    /\ \A i, j \in DOMAIN keys : i < j => keys[i] < keys[j]
  BY DEF ChainInOrder
<1>1. call = Idle /\ ~HasPFError(ret)
  BY DEF Intact, HasPFError
<1>2. leftPageNum = GetLeftPageNum
  BY ONLY <1>1, LeftOK DEF LeftOK, Failed
<1>3. PICK h, r, n : n = NumPages /\ GoodTree(page, n, h, r)
  BY ONLY <1>1, IInv, IdleTree
<1>4. PICK leaves, H : leaves = Level[H] /\ H = h[Root]
  OBVIOUS
<1>5. Height = H /\ LevelAt(leaves, n, h, r, 0)
  <2>1. /\ H \in 0 .. n - 1 /\ Height = H
        /\ \A k \in 0 .. H : LevelAt(Level[k], n, h, r, H - k)
    BY ONLY <1>3, <1>4, LevelsAre
  <2>2. H \in 0 .. H /\ H - H = 0
    BY ONLY <2>1
  <2> QED
    BY ONLY <1>4, <2>1, <2>2
<1>6. Chain = leaves
  BY ONLY <1>3, <1>5, ChainIs
<1>7. PICK keys : keys = FlattenSeq([i \in DOMAIN leaves |-> KeysOf(page[leaves[i]])])
  OBVIOUS
<1>8. \A i, j \in DOMAIN keys : i < j => keys[i] < keys[j]
  BY ONLY <1>3, <1>5, <1>7, ChainOrdered
<1> QED
  BY ONLY <1>2, <1>4, <1>5, <1>6, <1>7, <1>8

(* The root is a leaf as long as there is no other page.                   *)
RootAlone == Failed(call, ret) \/ (IsLeaf(page[Root]) <=> 1 \notin DOMAIN page)

LEMMA LowRoot ==
  ASSUME NEW P, NEW n, NEW h, NEW r, GoodTree(P, n, h, r)
  PROVE  IsLeaf(P[Root]) <=> 1 \notin 0 .. n - 1
<1>1. /\ n \in Nat \ {0} /\ Root \in 0 .. n - 1 /\ h[Root] \in Nat /\ h[Root] < n
      /\ IsLeaf(P[Root]) <=> h[Root] = 0
      /\ \A pg \in 0 .. n - 1 : h[pg] \in Nat /\ (pg # Root => h[pg] < h[Root])
  BY ONLY GoodTree(P, n, h, r), TreeIs
<1>2. 1 \in 0 .. n - 1 => h[Root] # 0
  <2>1. 1 # Root
    BY DEF Root
  <2>2. 1 \in 0 .. n - 1 => h[1] \in Nat /\ h[1] < h[Root]
    BY ONLY <1>1, <2>1
  <2> QED
    BY ONLY <1>1, <2>2
<1>3. 1 \notin 0 .. n - 1 => h[Root] = 0
  BY ONLY <1>1
<1> QED
  BY ONLY <1>1, <1>2, <1>3

LEMMA RootIsAlone ==
  ASSUME IInv
  PROVE  RootAlone
<1> SUFFICES ASSUME ~Failed(call, ret) PROVE IsLeaf(page[Root]) <=> 1 \notin DOMAIN page
  BY DEF RootAlone
<1>1. PagesOK(page) /\ CallOK(call, page, ret)
  BY DEF IInv
<1>2. PICK n : n = NumPages
  OBVIOUS
<1>3. n \in Nat \ {0} /\ DOMAIN page = 0 .. n - 1 /\ Root \in DOMAIN page /\ NoPage \notin DOMAIN page
  BY ONLY <1>1, <1>2, NumPagesIs
<1>4. CASE call = Idle
  <2>1. PICK h, r : GoodTree(page, n, h, r)
    BY ONLY <1>2, <1>4, IInv, ~Failed(call, ret), IdleTree DEF Failed
  <2> QED
    BY ONLY <1>3, <2>1, LowRoot
<1>5. CASE call.at # NoPage
  <2>1. PICK h, r : LeafState(n, h, r)
    BY ONLY <1>2, <1>5, IInv, AtTheLeaf
  <2>2. GoodTree(page, n, h, r)
    BY ONLY <2>1 DEF LeafState
  <2> QED
    BY ONLY <1>3, <2>2, LowRoot
<1>6. CASE call.up # NoPage
  <2>1. PICK T, h, r : UpState(T, n, h, r)
    BY ONLY <1>2, <1>6, IInv, AtTheParent
  <2>2. /\ GoodTree(T, n, h, r) /\ T[Parent] = Widened
        /\ \A x \in 0 .. n - 1 : x # Parent => T[x] = page[x]
        /\ ~IsLeaf(page[Parent]) /\ ~IsLeaf(Widened)
    BY ONLY <2>1 DEF UpState
  <2>3. IsLeaf(T[Root]) <=> IsLeaf(page[Root])
    BY ONLY <1>3, <2>2
  <2> QED
    BY ONLY <1>3, <2>2, <2>3, LowRoot
<1> QED
  BY ONLY <1>1, <1>3, <1>4, <1>5, <1>6 DEF CallOK, InCall

(* AM_LeftPageNum is set where the root ceases to be a leaf.               *)
LEMMA LeftStep ==
  ASSUME IInv, RootAlone, RootAlone', LeftOK, [Next]_vars
  PROVE  LeftOK'
<1>1. CASE UNCHANGED vars
  BY <1>1 DEF vars, LeftOK, Failed, GetLeftPageNum
<1> SUFFICES ASSUME Next PROVE LeftOK'
  BY <1>1
<1>2. PICK n : n \in Nat \ {0} /\ n = NumPages /\ DOMAIN page = 0 .. n - 1 /\ Root \in DOMAIN page
  BY NumPagesIs DEF IInv
<1>3. ~Failed(call, ret)
  <2> SUFFICES ASSUME Failed(call, ret) PROVE FALSE
    OBVIOUS
  <2>1. call = Idle /\ "err" \in DOMAIN ret /\ ret.err = "PF" /\ call.op = "idle"
        /\ call.at = NoPage /\ call.up = NoPage
    BY IdleIs DEF Failed, HasPFError
  <2>2. \A op, key, id : ~Calls(op, key, id)
    BY ONLY <2>1 DEF Calls
  <2>3. \A op, key, id : ~AM_Search(op, key, id) /\ ~SearchFails(op, key, id)
    BY ONLY <2>2 DEF AM_Search, SearchFails
  <2>4. ~LeafStep
    BY ONLY <2>1 DEF LeafStep, AM_DeleteEntry, DeleteNotFound, InsertIntoLeaf, SplitLeaf,
                     SplitRootLeaf, SplitLeafFails, MustSplit, AtLeaf
  <2>5. ~ParentStep
    BY ONLY <2>1 DEF ParentStep, AddToParent, SplitParent, SplitRoot, SplitRootFails, AddingToParent
  <2> QED
    BY ONLY <2>3, <2>4, <2>5, Next DEF Next
<1>4. /\ IsLeaf(page[Root]) <=> 1 \notin DOMAIN page
      /\ leftPageNum = GetLeftPageNum
  BY ONLY <1>3, RootAlone, LeftOK DEF RootAlone, LeftOK
<1>5. leftPageNum = IF 1 \in DOMAIN page THEN 2 ELSE Root
  BY ONLY <1>4 DEF GetLeftPageNum
<1>6. leftPageNum' = (IF 1 \in DOMAIN page' THEN 2 ELSE Root) => LeftOK'
  BY ONLY RootAlone' DEF RootAlone, LeftOK, GetLeftPageNum, Root
<1>7. DOMAIN page' = DOMAIN page /\ leftPageNum' = leftPageNum => LeftOK'
  BY ONLY <1>5, <1>6
<1>8. 1 \in DOMAIN page /\ 1 \in DOMAIN page' /\ leftPageNum' = leftPageNum => LeftOK'
  BY ONLY <1>5, <1>6
<1>9. ret' = PFError("insert") /\ call' = Idle => LeftOK'
  BY DEF PFError, LeftOK, Failed, HasPFError
<1>10. /\ \A p1, p2, n1, n2 : LET P == With(p1, n1, With(p2, n2, page)) IN
           p1 \in DOMAIN P /\ p2 \in DOMAIN P /\ DOMAIN page \subseteq DOMAIN P
       /\ \A p1, p2, p3, n1, n2, n3 :
           LET P == With(p1, n1, With(p2, n2, With(p3, n3, page))) IN
           p2 \in DOMAIN P /\ DOMAIN page \subseteq DOMAIN P
  <2>1. \A pg, node, pages : pg \in DOMAIN With(pg, node, pages)
                             /\ DOMAIN pages \subseteq DOMAIN With(pg, node, pages)
    BY DEF With
  <2> QED
    BY ONLY <2>1
<1>11. ASSUME NEW op, NEW key, NEW id, AM_Search(op, key, id) \/ SearchFails(op, key, id)
       PROVE  LeftOK'
  BY ONLY <1>7, <1>11 DEF AM_Search, SearchFails
<1>12. CASE AM_DeleteEntry \/ DeleteNotFound \/ InsertIntoLeaf
  BY ONLY <1>7, <1>12 DEF AM_DeleteEntry, DeleteNotFound, InsertIntoLeaf
<1>13. CASE SplitLeaf
  <2>1. /\ call.at # NoPage /\ call.at # Root /\ leftPageNum' = leftPageNum
        /\ \E lower, upper : page' = With(NumPages, upper, With(call.at, lower, page))
    BY ONLY <1>13 DEF SplitLeaf, MustSplit, AtLeaf
  <2>2. DOMAIN page \subseteq DOMAIN page'
    BY ONLY <1>10, <2>1
  <2>3. call.at \in 0 .. n - 1
    BY ONLY <1>2, <2>1, IInv, AtTheLeaf DEF LeafState
  <2>4. 1 \in DOMAIN page
    BY ONLY <1>2, <2>1, <2>3 DEF Root
  <2> QED
    BY ONLY <1>8, <2>1, <2>2, <2>4
<1>14. CASE SplitRootLeaf
  <2>1. /\ call.at # NoPage /\ call.at = Root /\ leftPageNum' = NumPages + 1
        /\ \E lower, upper, root :
             page' = With(NumPages + 1, lower, With(NumPages, upper, With(Root, root, page)))
    BY ONLY <1>14 DEF SplitRootLeaf, MustSplit, AtLeaf, Root, NoPage
  <2>2. IsLeaf(page[Root])
    BY ONLY <2>1, IInv, AtTheLeaf DEF LeafState, Leaf
  <2>3. n = 1
    BY ONLY <1>2, <1>4, <2>2
  <2>4. 1 \in DOMAIN page'
    BY ONLY <1>2, <1>10, <2>1, <2>3
  <2>5. leftPageNum' = 2
    BY ONLY <1>2, <2>1, <2>3
  <2> QED
    BY ONLY <1>6, <2>4, <2>5
<1>15. CASE SplitLeafFails \/ SplitRootFails
  BY ONLY <1>9, <1>15 DEF SplitLeafFails, SplitRootFails, Return
<1>16. CASE AddToParent
  BY ONLY <1>7, <1>16 DEF AddToParent
<1>17. CASE SplitParent \/ SplitRoot
  <2>1. /\ call.up # NoPage /\ leftPageNum' = leftPageNum
        /\ \E node, sibling :
             \/ page' = With(NumPages, sibling, With(Parent, node, page))
             \/ \E root : page' = With(NumPages + 1, node,
                                    With(NumPages, sibling, With(Root, root, page)))
    BY ONLY <1>17 DEF SplitParent, SplitRoot, AddingToParent
  <2>2. DOMAIN page \subseteq DOMAIN page'
    BY ONLY <1>10, <2>1
  <2>3. Parent \in 0 .. n - 1 /\ ~IsLeaf(page[Parent])
    BY ONLY <1>2, <2>1, IInv, AtTheParent DEF UpState
  <2>4. 1 \in DOMAIN page
    BY ONLY <1>2, <1>4, <2>3 DEF Root
  <2> QED
    BY ONLY <1>8, <2>1, <2>2, <2>4
<1> QED
  BY ONLY <1>11, <1>12, <1>13, <1>14, <1>15, <1>16, <1>17, Next DEF Next, LeafStep, ParentStep

-----------------------------------------------------------------------------
(* If the record ids are few enough, the lists always fit: no id is twice  *)
(* in a list.                                                              *)
FewRecIds == IsFiniteSet(RecIds) /\ LeafSpace > Space(2, Cardinality(RecIds) + 1)

LEMMA FewIdsFit ==
  ASSUME FewRecIds, NEW keys, GoodKeys(keys)
  PROVE  ListsFit(keys)
<1> SUFFICES ASSUME NEW i \in DOMAIN keys
             PROVE  LeafSpace > Space(2, Len(keys[i].ids) + 1)
  BY DEF ListsFit
<1>1. PICK ids, len, many : ids = keys[i].ids /\ len = Len(ids) /\ many = Cardinality(RecIds)
  OBVIOUS
<1>2. IsFiniteSet(RecIds) /\ LeafSpace > Space(2, many + 1) /\ many \in Nat
  <2>1. IsFiniteSet(RecIds) /\ LeafSpace > Space(2, many + 1)
    BY <1>1 DEF FewRecIds
  <2> QED
    BY ONLY <1>1, <2>1, FS_CardinalityType
<1>3. GoodIds(ids)
  BY ONLY <1>1, GoodKeys(keys), i \in DOMAIN keys, GoodKeysAre
<1>4. ids \in Seq(RecIds) /\ \A j, k \in DOMAIN ids : ids[j] = ids[k] => j = k
  BY ONLY <1>3 DEF GoodIds
<1>5. len \in Nat /\ DOMAIN ids = 1 .. len /\ ids \in [1 .. len -> RecIds]
  BY ONLY <1>1, <1>4
<1>6. ids \in Injection(1 .. len, RecIds)
  BY ONLY <1>4, <1>5 DEF Injection, IsInjective
<1>7. Cardinality(1 .. len) <= many
  BY ONLY <1>1, <1>2, <1>6, FS_Injection
<1>8. Cardinality(1 .. len) = len
  <2>1. Cardinality(1 .. len) = IF 1 > len THEN 0 ELSE len - 1 + 1
    BY ONLY <1>5, FS_Interval
  <2> QED
    BY ONLY <1>5, <2>1
<1>9. LeafSpace > Space(2, len + 1)
  <2>1. len + 1 \in Nat /\ many + 1 \in Nat /\ len + 1 <= many + 1
    BY ONLY <1>2, <1>5, <1>7, <1>8
  <2>2. KeySize \in Nat /\ CellSize \in Nat /\ LeafSpace \in Nat
    BY LeafAssumption
  <2>3. PICK a, b, size : a = len + 1 /\ b = many + 1 /\ size = CellSize
    OBVIOUS
  <2>4. a * size <= b * size /\ a * size \in Nat /\ b * size \in Nat
    BY ONLY <2>1, <2>2, <2>3
  <2>5. Space(2, b) = 2 * KeySize + b * size /\ Space(2, a) = 2 * KeySize + a * size
    BY ONLY <2>3 DEF Space
  <2>6. LeafSpace > Space(2, b)
    BY ONLY <1>2, <2>3
  <2> QED
    BY ONLY <2>2, <2>3, <2>4, <2>5, <2>6
<1> QED
  BY ONLY <1>1, <1>9

GoodLeaves(P) == \A pg \in DOMAIN P : IsLeaf(P[pg]) => GoodKeys(P[pg].keys)

LEMMA ListsOfFewFit ==
  ASSUME FewRecIds, NEW P, GoodLeaves(P)
  PROVE  FitIn(P)
BY FewIdsFit DEF FitIn, GoodLeaves

-----------------------------------------------------------------------------
(***************************************************************************)
(* The buffers.                                                            *)
(***************************************************************************)
Unfixes == call # Idle /\ ~("err" \in DOMAIN ret' /\ call' = Idle) => fixed' = fixed \ {call.at}
ShortOfBuffers == HasPFError(ret') => numBuffers < 3 \/ fixed \ {call.at} # {}

LEMMA FewFixed ==
  ASSUME IInv
  PROVE  /\ NoPage \notin fixed /\ numBuffers \in Nat \ {0} /\ Cardinality(fixed) \in Nat
         /\ fixed \ {call.at} = {} => Cardinality(fixed) <= 1
         /\ fixed \ {call.at} = {} /\ call.at = NoPage => Cardinality(fixed) = 0
<1>1. PagesOK(page) /\ RestOK(page, fixed, stack, leftPageNum, numBuffers)
  BY DEF IInv
<1>2. NoPage \notin DOMAIN page /\ IsFiniteSet(DOMAIN page)
  BY ONLY <1>1, NumPagesIs
<1>3. fixed \subseteq DOMAIN page /\ numBuffers \in Nat \ {0}
  BY ONLY <1>1 DEF RestOK
<1>4. PICK at, f : at = call.at /\ f = fixed
  OBVIOUS
<1>5. /\ Cardinality(f) \in Nat /\ Cardinality(f \ {at}) \in Nat
      /\ Cardinality(f \ {at}) >= Cardinality(f) - 1
      /\ at \notin f => f \ {at} = f
  BY ONLY <1>2, <1>3, <1>4, OneMoreFixed
<1>6. f \ {at} = {} => Cardinality(f \ {at}) = 0
  BY ONLY FS_EmptySet
<1>7. f \ {at} = {} => Cardinality(f) <= 1
  BY ONLY <1>5, <1>6
<1>8. f \ {at} = {} /\ at \notin f => Cardinality(f) = 0
  BY ONLY <1>5, <1>6
<1> QED
  BY ONLY <1>2, <1>3, <1>4, <1>5, <1>7, <1>8

LEMMA BuffersStep ==
  ASSUME IInv, Next
  PROVE  Unfixes /\ ShortOfBuffers
<1>1. /\ NoPage \notin fixed /\ numBuffers \in Nat \ {0} /\ Cardinality(fixed) \in Nat
      /\ fixed \ {call.at} = {} => Cardinality(fixed) <= 1
      /\ fixed \ {call.at} = {} /\ call.at = NoPage => Cardinality(fixed) = 0
  BY ONLY IInv, FewFixed
<1>2. \A op : /\ HasPFError(PFError(op)) /\ ~HasPFError(OK(op)) /\ "err" \in DOMAIN PFError(op)
              /\ ~HasPFError([op |-> op, err |-> "NOTFOUND"])
  BY ReturnedIs DEF PFError
<1>3. call.at # NoPage => ~HasPFError(ret)
  BY ONLY IInv, AtTheLeaf DEF CallState
<1>4. call.up # NoPage => ~HasPFError(ret) /\ call.at = NoPage
  BY ONLY IInv, AtTheParent DEF UpCall
<1>5. ASSUME NEW op, NEW key, NEW id, AM_Search(op, key, id)
      PROVE  Unfixes /\ ShortOfBuffers
  <2>1. call = Idle /\ ~HasPFError(ret) /\ ret' = ret
    BY <1>5 DEF AM_Search, Calls, HasPFError
  <2> QED
    BY ONLY <2>1 DEF Unfixes, ShortOfBuffers
<1>6. ASSUME NEW op, NEW key, NEW id, SearchFails(op, key, id)
      PROVE  Unfixes /\ ShortOfBuffers
  <2>1. call = Idle /\ (fixed # {} \/ FreeBuffers = 0)
    BY <1>6 DEF SearchFails, Calls
  <2>2. call.at = NoPage
    BY ONLY <2>1, IdleIs
  <2>3. fixed \ {call.at} = fixed
    BY ONLY <1>1, <2>2
  <2>4. fixed # {}
    BY ONLY <1>1, <2>1, <2>2, <2>3 DEF FreeBuffers
  <2> QED
    BY ONLY <2>1, <2>3, <2>4 DEF Unfixes, ShortOfBuffers
<1>7. ASSUME AM_DeleteEntry \/ DeleteNotFound \/ InsertIntoLeaf
      PROVE  Unfixes /\ ShortOfBuffers
  <2>1. /\ ~HasPFError(ret')
        /\ fixed' = fixed \ {call.at} \/ (call' = Idle /\ "err" \in DOMAIN ret')
    BY <1>2, <1>7 DEF AM_DeleteEntry, DeleteNotFound, InsertIntoLeaf, Return
  <2> QED
    BY ONLY <2>1 DEF Unfixes, ShortOfBuffers
<1>8. ASSUME SplitLeaf \/ SplitRootLeaf
      PROVE  Unfixes /\ ShortOfBuffers
  <2>1. /\ call.at # NoPage /\ fixed' = fixed \ {call.at}
        /\ ret' = ret \/ ret' = OK("insert")
    BY <1>8 DEF SplitLeaf, SplitRootLeaf, MustSplit, AtLeaf, Return
  <2>2. ~HasPFError(ret')
    BY ONLY <1>2, <1>3, <2>1
  <2> QED
    BY ONLY <2>1, <2>2 DEF Unfixes, ShortOfBuffers
<1>9. ASSUME SplitLeafFails
      PROVE  Unfixes /\ ShortOfBuffers
  <2>1. /\ call' = Idle /\ ret' = PFError("insert")
        /\ FreeBuffers = 0 \/ FreeBuffers = 1
    BY <1>9 DEF SplitLeafFails, Return
  <2>2. fixed \ {call.at} = {} => numBuffers < 3
    BY ONLY <1>1, <2>1 DEF FreeBuffers
  <2> QED
    BY ONLY <1>2, <2>1, <2>2 DEF Unfixes, ShortOfBuffers
<1>10. ASSUME AddToParent \/ SplitParent \/ SplitRoot
       PROVE  Unfixes /\ ShortOfBuffers
  <2>1. /\ call.up # NoPage /\ fixed' = fixed
        /\ ret' = ret \/ ret' = OK("insert")
    BY <1>10 DEF AddToParent, SplitParent, SplitRoot, AddingToParent, Return
  <2>2. ~HasPFError(ret') /\ fixed' = fixed \ {call.at}
    BY ONLY <1>1, <1>2, <1>4, <2>1
  <2> QED
    BY ONLY <2>2 DEF Unfixes, ShortOfBuffers
<1>11. ASSUME SplitRootFails
       PROVE  Unfixes /\ ShortOfBuffers
  <2>1. /\ call.up # NoPage /\ call' = Idle /\ ret' = PFError("insert") /\ FreeBuffers = 2
    BY <1>11 DEF SplitRootFails, AddingToParent, Return
  <2>2. fixed \ {call.at} = {} => numBuffers < 3
    BY ONLY <1>1, <1>4, <2>1 DEF FreeBuffers
  <2> QED
    BY ONLY <1>2, <2>1, <2>2 DEF Unfixes, ShortOfBuffers
<1> QED
  BY ONLY Next, <1>5, <1>6, <1>7, <1>8, <1>9, <1>10, <1>11 DEF Next, LeafStep, ParentStep

-----------------------------------------------------------------------------
(***************************************************************************)
(* The index as a set of entries.                                          *)
(***************************************************************************)
IndexEntries == IF call.up = NoPage THEN Entries ELSE Entries \ {<<call.key, call.id>>}
IndexCall ==
  IF call = Idle THEN [op |-> "idle"] ELSE [op |-> call.op, key |-> call.key, id |-> call.id]
CallPair == <<call.key, call.id>>

(* The steps of the index, in these terms.                                 *)
LEMMA IndexSteps ==
  /\ \A op, key, id :
       IndexCall = [op |-> "idle"] /\ IndexCall' = [op |-> op, key |-> key, id |-> id]
       /\ IndexEntries' = IndexEntries /\ ret' = ret => I!Start(op, key, id)
  /\ IndexCall.op = "insert" /\ IndexEntries' = IndexEntries \cup {<<IndexCall.key, IndexCall.id>>}
     /\ IndexCall' = [op |-> "idle"] /\ ret' = OK("insert") => I!InsertEntry
  /\ IndexCall.op = "delete" /\ <<IndexCall.key, IndexCall.id>> \in IndexEntries
     /\ IndexEntries' = IndexEntries \ {<<IndexCall.key, IndexCall.id>>}
     /\ IndexCall' = [op |-> "idle"] /\ ret' = OK("delete") => I!DeleteEntry
  /\ IndexCall.op = "delete" /\ <<IndexCall.key, IndexCall.id>> \notin IndexEntries
     /\ IndexEntries' = IndexEntries
     /\ IndexCall' = [op |-> "idle"] /\ ret' = [op |-> "delete", err |-> "NOTFOUND"] => I!NotFound
  /\ \A op :
       (IndexCall = [op |-> "idle"] \/ IndexCall.op = op)
       /\ (IndexEntries' = IndexEntries
           \/ (IndexCall.op = "insert"
               /\ IndexEntries' = IndexEntries \cup {<<IndexCall.key, IndexCall.id>>}))
       /\ IndexCall' = [op |-> "idle"] /\ ret' = PFError(op) => I!Fails(op)
BY DEF IndexEntries, IndexCall, OK, PFError, I!Start, I!InsertEntry, I!DeleteEntry, I!NotFound,
       I!Fails, I!Idle, I!Call, I!OK, I!Error, I!Return, I!Pair

LEMMA MappedCall ==
  ASSUME call # Idle
  PROVE  /\ IndexCall = [op |-> call.op, key |-> call.key, id |-> call.id]
         /\ IndexCall.op = call.op /\ <<IndexCall.key, IndexCall.id>> = CallPair
BY DEF IndexCall, CallPair

LEMMA MappedEntries ==
  ASSUME IInv, IInv'
  PROVE  /\ call.up = NoPage => IndexEntries = PairsIn(page)
         /\ call.up # NoPage => IndexEntries = PairsIn(page) \ {CallPair}
         /\ call'.up = NoPage => IndexEntries' = PairsIn(page')
         /\ call'.up # NoPage => IndexEntries' = PairsIn(page') \ {<<call'.key, call'.id>>}
<1>1. PagesOK(page) /\ PagesOK(page')
  BY DEF IInv
<1>2. Entries = EntriesOf(page) /\ Entries' = EntriesOf(page')
  BY DEF Entries, EntriesOf
<1>3. Entries = PairsIn(page) /\ Entries' = PairsIn(page')
  BY ONLY <1>1, <1>2, EntriesArePairs
<1> QED
  BY <1>3 DEF IndexEntries, CallPair

(* A call ends.                                                            *)
LEMMA MappedReturn ==
  ASSUME IInv, IInv', call' = Idle
  PROVE  IndexCall' = [op |-> "idle"] /\ IndexEntries' = PairsIn(page')
<1>1. call'.up = NoPage
  BY ONLY call' = Idle, IdleIs
<1>2. IndexEntries' = PairsIn(page')
  BY ONLY <1>1, IInv, IInv', MappedEntries
<1>3. IndexCall' = [op |-> "idle"]
  BY DEF IndexCall
<1> QED
  BY ONLY <1>2, <1>3

IndexStep == I!Next \/ (IndexEntries' = IndexEntries /\ IndexCall' = IndexCall /\ ret' = ret)

LEMMA SearchIsStart ==
  ASSUME IInv, NEW op \in {"insert", "delete"}, NEW key \in Keys, NEW id \in RecIds,
         AM_Search(op, key, id) \/ SearchFails(op, key, id)
  PROVE  IndexStep
<1>1. IInv' /\ PairsIn(page') = PairsIn(page)
  BY AfterSearch, AfterSearchFails
<1>2. call = Idle
  BY DEF AM_Search, SearchFails, Calls
<1>3. IndexCall = [op |-> "idle"] /\ IndexEntries = PairsIn(page)
  <2>1. call.up = NoPage
    BY ONLY <1>2, IdleIs
  <2>2. IndexEntries = PairsIn(page)
    BY ONLY <1>1, <2>1, IInv, MappedEntries
  <2>3. IndexCall = [op |-> "idle"]
    BY ONLY <1>2 DEF IndexCall
  <2> QED
    BY ONLY <2>2, <2>3
<1>4. CASE AM_Search(op, key, id)
  <2>1. /\ ret' = ret
        /\ call' = [Idle EXCEPT !.op = op, !.key = key, !.id = id, !.at = LeafAt(Path(key))]
    BY <1>4 DEF AM_Search
  <2>2. call'.op = op /\ call'.key = key /\ call'.id = id /\ call'.up = NoPage
    BY ONLY <2>1 DEF Idle
  <2>3. call' # Idle
    BY ONLY <2>2, IdleIs, op \in {"insert", "delete"}
  <2>4. IndexCall' = [op |-> op, key |-> key, id |-> id]
    BY ONLY <2>2, <2>3 DEF IndexCall
  <2>5. IndexEntries' = IndexEntries
    BY ONLY <1>1, <1>3, <2>2, IInv, MappedEntries
  <2>6. I!Start(op, key, id)
    BY ONLY <1>3, <2>1, <2>4, <2>5, IndexSteps
  <2> QED
    BY <2>6 DEF IndexStep, I!Next
<1>5. CASE SearchFails(op, key, id)
  <2>1. call' = Idle /\ ret' = PFError(op)
    BY <1>5 DEF SearchFails, Return
  <2>2. IndexCall' = [op |-> "idle"] /\ IndexEntries' = PairsIn(page')
    BY ONLY <1>1, <2>1, IInv, MappedReturn
  <2>3. I!Fails(op)
    BY ONLY <1>1, <1>3, <2>1, <2>2, IndexSteps
  <2> QED
    BY <2>3 DEF IndexStep, I!Next
<1> QED
  BY <1>4, <1>5

LEMMA LeafStepIsStep ==
  ASSUME IInv, AllListsFit, AllListsFit', LeafStep
  PROVE  IndexStep
<1>1. call.at # NoPage
  BY DEF LeafStep, AM_DeleteEntry, DeleteNotFound, InsertIntoLeaf, SplitLeaf, SplitRootLeaf,
         SplitLeafFails, MustSplit, AtLeaf
<1>2. CallState
  BY ONLY <1>1, IInv, AtTheLeaf
<1>3. call.up = NoPage /\ call # Idle
  BY ONLY <1>2 DEF CallState
<1>4. IndexCall.op = call.op /\ <<IndexCall.key, IndexCall.id>> = CallPair
  BY ONLY <1>3, MappedCall
<1>5. ASSUME IInv' PROVE IndexEntries = PairsIn(page)
  BY ONLY <1>3, <1>5, IInv, MappedEntries
<1>6. ASSUME IInv', call' = Idle
      PROVE  IndexCall' = [op |-> "idle"] /\ IndexEntries' = PairsIn(page')
  BY ONLY <1>6, IInv, MappedReturn
<1>7. CASE AM_DeleteEntry
  <2>1. IInv' /\ PairsIn(page') = PairsIn(page) \ {CallPair} /\ CallPair \in PairsIn(page)
    BY ONLY <1>7, IInv, AfterDelete DEF CallPair
  <2>2. call.op = "delete" /\ call' = Idle /\ ret' = OK("delete")
    BY <1>7 DEF AM_DeleteEntry, AtLeaf, Return
  <2>3. I!DeleteEntry
    BY ONLY <1>4, <1>5, <1>6, <2>1, <2>2, IndexSteps
  <2> QED
    BY <2>3 DEF IndexStep, I!Next
<1>8. CASE DeleteNotFound
  <2>1. IInv' /\ PairsIn(page') = PairsIn(page) /\ CallPair \notin PairsIn(page)
    BY ONLY <1>8, IInv, AfterNotFound DEF CallPair
  <2>2. call.op = "delete" /\ call' = Idle /\ ret' = [op |-> "delete", err |-> "NOTFOUND"]
    BY <1>8 DEF DeleteNotFound, AtLeaf, Return
  <2>3. I!NotFound
    BY ONLY <1>4, <1>5, <1>6, <2>1, <2>2, IndexSteps
  <2> QED
    BY <2>3 DEF IndexStep, I!Next
<1>9. CASE InsertIntoLeaf \/ SplitRootLeaf
  <2>1. IInv' /\ PairsIn(page') = PairsIn(page) \cup {CallPair}
    BY ONLY <1>9, IInv, AllListsFit, AllListsFit', AfterInsert, AfterSplitRootLeaf DEF CallPair
  <2>2. call.op = "insert" /\ call' = Idle /\ ret' = OK("insert")
    BY <1>9 DEF InsertIntoLeaf, SplitRootLeaf, MustSplit, AtLeaf, Return
  <2>3. I!InsertEntry
    BY ONLY <1>4, <1>5, <1>6, <2>1, <2>2, IndexSteps
  <2> QED
    BY <2>3 DEF IndexStep, I!Next
<1>10. CASE SplitLeaf
  <2>1. /\ IInv'
        /\ PairsIn(page') = PairsIn(page) \cup {CallPair} /\ CallPair \notin PairsIn(page)
        /\ call' = CallRec("insert", call.key, call.id, NoPage, NumPages, call'.sep)
        /\ NumPages # NoPage /\ call.op = "insert"
    BY ONLY <1>10, IInv, AllListsFit, AllListsFit', AfterSplitLeaf DEF CallPair
  <2>2. /\ call'.op = "insert" /\ call'.key = call.key /\ call'.id = call.id
        /\ call'.up = NumPages
    BY ONLY <2>1, CallIs
  <2>3. call' # Idle
    BY ONLY <2>2, IdleIs
  <2>4. IndexCall' = IndexCall
    BY ONLY <1>3, <2>1, <2>2, <2>3 DEF IndexCall
  <2>5. IndexEntries' = PairsIn(page') \ {<<call'.key, call'.id>>}
    BY ONLY <2>1, <2>2, IInv, MappedEntries
  <2>6. IndexEntries' = IndexEntries
    BY ONLY <1>5, <2>1, <2>2, <2>5 DEF CallPair
  <2>7. ret' = ret
    BY <1>10 DEF SplitLeaf
  <2> QED
    BY ONLY <2>4, <2>6, <2>7 DEF IndexStep
<1>11. CASE SplitLeafFails
  <2>1. /\ IInv' /\ call.op = "insert"
        /\ PairsIn(page') = PairsIn(page) \/ PairsIn(page') = PairsIn(page) \cup {CallPair}
    BY ONLY <1>11, IInv, AllListsFit, AllListsFit', AfterSplitLeafFails DEF CallPair
  <2>2. call' = Idle /\ ret' = PFError("insert")
    BY <1>11 DEF SplitLeafFails, Return
  <2>3. I!Fails("insert")
    BY ONLY <1>4, <1>5, <1>6, <2>1, <2>2, IndexSteps
  <2> QED
    BY <2>3 DEF IndexStep, I!Next
<1> QED
  BY ONLY LeafStep, <1>7, <1>8, <1>9, <1>10, <1>11 DEF LeafStep

LEMMA ParentStepIsStep ==
  ASSUME IInv, ParentStep
  PROVE  IndexStep
<1>1. call.up # NoPage
  BY DEF ParentStep, AddToParent, SplitParent, SplitRoot, SplitRootFails, AddingToParent
<1>2. UpCall
  BY ONLY <1>1, IInv, AtTheParent
<1>3. call # Idle
  BY ONLY <1>2 DEF UpCall
<1>4. IndexCall.op = call.op /\ <<IndexCall.key, IndexCall.id>> = CallPair
  BY ONLY <1>3, MappedCall
<1>5. ASSUME IInv' PROVE IndexEntries = PairsIn(page) \ {CallPair}
  BY ONLY <1>1, <1>5, IInv, MappedEntries
<1>6. ASSUME IInv', call' = Idle
      PROVE  IndexCall' = [op |-> "idle"] /\ IndexEntries' = PairsIn(page')
  BY ONLY <1>6, IInv, MappedReturn
<1>7. ASSUME IInv', PairsIn(page') = PairsIn(page), CallPair \in PairsIn(page), call' = Idle
      PROVE  /\ IndexCall' = [op |-> "idle"]
             /\ IndexEntries' = IndexEntries \cup {<<IndexCall.key, IndexCall.id>>}
  BY ONLY <1>4, <1>5, <1>6, <1>7
<1>8. CASE AddToParent \/ SplitRoot
  <2>1. /\ IInv' /\ PairsIn(page') = PairsIn(page) /\ CallPair \in PairsIn(page)
        /\ call.op = "insert"
    BY ONLY <1>8, IInv, AfterAddToParent, AfterSplitRoot DEF CallPair
  <2>2. call' = Idle /\ ret' = OK("insert")
    BY <1>8 DEF AddToParent, SplitRoot, Return
  <2>3. I!InsertEntry
    BY ONLY <1>4, <1>7, <2>1, <2>2, IndexSteps
  <2> QED
    BY <2>3 DEF IndexStep, I!Next
<1>9. CASE SplitRootFails
  <2>1. /\ IInv' /\ PairsIn(page') = PairsIn(page) /\ CallPair \in PairsIn(page)
        /\ call.op = "insert"
    BY ONLY <1>9, IInv, AfterSplitRootFails DEF CallPair
  <2>2. call' = Idle /\ ret' = PFError("insert")
    BY <1>9 DEF SplitRootFails, Return
  <2>3. I!Fails("insert")
    BY ONLY <1>4, <1>7, <2>1, <2>2, IndexSteps
  <2> QED
    BY <2>3 DEF IndexStep, I!Next
<1>10. CASE SplitParent
  <2>1. /\ IInv' /\ PairsIn(page') = PairsIn(page)
        /\ call' = CallRec("insert", call.key, call.id, NoPage, NumPages, call'.sep)
        /\ NumPages # NoPage /\ call.op = "insert"
    BY ONLY <1>10, IInv, AfterSplitParent
  <2>2. /\ call'.op = "insert" /\ call'.key = call.key /\ call'.id = call.id
        /\ call'.up = NumPages
    BY ONLY <2>1, CallIs
  <2>3. call' # Idle
    BY ONLY <2>2, IdleIs
  <2>4. IndexCall' = IndexCall
    BY ONLY <1>3, <2>1, <2>2, <2>3 DEF IndexCall
  <2>5. IndexEntries' = PairsIn(page') \ {<<call'.key, call'.id>>}
    BY ONLY <2>1, <2>2, IInv, MappedEntries
  <2>6. IndexEntries' = IndexEntries
    BY ONLY <1>5, <2>1, <2>2, <2>5 DEF CallPair
  <2>7. ret' = ret
    BY <1>10 DEF SplitParent
  <2> QED
    BY ONLY <2>4, <2>6, <2>7 DEF IndexStep
<1> QED
  BY ONLY ParentStep, <1>8, <1>9, <1>10 DEF ParentStep

LEMMA NextIsStep ==
  ASSUME IInv, AllListsFit, AllListsFit', [Next]_vars
  PROVE  IndexStep
<1>1. CASE UNCHANGED vars
  <2>1. page' = page /\ call' = call /\ ret' = ret
    BY <1>1 DEF vars
  <2>2. IndexEntries' = IndexEntries /\ IndexCall' = IndexCall
    BY ONLY <2>1 DEF IndexEntries, IndexCall, Entries
  <2> QED
    BY ONLY <2>1, <2>2 DEF IndexStep
<1>2. ASSUME NEW op \in {"insert", "delete"}, NEW key \in Keys, NEW id \in RecIds,
             AM_Search(op, key, id) \/ SearchFails(op, key, id)
      PROVE  IndexStep
  BY ONLY <1>2, IInv, SearchIsStart
<1>3. CASE LeafStep
  BY ONLY <1>3, IInv, AllListsFit, AllListsFit', LeafStepIsStep
<1>4. CASE ParentStep
  BY ONLY <1>4, IInv, ParentStepIsStep
<1> QED
  BY <1>1, <1>2, <1>3, <1>4 DEF Next

-----------------------------------------------------------------------------
(***************************************************************************)
(* An insertion that says OK has inserted.                                 *)
(***************************************************************************)
LEMMA InsertionsHold ==
  ASSUME IInv, AllListsFit, AllListsFit', Next,
         call.op = "insert", call' = Idle, ret' = OK("insert")
  PROVE  <<call.key, call.id>> \in Entries'
<1>1. ASSUME IInv', <<call.key, call.id>> \in PairsIn(page')
      PROVE  <<call.key, call.id>> \in Entries'
  <2>1. PagesOK(page')
    BY <1>1 DEF IInv
  <2>2. Entries' = EntriesOf(page')
    BY DEF Entries, EntriesOf
  <2> QED
    BY ONLY <1>1, <2>1, <2>2, EntriesArePairs
<1>2. call.op # "idle" /\ call # Idle /\ ret' # PFError("insert") /\ call.op # "delete"
  <2>1. call.op = "insert" /\ ret' = [op |-> "insert"]
    BY DEF OK
  <2>2. "err" \notin DOMAIN ret'
    BY ONLY <2>1
  <2>3. "err" \in DOMAIN PFError("insert")
    BY DEF PFError
  <2> QED
    BY ONLY <2>1, <2>2, <2>3, IdleIs
<1>3. CASE InsertIntoLeaf \/ SplitRootLeaf
  <2>1. IInv' /\ PairsIn(page') = PairsIn(page) \cup {<<call.key, call.id>>}
    BY ONLY <1>3, IInv, AllListsFit, AllListsFit', AfterInsert, AfterSplitRootLeaf
  <2> QED
    BY ONLY <1>1, <2>1
<1>4. CASE AddToParent \/ SplitRoot
  <2>1. IInv' /\ PairsIn(page') = PairsIn(page) /\ <<call.key, call.id>> \in PairsIn(page)
    BY ONLY <1>4, IInv, AfterAddToParent, AfterSplitRoot
  <2> QED
    BY ONLY <1>1, <2>1
<1>5. CASE SplitLeaf
  <2>1. call' = CallRec("insert", call.key, call.id, NoPage, NumPages, call'.sep) /\ NumPages # NoPage
    BY ONLY <1>5, IInv, AllListsFit, AllListsFit', AfterSplitLeaf
  <2>2. call'.op = "insert"
    BY ONLY <2>1, CallIs
  <2> QED
    BY ONLY <2>2, call' = Idle, IdleIs
<1>6. CASE SplitParent
  <2>1. call' = CallRec("insert", call.key, call.id, NoPage, NumPages, call'.sep) /\ NumPages # NoPage
    BY ONLY <1>6, IInv, AfterSplitParent
  <2>2. call'.op = "insert"
    BY ONLY <2>1, CallIs
  <2> QED
    BY ONLY <2>2, call' = Idle, IdleIs
<1>7. CASE SplitLeafFails \/ SplitRootFails
  <2>1. ret' = PFError("insert")
    BY <1>7 DEF SplitLeafFails, SplitRootFails, Return
  <2> QED
    BY ONLY <1>2, <2>1
<1>8. CASE AM_DeleteEntry \/ DeleteNotFound
  BY <1>2, <1>8 DEF AM_DeleteEntry, DeleteNotFound, AtLeaf
<1>9. ASSUME NEW op \in {"insert", "delete"}, NEW key \in Keys, NEW id \in RecIds,
             AM_Search(op, key, id) \/ SearchFails(op, key, id)
      PROVE  FALSE
  BY <1>2, <1>9 DEF AM_Search, SearchFails, Calls
<1> QED
  BY ONLY Next, <1>3, <1>4, <1>5, <1>6, <1>7, <1>8, <1>9 DEF Next, LeafStep, ParentStep

-----------------------------------------------------------------------------
(***************************************************************************)
(* The theorems.  Where the lists of record ids fit, insertions, deletions *)
(* and splits keep the invariant.                                          *)
(***************************************************************************)

(* All that the tree relies on: the pages are well formed, with the new    *)
(* page of a split in its parent they are a tree of one height whose       *)
(* ranges are separated by its keys, and the stack leads to the page the   *)
(* call is at (AM_InsertEntry, AM_DeleteEntry, AM_AddtoParent).            *)
THEOREM TreeInvariant ==
  Spec /\ []AllListsFit => []IInv
<1>1. Init => IInv
  BY InitOK
<1>2. IInv /\ AllListsFit /\ AllListsFit' /\ [Next]_vars => IInv'
  BY NextOK
<1> QED
  BY <1>1, <1>2, PTL DEF Spec

(* The type invariant: every variable has its type, and the gap of each    *)
(* leaf is what its keys and cells leave of the page, and not negative     *)
(* (recIdPtr - keyPtr of aminsert.c).                                      *)
THEOREM TreeTypes ==
  Spec /\ []AllListsFit => []TypeOK
<1>1. IInv => TypeOK
  BY TypesOK
<1> QED
  BY <1>1, TreeInvariant, PTL

(* The search from the root ends at the leaf that has the key, for every   *)
(* key of every leaf, whenever no call is in progress and none has failed  *)
(* half way (AM_Search, AM_BinSearch and the separators of AM_SplitLeaf    *)
(* and AM_SplitIntNode).                                                   *)
THEOREM SearchFindsEntries ==
  Spec /\ []AllListsFit => []EntriesFindable
<1>1. IInv => EntriesFindable
  BY KeysAreFound
<1> QED
  BY <1>1, TreeInvariant, PTL

(* After any sequence of splits all leaves are on the last level, and each *)
(* page of the file is on one level, once: AM_SplitLeaf, AM_SplitIntNode   *)
(* and the new root leave no page out and none in two places.              *)
THEOREM TreeHasShape ==
  Spec /\ []AllListsFit => []TreeShape
<1>1. IInv => TreeShape
  BY ShapeIsGood
<1> QED
  BY <1>1, TreeInvariant, PTL

(* From AM_LeftPageNum the links lead through all leaves and in the order  *)
(* of their keys, wherever leaves are split and whatever GetLeftPageNum    *)
(* takes for granted of the first page.                                    *)
THEOREM LeavesInOrder ==
  Spec /\ []AllListsFit => []ChainInOrder
<1>1. Init => LeftOK
  <2> SUFFICES ASSUME Init PROVE LeftOK
    OBVIOUS
  <2>1. page[Root] = EmptyLeaf /\ leftPageNum = Root
    BY DEF Init, Root
  <2>2. IsLeaf(page[Root])
    BY ONLY <2>1 DEF IsLeaf, EmptyLeaf
  <2> QED
    BY ONLY <2>1, <2>2 DEF LeftOK, GetLeftPageNum
<1>2. IInv => RootAlone
  BY RootIsAlone
<1>3. IInv /\ RootAlone /\ RootAlone' /\ LeftOK /\ [Next]_vars => LeftOK'
  BY LeftStep
<1>4. IInv /\ LeftOK => ChainInOrder
  BY ChainIsGood
<1> QED
  BY <1>1, <1>2, <1>3, <1>4, TreeInvariant, PTL DEF Spec

(* An insertion that returns AME_OK has inserted its entry, in a leaf or   *)
(* in one of its halves.  Without the hypothesis this is false.            *)
THEOREM InsertionsTakeEffect ==
  Spec /\ []AllListsFit => InsertTakesEffect
<1>1. IInv /\ AllListsFit /\ AllListsFit' /\ [Next]_vars =>
        [call.op = "insert" /\ call' = Idle /\ ret' = OK("insert") =>
           <<call.key, call.id>> \in Entries']_vars
  <2> SUFFICES ASSUME IInv, AllListsFit, AllListsFit', Next,
                      call.op = "insert", call' = Idle, ret' = OK("insert")
               PROVE  <<call.key, call.id>> \in Entries'
    OBVIOUS
  <2> QED
    BY InsertionsHold
<1> QED
  BY <1>1, TreeInvariant, PTL DEF Spec, InsertTakesEffect

(* Each step of a call unfixes what the call has fixed, so three buffers   *)
(* are enough for it (AM_Search, AM_SplitLeaf, AM_AddtoParent).            *)
THEOREM ThreeAreEnough ==
  Spec /\ []AllListsFit => ThreeBuffersSuffice
<1>1. IInv /\ [Next]_vars =>
        [/\ call # Idle /\ ~("err" \in DOMAIN ret' /\ call' = Idle) =>
              fixed' = fixed \ {call.at}
         /\ "err" \in DOMAIN ret' /\ ret'.err = "PF" =>
              numBuffers < 3 \/ fixed \ {call.at} # {}]_vars
  <2> SUFFICES ASSUME IInv, Next
               PROVE  /\ call # Idle /\ ~("err" \in DOMAIN ret' /\ call' = Idle) =>
                           fixed' = fixed \ {call.at}
                      /\ "err" \in DOMAIN ret' /\ ret'.err = "PF" =>
                           numBuffers < 3 \/ fixed \ {call.at} # {}
    OBVIOUS
  <2>1. Unfixes /\ ShortOfBuffers
    BY BuffersStep
  <2> QED
    BY <2>1 DEF Unfixes, ShortOfBuffers, HasPFError
<1> QED
  BY <1>1, TreeInvariant, PTL DEF Spec, ThreeBuffersSuffice

(* The calls are those of a set of entries: AM_InsertEntry inserts one and *)
(* leaves all others, AM_DeleteEntry deletes one, and says that there is   *)
(* none only if there is none (am.h:182, 193).                             *)
THEOREM TreeIsIndex ==
  Spec /\ []AllListsFit => ImplementsIndex
<1>1. Init => I!Init
  <2> SUFFICES ASSUME Init PROVE I!Init
    OBVIOUS
  <2>1. IInv /\ PairsIn(page) = {}
    BY InitOK
  <2>2. PagesOK(page)
    BY <2>1 DEF IInv
  <2>3. Entries = {}
    BY ONLY <2>1, <2>2, EntriesAre
  <2>4. call = Idle /\ ret = [op |-> "none"]
    BY DEF Init, OK
  <2>5. call.up = NoPage
    BY ONLY <2>4, IdleIs
  <2> QED
    BY ONLY <2>3, <2>4, <2>5 DEF I!Init, I!Idle, I!OK
<1>2. IInv /\ AllListsFit /\ AllListsFit' /\ [Next]_vars =>
        [I!Next]_<<ret, IndexCall, IndexEntries>>
  BY NextIsStep DEF IndexStep
<1> QED
  BY <1>1, <1>2, TreeInvariant, PTL DEF Spec, ImplementsIndex, I!Spec, IndexEntries, IndexCall

-----------------------------------------------------------------------------
(***************************************************************************)
(* With few record ids the hypothesis holds of itself: whatever a step     *)
(* does to a leaf, no record id comes twice in a list.                     *)
(***************************************************************************)
LEMMA LeavesAreGood ==
  ASSUME IInv
  PROVE  GoodLeaves(page)
<1>1. PagesOK(page)
  BY DEF IInv
<1> QED
  BY <1>1, GoodLeafIs DEF GoodLeaves, PagesOK, PageOK, LeafOK

LEMMA GoodLeavesWith ==
  ASSUME NEW P, GoodLeaves(P), NEW node, IsLeaf(node) => GoodKeys(node.keys), NEW pg,
         NEW Q, Q = With(pg, node, P)
  PROVE  GoodLeaves(Q)
<1>1. DOMAIN Q = DOMAIN P \cup {pg} /\ Q[pg] = node /\ \A x \in DOMAIN P : x # pg => Q[x] = P[x]
  BY ONLY Q = With(pg, node, P) DEF With
<1> QED
  BY ONLY <1>1, GoodLeaves(P), IsLeaf(node) => GoodKeys(node.keys) DEF GoodLeaves

(* AM_InsertintoLeaf, whether or not there is room.                        *)
LEMMA KeysInserted ==
  ASSUME NEW leaf, GoodLeaf(leaf), ListsFit(leaf.keys), NEW key \in Keys, NEW id \in RecIds,
         ~Holds(leaf.keys, key, id), NEW at, KeyPlace(leaf.keys, key, at),
         NEW new, new = AM_InsertintoLeaf(leaf, key, id, at)
  PROVE  GoodKeys(new.keys)
<1>1. PICK p : p = at.index
  OBVIOUS
<1>2. /\ at.found \in BOOLEAN
      /\ at.found => p \in 1 .. Len(leaf.keys) /\ leaf.keys[p].key = key
      /\ ~at.found => Between(leaf.keys, p, key)
  BY <1>1 DEF KeyPlace
<1>3. GoodKeys(leaf.keys) /\ DOMAIN leaf.keys = 1 .. Len(leaf.keys)
  BY GoodLeafIs, GoodKeysAre
<1>4. ASSUME NEW keys, NEW free \in Nat, NEW gap \in Int, NEW next,
             GoodKeys(WithId(keys, p, id))
      PROVE  GoodKeys(AM_InsertToLeafFound(LeafRec(keys, free, gap, next), id, p).keys)
  <2>1. AM_InsertToLeafFound(LeafRec(keys, free, gap, next), id, p) =
          IF free = 0
          THEN LeafRec(WithId(keys, p, id), free, gap - CellSize, next)
          ELSE LeafRec(WithId(keys, p, id), free - 1, gap, next)
    BY ONLY free \in Nat, gap \in Int, FoundRecord
  <2>2. \A k, f, g, x : LeafRec(k, f, g, x).keys = k
    BY DEF LeafRec
  <2> QED
    BY ONLY <1>4, <2>1, <2>2
<1>5. ASSUME at.found PROVE GoodKeys(AM_InsertToLeafFound(leaf, id, p).keys)
  <2>1. PICK keys, free, gap, next :
          keys = leaf.keys /\ free = leaf.free /\ gap = leaf.gap /\ next = leaf.next
    OBVIOUS
  <2>2. leaf = LeafRec(keys, free, gap, next) /\ free \in Nat /\ gap \in Int
    <3>1. leaf = LeafRec(leaf.keys, leaf.free, leaf.gap, leaf.next) /\ leaf.free \in Nat /\ leaf.gap \in Nat
      BY ONLY GoodLeaf(leaf), GoodLeafIs
    <3> QED
      BY ONLY <2>1, <3>1
  <2>3. p \in 1 .. Len(keys) /\ ~HasId(keys[p].ids, id) /\ GoodKeys(keys)
    BY <1>2, <1>3, <1>5, <2>1 DEF Holds
  <2>4. PICK more : more = WithId(keys, p, id)
    OBVIOUS
  <2>5. GoodKeys(more)
    BY ONLY <2>3, <2>4, id \in RecIds, IdForKey
  <2> QED
    BY ONLY <1>4, <2>2, <2>4, <2>5
<1>6. ASSUME NEW l, GoodLeaf(l), l.keys = leaf.keys, ~at.found
      PROVE  GoodKeys(AM_InsertToLeafNotFound(l, key, id, p).keys)
  <2>1. PICK keys, free, gap, next :
          keys = l.keys /\ free = l.free /\ gap = l.gap /\ next = l.next
    OBVIOUS
  <2>2. l = LeafRec(keys, free, gap, next) /\ free \in Nat /\ gap \in Int
    <3>1. l = LeafRec(l.keys, l.free, l.gap, l.next) /\ l.free \in Nat /\ l.gap \in Nat
      BY ONLY <1>6, GoodLeafIs
    <3> QED
      BY ONLY <2>1, <3>1
  <2>3. Between(keys, p, key) /\ GoodKeys(keys)
    BY ONLY <1>2, <1>3, <1>6, <2>1
  <2>4. PICK put, more : put = InsertAt(keys, p, KeyEntry(key, <<>>)) /\ more = WithId(put, p, id)
    OBVIOUS
  <2>5. GoodKeys(more)
    <3>1. more = WithId(InsertAt(keys, p, KeyEntry(key, <<>>)), p, id)
      BY ONLY <2>4
    <3> QED
      BY ONLY <2>3, <3>1, key \in Keys, id \in RecIds, KeyForId
  <2>6. PICK room : room = gap - KeySize
    OBVIOUS
  <2>7. room \in Int
    BY <2>2, <2>6, LeafAssumption
  <2>8. AM_InsertToLeafNotFound(LeafRec(keys, free, gap, next), key, id, p) =
          AM_InsertToLeafFound(
            LeafRec(InsertAt(keys, p, KeyEntry(key, <<>>)), free, gap - KeySize, next), id, p)
    BY ONLY <2>2, NotFoundRecord
  <2>9. GoodKeys(AM_InsertToLeafFound(LeafRec(put, free, room, next), id, p).keys)
    BY ONLY <1>4, <2>2, <2>4, <2>5, <2>7
  <2> QED
    BY ONLY <2>2, <2>4, <2>6, <2>8, <2>9
<1>7. ASSUME NeedsCompaction(leaf), ~at.found
      PROVE  GoodKeys(AM_InsertToLeafNotFound(AM_Compact(leaf, 1, Len(leaf.keys), 0), key, id, p).keys)
  <2>1. leaf.gap <= KeySize
    BY ONLY <1>7 DEF NeedsCompaction
  <2>2. PICK all : all = AM_Compact(leaf, 1, Len(leaf.keys), 0)
    OBVIOUS
  <2>3. GoodLeaf(all) /\ all.keys = leaf.keys
    BY ONLY <2>1, <2>2, GoodLeaf(leaf), ListsFit(leaf.keys), AllCompacted
  <2> QED
    BY ONLY <1>6, <1>7, <2>2, <2>3
<1>8. ~at.found => GoodKeys(AM_InsertToLeafNotFound(leaf, key, id, p).keys)
  BY ONLY <1>6, GoodLeaf(leaf)
<1> QED
  BY ONLY <1>1, <1>3, <1>5, <1>7, <1>8, new = AM_InsertintoLeaf(leaf, key, id, at)
     DEF AM_InsertintoLeaf

LEMMA KeysOfHalves ==
  ASSUME NEW n, NEW h, NEW r, LeafState(n, h, r), CallState, call.op = "insert",
         ListsFit(Leaf.keys), ~InsertFits(Leaf, Place.found), NEW gap \in Gaps, NEW new
  PROVE  GoodKeys(Halves(new, gap).lower.keys) /\ GoodKeys(Halves(new, gap).upper.keys)
<1>1. PICK half, lower, upper, low, up : Halved(new, half, lower, upper, gap, low, up)
  BY HalvesCut
<1>2. PICK key, id, at, leaf, keys, lows, ups, place :
        /\ key = call.key /\ id = call.id /\ at = Place /\ leaf = Leaf
        /\ keys = leaf.keys /\ lows = lower.keys /\ ups = upper.keys
        /\ place = PlaceInHalf(at, half)
  OBVIOUS
<1>3. /\ GoodLeaf(leaf) /\ ListsFit(keys) /\ key \in Keys /\ id \in RecIds
      /\ ~Holds(keys, key, id) /\ KeyPlace(keys, key, at)
      /\ at = [found |-> at.found, index |-> at.index]
  BY ONLY <1>2, LeafState(n, h, r), CallState, call.op = "insert", ListsFit(Leaf.keys)
     DEF LeafState, CallState
<1>4. /\ Cut(leaf, half, lower, upper, gap)
      /\ low = IF at.index <= half THEN AM_InsertintoLeaf(lower, key, id, place) ELSE lower
      /\ up = IF at.index <= half THEN upper ELSE AM_InsertintoLeaf(upper, key, id, place)
      /\ Halves(new, gap) = [lower |-> [low EXCEPT !.next = new], upper |-> up]
  BY ONLY <1>1, <1>2 DEF Halved
<1>5. /\ GoodLeaf(lower) /\ GoodLeaf(upper) /\ ListsFit(lows) /\ ListsFit(ups)
      /\ Len(lows) = half /\ Len(ups) = Len(keys) - half
      /\ \A i \in 1 .. half : lows[i] = keys[i]
      /\ \A i \in 1 .. Len(keys) - half : ups[i] = keys[half + i]
      /\ \A k, x : Holds(keys, k, x) <=> Holds(lows, k, x) \/ Holds(ups, k, x)
  <2>1. ListsFit(leaf.keys)
    BY ONLY <1>2, <1>3
  <2>2. /\ GoodLeaf(lower) /\ GoodLeaf(upper) /\ ListsFit(lower.keys) /\ ListsFit(upper.keys)
        /\ Len(lower.keys) = half /\ Len(upper.keys) = Len(leaf.keys) - half
        /\ \A i \in 1 .. half : lower.keys[i] = leaf.keys[i]
        /\ \A i \in 1 .. Len(leaf.keys) - half : upper.keys[i] = leaf.keys[half + i]
        /\ \A k, x : Holds(leaf.keys, k, x) <=> Holds(lower.keys, k, x) \/ Holds(upper.keys, k, x)
    BY ONLY <1>3, <1>4, <2>1, LeafCut
  <2> QED
    BY ONLY <1>2, <2>2
<1>6. GoodKeys(keys) /\ GoodKeys(lows) /\ GoodKeys(ups)
  BY ONLY <1>2, <1>3, <1>5, GoodLeafIs
<1>7. half \in 1 .. Len(keys) - 1
  BY ONLY <1>2, <1>4 DEF Cut
<1>8. /\ at.index <= half => KeyPlace(lows, key, place)
      /\ ~(at.index <= half) => KeyPlace(ups, key, place)
  <2>1. place = PlaceInHalf(at, half)
    BY ONLY <1>2
  <2>2. /\ Len(lows) = half /\ Len(ups) = Len(keys) - half
        /\ \A i \in 1 .. half : lows[i] = keys[i]
        /\ \A i \in 1 .. Len(keys) - half : ups[i] = keys[half + i]
    BY ONLY <1>5
  <2>3. key \in Keys /\ KeyPlace(keys, key, at) /\ at = [found |-> at.found, index |-> at.index]
    BY ONLY <1>3
  <2> QED
    BY ONLY <1>6, <1>7, <2>1, <2>2, <2>3, PlaceOfHalf
<1>9. ASSUME at.index <= half PROVE GoodKeys(AM_InsertintoLeaf(lower, key, id, place).keys)
  <2>1. PICK more : more = AM_InsertintoLeaf(lower, key, id, place)
    OBVIOUS
  <2>2. ListsFit(lower.keys) /\ ~Holds(lower.keys, key, id) /\ KeyPlace(lower.keys, key, place)
    BY ONLY <1>2, <1>3, <1>5, <1>8, <1>9
  <2>3. GoodKeys(more.keys)
    <3>1. GoodLeaf(lower) /\ key \in Keys /\ id \in RecIds
      BY ONLY <1>3, <1>5
    <3> QED
      BY ONLY <2>1, <2>2, <3>1, KeysInserted
  <2> QED
    BY ONLY <2>1, <2>3
<1>10. ASSUME ~(at.index <= half) PROVE GoodKeys(AM_InsertintoLeaf(upper, key, id, place).keys)
  <2>1. PICK more : more = AM_InsertintoLeaf(upper, key, id, place)
    OBVIOUS
  <2>2. ListsFit(upper.keys) /\ ~Holds(upper.keys, key, id) /\ KeyPlace(upper.keys, key, place)
    BY ONLY <1>2, <1>3, <1>5, <1>8, <1>10
  <2>3. GoodKeys(more.keys)
    <3>1. GoodLeaf(upper) /\ key \in Keys /\ id \in RecIds
      BY ONLY <1>3, <1>5
    <3> QED
      BY ONLY <2>1, <2>2, <3>1, KeysInserted
  <2> QED
    BY ONLY <2>1, <2>3
<1>11. GoodKeys(low.keys) /\ GoodKeys(up.keys)
  BY ONLY <1>2, <1>4, <1>6, <1>9, <1>10
<1>12. IsLeafRec(low)
  <2>1. IsLeafRec(lower)
    <3>1. lower = LeafRec(lower.keys, lower.free, lower.gap, lower.next)
      BY ONLY <1>5, GoodLeafIs
    <3> QED
      BY ONLY <3>1 DEF IsLeafRec
  <2>2. ListsFit(lower.keys)
    BY ONLY <1>2, <1>5
  <2>3. \A a : IsLeafRec(AM_InsertintoLeaf(lower, key, id, a))
    BY ONLY <1>5, <2>2, InsertLeaves
  <2> QED
    BY ONLY <1>4, <2>1, <2>3
<1>13. [low EXCEPT !.next = new].keys = low.keys
  BY ONLY <1>12, LeafRecIs
<1>14. PICK linked, halves : linked = [low EXCEPT !.next = new] /\ halves = Halves(new, gap)
  OBVIOUS
<1>15. halves = [lower |-> linked, upper |-> up] /\ linked.keys = low.keys
  BY ONLY <1>4, <1>13, <1>14
<1>16. halves.lower = linked /\ halves.upper = up
  BY ONLY <1>15
<1> QED
  BY ONLY <1>11, <1>14, <1>15, <1>16

LEMMA LeafStepFits ==
  ASSUME FewRecIds, IInv, AllListsFit,
         InsertIntoLeaf \/ SplitLeaf \/ SplitRootLeaf \/ SplitLeafFails
  PROVE  GoodLeaves(page')
<1>1. GoodLeaves(page)
  BY LeavesAreGood
<1>2. call.op = "insert" /\ call.at # NoPage
  BY DEF InsertIntoLeaf, SplitLeaf, SplitRootLeaf, SplitLeafFails, MustSplit, AtLeaf
<1>3. PICK h, r : LeafState(NumPages, h, r)
  BY ONLY <1>2, IInv, AtTheLeaf
<1>4. CallState
  BY ONLY <1>2, IInv, AtTheLeaf
<1>5. /\ GoodLeaf(Leaf) /\ KeyPlace(Leaf.keys, call.key, Place) /\ call.at \in DOMAIN page
      /\ call.key \in Keys /\ call.id \in RecIds /\ ~Holds(Leaf.keys, call.key, call.id)
      /\ IsLeaf(page[call.at])
  BY ONLY <1>2, <1>3, <1>4 DEF LeafState, CallState, Leaf
<1>6. ListsFit(Leaf.keys)
  BY ONLY <1>5, AllListsFit DEF AllListsFit, FitIn, Leaf
<1>7. CASE InsertIntoLeaf
  <2>1. PICK leaf, key, id, at, new : /\ leaf = Leaf /\ key = call.key /\ id = call.id /\ at = Place
                                      /\ new = AM_InsertintoLeaf(leaf, key, id, at)
    OBVIOUS
  <2>2. page' = [page EXCEPT ![call.at] = new]
    BY <1>7, <2>1 DEF InsertIntoLeaf
  <2>3. GoodKeys(new.keys)
    <3>1. /\ GoodLeaf(leaf) /\ ListsFit(leaf.keys) /\ key \in Keys /\ id \in RecIds
          /\ ~Holds(leaf.keys, key, id) /\ KeyPlace(leaf.keys, key, at)
      BY ONLY <1>5, <1>6, <2>1
    <3> QED
      BY ONLY <2>1, <3>1, KeysInserted
  <2> QED
    BY ONLY <1>1, <1>5, <2>2, <2>3 DEF GoodLeaves
<1>8. ASSUME MustSplit, NEW gap \in Gaps
      PROVE  /\ GoodKeys(Halves(NumPages, gap).lower.keys)
             /\ GoodKeys(Halves(NumPages, gap).upper.keys)
  <2>1. ~InsertFits(Leaf, Place.found)
    BY ONLY <1>8 DEF MustSplit
  <2> QED
    BY ONLY <1>2, <1>3, <1>4, <1>6, <2>1, gap \in Gaps, KeysOfHalves
<1>9. CASE SplitLeaf
  <2>1. PICK gap \in Gaps :
          page' = With(NumPages, Halves(NumPages, gap).upper,
                    With(call.at, Halves(NumPages, gap).lower, page))
    BY <1>9 DEF SplitLeaf
  <2>2. MustSplit
    BY <1>9 DEF SplitLeaf
  <2>3. PICK n, lower, upper, Q : /\ n = NumPages /\ lower = Halves(n, gap).lower
                                  /\ upper = Halves(n, gap).upper /\ Q = With(call.at, lower, page)
    OBVIOUS
  <2>4. GoodKeys(lower.keys) /\ GoodKeys(upper.keys)
    BY ONLY <1>8, <2>2, <2>3, gap \in Gaps
  <2>5. GoodLeaves(Q)
    BY ONLY <1>1, <2>3, <2>4, GoodLeavesWith
  <2>6. page' = With(n, upper, Q)
    BY ONLY <2>1, <2>3
  <2> QED
    BY ONLY <2>4, <2>5, <2>6, GoodLeavesWith
<1>10. CASE SplitRootLeaf
  <2>1. PICK gap \in Gaps :
          page' = With(NumPages + 1, Halves(NumPages, gap).lower,
                    With(NumPages, Halves(NumPages, gap).upper,
                      With(Root, InternalNode(<<Separator(Halves(NumPages, gap))>>,
                                              <<NumPages + 1, NumPages>>), page)))
    BY <1>10 DEF SplitRootLeaf
  <2>2. MustSplit
    BY <1>10 DEF SplitRootLeaf
  <2>3. PICK n, lower, upper, root, Q, Q2 :
          /\ n = NumPages /\ lower = Halves(n, gap).lower /\ upper = Halves(n, gap).upper
          /\ root = InternalNode(<<Separator(Halves(n, gap))>>, <<n + 1, n>>)
          /\ Q = With(Root, root, page) /\ Q2 = With(n, upper, Q)
    OBVIOUS
  <2>4. GoodKeys(lower.keys) /\ GoodKeys(upper.keys)
    BY ONLY <1>8, <2>2, <2>3, gap \in Gaps
  <2>5. ~IsLeaf(root)
    BY ONLY <2>3 DEF IsLeaf, InternalNode
  <2>6. GoodLeaves(Q)
    BY ONLY <1>1, <2>3, <2>5, GoodLeavesWith
  <2>7. GoodLeaves(Q2)
    BY ONLY <2>3, <2>4, <2>6, GoodLeavesWith
  <2>8. page' = With(n + 1, lower, Q2)
    BY ONLY <2>1, <2>3
  <2> QED
    BY ONLY <2>4, <2>7, <2>8, GoodLeavesWith
<1>11. CASE SplitLeafFails
  <2>1. CASE page' = page
    BY ONLY <1>1, <2>1
  <2>2. CASE \E gap \in Gaps :
               page' = With(NumPages, Halves(NumPages, gap).upper,
                         With(Root, Halves(NumPages, gap).lower, page))
    <3>1. PICK gap \in Gaps :
            page' = With(NumPages, Halves(NumPages, gap).upper,
                      With(Root, Halves(NumPages, gap).lower, page))
      BY <2>2
    <3>2. MustSplit
      BY <1>11 DEF SplitLeafFails
    <3>3. PICK n, lower, upper, Q : /\ n = NumPages /\ lower = Halves(n, gap).lower
                                    /\ upper = Halves(n, gap).upper /\ Q = With(Root, lower, page)
      OBVIOUS
    <3>4. GoodKeys(lower.keys) /\ GoodKeys(upper.keys)
      BY ONLY <1>8, <3>2, <3>3, gap \in Gaps
    <3>5. GoodLeaves(Q)
      BY ONLY <1>1, <3>3, <3>4, GoodLeavesWith
    <3>6. page' = With(n, upper, Q)
      BY ONLY <3>1, <3>3
    <3> QED
      BY ONLY <3>4, <3>5, <3>6, GoodLeavesWith
  <2> QED
    BY <1>11, <2>1, <2>2 DEF SplitLeafFails
<1> QED
  BY <1>7, <1>9, <1>10, <1>11

LEMMA NextFits ==
  ASSUME FewRecIds, IInv, AllListsFit, [Next]_vars
  PROVE  AllListsFit'
<1>1. ASSUME GoodLeaves(page') PROVE AllListsFit'
  <2>1. FitIn(page')
    BY ONLY <1>1, FewRecIds, ListsOfFewFit
  <2> QED
    BY ONLY <2>1 DEF AllListsFit
<1>2. ASSUME IInv' PROVE GoodLeaves(page')
  <2>1. PagesOK(page')
    BY <1>2 DEF IInv
  <2> QED
    BY <2>1, GoodLeafIs DEF GoodLeaves, PagesOK, PageOK, LeafOK
<1>3. CASE UNCHANGED vars
  BY <1>3 DEF vars, AllListsFit
<1>4. ASSUME NEW op \in {"insert", "delete"}, NEW key \in Keys, NEW id \in RecIds,
             AM_Search(op, key, id) \/ SearchFails(op, key, id)
      PROVE  IInv'
  BY ONLY <1>4, IInv, AfterSearch, AfterSearchFails
<1>5. CASE AM_DeleteEntry \/ DeleteNotFound
  BY ONLY <1>1, <1>2, <1>5, IInv, AfterDelete, AfterNotFound
<1>6. CASE InsertIntoLeaf \/ SplitLeaf \/ SplitRootLeaf \/ SplitLeafFails
  BY ONLY <1>1, <1>6, FewRecIds, IInv, AllListsFit, LeafStepFits
<1>7. CASE ParentStep
  BY ONLY <1>1, <1>2, <1>7, IInv, AfterAddToParent, AfterSplitParent, AfterSplitRoot,
          AfterSplitRootFails DEF ParentStep
<1> QED
  BY <1>1, <1>2, <1>3, <1>4, <1>5, <1>6, <1>7 DEF Next, LeafStep

(* If there is room in a leaf for two keys, one of them with all record    *)
(* ids there are, then the hypothesis of the theorems above always holds,  *)
(* and what they say of the calls is true without a condition: a search    *)
(* finds every entry, the leaves are in order, no insertion is lost        *)
(* (AM_InsertEntry), and the calls are those of a set of entries.          *)
THEOREM FewRecordIds ==
  ASSUME FewRecIds
  PROVE  Spec => /\ []AllListsFit /\ []TypeOK /\ []EntriesFindable
                 /\ []TreeShape /\ []ChainInOrder
                 /\ InsertTakesEffect /\ ThreeBuffersSuffice /\ ImplementsIndex
<1>1. Init => IInv /\ AllListsFit
  <2> SUFFICES ASSUME Init PROVE IInv /\ AllListsFit
    OBVIOUS
  <2>1. IInv
    BY InitOK
  <2>2. GoodLeaves(page)
    BY <2>1, LeavesAreGood
  <2> QED
    BY <2>1, <2>2, ListsOfFewFit DEF AllListsFit
<1>2. IInv /\ AllListsFit /\ [Next]_vars => IInv' /\ AllListsFit'
  BY NextFits, NextOK
<1>3. Spec => []AllListsFit
  BY <1>1, <1>2, PTL DEF Spec
<1> QED
  BY <1>3, TreeTypes, SearchFindsEntries, TreeHasShape, LeavesInOrder, InsertionsTakeEffect, ThreeAreEnough, TreeIsIndex, PTL

=============================================================================
