-------------------------- MODULE AMLeafPageProofs --------------------------
(***************************************************************************)
(* The page of a leaf: whatever was inserted, deleted and split off, its   *)
(* lists are well formed, its keys in order, and its operations do what    *)
(* AMLeaf says, for every size of page, key and cell, as long as no        *)
(* insertion compacts no keys (KeyFits); and for which sizes none does.    *)
(***************************************************************************)
EXTENDS AMLeafPage, AMLeafProofs

-----------------------------------------------------------------------------
(***************************************************************************)
(* Where the cells are.                                                    *)
(***************************************************************************)

(* The k-th cell from the end of the page, and the first n of them.        *)
Offset(k) == PageSize - k * CellSize
CellsUpTo(n) == {Offset(k) : k \in 1 .. n}

LEMMA SizesAre ==
  /\ PageSize \in Nat /\ PageSize = HeaderSize + LeafSpace
  /\ HeaderSize \in Nat \ {0} /\ LeafSpace \in Nat
  /\ KeySize \in Nat \ {0} /\ CellSize \in Nat \ {0}
  /\ LeafSpace >= KeySize + CellSize
BY LeafAssumption, HeaderAssumption DEF PageSize

LEMMA OffsetIs ==
  ASSUME NEW k \in Nat
  PROVE  /\ k * CellSize \in Nat /\ Offset(k) \in Int /\ PageSize - Offset(k) = k * CellSize
         /\ Offset(k + 1) = Offset(k) - CellSize
<1>1. CellSize \in Nat /\ PageSize \in Nat
  BY SizesAre
<1>2. (k + 1) * CellSize = k * CellSize + CellSize /\ k * CellSize \in Nat
  BY ONLY <1>1, k \in Nat
<1>3. Offset(k) = PageSize - k * CellSize /\ Offset(k + 1) = PageSize - (k + 1) * CellSize
  BY ONLY DEF Offset
<1> QED
  BY ONLY <1>1, <1>2, <1>3

LEMMA OffsetsFall ==
  ASSUME NEW i \in Nat, NEW j \in Nat, i < j
  PROVE  Offset(j) < Offset(i)
<1>1. CellSize \in Nat \ {0} /\ PageSize \in Nat
  BY SizesAre
<1>2. PICK d \in Nat \ {0} : j = i + d
  <2>1. j - i \in Nat \ {0} /\ j = i + (j - i)
    BY ONLY i \in Nat, j \in Nat, i < j
  <2> QED
    BY ONLY <2>1
<1>3. j * CellSize = i * CellSize + d * CellSize /\ i * CellSize \in Nat
  BY ONLY <1>1, <1>2, i \in Nat
<1>4. d * CellSize > 0 /\ d * CellSize \in Nat
  BY ONLY <1>1, <1>2
<1>5. Offset(i) = PageSize - i * CellSize /\ Offset(j) = PageSize - j * CellSize
  BY ONLY DEF Offset
<1> QED
  BY ONLY <1>1, <1>3, <1>4, <1>5

LEMMA SameOffset ==
  ASSUME NEW i \in Nat, NEW j \in Nat, Offset(i) = Offset(j)
  PROVE  i = j
<1>1. /\ Offset(i) \in Int /\ Offset(j) \in Int
      /\ i < j => Offset(j) < Offset(i)
      /\ j < i => Offset(i) < Offset(j)
  BY OffsetIs, OffsetsFall
<1> QED
  BY ONLY <1>1, i \in Nat, j \in Nat, Offset(i) = Offset(j)

(* The numbers of cells that fill a room, and their room.                  *)
LEMMA WholeCells ==
  ASSUME NEW k \in Nat
  PROVE  (k * CellSize) \div CellSize = k /\ (k * CellSize) % CellSize = 0
<1>1. PICK c \in Nat \ {0} : c = CellSize
  BY SizesAre
<1>2. PICK q, m, r : m = k * c /\ q = m \div c /\ r = m % c
  OBVIOUS
<1>3. m \in Nat /\ q \in Int /\ r \in 0 .. c - 1 /\ m = q * c + r
  <2>1. m \in Nat
    BY ONLY <1>2, k \in Nat, c \in Nat \ {0}
  <2>2. q \in Int /\ r \in 0 .. c - 1 /\ m = c * q + r
    BY ONLY <1>2, <2>1, c \in Nat \ {0}
  <2>3. c * q = q * c
    BY ONLY <2>2, c \in Nat \ {0}
  <2> QED
    BY ONLY <2>1, <2>2, <2>3
<1>4. q = k
  <2>1. ASSUME q < k PROVE FALSE
    <3>1. PICK d \in Nat \ {0} : k = q + d
      <4>1. k - q \in Nat \ {0} /\ k = q + (k - q)
        BY ONLY <1>3, <2>1, k \in Nat
      <4> QED
        BY ONLY <4>1
    <3>2. k * c = q * c + d * c /\ q * c \in Int
      BY ONLY <1>3, <3>1, c \in Nat \ {0}
    <3>3. d * c >= c
      BY ONLY <3>1, c \in Nat \ {0}
    <3> QED
      BY ONLY <1>2, <1>3, <3>2, <3>3, c \in Nat \ {0}, d \in Nat \ {0}
  <2>2. ASSUME q > k PROVE FALSE
    <3>1. PICK d \in Nat \ {0} : q = k + d
      <4>1. q - k \in Nat \ {0} /\ q = k + (q - k)
        BY ONLY <1>3, <2>2, k \in Nat
      <4> QED
        BY ONLY <4>1
    <3>2. q * c = k * c + d * c /\ k * c \in Int
      BY ONLY <1>3, <3>1, k \in Nat, c \in Nat \ {0}
    <3>3. d * c >= c
      BY ONLY <3>1, c \in Nat \ {0}
    <3> QED
      BY ONLY <1>2, <1>3, <3>2, <3>3, c \in Nat \ {0}, d \in Nat \ {0}
  <2> QED
    BY ONLY <1>3, <2>1, <2>2, k \in Nat
<1>5. r = 0
  BY ONLY <1>2, <1>3, <1>4
<1> QED
  BY ONLY <1>1, <1>2, <1>4, <1>5

(* A set that n numbers go through, one by one, has n elements.            *)
LEMMA NumberOf ==
  ASSUME NEW n \in Nat, NEW S, NEW f \in [1 .. n -> S],
         \A i, j \in 1 .. n : f[i] = f[j] => i = j,
         \A x \in S : \E i \in 1 .. n : f[i] = x
  PROVE  IsFiniteSet(S) /\ Cardinality(S) = n
<1>1. PICK D : D = 1 .. n
  OBVIOUS
<1>2. IsFiniteSet(D) /\ Cardinality(D) = n
  BY <1>1, FS_Interval
<1>3. f \in Bijection(D, S)
  BY <1>1 DEF Bijection, Injection, Surjection, IsInjective
<1>4. ExistsBijection(D, S)
  BY ONLY <1>3 DEF ExistsBijection
<1> QED
  BY ONLY <1>2, <1>4, FS_Bijection

LEMMA CellsAre ==
  ASSUME NEW n \in Nat, HeaderSize <= Offset(n)
  PROVE  /\ CellsUpTo(n) \in SUBSET Int /\ AM_NULL \notin CellsUpTo(n)
         /\ \A c \in CellsUpTo(n) : c > 0
         /\ \A k \in 1 .. n : Offset(k) \in CellsUpTo(n)
         /\ IsFiniteSet(CellsUpTo(n)) /\ Cardinality(CellsUpTo(n)) = n
<1>1. HeaderSize \in Nat \ {0}
  BY SizesAre
<1>2. ASSUME NEW k \in 1 .. n PROVE Offset(k) \in Int /\ Offset(k) > 0
  <2>1. k \in Nat /\ (k = n \/ k < n)
    BY ONLY n \in Nat, k \in 1 .. n
  <2>2. Offset(k) \in Int /\ Offset(n) \in Int /\ (k < n => Offset(n) < Offset(k))
    BY ONLY <2>1, n \in Nat, OffsetIs, OffsetsFall
  <2> QED
    BY ONLY <1>1, <2>1, <2>2, HeaderSize <= Offset(n)
<1>3. \A c \in CellsUpTo(n) : c \in Int /\ c > 0
  BY ONLY <1>2 DEF CellsUpTo
<1>4. IsFiniteSet(CellsUpTo(n)) /\ Cardinality(CellsUpTo(n)) = n
  <2> DEFINE f == [k \in 1 .. n |-> Offset(k)]
  <2>1. \A i, j \in 1 .. n : Offset(i) = Offset(j) => i = j
    <3>1. \A i \in 1 .. n : i \in Nat
      BY ONLY n \in Nat
    <3> QED
      BY ONLY <3>1, SameOffset
  <2>2. f \in [1 .. n -> CellsUpTo(n)] /\ \A k \in 1 .. n : f[k] = Offset(k)
    BY DEF CellsUpTo
  <2>3. \A c \in CellsUpTo(n) : \E k \in 1 .. n : f[k] = c
    BY DEF CellsUpTo
  <2> HIDE DEF f
  <2>4. \A i, j \in 1 .. n : f[i] = f[j] => i = j
    BY ONLY <2>1, <2>2
  <2> QED
    BY ONLY <2>2, <2>3, <2>4, n \in Nat, NumberOf
<1> QED
  BY ONLY <1>1, <1>2, <1>3, <1>4 DEF AM_NULL, CellsUpTo

LEMMA OneMoreCell ==
  ASSUME NEW n \in Nat
  PROVE  /\ CellsUpTo(n + 1) = CellsUpTo(n) \cup {Offset(n + 1)}
         /\ Offset(n + 1) \notin CellsUpTo(n)
<1>1. \A k \in 1 .. n : k \in Nat /\ k # n + 1
  BY ONLY n \in Nat
<1>2. \A k \in 1 .. n : Offset(k) # Offset(n + 1)
  BY ONLY <1>1, n \in Nat, n + 1 \in Nat, SameOffset
<1>3. 1 .. n + 1 = 1 .. n \cup {n + 1}
  BY ONLY n \in Nat
<1> QED
  BY ONLY <1>2, <1>3 DEF CellsUpTo

-----------------------------------------------------------------------------
(***************************************************************************)
(* Lists of cells.                                                         *)
(***************************************************************************)
NextIn(s, i) == IF i = Len(s) THEN AM_NULL ELSE s[i + 1]

(* The list that starts at head is s, and its cells are those of S.        *)
IsRow(cells, head, s, S) ==
  /\ S \subseteq DOMAIN cells /\ s \in Seq(S)
  /\ \A c \in S : \E i \in 1 .. Len(s) : s[i] = c
  /\ \A i, j \in 1 .. Len(s) : s[i] = s[j] => i = j
  /\ head = NextIn(s, 0)
  /\ \A i \in 1 .. Len(s) : cells[s[i]].next = NextIn(s, i)

(* A list is as long as it has cells.                                      *)
LEMMA RowLength ==
  ASSUME NEW cells, NEW head, NEW s, NEW S, IsRow(cells, head, s, S)
  PROVE  Len(s) = Cardinality(S) /\ Len(s) \in Nat /\ IsFiniteSet(S)
<1>1. /\ s \in Seq(S)
      /\ \A c \in S : \E i \in 1 .. Len(s) : s[i] = c
      /\ \A i, j \in 1 .. Len(s) : s[i] = s[j] => i = j
  BY ONLY IsRow(cells, head, s, S) DEF IsRow
<1>2. /\ Len(s) \in Nat /\ DOMAIN s = 1 .. Len(s) /\ \A i \in 1 .. Len(s) : s[i] \in S
      /\ s = [i \in 1 .. Len(s) |-> s[i]]
  BY ONLY <1>1, SeqIs
<1>3. PICK n : n = Len(s)
  OBVIOUS
<1>4. s \in [1 .. n -> S] /\ n \in Nat
  BY ONLY <1>1, <1>3
<1>5. IsFiniteSet(S) /\ Cardinality(S) = n
  BY ONLY <1>1, <1>3, <1>4, NumberOf
<1> QED
  BY ONLY <1>3, <1>4, <1>5

(* The loops that follow a list find all of it.                            *)
LEMMA RowIsList ==
  ASSUME NEW pg, NEW head, NEW s, NEW S, IsRow(pg.cells, head, s, S),
         IsFiniteSet(DOMAIN pg.cells), AM_NULL \notin DOMAIN pg.cells
  PROVE  CellList(pg, head) = s
<1>1. PICK cells, D : cells = pg.cells /\ D = DOMAIN pg.cells
  OBVIOUS
<1>2. /\ IsRow(cells, head, s, S) /\ D = DOMAIN cells
      /\ IsFiniteSet(D) /\ AM_NULL \notin D
  BY ONLY <1>1, IsRow(pg.cells, head, s, S), IsFiniteSet(DOMAIN pg.cells),
          AM_NULL \notin DOMAIN pg.cells
<1>3. /\ S \subseteq D /\ s \in Seq(S) /\ head = NextIn(s, 0)
      /\ \A i \in 1 .. Len(s) : cells[s[i]].next = NextIn(s, i)
  BY ONLY <1>2 DEF IsRow
<1>4. IsFiniteSet(S) /\ Cardinality(S) <= Cardinality(D)
  BY ONLY <1>2, <1>3, FS_Subset
<1>5. PICK size : size = Cardinality(D)
  OBVIOUS
<1>6. size \in Nat /\ Len(s) \in Nat /\ Len(s) <= 0 + size
  <2>1. size \in Nat
    BY ONLY <1>2, <1>5, FS_CardinalityType
  <2>2. Len(s) = Cardinality(S) /\ Len(s) \in Nat
    BY ONLY <1>2, <1>4, RowLength
  <2> QED
    BY ONLY <1>4, <1>5, <2>1, <2>2
<1>7. s \in Seq(D) /\ \A i \in 1 .. Len(s) : s[i] \in D
  <2>1. \A i \in 1 .. Len(s) : s[i] \in S
    BY ONLY <1>3, SeqIs
  <2> QED
    BY ONLY <1>3, <2>1
<1>8. ASSUME NEW k \in 0 .. Len(s)
      PROVE  OneCell(cells, head)[FirstOf(s, k)] = FirstOf(s, IF k = Len(s) THEN k ELSE k + 1)
  <2>1. /\ FirstOf(s, k) \in Seq(D)
        /\ k = 0 => FirstOf(s, k) = <<>>
        /\ k # 0 => FirstOf(s, k) # <<>> /\ Last(FirstOf(s, k)) = s[k]
        /\ k # Len(s) => Append(FirstOf(s, k), s[k + 1]) = FirstOf(s, k + 1)
    BY ONLY <1>7, k \in 0 .. Len(s), FirstOfIs
  <2>2. PICK f, cell : f = FirstOf(s, k) /\ cell = NextIn(s, k)
    OBVIOUS
  <2>3. cell = IF f = <<>> THEN head ELSE cells[Last(f)].next
    <3>1. k # 0 => k \in 1 .. Len(s)
      BY ONLY k \in 0 .. Len(s), <1>6
    <3> QED
      BY ONLY <1>3, <2>1, <2>2, <3>1
  <2>4. OneCell(cells, head)[f] = IF cell = AM_NULL THEN f ELSE Append(f, cell)
    BY ONLY <1>2, <2>1, <2>2, <2>3 DEF OneCell
  <2>5. k = Len(s) => cell = AM_NULL
    BY ONLY <2>2 DEF NextIn
  <2>6. k # Len(s) => cell = s[k + 1] /\ cell # AM_NULL
    <3>1. k # Len(s) => k + 1 \in 1 .. Len(s)
      BY ONLY <1>6, k \in 0 .. Len(s)
    <3> QED
      BY ONLY <1>2, <1>7, <2>2, <3>1 DEF NextIn
  <2> QED
    BY ONLY <2>1, <2>2, <2>4, <2>5, <2>6
<1>9. Walks(OneCell(cells, head), s, 0)
  BY ONLY <1>8 DEF Walks
<1>10. 0 \in 0 .. Len(s)
  BY ONLY <1>6
<1>11. LoopOf(size, FirstOf(s, 0), OneCell(cells, head))[size] = s
  BY ONLY <1>6, <1>7, <1>9, <1>10, WalkIs
<1>12. FirstOf(s, 0) = <<>>
  BY ONLY <1>7, <1>10, FirstOfIs
<1>13. CellList(pg, head) = LoopOf(size, <<>>, OneCell(cells, head))[size]
  BY ONLY <1>1, <1>5 DEF CellList, LoopOf, IsLoop
<1> QED
  BY ONLY <1>11, <1>12, <1>13

(* The cells of other lists may change.                                    *)
LEMMA RowKept ==
  ASSUME NEW cells, NEW head, NEW s, NEW S, IsRow(cells, head, s, S),
         NEW now, \A c \in S : c \in DOMAIN now /\ now[c].next = cells[c].next
  PROVE  IsRow(now, head, s, S)
<1>1. /\ s \in Seq(S)
      /\ \A c \in S : \E i \in 1 .. Len(s) : s[i] = c
      /\ \A i, j \in 1 .. Len(s) : s[i] = s[j] => i = j
      /\ head = NextIn(s, 0)
      /\ \A i \in 1 .. Len(s) : cells[s[i]].next = NextIn(s, i)
  BY ONLY IsRow(cells, head, s, S) DEF IsRow
<1>2. \A i \in 1 .. Len(s) : s[i] \in S
  BY ONLY <1>1, SeqIs
<1>3. \A i \in 1 .. Len(s) : now[s[i]].next = NextIn(s, i)
  BY ONLY <1>1, <1>2, \A c \in S : c \in DOMAIN now /\ now[c].next = cells[c].next
<1>4. S \subseteq DOMAIN now
  BY ONLY \A c \in S : c \in DOMAIN now /\ now[c].next = cells[c].next
<1> QED
  BY ONLY <1>1, <1>3, <1>4 DEF IsRow

LEMMA RowOfNone ==
  ASSUME NEW cells
  PROVE  /\ IsRow(cells, AM_NULL, <<>>, {})
         /\ \A head, s, S : IsRow(cells, head, s, S) /\ s = <<>> => S = {} /\ head = AM_NULL
<1>1. <<>> \in Seq({}) /\ Len(<<>>) = 0 /\ 1 .. 0 = {}
  OBVIOUS
<1> QED
  BY ONLY <1>1 DEF IsRow, NextIn

(* A cell in front of a list.                                              *)
LEMMA RowPushed ==
  ASSUME NEW cells, NEW head, NEW s, NEW S, IsRow(cells, head, s, S),
         NEW c, c \notin S,
         NEW now, \A d \in S : d \in DOMAIN now /\ now[d].next = cells[d].next,
         c \in DOMAIN now, now[c].next = head
  PROVE  IsRow(now, c, <<c>> \o s, S \cup {c})
<1>1. /\ s \in Seq(S)
      /\ \A d \in S : \E i \in 1 .. Len(s) : s[i] = d
      /\ \A i, j \in 1 .. Len(s) : s[i] = s[j] => i = j
      /\ head = NextIn(s, 0)
      /\ \A i \in 1 .. Len(s) : cells[s[i]].next = NextIn(s, i)
  BY ONLY IsRow(cells, head, s, S) DEF IsRow
<1>2. Len(s) \in Nat /\ \A i \in 1 .. Len(s) : s[i] \in S
  BY ONLY <1>1, SeqIs
<1>3. PICK t, m, T : t = <<c>> \o s /\ m = Len(s) /\ T = S \cup {c}
  OBVIOUS
<1>4. /\ t \in Seq(T) /\ Len(t) = m + 1
      /\ \A i \in 1 .. m + 1 : t[i] = IF i = 1 THEN c ELSE s[i - 1]
  <2>1. <<c>> \in Seq(T) /\ Len(<<c>>) = 1 /\ <<c>>[1] = c
    BY ONLY <1>3
  <2>2. s \in Seq(T)
    BY ONLY <1>1, <1>3
  <2>3. /\ t \in Seq(T) /\ Len(t) = 1 + m
        /\ \A i \in 1 .. 1 + m : t[i] = IF i <= 1 THEN <<c>>[i] ELSE s[i - 1]
    BY ONLY <1>3, <2>1, <2>2, ConcatIs
  <2> QED
    BY ONLY <1>2, <1>3, <2>1, <2>3
<1>5. \A d \in T : \E i \in 1 .. m + 1 : t[i] = d
  <2>1. t[1] = c /\ 1 \in 1 .. m + 1
    BY ONLY <1>2, <1>3, <1>4
  <2>2. \A i \in 1 .. m : i + 1 \in 1 .. m + 1 /\ i + 1 # 1 /\ (i + 1) - 1 = i
    BY ONLY <1>2, <1>3
  <2>3. \A i \in 1 .. m : i + 1 \in 1 .. m + 1 /\ t[i + 1] = s[i]
    BY ONLY <1>4, <2>2
  <2>4. ASSUME NEW d \in T PROVE \E i \in 1 .. m + 1 : t[i] = d
    <3>1. CASE d = c
      BY ONLY <2>1, <3>1
    <3>2. CASE d # c
      <4>1. PICK i \in 1 .. m : s[i] = d
        BY ONLY <1>1, <1>3, <3>2, d \in T
      <4> QED
        BY ONLY <2>3, <4>1
    <3> QED
      BY ONLY <3>1, <3>2
  <2> QED
    BY ONLY <2>4
<1>6. ASSUME NEW i \in 1 .. m + 1, NEW j \in 1 .. m + 1, t[i] = t[j] PROVE i = j
  <2>1. (i # 1 => i - 1 \in 1 .. m) /\ (j # 1 => j - 1 \in 1 .. m)
    BY ONLY <1>2, <1>3, i \in 1 .. m + 1, j \in 1 .. m + 1
  <2>2. i = 1 <=> j = 1
    BY ONLY <1>2, <1>3, <1>4, <1>6, <2>1, c \notin S
  <2>3. i # 1 => i - 1 = j - 1
    BY ONLY <1>1, <1>3, <1>4, <1>6, <2>1, <2>2
  <2> QED
    BY ONLY <1>2, <1>3, <2>2, <2>3, i \in 1 .. m + 1, j \in 1 .. m + 1
<1>7. c = NextIn(t, 0)
  BY ONLY <1>2, <1>3, <1>4 DEF NextIn
<1>8. ASSUME NEW i \in 1 .. m + 1 PROVE now[t[i]].next = NextIn(t, i)
  <2>1. CASE i = 1
    <3>1. now[t[i]].next = NextIn(s, 0)
      BY ONLY <1>1, <1>4, <2>1, i \in 1 .. m + 1, now[c].next = head
    <3>2. NextIn(s, 0) = NextIn(t, 1)
      <4>1. m # 0 => 0 + 1 \in 1 .. m + 1 /\ 1 + 1 \in 1 .. m + 1 /\ (1 + 1) - 1 = 0 + 1
                     /\ 1 + 1 # 1
        BY ONLY <1>2, <1>3
      <4>2. m = 0 <=> 1 = m + 1
        BY ONLY <1>2, <1>3
      <4> QED
        BY ONLY <1>3, <1>4, <4>1, <4>2 DEF NextIn
    <3> QED
      BY ONLY <2>1, <3>1, <3>2
  <2>2. CASE i # 1
    <3>1. i - 1 \in 1 .. m
      BY ONLY <1>2, <1>3, <2>2, i \in 1 .. m + 1
    <3>2. t[i] = s[i - 1] /\ s[i - 1] \in S
      BY ONLY <1>2, <1>3, <1>4, <2>2, <3>1, i \in 1 .. m + 1
    <3>3. now[t[i]].next = NextIn(s, i - 1)
      BY ONLY <1>1, <1>3, <3>1, <3>2,
              \A d \in S : d \in DOMAIN now /\ now[d].next = cells[d].next
    <3>4. NextIn(s, i - 1) = NextIn(t, i)
      <4>1. i - 1 = m <=> i = m + 1
        BY ONLY <1>2, <1>3, i \in 1 .. m + 1
      <4>2. i - 1 # m => i + 1 \in 1 .. m + 1 /\ i + 1 # 1 /\ (i + 1) - 1 = (i - 1) + 1
        BY ONLY <1>2, <1>3, i \in 1 .. m + 1
      <4> QED
        BY ONLY <1>3, <1>4, <4>1, <4>2 DEF NextIn
    <3> QED
      BY ONLY <3>3, <3>4
  <2> QED
    BY ONLY <2>1, <2>2
<1>9. T \subseteq DOMAIN now
  BY ONLY <1>3, c \in DOMAIN now, \A d \in S : d \in DOMAIN now /\ now[d].next = cells[d].next
<1>10. IsRow(now, c, t, T)
  BY ONLY <1>4, <1>5, <1>6, <1>7, <1>8, <1>9 DEF IsRow
<1> QED
  BY ONLY <1>3, <1>10

(* A cell taken out of a list: the next of the cell before it, or the head *)
(* of the list, skips it.                                                  *)
SkipsCell(cells, now, s, p) ==
  \A i \in 1 .. Len(s) : i # p =>
    /\ s[i] \in DOMAIN now
    /\ now[s[i]].next = cells[IF i = p - 1 THEN s[p] ELSE s[i]].next

LEMMA RowUnlinked ==
  ASSUME NEW cells, NEW head, NEW s, NEW S, IsRow(cells, head, s, S),
         NEW p \in 1 .. Len(s), NEW now, SkipsCell(cells, now, s, p)
  PROVE  IsRow(now, IF p = 1 THEN cells[s[p]].next ELSE head, RemoveAt(s, p), S \ {s[p]})
<1>1. /\ s \in Seq(S)
      /\ \A d \in S : \E i \in 1 .. Len(s) : s[i] = d
      /\ \A i, j \in 1 .. Len(s) : s[i] = s[j] => i = j
      /\ head = NextIn(s, 0)
      /\ \A i \in 1 .. Len(s) : cells[s[i]].next = NextIn(s, i)
  BY ONLY IsRow(cells, head, s, S) DEF IsRow
<1>2. PICK t, m, c, T, first :
        /\ t = RemoveAt(s, p) /\ m = Len(s) /\ c = s[p] /\ T = S \ {c}
        /\ first = IF p = 1 THEN cells[c].next ELSE head
  OBVIOUS
<1>3. /\ m \in Nat \ {0} /\ p \in 1 .. m /\ p \in DOMAIN s
      /\ \A i \in 1 .. m : s[i] \in S
  <2>1. Len(s) \in Nat /\ DOMAIN s = 1 .. Len(s) /\ \A i \in 1 .. Len(s) : s[i] \in S
    BY ONLY <1>1, SeqIs
  <2> QED
    BY ONLY <1>2, <2>1, p \in 1 .. Len(s)
<1>4. /\ t \in Seq(S) /\ Len(t) = m - 1
      /\ \A i \in 1 .. m - 1 : t[i] = IF i < p THEN s[i] ELSE s[i + 1]
  <2>1. /\ RemoveAt(s, p) \in Seq(S) /\ Len(RemoveAt(s, p)) = Len(s) - 1
        /\ \A i \in 1 .. Len(s) - 1 : RemoveAt(s, p)[i] = IF i < p THEN s[i] ELSE s[i + 1]
    <3>1. s \in Seq(S) /\ p \in DOMAIN s
      BY ONLY <1>1, <1>3
    <3> QED
      BY ONLY <3>1, RemoveAtIs
  <2> QED
    BY ONLY <1>2, <2>1
<1> DEFINE Old(i) == IF i < p THEN i ELSE i + 1
<1>5. ASSUME NEW i \in 1 .. m - 1
      PROVE  Old(i) \in 1 .. m /\ Old(i) # p /\ t[i] = s[Old(i)] /\ t[i] \in T
  <2>1. Old(i) \in 1 .. m /\ Old(i) # p
    BY ONLY <1>3, i \in 1 .. m - 1
  <2>2. t[i] = s[Old(i)]
    BY ONLY <1>4, i \in 1 .. m - 1
  <2> HIDE DEF Old
  <2> QED
    BY ONLY <1>1, <1>2, <1>3, <2>1, <2>2
<1>6. t \in Seq(T)
  <2>1. PICK k : k = m - 1
    OBVIOUS
  <2>2. k \in Nat /\ Len(t) = k /\ \A i \in 1 .. k : t[i] \in T
    BY ONLY <1>3, <1>4, <1>5, <2>1
  <2>3. t = [i \in 1 .. k |-> t[i]]
    <3>1. t = [i \in 1 .. Len(t) |-> t[i]]
      BY ONLY <1>4, SeqIs
    <3> QED
      BY ONLY <2>2, <3>1
  <2>4. t \in [1 .. k -> T]
    BY ONLY <2>2, <2>3
  <2> QED
    BY ONLY <2>2, <2>4
<1>7. ASSUME NEW d \in T PROVE \E i \in 1 .. m - 1 : t[i] = d
  <2>1. PICK i \in 1 .. m : s[i] = d
    BY ONLY <1>1, <1>2, d \in T
  <2>2. i # p
    BY ONLY <1>2, <2>1, d \in T
  <2>3. CASE i < p
    <3>1. i \in 1 .. m - 1
      BY ONLY <1>3, <2>3, i \in 1 .. m
    <3> QED
      BY ONLY <1>4, <2>1, <2>3, <3>1
  <2>4. CASE ~(i < p)
    <3>1. i - 1 \in 1 .. m - 1 /\ ~(i - 1 < p) /\ (i - 1) + 1 = i
      BY ONLY <1>3, <2>2, <2>4, i \in 1 .. m
    <3> QED
      BY ONLY <1>4, <2>1, <3>1
  <2> QED
    BY ONLY <2>3, <2>4
<1>8. ASSUME NEW i \in 1 .. m - 1, NEW j \in 1 .. m - 1, t[i] = t[j] PROVE i = j
  <2>1. Old(i) = Old(j)
    <3> HIDE DEF Old
    <3> QED
      BY ONLY <1>1, <1>2, <1>5, <1>8
  <2> QED
    BY ONLY <1>3, <2>1, i \in 1 .. m - 1, j \in 1 .. m - 1
<1>9. first = NextIn(t, 0)
  <2>1. CASE p = 1
    <3>1. first = NextIn(s, 1)
      BY ONLY <1>1, <1>2, <1>3, <2>1
    <3>2. 1 = m <=> 0 = m - 1
      BY ONLY <1>3
    <3>3. 1 # m => 0 + 1 \in 1 .. m - 1 /\ ~(0 + 1 < 1) /\ (0 + 1) + 1 = 1 + 1
      BY ONLY <1>3
    <3> QED
      BY ONLY <1>2, <1>4, <2>1, <3>1, <3>2, <3>3 DEF NextIn
  <2>2. CASE p # 1
    <3>1. 0 # m /\ 0 # m - 1 /\ 0 + 1 \in 1 .. m - 1 /\ 0 + 1 < p
      BY ONLY <1>3, <2>2
    <3> QED
      BY ONLY <1>1, <1>2, <1>4, <2>2, <3>1 DEF NextIn
  <2> QED
    BY ONLY <2>1, <2>2
<1>10. ASSUME NEW i \in 1 .. m - 1 PROVE t[i] \in DOMAIN now /\ now[t[i]].next = NextIn(t, i)
  <2>1. PICK k : k = Old(i)
    OBVIOUS
  <2>2. k \in 1 .. m /\ k # p /\ t[i] = s[k]
    <3> HIDE DEF Old
    <3> QED
      BY ONLY <1>5, <2>1, i \in 1 .. m - 1
  <2>3. t[i] \in DOMAIN now /\ now[t[i]].next = cells[IF k = p - 1 THEN s[p] ELSE s[k]].next
    BY ONLY <1>2, <2>2, SkipsCell(cells, now, s, p) DEF SkipsCell
  <2>4. now[t[i]].next = NextIn(s, IF k = p - 1 THEN p ELSE k)
    BY ONLY <1>1, <1>2, <1>3, <2>2, <2>3
  <2>5. PICK l : l = IF k = p - 1 THEN p ELSE k
    OBVIOUS
  <2>6. /\ l = m <=> i = m - 1
        /\ i # m - 1 => i + 1 \in 1 .. m - 1 /\ Old(i + 1) = l + 1
    BY ONLY <1>3, <2>1, <2>2, <2>5, i \in 1 .. m - 1
  <2>7. i # m - 1 => t[i + 1] = s[l + 1]
    <3> HIDE DEF Old
    <3> QED
      BY ONLY <1>5, <2>6
  <2>8. NextIn(s, l) = NextIn(t, i)
    BY ONLY <1>2, <1>4, <2>6, <2>7 DEF NextIn
  <2> QED
    BY ONLY <2>3, <2>4, <2>5, <2>8
<1>11. T \subseteq DOMAIN now
  BY ONLY <1>7, <1>10
<1>12. IsRow(now, first, t, T)
  <2>1. Len(t) = m - 1
    BY ONLY <1>4
  <2> QED
    BY ONLY <1>6, <1>7, <1>8, <1>9, <1>10, <1>11, <2>1 DEF IsRow
<1> QED
  BY ONLY <1>2, <1>12

(* The record ids of a list.                                               *)
CellEntries == [id : RecIds, next : Int]

IdsAt(cells, s) == [i \in 1 .. Len(s) |-> cells[s[i]].id]

RowHas(cells, head, S, ids) == \E s : IsRow(cells, head, s, S) /\ ids = IdsAt(cells, s)

Agree(cells, now, S) == \A c \in S : c \in DOMAIN now /\ now[c] = cells[c]

LEMMA IdsAre ==
  ASSUME NEW D, NEW cells \in [D -> CellEntries], NEW s, NEW S, S \subseteq D, s \in Seq(S)
  PROVE  /\ IdsAt(cells, s) \in Seq(RecIds) /\ Len(IdsAt(cells, s)) = Len(s) /\ Len(s) \in Nat
         /\ \A i \in 1 .. Len(s) : s[i] \in S /\ IdsAt(cells, s)[i] = cells[s[i]].id
<1>1. PICK m, ids : m = Len(s) /\ ids = IdsAt(cells, s)
  OBVIOUS
<1>2. m \in Nat /\ \A i \in 1 .. m : s[i] \in S
  BY ONLY <1>1, s \in Seq(S), SeqIs
<1>3. \A i \in 1 .. m : cells[s[i]].id \in RecIds
  <2>1. \A c \in D : cells[c].id \in RecIds
    BY DEF CellEntries
  <2> QED
    BY ONLY <1>2, <2>1, S \subseteq D
<1>4. ids = [i \in 1 .. m |-> cells[s[i]].id]
  BY ONLY <1>1 DEF IdsAt
<1>5. ids \in [1 .. m -> RecIds]
  BY ONLY <1>3, <1>4
<1>6. ids \in Seq(RecIds) /\ Len(ids) = m
  BY ONLY <1>2, <1>5
<1> QED
  BY ONLY <1>1, <1>2, <1>4, <1>6

LEMMA HasIds ==
  ASSUME NEW D, NEW cells \in [D -> CellEntries], NEW head, NEW S, NEW ids,
         RowHas(cells, head, S, ids)
  PROVE  /\ ids \in Seq(RecIds) /\ Len(ids) = Cardinality(S) /\ IsFiniteSet(S)
         /\ ids = <<>> <=> S = {}
         /\ S = {} => head = AM_NULL
         /\ S # {} => head \in S
<1>1. PICK s : IsRow(cells, head, s, S) /\ ids = IdsAt(cells, s)
  BY ONLY RowHas(cells, head, S, ids) DEF RowHas
<1>2. /\ S \subseteq D /\ s \in Seq(S) /\ head = NextIn(s, 0)
      /\ \A d \in S : \E i \in 1 .. Len(s) : s[i] = d
  BY <1>1 DEF IsRow
<1>3. ids \in Seq(RecIds) /\ Len(ids) = Len(s) /\ Len(s) \in Nat /\ \A i \in 1 .. Len(s) : s[i] \in S
  BY ONLY <1>1, <1>2, IdsAre, cells \in [D -> CellEntries]
<1>4. Len(s) = Cardinality(S) /\ IsFiniteSet(S)
  BY ONLY <1>1, RowLength
<1>5. ids = <<>> <=> Len(s) = 0
  BY ONLY <1>3
<1>6. Len(s) = 0 => S = {} /\ head = AM_NULL
  BY ONLY <1>2 DEF NextIn
<1>7. Len(s) # 0 => head = s[1] /\ s[1] \in S
  <2>1. Len(s) # 0 => 1 \in 1 .. Len(s) /\ 0 # Len(s) /\ 0 + 1 = 1
    BY ONLY <1>3
  <2> QED
    BY ONLY <1>2, <1>3, <2>1 DEF NextIn
<1> QED
  BY ONLY <1>3, <1>4, <1>5, <1>6, <1>7

LEMMA HasKept ==
  ASSUME NEW D, NEW cells \in [D -> CellEntries], NEW head, NEW S, NEW ids,
         RowHas(cells, head, S, ids), NEW now, Agree(cells, now, S)
  PROVE  RowHas(now, head, S, ids)
<1>1. PICK s : IsRow(cells, head, s, S) /\ ids = IdsAt(cells, s)
  BY ONLY RowHas(cells, head, S, ids) DEF RowHas
<1>2. s \in Seq(S)
  BY ONLY <1>1 DEF IsRow
<1>3. \A i \in 1 .. Len(s) : s[i] \in S
  BY ONLY <1>2, SeqIs
<1>4. \A c \in S : c \in DOMAIN now /\ now[c] = cells[c]
  BY ONLY Agree(cells, now, S) DEF Agree
<1>5. IsRow(now, head, s, S)
  <2>1. \A c \in S : c \in DOMAIN now /\ now[c].next = cells[c].next
    BY ONLY <1>4
  <2> QED
    BY ONLY <1>1, <2>1, RowKept
<1>6. IdsAt(now, s) = IdsAt(cells, s)
  BY ONLY <1>3, <1>4 DEF IdsAt
<1> QED
  BY ONLY <1>1, <1>5, <1>6 DEF RowHas

LEMMA HasPushed ==
  ASSUME NEW D, NEW cells \in [D -> CellEntries], NEW head, NEW S, NEW ids, S \subseteq D,
         RowHas(cells, head, S, ids), NEW now, Agree(cells, now, S),
         NEW c, c \notin S, NEW id \in RecIds,
         c \in DOMAIN now, now[c] = [id |-> id, next |-> head]
  PROVE  RowHas(now, c, S \cup {c}, <<id>> \o ids)
<1>1. PICK s : IsRow(cells, head, s, S) /\ ids = IdsAt(cells, s)
  BY ONLY RowHas(cells, head, S, ids) DEF RowHas
<1>2. s \in Seq(S)
  BY ONLY <1>1 DEF IsRow
<1>3. /\ ids \in Seq(RecIds) /\ Len(ids) = Len(s) /\ Len(s) \in Nat
      /\ \A i \in 1 .. Len(s) : s[i] \in S /\ ids[i] = cells[s[i]].id
  BY ONLY <1>1, <1>2, IdsAre, cells \in [D -> CellEntries], S \subseteq D
<1>4. \A d \in S : d \in DOMAIN now /\ now[d] = cells[d]
  BY ONLY Agree(cells, now, S) DEF Agree
<1>5. IsRow(now, c, <<c>> \o s, S \cup {c})
  <2>1. \A d \in S : d \in DOMAIN now /\ now[d].next = cells[d].next
    BY ONLY <1>4
  <2>2. now[c].next = head
    BY ONLY now[c] = [id |-> id, next |-> head]
  <2> QED
    BY ONLY <1>1, <2>1, <2>2, c \notin S, c \in DOMAIN now, RowPushed
<1>6. PICK m, t, more, T : /\ m = Len(s) /\ t = <<c>> \o s /\ more = <<id>> \o ids
                           /\ T = S \cup {c}
  OBVIOUS
<1>7. /\ Len(t) = 1 + m
      /\ \A i \in 1 .. 1 + m : t[i] = IF i <= 1 THEN <<c>>[i] ELSE s[i - 1]
  <2>1. <<c>> \in Seq(T) /\ s \in Seq(T) /\ Len(<<c>>) = 1
    BY ONLY <1>2, <1>6
  <2> QED
    BY ONLY <1>6, <2>1, ConcatIs
<1>8. /\ more \in Seq(RecIds) /\ Len(more) = 1 + m
      /\ \A i \in 1 .. 1 + m : more[i] = IF i <= 1 THEN <<id>>[i] ELSE ids[i - 1]
  <2>1. <<id>> \in Seq(RecIds) /\ Len(<<id>>) = 1
    BY ONLY id \in RecIds
  <2> QED
    BY ONLY <1>3, <1>6, <2>1, ConcatIs
<1>9. ASSUME NEW i \in 1 .. 1 + m PROVE more[i] = now[t[i]].id
  <2>1. CASE i <= 1
    <3>1. i = 1
      BY ONLY <1>3, <1>6, <2>1, i \in 1 .. 1 + m
    <3>2. more[1] = id /\ t[1] = c
      BY ONLY <1>7, <1>8, <2>1, <3>1, i \in 1 .. 1 + m
    <3> QED
      BY ONLY <3>1, <3>2, now[c] = [id |-> id, next |-> head]
  <2>2. CASE ~(i <= 1)
    <3>1. i - 1 \in 1 .. m
      BY ONLY <1>3, <1>6, <2>2, i \in 1 .. 1 + m
    <3>2. more[i] = ids[i - 1] /\ t[i] = s[i - 1]
      BY ONLY <1>7, <1>8, <2>2, i \in 1 .. 1 + m
    <3> QED
      BY ONLY <1>3, <1>4, <1>6, <3>1, <3>2
  <2> QED
    BY ONLY <2>1, <2>2
<1>10. more = [i \in 1 .. 1 + m |-> more[i]]
  <2>1. more = [i \in 1 .. Len(more) |-> more[i]]
    BY ONLY <1>8, SeqIs
  <2> QED
    BY ONLY <1>8, <2>1
<1>11. more = IdsAt(now, t)
  BY ONLY <1>7, <1>9, <1>10 DEF IdsAt
<1> QED
  BY ONLY <1>5, <1>6, <1>11 DEF RowHas

LEMMA HasUnlinked ==
  ASSUME NEW D, NEW cells \in [D -> CellEntries], NEW head, NEW S, NEW s, S \subseteq D,
         IsRow(cells, head, s, S), NEW p \in 1 .. Len(s), NEW now, SkipsCell(cells, now, s, p),
         \A i \in 1 .. Len(s) : i # p => now[s[i]].id = cells[s[i]].id
  PROVE  RowHas(now, IF p = 1 THEN cells[s[p]].next ELSE head, S \ {s[p]},
                RemoveAt(IdsAt(cells, s), p))
<1>1. s \in Seq(S)
  BY ONLY IsRow(cells, head, s, S) DEF IsRow
<1>2. PICK m, ids, t, rest :
        m = Len(s) /\ ids = IdsAt(cells, s) /\ t = RemoveAt(s, p) /\ rest = RemoveAt(ids, p)
  OBVIOUS
<1>3. /\ ids \in Seq(RecIds) /\ Len(ids) = m /\ m \in Nat
      /\ \A i \in 1 .. m : ids[i] = cells[s[i]].id
  BY ONLY <1>1, <1>2, IdsAre, cells \in [D -> CellEntries], S \subseteq D
<1>4. IsRow(now, IF p = 1 THEN cells[s[p]].next ELSE head, t, S \ {s[p]})
  BY ONLY <1>2, RowUnlinked, IsRow(cells, head, s, S), p \in 1 .. Len(s), SkipsCell(cells, now, s, p)
<1>5. p \in 1 .. m /\ p \in DOMAIN s /\ p \in DOMAIN ids
  <2>1. DOMAIN s = 1 .. Len(s) /\ DOMAIN ids = 1 .. Len(ids)
    BY ONLY <1>1, <1>3, SeqIs
  <2> QED
    BY ONLY <1>2, <1>3, <2>1, p \in 1 .. Len(s)
<1>6. Len(t) = m - 1 /\ \A i \in 1 .. m - 1 : t[i] = IF i < p THEN s[i] ELSE s[i + 1]
  <2>1. p \in DOMAIN s
    BY ONLY <1>5
  <2>2. /\ Len(RemoveAt(s, p)) = Len(s) - 1
        /\ \A i \in 1 .. Len(s) - 1 : RemoveAt(s, p)[i] = IF i < p THEN s[i] ELSE s[i + 1]
    BY ONLY <1>1, <2>1, RemoveAtIs
  <2> QED
    BY ONLY <1>2, <2>2
<1>7. /\ rest \in Seq(RecIds) /\ Len(rest) = m - 1
      /\ \A i \in 1 .. m - 1 : rest[i] = IF i < p THEN ids[i] ELSE ids[i + 1]
  <2>1. ids \in Seq(RecIds) /\ p \in DOMAIN ids
    BY ONLY <1>3, <1>5
  <2>2. /\ RemoveAt(ids, p) \in Seq(RecIds) /\ Len(RemoveAt(ids, p)) = Len(ids) - 1
        /\ \A i \in 1 .. Len(ids) - 1 : RemoveAt(ids, p)[i] = IF i < p THEN ids[i] ELSE ids[i + 1]
    BY ONLY <2>1, RemoveAtIs
  <2> QED
    BY ONLY <1>2, <1>3, <2>2
<1>8. ASSUME NEW i \in 1 .. m - 1 PROVE rest[i] = now[t[i]].id
  <2>1. PICK k : k = IF i < p THEN i ELSE i + 1
    OBVIOUS
  <2>2. k \in 1 .. m /\ k # p
    BY ONLY <1>3, <1>5, <2>1, i \in 1 .. m - 1
  <2>3. rest[i] = ids[k] /\ t[i] = s[k]
    BY ONLY <1>6, <1>7, <2>1, i \in 1 .. m - 1
  <2>4. now[s[k]].id = cells[s[k]].id
    BY ONLY <1>2, <2>2, \A j \in 1 .. Len(s) : j # p => now[s[j]].id = cells[s[j]].id
  <2> QED
    BY ONLY <1>3, <2>2, <2>3, <2>4
<1>9. rest = IdsAt(now, t)
  <2>1. rest = [i \in 1 .. Len(rest) |-> rest[i]]
    BY ONLY <1>7, SeqIs
  <2>2. rest = [i \in 1 .. m - 1 |-> rest[i]]
    BY ONLY <1>7, <2>1
  <2> QED
    BY ONLY <1>6, <1>8, <2>2 DEF IdsAt
<1> QED
  BY ONLY <1>2, <1>4, <1>9 DEF RowHas

(* The first cell taken out of a list.                                     *)
ListPopped(cells, now, head, S, ids) ==
  \E rest : RowHas(now, cells[head].next, S \ {head}, rest) /\ Len(rest) = Len(ids) - 1

LEMMA HasPopped ==
  ASSUME NEW D, NEW cells \in [D -> CellEntries], NEW head, NEW S \in SUBSET D, NEW ids,
         RowHas(cells, head, S, ids), NEW x \in S, NEW now, Agree(cells, now, S \ {head})
  PROVE  ListPopped(cells, now, head, S, ids)
<1>1. PICK s : IsRow(cells, head, s, S) /\ ids = IdsAt(cells, s)
  BY ONLY RowHas(cells, head, S, ids) DEF RowHas
<1>2. /\ s \in Seq(S) /\ head = NextIn(s, 0)
      /\ \A i, j \in 1 .. Len(s) : s[i] = s[j] => i = j
      /\ \A c \in S : \E i \in 1 .. Len(s) : s[i] = c
  BY ONLY <1>1 DEF IsRow
<1>3. PICK m : m = Len(s)
  OBVIOUS
<1>4. /\ ids \in Seq(RecIds) /\ Len(ids) = m /\ m \in Nat
      /\ \A i \in 1 .. m : s[i] \in S
  BY ONLY <1>1, <1>2, <1>3, IdsAre, cells \in [D -> CellEntries], S \in SUBSET D
<1>5. m # 0
  BY ONLY <1>2, <1>3, <1>4, x \in S
<1>6. 1 \in 1 .. m /\ s[1] = head
  <2>1. 1 \in 1 .. m /\ 0 + 1 = 1
    BY ONLY <1>4, <1>5
  <2> QED
    BY ONLY <1>2, <1>3, <1>5, <2>1 DEF NextIn
<1>7. \A i \in 1 .. m : i # 1 => s[i] \in DOMAIN now /\ now[s[i]] = cells[s[i]]
  <2>1. \A c \in S \ {head} : c \in DOMAIN now /\ now[c] = cells[c]
    BY ONLY Agree(cells, now, S \ {head}) DEF Agree
  <2>2. \A i \in 1 .. m : i # 1 => s[i] # head
    BY ONLY <1>2, <1>3, <1>6
  <2> QED
    BY ONLY <1>4, <2>1, <2>2
<1>8. SkipsCell(cells, now, s, 1)
  <2>1. \A i \in 1 .. m : i # 1 - 1
    BY ONLY <1>4
  <2> QED
    BY ONLY <1>3, <1>7, <2>1 DEF SkipsCell
<1>9. RowHas(now, cells[head].next, S \ {head}, RemoveAt(ids, 1))
  <2>1. \A i \in 1 .. Len(s) : i # 1 => now[s[i]].id = cells[s[i]].id
    BY ONLY <1>3, <1>7
  <2>2. RowHas(now, IF 1 = 1 THEN cells[s[1]].next ELSE head, S \ {s[1]},
               RemoveAt(IdsAt(cells, s), 1))
    <3>1. 1 \in 1 .. Len(s)
      BY ONLY <1>3, <1>6
    <3> QED
      BY ONLY <1>1, <1>8, <2>1, <3>1, cells \in [D -> CellEntries], S \in SUBSET D, HasUnlinked
  <2> QED
    BY ONLY <1>1, <1>6, <2>2
<1>10. Len(RemoveAt(ids, 1)) = Len(ids) - 1
  <2>1. 1 \in DOMAIN ids
    BY ONLY <1>4, <1>6
  <2> QED
    BY ONLY <1>4, <2>1, RemoveAtIs
<1> QED
  BY ONLY <1>9, <1>10 DEF ListPopped

-----------------------------------------------------------------------------
(***************************************************************************)
(* A page that holds a leaf: own says of each of its n cells whose list it *)
(* is in, {} for the free list and {key} for that of a key.                *)
(***************************************************************************)
HeadEntries == [key : Keys, head : Int]
Owned(own, who) == {c \in DOMAIN own : own[c] = who}

Laid(heads, cells, n, first, own, keys, free) ==
  /\ n \in Nat /\ HeaderSize <= Offset(n)
  /\ cells \in [CellsUpTo(n) -> CellEntries] /\ DOMAIN own = CellsUpTo(n)
  /\ heads \in Seq(HeadEntries) /\ keys \in Seq(KeyEntries) /\ Len(heads) = Len(keys)
  /\ \A i, j \in 1 .. Len(keys) : i < j => keys[i].key < keys[j].key
  /\ \A i \in 1 .. Len(keys) :
       /\ heads[i].key = keys[i].key
       /\ RowHas(cells, heads[i].head, Owned(own, {keys[i].key}), keys[i].ids)
  /\ \A c \in CellsUpTo(n) : own[c] = {} \/ \E i \in 1 .. Len(keys) : own[c] = {keys[i].key}
  /\ \E ids : RowHas(cells, first, Owned(own, {}), ids) /\ Len(ids) = free

LEMMA HeadIs ==
  ASSUME NEW heads \in Seq(HeadEntries)
  PROVE  /\ Len(heads) \in Nat /\ DOMAIN heads = 1 .. Len(heads)
         /\ \A i \in 1 .. Len(heads) :
              /\ heads[i] = [key |-> heads[i].key, head |-> heads[i].head]
              /\ heads[i].key \in Keys /\ heads[i].head \in Int /\ heads[i] \in HeadEntries
<1>1. \A i \in 1 .. Len(heads) : heads[i] \in HeadEntries
  BY SeqIs
<1>2. \A h \in HeadEntries : h = [key |-> h.key, head |-> h.head] /\ h.key \in Keys /\ h.head \in Int
  BY DEF HeadEntries
<1>3. Len(heads) \in Nat /\ DOMAIN heads = 1 .. Len(heads)
  BY SeqIs
<1> QED
  BY ONLY <1>1, <1>2, <1>3

LEMMA KeysAre ==
  ASSUME NEW keys \in Seq(KeyEntries)
  PROVE  /\ Len(keys) \in Nat /\ DOMAIN keys = 1 .. Len(keys)
         /\ \A i \in 1 .. Len(keys) :
              /\ keys[i] = KeyEntry(keys[i].key, keys[i].ids) /\ keys[i] \in KeyEntries
              /\ keys[i].key \in Keys /\ keys[i].key \in Int /\ keys[i].ids \in Seq(RecIds)
<1>1. \A i \in 1 .. Len(keys) : keys[i] \in KeyEntries
  BY SeqIs
<1>2. \A e \in KeyEntries :
        e = KeyEntry(e.key, e.ids) /\ e.key \in Keys /\ e.key \in Int /\ e.ids \in Seq(RecIds)
  <2>1. \A e \in KeyEntries : e = KeyEntry(e.key, e.ids)
    BY ONLY DEF KeyEntries, KeyEntry
  <2>2. \A e \in KeyEntries : e.key \in Keys /\ e.ids \in Seq(RecIds)
    BY ONLY DEF KeyEntries
  <2> QED
    BY ONLY <2>1, <2>2, LeafAssumption
<1>3. Len(keys) \in Nat /\ DOMAIN keys = 1 .. Len(keys)
  BY SeqIs
<1> QED
  BY ONLY <1>1, <1>2, <1>3

LEMMA LaidIs ==
  ASSUME NEW heads, NEW cells, NEW n, NEW first, NEW own, NEW keys, NEW free,
         Laid(heads, cells, n, first, own, keys, free)
  PROVE  /\ Len(keys) \in Nat /\ DOMAIN keys = 1 .. Len(keys) /\ DOMAIN heads = 1 .. Len(keys)
         /\ \A i \in 1 .. Len(keys) : keys[i].key \in Keys /\ keys[i].key \in Int
         /\ \A i, j \in 1 .. Len(keys) : keys[i].key = keys[j].key => i = j
         /\ CellsUpTo(n) \in SUBSET Int /\ AM_NULL \notin CellsUpTo(n)
         /\ first \in Int /\ free \in Nat /\ (first = AM_NULL <=> free = 0)
         /\ first # AM_NULL => first \in Owned(own, {})
         /\ \A who : Owned(own, who) \subseteq CellsUpTo(n)
         /\ \A c \in CellsUpTo(n) : cells[c].next \in Int /\ cells[c].id \in RecIds
<1>1. /\ n \in Nat /\ HeaderSize <= Offset(n)
      /\ cells \in [CellsUpTo(n) -> CellEntries] /\ DOMAIN own = CellsUpTo(n)
      /\ heads \in Seq(HeadEntries) /\ keys \in Seq(KeyEntries) /\ Len(heads) = Len(keys)
      /\ \A i, j \in 1 .. Len(keys) : i < j => keys[i].key < keys[j].key
      /\ \E ids : RowHas(cells, first, Owned(own, {}), ids) /\ Len(ids) = free
  BY ONLY Laid(heads, cells, n, first, own, keys, free) DEF Laid
<1>2. /\ Len(keys) \in Nat /\ DOMAIN keys = 1 .. Len(keys) /\ DOMAIN heads = 1 .. Len(keys)
      /\ \A i \in 1 .. Len(keys) : keys[i].key \in Keys /\ keys[i].key \in Int
  BY ONLY <1>1, HeadIs, KeysAre
<1>3. \A i, j \in 1 .. Len(keys) : keys[i].key = keys[j].key => i = j
  <2>1. \A i, j \in 1 .. Len(keys) : i < j \/ i = j \/ j < i
    BY ONLY <1>2
  <2> QED
    BY ONLY <1>1, <1>2, <2>1
<1>4. CellsUpTo(n) \in SUBSET Int /\ AM_NULL \notin CellsUpTo(n)
  BY ONLY <1>1, CellsAre
<1>5. \A who : Owned(own, who) \subseteq CellsUpTo(n)
  BY ONLY <1>1 DEF Owned
<1>6. /\ first \in Int /\ free \in Nat /\ (first = AM_NULL <=> free = 0)
      /\ first # AM_NULL => first \in Owned(own, {})
  <2>1. PICK ids : RowHas(cells, first, Owned(own, {}), ids) /\ Len(ids) = free
    BY ONLY <1>1
  <2>2. PICK S : S = Owned(own, {})
    OBVIOUS
  <2>3. /\ ids \in Seq(RecIds) /\ (ids = <<>> <=> S = {})
        /\ (S = {} => first = AM_NULL) /\ (S # {} => first \in S)
    BY ONLY <1>1, <2>1, <2>2, HasIds
  <2>4. free \in Nat /\ (free = 0 <=> ids = <<>>)
    BY ONLY <2>1, <2>3
  <2>5. AM_NULL \in Int
    BY ONLY DEF AM_NULL
  <2> QED
    BY ONLY <1>4, <1>5, <2>2, <2>3, <2>4, <2>5
<1>7. \A c \in CellsUpTo(n) : cells[c].next \in Int /\ cells[c].id \in RecIds
  <2>1. \A e \in CellEntries : e.next \in Int /\ e.id \in RecIds
    BY ONLY DEF CellEntries
  <2> QED
    BY ONLY <1>1, <2>1
<1> QED
  BY ONLY <1>2, <1>3, <1>4, <1>5, <1>6, <1>7

(* A key without record ids, put in at its place.                          *)
LEMMA KeyAdded ==
  ASSUME NEW heads, NEW cells, NEW n, NEW first, NEW own, NEW keys, NEW free,
         Laid(heads, cells, n, first, own, keys, free),
         NEW key \in Keys, NEW p, Between(keys, p, key)
  PROVE  /\ Laid(InsertAt(heads, p, [key |-> key, head |-> AM_NULL]), cells, n, first, own,
                 InsertAt(keys, p, KeyEntry(key, <<>>)), free)
         /\ Len(InsertAt(heads, p, [key |-> key, head |-> AM_NULL])) = Len(heads) + 1
<1>1. PICK m, head, entry, hs, ks :
        /\ m = Len(keys) /\ head = [key |-> key, head |-> AM_NULL] /\ entry = KeyEntry(key, <<>>)
        /\ hs = InsertAt(heads, p, head) /\ ks = InsertAt(keys, p, entry)
  OBVIOUS
<1>2. /\ n \in Nat /\ HeaderSize <= Offset(n)
      /\ cells \in [CellsUpTo(n) -> CellEntries] /\ DOMAIN own = CellsUpTo(n)
      /\ heads \in Seq(HeadEntries) /\ keys \in Seq(KeyEntries) /\ Len(heads) = m
      /\ \A i, j \in 1 .. m : i < j => keys[i].key < keys[j].key
      /\ \A i \in 1 .. m :
           /\ heads[i].key = keys[i].key
           /\ RowHas(cells, heads[i].head, Owned(own, {keys[i].key}), keys[i].ids)
      /\ \A c \in CellsUpTo(n) : own[c] = {} \/ \E i \in 1 .. m : own[c] = {keys[i].key}
      /\ \E ids : RowHas(cells, first, Owned(own, {}), ids) /\ Len(ids) = free
  BY ONLY <1>1, Laid(heads, cells, n, first, own, keys, free) DEF Laid
<1>3. m \in Nat /\ \A i \in 1 .. m : keys[i].key \in Int
  BY ONLY <1>1, <1>2, KeysAre
<1>4. /\ p \in 1 .. m + 1
      /\ \A i \in 1 .. m : (i < p => keys[i].key < key) /\ (i >= p => keys[i].key > key)
  BY ONLY <1>1, Between(keys, p, key) DEF Between
<1>5. key \in Int
  BY ONLY key \in Keys, LeafAssumption
<1>6. head \in HeadEntries /\ head.key = key /\ head.head = AM_NULL
  BY ONLY <1>1, key \in Keys DEF HeadEntries, AM_NULL
<1>7. entry \in KeyEntries /\ entry.key = key /\ entry.ids = <<>>
  <2>1. <<>> \in Seq(RecIds)
    OBVIOUS
  <2> QED
    BY ONLY <1>1, <2>1, key \in Keys DEF KeyEntries, KeyEntry
<1>8. /\ hs \in Seq(HeadEntries) /\ Len(hs) = m + 1
      /\ \A i \in 1 .. m + 1 : hs[i] = IF i < p THEN heads[i] ELSE IF i = p THEN head ELSE heads[i - 1]
  <2>1. p \in 1 .. Len(heads) + 1 /\ heads \in Seq(HeadEntries) /\ head \in HeadEntries
    BY ONLY <1>2, <1>4, <1>6
  <2>2. /\ InsertAt(heads, p, head) \in Seq(HeadEntries)
        /\ Len(InsertAt(heads, p, head)) = Len(heads) + 1
        /\ \A i \in 1 .. Len(heads) + 1 :
             InsertAt(heads, p, head)[i] = IF i < p THEN heads[i] ELSE IF i = p THEN head ELSE heads[i - 1]
    BY ONLY <2>1, InsertAtIs
  <2> QED
    BY ONLY <1>1, <1>2, <2>2
<1>9. /\ ks \in Seq(KeyEntries) /\ Len(ks) = m + 1
      /\ \A i \in 1 .. m + 1 : ks[i] = IF i < p THEN keys[i] ELSE IF i = p THEN entry ELSE keys[i - 1]
  <2>1. p \in 1 .. Len(keys) + 1 /\ keys \in Seq(KeyEntries) /\ entry \in KeyEntries
    BY ONLY <1>1, <1>2, <1>4, <1>7
  <2>2. /\ InsertAt(keys, p, entry) \in Seq(KeyEntries)
        /\ Len(InsertAt(keys, p, entry)) = Len(keys) + 1
        /\ \A i \in 1 .. Len(keys) + 1 :
             InsertAt(keys, p, entry)[i] = IF i < p THEN keys[i] ELSE IF i = p THEN entry ELSE keys[i - 1]
    BY ONLY <2>1, InsertAtIs
  <2> QED
    BY ONLY <1>1, <2>2
<1>10. ASSUME NEW i \in 1 .. m + 1
       PROVE  /\ i < p => i \in 1 .. m /\ ks[i] = keys[i] /\ hs[i] = heads[i]
              /\ i = p => ks[i] = entry /\ hs[i] = head
              /\ i > p => i - 1 \in 1 .. m /\ i - 1 >= p /\ ks[i] = keys[i - 1] /\ hs[i] = heads[i - 1]
              /\ i < p \/ i = p \/ i > p
  <2>1. /\ i < p => i \in 1 .. m
        /\ i > p => i - 1 \in 1 .. m /\ i - 1 >= p /\ ~(i < p) /\ i # p
        /\ i = p => ~(i < p)
        /\ i < p \/ i = p \/ i > p
    BY ONLY <1>3, <1>4, i \in 1 .. m + 1
  <2> QED
    BY ONLY <1>8, <1>9, <2>1, i \in 1 .. m + 1
<1>11. ASSUME NEW i \in 1 .. m + 1, NEW j \in 1 .. m + 1, i < j PROVE ks[i].key < ks[j].key
  <2>1. CASE i < p /\ j < p
    BY ONLY <1>2, <1>10, <1>11, <2>1
  <2>2. CASE i < p /\ j = p
    BY ONLY <1>4, <1>7, <1>10, <2>2
  <2>3. CASE i < p /\ j > p
    <3>1. i < j - 1
      BY ONLY <1>3, <1>4, <1>11, <2>3, i \in 1 .. m + 1, j \in 1 .. m + 1
    <3> QED
      BY ONLY <1>2, <1>10, <2>3, <3>1
  <2>4. CASE i = p /\ j > p
    <3>1. keys[j - 1].key > key /\ keys[j - 1].key \in Int
      BY ONLY <1>3, <1>4, <1>10, <2>4
    <3> QED
      BY ONLY <1>5, <1>7, <1>10, <2>4, <3>1
  <2>5. CASE i > p /\ j > p
    <3>1. i - 1 < j - 1
      BY ONLY <1>3, <1>11, i \in 1 .. m + 1, j \in 1 .. m + 1
    <3>2. i - 1 \in 1 .. m /\ ks[i] = keys[i - 1] /\ j - 1 \in 1 .. m /\ ks[j] = keys[j - 1]
      BY ONLY <1>10, <2>5
    <3>3. keys[i - 1].key < keys[j - 1].key
      BY ONLY <1>2, <3>1, <3>2
    <3> QED
      BY ONLY <3>2, <3>3
  <2>6. \/ (i < p /\ j < p) \/ (i < p /\ j = p) \/ (i < p /\ j > p)
        \/ (i = p /\ j > p) \/ (i > p /\ j > p)
    <3>1. i \in Int /\ j \in Int /\ p \in Int
      BY ONLY <1>3, <1>4, i \in 1 .. m + 1, j \in 1 .. m + 1
    <3> QED
      BY ONLY <1>11, <3>1
  <2> QED
    BY ONLY <2>1, <2>2, <2>3, <2>4, <2>5, <2>6
<1>12. Owned(own, {key}) = {}
  <2>1. \A i \in 1 .. m : keys[i].key # key
    BY ONLY <1>3, <1>4, <1>5
  <2>2. ASSUME NEW c \in CellsUpTo(n) PROVE own[c] # {key}
    <3>1. own[c] = {} \/ \E i \in 1 .. m : own[c] = {keys[i].key}
      BY ONLY <1>2, c \in CellsUpTo(n)
    <3>2. ASSUME NEW i \in 1 .. m PROVE {keys[i].key} # {key}
      <4>1. keys[i].key # key
        BY ONLY <2>1, i \in 1 .. m
      <4> QED
        BY ONLY <4>1
    <3>3. {} # {key}
      OBVIOUS
    <3> QED
      BY ONLY <3>1, <3>2, <3>3
  <2> QED
    BY ONLY <1>2, <2>2 DEF Owned
<1>13. ASSUME NEW i \in 1 .. m + 1
       PROVE  hs[i].key = ks[i].key /\ RowHas(cells, hs[i].head, Owned(own, {ks[i].key}), ks[i].ids)
  <2>1. CASE i = p
    <3>1. RowHas(cells, AM_NULL, {}, <<>>)
      <4>1. IsRow(cells, AM_NULL, <<>>, {})
        BY ONLY RowOfNone
      <4>2. IdsAt(cells, <<>>) = <<>>
        BY ONLY DEF IdsAt
      <4> QED
        BY ONLY <4>1, <4>2 DEF RowHas
    <3> QED
      BY ONLY <1>6, <1>7, <1>10, <1>12, <2>1, <3>1
  <2>2. CASE i < p
    <3>1. i \in 1 .. m /\ ks[i] = keys[i] /\ hs[i] = heads[i]
      BY ONLY <1>10, <2>2
    <3> QED
      BY ONLY <1>2, <3>1
  <2>3. CASE i > p
    <3>1. i - 1 \in 1 .. m /\ ks[i] = keys[i - 1] /\ hs[i] = heads[i - 1]
      BY ONLY <1>10, <2>3
    <3> QED
      BY ONLY <1>2, <3>1
  <2> QED
    BY ONLY <1>10, <2>1, <2>2, <2>3
<1>14. ASSUME NEW c \in CellsUpTo(n)
       PROVE  own[c] = {} \/ \E i \in 1 .. m + 1 : own[c] = {ks[i].key}
  <2>1. CASE own[c] = {}
    BY ONLY <2>1
  <2>2. CASE own[c] # {}
    <3>1. PICK i \in 1 .. m : own[c] = {keys[i].key}
      BY ONLY <1>2, <2>2, c \in CellsUpTo(n)
    <3>2. CASE i < p
      <4>1. i \in 1 .. m + 1
        BY ONLY <1>3, i \in 1 .. m
      <4> QED
        BY ONLY <1>10, <3>1, <3>2, <4>1
    <3>3. CASE ~(i < p)
      <4>1. i + 1 \in 1 .. m + 1 /\ i + 1 > p /\ (i + 1) - 1 = i
        BY ONLY <1>3, <1>4, <3>3, i \in 1 .. m
      <4>2. ks[i + 1] = keys[i]
        BY ONLY <1>10, <4>1
      <4> QED
        BY ONLY <3>1, <4>1, <4>2
    <3> QED
      BY ONLY <3>2, <3>3
  <2> QED
    BY ONLY <2>1, <2>2
<1>15. Laid(hs, cells, n, first, own, ks, free)
  <2>1. Len(ks) = m + 1 /\ Len(hs) = Len(ks)
    BY ONLY <1>8, <1>9
  <2> QED
    BY ONLY <1>2, <1>8, <1>9, <1>11, <1>13, <1>14, <2>1 DEF Laid
<1> QED
  BY ONLY <1>1, <1>2, <1>8, <1>15

(* A key without record ids taken out.                                     *)
LEMMA KeyDropped ==
  ASSUME NEW heads, NEW cells, NEW n, NEW first, NEW own, NEW keys, NEW free,
         Laid(heads, cells, n, first, own, keys, free),
         NEW p \in 1 .. Len(keys), keys[p].ids = <<>>
  PROVE  /\ Laid(RemoveAt(heads, p), cells, n, first, own, RemoveAt(keys, p), free)
         /\ Len(RemoveAt(heads, p)) = Len(heads) - 1
<1>1. PICK m, hs, ks : m = Len(keys) /\ hs = RemoveAt(heads, p) /\ ks = RemoveAt(keys, p)
  OBVIOUS
<1>2. /\ n \in Nat /\ HeaderSize <= Offset(n)
      /\ cells \in [CellsUpTo(n) -> CellEntries] /\ DOMAIN own = CellsUpTo(n)
      /\ heads \in Seq(HeadEntries) /\ keys \in Seq(KeyEntries) /\ Len(heads) = m
      /\ \A i, j \in 1 .. m : i < j => keys[i].key < keys[j].key
      /\ \A i \in 1 .. m :
           /\ heads[i].key = keys[i].key
           /\ RowHas(cells, heads[i].head, Owned(own, {keys[i].key}), keys[i].ids)
      /\ \A c \in CellsUpTo(n) : own[c] = {} \/ \E i \in 1 .. m : own[c] = {keys[i].key}
      /\ \E ids : RowHas(cells, first, Owned(own, {}), ids) /\ Len(ids) = free
  BY ONLY <1>1, Laid(heads, cells, n, first, own, keys, free) DEF Laid
<1>3. m \in Nat /\ p \in 1 .. m /\ p \in DOMAIN heads /\ p \in DOMAIN keys
  <2>1. Len(keys) \in Nat /\ DOMAIN heads = 1 .. m /\ DOMAIN keys = 1 .. m
    BY ONLY <1>1, Laid(heads, cells, n, first, own, keys, free), LaidIs
  <2> QED
    BY ONLY <1>1, <2>1, p \in 1 .. Len(keys)
<1>4. /\ hs \in Seq(HeadEntries) /\ Len(hs) = m - 1
      /\ \A i \in 1 .. m - 1 : hs[i] = IF i < p THEN heads[i] ELSE heads[i + 1]
  <2>1. heads \in Seq(HeadEntries) /\ p \in DOMAIN heads
    BY ONLY <1>2, <1>3
  <2>2. /\ RemoveAt(heads, p) \in Seq(HeadEntries) /\ Len(RemoveAt(heads, p)) = Len(heads) - 1
        /\ \A i \in 1 .. Len(heads) - 1 :
             RemoveAt(heads, p)[i] = IF i < p THEN heads[i] ELSE heads[i + 1]
    BY ONLY <2>1, RemoveAtIs
  <2> QED
    BY ONLY <1>1, <1>2, <2>2
<1>5. /\ ks \in Seq(KeyEntries) /\ Len(ks) = m - 1
      /\ \A i \in 1 .. m - 1 : ks[i] = IF i < p THEN keys[i] ELSE keys[i + 1]
  <2>1. keys \in Seq(KeyEntries) /\ p \in DOMAIN keys
    BY ONLY <1>2, <1>3
  <2>2. /\ RemoveAt(keys, p) \in Seq(KeyEntries) /\ Len(RemoveAt(keys, p)) = Len(keys) - 1
        /\ \A i \in 1 .. Len(keys) - 1 :
             RemoveAt(keys, p)[i] = IF i < p THEN keys[i] ELSE keys[i + 1]
    BY ONLY <2>1, RemoveAtIs
  <2> QED
    BY ONLY <1>1, <2>2
<1> DEFINE Old(i) == IF i < p THEN i ELSE i + 1
<1>6. ASSUME NEW i \in 1 .. m - 1
      PROVE  Old(i) \in 1 .. m /\ ks[i] = keys[Old(i)] /\ hs[i] = heads[Old(i)]
  BY ONLY <1>3, <1>4, <1>5, i \in 1 .. m - 1
<1>7. \A i, j \in 1 .. m - 1 : i < j => Old(i) < Old(j)
  BY ONLY <1>3
<1>8. Owned(own, {keys[p].key}) = {}
  <2>1. RowHas(cells, heads[p].head, Owned(own, {keys[p].key}), <<>>)
    BY ONLY <1>2, <1>3, keys[p].ids = <<>>
  <2> QED
    BY ONLY <1>2, <2>1, HasIds
<1>9. ASSUME NEW c \in CellsUpTo(n)
      PROVE  own[c] = {} \/ \E i \in 1 .. m - 1 : own[c] = {ks[i].key}
  <2>1. CASE own[c] = {}
    BY ONLY <2>1
  <2>2. CASE own[c] # {}
    <3>1. PICK i \in 1 .. m : own[c] = {keys[i].key}
      BY ONLY <1>2, <2>2, c \in CellsUpTo(n)
    <3>2. i # p
      BY ONLY <1>2, <1>8, <3>1, c \in CellsUpTo(n) DEF Owned
    <3>3. PICK k : k = IF i < p THEN i ELSE i - 1
      OBVIOUS
    <3>4. k \in 1 .. m - 1 /\ Old(k) = i
      BY ONLY <1>3, <3>2, <3>3, i \in 1 .. m
    <3>5. ks[k] = keys[i]
      <4> HIDE DEF Old
      <4> QED
        BY ONLY <1>6, <3>4
    <3> QED
      BY ONLY <3>1, <3>4, <3>5
  <2> QED
    BY ONLY <2>1, <2>2
<1> HIDE DEF Old
<1>10. ASSUME NEW i \in 1 .. m - 1, NEW j \in 1 .. m - 1, i < j PROVE ks[i].key < ks[j].key
  <2>1. Old(i) < Old(j) /\ Old(i) \in 1 .. m /\ Old(j) \in 1 .. m
    BY ONLY <1>6, <1>7, <1>10
  <2>2. ks[i] = keys[Old(i)] /\ ks[j] = keys[Old(j)]
    BY ONLY <1>6
  <2> QED
    BY ONLY <1>2, <2>1, <2>2
<1>11. \A i \in 1 .. m - 1 :
         hs[i].key = ks[i].key /\ RowHas(cells, hs[i].head, Owned(own, {ks[i].key}), ks[i].ids)
  BY ONLY <1>2, <1>6
<1>12. Laid(hs, cells, n, first, own, ks, free)
  <2>1. Len(ks) = m - 1 /\ Len(hs) = Len(ks)
    BY ONLY <1>4, <1>5
  <2> QED
    BY ONLY <1>2, <1>4, <1>5, <1>9, <1>10, <1>11, <2>1 DEF Laid
<1> QED
  BY ONLY <1>1, <1>2, <1>4, <1>12

(* A cell, a new one or a free one, in front of the list of a key.         *)
LEMMA CellGiven ==
  ASSUME NEW heads, NEW cells, NEW n, NEW first, NEW own, NEW keys, NEW free,
         Laid(heads, cells, n, first, own, keys, free),
         NEW p \in 1 .. Len(keys), NEW id \in RecIds,
         NEW cell \in Int, NEW n2 \in Nat, HeaderSize <= Offset(n2),
         CellsUpTo(n2) = CellsUpTo(n) \cup {cell}, cell \in CellsUpTo(n) => own[cell] = {},
         NEW now, now = WithCell(cells, cell, id, heads[p].head),
         NEW first2, NEW ids2, RowHas(now, first2, Owned(own, {}) \ {cell}, ids2)
  PROVE  \E own2 : Laid([heads EXCEPT ![p].head = cell], now, n2, first2, own2,
                        WithId(keys, p, id), Len(ids2))
<1>1. PICK m, hs, ks, own2, D :
        /\ m = Len(keys) /\ hs = [heads EXCEPT ![p].head = cell] /\ ks = WithId(keys, p, id)
        /\ own2 = [c \in CellsUpTo(n2) |-> IF c = cell THEN {keys[p].key} ELSE own[c]]
        /\ D = CellsUpTo(n)
  OBVIOUS
<1>2. /\ n \in Nat /\ HeaderSize <= Offset(n)
      /\ cells \in [D -> CellEntries] /\ DOMAIN own = D
      /\ heads \in Seq(HeadEntries) /\ keys \in Seq(KeyEntries) /\ Len(heads) = m
      /\ \A i, j \in 1 .. m : i < j => keys[i].key < keys[j].key
      /\ \A i \in 1 .. m :
           /\ heads[i].key = keys[i].key
           /\ RowHas(cells, heads[i].head, Owned(own, {keys[i].key}), keys[i].ids)
      /\ \A c \in D : own[c] = {} \/ \E i \in 1 .. m : own[c] = {keys[i].key}
  BY ONLY <1>1, Laid(heads, cells, n, first, own, keys, free) DEF Laid
<1>3. /\ m \in Nat /\ DOMAIN keys = 1 .. m /\ DOMAIN heads = 1 .. m
      /\ \A i, j \in 1 .. m : keys[i].key = keys[j].key => i = j
      /\ \A who : Owned(own, who) \subseteq D
  BY ONLY <1>1, Laid(heads, cells, n, first, own, keys, free), LaidIs
<1>4. \A i \in 1 .. m : /\ keys[i] = KeyEntry(keys[i].key, keys[i].ids)
                        /\ keys[i].key \in Keys /\ keys[i].ids \in Seq(RecIds)
  BY ONLY <1>1, <1>2, KeysAre
<1>5. \A i \in 1 .. m : /\ heads[i] = [key |-> heads[i].key, head |-> heads[i].head]
                        /\ heads[i].key \in Keys /\ heads[i].head \in Int
  BY ONLY <1>2, HeadIs
<1>6. p \in 1 .. m
  BY ONLY <1>1, p \in 1 .. Len(keys)
<1>7. DOMAIN own2 = D \cup {cell} /\ \A c \in D \cup {cell} : own2[c] = IF c = cell THEN {keys[p].key} ELSE own[c]
  BY ONLY <1>1, CellsUpTo(n2) = CellsUpTo(n) \cup {cell}
<1>8. /\ DOMAIN now = D \cup {cell} /\ now[cell] = [id |-> id, next |-> heads[p].head]
      /\ \A c \in D : c # cell => now[c] = cells[c]
  <2>1. DOMAIN cells = D
    BY ONLY <1>2
  <2> QED
    BY ONLY <2>1, now = WithCell(cells, cell, id, heads[p].head) DEF WithCell
<1>9. now \in [CellsUpTo(n2) -> CellEntries]
  <2>1. now[cell] \in CellEntries
    <3>1. heads[p].head \in Int
      BY ONLY <1>5, <1>6
    <3> QED
      BY ONLY <1>8, <3>1, id \in RecIds DEF CellEntries
  <2>2. \A c \in D \cup {cell} : now[c] \in CellEntries
    BY ONLY <1>2, <1>8, <2>1
  <2>3. now = [c \in D \cup {cell} |-> now[c]]
    <3>1. now = [c \in DOMAIN now |-> now[c]]
      BY ONLY now = WithCell(cells, cell, id, heads[p].head) DEF WithCell
    <3> QED
      BY ONLY <1>8, <3>1
  <2> QED
    BY ONLY <1>1, <2>2, <2>3, CellsUpTo(n2) = CellsUpTo(n) \cup {cell}
<1>10. /\ Len(hs) = m /\ hs \in Seq(HeadEntries)
       /\ \A i \in 1 .. m : hs[i].key = heads[i].key /\ hs[i].head = IF i = p THEN cell ELSE heads[i].head
  <2>1. DOMAIN hs = 1 .. m /\ \A i \in 1 .. m : i # p => hs[i] = heads[i]
    BY ONLY <1>1, <1>3
  <2>2. hs[p] = [key |-> heads[p].key, head |-> cell]
    <3>1. hs[p] = [heads[p] EXCEPT !.head = cell]
      BY ONLY <1>1, <1>3, <1>6
    <3> QED
      BY ONLY <1>5, <1>6, <3>1
  <2>3. \A i \in 1 .. m : hs[i] \in HeadEntries
    <3>1. \A i \in 1 .. m : heads[i] \in HeadEntries
      BY ONLY <1>2, HeadIs
    <3>2. hs[p] \in HeadEntries
      <4>1. heads[p].key \in Keys
        BY ONLY <1>5, <1>6
      <4> QED
        BY ONLY <2>2, <4>1, cell \in Int DEF HeadEntries
    <3> QED
      BY ONLY <2>1, <3>1, <3>2
  <2>4. hs \in Seq(HeadEntries) /\ Len(hs) = m
    <3>1. hs = [i \in 1 .. m |-> hs[i]]
      BY ONLY <1>1, <1>3
    <3>2. hs \in [1 .. m -> HeadEntries]
      BY ONLY <2>3, <3>1
    <3> QED
      BY ONLY <1>3, <3>2
  <2> QED
    BY ONLY <2>1, <2>2, <2>4
<1>11. /\ Len(ks) = m /\ ks \in Seq(KeyEntries)
       /\ \A i \in 1 .. m : /\ ks[i].key = keys[i].key
                            /\ ks[i].ids = IF i = p THEN <<id>> \o keys[i].ids ELSE keys[i].ids
  <2>1. PICK more : more = <<id>> \o keys[p].ids
    OBVIOUS
  <2>2. more \in Seq(RecIds)
    <3>1. <<id>> \in Seq(RecIds) /\ keys[p].ids \in Seq(RecIds)
      BY ONLY <1>4, <1>6, id \in RecIds
    <3> QED
      BY ONLY <2>1, <3>1, ConcatIs
  <2>3. ks = [keys EXCEPT ![p].ids = more]
    BY ONLY <1>1, <2>1 DEF WithId
  <2>4. DOMAIN ks = 1 .. m /\ \A i \in 1 .. m : i # p => ks[i] = keys[i]
    BY ONLY <1>3, <2>3
  <2>5. ks[p] = KeyEntry(keys[p].key, more)
    <3>1. ks[p] = [keys[p] EXCEPT !.ids = more]
      BY ONLY <1>3, <1>6, <2>3
    <3> QED
      BY ONLY <1>4, <1>6, <3>1 DEF KeyEntry
  <2>6. \A i \in 1 .. m : ks[i] \in KeyEntries
    <3>1. \A i \in 1 .. m : keys[i] \in KeyEntries
      BY ONLY <1>1, <1>2, KeysAre
    <3>2. ks[p] \in KeyEntries
      BY ONLY <1>4, <1>6, <2>2, <2>5, EntryOf
    <3> QED
      BY ONLY <2>4, <3>1, <3>2
  <2>7. ks \in Seq(KeyEntries) /\ Len(ks) = m
    <3>1. ks = [i \in 1 .. m |-> ks[i]]
      BY ONLY <1>3, <2>3
    <3>2. ks \in [1 .. m -> KeyEntries]
      BY ONLY <2>6, <3>1
    <3> QED
      BY ONLY <1>3, <3>2
  <2>8. ks[p].key = keys[p].key /\ ks[p].ids = more
    BY ONLY <2>5 DEF KeyEntry
  <2> QED
    BY ONLY <2>1, <2>4, <2>7, <2>8
<1>12. \A i \in 1 .. m : cell \notin Owned(own, {keys[i].key})
  <2>1. \A i \in 1 .. m : {keys[i].key} # {}
    OBVIOUS
  <2> QED
    BY ONLY <1>1, <1>2, <2>1, cell \in CellsUpTo(n) => own[cell] = {} DEF Owned
<1>13. ASSUME NEW i \in 1 .. m
       PROVE  Owned(own2, {keys[i].key}) = IF i = p THEN Owned(own, {keys[p].key}) \cup {cell}
                                           ELSE Owned(own, {keys[i].key})
  <2>1. CASE i = p
    BY ONLY <1>2, <1>6, <1>7, <2>1 DEF Owned
  <2>2. CASE i # p
    <3>1. {keys[i].key} # {keys[p].key}
      BY ONLY <1>3, <1>6, <2>2
    <3>2. PICK w : w = {keys[i].key}
      OBVIOUS
    <3>3. cell \notin Owned(own, w) /\ DOMAIN own = D /\ w # {keys[p].key}
      BY ONLY <1>2, <1>12, <3>1, <3>2
    <3>4. Owned(own2, w) = Owned(own, w)
      BY ONLY <1>7, <3>3 DEF Owned
    <3> QED
      BY ONLY <2>2, <3>2, <3>4
  <2> QED
    BY ONLY <2>1, <2>2
<1>14. Owned(own2, {}) = Owned(own, {}) \ {cell}
  <2>1. {keys[p].key} # {}
    OBVIOUS
  <2> QED
    BY ONLY <1>2, <1>7, <2>1 DEF Owned
<1>15. ASSUME NEW i \in 1 .. m
       PROVE  RowHas(now, hs[i].head, Owned(own2, {ks[i].key}), ks[i].ids)
  <2>1. PICK S, head, ids : S = Owned(own, {keys[i].key}) /\ head = heads[i].head /\ ids = keys[i].ids
    OBVIOUS
  <2>2. RowHas(cells, head, S, ids) /\ S \subseteq D /\ cell \notin S
    BY ONLY <1>2, <1>3, <1>12, <2>1
  <2>3. Agree(cells, now, S)
    BY ONLY <1>8, <2>2 DEF Agree
  <2>4. CASE i = p
    <3>1. cell \in DOMAIN now /\ now[cell] = [id |-> id, next |-> head]
      BY ONLY <1>8, <2>1, <2>4
    <3>2. cells \in [D -> CellEntries]
      BY ONLY <1>2
    <3>3. RowHas(now, cell, S \cup {cell}, <<id>> \o ids)
      BY ONLY <2>2, <2>3, <3>1, <3>2, id \in RecIds, HasPushed
    <3> QED
      BY ONLY <1>6, <1>10, <1>11, <1>13, <2>1, <2>4, <3>3
  <2>5. CASE i # p
    <3>1. RowHas(now, head, S, ids)
      BY ONLY <1>2, <2>2, <2>3, HasKept
    <3> QED
      BY ONLY <1>10, <1>11, <1>13, <2>1, <2>5, <3>1
  <2> QED
    BY ONLY <2>4, <2>5
<1>16. \A c \in CellsUpTo(n2) : own2[c] = {} \/ \E i \in 1 .. m : own2[c] = {ks[i].key}
  <2>1. ASSUME NEW c \in D \cup {cell} PROVE own2[c] = {} \/ \E i \in 1 .. m : own2[c] = {ks[i].key}
    <3>1. CASE c = cell
      BY ONLY <1>6, <1>7, <1>11, <3>1
    <3>2. CASE c # cell
      <4>1. c \in D /\ own2[c] = own[c]
        BY ONLY <1>7, <3>2, c \in D \cup {cell}
      <4> QED
        BY ONLY <1>2, <1>11, <4>1
    <3> QED
      BY ONLY <3>1, <3>2
  <2> QED
    BY ONLY <1>1, <2>1, CellsUpTo(n2) = CellsUpTo(n) \cup {cell}
<1>17. \A i, j \in 1 .. m : i < j => ks[i].key < ks[j].key
  BY ONLY <1>2, <1>11
<1>18. Laid(hs, now, n2, first2, own2, ks, Len(ids2))
  <2>1. DOMAIN own2 = CellsUpTo(n2) /\ n2 \in Nat /\ HeaderSize <= Offset(n2)
    BY ONLY <1>1, n2 \in Nat, HeaderSize <= Offset(n2)
  <2>2. RowHas(now, first2, Owned(own2, {}), ids2)
    BY ONLY <1>14, RowHas(now, first2, Owned(own, {}) \ {cell}, ids2)
  <2>3. /\ hs \in Seq(HeadEntries) /\ ks \in Seq(KeyEntries) /\ Len(hs) = Len(ks)
        /\ \A i, j \in 1 .. Len(ks) : i < j => ks[i].key < ks[j].key
        /\ \A i \in 1 .. Len(ks) :
             /\ hs[i].key = ks[i].key
             /\ RowHas(now, hs[i].head, Owned(own2, {ks[i].key}), ks[i].ids)
        /\ \A c \in CellsUpTo(n2) : own2[c] = {} \/ \E i \in 1 .. Len(ks) : own2[c] = {ks[i].key}
    BY ONLY <1>2, <1>10, <1>11, <1>15, <1>16, <1>17
  <2> QED
    BY ONLY <1>9, <2>1, <2>2, <2>3 DEF Laid
<1> QED
  BY ONLY <1>1, <1>18

LEMMA CellTakenFrom ==
  ASSUME NEW heads, NEW cells, NEW n, NEW first, NEW own, NEW keys, NEW free,
         Laid(heads, cells, n, first, own, keys, free),
         NEW p \in 1 .. Len(keys), NEW id \in RecIds,
         first = AM_NULL => HeaderSize <= Offset(n + 1),
         NEW cell, cell = IF first = AM_NULL THEN Offset(n + 1) ELSE first
  PROVE  \E own2 :
           Laid([heads EXCEPT ![p].head = cell], WithCell(cells, cell, id, heads[p].head),
                IF first = AM_NULL THEN n + 1 ELSE n,
                IF first = AM_NULL THEN first ELSE cells[first].next, own2,
                WithId(keys, p, id), IF first = AM_NULL THEN free ELSE free - 1)
<1>1. PICK D, now, F : /\ D = CellsUpTo(n) /\ now = WithCell(cells, cell, id, heads[p].head)
                       /\ F = Owned(own, {})
  OBVIOUS
<1>2. /\ n \in Nat /\ HeaderSize <= Offset(n)
      /\ cells \in [D -> CellEntries] /\ DOMAIN own = D
  BY ONLY <1>1, Laid(heads, cells, n, first, own, keys, free) DEF Laid
<1>3. PICK ids : RowHas(cells, first, F, ids) /\ Len(ids) = free
  BY ONLY <1>1, Laid(heads, cells, n, first, own, keys, free) DEF Laid
<1>4. D \in SUBSET Int /\ first \in Int /\ (first # AM_NULL => first \in F) /\ F \subseteq D
  BY ONLY <1>1, Laid(heads, cells, n, first, own, keys, free), LaidIs
<1>5. \A c \in D : c # cell => c \in DOMAIN now /\ now[c] = cells[c]
  <2>1. DOMAIN cells = D
    BY ONLY <1>2
  <2> QED
    BY ONLY <1>1, <2>1 DEF WithCell
<1>6. CASE first = AM_NULL
  <2>1. /\ cell = Offset(n + 1) /\ n + 1 \in Nat /\ HeaderSize <= Offset(n + 1)
        /\ cell \in Int /\ CellsUpTo(n + 1) = D \cup {cell} /\ cell \notin D
    <3>1. cell = Offset(n + 1) /\ n + 1 \in Nat /\ HeaderSize <= Offset(n + 1)
      BY ONLY <1>2, <1>6, cell = IF first = AM_NULL THEN Offset(n + 1) ELSE first,
              first = AM_NULL => HeaderSize <= Offset(n + 1)
    <3>2. cell \in Int
      BY ONLY <3>1, OffsetIs
    <3> QED
      BY ONLY <1>1, <1>2, <3>1, <3>2, OneMoreCell
  <2>2. F \ {cell} = F
    BY ONLY <1>4, <2>1
  <2>3. RowHas(now, first, F \ {cell}, ids)
    <3>1. Agree(cells, now, F)
      BY ONLY <1>4, <1>5, <2>1 DEF Agree
    <3>2. RowHas(now, first, F, ids)
      BY ONLY <1>2, <1>3, <3>1, HasKept
    <3> QED
      BY ONLY <2>2, <3>2
  <2>4. PICK more : more = n + 1
    OBVIOUS
  <2>5. /\ more \in Nat /\ HeaderSize <= Offset(more) /\ CellsUpTo(more) = CellsUpTo(n) \cup {cell}
        /\ cell \in CellsUpTo(n) => own[cell] = {}
        /\ RowHas(now, first, Owned(own, {}) \ {cell}, ids) /\ cell \in Int
    BY ONLY <1>1, <2>1, <2>3, <2>4
  <2>6. \E own2 : Laid([heads EXCEPT ![p].head = cell], now, more, first, own2, WithId(keys, p, id), Len(ids))
    BY ONLY <1>1, <2>5, CellGiven, Laid(heads, cells, n, first, own, keys, free),
            p \in 1 .. Len(keys), id \in RecIds
  <2> QED
    BY ONLY <1>1, <1>3, <1>6, <2>4, <2>6
<1>7. CASE first # AM_NULL
  <2>1. cell = first /\ cell \in F /\ cell \in D /\ cell \in Int
    BY ONLY <1>4, <1>7, cell = IF first = AM_NULL THEN Offset(n + 1) ELSE first
  <2>2. PICK rest : RowHas(now, cells[first].next, F \ {first}, rest) /\ Len(rest) = Len(ids) - 1
    <3>1. Agree(cells, now, F \ {first})
      BY ONLY <1>4, <1>5, <2>1 DEF Agree
    <3>2. first \in F /\ cells \in [D -> CellEntries] /\ F \in SUBSET D
      BY ONLY <1>2, <1>4, <2>1
    <3>3. RowHas(cells, first, F, ids)
      BY ONLY <1>3
    <3>4. ListPopped(cells, now, first, F, ids)
      BY ONLY <3>1, <3>2, <3>3, HasPopped
    <3> QED
      BY ONLY <3>4 DEF ListPopped
  <2>3. /\ CellsUpTo(n) = CellsUpTo(n) \cup {cell} /\ (cell \in CellsUpTo(n) => own[cell] = {})
        /\ RowHas(now, cells[first].next, Owned(own, {}) \ {cell}, rest)
    <3>1. own[cell] = {}
      BY ONLY <1>1, <2>1 DEF Owned
    <3> QED
      BY ONLY <1>1, <2>1, <2>2, <3>1
  <2>4. \E own2 : Laid([heads EXCEPT ![p].head = cell], now, n, cells[first].next, own2,
                       WithId(keys, p, id), Len(rest))
    BY ONLY <1>1, <1>2, <2>1, <2>3, CellGiven, Laid(heads, cells, n, first, own, keys, free),
            p \in 1 .. Len(keys), id \in RecIds
  <2> QED
    BY ONLY <1>1, <1>3, <1>7, <2>2, <2>4
<1> QED
  BY ONLY <1>6, <1>7

(* The cell at m of the list of the key at p, put in front of the free     *)
(* list.                                                                   *)
Freed(cells, s, m, first) ==
  LET freed == [cells EXCEPT ![s[m]].next = first] IN
  IF m = 1 THEN freed ELSE [freed EXCEPT ![s[m - 1]].next = cells[s[m]].next]

Once(s) == \A i, j \in 1 .. Len(s) : s[i] = s[j] => i = j

LEMMA FreedIs ==
  ASSUME NEW D, NEW cells \in [D -> CellEntries], NEW s \in Seq(D), Once(s),
         NEW m \in 1 .. Len(s), NEW first \in Int,
         NEW now, now = Freed(cells, s, m, first)
  PROVE  /\ now \in [D -> CellEntries]
         /\ now[s[m]] = [id |-> cells[s[m]].id, next |-> first]
         /\ \A c \in D : (\A i \in 1 .. Len(s) : c # s[i]) => now[c] = cells[c]
         /\ SkipsCell(cells, now, s, m)
         /\ \A i \in 1 .. Len(s) : i # m => now[s[i]].id = cells[s[i]].id
<1>1. PICK c, freed : c = s[m] /\ freed = [cells EXCEPT ![c].next = first]
  OBVIOUS
<1>2. Len(s) \in Nat /\ \A i \in 1 .. Len(s) : s[i] \in D
  BY ONLY s \in Seq(D), SeqIs
<1>3. \A e \in CellEntries : /\ e = [id |-> e.id, next |-> e.next]
                             /\ e.id \in RecIds /\ e.next \in Int
  BY ONLY DEF CellEntries
<1>4. \A e \in CellEntries, x \in Int :
        [e EXCEPT !.next = x] = [id |-> e.id, next |-> x] /\ [id |-> e.id, next |-> x] \in CellEntries
  BY ONLY DEF CellEntries
<1>5. /\ freed \in [D -> CellEntries] /\ freed[c] = [id |-> cells[c].id, next |-> first]
      /\ \A d \in D : d # c => freed[d] = cells[d]
  <2>1. c \in D /\ cells[c] \in CellEntries
    BY ONLY <1>1, <1>2, m \in 1 .. Len(s), cells \in [D -> CellEntries]
  <2>2. freed = [cells EXCEPT ![c] = [cells[c] EXCEPT !.next = first]]
    BY ONLY <1>1
  <2>3. PICK e : e = [cells[c] EXCEPT !.next = first]
    OBVIOUS
  <2>4. e = [id |-> cells[c].id, next |-> first] /\ e \in CellEntries
    BY ONLY <1>4, <2>1, <2>3, first \in Int
  <2> QED
    BY ONLY <2>1, <2>2, <2>3, <2>4, cells \in [D -> CellEntries]
<1>6. CASE m = 1
  <2>1. now = freed
    BY ONLY <1>1, <1>6, now = Freed(cells, s, m, first) DEF Freed
  <2>2. \A i \in 1 .. Len(s) : i # m => s[i] # c
    BY ONLY <1>1, Once(s), m \in 1 .. Len(s) DEF Once
  <2>3. \A i \in 1 .. Len(s) : i # m - 1
    BY ONLY <1>2, <1>6
  <2>4. \A i \in 1 .. Len(s) : i # m => s[i] \in DOMAIN now /\ now[s[i]] = cells[s[i]]
    BY ONLY <1>2, <1>5, <2>1, <2>2
  <2>5. SkipsCell(cells, now, s, m)
    BY ONLY <2>3, <2>4 DEF SkipsCell
  <2> QED
    BY ONLY <1>1, <1>5, <2>1, <2>4, <2>5, m \in 1 .. Len(s)
<1>7. CASE m # 1
  <2>1. PICK b : b = s[m - 1]
    OBVIOUS
  <2>2. m - 1 \in 1 .. Len(s) /\ m - 1 # m /\ m \in 1 .. Len(s)
    BY ONLY <1>2, <1>7, m \in 1 .. Len(s)
  <2>3. b \in D /\ b # c /\ c \in D
    BY ONLY <1>1, <1>2, <2>1, <2>2, Once(s) DEF Once
  <2>4. PICK x : x = cells[c].next
    OBVIOUS
  <2>5. x \in Int /\ cells[b] \in CellEntries /\ freed[b] = cells[b]
    BY ONLY <1>3, <1>5, <2>3, <2>4, cells \in [D -> CellEntries]
  <2>6. now = [freed EXCEPT ![b].next = x]
    BY ONLY <1>1, <1>7, <2>1, <2>4, now = Freed(cells, s, m, first) DEF Freed
  <2>7. /\ now \in [D -> CellEntries] /\ now[b] = [id |-> cells[b].id, next |-> x]
        /\ \A d \in D : d # b => now[d] = freed[d]
    <3>1. now = [freed EXCEPT ![b] = [freed[b] EXCEPT !.next = x]]
      BY ONLY <2>6
    <3>2. PICK e : e = [freed[b] EXCEPT !.next = x]
      OBVIOUS
    <3>3. e = [id |-> cells[b].id, next |-> x] /\ e \in CellEntries
      BY ONLY <1>4, <2>5, <3>2
    <3> QED
      BY ONLY <1>5, <2>3, <3>1, <3>2, <3>3
  <2>8. now[c] = [id |-> cells[c].id, next |-> first]
    BY ONLY <1>5, <2>3, <2>7
  <2>9. ASSUME NEW i \in 1 .. Len(s), i # m
        PROVE  /\ s[i] \in DOMAIN now /\ now[s[i]].id = cells[s[i]].id
               /\ now[s[i]].next = cells[IF i = m - 1 THEN c ELSE s[i]].next
    <3>1. s[i] \in D /\ s[i] # c /\ (s[i] = b <=> i = m - 1)
      BY ONLY <1>1, <1>2, <2>1, <2>2, <2>9, Once(s) DEF Once
    <3>2. s[i] \in DOMAIN now
      BY ONLY <2>7, <3>1
    <3>3. CASE i = m - 1
      BY ONLY <2>4, <2>7, <3>1, <3>2, <3>3
    <3>4. CASE i # m - 1
      BY ONLY <1>5, <2>7, <3>1, <3>2, <3>4
    <3> QED
      BY ONLY <3>3, <3>4
  <2>10. SkipsCell(cells, now, s, m)
    BY ONLY <1>1, <2>9 DEF SkipsCell
  <2>11. \A d \in D : (\A i \in 1 .. Len(s) : d # s[i]) => now[d] = cells[d]
    BY ONLY <1>1, <1>5, <2>1, <2>2, <2>7
  <2> QED
    BY ONLY <1>1, <2>7, <2>8, <2>9, <2>10, <2>11
<1> QED
  BY ONLY <1>6, <1>7

LEMMA CellFreed ==
  ASSUME NEW heads, NEW cells, NEW n, NEW first, NEW own, NEW keys, NEW free,
         Laid(heads, cells, n, first, own, keys, free),
         NEW p \in 1 .. Len(keys), NEW s,
         IsRow(cells, heads[p].head, s, Owned(own, {keys[p].key})), keys[p].ids = IdsAt(cells, s),
         NEW m \in 1 .. Len(s)
  PROVE  \E own2 :
           Laid(IF m = 1 THEN [heads EXCEPT ![p].head = cells[s[m]].next] ELSE heads,
                Freed(cells, s, m, first), n, s[m], own2,
                SetIds(keys, p, RemoveAt(keys[p].ids, m)), free + 1)
<1>1. PICK l, D, c, S, now, own2, hs, ks :
        /\ l = Len(keys) /\ D = CellsUpTo(n) /\ c = s[m] /\ S = Owned(own, {keys[p].key})
        /\ now = Freed(cells, s, m, first) /\ own2 = [own EXCEPT ![c] = {}]
        /\ hs = IF m = 1 THEN [heads EXCEPT ![p].head = cells[c].next] ELSE heads
        /\ ks = SetIds(keys, p, RemoveAt(keys[p].ids, m))
  OBVIOUS
<1>2. /\ n \in Nat /\ HeaderSize <= Offset(n)
      /\ cells \in [D -> CellEntries] /\ DOMAIN own = D
      /\ heads \in Seq(HeadEntries) /\ keys \in Seq(KeyEntries) /\ Len(heads) = l
      /\ \A i, j \in 1 .. l : i < j => keys[i].key < keys[j].key
      /\ \A i \in 1 .. l :
           /\ heads[i].key = keys[i].key
           /\ RowHas(cells, heads[i].head, Owned(own, {keys[i].key}), keys[i].ids)
      /\ \A d \in D : own[d] = {} \/ \E i \in 1 .. l : own[d] = {keys[i].key}
  BY ONLY <1>1, Laid(heads, cells, n, first, own, keys, free) DEF Laid
<1>3. PICK ids : RowHas(cells, first, Owned(own, {}), ids) /\ Len(ids) = free
  BY ONLY <1>1, Laid(heads, cells, n, first, own, keys, free) DEF Laid
<1>4. /\ l \in Nat /\ DOMAIN keys = 1 .. l /\ DOMAIN heads = 1 .. l
      /\ \A i, j \in 1 .. l : keys[i].key = keys[j].key => i = j
      /\ D \in SUBSET Int /\ first \in Int /\ free \in Nat
      /\ \A who : Owned(own, who) \subseteq D
      /\ \A d \in D : cells[d].next \in Int /\ cells[d].id \in RecIds
  BY ONLY <1>1, Laid(heads, cells, n, first, own, keys, free), LaidIs
<1>5. \A i \in 1 .. l : /\ keys[i] = KeyEntry(keys[i].key, keys[i].ids)
                        /\ keys[i].key \in Keys /\ keys[i].ids \in Seq(RecIds)
                        /\ keys[i] \in KeyEntries
  BY ONLY <1>1, <1>2, KeysAre
<1>6. \A i \in 1 .. l : /\ heads[i] = [key |-> heads[i].key, head |-> heads[i].head]
                        /\ heads[i].key \in Keys /\ heads[i].head \in Int
                        /\ heads[i] \in HeadEntries
  BY ONLY <1>2, HeadIs
<1>7. p \in 1 .. l
  BY ONLY <1>1, p \in 1 .. Len(keys)
<1>8. /\ IsRow(cells, heads[p].head, s, S) /\ s \in Seq(S) /\ S \subseteq D
      /\ \A i, j \in 1 .. Len(s) : s[i] = s[j] => i = j
  <2>1. IsRow(cells, heads[p].head, s, S)
    BY ONLY <1>1, IsRow(cells, heads[p].head, s, Owned(own, {keys[p].key}))
  <2> QED
    BY ONLY <1>1, <1>4, <2>1 DEF IsRow
<1>9. /\ \A i \in 1 .. Len(s) : s[i] \in S
      /\ s \in Seq(D) /\ c \in S /\ c \in D
  <2>1. \A i \in 1 .. Len(s) : s[i] \in S
    BY ONLY <1>8, SeqIs
  <2>2. s \in Seq(D)
    BY ONLY <1>8
  <2> QED
    BY ONLY <1>1, <1>8, <2>1, <2>2, m \in 1 .. Len(s)
<1>10. /\ now \in [D -> CellEntries] /\ now[c] = [id |-> cells[c].id, next |-> first]
       /\ \A d \in D : d \notin S => now[d] = cells[d]
       /\ SkipsCell(cells, now, s, m)
       /\ \A i \in 1 .. Len(s) : i # m => now[s[i]].id = cells[s[i]].id
  <2>1. /\ cells \in [D -> CellEntries] /\ first \in Int /\ s \in Seq(D)
        /\ now = Freed(cells, s, m, first)
    BY ONLY <1>1, <1>2, <1>4, <1>9
  <2>3. Once(s)
    BY ONLY <1>8 DEF Once
  <2>2. /\ now \in [D -> CellEntries] /\ now[s[m]] = [id |-> cells[s[m]].id, next |-> first]
        /\ \A d \in D : (\A i \in 1 .. Len(s) : d # s[i]) => now[d] = cells[d]
        /\ SkipsCell(cells, now, s, m)
        /\ \A i \in 1 .. Len(s) : i # m => now[s[i]].id = cells[s[i]].id
    BY ONLY <2>1, <2>3, m \in 1 .. Len(s), FreedIs
  <2> QED
    BY ONLY <1>1, <1>9, <2>2
<1>11. DOMAIN own2 = D /\ own2[c] = {} /\ \A d \in D : d # c => own2[d] = own[d]
  BY ONLY <1>1, <1>2, <1>9
<1>12. /\ \A i \in 1 .. l : i # p => c \notin Owned(own, {keys[i].key}) /\ Owned(own, {keys[i].key}) \cap S = {}
       /\ c \notin Owned(own, {}) /\ Owned(own, {}) \cap S = {}
  <2>1. \A i \in 1 .. l : i # p => {keys[i].key} # {keys[p].key}
    BY ONLY <1>4, <1>7
  <2>2. {keys[p].key} # {}
    OBVIOUS
  <2>3. \A d \in S : own[d] = {keys[p].key}
    BY ONLY <1>1 DEF Owned
  <2>4. \A w : w # {keys[p].key} => Owned(own, w) \cap S = {}
    BY ONLY <2>3 DEF Owned
  <2> QED
    BY ONLY <1>9, <2>1, <2>2, <2>4
<1>13. ASSUME NEW i \in 1 .. l
       PROVE  Owned(own2, {keys[i].key}) = IF i = p THEN S \ {c} ELSE Owned(own, {keys[i].key})
  <2>1. PICK w : w = {keys[i].key}
    OBVIOUS
  <2>2. w # {}
    BY ONLY <2>1
  <2>3. Owned(own2, w) = Owned(own, w) \ {c}
    BY ONLY <1>2, <1>11, <2>2 DEF Owned
  <2>4. i # p => Owned(own, w) \ {c} = Owned(own, w)
    BY ONLY <1>12, <2>1
  <2> QED
    BY ONLY <1>1, <2>1, <2>3, <2>4
<1>14. Owned(own2, {}) = Owned(own, {}) \cup {c}
  BY ONLY <1>2, <1>9, <1>11 DEF Owned
<1>15. PICK rest : rest = RemoveAt(keys[p].ids, m)
  OBVIOUS
<1>16. rest \in Seq(RecIds) /\ RowHas(now, IF m = 1 THEN cells[c].next ELSE heads[p].head, S \ {c}, rest)
  <2>1. cells \in [D -> CellEntries] /\ s \in Seq(S) /\ S \subseteq D
    BY ONLY <1>2, <1>8
  <2>2. RowHas(now, IF m = 1 THEN cells[s[m]].next ELSE heads[p].head, S \ {s[m]},
               RemoveAt(IdsAt(cells, s), m))
    BY ONLY <1>8, <1>10, <2>1, m \in 1 .. Len(s), HasUnlinked
  <2>3. RowHas(now, IF m = 1 THEN cells[c].next ELSE heads[p].head, S \ {c}, rest)
    BY ONLY <1>1, <1>15, <2>2, keys[p].ids = IdsAt(cells, s)
  <2>4. now \in [D -> CellEntries]
    BY ONLY <1>10
  <2>5. rest \in Seq(RecIds)
    BY ONLY <2>3, <2>4, HasIds
  <2> QED
    BY ONLY <2>3, <2>5
<1>17. /\ Len(hs) = l /\ hs \in Seq(HeadEntries)
       /\ \A i \in 1 .. l : /\ hs[i].key = heads[i].key
                            /\ hs[i].head = IF i = p /\ m = 1 THEN cells[c].next ELSE heads[i].head
  <2>1. CASE m = 1
    <3>1. PICK x : x = cells[c].next
      OBVIOUS
    <3>2. x \in Int
      BY ONLY <1>4, <1>9, <3>1
    <3>3. hs = [heads EXCEPT ![p].head = x]
      BY ONLY <1>1, <2>1, <3>1
    <3>4. DOMAIN hs = 1 .. l /\ \A i \in 1 .. l : i # p => hs[i] = heads[i]
      BY ONLY <1>4, <3>3
    <3>5. hs[p] = [key |-> heads[p].key, head |-> x]
      <4>1. hs[p] = [heads[p] EXCEPT !.head = x]
        BY ONLY <1>4, <1>7, <3>3
      <4> QED
        BY ONLY <1>6, <1>7, <4>1
    <3>6. hs[p] \in HeadEntries
      <4>1. heads[p].key \in Keys
        BY ONLY <1>6, <1>7
      <4> QED
        BY ONLY <3>2, <3>5, <4>1 DEF HeadEntries
    <3>7. hs \in Seq(HeadEntries) /\ Len(hs) = l
      <4>1. hs = [i \in 1 .. l |-> hs[i]]
        BY ONLY <1>4, <3>3
      <4>2. hs \in [1 .. l -> HeadEntries]
        BY ONLY <1>6, <3>4, <3>6, <4>1
      <4> QED
        BY ONLY <1>4, <4>2
    <3> QED
      BY ONLY <2>1, <3>1, <3>4, <3>5, <3>7
  <2>2. CASE m # 1
    BY ONLY <1>1, <1>2, <2>2
  <2> QED
    BY ONLY <2>1, <2>2
<1>18. /\ Len(ks) = l /\ ks \in Seq(KeyEntries)
       /\ \A i \in 1 .. l : ks[i].key = keys[i].key /\ ks[i].ids = IF i = p THEN rest ELSE keys[i].ids
  <2>1. ks = [keys EXCEPT ![p].ids = rest]
    BY ONLY <1>1, <1>15 DEF SetIds
  <2>2. DOMAIN ks = 1 .. l /\ \A i \in 1 .. l : i # p => ks[i] = keys[i]
    BY ONLY <1>4, <2>1
  <2>3. ks[p] = KeyEntry(keys[p].key, rest)
    <3>1. ks[p] = [keys[p] EXCEPT !.ids = rest]
      BY ONLY <1>4, <1>7, <2>1
    <3> QED
      BY ONLY <1>5, <1>7, <3>1 DEF KeyEntry
  <2>4. ks[p] \in KeyEntries /\ ks[p].key = keys[p].key /\ ks[p].ids = rest
    BY ONLY <1>5, <1>7, <1>16, <2>3, EntryOf
  <2>5. ks \in Seq(KeyEntries) /\ Len(ks) = l
    <3>1. ks = [i \in 1 .. l |-> ks[i]]
      BY ONLY <1>4, <2>1
    <3>2. ks \in [1 .. l -> KeyEntries]
      BY ONLY <1>5, <2>2, <2>4, <3>1
    <3> QED
      BY ONLY <1>4, <3>2
  <2> QED
    BY ONLY <2>2, <2>4, <2>5
<1>19. ASSUME NEW i \in 1 .. l
       PROVE  RowHas(now, hs[i].head, Owned(own2, {ks[i].key}), ks[i].ids)
  <2>1. CASE i = p
    BY ONLY <1>13, <1>16, <1>17, <1>18, <2>1
  <2>2. CASE i # p
    <3>1. PICK T : T = Owned(own, {keys[i].key})
      OBVIOUS
    <3>2. T \subseteq D /\ T \cap S = {} /\ RowHas(cells, heads[i].head, T, keys[i].ids)
      BY ONLY <1>2, <1>4, <1>12, <2>2, <3>1
    <3>3. Agree(cells, now, T) /\ cells \in [D -> CellEntries]
      BY ONLY <1>2, <1>10, <3>2 DEF Agree
    <3>4. RowHas(now, heads[i].head, T, keys[i].ids)
      BY ONLY <3>2, <3>3, HasKept
    <3> QED
      BY ONLY <1>13, <1>17, <1>18, <2>2, <3>1, <3>4
  <2> QED
    BY ONLY <2>1, <2>2
<1>20. \E more : RowHas(now, c, Owned(own2, {}), more) /\ Len(more) = free + 1
  <2>1. PICK F, id : F = Owned(own, {}) /\ id = cells[c].id
    OBVIOUS
  <2>2. F \subseteq D /\ F \cap S = {} /\ c \notin F /\ RowHas(cells, first, F, ids) /\ id \in RecIds
    BY ONLY <1>3, <1>4, <1>9, <1>12, <2>1
  <2>3. Agree(cells, now, F) /\ cells \in [D -> CellEntries]
    BY ONLY <1>2, <1>10, <2>2 DEF Agree
  <2>4. c \in DOMAIN now /\ now[c] = [id |-> id, next |-> first]
    BY ONLY <1>9, <1>10, <2>1
  <2>5. RowHas(now, c, F \cup {c}, <<id>> \o ids)
    BY ONLY <2>2, <2>3, <2>4, HasPushed
  <2>6. ids \in Seq(RecIds)
    BY ONLY <2>2, <2>3, HasIds
  <2>7. Len(<<id>> \o ids) = free + 1
    <3>1. <<id>> \in Seq(RecIds) /\ Len(<<id>>) = 1
      BY ONLY <2>2
    <3>2. Len(<<id>> \o ids) = Len(<<id>>) + Len(ids)
      BY ONLY <2>6, <3>1, ConcatIs
    <3> QED
      BY ONLY <1>3, <1>4, <3>1, <3>2
  <2> QED
    BY ONLY <1>14, <2>1, <2>5, <2>7
<1>21. \A d \in D : own2[d] = {} \/ \E i \in 1 .. l : own2[d] = {ks[i].key}
  BY ONLY <1>2, <1>11, <1>18
<1>22. Laid(hs, now, n, c, own2, ks, free + 1)
  <2>1. /\ hs \in Seq(HeadEntries) /\ ks \in Seq(KeyEntries) /\ Len(hs) = Len(ks)
        /\ \A i, j \in 1 .. Len(ks) : i < j => ks[i].key < ks[j].key
        /\ \A i \in 1 .. Len(ks) :
             /\ hs[i].key = ks[i].key
             /\ RowHas(now, hs[i].head, Owned(own2, {ks[i].key}), ks[i].ids)
    BY ONLY <1>2, <1>17, <1>18, <1>19
  <2>2. \A d \in CellsUpTo(n) : own2[d] = {} \/ \E i \in 1 .. Len(ks) : own2[d] = {ks[i].key}
    BY ONLY <1>1, <1>18, <1>21
  <2>3. n \in Nat /\ HeaderSize <= Offset(n) /\ now \in [CellsUpTo(n) -> CellEntries]
        /\ DOMAIN own2 = CellsUpTo(n)
    BY ONLY <1>1, <1>2, <1>10, <1>11
  <2> QED
    BY ONLY <1>20, <2>1, <2>2, <2>3 DEF Laid
<1> QED
  BY ONLY <1>1, <1>22

-----------------------------------------------------------------------------
(***************************************************************************)
(* The operators of AMLeafSpec, which has its own copy of AMLeaf, are      *)
(* those of AMLeaf.                                                        *)
(***************************************************************************)
LEMMA SameSequences ==
  /\ \A s, i : L!RemoveAt(s, i) = RemoveAt(s, i)
  /\ \A s, i, e : L!InsertAt(s, i, e) = InsertAt(s, i, e)
  /\ \A s, e : L!Contains(s, e) = Contains(s, e)
  /\ \A s : L!FlattenSeq(s) = FlattenSeq(s)
<1>1. \A s, i : L!RemoveAt(s, i) = RemoveAt(s, i)
  BY DEF L!RemoveAt, RemoveAt
<1>2. \A s, i, e : L!InsertAt(s, i, e) = InsertAt(s, i, e)
  BY DEF L!InsertAt, InsertAt
<1>3. \A s, e : L!Contains(s, e) = Contains(s, e)
  BY DEF L!Contains, Contains
<1>4. \A s : L!FlattenSeq(s) = FlattenSeq(s)
  BY DEF L!FlattenSeq, FlattenSeq
<1> QED
  BY ONLY <1>1, <1>2, <1>3, <1>4

LEMMA SameRemoveFirst ==
  ASSUME NEW s, NEW e
  PROVE  L!RemoveFirst(s, e) = RemoveFirst(s, e)
BY DEF L!RemoveFirst, RemoveFirst, L!SelectInSeq, SelectInSeq, L!Min, Min, L!RemoveAt, RemoveAt

LEMMA SameRoom ==
  ASSUME NEW keys
  PROVE  L!RoomFor(keys) = RoomFor(keys)
<1>1. L!IdsOf(keys) = IdsOf(keys)
  BY SameSequences DEF L!IdsOf, IdsOf
<1> QED
  BY <1>1 DEF L!RoomFor, RoomFor

LEMMA SameCompact ==
  ASSUME NEW lf, NEW low, NEW high, NEW anyGap
  PROVE  L!AM_Compact(lf, low, high, anyGap) = AM_Compact(lf, low, high, anyGap)
<1>1. L!RoomFor(SubSeq(lf.keys, low, high)) = RoomFor(SubSeq(lf.keys, low, high))
  BY SameRoom
<1> QED
  BY ONLY <1>1 DEF L!AM_Compact, AM_Compact

LEMMA SameFound ==
  ASSUME NEW lf, NEW id, NEW index
  PROVE  L!AM_InsertToLeafFound(lf, id, index) = AM_InsertToLeafFound(lf, id, index)
BY DEF L!AM_InsertToLeafFound, AM_InsertToLeafFound

LEMMA SameNotFound ==
  ASSUME NEW lf, NEW key, NEW id, NEW index
  PROVE  L!AM_InsertToLeafNotFound(lf, key, id, index) = AM_InsertToLeafNotFound(lf, key, id, index)
BY DEF L!AM_InsertToLeafNotFound, AM_InsertToLeafNotFound, L!AM_InsertToLeafFound,
       AM_InsertToLeafFound, L!InsertAt, InsertAt, L!KeyEntry, KeyEntry

LEMMA SameInsert ==
  ASSUME NEW lf, NEW key, NEW id, NEW at
  PROVE  /\ L!InsertFits(lf, at.found) = InsertFits(lf, at.found)
         /\ L!AM_InsertintoLeaf(lf, key, id, at) = AM_InsertintoLeaf(lf, key, id, at)
<1>1. L!InsertFits(lf, at.found) = InsertFits(lf, at.found)
  BY DEF L!InsertFits, InsertFits
<1>2. L!AM_InsertToLeafFound(lf, id, at.index) = AM_InsertToLeafFound(lf, id, at.index)
  BY SameFound
<1>3. L!AM_InsertToLeafNotFound(lf, key, id, at.index) = AM_InsertToLeafNotFound(lf, key, id, at.index)
  BY SameNotFound
<1>4. PICK half : half = AM_Compact(lf, 1, Len(lf.keys), 0)
  OBVIOUS
<1>5. L!AM_Compact(lf, 1, Len(lf.keys), 0) = half
  BY <1>4, SameCompact
<1>6. L!AM_InsertToLeafNotFound(half, key, id, at.index) = AM_InsertToLeafNotFound(half, key, id, at.index)
  BY SameNotFound
<1>7. L!NeedsCompaction(lf) = NeedsCompaction(lf)
  BY DEF L!NeedsCompaction, NeedsCompaction
<1> QED
  BY ONLY <1>1, <1>2, <1>3, <1>4, <1>5, <1>6, <1>7 DEF L!AM_InsertintoLeaf, AM_InsertintoLeaf

(* What AM_SearchLeaf makes of the range that is left.                     *)
Found(keys, range, value) ==
  LET index == IF range = {} THEN 1
               ELSE IF \E i \in range : value <= keys[i]
                    THEN CHOOSE i \in range :
                           value <= keys[i] /\ \A j \in range : j < i => value > keys[j]
                    ELSE 1 + CHOOSE i \in range : \A j \in range : j <= i
  IN [found |-> index \in range /\ keys[index] = value, index |-> index]

LEMMA SameSearch ==
  ASSUME NEW lf, NEW value
  PROVE  L!AM_SearchLeaf(lf, value) = AM_SearchLeaf(lf, value)
<1>1. PICK keys, narrowed : keys = KeysOf(lf) /\ narrowed = Narrowed(keys, value)
  OBVIOUS
<1>2. L!KeysOf(lf) = keys
  BY <1>1 DEF L!KeysOf, KeysOf
<1>3. L!Narrowed(keys, value) = narrowed
  BY <1>1 DEF L!Narrowed, Narrowed, L!Turn, Turn
<1>4. PICK range : range = IF keys = <<>> THEN {} ELSE narrowed
  OBVIOUS
<1>5. AM_SearchLeaf(lf, value) =
        Found(KeysOf(lf), IF KeysOf(lf) = <<>> THEN {} ELSE Narrowed(KeysOf(lf), value), value)
  BY Zenon DEF AM_SearchLeaf, Found
<1>6. L!AM_SearchLeaf(lf, value) =
        Found(L!KeysOf(lf), IF L!KeysOf(lf) = <<>> THEN {} ELSE L!Narrowed(L!KeysOf(lf), value), value)
  BY Zenon DEF L!AM_SearchLeaf, Found
<1>7. AM_SearchLeaf(lf, value) = Found(keys, range, value)
  BY ONLY <1>1, <1>4, <1>5
<1>8. L!AM_SearchLeaf(lf, value) = Found(keys, range, value)
  BY ONLY <1>2, <1>3, <1>4, <1>6
<1> QED
  BY ONLY <1>7, <1>8

LEMMA SameDelete ==
  ASSUME NEW lf, NEW id, NEW p
  PROVE  L!DeleteFromLeaf(lf, id, p) = DeleteFromLeaf(lf, id, p)
<1>1. PICK old, left, rest : /\ old = lf.keys[p].ids /\ left = RemoveFirst(old, id)
                             /\ rest = RemoveAt(lf.keys, p)
  OBVIOUS
<1>2. PICK freed : freed = [lf EXCEPT !.free = @ + 1]
  OBVIOUS
<1>3. L!RemoveFirst(old, id) = left
  BY ONLY <1>1, SameRemoveFirst
<1>4. freed.keys = lf.keys
  BY ONLY <1>2
<1>5. RemoveAt(freed.keys, p) = rest /\ L!RemoveAt(freed.keys, p) = rest
  BY ONLY <1>1, <1>4, SameSequences
<1>6. DeleteFromLeaf(lf, id, p) = IF left = <<>> THEN [freed EXCEPT !.keys = rest, !.gap = @ + KeySize]
                                  ELSE [freed EXCEPT !.keys[p].ids = left]
  BY ONLY <1>1, <1>2, <1>5, Zenon DEF DeleteFromLeaf
<1>7. L!DeleteFromLeaf(lf, id, p) = IF left = <<>> THEN [freed EXCEPT !.keys = rest, !.gap = @ + KeySize]
                                    ELSE [freed EXCEPT !.keys[p].ids = left]
  BY ONLY <1>1, <1>2, <1>3, <1>5, Zenon DEF L!DeleteFromLeaf
<1> QED
  BY ONLY <1>6, <1>7

LEMMA SameEmptyLeaf == L!EmptyLeaf = EmptyLeaf
BY DEF L!EmptyLeaf, EmptyLeaf, L!AM_NULL_PAGE, AM_NULL_PAGE

LEMMA FirstRemoved ==
  ASSUME NEW S, NEW s \in Seq(S), NEW p \in 1 .. Len(s), NEW e, s[p] = e,
         \A i \in 1 .. Len(s) : i < p => s[i] # e
  PROVE  RemoveFirst(s, e) = RemoveAt(s, p)
<1>1. PICK I : I = {i \in 1 .. Len(s) : s[i] = e}
  OBVIOUS
<1>2. Len(s) \in Nat
  BY SeqIs
<1>3. p \in I /\ \A i \in I : p <= i
  BY ONLY <1>1, <1>2, p \in 1 .. Len(s), s[p] = e, \A i \in 1 .. Len(s) : i < p => s[i] # e
<1>4. I \in SUBSET Nat
  BY ONLY <1>1, <1>2
<1>5. RemoveFirst(s, e) = RemoveAt(s, IF I # {} THEN Min(I) ELSE 0)
  <2>1. Contains(s, e)
    BY ONLY <1>1, <1>3 DEF Contains
  <2> QED
    BY <1>1, <2>1 DEF RemoveFirst, SelectInSeq
<1>6. Min(I) = p
  <2>1. \A i \in I : (\A j \in I : i <= j) <=> i = p
    BY ONLY <1>3, <1>4
  <2>2. p = CHOOSE i \in I : \A j \in I : i <= j
    BY ONLY <1>3, <2>1
  <2> QED
    BY ONLY <2>2 DEF Min
<1> QED
  BY ONLY <1>3, <1>5, <1>6

-----------------------------------------------------------------------------
(***************************************************************************)
(* The page and the leaf.                                                  *)
(***************************************************************************)
PageRec(heads, cells, n, first, free) ==
  [keys |-> heads, cells |-> cells, recIdPtr |-> Offset(n),
   keyPtr |-> HeaderSize + Len(heads) * KeySize, freeListPtr |-> first, numinfreeList |-> free]

PageHolds(pg, keys, n, free) ==
  \E heads, cells, first, own :
    /\ pg = PageRec(heads, cells, n, first, free)
    /\ Laid(heads, cells, n, first, own, keys, free)

(* No key is without record ids; keys and cells fit, and the cells leave   *)
(* room for a key.                                                         *)
NoneEmpty(keys) == \A i \in 1 .. Len(keys) : keys[i].ids # <<>>
Fit(keys, n) == Space(Len(keys), n) <= LeafSpace /\ Space(1, n) <= LeafSpace

GoodPage(pg) ==
  \E keys, n, free : PageHolds(pg, keys, n, free) /\ NoneEmpty(keys) /\ Fit(keys, n)

LEMMA PageParts ==
  ASSUME NEW heads, NEW cells, NEW n, NEW first, NEW free, NEW pg,
         pg = PageRec(heads, cells, n, first, free)
  PROVE  /\ pg.keys = heads /\ pg.cells = cells /\ pg.recIdPtr = Offset(n)
         /\ pg.keyPtr = HeaderSize + Len(heads) * KeySize
         /\ pg.freeListPtr = first /\ pg.numinfreeList = free
BY DEF PageRec

(* The lists of cells of a page.                                           *)
CellLists(pg, heads, first, own, keys, free) ==
  /\ \A i \in 1 .. Len(keys) :
       /\ IsRow(pg.cells, heads[i].head, CellList(pg, heads[i].head), Owned(own, {keys[i].key}))
       /\ keys[i].ids = IdsAt(pg.cells, CellList(pg, heads[i].head))
       /\ IdList(pg, heads[i].head) = keys[i].ids
  /\ IsRow(pg.cells, first, CellList(pg, first), Owned(own, {}))
  /\ Len(CellList(pg, first)) = free

LEMMA PageLists ==
  ASSUME NEW heads, NEW cells, NEW n, NEW first, NEW own, NEW keys, NEW free, NEW pg,
         pg = PageRec(heads, cells, n, first, free), Laid(heads, cells, n, first, own, keys, free)
  PROVE  CellLists(pg, heads, first, own, keys, free)
<1>1. /\ n \in Nat /\ HeaderSize <= Offset(n) /\ cells \in [CellsUpTo(n) -> CellEntries]
      /\ \A i \in 1 .. Len(keys) :
           RowHas(cells, heads[i].head, Owned(own, {keys[i].key}), keys[i].ids)
      /\ \E ids : RowHas(cells, first, Owned(own, {}), ids) /\ Len(ids) = free
  BY ONLY Laid(heads, cells, n, first, own, keys, free) DEF Laid
<1>2. pg.cells = cells
  BY ONLY pg = PageRec(heads, cells, n, first, free), PageParts
<1>3. IsFiniteSet(DOMAIN pg.cells) /\ AM_NULL \notin DOMAIN pg.cells
  BY ONLY <1>1, <1>2, CellsAre
<1>4. \A head, list, S : IsRow(cells, head, list, S) => CellList(pg, head) = list
  BY ONLY <1>2, <1>3, RowIsList
<1>5. ASSUME NEW head, NEW S, NEW ids, RowHas(cells, head, S, ids)
      PROVE  /\ IsRow(cells, head, CellList(pg, head), S) /\ ids = IdsAt(cells, CellList(pg, head))
             /\ Len(CellList(pg, head)) = Len(ids) /\ IdList(pg, head) = ids
  <2>1. PICK list : IsRow(cells, head, list, S) /\ ids = IdsAt(cells, list)
    BY ONLY <1>5 DEF RowHas
  <2>2. CellList(pg, head) = list
    BY ONLY <1>4, <2>1
  <2>3. list \in Seq(S) /\ S \subseteq DOMAIN cells
    BY ONLY <2>1 DEF IsRow
  <2>4. Len(list) \in Nat /\ DOMAIN list = 1 .. Len(list)
    BY ONLY <2>3, SeqIs
  <2>5. Len(ids) = Len(list) /\ ids = [i \in DOMAIN list |-> cells[list[i]].id]
    BY ONLY <2>1, <2>4 DEF IdsAt
  <2>6. IdList(pg, head) = ids
    BY ONLY <1>2, <2>2, <2>5 DEF IdList
  <2> QED
    BY ONLY <2>1, <2>2, <2>5, <2>6
<1>6. ASSUME NEW i \in 1 .. Len(keys)
      PROVE  /\ IsRow(cells, heads[i].head, CellList(pg, heads[i].head), Owned(own, {keys[i].key}))
             /\ keys[i].ids = IdsAt(cells, CellList(pg, heads[i].head))
             /\ IdList(pg, heads[i].head) = keys[i].ids
  <2>1. RowHas(cells, heads[i].head, Owned(own, {keys[i].key}), keys[i].ids)
    BY ONLY <1>1
  <2> QED
    BY ONLY <1>5, <2>1
<1>7. IsRow(cells, first, CellList(pg, first), Owned(own, {})) /\ Len(CellList(pg, first)) = free
  <2>1. PICK ids : RowHas(cells, first, Owned(own, {}), ids) /\ Len(ids) = free
    BY ONLY <1>1
  <2>2. RowHas(cells, first, Owned(own, {}), ids)
    BY ONLY <2>1
  <2>3. /\ IsRow(cells, first, CellList(pg, first), Owned(own, {}))
        /\ Len(CellList(pg, first)) = Len(ids)
    BY ONLY <1>5, <2>2
  <2> QED
    BY ONLY <2>1, <2>3
<1> QED
  BY ONLY <1>2, <1>6, <1>7 DEF CellLists

LEMMA PageIsLeaf ==
  ASSUME NEW keys, NEW n, NEW free, NEW pg, PageHolds(pg, keys, n, free)
  PROVE  AsLeaf(pg) = LeafRec(keys, free, LeafSpace - Space(Len(keys), n), AM_NULL_PAGE)
<1>1. PICK heads, cells, first, own :
        pg = PageRec(heads, cells, n, first, free) /\ Laid(heads, cells, n, first, own, keys, free)
  BY ONLY PageHolds(pg, keys, n, free) DEF PageHolds
<1>2. /\ pg.keys = heads /\ pg.recIdPtr = Offset(n)
      /\ pg.keyPtr = HeaderSize + Len(heads) * KeySize /\ pg.numinfreeList = free
  BY ONLY <1>1, PageParts
<1>3. \A i \in 1 .. Len(keys) : IdList(pg, heads[i].head) = keys[i].ids
  <2>1. CellLists(pg, heads, first, own, keys, free)
    BY ONLY <1>1, PageLists
  <2> QED
    BY ONLY <2>1 DEF CellLists
<1>4. /\ keys \in Seq(KeyEntries) /\ n \in Nat /\ Len(heads) = Len(keys)
      /\ \A i \in 1 .. Len(keys) : heads[i].key = keys[i].key
  BY ONLY <1>1 DEF Laid
<1>5. DOMAIN heads = 1 .. Len(keys) /\ Len(keys) \in Nat
  BY ONLY <1>1, LaidIs
<1>6. PICK got, gap : /\ got = [i \in DOMAIN pg.keys |-> KeyEntry(pg.keys[i].key, IdList(pg, pg.keys[i].head))]
                      /\ gap = pg.recIdPtr - pg.keyPtr
  OBVIOUS
<1>7. got = keys
  <2>1. keys = [i \in 1 .. Len(keys) |-> keys[i]]
    BY ONLY <1>4, SeqIs
  <2>2. \A i \in 1 .. Len(keys) : keys[i] = KeyEntry(keys[i].key, keys[i].ids)
    BY ONLY <1>4, KeysAre
  <2> QED
    BY ONLY <1>2, <1>3, <1>4, <1>5, <1>6, <2>1, <2>2
<1>8. gap = LeafSpace - Space(Len(keys), n)
  <2>1. /\ PageSize = HeaderSize + LeafSpace /\ HeaderSize \in Nat /\ LeafSpace \in Nat
        /\ KeySize \in Nat /\ CellSize \in Nat
    BY SizesAre
  <2>2. Len(keys) * KeySize \in Nat /\ n * CellSize \in Nat
    BY ONLY <1>4, <1>5, <2>1
  <2>3. gap = (PageSize - n * CellSize) - (HeaderSize + Len(keys) * KeySize)
    BY ONLY <1>2, <1>4, <1>6 DEF Offset
  <2>4. Space(Len(keys), n) = Len(keys) * KeySize + n * CellSize
    BY ONLY DEF Space
  <2> QED
    BY ONLY <2>1, <2>2, <2>3, <2>4
<1>9. AsLeaf(pg) = [EmptyLeaf EXCEPT !.keys = got, !.free = free, !.gap = gap]
  BY ONLY <1>2, <1>6 DEF AsLeaf
<1>10. [EmptyLeaf EXCEPT !.keys = got, !.free = free, !.gap = gap] = LeafRec(got, free, gap, AM_NULL_PAGE)
  <2>1. EmptyLeaf = LeafRec(<<>>, 0, LeafSpace, AM_NULL_PAGE)
    BY DEF EmptyLeaf, LeafRec
  <2>2. [LeafRec(<<>>, 0, LeafSpace, AM_NULL_PAGE) EXCEPT !.keys = got]
          = LeafRec(got, 0, LeafSpace, AM_NULL_PAGE)
    BY ONLY DEF LeafRec
  <2>3. [LeafRec(got, 0, LeafSpace, AM_NULL_PAGE) EXCEPT !.free = free]
          = LeafRec(got, free, LeafSpace, AM_NULL_PAGE)
    BY ONLY DEF LeafRec
  <2>4. [LeafRec(got, free, LeafSpace, AM_NULL_PAGE) EXCEPT !.gap = gap]
          = LeafRec(got, free, gap, AM_NULL_PAGE)
    BY ONLY DEF LeafRec
  <2> QED
    BY ONLY <2>1, <2>2, <2>3, <2>4, Zenon
<1> QED
  BY ONLY <1>7, <1>8, <1>9, <1>10

-----------------------------------------------------------------------------
(***************************************************************************)
(* The operations on the page.                                             *)
(***************************************************************************)
LEMMA SameLength ==
  ASSUME NEW S, NEW s \in Seq(S), NEW k \in Nat, DOMAIN s = 1 .. k
  PROVE  Len(s) = k
<1>1. PICK m : m = Len(s)
  OBVIOUS
<1>2. m \in Nat /\ 1 .. m = 1 .. k
  BY ONLY <1>1, s \in Seq(S), DOMAIN s = 1 .. k, SeqIs
<1>3. ~(m < k) /\ ~(k < m)
  <2>1. m < k => k \in 1 .. k /\ k \notin 1 .. m
    BY ONLY <1>2, k \in Nat
  <2>2. k < m => m \in 1 .. m /\ m \notin 1 .. k
    BY ONLY <1>2, k \in Nat
  <2> QED
    BY ONLY <1>2, <2>1, <2>2
<1> QED
  BY ONLY <1>1, <1>2, <1>3, k \in Nat

(* InsertToLeafFound, field by field.                                      *)
CellFor(first, n) == IF first = AM_NULL THEN Offset(n + 1) ELSE first
WithHead(heads, p, cell) == [heads EXCEPT ![p].head = cell]
PageTaking(heads, cells, n, first, free, id, p, cell) ==
  PageRec(WithHead(heads, p, cell), WithCell(cells, cell, id, heads[p].head),
          IF first = AM_NULL THEN n + 1 ELSE n,
          IF first = AM_NULL THEN first ELSE cells[first].next,
          IF first = AM_NULL THEN free ELSE free - 1)

LEMMA PageWithId ==
  ASSUME NEW heads, NEW cells, NEW n \in Nat, NEW first, NEW free, NEW id, NEW p, NEW pg,
         pg = PageRec(heads, cells, n, first, free),
         NEW cell, cell = CellFor(first, n), Len(WithHead(heads, p, cell)) = Len(heads)
  PROVE  InsertToLeafFound(pg, id, p) = PageTaking(heads, cells, n, first, free, id, p, cell)
<1>1. PICK hs, with, rec, next, left, key :
        /\ hs = [heads EXCEPT ![p].head = cell] /\ with = WithCell(cells, cell, id, heads[p].head)
        /\ rec = (IF first = AM_NULL THEN cell ELSE Offset(n))
        /\ next = (IF first = AM_NULL THEN first ELSE cells[cell].next)
        /\ left = (IF first = AM_NULL THEN free ELSE free - 1)
        /\ key = HeaderSize + Len(heads) * KeySize
  OBVIOUS
<1>2. /\ pg = [keys |-> heads, cells |-> cells, recIdPtr |-> Offset(n), keyPtr |-> key,
               freeListPtr |-> first, numinfreeList |-> free]
      /\ pg.keys = heads /\ pg.cells = cells /\ pg.recIdPtr = Offset(n)
      /\ pg.freeListPtr = first /\ pg.numinfreeList = free
  BY ONLY <1>1, pg = PageRec(heads, cells, n, first, free) DEF PageRec
<1>3. cell = IF first = AM_NULL THEN Offset(n) - CellSize ELSE first
  BY ONLY cell = CellFor(first, n), n \in Nat, OffsetIs DEF CellFor
<1>4. InsertToLeafFound(pg, id, p) =
        [pg EXCEPT !.recIdPtr = rec, !.freeListPtr = next, !.numinfreeList = left,
                   !.cells = with, !.keys[p].head = cell]
  <2>1. PICK c : c = IF pg.freeListPtr = AM_NULL THEN pg.recIdPtr - CellSize ELSE pg.freeListPtr
    OBVIOUS
  <2>2. c = cell
    BY ONLY <1>2, <1>3, <2>1
  <2>3. InsertToLeafFound(pg, id, p) =
          [pg EXCEPT
             !.recIdPtr = IF pg.freeListPtr = AM_NULL THEN c ELSE @,
             !.freeListPtr = IF pg.freeListPtr = AM_NULL THEN @ ELSE pg.cells[c].next,
             !.numinfreeList = IF pg.freeListPtr = AM_NULL THEN @ ELSE @ - 1,
             !.cells = WithCell(@, c, id, pg.keys[p].head),
             !.keys[p].head = c]
    BY ONLY <2>1, Zenon DEF InsertToLeafFound
  <2> QED
    BY ONLY <1>1, <1>2, <2>2, <2>3
<1>5. [pg EXCEPT !.recIdPtr = rec] =
        [keys |-> heads, cells |-> cells, recIdPtr |-> rec, keyPtr |-> key,
         freeListPtr |-> first, numinfreeList |-> free]
  BY ONLY <1>2
<1>6. [pg EXCEPT !.recIdPtr = rec, !.freeListPtr = next, !.numinfreeList = left,
                 !.cells = with, !.keys[p].head = cell] =
        [keys |-> hs, cells |-> with, recIdPtr |-> rec, keyPtr |-> key,
         freeListPtr |-> next, numinfreeList |-> left]
  <2>1. PICK a : a = [pg EXCEPT !.recIdPtr = rec]
    OBVIOUS
  <2>2. PICK b : b = [a EXCEPT !.freeListPtr = next]
    OBVIOUS
  <2>3. PICK c : c = [b EXCEPT !.numinfreeList = left]
    OBVIOUS
  <2>4. PICK d : d = [c EXCEPT !.cells = with]
    OBVIOUS
  <2>5. b = [keys |-> heads, cells |-> cells, recIdPtr |-> rec, keyPtr |-> key,
             freeListPtr |-> next, numinfreeList |-> free]
    BY ONLY <1>5, <2>1, <2>2
  <2>6. c = [keys |-> heads, cells |-> cells, recIdPtr |-> rec, keyPtr |-> key,
             freeListPtr |-> next, numinfreeList |-> left]
    BY ONLY <2>3, <2>5
  <2>7. d = [keys |-> heads, cells |-> with, recIdPtr |-> rec, keyPtr |-> key,
             freeListPtr |-> next, numinfreeList |-> left]
    BY ONLY <2>4, <2>6
  <2>8. [d EXCEPT !.keys[p].head = cell] =
          [keys |-> hs, cells |-> with, recIdPtr |-> rec, keyPtr |-> key,
           freeListPtr |-> next, numinfreeList |-> left]
    <3>1. d.keys = heads
      BY ONLY <2>7
    <3>2. PICK now : now = [d.keys EXCEPT ![p].head = cell]
      OBVIOUS
    <3>3. now = hs
      BY ONLY <1>1, <3>1, <3>2
    <3>4. [d EXCEPT !.keys = now] =
            [keys |-> hs, cells |-> with, recIdPtr |-> rec, keyPtr |-> key,
             freeListPtr |-> next, numinfreeList |-> left]
      BY ONLY <2>7, <3>3
    <3>5. [d EXCEPT !.keys[p].head = cell] = [d EXCEPT !.keys = now]
      BY ONLY <3>2
    <3> QED
      BY ONLY <3>4, <3>5
  <2> QED
    BY ONLY <2>1, <2>2, <2>3, <2>4, <2>8, Zenon
<1>7. Len(hs) = Len(heads)
  BY ONLY <1>1, Len(WithHead(heads, p, cell)) = Len(heads) DEF WithHead
<1>8. rec = Offset(IF first = AM_NULL THEN n + 1 ELSE n)
  BY ONLY <1>1, cell = CellFor(first, n) DEF CellFor
<1>9. next = IF first = AM_NULL THEN first ELSE cells[first].next
  BY ONLY <1>1, cell = CellFor(first, n) DEF CellFor
<1> QED
  BY ONLY <1>1, <1>4, <1>6, <1>7, <1>8, <1>9 DEF PageRec, PageTaking, WithHead

LEMMA PageFound ==
  ASSUME NEW keys, NEW n, NEW free, NEW pg, PageHolds(pg, keys, n, free),
         NEW p \in 1 .. Len(keys), NEW id \in RecIds, free = 0 => HeaderSize <= Offset(n + 1),
         NEW now, now = InsertToLeafFound(pg, id, p)
  PROVE  PageHolds(now, WithId(keys, p, id), IF free = 0 THEN n + 1 ELSE n,
                   IF free = 0 THEN free ELSE free - 1)
<1>1. PICK heads, cells, first, own :
        pg = PageRec(heads, cells, n, first, free) /\ Laid(heads, cells, n, first, own, keys, free)
  BY ONLY PageHolds(pg, keys, n, free) DEF PageHolds
<1>2. /\ n \in Nat /\ (first = AM_NULL <=> free = 0) /\ free \in Nat
      /\ Len(keys) \in Nat /\ DOMAIN heads = 1 .. Len(keys)
  <2>1. n \in Nat
    BY ONLY <1>1 DEF Laid
  <2> QED
    BY ONLY <1>1, <2>1, LaidIs
<1>3. PICK cell : cell = CellFor(first, n)
  OBVIOUS
<1>4. PICK hs, with, m, next, left :
        /\ hs = WithHead(heads, p, cell) /\ with = WithCell(cells, cell, id, heads[p].head)
        /\ m = (IF first = AM_NULL THEN n + 1 ELSE n)
        /\ next = (IF first = AM_NULL THEN first ELSE cells[first].next)
        /\ left = (IF first = AM_NULL THEN free ELSE free - 1)
  OBVIOUS
<1>5. PICK own2 : Laid(hs, with, m, next, own2, WithId(keys, p, id), left)
  <2>1. first = AM_NULL => HeaderSize <= Offset(n + 1)
    BY ONLY <1>2, free = 0 => HeaderSize <= Offset(n + 1)
  <2>2. \E own2 : Laid([heads EXCEPT ![p].head = cell], WithCell(cells, cell, id, heads[p].head),
                IF first = AM_NULL THEN n + 1 ELSE n,
                IF first = AM_NULL THEN first ELSE cells[first].next, own2,
                WithId(keys, p, id), IF first = AM_NULL THEN free ELSE free - 1)
    <3>1. cell = IF first = AM_NULL THEN Offset(n + 1) ELSE first
      BY ONLY <1>3 DEF CellFor
    <3> QED
      BY ONLY <1>1, <3>1, <2>1, p \in 1 .. Len(keys), id \in RecIds, CellTakenFrom
  <2> QED
    BY ONLY <1>4, <2>2 DEF WithHead
<1>6. Len(hs) = Len(heads)
  <2>1. hs \in Seq(HeadEntries) /\ heads \in Seq(HeadEntries)
    BY ONLY <1>1, <1>5 DEF Laid
  <2>2. DOMAIN hs = 1 .. Len(keys)
    BY ONLY <1>2, <1>4 DEF WithHead
  <2> QED
    BY ONLY <1>2, <2>1, <2>2, SameLength
<1>7. now = PageRec(hs, with, m, next, left)
  <2>1. Len(WithHead(heads, p, cell)) = Len(heads)
    BY ONLY <1>4, <1>6
  <2>2. n \in Nat /\ pg = PageRec(heads, cells, n, first, free)
    BY ONLY <1>1, <1>2
  <2>3. InsertToLeafFound(pg, id, p) = PageTaking(heads, cells, n, first, free, id, p, cell)
    BY ONLY <1>3, <2>1, <2>2, PageWithId
  <2> QED
    BY ONLY <1>4, <2>3, now = InsertToLeafFound(pg, id, p) DEF PageTaking
<1>8. PageHolds(now, WithId(keys, p, id), m, left)
  BY ONLY <1>5, <1>7 DEF PageHolds
<1> QED
  BY ONLY <1>2, <1>4, <1>8

LEMMA OffsetRoom ==
  ASSUME NEW n \in Nat
  PROVE  HeaderSize <= Offset(n) <=> Space(0, n) <= LeafSpace
<1>1. /\ PageSize = HeaderSize + LeafSpace /\ HeaderSize \in Nat /\ LeafSpace \in Nat
      /\ KeySize \in Nat /\ CellSize \in Nat
  BY SizesAre
<1>2. n * CellSize \in Nat /\ 0 * KeySize = 0
  BY ONLY <1>1, n \in Nat
<1> QED
  BY ONLY <1>1, <1>2 DEF Offset, Space

(* Keys, heads and keyPtr of a page set anew.                              *)
KeysSet(pg, hs, ptr) == [pg EXCEPT !.keys = hs, !.keyPtr = ptr]

LEMMA PageKeysSet ==
  ASSUME NEW heads, NEW cells, NEW n, NEW first, NEW free, NEW pg,
         pg = PageRec(heads, cells, n, first, free),
         NEW hs, NEW ptr, ptr = HeaderSize + Len(hs) * KeySize
  PROVE  KeysSet(pg, hs, ptr) = PageRec(hs, cells, n, first, free)
<1>1. pg = [keys |-> heads, cells |-> cells, recIdPtr |-> Offset(n),
            keyPtr |-> HeaderSize + Len(heads) * KeySize, freeListPtr |-> first, numinfreeList |-> free]
  BY ONLY pg = PageRec(heads, cells, n, first, free) DEF PageRec
<1>2. PICK a : a = [pg EXCEPT !.keys = hs]
  OBVIOUS
<1>3. a = [keys |-> hs, cells |-> cells, recIdPtr |-> Offset(n),
           keyPtr |-> HeaderSize + Len(heads) * KeySize, freeListPtr |-> first, numinfreeList |-> free]
  BY ONLY <1>1, <1>2
<1>4. [a EXCEPT !.keyPtr = ptr] =
        [keys |-> hs, cells |-> cells, recIdPtr |-> Offset(n), keyPtr |-> ptr,
         freeListPtr |-> first, numinfreeList |-> free]
  BY ONLY <1>3
<1>5. [pg EXCEPT !.keys = hs, !.keyPtr = ptr] = [a EXCEPT !.keyPtr = ptr]
  BY ONLY <1>2, Zenon
<1> QED
  BY ONLY <1>4, <1>5, ptr = HeaderSize + Len(hs) * KeySize DEF PageRec, KeysSet

KeyPut(pg, p, key) ==
  [pg EXCEPT !.keys = InsertAt(@, p, [key |-> key, head |-> AM_NULL]), !.keyPtr = @ + KeySize]
KeyTaken(pg, p) == [pg EXCEPT !.keys = RemoveAt(@, p), !.keyPtr = @ - KeySize]

LEMMA PageKeyPut ==
  ASSUME NEW keys, NEW n, NEW free, NEW pg, PageHolds(pg, keys, n, free),
         NEW key \in Keys, NEW p, Between(keys, p, key), NEW now, now = KeyPut(pg, p, key)
  PROVE  PageHolds(now, InsertAt(keys, p, KeyEntry(key, <<>>)), n, free)
<1>1. PICK heads, cells, first, own :
        pg = PageRec(heads, cells, n, first, free) /\ Laid(heads, cells, n, first, own, keys, free)
  BY ONLY PageHolds(pg, keys, n, free) DEF PageHolds
<1>2. PICK hs, ptr : /\ hs = InsertAt(heads, p, [key |-> key, head |-> AM_NULL])
                     /\ ptr = pg.keyPtr + KeySize
  OBVIOUS
<1>3. Laid(hs, cells, n, first, own, InsertAt(keys, p, KeyEntry(key, <<>>)), free)
      /\ Len(hs) = Len(heads) + 1
  BY ONLY <1>1, <1>2, key \in Keys, Between(keys, p, key), KeyAdded
<1>4. pg.keys = heads /\ pg.keyPtr = HeaderSize + Len(heads) * KeySize
  BY ONLY <1>1, PageParts
<1>5. ptr = HeaderSize + Len(hs) * KeySize
  <2>1. Len(heads) \in Nat
    <3>1. heads \in Seq(HeadEntries)
      BY ONLY <1>1 DEF Laid
    <3> QED
      BY ONLY <3>1, SeqIs
  <2>2. KeySize \in Nat /\ HeaderSize \in Nat
    BY SizesAre
  <2>3. (Len(heads) + 1) * KeySize = Len(heads) * KeySize + KeySize /\ Len(heads) * KeySize \in Nat
    BY ONLY <2>1, <2>2
  <2> QED
    BY ONLY <1>2, <1>3, <1>4, <2>2, <2>3
<1>6. now = KeysSet(pg, hs, ptr)
  <2>1. now = KeysSet(pg, InsertAt(pg.keys, p, [key |-> key, head |-> AM_NULL]), pg.keyPtr + KeySize)
    BY ONLY now = KeyPut(pg, p, key), Zenon DEF KeyPut, KeysSet
  <2>2. InsertAt(pg.keys, p, [key |-> key, head |-> AM_NULL]) = hs
    BY ONLY <1>2, <1>4
  <2>3. ptr = pg.keyPtr + KeySize
    BY ONLY <1>2
  <2> QED
    BY ONLY <2>1, <2>2, <2>3
<1>7. now = PageRec(hs, cells, n, first, free)
  BY ONLY <1>1, <1>5, <1>6, PageKeysSet
<1> QED
  BY ONLY <1>3, <1>7 DEF PageHolds

LEMMA PageKeyTaken ==
  ASSUME NEW keys, NEW n, NEW free, NEW pg, PageHolds(pg, keys, n, free),
         NEW p \in 1 .. Len(keys), keys[p].ids = <<>>, NEW now, now = KeyTaken(pg, p)
  PROVE  PageHolds(now, RemoveAt(keys, p), n, free)
<1>1. PICK heads, cells, first, own :
        pg = PageRec(heads, cells, n, first, free) /\ Laid(heads, cells, n, first, own, keys, free)
  BY ONLY PageHolds(pg, keys, n, free) DEF PageHolds
<1>2. PICK hs, ptr : hs = RemoveAt(heads, p) /\ ptr = pg.keyPtr - KeySize
  OBVIOUS
<1>3. Laid(hs, cells, n, first, own, RemoveAt(keys, p), free) /\ Len(hs) = Len(heads) - 1
  BY ONLY <1>1, <1>2, p \in 1 .. Len(keys), keys[p].ids = <<>>, KeyDropped
<1>4. pg.keys = heads /\ pg.keyPtr = HeaderSize + Len(heads) * KeySize
  BY ONLY <1>1, PageParts
<1>5. ptr = HeaderSize + Len(hs) * KeySize
  <2>1. Len(heads) \in Nat
    <3>1. heads \in Seq(HeadEntries)
      BY ONLY <1>1 DEF Laid
    <3> QED
      BY ONLY <3>1, SeqIs
  <2>2. KeySize \in Nat /\ HeaderSize \in Nat
    BY SizesAre
  <2>3. (Len(heads) - 1) * KeySize = Len(heads) * KeySize - KeySize /\ Len(heads) * KeySize \in Nat
    BY ONLY <2>1, <2>2
  <2> QED
    BY ONLY <1>2, <1>3, <1>4, <2>2, <2>3
<1>6. now = KeysSet(pg, hs, ptr)
  <2>1. now = KeysSet(pg, RemoveAt(pg.keys, p), pg.keyPtr - KeySize)
    BY ONLY now = KeyTaken(pg, p), Zenon DEF KeyTaken, KeysSet
  <2>2. RemoveAt(pg.keys, p) = hs
    BY ONLY <1>2, <1>4
  <2>3. ptr = pg.keyPtr - KeySize
    BY ONLY <1>2
  <2> QED
    BY ONLY <2>1, <2>2, <2>3
<1>7. now = PageRec(hs, cells, n, first, free)
  BY ONLY <1>1, <1>5, <1>6, PageKeysSet
<1> QED
  BY ONLY <1>3, <1>7 DEF PageHolds

LEMMA PageNotFound ==
  ASSUME NEW keys, NEW n, NEW free, NEW pg, PageHolds(pg, keys, n, free),
         NEW key \in Keys, NEW p, Between(keys, p, key), NEW id \in RecIds,
         free = 0 => HeaderSize <= Offset(n + 1),
         NEW now, now = InsertToLeafNotFound(pg, key, id, p)
  PROVE  PageHolds(now, WithId(InsertAt(keys, p, KeyEntry(key, <<>>)), p, id),
                   IF free = 0 THEN n + 1 ELSE n, IF free = 0 THEN free ELSE free - 1)
<1>1. PICK with, put : with = InsertAt(keys, p, KeyEntry(key, <<>>)) /\ put = KeyPut(pg, p, key)
  OBVIOUS
<1>2. PageHolds(put, with, n, free)
  BY ONLY <1>1, PageHolds(pg, keys, n, free), key \in Keys, Between(keys, p, key), PageKeyPut
<1>3. now = InsertToLeafFound(put, id, p)
  BY ONLY <1>1, now = InsertToLeafNotFound(pg, key, id, p), Zenon DEF InsertToLeafNotFound, KeyPut
<1>4. p \in 1 .. Len(with)
  <2>1. p \in 1 .. Len(keys) + 1 /\ keys \in Seq(KeyEntries)
    <3>1. \E heads, cells, first, own : Laid(heads, cells, n, first, own, keys, free)
      BY ONLY PageHolds(pg, keys, n, free) DEF PageHolds
    <3> QED
      BY ONLY <3>1, Between(keys, p, key) DEF Laid, Between
  <2>2. KeyEntry(key, <<>>) \in KeyEntries
    <3>1. <<>> \in Seq(RecIds)
      OBVIOUS
    <3> QED
      BY ONLY <3>1, key \in Keys, EntryOf
  <2>3. Len(with) = Len(keys) + 1
    BY ONLY <1>1, <2>1, <2>2, InsertAtIs
  <2> QED
    BY ONLY <2>1, <2>3
<1> QED
  BY ONLY <1>1, <1>2, <1>3, <1>4, id \in RecIds, free = 0 => HeaderSize <= Offset(n + 1), PageFound

(* RemoveCell, field by field: it frees the cell at m of the list.         *)
PageFreeing(heads, cells, n, first, free, p, s, m) ==
  PageRec(IF m = 1 THEN WithHead(heads, p, cells[s[m]].next) ELSE heads,
          Freed(cells, s, m, first), n, s[m], free + 1)

FirstWith(cells, s, id) ==
  CHOOSE i \in DOMAIN s : cells[s[i]].id = id /\ \A j \in 1 .. i - 1 : cells[s[j]].id # id

CellRemoved(pg, p, s, m) ==
  LET freed == [pg EXCEPT !.freeListPtr = s[m], !.numinfreeList = @ + 1,
                          !.cells[s[m]].next = pg.freeListPtr]
  IN IF m = 1 THEN [freed EXCEPT !.keys[p].head = pg.cells[s[m]].next]
     ELSE [freed EXCEPT !.cells[s[m - 1]].next = pg.cells[s[m]].next]

LEMMA PageWithoutId ==
  ASSUME NEW heads, NEW cells, NEW n, NEW first, NEW free, NEW pg,
         pg = PageRec(heads, cells, n, first, free),
         NEW id, NEW p, NEW s, s = CellList(pg, heads[p].head),
         NEW m, m = FirstWith(cells, s, id),
         Len(WithHead(heads, p, cells[s[m]].next)) = Len(heads)
  PROVE  RemoveCell(pg, id, p) = PageFreeing(heads, cells, n, first, free, p, s, m)
<1>1. PICK c, x, key, off, now :
        /\ c = s[m] /\ x = cells[c].next /\ key = HeaderSize + Len(heads) * KeySize
        /\ off = Offset(n) /\ now = [cells EXCEPT ![c].next = first]
  OBVIOUS
<1>2. /\ pg = [keys |-> heads, cells |-> cells, recIdPtr |-> off, keyPtr |-> key,
               freeListPtr |-> first, numinfreeList |-> free]
      /\ pg.keys = heads /\ pg.cells = cells /\ pg.freeListPtr = first /\ pg.numinfreeList = free
  BY ONLY <1>1, pg = PageRec(heads, cells, n, first, free) DEF PageRec
<1>3. PICK freed : freed = [pg EXCEPT !.freeListPtr = c, !.numinfreeList = @ + 1,
                                      !.cells[c].next = pg.freeListPtr]
  OBVIOUS
<1>4. RemoveCell(pg, id, p) = IF m = 1 THEN [freed EXCEPT !.keys[p].head = pg.cells[c].next]
                              ELSE [freed EXCEPT !.cells[s[m - 1]].next = pg.cells[c].next]
  <2>1. CellList(pg, pg.keys[p].head) = s
    BY ONLY <1>2, s = CellList(pg, heads[p].head)
  <2>2. FirstWith(pg.cells, s, id) = m
    BY ONLY <1>2, m = FirstWith(cells, s, id)
  <2>3. RemoveCell(pg, id, p) =
          CellRemoved(pg, p, CellList(pg, pg.keys[p].head),
                      FirstWith(pg.cells, CellList(pg, pg.keys[p].head), id))
    BY ONLY Zenon DEF RemoveCell, CellRemoved, FirstWith
  <2>4. RemoveCell(pg, id, p) = CellRemoved(pg, p, s, m)
    BY ONLY <2>1, <2>2, <2>3
  <2>5. PICK to : to = [pg EXCEPT !.freeListPtr = s[m], !.numinfreeList = @ + 1,
                                  !.cells[s[m]].next = pg.freeListPtr]
    OBVIOUS
  <2>6. to = freed
    BY ONLY <1>1, <1>3, <2>5
  <2>7. CellRemoved(pg, p, s, m) = IF m = 1 THEN [to EXCEPT !.keys[p].head = pg.cells[s[m]].next]
                                   ELSE [to EXCEPT !.cells[s[m - 1]].next = pg.cells[s[m]].next]
    BY ONLY <2>5, Zenon DEF CellRemoved
  <2> QED
    BY ONLY <1>1, <2>4, <2>6, <2>7
<1>5. freed = [keys |-> heads, cells |-> now, recIdPtr |-> off, keyPtr |-> key,
               freeListPtr |-> c, numinfreeList |-> free + 1]
  <2>1. PICK a : a = [pg EXCEPT !.freeListPtr = c]
    OBVIOUS
  <2>2. PICK b : b = [a EXCEPT !.numinfreeList = @ + 1]
    OBVIOUS
  <2>3. a = [keys |-> heads, cells |-> cells, recIdPtr |-> off, keyPtr |-> key,
             freeListPtr |-> c, numinfreeList |-> free]
    BY ONLY <1>2, <2>1
  <2>4. b = [keys |-> heads, cells |-> cells, recIdPtr |-> off, keyPtr |-> key,
             freeListPtr |-> c, numinfreeList |-> free + 1]
    BY ONLY <2>2, <2>3
  <2>5. [b EXCEPT !.cells[c].next = first] =
          [keys |-> heads, cells |-> now, recIdPtr |-> off, keyPtr |-> key,
           freeListPtr |-> c, numinfreeList |-> free + 1]
    BY ONLY <1>1, <2>4
  <2>6. freed = [b EXCEPT !.cells[c].next = first]
    BY ONLY <1>2, <1>3, <2>1, <2>2
  <2> QED
    BY ONLY <2>5, <2>6
<1>6. CASE m = 1
  <2>1. RemoveCell(pg, id, p) = [freed EXCEPT !.keys[p].head = x]
    BY ONLY <1>1, <1>2, <1>4, <1>6
  <2>2. PICK hs : hs = [heads EXCEPT ![p].head = x]
    OBVIOUS
  <2>3. RemoveCell(pg, id, p) =
          [keys |-> hs, cells |-> now, recIdPtr |-> off, keyPtr |-> key,
           freeListPtr |-> c, numinfreeList |-> free + 1]
    BY ONLY <1>5, <2>1, <2>2
  <2>4. WithHead(heads, p, cells[s[m]].next) = hs /\ Len(hs) = Len(heads)
    BY ONLY <1>1, <2>2, Len(WithHead(heads, p, cells[s[m]].next)) = Len(heads) DEF WithHead
  <2>5. Freed(cells, s, m, first) = now
    BY ONLY <1>1, <1>6 DEF Freed
  <2> QED
    BY ONLY <1>1, <1>6, <2>3, <2>4, <2>5 DEF PageFreeing, PageRec
<1>7. CASE m # 1
  <2>1. RemoveCell(pg, id, p) = [freed EXCEPT !.cells[s[m - 1]].next = x]
    BY ONLY <1>1, <1>2, <1>4, <1>7
  <2>2. PICK then : then = [now EXCEPT ![s[m - 1]].next = x]
    OBVIOUS
  <2>3. RemoveCell(pg, id, p) =
          [keys |-> heads, cells |-> then, recIdPtr |-> off, keyPtr |-> key,
           freeListPtr |-> c, numinfreeList |-> free + 1]
    BY ONLY <1>5, <2>1, <2>2
  <2>4. Freed(cells, s, m, first) = then
    BY ONLY <1>1, <1>7, <2>2 DEF Freed
  <2> QED
    BY ONLY <1>1, <1>7, <2>3, <2>4 DEF PageFreeing, PageRec
<1> QED
  BY ONLY <1>6, <1>7

LEMMA LaidHead ==
  ASSUME NEW heads, NEW cells, NEW n, NEW first, NEW own, NEW keys, NEW free,
         Laid(heads, cells, n, first, own, keys, free), NEW p \in 1 .. Len(keys)
  PROVE  heads[p].head = AM_NULL <=> keys[p].ids = <<>>
<1>1. PICK S : S = Owned(own, {keys[p].key})
  OBVIOUS
<1>2. S \subseteq CellsUpTo(n) /\ AM_NULL \notin CellsUpTo(n)
  BY ONLY <1>1, Laid(heads, cells, n, first, own, keys, free), LaidIs
<1>3. cells \in [CellsUpTo(n) -> CellEntries] /\ RowHas(cells, heads[p].head, S, keys[p].ids)
  BY ONLY <1>1, Laid(heads, cells, n, first, own, keys, free), p \in 1 .. Len(keys) DEF Laid
<1>4. /\ keys[p].ids = <<>> <=> S = {}
      /\ S = {} => heads[p].head = AM_NULL
      /\ S # {} => heads[p].head \in S
  BY ONLY <1>3, HasIds
<1> QED
  BY ONLY <1>2, <1>4

LEMMA HeadSet ==
  ASSUME NEW heads \in Seq(HeadEntries), NEW p \in 1 .. Len(heads), NEW x \in Int
  PROVE  WithHead(heads, p, x) \in Seq(HeadEntries) /\ Len(WithHead(heads, p, x)) = Len(heads)
<1>1. PICK k, hs : k = Len(heads) /\ hs = WithHead(heads, p, x)
  OBVIOUS
<1>2. /\ k \in Nat /\ DOMAIN heads = 1 .. k
      /\ \A i \in 1 .. k : heads[i] \in HeadEntries
      /\ heads[p] = [key |-> heads[p].key, head |-> heads[p].head] /\ heads[p].key \in Keys
  BY ONLY <1>1, HeadIs, p \in 1 .. Len(heads), heads \in Seq(HeadEntries)
<1>3. hs = [heads EXCEPT ![p] = [heads[p] EXCEPT !.head = x]]
  BY ONLY <1>1 DEF WithHead
<1>4. PICK h : h = [heads[p] EXCEPT !.head = x]
  OBVIOUS
<1>5. h = [key |-> heads[p].key, head |-> x]
  BY ONLY <1>2, <1>4
<1>6. h \in HeadEntries
  BY ONLY <1>2, <1>5, x \in Int DEF HeadEntries
<1>7. hs \in [1 .. k -> HeadEntries]
  BY ONLY <1>1, <1>2, <1>3, <1>4, <1>6, p \in 1 .. Len(heads)
<1> QED
  BY ONLY <1>1, <1>2, <1>7

LEMMA FirstWithIs ==
  ASSUME NEW cells, NEW S, NEW s \in Seq(S), NEW id, NEW i \in 1 .. Len(s), cells[s[i]].id = id,
         NEW m, m = FirstWith(cells, s, id)
  PROVE  /\ m \in 1 .. Len(s) /\ cells[s[m]].id = id
         /\ \A j \in 1 .. Len(s) : j < m => cells[s[j]].id # id
<1>1. Len(s) \in Nat /\ DOMAIN s = 1 .. Len(s)
  BY SeqIs
<1>2. PICK T : T = {j \in 1 .. Len(s) : cells[s[j]].id = id}
  OBVIOUS
<1>3. T \in SUBSET Nat /\ T # {}
  BY ONLY <1>1, <1>2, i \in 1 .. Len(s), cells[s[i]].id = id
<1>4. PICK k \in T : \A j \in T : k <= j
  BY ONLY <1>3, LeastNumber
<1>5. k \in 1 .. Len(s) /\ k \in Nat /\ cells[s[k]].id = id
  BY ONLY <1>1, <1>2, <1>4
<1>6. \A j \in 1 .. Len(s) : j < k => cells[s[j]].id # id
  <2>1. \A j \in 1 .. Len(s) : j \in Int /\ (j \in T <=> cells[s[j]].id = id)
    BY ONLY <1>1, <1>2
  <2> QED
    BY ONLY <1>4, <1>5, <2>1
<1>7. \A j \in 1 .. k - 1 : cells[s[j]].id # id
  BY ONLY <1>1, <1>5, <1>6
<1>8. \A l \in DOMAIN s :
        (cells[s[l]].id = id /\ \A j \in 1 .. l - 1 : cells[s[j]].id # id) <=> l = k
  <2>1. ASSUME NEW l \in 1 .. Len(s), cells[s[l]].id = id, \A j \in 1 .. l - 1 : cells[s[j]].id # id
        PROVE  l = k
    <3>1. ~(l < k)
      BY ONLY <1>6, <2>1
    <3>2. ~(k < l)
      BY ONLY <1>1, <1>5, <2>1
    <3> QED
      BY ONLY <1>1, <1>5, <3>1, <3>2, l \in 1 .. Len(s)
  <2> QED
    BY ONLY <1>1, <1>5, <1>7, <2>1
<1>9. k = CHOOSE l \in DOMAIN s : cells[s[l]].id = id /\ \A j \in 1 .. l - 1 : cells[s[j]].id # id
  BY ONLY <1>1, <1>5, <1>8
<1>10. m = k
  BY ONLY <1>9, m = FirstWith(cells, s, id) DEF FirstWith
<1> QED
  BY ONLY <1>5, <1>6, <1>10

LEMMA PageFreed ==
  ASSUME NEW keys, NEW n, NEW free, NEW pg, PageHolds(pg, keys, n, free),
         NEW p \in 1 .. Len(keys), NEW id, Contains(keys[p].ids, id),
         NEW now, now = RemoveCell(pg, id, p),
         NEW rest, rest = RemoveFirst(keys[p].ids, id)
  PROVE  /\ PageHolds(now, SetIds(keys, p, rest), n, free + 1)
         /\ now.keys[p].head = AM_NULL <=> rest = <<>>
         /\ rest \in Seq(RecIds)
<1>1. PICK heads, cells, first, own :
        pg = PageRec(heads, cells, n, first, free) /\ Laid(heads, cells, n, first, own, keys, free)
  BY ONLY PageHolds(pg, keys, n, free) DEF PageHolds
<1>2. /\ Len(keys) \in Nat /\ DOMAIN keys = 1 .. Len(keys)
      /\ \A c \in CellsUpTo(n) : cells[c].next \in Int
      /\ \A who : Owned(own, who) \subseteq CellsUpTo(n)
  BY ONLY <1>1, LaidIs
<1>3. /\ heads \in Seq(HeadEntries) /\ Len(heads) = Len(keys) /\ keys \in Seq(KeyEntries)
      /\ cells \in [CellsUpTo(n) -> CellEntries]
  BY ONLY <1>1 DEF Laid
<1>4. PICK s, S, ids : /\ s = CellList(pg, heads[p].head) /\ S = Owned(own, {keys[p].key})
                       /\ ids = keys[p].ids
  OBVIOUS
<1>5. IsRow(cells, heads[p].head, s, S) /\ ids = IdsAt(cells, s)
  <2>1. CellLists(pg, heads, first, own, keys, free)
    BY ONLY <1>1, PageLists
  <2>2. pg.cells = cells
    BY ONLY <1>1, PageParts
  <2> QED
    BY ONLY <1>4, <2>1, <2>2, p \in 1 .. Len(keys) DEF CellLists
<1>6. s \in Seq(S) /\ S \subseteq CellsUpTo(n)
  BY ONLY <1>2, <1>4, <1>5 DEF IsRow
<1>7. /\ ids \in Seq(RecIds) /\ Len(ids) = Len(s) /\ Len(s) \in Nat
      /\ \A i \in 1 .. Len(s) : s[i] \in S /\ ids[i] = cells[s[i]].id
  BY ONLY <1>3, <1>5, <1>6, IdsAre
<1>8. PICK i \in 1 .. Len(s) : cells[s[i]].id = id
  <2>1. \E i \in 1 .. Len(ids) : ids[i] = id
    BY ONLY <1>4, Contains(keys[p].ids, id) DEF Contains
  <2> QED
    BY ONLY <1>7, <2>1
<1>9. PICK m : m = FirstWith(cells, s, id)
  OBVIOUS
<1>10. /\ m \in 1 .. Len(s) /\ cells[s[m]].id = id
       /\ \A j \in 1 .. Len(s) : j < m => cells[s[j]].id # id
  BY ONLY <1>6, <1>8, <1>9, FirstWithIs
<1>11. rest = RemoveAt(ids, m) /\ rest \in Seq(RecIds)
  <2>1. m \in 1 .. Len(ids) /\ ids[m] = id /\ \A j \in 1 .. Len(ids) : j < m => ids[j] # id
    BY ONLY <1>7, <1>10
  <2>2. RemoveFirst(ids, id) = RemoveAt(ids, m)
    BY ONLY <1>7, <2>1, FirstRemoved
  <2>3. RemoveAt(ids, m) \in Seq(RecIds)
    <3>1. m \in DOMAIN ids
      BY ONLY <1>7, <2>1
    <3> QED
      BY ONLY <1>7, <3>1, RemoveAtIs
  <2> QED
    BY ONLY <1>4, <2>2, <2>3, rest = RemoveFirst(keys[p].ids, id)
<1>12. PICK hs : hs = IF m = 1 THEN WithHead(heads, p, cells[s[m]].next) ELSE heads
  OBVIOUS
<1>13. Len(WithHead(heads, p, cells[s[m]].next)) = Len(heads)
  <2>1. cells[s[m]].next \in Int
    BY ONLY <1>2, <1>6, <1>7, <1>10
  <2>2. p \in 1 .. Len(heads)
    BY ONLY <1>3, p \in 1 .. Len(keys)
  <2> QED
    BY ONLY <1>3, <2>1, <2>2, HeadSet
<1>14. now = PageRec(hs, Freed(cells, s, m, first), n, s[m], free + 1)
  <2>1. pg = PageRec(heads, cells, n, first, free)
    BY ONLY <1>1
  <2>2. RemoveCell(pg, id, p) = PageFreeing(heads, cells, n, first, free, p, s, m)
    BY ONLY <1>4, <1>9, <1>13, <2>1, PageWithoutId
  <2> QED
    BY ONLY <1>12, <2>2, now = RemoveCell(pg, id, p) DEF PageFreeing
<1>15. PICK own2 : Laid(hs, Freed(cells, s, m, first), n, s[m], own2, SetIds(keys, p, rest), free + 1)
  <2>1. /\ IsRow(cells, heads[p].head, s, Owned(own, {keys[p].key})) /\ keys[p].ids = IdsAt(cells, s)
        /\ m \in 1 .. Len(s)
    BY ONLY <1>4, <1>5, <1>10
  <2>2. \E own2 : Laid(IF m = 1 THEN [heads EXCEPT ![p].head = cells[s[m]].next] ELSE heads,
                       Freed(cells, s, m, first), n, s[m], own2,
                       SetIds(keys, p, RemoveAt(keys[p].ids, m)), free + 1)
    BY ONLY <1>1, <2>1, p \in 1 .. Len(keys), CellFreed
  <2> QED
    BY ONLY <1>4, <1>11, <1>12, <2>2 DEF WithHead
<1>16. now.keys[p].head = AM_NULL <=> rest = <<>>
  <2>1. now.keys = hs
    BY ONLY <1>14, PageParts
  <2>2. PICK ks : ks = SetIds(keys, p, rest)
    OBVIOUS
  <2>3. ks[p].ids = rest /\ p \in 1 .. Len(ks)
    <3>1. DOMAIN ks = 1 .. Len(keys)
      BY ONLY <1>2, <2>2 DEF SetIds
    <3>2. ks \in Seq(KeyEntries)
      BY ONLY <1>15, <2>2 DEF Laid
    <3>3. Len(ks) = Len(keys)
      BY ONLY <1>2, <3>1, <3>2, SameLength
    <3>4. keys[p] = KeyEntry(keys[p].key, keys[p].ids)
      BY ONLY <1>3, p \in 1 .. Len(keys), KeysAre
    <3>5. ks[p] = [keys[p] EXCEPT !.ids = rest]
      BY ONLY <1>2, <2>2, p \in 1 .. Len(keys) DEF SetIds
    <3>6. ks[p].ids = rest
      BY ONLY <3>4, <3>5 DEF KeyEntry
    <3> QED
      BY ONLY <3>3, <3>6, p \in 1 .. Len(keys)
  <2>4. hs[p].head = AM_NULL <=> ks[p].ids = <<>>
    BY ONLY <1>15, <2>2, <2>3, LaidHead
  <2> QED
    BY ONLY <2>1, <2>3, <2>4
<1> QED
  BY ONLY <1>11, <1>14, <1>15, <1>16 DEF PageHolds

-----------------------------------------------------------------------------
(***************************************************************************)
(* All the cells: those of the keys' lists and those of the free list.     *)
(***************************************************************************)

(* lists has the cells of the keys, last the free ones.                    *)
CellsSplit(pg, heads, first, lists, last) ==
  /\ lists = [i \in DOMAIN heads |-> CellList(pg, heads[i].head)]
  /\ last = CellList(pg, first)

(* No cell is in f twice, and those in f are of keys.                      *)
OnlyOnce(f, own) ==
  \A p, q \in 1 .. Len(f) : own[f[p]] # {} /\ (p # q => f[p] # f[q])

(* s goes through the cells that are whose, one by one.                    *)
AllOf(s, D, own, whose) ==
  /\ s \in Seq(D)
  /\ \A j \in 1 .. Len(s) : s[j] \in D /\ own[s[j]] = whose
  /\ \A j, l \in 1 .. Len(s) : s[j] = s[l] => j = l
  /\ \A c \in D : own[c] = whose => \E j \in 1 .. Len(s) : s[j] = c

CellsListed(lists, last, D, own, keys, free) ==
  /\ lists \in Seq(Seq(D)) /\ Len(lists) = Len(keys) /\ Len(keys) \in Nat
  /\ \A i \in 1 .. Len(keys) : /\ Len(lists[i]) = Len(keys[i].ids)
                               /\ AllOf(lists[i], D, own, {keys[i].key})
  /\ AllOf(last, D, own, {}) /\ Len(last) = free

LEMMA ListsOfCells ==
  ASSUME NEW heads, NEW cells, NEW n, NEW first, NEW own, NEW keys, NEW free, NEW pg,
         pg = PageRec(heads, cells, n, first, free), Laid(heads, cells, n, first, own, keys, free),
         NEW lists, NEW last, CellsSplit(pg, heads, first, lists, last)
  PROVE  CellsListed(lists, last, CellsUpTo(n), own, keys, free)
<1>1. PICK D, m : D = CellsUpTo(n) /\ m = Len(keys)
  OBVIOUS
<1>2. m \in Nat /\ DOMAIN heads = 1 .. m
  BY ONLY <1>1, Laid(heads, cells, n, first, own, keys, free), LaidIs
<1>3. cells \in [D -> CellEntries] /\ DOMAIN own = D
  BY ONLY <1>1, Laid(heads, cells, n, first, own, keys, free) DEF Laid
<1>4. lists = [i \in 1 .. m |-> CellList(pg, heads[i].head)] /\ last = CellList(pg, first)
  BY ONLY <1>2, CellsSplit(pg, heads, first, lists, last) DEF CellsSplit
<1>5. CellLists(pg, heads, first, own, keys, free)
  BY ONLY pg = PageRec(heads, cells, n, first, free), Laid(heads, cells, n, first, own, keys, free),
          PageLists
<1>6. pg.cells = cells
  BY ONLY pg = PageRec(heads, cells, n, first, free), PageParts
<1>7. ASSUME NEW head, NEW s, NEW who, IsRow(cells, head, s, Owned(own, who))
      PROVE  AllOf(s, D, own, who) /\ Len(IdsAt(cells, s)) = Len(s)
  <2>1. PICK S : S = Owned(own, who)
    OBVIOUS
  <2>2. /\ s \in Seq(S) /\ \A c \in S : \E j \in 1 .. Len(s) : s[j] = c
        /\ \A j, l \in 1 .. Len(s) : s[j] = s[l] => j = l
    BY ONLY <1>7, <2>1 DEF IsRow
  <2>3. S \subseteq D /\ \A c \in D : c \in S <=> own[c] = who
    BY ONLY <1>3, <2>1 DEF Owned
  <2>4. \A j \in 1 .. Len(s) : s[j] \in S
    BY ONLY <2>2, SeqIs
  <2>5. s \in Seq(D)
    BY ONLY <2>2, <2>3
  <2>6. Len(IdsAt(cells, s)) = Len(s)
    BY ONLY <1>3, <2>2, <2>3, IdsAre
  <2> QED
    BY ONLY <2>2, <2>3, <2>4, <2>5, <2>6 DEF AllOf
<1>8. ASSUME NEW i \in 1 .. m
      PROVE  Len(lists[i]) = Len(keys[i].ids) /\ AllOf(lists[i], D, own, {keys[i].key})
  <2>1. PICK t, who : t = lists[i] /\ who = {keys[i].key}
    OBVIOUS
  <2>2. IsRow(cells, heads[i].head, t, Owned(own, who)) /\ keys[i].ids = IdsAt(cells, t)
    BY ONLY <1>1, <1>4, <1>5, <1>6, <2>1, i \in 1 .. m DEF CellLists
  <2>3. AllOf(t, D, own, who) /\ Len(IdsAt(cells, t)) = Len(t)
    BY ONLY <1>7, <2>2
  <2> QED
    BY ONLY <2>1, <2>2, <2>3
<1>9. lists \in Seq(Seq(D)) /\ Len(lists) = m
  <2>1. lists \in [1 .. m -> Seq(D)]
    BY ONLY <1>4, <1>8 DEF AllOf
  <2> QED
    BY ONLY <1>2, <2>1
<1>10. IsRow(cells, first, last, Owned(own, {})) /\ Len(last) = free
  BY ONLY <1>4, <1>5, <1>6 DEF CellLists
<1>11. AllOf(last, D, own, {})
  BY ONLY <1>7, <1>10
<1> QED
  BY ONLY <1>1, <1>2, <1>8, <1>9, <1>10, <1>11 DEF CellsListed

LEMMA CellsOfKeys ==
  ASSUME NEW heads, NEW cells, NEW n, NEW first, NEW own, NEW keys, NEW free, NEW pg,
         pg = PageRec(heads, cells, n, first, free), Laid(heads, cells, n, first, own, keys, free),
         NEW lists, NEW last, CellsSplit(pg, heads, first, lists, last),
         NEW f, f = FlattenSeq(lists)
  PROVE  /\ f \in Seq(CellsUpTo(n)) /\ Len(f) = Count(keys) /\ OnlyOnce(f, own)
         /\ \A c \in CellsUpTo(n) : own[c] # {} => \E p \in 1 .. Len(f) : f[p] = c
<1>1. PICK D, m : D = CellsUpTo(n) /\ m = Len(keys)
  OBVIOUS
<1>2. /\ lists \in Seq(Seq(D)) /\ Len(lists) = m /\ m \in Nat
      /\ \A i \in 1 .. m : Len(lists[i]) = Len(keys[i].ids) /\ AllOf(lists[i], D, own, {keys[i].key})
  <2>1. CellsListed(lists, last, CellsUpTo(n), own, keys, free)
    BY ONLY pg = PageRec(heads, cells, n, first, free),
            Laid(heads, cells, n, first, own, keys, free),
            CellsSplit(pg, heads, first, lists, last), ListsOfCells
  <2> QED
    BY ONLY <1>1, <2>1 DEF CellsListed
<1>3. /\ keys \in Seq(KeyEntries)
      /\ \A c \in D : own[c] = {} \/ \E i \in 1 .. m : own[c] = {keys[i].key}
  BY ONLY <1>1, Laid(heads, cells, n, first, own, keys, free) DEF Laid
<1>4. \A i, j \in 1 .. m : keys[i].key = keys[j].key => i = j
  BY ONLY <1>1, Laid(heads, cells, n, first, own, keys, free), LaidIs
<1>5. /\ f \in Seq(D)
      /\ \A k, j : InLists(lists, k, j) => \E p \in 1 .. Len(f) : f[p] = lists[k][j]
      /\ \A p \in 1 .. Len(f) : \E k, j : InLists(lists, k, j) /\ f[p] = lists[k][j]
      /\ \A p, q \in 1 .. Len(f) : p < q =>
           \E k, j, l, h :
             /\ InLists(lists, k, j) /\ f[p] = lists[k][j]
             /\ InLists(lists, l, h) /\ f[q] = lists[l][h]
             /\ Sooner(k, j, l, h)
  <2>1. HasAllOf(f, D, lists)
    BY ONLY <1>2, f = FlattenSeq(lists), FlattenOrder
  <2> QED
    BY ONLY <2>1 DEF HasAllOf
<1>6. \A k, j : InLists(lists, k, j) =>
        k \in 1 .. m /\ j \in 1 .. Len(lists[k]) /\ own[lists[k][j]] = {keys[k].key}
  BY ONLY <1>2 DEF InLists, AllOf
<1>7. Len(f) \in Nat
  BY ONLY <1>5, SeqIs
<1>8. ASSUME NEW p \in 1 .. Len(f), NEW q \in 1 .. Len(f), p < q PROVE f[p] # f[q]
  <2>1. PICK k, j, l, h :
          /\ InLists(lists, k, j) /\ f[p] = lists[k][j]
          /\ InLists(lists, l, h) /\ f[q] = lists[l][h]
          /\ Sooner(k, j, l, h)
    BY ONLY <1>5, <1>8
  <2>2. /\ k \in 1 .. m /\ j \in 1 .. Len(lists[k]) /\ l \in 1 .. m /\ h \in 1 .. Len(lists[l])
        /\ own[lists[k][j]] = {keys[k].key} /\ own[lists[l][h]] = {keys[l].key}
    BY ONLY <1>6, <2>1
  <2>3. CASE k # l
    <3>1. own[f[p]] = {keys[k].key} /\ own[f[q]] = {keys[l].key}
      BY ONLY <2>1, <2>2
    <3>2. {keys[k].key} # {keys[l].key}
      BY ONLY <1>4, <2>2, <2>3
    <3> QED
      BY ONLY <3>1, <3>2
  <2>4. CASE k = l
    <3>1. j # h
      <4>1. k \in Int /\ Len(lists[k]) \in Nat
        <5>1. lists[k] \in Seq(D)
          BY ONLY <1>2, <2>2, SeqIs
        <5> QED
          BY ONLY <1>2, <2>2, <5>1, SeqIs
      <4> QED
        BY ONLY <2>1, <2>2, <2>4, <4>1 DEF Sooner
    <3> QED
      BY ONLY <1>2, <2>1, <2>2, <2>4, <3>1 DEF AllOf
  <2> QED
    BY ONLY <2>3, <2>4
<1>9. OnlyOnce(f, own)
  <2>1. ASSUME NEW p \in 1 .. Len(f) PROVE own[f[p]] # {}
    <3>1. PICK k, j : InLists(lists, k, j) /\ f[p] = lists[k][j]
      BY ONLY <1>5
    <3>2. own[f[p]] = {keys[k].key}
      BY ONLY <1>6, <3>1
    <3> QED
      BY ONLY <3>2
  <2>2. \A p, q \in 1 .. Len(f) : p # q => p < q \/ q < p
    BY ONLY <1>7
  <2> QED
    BY ONLY <1>8, <2>1, <2>2 DEF OnlyOnce
<1>10. ASSUME NEW c \in D, own[c] # {} PROVE \E p \in 1 .. Len(f) : f[p] = c
  <2>1. PICK i \in 1 .. m : own[c] = {keys[i].key}
    BY ONLY <1>3, <1>10
  <2>2. PICK j \in 1 .. Len(lists[i]) : lists[i][j] = c
    BY ONLY <1>2, <2>1 DEF AllOf
  <2>3. InLists(lists, i, j)
    BY ONLY <1>2 DEF InLists
  <2> QED
    BY ONLY <1>5, <2>2, <2>3
<1>11. Len(f) = Count(keys)
  <2>1. PICK ls : ls = ListsOf(keys)
    OBVIOUS
  <2>2. /\ ls \in Seq(Seq(RecIds)) /\ Len(ls) = m /\ Count(keys) = Len(FlattenSeq(ls))
        /\ \A i \in 1 .. m : ls[i] = keys[i].ids
    BY ONLY <1>1, <1>3, <2>1, ListsOfKeys
  <2>3. PICK sum \in [0 .. Len(lists) -> Nat] : Sums(lists, sum)
    BY ONLY <1>2, SumsExist
  <2>4. Len(f) = sum[m]
    BY ONLY <1>2, <2>3, f = FlattenSeq(lists), FlattenLength
  <2>5. sum \in [0 .. Len(ls) -> Nat] /\ Sums(ls, sum)
    <3>1. sum \in [0 .. Len(ls) -> Nat]
      BY ONLY <1>2, <2>2, <2>3
    <3>2. \A i \in 1 .. m : Len(ls[i]) = Len(lists[i])
      BY ONLY <1>2, <2>2
    <3>3. sum[0] = 0 /\ \A i \in 1 .. m : sum[i] = sum[i - 1] + Len(lists[i])
      BY ONLY <1>2, <2>3 DEF Sums
    <3>4. sum[0] = 0 /\ \A i \in 1 .. m : sum[i] = sum[i - 1] + Len(ls[i])
      BY ONLY <3>2, <3>3
    <3> QED
      BY ONLY <2>2, <3>1, <3>4 DEF Sums
  <2>6. Len(FlattenSeq(ls)) = sum[m]
    BY ONLY <2>2, <2>5, FlattenLength
  <2> QED
    BY ONLY <2>2, <2>4, <2>6
<1> QED
  BY ONLY <1>1, <1>5, <1>9, <1>10, <1>11

(* Every cell is in one list, and in it once.                              *)
AllCounted(all, last, keys, n, free) ==
  Len(all) = n /\ ToSet(all) = CellsUpTo(n) /\ Count(keys) + free = n /\ Len(last) = free

LEMMA CellsCounted ==
  ASSUME NEW heads, NEW cells, NEW n, NEW first, NEW own, NEW keys, NEW free, NEW pg,
         pg = PageRec(heads, cells, n, first, free), Laid(heads, cells, n, first, own, keys, free),
         NEW lists, NEW last, CellsSplit(pg, heads, first, lists, last),
         NEW all, all = FlattenSeq(lists) \o last
  PROVE  AllCounted(all, last, keys, n, free)
<1>1. PICK D, f, a : D = CellsUpTo(n) /\ f = FlattenSeq(lists) /\ a = Count(keys)
  OBVIOUS
<1>2. /\ f \in Seq(D) /\ Len(f) = a /\ OnlyOnce(f, own)
      /\ \A c \in D : own[c] # {} => \E p \in 1 .. a : f[p] = c
  <2>1. /\ f \in Seq(CellsUpTo(n)) /\ Len(f) = Count(keys) /\ OnlyOnce(f, own)
        /\ \A c \in CellsUpTo(n) : own[c] # {} => \E p \in 1 .. Len(f) : f[p] = c
    <3>1. f = FlattenSeq(lists)
      BY ONLY <1>1
    <3> QED
      BY ONLY <3>1, pg = PageRec(heads, cells, n, first, free),
              Laid(heads, cells, n, first, own, keys, free),
              CellsSplit(pg, heads, first, lists, last), CellsOfKeys
  <2> QED
    BY ONLY <1>1, <2>1
<1>3. AllOf(last, D, own, {}) /\ Len(last) = free
  <2>1. CellsListed(lists, last, CellsUpTo(n), own, keys, free)
    BY ONLY pg = PageRec(heads, cells, n, first, free),
            Laid(heads, cells, n, first, own, keys, free),
            CellsSplit(pg, heads, first, lists, last), ListsOfCells
  <2> QED
    BY ONLY <1>1, <2>1 DEF CellsListed
<1>4. /\ last \in Seq(D) /\ \A j \in 1 .. free : last[j] \in D /\ own[last[j]] = {}
      /\ \A j, l \in 1 .. free : last[j] = last[l] => j = l
      /\ \A c \in D : own[c] = {} => \E j \in 1 .. free : last[j] = c
  BY ONLY <1>3 DEF AllOf
<1>5. a \in Nat /\ free \in Nat
  BY ONLY <1>2, <1>3, <1>4, SeqIs
<1>6. /\ all \in Seq(D) /\ Len(all) = a + free
      /\ \A i \in 1 .. a + free : all[i] = IF i <= a THEN f[i] ELSE last[i - a]
  <2>1. all = f \o last
    BY ONLY <1>1, all = FlattenSeq(lists) \o last
  <2> QED
    BY ONLY <1>2, <1>3, <1>4, <2>1, ConcatIs
<1>7. \A i \in 1 .. a + free : all[i] \in D
  BY ONLY <1>6, SeqIs
<1>8. \A p, q \in 1 .. a : own[f[p]] # {} /\ (p # q => f[p] # f[q])
  BY ONLY <1>2 DEF OnlyOnce
<1>9. \A i, j \in 1 .. a + free : all[i] = all[j] => i = j
  <2>1. ASSUME NEW i \in 1 .. a + free, NEW j \in 1 .. a + free, i # j PROVE all[i] # all[j]
    <3>1. CASE i <= a /\ j <= a
      BY ONLY <1>5, <1>6, <1>8, <2>1, <3>1
    <3>2. CASE ~(i <= a) /\ ~(j <= a)
      <4>1. i - a \in 1 .. free /\ j - a \in 1 .. free /\ i - a # j - a
        BY ONLY <1>5, <2>1, <3>2
      <4> QED
        BY ONLY <1>4, <1>6, <2>1, <3>2, <4>1
    <3>3. CASE i <= a /\ ~(j <= a)
      <4>1. i \in 1 .. a /\ j - a \in 1 .. free
        BY ONLY <1>5, <2>1, <3>3
      <4>2. all[i] = f[i] /\ all[j] = last[j - a]
        BY ONLY <1>6, <2>1, <3>3
      <4>3. own[f[i]] # {} /\ own[last[j - a]] = {}
        BY ONLY <1>4, <1>8, <4>1
      <4> QED
        BY ONLY <4>2, <4>3
    <3>4. CASE ~(i <= a) /\ j <= a
      <4>1. i - a \in 1 .. free /\ j \in 1 .. a
        BY ONLY <1>5, <2>1, <3>4
      <4>2. all[i] = last[i - a] /\ all[j] = f[j]
        BY ONLY <1>6, <2>1, <3>4
      <4>3. own[f[j]] # {} /\ own[last[i - a]] = {}
        BY ONLY <1>4, <1>8, <4>1
      <4> QED
        BY ONLY <4>2, <4>3
    <3> QED
      BY ONLY <3>1, <3>2, <3>3, <3>4
  <2> QED
    BY ONLY <2>1
<1>10. ASSUME NEW c \in D PROVE \E i \in 1 .. a + free : all[i] = c
  <2>1. CASE own[c] = {}
    <3>1. PICK j \in 1 .. free : last[j] = c
      BY ONLY <1>4, <2>1
    <3>2. a + j \in 1 .. a + free /\ ~(a + j <= a) /\ (a + j) - a = j
      BY ONLY <1>5, <3>1
    <3> QED
      BY ONLY <1>6, <3>1, <3>2
  <2>2. CASE own[c] # {}
    <3>1. PICK p \in 1 .. a : f[p] = c
      BY ONLY <1>2, <2>2
    <3>2. p \in 1 .. a + free /\ p <= a
      BY ONLY <1>5, <3>1
    <3> QED
      BY ONLY <1>6, <3>1, <3>2
  <2> QED
    BY ONLY <2>1, <2>2
<1>11. DOMAIN all = 1 .. a + free
  BY ONLY <1>6, SeqIs
<1>12. ToSet(all) = D
  BY ONLY <1>7, <1>10, <1>11 DEF ToSet
<1>13. a + free = n
  <2>1. all \in [1 .. a + free -> D] /\ a + free \in Nat
    BY ONLY <1>5, <1>6, <1>7, <1>11
  <2>2. Cardinality(D) = a + free
    BY ONLY <1>9, <1>10, <2>1, NumberOf
  <2>3. n \in Nat /\ HeaderSize <= Offset(n)
    BY ONLY Laid(heads, cells, n, first, own, keys, free) DEF Laid
  <2>4. Cardinality(D) = n
    BY ONLY <1>1, <2>3, CellsAre
  <2> QED
    BY ONLY <2>2, <2>4
<1>14. Len(all) = n /\ ToSet(all) = CellsUpTo(n) /\ Count(keys) + free = n /\ Len(last) = free
  BY ONLY <1>1, <1>3, <1>6, <1>12, <1>13
<1> QED
  BY ONLY <1>14 DEF AllCounted

-----------------------------------------------------------------------------
(***************************************************************************)
(* Compaction: the lists of the keys, one behind the other.                *)
(***************************************************************************)

(* ids are the record ids of the keys, and those of the first j keys are   *)
(* the first sum[j].                                                       *)
PackedBy(keys, sum, ids) ==
  /\ keys \in Seq(KeyEntries) /\ sum \in [0 .. Len(keys) -> Nat]
  /\ sum[0] = 0 /\ \A k \in 1 .. Len(keys) : sum[k] = sum[k - 1] + Len(keys[k].ids)
  /\ Rises(sum, Len(keys))
  /\ ids \in Seq(RecIds) /\ Len(ids) = sum[Len(keys)] /\ Len(ids) = Count(keys)
  /\ \A k \in 1 .. Len(keys) : \A j \in 1 .. Len(keys[k].ids) :
       sum[k - 1] + j \in 1 .. Len(ids) /\ ids[sum[k - 1] + j] = keys[k].ids[j]

LEMMA PackingExists ==
  ASSUME NEW keys \in Seq(KeyEntries)
  PROVE  \E sum : PackedBy(keys, sum, FlattenSeq(ListsOf(keys)))
<1>1. PICK lists, m, ids : lists = ListsOf(keys) /\ m = Len(keys) /\ ids = FlattenSeq(lists)
  OBVIOUS
<1>2. /\ lists \in Seq(Seq(RecIds)) /\ Len(lists) = m /\ m \in Nat
      /\ \A k \in 1 .. m : lists[k] = keys[k].ids
      /\ Count(keys) = Len(ids)
  BY ONLY <1>1, keys \in Seq(KeyEntries), ListsOfKeys
<1>3. PICK sum \in [0 .. Len(lists) -> Nat] : Sums(lists, sum)
  BY ONLY <1>2, SumsExist
<1>4. sum[0] = 0 /\ \A k \in 1 .. m : sum[k] = sum[k - 1] + Len(keys[k].ids)
  BY ONLY <1>2, <1>3 DEF Sums
<1>5. Rises(sum, m)
  <2>1. Rises(sum, Len(lists))
    BY ONLY <1>2, <1>3, SumsRise
  <2> QED
    BY ONLY <1>2, <2>1
<1>6. /\ ids \in Seq(RecIds) /\ Len(ids) = sum[m]
      /\ \A k \in 1 .. m : \A j \in 1 .. Len(lists[k]) :
           sum[k - 1] + j \in 1 .. sum[m] /\ ids[sum[k - 1] + j] = lists[k][j]
  <2>1. /\ FlattenSeq(lists) \in Seq(RecIds)
        /\ Len(FlattenSeq(lists)) = sum[Len(lists)]
        /\ \A k \in 1 .. Len(lists) : \A j \in 1 .. Len(lists[k]) :
             /\ sum[k - 1] + j \in 1 .. sum[Len(lists)]
             /\ FlattenSeq(lists)[sum[k - 1] + j] = lists[k][j]
    <3>1. lists \in Seq(Seq(RecIds))
      BY ONLY <1>2
    <3> QED
      BY ONLY <1>3, <3>1, FlattenPlaces
  <2> QED
    BY ONLY <1>1, <1>2, <2>1
<1>7. ASSUME NEW k \in 1 .. m, NEW j \in 1 .. Len(keys[k].ids)
      PROVE  sum[k - 1] + j \in 1 .. Len(ids) /\ ids[sum[k - 1] + j] = keys[k].ids[j]
  <2>1. lists[k] = keys[k].ids
    BY ONLY <1>2
  <2>2. j \in 1 .. Len(lists[k])
    BY ONLY <2>1, j \in 1 .. Len(keys[k].ids)
  <2>3. sum[k - 1] + j \in 1 .. sum[m] /\ ids[sum[k - 1] + j] = lists[k][j] /\ Len(ids) = sum[m]
    BY ONLY <1>6, <2>2
  <2> QED
    BY ONLY <2>1, <2>3
<1>8. sum \in [0 .. m -> Nat]
  BY ONLY <1>2, <1>3
<1>9. Len(ids) = Count(keys)
  BY ONLY <1>2
<1>10. PackedBy(keys, sum, ids)
  <2>1. ids \in Seq(RecIds) /\ Len(ids) = sum[m]
    BY ONLY <1>6
  <2> QED
    BY ONLY <1>1, <1>4, <1>5, <1>7, <1>8, <1>9, <2>1, keys \in Seq(KeyEntries) DEF PackedBy
<1> QED
  BY ONLY <1>1, <1>10

(* The number of the cell at an offset, and what compaction puts there.    *)
NumberAt(c) == (PageSize - c) \div CellSize
Ends(keys, sum) == {sum[k] : k \in 1 .. Len(keys)}
PackedCell(ids, ends, k) ==
  [id |-> ids[k], next |-> IF k \in ends THEN AM_NULL ELSE Offset(k + 1)]
PackedCells(ids, ends) ==
  [c \in CellsUpTo(Len(ids)) |-> PackedCell(ids, ends, NumberAt(c))]
PackedHeads(keys, sum) ==
  [k \in 1 .. Len(keys) |-> [key |-> keys[k].key, head |-> Offset(sum[k - 1] + 1)]]
CellsFrom(low, high) == {Offset(k) : k \in low + 1 .. high}

LEMMA NumberAtOffset ==
  ASSUME NEW k \in Nat
  PROVE  NumberAt(Offset(k)) = k
<1>1. PageSize - Offset(k) = k * CellSize
  BY OffsetIs
<1>2. (k * CellSize) \div CellSize = k
  BY WholeCells
<1> QED
  BY ONLY <1>1, <1>2 DEF NumberAt

LEMMA PackedIs ==
  ASSUME NEW keys, NEW sum, NEW ids, PackedBy(keys, sum, ids),
         NEW cells, cells = PackedCells(ids, Ends(keys, sum))
  PROVE  /\ DOMAIN cells = CellsUpTo(Len(ids)) /\ Len(ids) \in Nat
         /\ \A k \in 1 .. Len(ids) : cells[Offset(k)] = PackedCell(ids, Ends(keys, sum), k)
         /\ cells \in [CellsUpTo(Len(ids)) -> CellEntries]
<1>1. ids \in Seq(RecIds)
  BY ONLY PackedBy(keys, sum, ids) DEF PackedBy
<1>2. PICK n, ends : n = Len(ids) /\ ends = Ends(keys, sum)
  OBVIOUS
<1>3. n \in Nat /\ \A k \in 1 .. n : ids[k] \in RecIds
  BY ONLY <1>1, <1>2, SeqIs
<1>4. cells = [c \in CellsUpTo(n) |-> PackedCell(ids, ends, NumberAt(c))]
  BY ONLY <1>2, cells = PackedCells(ids, Ends(keys, sum)) DEF PackedCells
<1>5. ASSUME NEW k \in 1 .. n PROVE cells[Offset(k)] = PackedCell(ids, ends, k)
  <2>1. Offset(k) \in CellsUpTo(n)
    BY ONLY k \in 1 .. n DEF CellsUpTo
  <2>2. NumberAt(Offset(k)) = k
    <3>1. k \in Nat
      BY ONLY <1>3, k \in 1 .. n
    <3> QED
      BY ONLY <3>1, NumberAtOffset
  <2> QED
    BY ONLY <1>4, <2>1, <2>2
<1>6. ASSUME NEW k \in 1 .. n PROVE PackedCell(ids, ends, k) \in CellEntries
  <2>1. k + 1 \in Nat /\ ids[k] \in RecIds
    BY ONLY <1>3, k \in 1 .. n
  <2>2. Offset(k + 1) \in Int
    BY ONLY <2>1, OffsetIs
  <2> QED
    BY ONLY <2>1, <2>2 DEF PackedCell, CellEntries, AM_NULL
<1>7. \A c \in CellsUpTo(n) : cells[c] \in CellEntries
  BY ONLY <1>5, <1>6 DEF CellsUpTo
<1> QED
  BY ONLY <1>2, <1>3, <1>4, <1>5, <1>7

(* Where the list of a key ends.                                           *)
LEMMA EndIs ==
  ASSUME NEW keys, NEW sum, NEW ids, PackedBy(keys, sum, ids), NEW k \in 1 .. Len(keys),
         NEW l \in sum[k - 1] + 1 .. sum[k]
  PROVE  l \in Ends(keys, sum) <=> l = sum[k]
<1>1. PICK m : m = Len(keys)
  OBVIOUS
<1>2. keys \in Seq(KeyEntries) /\ sum \in [0 .. m -> Nat] /\ Rises(sum, m)
  BY ONLY <1>1, PackedBy(keys, sum, ids) DEF PackedBy
<1>3. m \in Nat /\ k \in 1 .. m /\ k \in 0 .. m /\ k - 1 \in 0 .. m
  BY ONLY <1>1, <1>2, SeqIs, k \in 1 .. Len(keys)
<1>4. sum[k] \in Nat /\ sum[k - 1] \in Nat
  BY ONLY <1>2, <1>3
<1>5. \A i, j \in 0 .. m : i <= j => sum[i] <= sum[j]
  BY ONLY <1>2 DEF Rises
<1>6. ASSUME NEW j \in 1 .. m, l = sum[j] PROVE l = sum[k]
  <2>1. j \in 0 .. m /\ j \in Int /\ k \in Int
    BY ONLY <1>3, j \in 1 .. m
  <2>2. CASE j < k
    <3>1. j <= k - 1
      BY ONLY <2>1, <2>2
    <3>2. sum[j] <= sum[k - 1]
      BY ONLY <1>3, <1>5, <2>1, <3>1
    <3> QED
      BY ONLY <1>4, <1>6, <3>2, l \in sum[k - 1] + 1 .. sum[k]
  <2>3. CASE j >= k
    <3>1. sum[k] <= sum[j]
      BY ONLY <1>3, <1>5, <2>1, <2>3
    <3> QED
      BY ONLY <1>4, <1>6, <3>1, l \in sum[k - 1] + 1 .. sum[k]
  <2> QED
    BY ONLY <2>1, <2>2, <2>3
<1> QED
  BY ONLY <1>1, <1>3, <1>6 DEF Ends

LEMMA PackedRow ==
  ASSUME NEW keys, NEW sum, NEW ids, PackedBy(keys, sum, ids),
         NEW cells, cells = PackedCells(ids, Ends(keys, sum)),
         NEW k \in 1 .. Len(keys), keys[k].ids # <<>>
  PROVE  RowHas(cells, Offset(sum[k - 1] + 1), CellsFrom(sum[k - 1], sum[k]), keys[k].ids)
<1>1. PICK from, to, list, ends, S :
        /\ from = sum[k - 1] /\ to = sum[k] /\ list = keys[k].ids
        /\ ends = Ends(keys, sum) /\ S = CellsFrom(from, to)
  OBVIOUS
<1>2. /\ keys \in Seq(KeyEntries) /\ sum \in [0 .. Len(keys) -> Nat] /\ to = from + Len(list)
      /\ \A j \in 1 .. Len(list) : from + j \in 1 .. Len(ids) /\ ids[from + j] = list[j]
  BY ONLY <1>1, PackedBy(keys, sum, ids), k \in 1 .. Len(keys) DEF PackedBy
<1>3. from \in Nat /\ list \in Seq(RecIds)
  <2>1. Len(keys) \in Nat /\ list \in Seq(RecIds)
    BY ONLY <1>1, <1>2, k \in 1 .. Len(keys), KeysAre
  <2>2. k - 1 \in 0 .. Len(keys)
    BY ONLY <2>1, k \in 1 .. Len(keys)
  <2> QED
    BY ONLY <1>1, <1>2, <2>1, <2>2
<1>4. PICK m : m = Len(list)
  OBVIOUS
<1>5. m \in Nat /\ m # 0 /\ to = from + m /\ list = [j \in 1 .. m |-> list[j]]
  <2>1. list # <<>>
    BY ONLY <1>1, keys[k].ids # <<>>
  <2> QED
    BY ONLY <1>2, <1>3, <1>4, <2>1, SeqIs
<1>6. ASSUME NEW j \in 1 .. m
      PROVE  /\ cells[Offset(from + j)].id = list[j]
             /\ cells[Offset(from + j)].next = IF j = m THEN AM_NULL ELSE Offset(from + j + 1)
             /\ from + j \in from + 1 .. to
             /\ from + j \in Nat /\ Offset(from + j) \in DOMAIN cells
  <2>1. from + j \in 1 .. Len(ids) /\ ids[from + j] = list[j]
    BY ONLY <1>2, <1>4, j \in 1 .. m
  <2>2. from + j \in from + 1 .. to /\ from + j \in Nat
    BY ONLY <1>3, <1>5, j \in 1 .. m
  <2>3. /\ cells[Offset(from + j)] = PackedCell(ids, ends, from + j)
        /\ DOMAIN cells = CellsUpTo(Len(ids))
    <3>1. /\ DOMAIN cells = CellsUpTo(Len(ids))
          /\ \A l \in 1 .. Len(ids) : cells[Offset(l)] = PackedCell(ids, Ends(keys, sum), l)
      BY ONLY PackedBy(keys, sum, ids), cells = PackedCells(ids, Ends(keys, sum)), PackedIs
    <3> QED
      BY ONLY <1>1, <2>1, <3>1
  <2>4. Offset(from + j) \in CellsUpTo(Len(ids))
    BY ONLY <2>1 DEF CellsUpTo
  <2>5. from + j \in ends <=> from + j = to
    BY ONLY <1>1, <2>2, PackedBy(keys, sum, ids), k \in 1 .. Len(keys), EndIs
  <2>6. from + j = to <=> j = m
    BY ONLY <1>3, <1>5, j \in 1 .. m
  <2>7. /\ cells[Offset(from + j)].id = ids[from + j]
        /\ cells[Offset(from + j)].next = IF from + j \in ends THEN AM_NULL ELSE Offset(from + j + 1)
    BY ONLY <2>3 DEF PackedCell
  <2> QED
    BY ONLY <2>1, <2>2, <2>3, <2>4, <2>5, <2>6, <2>7
<1>7. PICK s : s = [j \in 1 .. m |-> Offset(from + j)]
  OBVIOUS
<1>8. \A j \in 1 .. m : Offset(from + j) \in S
  BY ONLY <1>1, <1>6 DEF CellsFrom
<1>9. s \in Seq(S) /\ Len(s) = m /\ \A j \in 1 .. m : s[j] = Offset(from + j)
  <2>1. s \in [1 .. m -> S]
    BY ONLY <1>7, <1>8
  <2> QED
    BY ONLY <1>5, <1>7, <2>1
<1>10. ASSUME NEW c \in S PROVE \E j \in 1 .. m : s[j] = c
  <2>1. PICK l \in from + 1 .. to : c = Offset(l)
    BY ONLY <1>1 DEF CellsFrom
  <2>2. l - from \in 1 .. m /\ from + (l - from) = l
    BY ONLY <1>3, <1>5, <2>1
  <2> QED
    BY ONLY <1>9, <2>1, <2>2
<1>11. S \subseteq DOMAIN cells
  BY ONLY <1>6, <1>9, <1>10
<1>12. ASSUME NEW i \in 1 .. m, NEW j \in 1 .. m, s[i] = s[j] PROVE i = j
  <2>1. from + i \in Nat /\ from + j \in Nat /\ Offset(from + i) = Offset(from + j)
    BY ONLY <1>6, <1>9, <1>12
  <2>2. from + i = from + j
    BY ONLY <2>1, SameOffset
  <2> QED
    BY ONLY <1>3, <2>2, i \in 1 .. m, j \in 1 .. m
<1>13. Offset(from + 1) = NextIn(s, 0)
  <2>1. 1 \in 1 .. m /\ 0 # m /\ 0 + 1 = 1
    BY ONLY <1>5
  <2> QED
    BY ONLY <1>9, <2>1 DEF NextIn
<1>14. ASSUME NEW j \in 1 .. m PROVE cells[s[j]].next = NextIn(s, j)
  <2>1. cells[s[j]].next = IF j = m THEN AM_NULL ELSE Offset(from + j + 1)
    BY ONLY <1>6, <1>9
  <2>2. j # m => j + 1 \in 1 .. m /\ from + (j + 1) = from + j + 1
    BY ONLY <1>3, <1>5, j \in 1 .. m
  <2> QED
    BY ONLY <1>9, <2>1, <2>2 DEF NextIn
<1>15. IsRow(cells, Offset(from + 1), s, S)
  BY ONLY <1>9, <1>10, <1>11, <1>12, <1>13, <1>14 DEF IsRow
<1>16. list = IdsAt(cells, s)
  <2>1. \A j \in 1 .. m : cells[s[j]].id = list[j]
    BY ONLY <1>6, <1>9
  <2> QED
    BY ONLY <1>5, <1>9, <2>1 DEF IdsAt
<1> QED
  BY ONLY <1>1, <1>15, <1>16 DEF RowHas

OwnersOf(keys, sum, l) ==
  {keys[k].key : k \in {k \in 1 .. Len(keys) : sum[k - 1] < l /\ l <= sum[k]}}

LEMMA OwnerIs ==
  ASSUME NEW keys, NEW sum, NEW ids, PackedBy(keys, sum, ids), NEW k \in 1 .. Len(keys),
         NEW l \in sum[k - 1] + 1 .. sum[k]
  PROVE  OwnersOf(keys, sum, l) = {keys[k].key}
<1>1. PICK m : m = Len(keys)
  OBVIOUS
<1>2. keys \in Seq(KeyEntries) /\ sum \in [0 .. m -> Nat] /\ Rises(sum, m)
  BY ONLY <1>1, PackedBy(keys, sum, ids) DEF PackedBy
<1>3. m \in Nat /\ k \in 1 .. m /\ k \in 0 .. m /\ k - 1 \in 0 .. m
  BY ONLY <1>1, <1>2, SeqIs, k \in 1 .. Len(keys)
<1>4. sum[k] \in Nat /\ sum[k - 1] \in Nat /\ sum[k - 1] < l /\ l <= sum[k] /\ l \in Nat
  <2>1. sum[k] \in Nat /\ sum[k - 1] \in Nat
    BY ONLY <1>2, <1>3
  <2> QED
    BY ONLY <2>1, l \in sum[k - 1] + 1 .. sum[k]
<1>5. \A i, j \in 0 .. m : i <= j => sum[i] <= sum[j]
  BY ONLY <1>2 DEF Rises
<1>6. ASSUME NEW j \in 1 .. m, sum[j - 1] < l, l <= sum[j] PROVE j = k
  <2>1. j \in 0 .. m /\ j - 1 \in 0 .. m /\ j \in Int /\ k \in Int
    BY ONLY <1>3, j \in 1 .. m
  <2>2. sum[j] \in Nat /\ sum[j - 1] \in Nat
    BY ONLY <1>2, <2>1
  <2>3. ASSUME j < k PROVE FALSE
    <3>1. j <= k - 1
      BY ONLY <2>1, <2>3
    <3>2. sum[j] <= sum[k - 1]
      BY ONLY <1>3, <1>5, <2>1, <3>1
    <3> QED
      BY ONLY <1>4, <1>6, <2>2, <3>2
  <2>4. ASSUME k < j PROVE FALSE
    <3>1. k <= j - 1
      BY ONLY <2>1, <2>4
    <3>2. sum[k] <= sum[j - 1]
      BY ONLY <1>3, <1>5, <2>1, <3>1
    <3> QED
      BY ONLY <1>4, <1>6, <2>2, <3>2
  <2> QED
    BY ONLY <2>1, <2>3, <2>4
<1>7. {j \in 1 .. m : sum[j - 1] < l /\ l <= sum[j]} = {k}
  BY ONLY <1>3, <1>4, <1>6
<1> QED
  BY ONLY <1>1, <1>7 DEF OwnersOf

LEMMA PackedLaid ==
  ASSUME NEW keys, NEW sum, NEW ids, PackedBy(keys, sum, ids), SortedKeys(keys), NoneEmpty(keys),
         NEW n, n = Count(keys), HeaderSize <= Offset(n)
  PROVE  \E own : Laid(PackedHeads(keys, sum), PackedCells(ids, Ends(keys, sum)), n, AM_NULL,
                      own, keys, 0)
<1>1. PICK m, cells, heads, D, own :
        /\ m = Len(keys) /\ cells = PackedCells(ids, Ends(keys, sum))
        /\ heads = PackedHeads(keys, sum) /\ D = CellsUpTo(n)
        /\ own = [c \in D |-> OwnersOf(keys, sum, NumberAt(c))]
  OBVIOUS
<1>2. /\ keys \in Seq(KeyEntries) /\ sum \in [0 .. m -> Nat] /\ Rises(sum, m)
      /\ ids \in Seq(RecIds) /\ Len(ids) = n /\ n = sum[m]
  BY ONLY <1>1, PackedBy(keys, sum, ids), n = Count(keys) DEF PackedBy
<1>3. /\ m \in Nat /\ n \in Nat /\ \A k \in 1 .. m : keys[k].key \in Keys
      /\ \A k \in 1 .. m : sum[k] \in Nat /\ sum[k - 1] \in Nat
  <2>1. m \in Nat /\ \A k \in 1 .. m : keys[k].key \in Keys
    BY ONLY <1>1, <1>2, KeysAre
  <2>2. n \in Nat
    BY ONLY <1>2, SeqIs
  <2>3. \A k \in 1 .. m : k \in 0 .. m /\ k - 1 \in 0 .. m
    BY ONLY <2>1
  <2> QED
    BY ONLY <1>2, <2>1, <2>2, <2>3
<1>4. cells \in [D -> CellEntries]
  <2>1. cells \in [CellsUpTo(Len(ids)) -> CellEntries]
    BY ONLY <1>1, PackedBy(keys, sum, ids), PackedIs
  <2> QED
    BY ONLY <1>1, <1>2, <2>1
<1>5. ASSUME NEW k \in 1 .. m, NEW l \in sum[k - 1] + 1 .. sum[k]
      PROVE  l \in 1 .. n /\ Offset(l) \in D /\ own[Offset(l)] = {keys[k].key}
  <2>1. sum[k] <= sum[m]
    <3>1. k \in 0 .. m /\ m \in 0 .. m /\ k <= m
      BY ONLY <1>3, k \in 1 .. m
    <3> QED
      BY ONLY <1>2, <3>1 DEF Rises
  <2>2. l \in 1 .. n /\ l \in Nat
    <3>1. sum[k] \in Nat /\ sum[k - 1] \in Nat
      BY ONLY <1>3
    <3> QED
      BY ONLY <1>2, <1>3, <2>1, <3>1, l \in sum[k - 1] + 1 .. sum[k]
  <2>3. Offset(l) \in D
    BY ONLY <1>1, <2>2 DEF CellsUpTo
  <2>4. OwnersOf(keys, sum, l) = {keys[k].key}
    BY ONLY <1>1, PackedBy(keys, sum, ids), k \in 1 .. m, l \in sum[k - 1] + 1 .. sum[k], OwnerIs
  <2>5. NumberAt(Offset(l)) = l
    BY ONLY <2>2, NumberAtOffset
  <2> QED
    BY ONLY <1>1, <2>2, <2>3, <2>4, <2>5
<1>6. ASSUME NEW c \in D
      PROVE  \E k \in 1 .. m : \E l \in sum[k - 1] + 1 .. sum[k] : c = Offset(l)
  <2>1. PICK l \in 1 .. n : c = Offset(l)
    BY ONLY <1>1 DEF CellsUpTo
  <2>2. PICK k \in 1 .. m : sum[k - 1] < l /\ l <= sum[k]
    BY ONLY <1>2, <2>1 DEF Rises
  <2>3. l \in sum[k - 1] + 1 .. sum[k]
    <3>1. sum[k] \in Nat /\ sum[k - 1] \in Nat
      BY ONLY <1>3
    <3> QED
      BY ONLY <1>3, <2>1, <2>2, <3>1
  <2> QED
    BY ONLY <2>1, <2>3
<1>7. DOMAIN own = D
  BY ONLY <1>1
<1>8. \A c \in D : \E k \in 1 .. m : own[c] = {keys[k].key}
  BY ONLY <1>5, <1>6
<1>9. Owned(own, {}) = {}
  BY ONLY <1>7, <1>8 DEF Owned
<1>10. \A i, j \in 1 .. m : keys[i].key = keys[j].key => i = j
  <2>1. /\ \A i, j \in 1 .. m : i < j => keys[i].key < keys[j].key
        /\ \A i \in 1 .. m : keys[i].key \in Int
    BY ONLY <1>1, SortedKeys(keys), KeysAre DEF SortedKeys
  <2>2. \A i, j \in 1 .. m : i < j \/ i = j \/ j < i
    BY ONLY <1>3
  <2> QED
    BY ONLY <2>1, <2>2
<1>11. ASSUME NEW k \in 1 .. m PROVE Owned(own, {keys[k].key}) = CellsFrom(sum[k - 1], sum[k])
  <2>1. ASSUME NEW c \in Owned(own, {keys[k].key}) PROVE c \in CellsFrom(sum[k - 1], sum[k])
    <3>1. c \in D /\ own[c] = {keys[k].key}
      BY ONLY <1>7, c \in Owned(own, {keys[k].key}) DEF Owned
    <3>2. PICK j \in 1 .. m : \E l \in sum[j - 1] + 1 .. sum[j] : c = Offset(l)
      BY ONLY <1>6, <3>1
    <3>3. own[c] = {keys[j].key}
      BY ONLY <1>5, <3>2
    <3>4. j = k
      <4>1. keys[j].key = keys[k].key
        BY ONLY <3>1, <3>3
      <4> QED
        BY ONLY <1>10, <4>1, j \in 1 .. m, k \in 1 .. m
    <3> QED
      BY ONLY <3>2, <3>4 DEF CellsFrom
  <2>2. ASSUME NEW c \in CellsFrom(sum[k - 1], sum[k]) PROVE c \in Owned(own, {keys[k].key})
    <3>1. PICK l \in sum[k - 1] + 1 .. sum[k] : c = Offset(l)
      BY ONLY c \in CellsFrom(sum[k - 1], sum[k]) DEF CellsFrom
    <3>2. c \in D /\ own[c] = {keys[k].key}
      BY ONLY <1>5, <3>1, k \in 1 .. m
    <3> QED
      BY ONLY <1>7, <3>2 DEF Owned
  <2> QED
    BY ONLY <2>1, <2>2
<1>12. heads = [k \in 1 .. m |-> [key |-> keys[k].key, head |-> Offset(sum[k - 1] + 1)]]
  BY ONLY <1>1 DEF PackedHeads
<1>13. heads \in Seq(HeadEntries) /\ Len(heads) = m
  <2>1. ASSUME NEW k \in 1 .. m PROVE heads[k] \in HeadEntries
    <3>1. sum[k - 1] + 1 \in Nat /\ keys[k].key \in Keys
      BY ONLY <1>3
    <3>2. Offset(sum[k - 1] + 1) \in Int
      BY ONLY <3>1, OffsetIs
    <3> QED
      BY ONLY <1>12, <3>1, <3>2 DEF HeadEntries
  <2>2. heads \in [1 .. m -> HeadEntries]
    BY ONLY <1>12, <2>1
  <2> QED
    BY ONLY <1>3, <1>12, <2>2
<1>14. ASSUME NEW k \in 1 .. m
       PROVE  /\ heads[k].key = keys[k].key
              /\ RowHas(cells, heads[k].head, Owned(own, {keys[k].key}), keys[k].ids)
  <2>1. heads[k].key = keys[k].key /\ heads[k].head = Offset(sum[k - 1] + 1)
    BY ONLY <1>12
  <2>2. RowHas(cells, Offset(sum[k - 1] + 1), CellsFrom(sum[k - 1], sum[k]), keys[k].ids)
    <3>1. keys[k].ids # <<>> /\ k \in 1 .. Len(keys)
      BY ONLY <1>1, NoneEmpty(keys), k \in 1 .. m DEF NoneEmpty
    <3> QED
      BY ONLY <1>1, <3>1, PackedBy(keys, sum, ids), PackedRow
  <2> QED
    BY ONLY <1>11, <2>1, <2>2
<1>15. RowHas(cells, AM_NULL, Owned(own, {}), <<>>) /\ Len(<<>>) = 0
  <2>1. IsRow(cells, AM_NULL, <<>>, {})
    BY ONLY RowOfNone
  <2>2. <<>> = IdsAt(cells, <<>>)
    BY ONLY DEF IdsAt
  <2> QED
    BY ONLY <1>9, <2>1, <2>2 DEF RowHas
<1>16. \A i, j \in 1 .. m : i < j => keys[i].key < keys[j].key
  BY ONLY <1>1, SortedKeys(keys) DEF SortedKeys
<1>17. Laid(heads, cells, n, AM_NULL, own, keys, 0)
  BY ONLY <1>1, <1>2, <1>3, <1>4, <1>7, <1>8, <1>13, <1>14, <1>15, <1>16, HeaderSize <= Offset(n)
          DEF Laid
<1> QED
  BY ONLY <1>1, <1>17

(* The first k lists have the first sum[k] elements.                       *)
LEMMA PrefixLength ==
  ASSUME NEW S, NEW lists \in Seq(Seq(S)), NEW sum \in [0 .. Len(lists) -> Nat], Sums(lists, sum),
         NEW k \in 0 .. Len(lists)
  PROVE  Len(FlattenSeq(FirstOf(lists, k))) = sum[k]
<1>1. PICK part, m, upTo : /\ part = FirstOf(lists, k) /\ m = Len(lists)
                           /\ upTo = [i \in 0 .. k |-> sum[i]]
  OBVIOUS
<1>2. m \in Nat /\ k \in 0 .. m /\ k \in Nat /\ \A i \in 1 .. k : i \in 1 .. m /\ i \in 0 .. k /\ i - 1 \in 0 .. k
  BY ONLY <1>1, lists \in Seq(Seq(S)), k \in 0 .. Len(lists), SeqIs
<1>3. part \in Seq(Seq(S)) /\ Len(part) = k /\ \A i \in 1 .. k : part[i] = lists[i]
  <2>1. part \in Seq(Seq(S)) /\ Len(part) = k
    BY ONLY <1>1, lists \in Seq(Seq(S)), k \in 0 .. Len(lists), FirstOfIs
  <2> QED
    BY ONLY <1>1, <2>1 DEF FirstOf
<1>4. sum[0] = 0 /\ \A i \in 1 .. m : sum[i] = sum[i - 1] + Len(lists[i])
  BY ONLY <1>1, Sums(lists, sum) DEF Sums
<1>5. upTo \in [0 .. Len(part) -> Nat]
  <2>1. \A i \in 0 .. k : i \in 0 .. m
    BY ONLY <1>2
  <2> QED
    BY ONLY <1>1, <1>3, <2>1, sum \in [0 .. Len(lists) -> Nat]
<1>6. Sums(part, upTo)
  <2>1. upTo[0] = 0
    BY ONLY <1>1, <1>2, <1>4
  <2>2. ASSUME NEW i \in 1 .. k PROVE upTo[i] = upTo[i - 1] + Len(part[i])
    BY ONLY <1>1, <1>2, <1>3, <1>4
  <2> QED
    BY ONLY <1>3, <2>1, <2>2 DEF Sums
<1>7. Len(FlattenSeq(part)) = upTo[Len(part)]
  BY ONLY <1>3, <1>5, <1>6, FlattenLength
<1>8. upTo[k] = sum[k]
  BY ONLY <1>1, <1>2
<1> QED
  BY ONLY <1>1, <1>3, <1>7, <1>8

(* AM_Compact, field by field.                                             *)
Parts(pg, low, k) == [j \in 1 .. k |-> IdList(pg, pg.keys[low + j - 1].head)]
Before(pg, low, i) == Len(FlattenSeq(Parts(pg, low, i - low)))
EndsIn(pg, low, high) ==
  {Before(pg, low, i) + Len(IdList(pg, pg.keys[i].head)) : i \in low .. high}
HeadsIn(pg, low, high) ==
  [j \in 1 .. high - low + 1 |-> [key |-> pg.keys[low + j - 1].key,
                                 head |-> Offset(Before(pg, low, low + j - 1) + 1)]]
CellsIn(ids, ends) ==
  [cell \in {Offset(n) : n \in DOMAIN ids} |-> PackedCell(ids, ends, NumberAt(cell))]

LEMMA CompactParts ==
  ASSUME NEW pg, NEW low, NEW high
  PROVE  Compact(pg, low, high) =
           [keys |-> HeadsIn(pg, low, high),
            cells |-> CellsIn(FlattenSeq(Parts(pg, low, high - low + 1)), EndsIn(pg, low, high)),
            recIdPtr |-> Offset(Len(FlattenSeq(Parts(pg, low, high - low + 1)))),
            keyPtr |-> HeaderSize + (high - low + 1) * KeySize,
            freeListPtr |-> AM_NULL, numinfreeList |-> 0]
BY ONLY Zenon DEF Compact, HeadsIn, CellsIn, Parts, EndsIn, Before, Offset, PackedCell, NumberAt

LEMMA CompactHolds ==
  ASSUME NEW keys, NEW n, NEW free, NEW pg, PageHolds(pg, keys, n, free), NoneEmpty(keys),
         NEW low \in 1 .. Len(keys), NEW high \in low .. Len(keys),
         NEW kept, kept = SubSeq(keys, low, high), HeaderSize <= Offset(Count(kept)),
         NEW now, now = Compact(pg, low, high)
  PROVE  PageHolds(now, kept, Count(kept), 0) /\ NoneEmpty(kept)
<1>1. PICK heads, cells, first, own :
        pg = PageRec(heads, cells, n, first, free) /\ Laid(heads, cells, n, first, own, keys, free)
  BY ONLY PageHolds(pg, keys, n, free) DEF PageHolds
<1>2. /\ keys \in Seq(KeyEntries) /\ Len(heads) = Len(keys)
      /\ \A i, j \in 1 .. Len(keys) : i < j => keys[i].key < keys[j].key
      /\ \A i \in 1 .. Len(keys) : heads[i].key = keys[i].key
  BY ONLY <1>1 DEF Laid
<1>3. pg.keys = heads /\ \A i \in 1 .. Len(keys) : IdList(pg, heads[i].head) = keys[i].ids
  <2>1. CellLists(pg, heads, first, own, keys, free)
    BY ONLY <1>1, PageLists
  <2>2. pg.keys = heads
    BY ONLY <1>1, PageParts
  <2> QED
    BY ONLY <2>1, <2>2 DEF CellLists
<1>4. PICK m : m = high - low + 1
  OBVIOUS
<1>5. /\ Len(keys) \in Nat /\ low \in Nat /\ high \in Nat /\ m \in Nat \ {0}
      /\ \A j \in 1 .. m : low + j - 1 \in 1 .. Len(keys)
  <2>1. Len(keys) \in Nat
    BY ONLY <1>2, SeqIs
  <2> QED
    BY ONLY <1>4, <2>1, low \in 1 .. Len(keys), high \in low .. Len(keys)
<1>6. kept \in Seq(KeyEntries) /\ Len(kept) = m /\ \A j \in 1 .. m : kept[j] = keys[low + j - 1]
  <2>1. low \in 1 .. Len(keys) + 1 /\ high \in low - 1 .. Len(keys)
    BY ONLY <1>5, low \in 1 .. Len(keys), high \in low .. Len(keys)
  <2> QED
    BY ONLY <1>2, <1>4, <2>1, kept = SubSeq(keys, low, high), PartIs
<1>7. PICK lists, ids : lists = ListsOf(kept) /\ ids = FlattenSeq(lists)
  OBVIOUS
<1>8. PICK sum : PackedBy(kept, sum, ids)
  BY ONLY <1>6, <1>7, PackingExists
<1>9. /\ sum \in [0 .. m -> Nat] /\ sum[0] = 0
      /\ \A k \in 1 .. m : sum[k] = sum[k - 1] + Len(kept[k].ids)
      /\ Len(ids) = Count(kept)
  BY ONLY <1>6, <1>8 DEF PackedBy
<1>10. /\ lists \in Seq(Seq(RecIds)) /\ Len(lists) = m
       /\ \A j \in 1 .. m : lists[j] = kept[j].ids
  BY ONLY <1>6, <1>7, ListsOfKeys
<1>11. ASSUME NEW j \in 1 .. m
       PROVE  /\ IdList(pg, pg.keys[low + j - 1].head) = lists[j]
              /\ pg.keys[low + j - 1].key = kept[j].key
  BY ONLY <1>2, <1>3, <1>5, <1>6, <1>10, j \in 1 .. m
<1>12. ASSUME NEW k \in 0 .. m PROVE Parts(pg, low, k) = FirstOf(lists, k)
  <2>1. \A j \in 1 .. k : j \in 1 .. m
    BY ONLY <1>5, k \in 0 .. m
  <2> QED
    BY ONLY <1>11, <2>1 DEF Parts, FirstOf
<1>13. FlattenSeq(Parts(pg, low, m)) = ids
  <2>1. FirstOf(lists, m) = lists
    <3>1. m \in 0 .. Len(lists) /\ m = Len(lists)
      BY ONLY <1>5, <1>10
    <3> QED
      BY ONLY <1>10, <3>1, FirstOfIs
  <2>2. m \in 0 .. m
    BY ONLY <1>5
  <2> QED
    BY ONLY <1>7, <1>12, <2>1, <2>2
<1>14. ASSUME NEW j \in 1 .. m PROVE Before(pg, low, low + j - 1) = sum[j - 1]
  <2>1. (low + j - 1) - low = j - 1 /\ j - 1 \in 0 .. m
    BY ONLY <1>5, j \in 1 .. m
  <2>2. Sums(lists, sum) /\ sum \in [0 .. Len(lists) -> Nat]
    <3>1. \A k \in 1 .. m : sum[k] = sum[k - 1] + Len(lists[k])
      BY ONLY <1>9, <1>10
    <3> QED
      BY ONLY <1>9, <1>10, <3>1 DEF Sums
  <2>3. Len(FlattenSeq(FirstOf(lists, j - 1))) = sum[j - 1]
    <3>1. lists \in Seq(Seq(RecIds)) /\ j - 1 \in 0 .. Len(lists)
      BY ONLY <1>10, <2>1
    <3> QED
      BY ONLY <2>2, <3>1, PrefixLength
  <2>4. Parts(pg, low, j - 1) = FirstOf(lists, j - 1)
    BY ONLY <1>12, <2>1
  <2> QED
    BY ONLY <2>1, <2>3, <2>4 DEF Before
<1>15. HeadsIn(pg, low, high) = PackedHeads(kept, sum)
  <2>1. HeadsIn(pg, low, high) =
          [j \in 1 .. m |-> [key |-> pg.keys[low + j - 1].key,
                            head |-> Offset(Before(pg, low, low + j - 1) + 1)]]
    BY ONLY <1>4 DEF HeadsIn
  <2>2. PackedHeads(kept, sum) = [j \in 1 .. m |-> [key |-> kept[j].key, head |-> Offset(sum[j - 1] + 1)]]
    BY ONLY <1>6 DEF PackedHeads
  <2>3. \A j \in 1 .. m : [key |-> pg.keys[low + j - 1].key,
                           head |-> Offset(Before(pg, low, low + j - 1) + 1)]
                         = [key |-> kept[j].key, head |-> Offset(sum[j - 1] + 1)]
    BY ONLY <1>11, <1>14
  <2> QED
    BY ONLY <2>1, <2>2, <2>3
<1>16. EndsIn(pg, low, high) = Ends(kept, sum)
  <2>1. ASSUME NEW j \in 1 .. m
        PROVE  Before(pg, low, low + j - 1) + Len(IdList(pg, pg.keys[low + j - 1].head)) = sum[j]
    <3>1. Before(pg, low, low + j - 1) = sum[j - 1]
      BY ONLY <1>14, j \in 1 .. m
    <3>2. IdList(pg, pg.keys[low + j - 1].head) = lists[j]
      BY ONLY <1>11, j \in 1 .. m
    <3>3. lists[j] = kept[j].ids /\ sum[j] = sum[j - 1] + Len(kept[j].ids)
      BY ONLY <1>9, <1>10, j \in 1 .. m
    <3> QED
      BY ONLY <3>1, <3>2, <3>3
  <2>2. \A i \in low .. high : i - low + 1 \in 1 .. m /\ low + (i - low + 1) - 1 = i
    BY ONLY <1>4, <1>5
  <2>3. \A j \in 1 .. m : low + j - 1 \in low .. high
    BY ONLY <1>4, <1>5
  <2>4. EndsIn(pg, low, high) \subseteq Ends(kept, sum)
    <3>1. ASSUME NEW i \in low .. high
          PROVE  Before(pg, low, i) + Len(IdList(pg, pg.keys[i].head)) \in {sum[j] : j \in 1 .. m}
      <4>1. PICK j \in 1 .. m : low + j - 1 = i
        BY ONLY <2>2, <3>1
      <4> QED
        BY ONLY <2>1, <4>1
    <3> QED
      BY ONLY <1>6, <3>1 DEF EndsIn, Ends
  <2>5. Ends(kept, sum) \subseteq EndsIn(pg, low, high)
    <3>1. ASSUME NEW j \in 1 .. m PROVE sum[j] \in EndsIn(pg, low, high)
      <4>1. PICK i \in low .. high : low + j - 1 = i
        BY ONLY <2>3, <3>1
      <4>2. sum[j] = Before(pg, low, i) + Len(IdList(pg, pg.keys[i].head))
        BY ONLY <2>1, <4>1
      <4> QED
        BY ONLY <4>2 DEF EndsIn
    <3> QED
      BY ONLY <1>6, <3>1 DEF Ends
  <2> QED
    BY ONLY <2>4, <2>5
<1>17. CellsIn(ids, Ends(kept, sum)) = PackedCells(ids, Ends(kept, sum))
  <2>1. DOMAIN ids = 1 .. Len(ids)
    <3>1. ids \in Seq(RecIds)
      BY ONLY <1>8 DEF PackedBy
    <3> QED
      BY ONLY <3>1, SeqIs
  <2> QED
    BY ONLY <2>1 DEF CellsIn, PackedCells, CellsUpTo
<1>18. now = PageRec(PackedHeads(kept, sum), PackedCells(ids, Ends(kept, sum)), Count(kept), AM_NULL, 0)
  <2>1. Len(PackedHeads(kept, sum)) = m
    BY ONLY <1>5, <1>6 DEF PackedHeads
  <2>2. now = [keys |-> HeadsIn(pg, low, high),
               cells |-> CellsIn(ids, EndsIn(pg, low, high)),
               recIdPtr |-> Offset(Len(ids)), keyPtr |-> HeaderSize + m * KeySize,
               freeListPtr |-> AM_NULL, numinfreeList |-> 0]
    BY ONLY <1>4, <1>13, now = Compact(pg, low, high), CompactParts
  <2> QED
    BY ONLY <1>9, <1>15, <1>16, <1>17, <2>1, <2>2 DEF PageRec
<1>19. NoneEmpty(kept)
  <2>1. \A i \in 1 .. Len(keys) : keys[i].ids # <<>>
    BY ONLY NoneEmpty(keys) DEF NoneEmpty
  <2> QED
    BY ONLY <1>5, <1>6, <2>1 DEF NoneEmpty
<1>20. SortedKeys(kept)
  <2>1. ASSUME NEW i \in 1 .. m, NEW j \in 1 .. m, i < j PROVE kept[i].key < kept[j].key
    <3>1. low + i - 1 < low + j - 1 /\ low + i - 1 \in 1 .. Len(keys) /\ low + j - 1 \in 1 .. Len(keys)
      BY ONLY <1>5, <2>1
    <3> QED
      BY ONLY <1>2, <1>6, <3>1
  <2> QED
    BY ONLY <1>6, <2>1 DEF SortedKeys
<1>21. \E own2 : Laid(PackedHeads(kept, sum), PackedCells(ids, Ends(kept, sum)), Count(kept), AM_NULL,
                     own2, kept, 0)
  BY ONLY <1>8, <1>19, <1>20, HeaderSize <= Offset(Count(kept)), PackedLaid
<1> QED
  BY ONLY <1>18, <1>19, <1>21 DEF PageHolds

-----------------------------------------------------------------------------
(***************************************************************************)
(* What the pages of the specification hold, and what the operations of    *)
(* the page make of it.                                                    *)
(***************************************************************************)
Holding(pg, keys, n, free) == PageHolds(pg, keys, n, free) /\ NoneEmpty(keys) /\ Fit(keys, n)

LeafOf(keys, n, free) == LeafRec(keys, free, LeafSpace - Space(Len(keys), n), AM_NULL_PAGE)

LEMMA HoldsIs ==
  ASSUME NEW keys, NEW n, NEW free, NEW pg, PageHolds(pg, keys, n, free)
  PROVE  /\ n \in Nat /\ free \in Nat /\ SortedKeys(keys) /\ keys \in Seq(KeyEntries)
         /\ Len(keys) \in Nat /\ Len(pg.keys) = Len(keys)
         /\ Count(keys) + free = n /\ Count(keys) \in Nat
         /\ HeaderSize <= Offset(n) /\ Space(Len(keys), n) \in Nat
         /\ pg.numinfreeList = free /\ (pg.freeListPtr = AM_NULL <=> free = 0)
         /\ pg.recIdPtr - pg.keyPtr = LeafSpace - Space(Len(keys), n)
         /\ AsLeaf(pg) = LeafOf(keys, n, free) /\ AsLeaf(pg).keys = keys
<1>1. PICK heads, cells, first, own :
        pg = PageRec(heads, cells, n, first, free) /\ Laid(heads, cells, n, first, own, keys, free)
  BY ONLY PageHolds(pg, keys, n, free) DEF PageHolds
<1>2. /\ n \in Nat /\ HeaderSize <= Offset(n) /\ keys \in Seq(KeyEntries) /\ Len(heads) = Len(keys)
      /\ SortedKeys(keys)
  BY ONLY <1>1 DEF Laid, SortedKeys
<1>3. free \in Nat /\ Len(keys) \in Nat /\ (first = AM_NULL <=> free = 0)
  BY ONLY <1>1, LaidIs
<1>4. /\ pg.keys = heads /\ pg.numinfreeList = free /\ pg.freeListPtr = first
  BY ONLY <1>1, PageParts
<1>5. Count(keys) + free = n
  <2>1. PICK lists, last, all : CellsSplit(pg, heads, first, lists, last) /\ all = FlattenSeq(lists) \o last
    BY ONLY DEF CellsSplit
  <2> QED
    BY ONLY <1>1, <2>1, CellsCounted DEF AllCounted
<1>6. Count(keys) \in Nat
  <2>1. CASE keys = <<>>
    <3>1. Count(<<>>) = 0
      BY ONLY CountOfNone
    <3> QED
      BY ONLY <2>1, <3>1
  <2>2. CASE keys # <<>>
    BY ONLY <1>2, <2>2, ListsOfKeys, FlattenPlaces, SumsExist
  <2> QED
    BY ONLY <2>1, <2>2
<1>7. Space(Len(keys), n) \in Nat
  BY ONLY <1>2, <1>3, SpaceIs
<1>8. AsLeaf(pg) = LeafOf(keys, n, free)
  BY ONLY PageHolds(pg, keys, n, free), PageIsLeaf DEF LeafOf
<1>9. AsLeaf(pg).keys = keys
  BY ONLY <1>8 DEF LeafOf, LeafRec
<1>10. pg.recIdPtr - pg.keyPtr = LeafSpace - Space(Len(keys), n)
  <2>1. AsLeaf(pg).gap = pg.recIdPtr - pg.keyPtr
    BY DEF AsLeaf, EmptyLeaf
  <2>2. AsLeaf(pg).gap = LeafSpace - Space(Len(keys), n)
    BY ONLY <1>8 DEF LeafOf, LeafRec
  <2> QED
    BY ONLY <2>1, <2>2
<1> QED
  BY ONLY <1>2, <1>3, <1>4, <1>5, <1>6, <1>7, <1>8, <1>9, <1>10

(* Some sizes do not let a key and cells fill the page to the last byte.   *)
NeverFilled == (LeafSpace - KeySize) % CellSize # 0

LEMMA NotFilled ==
  ASSUME NeverFilled, NEW n \in Nat
  PROVE  Space(1, n) # LeafSpace
<1>1. KeySize \in Nat /\ CellSize \in Nat /\ LeafSpace \in Nat
  BY SizesAre
<1>2. Space(1, n) = KeySize + n * CellSize /\ n * CellSize \in Nat
  BY ONLY <1>1, n \in Nat DEF Space
<1>3. Space(1, n) = LeafSpace => LeafSpace - KeySize = n * CellSize
  BY ONLY <1>1, <1>2
<1>4. (n * CellSize) % CellSize = 0
  BY ONLY n \in Nat, WholeCells
<1> QED
  BY ONLY <1>3, <1>4, NeverFilled DEF NeverFilled

LEMMA FitsWith ==
  ASSUME NEW keys, NEW n \in Nat, Len(keys) \in Nat, Len(keys) >= 1, Space(Len(keys), n) <= LeafSpace
  PROVE  Fit(keys, n)
<1>1. Space(1, n) <= Space(Len(keys), n) /\ Space(1, n) \in Nat /\ Space(Len(keys), n) \in Nat
  <2>1. 1 \in Nat /\ 1 <= Len(keys) /\ n <= n
    BY ONLY n \in Nat, Len(keys) \in Nat, Len(keys) >= 1
  <2> QED
    BY ONLY <2>1, n \in Nat, Len(keys) \in Nat, SpaceGrows
<1>2. LeafSpace \in Nat
  BY LeafAssumption
<1> QED
  BY ONLY <1>1, <1>2, Space(Len(keys), n) <= LeafSpace DEF Fit

LEMMA RoomForCell ==
  ASSUME NEW k \in Nat, NEW n \in Nat, Space(k, n + 1) <= LeafSpace
  PROVE  HeaderSize <= Offset(n + 1)
<1>1. Space(0, n + 1) <= Space(k, n + 1) /\ Space(0, n + 1) \in Nat /\ Space(k, n + 1) \in Nat
  <2>1. n + 1 \in Nat /\ 0 \in Nat /\ 0 <= k /\ n + 1 <= n + 1
    BY ONLY k \in Nat, n \in Nat
  <2> QED
    BY ONLY <2>1, k \in Nat, SpaceGrows
<1>2. Space(0, n + 1) <= LeafSpace /\ n + 1 \in Nat
  BY ONLY <1>1, Space(k, n + 1) <= LeafSpace, LeafAssumption, n \in Nat
<1> QED
  BY ONLY <1>2, OffsetRoom

(* The list of one key changes: the others are not empty.                  *)
LEMMA OthersNotEmpty ==
  ASSUME NEW keys \in Seq(KeyEntries), NEW p \in 1 .. Len(keys),
         \A i \in 1 .. Len(keys) : i # p => keys[i].ids # <<>>,
         NEW ids, ids # <<>>, NEW now \in Seq(KeyEntries), now = SetIds(keys, p, ids)
  PROVE  NoneEmpty(now) /\ Len(now) = Len(keys)
<1>1. Len(keys) \in Nat /\ DOMAIN keys = 1 .. Len(keys)
  BY ONLY keys \in Seq(KeyEntries), SeqIs
<1>2. /\ DOMAIN now = 1 .. Len(keys)
      /\ \A i \in 1 .. Len(keys) : now[i] = IF i = p THEN [keys[p] EXCEPT !.ids = ids] ELSE keys[i]
  BY ONLY <1>1, now = SetIds(keys, p, ids), p \in 1 .. Len(keys) DEF SetIds
<1>3. Len(now) = Len(keys)
  BY ONLY <1>1, <1>2, now \in Seq(KeyEntries), SameLength
<1>4. [keys[p] EXCEPT !.ids = ids].ids = ids
  <2>1. keys[p] = KeyEntry(keys[p].key, keys[p].ids)
    BY ONLY keys \in Seq(KeyEntries), p \in 1 .. Len(keys), KeysAre
  <2> QED
    BY ONLY <2>1 DEF KeyEntry
<1>5. ASSUME NEW i \in 1 .. Len(keys) PROVE now[i].ids # <<>>
  <2>1. CASE i = p
    BY ONLY <1>2, <1>4, <2>1, ids # <<>>
  <2>2. CASE i # p
    BY ONLY <1>2, <2>2, \A j \in 1 .. Len(keys) : j # p => keys[j].ids # <<>>
  <2> QED
    BY ONLY <2>1, <2>2
<1> QED
  BY ONLY <1>3, <1>5 DEF NoneEmpty

LEMMA IdMore ==
  ASSUME NEW keys, NEW p, NEW id, keys[p].ids \in Seq(RecIds), id \in RecIds
  PROVE  WithId(keys, p, id) = SetIds(keys, p, <<id>> \o keys[p].ids) /\ <<id>> \o keys[p].ids # <<>>
<1>1. WithId(keys, p, id) = SetIds(keys, p, <<id>> \o keys[p].ids)
  BY ONLY DEF WithId, SetIds
<1>2. <<id>> \o keys[p].ids # <<>>
  <2>1. PICK ids : ids = keys[p].ids
    OBVIOUS
  <2>2. ids \in Seq(RecIds) /\ <<id>> \in Seq(RecIds) /\ Len(<<id>>) = 1
    BY ONLY <2>1, keys[p].ids \in Seq(RecIds), id \in RecIds
  <2>3. Len(<<id>> \o ids) = 1 + Len(ids) /\ Len(ids) \in Nat
    BY ONLY <2>2, ConcatIs
  <2>4. Len(<<id>> \o ids) # 0
    BY ONLY <2>3
  <2>5. <<id>> \o ids # <<>>
    BY ONLY <2>4
  <2> QED
    BY ONLY <2>1, <2>5
<1> QED
  BY ONLY <1>1, <1>2

LEMMA FoundFits ==
  ASSUME NEW keys, NEW n, NEW free, NEW pg, Holding(pg, keys, n, free),
         NEW p \in 1 .. Len(keys), NEW id \in RecIds,
         free = 0 => Space(Len(keys), n + 1) <= LeafSpace,
         NEW now, now = InsertToLeafFound(pg, id, p)
  PROVE  GoodPage(now) /\ AsLeaf(now) = AM_InsertToLeafFound(AsLeaf(pg), id, p)
<1>1. PageHolds(pg, keys, n, free) /\ NoneEmpty(keys) /\ Fit(keys, n)
  BY ONLY Holding(pg, keys, n, free) DEF Holding
<1>2. /\ n \in Nat /\ free \in Nat /\ keys \in Seq(KeyEntries) /\ Len(keys) \in Nat
      /\ Space(Len(keys), n) \in Nat /\ AsLeaf(pg) = LeafOf(keys, n, free)
  BY ONLY <1>1, HoldsIs
<1>3. free = 0 => HeaderSize <= Offset(n + 1)
  BY ONLY <1>2, free = 0 => Space(Len(keys), n + 1) <= LeafSpace, RoomForCell
<1>4. PICK more, m, left : /\ more = WithId(keys, p, id) /\ m = (IF free = 0 THEN n + 1 ELSE n)
                           /\ left = (IF free = 0 THEN free ELSE free - 1)
  OBVIOUS
<1>5. PageHolds(now, more, m, left)
  <2>1. PageHolds(now, WithId(keys, p, id), IF free = 0 THEN n + 1 ELSE n,
                  IF free = 0 THEN free ELSE free - 1)
    BY ONLY <1>1, <1>3, p \in 1 .. Len(keys), id \in RecIds, now = InsertToLeafFound(pg, id, p),
            PageFound
  <2> QED
    BY ONLY <1>4, <2>1
<1>6. more \in Seq(KeyEntries) /\ AsLeaf(now) = LeafOf(more, m, left)
  BY ONLY <1>5, HoldsIs
<1>7. NoneEmpty(more) /\ Len(more) = Len(keys)
  <2>1. PICK ids : ids = <<id>> \o keys[p].ids
    OBVIOUS
  <2>2. keys[p].ids \in Seq(RecIds)
    BY ONLY <1>2, p \in 1 .. Len(keys), KeysAre
  <2>3. more = SetIds(keys, p, ids) /\ ids # <<>>
    BY ONLY <1>4, <2>1, <2>2, id \in RecIds, IdMore
  <2>4. \A i \in 1 .. Len(keys) : i # p => keys[i].ids # <<>>
    BY ONLY <1>1 DEF NoneEmpty
  <2> QED
    BY ONLY <1>2, <1>6, <2>3, <2>4, p \in 1 .. Len(keys), OthersNotEmpty
<1>8. m \in Nat /\ Space(Len(keys), m) <= LeafSpace
  <2>1. free # 0 => Space(Len(keys), n) <= LeafSpace
    BY ONLY <1>1 DEF Fit
  <2> QED
    BY ONLY <1>2, <1>4, <2>1, free = 0 => Space(Len(keys), n + 1) <= LeafSpace
<1>9. Fit(more, m)
  <2>1. Len(more) \in Nat /\ Len(more) >= 1 /\ Space(Len(more), m) <= LeafSpace
    BY ONLY <1>2, <1>7, <1>8, p \in 1 .. Len(keys)
  <2> QED
    BY ONLY <1>8, <2>1, FitsWith
<1>10. GoodPage(now)
  BY ONLY <1>5, <1>7, <1>9 DEF GoodPage
<1>11. PICK gap : gap = LeafSpace - Space(Len(keys), n)
  OBVIOUS
<1>12. gap \in Int
  BY ONLY <1>2, <1>11, LeafAssumption
<1>13. AM_InsertToLeafFound(LeafRec(keys, free, gap, AM_NULL_PAGE), id, p) =
         IF free = 0 THEN LeafRec(more, free, gap - CellSize, AM_NULL_PAGE)
         ELSE LeafRec(more, free - 1, gap, AM_NULL_PAGE)
  BY ONLY <1>2, <1>4, <1>12, FoundRecord
<1>14. LeafSpace - Space(Len(more), m) = IF free = 0 THEN gap - CellSize ELSE gap
  <2>1. Space(Len(keys), n + 1) = Space(Len(keys), n) + CellSize /\ CellSize \in Nat
    BY ONLY <1>2, SpaceIs
  <2> QED
    BY ONLY <1>2, <1>4, <1>7, <1>11, <2>1, LeafAssumption
<1>15. AM_InsertToLeafFound(AsLeaf(pg), id, p) = LeafOf(more, m, left)
  BY ONLY <1>2, <1>4, <1>11, <1>13, <1>14 DEF LeafOf
<1> QED
  BY ONLY <1>6, <1>10, <1>15

LEMMA NotFoundFits ==
  ASSUME NEW keys, NEW n, NEW free, NEW pg, Holding(pg, keys, n, free),
         NEW key \in Keys, NEW p, Between(keys, p, key), NEW id \in RecIds,
         Space(Len(keys) + 1, IF free = 0 THEN n + 1 ELSE n) <= LeafSpace,
         NEW now, now = InsertToLeafNotFound(pg, key, id, p)
  PROVE  GoodPage(now) /\ AsLeaf(now) = AM_InsertToLeafNotFound(AsLeaf(pg), key, id, p)
<1>1. PageHolds(pg, keys, n, free) /\ NoneEmpty(keys) /\ Fit(keys, n)
  BY ONLY Holding(pg, keys, n, free) DEF Holding
<1>2. /\ n \in Nat /\ free \in Nat /\ keys \in Seq(KeyEntries) /\ Len(keys) \in Nat
      /\ Space(Len(keys), n) \in Nat /\ AsLeaf(pg) = LeafOf(keys, n, free)
  BY ONLY <1>1, HoldsIs
<1>3. PICK with, more, m, left :
        /\ with = InsertAt(keys, p, KeyEntry(key, <<>>)) /\ more = WithId(with, p, id)
        /\ m = (IF free = 0 THEN n + 1 ELSE n) /\ left = (IF free = 0 THEN free ELSE free - 1)
  OBVIOUS
<1>4. m \in Nat /\ Space(Len(keys) + 1, m) <= LeafSpace
  BY ONLY <1>2, <1>3, Space(Len(keys) + 1, IF free = 0 THEN n + 1 ELSE n) <= LeafSpace
<1>5. free = 0 => HeaderSize <= Offset(n + 1)
  <2>1. Len(keys) + 1 \in Nat
    BY ONLY <1>2
  <2>2. free = 0 => Space(Len(keys) + 1, n + 1) <= LeafSpace
    BY ONLY <1>3, <1>4
  <2> QED
    BY ONLY <1>2, <2>1, <2>2, RoomForCell
<1>6. PageHolds(now, more, m, left)
  <2>1. PageHolds(now, WithId(InsertAt(keys, p, KeyEntry(key, <<>>)), p, id),
                  IF free = 0 THEN n + 1 ELSE n, IF free = 0 THEN free ELSE free - 1)
    BY ONLY <1>1, <1>5, key \in Keys, Between(keys, p, key), id \in RecIds,
            now = InsertToLeafNotFound(pg, key, id, p), PageNotFound
  <2> QED
    BY ONLY <1>3, <2>1
<1>7. more \in Seq(KeyEntries) /\ AsLeaf(now) = LeafOf(more, m, left)
  BY ONLY <1>6, HoldsIs
<1>8. /\ with \in Seq(KeyEntries) /\ Len(with) = Len(keys) + 1 /\ p \in 1 .. Len(with)
      /\ \A i \in 1 .. Len(with) : i # p => with[i].ids # <<>>
      /\ with[p].ids \in Seq(RecIds)
  <2>1. p \in 1 .. Len(keys) + 1
    BY ONLY Between(keys, p, key) DEF Between
  <2>2. KeyEntry(key, <<>>) \in KeyEntries
    <3>1. <<>> \in Seq(RecIds)
      OBVIOUS
    <3> QED
      BY ONLY <3>1, key \in Keys, EntryOf
  <2>3. /\ with \in Seq(KeyEntries) /\ Len(with) = Len(keys) + 1
        /\ \A i \in 1 .. Len(keys) + 1 :
             with[i] = IF i < p THEN keys[i] ELSE IF i = p THEN KeyEntry(key, <<>>) ELSE keys[i - 1]
    <3>1. PICK e : e = KeyEntry(key, <<>>)
      OBVIOUS
    <3>2. keys \in Seq(KeyEntries) /\ e \in KeyEntries /\ with = InsertAt(keys, p, e)
      BY ONLY <1>2, <1>3, <2>2, <3>1
    <3>3. /\ with \in Seq(KeyEntries) /\ Len(with) = Len(keys) + 1
          /\ \A i \in 1 .. Len(keys) + 1 :
               with[i] = IF i < p THEN keys[i] ELSE IF i = p THEN e ELSE keys[i - 1]
      BY ONLY <2>1, <3>2, InsertAtIs
    <3> QED
      BY ONLY <3>1, <3>3
  <2>4. ASSUME NEW i \in 1 .. Len(keys) + 1, i # p PROVE with[i].ids # <<>>
    <3>1. \A j \in 1 .. Len(keys) : keys[j].ids # <<>>
      BY ONLY <1>1 DEF NoneEmpty
    <3>2. (i < p => i \in 1 .. Len(keys)) /\ (~(i < p) => i - 1 \in 1 .. Len(keys))
      BY ONLY <1>2, <2>1, <2>4
    <3> QED
      BY ONLY <2>3, <2>4, <3>1, <3>2
  <2>5. with[p].ids \in Seq(RecIds)
    BY ONLY <2>1, <2>3, KeysAre
  <2> QED
    BY ONLY <2>1, <2>3, <2>4, <2>5
<1>9. NoneEmpty(more) /\ Len(more) = Len(with)
  <2>1. PICK ids : ids = <<id>> \o with[p].ids
    OBVIOUS
  <2>2. more = SetIds(with, p, ids) /\ ids # <<>>
    BY ONLY <1>3, <1>8, <2>1, id \in RecIds, IdMore
  <2> QED
    BY ONLY <1>7, <1>8, <2>2, OthersNotEmpty
<1>10. Fit(more, m)
  <2>1. Len(more) \in Nat /\ Len(more) >= 1 /\ Space(Len(more), m) <= LeafSpace
    BY ONLY <1>2, <1>4, <1>8, <1>9
  <2> QED
    BY ONLY <1>4, <2>1, FitsWith
<1>11. GoodPage(now)
  BY ONLY <1>6, <1>9, <1>10 DEF GoodPage
<1>12. PICK gap : gap = LeafSpace - Space(Len(keys), n)
  OBVIOUS
<1>13. gap \in Int /\ gap - KeySize \in Int /\ KeySize \in Nat /\ CellSize \in Nat /\ LeafSpace \in Nat
  BY ONLY <1>2, <1>12, LeafAssumption
<1>14. AM_InsertToLeafNotFound(LeafRec(keys, free, gap, AM_NULL_PAGE), key, id, p) =
         IF free = 0 THEN LeafRec(more, free, gap - KeySize - CellSize, AM_NULL_PAGE)
         ELSE LeafRec(more, free - 1, gap - KeySize, AM_NULL_PAGE)
  <2>1. AM_InsertToLeafNotFound(LeafRec(keys, free, gap, AM_NULL_PAGE), key, id, p) =
          AM_InsertToLeafFound(LeafRec(with, free, gap - KeySize, AM_NULL_PAGE), id, p)
    BY ONLY <1>2, <1>3, <1>13, NotFoundRecord
  <2>2. AM_InsertToLeafFound(LeafRec(with, free, gap - KeySize, AM_NULL_PAGE), id, p) =
          IF free = 0 THEN LeafRec(WithId(with, p, id), free, gap - KeySize - CellSize, AM_NULL_PAGE)
          ELSE LeafRec(WithId(with, p, id), free - 1, gap - KeySize, AM_NULL_PAGE)
    BY ONLY <1>2, <1>13, FoundRecord
  <2> QED
    BY ONLY <1>3, <2>1, <2>2
<1>15. LeafSpace - Space(Len(more), m) = IF free = 0 THEN gap - KeySize - CellSize ELSE gap - KeySize
  <2>1. /\ Space(Len(keys) + 1, n + 1) = Space(Len(keys) + 1, n) + CellSize
        /\ Space(Len(keys) + 1, n) = Space(Len(keys), n) + KeySize
    <3>1. Len(keys) + 1 \in Nat
      BY ONLY <1>2
    <3> QED
      BY ONLY <1>2, <3>1, SpaceIs
  <2>2. Len(more) = Len(keys) + 1
    BY ONLY <1>8, <1>9
  <2>3. CASE free = 0
    <3>1. Space(Len(more), m) = Space(Len(keys), n) + KeySize + CellSize
      BY ONLY <1>3, <2>1, <2>2, <2>3
    <3> QED
      BY ONLY <1>2, <1>12, <1>13, <2>3, <3>1
  <2>4. CASE free # 0
    <3>1. Space(Len(more), m) = Space(Len(keys), n) + KeySize
      BY ONLY <1>3, <2>1, <2>2, <2>4
    <3> QED
      BY ONLY <1>2, <1>12, <1>13, <2>4, <3>1
  <2> QED
    BY ONLY <2>3, <2>4
<1>16. AM_InsertToLeafNotFound(AsLeaf(pg), key, id, p) = LeafOf(more, m, left)
  BY ONLY <1>2, <1>3, <1>12, <1>14, <1>15 DEF LeafOf
<1> QED
  BY ONLY <1>7, <1>11, <1>16

(* The keys from low to high, which have no more record ids than all.      *)
Kept(keys, low, high, kept) ==
  /\ low \in 1 .. Len(keys) /\ high \in low .. Len(keys)
  /\ kept = SubSeq(keys, low, high) /\ Count(kept) <= Count(keys)

LEMMA CompactFits ==
  ASSUME NEW keys, NEW n, NEW free, NEW pg, Holding(pg, keys, n, free),
         NEW low, NEW high, NEW kept, Kept(keys, low, high, kept),
         NEW now, now = Compact(pg, low, high)
  PROVE  /\ Holding(now, kept, Count(kept), 0)
         /\ AsLeaf(now) = AM_Compact(AsLeaf(pg), low, high, 0)
<1>0. /\ low \in 1 .. Len(keys) /\ high \in low .. Len(keys)
      /\ kept = SubSeq(keys, low, high) /\ Count(kept) <= Count(keys)
  BY ONLY Kept(keys, low, high, kept) DEF Kept
<1>1. PageHolds(pg, keys, n, free) /\ NoneEmpty(keys) /\ Fit(keys, n)
  BY ONLY Holding(pg, keys, n, free) DEF Holding
<1>2. /\ n \in Nat /\ free \in Nat /\ keys \in Seq(KeyEntries) /\ Len(keys) \in Nat
      /\ Count(keys) + free = n /\ Count(keys) \in Nat
      /\ Space(Len(keys), n) \in Nat /\ AsLeaf(pg) = LeafOf(keys, n, free)
  BY ONLY <1>1, HoldsIs
<1>3. /\ low \in Nat /\ high \in Nat /\ low <= high
      /\ kept \in Seq(KeyEntries) /\ Len(kept) \in Nat /\ Len(kept) >= 1 /\ Len(kept) <= Len(keys)
  <2>1. low \in 1 .. Len(keys) + 1 /\ high \in low - 1 .. Len(keys) /\ low \in Nat /\ high \in Nat
        /\ low <= high
    BY ONLY <1>2, <1>0
  <2>2. kept \in Seq(KeyEntries) /\ Len(kept) = high - low + 1
    BY ONLY <1>2, <2>1, <1>0, PartIs
  <2> QED
    BY ONLY <1>2, <2>1, <2>2, <1>0
<1>4. Count(kept) \in Nat
  <2>1. \E sum : PackedBy(kept, sum, FlattenSeq(ListsOf(kept)))
    BY ONLY <1>3, PackingExists
  <2>2. \E ids : ids \in Seq(RecIds) /\ Len(ids) = Count(kept)
    BY ONLY <2>1 DEF PackedBy
  <2> QED
    BY ONLY <2>2, SeqIs
<1>5. Space(Len(kept), Count(kept)) <= LeafSpace /\ Space(0, Count(kept)) <= LeafSpace
      /\ Space(Len(kept), Count(kept)) \in Nat
  <2>1. Count(kept) <= n /\ 0 \in Nat /\ 0 <= Len(keys)
    BY ONLY <1>2, <1>4, <1>0
  <2>2. /\ Space(Len(kept), Count(kept)) <= Space(Len(keys), n)
        /\ Space(Len(kept), Count(kept)) \in Nat
    BY ONLY <1>2, <1>3, <1>4, <2>1, SpaceGrows
  <2>3. Space(0, Count(kept)) <= Space(Len(keys), n) /\ Space(0, Count(kept)) \in Nat
    BY ONLY <1>2, <1>4, <2>1, SpaceGrows
  <2>4. Space(Len(keys), n) <= LeafSpace
    BY ONLY <1>1 DEF Fit
  <2> QED
    BY ONLY <1>2, <2>2, <2>3, <2>4, LeafAssumption
<1>6. PageHolds(now, kept, Count(kept), 0) /\ NoneEmpty(kept)
  <2>1. HeaderSize <= Offset(Count(kept))
    BY ONLY <1>4, <1>5, OffsetRoom
  <2> QED
    BY ONLY <1>1, <2>1, <1>0, now = Compact(pg, low, high), CompactHolds
<1>7. Fit(kept, Count(kept))
  BY ONLY <1>3, <1>4, <1>5, FitsWith
<1>8. AsLeaf(now) = LeafOf(kept, Count(kept), 0)
  BY ONLY <1>6, HoldsIs
<1>9. RoomFor(kept) = Space(Len(kept), Count(kept))
  BY ONLY DEF RoomFor, Space, Count
<1>10. PICK gap : gap = LeafSpace - Space(Len(keys), n)
  OBVIOUS
<1>11. AM_Compact(AsLeaf(pg), low, high, 0) =
         LeafRec(kept, 0, IF high < low THEN 0 ELSE LeafSpace - RoomFor(kept), AM_NULL_PAGE)
  <2>1. AsLeaf(pg) = LeafRec(keys, free, gap, AM_NULL_PAGE)
    BY ONLY <1>2, <1>10 DEF LeafOf
  <2>2. AM_Compact(LeafRec(keys, free, gap, AM_NULL_PAGE), low, high, 0) =
          LeafRec(SubSeq(keys, low, high), 0,
                  IF high < low THEN 0 ELSE LeafSpace - RoomFor(SubSeq(keys, low, high)),
                  AM_NULL_PAGE)
    BY ONLY CompactRecord
  <2> QED
    BY ONLY <2>1, <2>2, <1>0
<1>12. ~(high < low)
  BY ONLY <1>3
<1> QED
  BY ONLY <1>6, <1>7, <1>8, <1>9, <1>11, <1>12 DEF Holding, LeafOf

LEMMA HoldsIds ==
  ASSUME NEW keys, NEW n, NEW free, NEW pg, PageHolds(pg, keys, n, free), NEW p \in 1 .. Len(keys)
  PROVE  IdList(pg, pg.keys[p].head) = keys[p].ids /\ pg.keys[p].key = keys[p].key
<1>1. PICK heads, cells, first, own :
        pg = PageRec(heads, cells, n, first, free) /\ Laid(heads, cells, n, first, own, keys, free)
  BY ONLY PageHolds(pg, keys, n, free) DEF PageHolds
<1>2. pg.keys = heads
  BY ONLY <1>1, PageParts
<1>3. IdList(pg, heads[p].head) = keys[p].ids
  <2>1. CellLists(pg, heads, first, own, keys, free)
    BY ONLY <1>1, PageLists
  <2> QED
    BY ONLY <2>1, p \in 1 .. Len(keys) DEF CellLists
<1>4. heads[p].key = keys[p].key
  BY ONLY <1>1, p \in 1 .. Len(keys) DEF Laid
<1> QED
  BY ONLY <1>2, <1>3, <1>4

(* The actions, from one page to the next.                                 *)
RoomForKey(pg) == pg.keys = <<>> => pg.recIdPtr - pg.keyPtr > KeySize

InsertOn(pg, key, id, now) ==
  LET at == AM_SearchLeaf(AsLeaf(pg), key)
      gap == pg.recIdPtr - pg.keyPtr IN
  \/ /\ at.found
     /\ pg.freeListPtr # AM_NULL \/ gap >= CellSize
     /\ now = InsertToLeafFound(pg, id, at.index)
  \/ /\ ~at.found
     /\ IF pg.freeListPtr = AM_NULL THEN gap >= CellSize + KeySize ELSE gap > KeySize
     /\ now = InsertToLeafNotFound(pg, key, id, at.index)
  \/ /\ ~at.found /\ pg.freeListPtr # AM_NULL
     /\ gap <= KeySize /\ pg.numinfreeList * CellSize + gap > KeySize + CellSize
     /\ \E compacted \in WholeCompacted(pg) :
          now = InsertToLeafNotFound(compacted, key, id, at.index)

DeleteOn(pg, key, id, now) ==
  LET at == AM_SearchLeaf(AsLeaf(pg), key)
      left == RemoveCell(pg, id, at.index) IN
  /\ at.found /\ Contains(IdList(pg, pg.keys[at.index].head), id)
  /\ now = IF left.keys[at.index].head = AM_NULL THEN KeyTaken(left, at.index) ELSE left

(* What AMLeafSpec does to the leaf.                                       *)
Inserted(leaf, key, id, now) ==
  /\ InsertFits(leaf, AM_SearchLeaf(leaf, key).found)
  /\ now = AM_InsertintoLeaf(leaf, key, id, AM_SearchLeaf(leaf, key))

Deleted(leaf, key, id, now) ==
  /\ AM_SearchLeaf(leaf, key).found
  /\ Contains(leaf.keys[AM_SearchLeaf(leaf, key).index].ids, id)
  /\ now = DeleteFromLeaf(leaf, id, AM_SearchLeaf(leaf, key).index)

LEMMA NoneHeld ==
  ASSUME NEW keys, NEW n, NEW free, NEW pg, PageHolds(pg, keys, n, free)
  PROVE  pg.keys = <<>> <=> Len(keys) = 0
<1>1. PICK heads, cells, first, own :
        pg = PageRec(heads, cells, n, first, free) /\ Laid(heads, cells, n, first, own, keys, free)
  BY ONLY PageHolds(pg, keys, n, free) DEF PageHolds
<1>2. pg.keys = heads
  BY ONLY <1>1, PageParts
<1>3. heads \in Seq(HeadEntries) /\ Len(heads) = Len(keys)
  BY ONLY <1>1 DEF Laid
<1>4. heads = <<>> <=> Len(heads) = 0
  BY ONLY <1>3
<1> QED
  BY ONLY <1>2, <1>3, <1>4

LEMMA PageInserted ==
  ASSUME NEW pg, GoodPage(pg), RoomForKey(pg),
         NEW key \in Keys, NEW id \in RecIds, NEW now, InsertOn(pg, key, id, now)
  PROVE  GoodPage(now) /\ Inserted(AsLeaf(pg), key, id, AsLeaf(now))
<1>1. PICK keys, n, free : PageHolds(pg, keys, n, free) /\ NoneEmpty(keys) /\ Fit(keys, n)
  BY ONLY GoodPage(pg) DEF GoodPage
<1>2. Holding(pg, keys, n, free)
  BY ONLY <1>1 DEF Holding
<1>3. /\ n \in Nat /\ free \in Nat /\ SortedKeys(keys) /\ keys \in Seq(KeyEntries)
      /\ Len(keys) \in Nat /\ Len(pg.keys) = Len(keys)
      /\ Count(keys) + free = n /\ Count(keys) \in Nat /\ Space(Len(keys), n) \in Nat
      /\ pg.numinfreeList = free /\ (pg.freeListPtr = AM_NULL <=> free = 0)
      /\ pg.recIdPtr - pg.keyPtr = LeafSpace - Space(Len(keys), n)
      /\ AsLeaf(pg) = LeafOf(keys, n, free) /\ AsLeaf(pg).keys = keys
  BY ONLY <1>1, HoldsIs
<1>4. PICK leaf, at, gap : /\ leaf = AsLeaf(pg) /\ at = AM_SearchLeaf(leaf, key)
                           /\ gap = LeafSpace - Space(Len(keys), n)
  OBVIOUS
<1>5. KeyPlace(keys, key, at)
  <2>1. SortedKeys(leaf.keys) /\ leaf.keys = keys
    BY ONLY <1>3, <1>4
  <2>2. KeyPlace(leaf.keys, key, AM_SearchLeaf(leaf, key))
    BY ONLY <2>1, key \in Keys, PlaceAmong
  <2> QED
    BY ONLY <1>4, <2>1, <2>2
<1>6. leaf.free = free /\ leaf.gap = gap /\ leaf.keys = keys
  BY ONLY <1>3, <1>4 DEF LeafOf, LeafRec
<1>7. KeySize \in Nat \ {0} /\ CellSize \in Nat \ {0} /\ LeafSpace \in Nat /\ gap \in Int
  BY ONLY <1>3, <1>4, LeafAssumption
<1>8. /\ Space(Len(keys), n + 1) = Space(Len(keys), n) + CellSize
      /\ Space(Len(keys) + 1, n) = Space(Len(keys), n) + KeySize
      /\ Space(Len(keys) + 1, n + 1) = Space(Len(keys), n) + KeySize + CellSize
  <2>1. Len(keys) + 1 \in Nat
    BY ONLY <1>3
  <2>2. /\ Space(Len(keys), n + 1) = Space(Len(keys), n) + CellSize
        /\ Space(Len(keys) + 1, n) = Space(Len(keys), n) + KeySize
    BY ONLY <1>3, SpaceIs
  <2>3. Space(Len(keys) + 1, n + 1) = Space(Len(keys) + 1, n) + CellSize
    BY ONLY <1>3, <2>1, SpaceIs
  <2> QED
    BY ONLY <2>2, <2>3
<1>9. \/ at.found /\ (free # 0 \/ gap >= CellSize) /\ now = InsertToLeafFound(pg, id, at.index)
      \/ /\ ~at.found /\ (IF free = 0 THEN gap >= CellSize + KeySize ELSE gap > KeySize)
         /\ now = InsertToLeafNotFound(pg, key, id, at.index)
      \/ /\ ~at.found /\ free # 0 /\ gap <= KeySize /\ free * CellSize + gap > KeySize + CellSize
         /\ now = InsertToLeafNotFound(Compact(pg, 1, Len(keys)), key, id, at.index)
  <2>1. gap <= KeySize => pg.keys # <<>>
    BY ONLY <1>3, <1>4, <1>7, RoomForKey(pg) DEF RoomForKey
  <2>2. ASSUME gap <= KeySize PROVE WholeCompacted(pg) = {Compact(pg, 1, Len(keys))}
    BY ONLY <1>3, <2>1, <2>2, Zenon DEF WholeCompacted
  <2>3. PICK whole : whole = Compact(pg, 1, Len(keys))
    OBVIOUS
  <2>4. gap <= KeySize => WholeCompacted(pg) = {whole}
    BY ONLY <2>2, <2>3
  <2>5. \/ at.found /\ (free # 0 \/ gap >= CellSize) /\ now = InsertToLeafFound(pg, id, at.index)
        \/ /\ ~at.found /\ (IF free = 0 THEN gap >= CellSize + KeySize ELSE gap > KeySize)
           /\ now = InsertToLeafNotFound(pg, key, id, at.index)
        \/ /\ ~at.found /\ free # 0 /\ gap <= KeySize /\ free * CellSize + gap > KeySize + CellSize
           /\ \E compacted \in WholeCompacted(pg) :
                now = InsertToLeafNotFound(compacted, key, id, at.index)
    BY ONLY <1>3, <1>4, InsertOn(pg, key, id, now) DEF InsertOn
  <2>6. gap <= KeySize /\ (\E compacted \in WholeCompacted(pg) :
          now = InsertToLeafNotFound(compacted, key, id, at.index))
        => now = InsertToLeafNotFound(whole, key, id, at.index)
    BY ONLY <2>4
  <2> QED
    BY ONLY <2>3, <2>5, <2>6
<1>10. CASE at.found /\ (free # 0 \/ gap >= CellSize) /\ now = InsertToLeafFound(pg, id, at.index)
  <2>1. at.index \in 1 .. Len(keys)
    BY ONLY <1>5, <1>10 DEF KeyPlace
  <2>2. free = 0 => Space(Len(keys), n + 1) <= LeafSpace
    BY ONLY <1>3, <1>4, <1>7, <1>8, <1>10
  <2>3. GoodPage(now) /\ AsLeaf(now) = AM_InsertToLeafFound(AsLeaf(pg), id, at.index)
    BY ONLY <1>2, <1>10, <2>1, <2>2, id \in RecIds, FoundFits
  <2>4. InsertFits(leaf, at.found)
    BY ONLY <1>3, <1>6, <1>10 DEF InsertFits
  <2>5. AM_InsertintoLeaf(leaf, key, id, at) = AM_InsertToLeafFound(leaf, id, at.index)
    BY ONLY <1>10, <2>4 DEF AM_InsertintoLeaf
  <2> QED
    BY ONLY <1>4, <2>3, <2>4, <2>5 DEF Inserted
<1>11. CASE /\ ~at.found /\ (IF free = 0 THEN gap >= CellSize + KeySize ELSE gap > KeySize)
            /\ now = InsertToLeafNotFound(pg, key, id, at.index)
  <2>1. Between(keys, at.index, key)
    BY ONLY <1>5, <1>11 DEF KeyPlace
  <2>2. Space(Len(keys) + 1, IF free = 0 THEN n + 1 ELSE n) <= LeafSpace
    <3>1. CASE free = 0
      BY ONLY <1>3, <1>4, <1>7, <1>8, <1>11, <3>1
    <3>2. CASE free # 0
      BY ONLY <1>3, <1>4, <1>7, <1>8, <1>11, <3>2
    <3> QED
      BY ONLY <3>1, <3>2
  <2>3. GoodPage(now) /\ AsLeaf(now) = AM_InsertToLeafNotFound(AsLeaf(pg), key, id, at.index)
    BY ONLY <1>2, <1>11, <2>1, <2>2, key \in Keys, id \in RecIds, NotFoundFits
  <2>4. InsertFits(leaf, at.found)
    BY ONLY <1>3, <1>6, <1>7, <1>11 DEF InsertFits
  <2>5. ~NeedsCompaction(leaf)
    BY ONLY <1>3, <1>6, <1>7, <1>11 DEF NeedsCompaction
  <2>6. AM_InsertintoLeaf(leaf, key, id, at) = AM_InsertToLeafNotFound(leaf, key, id, at.index)
    BY ONLY <1>11, <2>4, <2>5 DEF AM_InsertintoLeaf
  <2> QED
    BY ONLY <1>4, <2>3, <2>4, <2>6 DEF Inserted
<1>12. CASE /\ ~at.found /\ free # 0 /\ gap <= KeySize /\ free * CellSize + gap > KeySize + CellSize
            /\ now = InsertToLeafNotFound(Compact(pg, 1, Len(keys)), key, id, at.index)
  <2>1. Between(keys, at.index, key)
    BY ONLY <1>5, <1>12 DEF KeyPlace
  <2>2. Len(keys) >= 1
    <3>1. pg.keys # <<>>
      BY ONLY <1>3, <1>4, <1>7, <1>12, RoomForKey(pg) DEF RoomForKey
    <3> QED
      BY ONLY <1>1, <1>3, <3>1, NoneHeld
  <2>3. PICK half : half = Compact(pg, 1, Len(keys))
    OBVIOUS
  <2>4. Holding(half, keys, Count(keys), 0) /\ AsLeaf(half) = AM_Compact(AsLeaf(pg), 1, Len(keys), 0)
    <3>1. 1 \in 1 .. Len(keys) /\ Len(keys) \in 1 .. Len(keys) /\ Count(keys) <= Count(keys)
      BY ONLY <1>3, <2>2
    <3>2. keys = SubSeq(keys, 1, Len(keys))
      BY ONLY <1>3
    <3>3. Kept(keys, 1, Len(keys), keys)
      BY ONLY <3>1, <3>2 DEF Kept
    <3> QED
      BY ONLY <1>2, <2>3, <3>3, CompactFits
  <2>5. Space(Len(keys) + 1, Count(keys) + 1) <= LeafSpace
    <3>1. Space(Len(keys), n) = Space(Len(keys), Count(keys)) + free * CellSize
          /\ Space(Len(keys), Count(keys)) \in Nat /\ free * CellSize \in Nat
      <4>1. /\ Len(keys) * KeySize \in Nat /\ Count(keys) * CellSize \in Nat /\ free * CellSize \in Nat
            /\ (Count(keys) + free) * CellSize = Count(keys) * CellSize + free * CellSize
        BY ONLY <1>3, <1>7
      <4> QED
        BY ONLY <1>3, <4>1 DEF Space
    <3>2. Space(Len(keys) + 1, Count(keys) + 1) = Space(Len(keys), Count(keys)) + KeySize + CellSize
      <4>1. Len(keys) + 1 \in Nat
        BY ONLY <1>3
      <4>2. Space(Len(keys) + 1, Count(keys)) = Space(Len(keys), Count(keys)) + KeySize
        BY ONLY <1>3, SpaceIs
      <4>3. Space(Len(keys) + 1, Count(keys) + 1) = Space(Len(keys) + 1, Count(keys)) + CellSize
        BY ONLY <1>3, <4>1, SpaceIs
      <4> QED
        BY ONLY <4>2, <4>3
    <3> QED
      BY ONLY <1>4, <1>7, <1>12, <3>1, <3>2
  <2>6. /\ GoodPage(now)
        /\ AsLeaf(now) = AM_InsertToLeafNotFound(AsLeaf(half), key, id, at.index)
    <3>1. Space(Len(keys) + 1, IF 0 = 0 THEN Count(keys) + 1 ELSE Count(keys)) <= LeafSpace
      BY ONLY <2>5
    <3>2. now = InsertToLeafNotFound(half, key, id, at.index)
      BY ONLY <1>12, <2>3
    <3> QED
      BY ONLY <2>1, <2>4, <3>1, <3>2, key \in Keys, id \in RecIds, NotFoundFits
  <2>7. InsertFits(leaf, at.found)
    BY ONLY <1>6, <1>7, <1>12 DEF InsertFits
  <2>8. NeedsCompaction(leaf)
    BY ONLY <1>3, <1>6, <1>12 DEF NeedsCompaction
  <2>9. AM_InsertintoLeaf(leaf, key, id, at) =
          AM_InsertToLeafNotFound(AM_Compact(leaf, 1, Len(leaf.keys), 0), key, id, at.index)
    BY ONLY <1>12, <2>7, <2>8 DEF AM_InsertintoLeaf
  <2> QED
    BY ONLY <1>4, <1>6, <2>4, <2>6, <2>7, <2>9 DEF Inserted
<1> QED
  BY ONLY <1>9, <1>10, <1>11, <1>12

(* What is left of the keys when one of them is taken out.                 *)
LEMMA OthersLeft ==
  ASSUME NEW keys \in Seq(KeyEntries), NoneEmpty(keys), NEW p \in 1 .. Len(keys),
         NEW with \in Seq(KeyEntries), NEW ids, with = SetIds(keys, p, ids)
  PROVE  /\ RemoveAt(with, p) = RemoveAt(keys, p) /\ with[p].ids = ids /\ Len(with) = Len(keys)
         /\ NoneEmpty(RemoveAt(keys, p)) /\ Len(RemoveAt(keys, p)) = Len(keys) - 1
<1>1. Len(keys) \in Nat /\ DOMAIN keys = 1 .. Len(keys)
  BY ONLY keys \in Seq(KeyEntries), SeqIs
<1>2. /\ DOMAIN with = 1 .. Len(keys)
      /\ \A i \in 1 .. Len(keys) : with[i] = IF i = p THEN [keys[p] EXCEPT !.ids = ids] ELSE keys[i]
  BY ONLY <1>1, with = SetIds(keys, p, ids), p \in 1 .. Len(keys) DEF SetIds
<1>3. Len(with) = Len(keys)
  BY ONLY <1>1, <1>2, with \in Seq(KeyEntries), SameLength
<1>4. with[p].ids = ids
  <2>1. keys[p] = KeyEntry(keys[p].key, keys[p].ids)
    BY ONLY keys \in Seq(KeyEntries), p \in 1 .. Len(keys), KeysAre
  <2>2. with[p] = [keys[p] EXCEPT !.ids = ids]
    BY ONLY <1>2, p \in 1 .. Len(keys)
  <2> QED
    BY ONLY <2>1, <2>2 DEF KeyEntry
<1>5. PICK a, b : a = RemoveAt(keys, p) /\ b = RemoveAt(with, p)
  OBVIOUS
<1>6. /\ a \in Seq(KeyEntries) /\ Len(a) = Len(keys) - 1
      /\ \A i \in 1 .. Len(keys) - 1 : a[i] = IF i < p THEN keys[i] ELSE keys[i + 1]
  <2>1. p \in DOMAIN keys
    BY ONLY <1>1, p \in 1 .. Len(keys)
  <2> QED
    BY ONLY <1>5, <2>1, keys \in Seq(KeyEntries), RemoveAtIs
<1>7. /\ b \in Seq(KeyEntries) /\ Len(b) = Len(with) - 1
      /\ \A i \in 1 .. Len(with) - 1 : b[i] = IF i < p THEN with[i] ELSE with[i + 1]
  <2>1. p \in DOMAIN with
    BY ONLY <1>2, p \in 1 .. Len(keys)
  <2> QED
    BY ONLY <1>5, <2>1, with \in Seq(KeyEntries), RemoveAtIs
<1>8. ASSUME NEW i \in 1 .. Len(keys) - 1 PROVE a[i] = b[i] /\ a[i].ids # <<>>
  <2>1. i \in 1 .. Len(keys) /\ i + 1 \in 1 .. Len(keys) /\ (i < p => i # p) /\ (~(i < p) => i + 1 # p)
    BY ONLY <1>1, i \in 1 .. Len(keys) - 1, p \in 1 .. Len(keys)
  <2>2. keys[i].ids # <<>> /\ keys[i + 1].ids # <<>>
    BY ONLY <2>1, NoneEmpty(keys) DEF NoneEmpty
  <2>3. CASE i < p
    BY ONLY <1>2, <1>3, <1>6, <1>7, <2>1, <2>2, <2>3, i \in 1 .. Len(keys) - 1
  <2>4. CASE ~(i < p)
    BY ONLY <1>2, <1>3, <1>6, <1>7, <2>1, <2>2, <2>4, i \in 1 .. Len(keys) - 1
  <2> QED
    BY ONLY <2>3, <2>4
<1>9. a = b
  <2>1. Len(a) = Len(b) /\ \A i \in 1 .. Len(a) : a[i] = b[i]
    BY ONLY <1>3, <1>6, <1>7, <1>8
  <2> QED
    BY ONLY <1>6, <1>7, <2>1
<1>10. NoneEmpty(a)
  BY ONLY <1>6, <1>8 DEF NoneEmpty
<1> QED
  BY ONLY <1>3, <1>4, <1>5, <1>6, <1>9, <1>10

LEMMA PageDeleted ==
  ASSUME NEW pg, GoodPage(pg), NEW key \in Keys, NEW id \in RecIds, NEW now, DeleteOn(pg, key, id, now)
  PROVE  GoodPage(now) /\ Deleted(AsLeaf(pg), key, id, AsLeaf(now))
<1>1. PICK keys, n, free : PageHolds(pg, keys, n, free) /\ NoneEmpty(keys) /\ Fit(keys, n)
  BY ONLY GoodPage(pg) DEF GoodPage
<1>2. /\ n \in Nat /\ free \in Nat /\ SortedKeys(keys) /\ keys \in Seq(KeyEntries)
      /\ Len(keys) \in Nat /\ Space(Len(keys), n) \in Nat
      /\ AsLeaf(pg) = LeafOf(keys, n, free) /\ AsLeaf(pg).keys = keys
  BY ONLY <1>1, HoldsIs
<1>3. PICK leaf, at, p, gap : /\ leaf = AsLeaf(pg) /\ at = AM_SearchLeaf(leaf, key) /\ p = at.index
                              /\ gap = LeafSpace - Space(Len(keys), n)
  OBVIOUS
<1>4. KeyPlace(keys, key, at)
  <2>1. SortedKeys(leaf.keys) /\ leaf.keys = keys
    BY ONLY <1>2, <1>3
  <2>2. KeyPlace(leaf.keys, key, AM_SearchLeaf(leaf, key))
    BY ONLY <2>1, key \in Keys, PlaceAmong
  <2> QED
    BY ONLY <1>3, <2>1, <2>2
<1>5. PICK left, ids, rest, with : /\ left = RemoveCell(pg, id, p) /\ ids = keys[p].ids
                                   /\ rest = RemoveFirst(ids, id) /\ with = SetIds(keys, p, rest)
  OBVIOUS
<1>6. /\ at.found /\ Contains(IdList(pg, pg.keys[p].head), id)
      /\ now = IF left.keys[p].head = AM_NULL THEN KeyTaken(left, p) ELSE left
  BY ONLY <1>3, <1>5, DeleteOn(pg, key, id, now) DEF DeleteOn
<1>7. p \in 1 .. Len(keys)
  BY ONLY <1>3, <1>4, <1>6 DEF KeyPlace
<1>8. Contains(ids, id)
  BY ONLY <1>1, <1>5, <1>6, <1>7, HoldsIds
<1>9. /\ PageHolds(left, with, n, free + 1) /\ (left.keys[p].head = AM_NULL <=> rest = <<>>)
      /\ rest \in Seq(RecIds)
  <2>1. /\ PageHolds(left, SetIds(keys, p, rest), n, free + 1)
        /\ (left.keys[p].head = AM_NULL <=> rest = <<>>) /\ rest \in Seq(RecIds)
    <3>1. Contains(keys[p].ids, id) /\ rest = RemoveFirst(keys[p].ids, id)
      BY ONLY <1>5, <1>8
    <3>2. left = RemoveCell(pg, id, p)
      BY ONLY <1>5
    <3> QED
      BY ONLY <1>1, <1>7, <3>1, <3>2, PageFreed
  <2> QED
    BY ONLY <1>5, <2>1
<1>10. with \in Seq(KeyEntries) /\ free + 1 \in Nat
  BY ONLY <1>9, HoldsIs
<1>11. /\ RemoveAt(with, p) = RemoveAt(keys, p) /\ with[p].ids = rest /\ Len(with) = Len(keys)
       /\ NoneEmpty(RemoveAt(keys, p)) /\ Len(RemoveAt(keys, p)) = Len(keys) - 1
  BY ONLY <1>1, <1>2, <1>5, <1>7, <1>10, OthersLeft
<1>12. gap \in Int /\ KeySize \in Nat /\ LeafSpace \in Nat
  BY ONLY <1>2, <1>3, LeafAssumption
<1>13. DeleteFromLeaf(leaf, id, p) =
         IF rest = <<>> THEN LeafRec(RemoveAt(keys, p), free + 1, gap + KeySize, AM_NULL_PAGE)
         ELSE LeafRec(with, free + 1, gap, AM_NULL_PAGE)
  <2>1. leaf = LeafRec(keys, free, gap, AM_NULL_PAGE)
    BY ONLY <1>2, <1>3 DEF LeafOf
  <2>2. DeleteFromLeaf(LeafRec(keys, free, gap, AM_NULL_PAGE), id, p) =
          IF RemoveFirst(keys[p].ids, id) = <<>>
          THEN LeafRec(RemoveAt(keys, p), free + 1, gap + KeySize, AM_NULL_PAGE)
          ELSE LeafRec(SetIds(keys, p, RemoveFirst(keys[p].ids, id)), free + 1, gap, AM_NULL_PAGE)
    BY ONLY <1>2, <1>12, DeleteRecord
  <2> QED
    BY ONLY <1>5, <2>1, <2>2
<1>14. GoodPage(now) /\ AsLeaf(now) = DeleteFromLeaf(leaf, id, p)
  <2>1. CASE rest = <<>>
    <3>1. PICK fewer : fewer = RemoveAt(keys, p)
      OBVIOUS
    <3>2. now = KeyTaken(left, p)
      BY ONLY <1>6, <1>9, <2>1
    <3>3. PageHolds(now, fewer, n, free + 1)
      <4>1. p \in 1 .. Len(with) /\ with[p].ids = <<>>
        BY ONLY <1>7, <1>11, <2>1
      <4>2. PageHolds(now, RemoveAt(with, p), n, free + 1)
        BY ONLY <1>9, <3>2, <4>1, PageKeyTaken
      <4> QED
        BY ONLY <1>11, <3>1, <4>2
    <3>4. Len(fewer) \in Nat /\ Len(fewer) + 1 = Len(keys) /\ NoneEmpty(fewer)
      BY ONLY <1>2, <1>7, <1>11, <3>1
    <3>5. Space(Len(keys), n) = Space(Len(fewer), n) + KeySize /\ Space(Len(fewer), n) \in Nat
      <4>1. Space(Len(fewer) + 1, n) = Space(Len(fewer), n) + KeySize /\ Space(Len(fewer), n) \in Nat
        BY ONLY <1>2, <3>4, SpaceIs
      <4> QED
        BY ONLY <3>4, <4>1
    <3>6. Fit(fewer, n)
      <4>1. Space(Len(keys), n) <= LeafSpace /\ Space(1, n) <= LeafSpace
        BY ONLY <1>1 DEF Fit
      <4> QED
        BY ONLY <1>2, <1>12, <3>5, <4>1 DEF Fit
    <3>7. AsLeaf(now) = LeafOf(fewer, n, free + 1)
      BY ONLY <3>3, HoldsIs
    <3>8. LeafSpace - Space(Len(fewer), n) = gap + KeySize
      BY ONLY <1>2, <1>3, <1>12, <3>5
    <3> QED
      BY ONLY <1>13, <2>1, <3>1, <3>3, <3>4, <3>6, <3>7, <3>8 DEF GoodPage, LeafOf
  <2>2. CASE rest # <<>>
    <3>1. now = left
      BY ONLY <1>6, <1>9, <2>2
    <3>2. NoneEmpty(with)
      <4>1. \A i \in 1 .. Len(keys) : i # p => keys[i].ids # <<>>
        BY ONLY <1>1 DEF NoneEmpty
      <4> QED
        BY ONLY <1>2, <1>5, <1>7, <1>10, <2>2, <4>1, OthersNotEmpty
    <3>3. Fit(with, n)
      BY ONLY <1>1, <1>11 DEF Fit
    <3>4. AsLeaf(left) = LeafOf(with, n, free + 1)
      BY ONLY <1>9, HoldsIs
    <3>5. LeafSpace - Space(Len(with), n) = gap
      BY ONLY <1>3, <1>11
    <3> QED
      BY ONLY <1>9, <1>13, <2>2, <3>1, <3>2, <3>3, <3>4, <3>5 DEF GoodPage, LeafOf
  <2> QED
    BY ONLY <2>1, <2>2
<1>15. leaf.keys = keys
  BY ONLY <1>2, <1>3
<1> QED
  BY ONLY <1>3, <1>5, <1>6, <1>8, <1>14, <1>15 DEF Deleted

(* AM_SplitLeaf, on the page that keeps a half.                            *)
LEMMA PageHalved ==
  ASSUME NEW pg, GoodPage(pg), NEW keys, keys = AsLeaf(pg).keys, Len(keys) >= 2,
         NEW low, NEW high,
         \/ low = 1 /\ high = Len(keys) \div 2
         \/ low = Len(keys) \div 2 + 1 /\ high = Len(keys),
         NEW now, now = Compact(pg, low, high)
  PROVE  GoodPage(now) /\ AsLeaf(now) = AM_Compact(AsLeaf(pg), low, high, 0)
<1>1. PICK n, free : PageHolds(pg, keys, n, free) /\ NoneEmpty(keys) /\ Fit(keys, n)
  <2>1. PICK held, n, free : PageHolds(pg, held, n, free) /\ NoneEmpty(held) /\ Fit(held, n)
    BY ONLY GoodPage(pg) DEF GoodPage
  <2>2. keys = held
    BY ONLY <2>1, keys = AsLeaf(pg).keys, HoldsIs
  <2> QED
    BY ONLY <2>1, <2>2
<1>2. keys \in Seq(KeyEntries) /\ Len(keys) \in Nat
  BY ONLY <1>1, HoldsIs
<1>3. PICK half : half = Len(keys) \div 2
  OBVIOUS
<1>4. half \in Nat /\ half >= 1 /\ half < Len(keys)
  BY ONLY <1>2, <1>3, Len(keys) >= 2
<1>5. PICK lower, upper : /\ lower = SubSeq(keys, 1, half)
                          /\ upper = SubSeq(keys, half + 1, Len(keys))
  OBVIOUS
<1>6. /\ lower \in Seq(KeyEntries) /\ Len(lower) = half
      /\ \A i \in 1 .. half : lower[i] = keys[i]
  <2>1. 1 \in 1 .. Len(keys) + 1 /\ half \in 1 - 1 .. Len(keys) /\ half - 1 + 1 = half
        /\ \A i \in 1 .. half : 1 + i - 1 = i
    BY ONLY <1>2, <1>4
  <2>2. /\ SubSeq(keys, 1, half) \in Seq(KeyEntries) /\ Len(SubSeq(keys, 1, half)) = half - 1 + 1
        /\ \A i \in 1 .. half - 1 + 1 : SubSeq(keys, 1, half)[i] = keys[1 + i - 1]
    BY ONLY <1>2, <2>1, PartIs
  <2> QED
    BY ONLY <1>5, <2>1, <2>2
<1>7. /\ upper \in Seq(KeyEntries) /\ Len(upper) = Len(keys) - half
      /\ \A i \in 1 .. Len(keys) - half : upper[i] = keys[half + i]
  <2>1. /\ half + 1 \in 1 .. Len(keys) + 1 /\ Len(keys) \in half + 1 - 1 .. Len(keys)
        /\ Len(keys) - (half + 1) + 1 = Len(keys) - half
        /\ \A i \in 1 .. Len(keys) - half : half + 1 + i - 1 = half + i
    BY ONLY <1>2, <1>4
  <2>2. PICK m : m = half + 1
    OBVIOUS
  <2>3. /\ SubSeq(keys, m, Len(keys)) \in Seq(KeyEntries)
        /\ Len(SubSeq(keys, m, Len(keys))) = Len(keys) - m + 1
        /\ \A i \in 1 .. Len(keys) - m + 1 : SubSeq(keys, m, Len(keys))[i] = keys[m + i - 1]
    <3>1. m \in 1 .. Len(keys) + 1 /\ Len(keys) \in m - 1 .. Len(keys)
      BY ONLY <2>1, <2>2
    <3> QED
      BY ONLY <1>2, <3>1, PartIs
  <2> QED
    BY ONLY <1>5, <2>1, <2>2, <2>3
<1>8. Count(keys) = Count(lower) + Count(upper) /\ Count(lower) \in Nat /\ Count(upper) \in Nat
  <2>1. Parted(keys, lower, upper)
    <3>1. Len(keys) = Len(lower) + Len(upper)
      BY ONLY <1>2, <1>4, <1>6, <1>7
    <3> QED
      BY ONLY <1>6, <1>7, <3>1 DEF Parted
  <2> QED
    BY ONLY <1>2, <1>6, <1>7, <2>1, CountParted
<1>9. PICK kept : kept = SubSeq(keys, low, high)
  OBVIOUS
<1>10. low \in 1 .. Len(keys) /\ high \in low .. Len(keys) /\ Count(kept) <= Count(keys)
  <2>1. CASE low = 1 /\ high = Len(keys) \div 2
    <3>1. kept = lower /\ low = 1 /\ high = half
      BY ONLY <1>3, <1>5, <1>9, <2>1
    <3> QED
      BY ONLY <1>2, <1>4, <1>8, <3>1
  <2>2. CASE low = Len(keys) \div 2 + 1 /\ high = Len(keys)
    <3>1. kept = upper /\ low = half + 1 /\ high = Len(keys)
      BY ONLY <1>3, <1>5, <1>9, <2>2
    <3> QED
      BY ONLY <1>2, <1>4, <1>8, <3>1
  <2> QED
    BY <2>1, <2>2
<1>11. Holding(now, kept, Count(kept), 0) /\ AsLeaf(now) = AM_Compact(AsLeaf(pg), low, high, 0)
  <2>1. Holding(pg, keys, n, free)
    BY ONLY <1>1 DEF Holding
  <2>2. Kept(keys, low, high, kept)
    BY ONLY <1>9, <1>10 DEF Kept
  <2> QED
    BY ONLY <2>1, <2>2, now = Compact(pg, low, high), CompactFits
<1>12. PICK c, f : c = Count(kept) /\ f = 0
  OBVIOUS
<1>13. PageHolds(now, kept, c, f) /\ NoneEmpty(kept) /\ Fit(kept, c)
  BY ONLY <1>11, <1>12 DEF Holding
<1>14. GoodPage(now)
  BY ONLY <1>13 DEF GoodPage
<1> QED
  BY ONLY <1>11, <1>14

-----------------------------------------------------------------------------
(***************************************************************************)
(* The search, on every leaf of the keys that SearchKeys allows.           *)
(***************************************************************************)
Rank(S, k) == Cardinality({j \in S : j < k})
Ranked(S, i) == CHOOSE k \in S : Rank(S, k) = i - 1

LEMMA RanksRise ==
  ASSUME NEW S \in SUBSET Int, IsFiniteSet(S), NEW k \in S
  PROVE  /\ Rank(S, k) \in 0 .. Cardinality(S) - 1 /\ Cardinality(S) \in Nat
         /\ \A l \in S : k < l => Rank(S, k) < Rank(S, l)
<1>1. Cardinality(S) \in Nat
  BY ONLY IsFiniteSet(S), FS_CardinalityType
<1>2. PICK B : B = {j \in S : j < k}
  OBVIOUS
<1>3. B \in SUBSET S /\ k \notin B
  BY ONLY <1>2, k \in S, S \in SUBSET Int
<1>4. IsFiniteSet(B)
  BY ONLY <1>3, IsFiniteSet(S), FS_Subset
<1>5. Cardinality(B) \in Nat
  BY ONLY <1>4, FS_CardinalityType
<1>6. IsFiniteSet(B \cup {k}) /\ Cardinality(B \cup {k}) = Cardinality(B) + 1
  BY ONLY <1>3, <1>4, FS_AddElement
<1>7. Rank(S, k) = Cardinality(B)
  BY ONLY <1>2 DEF Rank
<1>8. Cardinality(B) + 1 <= Cardinality(S)
  <2>1. PICK D : D = B \cup {k}
    OBVIOUS
  <2>2. D \in SUBSET S
    BY ONLY <1>3, <2>1, k \in S
  <2>3. Cardinality(D) <= Cardinality(S)
    BY ONLY <2>2, IsFiniteSet(S), FS_Subset
  <2> QED
    BY ONLY <1>1, <1>5, <1>6, <2>1, <2>3
<1>9. ASSUME NEW l \in S, k < l PROVE Rank(S, k) < Rank(S, l)
  <2>1. PICK C : C = {j \in S : j < l}
    OBVIOUS
  <2>2. C \in SUBSET S /\ B \cup {k} \in SUBSET C
    <3>1. ASSUME NEW j \in B PROVE j \in C
      <4>1. j \in S /\ j < k /\ j \in Int /\ k \in Int /\ l \in Int
        BY ONLY <1>2, k \in S, S \in SUBSET Int
      <4>2. j < l
        BY ONLY <1>9, <4>1
      <4> QED
        BY ONLY <2>1, <4>1, <4>2
    <3>2. k \in C /\ C \in SUBSET S
      BY ONLY <1>9, <2>1, k \in S
    <3> QED
      BY ONLY <3>1, <3>2
  <2>3. IsFiniteSet(C)
    BY ONLY <2>2, IsFiniteSet(S), FS_Subset
  <2>4. Cardinality(C) \in Nat
    BY ONLY <2>3, FS_CardinalityType
  <2>5. Cardinality(B \cup {k}) <= Cardinality(C)
    BY ONLY <2>2, <2>3, FS_Subset
  <2>6. Rank(S, l) = Cardinality(C)
    BY ONLY <2>1 DEF Rank
  <2> QED
    BY ONLY <1>5, <1>6, <1>7, <2>4, <2>5, <2>6
<1> QED
  BY ONLY <1>1, <1>5, <1>7, <1>8, <1>9

(* Every rank is one of a number.                                          *)
LEMMA RanksReach ==
  ASSUME NEW S \in SUBSET Int, IsFiniteSet(S), NEW i \in 1 .. Cardinality(S)
  PROVE  Sorted(S)[i] \in S /\ Rank(S, Sorted(S)[i]) = i - 1
<1>1. PICK n, T, f : /\ n = Cardinality(S) /\ T = 0 .. n - 1 /\ f = [k \in S |-> Rank(S, k)]
  OBVIOUS
<1>2. n \in Nat
  BY ONLY <1>1, IsFiniteSet(S), FS_CardinalityType
<1>3. \A k \in S : f[k] \in T
  <2>1. ASSUME NEW k \in S PROVE f[k] \in T
    <3>1. Rank(S, k) \in 0 .. Cardinality(S) - 1
      BY ONLY S \in SUBSET Int, IsFiniteSet(S), k \in S, RanksRise
    <3> QED
      BY ONLY <1>1, <3>1
  <2> QED
    BY ONLY <2>1
<1>4. ASSUME NEW k \in S, NEW l \in S, f[k] = f[l] PROVE k = l
  <2>1. /\ k < l => Rank(S, k) < Rank(S, l)
        /\ l < k => Rank(S, l) < Rank(S, k)
    BY ONLY S \in SUBSET Int, IsFiniteSet(S), RanksRise
  <2>2. Rank(S, k) = f[k] /\ Rank(S, l) = f[l] /\ f[k] \in Int /\ k \in Int /\ l \in Int
    BY ONLY <1>1, <1>2, <1>3, S \in SUBSET Int
  <2> QED
    BY ONLY <1>4, <2>1, <2>2
<1>5. f \in Injection(S, T)
  <2>1. f \in [S -> T]
    BY ONLY <1>1, <1>3
  <2> QED
    BY ONLY <1>4, <2>1 DEF Injection, IsInjective
<1>6. IsFiniteSet(T) /\ Cardinality(T) = n
  <2>1. 0 \in Int /\ n - 1 \in Int
    BY ONLY <1>2
  <2>2. IsFiniteSet(0 .. n - 1) /\ Cardinality(0 .. n - 1) = IF 0 > n - 1 THEN 0 ELSE n - 1 - 0 + 1
    BY ONLY <2>1, FS_Interval
  <2> QED
    BY ONLY <1>1, <1>2, <2>2
<1>7. f \in Surjection(S, T)
  BY ONLY <1>1, <1>5, <1>6, FS_Injection
<1>8. i - 1 \in T /\ i \in 1 .. n
  BY ONLY <1>1, <1>2, i \in 1 .. Cardinality(S)
<1>9. PICK k \in S : f[k] = i - 1
  BY ONLY <1>7, <1>8 DEF Surjection
<1>10. Rank(S, k) = i - 1
  BY ONLY <1>1, <1>9
<1>11. Sorted(S)[i] = CHOOSE x \in S : Rank(S, x) = i - 1
  <2>1. Sorted(S) = [x \in 1 .. Cardinality(S) |-> CHOOSE y \in S : Rank(S, y) = x - 1]
    BY DEF Sorted, Rank
  <2> QED
    BY ONLY <2>1, i \in 1 .. Cardinality(S)
<1> QED
  BY ONLY <1>10, <1>11

LEMMA SortedIs ==
  ASSUME NEW S \in SUBSET Int, IsFiniteSet(S), NEW keys, keys = Sorted(S)
  PROVE  keys \in Seq(Int) /\ InOrder(keys)
<1>1. PICK n : n = Cardinality(S)
  OBVIOUS
<1>2. n \in Nat
  BY ONLY <1>1, IsFiniteSet(S), FS_CardinalityType
<1>3. ASSUME NEW i \in 1 .. n PROVE keys[i] \in S /\ Rank(S, keys[i]) = i - 1
  <2>1. i \in 1 .. Cardinality(S)
    BY ONLY <1>1
  <2>2. Sorted(S)[i] \in S /\ Rank(S, Sorted(S)[i]) = i - 1
    BY ONLY S \in SUBSET Int, IsFiniteSet(S), <2>1, RanksReach
  <2> QED
    BY ONLY <2>2, keys = Sorted(S)
<1>4. DOMAIN keys = 1 .. n /\ keys = [i \in 1 .. n |-> keys[i]]
  <2>1. Sorted(S) = [i \in 1 .. Cardinality(S) |-> Ranked(S, i)]
    BY ONLY Zenon DEF Sorted, Rank, Ranked
  <2>2. keys = [i \in 1 .. n |-> Ranked(S, i)]
    BY ONLY <1>1, <2>1, keys = Sorted(S)
  <2> QED
    BY ONLY <2>2
<1>5. keys \in Seq(Int)
  <2>1. \A i \in 1 .. n : keys[i] \in Int
    BY ONLY <1>3, S \in SUBSET Int
  <2>2. keys \in [1 .. n -> Int]
    BY ONLY <1>4, <2>1
  <2> QED
    BY ONLY <1>2, <2>2
<1>6. ASSUME NEW i \in 1 .. n, NEW j \in 1 .. n, i < j PROVE keys[i] < keys[j]
  <2>1. PICK a, b : a = keys[i] /\ b = keys[j]
    OBVIOUS
  <2>2. a \in S /\ b \in S /\ a \in Int /\ b \in Int /\ Rank(S, a) = i - 1 /\ Rank(S, b) = j - 1
    BY ONLY <1>3, <2>1, S \in SUBSET Int
  <2>3. b < a => Rank(S, b) < Rank(S, a)
    BY ONLY <2>2, S \in SUBSET Int, IsFiniteSet(S), RanksRise
  <2>4. i \in Int /\ j \in Int
    BY ONLY <1>2
  <2>5. a # b
    BY ONLY <1>6, <2>2, <2>4
  <2>6. ~(b < a)
    BY ONLY <1>6, <2>2, <2>3, <2>4
  <2> QED
    BY ONLY <2>1, <2>2, <2>5, <2>6
<1> QED
  BY ONLY <1>4, <1>5, <1>6 DEF InOrder

(* A place among keys in order is where a scan of the keys ends.           *)
LEMMA PlaceIsScan ==
  ASSUME NEW keys \in Seq(Int), InOrder(keys), NEW key \in Int, NEW at, IsPlace(keys, key, at)
  PROVE  /\ at.found <=> key \in ToSet(keys)
         /\ at.index = 1 + Cardinality({i \in DOMAIN keys : keys[i] < key})
<1>1. PICK n, p : n = Len(keys) /\ p = at.index
  OBVIOUS
<1>2. /\ n \in Nat /\ DOMAIN keys = 1 .. n /\ \A i \in 1 .. n : keys[i] \in Int
      /\ p \in 1 .. n + 1 /\ at.found \in BOOLEAN
      /\ at.found => p \in 1 .. n /\ keys[p] = key
      /\ \A i \in 1 .. n : i < p => keys[i] < key
      /\ \A i \in 1 .. n : i > p \/ (i = p /\ ~at.found) => keys[i] > key
  BY ONLY <1>1, keys \in Seq(Int), IsPlace(keys, key, at), SeqIs DEF IsPlace
<1>3. \A i \in 1 .. n : keys[i] < key <=> i < p
  <2>1. ASSUME NEW i \in 1 .. n, ~(i < p) PROVE ~(keys[i] < key)
    <3>1. i \in Int /\ p \in Int /\ keys[i] \in Int
      BY ONLY <1>2
    <3>2. CASE i > p \/ (i = p /\ ~at.found)
      BY ONLY <1>2, <3>1, <3>2, key \in Int
    <3>3. CASE i = p /\ at.found
      BY ONLY <1>2, <3>1, <3>3, key \in Int
    <3> QED
      BY ONLY <1>2, <2>1, <3>1, <3>2, <3>3
  <2> QED
    BY ONLY <1>2, <2>1
<1>4. {i \in DOMAIN keys : keys[i] < key} = 1 .. p - 1
  <2>1. {i \in 1 .. n : keys[i] < key} = {i \in 1 .. n : i < p}
    BY ONLY <1>3
  <2>2. {i \in 1 .. n : i < p} = 1 .. p - 1
    BY ONLY <1>2
  <2> QED
    BY ONLY <1>2, <2>1, <2>2
<1>5. Cardinality(1 .. p - 1) = p - 1
  <2>1. 1 \in Int /\ p - 1 \in Int
    BY ONLY <1>2
  <2>2. Cardinality(1 .. p - 1) = IF 1 > p - 1 THEN 0 ELSE p - 1 - 1 + 1
    BY ONLY <2>1, FS_Interval
  <2> QED
    BY ONLY <1>2, <2>2
<1>6. at.found <=> key \in ToSet(keys)
  <2>1. ToSet(keys) = {keys[i] : i \in 1 .. n}
    BY ONLY <1>2 DEF ToSet
  <2>2. at.found => key \in ToSet(keys)
    BY ONLY <1>2, <2>1
  <2>3. ASSUME ~at.found, NEW i \in 1 .. n PROVE keys[i] # key
    <3>1. i \in Int /\ p \in Int /\ keys[i] \in Int
      BY ONLY <1>2
    <3> QED
      BY ONLY <1>2, <2>3, <3>1, key \in Int
  <2> QED
    BY ONLY <2>1, <2>2, <2>3
<1>7. p = 1 + (p - 1)
  BY ONLY <1>2
<1> QED
  BY ONLY <1>1, <1>4, <1>5, <1>6, <1>7

LEMMA LeafWithKeys ==
  ASSUME NEW keys
  PROVE  KeysOf(LeafWith(keys)) = [i \in DOMAIN keys |-> keys[i]]
<1>1. LeafWith(keys).keys = [i \in DOMAIN keys |-> KeyEntry(keys[i], <<>>)]
  BY DEF LeafWith, EmptyLeaf
<1>2. \A i \in DOMAIN keys : KeyEntry(keys[i], <<>>).key = keys[i]
  BY DEF KeyEntry
<1> QED
  BY ONLY <1>1, <1>2 DEF KeysOf

(* AM_SearchLeaf finds what a scan of the keys would, on every leaf whose  *)
(* keys are those of a finite set of numbers.                              *)
THEOREM BinSearchIsScan == SearchIsScan
<1> SUFFICES ASSUME NEW S \in SUBSET SearchKeys, NEW key \in SearchKeys
             PROVE  AM_SearchLeaf(LeafWith(Sorted(S)), key) = PlaceOf(Sorted(S), key)
  BY Zenon DEF SearchIsScan
<1>1. S \in SUBSET Int /\ IsFiniteSet(S) /\ key \in Int
  <2>1. SearchKeys \subseteq Int /\ IsFiniteSet(SearchKeys)
    BY HeaderAssumption
  <2> QED
    BY ONLY <2>1, S \in SUBSET SearchKeys, key \in SearchKeys, FS_Subset
<1>2. PICK keys, leaf, at : /\ keys = Sorted(S) /\ leaf = LeafWith(keys)
                            /\ at = AM_SearchLeaf(leaf, key)
  OBVIOUS
<1>3. keys \in Seq(Int) /\ InOrder(keys)
  BY ONLY <1>1, <1>2, SortedIs
<1>4. KeysOf(leaf) = keys
  <2>1. KeysOf(LeafWith(keys)) = [i \in DOMAIN keys |-> keys[i]]
    BY ONLY LeafWithKeys
  <2>2. keys = [i \in DOMAIN keys |-> keys[i]]
    BY ONLY <1>3
  <2> QED
    BY ONLY <1>2, <2>1, <2>2
<1>5. IsPlace(keys, key, at)
  <2>1. KeysOf(leaf) \in Seq(Int) /\ InOrder(KeysOf(leaf))
    BY ONLY <1>3, <1>4
  <2>2. IsPlace(KeysOf(leaf), key, AM_SearchLeaf(leaf, key))
    BY ONLY <1>1, <2>1, SearchFindsPlaceOf
  <2> QED
    BY ONLY <1>2, <1>4, <2>2
<1>6. /\ at.found <=> key \in ToSet(keys)
      /\ at.index = 1 + Cardinality({i \in DOMAIN keys : keys[i] < key})
  BY ONLY <1>1, <1>3, <1>5, PlaceIsScan
<1>7. at = [found |-> at.found, index |-> at.index]
  <2>1. \E found, index : at = [found |-> found, index |-> index]
    BY ONLY <1>2 DEF AM_SearchLeaf
  <2>2. PICK found, index : at = [found |-> found, index |-> index]
    BY ONLY <2>1
  <2>3. at.found = found /\ at.index = index
    BY ONLY <2>2
  <2> QED
    BY ONLY <2>2, <2>3
<1>8. at.found = (key \in ToSet(keys))
  <2>1. at.found \in BOOLEAN
    BY ONLY <1>5 DEF IsPlace
  <2> QED
    BY ONLY <1>6, <2>1
<1> QED
  BY ONLY <1>2, <1>6, <1>7, <1>8 DEF PlaceOf

-----------------------------------------------------------------------------
(***************************************************************************)
(* The page of the specification.                                          *)
(***************************************************************************)
WellFormed(pg) ==
  LET heads == [i \in DOMAIN pg.keys |-> pg.keys[i].head]
      lists == [i \in DOMAIN heads |-> CellList(pg, heads[i])]
      free == CellList(pg, pg.freeListPtr)
      all == FlattenSeq(lists) \o free
  IN /\ \A i \in DOMAIN lists : lists[i] # <<>>
     /\ Len(free) = pg.numinfreeList
     /\ Len(all) = Cardinality(DOMAIN pg.cells)
     /\ ToSet(all) = DOMAIN pg.cells
     /\ DOMAIN pg.cells =
          {PageSize - n * CellSize : n \in 1 .. (PageSize - pg.recIdPtr) \div CellSize}
     /\ pg.keyPtr = HeaderSize + Len(pg.keys) * KeySize
     /\ pg.keyPtr <= pg.recIdPtr

KeysRise(pg) == \A i, j \in DOMAIN pg.keys : i < j => pg.keys[i].key < pg.keys[j].key

HeadsOf(pg) == [i \in DOMAIN pg.keys |-> pg.keys[i].head]
ListsAt(pg) == [i \in DOMAIN HeadsOf(pg) |-> CellList(pg, HeadsOf(pg)[i])]
FreeAt(pg) == CellList(pg, pg.freeListPtr)
AllAt(pg) == FlattenSeq(ListsAt(pg)) \o FreeAt(pg)

LEMMA FormsWell ==
  ASSUME NEW pg,
         \A i \in DOMAIN ListsAt(pg) : ListsAt(pg)[i] # <<>>,
         Len(FreeAt(pg)) = pg.numinfreeList,
         Len(AllAt(pg)) = Cardinality(DOMAIN pg.cells), ToSet(AllAt(pg)) = DOMAIN pg.cells,
         DOMAIN pg.cells = CellsUpTo(NumberAt(pg.recIdPtr)),
         pg.keyPtr = HeaderSize + Len(pg.keys) * KeySize, pg.keyPtr <= pg.recIdPtr
  PROVE  WellFormed(pg)
BY Zenon DEF WellFormed, ListsAt, FreeAt, AllAt, HeadsOf, CellsUpTo, Offset, NumberAt

LEMMA GoodIsWellFormed ==
  ASSUME NEW pg, GoodPage(pg)
  PROVE  WellFormed(pg) /\ KeysRise(pg)
<1>1. PICK keys, n, free : PageHolds(pg, keys, n, free) /\ NoneEmpty(keys) /\ Fit(keys, n)
  BY ONLY GoodPage(pg) DEF GoodPage
<1>2. PICK heads, cells, first, own :
        pg = PageRec(heads, cells, n, first, free) /\ Laid(heads, cells, n, first, own, keys, free)
  BY ONLY <1>1 DEF PageHolds
<1>3. /\ pg.keys = heads /\ pg.cells = cells /\ pg.recIdPtr = Offset(n)
      /\ pg.keyPtr = HeaderSize + Len(heads) * KeySize
      /\ pg.freeListPtr = first /\ pg.numinfreeList = free
  BY ONLY <1>2, PageParts
<1>4. /\ n \in Nat /\ Len(keys) \in Nat /\ HeaderSize <= Offset(n) /\ keys \in Seq(KeyEntries)
      /\ Space(Len(keys), n) \in Nat
      /\ pg.recIdPtr - pg.keyPtr = LeafSpace - Space(Len(keys), n)
  BY ONLY <1>1, HoldsIs
<1>5. DOMAIN heads = 1 .. Len(keys) /\ DOMAIN cells = CellsUpTo(n)
  <2>1. heads \in Seq(HeadEntries) /\ Len(heads) = Len(keys) /\ cells \in [CellsUpTo(n) -> CellEntries]
    BY ONLY <1>2 DEF Laid
  <2> QED
    BY ONLY <2>1, SeqIs
<1>6. CellsSplit(pg, heads, first, ListsAt(pg), FreeAt(pg))
  <2>1. ListsAt(pg) = [i \in DOMAIN heads |-> CellList(pg, heads[i].head)]
    <3>1. HeadsOf(pg) = [i \in DOMAIN heads |-> heads[i].head]
      BY ONLY <1>3 DEF HeadsOf
    <3> QED
      BY ONLY <3>1 DEF ListsAt
  <2>2. FreeAt(pg) = CellList(pg, first)
    BY ONLY <1>3 DEF FreeAt
  <2> QED
    BY ONLY <2>1, <2>2 DEF CellsSplit
<1>7. PICK lists, last, all : lists = ListsAt(pg) /\ last = FreeAt(pg) /\ all = AllAt(pg)
  OBVIOUS
<1>8. CellsSplit(pg, heads, first, lists, last)
  BY ONLY <1>6, <1>7
<1>9. Len(all) = n /\ ToSet(all) = CellsUpTo(n) /\ Count(keys) + free = n /\ Len(last) = free
  <2>1. all = FlattenSeq(lists) \o last
    BY ONLY <1>7 DEF AllAt
  <2>2. AllCounted(all, last, keys, n, free)
    BY ONLY <1>2, <1>8, <2>1, CellsCounted
  <2> QED
    BY ONLY <2>2 DEF AllCounted
<1>10. \A i \in DOMAIN lists : lists[i] # <<>>
  <2>1. CellsListed(lists, last, CellsUpTo(n), own, keys, free)
    BY ONLY <1>2, <1>8, ListsOfCells
  <2>2. DOMAIN lists = 1 .. Len(keys) /\ \A i \in 1 .. Len(keys) : Len(lists[i]) = Len(keys[i].ids)
    <3>1. DOMAIN lists = DOMAIN heads
      BY ONLY <1>8 DEF CellsSplit
    <3> QED
      BY ONLY <1>5, <2>1, <3>1 DEF CellsListed
  <2>3. ASSUME NEW i \in 1 .. Len(keys) PROVE lists[i] # <<>>
    <3>1. keys[i].ids # <<>>
      BY ONLY <1>1 DEF NoneEmpty
    <3>2. keys[i].ids \in Seq(RecIds)
      BY ONLY <1>4, KeysAre
    <3>3. PICK ids : ids = keys[i].ids
      OBVIOUS
    <3>4. Len(ids) # 0
      BY ONLY <3>1, <3>2, <3>3
    <3>5. Len(lists[i]) # 0
      BY ONLY <2>2, <3>3, <3>4
    <3>6. Len(<<>>) = 0
      OBVIOUS
    <3> QED
      BY ONLY <3>5, <3>6
  <2> QED
    BY ONLY <2>2, <2>3
<1>11. Cardinality(CellsUpTo(n)) = n
  BY ONLY <1>4, CellsAre
<1>12. NumberAt(pg.recIdPtr) = n
  BY ONLY <1>3, <1>4, NumberAtOffset
<1>13. Len(pg.keys) = Len(keys) /\ pg.keyPtr = HeaderSize + Len(pg.keys) * KeySize
  BY ONLY <1>1, <1>3, HoldsIs
<1>14. pg.keyPtr <= pg.recIdPtr
  <2>1. Space(Len(keys), n) <= LeafSpace
    BY ONLY <1>1 DEF Fit
  <2>2. /\ HeaderSize \in Nat /\ KeySize \in Nat /\ LeafSpace \in Nat
    BY SizesAre
  <2>3. Offset(n) \in Int
    BY ONLY <1>4, OffsetIs
  <2>4. PICK a : a = Len(keys) * KeySize
    OBVIOUS
  <2>5. a \in Nat /\ pg.keyPtr = HeaderSize + a
    BY ONLY <1>4, <1>13, <2>2, <2>4
  <2>6. pg.keyPtr \in Int /\ pg.recIdPtr \in Int
    BY ONLY <1>3, <2>2, <2>3, <2>5
  <2> QED
    BY ONLY <1>4, <2>1, <2>2, <2>6
<1>15. WellFormed(pg)
  <2>1. \A i \in DOMAIN ListsAt(pg) : ListsAt(pg)[i] # <<>>
    BY ONLY <1>7, <1>10
  <2>2. Len(FreeAt(pg)) = pg.numinfreeList
    BY ONLY <1>3, <1>7, <1>9
  <2>3. Len(AllAt(pg)) = Cardinality(DOMAIN pg.cells) /\ ToSet(AllAt(pg)) = DOMAIN pg.cells
    BY ONLY <1>3, <1>5, <1>7, <1>9, <1>11
  <2>4. DOMAIN pg.cells = CellsUpTo(NumberAt(pg.recIdPtr))
    BY ONLY <1>3, <1>5, <1>12
  <2> QED
    BY ONLY <1>13, <1>14, <2>1, <2>2, <2>3, <2>4, FormsWell
<1>16. KeysRise(pg)
  <2>1. /\ \A i, j \in 1 .. Len(keys) : i < j => keys[i].key < keys[j].key
        /\ \A i \in 1 .. Len(keys) : heads[i].key = keys[i].key
    BY ONLY <1>2 DEF Laid
  <2>2. ASSUME NEW i \in 1 .. Len(keys), NEW j \in 1 .. Len(keys), i < j
        PROVE  heads[i].key < heads[j].key
    BY ONLY <2>1, <2>2
  <2> QED
    BY ONLY <1>3, <1>5, <2>2 DEF KeysRise
<1> QED
  BY ONLY <1>15, <1>16

(* AM_CreateIndex leaves a leaf without keys.                              *)
LEMMA EmptyPageIsGood == GoodPage(EmptyPage) /\ AsLeaf(EmptyPage) = EmptyLeaf
<1>1. /\ PageSize \in Nat /\ PageSize = HeaderSize + LeafSpace /\ HeaderSize \in Nat
      /\ LeafSpace \in Nat /\ KeySize \in Nat /\ CellSize \in Nat \ {0}
      /\ LeafSpace >= KeySize + CellSize
  BY SizesAre
<1>2. Offset(0) = PageSize /\ CellsUpTo(0) = {} /\ 0 * KeySize = 0 /\ 0 * CellSize = 0
  <2>1. 0 * CellSize = 0 /\ 1 .. 0 = {} /\ 0 * KeySize = 0
    BY ONLY <1>1
  <2> QED
    BY ONLY <1>1, <2>1 DEF Offset, CellsUpTo
<1>3. PICK none : none = <<>>
  OBVIOUS
<1>4. /\ none \in Seq(HeadEntries) /\ none \in Seq(KeyEntries) /\ Len(none) = 0 /\ DOMAIN none = {}
      /\ none \in [{} -> CellEntries] /\ 1 .. Len(none) = {}
  BY ONLY <1>3
<1>5. EmptyPage = PageRec(none, none, 0, AM_NULL, 0)
  <2>1. HeaderSize + Len(none) * KeySize = HeaderSize
    BY ONLY <1>1, <1>2, <1>4
  <2>2. EmptyPage = [keys |-> none, cells |-> none, recIdPtr |-> Offset(0),
                     keyPtr |-> HeaderSize + Len(none) * KeySize, freeListPtr |-> AM_NULL,
                     numinfreeList |-> 0]
    BY ONLY <1>2, <1>3, <2>1 DEF EmptyPage
  <2> QED
    BY ONLY <2>2 DEF PageRec
<1>6. RowHas(none, AM_NULL, Owned(none, {}), none) /\ Len(none) = 0
  <2>1. Owned(none, {}) = {}
    BY ONLY <1>4 DEF Owned
  <2>2. IsRow(none, AM_NULL, none, {})
    BY ONLY <1>3, RowOfNone
  <2>3. IdsAt(none, none) = none
    <3>1. IdsAt(none, none) \in Seq(RecIds) /\ Len(IdsAt(none, none)) = 0
      <4>1. none \in Seq({}) /\ {} \subseteq {}
        BY ONLY <1>3
      <4> QED
        BY ONLY <1>4, <4>1, IdsAre
    <3> QED
      BY ONLY <1>3, <3>1
  <2> QED
    BY ONLY <1>4, <2>1, <2>2, <2>3 DEF RowHas
<1>7. Laid(none, none, 0, AM_NULL, none, none, 0)
  <2>1. 0 \in Nat /\ HeaderSize <= Offset(0)
    BY ONLY <1>1, <1>2
  <2>2. none \in [CellsUpTo(0) -> CellEntries] /\ DOMAIN none = CellsUpTo(0)
    BY ONLY <1>2, <1>4
  <2>3. \E ids : RowHas(none, AM_NULL, Owned(none, {}), ids) /\ Len(ids) = 0
    BY ONLY <1>6
  <2> QED
    BY ONLY <1>2, <1>4, <2>1, <2>2, <2>3 DEF Laid
<1>8. PageHolds(EmptyPage, none, 0, 0)
  BY ONLY <1>5, <1>7 DEF PageHolds
<1>9. NoneEmpty(none)
  BY ONLY <1>4 DEF NoneEmpty
<1>10. Space(0, 0) = 0 /\ Space(1, 0) = KeySize
  BY ONLY <1>1, <1>2 DEF Space
<1>11. Fit(none, 0)
  BY ONLY <1>1, <1>4, <1>10 DEF Fit
<1>12. GoodPage(EmptyPage)
  <2>1. PICK z : z = 0
    OBVIOUS
  <2>2. PageHolds(EmptyPage, none, z, z) /\ NoneEmpty(none) /\ Fit(none, z)
    BY ONLY <1>8, <1>9, <1>11, <2>1
  <2> QED
    BY ONLY <2>2 DEF GoodPage
<1>13. AsLeaf(EmptyPage) = EmptyLeaf
  <2>1. AsLeaf(EmptyPage) = LeafOf(none, 0, 0)
    BY ONLY <1>8, HoldsIs
  <2>2. LeafOf(none, 0, 0) = LeafRec(none, 0, LeafSpace, AM_NULL_PAGE)
    BY ONLY <1>1, <1>4, <1>10 DEF LeafOf
  <2> QED
    BY ONLY <1>3, <2>1, <2>2 DEF LeafRec, EmptyLeaf
<1> QED
  BY ONLY <1>12, <1>13

(* A step of the page, and one of the leaf.                                *)
PageStep(pg, now) ==
  \/ \E key \in Keys, id \in RecIds : InsertOn(pg, key, id, now) \/ DeleteOn(pg, key, id, now)
  \/ Len(pg.keys) >= 2 /\ now = Compact(pg, 1, Len(pg.keys) \div 2)
  \/ Len(pg.keys) >= 2 /\ now = Compact(pg, Len(pg.keys) \div 2 + 1, Len(pg.keys))

LeafStep(leaf, now) ==
  \/ \E key \in Keys, id \in RecIds : Inserted(leaf, key, id, now) \/ Deleted(leaf, key, id, now)
  \/ Len(leaf.keys) >= 2 /\ now = AM_Compact(leaf, 1, Len(leaf.keys) \div 2, 0)
  \/ Len(leaf.keys) >= 2 /\ now = AM_Compact(leaf, Len(leaf.keys) \div 2 + 1, Len(leaf.keys), 0)

LEMMA PageSteps ==
  ASSUME NEW pg, GoodPage(pg), RoomForKey(pg), NEW now, PageStep(pg, now)
  PROVE  GoodPage(now) /\ LeafStep(AsLeaf(pg), AsLeaf(now))
<1>1. PICK leaf, left : leaf = AsLeaf(pg) /\ left = AsLeaf(now)
  OBVIOUS
<1>2. Len(leaf.keys) = Len(pg.keys)
  <2>1. PICK keys, n, free : PageHolds(pg, keys, n, free)
    BY ONLY GoodPage(pg) DEF GoodPage
  <2>2. Len(pg.keys) = Len(keys) /\ AsLeaf(pg).keys = keys
    BY ONLY <2>1, HoldsIs
  <2> QED
    BY ONLY <1>1, <2>2
<1>3. CASE \E key \in Keys, id \in RecIds : InsertOn(pg, key, id, now) \/ DeleteOn(pg, key, id, now)
  <2>1. PICK key \in Keys, id \in RecIds : InsertOn(pg, key, id, now) \/ DeleteOn(pg, key, id, now)
    BY ONLY <1>3
  <2>2. CASE InsertOn(pg, key, id, now)
    <3>1. GoodPage(now) /\ Inserted(AsLeaf(pg), key, id, AsLeaf(now))
      BY ONLY <2>2, GoodPage(pg), RoomForKey(pg), PageInserted
    <3> QED
      BY ONLY <3>1 DEF LeafStep
  <2>3. CASE DeleteOn(pg, key, id, now)
    <3>1. GoodPage(now) /\ Deleted(AsLeaf(pg), key, id, AsLeaf(now))
      BY ONLY <2>3, GoodPage(pg), PageDeleted
    <3> QED
      BY ONLY <3>1 DEF LeafStep
  <2> QED
    BY ONLY <2>1, <2>2, <2>3
<1>4. PICK keys : keys = leaf.keys
  OBVIOUS
<1>5. keys = AsLeaf(pg).keys /\ Len(keys) = Len(pg.keys)
  BY ONLY <1>1, <1>2, <1>4
<1>6. CASE Len(pg.keys) >= 2 /\ now = Compact(pg, 1, Len(pg.keys) \div 2)
  <2>1. PICK low, high : low = 1 /\ high = Len(keys) \div 2
    OBVIOUS
  <2>2. now = Compact(pg, low, high) /\ Len(keys) >= 2
    BY ONLY <1>5, <1>6, <2>1
  <2>3. GoodPage(now) /\ AsLeaf(now) = AM_Compact(AsLeaf(pg), low, high, 0)
    BY ONLY <1>5, <2>1, <2>2, GoodPage(pg), PageHalved
  <2>4. Len(leaf.keys) >= 2 /\ left = AM_Compact(leaf, 1, Len(leaf.keys) \div 2, 0)
    BY ONLY <1>1, <1>4, <2>1, <2>2, <2>3
  <2>5. LeafStep(leaf, left)
    BY ONLY <2>4 DEF LeafStep
  <2> QED
    BY ONLY <1>1, <2>3, <2>5
<1>7. CASE Len(pg.keys) >= 2 /\ now = Compact(pg, Len(pg.keys) \div 2 + 1, Len(pg.keys))
  <2>1. PICK low, high : low = Len(keys) \div 2 + 1 /\ high = Len(keys)
    OBVIOUS
  <2>2. now = Compact(pg, low, high) /\ Len(keys) >= 2
    BY ONLY <1>5, <1>7, <2>1
  <2>3. GoodPage(now) /\ AsLeaf(now) = AM_Compact(AsLeaf(pg), low, high, 0)
    BY ONLY <1>5, <2>1, <2>2, GoodPage(pg), PageHalved
  <2>4. Len(leaf.keys) >= 2 /\ left = AM_Compact(leaf, Len(leaf.keys) \div 2 + 1, Len(leaf.keys), 0)
    BY ONLY <1>1, <1>4, <2>1, <2>2, <2>3
  <2>5. LeafStep(leaf, left)
    BY ONLY <2>4 DEF LeafStep
  <2> QED
    BY ONLY <1>1, <2>3, <2>5
<1> QED
  BY ONLY PageStep(pg, now), <1>3, <1>6, <1>7 DEF PageStep

LEMMA NextIsStep == Next => PageStep(page, page')
<1> SUFFICES ASSUME Next PROVE PageStep(page, page')
  OBVIOUS
<1>1. ASSUME NEW key \in Keys, NEW id \in RecIds, Insert(key, id)
      PROVE  PageStep(page, page')
  <2>1. InsertOn(page, key, id, page')
    BY ONLY <1>1, Zenon DEF Insert, InsertOn
  <2> QED
    BY ONLY <2>1 DEF PageStep
<1>2. ASSUME NEW key \in Keys, NEW id \in RecIds, Delete(key, id)
      PROVE  PageStep(page, page')
  <2>1. DeleteOn(page, key, id, page')
    BY ONLY <1>2, Zenon DEF Delete, DeleteOn, KeyTaken
  <2> QED
    BY ONLY <2>1 DEF PageStep
<1>3. LowerHalf \/ UpperHalf => PageStep(page, page')
  BY ONLY DEF LowerHalf, UpperHalf, PageStep
<1> QED
  BY ONLY Next, <1>1, <1>2, <1>3 DEF Next

(* The steps of AMLeafSpec.                                                *)
LEMMA StepIsLeafNext == LeafStep(AsLeaf(page), AsLeaf(page)') => L!Next
<1> SUFFICES ASSUME LeafStep(AsLeaf(page), AsLeaf(page)') PROVE L!Next
  OBVIOUS
<1>1. PICK leaf, now : leaf = AsLeaf(page) /\ now = AsLeaf(page)'
  OBVIOUS
<1>2. LeafStep(leaf, now)
  BY ONLY <1>1, LeafStep(AsLeaf(page), AsLeaf(page)')
<1>3. ASSUME NEW key \in Keys, NEW id \in RecIds, Inserted(leaf, key, id, now)
      PROVE  L!Next
  <2>1. PICK at : at = AM_SearchLeaf(leaf, key)
    OBVIOUS
  <2>2. InsertFits(leaf, at.found) /\ now = AM_InsertintoLeaf(leaf, key, id, at)
    BY ONLY <1>3, <2>1 DEF Inserted
  <2>3. L!AM_SearchLeaf(leaf, key) = at
    BY ONLY <2>1, SameSearch
  <2>4. /\ L!InsertFits(leaf, at.found) = InsertFits(leaf, at.found)
        /\ L!AM_InsertintoLeaf(leaf, key, id, at) = AM_InsertintoLeaf(leaf, key, id, at)
    BY ONLY SameInsert
  <2>5. L!Insert(key, id)
    BY ONLY <1>1, <2>2, <2>3, <2>4 DEF L!Insert
  <2> QED
    BY ONLY <2>5 DEF L!Next
<1>4. ASSUME NEW key \in Keys, NEW id \in RecIds, Deleted(leaf, key, id, now)
      PROVE  L!Next
  <2>1. PICK at : at = AM_SearchLeaf(leaf, key)
    OBVIOUS
  <2>2. /\ at.found /\ Contains(leaf.keys[at.index].ids, id)
        /\ now = DeleteFromLeaf(leaf, id, at.index)
    BY ONLY <1>4, <2>1 DEF Deleted
  <2>3. L!AM_SearchLeaf(leaf, key) = at
    BY ONLY <2>1, SameSearch
  <2>4. L!DeleteFromLeaf(leaf, id, at.index) = DeleteFromLeaf(leaf, id, at.index)
    BY ONLY SameDelete
  <2>5. L!Contains(leaf.keys[at.index].ids, id)
    BY ONLY <2>2, SameSequences
  <2>6. L!Delete(key, id)
    BY ONLY <1>1, <2>2, <2>3, <2>4, <2>5 DEF L!Delete
  <2> QED
    BY ONLY <2>6 DEF L!Next
<1>5. ASSUME NEW low, NEW high, Len(leaf.keys) >= 2, now = AM_Compact(leaf, low, high, 0)
      PROVE  L!Half(low, high)
  <2>1. L!AM_Compact(leaf, low, high, 0) = AM_Compact(leaf, low, high, 0)
    BY ONLY SameCompact
  <2> QED
    BY ONLY <1>1, <1>5, <2>1 DEF L!Half
<1>6. CASE \/ Len(leaf.keys) >= 2 /\ now = AM_Compact(leaf, 1, Len(leaf.keys) \div 2, 0)
           \/ Len(leaf.keys) >= 2 /\ now = AM_Compact(leaf, Len(leaf.keys) \div 2 + 1, Len(leaf.keys), 0)
  <2>1. L!Half(1, Len(leaf.keys) \div 2) \/ L!Half(Len(leaf.keys) \div 2 + 1, Len(leaf.keys))
    BY ONLY <1>5, <1>6
  <2> QED
    BY ONLY <1>1, <2>1 DEF L!Next
<1> QED
  BY ONLY <1>2, <1>3, <1>4, <1>6 DEF LeafStep

-----------------------------------------------------------------------------
(***************************************************************************)
(* The theorems.                                                           *)
(***************************************************************************)
LEMMA InitIsGood == Init => GoodPage(page)
BY EmptyPageIsGood DEF Init

LEMMA NextIsGood ==
  GoodPage(page) /\ KeyFits /\ [Next]_page => GoodPage(page)' /\ [L!Next]_(AsLeaf(page))
<1> SUFFICES ASSUME GoodPage(page), KeyFits, [Next]_page
             PROVE  GoodPage(page)' /\ [L!Next]_(AsLeaf(page))
  OBVIOUS
<1>1. CASE Next
  <2>1. PICK pg, now : pg = page /\ now = page'
    OBVIOUS
  <2>2. GoodPage(pg) /\ PageStep(pg, now)
    BY <1>1, <2>1, NextIsStep
  <2>3. RoomForKey(pg)
    BY ONLY <2>1, KeyFits DEF KeyFits, RoomForKey
  <2>4. GoodPage(now) /\ LeafStep(AsLeaf(pg), AsLeaf(now))
    BY ONLY <2>2, <2>3, PageSteps
  <2>5. GoodPage(page') /\ LeafStep(AsLeaf(page), AsLeaf(page'))
    BY ONLY <2>1, <2>4
  <2>6. L!Next
    BY ONLY <2>5, StepIsLeafNext
  <2> QED
    BY ONLY <2>5, <2>6
<1>2. CASE UNCHANGED page
  BY <1>2
<1> QED
  BY <1>1, <1>2

(* For every size of page, key and cell, whatever was inserted, deleted    *)
(* and split off, in whatever order: as long as no insertion compacts no   *)
(* keys, the page has its keys in order, and its cells are those of the    *)
(* lists and of the free list, each in one of them.                        *)
THEOREM PageIsGood == Spec /\ []KeyFits => []GoodPage(page)
<1>1. Init => GoodPage(page)
  BY InitIsGood
<1>2. GoodPage(page) /\ KeyFits /\ [Next]_page => GoodPage(page)'
  BY NextIsGood
<1> QED
  BY <1>1, <1>2, PTL DEF Spec

(* For every size, and as long as no insertion compacts no keys: no cell   *)
(* of a leaf page is lost or in two lists after any insertions, deletions  *)
(* and compactions of aminsert.c and amfns.c, no key is left without a     *)
(* record id, and keys and cells never overlap.                            *)
THEOREM PageFormsWell == Spec /\ []KeyFits => []PageWellFormed
<1>1. GoodPage(page) => PageWellFormed
  <2>1. GoodPage(page) => WellFormed(page)
    BY GoodIsWellFormed
  <2> QED
    BY ONLY <2>1 DEF WellFormed, PageWellFormed
<1> QED
  BY <1>1, PageIsGood, PTL

(* For every size, and as long as no insertion compacts no keys: the       *)
(* binary search of AM_SearchLeaf finds what a scan of the keys would, and *)
(* the keys of the page are in the order that it needs.                    *)
THEOREM SearchFinds == Spec /\ []KeyFits => []SearchFindsPlace
<1>1. GoodPage(page) => SearchFindsPlace
  <2>1. GoodPage(page) => KeysRise(page)
    BY GoodIsWellFormed
  <2> QED
    BY ONLY <2>1, BinSearchIsScan DEF KeysRise, SearchFindsPlace
<1> QED
  BY <1>1, PageIsGood, PTL

(* For every size, and as long as no insertion compacts no keys: the page  *)
(* with its offsets, heads and nexts implements the leaf with its          *)
(* sequences of record ids.  Every insertion, deletion and half of a split *)
(* of the page is the one of the leaf, with the room it should leave.      *)
THEOREM PageImplementsLeaf == Spec /\ []KeyFits => ImplementsLeaf
<1>1. Init => L!Init
  BY EmptyPageIsGood, SameEmptyLeaf DEF Init, L!Init
<1>2. GoodPage(page) /\ KeyFits /\ [Next]_page => [L!Next]_(AsLeaf(page))
  BY NextIsGood
<1> QED
  BY <1>1, <1>2, PageIsGood, PTL DEF Spec, ImplementsLeaf, L!Spec

LEMMA GoodPageHasRoom ==
  ASSUME NeverFilled, NEW pg, GoodPage(pg)
  PROVE  RoomForKey(pg)
<1>1. PICK keys, n, free : PageHolds(pg, keys, n, free) /\ Fit(keys, n)
  BY ONLY GoodPage(pg) DEF GoodPage
<1>2. n \in Nat /\ pg.recIdPtr - pg.keyPtr = LeafSpace - Space(Len(keys), n)
  BY ONLY <1>1, HoldsIs
<1>3. pg.keys = <<>> => Len(keys) = 0
  BY ONLY <1>1, NoneHeld
<1>4. Space(1, n) = Space(0, n) + KeySize /\ Space(0, n) \in Nat
  <2>1. 0 \in Nat /\ 0 + 1 = 1
    OBVIOUS
  <2>2. Space(0 + 1, n) = Space(0, n) + KeySize /\ Space(0, n) \in Nat
    BY ONLY <1>2, <2>1, SpaceIs
  <2> QED
    BY ONLY <2>1, <2>2
<1>5. Space(1, n) <= LeafSpace /\ Space(1, n) # LeafSpace
  <2>1. Space(1, n) <= LeafSpace
    BY ONLY <1>1 DEF Fit
  <2> QED
    BY ONLY <1>2, <2>1, NeverFilled, NotFilled
<1>6. KeySize \in Nat /\ LeafSpace \in Nat
  BY SizesAre
<1>7. LeafSpace - Space(0, n) > KeySize
  BY ONLY <1>4, <1>5, <1>6
<1> QED
  BY ONLY <1>2, <1>3, <1>7 DEF RoomForKey

(* Where a key and its record ids cannot fill the page to the last byte,   *)
(* as for integers and floats, no insertion compacts no keys: the theorems *)
(* above then hold of the specification alone.                             *)
THEOREM NoKeysNeverCompacted ==
  (LeafSpace - KeySize) % CellSize # 0 => (Spec => []KeyFits)
<1> SUFFICES ASSUME (LeafSpace - KeySize) % CellSize # 0 PROVE Spec => []KeyFits
  OBVIOUS
<1>1. Init => GoodPage(page)
  BY InitIsGood
<1>2. GoodPage(page) => KeyFits
  <2>1. NeverFilled
    BY DEF NeverFilled
  <2>2. GoodPage(page) => RoomForKey(page)
    BY ONLY <2>1, GoodPageHasRoom
  <2> QED
    BY ONLY <2>2 DEF KeyFits, RoomForKey
<1>3. GoodPage(page) /\ [Next]_page => GoodPage(page)'
  BY <1>2, NextIsGood
<1> QED
  BY <1>1, <1>2, <1>3, PTL DEF Spec

=============================================================================
