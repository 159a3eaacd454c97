----------------------------- MODULE AMLeafProofs ----------------------------
(***************************************************************************)
(* Lemmas on the operators of a leaf: where the binary search ends, and    *)
(* what an insertion, a deletion and a compaction make of the keys, the    *)
(* lists of record ids and the room, for every leaf whatever its size.     *)
(***************************************************************************)
EXTENDS AMLeaf, SequenceProofs, FiniteSetTheorems

-----------------------------------------------------------------------------
(***************************************************************************)
(* The binary search.                                                      *)
(***************************************************************************)
InOrder(keys) == \A i, j \in DOMAIN keys : i < j => keys[i] < keys[j]

(* A range that the loop may have narrowed the search to.                  *)
Around(keys, value, low, high) ==
  /\ low <= high
  /\ \A i \in DOMAIN keys : (i < low => keys[i] < value) /\ (i > high => keys[i] > value)

Ranges(keys, value) ==
  {range \in (DOMAIN keys) \X (DOMAIN keys) : Around(keys, value, range[1], range[2])}

LEMMA Middle ==
  ASSUME NEW low \in Int, NEW high \in Int, high - low > 1
  PROVE  /\ low < (low + high) \div 2 /\ (low + high) \div 2 < high
         /\ (low + high) \div 2 \in Int
OBVIOUS

(* A turn keeps the value in the range, and makes the range smaller as     *)
(* long as it has more than two places.                                    *)
LEMMA TurnNarrows ==
  ASSUME NEW keys \in Seq(Int), InOrder(keys), NEW value \in Int,
         NEW range \in Ranges(keys, value)
  PROVE  /\ Turn(keys, value)[range] \in Ranges(keys, value)
         /\ range[2] - range[1] <= 1 => Turn(keys, value)[range] = range
         /\ range[2] - range[1] > 1 =>
              Turn(keys, value)[range][2] - Turn(keys, value)[range][1] < range[2] - range[1]
<1>1. PICK low \in DOMAIN keys, high \in DOMAIN keys : range = <<low, high>>
  BY DEF Ranges
<1>2. Around(keys, value, low, high)
  BY <1>1 DEF Ranges
<1> DEFINE mid == (low + high) \div 2
           next == Turn(keys, value)[range]
<1>3. next = IF high - low <= 1 THEN range
             ELSE IF value < keys[mid] THEN <<low, mid - 1>>
             ELSE IF value > keys[mid] THEN <<mid + 1, high>>
             ELSE <<mid, mid>>
  BY <1>1 DEF Turn
<1> HIDE DEF next
<1>4. low \in Int /\ high \in Int /\ \A i \in DOMAIN keys : i \in Int /\ keys[i] \in Int
  OBVIOUS
<1>5. CASE high - low <= 1
  BY <1>1, <1>3, <1>5 DEF next
<1>6. CASE high - low > 1
  <2>1. low < mid /\ mid < high /\ mid \in Int
    BY <1>4, <1>6, Middle
  <2>2. ~(high - low <= 1)
    BY <1>4, <1>6
  <2> HIDE DEF mid
  <2>3. /\ mid \in DOMAIN keys /\ mid - 1 \in DOMAIN keys /\ mid + 1 \in DOMAIN keys
        /\ keys[mid] \in Int
    <3>1. DOMAIN keys = 1 .. Len(keys) /\ Len(keys) \in Nat
      OBVIOUS
    <3>2. mid \in DOMAIN keys /\ mid - 1 \in DOMAIN keys /\ mid + 1 \in DOMAIN keys
      BY <1>4, <2>1, <3>1
    <3> QED
      BY <1>4, <3>2
  <2>4. /\ \A i \in DOMAIN keys : i < mid => keys[i] < keys[mid]
        /\ \A i \in DOMAIN keys : i > mid => keys[i] > keys[mid]
    BY <1>4, <2>1, <2>3 DEF InOrder
  <2>5. ASSUME NEW x \in DOMAIN keys, NEW y \in DOMAIN keys, next = <<x, y>>,
               Around(keys, value, x, y), y - x < high - low
        PROVE  next \in Ranges(keys, value) /\ next[2] - next[1] < range[2] - range[1]
    <3>1. next[1] = x /\ next[2] = y /\ range[1] = low /\ range[2] = high
      BY <1>1, <2>5
    <3>2. next \in (DOMAIN keys) \X (DOMAIN keys)
      BY <2>5
    <3>3. next \in Ranges(keys, value)
      BY <2>5, <3>1, <3>2 DEF Ranges
    <3> QED
      BY <2>5, <3>1, <3>3
  <2>6. next \in Ranges(keys, value) /\ next[2] - next[1] < range[2] - range[1]
    <3>1. CASE value < keys[mid]
      <4>1. next = <<low, mid - 1>>
        BY <1>3, <2>2, <3>1
      <4>2. low <= mid - 1
        BY <1>4, <2>1
      <4>3. ASSUME NEW i \in DOMAIN keys
            PROVE  (i < low => keys[i] < value) /\ (i > mid - 1 => keys[i] > value)
        <5>1. i \in Int /\ keys[i] \in Int /\ (i < low => keys[i] < value)
          BY <1>2, <1>4 DEF Around
        <5>2. i > mid - 1 => i = mid \/ i > mid
          BY <2>1, <5>1
        <5>3. i > mid - 1 => keys[i] >= keys[mid]
          BY <2>3, <2>4, <5>1, <5>2
        <5> QED
          BY <2>3, <3>1, <5>1, <5>3
      <4>4. Around(keys, value, low, mid - 1)
        BY <4>2, <4>3 DEF Around
      <4>5. (mid - 1) - low < high - low
        BY <1>4, <2>1
      <4> QED
        BY <2>3, <2>5, <4>1, <4>4, <4>5
    <3>2. CASE value > keys[mid]
      <4>1. next = <<mid + 1, high>>
        BY <1>3, <2>2, <2>3, <3>2
      <4>2. mid + 1 <= high
        BY <1>4, <2>1
      <4>3. ASSUME NEW i \in DOMAIN keys
            PROVE  (i < mid + 1 => keys[i] < value) /\ (i > high => keys[i] > value)
        <5>1. i \in Int /\ keys[i] \in Int /\ (i > high => keys[i] > value)
          BY <1>2, <1>4 DEF Around
        <5>2. i < mid + 1 => i = mid \/ i < mid
          BY <2>1, <5>1
        <5>3. i < mid + 1 => keys[i] <= keys[mid]
          BY <2>3, <2>4, <5>1, <5>2
        <5> QED
          BY <2>3, <3>2, <5>1, <5>3
      <4>4. Around(keys, value, mid + 1, high)
        BY <4>2, <4>3 DEF Around
      <4>5. high - (mid + 1) < high - low
        BY <1>4, <2>1
      <4> QED
        BY <2>3, <2>5, <4>1, <4>4, <4>5
    <3>3. CASE value = keys[mid]
      <4>1. next = <<mid, mid>>
        BY <1>3, <2>2, <2>3, <3>3
      <4>2. Around(keys, value, mid, mid)
        BY <2>1, <2>4, <3>3 DEF Around
      <4>3. mid - mid < high - low
        BY <1>4, <2>1
      <4> QED
        BY <2>3, <2>5, <4>1, <4>2, <4>3
    <3> QED
      BY <2>3, <3>1, <3>2, <3>3
  <2>7. range[2] - range[1] = high - low
    BY <1>1
  <2> QED
    BY <2>2, <2>6, <2>7 DEF next
<1> QED
  BY <1>4, <1>5, <1>6

(* The loop ends at one or two places around the value.                    *)
LEMMA NarrowedAround ==
  ASSUME NEW keys \in Seq(Int), keys # <<>>, InOrder(keys), NEW value \in Int
  PROVE  \E low, high \in DOMAIN keys :
           /\ Narrowed(keys, value) = low .. high
           /\ high - low <= 1
           /\ Around(keys, value, low, high)
<1> DEFINE n == Len(keys)
           V == Ranges(keys, value)
           all == <<1, n>>
           turn == Turn(keys, value)
           f == LoopOf(n, all, turn)
           Width(i) == f[i][2] - f[i][1]
<1>1. n \in Nat \ {0} /\ DOMAIN keys = 1 .. n
  OBVIOUS
<1>2. all \in V
  BY <1>1 DEF Ranges, Around
<1>3. \A range \in V : turn[range] \in V
  BY TurnNarrows
<1>4. Narrowed(keys, value) = f[n][1] .. f[n][2]
  BY DEF Narrowed, LoopOf, IsLoop
<1> HIDE DEF f, V
<1>5. /\ f \in [0 .. n -> V]
      /\ f[0] = <<1, n>>
      /\ \A i \in 1 .. n : f[i] = Turn(keys, value)[f[i - 1]]
  <2> HIDE DEF n, all, turn
  <2>1. /\ f \in [0 .. n -> V]
        /\ f[0] = all
        /\ \A i \in 1 .. n : f[i] = turn[f[i - 1]]
    BY <1>1, <1>2, <1>3, LoopInvariant DEF f
  <2> QED
    BY <2>1 DEF all, turn
<1>6. \A i \in 0 .. n : /\ f[i] \in V
                        /\ f[i][1] \in DOMAIN keys /\ f[i][2] \in DOMAIN keys
                        /\ Around(keys, value, f[i][1], f[i][2])
  BY <1>5 DEF V, Ranges
<1>7. \A i \in 0 .. n : Width(i) \in Int
  BY <1>1, <1>6
<1>8. \A i \in 1 .. n : Width(i) <= 1 \/ Width(i) < Width(i - 1)
  <2> TAKE i \in 1 .. n
  <2>1. i - 1 \in 0 .. n /\ f[i - 1] \in V
    BY <1>1, <1>5
  <2>2. /\ f[i - 1][2] - f[i - 1][1] <= 1 => f[i] = f[i - 1]
        /\ f[i - 1][2] - f[i - 1][1] > 1 =>
             f[i][2] - f[i][1] < f[i - 1][2] - f[i - 1][1]
    BY <1>5, <2>1, TurnNarrows DEF V
  <2>3. Width(i - 1) \in Int
    BY <1>7, <2>1
  <2> QED
    BY <2>2, <2>3
<1> HIDE DEF Width
<1>9. Width(n) <= 1
  <2> DEFINE T == {i \in 0 .. n : ~(Width(i) <= 1 \/ Width(i) < n - i)}
  <2>1. SUFFICES ASSUME T # {} PROVE FALSE
    <3>1. n \in 0 .. n /\ Width(n) \in Int
      BY <1>1, <1>7
    <3>2. n \notin T => Width(n) <= 1 \/ Width(n) < n - n
      BY <3>1
    <3> QED
      BY <1>1, <3>1, <3>2
  <2>2. T \in SUBSET Nat
    BY <1>1
  <2>3. PICK i \in T : \A j \in T : i <= j
    <3> HIDE DEF T
    <3> QED
      BY <2>1, <2>2, LeastNumber
  <2>4. i \in 0 .. n /\ ~(Width(i) <= 1) /\ ~(Width(i) < n - i)
    BY <2>3
  <2>5. i # 0
    <3>1. Width(0) = n - 1
      BY <1>5 DEF Width
    <3> QED
      BY <1>1, <2>4, <3>1
  <2>6. i \in 1 .. n /\ i - 1 \in 0 .. n /\ i - 1 \notin T
    <3> HIDE DEF T
    <3> QED
      BY <1>1, <2>2, <2>3, <2>4, <2>5
  <2>7. Width(i - 1) <= 1 \/ Width(i - 1) < n - (i - 1)
    BY <2>6
  <2>8. Width(i) < Width(i - 1)
    BY <1>8, <2>4, <2>6
  <2>9. Width(i) \in Int /\ Width(i - 1) \in Int
    BY <1>7, <2>4, <2>6
  <2> HIDE DEF T
  <2> QED
    BY <1>1, <2>4, <2>6, <2>7, <2>8, <2>9
<1>10. n \in 0 .. n
  BY <1>1
<1> QED
  BY <1>4, <1>6, <1>9, <1>10 DEF Width

(* The place where a value is among keys in order, or where it would be.   *)
IsPlace(keys, value, at) ==
  /\ at.index \in 1 .. Len(keys) + 1 /\ at.found \in BOOLEAN
  /\ at.found => at.index \in DOMAIN keys /\ keys[at.index] = value
  /\ \A i \in DOMAIN keys : i < at.index => keys[i] < value
  /\ \A i \in DOMAIN keys : i > at.index \/ (i = at.index /\ ~at.found) => keys[i] > value

LEMMA PlaceAt ==
  ASSUME NEW keys \in Seq(Int), NEW value \in Int, NEW index \in DOMAIN keys,
         value <= keys[index],
         \A i \in DOMAIN keys : (i < index => keys[i] < value) /\ (i > index => keys[i] > value)
  PROVE  IsPlace(keys, value, [found |-> keys[index] = value, index |-> index])
<1>1. /\ Len(keys) \in Nat /\ DOMAIN keys = 1 .. Len(keys) /\ keys[index] \in Int
      /\ index \in 1 .. Len(keys) + 1
  OBVIOUS
<1>2. CASE keys[index] = value
  <2>1. (keys[index] = value) = TRUE
    BY <1>2
  <2>2. IsPlace(keys, value, [found |-> TRUE, index |-> index])
    BY <1>1, <1>2 DEF IsPlace
  <2> QED
    BY <2>1, <2>2
<1>3. CASE keys[index] # value
  <2>1. (keys[index] = value) = FALSE
    BY <1>3
  <2>2. keys[index] > value
    BY <1>1, <1>3
  <2>3. IsPlace(keys, value, [found |-> FALSE, index |-> index])
    BY <1>1, <2>2 DEF IsPlace
  <2> QED
    BY <2>1, <2>3
<1> QED
  BY <1>2, <1>3

(* AM_SearchLeaf finds it.                                                 *)
THEOREM SearchFindsPlaceOf ==
  ASSUME NEW leaf, KeysOf(leaf) \in Seq(Int), InOrder(KeysOf(leaf)), NEW value \in Int
  PROVE  IsPlace(KeysOf(leaf), value, AM_SearchLeaf(leaf, value))
<1> DEFINE keys == KeysOf(leaf)
           range == IF keys = <<>> THEN {} ELSE Narrowed(keys, value)
           index == IF range = {} THEN 1
               ELSE IF \E i \in range : value <= keys[i]
                    THEN CHOOSE i \in range :
                           value <= keys[i] /\ \A j \in range : j < i => value > keys[j]
                    ELSE 1 + CHOOSE i \in range : \A j \in range : j <= i
           at == AM_SearchLeaf(leaf, value)
<1>1. at = [found |-> index \in range /\ keys[index] = value, index |-> index]
  BY DEF AM_SearchLeaf
<1> HIDE DEF at, keys
<1>2. keys \in Seq(Int) /\ InOrder(keys)
  BY DEF keys
<1> SUFFICES IsPlace(keys, value, at)
  BY DEF keys, at
<1>3. CASE keys = <<>>
  <2>1. range = {} /\ index = 1
    BY <1>3
  <2>2. Len(keys) = 0 /\ DOMAIN keys = {}
    BY <1>3
  <2> HIDE DEF range, index
  <2>3. at = [found |-> FALSE, index |-> 1]
    BY <1>1, <2>1
  <2> QED
    BY <2>2, <2>3 DEF IsPlace
<1>4. CASE keys # <<>>
  <2>1. PICK low \in DOMAIN keys, high \in DOMAIN keys :
           /\ Narrowed(keys, value) = low .. high
           /\ high - low <= 1
           /\ Around(keys, value, low, high)
    BY <1>2, <1>4, NarrowedAround
  <2>2. /\ Len(keys) \in Nat /\ DOMAIN keys = 1 .. Len(keys)
        /\ low \in Int /\ high \in Int /\ low <= high
        /\ keys[low] \in Int /\ keys[high] \in Int
    BY <1>2, <2>1 DEF Around
  <2>3. range = low .. high /\ range = {low, high} /\ range # {}
    BY <1>4, <2>1, <2>2
  <2>4. high = low \/ high = low + 1
    BY <2>1, <2>2
  <2>5. low # high => keys[low] < keys[high]
    BY <1>2, <2>2 DEF InOrder
  <2>6. \A i \in DOMAIN keys : (i < low => keys[i] < value) /\ (i > high => keys[i] > value)
    BY <2>1 DEF Around
  <2> HIDE DEF range
  <2>7. CASE value <= keys[low]
    <3>1. \A i \in range :
            (value <= keys[i] /\ \A j \in range : j < i => value > keys[j]) <=> i = low
      BY <2>2, <2>3, <2>4, <2>7
    <3>2. index = low
      <4>1. \E i \in range : value <= keys[i]
        BY <2>3, <2>7
      <4>2. index = CHOOSE i \in range :
                      value <= keys[i] /\ \A j \in range : j < i => value > keys[j]
        BY <2>3, <4>1
      <4> HIDE DEF index
      <4> QED
        BY <2>3, <3>1, <4>2
    <3> HIDE DEF index
    <3>3. at = [found |-> keys[low] = value, index |-> low]
      BY <1>1, <2>3, <3>2
    <3>4. \A i \in DOMAIN keys : i > low => keys[i] > value
      BY <1>2, <2>2, <2>7 DEF InOrder
    <3> QED
      BY <1>2, <2>6, <2>7, <3>3, <3>4, PlaceAt
  <2>8. CASE value > keys[low] /\ value <= keys[high]
    <3>1. \A i \in range :
            (value <= keys[i] /\ \A j \in range : j < i => value > keys[j]) <=> i = high
      BY <2>2, <2>3, <2>4, <2>8
    <3>2. index = high
      <4>1. \E i \in range : value <= keys[i]
        BY <2>3, <2>8
      <4>2. index = CHOOSE i \in range :
                      value <= keys[i] /\ \A j \in range : j < i => value > keys[j]
        BY <2>3, <4>1
      <4> HIDE DEF index
      <4> QED
        BY <2>3, <3>1, <4>2
    <3> HIDE DEF index
    <3>3. at = [found |-> keys[high] = value, index |-> high]
      BY <1>1, <2>3, <3>2
    <3>4. \A i \in DOMAIN keys : (i > high => keys[i] > value) /\ (i < high => keys[i] < value)
      <4> TAKE i \in DOMAIN keys
      <4>1. i < high => i < low \/ i = low
        BY <2>2, <2>4
      <4> QED
        BY <2>6, <2>8, <4>1
    <3> QED
      BY <1>2, <2>8, <3>3, <3>4, PlaceAt
  <2>9. CASE value > keys[high]
    <3>1. \A i \in range : (\A j \in range : j <= i) <=> i = high
      BY <2>2, <2>3
    <3>2. index = 1 + high
      <4>1. ~ \E i \in range : value <= keys[i]
        <5>1. keys[low] <= keys[high]
          BY <2>2, <2>5
        <5> QED
          BY <2>2, <2>3, <2>9, <5>1
      <4>2. index = 1 + CHOOSE i \in range : \A j \in range : j <= i
        BY <2>3, <4>1
      <4>3. high = CHOOSE i \in range : \A j \in range : j <= i
        BY <2>3, <3>1
      <4> QED
        BY <4>2, <4>3
    <3> HIDE DEF index
    <3>3. index \notin range
      BY <2>2, <2>3, <3>2
    <3>4. at = [found |-> FALSE, index |-> 1 + high]
      BY <1>1, <3>2, <3>3
    <3>5. \A i \in DOMAIN keys : (i >= 1 + high => keys[i] > value) /\ (i < 1 + high => keys[i] < value)
      <4> TAKE i \in DOMAIN keys
      <4>1. i \in Int /\ keys[i] \in Int
        BY <1>2, <2>2
      <4>2. i < high => keys[i] < keys[high]
        BY <1>2, <2>2 DEF InOrder
      <4> QED
        BY <2>2, <2>6, <2>9, <4>1, <4>2
    <3> QED
      BY <2>2, <3>4, <3>5 DEF IsPlace
  <2> QED
    BY <2>2, <2>7, <2>8, <2>9
<1> QED
  BY <1>3, <1>4

(* AM_BinSearch gives the child that has the value: the keys before it are *)
(* not greater, and those after it are.                                    *)
ChildAmong(keys, range, value) ==
  IF \E i \in range : value < keys[i]
  THEN (CHOOSE i \in range : value < keys[i] /\
                              \A j \in range : j < i => value >= keys[j]) - 1
  ELSE CHOOSE i \in range : \A j \in range : j <= i

THEOREM BinSearchFinds ==
  ASSUME NEW keys \in Seq(Int), keys # <<>>, InOrder(keys), NEW value \in Int,
         NEW offset, offset = ChildAmong(keys, Narrowed(keys, value), value)
  PROVE  /\ offset \in 0 .. Len(keys)
         /\ \A i \in DOMAIN keys : (i <= offset => keys[i] <= value)
                                   /\ (i > offset => keys[i] > value)
<1> DEFINE range == Narrowed(keys, value)
<1>1. PICK low \in DOMAIN keys, high \in DOMAIN keys :
         /\ Narrowed(keys, value) = low .. high
         /\ high - low <= 1
         /\ Around(keys, value, low, high)
  BY NarrowedAround
<1>2. /\ Len(keys) \in Nat /\ DOMAIN keys = 1 .. Len(keys)
      /\ low \in Int /\ high \in Int /\ low <= high
      /\ keys[low] \in Int /\ keys[high] \in Int
      /\ 1 <= low /\ high <= Len(keys)
  BY <1>1 DEF Around
<1>3. range = low .. high /\ range = {low, high}
  BY <1>1, <1>2
<1> HIDE DEF range
<1>4. high = low \/ high = low + 1
  BY <1>1, <1>2
<1>5. \A i \in DOMAIN keys : (i < low => keys[i] < value) /\ (i > high => keys[i] > value)
  BY <1>1 DEF Around
<1>6. \A i, j \in DOMAIN keys : i < j => keys[i] < keys[j]
  BY DEF InOrder
<1>7. \A i \in DOMAIN keys : i \in Int /\ keys[i] \in Int
  BY <1>2
<1>8. CASE value < keys[low]
  <2>1. \A i \in range :
          (value < keys[i] /\ \A j \in range : j < i => value >= keys[j]) <=> i = low
    BY <1>2, <1>3, <1>4, <1>8
  <2>2. low = CHOOSE i \in range : value < keys[i] /\
                              \A j \in range : j < i => value >= keys[j]
    BY <1>3, <2>1
  <2>3. offset = low - 1
    BY <1>3, <1>8, <2>2 DEF ChildAmong, range
  <2>4. ASSUME NEW i \in DOMAIN keys
        PROVE  (i <= low - 1 => keys[i] <= value) /\ (i > low - 1 => keys[i] > value)
    <3>1. i <= low - 1 => i < low
      BY <1>2, <1>7
    <3>2. i > low - 1 => i = low \/ i > low
      BY <1>2, <1>7
    <3> QED
      BY <1>2, <1>5, <1>6, <1>7, <1>8, <3>1, <3>2
  <2> QED
    BY <1>2, <2>3, <2>4
<1>9. CASE value >= keys[low] /\ value < keys[high]
  <2>1. \A i \in range :
          (value < keys[i] /\ \A j \in range : j < i => value >= keys[j]) <=> i = high
    BY <1>2, <1>3, <1>4, <1>9
  <2>2. high = CHOOSE i \in range : value < keys[i] /\
                              \A j \in range : j < i => value >= keys[j]
    BY <1>3, <2>1
  <2>3. offset = high - 1
    BY <1>3, <1>9, <2>2 DEF ChildAmong, range
  <2>4. high - 1 = low
    BY <1>2, <1>4, <1>9
  <2>5. ASSUME NEW i \in DOMAIN keys
        PROVE  (i <= low => keys[i] <= value) /\ (i > low => keys[i] > value)
    <3>1. i <= low => i < low \/ i = low
      BY <1>2, <1>7
    <3>2. i > low => i = high \/ i > high
      BY <1>2, <1>7, <2>4
    <3> QED
      BY <1>2, <1>5, <1>7, <1>9, <3>1, <3>2
  <2> QED
    BY <1>2, <2>3, <2>4, <2>5
<1>10. CASE value >= keys[high]
  <2>1. keys[low] <= keys[high]
    BY <1>2, <1>4, <1>6
  <2>2. ~ \E i \in range : value < keys[i]
    BY <1>2, <1>3, <1>10, <2>1
  <2>3. \A i \in range : (\A j \in range : j <= i) <=> i = high
    BY <1>2, <1>3
  <2>4. high = CHOOSE i \in range : \A j \in range : j <= i
    BY <1>3, <2>3
  <2>5. offset = high
    BY <2>2, <2>4 DEF ChildAmong, range
  <2>6. ASSUME NEW i \in DOMAIN keys
        PROVE  (i <= high => keys[i] <= value) /\ (i > high => keys[i] > value)
    <3>1. i <= high => i = high \/ keys[i] < keys[high]
      BY <1>2, <1>6, <1>7
    <3> QED
      BY <1>2, <1>5, <1>7, <1>10, <3>1
  <2> QED
    BY <1>2, <2>5, <2>6
<1> QED
  BY <1>2, <1>8, <1>9, <1>10

-----------------------------------------------------------------------------
(***************************************************************************)
(* The keys of a leaf: in order, each with record ids, no id twice.  A     *)
(* leaf holds the entries made of a key and one of its ids.                *)
(***************************************************************************)
KeyEntries == [key : Keys, ids : Seq(RecIds)]

HasId(ids, id) == \E j \in DOMAIN ids : ids[j] = id

GoodIds(ids) ==
  /\ ids \in Seq(RecIds) /\ ids # <<>>
  /\ \A i, j \in DOMAIN ids : ids[i] = ids[j] => i = j

GoodKeys(keys) ==
  /\ keys \in Seq(KeyEntries)
  /\ \A i \in DOMAIN keys : GoodIds(keys[i].ids)
  /\ \A i, j \in DOMAIN keys : i < j => keys[i].key < keys[j].key

Holds(keys, key, id) == \E i \in DOMAIN keys : keys[i].key = key /\ HasId(keys[i].ids, id)

Count(keys) == Len(IdsOf(keys))

ListsOf(keys) == [i \in DOMAIN keys |-> keys[i].ids]

LEMMA ListsOfKeys ==
  ASSUME NEW keys \in Seq(KeyEntries)
  PROVE  /\ ListsOf(keys) \in Seq(Seq(RecIds)) /\ Len(ListsOf(keys)) = Len(keys)
         /\ Len(keys) \in Nat /\ DOMAIN keys = 1 .. Len(keys)
         /\ \A i \in 1 .. Len(keys) :
              ListsOf(keys)[i] = keys[i].ids /\ keys[i].key \in Keys /\ keys[i].ids \in Seq(RecIds)
         /\ Count(keys) = Len(FlattenSeq(ListsOf(keys)))
<1>1. \A i \in 1 .. Len(keys) : keys[i].ids \in Seq(RecIds) /\ keys[i].key \in Keys
  <2>1. \A i \in 1 .. Len(keys) : keys[i] \in KeyEntries
    OBVIOUS
  <2>2. \A entry \in KeyEntries : entry.ids \in Seq(RecIds) /\ entry.key \in Keys
    BY DEF KeyEntries
  <2> QED
    BY <2>1, <2>2
<1>2. DOMAIN keys = 1 .. Len(keys) /\ Len(keys) \in Nat
  OBVIOUS
<1>3. ListsOf(keys) \in Seq(Seq(RecIds)) /\ Len(ListsOf(keys)) = Len(keys)
  BY <1>1, <1>2 DEF ListsOf
<1>4. \A i \in 1 .. Len(keys) : ListsOf(keys)[i] = keys[i].ids
  BY <1>2 DEF ListsOf
<1> QED
  BY <1>1, <1>2, <1>3, <1>4 DEF Count, IdsOf, ListsOf

(* One key more, with its ids, at p.                                       *)
PutIn(keys, p, entry, more) ==
  /\ Len(more) = Len(keys) + 1
  /\ \A i \in 1 .. Len(keys) + 1 :
       more[i] = IF i < p THEN keys[i] ELSE IF i = p THEN entry ELSE keys[i - 1]

LEMMA CountPutIn ==
  ASSUME NEW keys \in Seq(KeyEntries), NEW p \in 1 .. Len(keys) + 1, NEW entry \in KeyEntries,
         NEW more \in Seq(KeyEntries), PutIn(keys, p, entry, more)
  PROVE  Count(more) = Count(keys) + Len(entry.ids) /\ Count(keys) \in Nat /\ Count(more) \in Nat
<1>1. /\ ListsOf(keys) \in Seq(Seq(RecIds)) /\ Len(ListsOf(keys)) = Len(keys)
      /\ Count(keys) = Len(FlattenSeq(ListsOf(keys))) /\ Len(keys) \in Nat
      /\ \A i \in 1 .. Len(keys) : ListsOf(keys)[i] = keys[i].ids
  BY ListsOfKeys
<1>2. /\ ListsOf(more) \in Seq(Seq(RecIds)) /\ Len(ListsOf(more)) = Len(keys) + 1
      /\ Count(more) = Len(FlattenSeq(ListsOf(more)))
      /\ \A i \in 1 .. Len(keys) + 1 : ListsOf(more)[i] = more[i].ids
  BY ListsOfKeys DEF PutIn
<1>3. entry.ids \in Seq(RecIds)
  BY DEF KeyEntries
<1>4. \A i \in 1 .. Len(ListsOf(keys)) + 1 :
        ListsOf(more)[i] = IF i < p THEN ListsOf(keys)[i] ELSE IF i = p THEN entry.ids
                           ELSE ListsOf(keys)[i - 1]
  <2> SUFFICES ASSUME NEW i \in 1 .. Len(keys) + 1
               PROVE  ListsOf(more)[i] = IF i < p THEN ListsOf(keys)[i]
                                         ELSE IF i = p THEN entry.ids ELSE ListsOf(keys)[i - 1]
    BY <1>1
  <2>1. ListsOf(more)[i] = more[i].ids
    BY <1>2
  <2>2. more[i] = IF i < p THEN keys[i] ELSE IF i = p THEN entry ELSE keys[i - 1]
    BY DEF PutIn
  <2>3. CASE i < p
    <3>1. i \in 1 .. Len(keys)
      BY <1>1, <2>3
    <3> QED
      BY <1>1, <2>1, <2>2, <2>3, <3>1
  <2>4. CASE i = p
    BY <2>1, <2>2, <2>4
  <2>5. CASE i > p
    <3>1. i - 1 \in 1 .. Len(keys) /\ ~(i < p) /\ i # p
      BY <1>1, <2>5
    <3> QED
      BY <1>1, <2>1, <2>2, <3>1
  <2>6. i < p \/ i = p \/ i > p
    BY <1>1
  <2> QED
    BY <2>3, <2>4, <2>5, <2>6
<1>5. /\ Len(ListsOf(more)) = Len(ListsOf(keys)) + 1
      /\ p \in 1 .. Len(ListsOf(keys)) + 1
  BY <1>1, <1>2
<1>6. /\ Len(FlattenSeq(ListsOf(more))) = Len(FlattenSeq(ListsOf(keys))) + Len(entry.ids)
      /\ Len(FlattenSeq(ListsOf(keys))) \in Nat /\ Len(FlattenSeq(ListsOf(more))) \in Nat
  BY <1>1, <1>2, <1>3, <1>4, <1>5, FlattenInserted
<1> QED
  BY <1>1, <1>2, <1>6

LEMMA CountParted ==
  ASSUME NEW keys \in Seq(KeyEntries), NEW lower \in Seq(KeyEntries), NEW upper \in Seq(KeyEntries),
         Parted(keys, lower, upper)
  PROVE  Count(keys) = Count(lower) + Count(upper) /\ Count(lower) \in Nat /\ Count(upper) \in Nat
<1>1. /\ ListsOf(keys) \in Seq(Seq(RecIds)) /\ Len(ListsOf(keys)) = Len(keys)
      /\ Count(keys) = Len(FlattenSeq(ListsOf(keys))) /\ Len(keys) \in Nat
      /\ \A i \in 1 .. Len(keys) : ListsOf(keys)[i] = keys[i].ids
  BY ListsOfKeys
<1>2. /\ ListsOf(lower) \in Seq(Seq(RecIds)) /\ Len(ListsOf(lower)) = Len(lower)
      /\ Count(lower) = Len(FlattenSeq(ListsOf(lower))) /\ Len(lower) \in Nat
      /\ \A i \in 1 .. Len(lower) : ListsOf(lower)[i] = lower[i].ids
  BY ListsOfKeys
<1>3. /\ ListsOf(upper) \in Seq(Seq(RecIds)) /\ Len(ListsOf(upper)) = Len(upper)
      /\ Count(upper) = Len(FlattenSeq(ListsOf(upper))) /\ Len(upper) \in Nat
      /\ \A i \in 1 .. Len(upper) : ListsOf(upper)[i] = upper[i].ids
  BY ListsOfKeys
<1>4. Parted(ListsOf(keys), ListsOf(lower), ListsOf(upper))
  <2>1. Len(keys) = Len(lower) + Len(upper)
    BY DEF Parted
  <2>2. ASSUME NEW i \in 1 .. Len(lower)
        PROVE  ListsOf(lower)[i] = ListsOf(keys)[i]
    <3>1. i \in 1 .. Len(keys)
      <4>1. Len(lower) \in Nat /\ Len(upper) \in Nat
        BY <1>2, <1>3
      <4> QED
        BY <2>1, <4>1
    <3>2. lower[i] = keys[i]
      BY DEF Parted
    <3> QED
      BY <1>1, <1>2, <3>1, <3>2
  <2>3. ASSUME NEW i \in 1 .. Len(upper)
        PROVE  ListsOf(upper)[i] = ListsOf(keys)[Len(lower) + i]
    <3>1. Len(lower) + i \in 1 .. Len(keys) /\ upper[i] = keys[Len(lower) + i]
      BY <1>1, <1>2, <1>3, <2>1 DEF Parted
    <3> QED
      BY <1>1, <1>3, <3>1
  <2> QED
    BY <1>1, <1>2, <1>3, <2>1, <2>2, <2>3 DEF Parted
<1> QED
  BY <1>1, <1>2, <1>3, <1>4, FlattenHalves

LEMMA CountOfNone == Count(<<>>) = 0
<1>1. [i \in DOMAIN <<>> |-> <<>>[i].ids] = <<>>
  OBVIOUS
<1> QED
  BY <1>1 DEF Count, IdsOf, FlattenSeq

(* A key has its ids, and each other key one at least.                     *)
LEMMA CountAtLeast ==
  ASSUME NEW keys, GoodKeys(keys), keys # <<>>
  PROVE  Count(keys) \in Nat \ {0}
<1>1. /\ keys \in Seq(KeyEntries) /\ Len(keys) \in Nat \ {0} /\ 1 \in 1 .. Len(keys)
      /\ GoodIds(keys[1].ids)
  BY DEF GoodKeys
<1>2. Tail(keys) \in Seq(KeyEntries) /\ Len(Tail(keys)) = Len(keys) - 1
      /\ \A i \in 1 .. Len(keys) - 1 : Tail(keys)[i] = keys[i + 1]
  BY <1>1
<1>3. keys[1] \in KeyEntries
  BY <1>1
<1>4. PutIn(Tail(keys), 1, keys[1], keys)
  <2> SUFFICES ASSUME NEW i \in 1 .. Len(keys)
               PROVE  keys[i] = IF i < 1 THEN Tail(keys)[i] ELSE IF i = 1 THEN keys[1]
                                ELSE Tail(keys)[i - 1]
    BY <1>1, <1>2 DEF PutIn
  <2>1. CASE i = 1
    BY <2>1
  <2>2. CASE i # 1
    <3>1. i - 1 \in 1 .. Len(keys) - 1 /\ (i - 1) + 1 = i /\ ~(i < 1)
      BY <1>1, <2>2
    <3> QED
      BY <1>2, <2>2, <3>1
  <2> QED
    BY <2>1, <2>2
<1>5. Count(keys) = Count(Tail(keys)) + Len(keys[1].ids) /\ Count(Tail(keys)) \in Nat
  <2>1. 1 \in 1 .. Len(Tail(keys)) + 1
    BY <1>1, <1>2
  <2> QED
    BY <1>1, <1>2, <1>3, <1>4, <2>1, CountPutIn
<1>6. Len(keys[1].ids) \in Nat \ {0}
  BY <1>1 DEF GoodIds
<1> QED
  BY <1>5, <1>6

LEMMA CountOfOne ==
  ASSUME NEW keys \in Seq(KeyEntries), Len(keys) = 1
  PROVE  Count(keys) = Len(keys[1].ids)
<1>1. <<>> \in Seq(KeyEntries) /\ Len(<<>>) = 0 /\ keys[1] \in KeyEntries
  OBVIOUS
<1>2. PutIn(<<>>, 1, keys[1], keys)
  BY <1>1 DEF PutIn
<1>3. Count(keys) = Count(<<>>) + Len(keys[1].ids)
  <2>1. 1 \in 1 .. Len(<<>>) + 1
    BY <1>1, SMT
  <2> QED
    BY <1>1, <1>2, <2>1, CountPutIn
<1>4. Len(keys[1].ids) \in Nat
  BY <1>1 DEF KeyEntries
<1> QED
  BY <1>3, <1>4, CountOfNone

-----------------------------------------------------------------------------
(***************************************************************************)
(* What the operations do to the keys of a leaf, and to what it holds.     *)
(***************************************************************************)
LEMMA IdAdded ==
  ASSUME NEW ids \in Seq(RecIds), ids = <<>> \/ GoodIds(ids), NEW id \in RecIds, ~HasId(ids, id)
  PROVE  /\ GoodIds(<<id>> \o ids)
         /\ Len(<<id>> \o ids) = Len(ids) + 1
         /\ \A x : HasId(<<id>> \o ids, x) <=> x = id \/ HasId(ids, x)
<1>1. PICK new : new = <<id>> \o ids
  OBVIOUS
<1>2. /\ new \in Seq(RecIds) /\ Len(ids) \in Nat /\ Len(new) = Len(ids) + 1
      /\ \A i \in 1 .. Len(ids) + 1 : new[i] = IF i = 1 THEN id ELSE ids[i - 1]
  <2>1. <<id>> \in Seq(RecIds) /\ Len(<<id>>) = 1 /\ <<id>>[1] = id
    OBVIOUS
  <2>2. /\ new \in Seq(RecIds) /\ Len(new) = 1 + Len(ids) /\ Len(ids) \in Nat
        /\ \A i \in 1 .. 1 + Len(ids) : new[i] = IF i <= 1 THEN <<id>>[i] ELSE ids[i - 1]
    BY <1>1, <2>1, ConcatIs
  <2> QED
    BY <2>1, <2>2
<1>3. DOMAIN new = 1 .. Len(ids) + 1 /\ DOMAIN ids = 1 .. Len(ids)
  BY <1>2
<1>4. ASSUME NEW i \in DOMAIN new, NEW j \in DOMAIN new, new[i] = new[j]
      PROVE  i = j
  <2>1. CASE i = 1 /\ j = 1
    BY <2>1
  <2>2. CASE i # 1 /\ j = 1
    <3>1. i - 1 \in DOMAIN ids /\ ids[i - 1] = id
      BY <1>2, <1>3, <1>4, <2>2
    <3> QED
      BY <3>1 DEF HasId
  <2>3. CASE i = 1 /\ j # 1
    <3>1. j - 1 \in DOMAIN ids /\ ids[j - 1] = id
      BY <1>2, <1>3, <1>4, <2>3
    <3> QED
      BY <3>1 DEF HasId
  <2>4. CASE i # 1 /\ j # 1
    <3>1. i - 1 \in DOMAIN ids /\ j - 1 \in DOMAIN ids /\ ids[i - 1] = ids[j - 1] /\ ids # <<>>
      BY <1>2, <1>3, <1>4, <2>4
    <3>2. i - 1 = j - 1
      BY <3>1 DEF GoodIds
    <3> QED
      BY <1>3, <3>2
  <2> QED
    BY <2>1, <2>2, <2>3, <2>4
<1>5. new # <<>>
  BY <1>2
<1>6. ASSUME NEW x
      PROVE  HasId(new, x) <=> x = id \/ HasId(ids, x)
  <2>1. ASSUME HasId(new, x), x # id PROVE HasId(ids, x)
    <3>1. PICK j \in DOMAIN new : new[j] = x
      BY <2>1 DEF HasId
    <3>2. j # 1
      BY <1>2, <1>3, <2>1, <3>1
    <3>3. j - 1 \in DOMAIN ids /\ ids[j - 1] = x
      BY <1>2, <1>3, <3>1, <3>2
    <3> QED
      BY <3>3 DEF HasId
  <2>2. ASSUME x = id PROVE HasId(new, x)
    <3>1. 1 \in DOMAIN new /\ new[1] = x
      BY <1>2, <1>3, <2>2
    <3> QED
      BY <3>1 DEF HasId
  <2>3. ASSUME HasId(ids, x) PROVE HasId(new, x)
    <3>1. PICK j \in DOMAIN ids : ids[j] = x
      BY <2>3 DEF HasId
    <3>2. j + 1 \in DOMAIN new /\ j + 1 # 1 /\ (j + 1) - 1 = j
      BY <1>2, <1>3
    <3>3. new[j + 1] = x
      BY <1>2, <1>3, <3>1, <3>2
    <3> QED
      BY <3>2, <3>3 DEF HasId
  <2> QED
    BY <2>1, <2>2, <2>3
<1>7. GoodIds(new)
  BY <1>2, <1>4, <1>5 DEF GoodIds
<1> QED
  BY <1>1, <1>2, <1>6, <1>7, Zenon

LEMMA IdRemoved ==
  ASSUME NEW ids, GoodIds(ids), NEW id, Contains(ids, id)
  PROVE  /\ RemoveFirst(ids, id) \in Seq(RecIds)
         /\ Len(RemoveFirst(ids, id)) = Len(ids) - 1 /\ Len(ids) \in Nat
         /\ RemoveFirst(ids, id) # <<>> => GoodIds(RemoveFirst(ids, id))
         /\ \A x : HasId(RemoveFirst(ids, id), x) <=> x # id /\ HasId(ids, x)
<1>1. /\ ids \in Seq(RecIds) /\ Len(ids) \in Nat /\ DOMAIN ids = 1 .. Len(ids)
      /\ \A i, j \in DOMAIN ids : ids[i] = ids[j] => i = j
  BY DEF GoodIds
<1>2. PICK p \in DOMAIN ids : ids[p] = id /\ RemoveFirst(ids, id) = RemoveAt(ids, p)
  BY <1>1, RemoveFirstIs
<1>3. PICK new : new = RemoveFirst(ids, id)
  OBVIOUS
<1>4. /\ new \in Seq(RecIds) /\ Len(new) = Len(ids) - 1
      /\ \A i \in 1 .. Len(ids) - 1 : new[i] = IF i < p THEN ids[i] ELSE ids[i + 1]
  <2>1. new = RemoveAt(ids, p)
    BY <1>2, <1>3, Zenon
  <2>2. /\ RemoveAt(ids, p) \in Seq(RecIds) /\ Len(RemoveAt(ids, p)) = Len(ids) - 1
        /\ \A i \in 1 .. Len(ids) - 1 :
             RemoveAt(ids, p)[i] = IF i < p THEN ids[i] ELSE ids[i + 1]
    <3>1. ids \in Seq(RecIds)
      BY <1>1
    <3> HIDE <1>1, <1>2, <1>3, <2>1
    <3> QED
      BY ONLY <3>1, RemoveAtIs, p \in DOMAIN ids
  <2> QED
    BY <2>1, <2>2, Zenon
<1>5. DOMAIN new = 1 .. Len(ids) - 1
  BY <1>1, <1>4
<1>6. ASSUME NEW i \in DOMAIN new
      PROVE  \E k \in DOMAIN ids : /\ k # p /\ new[i] = ids[k]
                                   /\ k = IF i < p THEN i ELSE i + 1
  <2>1. CASE i < p
    <3>1. i \in DOMAIN ids /\ i # p /\ new[i] = ids[i]
      BY <1>1, <1>4, <1>5, <2>1
    <3> QED
      BY <2>1, <3>1
  <2>2. CASE ~(i < p)
    <3>1. i + 1 \in DOMAIN ids /\ i + 1 # p /\ new[i] = ids[i + 1]
      BY <1>1, <1>4, <1>5, <2>2
    <3> QED
      BY <2>2, <3>1
  <2> QED
    BY <2>1, <2>2
<1>7. ASSUME NEW i \in DOMAIN new, NEW j \in DOMAIN new, new[i] = new[j]
      PROVE  i = j
  <2>1. PICK k \in DOMAIN ids : new[i] = ids[k] /\ k = IF i < p THEN i ELSE i + 1
    BY <1>6
  <2>2. PICK l \in DOMAIN ids : new[j] = ids[l] /\ l = IF j < p THEN j ELSE j + 1
    BY <1>6
  <2>3. k = l
    BY <1>1, <1>7, <2>1, <2>2
  <2>4. i \in Int /\ j \in Int /\ p \in Int
    BY <1>1, <1>5
  <2> QED
    BY <2>1, <2>2, <2>3, <2>4
<1>8. ASSUME NEW x
      PROVE  HasId(new, x) <=> x # id /\ HasId(ids, x)
  <2>1. ASSUME HasId(new, x) PROVE x # id /\ HasId(ids, x)
    <3>1. PICK i \in DOMAIN new : new[i] = x
      BY <2>1 DEF HasId
    <3>2. PICK k \in DOMAIN ids : k # p /\ x = ids[k]
      BY <1>6, <3>1
    <3> QED
      BY <1>1, <1>2, <3>2 DEF HasId
  <2>2. ASSUME x # id, HasId(ids, x) PROVE HasId(new, x)
    <3>1. PICK k \in DOMAIN ids : ids[k] = x
      BY <2>2 DEF HasId
    <3>2. k # p /\ k \in Int /\ p \in Int /\ 1 <= k /\ k <= Len(ids) /\ 1 <= p /\ p <= Len(ids)
      BY <1>1, <1>2, <2>2, <3>1
    <3>3. CASE k < p
      <4>1. k \in DOMAIN new /\ new[k] = x
        BY <1>1, <1>4, <1>5, <3>1, <3>2, <3>3
      <4> QED
        BY <4>1 DEF HasId
    <3>4. CASE k > p
      <4>1. k - 1 \in DOMAIN new /\ ~(k - 1 < p) /\ (k - 1) + 1 = k
        BY <1>1, <1>5, <3>2, <3>4
      <4>2. new[k - 1] = x
        BY <1>4, <1>5, <3>1, <4>1
      <4> QED
        BY <4>1, <4>2 DEF HasId
    <3> QED
      BY <3>2, <3>3, <3>4
  <2> QED
    BY <2>1, <2>2
<1>9. new # <<>> => GoodIds(new)
  BY <1>4, <1>7 DEF GoodIds
<1> QED
  BY <1>1, <1>3, <1>4, <1>8, <1>9, Zenon

LEMMA EntryOf ==
  ASSUME NEW key \in Keys, NEW ids \in Seq(RecIds)
  PROVE  /\ KeyEntry(key, ids) \in KeyEntries
         /\ KeyEntry(key, ids).key = key /\ KeyEntry(key, ids).ids = ids
BY DEF KeyEntry, KeyEntries

LEMMA GoodKeysAre ==
  ASSUME NEW keys, GoodKeys(keys)
  PROVE  /\ keys \in Seq(KeyEntries) /\ Len(keys) \in Nat /\ DOMAIN keys = 1 .. Len(keys)
         /\ \A i \in 1 .. Len(keys) : /\ keys[i] \in KeyEntries /\ keys[i].key \in Keys
                                      /\ keys[i].key \in Int /\ keys[i].ids \in Seq(RecIds)
                                      /\ GoodIds(keys[i].ids)
         /\ \A i, j \in 1 .. Len(keys) : i < j => keys[i].key < keys[j].key
<1>1. keys \in Seq(KeyEntries) /\ Len(keys) \in Nat /\ DOMAIN keys = 1 .. Len(keys)
  BY DEF GoodKeys
<1>2. \A i \in 1 .. Len(keys) : keys[i].key \in Keys /\ keys[i].ids \in Seq(RecIds)
  BY <1>1, ListsOfKeys
<1>3. \A i \in 1 .. Len(keys) : keys[i] \in KeyEntries
  BY <1>1
<1>4. /\ \A i \in 1 .. Len(keys) : GoodIds(keys[i].ids)
      /\ \A i, j \in 1 .. Len(keys) : i < j => keys[i].key < keys[j].key
  BY <1>1 DEF GoodKeys
<1>5. \A i \in 1 .. Len(keys) : keys[i].key \in Int
  BY <1>2, LeafAssumption
<1> QED
  BY <1>1, <1>2, <1>3, <1>4, <1>5

(* A key has one place.                                                    *)
LEMMA SameKey ==
  ASSUME NEW keys, GoodKeys(keys), NEW i \in 1 .. Len(keys), NEW j \in 1 .. Len(keys),
         keys[i].key = keys[j].key
  PROVE  i = j
<1>1. /\ \A k, l \in 1 .. Len(keys) : k < l => keys[k].key < keys[l].key
      /\ \A k \in 1 .. Len(keys) : keys[k].key \in Int
  BY GoodKeysAre
<1>2. ~(i < j) /\ ~(j < i)
  BY <1>1
<1> QED
  BY <1>2

(* A key that is not there yet, with its ids.                              *)
LEMMA KeyPutIn ==
  ASSUME NEW keys, GoodKeys(keys), NEW p \in 1 .. Len(keys) + 1,
         NEW key \in Keys, NEW ids, GoodIds(ids),
         \A i \in 1 .. Len(keys) : (i < p => keys[i].key < key) /\ (i >= p => keys[i].key > key),
         NEW more \in Seq(KeyEntries), PutIn(keys, p, KeyEntry(key, ids), more)
  PROVE  /\ GoodKeys(more) /\ Len(more) = Len(keys) + 1
         /\ Count(more) = Count(keys) + Len(ids)
         /\ \A k, x : Holds(more, k, x) <=> (k = key /\ HasId(ids, x)) \/ Holds(keys, k, x)
<1>1. /\ keys \in Seq(KeyEntries) /\ Len(keys) \in Nat /\ DOMAIN keys = 1 .. Len(keys)
      /\ \A i \in 1 .. Len(keys) : keys[i].key \in Int /\ GoodIds(keys[i].ids)
      /\ \A i, j \in 1 .. Len(keys) : i < j => keys[i].key < keys[j].key
  BY GoodKeysAre
<1>2. PICK entry \in KeyEntries : /\ entry = KeyEntry(key, ids) /\ entry.key = key
                                  /\ entry.ids = ids
  BY EntryOf DEF GoodIds
<1>3. /\ more \in Seq(KeyEntries) /\ Len(more) = Len(keys) + 1
      /\ \A i \in 1 .. Len(keys) + 1 :
           more[i] = IF i < p THEN keys[i] ELSE IF i = p THEN entry ELSE keys[i - 1]
  BY <1>2 DEF PutIn
<1>4. Count(more) = Count(keys) + Len(ids)
  BY <1>1, <1>2, <1>3, CountPutIn DEF PutIn
<1>5. DOMAIN more = 1 .. Len(keys) + 1 /\ p \in Int /\ key \in Int
  BY <1>1, <1>3, LeafAssumption
<1>6. \A i \in 1 .. Len(keys) + 1 :
        \/ i < p /\ i \in 1 .. Len(keys) /\ more[i] = keys[i]
        \/ i = p /\ more[i] = entry
        \/ i > p /\ i - 1 \in 1 .. Len(keys) /\ i - 1 >= p /\ more[i] = keys[i - 1]
  BY <1>1, <1>3, <1>5
<1>7. \A i \in DOMAIN more : GoodIds(more[i].ids)
  BY <1>1, <1>2, <1>5, <1>6
<1>8. ASSUME NEW i \in DOMAIN more, NEW j \in DOMAIN more, i < j
      PROVE  more[i].key < more[j].key
  <2>1. i \in Int /\ j \in Int
    BY <1>5
  <2>2. CASE i < p /\ i \in 1 .. Len(keys) /\ more[i] = keys[i]
    <3>1. CASE j < p /\ j \in 1 .. Len(keys) /\ more[j] = keys[j]
      BY <1>1, <1>8, <2>2, <3>1
    <3>2. CASE j = p /\ more[j] = entry
      BY <1>2, <2>2, <3>2
    <3>3. CASE j > p /\ j - 1 \in 1 .. Len(keys) /\ j - 1 >= p /\ more[j] = keys[j - 1]
      <4>1. keys[i].key < key /\ key < keys[j - 1].key
        BY <2>2, <3>3
      <4> QED
        BY <1>1, <1>5, <2>2, <3>3, <4>1
    <3> QED
      BY <1>5, <1>6, <3>1, <3>2, <3>3
  <2>3. CASE i = p /\ more[i] = entry
    <3>1. j > p
      BY <1>8, <2>3
    <3>2. j - 1 \in 1 .. Len(keys) /\ j - 1 >= p /\ more[j] = keys[j - 1]
      BY <1>5, <1>6, <2>1, <3>1
    <3>3. keys[j - 1].key > key /\ keys[j - 1].key \in Int
      BY <1>1, <3>2
    <3> QED
      BY <1>2, <1>5, <2>3, <3>2, <3>3
  <2>4. CASE i > p /\ i - 1 \in 1 .. Len(keys) /\ i - 1 >= p /\ more[i] = keys[i - 1]
    <3>1. j > p
      BY <1>5, <1>8, <2>1, <2>4
    <3>2. j - 1 \in 1 .. Len(keys) /\ j - 1 >= p /\ more[j] = keys[j - 1] /\ i - 1 < j - 1
      BY <1>5, <1>6, <1>8, <2>1, <3>1
    <3> QED
      BY <1>1, <2>4, <3>2
  <2> QED
    BY <1>5, <1>6, <2>2, <2>3, <2>4
<1>9. GoodKeys(more)
  BY <1>3, <1>7, <1>8 DEF GoodKeys
<1>10. ASSUME NEW k, NEW x
       PROVE  Holds(more, k, x) <=> (k = key /\ HasId(ids, x)) \/ Holds(keys, k, x)
  <2>1. ASSUME Holds(more, k, x) PROVE (k = key /\ HasId(ids, x)) \/ Holds(keys, k, x)
    <3>1. PICK i \in DOMAIN more : more[i].key = k /\ HasId(more[i].ids, x)
      BY <2>1 DEF Holds
    <3> QED
      BY <1>1, <1>2, <1>5, <1>6, <3>1 DEF Holds
  <2>2. ASSUME k = key, HasId(ids, x) PROVE Holds(more, k, x)
    <3>1. p \in DOMAIN more /\ more[p] = entry
      BY <1>3, <1>5
    <3> QED
      BY <1>2, <2>2, <3>1 DEF Holds
  <2>3. ASSUME Holds(keys, k, x) PROVE Holds(more, k, x)
    <3>1. PICK i \in 1 .. Len(keys) : keys[i].key = k /\ HasId(keys[i].ids, x)
      BY <1>1, <2>3 DEF Holds
    <3>2. CASE i < p
      <4>1. i \in DOMAIN more /\ more[i] = keys[i]
        BY <1>1, <1>3, <1>5, <3>2
      <4> QED
        BY <3>1, <4>1 DEF Holds
    <3>3. CASE ~(i < p)
      <4>1. i + 1 \in DOMAIN more /\ ~(i + 1 < p) /\ i + 1 # p /\ (i + 1) - 1 = i
        BY <1>1, <1>5, <3>3
      <4>2. more[i + 1] = keys[i]
        BY <1>3, <1>5, <4>1
      <4> QED
        BY <3>1, <4>1, <4>2 DEF Holds
    <3> QED
      BY <3>2, <3>3
  <2> QED
    BY <2>1, <2>2, <2>3
<1> QED
  BY <1>3, <1>4, <1>9, <1>10

(* What is left of the keys without one of them.                           *)
LEMMA RestPutIn ==
  ASSUME NEW keys \in Seq(KeyEntries), NEW p \in 1 .. Len(keys),
         NEW rest, rest = RemoveAt(keys, p)
  PROVE  /\ rest \in Seq(KeyEntries) /\ Len(rest) = Len(keys) - 1 /\ Len(keys) \in Nat
         /\ p \in 1 .. Len(rest) + 1
         /\ \A i \in 1 .. Len(rest) : rest[i] = IF i < p THEN keys[i] ELSE keys[i + 1]
         /\ PutIn(rest, p, keys[p], keys)
<1>1. Len(keys) \in Nat /\ DOMAIN keys = 1 .. Len(keys)
  OBVIOUS
<1> DEFINE removed == RemoveAt(keys, p)
<1>2. /\ removed \in Seq(KeyEntries) /\ Len(removed) = Len(keys) - 1
      /\ \A i \in 1 .. Len(keys) - 1 : removed[i] = IF i < p THEN keys[i] ELSE keys[i + 1]
  <2>1. p \in DOMAIN keys
    BY <1>1
  <2> QED
    BY ONLY <2>1, keys \in Seq(KeyEntries), RemoveAtIs
<1> HIDE DEF removed
<1>3. /\ rest \in Seq(KeyEntries) /\ Len(rest) = Len(keys) - 1
      /\ \A i \in 1 .. Len(rest) : rest[i] = IF i < p THEN keys[i] ELSE keys[i + 1]
  BY <1>2 DEF removed
<1>4. PutIn(rest, p, keys[p], keys)
  <2> SUFFICES ASSUME NEW i \in 1 .. Len(keys)
               PROVE  keys[i] = IF i < p THEN rest[i] ELSE IF i = p THEN keys[p] ELSE rest[i - 1]
    BY <1>1, <1>3 DEF PutIn
  <2>1. CASE i < p
    <3>1. i \in 1 .. Len(rest)
      BY <1>1, <1>3, <2>1
    <3> QED
      BY <1>3, <2>1, <3>1
  <2>2. CASE i = p
    BY <2>2
  <2>3. CASE i > p
    <3>1. i - 1 \in 1 .. Len(rest) /\ ~(i - 1 < p) /\ ~(i < p) /\ i # p /\ (i - 1) + 1 = i
      BY <1>1, <1>3, <2>3
    <3> QED
      BY <1>3, <3>1
  <2> QED
    BY <1>1, <2>1, <2>2, <2>3
<1>5. p \in 1 .. Len(rest) + 1
  BY <1>1, <1>3
<1> QED
  BY <1>1, <1>3, <1>4, <1>5

LEMMA KeyRemoved ==
  ASSUME NEW keys, GoodKeys(keys), NEW p \in 1 .. Len(keys), NEW rest, rest = RemoveAt(keys, p)
  PROVE  /\ GoodKeys(rest) /\ Len(rest) = Len(keys) - 1 /\ Len(keys) \in Nat
         /\ Count(keys) = Count(rest) + Len(keys[p].ids) /\ Count(rest) \in Nat
         /\ \A k, x : Holds(rest, k, x) <=> k # keys[p].key /\ Holds(keys, k, x)
<1>1. /\ keys \in Seq(KeyEntries) /\ Len(keys) \in Nat /\ DOMAIN keys = 1 .. Len(keys)
      /\ \A i \in 1 .. Len(keys) : keys[i].key \in Int /\ GoodIds(keys[i].ids)
      /\ \A i, j \in 1 .. Len(keys) : i < j => keys[i].key < keys[j].key
      /\ keys[p] \in KeyEntries
  BY GoodKeysAre
<1>2. /\ rest \in Seq(KeyEntries) /\ Len(rest) = Len(keys) - 1 /\ p \in 1 .. Len(rest) + 1
      /\ \A i \in 1 .. Len(rest) : rest[i] = IF i < p THEN keys[i] ELSE keys[i + 1]
      /\ PutIn(rest, p, keys[p], keys)
  <2>1. keys \in Seq(KeyEntries)
    BY <1>1
  <2> QED
    BY ONLY <2>1, p \in 1 .. Len(keys), rest = RemoveAt(keys, p), RestPutIn
<1>3. Count(keys) = Count(rest) + Len(keys[p].ids) /\ Count(rest) \in Nat
  BY <1>1, <1>2, CountPutIn
<1>4. DOMAIN rest = 1 .. Len(rest)
  BY <1>2
<1>5. \A i \in 1 .. Len(rest) :
        \/ i < p /\ i \in 1 .. Len(keys) /\ rest[i] = keys[i]
        \/ i >= p /\ i + 1 \in 1 .. Len(keys) /\ rest[i] = keys[i + 1]
  BY <1>1, <1>2
<1>6. \A i \in DOMAIN rest : GoodIds(rest[i].ids)
  BY <1>1, <1>4, <1>5
<1>7. ASSUME NEW i \in 1 .. Len(rest), NEW j \in 1 .. Len(rest), i < j
      PROVE  rest[i].key < rest[j].key
  <2>1. CASE i < p /\ i \in 1 .. Len(keys) /\ rest[i] = keys[i]
    BY <1>1, <1>5, <1>7, <2>1
  <2>2. CASE i >= p /\ i + 1 \in 1 .. Len(keys) /\ rest[i] = keys[i + 1]
    <3>1. j >= p /\ j + 1 \in 1 .. Len(keys) /\ rest[j] = keys[j + 1] /\ i + 1 < j + 1
      BY <1>1, <1>5, <1>7, <2>2
    <3> QED
      BY <1>1, <2>2, <3>1
  <2> QED
    BY <1>5, <2>1, <2>2
<1>8. GoodKeys(rest)
  BY <1>2, <1>4, <1>6, <1>7 DEF GoodKeys
<1>9. ASSUME NEW k, NEW x
      PROVE  Holds(rest, k, x) <=> k # keys[p].key /\ Holds(keys, k, x)
  <2>1. ASSUME Holds(rest, k, x) PROVE k # keys[p].key /\ Holds(keys, k, x)
    <3>1. PICK i \in 1 .. Len(rest) : rest[i].key = k /\ HasId(rest[i].ids, x)
      BY <1>4, <2>1 DEF Holds
    <3>2. PICK j \in 1 .. Len(keys) : j # p /\ rest[i] = keys[j]
      <4>1. CASE i < p /\ i \in 1 .. Len(keys) /\ rest[i] = keys[i]
        BY <4>1
      <4>2. CASE i >= p /\ i + 1 \in 1 .. Len(keys) /\ rest[i] = keys[i + 1]
        <5>1. i + 1 # p
          BY <4>2
        <5> QED
          BY <4>2, <5>1
      <4> QED
        BY <1>5, <4>1, <4>2
    <3>3. Holds(keys, k, x)
      BY <1>1, <3>1, <3>2 DEF Holds
    <3>4. keys[j].key # keys[p].key
      BY <3>2, SameKey
    <3> QED
      BY <3>1, <3>2, <3>3, <3>4
  <2>2. ASSUME k # keys[p].key, Holds(keys, k, x) PROVE Holds(rest, k, x)
    <3>1. PICK j \in 1 .. Len(keys) : keys[j].key = k /\ HasId(keys[j].ids, x)
      BY <1>1, <2>2 DEF Holds
    <3>2. j # p
      BY <2>2, <3>1
    <3>3. CASE j < p
      <4>1. j \in 1 .. Len(rest) /\ rest[j] = keys[j]
        BY <1>1, <1>2, <3>3
      <4> QED
        BY <1>4, <3>1, <4>1 DEF Holds
    <3>4. CASE j > p
      <4>1. j - 1 \in 1 .. Len(rest) /\ ~(j - 1 < p) /\ (j - 1) + 1 = j
        BY <1>1, <1>2, <3>4
      <4>2. rest[j - 1] = keys[j]
        BY <1>2, <4>1
      <4> QED
        BY <1>4, <3>1, <4>1, <4>2 DEF Holds
    <3>5. j \in Int /\ p \in Int
      OBVIOUS
    <3> QED
      BY <3>2, <3>3, <3>4, <3>5
  <2> QED
    BY <2>1, <2>2
<1> QED
  BY <1>1, <1>2, <1>3, <1>8, <1>9

(* Other ids for a key.                                                    *)
SetIds(keys, p, ids) == [keys EXCEPT ![p].ids = ids]

LEMMA IdsChanged ==
  ASSUME NEW keys, GoodKeys(keys), NEW p \in 1 .. Len(keys), NEW ids, GoodIds(ids),
         NEW more, more = SetIds(keys, p, ids)
  PROVE  /\ GoodKeys(more) /\ Len(more) = Len(keys)
         /\ Count(more) - Len(ids) = Count(keys) - Len(keys[p].ids) /\ Count(more) \in Nat
         /\ \A k, x : Holds(more, k, x) <=> \/ k = keys[p].key /\ HasId(ids, x)
                                            \/ k # keys[p].key /\ Holds(keys, k, x)
<1>1. /\ keys \in Seq(KeyEntries) /\ Len(keys) \in Nat /\ DOMAIN keys = 1 .. Len(keys)
      /\ \A i \in 1 .. Len(keys) : /\ keys[i] \in KeyEntries /\ keys[i].key \in Int
                                   /\ GoodIds(keys[i].ids)
      /\ \A i, j \in 1 .. Len(keys) : i < j => keys[i].key < keys[j].key
  BY GoodKeysAre
<1>2. ids \in Seq(RecIds) /\ Len(ids) \in Nat
  BY DEF GoodIds
<1>3. PICK entry : entry = [keys[p] EXCEPT !.ids = ids]
  OBVIOUS
<1>4. entry \in KeyEntries /\ entry.key = keys[p].key /\ entry.ids = ids
  <2>1. keys[p] \in KeyEntries
    BY <1>1
  <2> QED
    BY <1>2, <1>3, <2>1 DEF KeyEntries
<1>5. more = [keys EXCEPT ![p] = entry]
  BY <1>3 DEF SetIds
<1>6. /\ more \in Seq(KeyEntries) /\ Len(more) = Len(keys) /\ DOMAIN more = 1 .. Len(keys)
      /\ more[p] = entry /\ \A i \in 1 .. Len(keys) : i # p => more[i] = keys[i]
  BY <1>1, <1>4, <1>5
<1>7. \A i \in 1 .. Len(keys) : more[i].key = keys[i].key
  BY <1>4, <1>6
<1>8. PICK rest : rest = RemoveAt(keys, p)
  OBVIOUS
<1>9. /\ rest \in Seq(KeyEntries) /\ Len(rest) = Len(keys) - 1 /\ p \in 1 .. Len(rest) + 1
      /\ PutIn(rest, p, keys[p], keys)
  BY <1>1, <1>8, RestPutIn
<1>10. PutIn(rest, p, entry, more)
  <2>1. /\ Len(keys) = Len(rest) + 1
        /\ \A i \in 1 .. Len(rest) + 1 :
             keys[i] = IF i < p THEN rest[i] ELSE IF i = p THEN keys[p] ELSE rest[i - 1]
    BY <1>9 DEF PutIn
  <2> SUFFICES ASSUME NEW i \in 1 .. Len(rest) + 1
               PROVE  more[i] = IF i < p THEN rest[i] ELSE IF i = p THEN entry ELSE rest[i - 1]
    BY <1>6, <2>1 DEF PutIn
  <2>2. i \in 1 .. Len(keys)
    BY <2>1
  <2>3. CASE i = p
    BY <1>6, <2>3
  <2>4. CASE i # p
    BY <1>6, <2>1, <2>2, <2>4
  <2> QED
    BY <2>3, <2>4
<1>11. Count(keys) = Count(rest) + Len(keys[p].ids) /\ Count(rest) \in Nat
  BY <1>1, <1>9, CountPutIn
<1>12. Count(more) = Count(rest) + Len(ids) /\ Count(more) \in Nat
  <2>1. rest \in Seq(KeyEntries) /\ p \in 1 .. Len(rest) + 1 /\ more \in Seq(KeyEntries)
    BY <1>6, <1>9
  <2>2. Count(more) = Count(rest) + Len(entry.ids) /\ Count(more) \in Nat
    BY ONLY <2>1, <1>4, <1>10, CountPutIn
  <2> QED
    BY <1>4, <2>2
<1>13. Len(keys[p].ids) \in Nat
  BY <1>1 DEF GoodIds
<1>14. \A i \in DOMAIN more : GoodIds(more[i].ids)
  BY <1>1, <1>4, <1>6
<1>15. GoodKeys(more)
  BY <1>1, <1>6, <1>7, <1>14 DEF GoodKeys
<1>16. ASSUME NEW k, NEW x
       PROVE  Holds(more, k, x) <=> \/ k = keys[p].key /\ HasId(ids, x)
                                    \/ k # keys[p].key /\ Holds(keys, k, x)
  <2>1. ASSUME Holds(more, k, x), k = keys[p].key PROVE HasId(ids, x)
    <3>1. PICK i \in 1 .. Len(keys) : more[i].key = k /\ HasId(more[i].ids, x)
      BY <1>6, <2>1 DEF Holds
    <3>2. keys[i].key = keys[p].key
      BY <1>7, <2>1, <3>1
    <3>3. i = p
      BY <3>2, SameKey
    <3> QED
      BY <1>4, <1>6, <3>1, <3>3
  <2>2. ASSUME Holds(more, k, x), k # keys[p].key PROVE Holds(keys, k, x)
    <3>1. PICK i \in 1 .. Len(keys) : more[i].key = k /\ HasId(more[i].ids, x)
      BY <1>6, <2>2 DEF Holds
    <3>2. i # p
      BY <1>7, <2>2, <3>1
    <3> QED
      BY <1>1, <1>6, <3>1, <3>2 DEF Holds
  <2>3. ASSUME k = keys[p].key, HasId(ids, x) PROVE Holds(more, k, x)
    <3>1. p \in DOMAIN more /\ more[p].key = k /\ HasId(more[p].ids, x)
      BY <1>4, <1>6, <2>3
    <3> QED
      BY <3>1 DEF Holds
  <2>4. ASSUME k # keys[p].key, Holds(keys, k, x) PROVE Holds(more, k, x)
    <3>1. PICK i \in 1 .. Len(keys) : keys[i].key = k /\ HasId(keys[i].ids, x)
      BY <1>1, <2>4 DEF Holds
    <3>2. i # p
      BY <2>4, <3>1
    <3> QED
      BY <1>6, <3>1, <3>2 DEF Holds
  <2> QED
    BY <2>1, <2>2, <2>3, <2>4
<1>17. Count(more) - Len(ids) = Count(keys) - Len(keys[p].ids)
  BY <1>2, <1>11, <1>12, <1>13
<1> QED
  BY <1>6, <1>12, <1>15, <1>16, <1>17

(* The keys up to half, and those after it.                                *)
CutAt(keys, half, lower, upper) ==
  /\ half \in 1 .. Len(keys) - 1
  /\ lower = SubSeq(keys, 1, half) /\ upper = SubSeq(keys, half + 1, Len(keys))

LEMMA KeysParted ==
  ASSUME NEW keys, GoodKeys(keys), NEW half, NEW lower, NEW upper, CutAt(keys, half, lower, upper)
  PROVE  /\ GoodKeys(lower) /\ Len(lower) = half
         /\ GoodKeys(upper) /\ Len(upper) = Len(keys) - half
         /\ \A i \in 1 .. half : lower[i] = keys[i]
         /\ \A i \in 1 .. Len(keys) - half : upper[i] = keys[half + i]
         /\ Count(keys) = Count(lower) + Count(upper)
         /\ Count(lower) \in Nat \ {0} /\ Count(upper) \in Nat \ {0}
         /\ \A k, x : Holds(keys, k, x) <=> Holds(lower, k, x) \/ Holds(upper, k, x)
<1>0. /\ half \in 1 .. Len(keys) - 1
      /\ lower = SubSeq(keys, 1, half) /\ upper = SubSeq(keys, half + 1, Len(keys))
  BY DEF CutAt
<1>1. /\ keys \in Seq(KeyEntries) /\ Len(keys) \in Nat /\ DOMAIN keys = 1 .. Len(keys)
      /\ \A i \in 1 .. Len(keys) : GoodIds(keys[i].ids)
      /\ \A i, j \in 1 .. Len(keys) : i < j => keys[i].key < keys[j].key
  BY GoodKeysAre
<1>2. half \in Int /\ 1 <= half /\ half < Len(keys)
  BY <1>0, <1>1
<1>3. /\ lower \in Seq(KeyEntries) /\ Len(lower) = half
      /\ \A i \in 1 .. half : lower[i] = keys[i]
  BY <1>0, <1>1, <1>2
<1>4. /\ upper \in Seq(KeyEntries) /\ Len(upper) = Len(keys) - half
      /\ \A i \in 1 .. Len(keys) - half : upper[i] = keys[half + i]
  BY <1>0, <1>1, <1>2
<1>5. DOMAIN lower = 1 .. half /\ DOMAIN upper = 1 .. Len(keys) - half
  BY <1>1, <1>2, <1>3, <1>4
<1>6. \A i \in 1 .. half : i \in 1 .. Len(keys)
  BY <1>0, <1>1, <1>2
<1>7. \A i \in 1 .. Len(keys) - half : half + i \in 1 .. Len(keys)
  BY <1>0, <1>1, <1>2
<1>8. GoodKeys(lower)
  BY <1>1, <1>3, <1>5, <1>6 DEF GoodKeys
<1>9. GoodKeys(upper)
  <2>1. \A i \in DOMAIN upper : GoodIds(upper[i].ids)
    BY <1>1, <1>4, <1>5, <1>7
  <2>2. ASSUME NEW i \in DOMAIN upper, NEW j \in DOMAIN upper, i < j
        PROVE  upper[i].key < upper[j].key
    <3>1. half + i < half + j /\ half + i \in 1 .. Len(keys) /\ half + j \in 1 .. Len(keys)
      BY <1>2, <1>5, <1>7, <2>2
    <3> QED
      BY <1>1, <1>4, <1>5, <3>1
  <2> QED
    BY <1>4, <2>1, <2>2 DEF GoodKeys
<1>10. Parted(keys, lower, upper)
  BY <1>1, <1>2, <1>3, <1>4 DEF Parted
<1>11. Count(keys) = Count(lower) + Count(upper)
  BY <1>1, <1>3, <1>4, <1>10, CountParted
<1>12. Count(lower) \in Nat \ {0} /\ Count(upper) \in Nat \ {0}
  <2>1. lower # <<>> /\ upper # <<>>
    <3>1. Len(lower) # 0
      BY ONLY <1>2, <1>3
    <3>2. Len(keys) - half # 0
      <4>1. Len(keys) \in Nat
        BY <1>1
      <4> QED
        BY ONLY <1>2, <4>1
    <3>3. Len(upper) # 0
      BY ONLY <1>4, <3>2
    <3>4. Len(<<>>) = 0
      OBVIOUS
    <3> QED
      BY ONLY <3>1, <3>3, <3>4, Zenon
  <2>2. Count(lower) \in Nat \ {0}
    BY ONLY <1>8, <2>1, CountAtLeast
  <2>3. Count(upper) \in Nat \ {0}
    BY ONLY <1>9, <2>1, CountAtLeast
  <2> QED
    BY <2>2, <2>3
<1>13. ASSUME NEW k, NEW x
       PROVE  Holds(keys, k, x) <=> Holds(lower, k, x) \/ Holds(upper, k, x)
  <2>1. ASSUME Holds(keys, k, x) PROVE Holds(lower, k, x) \/ Holds(upper, k, x)
    <3>1. PICK i \in 1 .. Len(keys) : keys[i].key = k /\ HasId(keys[i].ids, x)
      BY <1>1, <2>1 DEF Holds
    <3>2. CASE i <= half
      <4>1. i \in DOMAIN lower /\ lower[i] = keys[i]
        BY <1>2, <1>3, <1>5, <3>2
      <4> QED
        BY <3>1, <4>1 DEF Holds
    <3>3. CASE i > half
      <4>1. i - half \in DOMAIN upper /\ half + (i - half) = i
        BY <1>1, <1>2, <1>5, <3>3
      <4>2. upper[i - half] = keys[i]
        BY <1>4, <1>5, <4>1
      <4> QED
        BY <3>1, <4>1, <4>2 DEF Holds
    <3> QED
      BY <1>2, <3>2, <3>3
  <2>2. ASSUME Holds(lower, k, x) PROVE Holds(keys, k, x)
    BY <1>1, <1>3, <1>5, <1>6, <2>2 DEF Holds
  <2>3. ASSUME Holds(upper, k, x) PROVE Holds(keys, k, x)
    <3>1. PICK i \in 1 .. Len(keys) - half : upper[i].key = k /\ HasId(upper[i].ids, x)
      BY <1>5, <2>3 DEF Holds
    <3>2. half + i \in DOMAIN keys /\ keys[half + i] = upper[i]
      BY <1>1, <1>4, <1>7
    <3> QED
      BY <3>1, <3>2 DEF Holds
  <2> QED
    BY <2>1, <2>2, <2>3
<1> QED
  BY <1>3, <1>4, <1>8, <1>9, <1>11, <1>12, <1>13

-----------------------------------------------------------------------------
(***************************************************************************)
(* The operations on a leaf, and the room there is.                        *)
(***************************************************************************)

(* The room that keys and cells take.                                      *)
Space(n, c) == n * KeySize + c * CellSize
Cells(leaf) == Count(leaf.keys) + leaf.free

LeafRecords ==
  [type : {"l"}, keys : Seq(KeyEntries), free : Nat, gap : Nat, next : Int]

LeafRec(keys, free, gap, next) ==
  [type |-> "l", keys |-> keys, free |-> free, gap |-> gap, next |-> next]

(* Gap, keys and cells make up the page.  The cells alone, with all the    *)
(* keys deleted, leave room for more than a key.                           *)
GoodLeaf(leaf) ==
  /\ leaf \in LeafRecords /\ GoodKeys(leaf.keys)
  /\ leaf.gap + Space(Len(leaf.keys), Cells(leaf)) = LeafSpace
  /\ Space(1, Cells(leaf)) < LeafSpace

(* The record ids of each key leave room in a leaf for another key, and    *)
(* for another id.  Then a leaf with one key is never split.               *)
ListsFit(keys) ==
  \A i \in DOMAIN keys : LeafSpace > Space(2, Len(keys[i].ids) + 1)

LEMMA SpaceIs ==
  ASSUME NEW n \in Nat, NEW c \in Nat
  PROVE  /\ Space(n, c) \in Nat /\ Space(n, c) >= Space(0, c) /\ Space(n, c) >= Space(n, 0)
         /\ Space(n + 1, c) = Space(n, c) + KeySize
         /\ Space(n, c + 1) = Space(n, c) + CellSize
         /\ KeySize \in Nat \ {0} /\ CellSize \in Nat \ {0} /\ LeafSpace \in Nat
<1>1. KeySize \in Nat \ {0} /\ CellSize \in Nat \ {0} /\ LeafSpace \in Nat
  BY LeafAssumption
<1>2. n * KeySize \in Nat /\ c * CellSize \in Nat
  BY <1>1
<1>3. (n + 1) * KeySize = n * KeySize + KeySize /\ (c + 1) * CellSize = c * CellSize + CellSize
  BY <1>1
<1>4. 0 * KeySize = 0 /\ 0 * CellSize = 0
  BY <1>1
<1>5. Space(n, c) \in Nat /\ Space(n, c) >= Space(0, c) /\ Space(n, c) >= Space(n, 0)
  BY <1>2, <1>4 DEF Space
<1>6. Space(n + 1, c) = Space(n, c) + KeySize /\ Space(n, c + 1) = Space(n, c) + CellSize
  BY <1>1, <1>2, <1>3 DEF Space
<1> QED
  BY <1>1, <1>5, <1>6

LEMMA SpaceGrows ==
  ASSUME NEW n \in Nat, NEW c \in Nat, NEW m \in Nat, NEW d \in Nat, n <= m, c <= d
  PROVE  Space(n, c) <= Space(m, d) /\ Space(n, c) \in Nat /\ Space(m, d) \in Nat
<1>1. KeySize \in Nat /\ CellSize \in Nat
  BY LeafAssumption
<1>2. PICK i \in Nat : m = n + i
  <2>1. m - n \in Nat /\ m = n + (m - n)
    OBVIOUS
  <2> QED
    BY <2>1
<1>3. PICK j \in Nat : d = c + j
  <2>1. d - c \in Nat /\ d = c + (d - c)
    OBVIOUS
  <2> QED
    BY <2>1
<1>4. (n + i) * KeySize = n * KeySize + i * KeySize /\ (c + j) * CellSize = c * CellSize + j * CellSize
  BY <1>1
<1>5. /\ n * KeySize \in Nat /\ i * KeySize \in Nat
      /\ c * CellSize \in Nat /\ j * CellSize \in Nat
  BY <1>1
<1>6. m * KeySize = n * KeySize + i * KeySize /\ d * CellSize = c * CellSize + j * CellSize
  BY <1>2, <1>3, <1>4
<1>7. n * KeySize <= m * KeySize /\ m * KeySize \in Nat
  BY <1>5, <1>6
<1>8. c * CellSize <= d * CellSize /\ d * CellSize \in Nat
  BY <1>5, <1>6
<1> QED
  BY <1>5, <1>7, <1>8 DEF Space

LEMMA SpaceAdds ==
  ASSUME NEW n \in Nat, NEW c \in Nat, NEW m \in Nat, NEW d \in Nat
  PROVE  Space(n + m, c + d) = Space(n, c) + Space(m, d)
<1>1. KeySize \in Nat /\ CellSize \in Nat
  BY LeafAssumption
<1>2. (n + m) * KeySize = n * KeySize + m * KeySize /\ (c + d) * CellSize = c * CellSize + d * CellSize
  BY <1>1
<1>3. /\ n * KeySize \in Nat /\ m * KeySize \in Nat
      /\ c * CellSize \in Nat /\ d * CellSize \in Nat
  BY <1>1
<1> QED
  BY <1>2, <1>3 DEF Space

LEMMA SpaceOne == Space(1, 1) = KeySize + CellSize /\ Space(1, 0) = KeySize /\ Space(0, 1) = CellSize
BY LeafAssumption DEF Space

(* RoomFor and the gap of LeafType in these terms.                         *)
LEMMA RoomIsSpace ==
  ASSUME NEW keys, GoodKeys(keys), NEW free \in Nat
  PROVE  /\ RoomFor(keys) + free * CellSize = Space(Len(keys), Count(keys) + free)
         /\ RoomFor(keys) = Space(Len(keys), Count(keys))
         /\ Len(keys) \in Nat /\ Count(keys) \in Nat /\ free * CellSize \in Nat
<1>1. Len(keys) \in Nat /\ Count(keys) \in Nat
  <2>1. keys \in Seq(KeyEntries)
    BY DEF GoodKeys
  <2>2. CASE keys = <<>>
    BY <2>1, <2>2, CountOfNone
  <2>3. CASE keys # <<>>
    BY <2>1, <2>3, CountAtLeast
  <2> QED
    BY <2>2, <2>3
<1>2. RoomFor(keys) = Len(keys) * KeySize + Count(keys) * CellSize
  BY DEF RoomFor, Count
<1>3. KeySize \in Nat /\ CellSize \in Nat
  BY LeafAssumption
<1>4. /\ Len(keys) * KeySize \in Nat /\ Count(keys) * CellSize \in Nat /\ free * CellSize \in Nat
      /\ (Count(keys) + free) * CellSize = Count(keys) * CellSize + free * CellSize
  BY <1>1, <1>3
<1> QED
  BY <1>1, <1>2, <1>4 DEF Space

LEMMA GoodLeafIs ==
  ASSUME NEW leaf, GoodLeaf(leaf)
  PROVE  /\ leaf.type = "l" /\ leaf.free \in Nat /\ leaf.gap \in Nat /\ leaf.next \in Int
         /\ leaf = LeafRec(leaf.keys, leaf.free, leaf.gap, leaf.next)
         /\ GoodKeys(leaf.keys) /\ leaf.keys \in Seq(KeyEntries)
         /\ Len(leaf.keys) \in Nat /\ Count(leaf.keys) \in Nat
         /\ leaf.gap + Space(Len(leaf.keys), Count(leaf.keys) + leaf.free) = LeafSpace
         /\ Space(1, Count(leaf.keys) + leaf.free) < LeafSpace
<1>1. /\ leaf.type = "l" /\ leaf.free \in Nat /\ leaf.gap \in Nat /\ leaf.next \in Int
      /\ leaf = LeafRec(leaf.keys, leaf.free, leaf.gap, leaf.next)
  BY DEF GoodLeaf, LeafRecords, LeafRec
<1>2. GoodKeys(leaf.keys)
  BY DEF GoodLeaf
<1>3. leaf.keys \in Seq(KeyEntries) /\ Len(leaf.keys) \in Nat /\ Count(leaf.keys) \in Nat
  BY <1>2, <1>1, RoomIsSpace DEF GoodKeys
<1>4. /\ leaf.gap + Space(Len(leaf.keys), Count(leaf.keys) + leaf.free) = LeafSpace
      /\ Space(1, Count(leaf.keys) + leaf.free) < LeafSpace
  BY DEF GoodLeaf, Cells
<1> QED
  BY <1>1, <1>2, <1>3, <1>4

LEMMA LeafIsGood ==
  ASSUME NEW keys, GoodKeys(keys), NEW free \in Nat, NEW gap \in Nat, NEW next \in Int,
         gap + Space(Len(keys), Count(keys) + free) = LeafSpace,
         Space(1, Count(keys) + free) < LeafSpace
  PROVE  /\ GoodLeaf(LeafRec(keys, free, gap, next))
         /\ LeafRec(keys, free, gap, next).keys = keys
         /\ LeafRec(keys, free, gap, next).next = next
<1>1. keys \in Seq(KeyEntries)
  BY DEF GoodKeys
<1> DEFINE leaf == LeafRec(keys, free, gap, next)
<1>2. /\ leaf \in LeafRecords /\ leaf.keys = keys /\ leaf.free = free /\ leaf.gap = gap
      /\ leaf.next = next
  BY <1>1 DEF LeafRecords, LeafRec
<1> HIDE DEF leaf
<1>3. GoodLeaf(leaf)
  BY <1>2 DEF GoodLeaf, Cells
<1> QED
  BY <1>2, <1>3 DEF leaf

LEMMA CellsLeaveRoom ==
  ASSUME NEW keys, GoodKeys(keys), keys # <<>>, ListsFit(keys),
         Space(Len(keys), Count(keys)) <= LeafSpace
  PROVE  Space(1, Count(keys)) < LeafSpace
<1>1. /\ keys \in Seq(KeyEntries) /\ Len(keys) \in Nat \ {0} /\ Count(keys) \in Nat
      /\ GoodIds(keys[1].ids)
  <2>1. keys \in Seq(KeyEntries)
    BY DEF GoodKeys
  <2>2. Len(keys) \in Nat \ {0} /\ 1 \in DOMAIN keys
    BY <2>1
  <2>3. Count(keys) \in Nat
    BY CountAtLeast
  <2> QED
    BY <2>1, <2>2, <2>3 DEF GoodKeys
<1>2. LeafSpace \in Nat /\ KeySize \in Nat \ {0}
  BY LeafAssumption
<1>3. CASE Len(keys) = 1
  <2>1. Count(keys) = Len(keys[1].ids)
    BY <1>1, <1>3, CountOfOne
  <2>2. Count(keys) + 1 \in Nat /\ Count(keys) <= Count(keys) + 1
    BY <1>1
  <2>3. /\ Space(1, Count(keys)) <= Space(2, Count(keys) + 1)
        /\ Space(1, Count(keys)) \in Nat /\ Space(2, Count(keys) + 1) \in Nat
    <3>1. Count(keys) \in Nat /\ 1 \in Nat /\ 2 \in Nat /\ 1 <= 2
      BY <1>1
    <3> QED
      BY ONLY <2>2, <3>1, SpaceGrows
  <2>4. LeafSpace > Space(2, Count(keys) + 1)
    <3>1. 1 \in DOMAIN keys
      BY ONLY <1>1, <1>3
    <3> QED
      BY <2>1, <3>1 DEF ListsFit
  <2> QED
    BY ONLY <1>2, <2>3, <2>4
<1>4. CASE Len(keys) # 1
  <2>1. 1 + 1 <= Len(keys) /\ 1 + 1 \in Nat
    <3>1. Len(keys) \in Nat \ {0}
      BY <1>1
    <3> QED
      BY ONLY <3>1, <1>4
  <2>2. Space(1 + 1, Count(keys)) <= Space(Len(keys), Count(keys)) /\ Space(1 + 1, Count(keys)) \in Nat
        /\ Space(Len(keys), Count(keys)) \in Nat
    BY <1>1, <2>1, SpaceGrows
  <2>3. Space(1 + 1, Count(keys)) = Space(1, Count(keys)) + KeySize /\ Space(1, Count(keys)) \in Nat
    BY <1>1, SpaceIs
  <2> QED
    BY <1>2, <2>2, <2>3
<1> QED
  BY <1>3, <1>4

(* One id more, at the head of the list of the key at p.                   *)
WithId(keys, p, id) == [keys EXCEPT ![p].ids = <<id>> \o keys[p].ids]

(* AM_InsertToLeafFound, field by field.                                   *)
LEMMA FoundRecord ==
  ASSUME NEW keys, NEW free \in Nat, NEW gap \in Int, NEW next, NEW p, NEW id
  PROVE  AM_InsertToLeafFound(LeafRec(keys, free, gap, next), id, p) =
           IF free = 0
           THEN LeafRec(WithId(keys, p, id), free, gap - CellSize, next)
           ELSE LeafRec(WithId(keys, p, id), free - 1, gap, next)
<1> DEFINE leaf == LeafRec(keys, free, gap, next)
           more == [keys EXCEPT ![p].ids = <<id>> \o keys[p].ids]
           with == [leaf EXCEPT !.keys[p].ids = <<id>> \o @]
<1>1. with = LeafRec(more, free, gap, next)
  BY DEF LeafRec
<1>2. AM_InsertToLeafFound(leaf, id, p) =
        IF leaf.free = 0 THEN [with EXCEPT !.gap = @ - CellSize]
        ELSE [with EXCEPT !.free = @ - 1]
  BY DEF AM_InsertToLeafFound
<1>3. leaf.free = free
  BY DEF LeafRec
<1> HIDE DEF leaf, with, more
<1>4. CASE free = 0
  <2>1. AM_InsertToLeafFound(leaf, id, p) = [with EXCEPT !.gap = @ - CellSize]
    BY <1>2, <1>3, <1>4
  <2>2. [with EXCEPT !.gap = @ - CellSize] = LeafRec(more, free, gap - CellSize, next)
    BY <1>1 DEF LeafRec
  <2> QED
    BY <1>4, <2>1, <2>2 DEF leaf, more, WithId
<1>5. CASE free # 0
  <2>1. AM_InsertToLeafFound(leaf, id, p) = [with EXCEPT !.free = @ - 1]
    BY <1>2, <1>3, <1>5
  <2>2. [with EXCEPT !.free = @ - 1] = LeafRec(more, free - 1, gap, next)
    BY <1>1 DEF LeafRec
  <2> QED
    BY <1>5, <2>1, <2>2 DEF leaf, more, WithId
<1> QED
  BY <1>4, <1>5

(* AM_InsertToLeafNotFound, field by field.                                *)
LEMMA NotFoundRecord ==
  ASSUME NEW keys, NEW free \in Nat, NEW gap \in Int, NEW next, NEW p, NEW key, NEW id
  PROVE  AM_InsertToLeafNotFound(LeafRec(keys, free, gap, next), key, id, p) =
           AM_InsertToLeafFound(
             LeafRec(InsertAt(keys, p, KeyEntry(key, <<>>)), free, gap - KeySize, next), id, p)
<1> DEFINE leaf == LeafRec(keys, free, gap, next)
           put == InsertAt(leaf.keys, p, KeyEntry(key, <<>>))
           rest == leaf.gap - KeySize
<1>1. leaf.keys = keys /\ leaf.gap = gap
  BY DEF LeafRec
<1> HIDE DEF put, rest
<1>2. [leaf EXCEPT !.keys = put, !.gap = rest] = LeafRec(put, free, rest, next)
  <2>1. [leaf EXCEPT !.keys = put] = LeafRec(put, free, gap, next)
    BY DEF LeafRec
  <2>2. [LeafRec(put, free, gap, next) EXCEPT !.gap = rest] = LeafRec(put, free, rest, next)
    BY DEF LeafRec
  <2> QED
    BY <2>1, <2>2, Zenon
<1> HIDE DEF leaf
<1>3. AM_InsertToLeafNotFound(leaf, key, id, p) =
        AM_InsertToLeafFound([leaf EXCEPT !.keys = put, !.gap = rest], id, p)
  BY Zenon DEF AM_InsertToLeafNotFound, put, rest
<1>4. put = InsertAt(keys, p, KeyEntry(key, <<>>)) /\ rest = gap - KeySize
  BY <1>1 DEF put, rest
<1> QED
  BY <1>2, <1>3, <1>4 DEF leaf

(* AM_Compact, field by field.                                             *)
LEMMA CompactRecord ==
  ASSUME NEW keys, NEW free, NEW gap, NEW next, NEW low, NEW high, NEW anyGap
  PROVE  AM_Compact(LeafRec(keys, free, gap, next), low, high, anyGap) =
           LeafRec(SubSeq(keys, low, high), 0,
                   IF high < low THEN anyGap ELSE LeafSpace - RoomFor(SubSeq(keys, low, high)), next)
<1> DEFINE leaf == LeafRec(keys, free, gap, next)
           kept == SubSeq(leaf.keys, low, high)
           room == IF high < low THEN anyGap ELSE LeafSpace - RoomFor(kept)
<1>1. leaf.keys = keys
  BY DEF LeafRec
<1> HIDE DEF kept, room
<1>2. [leaf EXCEPT !.keys = kept, !.free = 0, !.gap = room] = LeafRec(kept, 0, room, next)
  <2>1. [leaf EXCEPT !.keys = kept] = LeafRec(kept, free, gap, next)
    BY DEF LeafRec
  <2>2. [LeafRec(kept, free, gap, next) EXCEPT !.free = 0] = LeafRec(kept, 0, gap, next)
    BY DEF LeafRec
  <2>3. [LeafRec(kept, 0, gap, next) EXCEPT !.gap = room] = LeafRec(kept, 0, room, next)
    BY DEF LeafRec
  <2> QED
    BY <2>1, <2>2, <2>3, Zenon
<1> HIDE DEF leaf
<1>3. AM_Compact(leaf, low, high, anyGap) = [leaf EXCEPT !.keys = kept, !.free = 0, !.gap = room]
  BY Zenon DEF AM_Compact, kept, room
<1> QED
  BY <1>1, <1>2, <1>3 DEF leaf, kept, room

(* The part of AM_DeleteEntry that works on the page, field by field.      *)
LEMMA DeleteRecord ==
  ASSUME NEW keys, NEW free \in Nat, NEW gap \in Int, NEW next, NEW p, NEW id
  PROVE  DeleteFromLeaf(LeafRec(keys, free, gap, next), id, p) =
           IF RemoveFirst(keys[p].ids, id) = <<>>
           THEN LeafRec(RemoveAt(keys, p), free + 1, gap + KeySize, next)
           ELSE LeafRec(SetIds(keys, p, RemoveFirst(keys[p].ids, id)), free + 1, gap, next)
<1> DEFINE leaf == LeafRec(keys, free, gap, next)
           left == RemoveFirst(keys[p].ids, id)
           freed == [leaf EXCEPT !.free = @ + 1]
<1>1. freed = LeafRec(keys, free + 1, gap, next)
  BY DEF LeafRec
<1>2. leaf.keys = keys
  BY DEF LeafRec
<1> DEFINE now == LeafRec(keys, free + 1, gap, next)
<1>3. DeleteFromLeaf(leaf, id, p) =
        IF left = <<>> THEN [now EXCEPT !.keys = RemoveAt(@, p), !.gap = @ + KeySize]
        ELSE [now EXCEPT !.keys[p].ids = left]
  BY <1>1, <1>2, Zenon DEF DeleteFromLeaf
<1>4. CASE left = <<>>
  <2> DEFINE rest == RemoveAt(now.keys, p)
             more == now.gap + KeySize
  <2>1. now.keys = keys /\ now.gap = gap
    BY DEF LeafRec
  <2> HIDE DEF rest, more
  <2>2. [now EXCEPT !.keys = rest, !.gap = more] = LeafRec(rest, free + 1, more, next)
    <3>1. [now EXCEPT !.keys = rest] = LeafRec(rest, free + 1, gap, next)
      BY DEF LeafRec
    <3>2. [LeafRec(rest, free + 1, gap, next) EXCEPT !.gap = more] = LeafRec(rest, free + 1, more, next)
      BY DEF LeafRec
    <3> QED
      BY <3>1, <3>2, Zenon
  <2> HIDE DEF now, leaf, left
  <2>3. DeleteFromLeaf(leaf, id, p) = [now EXCEPT !.keys = rest, !.gap = more]
    BY <1>3, <1>4, Zenon DEF rest, more
  <2>4. rest = RemoveAt(keys, p) /\ more = gap + KeySize
    BY <2>1 DEF rest, more
  <2> QED
    BY <1>4, <2>2, <2>3, <2>4 DEF leaf, left
<1>5. CASE left # <<>>
  <2> HIDE DEF left
  <2>1. DeleteFromLeaf(leaf, id, p) = [now EXCEPT !.keys[p].ids = left]
    BY <1>3, <1>5
  <2>2. [now EXCEPT !.keys[p].ids = left] =
          LeafRec([keys EXCEPT ![p].ids = left], free + 1, gap, next)
    BY DEF LeafRec
  <2> QED
    BY <1>5, <2>1, <2>2 DEF leaf, left, SetIds
<1> QED
  BY <1>4, <1>5

(* What an insertion makes of the entries, and a deletion.                 *)
Adds(keys, more, key, id) ==
  \A k, x : Holds(more, k, x) <=> (k = key /\ x = id) \/ Holds(keys, k, x)
Removes(keys, rest, key, id) ==
  \A k, x : Holds(rest, k, x) <=> ~(k = key /\ x = id) /\ Holds(keys, k, x)

(* The leaf that AM_InsertToLeafFound leaves, and the room there was when  *)
(* it had but c ids.                                                       *)
Taken(keys, free, gap, next) ==
  IF free = 0 THEN LeafRec(keys, free, gap - CellSize, next)
  ELSE LeafRec(keys, free - 1, gap, next)
RoomBefore(keys, free, gap, c) ==
  /\ Count(keys) = c + 1 /\ gap + Space(Len(keys), c + free) = LeafSpace
  /\ free = 0 => gap >= CellSize
  /\ free # 0 => gap >= 0 /\ Space(1, c + free) < LeafSpace

LEMMA CellTaken ==
  ASSUME NEW keys, GoodKeys(keys), keys # <<>>, ListsFit(keys),
         NEW free \in Nat, NEW gap \in Int, NEW next \in Int, NEW c \in Nat,
         RoomBefore(keys, free, gap, c)
  PROVE  /\ GoodLeaf(Taken(keys, free, gap, next))
         /\ Taken(keys, free, gap, next).keys = keys
         /\ Taken(keys, free, gap, next).next = next
<1>0. /\ Count(keys) = c + 1 /\ gap + Space(Len(keys), c + free) = LeafSpace
      /\ free = 0 => gap >= CellSize
      /\ free # 0 => gap >= 0 /\ Space(1, c + free) < LeafSpace
  BY DEF RoomBefore
<1>1. Len(keys) \in Nat /\ KeySize \in Nat \ {0} /\ CellSize \in Nat \ {0} /\ LeafSpace \in Nat
  BY GoodKeysAre, LeafAssumption
<1>2. CASE free = 0
  <2>1. c + free = c /\ Count(keys) + free = c + 1 /\ Count(keys) + free = Count(keys)
    BY <1>0, <1>2
  <2>2. /\ Space(Len(keys), c + 1) = Space(Len(keys), c) + CellSize
        /\ Space(Len(keys), c) \in Nat /\ Space(Len(keys), c + 1) \in Nat
    <3>1. c + 1 \in Nat
      OBVIOUS
    <3> QED
      BY ONLY <1>1, <3>1, c \in Nat, SpaceIs
  <2>3. gap + Space(Len(keys), c) = LeafSpace
    BY <1>0, <2>1
  <2>4. /\ gap - CellSize \in Nat /\ (gap - CellSize) + Space(Len(keys), c + 1) = LeafSpace
        /\ Space(Len(keys), c + 1) <= LeafSpace
    BY <1>0, <1>1, <1>2, <2>2, <2>3
  <2>5. (gap - CellSize) + Space(Len(keys), Count(keys) + free) = LeafSpace
        /\ Space(Len(keys), Count(keys)) <= LeafSpace
    BY <2>1, <2>4
  <2>6. Space(1, Count(keys) + free) < LeafSpace
    BY <2>1, <2>5, CellsLeaveRoom
  <2>7. /\ GoodLeaf(LeafRec(keys, free, gap - CellSize, next))
        /\ LeafRec(keys, free, gap - CellSize, next).keys = keys
        /\ LeafRec(keys, free, gap - CellSize, next).next = next
    BY ONLY <2>4, <2>5, <2>6, free \in Nat, next \in Int, GoodKeys(keys), LeafIsGood
  <2> QED
    BY <1>2, <2>7 DEF Taken
<1>3. CASE free # 0
  <2>1. free - 1 \in Nat /\ gap \in Nat /\ Count(keys) + (free - 1) = c + free
    BY <1>0, <1>3
  <2>2. gap + Space(Len(keys), Count(keys) + (free - 1)) = LeafSpace
        /\ Space(1, Count(keys) + (free - 1)) < LeafSpace
    BY <1>0, <1>3, <2>1
  <2>3. /\ GoodLeaf(LeafRec(keys, free - 1, gap, next))
        /\ LeafRec(keys, free - 1, gap, next).keys = keys
        /\ LeafRec(keys, free - 1, gap, next).next = next
    BY <2>1, <2>2, LeafIsGood
  <2> QED
    BY <1>3, <2>3 DEF Taken
<1> QED
  BY <1>2, <1>3

(* One id more for the key at p.                                           *)
LEMMA IdForKey ==
  ASSUME NEW keys, GoodKeys(keys), NEW p \in 1 .. Len(keys), NEW id \in RecIds,
         ~HasId(keys[p].ids, id),
         NEW more, more = WithId(keys, p, id)
  PROVE  /\ GoodKeys(more) /\ Len(more) = Len(keys) /\ Count(more) = Count(keys) + 1
         /\ Len(keys) \in Nat \ {0} /\ Count(keys) \in Nat /\ Adds(keys, more, keys[p].key, id)
<1>1. /\ keys \in Seq(KeyEntries) /\ Len(keys) \in Nat /\ DOMAIN keys = 1 .. Len(keys)
      /\ GoodIds(keys[p].ids) /\ keys[p].ids \in Seq(RecIds) /\ Len(keys[p].ids) \in Nat
  BY GoodKeysAre
<1>2. PICK ids : ids = <<id>> \o keys[p].ids
  OBVIOUS
<1>3. /\ GoodIds(ids) /\ Len(ids) = Len(keys[p].ids) + 1
      /\ \A x : HasId(ids, x) <=> x = id \/ HasId(keys[p].ids, x)
  BY <1>1, <1>2, IdAdded
<1>4. /\ GoodKeys(more) /\ Len(more) = Len(keys)
      /\ Count(more) - Len(ids) = Count(keys) - Len(keys[p].ids) /\ Count(more) \in Nat
      /\ \A k, x : Holds(more, k, x) <=> \/ k = keys[p].key /\ HasId(ids, x)
                                         \/ k # keys[p].key /\ Holds(keys, k, x)
  <2>1. more = SetIds(keys, p, ids)
    BY <1>2 DEF SetIds, WithId
  <2> QED
    BY ONLY GoodKeys(keys), p \in 1 .. Len(keys), <1>3, <2>1, IdsChanged
<1>5. Len(keys) \in Nat \ {0} /\ Count(keys) \in Nat
  <2>1. keys # <<>> /\ Len(keys) # 0
    BY <1>1
  <2> QED
    BY <1>1, <2>1, CountAtLeast
<1>6. Count(more) = Count(keys) + 1
  <2>1. Len(ids) \in Nat
    BY <1>1, <1>3
  <2> QED
    BY ONLY <1>1, <1>3, <1>4, <1>5, <2>1
<1>7. ASSUME NEW k, NEW x
      PROVE  Holds(more, k, x) <=> (k = keys[p].key /\ x = id) \/ Holds(keys, k, x)
  <2>1. Holds(more, k, x) <=> \/ k = keys[p].key /\ (x = id \/ HasId(keys[p].ids, x))
                              \/ k # keys[p].key /\ Holds(keys, k, x)
    BY <1>3, <1>4
  <2>2. ASSUME k = keys[p].key, Holds(keys, k, x) PROVE HasId(keys[p].ids, x)
    <3>1. PICK i \in 1 .. Len(keys) : keys[i].key = k /\ HasId(keys[i].ids, x)
      BY <1>1, <2>2 DEF Holds
    <3>2. i = p
      BY <2>2, <3>1, SameKey
    <3> QED
      BY <3>1, <3>2
  <2>3. ASSUME k = keys[p].key, HasId(keys[p].ids, x) PROVE Holds(keys, k, x)
    BY <1>1, <2>3 DEF Holds
  <2> QED
    BY <2>1, <2>2, <2>3
<1> QED
  BY <1>4, <1>5, <1>6, <1>7 DEF Adds

(* AM_InsertToLeafFound: one id more for the key at p.                     *)
LEMMA FoundInserted ==
  ASSUME NEW leaf, GoodLeaf(leaf), NEW p \in 1 .. Len(leaf.keys), NEW id \in RecIds,
         ~HasId(leaf.keys[p].ids, id), leaf.free > 0 \/ leaf.gap >= CellSize,
         NEW new, new = AM_InsertToLeafFound(leaf, id, p), ListsFit(new.keys)
  PROVE  /\ GoodLeaf(new) /\ new.next = leaf.next /\ Len(new.keys) = Len(leaf.keys)
         /\ Adds(leaf.keys, new.keys, leaf.keys[p].key, id)
<1>1. PICK keys, free, gap, next :
        keys = leaf.keys /\ free = leaf.free /\ gap = leaf.gap /\ next = leaf.next
  OBVIOUS
<1>2. /\ leaf = LeafRec(keys, free, gap, next)
      /\ free \in Nat /\ gap \in Nat /\ next \in Int /\ GoodKeys(keys)
      /\ gap + Space(Len(keys), Count(keys) + free) = LeafSpace
      /\ Space(1, Count(keys) + free) < LeafSpace
  BY <1>1, GoodLeafIs
<1>3. PICK more : more = WithId(keys, p, id)
  OBVIOUS
<1>4. /\ GoodKeys(more) /\ Len(more) = Len(keys) /\ Count(more) = Count(keys) + 1
      /\ Len(keys) \in Nat \ {0} /\ Count(keys) \in Nat /\ Adds(keys, more, keys[p].key, id)
  <2>1. p \in 1 .. Len(keys) /\ ~HasId(keys[p].ids, id)
    BY <1>1
  <2> QED
    BY ONLY <1>2, <1>3, <2>1, id \in RecIds, IdForKey
<1>5. new = Taken(more, free, gap, next)
  <2>1. gap \in Int
    BY <1>2
  <2> QED
    BY ONLY <1>2, <1>3, <2>1, new = AM_InsertToLeafFound(leaf, id, p), FoundRecord DEF Taken
<1>6. GoodLeaf(new) /\ new.keys = more /\ new.next = next
  <2>1. more # <<>> /\ gap \in Int /\ CellSize \in Nat \ {0}
    BY <1>2, <1>4, LeafAssumption
  <2>2. (free = 0 => gap >= CellSize) /\ (free # 0 => gap >= 0)
    BY <1>1, <1>2
  <2>3. gap + Space(Len(more), Count(keys) + free) = LeafSpace
    BY <1>2, <1>4
  <2>4. /\ GoodKeys(more) /\ free \in Nat /\ next \in Int /\ Count(keys) \in Nat
        /\ Count(more) = Count(keys) + 1
        /\ free # 0 => gap >= 0 /\ Space(1, Count(keys) + free) < LeafSpace
    BY <1>2, <1>4, <2>2
  <2>5. RoomBefore(more, free, gap, Count(keys))
    BY ONLY <2>2, <2>3, <2>4 DEF RoomBefore
  <2>6. GoodKeys(more) /\ more # <<>> /\ free \in Nat /\ gap \in Int /\ next \in Int /\ Count(keys) \in Nat
    BY ONLY <2>1, <2>4
  <2>7. ListsFit(more)
    <3>1. new.keys = more
      BY ONLY <1>5 DEF Taken, LeafRec
    <3> QED
      BY <3>1
  <2> QED
    BY ONLY <1>5, <2>5, <2>6, <2>7, CellTaken
<1> QED
  BY <1>1, <1>4, <1>6

(* The place for a key that is not among the keys.                         *)
Between(keys, p, key) ==
  /\ p \in 1 .. Len(keys) + 1
  /\ \A i \in 1 .. Len(keys) : (i < p => keys[i].key < key) /\ (i >= p => keys[i].key > key)

(* A key with one id, put in at its place.                                 *)
LEMMA KeyForId ==
  ASSUME NEW keys, GoodKeys(keys), NEW p, NEW key \in Keys, NEW id \in RecIds, Between(keys, p, key),
         NEW more, more = WithId(InsertAt(keys, p, KeyEntry(key, <<>>)), p, id)
  PROVE  /\ GoodKeys(more) /\ Len(more) = Len(keys) + 1 /\ Count(more) = Count(keys) + 1
         /\ Len(keys) \in Nat /\ Count(keys) \in Nat /\ Adds(keys, more, key, id)
<1>1. keys \in Seq(KeyEntries) /\ Len(keys) \in Nat /\ DOMAIN keys = 1 .. Len(keys)
  BY GoodKeysAre
<1>2. PICK none, ids, put, entry :
        /\ none = KeyEntry(key, <<>>) /\ ids = <<id>> /\ put = InsertAt(keys, p, none)
        /\ entry = KeyEntry(key, ids)
  OBVIOUS
<1>3. /\ ids \in Seq(RecIds) /\ Len(ids) = 1 /\ GoodIds(ids)
      /\ \A x : HasId(ids, x) <=> x = id
  BY <1>2 DEF GoodIds, HasId
<1>4. none \in KeyEntries /\ entry \in KeyEntries
  <2>1. <<>> \in Seq(RecIds)
    OBVIOUS
  <2> QED
    BY ONLY <1>2, <1>3, <2>1, key \in Keys, EntryOf
<1>5. p \in 1 .. Len(keys) + 1
  BY DEF Between
<1>6. /\ put \in Seq(KeyEntries) /\ Len(put) = Len(keys) + 1
      /\ \A i \in 1 .. Len(keys) + 1 :
           put[i] = IF i < p THEN keys[i] ELSE IF i = p THEN none ELSE keys[i - 1]
  <2>1. /\ InsertAt(keys, p, none) \in Seq(KeyEntries)
        /\ Len(InsertAt(keys, p, none)) = Len(keys) + 1
        /\ \A i \in 1 .. Len(keys) + 1 : InsertAt(keys, p, none)[i] =
             IF i < p THEN keys[i] ELSE IF i = p THEN none ELSE keys[i - 1]
    BY ONLY <1>1, <1>4, <1>5, InsertAtIs
  <2> QED
    BY ONLY <1>2, <2>1
<1>7. [put[p] EXCEPT !.ids = <<id>> \o put[p].ids] = entry
  <2>1. put[p] = [key |-> key, ids |-> <<>>]
    BY ONLY <1>1, <1>2, <1>5, <1>6 DEF KeyEntry
  <2>2. <<id>> \o <<>> = ids
    BY ONLY <1>2, id \in RecIds
  <2>3. entry = [key |-> key, ids |-> ids]
    BY ONLY <1>2 DEF KeyEntry
  <2> QED
    BY ONLY <2>1, <2>2, <2>3
<1>8. more = [put EXCEPT ![p] = entry]
  BY <1>2, <1>7 DEF WithId
<1>9. /\ more \in Seq(KeyEntries) /\ Len(more) = Len(keys) + 1
      /\ \A i \in 1 .. Len(keys) + 1 : more[i] = IF i = p THEN entry ELSE put[i]
  <2>1. DOMAIN put = 1 .. Len(keys) + 1 /\ \A i \in 1 .. Len(keys) + 1 : put[i] \in KeyEntries
    BY ONLY <1>1, <1>6
  <2>2. more \in [1 .. Len(keys) + 1 -> KeyEntries]
    BY ONLY <1>4, <1>5, <1>8, <2>1
  <2>3. more \in Seq(KeyEntries) /\ Len(more) = Len(keys) + 1
    BY ONLY <1>1, <2>2
  <2>4. \A i \in 1 .. Len(keys) + 1 : more[i] = IF i = p THEN entry ELSE put[i]
    BY ONLY <1>5, <1>8, <2>1
  <2> QED
    BY ONLY <2>3, <2>4
<1>10. PutIn(keys, p, entry, more)
  <2>1. \A i \in 1 .. Len(keys) + 1 :
          more[i] = IF i < p THEN keys[i] ELSE IF i = p THEN entry ELSE keys[i - 1]
    BY ONLY <1>1, <1>5, <1>6, <1>9
  <2> QED
    BY ONLY <1>9, <2>1 DEF PutIn
<1>11. \A i \in 1 .. Len(keys) : (i < p => keys[i].key < key) /\ (i >= p => keys[i].key > key)
  BY DEF Between
<1>12. /\ GoodKeys(more) /\ Count(more) = Count(keys) + Len(ids)
       /\ \A k, x : Holds(more, k, x) <=> (k = key /\ HasId(ids, x)) \/ Holds(keys, k, x)
  <2>1. PutIn(keys, p, KeyEntry(key, ids), more)
    BY <1>2, <1>10
  <2> QED
    BY ONLY GoodKeys(keys), key \in Keys, <1>3, <1>5, <1>9, <1>11, <2>1, KeyPutIn
<1>13. Count(keys) \in Nat
  BY ONLY <1>1, <1>4, <1>5, <1>9, <1>10, CountPutIn
<1>14. Adds(keys, more, key, id)
  BY ONLY <1>3, <1>12 DEF Adds
<1> QED
  BY ONLY <1>1, <1>3, <1>9, <1>12, <1>13, <1>14

(* AM_InsertToLeafNotFound: a key with its first id.                       *)
LEMMA NotFoundInserted ==
  ASSUME NEW leaf, GoodLeaf(leaf), NEW p, NEW key \in Keys, NEW id \in RecIds,
         Between(leaf.keys, p, key),
         leaf.free = 0 => leaf.gap >= KeySize + CellSize, leaf.free # 0 => leaf.gap > KeySize,
         NEW new, new = AM_InsertToLeafNotFound(leaf, key, id, p), ListsFit(new.keys)
  PROVE  /\ GoodLeaf(new) /\ new.next = leaf.next /\ Len(new.keys) = Len(leaf.keys) + 1
         /\ Adds(leaf.keys, new.keys, key, id)
<1>1. PICK keys, free, gap, next :
        keys = leaf.keys /\ free = leaf.free /\ gap = leaf.gap /\ next = leaf.next
  OBVIOUS
<1>2. /\ leaf = LeafRec(keys, free, gap, next)
      /\ free \in Nat /\ gap \in Nat /\ next \in Int /\ GoodKeys(keys)
      /\ gap + Space(Len(keys), Count(keys) + free) = LeafSpace
      /\ Space(1, Count(keys) + free) < LeafSpace
  BY <1>1, GoodLeafIs
<1>3. PICK put, more : put = InsertAt(keys, p, KeyEntry(key, <<>>)) /\ more = WithId(put, p, id)
  OBVIOUS
<1>4. Between(keys, p, key)
  BY <1>1
<1>5. /\ GoodKeys(more) /\ Len(more) = Len(keys) + 1 /\ Count(more) = Count(keys) + 1
      /\ Len(keys) \in Nat /\ Count(keys) \in Nat /\ Adds(keys, more, key, id)
  <2>1. more = WithId(InsertAt(keys, p, KeyEntry(key, <<>>)), p, id)
    BY <1>3
  <2> QED
    BY ONLY <1>2, <1>4, <2>1, key \in Keys, id \in RecIds, KeyForId
<1>6. PICK rest : rest = gap - KeySize
  OBVIOUS
<1>7. rest \in Int /\ gap \in Int /\ KeySize \in Nat \ {0} /\ CellSize \in Nat \ {0}
      /\ Len(more) # 0 /\ more # <<>>
  BY ONLY <1>2, <1>5, <1>6, LeafAssumption
<1>8. new = Taken(more, free, rest, next)
  <2>1. new = AM_InsertToLeafFound(LeafRec(put, free, rest, next), id, p)
    BY ONLY <1>2, <1>3, <1>6, <1>7, new = AM_InsertToLeafNotFound(leaf, key, id, p), NotFoundRecord
  <2> QED
    BY ONLY <1>2, <1>3, <1>7, <2>1, FoundRecord DEF Taken
<1>9. rest + Space(Len(more), Count(keys) + free) = LeafSpace
  <2>1. Count(keys) + free \in Nat
    BY ONLY <1>2, <1>5
  <2>2. Space(Len(keys) + 1, Count(keys) + free) = Space(Len(keys), Count(keys) + free) + KeySize
        /\ Space(Len(keys), Count(keys) + free) \in Nat
    BY ONLY <1>5, <2>1, SpaceIs
  <2> QED
    BY ONLY <1>2, <1>5, <1>6, <1>7, <2>2
<1>10. /\ free = 0 => rest >= CellSize
       /\ free # 0 => rest >= 0 /\ Space(1, Count(keys) + free) < LeafSpace
  <2>1. (free = 0 => gap >= KeySize + CellSize) /\ (free # 0 => gap > KeySize)
    BY <1>1
  <2> QED
    BY ONLY <1>2, <1>6, <1>7, <2>1
<1>11. GoodLeaf(new) /\ new.keys = more /\ new.next = next
  <2>1. /\ GoodKeys(more) /\ free \in Nat /\ next \in Int /\ Count(keys) \in Nat
        /\ Count(more) = Count(keys) + 1 /\ more # <<>> /\ rest \in Int
    BY ONLY <1>2, <1>5, <1>7
  <2>2. RoomBefore(more, free, rest, Count(keys))
    BY ONLY <1>9, <1>10, <2>1 DEF RoomBefore
  <2>3. ListsFit(more)
    <3>1. new.keys = more
      BY ONLY <1>8 DEF Taken, LeafRec
    <3> QED
      BY <3>1
  <2> QED
    BY ONLY <1>8, <2>1, <2>2, <2>3, CellTaken
<1> QED
  BY ONLY <1>1, <1>5, <1>11

(* AM_Compact leaves no free cells, and the room they had.                 *)
GoodPart(keys, low, high, kept) ==
  /\ low \in Int /\ high \in Int /\ low <= high /\ kept = SubSeq(keys, low, high)
  /\ GoodKeys(kept) /\ kept # <<>> /\ Space(Len(kept), Count(kept)) <= LeafSpace

LEMMA Compacted ==
  ASSUME NEW leaf, GoodLeaf(leaf),
         NEW low, NEW high, NEW kept, GoodPart(leaf.keys, low, high, kept), ListsFit(kept),
         NEW anyGap, NEW new, new = AM_Compact(leaf, low, high, anyGap)
  PROVE  /\ GoodLeaf(new) /\ new.keys = kept /\ new.next = leaf.next /\ new.free = 0
         /\ new.gap = LeafSpace - Space(Len(kept), Count(kept))
<1>0. /\ low \in Int /\ high \in Int /\ low <= high /\ kept = SubSeq(leaf.keys, low, high)
      /\ GoodKeys(kept) /\ kept # <<>> /\ Space(Len(kept), Count(kept)) <= LeafSpace
  BY DEF GoodPart
<1>1. PICK keys, free, gap, next :
        keys = leaf.keys /\ free = leaf.free /\ gap = leaf.gap /\ next = leaf.next
  OBVIOUS
<1>2. leaf = LeafRec(keys, free, gap, next) /\ next \in Int
  BY <1>1, GoodLeafIs
<1>3. /\ RoomFor(kept) = Space(Len(kept), Count(kept)) /\ Len(kept) \in Nat /\ Count(kept) \in Nat
      /\ LeafSpace \in Nat
  <2>1. 0 \in Nat
    OBVIOUS
  <2> QED
    BY ONLY <1>0, <2>1, RoomIsSpace, LeafAssumption
<1>4. PICK room : room = LeafSpace - Space(Len(kept), Count(kept))
  OBVIOUS
<1>5. new = LeafRec(kept, 0, room, next)
  <2>1. AM_Compact(LeafRec(keys, free, gap, next), low, high, anyGap) =
          LeafRec(SubSeq(keys, low, high), 0,
                  IF high < low THEN anyGap ELSE LeafSpace - RoomFor(SubSeq(keys, low, high)), next)
    BY ONLY CompactRecord
  <2>2. ~(high < low) /\ kept = SubSeq(keys, low, high)
    BY <1>0, <1>1
  <2>3. AM_Compact(LeafRec(keys, free, gap, next), low, high, anyGap) =
          LeafRec(kept, 0, LeafSpace - RoomFor(kept), next)
    BY ONLY <2>1, <2>2, Zenon
  <2>4. LeafSpace - RoomFor(kept) = room
    BY ONLY <1>3, <1>4
  <2> QED
    BY ONLY <1>2, <2>3, <2>4, new = AM_Compact(leaf, low, high, anyGap), Zenon
<1>6. Count(kept) + 0 = Count(kept) /\ Space(Len(kept), Count(kept)) \in Nat
  BY ONLY <1>3, SpaceIs
<1>7. Space(1, Count(kept)) < LeafSpace
  BY ONLY <1>0, ListsFit(kept), CellsLeaveRoom
<1>8. PICK none : none = 0
  OBVIOUS
<1>9. GoodLeaf(new) /\ new.keys = kept /\ new.next = next
  <2>1. /\ room \in Nat /\ none \in Nat /\ room + Space(Len(kept), Count(kept) + none) = LeafSpace
        /\ Space(1, Count(kept) + none) < LeafSpace
    BY <1>0, <1>3, <1>4, <1>6, <1>7, <1>8
  <2>2. new = LeafRec(kept, none, room, next) /\ GoodKeys(kept) /\ next \in Int
    BY <1>0, <1>2, <1>5, <1>8
  <2> QED
    BY ONLY <2>1, <2>2, LeafIsGood
<1>10. new.free = 0 /\ new.gap = room
  BY ONLY <1>5 DEF LeafRec
<1> QED
  BY ONLY <1>1, <1>4, <1>9, <1>10

(* The whole leaf compacted, when its keys leave too little room.  There   *)
(* are keys then: cells alone leave more.                                  *)
LEMMA AllCompacted ==
  ASSUME NEW leaf, GoodLeaf(leaf), leaf.gap <= KeySize, ListsFit(leaf.keys),
         NEW new, new = AM_Compact(leaf, 1, Len(leaf.keys), 0)
  PROVE  /\ GoodLeaf(new) /\ new.keys = leaf.keys /\ new.next = leaf.next /\ new.free = 0
         /\ new.gap = leaf.gap + leaf.free * CellSize
<1>1. PICK keys, free, gap :
        keys = leaf.keys /\ free = leaf.free /\ gap = leaf.gap
  OBVIOUS
<1>2. /\ free \in Nat /\ gap \in Nat /\ GoodKeys(keys) /\ keys \in Seq(KeyEntries)
      /\ Len(keys) \in Nat /\ Count(keys) \in Nat
      /\ gap + Space(Len(keys), Count(keys) + free) = LeafSpace
      /\ Space(1, Count(keys) + free) < LeafSpace
      /\ KeySize \in Nat \ {0} /\ CellSize \in Nat \ {0} /\ LeafSpace \in Nat /\ gap <= KeySize
  BY <1>1, GoodLeafIs, LeafAssumption
<1>3. Len(keys) # 0
  <2> SUFFICES ASSUME Len(keys) = 0 PROVE FALSE
    OBVIOUS
  <2>1. Count(keys) + free \in Nat /\ gap + Space(0, Count(keys) + free) = LeafSpace
    BY <1>2
  <2>2. /\ Space(0 + 1, Count(keys) + free) = Space(0, Count(keys) + free) + KeySize
        /\ Space(0, Count(keys) + free) \in Nat
    <3>1. 0 \in Nat
      OBVIOUS
    <3> QED
      BY ONLY <2>1, <3>1, SpaceIs
  <2> QED
    BY ONLY <1>2, <2>1, <2>2
<1>4. SubSeq(keys, 1, Len(keys)) = keys /\ keys # <<>>
  BY ONLY <1>2, <1>3
<1>5. /\ Space(Len(keys), Count(keys) + free) = Space(Len(keys), Count(keys)) + free * CellSize
      /\ Space(Len(keys), Count(keys)) \in Nat /\ free * CellSize \in Nat
  <2>1. 0 \in Nat /\ Len(keys) + 0 = Len(keys)
    BY <1>2
  <2>2. Space(Len(keys) + 0, Count(keys) + free) = Space(Len(keys), Count(keys)) + Space(0, free)
    BY ONLY <1>2, <2>1, SpaceAdds
  <2>3. Space(0, free) = free * CellSize /\ Space(0, free) \in Nat
    BY ONLY <1>2 DEF Space
  <2>4. Space(Len(keys), Count(keys)) \in Nat
    BY ONLY <1>2, SpaceIs
  <2> QED
    BY <2>1, <2>2, <2>3, <2>4
<1>6. Space(Len(keys), Count(keys)) <= LeafSpace
      /\ LeafSpace - Space(Len(keys), Count(keys)) = gap + free * CellSize
  BY ONLY <1>2, <1>5
<1>7. /\ GoodLeaf(new) /\ new.keys = keys /\ new.next = leaf.next /\ new.free = 0
      /\ new.gap = LeafSpace - Space(Len(keys), Count(keys))
  <2>1. keys = SubSeq(leaf.keys, 1, Len(leaf.keys))
    BY <1>1, <1>4
  <2>2. 1 \in Int /\ Len(leaf.keys) \in Int /\ 1 <= Len(leaf.keys)
    BY ONLY <1>1, <1>2, <1>3
  <2>3. GoodKeys(keys) /\ keys # <<>> /\ Space(Len(keys), Count(keys)) <= LeafSpace
    BY ONLY <1>2, <1>4, <1>6
  <2>4. GoodPart(leaf.keys, 1, Len(leaf.keys), keys)
    BY ONLY <2>1, <2>2, <2>3 DEF GoodPart
  <2>5. ListsFit(keys)
    BY <1>1
  <2> QED
    BY ONLY <2>4, <2>5, new = AM_Compact(leaf, 1, Len(leaf.keys), 0), GoodLeaf(leaf), Compacted
<1> QED
  BY ONLY <1>1, <1>6, <1>7

(* Where a key is in a leaf, or where it would be.                         *)
KeyPlace(keys, key, at) ==
  /\ at.found \in BOOLEAN
  /\ at.found => at.index \in 1 .. Len(keys) /\ keys[at.index].key = key
  /\ ~at.found => Between(keys, at.index, key)

SortedKeys(keys) ==
  /\ keys \in Seq(KeyEntries)
  /\ \A i, j \in 1 .. Len(keys) : i < j => keys[i].key < keys[j].key

(* AM_SearchLeaf finds it.                                                 *)
LEMMA PlaceAmong ==
  ASSUME NEW leaf, SortedKeys(leaf.keys), NEW key \in Keys
  PROVE  /\ KeyPlace(leaf.keys, key, AM_SearchLeaf(leaf, key))
         /\ AM_SearchLeaf(leaf, key) =
              [found |-> AM_SearchLeaf(leaf, key).found, index |-> AM_SearchLeaf(leaf, key).index]
<1>1. PICK keys, values, at :
        keys = leaf.keys /\ values = KeysOf(leaf) /\ at = AM_SearchLeaf(leaf, key)
  OBVIOUS
<1>2. /\ keys \in Seq(KeyEntries) /\ Len(keys) \in Nat /\ DOMAIN keys = 1 .. Len(keys)
      /\ \A i \in 1 .. Len(keys) : keys[i].key \in Int
      /\ \A i, j \in 1 .. Len(keys) : i < j => keys[i].key < keys[j].key
  <2>1. /\ keys \in Seq(KeyEntries)
        /\ \A i, j \in 1 .. Len(keys) : i < j => keys[i].key < keys[j].key
    BY ONLY <1>1, SortedKeys(leaf.keys) DEF SortedKeys
  <2>2. \A i \in 1 .. Len(keys) : keys[i].key \in Int
    BY ONLY <2>1, ListsOfKeys, LeafAssumption
  <2> QED
    BY ONLY <2>1, <2>2, SeqIs
<1>3. /\ values \in Seq(Int) /\ Len(values) = Len(keys) /\ DOMAIN values = 1 .. Len(keys)
      /\ \A i \in 1 .. Len(keys) : values[i] = keys[i].key
  <2>1. values = [i \in 1 .. Len(keys) |-> keys[i].key]
    BY <1>1, <1>2 DEF KeysOf
  <2>2. values \in [1 .. Len(keys) -> Int]
    BY ONLY <1>2, <2>1
  <2>3. values \in Seq(Int) /\ Len(values) = Len(keys)
    BY ONLY <1>2, <2>2
  <2> QED
    BY ONLY <2>1, <2>3
<1>4. InOrder(values)
  BY ONLY <1>2, <1>3 DEF InOrder
<1>5. key \in Int
  BY LeafAssumption
<1>6. IsPlace(values, key, at)
  <2>1. KeysOf(leaf) \in Seq(Int) /\ InOrder(KeysOf(leaf))
    BY <1>1, <1>3, <1>4
  <2> QED
    BY ONLY <1>1, <1>5, <2>1, SearchFindsPlaceOf
<1>7. KeyPlace(keys, key, at)
  <2>1. /\ at.index \in 1 .. Len(keys) + 1 /\ at.found \in BOOLEAN
        /\ at.found => at.index \in 1 .. Len(keys) /\ values[at.index] = key
        /\ \A i \in 1 .. Len(keys) : i < at.index => values[i] < key
        /\ \A i \in 1 .. Len(keys) : i > at.index \/ (i = at.index /\ ~at.found) => values[i] > key
    BY ONLY <1>3, <1>6 DEF IsPlace
  <2>2. at.found => at.index \in 1 .. Len(keys) /\ keys[at.index].key = key
    BY ONLY <1>3, <2>1
  <2>3. ASSUME ~at.found PROVE Between(keys, at.index, key)
    <3>1. at.index \in Int /\ Len(keys) \in Nat
      BY ONLY <1>2, <2>1
    <3>2. ASSUME NEW i \in 1 .. Len(keys)
          PROVE  (i < at.index => keys[i].key < key) /\ (i >= at.index => keys[i].key > key)
      BY ONLY <1>3, <2>1, <2>3, <3>1
    <3> QED
      BY ONLY <2>1, <3>2 DEF Between
  <2> QED
    BY ONLY <2>1, <2>2, <2>3 DEF KeyPlace
<1>8. \E found, index : at = [found |-> found, index |-> index]
  BY <1>1 DEF AM_SearchLeaf
<1>9. at = [found |-> at.found, index |-> at.index]
  <2>1. PICK found, index : at = [found |-> found, index |-> index]
    BY <1>8
  <2>2. at.found = found /\ at.index = index
    BY ONLY <2>1
  <2> QED
    BY ONLY <2>1, <2>2
<1> QED
  BY <1>1, <1>7, <1>9

LEMMA PlaceFound ==
  ASSUME NEW leaf, GoodKeys(leaf.keys), NEW key \in Keys
  PROVE  /\ KeyPlace(leaf.keys, key, AM_SearchLeaf(leaf, key))
         /\ AM_SearchLeaf(leaf, key) =
              [found |-> AM_SearchLeaf(leaf, key).found, index |-> AM_SearchLeaf(leaf, key).index]
<1>1. SortedKeys(leaf.keys)
  BY GoodKeysAre DEF SortedKeys
<1> QED
  BY <1>1, PlaceAmong

(* AM_InsertintoLeaf: a leaf with room gets the entry, and keeps its       *)
(* others.                                                                 *)
THEOREM LeafInserted ==
  ASSUME NEW leaf, GoodLeaf(leaf), ListsFit(leaf.keys), NEW key \in Keys, NEW id \in RecIds,
         ~Holds(leaf.keys, key, id),
         NEW at, KeyPlace(leaf.keys, key, at), InsertFits(leaf, at.found),
         NEW new, new = AM_InsertintoLeaf(leaf, key, id, at), ListsFit(new.keys)
  PROVE  /\ GoodLeaf(new) /\ new.next = leaf.next /\ Adds(leaf.keys, new.keys, key, id)
<1>1. at.found \in BOOLEAN
  BY DEF KeyPlace
<1>2. CASE at.found
  <2>1. at.index \in 1 .. Len(leaf.keys) /\ leaf.keys[at.index].key = key
    BY <1>2 DEF KeyPlace
  <2>2. new = AM_InsertToLeafFound(leaf, id, at.index)
    BY <1>2 DEF AM_InsertintoLeaf
  <2>3. leaf.free > 0 \/ leaf.gap >= CellSize
    BY <1>2 DEF InsertFits
  <2>4. ~HasId(leaf.keys[at.index].ids, id)
    <3>1. DOMAIN leaf.keys = 1 .. Len(leaf.keys)
      BY GoodLeafIs, GoodKeysAre
    <3> QED
      BY <2>1, <3>1 DEF Holds
  <2>5. PICK p : p = at.index
    OBVIOUS
  <2>6. /\ p \in 1 .. Len(leaf.keys) /\ ~HasId(leaf.keys[p].ids, id)
        /\ new = AM_InsertToLeafFound(leaf, id, p) /\ leaf.keys[p].key = key
    BY <2>1, <2>2, <2>4, <2>5
  <2>7. /\ GoodLeaf(new) /\ new.next = leaf.next
        /\ Adds(leaf.keys, new.keys, leaf.keys[p].key, id)
    BY ONLY <2>3, <2>6, GoodLeaf(leaf), ListsFit(new.keys), id \in RecIds, FoundInserted
  <2> QED
    BY ONLY <2>6, <2>7
<1>3. CASE ~at.found
  <2>1. PICK p : p = at.index
    OBVIOUS
  <2>2. Between(leaf.keys, p, key)
    BY <1>3, <2>1 DEF KeyPlace
  <2>3. /\ leaf.free \in Nat /\ leaf.gap \in Nat
        /\ KeySize \in Nat \ {0} /\ CellSize \in Nat \ {0}
    BY GoodLeafIs, LeafAssumption
  <2>4. IF leaf.free = 0 THEN leaf.gap >= KeySize + CellSize
        ELSE \/ leaf.gap > KeySize
             \/ leaf.free * CellSize + leaf.gap > KeySize + CellSize
    BY <1>3 DEF InsertFits
  <2>5. CASE NeedsCompaction(leaf)
    <3>1. leaf.free > 0 /\ leaf.gap <= KeySize
      BY <2>5 DEF NeedsCompaction
    <3>2. PICK all : all = AM_Compact(leaf, 1, Len(leaf.keys), 0)
      OBVIOUS
    <3>3. /\ GoodLeaf(all) /\ all.keys = leaf.keys /\ all.next = leaf.next /\ all.free = 0
          /\ all.gap = leaf.gap + leaf.free * CellSize
      BY ONLY <3>1, <3>2, GoodLeaf(leaf), ListsFit(leaf.keys), AllCompacted
    <3>4. new = AM_InsertToLeafNotFound(all, key, id, p)
      BY <1>3, <2>1, <2>5, <3>2 DEF AM_InsertintoLeaf
    <3>5. all.free = 0 => all.gap >= KeySize + CellSize
      <4>1. leaf.free * CellSize \in Nat
        BY ONLY <2>3
      <4> QED
        BY ONLY <2>3, <2>4, <3>1, <3>3, <4>1
    <3>6. Between(all.keys, p, key)
      BY <2>2, <3>3
    <3>7. all.free # 0 => all.gap > KeySize
      BY <3>3
    <3>8. /\ GoodLeaf(new) /\ new.next = all.next /\ Adds(all.keys, new.keys, key, id)
      BY ONLY <3>3, <3>4, <3>5, <3>6, <3>7, ListsFit(new.keys), key \in Keys, id \in RecIds, NotFoundInserted
    <3> QED
      BY ONLY <3>3, <3>8
  <2>6. CASE ~NeedsCompaction(leaf)
    <3>1. new = AM_InsertToLeafNotFound(leaf, key, id, p)
      BY <1>3, <2>1, <2>6 DEF AM_InsertintoLeaf
    <3>2. /\ leaf.free = 0 => leaf.gap >= KeySize + CellSize
          /\ leaf.free # 0 => leaf.gap > KeySize
      BY <2>3, <2>4, <2>6 DEF NeedsCompaction
    <3> QED
      BY ONLY <2>2, <3>1, <3>2, GoodLeaf(leaf), ListsFit(new.keys), key \in Keys, id \in RecIds,
              NotFoundInserted
  <2> QED
    BY <2>5, <2>6
<1> QED
  BY <1>1, <1>2, <1>3

(* A leaf with less than two keys has room for any entry.                  *)
LEMMA SmallFits ==
  ASSUME NEW leaf, GoodLeaf(leaf), ListsFit(leaf.keys), Len(leaf.keys) < 2,
         NEW found \in BOOLEAN
  PROVE  InsertFits(leaf, found)
<1>1. PICK keys, free, gap, c :
        keys = leaf.keys /\ free = leaf.free /\ gap = leaf.gap /\ c = Count(keys)
  OBVIOUS
<1>2. /\ free \in Nat /\ gap \in Nat /\ keys \in Seq(KeyEntries)
      /\ Len(keys) \in Nat /\ c \in Nat /\ Len(keys) < 2
      /\ gap + Space(Len(keys), c + free) = LeafSpace /\ Space(1, c + free) < LeafSpace
      /\ KeySize \in Nat \ {0} /\ CellSize \in Nat \ {0} /\ LeafSpace \in Nat
      /\ LeafSpace >= KeySize + CellSize
  BY <1>1, GoodLeafIs, LeafAssumption
<1>3. Len(keys) = 0 \/ Len(keys) = 1
  <2>1. PICK n : n = Len(keys)
    OBVIOUS
  <2>2. n \in Nat /\ n < 2
    BY ONLY <1>2, <2>1
  <2>3. n = 0 \/ n = 1
    BY ONLY <2>2
  <2> QED
    BY ONLY <2>1, <2>3
<1>4. free * CellSize \in Nat
  BY ONLY <1>2
<1>5. free = 0 => free * CellSize = 0
  BY ONLY <1>2
<1>6. CASE Len(keys) = 0
  <2>1. keys = <<>>
    BY ONLY <1>2, <1>6
  <2>2. c = 0
    BY ONLY <1>1, <2>1, CountOfNone
  <2>3. Space(0, free) = free * CellSize /\ Space(1, free) = KeySize + free * CellSize
    BY ONLY <1>2 DEF Space
  <2>4. c + free = free
    BY ONLY <1>2, <2>2
  <2>5. gap + free * CellSize = LeafSpace /\ KeySize + free * CellSize < LeafSpace
    BY ONLY <1>2, <1>6, <2>3, <2>4
  <2>6. gap > KeySize /\ (free = 0 => gap >= KeySize + CellSize)
    BY ONLY <1>2, <1>4, <1>5, <2>5
  <2>7. gap >= CellSize \/ free > 0
    BY ONLY <1>2, <2>6
  <2> QED
    BY ONLY <1>1, <1>2, <2>6, <2>7, found \in BOOLEAN DEF InsertFits
<1>7. CASE Len(keys) = 1
  <2>1. c = Len(keys[1].ids)
    BY ONLY <1>1, <1>2, <1>7, CountOfOne
  <2>2. 1 \in DOMAIN keys
    BY ONLY <1>2, <1>7
  <2>3. LeafSpace > Space(2, c + 1)
    BY <1>1, <2>1, <2>2 DEF ListsFit
  <2>4. Space(2, c + 1) = 2 * KeySize + c * CellSize + CellSize /\ c * CellSize \in Nat
    BY ONLY <1>2 DEF Space
  <2>5. Space(1, c + free) = KeySize + c * CellSize + free * CellSize
    <3>1. (c + free) * CellSize = c * CellSize + free * CellSize
      BY ONLY <1>2
    <3> QED
      BY ONLY <1>2, <1>4, <2>4, <3>1 DEF Space
  <2>6. gap + Space(1, c + free) = LeafSpace
    BY ONLY <1>2, <1>7
  <2>7. free * CellSize + gap > KeySize + CellSize
    BY ONLY <1>2, <1>4, <2>3, <2>4, <2>5, <2>6
  <2>8. free = 0 => gap > KeySize + CellSize
    BY ONLY <1>2, <1>5, <2>7
  <2>9. /\ found => free > 0 \/ gap >= CellSize
        /\ ~found => IF free = 0 THEN gap >= KeySize + CellSize
                     ELSE gap > KeySize \/ free * CellSize + gap > KeySize + CellSize
    BY ONLY <1>2, <2>7, <2>8
  <2> QED
    BY ONLY <1>1, <2>9, found \in BOOLEAN DEF InsertFits
<1> QED
  BY <1>3, <1>6, <1>7

(* DeleteFromLeaf: an entry less, and its cell is free.                    *)
THEOREM LeafDeleted ==
  ASSUME NEW leaf, GoodLeaf(leaf), NEW p \in 1 .. Len(leaf.keys), NEW id,
         Contains(leaf.keys[p].ids, id),
         NEW new, new = DeleteFromLeaf(leaf, id, p)
  PROVE  /\ GoodLeaf(new) /\ new.next = leaf.next
         /\ Removes(leaf.keys, new.keys, leaf.keys[p].key, id)
<1>1. PICK keys, free, gap, next :
        keys = leaf.keys /\ free = leaf.free /\ gap = leaf.gap /\ next = leaf.next
  OBVIOUS
<1>2. /\ leaf = LeafRec(keys, free, gap, next)
      /\ free \in Nat /\ gap \in Nat /\ gap \in Int /\ next \in Int /\ GoodKeys(keys)
      /\ Len(keys) \in Nat /\ Count(keys) \in Nat
      /\ gap + Space(Len(keys), Count(keys) + free) = LeafSpace
      /\ Space(1, Count(keys) + free) < LeafSpace
      /\ KeySize \in Nat \ {0} /\ p \in 1 .. Len(keys)
  BY <1>1, GoodLeafIs, LeafAssumption
<1>3. PICK left, key : left = RemoveFirst(keys[p].ids, id) /\ key = keys[p].key
  OBVIOUS
<1>4. GoodIds(keys[p].ids)
  BY ONLY <1>2, GoodKeysAre
<1>5. /\ left \in Seq(RecIds) /\ Len(left) = Len(keys[p].ids) - 1 /\ Len(keys[p].ids) \in Nat
      /\ left # <<>> => GoodIds(left)
      /\ \A x : HasId(left, x) <=> x # id /\ HasId(keys[p].ids, x)
  <2>1. Contains(keys[p].ids, id)
    BY <1>1
  <2> QED
    BY ONLY <1>3, <1>4, <2>1, IdRemoved
<1>6. new = IF left = <<>> THEN LeafRec(RemoveAt(keys, p), free + 1, gap + KeySize, next)
            ELSE LeafRec(SetIds(keys, p, left), free + 1, gap, next)
  BY ONLY <1>2, <1>3, new = DeleteFromLeaf(leaf, id, p), DeleteRecord
<1>7. ASSUME NEW x
      PROVE  Holds(keys, key, x) <=> HasId(keys[p].ids, x)
  <2>1. DOMAIN keys = 1 .. Len(keys)
    BY <1>2, GoodKeysAre
  <2>2. ASSUME Holds(keys, key, x) PROVE HasId(keys[p].ids, x)
    <3>1. PICK i \in 1 .. Len(keys) : keys[i].key = key /\ HasId(keys[i].ids, x)
      BY <2>1, <2>2 DEF Holds
    <3>2. i = p
      BY ONLY <1>2, <1>3, <3>1, SameKey
    <3> QED
      BY <3>1, <3>2
  <2>3. ASSUME HasId(keys[p].ids, x) PROVE Holds(keys, key, x)
    BY <1>2, <1>3, <2>1, <2>3 DEF Holds
  <2> QED
    BY <2>2, <2>3
<1>8. PICK more : more = free + 1
  OBVIOUS
<1>9. more \in Nat
  BY <1>2, <1>8
<1>10. CASE left = <<>>
  <2>1. Len(keys[p].ids) = 1
    <3>1. Len(left) = 0
      BY <1>10
    <3> QED
      BY ONLY <1>5, <3>1
  <2>2. PICK rest, room : rest = RemoveAt(keys, p) /\ room = gap + KeySize
    OBVIOUS
  <2>3. /\ GoodKeys(rest) /\ Len(rest) = Len(keys) - 1
        /\ Count(keys) = Count(rest) + Len(keys[p].ids) /\ Count(rest) \in Nat
        /\ \A k, x : Holds(rest, k, x) <=> k # keys[p].key /\ Holds(keys, k, x)
    BY ONLY <1>2, <2>2, KeyRemoved
  <2>4. /\ Count(rest) + more = Count(keys) + free /\ Count(keys) + free \in Nat
        /\ Len(rest) \in Nat /\ Len(rest) + 1 = Len(keys) /\ room \in Nat
    BY ONLY <1>2, <1>8, <2>1, <2>2, <2>3
  <2>5. Space(Len(rest) + 1, Count(keys) + free) = Space(Len(rest), Count(keys) + free) + KeySize
        /\ Space(Len(rest), Count(keys) + free) \in Nat
    BY ONLY <2>4, SpaceIs
  <2>6. room + Space(Len(rest), Count(rest) + more) = LeafSpace
    BY ONLY <1>2, <2>2, <2>4, <2>5
  <2>7. Space(1, Count(rest) + more) < LeafSpace
    BY ONLY <1>2, <2>4
  <2>8. new = LeafRec(rest, more, room, next)
    BY <1>6, <1>8, <1>10, <2>2
  <2>9. GoodLeaf(new) /\ new.keys = rest /\ new.next = next
    <3>1. GoodKeys(rest) /\ more \in Nat /\ room \in Nat /\ next \in Int
      BY ONLY <1>2, <1>9, <2>3, <2>4
    <3> QED
      BY ONLY <2>6, <2>7, <2>8, <3>1, LeafIsGood
  <2>10. Removes(keys, rest, key, id)
    <3>1. ASSUME NEW k, NEW x
          PROVE  Holds(rest, k, x) <=> ~(k = key /\ x = id) /\ Holds(keys, k, x)
      <4>1. ~HasId(left, x)
        BY ONLY <1>10 DEF HasId
      <4>2. HasId(keys[p].ids, x) => x = id
        BY ONLY <1>5, <4>1
      <4> QED
        BY ONLY <1>3, <1>7, <2>3, <4>2
    <3> QED
      BY ONLY <3>1 DEF Removes
  <2> QED
    BY ONLY <1>1, <1>3, <2>9, <2>10
<1>11. CASE left # <<>>
  <2>1. PICK rest : rest = SetIds(keys, p, left)
    OBVIOUS
  <2>2. /\ GoodKeys(rest) /\ Len(rest) = Len(keys)
        /\ Count(rest) - Len(left) = Count(keys) - Len(keys[p].ids) /\ Count(rest) \in Nat
        /\ \A k, x : Holds(rest, k, x) <=> \/ k = keys[p].key /\ HasId(left, x)
                                           \/ k # keys[p].key /\ Holds(keys, k, x)
    <3>1. GoodIds(left) /\ GoodKeys(keys) /\ p \in 1 .. Len(keys)
      BY ONLY <1>2, <1>5, <1>11
    <3>2. Len(left) \in Nat /\ Count(keys) \in Nat /\ Len(keys[p].ids) \in Nat
      BY ONLY <1>2, <1>5
    <3> QED
      BY ONLY <2>1, <3>1, <3>2, IdsChanged
  <2>3. Count(rest) + more = Count(keys) + free
    <3>1. Len(left) \in Nat /\ Len(left) = Len(keys[p].ids) - 1 /\ Len(keys[p].ids) \in Nat
      BY <1>5
    <3>2. Count(rest) - Len(left) = Count(keys) - Len(keys[p].ids) /\ Count(rest) \in Nat
      BY ONLY <2>2
    <3>3. Count(keys) \in Nat /\ free \in Nat
      BY ONLY <1>2
    <3>4. PICK a, b, c, d : a = Len(left) /\ b = Len(keys[p].ids) /\ c = Count(rest) /\ d = Count(keys)
      OBVIOUS
    <3>5. /\ a \in Nat /\ b \in Nat /\ c \in Nat /\ d \in Nat /\ a = b - 1 /\ c - a = d - b
      BY ONLY <3>1, <3>2, <3>3, <3>4
    <3>6. c + more = d + free
      BY ONLY <1>8, <3>3, <3>5
    <3> QED
      BY ONLY <3>4, <3>6
  <2>4. /\ gap + Space(Len(rest), Count(rest) + more) = LeafSpace
        /\ Space(1, Count(rest) + more) < LeafSpace
    BY ONLY <1>2, <2>2, <2>3
  <2>5. new = LeafRec(rest, more, gap, next)
    BY <1>6, <1>8, <1>11, <2>1
  <2>6. GoodLeaf(new) /\ new.keys = rest /\ new.next = next
    <3>1. GoodKeys(rest) /\ more \in Nat /\ gap \in Nat /\ next \in Int
      BY ONLY <1>2, <1>9, <2>2
    <3> QED
      BY ONLY <2>4, <2>5, <3>1, LeafIsGood
  <2>7. Removes(keys, rest, key, id)
    <3>1. ASSUME NEW k, NEW x
          PROVE  Holds(rest, k, x) <=> ~(k = key /\ x = id) /\ Holds(keys, k, x)
      BY ONLY <1>3, <1>5, <1>7, <2>2
    <3> QED
      BY ONLY <3>1 DEF Removes
  <2> QED
    BY ONLY <1>1, <1>3, <2>6, <2>7
<1> QED
  BY <1>10, <1>11

(* A part of the keys leaves room for an entry, as the other part has one. *)
LEMMA PartLeavesRoom ==
  ASSUME NEW n \in Nat, NEW c \in Nat, NEW m \in Nat \ {0}, NEW d \in Nat \ {0}, NEW free \in Nat,
         Space(n + m, (c + d) + free) <= LeafSpace
  PROVE  Space(n, c) + KeySize + CellSize <= LeafSpace /\ Space(n, c) \in Nat
<1>1. Space(n + m, c + (d + free)) = Space(n, c) + Space(m, d + free)
  BY SpaceAdds
<1>2. PICK one, e : one = 1 /\ e = d + free
  OBVIOUS
<1>3. one \in Nat /\ e \in Nat /\ one <= m /\ one <= e /\ c + e = (c + d) + free
  BY <1>2
<1>4. Space(one, one) <= Space(m, e) /\ Space(one, one) \in Nat /\ Space(m, e) \in Nat
  BY ONLY <1>3, m \in Nat, SpaceGrows
<1>5. Space(n, c) \in Nat
  BY SpaceIs
<1>6. Space(n + m, (c + d) + free) = Space(n, c) + Space(m, e)
  BY <1>1, <1>2, <1>3
<1>7. Space(one, one) = KeySize + CellSize /\ KeySize \in Nat /\ CellSize \in Nat /\ LeafSpace \in Nat
  BY <1>2, SpaceOne, LeafAssumption
<1> QED
  BY ONLY <1>4, <1>5, <1>6, <1>7, Space(n + m, (c + d) + free) <= LeafSpace

(* A leaf with two keys at least, cut in half.                             *)
Cut(leaf, half, lower, upper, anyGap) ==
  /\ half \in 1 .. Len(leaf.keys) - 1
  /\ lower = AM_Compact(leaf, 1, half, anyGap)
  /\ upper = AM_Compact(leaf, half + 1, Len(leaf.keys), anyGap)

(* A leaf that has room for any entry.                                     *)
Roomy(leaf) == leaf.free = 0 /\ leaf.gap >= KeySize + CellSize

LEMMA RoomyFits ==
  ASSUME NEW leaf, Roomy(leaf), GoodLeaf(leaf), NEW found \in BOOLEAN
  PROVE  InsertFits(leaf, found)
<1>1. leaf.free = 0 /\ leaf.gap >= KeySize + CellSize /\ leaf.gap \in Nat
  BY GoodLeafIs DEF Roomy
<1>2. leaf.gap >= CellSize
  BY <1>1, LeafAssumption
<1> QED
  BY <1>1, <1>2 DEF InsertFits

(* The halves have room, and the keys between them.                        *)
LEMMA LeafCut ==
  ASSUME NEW leaf, GoodLeaf(leaf), ListsFit(leaf.keys),
         NEW half, NEW lower, NEW upper, NEW anyGap, Cut(leaf, half, lower, upper, anyGap)
  PROVE  /\ GoodLeaf(lower) /\ lower.next = leaf.next /\ Roomy(lower)
         /\ GoodLeaf(upper) /\ upper.next = leaf.next /\ Roomy(upper)
         /\ ListsFit(lower.keys) /\ ListsFit(upper.keys)
         /\ Len(lower.keys) = half /\ Len(upper.keys) = Len(leaf.keys) - half
         /\ \A i \in 1 .. half : lower.keys[i] = leaf.keys[i]
         /\ \A i \in 1 .. Len(leaf.keys) - half : upper.keys[i] = leaf.keys[half + i]
         /\ \A k, x : Holds(leaf.keys, k, x) <=> Holds(lower.keys, k, x) \/ Holds(upper.keys, k, x)
<1>1. PICK keys, n, free, low, up :
        /\ keys = leaf.keys /\ n = Len(keys) /\ free = leaf.free
        /\ low = SubSeq(keys, 1, half) /\ up = SubSeq(keys, half + 1, n)
  OBVIOUS
<1>2. /\ free \in Nat /\ GoodKeys(keys) /\ n \in Nat /\ Count(keys) \in Nat /\ leaf.gap \in Nat
      /\ leaf.gap + Space(n, Count(keys) + free) = LeafSpace
      /\ LeafSpace \in Nat /\ KeySize \in Nat \ {0} /\ CellSize \in Nat \ {0}
  BY <1>1, GoodLeafIs, LeafAssumption
<1>3. half \in 1 .. Len(keys) - 1 /\ half \in Nat \ {0} /\ n - half \in Nat \ {0} /\ n = half + (n - half)
  BY <1>1, <1>2 DEF Cut
<1>4. /\ GoodKeys(low) /\ Len(low) = half
      /\ GoodKeys(up) /\ Len(up) = n - half
      /\ \A i \in 1 .. half : low[i] = keys[i]
      /\ \A i \in 1 .. n - half : up[i] = keys[half + i]
      /\ Count(keys) = Count(low) + Count(up)
      /\ Count(low) \in Nat \ {0} /\ Count(up) \in Nat \ {0}
      /\ \A k, x : Holds(keys, k, x) <=> Holds(low, k, x) \/ Holds(up, k, x)
  <2>1. CutAt(keys, half, low, up)
    BY ONLY <1>1, <1>3 DEF CutAt
  <2>2. /\ GoodKeys(low) /\ Len(low) = half
        /\ GoodKeys(up) /\ Len(up) = Len(keys) - half
        /\ \A i \in 1 .. half : low[i] = keys[i]
        /\ \A i \in 1 .. Len(keys) - half : up[i] = keys[half + i]
        /\ Count(keys) = Count(low) + Count(up)
        /\ Count(low) \in Nat \ {0} /\ Count(up) \in Nat \ {0}
        /\ \A k, x : Holds(keys, k, x) <=> Holds(low, k, x) \/ Holds(up, k, x)
    BY ONLY <1>2, <2>1, KeysParted
  <2> QED
    BY ONLY <1>1, <2>2
<1>5. PICK c, d, m : c = Count(low) /\ d = Count(up) /\ m = n - half
  OBVIOUS
<1>6. /\ c \in Nat \ {0} /\ d \in Nat \ {0} /\ m \in Nat \ {0} /\ half \in Nat \ {0} /\ n = half + m
      /\ n = m + half /\ Count(keys) = c + d /\ Count(keys) = d + c
  BY ONLY <1>3, <1>4, <1>5
<1>7. Space(half + m, (c + d) + free) <= LeafSpace /\ Space(m + half, (d + c) + free) <= LeafSpace
  <2>1. Space(n, Count(keys) + free) \in Nat
    <3>1. Count(keys) + free \in Nat
      BY ONLY <1>2
    <3> QED
      BY ONLY <1>2, <3>1, SpaceIs
  <2>2. Space(n, Count(keys) + free) <= LeafSpace
    BY ONLY <1>2, <2>1
  <2> QED
    BY ONLY <1>6, <2>2
<1>8. Space(half, c) + KeySize + CellSize <= LeafSpace /\ Space(half, c) \in Nat
  <2>1. half \in Nat /\ c \in Nat
    BY <1>6
  <2> QED
    BY ONLY <1>2, <1>6, <1>7, <2>1, PartLeavesRoom
<1>9. Space(m, d) + KeySize + CellSize <= LeafSpace /\ Space(m, d) \in Nat
  <2>1. m \in Nat /\ d \in Nat
    BY <1>6
  <2> QED
    BY ONLY <1>2, <1>6, <1>7, <2>1, PartLeavesRoom
<1>10. GoodPart(leaf.keys, 1, half, low)
  <2>1. low = SubSeq(leaf.keys, 1, half)
    BY <1>1
  <2>2. Space(Len(low), Count(low)) <= LeafSpace
    <3>1. Space(half, c) <= LeafSpace
      BY ONLY <1>2, <1>8
    <3> QED
      BY ONLY <1>4, <1>5, <3>1
  <2>3. low # <<>>
    <3>1. Len(low) # 0
      BY <1>3, <1>4
    <3> QED
      BY ONLY <3>1
  <2>4. half \in Int /\ 1 <= half /\ 1 \in Int /\ GoodKeys(low)
    BY ONLY <1>3, <1>4
  <2> QED
    BY ONLY <2>1, <2>2, <2>3, <2>4 DEF GoodPart
<1>11. GoodPart(leaf.keys, half + 1, Len(leaf.keys), up)
  <2>1. up = SubSeq(leaf.keys, half + 1, Len(leaf.keys))
    BY <1>1
  <2>2. Space(Len(up), Count(up)) <= LeafSpace
    <3>1. Space(m, d) <= LeafSpace
      BY ONLY <1>2, <1>9
    <3> QED
      BY ONLY <1>4, <1>5, <3>1
  <2>3. up # <<>>
    <3>1. Len(up) # 0
      BY <1>3, <1>4
    <3> QED
      BY ONLY <3>1
  <2>4. half + 1 \in Int /\ n \in Int /\ half + 1 <= n
    BY ONLY <1>2, <1>3
  <2> QED
    BY ONLY <1>1, <1>4, <2>1, <2>2, <2>3, <2>4 DEF GoodPart
<1>12. ListsFit(low) /\ ListsFit(up)
  <2>1. \A i \in 1 .. n : LeafSpace > Space(2, Len(keys[i].ids) + 1)
    <3>1. DOMAIN keys = 1 .. n
      BY <1>1, <1>2, GoodKeysAre
    <3> QED
      BY <1>1, <3>1 DEF ListsFit
  <2>2. DOMAIN low = 1 .. half /\ DOMAIN up = 1 .. n - half
    BY ONLY <1>4, GoodKeysAre
  <2>3. ASSUME NEW i \in 1 .. half PROVE LeafSpace > Space(2, Len(low[i].ids) + 1)
    <3>1. i \in 1 .. n /\ low[i] = keys[i]
      BY ONLY <1>2, <1>3, <1>4, i \in 1 .. half
    <3> QED
      BY ONLY <2>1, <3>1
  <2>4. ASSUME NEW i \in 1 .. n - half PROVE LeafSpace > Space(2, Len(up[i].ids) + 1)
    <3>1. half + i \in 1 .. n /\ up[i] = keys[half + i]
      BY ONLY <1>2, <1>3, <1>4, i \in 1 .. n - half
    <3> QED
      BY ONLY <2>1, <3>1
  <2> QED
    BY ONLY <2>2, <2>3, <2>4 DEF ListsFit
<1>13. /\ GoodLeaf(lower) /\ lower.keys = low /\ lower.next = leaf.next /\ lower.free = 0
       /\ lower.gap = LeafSpace - Space(Len(low), Count(low))
  BY ONLY <1>10, <1>12, GoodLeaf(leaf), Cut(leaf, half, lower, upper, anyGap), Compacted DEF Cut
<1>14. /\ GoodLeaf(upper) /\ upper.keys = up /\ upper.next = leaf.next /\ upper.free = 0
       /\ upper.gap = LeafSpace - Space(Len(up), Count(up))
  BY ONLY <1>11, <1>12, GoodLeaf(leaf), Cut(leaf, half, lower, upper, anyGap), Compacted DEF Cut
<1>15. Roomy(lower) /\ Roomy(upper)
  <2>1. lower.gap = LeafSpace - Space(half, c) /\ upper.gap = LeafSpace - Space(m, d)
    BY ONLY <1>4, <1>5, <1>13, <1>14
  <2>2. LeafSpace - Space(half, c) >= KeySize + CellSize /\ LeafSpace - Space(m, d) >= KeySize + CellSize
    BY ONLY <1>2, <1>8, <1>9
  <2> QED
    BY ONLY <1>13, <1>14, <2>1, <2>2 DEF Roomy
<1> QED
  BY ONLY <1>1, <1>4, <1>13, <1>14, <1>15, <1>12

(* Some entries of two leaves: all keys of the first are smaller.          *)
Split(keys, low, up, key, id) ==
  /\ \A k, x : Holds(low, k, x) \/ Holds(up, k, x) <=> (k = key /\ x = id) \/ Holds(keys, k, x)
  /\ \E m \in Keys : /\ \A k, x : Holds(low, k, x) => k <= m
                     /\ \A k, x : Holds(up, k, x) => k > m

(* The place in the half where it is.                                      *)
PlaceInHalf(at, half) == IF at.index <= half THEN at ELSE [at EXCEPT !.index = @ - half]

LEMMA PlaceOfHalf ==
  ASSUME NEW keys, GoodKeys(keys), NEW half \in 1 .. Len(keys) - 1,
         NEW low, Len(low) = half, \A i \in 1 .. half : low[i] = keys[i],
         NEW up, Len(up) = Len(keys) - half, \A i \in 1 .. Len(keys) - half : up[i] = keys[half + i],
         NEW key \in Keys, NEW at, KeyPlace(keys, key, at),
         at = [found |-> at.found, index |-> at.index]
  PROVE  /\ at.index <= half => /\ KeyPlace(low, key, PlaceInHalf(at, half))
                                /\ key <= keys[half].key
         /\ ~(at.index <= half) => /\ KeyPlace(up, key, PlaceInHalf(at, half))
                                   /\ key > keys[half].key
         /\ PlaceInHalf(at, half).found = at.found /\ at.found \in BOOLEAN
<1>1. PICK found, index, n : found = at.found /\ index = at.index /\ n = Len(keys)
  OBVIOUS
<1>2. /\ n \in Nat /\ half \in 1 .. n - 1 /\ key \in Int
      /\ \A i \in 1 .. n : keys[i].key \in Int
      /\ \A i, j \in 1 .. n : i < j => keys[i].key < keys[j].key
  BY <1>1, GoodKeysAre, LeafAssumption
<1>3. /\ found \in BOOLEAN
      /\ found => index \in 1 .. n /\ keys[index].key = key
      /\ ~found => /\ index \in 1 .. n + 1
                   /\ \A i \in 1 .. n : (i < index => keys[i].key < key) /\ (i >= index => keys[i].key > key)
  BY <1>1 DEF KeyPlace, Between
<1>4. index \in Int /\ at = [found |-> found, index |-> index]
  BY <1>1, <1>2, <1>3
<1>5. CASE index <= half
  <2>1. PlaceInHalf(at, half) = at
    BY <1>1, <1>5 DEF PlaceInHalf
  <2>2. KeyPlace(low, key, at)
    <3>1. found => index \in 1 .. half /\ low[index].key = key
      BY <1>2, <1>3, <1>4, <1>5
    <3>2. ~found => /\ index \in 1 .. half + 1
                    /\ \A i \in 1 .. half : (i < index => low[i].key < key) /\ (i >= index => low[i].key > key)
      <4> SUFFICES ASSUME ~found
                   PROVE  /\ index \in 1 .. half + 1
                          /\ \A i \in 1 .. half : (i < index => low[i].key < key) /\ (i >= index => low[i].key > key)
        OBVIOUS
      <4>1. index \in 1 .. half + 1
        BY <1>2, <1>3, <1>4, <1>5
      <4>2. ASSUME NEW i \in 1 .. half
            PROVE  (i < index => low[i].key < key) /\ (i >= index => low[i].key > key)
        <5>1. i \in 1 .. n
          BY <1>2
        <5> QED
          BY <1>3, <5>1
      <4> QED
        BY <4>1, <4>2
    <3> QED
      BY ONLY <1>1, <1>3, <3>1, <3>2, Len(low) = half DEF KeyPlace, Between
  <2>3. key <= keys[half].key
    <3>1. half \in 1 .. n /\ half \in Int
      BY <1>2
    <3>2. CASE found
      <4>1. index \in 1 .. n /\ keys[index].key = key /\ keys[index].key \in Int /\ keys[half].key \in Int
        BY <1>2, <1>3, <3>1, <3>2
      <4>2. index = half \/ index < half
        BY <1>4, <1>5, <3>1
      <4>3. index < half => keys[index].key < keys[half].key
        BY ONLY <1>2, <3>1, <4>1
      <4> QED
        BY ONLY <1>2, <4>1, <4>2, <4>3
    <3>3. CASE ~found
      <4>1. keys[half].key > key /\ keys[half].key \in Int
        BY <1>2, <1>3, <1>4, <1>5, <3>1, <3>3
      <4> QED
        BY ONLY <1>2, <4>1
    <3> QED
      BY <1>3, <3>2, <3>3
  <2> QED
    BY ONLY <1>1, <1>3, <1>5, <2>1, <2>2, <2>3
<1>6. CASE ~(index <= half)
  <2>1. PICK place : place = [found |-> found, index |-> index - half]
    OBVIOUS
  <2>2. PlaceInHalf(at, half) = place /\ place.found = found /\ place.index = index - half
    <3>1. [at EXCEPT !.index = index - half] = place
      BY ONLY <1>4, <2>1
    <3>2. PlaceInHalf(at, half) = [at EXCEPT !.index = index - half]
      BY <1>1, <1>6 DEF PlaceInHalf
    <3> QED
      BY <2>1, <3>1, <3>2
  <2>3. found => index - half \in 1 .. n - half /\ up[index - half].key = key
    <3> SUFFICES ASSUME found PROVE index - half \in 1 .. n - half /\ up[index - half].key = key
      OBVIOUS
    <3>1. index \in 1 .. n /\ keys[index].key = key
      BY <1>3
    <3>2. index - half \in 1 .. n - half /\ half + (index - half) = index
      BY ONLY <1>2, <1>6, <3>1
    <3>3. up[index - half] = keys[half + (index - half)]
      BY <1>1, <3>2
    <3> QED
      BY <3>1, <3>2, <3>3
  <2>4. ~found => /\ index - half \in 1 .. (n - half) + 1
                  /\ \A i \in 1 .. n - half :
                       (i < index - half => up[i].key < key) /\ (i >= index - half => up[i].key > key)
    <3> SUFFICES ASSUME ~found
                 PROVE  /\ index - half \in 1 .. (n - half) + 1
                        /\ \A i \in 1 .. n - half :
                             (i < index - half => up[i].key < key) /\ (i >= index - half => up[i].key > key)
      OBVIOUS
    <3>1. index \in 1 .. n + 1
      BY <1>3
    <3>2. index - half \in 1 .. (n - half) + 1
      BY ONLY <1>2, <1>6, <3>1
    <3>3. ASSUME NEW i \in 1 .. n - half
          PROVE  (i < index - half => up[i].key < key) /\ (i >= index - half => up[i].key > key)
      <4>1. PICK j : j = half + i
        OBVIOUS
      <4>2. /\ j \in 1 .. n /\ (i < index - half => j < index) /\ (i >= index - half => j >= index)
        BY ONLY <1>2, <3>1, <4>1, i \in 1 .. n - half
      <4>3. (j < index => keys[j].key < key) /\ (j >= index => keys[j].key > key)
        BY <1>3, <4>2
      <4>4. up[i] = keys[j]
        BY <1>1, <4>1
      <4> QED
        BY ONLY <4>2, <4>3, <4>4
    <3> QED
      BY <3>2, <3>3
  <2>5. KeyPlace(up, key, place)
    <3>1. Len(up) = n - half
      BY <1>1
    <3> QED
      BY ONLY <1>3, <2>2, <2>3, <2>4, <3>1 DEF KeyPlace, Between
  <2>6. key > keys[half].key
    <3>1. half \in 1 .. n /\ half \in Int /\ half < index
      BY <1>2, <1>4, <1>6
    <3>2. CASE found
      BY <1>2, <1>3, <3>1, <3>2
    <3>3. CASE ~found
      <4>1. keys[half].key < key /\ keys[half].key \in Int
        BY <1>2, <1>3, <3>1, <3>3
      <4> QED
        BY ONLY <1>2, <4>1
    <3> QED
      BY <1>3, <3>2, <3>3
  <2> QED
    BY ONLY <1>1, <1>3, <1>6, <2>2, <2>5, <2>6
<1> QED
  BY <1>5, <1>6

(* AM_SplitLeaf: the entry goes into one of the halves, each of which has  *)
(* room for it.                                                            *)
THEOREM LeafSplit ==
  ASSUME NEW leaf, GoodLeaf(leaf), ListsFit(leaf.keys), NEW key \in Keys, NEW id \in RecIds,
         ~Holds(leaf.keys, key, id),
         NEW at, KeyPlace(leaf.keys, key, at), at = [found |-> at.found, index |-> at.index],
         NEW half, NEW lower, NEW upper, NEW anyGap, Cut(leaf, half, lower, upper, anyGap),
         NEW low, low = IF at.index <= half
                        THEN AM_InsertintoLeaf(lower, key, id, PlaceInHalf(at, half)) ELSE lower,
         NEW up, up = IF at.index <= half
                      THEN upper ELSE AM_InsertintoLeaf(upper, key, id, PlaceInHalf(at, half)),
         ListsFit(low.keys), ListsFit(up.keys)
  PROVE  /\ GoodLeaf(low) /\ low.next = leaf.next
         /\ GoodLeaf(up) /\ up.next = leaf.next
         /\ Split(leaf.keys, low.keys, up.keys, key, id)
         /\ low.keys # <<>> /\ up.keys # <<>>
<1>1. /\ GoodLeaf(lower) /\ lower.next = leaf.next /\ Roomy(lower)
      /\ GoodLeaf(upper) /\ upper.next = leaf.next /\ Roomy(upper)
      /\ ListsFit(lower.keys) /\ ListsFit(upper.keys)
      /\ Len(lower.keys) = half /\ Len(upper.keys) = Len(leaf.keys) - half
      /\ \A i \in 1 .. half : lower.keys[i] = leaf.keys[i]
      /\ \A i \in 1 .. Len(leaf.keys) - half : upper.keys[i] = leaf.keys[half + i]
      /\ \A k, x : Holds(leaf.keys, k, x) <=> Holds(lower.keys, k, x) \/ Holds(upper.keys, k, x)
  BY LeafCut
<1>2. /\ GoodKeys(leaf.keys) /\ half \in 1 .. Len(leaf.keys) - 1 /\ Len(leaf.keys) \in Nat
      /\ GoodKeys(lower.keys) /\ GoodKeys(upper.keys)
  BY <1>1, GoodLeafIs DEF Cut
<1>3. PICK place : place = PlaceInHalf(at, half)
  OBVIOUS
<1>4. /\ at.index <= half => KeyPlace(lower.keys, key, place) /\ key <= leaf.keys[half].key
      /\ ~(at.index <= half) => KeyPlace(upper.keys, key, place) /\ key > leaf.keys[half].key
      /\ place.found \in BOOLEAN
  <2>1. PICK keys, lows, ups : keys = leaf.keys /\ lows = lower.keys /\ ups = upper.keys
    OBVIOUS
  <2>2. /\ GoodKeys(keys) /\ half \in 1 .. Len(keys) - 1 /\ Len(lows) = half
        /\ \A i \in 1 .. half : lows[i] = keys[i]
        /\ Len(ups) = Len(keys) - half /\ \A i \in 1 .. Len(keys) - half : ups[i] = keys[half + i]
        /\ KeyPlace(keys, key, at)
    BY <1>1, <1>2, <2>1
  <2>3. /\ at.index <= half => KeyPlace(lows, key, place) /\ key <= keys[half].key
        /\ ~(at.index <= half) => KeyPlace(ups, key, place) /\ key > keys[half].key
        /\ place.found \in BOOLEAN
    BY ONLY <1>3, <2>2, key \in Keys, at = [found |-> at.found, index |-> at.index], PlaceOfHalf
  <2> QED
    BY ONLY <2>1, <2>3
<1>5. PICK m : m = leaf.keys[half].key
  OBVIOUS
<1>6. /\ m \in Keys /\ m \in Int
      /\ \A k, x : Holds(lower.keys, k, x) => k \in Int /\ k <= m
      /\ \A k, x : Holds(upper.keys, k, x) => k \in Int /\ k > m
  <2>1. PICK keys, n : keys = leaf.keys /\ n = Len(keys)
    OBVIOUS
  <2>2. /\ n \in Nat /\ half \in 1 .. n - 1 /\ \A i \in 1 .. n : keys[i].key \in Int /\ keys[i].key \in Keys
        /\ \A i, j \in 1 .. n : i < j => keys[i].key < keys[j].key
    BY ONLY <1>2, <2>1, GoodKeysAre
  <2>3. m = keys[half].key /\ half \in 1 .. n
    BY <1>5, <2>1, <2>2
  <2>4. ASSUME NEW k, NEW x, Holds(lower.keys, k, x) PROVE k \in Int /\ k <= m
    <3>1. DOMAIN lower.keys = 1 .. half
      BY ONLY <1>1, <1>2, GoodKeysAre
    <3>2. PICK i \in 1 .. half : keys[i].key = k
      BY ONLY <1>1, <2>1, <2>4, <3>1 DEF Holds
    <3>3. i \in 1 .. n /\ (i < half \/ i = half)
      BY ONLY <2>2, <3>2
    <3> QED
      BY ONLY <2>2, <2>3, <3>2, <3>3
  <2>5. ASSUME NEW k, NEW x, Holds(upper.keys, k, x) PROVE k \in Int /\ k > m
    <3>1. DOMAIN upper.keys = 1 .. n - half
      BY ONLY <1>1, <1>2, <2>1, GoodKeysAre
    <3>2. PICK i \in 1 .. n - half : keys[half + i].key = k
      BY ONLY <1>1, <2>1, <2>5, <3>1 DEF Holds
    <3>3. PICK j : j = half + i
      OBVIOUS
    <3>4. j \in 1 .. n /\ half < j
      BY ONLY <2>2, <3>3, i \in 1 .. n - half
    <3> QED
      BY ONLY <2>2, <2>3, <3>2, <3>3, <3>4
  <2> QED
    BY ONLY <2>2, <2>3, <2>4, <2>5
<1>7. key \in Int
  BY LeafAssumption
<1>8. CASE at.index <= half
  <2>1. low = AM_InsertintoLeaf(lower, key, id, place) /\ up = upper
    BY <1>3, <1>8
  <2>2. ~Holds(lower.keys, key, id)
    BY <1>1
  <2>3. InsertFits(lower, place.found)
    BY ONLY <1>1, <1>4, RoomyFits
  <2>4. KeyPlace(lower.keys, key, place) /\ key <= m
    BY <1>4, <1>5, <1>8
  <2>5. GoodLeaf(low) /\ low.next = lower.next /\ Adds(lower.keys, low.keys, key, id)
    BY ONLY <1>1, <2>1, <2>2, <2>3, <2>4, ListsFit(low.keys), key \in Keys, id \in RecIds, LeafInserted
  <2>6. Split(leaf.keys, low.keys, up.keys, key, id)
    <3>1. \A k, x : Holds(low.keys, k, x) <=> (k = key /\ x = id) \/ Holds(lower.keys, k, x)
      BY ONLY <2>5 DEF Adds
    <3>2. \A k, x : Holds(low.keys, k, x) \/ Holds(up.keys, k, x)
                      <=> (k = key /\ x = id) \/ Holds(leaf.keys, k, x)
      BY ONLY <1>1, <2>1, <3>1
    <3>3. \A k, x : Holds(low.keys, k, x) => k <= m
      BY ONLY <1>6, <2>4, <3>1
    <3>4. \A k, x : Holds(up.keys, k, x) => k > m
      BY ONLY <1>6, <2>1
    <3> QED
      BY ONLY <1>6, <3>2, <3>3, <3>4 DEF Split
  <2>7. up.keys # <<>>
    <3>1. Len(up.keys) # 0
      BY <1>1, <1>2, <2>1
    <3> QED
      BY ONLY <3>1
  <2>8. low.keys # <<>>
    <3>1. Holds(low.keys, key, id)
      BY ONLY <2>5 DEF Adds
    <3> QED
      BY ONLY <3>1 DEF Holds
  <2> QED
    BY <1>1, <2>1, <2>5, <2>6, <2>7, <2>8
<1>9. CASE ~(at.index <= half)
  <2>1. up = AM_InsertintoLeaf(upper, key, id, place) /\ low = lower
    BY <1>3, <1>9
  <2>2. ~Holds(upper.keys, key, id)
    BY <1>1
  <2>3. InsertFits(upper, place.found)
    BY ONLY <1>1, <1>4, RoomyFits
  <2>4. KeyPlace(upper.keys, key, place) /\ key > m
    BY <1>4, <1>5, <1>9
  <2>5. GoodLeaf(up) /\ up.next = upper.next /\ Adds(upper.keys, up.keys, key, id)
    BY ONLY <1>1, <2>1, <2>2, <2>3, <2>4, ListsFit(up.keys), key \in Keys, id \in RecIds, LeafInserted
  <2>6. \A k, x : Holds(up.keys, k, x) <=> (k = key /\ x = id) \/ Holds(upper.keys, k, x)
    BY ONLY <2>5 DEF Adds
  <2>7. Split(leaf.keys, low.keys, up.keys, key, id)
    <3>2. \A k, x : Holds(low.keys, k, x) \/ Holds(up.keys, k, x)
                      <=> (k = key /\ x = id) \/ Holds(leaf.keys, k, x)
      BY ONLY <1>1, <2>1, <2>6
    <3>3. \A k, x : Holds(low.keys, k, x) => k <= m
      BY ONLY <1>6, <2>1
    <3>4. \A k, x : Holds(up.keys, k, x) => k > m
      BY ONLY <1>6, <2>4, <2>6
    <3> QED
      BY ONLY <1>6, <3>2, <3>3, <3>4 DEF Split
  <2>8. up.keys # <<>>
    <3>1. Holds(up.keys, key, id)
      BY ONLY <2>6
    <3> QED
      BY ONLY <3>1 DEF Holds
  <2>9. low.keys # <<>>
    <3>1. Len(low.keys) # 0
      BY <1>1, <1>2, <2>1
    <3> QED
      BY ONLY <3>1
  <2> QED
    BY <1>1, <2>1, <2>5, <2>7, <2>8, <2>9
<1> QED
  BY <1>8, <1>9

(* A leaf linked to another one.                                           *)
LEMMA LeafLinked ==
  ASSUME NEW leaf, GoodLeaf(leaf), NEW next \in Int,
         NEW new, new = [leaf EXCEPT !.next = next]
  PROVE  GoodLeaf(new) /\ new.keys = leaf.keys /\ new.next = next
<1>1. leaf \in LeafRecords
  BY DEF GoodLeaf
<1>2. /\ new \in LeafRecords /\ new.keys = leaf.keys /\ new.free = leaf.free
      /\ new.gap = leaf.gap /\ new.next = next
  BY <1>1 DEF LeafRecords
<1> QED
  BY <1>2 DEF GoodLeaf, Cells

(* The first key is the smallest one.                                      *)
LEMMA FirstKey ==
  ASSUME NEW keys, GoodKeys(keys), keys # <<>>
  PROVE  /\ keys[1].key \in Keys /\ keys[1].key \in Int
         /\ \E x : Holds(keys, keys[1].key, x)
         /\ \A k, x : Holds(keys, k, x) => k \in Keys /\ x \in RecIds /\ k >= keys[1].key
<1>1. /\ keys \in Seq(KeyEntries) /\ Len(keys) \in Nat /\ DOMAIN keys = 1 .. Len(keys)
      /\ \A i \in 1 .. Len(keys) : keys[i].key \in Int /\ keys[i].key \in Keys /\ GoodIds(keys[i].ids)
      /\ \A i, j \in 1 .. Len(keys) : i < j => keys[i].key < keys[j].key
  BY GoodKeysAre
<1>2. 1 \in 1 .. Len(keys)
  BY <1>1
<1>3. \E x : Holds(keys, keys[1].key, x)
  <2>1. keys[1].ids \in Seq(RecIds) /\ keys[1].ids # <<>>
    BY <1>1, <1>2 DEF GoodIds
  <2>2. 1 \in DOMAIN keys[1].ids
    BY ONLY <2>1
  <2> QED
    BY <1>1, <1>2, <2>2 DEF Holds, HasId
<1>4. ASSUME NEW k, NEW x, Holds(keys, k, x)
      PROVE  k \in Keys /\ x \in RecIds /\ k >= keys[1].key
  <2>1. PICK i \in 1 .. Len(keys) : keys[i].key = k /\ HasId(keys[i].ids, x)
    BY <1>1, <1>4 DEF Holds
  <2>2. keys[i].ids \in Seq(RecIds)
    BY <1>1 DEF GoodIds
  <2>3. x \in RecIds
    BY ONLY <2>1, <2>2 DEF HasId
  <2>4. i = 1 \/ 1 < i
    BY ONLY i \in 1 .. Len(keys), <1>1
  <2> QED
    BY ONLY <1>1, <1>2, <2>1, <2>3, <2>4
<1> QED
  BY <1>1, <1>2, <1>3, <1>4

=============================================================================
