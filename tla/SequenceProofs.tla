---------------------------- MODULE SequenceProofs --------------------------
(***************************************************************************)
(* Lemmas on loops, as functions of their turns, and on sequences: what    *)
(* putting in, taking out and flattening make of them.                     *)
(***************************************************************************)
EXTENDS Integers, SequencesExt, WellFoundedInduction, TLAPS

-----------------------------------------------------------------------------
(***************************************************************************)
(* Loops.                                                                  *)
(***************************************************************************)

(* A set of numbers has a least one.                                       *)
LEMMA LeastNumber ==
  ASSUME NEW T \in SUBSET Nat, T # {}
  PROVE  \E x \in T : \A y \in T : x <= y
<1>1. \E x \in T : \A y \in T : <<y, x>> \notin OpToRel(<, Nat)
  BY NatLessThanWellFounded, WFMin
<1>2. \A x, y \in Nat : <<y, x>> \notin OpToRel(<, Nat) => x <= y
  BY DEF OpToRel
<1> QED
  BY <1>1, <1>2

(* A loop of n turns from a, and the states that every turn keeps.         *)
IsRun(run, n, a, turn) ==
  run[0] = a /\ \A i \in 1 .. n : run[i] = turn[i][run[i - 1]]
Keeps(V, n, turn) == \A i \in 1 .. n, v \in V : turn[i][v] \in V

LEMMA LoopRuns ==
  ASSUME NEW n \in Nat, NEW V, NEW a \in V, NEW turn, Keeps(V, n, turn)
  PROVE  \E run \in [0 .. n -> V] : IsRun(run, n, a, turn)
<1> DEFINE T == {m \in 0 .. n : ~ \E run \in [0 .. m -> V] : IsRun(run, m, a, turn)}
<1>1. SUFFICES ASSUME T # {} PROVE FALSE
  <2>1. n \in 0 .. n
    OBVIOUS
  <2>2. n \notin T => \E run \in [0 .. n -> V] : IsRun(run, n, a, turn)
    BY <2>1
  <2> QED
    BY <2>2
<1>2. T \in SUBSET Nat
  OBVIOUS
<1>3. PICK m \in T : \A k \in T : m <= k
  <2> HIDE DEF T
  <2> QED
    BY <1>1, <1>2, LeastNumber
<1>4. m \in 0 .. n /\ ~ \E run \in [0 .. m -> V] : IsRun(run, m, a, turn)
  BY <1>3
<1>5. CASE m = 0
  <2> DEFINE run == [i \in 0 .. 0 |-> a]
  <2>1. run \in [0 .. m -> V] /\ IsRun(run, m, a, turn)
    BY <1>5 DEF IsRun
  <2> QED
    BY <1>4, <2>1
<1>6. CASE m # 0
  <2>1. m - 1 \in 0 .. n /\ m - 1 \notin T
    <3> HIDE DEF T
    <3> QED
      BY <1>2, <1>3, <1>4, <1>6
  <2>2. PICK run \in [0 .. m - 1 -> V] : IsRun(run, m - 1, a, turn)
    BY <2>1
  <2> DEFINE longer == [i \in 0 .. m |-> IF i = m THEN turn[m][run[m - 1]] ELSE run[i]]
  <2>3. run[m - 1] \in V /\ m \in 1 .. n
    BY <1>4, <1>6, <2>2
  <2>4. longer \in [0 .. m -> V]
    BY <1>4, <2>3 DEF Keeps
  <2>5. \A i \in 0 .. m - 1 : longer[i] = run[i]
    BY <1>4
  <2>6. longer[m] = turn[m][run[m - 1]]
    BY <1>4
  <2> HIDE DEF longer
  <2>7. longer[0] = a
    BY <1>4, <1>6, <2>2, <2>5 DEF IsRun
  <2>8. ASSUME NEW i \in 1 .. m
        PROVE  longer[i] = turn[i][longer[i - 1]]
    <3>1. CASE i = m
      BY <1>4, <1>6, <2>5, <2>6, <3>1
    <3>2. CASE i # m
      <4>1. i \in 1 .. m - 1 /\ i \in 0 .. m - 1 /\ i - 1 \in 0 .. m - 1
        BY <1>4, <3>2
      <4> QED
        BY <2>2, <2>5, <4>1 DEF IsRun
    <3> QED
      BY <3>1, <3>2
  <2>9. IsRun(longer, m, a, turn)
    BY <2>7, <2>8 DEF IsRun
  <2> QED
    BY <1>4, <2>4, <2>9
<1> QED
  BY <1>5, <1>6

(* Two runs of a loop are the same.                                        *)
LEMMA SameRuns ==
  ASSUME NEW n \in Nat, NEW a, NEW turn, NEW f, NEW g,
         IsRun(f, n, a, turn), IsRun(g, n, a, turn)
  PROVE  \A i \in 0 .. n : f[i] = g[i]
<1> DEFINE T == {i \in 0 .. n : f[i] # g[i]}
<1>1. SUFFICES ASSUME T # {} PROVE FALSE
  OBVIOUS
<1>2. T \in SUBSET Nat
  OBVIOUS
<1>3. PICK i \in T : \A j \in T : i <= j
  <2> HIDE DEF T
  <2> QED
    BY <1>1, <1>2, LeastNumber
<1>4. i \in 1 .. n /\ i - 1 \in 0 .. n
  BY <1>3 DEF IsRun
<1>5. i - 1 \notin T
  <2> HIDE DEF T
  <2> QED
    BY <1>2, <1>3, <1>4
<1> QED
  BY <1>3, <1>4, <1>5 DEF IsRun

(* The equation of a loop with the same turn every time defines its run.   *)
IsLoop(f, n, a, turn) == f = [i \in 0 .. n |-> IF i = 0 THEN a ELSE turn[f[i - 1]]]
LoopOf(n, a, turn) == CHOOSE f : IsLoop(f, n, a, turn)

LEMMA LoopEquation ==
  ASSUME NEW n \in Nat, NEW V, NEW a, NEW turn, NEW f \in [0 .. n -> V],
         f[0] = a, \A i \in 1 .. n : f[i] = turn[f[i - 1]]
  PROVE  IsLoop(f, n, a, turn)
<1>1. \A i \in 0 .. n : i # 0 => i \in 1 .. n
  OBVIOUS
<1>2. \A i \in 0 .. n : f[i] = IF i = 0 THEN a ELSE turn[f[i - 1]]
  BY <1>1
<1>3. f = [i \in 0 .. n |-> f[i]]
  OBVIOUS
<1> QED
  BY <1>2, <1>3 DEF IsLoop

LEMMA LoopStates ==
  ASSUME NEW n \in Nat, NEW a, NEW turn, NEW f, IsLoop(f, n, a, turn)
  PROVE  /\ f[0] = a
         /\ \A i \in 1 .. n : f[i] = turn[f[i - 1]]
         /\ f = [i \in 0 .. n |-> f[i]]
BY DEF IsLoop

LEMMA LoopInvariant ==
  ASSUME NEW n \in Nat, NEW V, NEW a \in V, NEW turn, \A v \in V : turn[v] \in V
  PROVE  /\ LoopOf(n, a, turn) \in [0 .. n -> V]
         /\ LoopOf(n, a, turn)[0] = a
         /\ \A i \in 1 .. n : LoopOf(n, a, turn)[i] = turn[LoopOf(n, a, turn)[i - 1]]
<1> DEFINE turns == [i \in 1 .. n |-> turn]
           f == LoopOf(n, a, turn)
<1>1. Keeps(V, n, turns)
  BY DEF Keeps
<1>2. \A i \in 1 .. n : turns[i] = turn
  OBVIOUS
<1> HIDE DEF turns
<1>3. PICK run \in [0 .. n -> V] : IsRun(run, n, a, turns)
  BY <1>1, LoopRuns
<1>4. IsLoop(run, n, a, turn)
  <2>1. run[0] = a /\ \A i \in 1 .. n : run[i] = turn[run[i - 1]]
    BY <1>2, <1>3 DEF IsRun
  <2> QED
    BY <2>1, LoopEquation
<1>5. IsLoop(f, n, a, turn)
  BY <1>4 DEF LoopOf
<1> HIDE DEF f
<1>6. /\ f[0] = a
      /\ \A i \in 1 .. n : f[i] = turn[f[i - 1]]
      /\ f = [i \in 0 .. n |-> f[i]]
  BY <1>5, LoopStates
<1>7. IsRun(f, n, a, turns)
  BY <1>2, <1>6 DEF IsRun
<1>8. \A i \in 0 .. n : f[i] = run[i]
  BY <1>3, <1>7, SameRuns
<1>9. f \in [0 .. n -> V]
  <2>1. \A i \in 0 .. n : f[i] \in V
    BY <1>8
  <2> QED
    BY <1>6, <2>1
<1> QED
  BY <1>6, <1>9 DEF f

-----------------------------------------------------------------------------
(***************************************************************************)
(* Sequences.                                                              *)
(***************************************************************************)
LEMMA SeqIs ==
  ASSUME NEW S, NEW s \in Seq(S)
  PROVE  /\ Len(s) \in Nat /\ DOMAIN s = 1 .. Len(s) /\ \A i \in 1 .. Len(s) : s[i] \in S
         /\ s = [i \in 1 .. Len(s) |-> s[i]]
OBVIOUS

(* The first k elements of a sequence, and one more.                       *)
FirstOf(s, k) == [j \in 1 .. k |-> s[j]]

LEMMA FirstOfIs ==
  ASSUME NEW S, NEW s \in Seq(S), NEW k \in 0 .. Len(s)
  PROVE  /\ FirstOf(s, k) \in Seq(S) /\ Len(FirstOf(s, k)) = k
         /\ k = 0 => FirstOf(s, k) = <<>>
         /\ k # 0 => FirstOf(s, k) # <<>> /\ Last(FirstOf(s, k)) = s[k]
         /\ k = 1 => FirstOf(s, k) = <<s[1]>>
         /\ k = Len(s) => FirstOf(s, k) = s
         /\ k # Len(s) => Append(FirstOf(s, k), s[k + 1]) = FirstOf(s, k + 1)
<1>1. PICK t, m : t = FirstOf(s, k) /\ m = Len(s)
  OBVIOUS
<1>2. /\ m \in Nat /\ k \in 0 .. m /\ k \in Nat /\ s = [j \in 1 .. m |-> s[j]]
      /\ \A j \in 1 .. m : s[j] \in S
  BY ONLY <1>1, s \in Seq(S), k \in 0 .. Len(s), SeqIs
<1>3. t = [j \in 1 .. k |-> s[j]]
  BY ONLY <1>1 DEF FirstOf
<1>4. t \in Seq(S) /\ Len(t) = k
  <2>1. t \in [1 .. k -> S]
    BY ONLY <1>2, <1>3
  <2> QED
    BY ONLY <1>2, <2>1
<1>5. k = 0 => t = <<>>
  BY ONLY <1>4
<1>6. k # 0 => t # <<>> /\ Last(t) = s[k]
  <2>1. k # 0 => t # <<>> /\ t[k] = s[k]
    BY ONLY <1>2, <1>3, <1>4
  <2> QED
    BY ONLY <1>4, <2>1 DEF Last
<1>7. k = 1 => t = <<s[1]>>
  BY ONLY <1>3
<1>8. k = m => t = s
  BY ONLY <1>2, <1>3
<1>9. ASSUME k # m PROVE Append(t, s[k + 1]) = FirstOf(s, k + 1)
  <2>1. PICK more : more = FirstOf(s, k + 1)
    OBVIOUS
  <2>2. more = [j \in 1 .. k + 1 |-> s[j]] /\ k + 1 \in 1 .. m /\ k + 1 \in Nat
    BY ONLY <1>2, <1>9, <2>1 DEF FirstOf
  <2>3. Append(t, s[k + 1]) = [j \in 1 .. k + 1 |-> IF j = k + 1 THEN s[k + 1] ELSE t[j]]
    BY ONLY <1>2, <1>4, <2>2
  <2>4. \A j \in 1 .. k + 1 : (IF j = k + 1 THEN s[k + 1] ELSE t[j]) = s[j]
    BY ONLY <1>2, <1>3
  <2> QED
    BY ONLY <2>1, <2>2, <2>3, <2>4
<1> QED
  BY ONLY <1>1, <1>4, <1>5, <1>6, <1>7, <1>8, <1>9

(* A loop whose turns find one element of s after the other, from the      *)
(* first ones on, ends with s if it has turns enough.                      *)
Walks(turn, s, least) ==
  \A k \in least .. Len(s) : turn[FirstOf(s, k)] = FirstOf(s, IF k = Len(s) THEN k ELSE k + 1)

LEMMA WalkIs ==
  ASSUME NEW S, NEW s \in Seq(S), NEW least \in 0 .. Len(s), NEW turn, Walks(turn, s, least),
         NEW n \in Nat, Len(s) <= least + n
  PROVE  LoopOf(n, FirstOf(s, least), turn)[n] = s
<1>1. PICK m, V, f : /\ m = Len(s) /\ V = {FirstOf(s, k) : k \in least .. m}
                     /\ f = LoopOf(n, FirstOf(s, least), turn)
  OBVIOUS
<1>2. m \in Nat /\ least \in 0 .. m /\ least \in Nat /\ m <= least + n
  BY ONLY <1>1, s \in Seq(S), least \in 0 .. Len(s), Len(s) <= least + n
<1>3. \A k \in least .. m : turn[FirstOf(s, k)] = FirstOf(s, IF k = m THEN k ELSE k + 1)
  BY ONLY <1>1, Walks(turn, s, least) DEF Walks
<1>4. \A k \in least .. m : (IF k = m THEN k ELSE k + 1) \in least .. m
  BY ONLY <1>2
<1>5. FirstOf(s, least) \in V /\ \A v \in V : turn[v] \in V
  <2>1. least \in least .. m
    BY ONLY <1>2
  <2> QED
    BY ONLY <1>1, <1>3, <1>4, <2>1
<1>6. f[0] = FirstOf(s, least) /\ \A i \in 1 .. n : f[i] = turn[f[i - 1]]
  <2>1. PICK a : a = FirstOf(s, least)
    OBVIOUS
  <2>2. a \in V /\ f = LoopOf(n, a, turn) /\ \A v \in V : turn[v] \in V
    BY ONLY <1>1, <1>5, <2>1
  <2>3. f[0] = a /\ \A i \in 1 .. n : f[i] = turn[f[i - 1]]
    BY ONLY <2>2, n \in Nat, LoopInvariant
  <2> QED
    BY ONLY <2>1, <2>3
<1> DEFINE Far(i) == IF least + i < m THEN least + i ELSE m
           Right(i) == f[i] = FirstOf(s, Far(i))
<1>7. ASSUME NEW i \in 1 .. n, Right(i - 1) PROVE Right(i)
  <2>1. PICK k, l : k = Far(i - 1) /\ l = Far(i)
    OBVIOUS
  <2>2. k \in least .. m /\ l = IF k = m THEN k ELSE k + 1
    BY ONLY <1>2, <2>1, i \in 1 .. n
  <2>3. f[i] = turn[FirstOf(s, k)]
    <3>1. f[i - 1] = FirstOf(s, k)
      BY ONLY <1>7, <2>1
    <3> QED
      BY ONLY <1>6, <3>1, i \in 1 .. n
  <2>4. f[i] = FirstOf(s, l)
    BY ONLY <1>3, <2>2, <2>3
  <2> QED
    BY ONLY <2>1, <2>4
<1>8. \A i \in 0 .. n : Right(i)
  <2>1. Right(0)
    <3>1. PICK k : k = Far(0)
      OBVIOUS
    <3>2. k = least
      BY ONLY <1>2, <3>1
    <3> QED
      BY ONLY <1>6, <3>1, <3>2
  <2> HIDE DEF Right
  <2> DEFINE T == {i \in 0 .. n : ~Right(i)}
  <2>2. SUFFICES ASSUME T # {} PROVE FALSE
    OBVIOUS
  <2>3. T \in SUBSET Nat
    BY ONLY n \in Nat
  <2>4. PICK i \in T : \A j \in T : i <= j
    <3> HIDE DEF T
    <3> QED
      BY ONLY <2>2, <2>3, LeastNumber
  <2>5. i \in 1 .. n /\ i - 1 \in 0 .. n /\ i - 1 < i
    BY ONLY <2>1, <2>4, n \in Nat
  <2>6. i - 1 \notin T
    <3> HIDE DEF T
    <3> QED
      BY ONLY <2>3, <2>4, <2>5
  <2> QED
    BY ONLY <1>7, <2>4, <2>5, <2>6
<1>9. f[n] = FirstOf(s, m)
  <2>1. PICK k : k = Far(n)
    OBVIOUS
  <2>2. k = m
    BY ONLY <1>2, <2>1, n \in Nat
  <2>3. Right(n)
    BY ONLY <1>8, n \in Nat
  <2> QED
    BY ONLY <2>1, <2>2, <2>3
<1>10. FirstOf(s, m) = s
  BY ONLY <1>1, <1>2, s \in Seq(S), FirstOfIs
<1> QED
  BY ONLY <1>1, <1>9, <1>10

LEMMA ConcatIs ==
  ASSUME NEW S, NEW s \in Seq(S), NEW t \in Seq(S)
  PROVE  /\ s \o t \in Seq(S)
         /\ Len(s \o t) = Len(s) + Len(t)
         /\ \A i \in 1 .. Len(s) + Len(t) :
              (s \o t)[i] = IF i <= Len(s) THEN s[i] ELSE t[i - Len(s)]
OBVIOUS

LEMMA InsertAtIs ==
  ASSUME NEW S, NEW s \in Seq(S), NEW p \in 1 .. Len(s) + 1, NEW e \in S
  PROVE  /\ InsertAt(s, p, e) \in Seq(S)
         /\ Len(InsertAt(s, p, e)) = Len(s) + 1
         /\ \A i \in 1 .. Len(s) + 1 :
              InsertAt(s, p, e)[i] = IF i < p THEN s[i] ELSE IF i = p THEN e ELSE s[i - 1]
<1>1. Len(s) \in Nat /\ p \in Int /\ 1 <= p /\ p <= Len(s) + 1
  OBVIOUS
<1>2. PICK before : before = SubSeq(s, 1, p - 1)
  OBVIOUS
<1>3. PICK after : after = SubSeq(s, p, Len(s))
  OBVIOUS
<1>4. /\ before \in Seq(S) /\ Len(before) = p - 1
      /\ \A i \in 1 .. p - 1 : before[i] = s[i]
  BY <1>2
<1>5. /\ after \in Seq(S) /\ Len(after) = Len(s) - p + 1
      /\ \A i \in 1 .. Len(s) - p + 1 : after[i] = s[p + i - 1]
  BY <1>3
<1>6. PICK first : first = before \o <<e>>
  OBVIOUS
<1>7. /\ first \in Seq(S) /\ Len(first) = p
      /\ \A i \in 1 .. p : first[i] = IF i < p THEN s[i] ELSE e
  BY <1>4, <1>6
<1>8. InsertAt(s, p, e) = first \o after
  BY <1>2, <1>3, <1>6 DEF InsertAt
<1>9. /\ first \o after \in Seq(S) /\ Len(first \o after) = Len(s) + 1
      /\ \A i \in 1 .. Len(s) + 1 :
           (first \o after)[i] = IF i <= p THEN first[i] ELSE after[i - p]
  <2>1. /\ first \o after \in Seq(S)
        /\ Len(first \o after) = Len(first) + Len(after)
        /\ \A i \in 1 .. Len(first) + Len(after) :
             (first \o after)[i] = IF i <= Len(first) THEN first[i] ELSE after[i - Len(first)]
    BY <1>5, <1>7, ConcatIs
  <2>2. Len(first) = p /\ Len(first) + Len(after) = Len(s) + 1
    BY <1>1, <1>5, <1>7
  <2> QED
    BY <2>1, <2>2
<1>10. ASSUME NEW i \in 1 .. Len(s) + 1
       PROVE  (first \o after)[i] = IF i < p THEN s[i] ELSE IF i = p THEN e ELSE s[i - 1]
  <2>1. CASE i <= p
    BY <1>1, <1>7, <1>9, <2>1
  <2>2. CASE i > p
    <3>1. i - p \in 1 .. Len(s) - p + 1 /\ p + (i - p) - 1 = i - 1
      BY <1>1, <2>2
    <3>2. ~(i <= p) /\ ~(i < p) /\ i # p
      BY <1>1, <2>2
    <3> QED
      BY <1>5, <1>9, <3>1, <3>2
  <2>3. i <= p \/ i > p
    BY <1>1
  <2> QED
    BY <2>1, <2>2, <2>3
<1> QED
  BY <1>8, <1>9, <1>10

LEMMA RemoveAtIs ==
  ASSUME NEW S, NEW s \in Seq(S), NEW p \in DOMAIN s
  PROVE  /\ RemoveAt(s, p) \in Seq(S)
         /\ Len(RemoveAt(s, p)) = Len(s) - 1
         /\ \A i \in 1 .. Len(s) - 1 : RemoveAt(s, p)[i] = IF i < p THEN s[i] ELSE s[i + 1]
<1> DEFINE before == SubSeq(s, 1, p - 1)
           after == SubSeq(s, p + 1, Len(s))
<1>1. /\ before \in Seq(S) /\ Len(before) = p - 1
      /\ \A i \in 1 .. p - 1 : before[i] = s[i]
  OBVIOUS
<1>2. /\ after \in Seq(S) /\ Len(after) = Len(s) - p
      /\ \A i \in 1 .. Len(s) - p : after[i] = s[p + i]
  OBVIOUS
<1>3. RemoveAt(s, p) = before \o after
  BY DEF RemoveAt
<1> HIDE DEF before, after
<1>4. /\ before \o after \in Seq(S) /\ Len(before \o after) = Len(s) - 1
      /\ \A i \in 1 .. Len(s) - 1 :
           (before \o after)[i] = IF i <= p - 1 THEN before[i] ELSE after[i - (p - 1)]
  BY <1>1, <1>2
<1>5. ASSUME NEW i \in 1 .. Len(s) - 1
      PROVE  (before \o after)[i] = IF i < p THEN s[i] ELSE s[i + 1]
  <2>1. CASE i < p
    BY <1>1, <1>4, <2>1
  <2>2. CASE i >= p
    <3>1. i - (p - 1) \in 1 .. Len(s) - p /\ p + (i - (p - 1)) = i + 1 /\ ~(i <= p - 1) /\ ~(i < p)
      BY <2>2
    <3> QED
      BY <1>2, <1>4, <3>1
  <2>3. i < p \/ i >= p
    OBVIOUS
  <2> QED
    BY <2>1, <2>2, <2>3
<1> QED
  BY <1>3, <1>4, <1>5

LEMMA RemoveFirstIs ==
  ASSUME NEW S, NEW s \in Seq(S), NEW e, Contains(s, e)
  PROVE  \E p \in DOMAIN s : s[p] = e /\ RemoveFirst(s, e) = RemoveAt(s, p)
<1> DEFINE I == {i \in 1 .. Len(s) : s[i] = e}
<1>1. I \in SUBSET Nat /\ I # {}
  BY DEF Contains
<1>2. PICK p \in I : \A j \in I : p <= j
  <2> HIDE DEF I
  <2> QED
    BY <1>1, LeastNumber
<1>3. RemoveFirst(s, e) = RemoveAt(s, IF I # {} THEN Min(I) ELSE 0)
  BY <1>1 DEF RemoveFirst, SelectInSeq
<1>4. PICK m \in I : Min(I) = m
  <2> HIDE DEF I
  <2> QED
    BY <1>1, <1>2 DEF Min
<1>5. RemoveFirst(s, e) = RemoveAt(s, m)
  <2> HIDE DEF I
  <2> QED
    BY <1>1, <1>3, <1>4
<1>6. m \in DOMAIN s /\ s[m] = e
  BY <1>4
<1> QED
  BY <1>5, <1>6

LEMMA PartIs ==
  ASSUME NEW S, NEW s \in Seq(S), NEW low \in 1 .. Len(s) + 1, NEW high \in low - 1 .. Len(s)
  PROVE  /\ SubSeq(s, low, high) \in Seq(S)
         /\ Len(SubSeq(s, low, high)) = high - low + 1
         /\ \A i \in 1 .. high - low + 1 : SubSeq(s, low, high)[i] = s[low + i - 1]
OBVIOUS

-----------------------------------------------------------------------------
(***************************************************************************)
(* A sequence of lists made one list.                                      *)
(***************************************************************************)

(* sum[i] is the number of elements of the first i lists.                  *)
Sums(lists, sum) ==
  sum[0] = 0 /\ \A i \in 1 .. Len(lists) : sum[i] = sum[i - 1] + Len(lists[i])

LEMMA SumsExist ==
  ASSUME NEW S, NEW lists \in Seq(Seq(S))
  PROVE  \E sum \in [0 .. Len(lists) -> Nat] : Sums(lists, sum)
<1> DEFINE n == Len(lists)
           turn == [i \in 1 .. n |-> [v \in Nat |-> v + Len(lists[i])]]
<1>1. n \in Nat /\ \A i \in 1 .. n : lists[i] \in Seq(S) /\ Len(lists[i]) \in Nat
  OBVIOUS
<1>2. \A i \in 1 .. n, v \in Nat : turn[i][v] = v + Len(lists[i])
  OBVIOUS
<1> HIDE DEF turn
<1>3. Keeps(Nat, n, turn)
  <2>1. ASSUME NEW i \in 1 .. n, NEW v \in Nat
        PROVE  turn[i][v] \in Nat
    <3>1. turn[i][v] = v + Len(lists[i]) /\ Len(lists[i]) \in Nat
      BY <1>1, <1>2
    <3> QED
      BY <3>1
  <2> QED
    BY <2>1 DEF Keeps
<1> HIDE DEF n
<1>4. PICK sum \in [0 .. n -> Nat] : IsRun(sum, n, 0, turn)
  BY <1>1, <1>3, LoopRuns
<1>5. \A i \in 1 .. n : sum[i - 1] \in Nat
  BY <1>1
<1>6. sum[0] = 0 /\ \A i \in 1 .. n : sum[i] = sum[i - 1] + Len(lists[i])
  BY <1>2, <1>4, <1>5 DEF IsRun
<1> QED
  BY <1>6 DEF n, Sums

IsFlatten(f, lists) ==
  f = [i \in 1 .. Len(lists) |-> IF i = 1 THEN lists[i] ELSE f[i - 1] \o lists[i]]

LEMMA FlattenStates ==
  ASSUME NEW S, NEW lists \in Seq(Seq(S)), NEW f, IsFlatten(f, lists), lists # <<>>
  PROVE  f[1] = lists[1] /\ \A i \in 2 .. Len(lists) : f[i] = f[i - 1] \o lists[i]
<1>1. Len(lists) \in Nat /\ Len(lists) # 0
  OBVIOUS
<1>2. 1 \in 1 .. Len(lists) /\ \A i \in 2 .. Len(lists) : i \in 1 .. Len(lists) /\ i # 1
  BY <1>1
<1>3. \A i \in 1 .. Len(lists) : f[i] = IF i = 1 THEN lists[i] ELSE f[i - 1] \o lists[i]
  BY DEF IsFlatten
<1> QED
  BY <1>2, <1>3

(* FlattenSeq appends one list after the other.                            *)
LEMMA FlattenRuns ==
  ASSUME NEW S, NEW lists \in Seq(Seq(S))
  PROVE  \E run \in [0 .. Len(lists) -> Seq(S)] :
           /\ run[0] = <<>> /\ \A i \in 1 .. Len(lists) : run[i] = run[i - 1] \o lists[i]
           /\ FlattenSeq(lists) = run[Len(lists)]
<1> DEFINE n == Len(lists)
           turn == [i \in 1 .. n |-> [v \in Seq(S) |-> v \o lists[i]]]
           f == CHOOSE g : IsFlatten(g, lists)
<1>1. n \in Nat /\ \A i \in 1 .. n : lists[i] \in Seq(S) /\ Len(lists[i]) \in Nat
  OBVIOUS
<1>2. CASE n = 0
  <2>1. FlattenSeq(lists) = <<>>
    BY <1>2 DEF FlattenSeq
  <2> DEFINE run == [i \in 0 .. 0 |-> <<>>]
  <2>2. run \in [0 .. n -> Seq(S)] /\ run[0] = <<>> /\ run[n] = <<>> /\ 1 .. n = {}
    BY <1>2
  <2> HIDE DEF run
  <2> QED
    BY <2>1, <2>2
<1>3. CASE n # 0
  <2>1. FlattenSeq(lists) = f[n]
    BY <1>3 DEF FlattenSeq, IsFlatten
  <2>2. \A i \in 1 .. n, v \in Seq(S) : turn[i][v] = v \o lists[i]
    OBVIOUS
  <2>3. <<>> \in Seq(S)
    OBVIOUS
  <2> HIDE DEF turn, f
  <2>4. Keeps(Seq(S), n, turn)
    <3>1. ASSUME NEW i \in 1 .. n, NEW v \in Seq(S)
          PROVE  turn[i][v] \in Seq(S)
      <4>1. turn[i][v] = v \o lists[i] /\ lists[i] \in Seq(S)
        BY <1>1, <2>2
      <4> QED
        BY <4>1
    <3> QED
      BY <3>1 DEF Keeps
  <2> HIDE DEF n
  <2>5. PICK run \in [0 .. n -> Seq(S)] : IsRun(run, n, <<>>, turn)
    BY <1>1, <2>3, <2>4, LoopRuns
  <2>6. \A i \in 1 .. n : run[i] = run[i - 1] \o lists[i]
    <3>1. \A i \in 1 .. n : run[i - 1] \in Seq(S)
      BY <1>1
    <3> QED
      BY <2>2, <2>5, <3>1 DEF IsRun
  <2>7. run[1] = lists[1] /\ 1 \in 1 .. n
    <3>1. 1 \in 1 .. n /\ lists[1] \in Seq(S) /\ 1 - 1 = 0
      BY <1>1, <1>3
    <3>2. run[1] = run[1 - 1] \o lists[1] /\ run[0] = <<>>
      BY <2>5, <2>6, <3>1 DEF IsRun
    <3>3. <<>> \o lists[1] = lists[1]
      BY <3>1
    <3> QED
      BY <3>1, <3>2, <3>3, Zenon
  <2> DEFINE g == [i \in 1 .. n |-> run[i]]
  <2>8. IsFlatten(g, lists)
    <3>1. \A i \in 1 .. n : g[i] = IF i = 1 THEN lists[i] ELSE g[i - 1] \o lists[i]
      <4> TAKE i \in 1 .. n
      <4>1. CASE i = 1
        BY <2>7, <4>1
      <4>2. CASE i # 1
        <5>1. i - 1 \in 1 .. n
          BY <1>1, <4>2
        <5> QED
          BY <2>6, <4>2, <5>1
      <4> QED
        BY <4>1, <4>2
    <3>2. g = [i \in 1 .. n |-> g[i]]
      OBVIOUS
    <3> HIDE DEF g
    <3> QED
      BY <3>1, <3>2 DEF IsFlatten, n
  <2>9. IsFlatten(f, lists)
    <3> HIDE DEF g
    <3> QED
      BY <2>8 DEF f
  <2>10. lists # <<>>
    BY <1>3 DEF n
  <2>11. f[1] = lists[1] /\ \A i \in 2 .. n : f[i] = f[i - 1] \o lists[i]
    BY <2>9, <2>10, FlattenStates DEF n
  <2> DEFINE h == [i \in 0 .. n |-> IF i = 0 THEN <<>> ELSE f[i]]
  <2>12. \A i \in 1 .. n : h[i] = f[i] /\ (i # 1 => h[i - 1] = f[i - 1])
    BY <1>1
  <2>13. h[0] = <<>>
    BY <1>1
  <2> HIDE DEF h
  <2>14. \A i \in 0 .. n : h[i] = run[i]
    <3> DEFINE T == {i \in 0 .. n : h[i] # run[i]}
    <3>1. SUFFICES ASSUME T # {} PROVE FALSE
      OBVIOUS
    <3>2. T \in SUBSET Nat
      BY <1>1
    <3>3. PICK i \in T : \A j \in T : i <= j
      <4> HIDE DEF T
      <4> QED
        BY <3>1, <3>2, LeastNumber
    <3>4. i \in 1 .. n /\ i - 1 \in 0 .. n
      BY <1>1, <2>5, <2>13, <3>3 DEF IsRun
    <3>5. i - 1 \notin T
      <4> HIDE DEF T
      <4> QED
        BY <3>2, <3>3, <3>4
    <3>6. h[i - 1] = run[i - 1] /\ h[i] # run[i]
      BY <3>3, <3>4, <3>5
    <3>7. CASE i = 1
      BY <2>7, <2>11, <2>12, <3>4, <3>6, <3>7
    <3>8. CASE i # 1
      <4>1. i \in 2 .. n
        BY <1>1, <3>4, <3>8
      <4> QED
        BY <2>6, <2>11, <2>12, <3>4, <3>6, <3>8, <4>1
    <3> QED
      BY <3>7, <3>8
  <2>15. n \in 1 .. n /\ n \in 0 .. n
    BY <1>1, <1>3
  <2>16. FlattenSeq(lists) = run[n] /\ run[0] = <<>>
    BY <2>1, <2>5, <2>12, <2>14, <2>15 DEF IsRun
  <2> QED
    BY <2>5, <2>6, <2>16 DEF n
<1> QED
  BY <1>1, <1>2, <1>3

LEMMA FlattenNone ==
  ASSUME NEW lists, lists = <<>>
  PROVE  FlattenSeq(lists) = <<>>
BY DEF FlattenSeq

LEMMA FlattenIsSeq ==
  ASSUME NEW S, NEW lists \in Seq(Seq(S))
  PROVE  FlattenSeq(lists) \in Seq(S)
<1>1. PICK run \in [0 .. Len(lists) -> Seq(S)] : FlattenSeq(lists) = run[Len(lists)]
  BY FlattenRuns
<1>2. Len(lists) \in 0 .. Len(lists)
  OBVIOUS
<1> QED
  BY ONLY <1>1, <1>2

(* One more list: its elements come behind those of the others.            *)
LEMMA FlattenOneMore ==
  ASSUME NEW S, NEW lists \in Seq(Seq(S)), NEW more \in Seq(Seq(S)),
         Len(more) = Len(lists) + 1, \A i \in 1 .. Len(lists) : more[i] = lists[i]
  PROVE  /\ FlattenSeq(lists) \in Seq(S) /\ FlattenSeq(more) \in Seq(S)
         /\ FlattenSeq(more) = FlattenSeq(lists) \o more[Len(more)]
<1>1. PICK n : n = Len(lists)
  OBVIOUS
<1>2. n \in Nat /\ Len(more) = n + 1 /\ \A i \in 1 .. n : more[i] = lists[i]
  BY <1>1
<1>3. PICK f \in [0 .. n -> Seq(S)] :
        /\ f[0] = <<>> /\ \A i \in 1 .. n : f[i] = f[i - 1] \o lists[i]
        /\ FlattenSeq(lists) = f[n]
  BY <1>1, FlattenRuns
<1>4. PICK g \in [0 .. n + 1 -> Seq(S)] :
        /\ g[0] = <<>> /\ \A i \in 1 .. n + 1 : g[i] = g[i - 1] \o more[i]
        /\ FlattenSeq(more) = g[n + 1]
  <2>1. PICK m : m = Len(more)
    OBVIOUS
  <2>2. PICK g \in [0 .. m -> Seq(S)] :
          /\ g[0] = <<>> /\ \A i \in 1 .. m : g[i] = g[i - 1] \o more[i]
          /\ FlattenSeq(more) = g[m]
    BY ONLY <2>1, more \in Seq(Seq(S)), FlattenRuns
  <2> QED
    BY ONLY <1>2, <2>1, <2>2
<1> DEFINE turn == [i \in 1 .. n |-> [v \in Seq(S) |-> v \o lists[i]]]
<1>5. \A i \in 1 .. n, v \in Seq(S) : turn[i][v] = v \o lists[i]
  OBVIOUS
<1>6. \A i \in 1 .. n : i - 1 \in 0 .. n /\ i - 1 \in 0 .. n + 1 /\ i \in 1 .. n + 1
  BY <1>2
<1> HIDE DEF turn
<1>7. IsRun(f, n, <<>>, turn)
  <2>1. \A i \in 1 .. n : f[i] = turn[i][f[i - 1]]
    BY ONLY <1>3, <1>5, <1>6
  <2> QED
    BY ONLY <1>3, <2>1 DEF IsRun
<1>8. IsRun(g, n, <<>>, turn)
  <2>1. \A i \in 1 .. n : g[i] = turn[i][g[i - 1]]
    <3>1. \A i \in 1 .. n : g[i - 1] \in Seq(S) /\ g[i] = g[i - 1] \o lists[i]
      BY ONLY <1>2, <1>4, <1>6
    <3> QED
      BY ONLY <1>5, <3>1
  <2> QED
    BY ONLY <1>4, <2>1 DEF IsRun
<1>9. g[n] = f[n]
  BY <1>2, <1>7, <1>8, SameRuns
<1>10. n \in 0 .. n /\ n + 1 \in 0 .. n + 1 /\ n + 1 \in 1 .. n + 1 /\ (n + 1) - 1 = n
  BY <1>2
<1> QED
  BY ONLY <1>2, <1>3, <1>4, <1>9, <1>10

(* More behind the last list: it comes behind the elements of all.         *)
LongerAtEnd(lists, other, n, l) ==
  /\ Len(lists) = n /\ Len(other) = n
  /\ \A i \in 1 .. n - 1 : other[i] = lists[i]
  /\ other[n] = lists[n] \o l

LEMMA FlattenLonger ==
  ASSUME NEW S, NEW lists \in Seq(Seq(S)), NEW other \in Seq(Seq(S)), NEW l \in Seq(S),
         NEW n \in Nat \ {0}, LongerAtEnd(lists, other, n, l)
  PROVE  FlattenSeq(other) = FlattenSeq(lists) \o l
<1>0. /\ Len(lists) = n /\ Len(other) = n /\ other[n] = lists[n] \o l
      /\ \A i \in 1 .. n - 1 : other[i] = lists[i]
  BY DEF LongerAtEnd
<1>1. PICK front : front = [i \in 1 .. n - 1 |-> lists[i]]
  OBVIOUS
<1>2. n - 1 \in Nat /\ n \in 1 .. n /\ \A i \in 1 .. n : lists[i] \in Seq(S)
  BY ONLY <1>0, n \in Nat \ {0}, lists \in Seq(Seq(S))
<1>3. /\ front \in Seq(Seq(S)) /\ Len(front) = n - 1
      /\ \A i \in 1 .. n - 1 : front[i] = lists[i]
  <2>1. front \in [1 .. n - 1 -> Seq(S)]
    BY ONLY <1>1, <1>2
  <2> QED
    BY ONLY <1>1, <1>2, <2>1
<1>4. PICK first : first = FlattenSeq(front)
  OBVIOUS
<1>5. first \in Seq(S) /\ FlattenSeq(lists) = first \o lists[n]
  <2>1. Len(lists) = Len(front) + 1 /\ \A i \in 1 .. Len(front) : lists[i] = front[i]
    BY ONLY <1>0, <1>3, n \in Nat \ {0}
  <2> QED
    BY ONLY <1>0, <1>3, <1>4, <2>1, lists \in Seq(Seq(S)), FlattenOneMore
<1>6. FlattenSeq(other) = first \o other[n]
  <2>1. Len(other) = Len(front) + 1 /\ \A i \in 1 .. Len(front) : other[i] = front[i]
    BY ONLY <1>0, <1>3, n \in Nat \ {0}
  <2> QED
    BY ONLY <1>0, <1>3, <1>4, <2>1, other \in Seq(Seq(S)), FlattenOneMore
<1>7. PICK s : s = lists[n]
  OBVIOUS
<1>8. s \in Seq(S)
  BY ONLY <1>2, <1>7
<1>9. first \o (s \o l) = (first \o s) \o l
  BY ONLY <1>5, <1>8, l \in Seq(S)
<1> QED
  BY ONLY <1>0, <1>5, <1>6, <1>7, <1>9

(* FlattenSeq has the elements of the lists, each list behind those before *)
(* it: sum[i] is the number of elements of the first i lists.              *)
LEMMA FlattenPlaces ==
  ASSUME NEW S, NEW lists \in Seq(Seq(S)),
         NEW sum \in [0 .. Len(lists) -> Nat], Sums(lists, sum)
  PROVE  /\ FlattenSeq(lists) \in Seq(S)
         /\ Len(FlattenSeq(lists)) = sum[Len(lists)]
         /\ \A k \in 1 .. Len(lists) : \A j \in 1 .. Len(lists[k]) :
              /\ sum[k - 1] + j \in 1 .. sum[Len(lists)]
              /\ FlattenSeq(lists)[sum[k - 1] + j] = lists[k][j]
<1>1. PICK n : n = Len(lists)
  OBVIOUS
<1>2. n \in Nat /\ \A i \in 1 .. n : lists[i] \in Seq(S) /\ Len(lists[i]) \in Nat
  BY <1>1
<1>3. PICK run \in [0 .. n -> Seq(S)] :
        /\ run[0] = <<>> /\ \A i \in 1 .. n : run[i] = run[i - 1] \o lists[i]
        /\ FlattenSeq(lists) = run[n]
  BY <1>1, FlattenRuns
<1>4. sum[0] = 0 /\ \A i \in 1 .. n : sum[i] = sum[i - 1] + Len(lists[i])
  BY <1>1 DEF Sums
<1>5. \A i \in 0 .. n : run[i] \in Seq(S) /\ sum[i] \in Nat
  BY <1>1
<1> DEFINE Placed(i) ==
             /\ Len(run[i]) = sum[i]
             /\ \A k \in 1 .. i : \A j \in 1 .. Len(lists[k]) :
                  /\ sum[k - 1] + j \in 1 .. sum[i]
                  /\ run[i][sum[k - 1] + j] = lists[k][j]
<1>6. Placed(0)
  BY ONLY <1>3, <1>4
<1>7. ASSUME NEW i \in 1 .. n, Placed(i - 1) PROVE Placed(i)
  <2>1. i - 1 \in 0 .. n /\ i \in 0 .. n /\ i - 1 \in Nat
    BY ONLY <1>2, i \in 1 .. n
  <2>2. PICK s, t : s = run[i - 1] /\ t = lists[i]
    OBVIOUS
  <2>3. s \in Seq(S) /\ t \in Seq(S) /\ run[i] = s \o t
    BY ONLY <1>2, <1>3, <1>5, <2>1, <2>2, i \in 1 .. n
  <2>4. /\ Len(s \o t) = Len(s) + Len(t)
        /\ \A p \in 1 .. Len(s) + Len(t) :
             (s \o t)[p] = IF p <= Len(s) THEN s[p] ELSE t[p - Len(s)]
    BY ONLY <2>3, ConcatIs
  <2>5. Len(s) = sum[i - 1] /\ sum[i] = Len(s) + Len(t) /\ Len(s) \in Nat /\ Len(t) \in Nat
    <3>1. Len(s) = sum[i - 1]
      BY ONLY <1>7, <2>2
    <3>2. sum[i] = sum[i - 1] + Len(t)
      BY ONLY <1>4, <2>2, i \in 1 .. n
    <3> QED
      BY ONLY <2>3, <3>1, <3>2
  <2>6. ASSUME NEW k \in 1 .. i, NEW j \in 1 .. Len(lists[k])
        PROVE  sum[k - 1] + j \in 1 .. sum[i] /\ run[i][sum[k - 1] + j] = lists[k][j]
    <3>1. CASE k = i
      <4>1. sum[k - 1] + j = Len(s) + j /\ lists[k] = t /\ j \in 1 .. Len(t)
        BY ONLY <2>2, <2>5, <3>1, j \in 1 .. Len(lists[k])
      <4>2. /\ Len(s) + j \in 1 .. Len(s) + Len(t)
            /\ ~(Len(s) + j <= Len(s)) /\ (Len(s) + j) - Len(s) = j
        BY ONLY <2>5, <4>1
      <4>3. (s \o t)[Len(s) + j] = t[j]
        BY ONLY <2>4, <4>2
      <4> QED
        BY ONLY <2>3, <2>5, <4>1, <4>2, <4>3
    <3>2. CASE k # i
      <4>1. k \in 1 .. i - 1
        BY ONLY <2>1, <3>2, k \in 1 .. i
      <4>2. /\ sum[k - 1] + j \in 1 .. sum[i - 1]
            /\ run[i - 1][sum[k - 1] + j] = lists[k][j]
        BY ONLY <1>7, <4>1, j \in 1 .. Len(lists[k])
      <4>3. /\ sum[k - 1] + j \in 1 .. Len(s) + Len(t) /\ sum[k - 1] + j <= Len(s)
        BY ONLY <2>5, <4>2
      <4> QED
        BY ONLY <2>2, <2>3, <2>4, <2>5, <4>2, <4>3
    <3> QED
      BY ONLY <3>1, <3>2
  <2>7. Len(run[i]) = sum[i]
    BY ONLY <2>3, <2>4, <2>5
  <2> QED
    BY ONLY <2>6, <2>7
<1>8. \A i \in 0 .. n : Placed(i)
  <2> HIDE DEF Placed
  <2> DEFINE T == {i \in 0 .. n : ~Placed(i)}
  <2>1. SUFFICES ASSUME T # {} PROVE FALSE
    OBVIOUS
  <2>2. T \in SUBSET Nat
    BY <1>2
  <2>3. PICK i \in T : \A j \in T : i <= j
    <3> HIDE DEF T
    <3> QED
      BY <2>1, <2>2, LeastNumber
  <2>4. i \in 1 .. n /\ i - 1 \in 0 .. n
    BY <1>2, <1>6, <2>3
  <2>5. i - 1 \notin T
    <3> HIDE DEF T
    <3> QED
      BY <2>2, <2>3, <2>4
  <2> QED
    BY <1>7, <2>3, <2>4, <2>5
<1>9. Placed(n)
  <2> HIDE DEF Placed
  <2> QED
    BY <1>2, <1>8
<1> QED
  BY <1>1, <1>3, <1>5, <1>9

(* The sums grow with the lists, and every number up to the last lies      *)
(* between those of one list.                                              *)
Rises(sum, n) ==
  /\ \A p \in 1 .. sum[n] : \E k \in 1 .. n : sum[k - 1] < p /\ p <= sum[k]
  /\ \A k, l \in 0 .. n : k <= l => sum[k] <= sum[l]

LEMMA SumsRise ==
  ASSUME NEW S, NEW lists \in Seq(Seq(S)),
         NEW sum \in [0 .. Len(lists) -> Nat], Sums(lists, sum)
  PROVE  Rises(sum, Len(lists))
<1>1. PICK n : n = Len(lists)
  OBVIOUS
<1>2. n \in Nat /\ \A i \in 1 .. n : lists[i] \in Seq(S) /\ Len(lists[i]) \in Nat
  BY <1>1
<1>3. /\ \A i \in 0 .. n : sum[i] \in Nat
      /\ sum[0] = 0 /\ \A i \in 1 .. n : sum[i] = sum[i - 1] + Len(lists[i])
  BY <1>1 DEF Sums
<1>4. ASSUME NEW p \in 1 .. sum[n]
      PROVE  \E k \in 1 .. n : sum[k - 1] < p /\ p <= sum[k]
  <2> DEFINE T == {i \in 0 .. n : p <= sum[i]}
  <2>1. T \in SUBSET Nat /\ n \in T
    <3>1. n \in 0 .. n /\ p <= sum[n]
      BY ONLY <1>2, <1>3, p \in 1 .. sum[n]
    <3> QED
      BY ONLY <3>1
  <2>2. PICK k \in T : \A j \in T : k <= j
    <3> HIDE DEF T
    <3> QED
      BY <2>1, LeastNumber
  <2>3. k \in 1 .. n /\ k - 1 \in 0 .. n
    BY <1>2, <1>3, <2>2
  <2>4. k - 1 \notin T
    <3> HIDE DEF T
    <3> QED
      BY <2>1, <2>2, <2>3
  <2>5. sum[k - 1] < p /\ p <= sum[k]
    BY <1>3, <2>2, <2>3, <2>4
  <2> QED
    BY ONLY <2>3, <2>5
<1>5. ASSUME NEW k \in 0 .. n, NEW l \in 0 .. n, k <= l PROVE sum[k] <= sum[l]
  <2> DEFINE T == {i \in 0 .. n : k <= i /\ ~(sum[k] <= sum[i])}
  <2>1. SUFFICES ASSUME T # {} PROVE FALSE
    BY <1>5
  <2>2. T \in SUBSET Nat
    BY <1>2
  <2>3. PICK i \in T : \A j \in T : i <= j
    <3> HIDE DEF T
    <3> QED
      BY <2>1, <2>2, LeastNumber
  <2>4. i # k /\ k <= i /\ i \in 0 .. n /\ ~(sum[k] <= sum[i])
    BY <1>3, <2>3
  <2>5. i \in 1 .. n /\ i - 1 \in 0 .. n /\ k <= i - 1 /\ i - 1 < i
    BY <1>2, <2>4
  <2>6. i - 1 \notin T
    <3> HIDE DEF T
    <3> QED
      BY <2>2, <2>3, <2>5
  <2>7. sum[k] <= sum[i - 1]
    BY <2>5, <2>6
  <2> QED
    <3>1. /\ sum[i] = sum[i - 1] + Len(lists[i]) /\ Len(lists[i]) \in Nat
          /\ sum[i - 1] \in Nat /\ sum[k] \in Nat
      BY ONLY <1>2, <1>3, <2>5, k \in 0 .. n
    <3> QED
      BY ONLY <2>4, <2>7, <3>1
<1> QED
  BY ONLY <1>1, <1>4, <1>5 DEF Rises

(* Element j of list k is before element m of list l.                      *)
Sooner(k, j, l, m) == k < l \/ (k = l /\ j < m)
InLists(lists, k, j) == k \in 1 .. Len(lists) /\ j \in 1 .. Len(lists[k])

HasAllOf(all, S, lists) ==
  /\ all \in Seq(S)
  /\ \A k, j : InLists(lists, k, j) => \E p \in 1 .. Len(all) : all[p] = lists[k][j]
  /\ \A p \in 1 .. Len(all) : \E k, j : InLists(lists, k, j) /\ all[p] = lists[k][j]
  /\ \A p, q \in 1 .. Len(all) : p < q =>
       \E k, j, l, m :
         /\ InLists(lists, k, j) /\ all[p] = lists[k][j]
         /\ InLists(lists, l, m) /\ all[q] = lists[l][m]
         /\ Sooner(k, j, l, m)

LEMMA FlattenOrder ==
  ASSUME NEW S, NEW lists \in Seq(Seq(S)), NEW all, all = FlattenSeq(lists)
  PROVE  HasAllOf(all, S, lists)
<1>1. PICK n : n = Len(lists)
  OBVIOUS
<1>2. n \in Nat /\ \A i \in 1 .. n : lists[i] \in Seq(S) /\ Len(lists[i]) \in Nat
  BY <1>1
<1>3. PICK sum \in [0 .. Len(lists) -> Nat] : Sums(lists, sum)
  BY SumsExist
<1>4. /\ \A i \in 0 .. n : sum[i] \in Nat
      /\ sum[0] = 0 /\ \A i \in 1 .. n : sum[i] = sum[i - 1] + Len(lists[i])
  BY <1>1, <1>3 DEF Sums
<1>5. /\ all \in Seq(S) /\ Len(all) = sum[n]
      /\ \A k \in 1 .. n : \A j \in 1 .. Len(lists[k]) :
           sum[k - 1] + j \in 1 .. sum[n] /\ all[sum[k - 1] + j] = lists[k][j]
  <2>1. /\ FlattenSeq(lists) \in Seq(S)
        /\ Len(FlattenSeq(lists)) = sum[Len(lists)]
        /\ \A k \in 1 .. Len(lists) : \A j \in 1 .. Len(lists[k]) :
             /\ sum[k - 1] + j \in 1 .. sum[Len(lists)]
             /\ FlattenSeq(lists)[sum[k - 1] + j] = lists[k][j]
    BY ONLY <1>3, lists \in Seq(Seq(S)), FlattenPlaces
  <2> QED
    BY ONLY <1>1, <2>1, all = FlattenSeq(lists)
<1>6. /\ \A p \in 1 .. sum[n] : \E k \in 1 .. n : sum[k - 1] < p /\ p <= sum[k]
      /\ \A k, l \in 0 .. n : k <= l => sum[k] <= sum[l]
  <2>1. Rises(sum, Len(lists))
    BY ONLY <1>3, lists \in Seq(Seq(S)), SumsRise
  <2> QED
    BY ONLY <1>1, <2>1 DEF Rises
<1>8. ASSUME NEW p \in Nat, NEW k \in 1 .. n, sum[k - 1] < p, p <= sum[k]
      PROVE  InLists(lists, k, p - sum[k - 1]) /\ all[p] = lists[k][p - sum[k - 1]]
  <2>1. sum[k - 1] \in Nat /\ sum[k] = sum[k - 1] + Len(lists[k]) /\ Len(lists[k]) \in Nat
    BY ONLY <1>2, <1>4, k \in 1 .. n
  <2>2. p - sum[k - 1] \in 1 .. Len(lists[k]) /\ sum[k - 1] + (p - sum[k - 1]) = p
    BY ONLY <1>8, <2>1, p \in Nat
  <2> QED
    BY ONLY <1>1, <1>5, <2>2, k \in 1 .. n DEF InLists
<1>9. ASSUME NEW k, NEW j, InLists(lists, k, j)
      PROVE  \E p \in 1 .. Len(all) : all[p] = lists[k][j]
  BY ONLY <1>1, <1>5, <1>9 DEF InLists
<1>10. ASSUME NEW p \in 1 .. Len(all)
       PROVE  \E k, j : InLists(lists, k, j) /\ all[p] = lists[k][j]
  <2>1. p \in 1 .. sum[n]
    BY ONLY <1>5, p \in 1 .. Len(all)
  <2>2. PICK k \in 1 .. n : sum[k - 1] < p /\ p <= sum[k]
    BY ONLY <1>6, <2>1
  <2>3. InLists(lists, k, p - sum[k - 1]) /\ all[p] = lists[k][p - sum[k - 1]]
    <3>1. p \in Nat
      BY ONLY <2>1
    <3> QED
      BY ONLY <1>8, <2>2, <3>1
  <2> QED
    BY ONLY <2>3
<1>11. ASSUME NEW p \in 1 .. Len(all), NEW q \in 1 .. Len(all), p < q
       PROVE  \E k, j, l, m :
                /\ InLists(lists, k, j) /\ all[p] = lists[k][j]
                /\ InLists(lists, l, m) /\ all[q] = lists[l][m]
                /\ Sooner(k, j, l, m)
  <2>1. p \in 1 .. sum[n] /\ q \in 1 .. sum[n]
    BY ONLY <1>5, p \in 1 .. Len(all), q \in 1 .. Len(all)
  <2>2. PICK k \in 1 .. n : sum[k - 1] < p /\ p <= sum[k]
    BY ONLY <1>6, <2>1
  <2>3. PICK l \in 1 .. n : sum[l - 1] < q /\ q <= sum[l]
    BY ONLY <1>6, <2>1
  <2>4. k \in 0 .. n /\ k - 1 \in 0 .. n /\ l \in 0 .. n /\ l - 1 \in 0 .. n /\ sum[n] \in Nat
    BY ONLY <1>2, <1>4, k \in 1 .. n, l \in 1 .. n
  <2>5. ASSUME l < k PROVE FALSE
    <3>1. l <= k - 1
      BY ONLY <2>4, <2>5
    <3>2. sum[l] <= sum[k - 1]
      BY ONLY <1>6, <2>4, <3>1
    <3> QED
      BY ONLY <1>4, <1>11, <2>1, <2>2, <2>3, <2>4, <3>2
  <2>6. k = l => p - sum[k - 1] < q - sum[l - 1]
    BY ONLY <1>4, <1>11, <2>1, <2>4
  <2>7. Sooner(k, p - sum[k - 1], l, q - sum[l - 1])
    BY ONLY <2>4, <2>5, <2>6 DEF Sooner
  <2>8. /\ InLists(lists, k, p - sum[k - 1]) /\ all[p] = lists[k][p - sum[k - 1]]
        /\ InLists(lists, l, q - sum[l - 1]) /\ all[q] = lists[l][q - sum[l - 1]]
    <3>1. p \in Nat /\ q \in Nat
      BY ONLY <2>1
    <3>2. InLists(lists, k, p - sum[k - 1]) /\ all[p] = lists[k][p - sum[k - 1]]
      BY ONLY <1>8, <2>2, <3>1
    <3>3. InLists(lists, l, q - sum[l - 1]) /\ all[q] = lists[l][q - sum[l - 1]]
      BY ONLY <1>8, <2>3, <3>1
    <3> QED
      BY ONLY <3>2, <3>3
  <2> QED
    BY ONLY <2>7, <2>8
<1> QED
  BY ONLY <1>5, <1>9, <1>10, <1>11 DEF HasAllOf

(* FlattenSeq has as many elements as the lists together.                  *)
LEMMA FlattenLength ==
  ASSUME NEW S, NEW lists \in Seq(Seq(S)),
         NEW sum \in [0 .. Len(lists) -> Nat], Sums(lists, sum)
  PROVE  Len(FlattenSeq(lists)) = sum[Len(lists)]
BY FlattenPlaces

(* sum is the sum of the first numbers of len.                             *)
IsSum(sum, len, n) ==
  sum[0] = 0 /\ \A i \in 1 .. n : sum[i] = sum[i - 1] + len[i]

(* more is len with d put in at p.                                         *)
OneMore(len, more, n, p, d) ==
  \A i \in 1 .. n + 1 : more[i] = IF i < p THEN len[i] ELSE IF i = p THEN d ELSE len[i - 1]

LEMMA SumInserted ==
  ASSUME NEW n \in Nat, NEW p \in 1 .. n + 1, NEW d \in Nat,
         NEW len \in [1 .. n -> Nat], NEW more \in [1 .. n + 1 -> Nat], OneMore(len, more, n, p, d),
         NEW sum \in [0 .. n -> Nat], IsSum(sum, len, n),
         NEW sumMore \in [0 .. n + 1 -> Nat], IsSum(sumMore, more, n + 1)
  PROVE  sumMore[n + 1] = sum[n] + d
<1> DEFINE T == {i \in 0 .. n + 1 : sumMore[i] # IF i < p THEN sum[i] ELSE sum[i - 1] + d}
<1>1. SUFFICES ASSUME T # {} PROVE FALSE
  <2>1. n + 1 \in 0 .. n + 1 /\ ~(n + 1 < p) /\ (n + 1) - 1 = n
    OBVIOUS
  <2>2. ASSUME T = {} PROVE sumMore[n + 1] = sum[n] + d
    BY <2>1, <2>2
  <2> QED
    BY <2>2
<1>2. T \in SUBSET Nat
  <2>1. \A j \in 0 .. n + 1 : j \in Nat
    OBVIOUS
  <2> QED
    BY <2>1, Zenon
<1>3. PICK i \in T : \A j \in T : i <= j
  <2> HIDE DEF T
  <2> QED
    BY <1>1, <1>2, LeastNumber
<1>4. i \in 1 .. n + 1 /\ i - 1 \in 0 .. n + 1
  BY <1>3 DEF IsSum
<1>5. i - 1 \notin T
  <2> HIDE DEF T
  <2> QED
    BY <1>2, <1>3, <1>4
<1>6. /\ sumMore[i] # IF i < p THEN sum[i] ELSE sum[i - 1] + d
      /\ sumMore[i - 1] = IF i - 1 < p THEN sum[i - 1] ELSE sum[(i - 1) - 1] + d
  BY <1>3, <1>4, <1>5
<1> HIDE DEF T
<1>7. sumMore[i] = sumMore[i - 1] + more[i] /\ sumMore[i - 1] \in Nat /\ more[i] \in Nat
  BY <1>4 DEF IsSum
<1>8. CASE i < p
  <2>1. i \in 1 .. n /\ i - 1 < p /\ i - 1 \in 0 .. n
    BY <1>4, <1>8
  <2>2. sum[i] = sum[i - 1] + len[i] /\ more[i] = len[i]
    BY <1>4, <1>8, <2>1 DEF IsSum, OneMore
  <2> QED
    BY <1>6, <1>7, <1>8, <2>1, <2>2
<1>9. CASE i = p
  <2>1. more[i] = d /\ i - 1 < p /\ ~(i < p)
    BY <1>4, <1>9 DEF OneMore
  <2> QED
    BY <1>6, <1>7, <2>1
<1>10. CASE i > p
  <2>1. i - 1 \in 1 .. n /\ ~(i - 1 < p) /\ ~(i < p) /\ i # p /\ (i - 1) - 1 \in 0 .. n
    BY <1>4, <1>10
  <2>2. sum[i - 1] = sum[(i - 1) - 1] + len[i - 1] /\ more[i] = len[i - 1]
    BY <1>4, <2>1 DEF IsSum, OneMore
  <2>3. sum[(i - 1) - 1] \in Nat /\ len[i - 1] \in Nat
    BY <2>1
  <2> QED
    BY <1>6, <1>7, <2>1, <2>2, <2>3
<1> QED
  BY <1>4, <1>8, <1>9, <1>10

(* low has the first half of the numbers of len, up the others.            *)
TwoParts(len, low, up, half, rest) ==
  /\ \A i \in 1 .. half : low[i] = len[i]
  /\ \A i \in 1 .. rest : up[i] = len[half + i]

LEMMA SumOfParts ==
  ASSUME NEW half \in Nat, NEW rest \in Nat,
         NEW len \in [1 .. half + rest -> Nat], NEW low \in [1 .. half -> Nat],
         NEW up \in [1 .. rest -> Nat], TwoParts(len, low, up, half, rest),
         NEW sum \in [0 .. half + rest -> Nat], IsSum(sum, len, half + rest),
         NEW sumLow \in [0 .. half -> Nat], IsSum(sumLow, low, half),
         NEW sumUp \in [0 .. rest -> Nat], IsSum(sumUp, up, rest)
  PROVE  sum[half + rest] = sumLow[half] + sumUp[rest]
<1>1. sum[half] = sumLow[half]
  <2> DEFINE T == {i \in 0 .. half : sum[i] # sumLow[i]}
  <2>1. SUFFICES ASSUME T # {} PROVE FALSE
    <3>1. half \in 0 .. half
      OBVIOUS
    <3> QED
      BY <3>1, Zenon
  <2>2. T \in SUBSET Nat
    <3>1. \A j \in 0 .. half : j \in Nat
      OBVIOUS
    <3> QED
      BY <3>1, Zenon
  <2>3. PICK i \in T : \A j \in T : i <= j
    <3> HIDE DEF T
    <3> QED
      BY <2>1, <2>2, LeastNumber
  <2>4. i \in 1 .. half /\ i - 1 \in 0 .. half
    BY <2>3 DEF IsSum
  <2>5. i - 1 \notin T
    <3> HIDE DEF T
    <3> QED
      BY <2>2, <2>3, <2>4
  <2>6. sum[i - 1] = sumLow[i - 1] /\ sum[i] # sumLow[i]
    BY <2>3, <2>4, <2>5
  <2> HIDE DEF T
  <2>7. i \in 1 .. half + rest
    BY <2>4
  <2>8. sum[i] = sum[i - 1] + len[i] /\ sumLow[i] = sumLow[i - 1] + low[i] /\ low[i] = len[i]
    BY <2>4, <2>7 DEF IsSum, TwoParts
  <2> QED
    BY <2>6, <2>8
<1>2. sum[half + rest] = sum[half] + sumUp[rest]
  <2> DEFINE T == {i \in 0 .. rest : sum[half + i] # sum[half] + sumUp[i]}
  <2>1. SUFFICES ASSUME T # {} PROVE FALSE
    <3>1. rest \in 0 .. rest
      OBVIOUS
    <3> QED
      BY <3>1, Zenon
  <2>2. T \in SUBSET Nat
    <3>1. \A j \in 0 .. rest : j \in Nat
      OBVIOUS
    <3> QED
      BY <3>1, Zenon
  <2>3. PICK i \in T : \A j \in T : i <= j
    <3> HIDE DEF T
    <3> QED
      BY <2>1, <2>2, LeastNumber
  <2>4. i \in 1 .. rest /\ i - 1 \in 0 .. rest
    <3>1. half + 0 = half /\ half \in 0 .. half + rest
      OBVIOUS
    <3>2. sum[half] \in Nat /\ sumUp[0] = 0
      BY <3>1 DEF IsSum
    <3>3. 0 \notin T
      BY <3>1, <3>2
    <3>4. i \in 0 .. rest /\ i # 0
      BY <2>3, <3>3
    <3> QED
      BY <3>4
  <2>5. i - 1 \notin T
    <3> HIDE DEF T
    <3> QED
      BY <2>2, <2>3, <2>4
  <2>6. sum[half + (i - 1)] = sum[half] + sumUp[i - 1] /\ sum[half + i] # sum[half] + sumUp[i]
    BY <2>3, <2>4, <2>5
  <2> HIDE DEF T
  <2>7. half + i \in 1 .. half + rest /\ (half + i) - 1 = half + (i - 1)
    BY <2>4
  <2>8. /\ sum[half + i] = sum[half + (i - 1)] + len[half + i]
        /\ sumUp[i] = sumUp[i - 1] + up[i] /\ up[i] = len[half + i]
    BY <2>4, <2>7 DEF IsSum, TwoParts
  <2>9. sum[half] \in Nat /\ sumUp[i - 1] \in Nat /\ up[i] \in Nat
    BY <2>4
  <2>10. sum[half + i] = (sum[half] + sumUp[i - 1]) + up[i]
    BY <2>6, <2>8, Zenon
  <2>11. sumUp[i] = sumUp[i - 1] + up[i]
    BY <2>8
  <2>12. (sum[half] + sumUp[i - 1]) + up[i] = sum[half] + (sumUp[i - 1] + up[i])
    BY <2>9
  <2> QED
    BY <2>6, <2>10, <2>11, <2>12, Zenon
<1> QED
  BY <1>1, <1>2

(* The lengths of lists, and what they add up to.                          *)
Lengths(lists) == [i \in 1 .. Len(lists) |-> Len(lists[i])]

LEMMA FlattenIsSum ==
  ASSUME NEW S, NEW lists \in Seq(Seq(S))
  PROVE  /\ Len(lists) \in Nat
         /\ Lengths(lists) \in [1 .. Len(lists) -> Nat]
         /\ \E sum \in [0 .. Len(lists) -> Nat] :
              IsSum(sum, Lengths(lists), Len(lists)) /\ Len(FlattenSeq(lists)) = sum[Len(lists)]
<1>1. Len(lists) \in Nat /\ \A i \in 1 .. Len(lists) : Len(lists[i]) \in Nat
  OBVIOUS
<1>2. Lengths(lists) \in [1 .. Len(lists) -> Nat]
  BY <1>1 DEF Lengths
<1>3. PICK sum \in [0 .. Len(lists) -> Nat] : Sums(lists, sum)
  BY SumsExist
<1>4. Len(FlattenSeq(lists)) = sum[Len(lists)]
  BY <1>3, FlattenLength
<1>5. IsSum(sum, Lengths(lists), Len(lists))
  BY <1>3 DEF IsSum, Sums, Lengths
<1> QED
  BY <1>1, <1>2, <1>4, <1>5

LEMMA FlattenInserted ==
  ASSUME NEW S, NEW lists \in Seq(Seq(S)), NEW more \in Seq(Seq(S)),
         NEW p \in 1 .. Len(lists) + 1, NEW e \in Seq(S), Len(more) = Len(lists) + 1,
         \A i \in 1 .. Len(lists) + 1 :
           more[i] = IF i < p THEN lists[i] ELSE IF i = p THEN e ELSE lists[i - 1]
  PROVE  /\ Len(FlattenSeq(more)) = Len(FlattenSeq(lists)) + Len(e)
         /\ Len(FlattenSeq(lists)) \in Nat /\ Len(FlattenSeq(more)) \in Nat
<1>1. PICK n \in Nat : n = Len(lists)
  OBVIOUS
<1>2. PICK sum \in [0 .. n -> Nat] :
        IsSum(sum, Lengths(lists), n) /\ Len(FlattenSeq(lists)) = sum[n]
  BY <1>1, FlattenIsSum
<1>3. PICK sumMore \in [0 .. n + 1 -> Nat] :
        IsSum(sumMore, Lengths(more), n + 1) /\ Len(FlattenSeq(more)) = sumMore[n + 1]
  BY <1>1, FlattenIsSum
<1>4. Lengths(lists) \in [1 .. n -> Nat] /\ Lengths(more) \in [1 .. n + 1 -> Nat]
  BY <1>1, FlattenIsSum
<1>5. OneMore(Lengths(lists), Lengths(more), n, p, Len(e))
  <2> SUFFICES ASSUME NEW i \in 1 .. n + 1
               PROVE  Lengths(more)[i] = IF i < p THEN Lengths(lists)[i]
                                         ELSE IF i = p THEN Len(e) ELSE Lengths(lists)[i - 1]
    BY DEF OneMore
  <2>1. Lengths(more)[i] = Len(more[i]) /\ \A j \in 1 .. n : Lengths(lists)[j] = Len(lists[j])
    BY <1>1 DEF Lengths
  <2>2. more[i] = IF i < p THEN lists[i] ELSE IF i = p THEN e ELSE lists[i - 1]
    BY <1>1
  <2>3. CASE i < p
    <3>1. i \in 1 .. n
      BY <1>1, <2>3
    <3> QED
      BY <2>1, <2>2, <2>3, <3>1
  <2>4. CASE i = p
    BY <2>1, <2>2, <2>4
  <2>5. CASE i > p
    <3>1. i - 1 \in 1 .. n /\ ~(i < p) /\ i # p
      BY <1>1, <2>5
    <3> QED
      BY <2>1, <2>2, <3>1
  <2> QED
    BY <1>1, <2>3, <2>4, <2>5
<1>6. Len(e) \in Nat /\ p \in 1 .. n + 1
  BY <1>1
<1>7. sumMore[n + 1] = sum[n] + Len(e)
  BY <1>2, <1>3, <1>4, <1>5, <1>6, SumInserted
<1>8. sumMore[n + 1] \in Nat /\ sum[n] \in Nat
  OBVIOUS
<1> QED
  BY <1>2, <1>3, <1>7, <1>8

(* lower has the first lists and upper the others.                         *)
Parted(lists, lower, upper) ==
  /\ Len(lists) = Len(lower) + Len(upper)
  /\ \A i \in 1 .. Len(lower) : lower[i] = lists[i]
  /\ \A i \in 1 .. Len(upper) : upper[i] = lists[Len(lower) + i]

LEMMA FlattenHalves ==
  ASSUME NEW S, NEW lists \in Seq(Seq(S)), NEW lower \in Seq(Seq(S)), NEW upper \in Seq(Seq(S)),
         Parted(lists, lower, upper)
  PROVE  /\ Len(FlattenSeq(lists)) = Len(FlattenSeq(lower)) + Len(FlattenSeq(upper))
         /\ Len(FlattenSeq(lower)) \in Nat /\ Len(FlattenSeq(upper)) \in Nat
<1>1. PICK half \in Nat : half = Len(lower)
  OBVIOUS
<1>2. PICK rest \in Nat : rest = Len(upper)
  OBVIOUS
<1>3. Len(lists) = half + rest
  BY <1>1, <1>2 DEF Parted
<1>4. PICK sum \in [0 .. half + rest -> Nat] :
        IsSum(sum, Lengths(lists), half + rest) /\ Len(FlattenSeq(lists)) = sum[half + rest]
  BY <1>3, FlattenIsSum
<1>5. PICK sumLow \in [0 .. half -> Nat] :
        IsSum(sumLow, Lengths(lower), half) /\ Len(FlattenSeq(lower)) = sumLow[half]
  BY <1>1, FlattenIsSum
<1>6. PICK sumUp \in [0 .. rest -> Nat] :
        IsSum(sumUp, Lengths(upper), rest) /\ Len(FlattenSeq(upper)) = sumUp[rest]
  BY <1>2, FlattenIsSum
<1>7. /\ Lengths(lists) \in [1 .. half + rest -> Nat]
      /\ Lengths(lower) \in [1 .. half -> Nat] /\ Lengths(upper) \in [1 .. rest -> Nat]
  <2>1. Lengths(lists) \in [1 .. half + rest -> Nat]
    BY <1>3, FlattenIsSum
  <2>2. Lengths(lower) \in [1 .. half -> Nat]
    BY <1>1, FlattenIsSum
  <2>3. Lengths(upper) \in [1 .. rest -> Nat]
    BY <1>2, FlattenIsSum
  <2> QED
    BY <2>1, <2>2, <2>3
<1>8. TwoParts(Lengths(lists), Lengths(lower), Lengths(upper), half, rest)
  <2>1. ASSUME NEW i \in 1 .. half
        PROVE  Lengths(lower)[i] = Lengths(lists)[i]
    <3>1. i \in 1 .. half + rest
      BY ONLY half \in Nat, rest \in Nat, i \in 1 .. half
    <3>2. \A j \in 1 .. Len(lower) : lower[j] = lists[j]
      BY DEF Parted
    <3>3. lower[i] = lists[i]
      BY ONLY <1>1, <3>2, i \in 1 .. half
    <3> QED
      BY ONLY <1>1, <1>3, <3>1, <3>3, i \in 1 .. half DEF Lengths
  <2>2. ASSUME NEW i \in 1 .. rest
        PROVE  Lengths(upper)[i] = Lengths(lists)[half + i]
    <3>1. half + i \in 1 .. half + rest
      BY ONLY half \in Nat, rest \in Nat, i \in 1 .. rest
    <3>2. \A j \in 1 .. Len(upper) : upper[j] = lists[Len(lower) + j]
      BY DEF Parted
    <3>3. upper[i] = lists[half + i]
      BY ONLY <1>1, <1>2, <3>2, i \in 1 .. rest
    <3> QED
      BY ONLY <1>2, <1>3, <3>1, <3>3, i \in 1 .. rest DEF Lengths
  <2> QED
    BY <2>1, <2>2 DEF TwoParts
<1>9. sum[half + rest] = sumLow[half] + sumUp[rest]
  BY <1>4, <1>5, <1>6, <1>7, <1>8, SumOfParts
<1>10. sumLow[half] \in Nat /\ sumUp[rest] \in Nat
  OBVIOUS
<1> QED
  BY <1>4, <1>5, <1>6, <1>9, <1>10

=============================================================================
