---------------------------- MODULE SPFileProofs ----------------------------
(***************************************************************************)
(* The Slotted Page layer, for every size of a page, of its header and of  *)
(* its slots, all records and texts and any number of buffers: IInv is     *)
(* kept by every action, and with it what SPFileProps says of the layout   *)
(* of pages, of buffers, of searches and of who changes records; together  *)
(* with ConvertedSoFar, that a convert keeps the text.                     *)
(***************************************************************************)
EXTENDS SPFileProps, SequenceProofs, FiniteSetTheorems

(* Operations on one page.                                                 *)
LEMMA InitPageLaidOut ==
  SP_InitPage \in SlottedPageType /\ LayoutOK(SP_InitPage)
<1>1. SP_InitPage \in SlottedPageType
  BY PageAssumption DEF SP_InitPage, SlottedPageType
<1>2. SlotArrayEnd(SP_InitPage) = HeaderSize
  BY PageAssumption DEF SP_InitPage, SlotArrayEnd
<1>3. LiveSlots(SP_InitPage) = {}
  BY DEF SP_InitPage, LiveSlots
<1> QED
  BY <1>1, <1>2, <1>3, PageAssumption DEF LayoutOK, SP_InitPage

LEMMA InsertLaidOut ==
  ASSUME NEW q \in SlottedPageType, LayoutOK(q), NEW rec \in Records,
         ~PageFull(q, rec)
  PROVE  /\ SP_InsertRecord(q, rec) \in SlottedPageType
         /\ LayoutOK(SP_InsertRecord(q, rec))
<1> DEFINE n == Len(q.slots)
           free == q.freeSpacePtr
           len == RecLen[rec]
           slot == [offset |-> free - len, length |-> len, record |-> rec]
           next == SP_InsertRecord(q, rec)
<1>1. /\ n \in Nat /\ free \in 0 .. PageSize /\ len \in Nat
      /\ q.slots \in Seq(Slot) /\ HeaderSize \in Nat /\ SlotSize \in Nat /\ PageSize \in Nat
  BY PageAssumption, RecordsAssumption DEF SlottedPageType
<1>2. n * SlotSize \in Nat /\ (n + 1) * SlotSize = n * SlotSize + SlotSize
  <2> HIDE DEF n
  <2> QED
    BY <1>1
<1>3. HeaderSize + n * SlotSize + SlotSize + len <= free
  <2>1. free - (HeaderSize + n * SlotSize) >= len + SlotSize
    <3>1. ~(free - (HeaderSize + n * SlotSize) < len + SlotSize)
      BY DEF PageFull, SP_GetFreeSpace, SlotArrayEnd
    <3> HIDE DEF n, free, len
    <3> QED
      BY <3>1, <1>1, <1>2
  <2> HIDE DEF n, free, len
  <2> QED
    BY <2>1, <1>1, <1>2
<1>4. free - len \in 0 .. PageSize /\ len \in 0 .. PageSize
  <2> HIDE DEF n, free, len
  <2> QED
    BY <1>1, <1>2, <1>3
<1>5. slot \in Slot
  <2>1. free - len \in -1 .. PageSize
    BY <1>1, <1>4
  <2> QED
    BY <1>4, <2>1 DEF Slot
<1>6. next = [slots |-> Append(q.slots, slot), freeSpacePtr |-> free - len]
  BY DEF SP_InsertRecord
<1>7. next \in SlottedPageType
  BY <1>1, <1>4, <1>5, <1>6 DEF SlottedPageType
<1>8. /\ Len(next.slots) = n + 1 /\ next.slots[n + 1] = slot
      /\ \A i \in 1 .. n : next.slots[i] = q.slots[i]
      /\ DOMAIN next.slots = 1 .. n + 1 /\ DOMAIN q.slots = 1 .. n
      /\ next.freeSpacePtr = free - len
  BY <1>1, <1>5, <1>6
<1>9. SlotArrayEnd(next) <= next.freeSpacePtr
  <2>1. SlotArrayEnd(next) = HeaderSize + (n + 1) * SlotSize
    BY <1>8 DEF SlotArrayEnd
  <2> HIDE DEF n, free, len, next
  <2> QED
    BY <2>1, <1>1, <1>2, <1>3, <1>8
<1>10. LiveSlots(next) = LiveSlots(q) \cup {n + 1} /\ LiveSlots(q) \subseteq 1 .. n
  <2>1. slot.offset # -1
    BY <1>4
  <2>2. 1 .. n + 1 = (1 .. n) \cup {n + 1}
    BY <1>1
  <2> HIDE DEF next, slot, n
  <2> QED
    BY <2>1, <2>2, <1>8 DEF LiveSlots
<1>11. /\ \A i \in 1 .. n : q.slots[i] \in Slot
       /\ \A i \in LiveSlots(q) :
            /\ free <= q.slots[i].offset /\ q.slots[i].offset + q.slots[i].length <= PageSize
            /\ q.slots[i].length = RecLen[q.slots[i].record]
            /\ q.slots[i].offset \in Int /\ q.slots[i].length \in Nat
       /\ \A i, j \in LiveSlots(q) : i < j =>
            q.slots[j].offset + q.slots[j].length <= q.slots[i].offset
  <2>1. \A i \in 1 .. n : q.slots[i] \in Slot
    BY <1>1
  <2>2. \A i \in LiveSlots(q) : q.slots[i].offset \in Int /\ q.slots[i].length \in Nat
    BY <1>1, <1>10, <2>1, SMTT(30) DEF Slot
  <2> QED
    BY <2>1, <2>2 DEF LayoutOK
<1>12. ASSUME NEW i \in LiveSlots(next)
       PROVE  /\ next.freeSpacePtr <= next.slots[i].offset
              /\ next.slots[i].offset + next.slots[i].length <= PageSize
              /\ next.slots[i].length = RecLen[next.slots[i].record]
  <2>1. CASE i = n + 1
    BY <2>1, <1>1, <1>8
  <2>2. CASE i \in LiveSlots(q)
    <3>1. next.slots[i] = q.slots[i]
      BY <2>2, <1>8, <1>10
    <3> HIDE DEF next
    <3> QED
      BY <2>2, <3>1, <1>1, <1>8, <1>11
  <2> QED
    BY <2>1, <2>2, <1>10
<1>13. ASSUME NEW i \in LiveSlots(next), NEW j \in LiveSlots(next), i < j
       PROVE  next.slots[j].offset + next.slots[j].length <= next.slots[i].offset
  <2>1. i \in LiveSlots(q) /\ next.slots[i] = q.slots[i]
    BY <1>1, <1>8, <1>10, <1>13
  <2>2. CASE j = n + 1
    <3>1. next.slots[j].offset + next.slots[j].length = free
      BY <2>2, <1>1, <1>8
    <3> HIDE DEF next
    <3> QED
      BY <2>1, <3>1, <1>11
  <2>3. CASE j \in LiveSlots(q)
    <3>1. next.slots[j] = q.slots[j]
      BY <2>3, <1>8, <1>10
    <3> HIDE DEF next
    <3> QED
      BY <2>1, <2>3, <3>1, <1>11, <1>13
  <2> QED
    BY <2>2, <2>3, <1>10
<1> HIDE DEF next
<1>14. LayoutOK(next)
  BY <1>9, <1>12, <1>13 DEF LayoutOK
<1> QED
  BY <1>7, <1>14 DEF next

LEMMA DeletedRecord ==
  ASSUME NEW q \in SlottedPageType, NEW slotID
  PROVE  /\ SP_DeleteRecord(q, slotID) =
              [slots |-> [q.slots EXCEPT ![slotID] = Deleted], freeSpacePtr |-> q.freeSpacePtr]
         /\ q.slots \in Seq(Slot)
  BY SMTT(30) DEF SP_DeleteRecord, SlottedPageType

LEMMA DeleteLaidOut ==
  ASSUME NEW q \in SlottedPageType, LayoutOK(q), NEW slotID
  PROVE  /\ SP_DeleteRecord(q, slotID) \in SlottedPageType
         /\ LayoutOK(SP_DeleteRecord(q, slotID))
<1> DEFINE next == SP_DeleteRecord(q, slotID)
<1>1. Deleted \in Slot /\ Deleted.offset = -1
  BY PageAssumption DEF Deleted, Slot
<1>2. /\ next = [slots |-> [q.slots EXCEPT ![slotID] = Deleted], freeSpacePtr |-> q.freeSpacePtr]
      /\ q.slots \in Seq(Slot)
  BY DeletedRecord
<1>3. [q.slots EXCEPT ![slotID] = Deleted] \in Seq(Slot)
  <2> DEFINE n == Len(q.slots)
             kept == [q.slots EXCEPT ![slotID] = Deleted]
  <2>1. n \in Nat /\ DOMAIN q.slots = 1 .. n /\ \A i \in 1 .. n : q.slots[i] \in Slot
    BY <1>2
  <2>2. kept = [i \in 1 .. n |-> IF i = slotID THEN Deleted ELSE q.slots[i]]
    BY <2>1
  <2>3. \A i \in 1 .. n : (IF i = slotID THEN Deleted ELSE q.slots[i]) \in Slot
    BY <1>1, <2>1
  <2> HIDE DEF n, kept
  <2>4. kept \in [1 .. n -> Slot]
    BY <2>2, <2>3
  <2>5. kept \in Seq(Slot)
    BY <2>1, <2>4
  <2> QED
    BY <2>5 DEF kept
<1>4. next \in SlottedPageType
  BY <1>2, <1>3 DEF SlottedPageType
<1>5. /\ DOMAIN next.slots = DOMAIN q.slots /\ Len(next.slots) = Len(q.slots)
      /\ \A i \in DOMAIN q.slots :
           next.slots[i] = IF i = slotID THEN Deleted ELSE q.slots[i]
      /\ next.freeSpacePtr = q.freeSpacePtr
  BY <1>2, <1>3
<1> HIDE DEF next
<1>6. \A i \in LiveSlots(next) : i \in LiveSlots(q) /\ next.slots[i] = q.slots[i]
  BY <1>1, <1>5 DEF LiveSlots
<1>7. SlotArrayEnd(next) = SlotArrayEnd(q)
  BY <1>5 DEF SlotArrayEnd
<1>8. LayoutOK(next)
  BY <1>5, <1>6, <1>7 DEF LayoutOK
<1> QED
  BY <1>4, <1>8 DEF next

(* What a loop over SP_GetNextRecord visits, by the least slot from which  *)
(* on it would visit other slots than those that are not deleted.          *)
LEMMA LiveSlotsFinite ==
  ASSUME NEW q \in SlottedPageType
  PROVE  /\ LiveSlots(q) \subseteq 1 .. Len(q.slots) /\ Len(q.slots) \in Nat
         /\ IsFiniteSet(LiveSlots(q)) /\ Cardinality(LiveSlots(q)) \in Nat
<1>1. q.slots \in Seq(Slot)
  BY DEF SlottedPageType
<1>2. LiveSlots(q) \subseteq 1 .. Len(q.slots) /\ Len(q.slots) \in Nat
  BY <1>1 DEF LiveSlots
<1>3. IsFiniteSet(1 .. Len(q.slots))
  BY <1>2, FS_Interval
<1> QED
  BY <1>2, <1>3, FS_Subset, FS_CardinalityType

LEMMA NextRecord ==
  ASSUME NEW q \in SlottedPageType, NEW slotID \in Nat
  PROVE  IF \E j \in LiveSlots(q) : j > slotID
         THEN \E i \in LiveSlots(q) :
                /\ SP_GetNextRecord(q, slotID) = {i} /\ i > slotID
                /\ \A j \in LiveSlots(q) : j > slotID => i <= j
         ELSE SP_GetNextRecord(q, slotID) = {}
<1>1. LiveSlots(q) \subseteq 1 .. Len(q.slots) /\ Len(q.slots) \in Nat
  BY LiveSlotsFinite
<1>2. CASE \E j \in LiveSlots(q) : j > slotID
  <2> DEFINE T == {j \in LiveSlots(q) : j > slotID}
  <2>1. PICK i \in T : \A j \in T : i <= j
    <3>1. T \in SUBSET Nat /\ T # {}
      BY <1>1, <1>2
    <3> HIDE DEF T
    <3> QED
      BY <3>1, LeastNumber
  <2>2. \A k \in SP_GetNextRecord(q, slotID) : k = i
    BY <1>1, <2>1 DEF SP_GetNextRecord
  <2>3. i \in SP_GetNextRecord(q, slotID)
    BY <2>1 DEF SP_GetNextRecord
  <2>4. SP_GetNextRecord(q, slotID) = {i}
    BY <2>2, <2>3
  <2> QED
    BY <1>2, <2>1, <2>4
<1>3. CASE ~\E j \in LiveSlots(q) : j > slotID
  BY <1>3 DEF SP_GetNextRecord
<1> QED
  BY <1>2, <1>3

LEMMA VisitsLiveSlots ==
  ASSUME NEW q \in SlottedPageType
  PROVE  Visited(q) = LiveSlots(q)
<1> DEFINE n == Len(q.slots)
           Rest(next, i) == LET s == SP_GetNextRecord(q, i)
                            IN IF s = {} THEN {} ELSE s \cup next[CHOOSE j \in s : TRUE]
           IsVisit(next) == next = [i \in 0 .. n |-> LET s == SP_GetNextRecord(q, i)
                            IN IF s = {} THEN {} ELSE s \cup next[CHOOSE j \in s : TRUE]]
           later == [i \in 0 .. n |-> {j \in LiveSlots(q) : j > i}]
           visit == CHOOSE next : IsVisit(next)
<1>1. LiveSlots(q) \subseteq 1 .. n /\ n \in Nat
  BY LiveSlotsFinite
<1>2. ASSUME NEW i \in 0 .. n, NEW next,
             \A j \in i + 1 .. n : next[j] = {k \in LiveSlots(q) : k > j}
      PROVE  Rest(next, i) = {j \in LiveSlots(q) : j > i}
  <2>1. i \in Nat
    BY <1>1
  <2>2. CASE \E j \in LiveSlots(q) : j > i
    <3>1. PICK k \in LiveSlots(q) :
            /\ SP_GetNextRecord(q, i) = {k} /\ k > i
            /\ \A j \in LiveSlots(q) : j > i => k <= j
      BY <2>1, <2>2, NextRecord
    <3>2. (CHOOSE j \in SP_GetNextRecord(q, i) : TRUE) = k
      BY <3>1
    <3>3. k \in i + 1 .. n
      BY <1>1, <2>1, <3>1
    <3>4. Rest(next, i) = {k} \cup next[k]
      BY <3>1, <3>2
    <3>5. next[k] = {j \in LiveSlots(q) : j > k}
      BY <1>2, <3>3
    <3> HIDE DEF Rest, n
    <3> QED
      BY <1>1, <2>1, <3>1, <3>3, <3>4, <3>5
  <2>3. CASE ~\E j \in LiveSlots(q) : j > i
    <3>1. SP_GetNextRecord(q, i) = {}
      BY <2>1, <2>3, NextRecord
    <3>2. Rest(next, i) = {}
      BY <3>1
    <3> HIDE DEF Rest, n
    <3> QED
      BY <2>3, <3>2
  <2> QED
    BY <2>2, <2>3
<1>3. IsVisit(later)
  <2>1. \A i \in 0 .. n : \A j \in i + 1 .. n : later[j] = {k \in LiveSlots(q) : k > j}
    BY <1>1
  <2>2. \A i \in 0 .. n : Rest(later, i) = {j \in LiveSlots(q) : j > i}
    <3> HIDE DEF later, Rest, n
    <3> QED
      BY <1>2, <2>1
  <2>3. \A i \in 0 .. n : later[i] = Rest(later, i)
    <3> HIDE DEF Rest
    <3> QED
      BY <2>2
  <2>4. later = [i \in 0 .. n |-> later[i]]
    OBVIOUS
  <2> HIDE DEF later
  <2> QED
    BY <2>3, <2>4
<1>4. IsVisit(visit)
  <2> HIDE DEF IsVisit, later
  <2> QED
    BY <1>3
<1>5. \A i \in 0 .. n : visit[i] = Rest(visit, i)
  <2> HIDE DEF visit
  <2> QED
    BY <1>4
<1> HIDE DEF visit, IsVisit
<1>6. \A i \in 0 .. n : visit[i] = {j \in LiveSlots(q) : j > i}
  <2> HIDE DEF Rest
  <2> DEFINE T == {m \in 0 .. n : visit[n - m] # {j \in LiveSlots(q) : j > n - m}}
  <2>1. CASE T = {}
    <3>1. \A i \in 0 .. n : n - i \in 0 .. n /\ n - (n - i) = i
      BY <1>1
    <3> HIDE DEF n
    <3> QED
      BY <2>1, <3>1
  <2>2. CASE T # {}
    <3>1. T \in SUBSET Nat
      OBVIOUS
    <3>2. PICK m \in T : \A y \in T : m <= y
      <4> HIDE DEF T
      <4> QED
        BY <2>2, <3>1, LeastNumber
    <3>3. m \in 0 .. n /\ n - m \in 0 .. n
      BY <1>1, <3>2
    <3>4. ASSUME NEW j \in (n - m) + 1 .. n
          PROVE  visit[j] = {k \in LiveSlots(q) : k > j}
      <4>1. n - j \in 0 .. n /\ n - j < m /\ n - (n - j) = j
        BY <1>1, <3>3
      <4>2. n - j \notin T
        <5> HIDE DEF T
        <5> QED
          BY <1>1, <3>2, <3>3, <4>1
      <4> HIDE DEF n
      <4> QED
        BY <4>1, <4>2
    <3>5. Rest(visit, n - m) = {j \in LiveSlots(q) : j > n - m}
      BY <1>2, <3>3, <3>4
    <3> HIDE DEF n
    <3> QED
      BY <1>5, <3>2, <3>3, <3>5
  <2> QED
    BY <2>1, <2>2
<1>7. visit[0] = LiveSlots(q)
  <2>1. 0 \in 0 .. n /\ \A j \in LiveSlots(q) : j > 0
    BY <1>1
  <2> QED
    BY <1>6, <2>1
<1>8. Visited(q) = visit[0]
  BY Zenon DEF Visited, visit, IsVisit, n
<1> QED
  BY <1>7, <1>8

-----------------------------------------------------------------------------
(***************************************************************************)
(* IInv has a part that is about the pages, in the buffer and on disk, and *)
(* one about the call.                                                     *)
(***************************************************************************)
PageOK(q) == q \in SlottedPageType /\ LayoutOK(q)

PagesOK(p, d, marked) ==
  /\ \E n \in 0 .. MaxPages : p \in [0 .. n - 1 -> SlottedPageType]
  /\ DOMAIN d = DOMAIN p /\ marked \subseteq DOMAIN p
  /\ \A pg \in DOMAIN p :
       /\ PageOK(p[pg])
       /\ IF d[pg] = Absent THEN pg \in marked ELSE PageOK(d[pg])
       /\ RecordsFit /\ pg \notin marked => p[pg] = d[pg]

CallsOK ==
  /\ file \in {"none", "closed", "open", "lost"}
  /\ fixed \subseteq DOMAIN page /\ call \in CallType
  /\ CallOK /\ HeldFixed /\ NotBehind /\ CountedSoFar /\ TwoBuffersSuffice

LEMMA InvParts ==
  IInv <=> PagesOK(page, disk, dirty) /\ CallsOK
<1>1. IInv => PagesOK(page, disk, dirty) /\ CallsOK
  BY DEF IInv, TypeOK, PagesLaidOut, DiskLaidOut, CleanAsOnDisk, PagesOK, PageOK, CallsOK
<1>2. PagesOK(page, disk, dirty) /\ CallsOK => IInv
  BY DEF IInv, TypeOK, PagesLaidOut, DiskLaidOut, CleanAsOnDisk, PagesOK, PageOK, CallsOK
<1> QED
  BY <1>1, <1>2

LEMMA PageNumbers ==
  ASSUME PagesOK(page, disk, dirty)
  PROVE  /\ NumPages \in 0 .. MaxPages /\ MaxPages \in Nat
         /\ page \in [0 .. NumPages - 1 -> SlottedPageType]
         /\ DOMAIN page = 0 .. NumPages - 1 /\ DOMAIN disk = DOMAIN page
<1>1. PICK n \in 0 .. MaxPages : page \in [0 .. n - 1 -> SlottedPageType]
  BY DEF PagesOK
<1>2. n \in Nat /\ n - 1 \in Int /\ DOMAIN page = 0 .. n - 1
  BY <1>1, BoundsAssumption
<1>3. Cardinality(0 .. n - 1) = IF 0 > n - 1 THEN 0 ELSE (n - 1) - 0 + 1
  BY <1>2, FS_Interval
<1>4. NumPages = n
  BY <1>2, <1>3 DEF NumPages
<1> QED
  BY <1>1, <1>2, <1>4, BoundsAssumption DEF PagesOK

(* A page that is read again is as it was, if it was marked when modified. *)
LEMMA RereadOK ==
  ASSUME PagesOK(page, disk, dirty), NEW pg \in DOMAIN page
  PROVE  /\ PageOK(Reread(pg)) /\ Reread(pg) # Absent
         /\ RecordsFit => Reread(pg) = page[pg]
<1>1. PageOK(Reread(pg)) /\ (RecordsFit => Reread(pg) = page[pg])
  BY DEF PagesOK, Reread
<1> QED
  BY <1>1, AbsentAssumption DEF PageOK

LEMMA EvictOK ==
  ASSUME PagesOK(page, disk, dirty), NEW pg \in PageNums, Evict(pg)
  PROVE  PagesOK(page', disk', dirty') /\ (RecordsFit => page' = page)
<1>1. pg \in DOMAIN page
  BY DEF Evict
<1>2. PICK q : q = Reread(pg)
  OBVIOUS
<1>3. PageOK(q) /\ q # Absent /\ (RecordsFit => q = page[pg])
  BY <1>1, <1>2, RereadOK
<1>4. /\ page' = [page EXCEPT ![pg] = q] /\ disk' = [disk EXCEPT ![pg] = q]
      /\ dirty' = dirty \ {pg}
  BY <1>2 DEF Evict
<1>5. PICK n \in 0 .. MaxPages : page \in [0 .. n - 1 -> SlottedPageType]
  BY DEF PagesOK
<1>6. page' \in [0 .. n - 1 -> SlottedPageType] /\ DOMAIN page = 0 .. n - 1
  BY <1>3, <1>4, <1>5 DEF PageOK
<1>7. /\ DOMAIN page' = DOMAIN page /\ DOMAIN disk' = DOMAIN page
      /\ page'[pg] = q /\ disk'[pg] = q
      /\ \A other \in DOMAIN page \ {pg} :
           page'[other] = page[other] /\ disk'[other] = disk[other]
  BY <1>1, <1>4 DEF PagesOK
<1>8. PagesOK(page', disk', dirty')
  BY <1>3, <1>4, <1>5, <1>6, <1>7 DEF PagesOK
<1>9. RecordsFit => page' = page
  BY <1>3, <1>4, <1>5
<1> QED
  BY <1>8, <1>9

(* The writes of PF_CloseFile: page k, if it is one, is marked before.     *)
LEMMA FlushOK ==
  ASSUME PagesOK(page, disk, dirty), NEW k,
         page' = [pg \in DOMAIN page |-> IF pg = k THEN page[pg] ELSE Reread(pg)],
         disk' = page', dirty' = {}
  PROVE  PagesOK(page', disk', dirty') /\ (RecordsFit => page' = page)
<1>1. \A pg \in DOMAIN page : /\ PageOK(page'[pg]) /\ page'[pg] # Absent
                              /\ RecordsFit => page'[pg] = page[pg]
  <2>1. \A pg \in DOMAIN page : PageOK(page[pg]) /\ page[pg] # Absent
    BY AbsentAssumption DEF PagesOK, PageOK
  <2>2. \A pg \in DOMAIN page : /\ PageOK(Reread(pg)) /\ Reread(pg) # Absent
                                /\ RecordsFit => Reread(pg) = page[pg]
    BY RereadOK
  <2> QED
    BY <2>1, <2>2
<1>2. PICK n \in 0 .. MaxPages : page \in [0 .. n - 1 -> SlottedPageType]
  BY DEF PagesOK
<1>3. DOMAIN page = 0 .. n - 1 /\ DOMAIN page' = 0 .. n - 1
  BY <1>2
<1>4. page' \in [0 .. n - 1 -> SlottedPageType]
  BY <1>1, <1>3 DEF PageOK
<1>5. PagesOK(page', disk', dirty')
  BY <1>1, <1>2, <1>3, <1>4 DEF PagesOK
<1>6. RecordsFit => page' = page
  BY <1>1, <1>2, <1>3, <1>4
<1> QED
  BY <1>5, <1>6

(* A page is modified, and marked, or is no more what was marked.          *)
LEMMA WriteOK ==
  ASSUME PagesOK(page, disk, dirty), NEW k \in DOMAIN page, NEW q, PageOK(q),
         page' = [page EXCEPT ![k] = q], disk' = disk,
         \/ dirty' = dirty \cup {k}
         \/ dirty' = dirty /\ (RecordsFit => k \in dirty)
  PROVE  PagesOK(page', disk', dirty') /\ DOMAIN page' = DOMAIN page
<1>1. PICK n \in 0 .. MaxPages : page \in [0 .. n - 1 -> SlottedPageType]
  BY DEF PagesOK
<1>2. page' \in [0 .. n - 1 -> SlottedPageType]
  BY <1>1 DEF PageOK
<1>3. /\ DOMAIN page' = DOMAIN page /\ page'[k] = q
      /\ \A other \in DOMAIN page \ {k} : page'[other] = page[other]
  OBVIOUS
<1>4. dirty \subseteq dirty' /\ dirty' \subseteq DOMAIN page /\ (RecordsFit => k \in dirty')
  BY DEF PagesOK
<1> QED
  BY <1>1, <1>2, <1>3, <1>4 DEF PagesOK

(* A new page, at the end of the file, is marked.                          *)
LEMMA ExtendOK ==
  ASSUME PagesOK(page, disk, dirty), NumPages < MaxPages, NEW q, PageOK(q),
         page' = Extended(page, q), disk' = Extended(disk, Absent),
         NEW marked \in SUBSET DOMAIN page, dirty' = dirty \cup marked \cup {NumPages}
  PROVE  /\ PagesOK(page', disk', dirty')
         /\ DOMAIN page' = DOMAIN page \cup {NumPages}
<1>1. PICK n \in 0 .. MaxPages : n = NumPages
  BY PageNumbers
<1>2. /\ n \in Nat /\ MaxPages \in Nat /\ n < MaxPages
      /\ page \in [0 .. n - 1 -> SlottedPageType] /\ DOMAIN page = 0 .. n - 1
  BY <1>1, PageNumbers
<1>3. n + 1 \in 0 .. MaxPages /\ (0 .. n - 1) \cup {n} = 0 .. (n + 1) - 1 /\ n \notin 0 .. n - 1
  BY <1>2
<1>4. /\ page' = [pg \in DOMAIN page \cup {n} |-> IF pg = n THEN q ELSE page[pg]]
      /\ disk' = [pg \in DOMAIN page \cup {n} |-> IF pg = n THEN Absent ELSE disk[pg]]
      /\ dirty' = dirty \cup marked \cup {n}
  BY <1>1 DEF Extended
<1>5. /\ DOMAIN page' = DOMAIN page \cup {n} /\ DOMAIN disk' = DOMAIN page \cup {n}
      /\ page'[n] = q /\ disk'[n] = Absent
      /\ \A pg \in DOMAIN page : page'[pg] = page[pg] /\ disk'[pg] = disk[pg]
  BY <1>2, <1>3, <1>4
<1>6. page' \in [0 .. (n + 1) - 1 -> SlottedPageType]
  BY <1>2, <1>3, <1>4 DEF PageOK
<1>7. /\ dirty' \subseteq DOMAIN page' /\ n \in dirty' /\ dirty \subseteq dirty'
  BY <1>4, <1>5 DEF PagesOK
<1>8. PagesOK(page', disk', dirty')
  BY <1>3, <1>5, <1>6, <1>7 DEF PagesOK
<1> QED
  BY <1>1, <1>5, <1>8

-----------------------------------------------------------------------------
(***************************************************************************)
(* What a call has fixed.                                                  *)
(***************************************************************************)
LEMMA CallReturns ==
  ASSUME CallsOK, call' = Idle, file' \in {"none", "closed", "open", "lost"},
         fixed' \subseteq DOMAIN page', ~failed' /\ NumBuffers >= 2 => fixed' = {},
         ~failed' /\ NumBuffers >= 2 /\ "err" \in DOMAIN ret' =>
           ret'.err \notin {"NOBUF", "PAGEFIXED"}
  PROVE  CallsOK'
<1>1. call'.op = "idle" /\ call'.at = -1 /\ call'.count = 0
  BY DEF Idle
<1>2. Held' = {}
  BY <1>1 DEF Held
<1>3. HeldFixed' /\ CallOK' /\ NotBehind' /\ CountedSoFar'
  BY <1>1, <1>2 DEF HeldFixed, CallOK, NotBehind, CountedSoFar
<1>4. TwoBuffersSuffice'
  BY DEF TwoBuffersSuffice
<1>5. call' \in CallType'
  BY DEF CallType, Idle, Ops
<1> QED
  BY <1>3, <1>4, <1>5 DEF CallsOK

(* With two buffers and no failure there is always one for the next page.  *)
LEMMA BufferLeft ==
  ASSUME CallsOK, ~failed, NumBuffers >= 2
  PROVE  /\ HasBuffer
         /\ \A pg : pg # call.at => pg \notin fixed
<1>1. fixed = Held /\ Held \subseteq {call.at}
  BY DEF CallsOK, HeldFixed, Held
<1>2. IsFiniteSet({call.at}) /\ Cardinality({call.at}) = 1
  BY FS_Singleton
<1>3. Cardinality(fixed) \in Nat /\ Cardinality(fixed) <= 1
  BY <1>1, <1>2, FS_Subset, FS_CardinalityType
<1> QED
  BY <1>1, <1>3, BoundsAssumption DEF HasBuffer

LEMMA GetFails ==
  ASSUME CallsOK, ~failed, NumBuffers >= 2
  PROVE  /\ call.op # "idle" /\ call.at \in Int => GetErrors(NextPage) \subseteq {"UNIX"}
         /\ AllocErrors \subseteq {"UNIX"}
<1>1. HasBuffer /\ \A pg : pg # call.at => pg \notin fixed
  BY BufferLeft
<1>2. call.at \in Int => NextPage # call.at
  BY DEF NextPage
<1> QED
  BY <1>1, <1>2 DEF GetErrors, AllocErrors

LEMMA AtIsNumber ==
  ASSUME PagesOK(page, disk, dirty), CallsOK
  PROVE  /\ call.at \in -1 .. NumPages - 1 /\ NextPage \in 0 .. NumPages
         /\ (call.at = -1 <=> call.at \notin DOMAIN page)
         /\ NextPage = call.at + 1
         /\ ~AtEOF => NextPage \in DOMAIN page
<1>1. NumPages \in Nat /\ DOMAIN page = 0 .. NumPages - 1
  BY PageNumbers
<1>2. call.at \in {-1} \cup DOMAIN page
  BY DEF CallsOK, CallType
<1> QED
  BY <1>1, <1>2 DEF NextPage, AtEOF

-----------------------------------------------------------------------------
(***************************************************************************)
(* Every action.                                                           *)
(***************************************************************************)
LEMMA CreateKeeps ==
  ASSUME PagesOK(page, disk, dirty), CallsOK, PF_CreateFile
  PROVE  PagesOK(page, disk, dirty)' /\ CallsOK'
<1>1. UNCHANGED <<page, disk, dirty, fixed, call, ret, failed>> /\ file' = "closed"
  BY DEF PF_CreateFile, buffers
<1>2. CallsOK'
  BY <1>1 DEF CallsOK, CallType, CallOK, HeldFixed, Held, NotBehind, Occurs, CountedSoFar,
              IdsIn, TwoBuffersSuffice
<1> QED
  BY <1>1, <1>2 DEF PagesOK

LEMMA OpenKeeps ==
  ASSUME PagesOK(page, disk, dirty), CallsOK, PF_OpenFile
  PROVE  PagesOK(page, disk, dirty)' /\ CallsOK'
<1>1. /\ UNCHANGED <<page, disk, dirty, fixed, call, failed>> /\ file' = "open"
      /\ call = Idle /\ "err" \notin DOMAIN ret'
  BY DEF PF_OpenFile, buffers, NoResult
<1>2. Held = {}
  BY <1>1 DEF Held, Idle
<1>3. CallsOK'
  BY <1>1, <1>2, CallReturns DEF CallsOK, HeldFixed
<1> QED
  BY <1>1, <1>3 DEF PagesOK

LEMMA CloseKeeps ==
  ASSUME PagesOK(page, disk, dirty), CallsOK, PF_CloseFile
  PROVE  /\ PagesOK(page, disk, dirty)' /\ CallsOK'
         /\ RecordsFit => page' = page
<1>1. call = Idle /\ UNCHANGED <<fixed, call, failed>>
  BY DEF PF_CloseFile
<1>2. ~failed /\ NumBuffers >= 2 => fixed = {}
  <2>1. Held = {}
    BY <1>1 DEF Held, Idle
  <2> QED
    BY <2>1 DEF CallsOK, HeldFixed
<1>3. CASE fixed = {}
  <2>1. Flush /\ file' = "closed" /\ ret' = [op |-> "close"]
    BY <1>3 DEF PF_CloseFile
  <2>2. -1 \notin DOMAIN page
    BY PageNumbers
  <2>3. page' = [pg \in DOMAIN page |-> IF pg = -1 THEN page[pg] ELSE Reread(pg)]
    BY <2>1, <2>2 DEF Flush
  <2>4. PagesOK(page, disk, dirty)' /\ (RecordsFit => page' = page)
    BY <2>1, <2>3, FlushOK DEF Flush
  <2>5. CallsOK'
    BY <1>1, <1>3, <2>1, CallReturns
  <2> QED
    BY <2>4, <2>5
<1>4. CASE fixed # {}
  <2>1. UNCHANGED <<file, page, disk, dirty>> /\ ret' = [op |-> "close", err |-> "PAGEFIXED"]
    BY <1>4 DEF PF_CloseFile, buffers
  <2>2. CallsOK'
    BY <1>1, <1>2, <1>4, <2>1, CallReturns DEF CallsOK
  <2> QED
    BY <2>1, <2>2 DEF PagesOK
<1> QED
  BY <1>3, <1>4

LEMMA EvictKeeps ==
  ASSUME PagesOK(page, disk, dirty), CallsOK, NEW pg \in PageNums, Evict(pg)
  PROVE  /\ PagesOK(page, disk, dirty)' /\ CallsOK'
         /\ RecordsFit => page' = page
<1>1. PagesOK(page, disk, dirty)' /\ (RecordsFit => page' = page)
  BY EvictOK
<1>2. /\ UNCHANGED <<file, fixed, call, ret, failed>> /\ DOMAIN page' = DOMAIN page
      /\ dirty' = dirty \ {pg} /\ pg \notin fixed
  BY DEF Evict
<1>3. HeldFixed'
  BY <1>2 DEF CallsOK, HeldFixed, Held
<1>4. NotBehind' /\ CountedSoFar'
  BY <1>1, <1>2 DEF CallsOK, NotBehind, Occurs, CountedSoFar, IdsIn
<1>5. CallOK' /\ TwoBuffersSuffice'
  BY <1>2 DEF CallsOK, CallOK, TwoBuffersSuffice
<1> QED
  BY <1>1, <1>2, <1>3, <1>4, <1>5 DEF CallsOK, CallType

(* A call begins, before the first page of the file.                       *)
LEMMA StartKeeps ==
  ASSUME PagesOK(page, disk, dirty), CallsOK, NEW op \in {"insert", "find", "delete", "scan"},
         NEW rec \in Records \cup {NoRecord}, op # "scan" => rec \in Records, Start(op, rec)
  PROVE  PagesOK(page, disk, dirty)' /\ CallsOK'
<1>1. /\ UNCHANGED <<file, page, disk, dirty, fixed, failed>> /\ call = Idle
      /\ call' = [Idle EXCEPT !.op = op, !.rec = rec] /\ ret' = NoResult
  BY DEF Start, buffers, Call
<1>2. call'.op = op /\ call'.rec = rec /\ call'.at = -1 /\ call'.count = 0
  BY <1>1 DEF Idle
<1>3. Held = {} /\ Held' = {}
  BY <1>1, <1>2 DEF Held, Idle
<1>4. HeldFixed' /\ NotBehind' /\ CallOK'
  BY <1>1, <1>2, <1>3 DEF CallsOK, HeldFixed, NotBehind, CallOK
<1>5. TwoBuffersSuffice'
  BY <1>1, <1>2, <1>3 DEF CallsOK, HeldFixed, TwoBuffersSuffice, Idle, NoResult
<1>6. call' \in CallType'
  BY <1>1 DEF CallType, Idle, Ops
<1>7. CountedSoFar'
  <2>1. IdsIn(0 .. -1)' = {}
    BY DEF IdsIn
  <2> QED
    BY <1>2, <2>1, FS_EmptySet DEF CountedSoFar
<1>8. CallsOK'
  BY <1>1, <1>4, <1>5, <1>6, <1>7 DEF CallsOK
<1> QED
  BY <1>1, <1>8 DEF PagesOK

LEMMA ConvertKeeps ==
  ASSUME PagesOK(page, disk, dirty), CallsOK, NEW text \in Texts, Convert(text)
  PROVE  PagesOK(page, disk, dirty)' /\ CallsOK'
<1>1. /\ UNCHANGED <<page, disk, dirty, fixed, failed>> /\ call = Idle /\ file' = "open"
      /\ call' = [Idle EXCEPT !.op = "convert", !.text = text] /\ ret' = NoResult
  BY DEF Convert, buffers
<1>2. call'.op = "convert" /\ call'.text = text /\ call'.at = -1 /\ call'.count = 0
  BY <1>1 DEF Idle
<1>3. Held = {} /\ Held' = {}
  BY <1>1, <1>2 DEF Held, Idle
<1>4. CallOK'
  BY <1>2, TextsAssumption DEF CallOK
<1>5. HeldFixed' /\ NotBehind' /\ CountedSoFar'
  BY <1>1, <1>2, <1>3 DEF CallsOK, HeldFixed, NotBehind, CountedSoFar
<1>6. TwoBuffersSuffice'
  BY <1>1, <1>2, <1>3 DEF CallsOK, HeldFixed, TwoBuffersSuffice, Idle, NoResult
<1>7. call' \in CallType'
  BY <1>1 DEF CallType, Idle, Ops
<1>8. CallsOK'
  BY <1>1, <1>4, <1>5, <1>6, <1>7 DEF CallsOK
<1> QED
  BY <1>1, <1>8 DEF PagesOK

(* SPconvertTxtToTdb.                                                      *)
LEMMA LineKeeps ==
  ASSUME PagesOK(page, disk, dirty), CallsOK, ConvertLine
  PROVE  PagesOK(page, disk, dirty)' /\ CallsOK'
<1> DEFINE at == call.at
           q == AddLine(page[at], NextLine)
<1>1. /\ call.op = "convert" /\ at # -1 /\ ~ConvertDone /\ LineFits
      /\ page' = [page EXCEPT ![at] = q]
      /\ call' = [call EXCEPT !.count = call.count + 1]
      /\ UNCHANGED <<file, disk, dirty, fixed, ret, failed>>
  BY DEF ConvertLine
<1>2. at \in DOMAIN page /\ at \in dirty
  BY <1>1, AtIsNumber DEF CallsOK, HeldFixed, Held
<1>3. call.text \in Seq(Records \cup {NoRecord}) /\ call.count \in 0 .. Len(call.text) - 1
  BY <1>1, TextsAssumption DEF CallsOK, CallType, CallOK, ConvertDone
<1>4. NextLine \in Records \cup {NoRecord}
  BY <1>3 DEF NextLine
<1>5. PageOK(page[at])
  BY <1>2 DEF PagesOK
<1>6. PageOK(q)
  BY <1>1, <1>4, <1>5, InsertLaidOut DEF AddLine, LineFits, PageOK
<1>7. PagesOK(page, disk, dirty)' /\ DOMAIN page' = DOMAIN page
  <2> HIDE DEF q, at
  <2> QED
    BY <1>1, <1>2, <1>6, WriteOK
<1>8. /\ call'.op = "convert" /\ call'.at = at /\ call'.text = call.text
      /\ call'.count <= Len(call.text) /\ call' \in CallType'
  <2>1. call.count + 1 \in Nat /\ call.count + 1 <= Len(call.text)
    BY <1>3
  <2> QED
    BY <1>1, <1>7, <2>1 DEF CallsOK, CallType
<1>9. HeldFixed' /\ CallOK' /\ NotBehind' /\ CountedSoFar'
  BY <1>1, <1>8 DEF CallsOK, HeldFixed, Held, CallOK, NotBehind, CountedSoFar
<1>10. TwoBuffersSuffice'
  BY <1>1, <1>8 DEF CallsOK, TwoBuffersSuffice, Idle
<1> QED
  BY <1>1, <1>7, <1>8, <1>9, <1>10 DEF CallsOK

LEMMA NewPageKeeps ==
  ASSUME PagesOK(page, disk, dirty), CallsOK, ConvertNewPage
  PROVE  PagesOK(page, disk, dirty)' /\ CallsOK'
<1>1. PICK n \in 0 .. MaxPages : n = NumPages
  BY PageNumbers
<1>2. PICK full \in SUBSET DOMAIN page : full = {call.at} \ {-1}
  BY DEF CallsOK, CallType
<1>3. /\ call.op = "convert" /\ n < MaxPages
      /\ page' = Extended(page, SP_InitPage) /\ disk' = Extended(disk, Absent)
      /\ dirty' = dirty \cup full \cup {n} /\ fixed' = (fixed \ full) \cup {n}
      /\ call' = [call EXCEPT !.at = n]
      /\ UNCHANGED <<file, ret, failed>>
  BY <1>1, <1>2 DEF ConvertNewPage
<1>4. PagesOK(page, disk, dirty)' /\ DOMAIN page' = DOMAIN page \cup {n}
  BY <1>1, <1>3, ExtendOK, InitPageLaidOut DEF PageOK
<1>5. n # -1 /\ n \notin full
  BY <1>1, <1>2, PageNumbers
<1>6. /\ call'.op = "convert" /\ call'.at = n /\ call'.text = call.text
      /\ call'.count = call.count /\ call' \in CallType'
  BY <1>3, <1>4 DEF CallsOK, CallType
<1>7. Held = full /\ Held' = {n}
  BY <1>2, <1>3, <1>5, <1>6 DEF Held
<1>8. ~failed /\ NumBuffers >= 2 => fixed' = {n}
  BY <1>3, <1>7 DEF CallsOK, HeldFixed
<1>9. HeldFixed'
  BY <1>3, <1>7, <1>8 DEF HeldFixed
<1>10. CallOK' /\ NotBehind' /\ CountedSoFar'
  BY <1>3, <1>6 DEF CallsOK, CallOK, NotBehind, CountedSoFar
<1>11. TwoBuffersSuffice'
  BY <1>3, <1>6 DEF CallsOK, TwoBuffersSuffice, Idle
<1>12. fixed' \subseteq DOMAIN page'
  BY <1>3, <1>4 DEF CallsOK
<1> QED
  BY <1>3, <1>4, <1>6, <1>9, <1>10, <1>11, <1>12 DEF CallsOK

LEMMA ConvertCloseOK ==
  ASSUME PagesOK(page, disk, dirty), CallsOK, call.op = "convert", ConvertClose
  PROVE  /\ PagesOK(page, disk, dirty)' /\ DOMAIN page' = DOMAIN page
         /\ fixed' \subseteq DOMAIN page' /\ file' \in {"closed", "lost"}
         /\ ~failed /\ NumBuffers >= 2 => fixed' = {}
<1>1. fixed' = fixed \ {call.at} /\ Held \subseteq {call.at}
  BY DEF ConvertClose, Held
<1>2. fixed' \subseteq DOMAIN page /\ (~failed /\ NumBuffers >= 2 => fixed' = {})
  BY <1>1 DEF CallsOK, HeldFixed
<1>3. CASE file' = "closed" /\ dirty' = {} /\ disk' = page' /\
           page' = [pg \in DOMAIN page |-> IF pg = call.at THEN page[pg] ELSE Reread(pg)]
  <2>1. PagesOK(page, disk, dirty)'
    BY <1>3, FlushOK
  <2>2. DOMAIN page' = DOMAIN page
    BY <1>3
  <2> QED
    BY <1>2, <1>3, <2>1, <2>2
<1>4. CASE /\ file' = "lost" /\ UNCHANGED <<page, disk>>
           /\ dirty' = dirty \cup ({call.at} \ {-1})
  <2>1. {call.at} \ {-1} \subseteq dirty
    BY DEF CallsOK, HeldFixed, Held
  <2> QED
    BY <1>2, <1>4, <2>1 DEF PagesOK
<1> QED
  BY <1>3, <1>4 DEF ConvertClose

LEMMA ConvertEnds ==
  ASSUME PagesOK(page, disk, dirty), CallsOK, ConvertAllocFails \/ ConvertEnd
  PROVE  PagesOK(page, disk, dirty)' /\ CallsOK'
<1>1. call.op = "convert" /\ ConvertClose
  BY DEF ConvertAllocFails, ConvertEnd
<1>2. call' = Idle
  BY DEF ConvertAllocFails, ConvertEnd, Fails, Return
<1>3. failed' \/ (failed' = failed /\ "err" \notin DOMAIN ret')
  <2>1. Fails("UNIX") => failed'
    BY DEF Fails
  <2>2. ConvertEnd => Fails("UNIX") \/ (failed' = failed /\ ret' = [op |-> "convert", text |-> call.text])
    BY DEF ConvertEnd, Return
  <2>3. "err" \notin DOMAIN [op |-> "convert", text |-> call.text]
    OBVIOUS
  <2> QED
    BY <2>1, <2>2, <2>3 DEF ConvertAllocFails
<1> QED
  BY <1>1, <1>2, <1>3, ConvertCloseOK, CallReturns

(* SPinsertRecordByContent.                                                *)
LEMMA InsertScanKeeps ==
  ASSUME PagesOK(page, disk, dirty), CallsOK, InsertScan
  PROVE  PagesOK(page, disk, dirty)' /\ CallsOK'
<1>1. PICK next \in DOMAIN page : next = NextPage
  BY AtIsNumber DEF InsertScan
<1>2. /\ call.op = "insert" /\ fixed' = (fixed \cup {next}) \ {call.at}
      /\ call' = [call EXCEPT !.at = next]
      /\ UNCHANGED <<file, page, disk, dirty, ret, failed>>
  BY <1>1 DEF InsertScan, buffers
<1>3. next # -1 /\ next # call.at
  BY <1>1, AtIsNumber
<1>4. /\ call'.op = "insert" /\ call'.at = next /\ call'.rec = call.rec
      /\ call' \in CallType'
  BY <1>2 DEF CallsOK, CallType
<1>5. Held' = {next} /\ Held \subseteq {call.at}
  BY <1>3, <1>4 DEF Held
<1>6. HeldFixed'
  BY <1>2, <1>3, <1>4, <1>5 DEF CallsOK, HeldFixed
<1>7. CallOK' /\ NotBehind' /\ CountedSoFar'
  BY <1>2, <1>4 DEF CallsOK, CallOK, NotBehind, CountedSoFar
<1>8. TwoBuffersSuffice'
  BY <1>2, <1>4 DEF CallsOK, TwoBuffersSuffice, Idle
<1>9. fixed' \subseteq DOMAIN page'
  BY <1>2 DEF CallsOK
<1> QED
  BY <1>2, <1>4, <1>6, <1>7, <1>8, <1>9 DEF CallsOK, PagesOK

LEMMA InsertIntoOK ==
  ASSUME NEW q, PageOK(q), NEW rec \in Records
  PROVE  PageOK(InsertInto(q, rec))
  BY InsertLaidOut, InitPageLaidOut DEF InsertInto, FitsSomehow, PageOK

LEMMA InsertLastKeeps ==
  ASSUME PagesOK(page, disk, dirty), CallsOK, InsertLast
  PROVE  PagesOK(page, disk, dirty)' /\ CallsOK'
<1> DEFINE at == call.at
           q == InsertInto(page[at], call.rec)
<1>1. /\ call.op = "insert" /\ at # -1 /\ page' = [page EXCEPT ![at] = q]
      /\ dirty' = IF FitsSomehow(call.rec) THEN dirty \cup {at} ELSE dirty
      /\ fixed' = fixed \ {at} /\ call' = Idle /\ ret' = InsertResult(call.rec)
      /\ UNCHANGED <<file, disk, failed>>
  BY DEF InsertLast, Return
<1>2. at \in DOMAIN page /\ call.rec \in Records
  BY <1>1, AtIsNumber DEF CallsOK, CallOK
<1>3. PageOK(q)
  <2>1. PageOK(page[at])
    BY <1>2 DEF PagesOK
  <2> QED
    BY <1>2, <2>1, InsertIntoOK
<1>4. dirty' = dirty \cup {at} \/ (dirty' = dirty /\ (RecordsFit => at \in dirty))
  BY <1>1, <1>2 DEF RecordsFit
<1>5. PagesOK(page, disk, dirty)' /\ DOMAIN page' = DOMAIN page
  <2> HIDE DEF q, at
  <2> QED
    BY <1>1, <1>2, <1>3, <1>4, WriteOK
<1>6. "err" \in DOMAIN ret' => ret'.err = "PAGE_FULL"
  BY <1>1 DEF InsertResult, Error
<1>7. ~failed /\ NumBuffers >= 2 => fixed' = {}
  BY <1>1 DEF CallsOK, HeldFixed, Held
<1>8. fixed' \subseteq DOMAIN page' /\ file' \in {"none", "closed", "open", "lost"}
  BY <1>1, <1>5 DEF CallsOK
<1> QED
  BY <1>1, <1>5, <1>6, <1>7, <1>8, CallReturns

LEMMA InsertFirstKeeps ==
  ASSUME PagesOK(page, disk, dirty), CallsOK, InsertFirst
  PROVE  PagesOK(page, disk, dirty)' /\ CallsOK'
<1>1. /\ call.op = "insert" /\ AtEOF /\ call.at = -1
      /\ page' = Extended(page, InsertInto(SP_InitPage, call.rec))
      /\ disk' = Extended(disk, Absent) /\ dirty' = dirty \cup {NumPages}
      /\ call' = Idle /\ ret' = InsertResult(call.rec)
      /\ UNCHANGED <<file, fixed, failed>>
  BY DEF InsertFirst, Return
<1>2. NumPages < MaxPages
  BY <1>1, BoundsAssumption DEF AtEOF, NextPage
<1>3. PageOK(InsertInto(SP_InitPage, call.rec))
  BY <1>1, InsertIntoOK, InitPageLaidOut DEF CallsOK, CallOK, PageOK
<1>4. PagesOK(page, disk, dirty)' /\ DOMAIN page \subseteq DOMAIN page'
  <2>1. PICK q : q = InsertInto(SP_InitPage, call.rec)
    OBVIOUS
  <2>2. PICK marked \in SUBSET DOMAIN page : marked = {}
    OBVIOUS
  <2>3. /\ PageOK(q) /\ page' = Extended(page, q) /\ disk' = Extended(disk, Absent)
        /\ dirty' = dirty \cup marked \cup {NumPages}
    BY <1>1, <1>3, <2>1, <2>2
  <2>4. PagesOK(page', disk', dirty') /\ DOMAIN page' = DOMAIN page \cup {NumPages}
    BY <1>2, <2>3, ExtendOK
  <2> QED
    BY <2>4
<1>5. "err" \in DOMAIN ret' => ret'.err = "PAGE_FULL"
  BY <1>1 DEF InsertResult, Error
<1>6. ~failed /\ NumBuffers >= 2 => fixed' = {}
  BY <1>1 DEF CallsOK, HeldFixed, Held
<1>7. fixed' \subseteq DOMAIN page' /\ file' \in {"none", "closed", "open", "lost"}
  BY <1>1, <1>4 DEF CallsOK
<1> QED
  BY <1>1, <1>4, <1>5, <1>6, <1>7, CallReturns

LEMMA InsertFails ==
  ASSUME PagesOK(page, disk, dirty), CallsOK, InsertAllocFails \/ ScanFails
  PROVE  PagesOK(page, disk, dirty)' /\ CallsOK'
<1>1. PICK err \in AllocErrors \cup GetErrors(NextPage) : Fails(err)
  BY DEF InsertAllocFails, ScanFails
<1>2. /\ UNCHANGED <<file, page, disk, dirty, fixed>> /\ call' = Idle
      /\ failed' = (failed \/ err = "UNIX") /\ ret'.err = err
  BY <1>1 DEF InsertAllocFails, ScanFails, buffers, Fails, Return, Error
<1>3. ASSUME ~failed', NumBuffers >= 2
      PROVE  FALSE
  <2>1. ~failed /\ err # "UNIX"
    BY <1>2, <1>3
  <2>2. call.op # "idle" /\ call.at \in Int
    BY AtIsNumber, PageNumbers DEF InsertAllocFails, ScanFails
  <2> QED
    BY <1>1, <1>3, <2>1, <2>2, GetFails
<1>4. fixed' \subseteq DOMAIN page' /\ file' \in {"none", "closed", "open", "lost"}
  BY <1>2 DEF CallsOK
<1>5. CallsOK'
  BY <1>2, <1>3, <1>4, CallReturns
<1> QED
  BY <1>2, <1>5 DEF PagesOK

(* SPfindRecord and SPscanDb, one page at a time.                          *)
LEMMA HitsAreLive ==
  ASSUME PagesOK(page, disk, dirty), NextPage \in DOMAIN page
  PROVE  /\ Hits = {i \in LiveSlots(page[NextPage]) : Occurs(NextPage, i)}
         /\ Hits \subseteq Nat
<1>1. page[NextPage] \in SlottedPageType
  BY DEF PagesOK, PageOK
<1>2. /\ Visited(page[NextPage]) = LiveSlots(page[NextPage])
      /\ LiveSlots(page[NextPage]) \subseteq Nat
  BY <1>1, VisitsLiveSlots, LiveSlotsFinite
<1> QED
  BY <1>2 DEF Hits, Occurs

LEMMA FindNextKeeps ==
  ASSUME PagesOK(page, disk, dirty), CallsOK, FindNextPage
  PROVE  PagesOK(page, disk, dirty)' /\ CallsOK'
<1>1. PICK next \in DOMAIN page : next = NextPage
  BY AtIsNumber DEF FindNextPage
<1>2. /\ call.op \in {"find", "delete"} /\ Hits = {}
      /\ call' = [call EXCEPT !.at = next]
      /\ UNCHANGED <<file, page, disk, dirty, fixed, ret, failed>>
  BY <1>1 DEF FindNextPage, buffers
<1>3. /\ call'.op = call.op /\ call'.at = next /\ call'.rec = call.rec
      /\ call' \in CallType'
  BY <1>2 DEF CallsOK, CallType
<1>4. HeldFixed' /\ CallOK'
  BY <1>2, <1>3 DEF CallsOK, HeldFixed, Held, CallOK
<1>5. NotBehind'
  <2>1. \A i \in LiveSlots(page[next]) : ~Occurs(next, i)
    BY <1>1, <1>2, HitsAreLive
  <2>2. 0 .. next = (0 .. call.at) \cup {next}
    BY <1>1, AtIsNumber, PageNumbers
  <2>3. RecordsFit => \A pg \in 0 .. next : \A i \in LiveSlots(page[pg]) : ~Occurs(pg, i)
    BY <1>2, <2>1, <2>2 DEF CallsOK, NotBehind
  <2> QED
    BY <1>2, <1>3, <2>3 DEF NotBehind, Occurs
<1>6. TwoBuffersSuffice'
  BY <1>2, <1>3 DEF CallsOK, TwoBuffersSuffice, Idle
<1>7. fixed' \subseteq DOMAIN page' /\ CountedSoFar'
  BY <1>2, <1>3 DEF CallsOK, CountedSoFar
<1> QED
  BY <1>2, <1>3, <1>4, <1>5, <1>6, <1>7 DEF CallsOK, PagesOK

LEMMA ReturnsClean ==
  ASSUME PagesOK(page, disk, dirty), CallsOK, FindFound \/ NotFound \/ ScanEnd
  PROVE  PagesOK(page, disk, dirty)' /\ CallsOK'
<1>1. /\ UNCHANGED <<file, page, disk, dirty, fixed, failed>> /\ call' = Idle
      /\ call.op \in {"find", "delete", "scan"}
  BY DEF FindFound, NotFound, ScanEnd, buffers, Return
<1>2. "err" \in DOMAIN ret' => ret'.err = "RECORD_NOT_FOUND"
  BY DEF FindFound, NotFound, ScanEnd, Return, Error
<1>3. ~failed /\ NumBuffers >= 2 => fixed' = {}
  BY <1>1 DEF CallsOK, HeldFixed, Held
<1>4. fixed' \subseteq DOMAIN page' /\ file' \in {"none", "closed", "open", "lost"}
  BY <1>1 DEF CallsOK
<1>5. CallsOK'
  BY <1>1, <1>2, <1>3, <1>4, CallReturns
<1> QED
  BY <1>1, <1>5 DEF PagesOK

LEMMA DeleteKeeps ==
  ASSUME PagesOK(page, disk, dirty), CallsOK, DeleteFound
  PROVE  PagesOK(page, disk, dirty)' /\ CallsOK'
<1>1. PICK next \in DOMAIN page : next = NextPage
  BY AtIsNumber DEF DeleteFound
<1>2. PICK q : q = SP_DeleteRecord(page[next], FirstHit)
  OBVIOUS
<1>3. /\ call.op = "delete" /\ page' = [page EXCEPT ![next] = q]
      /\ dirty' = dirty \cup {next} /\ call' = Idle /\ ret' = [op |-> "delete", rec |-> call.rec]
      /\ UNCHANGED <<file, disk, fixed, failed>>
  BY <1>1, <1>2 DEF DeleteFound, Return
<1>4. PageOK(q)
  BY <1>2, DeleteLaidOut DEF PagesOK, PageOK
<1>5. PagesOK(page, disk, dirty)' /\ DOMAIN page' = DOMAIN page
  BY <1>3, <1>4, WriteOK
<1>6. ~failed /\ NumBuffers >= 2 => fixed' = {}
  BY <1>3 DEF CallsOK, HeldFixed, Held
<1>7. fixed' \subseteq DOMAIN page' /\ file' \in {"none", "closed", "open", "lost"}
  BY <1>3, <1>5 DEF CallsOK
<1> QED
  BY <1>3, <1>5, <1>6, <1>7, CallReturns

(* The records of the pages in P, and those of one more.                  *)
LEMMA OneMorePage ==
  ASSUME PagesOK(page, disk, dirty), NEW next \in DOMAIN page
  PROVE  /\ IsFiniteSet(IdsIn(0 .. next - 1)) /\ Cardinality(IdsIn(0 .. next - 1)) \in Nat
         /\ Cardinality(IdsIn(0 .. next)) =
              Cardinality(IdsIn(0 .. next - 1)) + Cardinality(LiveSlots(page[next]))
<1> DEFINE P == 0 .. next - 1
           Ids(pg) == {pg} \X LiveSlots(page[pg])
           S == {Ids(pg) : pg \in P}
           f == [pg \in P |-> Ids(pg)]
<1>1. /\ next \in Nat /\ 0 .. next \subseteq DOMAIN page /\ 0 .. next = P \cup {next}
      /\ next \notin P
  BY PageNumbers
<1>2. \A pg \in 0 .. next : IsFiniteSet(LiveSlots(page[pg])) /\ Cardinality(LiveSlots(page[pg])) \in Nat
  BY <1>1, LiveSlotsFinite DEF PagesOK, PageOK
<1>3. \A pg \in 0 .. next : /\ IsFiniteSet(Ids(pg))
                             /\ Cardinality(Ids(pg)) = Cardinality(LiveSlots(page[pg]))
  <2> TAKE pg \in 0 .. next
  <2>1. PICK live : live = LiveSlots(page[pg])
    OBVIOUS
  <2>2. IsFiniteSet(live) /\ Cardinality(live) \in Nat
    BY <1>2, <2>1
  <2>3. IsFiniteSet({pg}) /\ Cardinality({pg}) = 1
    BY FS_Singleton
  <2>4. IsFiniteSet({pg} \X live) /\ Cardinality({pg} \X live) = 1 * Cardinality(live)
    BY <2>2, <2>3, FS_Product
  <2> QED
    BY <2>1, <2>2, <2>4
<1>4. IsFiniteSet(S)
  <2>1. f \in Surjection(P, S)
    BY DEF Surjection
  <2>2. IsFiniteSet(P)
    BY <1>1, FS_Interval
  <2> HIDE DEF f, S, P
  <2> QED
    BY <2>1, <2>2, FS_Surjection
<1>5. IsFiniteSet(IdsIn(P)) /\ Cardinality(IdsIn(P)) \in Nat
  <2>1. \A T \in S : IsFiniteSet(T)
    BY <1>1, <1>3
  <2>2. IdsIn(P) = UNION S
    BY DEF IdsIn
  <2> HIDE DEF S
  <2>3. IsFiniteSet(UNION S)
    BY <1>4, <2>1, FS_UNION
  <2> QED
    BY <2>2, <2>3, FS_CardinalityType
<1>6. /\ IdsIn(0 .. next) = IdsIn(P) \cup Ids(next)
      /\ IdsIn(P) \cap Ids(next) = {}
  <2> HIDE DEF P
  <2> QED
    BY <1>1 DEF IdsIn
<1>7. Cardinality(IdsIn(P) \cup Ids(next)) = Cardinality(IdsIn(P)) + Cardinality(Ids(next)) - 0
  <2>1. IsFiniteSet(Ids(next)) /\ Cardinality(Ids(next)) = Cardinality(LiveSlots(page[next]))
    BY <1>1, <1>3
  <2> HIDE DEF Ids, P
  <2> QED
    BY <1>5, <1>6, <2>1, FS_Union, FS_EmptySet
<1>8. /\ IdsIn(0 .. next) = IdsIn(P) \cup Ids(next)
      /\ Cardinality(Ids(next)) = Cardinality(LiveSlots(page[next]))
      /\ Cardinality(LiveSlots(page[next])) \in Nat
  BY <1>1, <1>2, <1>3, <1>6
<1>9. PICK c \in Nat : c = Cardinality(IdsIn(P))
  BY <1>5
<1>10. PICK d \in Nat : d = Cardinality(LiveSlots(page[next]))
  BY <1>8
<1>11. Cardinality(IdsIn(0 .. next)) = c + d
  <2>1. Cardinality(IdsIn(P) \cup Ids(next)) = c + d - 0
    <3> HIDE DEF Ids, P
    <3> QED
      BY <1>7, <1>8, <1>9, <1>10, Zenon
  <2>2. Cardinality(IdsIn(P) \cup Ids(next)) = c + d
    <3>1. c + d - 0 = c + d
      OBVIOUS
    <3> HIDE DEF Ids, P
    <3> QED
      BY <2>1, <3>1, Zenon
  <2> HIDE DEF Ids, P
  <2> QED
    BY <1>8, <2>2, Zenon
<1> QED
  BY <1>5, <1>9, <1>10, <1>11

LEMMA ScanKeeps ==
  ASSUME PagesOK(page, disk, dirty), CallsOK, ScanPage
  PROVE  PagesOK(page, disk, dirty)' /\ CallsOK'
<1>1. PICK next \in DOMAIN page : next = NextPage
  BY AtIsNumber DEF ScanPage
<1>2. /\ Visited(page[next]) = LiveSlots(page[next])
      /\ Cardinality(LiveSlots(page[next])) \in Nat
  BY VisitsLiveSlots, LiveSlotsFinite DEF PagesOK, PageOK
<1>3. PICK count \in Nat : count = call.count + Cardinality(LiveSlots(page[next]))
  BY <1>2 DEF CallsOK, CallType
<1>4. /\ call.op = "scan" /\ call' = [call EXCEPT !.at = next, !.count = count]
      /\ UNCHANGED <<file, page, disk, dirty, fixed, ret, failed>>
  BY <1>1, <1>2, <1>3 DEF ScanPage, buffers
<1>5. /\ call'.op = "scan" /\ call' \in CallType'
      /\ call'.at = next /\ call'.count = count
  BY <1>4 DEF CallsOK, CallType
<1>6. HeldFixed' /\ CallOK' /\ NotBehind'
  BY <1>4, <1>5 DEF CallsOK, HeldFixed, Held, CallOK, NotBehind
<1>7. CountedSoFar'
  <2>1. next - 1 = call.at
    BY <1>1, AtIsNumber
  <2>2. RecordsFit => call.count = Cardinality(IdsIn(0 .. next - 1))
    BY <1>4, <2>1 DEF CallsOK, CountedSoFar
  <2>3. RecordsFit => count = Cardinality(IdsIn(0 .. next))
    BY <1>3, <2>2, OneMorePage
  <2>4. IdsIn(0 .. next)' = IdsIn(0 .. next)
    BY <1>4 DEF IdsIn
  <2> QED
    BY <1>5, <2>3, <2>4 DEF CountedSoFar
<1>8. TwoBuffersSuffice'
  BY <1>4, <1>5 DEF CallsOK, TwoBuffersSuffice, Idle
<1>9. fixed' \subseteq DOMAIN page'
  BY <1>4 DEF CallsOK
<1> QED
  BY <1>4, <1>5, <1>6, <1>7, <1>8, <1>9 DEF CallsOK, PagesOK

-----------------------------------------------------------------------------
LEMMA InitInv ==
  Init => IInv
<1> SUFFICES ASSUME Init PROVE IInv
  OBVIOUS
<1>1. /\ file = "none" /\ page = <<>> /\ disk = <<>> /\ dirty = {} /\ fixed = {}
      /\ call = Idle /\ ret = NoResult /\ failed = FALSE
  BY DEF Init
<1>2. 0 \in 0 .. MaxPages /\ 0 .. 0 - 1 = {} /\ DOMAIN page = {} /\ DOMAIN disk = {}
  BY <1>1, BoundsAssumption
<1>3. page \in [0 .. 0 - 1 -> SlottedPageType]
  BY <1>1, <1>2
<1>4. PagesOK(page, disk, dirty)
  BY <1>1, <1>2, <1>3 DEF PagesOK
<1>5. call.op = "idle" /\ call \in CallType /\ Held = {}
  BY <1>1 DEF Idle, CallType, Ops, Held
<1>6. HeldFixed /\ CallOK /\ NotBehind /\ CountedSoFar /\ TwoBuffersSuffice
  BY <1>1, <1>5 DEF HeldFixed, CallOK, NotBehind, CountedSoFar, TwoBuffersSuffice, NoResult
<1> QED
  BY <1>1, <1>4, <1>5, <1>6, InvParts DEF CallsOK

LEMMA NextInv ==
  IInv /\ [Next]_vars => IInv'
<1> SUFFICES ASSUME PagesOK(page, disk, dirty), CallsOK, [Next]_vars
             PROVE  PagesOK(page, disk, dirty)' /\ CallsOK'
  BY InvParts, PTL
<1>1. CASE UNCHANGED vars
  BY <1>1 DEF vars, PagesOK, CallsOK, CallType, CallOK, HeldFixed, Held, NotBehind,
              Occurs, CountedSoFar, IdsIn, TwoBuffersSuffice
<1>2. CASE PF_CreateFile \/ PF_OpenFile \/ PF_CloseFile
  BY <1>2, CreateKeeps, OpenKeeps, CloseKeeps
<1>3. CASE \E text \in Texts : Convert(text)
  BY <1>3, ConvertKeeps
<1>4. CASE \E rec \in Records : Start("insert", rec) \/ Start("find", rec) \/ Start("delete", rec)
  BY <1>4, StartKeeps
<1>5. CASE Start("scan", NoRecord)
  BY <1>5, StartKeeps
<1>6. CASE ConvertStep
  BY <1>6, LineKeeps, NewPageKeeps, ConvertEnds DEF ConvertStep
<1>7. CASE InsertStep \/ ScanFails
  BY <1>7, InsertScanKeeps, InsertLastKeeps, InsertFirstKeeps, InsertFails DEF InsertStep
<1>8. CASE ReadStep
  BY <1>8, FindNextKeeps, ReturnsClean, DeleteKeeps, ScanKeeps DEF ReadStep
<1>9. CASE \E pg \in PageNums : Evict(pg)
  BY <1>9, EvictKeeps
<1> QED
  BY <1>1, <1>2, <1>3, <1>4, <1>5, <1>6, <1>7, <1>8, <1>9 DEF Next

(* Every reachable state satisfies the invariant.                          *)
THEOREM RecordsInvIsInvariant == Spec => []IInv
  BY InitInv, NextInv, PTL DEF Spec

(* The pages, the calls and what is marked and fixed keep their types.     *)
THEOREM RecordsTypeCorrect == Spec => []TypeOK
<1>1. IInv => TypeOK
  BY DEF IInv
<1> QED
  BY RecordsInvIsInvariant, <1>1, PTL

(* On no page do records and slots get over each other (SP_InsertRecord,   *)
(* SP_DeleteRecord), through any inserts, deletes, evictions and closes.   *)
THEOREM RecordsStayApart == Spec => []PagesLaidOut
<1>1. IInv => PagesLaidOut
  BY DEF IInv
<1> QED
  BY RecordsInvIsInvariant, <1>1, PTL

(* With two buffers no call of the layer runs out of them, and none leaves *)
(* a page fixed, if no I/O fails.                                          *)
THEOREM TwoBuffersAreEnough == Spec => []TwoBuffersSuffice
<1>1. IInv => TwoBuffersSuffice
  BY DEF IInv
<1> QED
  BY RecordsInvIsInvariant, <1>1, PTL

-----------------------------------------------------------------------------
(***************************************************************************)
(* The steps.                                                              *)
(***************************************************************************)

(* All but the calls that modify records leave the pages as they are.      *)
LEMMA RecordsStepHolds ==
  ASSUME RecordsFit
  PROVE  IInv /\ [Next]_vars => [RecordsStep]_vars
<1> SUFFICES ASSUME PagesOK(page, disk, dirty), CallsOK, Next
             PROVE  \/ page' = page \/ call.op = "convert"
                    \/ Succeeds("insert") \/ Succeeds("delete")
  BY InvParts DEF RecordsStep, FileRecords, RecordsIn, NumPages
<1>1. CASE PF_CreateFile \/ PF_OpenFile \/ ScanFails
  BY <1>1 DEF PF_CreateFile, PF_OpenFile, ScanFails, buffers
<1>2. CASE PF_CloseFile
  BY <1>2, CloseKeeps
<1>3. CASE \E text \in Texts : Convert(text)
  BY <1>3 DEF Convert, buffers
<1>4. CASE \/ \E rec \in Records : Start("insert", rec) \/ Start("find", rec) \/ Start("delete", rec)
           \/ Start("scan", NoRecord)
  BY <1>4 DEF Start, buffers
<1>5. CASE ConvertStep
  BY <1>5 DEF ConvertStep, ConvertLine, ConvertNewPage, ConvertAllocFails, ConvertEnd
<1>6. CASE InsertScan \/ InsertAllocFails
  BY <1>6 DEF InsertScan, InsertAllocFails, buffers
<1>7. CASE InsertLast \/ InsertFirst
  <2>1. call.op = "insert" /\ call' = Idle /\ ret' = InsertResult(call.rec)
    BY <1>7 DEF InsertLast, InsertFirst, Return
  <2>2. FitsSomehow(call.rec)
    BY <2>1 DEF CallsOK, CallOK, RecordsFit
  <2>3. "err" \notin DOMAIN ret'
    BY <2>1, <2>2 DEF InsertResult
  <2> QED
    BY <2>1, <2>3 DEF Succeeds, Returns
<1>8. CASE FindNextPage \/ FindFound \/ NotFound \/ ScanPage \/ ScanEnd
  BY <1>8 DEF FindNextPage, FindFound, NotFound, ScanPage, ScanEnd, buffers
<1>9. CASE DeleteFound
  <2>1. call.op = "delete" /\ call' = Idle /\ ret' = [op |-> "delete", rec |-> call.rec]
    BY <1>9 DEF DeleteFound, Return
  <2>2. "err" \notin DOMAIN ret'
    BY <2>1
  <2> QED
    BY <2>1, <2>2 DEF Succeeds, Returns
<1>10. CASE \E pg \in PageNums : Evict(pg)
  BY <1>10, EvictKeeps
<1> QED
  BY <1>1, <1>2, <1>3, <1>4, <1>5, <1>6, <1>7, <1>8, <1>9, <1>10
  DEF Next, InsertStep, ReadStep

(* The first page with a hit, and the first hit on it.                     *)
LEMMA HitIsFirst ==
  ASSUME RecordsFit, PagesOK(page, disk, dirty), CallsOK,
         call.op \in {"find", "delete"}, ~AtEOF, Hits # {}
  PROVE  /\ NextPage \in DOMAIN page /\ FirstHit \in LiveSlots(page[NextPage])
         /\ IsFirst(NextPage, FirstHit)
<1>1. PICK next \in DOMAIN page : next = NextPage
  BY AtIsNumber
<1>2. PICK first : first = FirstHit
  OBVIOUS
<1>3. /\ Hits = {i \in LiveSlots(page[next]) : Occurs(next, i)} /\ Hits \subseteq Nat
  BY <1>1, HitsAreLive
<1>4. first \in Hits /\ \A i \in Hits : first <= i
  <2>1. \E i \in Hits : \A j \in Hits : i <= j
    <3>1. \A T \in SUBSET Nat : T # {} => \E i \in T : \A j \in T : i <= j
      BY LeastNumber
    <3> QED
      BY <1>3, <3>1
  <2> QED
    BY <1>2, <2>1 DEF FirstHit
<1>5. ASSUME NEW pg \in DOMAIN page, NEW i \in LiveSlots(page[pg]), Occurs(pg, i)
      PROVE  Before(next, first, pg, i)
  <2>1. next = call.at + 1 /\ call.at \in Int /\ DOMAIN page \subseteq Nat
    BY <1>1, AtIsNumber, PageNumbers
  <2>2. pg \notin 0 .. call.at
    BY <1>5 DEF CallsOK, NotBehind
  <2>3. next <= pg
    BY <2>1, <2>2
  <2>4. pg = next => first <= i
    BY <1>3, <1>4, <1>5
  <2> QED
    BY <2>1, <2>3, <2>4 DEF Before
<1>6. first \in LiveSlots(page[next]) /\ Occurs(next, first)
  BY <1>3, <1>4
<1>7. IsFirst(next, first)
  BY <1>5, <1>6 DEF IsFirst
<1> QED
  BY <1>1, <1>2, <1>6, <1>7

LEMMA FoundNowhere ==
  ASSUME RecordsFit, PagesOK(page, disk, dirty), CallsOK, NotFound
  PROVE  OccursNowhere
<1>1. DOMAIN page = 0 .. call.at
  BY AtIsNumber, PageNumbers DEF NotFound, AtEOF
<1> QED
  BY <1>1 DEF CallsOK, NotBehind, NotFound, OccursNowhere

(* How a find, a delete and a scan return.                                 *)
IOFails(op) == "err" \in DOMAIN ret' /\ ret' # [op |-> op, err |-> "RECORD_NOT_FOUND"]

LEMMA SearchReturns ==
  ASSUME CallsOK, Next, NEW op \in {"find", "delete", "scan"}, Returns(op)
  PROVE  \/ FindFound /\ op = "find"
         \/ DeleteFound /\ op = "delete"
         \/ NotFound /\ op # "scan"
         \/ ScanEnd /\ op = "scan"
         \/ IOFails(op)
<1>1. call.op = op /\ call' = Idle /\ call # Idle /\ call' # call
  BY DEF Returns, Idle
<1>2. ASSUME ScanFails
      PROVE  IOFails(op)
  <2>1. PICK err \in {"PAGEFIXED", "NOBUF", "UNIX"} : ret' = [op |-> call.op, err |-> err]
    BY <1>2 DEF ScanFails, GetErrors, Fails, Return, Error
  <2>2. "err" \in DOMAIN ret' /\ ret' # [op |-> op, err |-> "RECORD_NOT_FOUND"]
    BY <1>1, <2>1
  <2> QED
    BY <2>2 DEF IOFails
<1>3. ~(PF_CreateFile \/ PF_OpenFile \/ PF_CloseFile \/ \E text \in Texts : Convert(text))
  BY <1>1 DEF PF_CreateFile, PF_OpenFile, PF_CloseFile, Convert
<1>4. ~\E other, rec : Start(other, rec)
  BY <1>1 DEF Start
<1>5. ~(ConvertStep \/ InsertStep)
  BY <1>1 DEF ConvertStep, ConvertLine, ConvertNewPage, ConvertAllocFails, ConvertEnd,
              InsertStep, InsertScan, InsertLast, InsertFirst, InsertAllocFails
<1>6. ~(FindNextPage \/ ScanPage)
  <2>1. FindNextPage \/ ScanPage => call'.op = call.op
    BY DEF FindNextPage, ScanPage, CallsOK, CallType
  <2> QED
    BY <1>1, <2>1 DEF Idle
<1>7. ~\E pg \in PageNums : Evict(pg)
  BY <1>1 DEF Evict
<1>8. /\ FindFound => op = "find"
      /\ DeleteFound => op = "delete"
      /\ NotFound => op # "scan"
      /\ ScanEnd => op = "scan"
  BY <1>1 DEF FindFound, DeleteFound, NotFound, ScanEnd
<1>9. FindFound \/ DeleteFound \/ NotFound \/ ScanEnd \/ ScanFails
  BY <1>3, <1>4, <1>5, <1>6, <1>7 DEF Next, ReadStep
<1> QED
  BY <1>2, <1>8, <1>9

LEMMA FindStepHolds ==
  ASSUME RecordsFit
  PROVE  IInv /\ [Next]_vars => [FindStep]_vars
<1> SUFFICES ASSUME PagesOK(page, disk, dirty), CallsOK, Next, Returns("find")
             PROVE  FindStep
  BY InvParts DEF FindStep
<1>1. CASE FindFound
  <2>1. IsFirst(NextPage, FirstHit)
    BY <1>1, HitIsFirst DEF FindFound
  <2>2. ret' = [op |-> "find", rec |-> call.rec, page |-> NextPage, slot |-> FirstHit]
    BY <1>1 DEF FindFound, Return
  <2>3. ret'.page = NextPage /\ ret'.slot = FirstHit /\ "err" \notin DOMAIN ret'
    BY <2>2
  <2> QED
    BY <2>1, <2>3 DEF FindStep
<1>2. CASE NotFound
  <2>1. "err" \in DOMAIN ret'
    BY <1>2 DEF NotFound, Return, Error
  <2> QED
    BY <1>2, <2>1, FoundNowhere DEF FindStep, Succeeds
<1>3. CASE IOFails("find")
  BY <1>3 DEF IOFails, FindStep, Succeeds
<1> QED
  BY <1>1, <1>2, <1>3, SearchReturns

(* What is left on a page after a delete, and in the file.                 *)
LEMMA DeletedFromPage ==
  ASSUME NEW q \in SlottedPageType, NEW slotID, NEW next, next = SP_DeleteRecord(q, slotID)
  PROVE  /\ LiveSlots(next) = LiveSlots(q) \ {slotID}
         /\ \A i \in LiveSlots(next) : next.slots[i] = q.slots[i]
<1>1. q.slots \in Seq(Slot) /\ Deleted.offset = -1
  BY DEF SlottedPageType, Deleted
<1>2. SP_DeleteRecord(q, slotID) =
        [slots |-> [q.slots EXCEPT ![slotID] = Deleted], freeSpacePtr |-> q.freeSpacePtr]
  BY DeletedRecord
<1>3. /\ next.slots = [q.slots EXCEPT ![slotID] = Deleted]
      /\ DOMAIN next.slots = DOMAIN q.slots /\ DOMAIN q.slots = 1 .. Len(q.slots)
      /\ \A i \in DOMAIN q.slots :
           next.slots[i] = IF i = slotID THEN Deleted ELSE q.slots[i]
  BY <1>1, <1>2
<1>4. Len(next.slots) = Len(q.slots)
  BY <1>1, <1>3
<1> QED
  BY <1>1, <1>3, <1>4 DEF LiveSlots

LEMMA DeletedFromFile ==
  ASSUME PagesOK(page, disk, dirty), NEW next \in DOMAIN page, NEW first,
         page' = [page EXCEPT ![next] = SP_DeleteRecord(page[next], first)]
  PROVE  RecordAt' = [id \in RecordIds \ {<<next, first>>} |-> RecordAt[id]]
<1>1. PICK q : q = SP_DeleteRecord(page[next], first)
  OBVIOUS
<1>2. /\ LiveSlots(q) = LiveSlots(page[next]) \ {first}
      /\ \A i \in LiveSlots(q) : q.slots[i] = page[next].slots[i]
  <2>1. page[next] \in SlottedPageType
    BY DEF PagesOK, PageOK
  <2> QED
    BY <1>1, <2>1, DeletedFromPage
<1>3. /\ page' = [page EXCEPT ![next] = q] /\ DOMAIN page' = DOMAIN page /\ page'[next] = q
      /\ \A pg \in DOMAIN page \ {next} : page'[pg] = page[pg]
  BY <1>1
<1>4. /\ RecordIds = UNION {{pg} \X LiveSlots(page[pg]) : pg \in DOMAIN page}
      /\ RecordIds' = UNION {{pg} \X LiveSlots(page'[pg]) : pg \in DOMAIN page}
  BY <1>3 DEF RecordIds, IdsIn
<1>5. \A pg, i : /\ <<pg, i>> \in RecordIds <=> pg \in DOMAIN page /\ i \in LiveSlots(page[pg])
                 /\ <<pg, i>> \in RecordIds' <=> pg \in DOMAIN page /\ i \in LiveSlots(page'[pg])
  BY <1>4
<1>6. \A id \in RecordIds \cup RecordIds' : id = <<id[1], id[2]>>
  BY <1>4
<1>7. \A pg \in DOMAIN page : \A i :
        i \in LiveSlots(page'[pg]) <=> i \in LiveSlots(page[pg]) /\ <<pg, i>> # <<next, first>>
  BY <1>2, <1>3
<1>8. RecordIds' = RecordIds \ {<<next, first>>}
  BY <1>5, <1>6, <1>7
<1>9. \A id \in RecordIds' : page'[id[1]].slots[id[2]].record = page[id[1]].slots[id[2]].record
  BY <1>2, <1>3, <1>5, <1>6
<1>10. RecordAt' = [id \in RecordIds' |-> page'[id[1]].slots[id[2]].record]
  BY DEF RecordAt
<1>11. \A id \in RecordIds : RecordAt[id] = page[id[1]].slots[id[2]].record
  BY Zenon DEF RecordAt
<1>12. \A id \in RecordIds' : page'[id[1]].slots[id[2]].record = RecordAt[id]
  BY <1>8, <1>9, <1>11
<1> QED
  BY <1>8, <1>10, <1>12

LEMMA DeleteStepHolds ==
  ASSUME RecordsFit
  PROVE  IInv /\ [Next]_vars => [DeleteStep]_vars
<1> SUFFICES ASSUME PagesOK(page, disk, dirty), CallsOK, Next, Returns("delete")
             PROVE  DeleteStep
  BY InvParts DEF DeleteStep
<1>1. CASE DeleteFound
  <2>1. PICK next, first : next = NextPage /\ first = FirstHit
    OBVIOUS
  <2>2. next \in DOMAIN page /\ first \in LiveSlots(page[next]) /\ IsFirst(next, first)
    BY <1>1, <2>1, HitIsFirst DEF DeleteFound
  <2>3. RecordAt' = [id \in RecordIds \ {<<next, first>>} |-> RecordAt[id]]
    BY <1>1, <2>1, <2>2, DeletedFromFile DEF DeleteFound
  <2>4. ret' = [op |-> "delete", rec |-> call.rec]
    BY <1>1 DEF DeleteFound, Return
  <2>5. ret' # [op |-> "delete", err |-> "RECORD_NOT_FOUND"]
    BY <2>4
  <2> QED
    BY <2>2, <2>3, <2>5 DEF DeleteStep
<1>2. CASE NotFound
  <2>1. "err" \in DOMAIN ret'
    BY <1>2 DEF NotFound, Return, Error
  <2> QED
    BY <1>2, <2>1, FoundNowhere DEF DeleteStep, Succeeds
<1>3. CASE IOFails("delete")
  BY <1>3 DEF IOFails, DeleteStep, Succeeds
<1> QED
  BY <1>1, <1>2, <1>3, SearchReturns

LEMMA ScanStepHolds ==
  ASSUME RecordsFit
  PROVE  IInv /\ [Next]_vars => [ScanStep]_vars
<1> SUFFICES ASSUME PagesOK(page, disk, dirty), CallsOK, Next, Succeeds("scan")
             PROVE  ret'.found = Cardinality(RecordIds)
  BY InvParts DEF ScanStep, Succeeds, Returns, vars, Idle
<1>1. ScanEnd
  BY SearchReturns DEF Succeeds, IOFails
<1>2. call.op = "scan" /\ ret' = [op |-> "scan", found |-> call.count]
  BY <1>1 DEF ScanEnd, Return
<1>3. DOMAIN page = 0 .. call.at
  BY <1>1, AtIsNumber, PageNumbers DEF ScanEnd, AtEOF
<1> QED
  BY <1>2, <1>3 DEF CallsOK, CountedSoFar, RecordIds

(* If every record has room in an empty page (SP_InsertRecordByContent     *)
(* empties the last page for one that has not), no step but those of a     *)
(* convert, a successful insert or delete changes the records: whoever     *)
(* modifies a page marks it.                                               *)
THEOREM RecordsAreKept ==
  ASSUME RecordsFit
  PROVE  Spec => OnlyCallsChangeRecords
<1>1. IInv /\ [Next]_vars => [RecordsStep]_vars
  BY RecordsStepHolds
<1> QED
  BY RecordsInvIsInvariant, <1>1, PTL DEF Spec, OnlyCallsChangeRecords

(* If every record has room in an empty page, SP_FindRecord returns the    *)
(* first occurrence of the record, and SPE_RECORD_NOT_FOUND only if there  *)
(* is none, though pages it has been on may be evicted and read again.     *)
THEOREM FirstIsFound ==
  ASSUME RecordsFit
  PROVE  Spec => FindReturnsFirst
<1>1. IInv /\ [Next]_vars => [FindStep]_vars
  BY FindStepHolds
<1> QED
  BY RecordsInvIsInvariant, <1>1, PTL DEF Spec, FindReturnsFirst

(* Likewise SP_DeleteRecordByContent deletes the first occurrence, and     *)
(* every other record keeps its page, its slot and its content.            *)
THEOREM FirstIsDeleted ==
  ASSUME RecordsFit
  PROVE  Spec => DeleteRemovesFirst
<1>1. IInv /\ [Next]_vars => [DeleteStep]_vars
  BY DeleteStepHolds
<1> QED
  BY RecordsInvIsInvariant, <1>1, PTL DEF Spec, DeleteRemovesFirst

(* And SPscanDb counts every record of the file once, whatever is evicted  *)
(* while it goes from page to page.                                        *)
THEOREM AllAreCounted ==
  ASSUME RecordsFit
  PROVE  Spec => ScanCountsAll
<1>1. IInv /\ [Next]_vars => [ScanStep]_vars
  BY ScanStepHolds
<1> QED
  BY RecordsInvIsInvariant, <1>1, PTL DEF Spec, ScanCountsAll

-----------------------------------------------------------------------------
(***************************************************************************)
(* What a convert puts into the file.                                      *)
(***************************************************************************)
Contents == Records \cup {NoRecord}
LineOf(line) == IF line = NoRecord THEN <<>> ELSE <<line>>
LinesOf(text, n) == [i \in 1 .. n |-> LineOf(text[i])]

LEMMA LinesGrow ==
  ASSUME NEW text \in Seq(Contents), NEW n \in Nat, n < Len(text)
  PROVE  /\ Lines(text, n) \in Seq(Contents)
         /\ Lines(text, n + 1) = Lines(text, n) \o LineOf(text[n + 1])
<1>1. \A m : Lines(text, m) = FlattenSeq(LinesOf(text, m))
  BY DEF Lines, LinesOf, LineOf
<1>2. \A i \in 1 .. n + 1 : LineOf(text[i]) \in Seq(Contents)
  <2>1. \A i \in 1 .. n + 1 : text[i] \in Contents
    OBVIOUS
  <2> QED
    BY <2>1 DEF LineOf
<1>3. PICK lists, more : lists = LinesOf(text, n) /\ more = LinesOf(text, n + 1)
  OBVIOUS
<1>4. /\ lists = [i \in 1 .. n |-> LineOf(text[i])]
      /\ more = [i \in 1 .. n + 1 |-> LineOf(text[i])]
  BY <1>3 DEF LinesOf
<1>5. lists \in [1 .. n -> Seq(Contents)] /\ more \in [1 .. n + 1 -> Seq(Contents)]
  BY ONLY <1>2, <1>4, n \in Nat
<1>6. /\ lists \in Seq(Seq(Contents)) /\ more \in Seq(Seq(Contents))
      /\ Len(lists) = n /\ Len(more) = n + 1
  BY ONLY <1>5, n \in Nat
<1>7. /\ \A i \in 1 .. Len(lists) : more[i] = lists[i]
      /\ more[Len(more)] = LineOf(text[n + 1])
  BY ONLY <1>4, <1>6, n \in Nat
<1>8. /\ FlattenSeq(lists) \in Seq(Contents)
      /\ FlattenSeq(more) = FlattenSeq(lists) \o more[Len(more)]
  BY ONLY <1>6, <1>7, FlattenOneMore
<1> QED
  BY ONLY <1>1, <1>3, <1>7, <1>8

(* The slots of a page, one after the other.                               *)
SlotRecords(q) ==
  [i \in DOMAIN q.slots |-> IF i \in LiveSlots(q) THEN <<q.slots[i].record>> ELSE <<>>]

LEMMA SlotRecordsAre ==
  ASSUME NEW q \in SlottedPageType
  PROVE  /\ SlotRecords(q) \in Seq(Seq(Contents)) /\ Len(SlotRecords(q)) = Len(q.slots)
         /\ \A i \in 1 .. Len(q.slots) :
              SlotRecords(q)[i] = IF q.slots[i].offset # -1 THEN <<q.slots[i].record>> ELSE <<>>
<1>1. PICK slots, n : slots = q.slots /\ n = Len(slots)
  OBVIOUS
<1>2. slots \in Seq(Slot) /\ n \in Nat /\ DOMAIN slots = 1 .. n
  BY <1>1 DEF SlottedPageType
<1>3. \A i \in 1 .. n : slots[i].record \in Contents
  <2>1. \A s \in Slot : s.record \in Contents
    BY DEF Slot, Contents
  <2>2. \A i \in 1 .. n : slots[i] \in Slot
    BY ONLY <1>2
  <2> QED
    BY ONLY <2>1, <2>2
<1>4. PICK lists : lists = SlotRecords(q)
  OBVIOUS
<1>5. lists = [i \in 1 .. n |-> IF slots[i].offset # -1 THEN <<slots[i].record>> ELSE <<>>]
  BY <1>1, <1>2, <1>4 DEF SlotRecords, LiveSlots
<1>6. lists \in [1 .. n -> Seq(Contents)]
  <2>1. \A c \in Contents : <<c>> \in Seq(Contents)
    OBVIOUS
  <2>2. ASSUME NEW i \in 1 .. n PROVE lists[i] \in Seq(Contents)
    <3>1. <<slots[i].record>> \in Seq(Contents) /\ <<>> \in Seq(Contents)
      BY ONLY <1>3, <2>1, i \in 1 .. n
    <3>2. lists[i] \in {<<slots[i].record>>, <<>>}
      BY ONLY <1>5, i \in 1 .. n
    <3> QED
      BY ONLY <3>1, <3>2
  <2> QED
    BY ONLY <1>5, <2>2
<1>7. lists \in Seq(Seq(Contents)) /\ Len(lists) = n
  BY ONLY <1>2, <1>6
<1>8. \A i \in 1 .. n :
        lists[i] = IF slots[i].offset # -1 THEN <<slots[i].record>> ELSE <<>>
  BY ONLY <1>5
<1> QED
  BY ONLY <1>1, <1>4, <1>7, <1>8

LEMMA LineAdded ==
  ASSUME NEW q, PageOK(q), NEW line \in Contents, line # NoRecord => ~PageFull(q, line)
  PROVE  /\ RecordsOf(q) \in Seq(Contents)
         /\ RecordsOf(AddLine(q, line)) = RecordsOf(q) \o LineOf(line)
<1>1. \A p : RecordsOf(p) = FlattenSeq(SlotRecords(p))
  BY DEF RecordsOf, SlotRecords
<1>2. q \in SlottedPageType
  BY DEF PageOK
<1>3. RecordsOf(q) \in Seq(Contents)
  <2>1. PICK lists : lists = SlotRecords(q)
    OBVIOUS
  <2>2. lists \in Seq(Seq(Contents))
    BY <1>2, <2>1, SlotRecordsAre
  <2>3. FlattenSeq(lists) \in Seq(Contents)
    BY ONLY <2>2, FlattenIsSeq
  <2> QED
    BY <1>1, <2>1, <2>3
<1>4. CASE line = NoRecord
  <2>1. AddLine(q, line) = q /\ LineOf(line) = <<>>
    BY <1>4 DEF AddLine, LineOf
  <2> QED
    BY <1>3, <2>1
<1>5. CASE line # NoRecord
  <2>1. PICK next : next = SP_InsertRecord(q, line)
    OBVIOUS
  <2>2. line \in Records /\ AddLine(q, line) = next /\ LineOf(line) = <<line>>
    BY <1>5, <2>1 DEF AddLine, LineOf, Contents
  <2>3. next \in SlottedPageType
    BY <1>5, <2>1, <2>2, InsertLaidOut DEF PageOK
  <2>4. PICK slots, n, offset : /\ slots = q.slots /\ n = Len(slots)
                               /\ offset = q.freeSpacePtr - RecLen[line]
    OBVIOUS
  <2>5. PICK slot : slot = [offset |-> offset, length |-> RecLen[line], record |-> line]
    OBVIOUS
  <2>6. next.slots = Append(slots, slot) /\ next.freeSpacePtr = offset
    BY <2>1, <2>4, <2>5 DEF SP_InsertRecord
  <2>7. offset # -1
    BY <2>3, <2>6, PageAssumption DEF SlottedPageType
  <2>8. slots \in Seq(Slot) /\ n \in Nat
    BY <1>2, <2>4 DEF SlottedPageType
  <2>9. /\ Len(next.slots) = n + 1 /\ \A i \in 1 .. n : next.slots[i] = slots[i]
        /\ next.slots[n + 1] = slot
    BY ONLY <2>4, <2>6, <2>8
  <2>10. PICK lists, more : lists = SlotRecords(q) /\ more = SlotRecords(next)
    OBVIOUS
  <2>11. /\ lists \in Seq(Seq(Contents)) /\ Len(lists) = n
         /\ \A i \in 1 .. n :
              lists[i] = IF slots[i].offset # -1 THEN <<slots[i].record>> ELSE <<>>
    BY <1>2, <2>4, <2>10, SlotRecordsAre
  <2>12. /\ more \in Seq(Seq(Contents)) /\ Len(more) = n + 1
         /\ \A i \in 1 .. n + 1 :
              more[i] = IF next.slots[i].offset # -1 THEN <<next.slots[i].record>> ELSE <<>>
    BY <2>3, <2>9, <2>10, SlotRecordsAre
  <2>13. /\ \A i \in 1 .. Len(lists) : more[i] = lists[i]
         /\ more[Len(more)] = <<line>> /\ Len(more) = Len(lists) + 1
    <3>1. slot.offset # -1 /\ slot.record = line
      BY ONLY <2>5, <2>7
    <3>2. n + 1 \in 1 .. n + 1 /\ \A i \in 1 .. n : i \in 1 .. n + 1
      BY ONLY <2>8
    <3>3. more[n + 1] = <<line>>
      BY ONLY <2>9, <2>12, <3>1, <3>2
    <3>4. \A i \in 1 .. n : more[i] = lists[i]
      BY ONLY <2>9, <2>11, <2>12, <3>2
    <3> QED
      BY ONLY <2>11, <2>12, <3>3, <3>4
  <2>14. FlattenSeq(more) = FlattenSeq(lists) \o more[Len(more)]
    BY ONLY <2>11, <2>12, <2>13, FlattenOneMore
  <2> QED
    BY <1>1, <1>3, <2>2, <2>10, <2>13, <2>14
<1> QED
  BY <1>4, <1>5

(* The records of the file, by the number of its pages.                    *)
PageLists(p, n) == [i \in 1 .. n |-> RecordsOf(p[i - 1])]

LEMMA PageListsAre ==
  ASSUME NEW n \in Nat, NEW p, \A pg \in 0 .. n - 1 : PageOK(p[pg])
  PROVE  /\ PageLists(p, n) \in Seq(Seq(Contents)) /\ Len(PageLists(p, n)) = n
         /\ \A i \in 1 .. n : PageLists(p, n)[i] = RecordsOf(p[i - 1])
<1>1. PICK lists : lists = PageLists(p, n)
  OBVIOUS
<1>2. lists = [i \in 1 .. n |-> RecordsOf(p[i - 1])]
  BY <1>1 DEF PageLists
<1>3. \A i \in 1 .. n : RecordsOf(p[i - 1]) \in Seq(Contents)
  <2>1. \A i \in 1 .. n : PageOK(p[i - 1])
    OBVIOUS
  <2>2. NoRecord \in Contents
    BY DEF Contents
  <2> QED
    BY ONLY <2>1, <2>2, LineAdded
<1>4. lists \in [1 .. n -> Seq(Contents)]
  BY ONLY <1>2, <1>3
<1>5. lists \in Seq(Seq(Contents)) /\ Len(lists) = n
  BY ONLY <1>4, n \in Nat
<1> QED
  BY ONLY <1>1, <1>2, <1>5

(* A line on the last page comes behind the records of the file.           *)
LEMMA LineOnLastPage ==
  ASSUME NEW n \in Nat \ {0}, NEW p, NEW other, NEW line \in Contents,
         \A pg \in 0 .. n - 1 : PageOK(p[pg]) /\ PageOK(other[pg]),
         \A pg \in 0 .. n - 2 : other[pg] = p[pg],
         other[n - 1] = AddLine(p[n - 1], line), line # NoRecord => ~PageFull(p[n - 1], line)
  PROVE  FlattenSeq(PageLists(other, n)) = FlattenSeq(PageLists(p, n)) \o LineOf(line)
<1>1. PICK lists, more : lists = PageLists(p, n) /\ more = PageLists(other, n)
  OBVIOUS
<1>2. /\ lists \in Seq(Seq(Contents)) /\ Len(lists) = n
      /\ \A i \in 1 .. n : lists[i] = RecordsOf(p[i - 1])
  BY <1>1, PageListsAre
<1>3. /\ more \in Seq(Seq(Contents)) /\ Len(more) = n
      /\ \A i \in 1 .. n : more[i] = RecordsOf(other[i - 1])
  BY <1>1, PageListsAre
<1>4. \A i \in 1 .. n - 1 : i - 1 \in 0 .. n - 2 /\ i \in 1 .. n
  OBVIOUS
<1>5. n \in 1 .. n /\ n - 1 \in 0 .. n - 1
  OBVIOUS
<1>6. \A i \in 1 .. n - 1 : more[i] = lists[i]
  BY ONLY <1>2, <1>3, <1>4, \A pg \in 0 .. n - 2 : other[pg] = p[pg]
<1>7. more[n] = lists[n] \o LineOf(line)
  <2>1. PageOK(p[n - 1])
    BY <1>5
  <2>2. RecordsOf(AddLine(p[n - 1], line)) = RecordsOf(p[n - 1]) \o LineOf(line)
    BY <2>1, LineAdded
  <2> QED
    BY ONLY <1>2, <1>3, <1>5, <2>2, other[n - 1] = AddLine(p[n - 1], line)
<1>8. LineOf(line) \in Seq(Contents)
  BY DEF LineOf
<1>9. PICK l : l = LineOf(line)
  OBVIOUS
<1>10. FlattenSeq(more) = FlattenSeq(lists) \o l
  <2>1. l \in Seq(Contents) /\ more[n] = lists[n] \o l
    BY ONLY <1>7, <1>8, <1>9
  <2>2. LongerAtEnd(lists, more, n, l)
    BY ONLY <1>2, <1>3, <1>6, <2>1 DEF LongerAtEnd
  <2> QED
    BY ONLY <1>2, <1>3, <2>1, <2>2, n \in Nat \ {0}, FlattenLonger
<1> QED
  BY ONLY <1>1, <1>9, <1>10

(* A new page has no record.                                               *)
LEMMA NoLineOnNewPage ==
  ASSUME NEW n \in Nat, NEW p, NEW other,
         \A pg \in 0 .. n - 1 : PageOK(p[pg]) /\ other[pg] = p[pg],
         other[n] = SP_InitPage
  PROVE  FlattenSeq(PageLists(other, n + 1)) = FlattenSeq(PageLists(p, n))
<1>1. PICK lists, more : lists = PageLists(p, n) /\ more = PageLists(other, n + 1)
  OBVIOUS
<1>2. /\ lists \in Seq(Seq(Contents)) /\ Len(lists) = n
      /\ \A i \in 1 .. n : lists[i] = RecordsOf(p[i - 1])
  BY <1>1, PageListsAre
<1>3. PageOK(SP_InitPage) /\ RecordsOf(SP_InitPage) = <<>>
  <2>1. RecordsOf(SP_InitPage) = <<>>
    <3>1. PICK none : none = [i \in DOMAIN SP_InitPage.slots |->
                                IF i \in LiveSlots(SP_InitPage)
                                THEN <<SP_InitPage.slots[i].record>> ELSE <<>>]
      OBVIOUS
    <3>2. none = <<>>
      BY <3>1 DEF SP_InitPage
    <3> QED
      BY <3>1, <3>2, FlattenNone DEF RecordsOf
  <2> QED
    BY <2>1, InitPageLaidOut DEF PageOK
<1>4. /\ more \in Seq(Seq(Contents)) /\ Len(more) = n + 1
      /\ \A i \in 1 .. n + 1 : more[i] = RecordsOf(other[i - 1])
  <2>1. \A pg \in 0 .. (n + 1) - 1 : pg = n \/ pg \in 0 .. n - 1
    OBVIOUS
  <2>2. \A pg \in 0 .. (n + 1) - 1 : PageOK(other[pg])
    BY <1>3, <2>1
  <2>3. n + 1 \in Nat
    OBVIOUS
  <2> QED
    BY ONLY <1>1, <2>2, <2>3, PageListsAre
<1>5. n + 1 \in 1 .. n + 1 /\ \A i \in 1 .. n : i \in 1 .. n + 1 /\ i - 1 \in 0 .. n - 1
  OBVIOUS
<1>6. \A i \in 1 .. n : more[i] = lists[i]
  BY ONLY <1>2, <1>4, <1>5, \A pg \in 0 .. n - 1 : other[pg] = p[pg]
<1>7. more[n + 1] = <<>>
  BY ONLY <1>3, <1>4, <1>5, other[n] = SP_InitPage, n \in Nat
<1>8. FlattenSeq(lists) \in Seq(Contents) /\ FlattenSeq(more) = FlattenSeq(lists) \o <<>>
  <2>1. Len(more) = Len(lists) + 1 /\ \A i \in 1 .. Len(lists) : more[i] = lists[i]
    BY ONLY <1>2, <1>4, <1>6
  <2>2. more[Len(more)] = <<>>
    BY ONLY <1>4, <1>7
  <2>3. /\ FlattenSeq(lists) \in Seq(Contents)
        /\ FlattenSeq(more) = FlattenSeq(lists) \o more[Len(more)]
    BY ONLY <1>2, <1>4, <2>1, FlattenOneMore
  <2> QED
    BY ONLY <2>2, <2>3
<1>9. PICK s : s = FlattenSeq(lists)
  OBVIOUS
<1>10. s \o <<>> = s
  BY ONLY <1>8, <1>9
<1> QED
  BY ONLY <1>1, <1>8, <1>9, <1>10

(* The steps that begin, make and end a convert.                           *)
LEMMA ConvertSteps ==
  ASSUME CallsOK, Next, call.op = "convert" \/ call'.op = "convert"
  PROVE  \/ \E text \in Texts : Convert(text)
         \/ ConvertStep
         \/ \E pg \in PageNums : Evict(pg)
<1>1. Idle.op = "idle" /\ call \in CallType
  BY DEF Idle, CallsOK
<1>2. CASE PF_CreateFile \/ PF_OpenFile \/ PF_CloseFile
  BY <1>1, <1>2 DEF PF_CreateFile, PF_OpenFile, PF_CloseFile
<1>3. ASSUME NEW op, NEW rec, Start(op, rec), op # "convert" PROVE FALSE
  <2>1. call = Idle /\ call' = [Idle EXCEPT !.op = op, !.rec = rec]
    BY <1>3 DEF Start, Call
  <2>2. call'.op = op
    BY <2>1 DEF Idle
  <2> QED
    BY <1>1, <1>3, <2>1, <2>2
<1>4. CASE InsertStep \/ ScanFails
  <2>1. call.op \in {"insert", "find", "delete", "scan"}
    BY <1>4 DEF InsertStep, InsertScan, InsertLast, InsertFirst, InsertAllocFails, ScanFails
  <2>2. call' = Idle \/ call' = [call EXCEPT !.at = NextPage]
    BY <1>4 DEF InsertStep, InsertScan, InsertLast, InsertFirst, InsertAllocFails, ScanFails,
                Fails, Return
  <2>3. call'.op \in {"idle", call.op}
    BY <1>1, <2>2 DEF CallType
  <2> QED
    BY <2>1, <2>3
<1>5. CASE ReadStep
  <2>1. call.op \in {"find", "delete", "scan"}
    BY <1>5 DEF ReadStep, FindNextPage, FindFound, DeleteFound, NotFound, ScanPage, ScanEnd
  <2>2. \/ call' = Idle \/ call' = [call EXCEPT !.at = NextPage]
        \/ \E c : call' = [call EXCEPT !.at = NextPage, !.count = c]
    BY <1>5 DEF ReadStep, FindNextPage, FindFound, DeleteFound, NotFound, ScanPage, ScanEnd,
                Return
  <2>3. call'.op \in {"idle", call.op}
    BY <1>1, <2>2 DEF CallType
  <2> QED
    BY <2>1, <2>3
<1> QED
  BY <1>2, <1>3, <1>4, <1>5 DEF Next

LEMMA RecordsInPages ==
  /\ RecordsIn(page) = FlattenSeq(PageLists(page, NumPages))
  /\ FileRecords = FlattenSeq(PageLists(page, NumPages))
  /\ FileRecords' = FlattenSeq(PageLists(page', NumPages'))
  /\ RecordsIn(disk)' = FlattenSeq(PageLists(disk', NumPages'))
BY DEF RecordsIn, FileRecords, PageLists

LEMMA StartText ==
  ASSUME ConvertedSoFar, NEW text \in Texts, Convert(text)
  PROVE  ConvertedSoFar'
<1>1. /\ file' = "open" /\ page' = <<>>
      /\ call' = [Idle EXCEPT !.op = "convert", !.text = text]
  BY DEF Convert, ConvertedSoFar, buffers
<1>2. call'.at = -1 /\ call'.count = 0 /\ call'.text = text
  BY <1>1 DEF Idle
<1>3. DOMAIN page' = {} /\ NumPages' = 0
  <2>1. DOMAIN page' = {}
    BY <1>1
  <2> QED
    BY <2>1, FS_EmptySet DEF NumPages
<1>4. FileRecords' = <<>>
  <2>1. PICK lists : lists = PageLists(page', 0)
    OBVIOUS
  <2>2. lists = <<>>
    BY <2>1 DEF PageLists
  <2> QED
    BY <1>3, <2>1, <2>2, FlattenNone, RecordsInPages
<1>5. Lines(text, 0) = <<>>
  <2>1. PICK lists : lists = [i \in 1 .. 0 |-> IF text[i] = NoRecord THEN <<>> ELSE <<text[i]>>]
    OBVIOUS
  <2>2. lists = <<>>
    BY ONLY <2>1
  <2> QED
    BY <2>1, <2>2, FlattenNone DEF Lines
<1> QED
  BY <1>1, <1>2, <1>3, <1>4, <1>5 DEF ConvertedSoFar

LEMMA LineText ==
  ASSUME PagesOK(page, disk, dirty), CallsOK, ConvertedSoFar, ConvertLine
  PROVE  ConvertedSoFar'
<1>1. PICK n, text, count : n = NumPages /\ text = call.text /\ count = call.count
  OBVIOUS
<1>2. PICK line : line = NextLine
  OBVIOUS
<1>3. /\ call.op = "convert" /\ call.at = n - 1 /\ call.at # -1 /\ count # Len(text)
      /\ FileRecords = Lines(text, count) /\ line = text[count + 1]
      /\ line # NoRecord => ~PageFull(page[n - 1], line)
  BY <1>1, <1>2 DEF ConvertLine, ConvertedSoFar, ConvertDone, NextLine, LineFits
<1>4. /\ page' = [page EXCEPT ![n - 1] = AddLine(page[n - 1], line)]
      /\ call' = [call EXCEPT !.count = count + 1]
      /\ UNCHANGED <<file, disk, dirty>>
  BY <1>1, <1>2, <1>3 DEF ConvertLine
<1>5. n \in Nat \ {0} /\ DOMAIN page = 0 .. n - 1 /\ n - 1 \in 0 .. n - 1
  BY <1>1, <1>3, PageNumbers
<1>6. text \in Seq(Contents) /\ count \in Nat /\ count < Len(text) /\ line \in Contents
  <2>1. text \in Seq(Contents) /\ count \in Nat /\ count <= Len(text)
    BY <1>1, <1>3, TextsAssumption DEF CallsOK, CallType, CallOK, Contents
  <2> QED
    BY ONLY <1>3, <2>1
<1>7. /\ DOMAIN page' = DOMAIN page /\ page'[n - 1] = AddLine(page[n - 1], line)
      /\ \A pg \in DOMAIN page \ {n - 1} : page'[pg] = page[pg]
  BY ONLY <1>4, <1>5
<1>8. NumPages' = n
  BY <1>1, <1>7 DEF NumPages
<1>9. \A pg \in 0 .. n - 1 : PageOK(page[pg]) /\ PageOK(page'[pg])
  BY <1>5, <1>7, LineKeeps DEF PagesOK
<1>10. FlattenSeq(PageLists(page', n)) = FlattenSeq(PageLists(page, n)) \o LineOf(line)
  <2>1. \A pg \in 0 .. n - 2 : page'[pg] = page[pg]
    BY ONLY <1>5, <1>7
  <2> QED
    BY ONLY <1>3, <1>5, <1>6, <1>7, <1>9, <2>1, LineOnLastPage
<1>11. FileRecords' = Lines(text, count + 1)
  <2>1. Lines(text, count + 1) = Lines(text, count) \o LineOf(line)
    BY <1>3, <1>6, LinesGrow
  <2> QED
    BY <1>1, <1>3, <1>8, <1>10, <2>1, RecordsInPages
<1>12. /\ call'.op = "convert" /\ call'.at = n - 1 /\ call'.text = text
       /\ call'.count = count + 1
  BY <1>1, <1>3, <1>4 DEF CallsOK, CallType
<1>13. \A pg \in DOMAIN page' \ dirty' : page'[pg] = disk'[pg]
  <2>1. n - 1 \in dirty
    BY <1>3, <1>5 DEF CallsOK, HeldFixed, Held
  <2> QED
    BY <1>3, <1>4, <1>7, <2>1 DEF ConvertedSoFar
<1>14. file' # "none"
  BY <1>3, <1>4 DEF ConvertedSoFar, Idle
<1> QED
  BY <1>8, <1>11, <1>12, <1>13, <1>14 DEF ConvertedSoFar

LEMMA NewPageText ==
  ASSUME PagesOK(page, disk, dirty), CallsOK, ConvertedSoFar, ConvertNewPage
  PROVE  ConvertedSoFar'
<1>1. PICK n, text, count : n = NumPages /\ text = call.text /\ count = call.count
  OBVIOUS
<1>2. /\ call.op = "convert" /\ FileRecords = Lines(text, count)
      /\ page' = [pg \in DOMAIN page \cup {n} |-> IF pg = n THEN SP_InitPage ELSE page[pg]]
      /\ disk' = [pg \in DOMAIN page \cup {n} |-> IF pg = n THEN Absent ELSE disk[pg]]
      /\ call' = [call EXCEPT !.at = n] /\ file' = file
      /\ dirty \subseteq dirty' /\ n \in dirty'
  BY <1>1 DEF ConvertNewPage, ConvertedSoFar, Extended
<1>3. n \in Nat /\ DOMAIN page = 0 .. n - 1
  BY <1>1, PageNumbers
<1>4. /\ DOMAIN page' = 0 .. n /\ page'[n] = SP_InitPage
      /\ \A pg \in 0 .. n - 1 : page'[pg] = page[pg] /\ disk'[pg] = disk[pg]
  <2>1. (0 .. n - 1) \cup {n} = 0 .. n /\ n \notin 0 .. n - 1
    BY ONLY <1>3
  <2> QED
    BY ONLY <1>2, <1>3, <2>1
<1>5. NumPages' = n + 1
  <2>1. Cardinality(0 .. n) = n + 1
    BY <1>3, FS_Interval
  <2> QED
    BY <1>4, <2>1 DEF NumPages
<1>6. FileRecords' = Lines(text, count)
  <2>1. \A pg \in 0 .. n - 1 : PageOK(page[pg])
    BY <1>3 DEF PagesOK
  <2>2. FlattenSeq(PageLists(page', n + 1)) = FlattenSeq(PageLists(page, n))
    BY ONLY <1>3, <1>4, <2>1, NoLineOnNewPage
  <2> QED
    BY <1>1, <1>2, <1>5, <2>2, RecordsInPages
<1>7. call'.op = "convert" /\ call'.at = n /\ call'.text = text /\ call'.count = count
  BY <1>1, <1>2 DEF CallsOK, CallType
<1>8. \A pg \in DOMAIN page' \ dirty' : page'[pg] = disk'[pg]
  <2>1. \A pg \in DOMAIN page \ dirty : page[pg] = disk[pg]
    BY <1>2 DEF ConvertedSoFar
  <2>2. \A pg \in 0 .. n : pg = n \/ pg \in 0 .. n - 1
    BY ONLY <1>3
  <2> QED
    BY ONLY <1>2, <1>3, <1>4, <2>1, <2>2
<1>9. file' # "none"
  BY <1>2 DEF ConvertedSoFar, Idle
<1>10. call'.at = NumPages' - 1
  BY ONLY <1>3, <1>5, <1>7
<1> QED
  BY <1>6, <1>7, <1>8, <1>9, <1>10 DEF ConvertedSoFar

(* A page that is evicted while a convert goes on comes back as it was.    *)
LEMMA EvictText ==
  ASSUME PagesOK(page, disk, dirty), CallsOK, ConvertedSoFar, call.op = "convert",
         NEW pg \in PageNums, Evict(pg)
  PROVE  ConvertedSoFar'
<1>1. PICK q : q = Reread(pg)
  OBVIOUS
<1>2. /\ pg \in DOMAIN page /\ page' = [page EXCEPT ![pg] = q]
      /\ disk' = [disk EXCEPT ![pg] = q] /\ dirty' = dirty \ {pg}
      /\ UNCHANGED <<file, call>>
  BY <1>1 DEF Evict
<1>3. q = page[pg]
  BY <1>1, <1>2 DEF Reread, ConvertedSoFar
<1>4. page = [other \in DOMAIN page |-> page[other]] /\ DOMAIN disk = DOMAIN page
  BY PageNumbers
<1>5. page' = page
  BY ONLY <1>2, <1>3, <1>4
<1>6. \A other \in DOMAIN page' \ dirty' : page'[other] = disk'[other]
  <2>1. /\ disk'[pg] = q
        /\ \A other \in DOMAIN page \ {pg} : disk'[other] = disk[other]
    BY ONLY <1>2, <1>4
  <2>2. \A other \in DOMAIN page \ dirty : page[other] = disk[other]
    BY DEF ConvertedSoFar
  <2> QED
    BY ONLY <1>2, <1>3, <1>5, <2>1, <2>2
<1>7. NumPages' = NumPages /\ FileRecords' = FileRecords
  BY <1>5 DEF NumPages, FileRecords, RecordsIn
<1>8. file' # "none"
  BY <1>2 DEF ConvertedSoFar, Idle
<1> QED
  BY <1>2, <1>6, <1>7, <1>8 DEF ConvertedSoFar

(* In a state before the file is made no step but its making is possible.  *)
LEMMA OtherText ==
  ASSUME PagesOK(page, disk, dirty), CallsOK, ConvertedSoFar, Next,
         call'.op # "convert"
  PROVE  ConvertedSoFar'
<1>1. Idle.op = "idle" /\ DOMAIN <<>> = {}
  BY DEF Idle
<1>2. SUFFICES ASSUME file' = "none" PROVE FALSE
  BY DEF ConvertedSoFar
<1>3. ~(PF_CreateFile \/ PF_OpenFile \/ PF_CloseFile) /\ ~ \E text \in Texts : Convert(text)
  BY <1>2 DEF PF_CreateFile, PF_OpenFile, PF_CloseFile, Convert
<1>4. \A op, rec : ~Start(op, rec)
  BY <1>2 DEF Start
<1>5. ~(ConvertAllocFails \/ ConvertEnd)
  BY <1>2 DEF ConvertAllocFails, ConvertEnd, ConvertClose
<1>6. CASE call.op = "idle" /\ page = <<>>
  <2>1. ~ConvertStep
    BY <1>5, <1>6 DEF ConvertStep, ConvertLine, ConvertNewPage
  <2>2. ~InsertStep /\ ~ScanFails
    BY <1>6 DEF InsertStep, InsertScan, InsertLast, InsertFirst, InsertAllocFails, ScanFails
  <2>3. ~ReadStep
    BY <1>6 DEF ReadStep, FindNextPage, FindFound, DeleteFound, NotFound, ScanPage, ScanEnd
  <2>4. \A pg : ~Evict(pg)
    BY <1>1, <1>6 DEF Evict
  <2> QED
    BY <1>3, <1>4, <2>1, <2>2, <2>3, <2>4 DEF Next
<1>7. CASE file # "none"
  <2>1. ~ConvertStep
    BY <1>2, <1>5, <1>7 DEF ConvertStep, ConvertLine, ConvertNewPage
  <2>2. ~InsertStep /\ ~ScanFails
    BY <1>2, <1>7
    DEF InsertStep, InsertScan, InsertLast, InsertFirst, InsertAllocFails, ScanFails
  <2>3. ~ReadStep
    BY <1>2, <1>7 DEF ReadStep, FindNextPage, FindFound, DeleteFound, NotFound, ScanPage, ScanEnd
  <2>4. \A pg : ~Evict(pg)
    BY <1>2, <1>7 DEF Evict
  <2> QED
    BY <1>3, <1>4, <2>1, <2>2, <2>3, <2>4 DEF Next
<1> QED
  BY <1>1, <1>6, <1>7 DEF ConvertedSoFar

LEMMA InitText ==
  Init => ConvertedSoFar
BY DEF Init, ConvertedSoFar, Idle

LEMMA NextText ==
  IInv /\ ConvertedSoFar /\ [Next]_vars => ConvertedSoFar'
<1> SUFFICES ASSUME PagesOK(page, disk, dirty), CallsOK, ConvertedSoFar, [Next]_vars
             PROVE  ConvertedSoFar'
  BY InvParts
<1>1. CASE UNCHANGED vars
  BY <1>1 DEF vars, ConvertedSoFar, NumPages, FileRecords, RecordsIn
<1>2. CASE Next /\ call'.op # "convert"
  BY <1>2, OtherText
<1>3. CASE Next /\ call'.op = "convert"
  <2>1. CASE \E text \in Texts : Convert(text)
    BY <2>1, StartText
  <2>2. CASE ConvertStep
    <3>1. ~ConvertAllocFails /\ ~ConvertEnd
      BY <1>3 DEF ConvertAllocFails, ConvertEnd, Fails, Return, Idle
    <3> QED
      BY <2>2, <3>1, LineText, NewPageText DEF ConvertStep
  <2>3. CASE \E pg \in PageNums : Evict(pg)
    <3>1. call.op = "convert"
      BY <1>3, <2>3 DEF Evict
    <3> QED
      BY <2>3, <3>1, EvictText
  <2> QED
    BY <1>3, <2>1, <2>2, <2>3, ConvertSteps
<1> QED
  BY <1>1, <1>2, <1>3

(* What is on disk when a convert has succeeded.                           *)
LEMMA WrittenText ==
  ASSUME PagesOK(page, disk, dirty), CallsOK, ConvertedSoFar, Next, Succeeds("convert")
  PROVE  RecordsIn(disk)' = Lines(call.text, Len(call.text))
<1>1. call.op = "convert" /\ call' = Idle /\ "err" \notin DOMAIN ret' /\ Idle.op = "idle"
  BY DEF Succeeds, Returns, Idle
<1>2. ConvertEnd
  <2>1. ~ \E text \in Texts : Convert(text)
    BY <1>1 DEF Convert
  <2>2. ~(ConvertLine \/ ConvertNewPage)
    <3>1. ~ConvertLine
      <4>1. ConvertLine => call'.op = call.op
        BY DEF ConvertLine, CallsOK, CallType
      <4> QED
        BY <1>1, <4>1
    <3>2. ~ConvertNewPage
      <4>1. ConvertNewPage => call'.op = call.op
        BY DEF ConvertNewPage, CallsOK, CallType
      <4> QED
        BY <1>1, <4>1
    <3> QED
      BY <3>1, <3>2
  <2>3. ~ConvertAllocFails
    BY <1>1 DEF ConvertAllocFails, Fails, Return, Error
  <2>4. ~ \E pg \in PageNums : Evict(pg)
    BY <1>1 DEF Evict
  <2> QED
    BY <1>1, <2>1, <2>2, <2>3, <2>4, ConvertSteps DEF ConvertStep
<1>3. file' = "closed"
  BY <1>1, <1>2 DEF ConvertEnd, Fails, Return, Error
<1>4. /\ page' = [pg \in DOMAIN page |-> IF pg = call.at THEN page[pg] ELSE Reread(pg)]
      /\ disk' = page'
  BY <1>2, <1>3 DEF ConvertEnd, ConvertClose
<1>5. \A pg \in DOMAIN page : Reread(pg) = page[pg]
  BY <1>1 DEF Reread, ConvertedSoFar
<1>6. page = [pg \in DOMAIN page |-> page[pg]]
  BY PageNumbers
<1>7. page' = page /\ disk' = page
  BY ONLY <1>4, <1>5, <1>6
<1>8. RecordsIn(disk)' = FileRecords
  BY <1>7 DEF RecordsIn, FileRecords, NumPages
<1>9. call.count = Len(call.text)
  BY <1>2 DEF ConvertEnd, ConvertDone
<1> QED
  BY <1>1, <1>8, <1>9 DEF ConvertedSoFar

LEMMA TextStepHolds ==
  IInv /\ ConvertedSoFar /\ [Next]_vars => [ConvertTextStep]_vars
<1> SUFFICES ASSUME IInv, ConvertedSoFar, Next PROVE ConvertTextStep
  OBVIOUS
<1>1. ConvertedSoFar'
  BY NextText
<1>2. Succeeds("convert") => RecordsIn(disk)' = Lines(call.text, Len(call.text))
  BY InvParts, WrittenText
<1> QED
  BY <1>1, <1>2 DEF ConvertedSoFar, ConvertTextStep

(* SPconvertTxtToTdb puts every line that is not empty into the file, in   *)
(* order and once, over any number of full pages and evictions, and when   *)
(* it has returned SPE_OK all of them are on disk; whether or not there    *)
(* are records that no page has room for.                                  *)
THEOREM LinesAreKept == Spec => ConvertKeepsText
<1>1. Init => IInv /\ ConvertedSoFar
  BY InitInv, InitText
<1>2. IInv /\ ConvertedSoFar /\ [Next]_vars => (IInv /\ ConvertedSoFar)'
  BY NextInv, NextText
<1>3. IInv /\ ConvertedSoFar /\ [Next]_vars => [ConvertTextStep]_vars
  BY TextStepHolds
<1> QED
  BY <1>1, <1>2, <1>3, PTL DEF Spec, ConvertKeepsText

=============================================================================
