---------------------------- MODULE SlottedPage ----------------------------
(***************************************************************************)
(* The layout of a page of the Slotted Page layer and the operations on    *)
(* one page (splayer/src/sp.c).                                            *)
(*                                                                         *)
(* The header and the array of slots grow from the start of the page, the  *)
(* records from its end.  A slot has the offset and the length of its      *)
(* record.  `record' stands for the bytes found there: LayoutOK says that  *)
(* no other record, and no slot, is written over them.                     *)
(*                                                                         *)
(* A definition whose name ends in _Mutant... is a wrong version of the    *)
(* definition after it; no specification uses it.  It is what the property *)
(* named in its comment has been seen to catch.                            *)
(***************************************************************************)
EXTENDS Integers, SequencesExt

CONSTANTS
  PageSize,    (* PF_PAGE_SIZE                                             *)
  HeaderSize,  (* sizeof(PageHeader)                                       *)
  SlotSize,    (* sizeof(Slot)                                             *)
  Records,     (* the records, as contents                                 *)
  RecLen,      (* the length of each                                       *)
  NoRecord     (* what a slot that was deleted points to                   *)

ASSUME PageAssumption ==
  /\ PageSize \in Nat /\ HeaderSize \in Nat /\ SlotSize \in Nat \ {0}
  /\ HeaderSize <= PageSize

ASSUME RecordsAssumption ==
  RecLen \in [Records -> Nat] /\ NoRecord \notin Records

Slot ==
  [offset : -1 .. PageSize, length : 0 .. PageSize,
   record : Records \cup {NoRecord}]

SlottedPageType == [slots : Seq(Slot), freeSpacePtr : 0 .. PageSize]

Deleted == [offset |-> -1, length |-> 0, record |-> NoRecord]

SP_InitPage == [slots |-> <<>>, freeSpacePtr |-> PageSize]

SlotArrayEnd(page) == HeaderSize + Len(page.slots) * SlotSize

SP_GetFreeSpace(page) == page.freeSpacePtr - SlotArrayEnd(page)

(* TypeOK: there is always room.                                           *)
PageFull_MutantNever(page, rec) == FALSE

(* PagesLaidOut: the slot itself is forgotten.                             *)
PageFull_MutantNoSlot(page, rec) == SP_GetFreeSpace(page) < RecLen[rec]

(* SPE_PAGE_FULL of SP_InsertRecord.                                       *)
PageFull(page, rec) == SP_GetFreeSpace(page) < RecLen[rec] + SlotSize

(* SP_InsertRecord on a page with room.  The slot of a deleted record is   *)
(* not used again, and neither are its bytes.                              *)
SP_InsertRecord(page, rec) ==
  LET dataOffset == page.freeSpacePtr - RecLen[rec] IN
  [slots |-> Append(page.slots,
               [offset |-> dataOffset, length |-> RecLen[rec], record |-> rec]),
   freeSpacePtr |-> dataOffset]

(* DeleteRemovesFirst: every slot with that record on the page is deleted. *)
SP_DeleteRecord_MutantAll(page, slotID) ==
  [page EXCEPT !.slots = [i \in DOMAIN page.slots |->
     IF page.slots[i].record = page.slots[slotID].record THEN Deleted
     ELSE page.slots[i]]]

SP_DeleteRecord(page, slotID) == [page EXCEPT !.slots[slotID] = Deleted]

LiveSlots(page) == {i \in DOMAIN page.slots : page.slots[i].offset # -1}

(* ScanCountsAll: a deleted slot ends the scan of the page.                *)
SP_GetNextRecord_MutantStops(page, slotID) ==
  {i \in {slotID + 1} : i \in LiveSlots(page)}

(* The first slot after slotID that is not deleted, if there is one.       *)
SP_GetNextRecord(page, slotID) ==
  {i \in LiveSlots(page) :
     i > slotID /\ \A j \in LiveSlots(page) : j > slotID => i <= j}

(* The slots a loop over SP_GetNextRecord visits, from slotID = -1 in the  *)
(* code and 0 here, where the first slot is 1.                             *)
Visited(page) ==
  LET next[i \in 0 .. Len(page.slots)] ==
        LET n == SP_GetNextRecord(page, i)
        IN IF n = {} THEN {} ELSE n \cup next[CHOOSE j \in n : TRUE]
  IN next[0]

(* The records of a page, in the order of their slots.                     *)
RecordsOf(page) ==
  FlattenSeq([i \in DOMAIN page.slots |->
    IF i \in LiveSlots(page) THEN <<page.slots[i].record>> ELSE <<>>])

(* The records and the array of slots share no byte.                       *)
LayoutOK(page) ==
  /\ SlotArrayEnd(page) <= page.freeSpacePtr
  /\ \A i \in LiveSlots(page) :
       LET s == page.slots[i] IN
       /\ page.freeSpacePtr <= s.offset /\ s.offset + s.length <= PageSize
       /\ s.length = RecLen[s.record]
       /\ \A j \in LiveSlots(page) : i < j =>
            page.slots[j].offset + page.slots[j].length <= s.offset

=============================================================================
