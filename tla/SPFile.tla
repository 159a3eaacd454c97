------------------------------- MODULE SPFile -------------------------------
(***************************************************************************)
(* The Slotted Page layer on one .tdb file (splayer/src/sp*.c): convert,   *)
(* insert, find, delete, scan and analyze, each in as many steps as it     *)
(* makes calls of the Paged File layer that give it a page.                *)
(*                                                                         *)
(* The Paged File layer is what its clients see of it.  A page that is     *)
(* fixed stays in its frame; a page that is not may be evicted, and comes  *)
(* back as it was if it was marked dirty, and as it is on disk if not.     *)
(* Getting a page fails if it is fixed already (PFE_PAGEFIXED) or if every *)
(* frame holds a fixed page (PFE_NOBUF), and may fail on I/O (PFE_UNIX).   *)
(* The layer never disposes of a page, so all pages of the file are used   *)
(* pages, and the next page after pg is pg + 1.                            *)
(***************************************************************************)
EXTENDS SlottedPage, FiniteSets

CONSTANTS
  Texts,       (* the files to convert: sequences of lines, as fgets()     *)
               (* returns them; an empty line is NoRecord                  *)
  MaxPages,    (* bound: no text fills more pages                          *)
  NumBuffers,  (* PF_Init's num_buffers                                    *)
  PFMayFail,   (* TRUE if the Paged File layer may fail on I/O             *)
  Absent       (* a page that is not on disk yet                           *)

ASSUME TextsAssumption == Texts \subseteq Seq(Records \cup {NoRecord})
ASSUME BoundsAssumption ==
  MaxPages \in Nat \ {0} /\ NumBuffers \in Nat \ {0} /\ PFMayFail \in BOOLEAN
ASSUME AbsentAssumption == Absent \notin SlottedPageType

VARIABLES
  file,    (* "none", "closed", "open", or "lost": open, but convert has   *)
           (* not told its caller the descriptor                           *)
  page,    (* the pages of the file, as a client gets them                 *)
  disk,    (* the pages as they are on disk                                *)
  dirty,   (* the pages marked dirty in the buffer                         *)
  fixed,   (* the pages that are fixed                                     *)
  call,    (* the call in progress                                         *)
  ret,     (* what the last call returned                                  *)
  failed   (* ghost: the Paged File layer has failed on I/O                *)

vars == <<file, page, disk, dirty, fixed, call, ret, failed>>
buffers == <<page, disk, dirty>>

PageNums == 0 .. MaxPages - 1
NumPages == Cardinality(DOMAIN page)

Idle == [op |-> "idle", rec |-> NoRecord, at |-> -1, count |-> 0, text |-> <<>>]
Call(op, rec) == [Idle EXCEPT !.op = op, !.rec = rec]

NoResult == [op |-> "none"]

Init ==
  /\ file = "none"
  /\ page = <<>> /\ disk = <<>> /\ dirty = {} /\ fixed = {}
  /\ call = Idle
  /\ ret = NoResult
  /\ failed = FALSE

-----------------------------------------------------------------------------
(***************************************************************************)
(* The Paged File layer.                                                   *)
(***************************************************************************)

(* A page that is not dirty is read again when it is needed.               *)
Reread(pg) == IF pg \in dirty THEN page[pg] ELSE disk[pg]

(* The frame of an unfixed page is taken for another page.                 *)
Evict(pg) ==
  /\ pg \in DOMAIN page \ fixed
  /\ page' = [page EXCEPT ![pg] = Reread(pg)]
  /\ disk' = [disk EXCEPT ![pg] = Reread(pg)]
  /\ dirty' = dirty \ {pg}
  /\ UNCHANGED <<file, fixed, call, ret, failed>>

HasBuffer == Cardinality(fixed) < NumBuffers
CanGet(pg) == pg \notin fixed /\ HasBuffer
GetErrors(pg) ==
  IF pg \in fixed THEN {"PAGEFIXED"}
  ELSE IF ~HasBuffer THEN {"NOBUF"} ELSE IF PFMayFail THEN {"UNIX"} ELSE {}
AllocErrors ==
  IF ~HasBuffer THEN {"NOBUF"} ELSE IF PFMayFail THEN {"UNIX"} ELSE {}

(* The pages with a new page q at their end: PF_AllocPage marks it dirty.  *)
Extended(pages, q) ==
  [pg \in DOMAIN page \cup {NumPages} |-> IF pg = NumPages THEN q ELSE pages[pg]]

(* PF_CloseFile writes the dirty pages; whoever opens the file again reads *)
(* what is on disk.                                                        *)
Flush ==
  /\ page' = [pg \in DOMAIN page |-> Reread(pg)]
  /\ disk' = page'
  /\ dirty' = {}

(* A call ends with result r.                                              *)
Return(r) == call' = Idle /\ ret' = r
Error(err) == [op |-> call.op, err |-> err]
Fails(err) == Return(Error(err)) /\ failed' = (failed \/ err = "UNIX")

PF_CreateFile ==
  /\ file = "none" /\ call = Idle
  /\ file' = "closed"
  /\ UNCHANGED <<buffers, fixed, call, ret, failed>>

PF_OpenFile ==
  /\ file = "closed" /\ call = Idle
  /\ file' = "open"
  /\ ret' = NoResult
  /\ UNCHANGED <<buffers, fixed, call, failed>>

PF_CloseFile ==
  /\ file = "open" /\ call = Idle
  /\ IF fixed = {} THEN file' = "closed" /\ Flush /\ ret' = [op |-> "close"]
     ELSE /\ ret' = [op |-> "close", err |-> "PAGEFIXED"]
          /\ UNCHANGED <<file, buffers>>
  /\ UNCHANGED <<fixed, call, failed>>

-----------------------------------------------------------------------------
(***************************************************************************)
(* SPconvertTxtToTdb.                                                      *)
(***************************************************************************)

Convert(text) ==
  /\ file = "none" /\ call = Idle
  /\ file' = "open"
  /\ call' = [Idle EXCEPT !.op = "convert", !.text = text]
  /\ ret' = NoResult
  /\ UNCHANGED <<buffers, fixed, failed>>

(* An empty line is skipped.                                               *)
AddLine(q, line) == IF line = NoRecord THEN q ELSE SP_InsertRecord(q, line)

ConvertDone == call.count = Len(call.text)
NextLine == call.text[call.count + 1]
LineFits == NextLine # NoRecord => ~PageFull(page[call.at], NextLine)

NeedsPage == IF call.at = -1 THEN TRUE ELSE ~ConvertDone /\ ~LineFits

ConvertLine ==
  /\ call.op = "convert" /\ call.at # -1 /\ ~ConvertDone
  /\ LineFits
  /\ page' = [page EXCEPT ![call.at] = AddLine(page[call.at], NextLine)]
  /\ call' = [call EXCEPT !.count = call.count + 1]
  /\ UNCHANGED <<file, disk, dirty, fixed, ret, failed>>

(* ConvertKeepsText: the line that did not fit is not tried again.         *)
ConvertNewPage_MutantNoRetry ==
  /\ call.op = "convert"
  /\ NeedsPage
  /\ LET full == {call.at} \ {-1} IN
     /\ Cardinality(fixed \ full) < NumBuffers
     /\ NumPages < MaxPages
     /\ page' = Extended(page, SP_InitPage)
     /\ disk' = Extended(disk, Absent)
     /\ dirty' = dirty \cup full \cup {NumPages}
     /\ fixed' = (fixed \ full) \cup {NumPages}
  /\ call' = [call EXCEPT !.at = NumPages,
                          !.count = IF call.at = -1 THEN 0 ELSE @ + 1]
  /\ UNCHANGED <<file, ret, failed>>

(* At the start, and when the page is full: it is unfixed, dirty, and a    *)
(* new page allocated.  Then the line is tried again.                      *)
ConvertNewPage ==
  /\ call.op = "convert"
  /\ NeedsPage
  /\ LET full == {call.at} \ {-1} IN
     /\ Cardinality(fixed \ full) < NumBuffers
     /\ NumPages < MaxPages
     /\ page' = Extended(page, SP_InitPage)
     /\ disk' = Extended(disk, Absent)
     /\ dirty' = dirty \cup full \cup {NumPages}
     /\ fixed' = (fixed \ full) \cup {NumPages}
  /\ call' = [call EXCEPT !.at = NumPages]
  /\ UNCHANGED <<file, ret, failed>>

(* SPconvertTxtToTdb ends with its page unfixed, dirty, and PF_CloseFile.  *)
(* If that fails the file is open, and nobody knows its descriptor.        *)
ConvertClose ==
  /\ fixed' = fixed \ {call.at}
  /\ \/ /\ file' = "closed"
        /\ page' = [pg \in DOMAIN page |->
                      IF pg = call.at THEN page[pg] ELSE Reread(pg)]
        /\ disk' = page'
        /\ dirty' = {}
     \/ /\ PFMayFail /\ file' = "lost"
        /\ dirty' = dirty \cup ({call.at} \ {-1})
        /\ UNCHANGED <<page, disk>>

ConvertAllocFails ==
  /\ call.op = "convert" /\ PFMayFail
  /\ NeedsPage
  /\ ConvertClose
  /\ Fails("UNIX")

ConvertEnd ==
  /\ call.op = "convert" /\ call.at # -1 /\ ConvertDone
  /\ ConvertClose
  /\ IF file' = "closed"
     THEN Return([op |-> "convert", text |-> call.text]) /\ UNCHANGED failed
     ELSE Fails("UNIX")

-----------------------------------------------------------------------------
(***************************************************************************)
(* The calls on an open file.                                              *)
(***************************************************************************)
Start(op, rec) ==
  /\ file = "open" /\ call = Idle
  /\ call' = Call(op, rec)
  /\ ret' = NoResult
  /\ UNCHANGED <<file, buffers, fixed, failed>>

NextPage == call.at + 1
AtEOF == NextPage = NumPages

(* A PF_GetNextPage that fails ends the call.  SPinsertRecordByContent     *)
(* returns with the page before still fixed.                               *)
ScanFails ==
  /\ call.op \in {"insert", "find", "delete", "scan"}
  /\ ~AtEOF
  /\ \E err \in GetErrors(NextPage) : Fails(err)
  /\ UNCHANGED <<file, buffers, fixed>>

(* SPinsertRecordByContent: the page before is unfixed after the next one  *)
(* is fixed.                                                               *)
InsertScan ==
  /\ call.op = "insert" /\ ~AtEOF
  /\ CanGet(NextPage)
  /\ fixed' = (fixed \cup {NextPage}) \ {call.at}
  /\ call' = [call EXCEPT !.at = NextPage]
  /\ UNCHANGED <<file, buffers, ret, failed>>

(* A record that does not fit in the last page is inserted into that page  *)
(* made empty.  If it does not fit in an empty page the page is left       *)
(* empty, but is not marked dirty.                                         *)
FitsSomehow(rec) == ~PageFull(SP_InitPage, rec)
InsertInto(q, rec) ==
  IF ~PageFull(q, rec) THEN SP_InsertRecord(q, rec)
  ELSE IF FitsSomehow(rec) THEN SP_InsertRecord(SP_InitPage, rec)
  ELSE SP_InitPage
InsertResult(rec) ==
  IF FitsSomehow(rec) THEN [op |-> "insert"] ELSE Error("PAGE_FULL")

InsertLast ==
  /\ call.op = "insert" /\ AtEOF /\ call.at # -1
  /\ page' = [page EXCEPT ![call.at] = InsertInto(page[call.at], call.rec)]
  /\ dirty' = IF FitsSomehow(call.rec) THEN dirty \cup {call.at} ELSE dirty
  /\ fixed' = fixed \ {call.at}
  /\ Return(InsertResult(call.rec))
  /\ UNCHANGED <<file, disk, failed>>

(* The file has no page yet; the one allocated is unfixed again.           *)
InsertFirst ==
  /\ call.op = "insert" /\ AtEOF /\ call.at = -1
  /\ HasBuffer
  /\ page' = Extended(page, InsertInto(SP_InitPage, call.rec))
  /\ disk' = Extended(disk, Absent)
  /\ dirty' = dirty \cup {NumPages}
  /\ Return(InsertResult(call.rec))
  /\ UNCHANGED <<file, fixed, failed>>

InsertAllocFails ==
  /\ call.op = "insert" /\ AtEOF /\ call.at = -1
  /\ \E err \in AllocErrors : Fails(err)
  /\ UNCHANGED <<file, buffers, fixed>>

(* SPfindRecord, for SP_FindRecord and SPdeleteRecordByContent: the pages  *)
(* from the first, one fixed at a time.                                    *)
Hits == {i \in Visited(page[NextPage]) : page[NextPage].slots[i].record = call.rec}
FirstHit == CHOOSE i \in Hits : \A j \in Hits : i <= j

FindNextPage ==
  /\ call.op \in {"find", "delete"} /\ ~AtEOF
  /\ CanGet(NextPage) /\ Hits = {}
  /\ call' = [call EXCEPT !.at = NextPage]
  /\ UNCHANGED <<file, buffers, fixed, ret, failed>>

(* TwoBuffersSuffice: the page is not unfixed, as SPfindRecord leaves it.  *)
FindFound_MutantKeepsFixed ==
  /\ call.op = "find" /\ ~AtEOF
  /\ CanGet(NextPage) /\ Hits # {}
  /\ Return([op |-> "find", rec |-> call.rec, page |-> NextPage, slot |-> FirstHit])
  /\ fixed' = fixed \cup {NextPage}
  /\ UNCHANGED <<file, buffers, failed>>

(* FindReturnsFirst: the page number of the page before.                   *)
FindFound_MutantWrongPage ==
  /\ call.op = "find" /\ ~AtEOF
  /\ CanGet(NextPage) /\ Hits # {}
  /\ Return([op |-> "find", rec |-> call.rec, page |-> call.at, slot |-> FirstHit])
  /\ UNCHANGED <<file, buffers, fixed, failed>>

FindFound ==
  /\ call.op = "find" /\ ~AtEOF
  /\ CanGet(NextPage) /\ Hits # {}
  /\ Return([op |-> "find", rec |-> call.rec, page |-> NextPage, slot |-> FirstHit])
  /\ UNCHANGED <<file, buffers, fixed, failed>>

(* OnlyCallsChangeRecords: the page is unfixed, but not as dirty.          *)
DeleteFound_MutantClean ==
  /\ call.op = "delete" /\ ~AtEOF
  /\ CanGet(NextPage) /\ Hits # {}
  /\ page' = [page EXCEPT ![NextPage] = SP_DeleteRecord(page[NextPage], FirstHit)]
  /\ Return([op |-> "delete", rec |-> call.rec])
  /\ UNCHANGED <<file, disk, dirty, fixed, failed>>

DeleteFound ==
  /\ call.op = "delete" /\ ~AtEOF
  /\ CanGet(NextPage) /\ Hits # {}
  /\ page' = [page EXCEPT ![NextPage] = SP_DeleteRecord(page[NextPage], FirstHit)]
  /\ dirty' = dirty \cup {NextPage}
  /\ Return([op |-> "delete", rec |-> call.rec])
  /\ UNCHANGED <<file, disk, fixed, failed>>

NotFound ==
  /\ call.op \in {"find", "delete"} /\ AtEOF
  /\ Return(Error("RECORD_NOT_FOUND"))
  /\ UNCHANGED <<file, buffers, fixed, failed>>

(* SPscanDb and SPanalyzeDb count the records page by page.                *)
ScanPage ==
  /\ call.op = "scan" /\ ~AtEOF
  /\ CanGet(NextPage)
  /\ call' = [call EXCEPT !.at = NextPage,
                          !.count = @ + Cardinality(Visited(page[NextPage]))]
  /\ UNCHANGED <<file, buffers, fixed, ret, failed>>

ScanEnd ==
  /\ call.op = "scan" /\ AtEOF
  /\ Return([op |-> "scan", found |-> call.count])
  /\ UNCHANGED <<file, buffers, fixed, failed>>

-----------------------------------------------------------------------------
ConvertStep ==
  ConvertLine \/ ConvertNewPage \/ ConvertAllocFails \/ ConvertEnd
InsertStep ==
  InsertScan \/ InsertLast \/ InsertFirst \/ InsertAllocFails
ReadStep ==
  FindNextPage \/ FindFound \/ DeleteFound \/ NotFound \/ ScanPage \/ ScanEnd

Next ==
  \/ PF_CreateFile \/ PF_OpenFile \/ PF_CloseFile
  \/ \E text \in Texts : Convert(text)
  \/ \E rec \in Records : Start("insert", rec) \/ Start("find", rec) \/ Start("delete", rec)
  \/ Start("scan", NoRecord)
  \/ ConvertStep \/ InsertStep \/ ReadStep \/ ScanFails
  \/ \E pg \in PageNums : Evict(pg)

Spec == Init /\ [][Next]_vars

=============================================================================
