---------------------------- MODULE SPFileProps ----------------------------
(***************************************************************************)
(* What must be true of the Slotted Page layer.                            *)
(***************************************************************************)
EXTENDS SPFile

Ops == {"idle", "convert", "insert", "find", "delete", "scan"}

CallType ==
  [op : Ops, rec : Records \cup {NoRecord}, at : {-1} \cup DOMAIN page,
   count : Nat, text : Texts \cup {<<>>}]

(* Every variable has its type; a page that is not on disk is dirty.       *)
TypeOK ==
  /\ file \in {"none", "closed", "open", "lost"}
  /\ \E n \in 0 .. MaxPages : page \in [0 .. n - 1 -> SlottedPageType]
  /\ DOMAIN disk = DOMAIN page
  /\ \A pg \in DOMAIN disk : disk[pg] = Absent => pg \in dirty
  /\ dirty \subseteq DOMAIN page /\ fixed \subseteq DOMAIN page
  /\ call \in CallType

(* On every page, through any sequence of inserts and deletes, the array   *)
(* of slots and the records that are left do not overlap.                  *)
PagesLaidOut == \A pg \in DOMAIN page : LayoutOK(page[pg])

RecordsIn(pages) == FlattenSeq([i \in 1 .. NumPages |-> RecordsOf(pages[i - 1])])

(* The records of the file, in order.                                      *)
FileRecords == RecordsIn(page)

(* The first n lines of a text that are not empty.                         *)
Lines(text, n) ==
  FlattenSeq([i \in 1 .. n |-> IF text[i] = NoRecord THEN <<>> ELSE <<text[i]>>])

Returns(op) == call.op = op /\ call' = Idle
Succeeds(op) == Returns(op) /\ "err" \notin DOMAIN ret'

(* sp.h:100: SPconvertTxtToTdb puts every line that is not empty into the  *)
(* file, in order and once, over any number of full pages; when it has     *)
(* returned SPE_OK they are all on disk.                                   *)
ConvertTextStep ==
  /\ (call.op = "convert" /\ call'.op = "convert") =>
       FileRecords' = Lines(call'.text, call'.count)
  /\ Succeeds("convert") => RecordsIn(disk)' = Lines(call.text, Len(call.text))

ConvertKeepsText == [][ConvertTextStep]_vars

(* sp.h:115: SP_FindRecord finds the first occurrence, and says that there *)
(* is none only if there is none.                                          *)
Occurs(pg, i) ==
  /\ pg \in DOMAIN page /\ i \in LiveSlots(page[pg])
  /\ page[pg].slots[i].record = call.rec

Before(pg, i, other, j) == pg < other \/ (pg = other /\ i <= j)

IsFirst(pg, i) ==
  /\ Occurs(pg, i)
  /\ \A other \in DOMAIN page : \A j \in LiveSlots(page[other]) :
       Occurs(other, j) => Before(pg, i, other, j)

OccursNowhere == \A pg \in DOMAIN page : \A i \in LiveSlots(page[pg]) : ~Occurs(pg, i)

FindStep ==
  Returns("find") =>
    /\ Succeeds("find") => IsFirst(ret'.page, ret'.slot)
    /\ ret' = [op |-> "find", err |-> "RECORD_NOT_FOUND"] => OccursNowhere

FindReturnsFirst == [][FindStep]_vars

(* A record is known by its page and its slot.                             *)
IdsIn(pages) == UNION {{pg} \X LiveSlots(page[pg]) : pg \in pages}
RecordIds == IdsIn(DOMAIN page)
RecordAt == [id \in RecordIds |-> page[id[1]].slots[id[2]].record]

(* sp.h:126: SP_DeleteRecordByContent deletes the first occurrence and     *)
(* nothing else: every other record is where it was.                       *)
DeleteStep ==
  Returns("delete") =>
    /\ Succeeds("delete") =>
         \E pg \in DOMAIN page : \E i \in LiveSlots(page[pg]) :
           /\ IsFirst(pg, i)
           /\ RecordAt' = [id \in RecordIds \ {<<pg, i>>} |-> RecordAt[id]]
    /\ ret' = [op |-> "delete", err |-> "RECORD_NOT_FOUND"] => OccursNowhere

DeleteRemovesFirst == [][DeleteStep]_vars

(* A scan, an eviction, a close, an open and a delete that fails change no *)
(* record: whoever modifies a page unfixes it as dirty.  Neither does an   *)
(* insert that fails, of a record that has room in an empty page.  For one *)
(* that has not (RecordsFit) see RejectedInsertKeepsRecords.               *)
RecordsStep ==
  FileRecords' # FileRecords =>
    call.op = "convert" \/ Succeeds("insert") \/ Succeeds("delete")

OnlyCallsChangeRecords == [][RecordsStep]_vars

(* sp.h:110: SPscanDb returns the number of records in the file.           *)
ScanStep == Succeeds("scan") => ret'.found = Cardinality(RecordIds)

ScanCountsAll == [][ScanStep]_vars

(* With two buffers or more, and as long as no I/O fails, every page that  *)
(* a call fixes is unfixed when it returns, so no call runs out of buffers *)
(* and the file can always be closed.                                      *)
TwoBuffersSuffice ==
  ~failed /\ NumBuffers >= 2 =>
    /\ call = Idle => fixed = {}
    /\ "err" \in DOMAIN ret => ret.err \notin {"NOBUF", "PAGEFIXED"}

(* sp.h:137 SP_InsertRecordByContent: "Tries to insert into the last page. *)
(* If full, allocates a new page and inserts there."  So an insert that    *)
(* succeeds adds a record and takes none away.                             *)
InsertAppends ==
  [][Succeeds("insert") => FileRecords' = Append(FileRecords, call.rec)]_vars

(* spinsert.h:23: "@return SPE_OK on success, SPE_RECORD_TOO_BIG, or a PF  *)
(* error code."  So an insert that is rejected leaves the records of the   *)
(* file as they were.  The code does not keep to it for a record that has  *)
(* room in no page: spinsert.c:52 makes the last page empty before it      *)
(* finds out.                                                              *)
RejectedInsertKeepsRecords ==
  [][Returns("insert") /\ ~Succeeds("insert") => FileRecords' = FileRecords]_vars

-----------------------------------------------------------------------------
(***************************************************************************)
(* The inductive invariant, which implies the invariants above and, of     *)
(* each step, FindStep, DeleteStep, RecordsStep and ScanStep.              *)
(***************************************************************************)

(* A call looks for a record, or converts a text and is in it.             *)
CallOK ==
  /\ call.op \in {"insert", "find", "delete"} => call.rec \in Records
  /\ call.op = "convert" => call.text \in Texts /\ call.count <= Len(call.text)

(* What is on disk is laid out as well.                                    *)
DiskLaidOut ==
  \A pg \in DOMAIN disk :
    disk[pg] # Absent => disk[pg] \in SlottedPageType /\ LayoutOK(disk[pg])

(* The page that a convert or an insert is at is in the buffer, and that   *)
(* of a convert will be written.  If nothing has failed no other is fixed. *)
Held == {pg \in {call.at} : pg # -1 /\ call.op \in {"convert", "insert"}}

HeldFixed ==
  /\ Held \subseteq fixed /\ (call.op = "convert" => Held \subseteq dirty)
  /\ ~failed /\ NumBuffers >= 2 => fixed = Held

(* If there is no record that no page has room for, then a page that is    *)
(* not dirty is as it is on disk, the pages that a search has left behind  *)
(* do not have the record, and those that a scan has are counted.          *)
RecordsFit == \A rec \in Records : FitsSomehow(rec)

CleanAsOnDisk == RecordsFit => \A pg \in DOMAIN page \ dirty : page[pg] = disk[pg]

NotBehind ==
  RecordsFit /\ call.op \in {"find", "delete"} =>
    \A pg \in 0 .. call.at : \A i \in LiveSlots(page[pg]) : ~Occurs(pg, i)

CountedSoFar ==
  RecordsFit /\ call.op = "scan" => call.count = Cardinality(IdsIn(0 .. call.at))

IInv ==
  /\ TypeOK /\ PagesLaidOut /\ CallOK /\ DiskLaidOut
  /\ HeldFixed /\ CleanAsOnDisk /\ NotBehind /\ CountedSoFar
  /\ TwoBuffersSuffice

(* Together with IInv also inductive, and implies ConvertTextStep of each  *)
(* step: a convert starts with an empty file, is at its last page and has  *)
(* put into the file the lines it has read.                                *)
ConvertedSoFar ==
  /\ file = "none" => call = Idle /\ page = <<>>
  /\ call.op = "convert" =>
       /\ call.at = NumPages - 1
       /\ \A pg \in DOMAIN page \ dirty : page[pg] = disk[pg]
       /\ FileRecords = Lines(call.text, call.count)

=============================================================================
