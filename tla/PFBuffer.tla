------------------------------ MODULE PFBuffer ------------------------------
(***************************************************************************)
(* The buffer manager of the Paged File layer (pflayer/src/pfbuf.c), with  *)
(* the two callbacks that move a page between a frame and a file           *)
(* (PFreadfcn and PFwritefcn of pf.c).                                     *)
(*                                                                         *)
(* The manager is called by pf.c and never runs on its own, so it is given *)
(* here as operators on its state; PFFile composes them into the handlers  *)
(* of pf.c.  A buffer pool is a record p with the fields                   *)
(*   used, free  the two lists of frames, heads first (PFfirstbpage ...    *)
(*               PFlastbpage and PFfreebpage)                              *)
(*   numb, max   the number of frames malloc()ed so far (PFnumbpage) and   *)
(*               the limit on it (PFmaxbpage)                              *)
(*   strategy    PFstrategy                                                *)
(*   frame       the PFbpage structures                                    *)
(*   hash        the page table of pfhash.c, as the function that          *)
(*               PFhashFind computes (NULL where there is no entry)        *)
(* and the disk d maps a file and a page number to the page, or Absent     *)
(* beyond the end of the file.  u maps a file descriptor to the file its   *)
(* unixfd is open on.                                                      *)
(*                                                                         *)
(* malloc(), read() and write() may fail.  An operation is therefore the   *)
(* set of its possible outcomes, records                                   *)
(*   err   the PFE_ code returned        pool, disk  the state left behind *)
(*   bp    the frame handed to the caller, or NULL                         *)
(*                                                                         *)
(* A definition whose name ends in _Mutant... is a wrong version of the    *)
(* definition after it; no specification uses it.  It is what the property *)
(* named in its comment has been seen to catch.                            *)
(***************************************************************************)
EXTENDS Integers, SequencesExt

CONSTANTS
  Files,      (* the file names                                            *)
  FtabSize,   (* PF_FTAB_SIZE, the size of the open file table             *)
  MaxPages,   (* bound: no file grows beyond this many pages               *)
  MaxFrames,  (* bound: the largest pool PF_Init is called with            *)
  Vals,       (* the page contents a client writes                         *)
  Zero,       (* the contents of a page of a hole in a file                *)
  Junk,       (* contents nobody chose: malloc()ed memory, a torn page     *)
  Absent,     (* no such page in the file                                  *)
  Faults      (* the calls that may fail: "malloc", "read", "write"        *)

ASSUME SizesAssumption ==
  /\ FtabSize \in Nat \ {0}
  /\ MaxPages \in Nat \ {0}
  /\ MaxFrames \in Nat

ASSUME FaultsAssumption == Faults \subseteq {"malloc", "read", "write"}

PAGE_LIST_END == -1
PAGE_USED == -2
NULL == 0

Fds == 0 .. FtabSize - 1
Pages == 0 .. MaxPages - 1
PageIds == Fds \X Pages
Frames == 1 .. MaxFrames
Data == Vals \cup {Zero, Junk}

ASSUME AbsentAssumption ==
  /\ Absent \notin [nextfree : Int, pagebuf : Data]
  /\ Absent \notin [firstfree : Int, numpages : Int]
  /\ Absent \notin Files

(* A page as it is stored: its link in the list of free pages, and data.   *)
Links == {PAGE_USED, PAGE_LIST_END} \cup Pages
FilePage == [nextfree : Links, pagebuf : Data]
Hole == [nextfree |-> 0, pagebuf |-> Zero]

BufferPage ==
  [fd : Fds, page : Pages, fixed : BOOLEAN, dirty : BOOLEAN, fpage : FilePage]

(* Memory as malloc() returns it: the fields are not read before they are  *)
(* set, so any value stands for what they hold.                            *)
FreshPage ==
  [fd |-> 0, page |-> 0, fixed |-> FALSE, dirty |-> FALSE,
   fpage |-> [nextfree |-> PAGE_USED, pagebuf |-> Junk]]

Strategies == {"LRU", "MRU"}

Pool ==
  [used : Seq(Frames), free : Seq(Frames), numb : 0 .. MaxFrames,
   max : 0 .. MaxFrames, strategy : Strategies,
   frame : [Frames -> BufferPage], hash : [PageIds -> Frames \cup {NULL}]]

Disk == [Files -> [Pages -> FilePage \cup {Absent}]]

Outcome(err, p, d, bp) == [err |-> err, pool |-> p, disk |-> d, bp |-> bp]

-----------------------------------------------------------------------------
(***************************************************************************)
(* The callbacks of pf.c.                                                  *)
(***************************************************************************)

(* PFwritefcn succeeds: a page beyond the end of the file makes the file   *)
(* longer, and the pages it skips read as zeros.                           *)
WritePage(d, f, pg, fpage) ==
  [d EXCEPT ![f] = [q \in Pages |->
     IF q = pg THEN fpage
     ELSE IF q < pg /\ d[f][q] = Absent THEN Hole ELSE d[f][q]]]

(* PFwritefcn: PFE_OK, PFE_UNIX with nothing written, or an incomplete     *)
(* write, which leaves a torn page.                                        *)
PFwritefcn(d, u, fd, pg, fpage) ==
  {[err |-> "OK", disk |-> WritePage(d, u[fd], pg, fpage)]} \cup
  (IF "write" \in Faults
   THEN {[err |-> "UNIX", disk |-> d],
         [err |-> "INCOMPLETEWRITE",
          disk |-> WritePage(d, u[fd], pg, [fpage EXCEPT !.pagebuf = Junk])]}
   ELSE {})

(* Coherent: the dirty flag is forgotten.                                  *)
WriteIfDirty_MutantNever(d, u, fd, b) == {[err |-> "OK", disk |-> d]}

(* The write of a frame before its page leaves it: only if it is dirty.    *)
WriteIfDirty(d, u, fd, b) ==
  IF b.dirty THEN PFwritefcn(d, u, fd, b.page, b.fpage)
  ELSE {[err |-> "OK", disk |-> d]}

(* The error PFreadfcn may return; a page not in the file cannot be read.  *)
PFreadfcn(d, u, fd, pg) ==
  {IF d[u[fd]][pg] = Absent THEN "INCOMPLETEREAD" ELSE "OK"} \cup
  (IF "read" \in Faults THEN {"UNIX"} ELSE {})

-----------------------------------------------------------------------------
(***************************************************************************)
(* The lists of frames and the page table.                                 *)
(***************************************************************************)

LinkHead(list, bp) == <<bp>> \o list

Unlink(list, bp) == RemoveAt(list, CHOOSE i \in DOMAIN list : list[i] = bp)

PFhashFind(p, fd, pg) == p.hash[<<fd, pg>>]

(* A malloc()ed entry, so PFhashInsert fails when malloc() does.           *)
PFhashInsert(p, fd, pg, bp) == [p EXCEPT !.hash[<<fd, pg>>] = bp]

(* PoolConsistent: an evicted page keeps its entry.                        *)
PFhashDelete_MutantKeeps(p, fd, pg) == p

PFhashDelete(p, fd, pg) == [p EXCEPT !.hash[<<fd, pg>>] = NULL]

(* A frame goes to the free list.  What it holds is not looked at there.   *)
FreeFrame(p, bp) ==
  [p EXCEPT !.used = Unlink(p.used, bp), !.free = LinkHead(p.free, bp),
            !.frame[bp] = FreshPage]

(* EvictsByStrategy: a page that is used stays where it was in the list.   *)
MoveToHead_MutantStays(p, bp) == p

MoveToHead(p, bp) == [p EXCEPT !.used = LinkHead(Unlink(p.used, bp), bp)]

-----------------------------------------------------------------------------
(***************************************************************************)
(* PFbufInternalAlloc: a frame from the free list, else a new one, else    *)
(* one taken from another page.                                            *)
(***************************************************************************)
AllocFromFree(p, d) ==
  IF p.free = <<>> THEN {}
  ELSE {Outcome("OK", [p EXCEPT !.free = Tail(p.free),
                                !.used = LinkHead(p.used, Head(p.free))],
                d, Head(p.free))}

(* TypeOK: one frame more than PFmaxbpage.                                 *)
AllocByMalloc_MutantOneMore(p, d) ==
  IF p.free # <<>> \/ p.numb > p.max THEN {}
  ELSE {Outcome("OK", [p EXCEPT !.numb = p.numb + 1,
                                !.used = LinkHead(p.used, p.numb + 1)],
                d, p.numb + 1)}

AllocByMalloc(p, d) ==
  IF p.free # <<>> \/ p.numb >= p.max THEN {}
  ELSE {Outcome("OK", [p EXCEPT !.numb = p.numb + 1,
                                !.used = LinkHead(p.used, p.numb + 1)],
                d, p.numb + 1)} \cup
       (IF "malloc" \in Faults THEN {Outcome("NOMEM", p, d, NULL)} ELSE {})

(* FixedPageStaysPut: the scan does not look at `fixed'.                   *)
Victim_MutantAny(p) ==
  IF p.used = <<>> THEN {}
  ELSE {p.used[IF p.strategy = "LRU" THEN Len(p.used) ELSE 1]}

(* LRU scans the used list from its tail, MRU from its head, for the first *)
(* frame that is not fixed.  The set holds that one frame, if there is one. *)
Victim(p) ==
  LET Unfixed == {i \in DOMAIN p.used : ~p.frame[p.used[i]].fixed} IN
  {p.used[i] : i \in
     {j \in Unfixed : \A k \in Unfixed :
        IF p.strategy = "LRU" THEN k <= j ELSE j <= k}}

(* Coherent, when writes fail: the dirty flag is cleared before the write. *)
Evict_MutantCleanFirst(p, d, u, v) ==
  LET bp == p.frame[v]
      Clean == [p EXCEPT !.frame[v].dirty = FALSE]
      Taken == MoveToHead(PFhashDelete(Clean, bp.fd, bp.page), v)
  IN {IF w.err # "OK" THEN Outcome(w.err, Clean, w.disk, NULL)
      ELSE Outcome("OK", Taken, w.disk, v) : w \in WriteIfDirty(d, u, bp.fd, bp)}

(* The frame v is written out if it is dirty, and taken from its page.     *)
Evict(p, d, u, v) ==
  LET bp == p.frame[v]
      Clean == [p EXCEPT !.frame[v].dirty = FALSE]
      Taken == MoveToHead(PFhashDelete(Clean, bp.fd, bp.page), v)
  IN {IF w.err # "OK" THEN Outcome(w.err, p, w.disk, NULL)
      ELSE IF PFhashFind(p, bp.fd, bp.page) = NULL
           THEN Outcome("HASHNOTFOUND", Clean, w.disk, NULL)
           ELSE Outcome("OK", Taken, w.disk, v) :
      w \in WriteIfDirty(d, u, bp.fd, bp)}

AllocByEviction(p, d, u) ==
  IF p.free # <<>> \/ p.numb < p.max THEN {}
  ELSE IF Victim(p) = {} THEN {Outcome("NOBUF", p, d, NULL)}
  ELSE UNION {Evict(p, d, u, v) : v \in Victim(p)}

PFbufInternalAlloc(p, d, u) ==
  AllocFromFree(p, d) \cup AllocByMalloc(p, d) \cup AllocByEviction(p, d, u)

-----------------------------------------------------------------------------
(***************************************************************************)
(* PFbufGet, PFbufAlloc, PFbufUnfix, PFbufUsed.                            *)
(***************************************************************************)

(* The errors between getting a frame and owning it: the frame goes to the *)
(* free list, its page nowhere.                                            *)
GiveBack(t, err) == Outcome(err, FreeFrame(t.pool, t.bp), t.disk, NULL)

HashInsertErrors == IF "malloc" \in Faults THEN {"NOMEM"} ELSE {}

(* The page is read into the frame of t, entered in the page table, fixed. *)
GetLoaded(t, u, fd, pg) ==
  LET page == [fd |-> fd, page |-> pg, fixed |-> TRUE, dirty |-> FALSE,
               fpage |-> t.disk[u[fd]][pg]]
      in == PFhashInsert(t.pool, fd, pg, t.bp)
  IN Outcome("OK", [in EXCEPT !.frame[t.bp] = page], t.disk, t.bp)

GetMiss(t, u, fd, pg) ==
  UNION {IF r # "OK" THEN {GiveBack(t, r)}
         ELSE {GetLoaded(t, u, fd, pg)} \cup
              {GiveBack(t, e) : e \in HashInsertErrors} :
         r \in PFreadfcn(t.disk, u, fd, pg)}

PFbufGet(p, d, u, fd, pg) ==
  LET bp == PFhashFind(p, fd, pg) IN
  IF bp = NULL
  THEN UNION {IF t.err # "OK" THEN {t} ELSE GetMiss(t, u, fd, pg) :
              t \in PFbufInternalAlloc(p, d, u)}
  ELSE IF p.frame[bp].fixed THEN {Outcome("PAGEFIXED", p, d, bp)}
  ELSE {Outcome("OK", [p EXCEPT !.frame[bp].fixed = TRUE], d, bp)}

(* NoInternalError: the new page is not fixed.                             *)
AllocEntered_MutantUnfixed(t, fd, pg) ==
  LET page == [FreshPage EXCEPT !.fd = fd, !.page = pg]
      in == PFhashInsert(t.pool, fd, pg, t.bp)
  IN Outcome("OK", [in EXCEPT !.frame[t.bp] = page], t.disk, t.bp)

(* A frame for a page that is not in the file yet: its data is whatever    *)
(* the frame held before, that is Junk.                                    *)
AllocEntered(t, fd, pg) ==
  LET page == [FreshPage EXCEPT !.fd = fd, !.page = pg, !.fixed = TRUE]
      in == PFhashInsert(t.pool, fd, pg, t.bp)
  IN Outcome("OK", [in EXCEPT !.frame[t.bp] = page], t.disk, t.bp)

PFbufAlloc(p, d, u, fd, pg) ==
  IF PFhashFind(p, fd, pg) # NULL THEN {Outcome("PAGEINBUF", p, d, NULL)}
  ELSE UNION {IF t.err # "OK" THEN {t}
              ELSE {AllocEntered(t, fd, pg)} \cup
                   {GiveBack(t, e) : e \in HashInsertErrors} :
              t \in PFbufInternalAlloc(p, d, u)}

(* UsedUntilDisposed: dirty = FALSE clears a flag that was set before.     *)
PFbufUnfix_MutantOverwrites(p, d, fd, pg, dirty) ==
  LET bp == PFhashFind(p, fd, pg) IN
  IF bp = NULL THEN Outcome("PAGENOTINBUF", p, d, NULL)
  ELSE IF ~p.frame[bp].fixed THEN Outcome("PAGEUNFIXED", p, d, NULL)
  ELSE LET q == [p EXCEPT !.frame[bp].dirty = dirty, !.frame[bp].fixed = FALSE]
       IN Outcome("OK", MoveToHead(q, bp), d, NULL)

PFbufUnfix(p, d, fd, pg, dirty) ==
  LET bp == PFhashFind(p, fd, pg) IN
  IF bp = NULL THEN Outcome("PAGENOTINBUF", p, d, NULL)
  ELSE IF ~p.frame[bp].fixed THEN Outcome("PAGEUNFIXED", p, d, NULL)
  ELSE LET q == [p EXCEPT !.frame[bp].dirty = p.frame[bp].dirty \/ dirty,
                          !.frame[bp].fixed = FALSE]
       IN Outcome("OK", MoveToHead(q, bp), d, NULL)

(* ImplementsPageStore: the page is not marked dirty.                      *)
PFbufUsed_MutantClean(p, d, fd, pg) == Outcome("OK", p, d, NULL)

PFbufUsed(p, d, fd, pg) ==
  LET bp == PFhashFind(p, fd, pg) IN
  IF bp = NULL THEN Outcome("PAGENOTINBUF", p, d, NULL)
  ELSE IF ~p.frame[bp].fixed THEN Outcome("PAGEUNFIXED", p, d, NULL)
  ELSE Outcome("OK", MoveToHead([p EXCEPT !.frame[bp].dirty = TRUE], bp), d, NULL)

-----------------------------------------------------------------------------
(***************************************************************************)
(* PFbufReleaseFile walks the used list from its head.  PFFile takes the   *)
(* iterations one by one; ReleaseFrame is one of them, at the frame bp.    *)
(* Its outcome "SKIP" is a frame of another file, "OK" a frame released,   *)
(* "EXIT" the internal error on which the code calls exit(1); the others   *)
(* end the walk, with the frames before bp already released.               *)
(***************************************************************************)
(* Coherent and ReadersChangeNothing: the frames of every file are         *)
(* released, and written to the file that is being closed.                 *)
ReleaseFrame_MutantAnyFile(p, d, u, fd, bp) ==
  LET b == p.frame[bp]
      Clean == [p EXCEPT !.frame[bp].dirty = FALSE]
  IN IF b.fixed THEN {Outcome("PAGEFIXED", p, d, bp)}
     ELSE {Outcome("OK", FreeFrame(PFhashDelete(Clean, b.fd, b.page), bp),
                   w.disk, bp) : w \in WriteIfDirty(d, u, fd, b)}

ReleaseFrame(p, d, u, fd, bp) ==
  LET b == p.frame[bp]
      Clean == [p EXCEPT !.frame[bp].dirty = FALSE]
  IN IF b.fd # fd THEN {Outcome("SKIP", p, d, bp)}
     ELSE IF b.fixed THEN {Outcome("PAGEFIXED", p, d, bp)}
     ELSE {IF w.err # "OK" THEN Outcome(w.err, p, w.disk, bp)
           ELSE IF PFhashFind(p, fd, b.page) = NULL
                THEN Outcome("EXIT", Clean, w.disk, bp)
                ELSE Outcome("OK", FreeFrame(PFhashDelete(Clean, fd, b.page), bp),
                             w.disk, bp) :
            w \in WriteIfDirty(d, u, fd, b)}

(* bpage->nextpage, and the head of the list.                              *)
NextUsed(list, bp) ==
  IF \E i \in 1 .. Len(list) - 1 : list[i] = bp
  THEN list[1 + CHOOSE i \in 1 .. Len(list) - 1 : list[i] = bp] ELSE NULL
FirstUsed(list) == IF list = <<>> THEN NULL ELSE Head(list)

-----------------------------------------------------------------------------
(***************************************************************************)
(* What makes a pool consistent; PFFileProps and PFBufferProofs use it.    *)
(***************************************************************************)

(* The frames are in two lists without repetition, none in both, and each  *)
(* malloc()ed frame in one of them: PFbufInsertFree, PFbufLinkHead and     *)
(* PFbufUnlink lose no frame and link none twice, on any error path.       *)
ListsPartitionFrames(p) ==
  /\ IsInjective(p.used)
  /\ IsInjective(p.free)
  /\ ToSet(p.used) \cap ToSet(p.free) = {}
  /\ ToSet(p.used) \cup ToSet(p.free) = 1 .. p.numb

(* The page table finds the frames of `entered', each under the page it    *)
(* holds, and no other frame.                                              *)
TableFinds(p, entered) ==
  /\ \A bp \in entered : PFhashFind(p, p.frame[bp].fd, p.frame[bp].page) = bp
  /\ \A id \in PageIds : p.hash[id] # NULL =>
       /\ p.hash[id] \in entered
       /\ p.frame[p.hash[id]].fd = id[1] /\ p.frame[p.hash[id]].page = id[2]

=============================================================================
