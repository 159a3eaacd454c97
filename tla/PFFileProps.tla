---------------------------- MODULE PFFileProps ----------------------------
(***************************************************************************)
(* What must be true of the Paged File layer, and the abstract page store  *)
(* it implements.                                                          *)
(***************************************************************************)
EXTENDS PFFile

-----------------------------------------------------------------------------
(* Every variable has its type.                                            *)
TypeOK ==
  /\ pool \in Pool
  /\ disk \in Disk
  /\ header \in [Files -> Header \cup {NoFile}]
  /\ ftab \in [Fds -> OpenFileEntry]
  /\ call \in Calls
  /\ touched \subseteq PageIds

-----------------------------------------------------------------------------
(***************************************************************************)
(* The pool (pfbuf.c, pfhash.c).                                           *)
(***************************************************************************)

(* Between any two steps, through evictions and every error path, the used *)
(* list and the page table hold the same frames: no page is in two frames, *)
(* no frame is lost and no page is found in a frame given to another page. *)
PoolConsistent ==
  ListsPartitionFrames(pool) /\ TableFinds(pool, ToSet(pool.used))

(* A closed file leaves no frame behind: the next file to get its entry in *)
(* PFftab would find the old file's pages under its own page numbers.      *)
FramesOfOpenFiles == \A bp \in ToSet(pool.used) : pool.frame[bp].fd \in OpenFds

(* While PF_CloseFile walks the used list, every frame of the file that is *)
(* being closed is at or behind the walk, which has not been thrown off    *)
(* the list by the frames it released.                                     *)
WalkOK ==
  call.op = "close" =>
    /\ call.fd \in OpenFds
    /\ call.at # NULL => call.at \in ToSet(pool.used)
    /\ \A i \in DOMAIN pool.used : pool.frame[pool.used[i]].fd = call.fd =>
         call.at # NULL /\ \E j \in 1 .. i : pool.used[j] = call.at

ScanOK == call.op = "next" => call.fd \in OpenFds

(* The inductive invariant: no action can break it by itself.              *)
IInv == TypeOK /\ PoolConsistent /\ FramesOfOpenFiles /\ WalkOK /\ ScanOK

(* The calls of exit(1) on an "internal error" (pf.c:430, 476, 517,        *)
(* pfbuf.c:343) are never reached.                                         *)
NoInternalError == call.op # "exit"

-----------------------------------------------------------------------------
(***************************************************************************)
(* Pages, frames and the disk.                                             *)
(***************************************************************************)

(* The page as a client of fd would see it now.                            *)
PageOf(fd, pg) ==
  IF PFhashFind(pool, fd, pg) # NULL
  THEN pool.frame[PFhashFind(pool, fd, pg)].fpage
  ELSE disk[ftab[fd].fname][pg]

PagesOf(fd) == 0 .. NumPages(fd) - 1

IsUsed(page) == page # Absent /\ page.nextfree = PAGE_USED

(* Evicting a frame without writing it is safe exactly when this holds: a  *)
(* page that is not buffered is in the file (PFreadfcn never comes up      *)
(* short), and a frame that is clean, and not being modified, equals the   *)
(* page in the file.                                                       *)
Coherent ==
  \A fd \in OpenFds : \A pg \in PagesOf(fd) :
    LET bp == PFhashFind(pool, fd, pg)
        stored == disk[ftab[fd].fname][pg]
    IN IF bp = NULL THEN stored # Absent
       ELSE \/ pool.frame[bp].dirty
            \/ <<fd, pg>> \in touched
            \/ pool.frame[bp].fpage = stored

(* A page in the client's hands is a used page: PF_AllocPage cannot hand   *)
(* it out again and PF_DisposePage cannot take it away.                    *)
FixedPagesAreUsed ==
  \A bp \in ToSet(pool.used) :
    pool.frame[bp].fixed => pool.frame[bp].fpage.nextfree = PAGE_USED

(* From hdr.firstfree, the links of the pages lead through every page that *)
(* is not used, each once, to PF_PAGE_LIST_END.                            *)
FreeListExact(hdr, page) ==
  LET free == {pg \in 0 .. hdr.numpages - 1 : page[pg].nextfree # PAGE_USED}
      n == Cardinality(free)
      walk[i \in 0 .. n] == IF i = 0 THEN hdr.firstfree
                            ELSE IF walk[i - 1] \in free
                                 THEN page[walk[i - 1]].nextfree
                                 ELSE walk[i - 1]
  IN walk[n] = PAGE_LIST_END /\ free = {walk[i] : i \in 0 .. n - 1}

(* The free list of an open file, whose links are some in frames and some  *)
(* on disk, is exact after every call, failed calls included.              *)
OpenFreeListExact ==
  \A fd \in OpenFds :
    FreeListExact(ftab[fd].hdr, [pg \in PagesOf(fd) |-> PageOf(fd, pg)])

WrittenBy(fd, f) == ftab[fd].fname = f /\ Writable(fd)

(* A file no client has open for writing is whole on disk: the header has  *)
(* the number of pages and an exact free list, and every page is there.    *)
ClosedFileIntact ==
  \A f \in Files :
    (header[f] # NoFile /\ \A fd \in Fds : ~WrittenBy(fd, f)) =>
      /\ \A pg \in 0 .. header[f].numpages - 1 : disk[f][pg] # Absent
      /\ FreeListExact(header[f], disk[f])

-----------------------------------------------------------------------------
(***************************************************************************)
(* The inductive invariant of the storage: StoreInv, with IInv, is kept by *)
(* every action, and implies the invariants above.                         *)
(***************************************************************************)

(* A file is open for writing once, or any number of times for reading.    *)
OneWriter ==
  \A fd, other \in OpenFds :
    ftab[fd].fname = ftab[other].fname /\ fd # other => ~Writable(fd)

(* Only a writer has anything to write: a header, a page or a frame.       *)
OnlyWritersChange ==
  /\ \A fd \in OpenFds : ftab[fd].hdrchanged => Writable(fd)
  /\ \A bp \in ToSet(pool.used) :
       pool.frame[bp].dirty => Writable(pool.frame[bp].fd)
  /\ \A id \in touched : Writable(id[1]) /\ IsFixed(id[1], id[2])

(* An open file has a header on disk, the one in memory unless it changed. *)
HeadersKept ==
  \A fd \in OpenFds :
    /\ header[ftab[fd].fname] # NoFile
    /\ ~ftab[fd].hdrchanged => ftab[fd].hdr = header[ftab[fd].fname]

(* Coherent, and what takes its place if a client may leave a page it has  *)
(* allocated clean: the frame of a clean page may then differ from the     *)
(* page in the file, but only if it is marked used.                        *)
Settled(fd, pg) ==
  LET bp == PFhashFind(pool, fd, pg)
      stored == disk[ftab[fd].fname][pg]
  IN IF bp = NULL THEN stored # Absent
     ELSE \/ pool.frame[bp].dirty
          \/ <<fd, pg>> \in touched
          \/ pool.frame[bp].fpage = stored
          \/ /\ ~AllocTouches /\ stored # Absent
             /\ pool.frame[bp].fpage.nextfree = PAGE_USED

PagesSettled == \A fd \in OpenFds : \A pg \in PagesOf(fd) : Settled(fd, pg)

(* FreeListExact without its recursion: the free pages in the order of the *)
(* list.  (If a page allocated and left clean was evicted, it is free on   *)
(* disk and in no list.)                                                   *)
FreeOrder(hdr, page, n, order) ==
  /\ IsInjective(order)
  /\ hdr.firstfree = IF n = 0 THEN PAGE_LIST_END ELSE order[1]
  /\ \A i \in 1 .. n :
       page[order[i]].nextfree = IF i = n THEN PAGE_LIST_END ELSE order[i + 1]
  /\ AllocTouches => \A pg \in 0 .. hdr.numpages - 1 :
       page[pg].nextfree # PAGE_USED => \E i \in 1 .. n : order[i] = pg

FreeChain(hdr, page) ==
  \E n \in 0 .. hdr.numpages : \E order \in [1 .. n -> 0 .. hdr.numpages - 1] :
    FreeOrder(hdr, page, n, order)

OpenChains ==
  \A fd \in OpenFds :
    FreeChain(ftab[fd].hdr, [pg \in PagesOf(fd) |-> PageOf(fd, pg)])

FilesWhole ==
  \A f \in Files :
    (header[f] # NoFile /\ \A fd \in Fds : ~WrittenBy(fd, f)) =>
      /\ \A pg \in 0 .. header[f].numpages - 1 : disk[f][pg] # Absent
      /\ FreeChain(header[f], disk[f])

StoreInv ==
  /\ NoInternalError /\ FixedPagesAreUsed
  /\ OneWriter /\ OnlyWritersChange /\ HeadersKept
  /\ PagesSettled /\ OpenChains /\ FilesWhole

-----------------------------------------------------------------------------
(***************************************************************************)
(* What a step may never do.                                               *)
(***************************************************************************)

(* The client keeps a pointer into the frame of a page it has fixed: until *)
(* it unfixes the page, the page stays in that frame, fixed, and only the  *)
(* client changes the data there.                                          *)
FixedStep ==
  \A fd \in Fds, pg \in Pages : IsFixed(fd, pg) =>
    \/ /\ IsFixed(fd, pg)'
       /\ PFhashFind(pool, fd, pg)' = PFhashFind(pool, fd, pg)
       /\ PageOf(fd, pg)' = PageOf(fd, pg)
    \/ \E v \in Vals : Modify(fd, pg, v)
    \/ \E dirty \in BOOLEAN : PF_UnfixPage(fd, pg, dirty)

FixedPageStaysPut == [][FixedStep]_vars

(* A page that is used and will be found used whatever is evicted: if it   *)
(* is in a frame, the file has it as a used page too, or the frame will be *)
(* written (pfbuf.c:116).                                                  *)
SafelyUsed(fd, pg) ==
  LET bp == PFhashFind(pool, fd, pg)
  IN /\ IsUsed(PageOf(fd, pg))
     /\ bp # NULL => \/ pool.frame[bp].dirty
                     \/ <<fd, pg>> \in touched
                     \/ IsUsed(disk[ftab[fd].fname][pg])

(* PF_AllocPage, PF_DisposePage: such a page stays one until its client    *)
(* disposes of it, through every eviction and every failing call.  Only a  *)
(* page that came from the free list, is still clean and was not modified  *)
(* by its client is used and not safely so; AllocatedStaysUsed is about    *)
(* that page.                                                              *)
UsedStep ==
  \A fd \in OpenFds : \A pg \in PagesOf(fd) :
    SafelyUsed(fd, pg) =>
      \/ (fd \notin OpenFds)'
      \/ SafelyUsed(fd, pg)'
      \/ PF_DisposePage(fd, pg)

UsedUntilDisposed == [][UsedStep]_vars

(* IMP.DOC:204 PF_AllocPage: "Allocate a new, empty page for file fd", and *)
(* IMP.DOC:238 PF_UnfixPage: "Set the variable dirty to TRUE if page has   *)
(* been modified".  What these two say together: any page that is used     *)
(* stays used until PF_DisposePage, modified or not.  The code does not    *)
(* keep to it, for PF_AllocPage marks a page from the free list used in    *)
(* the frame (pf.c:480) and leaves the frame clean.                        *)
AllocatedStaysUsed ==
  [][\A fd \in OpenFds : \A pg \in PagesOf(fd) :
       IsUsed(PageOf(fd, pg)) =>
         \/ (fd \notin OpenFds)'
         \/ IsUsed(PageOf(fd, pg))'
         \/ PF_DisposePage(fd, pg)]_vars

(* IMP.DOC:109: "opening a file more than once for reading is OK".  While  *)
(* only readers have a file open, nothing they do, evictions and closes    *)
(* included, changes it.                                                   *)
ReadersStep ==
  \A f \in Files :
    (\E fd \in OpenFds : ftab[fd].fname = f) /\ (\A fd \in Fds : ~WrittenBy(fd, f))
    => disk'[f] = disk[f] /\ header'[f] = header[f]

ReadersChangeNothing == [][ReadersStep]_vars

-----------------------------------------------------------------------------
(* PF_CloseFile and PF_GetNextPage return: their loops end although they   *)
(* unlink, relink and evict the frames they walk over.  No call is in      *)
(* progress for ever.                                                      *)
CallsReturn == []<>(call = Idle)

-----------------------------------------------------------------------------
(***************************************************************************)
(* The page store.  A file that is open for writing is what its writer's   *)
(* descriptor shows, any other file is what the disk holds.                *)
(***************************************************************************)
StoredPage(page) == IF IsUsed(page) THEN page.pagebuf ELSE "free"

FileContents(f) ==
  IF header[f] = NoFile THEN NoFile
  ELSE IF \E fd \in Fds : WrittenBy(fd, f)
       THEN LET w == CHOOSE fd \in Fds : WrittenBy(fd, f)
            IN [pg \in PagesOf(w) |-> StoredPage(PageOf(w, pg))]
       ELSE [pg \in 0 .. header[f].numpages - 1 |-> StoredPage(disk[f][pg])]

Store == INSTANCE PageStore WITH
  Free <- "free",
  file <- [f \in Files |-> FileContents(f)],
  open <- UnixFd,
  fixed <- {id \in PageIds : IsFixed(id[1], id[2])}

(* A free page is not taken for one with data, nor no file for a file.     *)
ASSUME StoreAssumption == "free" \notin Data /\ NoFile \notin Store!Contents

(* The Paged File layer implements the page store: buffering, eviction,    *)
(* the order of the writes at a close and the failed calls cannot be seen. *)
ImplementsPageStore == Store!Spec

=============================================================================
