------------------------------- MODULE PFFile -------------------------------
(***************************************************************************)
(* The Paged File layer (pflayer/src/pf.c) over the buffer manager: the    *)
(* table of open files, the headers, the lists of free pages, and every    *)
(* PF_ call a client can make.                                             *)
(*                                                                         *)
(* The library runs in its caller's thread, so a call is one step, except  *)
(* for the two that loop over frames or pages: PF_CloseFile (the loop of   *)
(* PFbufReleaseFile) and PF_GetNextPage take one step per iteration, and   *)
(* `call' holds the loop's own variables meanwhile.  A call that fails     *)
(* without changing anything is a stuttering step.                         *)
(*                                                                         *)
(* The client is part of the specification.  What the documentation asks   *)
(* of it (IMP.DOC): it writes a page only while it has it fixed, it says   *)
(* so when it unfixes it, and it opens a file more than once only to read. *)
(***************************************************************************)
EXTENDS PFBuffer

CONSTANTS
  InitArgs,     (* the <<num_buffers, strategy>> PF_Init is called with     *)
  Modes,        (* what a client opens a file for: "w", or "r" to read only *)
  AllocTouches  (* TRUE if a client takes a page it allocated to be one it  *)
                (* has modified, and unfixes it as dirty                    *)

ASSUME InitArgsAssumption ==
  InitArgs # {} /\ InitArgs \subseteq (0 .. MaxFrames) \X Strategies
ASSUME ModesAssumption == Modes \subseteq {"r", "w"}
ASSUME AllocTouchesAssumption == AllocTouches \in BOOLEAN

VARIABLES
  pool,     (* the buffer pool                                              *)
  disk,     (* the pages of each file                                       *)
  header,   (* the header each file has on disk, or Absent: no such file    *)
  ftab,     (* PFftab, the table of open files                              *)
  call,     (* the PF_ call in progress                                     *)
  touched   (* ghost: the pages modified since they were fixed              *)

vars == <<pool, disk, header, ftab, call, touched>>

NoFile == Absent

Header == [firstfree : Links, numpages : 0 .. MaxPages]
EmptyHeader == [firstfree |-> PAGE_LIST_END, numpages |-> 0]

(* An entry of PFftab; hdr and hdrchanged mean nothing where fname is NULL *)
(* and have a fixed value there.                                           *)
OpenFileEntry ==
  [fname : Files \cup {NoFile}, hdr : Header, hdrchanged : BOOLEAN,
   mode : {"r", "w"}]
UnusedEntry ==
  [fname |-> NoFile, hdr |-> EmptyHeader, hdrchanged |-> FALSE, mode |-> "r"]

Idle == [op |-> "idle", fd |-> 0, at |-> 0]
Exited == [op |-> "exit", fd |-> 0, at |-> 0]
Calls == [op : {"idle", "exit", "close", "next"}, fd : Fds,
          at : 0 .. MaxFrames + MaxPages]

OpenFds == {fd \in Fds : ftab[fd].fname # NoFile}
UnixFd == [fd \in Fds |-> ftab[fd].fname]
NumPages(fd) == ftab[fd].hdr.numpages
FirstFree(fd) == ftab[fd].hdr.firstfree
PFinvalidFd(fd) == fd \notin OpenFds
PFinvalidPagenum(fd, pg) == pg < 0 \/ pg >= NumPages(fd)
IsFixed(fd, pg) ==
  PFhashFind(pool, fd, pg) # NULL /\ pool.frame[PFhashFind(pool, fd, pg)].fixed
Writable(fd) == ftab[fd].mode = "w"

-----------------------------------------------------------------------------
(***************************************************************************)
(* PF_Init, PF_CreateFile, PF_DestroyFile, PF_OpenFile.                    *)
(***************************************************************************)

(* The program's data segment, after the first PF_Init.                    *)
Init ==
  /\ \E arg \in InitArgs :
       pool = [used |-> <<>>, free |-> <<>>, numb |-> 0,
               max |-> arg[1], strategy |-> arg[2],
               frame |-> [f \in Frames |-> FreshPage],
               hash |-> [id \in PageIds |-> NULL]]
  /\ disk = [f \in Files |-> [pg \in Pages |-> Absent]]
  /\ header = [f \in Files |-> NoFile]
  /\ ftab = [fd \in Fds |-> UnusedEntry]
  /\ call = Idle
  /\ touched = {}

(* A later PF_Init, as a client may make with no file open.  It empties    *)
(* the page table and sets the limit, but leaves the lists of frames and   *)
(* PFnumbpage as they are.                                                 *)
PF_Init(num_buffers, strategy) ==
  /\ call = Idle
  /\ OpenFds = {}
  /\ pool' = [pool EXCEPT !.max = num_buffers, !.strategy = strategy,
                          !.hash = [id \in PageIds |-> NULL]]
  /\ ftab' = [fd \in Fds |-> UnusedEntry]
  /\ UNCHANGED <<disk, header, call, touched>>

(* If the header cannot be written the file is unlinked again.             *)
PF_CreateFile(f) ==
  /\ call = Idle
  /\ header[f] = NoFile
  /\ header' = [header EXCEPT ![f] = EmptyHeader]
  /\ UNCHANGED <<pool, disk, ftab, call, touched>>

PF_DestroyFile(f) ==
  /\ call = Idle
  /\ header[f] # NoFile
  /\ \A fd \in Fds : ftab[fd].fname # f
  /\ header' = [header EXCEPT ![f] = NoFile]
  /\ disk' = [disk EXCEPT ![f] = [pg \in Pages |-> Absent]]
  /\ UNCHANGED <<pool, ftab, call, touched>>

(* PFftabFindFree takes the first unused entry.                            *)
PF_OpenFile(f, mode) ==
  /\ call = Idle
  /\ header[f] # NoFile
  /\ \A fd \in Fds :
       ftab[fd].fname = f => mode = "r" /\ ftab[fd].mode = "r"
  /\ \E fd \in Fds \ OpenFds :
       /\ \A other \in Fds \ OpenFds : fd <= other
       /\ ftab' = [ftab EXCEPT ![fd] =
            [fname |-> f, hdr |-> header[f], hdrchanged |-> FALSE, mode |-> mode]]
  /\ UNCHANGED <<pool, disk, header, call, touched>>

-----------------------------------------------------------------------------
(***************************************************************************)
(* The steps below end with the outcome t of a buffer operation.           *)
(***************************************************************************)
Becomes(t) == pool' = t.pool /\ disk' = t.disk

(* A page the client no longer has fixed is no longer being modified.      *)
Forget(fd, pg) == touched' = touched \ {<<fd, pg>>}

-----------------------------------------------------------------------------
(***************************************************************************)
(* PF_CloseFile: release every frame of the file, then write the header if *)
(* it changed.  A failure returns with the file still open and the frames  *)
(* before it released.  (A failing close(2) is not modelled.)              *)
(***************************************************************************)
PF_CloseFile(fd) ==
  /\ call = Idle
  /\ ~PFinvalidFd(fd)
  /\ call' = [op |-> "close", fd |-> fd, at |-> FirstUsed(pool.used)]
  /\ UNCHANGED <<pool, disk, header, ftab, touched>>

(* FramesOfOpenFiles: the walk ends at the first frame of another file.    *)
CloseRelease_MutantStops ==
  /\ call.op = "close" /\ call.at # NULL
  /\ \E t \in ReleaseFrame(pool, disk, UnixFd, call.fd, call.at) :
       /\ Becomes(t)
       /\ call' = IF t.err = "OK"
                  THEN [call EXCEPT !.at = NextUsed(pool.used, call.at)]
                  ELSE IF t.err = "SKIP" THEN [call EXCEPT !.at = NULL]
                  ELSE IF t.err = "EXIT" THEN Exited ELSE Idle
  /\ UNCHANGED <<header, ftab, touched>>

(* CallsReturn: the walk does not step over a frame of another file.       *)
CloseRelease_MutantStuck ==
  /\ call.op = "close" /\ call.at # NULL
  /\ \E t \in ReleaseFrame(pool, disk, UnixFd, call.fd, call.at) :
       /\ Becomes(t)
       /\ call' = IF t.err = "OK"
                  THEN [call EXCEPT !.at = NextUsed(pool.used, call.at)]
                  ELSE IF t.err = "SKIP" THEN call
                  ELSE IF t.err = "EXIT" THEN Exited ELSE Idle
  /\ UNCHANGED <<header, ftab, touched>>

CloseRelease ==
  /\ call.op = "close" /\ call.at # NULL
  /\ \E t \in ReleaseFrame(pool, disk, UnixFd, call.fd, call.at) :
       /\ Becomes(t)
       /\ call' = IF t.err \in {"OK", "SKIP"}
                  THEN [call EXCEPT !.at = NextUsed(pool.used, call.at)]
                  ELSE IF t.err = "EXIT" THEN Exited ELSE Idle
  /\ UNCHANGED <<header, ftab, touched>>

CloseHeader ==
  /\ call.op = "close" /\ call.at = NULL
  /\ header' = IF ftab[call.fd].hdrchanged
               THEN [header EXCEPT ![ftab[call.fd].fname] = ftab[call.fd].hdr]
               ELSE header
  /\ ftab' = [ftab EXCEPT ![call.fd] = UnusedEntry]
  /\ call' = Idle
  /\ UNCHANGED <<pool, disk, touched>>

CloseHeaderFails ==
  /\ call.op = "close" /\ call.at = NULL
  /\ "write" \in Faults /\ ftab[call.fd].hdrchanged
  /\ call' = Idle
  /\ UNCHANGED <<pool, disk, header, ftab, touched>>

-----------------------------------------------------------------------------
(***************************************************************************)
(* PF_GetNextPage after page `from' (PF_GetFirstPage is from = -1).  Each  *)
(* iteration gets a page and keeps it if it is used.                       *)
(***************************************************************************)
PF_GetNextPage(fd, from) ==
  /\ call = Idle
  /\ ~PFinvalidFd(fd)
  /\ from >= -1 /\ from < NumPages(fd)
  /\ call' = [op |-> "next", fd |-> fd, at |-> from + 1]
  /\ UNCHANGED <<pool, disk, header, ftab, touched>>

PageUsed(t) == t.pool.frame[t.bp].fpage.nextfree = PAGE_USED

NextPageScan ==
  /\ call.op = "next" /\ call.at < NumPages(call.fd)
  /\ \E t \in PFbufGet(pool, disk, UnixFd, call.fd, call.at) :
       IF t.err # "OK" \/ PageUsed(t)
       THEN Becomes(t) /\ call' = Idle
       ELSE LET s == PFbufUnfix(t.pool, t.disk, call.fd, call.at, FALSE)
            IN /\ Becomes(s)
               /\ call' = IF s.err = "OK" THEN [call EXCEPT !.at = call.at + 1]
                          ELSE Idle
  /\ UNCHANGED <<header, ftab, touched>>

NextPageEOF ==
  /\ call.op = "next" /\ call.at >= NumPages(call.fd)
  /\ call' = Idle
  /\ UNCHANGED <<pool, disk, header, ftab, touched>>

-----------------------------------------------------------------------------
(***************************************************************************)
(* PF_GetThisPage, PF_AllocPage, PF_DisposePage, PF_UnfixPage.             *)
(***************************************************************************)

(* An unfix that the code takes for granted: if it fails, exit(1).         *)
UnfixOrExit(t, fd, pg) ==
  LET s == PFbufUnfix(t.pool, t.disk, fd, pg, FALSE)
  IN Becomes(s) /\ call' = IF s.err = "OK" THEN call ELSE Exited

(* FixedPagesAreUsed: a free page is handed out.                           *)
PF_GetThisPage_MutantAnyPage(fd, pg) ==
  /\ call = Idle
  /\ ~PFinvalidFd(fd) /\ ~PFinvalidPagenum(fd, pg)
  /\ \E t \in PFbufGet(pool, disk, UnixFd, fd, pg) : Becomes(t)
  /\ UNCHANGED <<header, ftab, call, touched>>

PF_GetThisPage(fd, pg) ==
  /\ call = Idle
  /\ ~PFinvalidFd(fd) /\ ~PFinvalidPagenum(fd, pg)
  /\ \E t \in PFbufGet(pool, disk, UnixFd, fd, pg) :
       IF t.err # "OK" \/ PageUsed(t) THEN Becomes(t) /\ UNCHANGED call
       ELSE UnfixOrExit(t, fd, pg)
  /\ UNCHANGED <<header, ftab, touched>>

(* The page is marked used, in its frame.                                  *)
MarkUsed(p, bp) == [p EXCEPT !.frame[bp].fpage.nextfree = PAGE_USED]

(* A page from the free list.  The frame is not marked dirty here.  A link *)
(* that is no page number would index the table of pfhash.c out of bounds; *)
(* the program is taken to end there, and NoInternalError says it does not.*)
AllocFree(fd) ==
  LET pg == FirstFree(fd) IN
  /\ pg # PAGE_LIST_END
  /\ IF pg \notin Pages
     THEN call' = Exited /\ UNCHANGED <<pool, disk, ftab, touched>>
     ELSE \E t \in PFbufGet(pool, disk, UnixFd, fd, pg) :
       /\ disk' = t.disk
       /\ UNCHANGED call
       /\ IF t.err # "OK" THEN pool' = t.pool /\ UNCHANGED <<ftab, touched>>
          ELSE /\ pool' = MarkUsed(t.pool, t.bp)
               /\ ftab' = [ftab EXCEPT
                    ![fd].hdr.firstfree = t.pool.frame[t.bp].fpage.nextfree,
                    ![fd].hdrchanged = TRUE]
               /\ touched' = IF AllocTouches THEN touched \cup {<<fd, pg>>}
                             ELSE touched

(* A page more at the end of the file; PFbufUsed marks it dirty.           *)
AllocExtend(fd) ==
  LET pg == NumPages(fd) IN
  /\ FirstFree(fd) = PAGE_LIST_END
  /\ pg < MaxPages
  /\ \E t \in PFbufAlloc(pool, disk, UnixFd, fd, pg) :
       IF t.err # "OK" THEN Becomes(t) /\ UNCHANGED <<ftab, call>>
       ELSE LET s == PFbufUsed(t.pool, t.disk, fd, pg) IN
            /\ disk' = s.disk
            /\ pool' = MarkUsed(s.pool, t.bp)
            /\ ftab' = [ftab EXCEPT ![fd].hdr.numpages = pg + 1,
                                    ![fd].hdrchanged = TRUE]
            /\ call' = IF s.err = "OK" THEN call ELSE Exited
  /\ UNCHANGED touched

PF_AllocPage(fd) ==
  /\ call = Idle
  /\ ~PFinvalidFd(fd)
  /\ Writable(fd)
  /\ AllocFree(fd) \/ AllocExtend(fd)
  /\ UNCHANGED header

(* OpenFreeListExact: the page is made the head before it is linked.       *)
PF_DisposePage_MutantSelfLink(fd, pg) ==
  /\ call = Idle
  /\ ~PFinvalidFd(fd) /\ ~PFinvalidPagenum(fd, pg)
  /\ Writable(fd)
  /\ \E t \in PFbufGet(pool, disk, UnixFd, fd, pg) :
       IF t.err # "OK" THEN Becomes(t) /\ UNCHANGED <<ftab, call>>
       ELSE IF ~PageUsed(t) THEN UnfixOrExit(t, fd, pg) /\ UNCHANGED ftab
       ELSE LET freed == [t.pool EXCEPT !.frame[t.bp].fpage.nextfree = pg]
            IN /\ Becomes(PFbufUnfix(freed, t.disk, fd, pg, TRUE))
               /\ ftab' = [ftab EXCEPT ![fd].hdr.firstfree = pg,
                                       ![fd].hdrchanged = TRUE]
               /\ UNCHANGED call
  /\ UNCHANGED <<header, touched>>

(* ClosedFileIntact: the change of the header is not noted.                *)
PF_DisposePage_MutantHeaderKept(fd, pg) ==
  /\ call = Idle
  /\ ~PFinvalidFd(fd) /\ ~PFinvalidPagenum(fd, pg)
  /\ Writable(fd)
  /\ \E t \in PFbufGet(pool, disk, UnixFd, fd, pg) :
       IF t.err # "OK" THEN Becomes(t) /\ UNCHANGED <<ftab, call>>
       ELSE IF ~PageUsed(t) THEN UnfixOrExit(t, fd, pg) /\ UNCHANGED ftab
       ELSE LET freed == [t.pool EXCEPT
                            !.frame[t.bp].fpage.nextfree = FirstFree(fd)]
            IN /\ Becomes(PFbufUnfix(freed, t.disk, fd, pg, TRUE))
               /\ ftab' = [ftab EXCEPT ![fd].hdr.firstfree = pg]
               /\ UNCHANGED call
  /\ UNCHANGED <<header, touched>>

PF_DisposePage(fd, pg) ==
  /\ call = Idle
  /\ ~PFinvalidFd(fd) /\ ~PFinvalidPagenum(fd, pg)
  /\ Writable(fd)
  /\ \E t \in PFbufGet(pool, disk, UnixFd, fd, pg) :
       IF t.err # "OK" THEN Becomes(t) /\ UNCHANGED <<ftab, call>>
       ELSE IF ~PageUsed(t) THEN UnfixOrExit(t, fd, pg) /\ UNCHANGED ftab
       ELSE LET freed == [t.pool EXCEPT
                            !.frame[t.bp].fpage.nextfree = FirstFree(fd)]
            IN /\ Becomes(PFbufUnfix(freed, t.disk, fd, pg, TRUE))
               /\ ftab' = [ftab EXCEPT ![fd].hdr.firstfree = pg,
                                       ![fd].hdrchanged = TRUE]
               /\ UNCHANGED call
  /\ UNCHANGED <<header, touched>>

(* The client's part: it says dirty = TRUE if it has modified the page.    *)
PF_UnfixPage(fd, pg, dirty) ==
  /\ call = Idle
  /\ ~PFinvalidFd(fd) /\ ~PFinvalidPagenum(fd, pg)
  /\ <<fd, pg>> \in touched => dirty
  /\ dirty => Writable(fd)
  /\ LET t == PFbufUnfix(pool, disk, fd, pg, dirty) IN
     /\ t.err = "OK"
     /\ Becomes(t)
  /\ Forget(fd, pg)
  /\ UNCHANGED <<header, ftab, call>>

(* The client writes v through the pointer to a page it has fixed.         *)
Modify(fd, pg, v) ==
  /\ call = Idle
  /\ ~PFinvalidFd(fd) /\ Writable(fd)
  /\ IsFixed(fd, pg)
  /\ pool' = [pool EXCEPT !.frame[PFhashFind(pool, fd, pg)].fpage.pagebuf = v]
  /\ touched' = touched \cup {<<fd, pg>>}
  /\ UNCHANGED <<disk, header, ftab, call>>

-----------------------------------------------------------------------------
CallStep ==
  CloseRelease \/ CloseHeader \/ CloseHeaderFails \/ NextPageScan \/ NextPageEOF

Next ==
  \/ \E arg \in InitArgs : PF_Init(arg[1], arg[2])
  \/ \E f \in Files : PF_CreateFile(f) \/ PF_DestroyFile(f)
  \/ \E f \in Files, mode \in Modes : PF_OpenFile(f, mode)
  \/ \E fd \in Fds : PF_CloseFile(fd) \/ PF_AllocPage(fd)
  \/ \E fd \in Fds, from \in {-1} \cup Pages : PF_GetNextPage(fd, from)
  \/ \E fd \in Fds, pg \in Pages : PF_GetThisPage(fd, pg) \/ PF_DisposePage(fd, pg)
  \/ \E fd \in Fds, pg \in Pages, dirty \in BOOLEAN : PF_UnfixPage(fd, pg, dirty)
  \/ \E fd \in Fds, pg \in Pages, v \in Vals : Modify(fd, pg, v)
  \/ CallStep

Spec == Init /\ [][Next]_vars

=============================================================================
