---------------------------- MODULE PFFileProofs ----------------------------
(***************************************************************************)
(* The Paged File layer keeps its types, its pool consistent, and no frame *)
(* of a file that is not open; what it stores is what its clients left;    *)
(* and it implements the page store.  All of it for every number of files, *)
(* descriptors, pages and frames, either strategy, and whatever calls fail.*)
(*                                                                         *)
(* IInv is the inductive invariant of the first part.  PoolConsistent      *)
(* alone is not: PF_Init empties the page table and may do so only because *)
(* no frame is in use when no file is open (FramesOfOpenFiles), and that a *)
(* closed file leaves no frame behind depends on where the walk of         *)
(* PFbufReleaseFile is in the list while it takes frames off it (WalkOK).  *)
(*                                                                         *)
(* With StoreInv it is the invariant of the second part.  A step concerns  *)
(* at most one page (the target), so most of the proof is about all the    *)
(* others: a page that is not the target has Moved, which says that it was *)
(* left alone, evicted, or fetched into a frame, and StoreStep concludes   *)
(* StoreInv' from that for any step.  Most actions are Orderly: they move  *)
(* every page but their target, and what they do to that page keeps the    *)
(* invariant.  The others concern a whole file or a whole pool: PF_Init,   *)
(* PF_CreateFile, PF_DestroyFile, PF_OpenFile and the end of PF_CloseFile. *)
(* What PFFileProps says of pages, files and steps follows from the        *)
(* invariant and from how the actions move the pages, and so does that the *)
(* page store cannot tell frames from the disk.                            *)
(***************************************************************************)
EXTENDS PFFileProps, PFBufferProofs, FiniteSetTheorems, WellFoundedInduction

-----------------------------------------------------------------------------
(* IInv, in terms of the lemmas on pools.                                  *)
LEMMA InvFacts ==
  ASSUME IInv
  PROVE  /\ PoolOK(pool) /\ disk \in Disk
         /\ pool.frame \in [Frames -> BufferPage] /\ ToSet(pool.used) \subseteq Frames
         /\ FdsIn(pool, ToSet(pool.used)) \subseteq OpenFds
         /\ \A fd \in OpenFds : fd \in Fds /\ UnixFd[fd] \in Files
         /\ \A fd \in Fds : ftab[fd] \in OpenFileEntry
         /\ \A fd \in Fds : FirstFree(fd) \in Links /\ NumPages(fd) \in 0 .. MaxPages
         /\ Idle \in Calls /\ Exited \in Calls
         /\ MaxPages \in Nat \ {0} /\ MaxFrames \in Nat
<1>1. PoolOK(pool) /\ disk \in Disk
  BY DEF IInv, TypeOK, PoolConsistent, PoolOK
<1>2. pool.frame \in [Frames -> BufferPage] /\ ToSet(pool.used) \subseteq Frames
  BY <1>1, PoolFields DEF PoolOK
<1>3. FdsIn(pool, ToSet(pool.used)) \subseteq OpenFds
  BY DEF IInv, FramesOfOpenFiles, FdsIn
<1>4. \A fd \in Fds : ftab[fd] \in OpenFileEntry
  BY DEF IInv, TypeOK
<1>5. \A fd \in OpenFds : fd \in Fds /\ UnixFd[fd] \in Files
  BY <1>4 DEF OpenFds, UnixFd, OpenFileEntry
<1>6. \A fd \in Fds : FirstFree(fd) \in Links /\ NumPages(fd) \in 0 .. MaxPages
  BY <1>4 DEF FirstFree, NumPages, OpenFileEntry, Header
<1>7. Idle \in Calls /\ Exited \in Calls
  BY SizesAssumption DEF Idle, Exited, Calls, Fds
<1> QED
  BY <1>1, <1>2, <1>3, <1>4, <1>5, <1>6, <1>7, SizesAssumption

(* A step that is an operation on a page of the open file fd.              *)
LEMMA PoolStep ==
  ASSUME IInv, NEW fd \in OpenFds, NEW t, Kept(pool, t, fd), Becomes(t),
         OpenFds' = OpenFds
  PROVE  pool' \in Pool /\ disk' \in Disk /\ PoolConsistent' /\ FramesOfOpenFiles'
<1>1. /\ pool' = t.pool /\ disk' = t.disk /\ PoolOK(t.pool) /\ t.disk \in Disk
      /\ FdsIn(t.pool, ToSet(t.pool.used)) \subseteq FdsIn(pool, ToSet(pool.used)) \cup {fd}
  BY DEF Becomes, Kept
<1>2. FdsIn(pool', ToSet(pool'.used)) \subseteq OpenFds
  BY <1>1, InvFacts
<1>3. FramesOfOpenFiles'
  BY <1>2 DEF FramesOfOpenFiles, FdsIn
<1> QED
  BY <1>1, <1>3 DEF PoolOK, PoolConsistent

(* A step that leaves the pool, the table of open files and the call alone.*)
LEMMA FileStep ==
  ASSUME IInv, UNCHANGED <<pool, ftab, call>>,
         disk' \in Disk, header' \in [Files -> Header \cup {NoFile}],
         touched' \subseteq PageIds
  PROVE  IInv'
<1>1. OpenFds' = OpenFds
  BY DEF OpenFds
<1>2. TypeOK'
  BY DEF IInv, TypeOK
<1>3. PoolConsistent' /\ FramesOfOpenFiles'
  BY <1>1 DEF IInv, PoolConsistent, FramesOfOpenFiles
<1>4. WalkOK' /\ ScanOK'
  BY <1>1 DEF IInv, WalkOK, ScanOK
<1> QED
  BY <1>2, <1>3, <1>4 DEF IInv

-----------------------------------------------------------------------------
(* The invariant holds after the first PF_Init.                            *)
LEMMA InitInv == Init => IInv
<1> SUFFICES ASSUME Init PROVE IInv
  OBVIOUS
<1>1. PICK arg \in InitArgs :
        pool = [used |-> <<>>, free |-> <<>>, numb |-> 0,
                max |-> arg[1], strategy |-> arg[2],
                frame |-> [f \in Frames |-> FreshPage],
                hash |-> [id \in PageIds |-> NULL]]
  BY DEF Init
<1>2. arg[1] \in 0 .. MaxFrames /\ arg[2] \in Strategies
  BY InitArgsAssumption
<1>3. /\ pool.used = <<>> /\ pool.free = <<>> /\ pool.numb = 0
      /\ pool.hash = [id \in PageIds |-> NULL]
  BY <1>1
<1>4. pool \in Pool
  BY <1>1, <1>2, FreshPageType, SizesAssumption DEF Pool
<1>5. ToSet(pool.used) = {} /\ ToSet(pool.free) = {}
      /\ IsInjective(pool.used) /\ IsInjective(pool.free)
  BY <1>3 DEF ToSet, IsInjective
<1>6. PoolConsistent
  BY <1>3, <1>5 DEF PoolConsistent, ListsPartitionFrames, TableFinds
<1>7. EmptyHeader \in Header /\ UnusedEntry \in OpenFileEntry /\ Idle \in Calls
  BY SizesAssumption DEF EmptyHeader, Header, Links, UnusedEntry, OpenFileEntry,
     Idle, Calls, Fds
<1>8. TypeOK
  BY <1>4, <1>7 DEF TypeOK, Init, Disk
<1>9. FramesOfOpenFiles /\ WalkOK /\ ScanOK
  BY <1>5 DEF FramesOfOpenFiles, WalkOK, ScanOK, Init, Idle
<1> QED
  BY <1>6, <1>8, <1>9 DEF IInv

(* PF_Init with no file open: there is no used frame, so the emptied page  *)
(* table is right.                                                         *)
LEMMA PF_InitInv ==
  ASSUME IInv, NEW arg \in InitArgs, PF_Init(arg[1], arg[2])
  PROVE  IInv'
<1>1. arg[1] \in 0 .. MaxFrames /\ arg[2] \in Strategies
  BY InitArgsAssumption
<1>2. pool \in Pool /\ ListsPartitionFrames(pool)
  BY DEF IInv, TypeOK, PoolConsistent
<1>3. pool' = [pool EXCEPT !.max = arg[1], !.strategy = arg[2],
                           !.hash = [id \in PageIds |-> NULL]]
  BY DEF PF_Init
<1>4. /\ pool' \in Pool /\ pool'.used = pool.used /\ pool'.free = pool.free
      /\ pool'.numb = pool.numb /\ pool'.hash = [id \in PageIds |-> NULL]
  BY <1>1, <1>2, <1>3 DEF Pool
<1>5. ToSet(pool.used) = {}
  BY DEF IInv, FramesOfOpenFiles, PF_Init
<1>6. PoolConsistent'
  BY <1>2, <1>4, <1>5 DEF PoolConsistent, ListsPartitionFrames, TableFinds
<1>7. UnusedEntry \in OpenFileEntry
  BY SizesAssumption DEF EmptyHeader, Header, Links, UnusedEntry, OpenFileEntry
<1>8. TypeOK'
  BY <1>4, <1>7 DEF IInv, TypeOK, PF_Init
<1>9. FramesOfOpenFiles' /\ WalkOK' /\ ScanOK'
  BY <1>4, <1>5 DEF FramesOfOpenFiles, WalkOK, ScanOK, PF_Init, Idle
<1> QED
  BY <1>6, <1>8, <1>9 DEF IInv

(* PF_CreateFile and PF_DestroyFile do not touch the pool.                 *)
LEMMA CreateDestroyInv ==
  ASSUME IInv, NEW f \in Files, PF_CreateFile(f) \/ PF_DestroyFile(f)
  PROVE  IInv'
<1>1. EmptyHeader \in Header
  BY SizesAssumption DEF EmptyHeader, Header, Links
<1>2. disk' \in Disk /\ header' \in [Files -> Header \cup {NoFile}]
  BY <1>1 DEF IInv, TypeOK, PF_CreateFile, PF_DestroyFile, Disk
<1> QED
  BY <1>2, FileStep DEF IInv, TypeOK, PF_CreateFile, PF_DestroyFile

(* PF_OpenFile takes an unused entry, for which no frame is held.          *)
LEMMA OpenInv ==
  ASSUME IInv, NEW f \in Files, NEW mode \in Modes, PF_OpenFile(f, mode)
  PROVE  IInv'
<1>1. PICK fd \in Fds \ OpenFds : ftab' = [ftab EXCEPT ![fd] =
        [fname |-> f, hdr |-> header[f], hdrchanged |-> FALSE, mode |-> mode]]
  BY DEF PF_OpenFile
<1>2. header[f] \in Header
  BY DEF IInv, TypeOK, PF_OpenFile
<1>3. ftab' \in [Fds -> OpenFileEntry]
  BY <1>1, <1>2, ModesAssumption DEF IInv, TypeOK, OpenFileEntry
<1>4. OpenFds \subseteq OpenFds'
  BY <1>1, InvFacts DEF OpenFds
<1>5. TypeOK'
  BY <1>3 DEF IInv, TypeOK, PF_OpenFile
<1>6. PoolConsistent' /\ FramesOfOpenFiles'
  BY <1>4 DEF IInv, PoolConsistent, FramesOfOpenFiles, PF_OpenFile
<1>7. WalkOK' /\ ScanOK'
  BY DEF WalkOK, ScanOK, PF_OpenFile, Idle
<1> QED
  BY <1>5, <1>6, <1>7 DEF IInv

-----------------------------------------------------------------------------
(***************************************************************************)
(* PF_CloseFile.                                                           *)
(***************************************************************************)

(* bpage->nextpage.                                                        *)
LEMMA NextUsedAt ==
  ASSUME NEW S, NEW list \in Seq(S), IsInjective(list), NEW k \in DOMAIN list
  PROVE  NextUsed(list, list[k]) = IF k < Len(list) THEN list[k + 1] ELSE NULL
<1> DEFINE at == CHOOSE i \in 1 .. Len(list) - 1 : list[i] = list[k]
<1>1. Len(list) \in Nat /\ DOMAIN list = 1 .. Len(list)
  OBVIOUS
<1>2. CASE k < Len(list)
  <2>1. k \in 1 .. Len(list) - 1
    BY <1>1, <1>2
  <2>2. at \in 1 .. Len(list) - 1 /\ list[at] = list[k]
    BY <2>1
  <2>3. at = k
    BY <2>2, <1>1 DEF IsInjective
  <2> HIDE DEF at
  <2>4. NextUsed(list, list[k]) = list[1 + at]
    BY <2>1 DEF NextUsed, at
  <2> QED
    BY <2>3, <2>4, <1>1, <1>2
<1>3. CASE ~(k < Len(list))
  <2>1. \A i \in 1 .. Len(list) - 1 : list[i] # list[k]
    BY <1>1, <1>3 DEF IsInjective
  <2> QED
    BY <2>1, <1>3 DEF NextUsed
<1> QED
  BY <1>2, <1>3

(* PF_CloseFile starts its walk at the head of the used list.              *)
LEMMA CloseFileInv ==
  ASSUME IInv, NEW fd \in Fds, PF_CloseFile(fd)
  PROVE  IInv'
<1>1. fd \in OpenFds /\ call' = [op |-> "close", fd |-> fd, at |-> FirstUsed(pool.used)]
  BY DEF PF_CloseFile, PFinvalidFd
<1>2. pool.used \in Seq(Frames) /\ ToSet(pool.used) \subseteq Frames
  BY PoolFields DEF IInv, TypeOK
<1>3. \/ pool.used = <<>> /\ FirstUsed(pool.used) = NULL /\ DOMAIN pool.used = {}
      \/ /\ 1 \in DOMAIN pool.used /\ FirstUsed(pool.used) = pool.used[1]
         /\ pool.used[1] \in Frames /\ DOMAIN pool.used = 1 .. Len(pool.used)
         /\ Len(pool.used) \in Nat
  BY <1>2 DEF FirstUsed
<1>4. call' \in Calls
  BY <1>1, <1>3, SizesAssumption DEF Calls, Frames, NULL
<1>5. OpenFds' = OpenFds
  BY DEF PF_CloseFile, OpenFds
<1>6. TypeOK'
  BY <1>4 DEF IInv, TypeOK, PF_CloseFile
<1>7. PoolConsistent' /\ FramesOfOpenFiles'
  BY <1>5 DEF IInv, PoolConsistent, FramesOfOpenFiles, PF_CloseFile
<1>8. WalkOK'
  <2>1. call'.fd \in OpenFds'
    BY <1>1, <1>5
  <2>2. call'.at # NULL => call'.at \in ToSet(pool.used)
    BY <1>1, <1>3 DEF ToSet
  <2>3. \A i \in DOMAIN pool.used :
          call'.at # NULL /\ \E j \in 1 .. i : pool.used[j] = call'.at
    BY <1>1, <1>3, FreshPageType
  <2> QED
    BY <2>1, <2>2, <2>3 DEF WalkOK, PF_CloseFile
<1>9. ScanOK'
  BY <1>1 DEF ScanOK
<1> QED
  BY <1>6, <1>7, <1>8, <1>9 DEF IInv

(* The walk takes the frame it is at off the list, or steps over it, and   *)
(* stays in front of the frames it has still to release.                   *)
LEMMA CloseReleaseInv ==
  ASSUME IInv, CloseRelease
  PROVE  IInv'
<1> DEFINE used == pool.used
<1>1. /\ call.op = "close" /\ call.at # NULL /\ call.fd \in OpenFds
      /\ call.at \in ToSet(used) /\ call \in Calls
  BY DEF IInv, TypeOK, WalkOK, CloseRelease
<1>2. PICK t \in ReleaseFrame(pool, disk, UnixFd, call.fd, call.at) :
        /\ Becomes(t)
        /\ call' = IF t.err \in {"OK", "SKIP"}
                   THEN [call EXCEPT !.at = NextUsed(pool.used, call.at)]
                   ELSE IF t.err = "EXIT" THEN Exited ELSE Idle
  BY DEF CloseRelease
<1>3. /\ t.disk \in Disk /\ PoolOK(t.pool) /\ t.err # "EXIT"
      /\ t.err = "OK" => /\ t.pool.used = Unlink(used, call.at)
                         /\ \A other \in ToSet(used) \ {call.at} :
                              t.pool.frame[other] = pool.frame[other]
      /\ t.err = "SKIP" => pool.frame[call.at].fd # call.fd
      /\ t.err # "OK" => t.pool = pool
  BY <1>1, InvFacts, ReleaseOK DEF OpenFds
<1>4. pool' = t.pool /\ disk' = t.disk /\ OpenFds' = OpenFds /\ ftab' = ftab
  BY <1>2 DEF Becomes, CloseRelease, OpenFds
<1>5. used \in Seq(Frames) /\ IsInjective(used) /\ Len(used) \in Nat
      /\ DOMAIN used = 1 .. Len(used)
  BY PoolFields DEF IInv, TypeOK, PoolConsistent, ListsPartitionFrames
<1>6. PICK k \in DOMAIN used : used[k] = call.at
  BY <1>1 DEF ToSet
<1> DEFINE next == NextUsed(used, call.at)
<1>7. next = IF k < Len(used) THEN used[k + 1] ELSE NULL
  BY <1>5, <1>6, NextUsedAt
<1> HIDE DEF next
<1>8. next \in Frames \cup {NULL} /\ (k < Len(used) => next \in Frames /\ next # NULL)
  BY <1>5, <1>6, <1>7, FreshPageType
<1>9. call' \in Calls
  <2>1. [call EXCEPT !.at = next] \in Calls
    BY <1>1, <1>8, SizesAssumption DEF Calls, Frames, NULL
  <2> QED
    BY <1>2, <2>1, InvFacts DEF next
<1>10. TypeOK'
  BY <1>3, <1>4, <1>9 DEF IInv, TypeOK, CloseRelease, PoolOK
<1>11. PoolConsistent'
  BY <1>3, <1>4 DEF PoolOK, PoolConsistent
<1>12. ToSet(used) = {used[i] : i \in DOMAIN used}
  BY DEF ToSet
<1>13. FramesOfOpenFiles'
  <2>1. CASE t.err = "OK"
    <3>1. ToSet(t.pool.used) = ToSet(used) \ {call.at}
      BY <2>1, <1>1, <1>3, <1>5, UnlinkSet
    <3> QED
      BY <2>1, <3>1, <1>3, <1>4 DEF IInv, FramesOfOpenFiles
  <2>2. CASE t.err # "OK"
    BY <2>2, <1>3, <1>4 DEF IInv, FramesOfOpenFiles
  <2> QED
    BY <2>1, <2>2
<1>14. WalkOK'
  <2>1. CASE t.err = "OK"
    <3> DEFINE left == Unlink(used, call.at)
    <3>1. /\ Len(left) = Len(used) - 1 /\ left \in Seq(Frames)
          /\ \A i \in 1 .. Len(used) - 1 :
               left[i] = IF i < k THEN used[i] ELSE used[i + 1]
      BY <1>5, <1>6, UnlinkAt, ZenonT(30)
    <3>2. pool'.used = left /\ call'.at = next /\ call'.fd = call.fd
      BY <2>1, <1>1, <1>2, <1>3, <1>4 DEF next, Calls
    <3>3. DOMAIN left = 1 .. Len(used) - 1
      BY <3>1, <1>5
    <3> HIDE DEF left
    <3>4. \A i \in 1 .. Len(used) : i # k =>
            used[i] # call.at /\ pool'.frame[used[i]] = pool.frame[used[i]]
      BY <2>1, <1>3, <1>4, <1>5, <1>6, <1>12 DEF IsInjective
    <3>5. next # NULL => k \in DOMAIN left /\ left[k] = next
      BY <3>1, <3>3, <1>5, <1>6, <1>7
    <3>6. ASSUME NEW i \in DOMAIN left, pool'.frame[left[i]].fd = call.fd
          PROVE  next # NULL /\ \E j \in 1 .. i : left[j] = next
      <4>1. CASE i < k
        <5>1. left[i] = used[i] /\ i \in 1 .. Len(used) /\ i # k
          BY <3>1, <3>3, <4>1, <1>5, <1>6
        <5>2. pool.frame[used[i]].fd = call.fd
          BY <3>4, <3>6, <5>1
        <5>3. PICK j \in 1 .. i : used[j] = call.at
          BY <5>1, <5>2, <1>1, <1>5 DEF IInv, WalkOK
        <5>4. j \in 1 .. Len(used) /\ j # k
          BY <5>1, <4>1, <1>5, <1>6
        <5> QED
          BY <5>3, <5>4, <3>4
      <4>2. CASE ~(i < k)
        <5>1. k < Len(used) /\ k \in 1 .. i
          BY <4>2, <3>3, <1>5, <1>6
        <5> QED
          BY <5>1, <3>5, <1>8
      <4> QED
        BY <4>1, <4>2
    <3>7. next # NULL => next \in ToSet(left)
      BY <3>5 DEF ToSet
    <3> QED
      BY <3>2, <3>6, <3>7, <1>1, <1>4 DEF WalkOK
  <2>2. CASE t.err = "SKIP"
    <3>1. pool' = pool /\ call'.at = next /\ call'.fd = call.fd
      BY <2>2, <1>1, <1>2, <1>3, <1>4 DEF next, Calls
    <3>2. next # NULL => k + 1 \in DOMAIN used /\ used[k + 1] = next
      BY <1>5, <1>6, <1>7
    <3>3. ASSUME NEW i \in DOMAIN used, pool.frame[used[i]].fd = call.fd
          PROVE  next # NULL /\ \E j \in 1 .. i : used[j] = next
      <4>1. PICK j \in 1 .. i : used[j] = call.at
        BY <3>3, <1>1 DEF IInv, WalkOK
      <4>2. j = k
        BY <4>1, <1>5, <1>6 DEF IsInjective
      <4>3. i # k
        BY <2>2, <3>3, <1>3, <1>6
      <4>4. k < Len(used) /\ k + 1 \in 1 .. i
        BY <4>1, <4>2, <4>3, <1>5, <1>6
      <4> QED
        BY <4>4, <3>2, <1>8
    <3>4. next # NULL => next \in ToSet(used)
      BY <3>2 DEF ToSet
    <3> QED
      BY <3>1, <3>3, <3>4, <1>1, <1>4 DEF WalkOK
  <2>3. CASE t.err \notin {"OK", "SKIP"}
    BY <2>3, <1>2, <1>3 DEF WalkOK, Idle
  <2> QED
    BY <2>1, <2>2, <2>3
<1>15. ScanOK'
  BY <1>1, <1>2 DEF ScanOK, Idle, Exited, Calls
<1> QED
  BY <1>10, <1>11, <1>13, <1>14, <1>15 DEF IInv

(* The walk has ended: no frame of the file is left, and the file's entry  *)
(* in the table can go.                                                    *)
LEMMA CloseHeaderInv ==
  ASSUME IInv, CloseHeader
  PROVE  IInv'
<1>1. call.op = "close" /\ call.at = NULL /\ call.fd \in OpenFds /\ call.fd \in Fds
  BY DEF IInv, WalkOK, CloseHeader, OpenFds
<1>2. UnusedEntry \in OpenFileEntry
  BY SizesAssumption DEF EmptyHeader, Header, Links, UnusedEntry, OpenFileEntry
<1>3. ftab' = [ftab EXCEPT ![call.fd] = UnusedEntry] /\ pool' = pool
  BY DEF CloseHeader
<1>4. ftab' \in [Fds -> OpenFileEntry]
  BY <1>2, <1>3 DEF IInv, TypeOK
<1>5. header' \in [Files -> Header \cup {NoFile}]
  <2>1. ftab[call.fd].hdr \in Header
    BY <1>1, InvFacts DEF OpenFileEntry
  <2> QED
    BY <2>1 DEF IInv, TypeOK, CloseHeader
<1>6. TypeOK'
  BY <1>4, <1>5, InvFacts DEF IInv, TypeOK, CloseHeader
<1>7. OpenFds' = OpenFds \ {call.fd}
  <2>1. ftab'[call.fd].fname = NoFile
    BY <1>1, <1>3 DEF IInv, TypeOK, UnusedEntry
  <2>2. \A fd \in Fds : fd # call.fd => ftab'[fd] = ftab[fd]
    BY <1>1, <1>3 DEF IInv, TypeOK
  <2> QED
    BY <2>1, <2>2 DEF OpenFds
<1>8. \A bp \in ToSet(pool.used) : pool.frame[bp].fd # call.fd
  BY <1>1 DEF IInv, WalkOK, ToSet
<1>9. FramesOfOpenFiles'
  BY <1>3, <1>7, <1>8 DEF IInv, FramesOfOpenFiles
<1>10. PoolConsistent'
  BY <1>3 DEF IInv, PoolConsistent
<1>11. WalkOK' /\ ScanOK'
  BY DEF WalkOK, ScanOK, CloseHeader, Idle
<1> QED
  BY <1>6, <1>9, <1>10, <1>11 DEF IInv

(* A header that cannot be written leaves the file open.                   *)
LEMMA CloseHeaderFailsInv ==
  ASSUME IInv, CloseHeaderFails
  PROVE  IInv'
<1>1. OpenFds' = OpenFds
  BY DEF CloseHeaderFails, OpenFds
<1>2. TypeOK'
  BY InvFacts DEF IInv, TypeOK, CloseHeaderFails
<1>3. PoolConsistent' /\ FramesOfOpenFiles'
  BY <1>1 DEF IInv, PoolConsistent, FramesOfOpenFiles, CloseHeaderFails
<1>4. WalkOK' /\ ScanOK'
  BY DEF WalkOK, ScanOK, CloseHeaderFails, Idle
<1> QED
  BY <1>2, <1>3, <1>4 DEF IInv

-----------------------------------------------------------------------------
(***************************************************************************)
(* The calls on pages.                                                     *)
(***************************************************************************)

(* What is left to show of a step on a page of the open file fd.           *)
LEMMA PageStep ==
  ASSUME IInv, NEW fd \in OpenFds, NEW t, Kept(pool, t, fd), Becomes(t),
         OpenFds' = OpenFds, ftab' \in [Fds -> OpenFileEntry], header' = header,
         call' \in Calls, touched' \subseteq PageIds,
         call'.op # "close", call'.op = "next" => call'.fd \in OpenFds
  PROVE  IInv'
<1>1. pool' \in Pool /\ disk' \in Disk /\ PoolConsistent' /\ FramesOfOpenFiles'
  BY PoolStep
<1>2. TypeOK'
  BY <1>1 DEF IInv, TypeOK
<1>3. WalkOK' /\ ScanOK'
  BY DEF WalkOK, ScanOK
<1> QED
  BY <1>1, <1>2, <1>3 DEF IInv

(* Two operations in a row on pages of the same file.                      *)
LEMMA KeptTrans ==
  ASSUME NEW p, NEW t, NEW s, NEW fd, Kept(p, t, fd), Kept(t.pool, s, fd)
  PROVE  Kept(p, s, fd)
BY DEF Kept

(* PF_GetNextPage starts its scan.                                         *)
LEMMA GetNextPageInv ==
  ASSUME IInv, NEW fd \in Fds, NEW from \in {-1} \cup Pages, PF_GetNextPage(fd, from)
  PROVE  IInv'
<1>1. fd \in OpenFds /\ call' = [op |-> "next", fd |-> fd, at |-> from + 1]
  BY DEF PF_GetNextPage, PFinvalidFd
<1>2. call' \in Calls
  BY <1>1, SizesAssumption DEF Calls, Pages
<1>3. OpenFds' = OpenFds
  BY DEF PF_GetNextPage, OpenFds
<1>4. TypeOK'
  BY <1>2 DEF IInv, TypeOK, PF_GetNextPage
<1>5. PoolConsistent' /\ FramesOfOpenFiles'
  BY <1>3 DEF IInv, PoolConsistent, FramesOfOpenFiles, PF_GetNextPage
<1>6. WalkOK' /\ ScanOK'
  BY <1>1, <1>3 DEF WalkOK, ScanOK
<1> QED
  BY <1>4, <1>5, <1>6 DEF IInv

(* An iteration of PF_GetNextPage, by the lemmas on PFbufGet and           *)
(* PFbufUnfix.                                                             *)
LEMMA NextPageScanInv ==
  ASSUME IInv, NextPageScan
  PROVE  IInv'
<1> DEFINE fd == call.fd
           pg == call.at
<1>1. /\ call.op = "next" /\ fd \in OpenFds /\ fd \in Fds /\ UnixFd[fd] \in Files
      /\ call \in Calls
  BY InvFacts DEF IInv, TypeOK, ScanOK, NextPageScan
<1>2. pg \in Pages
  BY <1>1, InvFacts DEF NextPageScan, Calls, Pages
<1>3. OpenFds' = OpenFds /\ UNCHANGED <<header, ftab, touched>>
  BY DEF NextPageScan, OpenFds
<1>4. PICK t \in PFbufGet(pool, disk, UnixFd, fd, pg) :
        IF t.err # "OK" \/ PageUsed(t)
        THEN Becomes(t) /\ call' = Idle
        ELSE LET s == PFbufUnfix(t.pool, t.disk, fd, pg, FALSE)
             IN /\ Becomes(s)
                /\ call' = IF s.err = "OK" THEN [call EXCEPT !.at = call.at + 1]
                           ELSE Idle
  BY DEF NextPageScan
<1>5. Kept(pool, t, fd)
  BY <1>1, <1>2, InvFacts, GetOK
<1>6. CASE t.err # "OK" \/ PageUsed(t)
  <2>1. Becomes(t) /\ call' = Idle
    BY <1>4, <1>6
  <2> QED
    BY <2>1, <1>1, <1>3, <1>5, InvFacts, PageStep DEF IInv, TypeOK, Idle
<1>7. CASE ~(t.err # "OK" \/ PageUsed(t))
  <2> DEFINE s == PFbufUnfix(t.pool, t.disk, fd, pg, FALSE)
  <2>1. /\ Becomes(s)
        /\ call' \in {[call EXCEPT !.at = call.at + 1], Idle}
    BY <1>4, <1>7
  <2>2. Kept(t.pool, s, fd)
    <3>1. PoolOK(t.pool) /\ t.disk \in Disk
      BY <1>5 DEF Kept
    <3> QED
      BY <3>1, <1>1, <1>2, UnfixOK
  <2> HIDE DEF s
  <2>3. Kept(pool, s, fd)
    BY <1>5, <2>2, KeptTrans
  <2>4. [call EXCEPT !.at = call.at + 1] \in Calls
    BY <1>1, <1>2, SizesAssumption DEF Calls, Pages
  <2>5. /\ call' \in Calls /\ call'.op # "close"
        /\ call'.op = "next" => call'.fd \in OpenFds
    BY <1>1, <2>1, <2>4, InvFacts DEF Idle, Calls
  <2> QED
    BY <2>1, <2>3, <2>5, <1>1, <1>3, PageStep DEF IInv, TypeOK
<1> QED
  BY <1>6, <1>7

(* PF_GetNextPage at the end of the file.                                  *)
LEMMA NextPageEOFInv ==
  ASSUME IInv, NextPageEOF
  PROVE  IInv'
<1>1. OpenFds' = OpenFds
  BY DEF NextPageEOF, OpenFds
<1>2. TypeOK'
  BY InvFacts DEF IInv, TypeOK, NextPageEOF
<1>3. PoolConsistent' /\ FramesOfOpenFiles'
  BY <1>1 DEF IInv, PoolConsistent, FramesOfOpenFiles, NextPageEOF
<1>4. WalkOK' /\ ScanOK'
  BY DEF WalkOK, ScanOK, NextPageEOF, Idle
<1> QED
  BY <1>2, <1>3, <1>4 DEF IInv

(* The unfix that gives back a page which is not used.                     *)
LEMMA UnfixOrExitStep ==
  ASSUME IInv, call = Idle, NEW fd \in OpenFds, NEW pg \in Pages,
         NEW t, Kept(pool, t, fd), UnfixOrExit(t, fd, pg),
         UNCHANGED <<header, ftab, touched>>
  PROVE  IInv'
<1> DEFINE s == PFbufUnfix(t.pool, t.disk, fd, pg, FALSE)
<1>1. Becomes(s) /\ call' \in {Idle, Exited}
  BY DEF UnfixOrExit
<1>2. fd \in Fds /\ OpenFds' = OpenFds
  BY DEF OpenFds
<1>3. Kept(t.pool, s, fd)
  <2>1. PoolOK(t.pool) /\ t.disk \in Disk
    BY DEF Kept
  <2> QED
    BY <2>1, <1>2, UnfixOK
<1> HIDE DEF s
<1>4. Kept(pool, s, fd)
  BY <1>3, KeptTrans
<1>5. call' \in Calls /\ call'.op # "close" /\ call'.op # "next"
  BY <1>1, InvFacts DEF Idle, Exited
<1> QED
  BY <1>1, <1>2, <1>4, <1>5, PageStep DEF IInv, TypeOK

(* PF_GetThisPage, with the unfix of a page that turns out to be free.     *)
LEMMA GetThisPageInv ==
  ASSUME IInv, NEW fd \in Fds, NEW pg \in Pages, PF_GetThisPage(fd, pg)
  PROVE  IInv'
<1>1. /\ call = Idle /\ fd \in OpenFds /\ OpenFds' = OpenFds
      /\ UNCHANGED <<header, ftab, touched>>
  BY DEF PF_GetThisPage, PFinvalidFd, OpenFds
<1>2. PICK t \in PFbufGet(pool, disk, UnixFd, fd, pg) :
        IF t.err # "OK" \/ PageUsed(t) THEN Becomes(t) /\ UNCHANGED call
        ELSE UnfixOrExit(t, fd, pg)
  BY DEF PF_GetThisPage
<1>3. Kept(pool, t, fd)
  BY <1>1, InvFacts, GetOK
<1>4. CASE t.err # "OK" \/ PageUsed(t)
  <2>1. Becomes(t) /\ call' = Idle
    BY <1>1, <1>2, <1>4
  <2> QED
    BY <2>1, <1>1, <1>3, InvFacts, PageStep DEF IInv, TypeOK, Idle
<1>5. CASE ~(t.err # "OK" \/ PageUsed(t))
  BY <1>1, <1>2, <1>3, <1>5, UnfixOrExitStep
<1> QED
  BY <1>4, <1>5

(* The two changes PF_AllocPage and PF_DisposePage make to a header.       *)
LEMMA SetFirstFree ==
  ASSUME IInv, NEW fd \in Fds, NEW x \in Links,
         ftab' = [ftab EXCEPT ![fd].hdr.firstfree = x, ![fd].hdrchanged = TRUE]
  PROVE  ftab' \in [Fds -> OpenFileEntry] /\ OpenFds' = OpenFds
<1> DEFINE h == [ftab[fd].hdr EXCEPT !.firstfree = x]
           e == [ftab[fd] EXCEPT !.hdr = h, !.hdrchanged = TRUE]
<1>1. ftab[fd] \in OpenFileEntry /\ ftab[fd].hdr \in Header
  BY InvFacts DEF OpenFileEntry
<1>2. h \in Header
  BY <1>1 DEF Header
<1> HIDE DEF h
<1>3. e \in OpenFileEntry /\ e.fname = ftab[fd].fname
  BY <1>1, <1>2 DEF OpenFileEntry
<1>4. ftab' = [ftab EXCEPT ![fd] = e]
  BY <1>1 DEF IInv, TypeOK, OpenFileEntry, h
<1> HIDE DEF e
<1>5. ftab' \in [Fds -> OpenFileEntry]
  BY <1>3, <1>4 DEF IInv, TypeOK
<1>6. \A other \in Fds : ftab'[other].fname = ftab[other].fname
  BY <1>3, <1>4 DEF IInv, TypeOK
<1> QED
  BY <1>5, <1>6 DEF OpenFds

(* The other one.                                                          *)
LEMMA SetNumPages ==
  ASSUME IInv, NEW fd \in Fds, NEW x \in 0 .. MaxPages,
         ftab' = [ftab EXCEPT ![fd].hdr.numpages = x, ![fd].hdrchanged = TRUE]
  PROVE  ftab' \in [Fds -> OpenFileEntry] /\ OpenFds' = OpenFds
<1> DEFINE h == [ftab[fd].hdr EXCEPT !.numpages = x]
           e == [ftab[fd] EXCEPT !.hdr = h, !.hdrchanged = TRUE]
<1>1. ftab[fd] \in OpenFileEntry /\ ftab[fd].hdr \in Header
  BY InvFacts DEF OpenFileEntry
<1>2. h \in Header
  BY <1>1 DEF Header
<1> HIDE DEF h
<1>3. e \in OpenFileEntry /\ e.fname = ftab[fd].fname
  BY <1>1, <1>2 DEF OpenFileEntry
<1>4. ftab' = [ftab EXCEPT ![fd] = e]
  BY <1>1 DEF IInv, TypeOK, OpenFileEntry, h
<1> HIDE DEF e
<1>5. ftab' \in [Fds -> OpenFileEntry]
  BY <1>3, <1>4 DEF IInv, TypeOK
<1>6. \A other \in Fds : ftab'[other].fname = ftab[other].fname
  BY <1>3, <1>4 DEF IInv, TypeOK
<1> QED
  BY <1>5, <1>6 DEF OpenFds

(* A page from the free list is marked used in its frame.                  *)
LEMMA AllocFreeInv ==
  ASSUME IInv, NEW fd \in OpenFds, call = Idle, AllocFree(fd), header' = header
  PROVE  IInv'
<1> DEFINE pg == FirstFree(fd)
<1>1. fd \in Fds /\ UnixFd[fd] \in Files
  BY InvFacts
<1>2. CASE pg \notin Pages
  <2>1. UNCHANGED <<pool, disk, ftab, touched>> /\ call' = Exited
    BY <1>2 DEF AllocFree
  <2>2. OpenFds' = OpenFds
    BY <2>1 DEF OpenFds
  <2>3. TypeOK'
    BY <2>1, InvFacts DEF IInv, TypeOK
  <2>4. PoolConsistent' /\ FramesOfOpenFiles'
    BY <2>1, <2>2 DEF IInv, PoolConsistent, FramesOfOpenFiles
  <2>5. WalkOK' /\ ScanOK'
    BY <2>1 DEF WalkOK, ScanOK, Exited
  <2> QED
    BY <2>3, <2>4, <2>5 DEF IInv
<1>3. CASE pg \in Pages
  <2>1. PICK t \in PFbufGet(pool, disk, UnixFd, fd, pg) :
          /\ disk' = t.disk
          /\ UNCHANGED call
          /\ IF t.err # "OK" THEN pool' = t.pool /\ UNCHANGED <<ftab, touched>>
             ELSE /\ pool' = MarkUsed(t.pool, t.bp)
                  /\ ftab' = [ftab EXCEPT
                       ![fd].hdr.firstfree = t.pool.frame[t.bp].fpage.nextfree,
                       ![fd].hdrchanged = TRUE]
                  /\ touched' = IF AllocTouches THEN touched \cup {<<fd, pg>>}
                                ELSE touched
    BY <1>3 DEF AllocFree
  <2>2. Kept(pool, t, fd) /\ (t.err = "OK" => Fixes(t, fd, pg))
    BY <1>1, <1>3, InvFacts, GetOK
  <2>3. CASE t.err # "OK"
    <3>1. Becomes(t) /\ UNCHANGED <<ftab, touched, call>>
      BY <2>1, <2>3 DEF Becomes
    <3>2. OpenFds' = OpenFds
      BY <3>1 DEF OpenFds
    <3> QED
      BY <2>2, <3>1, <3>2, InvFacts, PageStep DEF IInv, TypeOK, Idle
  <2>4. CASE t.err = "OK"
    <3> DEFINE f == t.pool.frame[t.bp]
               b == [f EXCEPT !.fpage.nextfree = PAGE_USED]
               q == WithFrame(t.pool, t.bp, b)
               s == [pool |-> q, disk |-> t.disk]
    <3>1. /\ PoolOK(t.pool) /\ t.bp \in ToSet(t.pool.used)
          /\ f \in BufferPage
      BY <2>2, <2>4, PoolFields DEF Kept, Fixes, PoolOK
    <3>2. f.fpage \in FilePage
      BY <3>1 DEF BufferPage
    <3>3. b \in BufferPage /\ b.fd = f.fd /\ b.page = f.page
      BY <3>1, <3>2 DEF BufferPage, FilePage, Links
    <3>4. pool' = q /\ disk' = t.disk /\ call' = Idle
      BY <2>1, <2>4 DEF MarkUsed, WithFrame
    <3> HIDE DEF b
    <3>5. FrameSet(t.pool, q, t.bp, b)
      BY <3>1, <3>3, SetFrame
    <3> HIDE DEF q
    <3>6. Kept(pool, s, fd) /\ Becomes(s)
      BY <2>2, <3>4, <3>5 DEF Kept, FrameSet, Becomes
    <3>7. f.fpage.nextfree \in Links
      BY <3>2, SMTT(30) DEF FilePage
    <3>8. ftab' \in [Fds -> OpenFileEntry] /\ OpenFds' = OpenFds
      <4>1. ftab' = [ftab EXCEPT ![fd].hdr.firstfree = f.fpage.nextfree,
                                 ![fd].hdrchanged = TRUE]
        BY <2>1, <2>4
      <4> QED
        BY <4>1, <1>1, <3>7, SetFirstFree
    <3>9. touched' \subseteq PageIds
      BY <1>1, <1>3, <2>1, <2>4 DEF IInv, TypeOK, PageIds
    <3> QED
      BY <3>4, <3>6, <3>8, <3>9, InvFacts, PageStep DEF Idle
  <2> QED
    BY <2>3, <2>4
<1> QED
  BY <1>2, <1>3

(* A page at the end of the file: PFbufUsed cannot fail after PFbufAlloc.  *)
LEMMA AllocExtendInv ==
  ASSUME IInv, NEW fd \in OpenFds, call = Idle, AllocExtend(fd), header' = header
  PROVE  IInv'
<1> DEFINE pg == NumPages(fd)
<1>1. /\ fd \in Fds /\ pg \in Pages /\ UNCHANGED touched
      /\ pg + 1 \in 0 .. MaxPages
  BY InvFacts DEF AllocExtend, Pages
<1>2. PICK t \in PFbufAlloc(pool, disk, UnixFd, fd, pg) :
        IF t.err # "OK" THEN Becomes(t) /\ UNCHANGED <<ftab, call>>
        ELSE LET s == PFbufUsed(t.pool, t.disk, fd, pg) IN
             /\ disk' = s.disk
             /\ pool' = MarkUsed(s.pool, t.bp)
             /\ ftab' = [ftab EXCEPT ![fd].hdr.numpages = pg + 1,
                                     ![fd].hdrchanged = TRUE]
             /\ call' = IF s.err = "OK" THEN call ELSE Exited
  BY DEF AllocExtend
<1>3. Kept(pool, t, fd) /\ (t.err = "OK" => Fixes(t, fd, pg))
  BY <1>1, InvFacts, AllocOK
<1>4. CASE t.err # "OK"
  <2>1. Becomes(t) /\ UNCHANGED <<ftab, call>>
    BY <1>2, <1>4
  <2>2. OpenFds' = OpenFds
    BY <2>1 DEF OpenFds
  <2> QED
    BY <1>1, <1>3, <2>1, <2>2, InvFacts, PageStep DEF IInv, TypeOK, Idle
<1>5. CASE t.err = "OK"
  <2> DEFINE s == PFbufUsed(t.pool, t.disk, fd, pg)
  <2>1. /\ disk' = s.disk /\ pool' = MarkUsed(s.pool, t.bp)
        /\ ftab' = [ftab EXCEPT ![fd].hdr.numpages = pg + 1,
                                ![fd].hdrchanged = TRUE]
        /\ call' \in {Idle, Exited}
    BY <1>2, <1>5
  <2>2. PoolOK(t.pool) /\ t.disk \in Disk /\ t.bp \in ToSet(t.pool.used)
    BY <1>3, <1>5 DEF Kept, Fixes
  <2>3. Kept(t.pool, s, fd) /\ ToSet(s.pool.used) = ToSet(t.pool.used)
    BY <1>1, <2>2, UsedOK
  <2> HIDE DEF s
  <2> DEFINE f == s.pool.frame[t.bp]
             b == [f EXCEPT !.fpage.nextfree = PAGE_USED]
             q == WithFrame(s.pool, t.bp, b)
             r == [pool |-> q, disk |-> s.disk]
  <2>4. PoolOK(s.pool) /\ t.bp \in ToSet(s.pool.used) /\ f \in BufferPage
    BY <2>2, <2>3, PoolFields DEF Kept, PoolOK
  <2>5. f.fpage \in FilePage
    BY <2>4 DEF BufferPage
  <2>6. b \in BufferPage /\ b.fd = f.fd /\ b.page = f.page
    BY <2>4, <2>5 DEF BufferPage, FilePage, Links
  <2>7. pool' = q /\ disk' = s.disk
    BY <2>1 DEF MarkUsed, WithFrame
  <2> HIDE DEF b
  <2>8. FrameSet(s.pool, q, t.bp, b)
    BY <2>4, <2>6, SetFrame
  <2> HIDE DEF q
  <2>9. Kept(pool, r, fd) /\ Becomes(r)
    <3>1. Kept(pool, s, fd)
      BY <1>3, <2>3, KeptTrans
    <3> QED
      BY <3>1, <2>7, <2>8 DEF Kept, FrameSet, Becomes
  <2>10. ftab' \in [Fds -> OpenFileEntry] /\ OpenFds' = OpenFds
    BY <1>1, <2>1, SetNumPages
  <2>11. call' \in Calls /\ call'.op # "close" /\ call'.op # "next"
    BY <2>1, InvFacts DEF Idle, Exited
  <2> QED
    BY <1>1, <2>9, <2>10, <2>11, PageStep DEF IInv, TypeOK
<1> QED
  BY <1>4, <1>5

(* PF_AllocPage, by its two cases.                                         *)
LEMMA AllocPageInv ==
  ASSUME IInv, NEW fd \in Fds, PF_AllocPage(fd)
  PROVE  IInv'
BY AllocFreeInv, AllocExtendInv DEF PF_AllocPage, PFinvalidFd

(* PF_DisposePage, with the two ways it ends.                              *)
LEMMA DisposePageInv ==
  ASSUME IInv, NEW fd \in Fds, NEW pg \in Pages, PF_DisposePage(fd, pg)
  PROVE  IInv'
<1>1. /\ call = Idle /\ fd \in OpenFds /\ UNCHANGED <<header, touched>>
  BY DEF PF_DisposePage, PFinvalidFd
<1>2. PICK t \in PFbufGet(pool, disk, UnixFd, fd, pg) :
        IF t.err # "OK" THEN Becomes(t) /\ UNCHANGED <<ftab, call>>
        ELSE IF ~PageUsed(t) THEN UnfixOrExit(t, fd, pg) /\ UNCHANGED ftab
        ELSE LET freed == [t.pool EXCEPT
                             !.frame[t.bp].fpage.nextfree = FirstFree(fd)]
             IN /\ Becomes(PFbufUnfix(freed, t.disk, fd, pg, TRUE))
                /\ ftab' = [ftab EXCEPT ![fd].hdr.firstfree = pg,
                                        ![fd].hdrchanged = TRUE]
                /\ UNCHANGED call
  BY DEF PF_DisposePage
<1>3. Kept(pool, t, fd) /\ (t.err = "OK" => Fixes(t, fd, pg))
  BY <1>1, InvFacts, GetOK
<1>4. CASE t.err # "OK"
  <2>1. Becomes(t) /\ UNCHANGED <<ftab, call>>
    BY <1>2, <1>4
  <2>2. OpenFds' = OpenFds
    BY <2>1 DEF OpenFds
  <2> QED
    BY <1>1, <1>3, <2>1, <2>2, InvFacts, PageStep DEF IInv, TypeOK, Idle
<1>5. CASE t.err = "OK" /\ ~PageUsed(t)
  BY <1>1, <1>2, <1>3, <1>5, UnfixOrExitStep
<1>6. CASE t.err = "OK" /\ PageUsed(t)
  <2> DEFINE f == t.pool.frame[t.bp]
             b == [f EXCEPT !.fpage.nextfree = FirstFree(fd)]
             q == WithFrame(t.pool, t.bp, b)
             s == PFbufUnfix(q, t.disk, fd, pg, TRUE)
  <2>1. /\ PoolOK(t.pool) /\ t.disk \in Disk /\ t.bp \in ToSet(t.pool.used)
        /\ f \in BufferPage
    BY <1>3, <1>6, PoolFields DEF Kept, Fixes, PoolOK
  <2>2. f.fpage \in FilePage /\ FirstFree(fd) \in Links
    BY <2>1, InvFacts DEF BufferPage
  <2>3. b \in BufferPage /\ b.fd = f.fd /\ b.page = f.page
    BY <2>1, <2>2 DEF BufferPage, FilePage
  <2>4. /\ Becomes(s) /\ call' = Idle
        /\ ftab' = [ftab EXCEPT ![fd].hdr.firstfree = pg, ![fd].hdrchanged = TRUE]
    BY <1>1, <1>2, <1>6 DEF WithFrame
  <2> HIDE DEF b
  <2>5. FrameSet(t.pool, q, t.bp, b)
    BY <2>1, <2>3, SetFrame
  <2> HIDE DEF q
  <2>6. PoolOK(q) /\ FdsIn(q, ToSet(q.used)) = FdsIn(t.pool, ToSet(t.pool.used))
    BY <2>5 DEF FrameSet
  <2>7. Kept(q, s, fd)
    BY <2>1, <2>6, UnfixOK
  <2> HIDE DEF s
  <2>8. Kept(pool, s, fd)
    BY <1>3, <2>6, <2>7 DEF Kept
  <2>9. pg \in Links
    BY DEF Links
  <2>10. ftab' \in [Fds -> OpenFileEntry] /\ OpenFds' = OpenFds
    BY <2>4, <2>9, SetFirstFree
  <2> QED
    BY <1>1, <2>4, <2>8, <2>10, InvFacts, PageStep DEF IInv, TypeOK, Idle
<1> QED
  BY <1>4, <1>5, <1>6

(* PF_UnfixPage.                                                           *)
LEMMA UnfixPageInv ==
  ASSUME IInv, NEW fd \in Fds, NEW pg \in Pages, NEW dirty \in BOOLEAN,
         PF_UnfixPage(fd, pg, dirty)
  PROVE  IInv'
<1> DEFINE t == PFbufUnfix(pool, disk, fd, pg, dirty)
<1>1. /\ call = Idle /\ fd \in OpenFds /\ UNCHANGED <<header, ftab, call>>
      /\ Becomes(t) /\ touched' \subseteq PageIds
  BY DEF PF_UnfixPage, PFinvalidFd, Forget, IInv, TypeOK
<1>2. OpenFds' = OpenFds
  BY <1>1 DEF OpenFds
<1>3. Kept(pool, t, fd)
  BY InvFacts, UnfixOK
<1> HIDE DEF t
<1> QED
  BY <1>1, <1>2, <1>3, InvFacts, PageStep DEF IInv, TypeOK, Idle

(* The client writes into the frame, and only into its data.               *)
LEMMA ModifyInv ==
  ASSUME IInv, NEW fd \in Fds, NEW pg \in Pages, NEW v \in Vals, Modify(fd, pg, v)
  PROVE  IInv'
<1> DEFINE bp == PFhashFind(pool, fd, pg)
           b == [pool.frame[bp] EXCEPT !.fpage.pagebuf = v]
           q == WithFrame(pool, bp, b)
           s == [pool |-> q, disk |-> disk]
<1>1. /\ call = Idle /\ fd \in OpenFds /\ UNCHANGED <<disk, header, ftab, call>>
      /\ touched' = touched \cup {<<fd, pg>>} /\ bp # NULL /\ pool' = q
  BY DEF Modify, PFinvalidFd, IsFixed, WithFrame
<1>2. bp \in ToSet(pool.used)
  BY <1>1 DEF IInv, PoolConsistent, TableFinds, PFhashFind, PageIds
<1>3. pool.frame[bp] \in BufferPage
  BY <1>2, InvFacts
<1>4. pool.frame[bp].fpage \in FilePage
  BY <1>3 DEF BufferPage
<1>5. b \in BufferPage /\ b.fd = pool.frame[bp].fd /\ b.page = pool.frame[bp].page
  BY <1>3, <1>4 DEF BufferPage, FilePage, Data
<1> HIDE DEF bp, b
<1>6. FrameSet(pool, q, bp, b)
  BY <1>2, <1>5, InvFacts, SetFrame
<1> HIDE DEF q
<1>7. Kept(pool, s, fd) /\ Becomes(s)
  BY <1>1, <1>6, InvFacts DEF Kept, FrameSet, Becomes
<1>8. OpenFds' = OpenFds
  BY <1>1 DEF OpenFds
<1>9. touched' \subseteq PageIds
  BY <1>1 DEF IInv, TypeOK, PageIds
<1> QED
  BY <1>1, <1>7, <1>8, <1>9, InvFacts, PageStep DEF IInv, TypeOK, Idle

-----------------------------------------------------------------------------
(***************************************************************************)
(* The theorems.                                                           *)
(***************************************************************************)
LEMMA NextInv == IInv /\ [Next]_vars => IInv'
<1> SUFFICES ASSUME IInv, [Next]_vars PROVE IInv'
  OBVIOUS
<1>1. CASE \E arg \in InitArgs : PF_Init(arg[1], arg[2])
  BY <1>1, PF_InitInv
<1>2. CASE \E f \in Files : PF_CreateFile(f) \/ PF_DestroyFile(f)
  BY <1>2, CreateDestroyInv
<1>3. CASE \E f \in Files, mode \in Modes : PF_OpenFile(f, mode)
  BY <1>3, OpenInv
<1>4. CASE \E fd \in Fds : PF_CloseFile(fd) \/ PF_AllocPage(fd)
  BY <1>4, CloseFileInv, AllocPageInv
<1>5. CASE \E fd \in Fds, from \in {-1} \cup Pages : PF_GetNextPage(fd, from)
  BY <1>5, GetNextPageInv
<1>6. CASE \E fd \in Fds, pg \in Pages : PF_GetThisPage(fd, pg) \/ PF_DisposePage(fd, pg)
  BY <1>6, GetThisPageInv, DisposePageInv
<1>7. CASE \E fd \in Fds, pg \in Pages, dirty \in BOOLEAN : PF_UnfixPage(fd, pg, dirty)
  BY <1>7, UnfixPageInv
<1>8. CASE \E fd \in Fds, pg \in Pages, v \in Vals : Modify(fd, pg, v)
  BY <1>8, ModifyInv
<1>9. CASE CallStep
  BY <1>9, CloseReleaseInv, CloseHeaderInv, CloseHeaderFailsInv, NextPageScanInv,
     NextPageEOFInv DEF CallStep
<1>10. CASE UNCHANGED vars
  <2>1. UNCHANGED <<pool, disk, header, ftab, call, touched>>
    BY <1>10 DEF vars
  <2> QED
    BY <2>1, FileStep DEF IInv, TypeOK
<1> QED
  BY <1>1, <1>2, <1>3, <1>4, <1>5, <1>6, <1>7, <1>8, <1>9, <1>10 DEF Next

(* IInv holds in every reachable state of the layer.                       *)
THEOREM InvIsInvariant == Spec => []IInv
<1>1. Init => IInv
  BY InitInv
<1>2. IInv /\ [Next]_vars => IInv'
  BY NextInv
<1> QED
  BY <1>1, <1>2, PTL DEF Spec

(* Every variable keeps its type: no link, page number or frame number     *)
(* that the code stores is ever out of its range.                          *)
THEOREM TypeCorrect == Spec => []TypeOK
<1>1. IInv => TypeOK
  BY DEF IInv
<1> QED
  BY <1>1, InvIsInvariant, PTL

(* pfbuf.c and pfhash.c: whatever fails, the two lists and the page table  *)
(* agree on which frame holds which page.                                  *)
THEOREM PoolStaysConsistent == Spec => []PoolConsistent
<1>1. IInv => PoolConsistent
  BY DEF IInv
<1> QED
  BY <1>1, InvIsInvariant, PTL

(* PFbufReleaseFile: a file that is closed leaves no frame behind.         *)
THEOREM NoFrameOfClosedFile == Spec => []FramesOfOpenFiles
<1>1. IInv => FramesOfOpenFiles
  BY DEF IInv
<1> QED
  BY <1>1, InvIsInvariant, PTL

-----------------------------------------------------------------------------
(***************************************************************************)
(* The list of free pages of a file.                                       *)
(*                                                                         *)
(* FreeChain says it without recursion, by the order of the pages in it;   *)
(* the lemmas show what PF_AllocPage and PF_DisposePage do to that order,  *)
(* and that it implies FreeListExact, which follows the links.             *)
(***************************************************************************)

(* A page keeps its link, unless its allocation may get lost.              *)
KeepsLink(old, kept) ==
  \/ kept.nextfree = old.nextfree
  \/ ~AllocTouches /\ old.nextfree = PAGE_USED

-----------------------------------------------------------------------------
(* The sizes of the two intervals.                                         *)
LEMMA IntervalSize ==
  ASSUME NEW n \in Nat
  PROVE  /\ IsFiniteSet(1 .. n) /\ Cardinality(1 .. n) = n
         /\ IsFiniteSet(0 .. n - 1) /\ Cardinality(0 .. n - 1) = n
<1>1. 0 \in Int /\ 1 \in Int /\ n \in Int /\ n - 1 \in Int
  OBVIOUS
<1>2. IsFiniteSet(1 .. n) /\ Cardinality(1 .. n) = IF 1 > n THEN 0 ELSE n - 1 + 1
  BY <1>1, FS_Interval, Zenon
<1>3. /\ IsFiniteSet(0 .. n - 1)
      /\ Cardinality(0 .. n - 1) = IF 0 > n - 1 THEN 0 ELSE (n - 1) - 0 + 1
  BY <1>1, FS_Interval, Zenon
<1> QED
  BY <1>2, <1>3

(* An empty file has an empty list.                                        *)
LEMMA ChainEmpty ==
  ASSUME NEW page
  PROVE  FreeChain(EmptyHeader, page)
<1> DEFINE none == [i \in 1 .. 0 |-> 0]
<1>1. EmptyHeader.numpages = 0 /\ 0 \in 0 .. 0 /\ none \in [1 .. 0 -> 0 .. 0 - 1]
  BY DEF EmptyHeader
<1>2. FreeOrder(EmptyHeader, page, 0, none)
  BY DEF FreeOrder, EmptyHeader, IsInjective
<1> HIDE DEF none
<1>3. \E order \in [1 .. 0 -> 0 .. 0 - 1] : FreeOrder(EmptyHeader, page, 0, order)
  BY <1>1, <1>2
<1> QED
  BY <1>1, <1>3 DEF FreeChain

(* A page in the list is free, and its link leads on.                      *)
LEMMA OrderFree ==
  ASSUME NEW hdr \in Header, NEW page, NEW n \in 0 .. hdr.numpages,
         NEW order \in [1 .. n -> 0 .. hdr.numpages - 1],
         FreeOrder(hdr, page, n, order), NEW i \in 1 .. n
  PROVE  page[order[i]].nextfree # PAGE_USED
<1>1. hdr.numpages \in Nat /\ n \in Nat
  BY SizesAssumption DEF Header
<1>2. page[order[i]].nextfree = IF i = n THEN PAGE_LIST_END ELSE order[i + 1]
  BY DEF FreeOrder
<1>3. CASE i = n
  BY <1>2, <1>3 DEF PAGE_USED, PAGE_LIST_END
<1>4. CASE i # n
  <2>1. i + 1 \in 1 .. n
    BY <1>1, <1>4
  <2>2. order[i + 1] \in 0 .. hdr.numpages - 1
    BY <2>1
  <2> QED
    BY <1>1, <1>2, <1>4, <2>2 DEF PAGE_USED
<1> QED
  BY <1>3, <1>4

(* Pages that keep their links keep the list.                              *)
LEMMA ChainKept ==
  ASSUME NEW hdr \in Header, NEW old, NEW page, FreeChain(hdr, old),
         \A pg \in 0 .. hdr.numpages - 1 : KeepsLink(old[pg], page[pg])
  PROVE  FreeChain(hdr, page)
<1>0. PICK n \in 0 .. hdr.numpages :
        \E order \in [1 .. n -> 0 .. hdr.numpages - 1] : FreeOrder(hdr, old, n, order)
  BY DEF FreeChain
<1>1. PICK order \in [1 .. n -> 0 .. hdr.numpages - 1] : FreeOrder(hdr, old, n, order)
  BY <1>0
<1>2. \A i \in 1 .. n : page[order[i]].nextfree = old[order[i]].nextfree
  BY <1>1, OrderFree DEF KeepsLink
<1>3. AllocTouches => \A pg \in 0 .. hdr.numpages - 1 : page[pg].nextfree = old[pg].nextfree
  BY DEF KeepsLink
<1>4. FreeOrder(hdr, page, n, order)
  BY <1>1, <1>2, <1>3 DEF FreeOrder
<1> QED
  BY <1>4 DEF FreeChain

(* The first page is taken off the list.                                   *)
LEMMA ChainTaken ==
  ASSUME NEW hdr \in Header, NEW old, NEW page, FreeChain(hdr, old),
         hdr.firstfree # PAGE_LIST_END,
         NEW next, next = [hdr EXCEPT !.firstfree = old[hdr.firstfree].nextfree],
         page[hdr.firstfree].nextfree = PAGE_USED,
         \A pg \in 0 .. hdr.numpages - 1 :
           pg # hdr.firstfree => KeepsLink(old[pg], page[pg])
  PROVE  /\ hdr.firstfree \in 0 .. hdr.numpages - 1
         /\ old[hdr.firstfree].nextfree # PAGE_USED
         /\ FreeChain(next, page)
<1>0. PICK n \in 0 .. hdr.numpages :
        \E order \in [1 .. n -> 0 .. hdr.numpages - 1] : FreeOrder(hdr, old, n, order)
  BY DEF FreeChain
<1>1. PICK order \in [1 .. n -> 0 .. hdr.numpages - 1] : FreeOrder(hdr, old, n, order)
  BY <1>0
<1>2. hdr.numpages \in Nat /\ n \in Nat
  BY SizesAssumption DEF Header
<1>3. n # 0 /\ hdr.firstfree = order[1] /\ 1 \in 1 .. n
  BY <1>1, <1>2 DEF FreeOrder
<1>4. order[1] \in 0 .. hdr.numpages - 1 /\ old[order[1]].nextfree # PAGE_USED
  BY <1>1, <1>3, OrderFree
<1> DEFINE rest == [i \in 1 .. n - 1 |-> order[i + 1]]
<1>5. /\ next.numpages = hdr.numpages /\ next.firstfree = old[order[1]].nextfree
      /\ n - 1 \in 0 .. hdr.numpages
      /\ rest \in [1 .. n - 1 -> 0 .. hdr.numpages - 1]
  BY <1>2, <1>3 DEF Header
<1>6. \A i \in 1 .. n - 1 : rest[i] = order[i + 1] /\ i + 1 \in 1 .. n /\ i + 1 # 1
  BY <1>2
<1>7. IsInjective(rest)
  <2>1. DOMAIN rest = 1 .. n - 1
    OBVIOUS
  <2> HIDE DEF rest
  <2>2. \A i, j \in 1 .. n - 1 : order[i + 1] = order[j + 1] => i + 1 = j + 1
    BY <1>1, <1>6 DEF FreeOrder, IsInjective
  <2>3. \A i, j \in 1 .. n - 1 : rest[i] = rest[j] => i = j
    BY <1>2, <1>6, <2>2
  <2> QED
    BY <2>1, <2>3 DEF IsInjective
<1> HIDE DEF rest
<1>8. \A i \in 1 .. n - 1 : rest[i] # order[1] /\ rest[i] \in 0 .. hdr.numpages - 1
  BY <1>1, <1>3, <1>5, <1>6 DEF FreeOrder, IsInjective
<1>9. next.firstfree = IF n - 1 = 0 THEN PAGE_LIST_END ELSE rest[1]
  <2>1. old[order[1]].nextfree = IF 1 = n THEN PAGE_LIST_END ELSE order[2]
    BY <1>1, <1>3 DEF FreeOrder
  <2>2. n # 1 => rest[1] = order[2]
    BY <1>2, <1>3, <1>6
  <2> QED
    BY <1>2, <1>3, <1>5, <2>1, <2>2
<1>10. ASSUME NEW i \in 1 .. n - 1
       PROVE  page[rest[i]].nextfree = IF i = n - 1 THEN PAGE_LIST_END ELSE rest[i + 1]
  <2>1. old[rest[i]].nextfree # PAGE_USED
    BY <1>1, <1>6, OrderFree
  <2>2. page[rest[i]].nextfree = old[order[i + 1]].nextfree
    BY <2>1, <1>3, <1>6, <1>8 DEF KeepsLink
  <2>3. old[order[i + 1]].nextfree = IF i + 1 = n THEN PAGE_LIST_END ELSE order[(i + 1) + 1]
    BY <1>1, <1>6 DEF FreeOrder
  <2>4. i # n - 1 => rest[i + 1] = order[(i + 1) + 1]
    BY <1>2, <1>6
  <2> QED
    BY <1>2, <2>2, <2>3, <2>4
<1>11. ASSUME AllocTouches, NEW pg \in 0 .. hdr.numpages - 1, page[pg].nextfree # PAGE_USED
       PROVE  \E i \in 1 .. n - 1 : rest[i] = pg
  <2>1. pg # order[1] /\ old[pg].nextfree # PAGE_USED
    BY <1>3, <1>11 DEF KeepsLink
  <2>2. PICK i \in 1 .. n : order[i] = pg
    BY <1>1, <1>11, <2>1 DEF FreeOrder
  <2>3. i - 1 \in 1 .. n - 1 /\ (i - 1) + 1 = i
    BY <1>2, <2>1, <2>2
  <2> QED
    BY <1>6, <2>2, <2>3
<1>12. FreeOrder(next, page, n - 1, rest)
  BY <1>5, <1>7, <1>9, <1>10, <1>11 DEF FreeOrder
<1> QED
  BY <1>3, <1>4, <1>5, <1>12 DEF FreeChain

(* A used page is put in front of the list.                                *)
LEMMA ChainPut ==
  ASSUME NEW hdr \in Header, NEW old, NEW page, FreeChain(hdr, old),
         NEW pg \in 0 .. hdr.numpages - 1, old[pg].nextfree = PAGE_USED,
         NEW next, next = [hdr EXCEPT !.firstfree = pg],
         page[pg].nextfree = hdr.firstfree,
         \A other \in 0 .. hdr.numpages - 1 :
           other # pg => KeepsLink(old[other], page[other])
  PROVE  FreeChain(next, page)
<1>0. PICK n \in 0 .. hdr.numpages :
        \E order \in [1 .. n -> 0 .. hdr.numpages - 1] : FreeOrder(hdr, old, n, order)
  BY DEF FreeChain
<1>1. PICK order \in [1 .. n -> 0 .. hdr.numpages - 1] : FreeOrder(hdr, old, n, order)
  BY <1>0
<1>2. hdr.numpages \in Nat /\ n \in Nat
  BY SizesAssumption DEF Header
<1>3. \A i \in 1 .. n : old[order[i]].nextfree # PAGE_USED /\ order[i] # pg
  BY <1>1, OrderFree
<1>4. n + 1 \in 0 .. hdr.numpages
  <2> DEFINE S == (0 .. hdr.numpages - 1) \ {pg}
             T == 1 .. n
  <2>1. order \in Injection(T, S)
    <3>1. order \in [T -> S]
      BY <1>3
    <3>2. IsInjective(order)
      BY <1>1 DEF FreeOrder
    <3> QED
      BY <3>1, <3>2 DEF Injection
  <2>2. IsFiniteSet(0 .. hdr.numpages - 1) /\ Cardinality(0 .. hdr.numpages - 1) = hdr.numpages
    BY <1>2, IntervalSize
  <2>3. IsFiniteSet(S) /\ Cardinality(S) = hdr.numpages - 1
    BY <2>2, FS_RemoveElement
  <2>4. IsFiniteSet(T) /\ Cardinality(T) = n
    BY <1>2, IntervalSize
  <2> HIDE DEF S, T
  <2>5. Cardinality(T) <= Cardinality(S)
    BY <2>1, <2>3, FS_Injection
  <2> QED
    BY <1>2, <2>3, <2>4, <2>5
<1> DEFINE put == [i \in 1 .. n + 1 |-> IF i = 1 THEN pg ELSE order[i - 1]]
<1>5. \A i \in 1 .. n + 1 : i # 1 => i - 1 \in 1 .. n
  BY <1>2
<1>6. /\ put \in [1 .. n + 1 -> 0 .. hdr.numpages - 1] /\ put[1] = pg
      /\ \A i \in 1 .. n + 1 : i # 1 => put[i] = order[i - 1]
  BY <1>2, <1>5
<1> HIDE DEF put
<1>7. IsInjective(put)
  <2>1. \A i, j \in 1 .. n : order[i] = order[j] => i = j
    BY <1>1 DEF FreeOrder, IsInjective
  <2>2. \A i, j \in 1 .. n + 1 : put[i] = put[j] => i = j
    BY <1>2, <1>3, <1>5, <1>6, <2>1
  <2> QED
    BY <1>6, <2>2 DEF IsInjective
<1>8. next.numpages = hdr.numpages /\ next.firstfree = pg
  BY DEF Header
<1>9. ASSUME NEW i \in 1 .. n + 1
      PROVE  page[put[i]].nextfree = IF i = n + 1 THEN PAGE_LIST_END ELSE put[i + 1]
  <2>1. CASE i = 1
    <3>1. hdr.firstfree = IF n = 0 THEN PAGE_LIST_END ELSE order[1]
      BY <1>1 DEF FreeOrder
    <3>2. n # 0 => put[i + 1] = order[1]
      BY <1>2, <1>6, <2>1
    <3> QED
      BY <1>2, <1>6, <2>1, <3>1, <3>2
  <2>2. CASE i # 1
    <3>1. i - 1 \in 1 .. n /\ put[i] = order[i - 1]
      BY <1>5, <1>6, <2>2
    <3>2. page[put[i]].nextfree = old[order[i - 1]].nextfree
      BY <1>3, <3>1 DEF KeepsLink
    <3>3. old[order[i - 1]].nextfree =
            IF i - 1 = n THEN PAGE_LIST_END ELSE order[(i - 1) + 1]
      BY <1>1, <3>1 DEF FreeOrder
    <3>4. i # n + 1 => put[i + 1] = order[i]
      <4>1. i # n + 1 => i + 1 \in 1 .. n + 1 /\ i + 1 # 1 /\ (i + 1) - 1 = i
        BY <1>2
      <4> QED
        BY <1>6, <4>1
    <3>5. (i - 1) + 1 = i /\ (i - 1 = n <=> i = n + 1)
      BY <1>2
    <3> QED
      BY <3>2, <3>3, <3>4, <3>5
  <2> QED
    BY <2>1, <2>2
<1>10. ASSUME AllocTouches, NEW other \in 0 .. hdr.numpages - 1,
              page[other].nextfree # PAGE_USED
       PROVE  \E i \in 1 .. n + 1 : put[i] = other
  <2>1. CASE other = pg
    BY <1>2, <1>6, <2>1
  <2>2. CASE other # pg
    <3>1. PICK i \in 1 .. n : order[i] = other
      BY <1>1, <1>10, <2>2 DEF FreeOrder, KeepsLink
    <3>2. i + 1 \in 1 .. n + 1 /\ i + 1 # 1 /\ (i + 1) - 1 = i
      BY <1>2
    <3> QED
      BY <1>6, <3>1, <3>2
  <2> QED
    BY <2>1, <2>2
<1>11. FreeOrder(next, page, n + 1, put)
  <2>1. n + 1 # 0
    BY <1>2
  <2> QED
    BY <1>6, <1>7, <1>8, <1>9, <1>10, <2>1 DEF FreeOrder
<1> QED
  BY <1>4, <1>6, <1>8, <1>11 DEF FreeChain

(* A used page is added at the end of a file that has no free page.        *)
LEMMA ChainExtended ==
  ASSUME NEW hdr \in Header, NEW old, NEW page, FreeChain(hdr, old),
         hdr.firstfree = PAGE_LIST_END,
         NEW next, next = [hdr EXCEPT !.numpages = hdr.numpages + 1],
         page[hdr.numpages].nextfree = PAGE_USED,
         \A pg \in 0 .. hdr.numpages - 1 : KeepsLink(old[pg], page[pg])
  PROVE  FreeChain(next, page)
<1>0. PICK n \in 0 .. hdr.numpages :
        \E order \in [1 .. n -> 0 .. hdr.numpages - 1] : FreeOrder(hdr, old, n, order)
  BY DEF FreeChain
<1>1. PICK order \in [1 .. n -> 0 .. hdr.numpages - 1] : FreeOrder(hdr, old, n, order)
  BY <1>0
<1>2. hdr.numpages \in Nat /\ n \in Nat
  BY SizesAssumption DEF Header
<1>3. n = 0
  <2>1. SUFFICES ASSUME n # 0 PROVE FALSE
    OBVIOUS
  <2>2. order[1] = -1 /\ 1 \in 1 .. n
    BY <1>1, <1>2, <2>1 DEF FreeOrder, PAGE_LIST_END
  <2> QED
    BY <1>2, <2>2
<1>4. /\ next.numpages = hdr.numpages + 1 /\ next.firstfree = PAGE_LIST_END
      /\ 0 \in 0 .. next.numpages
  BY <1>2 DEF Header
<1>5. ASSUME AllocTouches, NEW pg \in 0 .. next.numpages - 1
      PROVE  page[pg].nextfree = PAGE_USED
  <2>1. CASE pg = hdr.numpages
    BY <2>1
  <2>2. CASE pg # hdr.numpages
    <3>1. pg \in 0 .. hdr.numpages - 1
      BY <1>2, <1>4, <2>2
    <3>2. old[pg].nextfree = PAGE_USED
      BY <1>1, <1>3, <1>5, <3>1 DEF FreeOrder
    <3> QED
      BY <1>5, <3>1, <3>2 DEF KeepsLink
  <2> QED
    BY <2>1, <2>2
<1> DEFINE none == [i \in 1 .. 0 |-> 0]
<1>6. none \in [1 .. 0 -> 0 .. next.numpages - 1]
  OBVIOUS
<1>7. FreeOrder(next, page, 0, none)
  BY <1>4, <1>5 DEF FreeOrder, IsInjective
<1> QED
  BY <1>4, <1>6, <1>7 DEF FreeChain

-----------------------------------------------------------------------------
(***************************************************************************)
(* FreeListExact.  It defines the walk along the links by recursion, so    *)
(* its value after i links is found by induction: by the least number of   *)
(* links after which it would be another.                                  *)
(***************************************************************************)
LEMMA LeastNumber ==
  ASSUME NEW T \in SUBSET Nat, T # {}
  PROVE  \E x \in T : \A y \in T : x <= y
<1>1. \E x \in T : \A y \in T : <<y, x>> \notin OpToRel(<, Nat)
  BY NatLessThanWellFounded, WFMin
<1>2. \A x, y \in Nat : <<y, x>> \notin OpToRel(<, Nat) => x <= y
  BY DEF OpToRel
<1> QED
  BY <1>1, <1>2

(* The free pages are those of the list, if no allocation gets lost.       *)
LEMMA ChainExact ==
  ASSUME NEW hdr \in Header, NEW page, FreeChain(hdr, page), AllocTouches
  PROVE  FreeListExact(hdr, page)
<1> DEFINE free == {pg \in 0 .. hdr.numpages - 1 : page[pg].nextfree # PAGE_USED}
<1>1. PICK m \in 0 .. hdr.numpages :
        \E order \in [1 .. m -> 0 .. hdr.numpages - 1] : FreeOrder(hdr, page, m, order)
  BY DEF FreeChain
<1>2. PICK order \in [1 .. m -> 0 .. hdr.numpages - 1] : FreeOrder(hdr, page, m, order)
  BY <1>1
<1>3. hdr.numpages \in Nat /\ m \in Nat
  BY SizesAssumption DEF Header
<1>4. /\ \A i \in 1 .. m : order[i] \in free
      /\ \A pg \in free : \E i \in 1 .. m : order[i] = pg
  <2>1. \A i \in 1 .. m : page[order[i]].nextfree # PAGE_USED
    BY <1>2, OrderFree
  <2>2. \A i \in 1 .. m : order[i] \in 0 .. hdr.numpages - 1
    OBVIOUS
  <2>3. \A pg \in 0 .. hdr.numpages - 1 :
          page[pg].nextfree # PAGE_USED => \E i \in 1 .. m : order[i] = pg
    BY <1>2 DEF FreeOrder
  <2> QED
    BY <2>1, <2>2, <2>3
<1>5. Cardinality(free) = m
  <2>1. order \in Bijection(1 .. m, free)
    <3>1. order \in [1 .. m -> free] /\ IsInjective(order)
      BY <1>2, <1>4 DEF FreeOrder
    <3> QED
      BY <3>1, <1>4 DEF Bijection, Injection, Surjection
  <2>2. IsFiniteSet(1 .. m) /\ Cardinality(1 .. m) = m
    BY <1>3, IntervalSize
  <2> HIDE DEF free
  <2>3. ExistsBijection(1 .. m, free)
    BY <2>1 DEF ExistsBijection
  <2> QED
    BY <2>2, <2>3, FS_Bijection
<1> HIDE DEF free
<1> DEFINE n == Cardinality(free)
<1>6. /\ n \in Nat /\ order \in [1 .. n -> 0 .. hdr.numpages - 1]
      /\ FreeOrder(hdr, page, n, order)
  BY <1>2, <1>3, <1>5
<1>7. /\ \A i \in 1 .. n : order[i] \in free
      /\ \A pg \in free : \E i \in 1 .. n : order[i] = pg
  BY <1>4, <1>5
<1> HIDE DEF n
<1> DEFINE IsWalk(w) == w = [i \in 0 .. n |-> IF i = 0 THEN hdr.firstfree
                              ELSE IF w[i - 1] \in free
                                   THEN page[w[i - 1]].nextfree
                                   ELSE w[i - 1]]
           links == [i \in 0 .. n |-> IF i = n THEN PAGE_LIST_END ELSE order[i + 1]]
           walk == CHOOSE w : IsWalk(w)
<1>8. \A i \in 1 .. n :
        /\ i - 1 \in 0 .. n /\ i \in 0 .. n /\ i - 1 # n /\ (i - 1) + 1 = i
        /\ links[i - 1] = order[i]
        /\ links[i] = page[order[i]].nextfree
  BY <1>6 DEF FreeOrder
<1>9. links[0] = hdr.firstfree /\ DOMAIN links = 0 .. n
  BY <1>6 DEF FreeOrder
<1>10. IsWalk(links)
  <2> HIDE DEF links
  <2>1. \A i \in 0 .. n : i # 0 => i \in 1 .. n
    BY <1>6
  <2>2. \A i \in 0 .. n : links[i] = IF i = 0 THEN hdr.firstfree
                              ELSE IF links[i - 1] \in free
                                   THEN page[links[i - 1]].nextfree
                                   ELSE links[i - 1]
    BY <1>7, <1>8, <1>9, <2>1
  <2>3. links = [i \in 0 .. n |-> links[i]]
    BY DEF links
  <2> QED
    BY <2>2, <2>3
<1> HIDE DEF links
<1>11. IsWalk(walk)
  <2> HIDE DEF IsWalk
  <2> QED
    BY <1>10
<1>12. \A i \in 0 .. n : walk[i] = links[i]
  <2> HIDE DEF walk
  <2> DEFINE T == {i \in 0 .. n : walk[i] # links[i]}
  <2>1. SUFFICES ASSUME T # {} PROVE FALSE
    OBVIOUS
  <2>2. T \in SUBSET Nat
    BY <1>6
  <2>3. PICK i \in T : \A j \in T : i <= j
    <3> HIDE DEF T
    <3> QED
      BY <2>1, <2>2, LeastNumber
  <2>4. walk[0] = links[0]
    BY <1>6, <1>9, <1>11
  <2>5. i \in 1 .. n
    BY <1>6, <2>3, <2>4
  <2>6. i - 1 \in 0 .. n /\ walk[i - 1] = links[i - 1]
    BY <1>6, <2>3, <2>5
  <2>7. walk[i] = IF walk[i - 1] \in free THEN page[walk[i - 1]].nextfree ELSE walk[i - 1]
    BY <1>6, <1>11, <2>5, SMTT(30)
  <2>8. links[i - 1] = order[i] /\ links[i] = page[order[i]].nextfree /\ order[i] \in free
    BY <1>7, <1>8, <2>5
  <2> QED
    BY <2>3, <2>6, <2>7, <2>8
<1>13. walk[n] = PAGE_LIST_END
  BY <1>6, <1>12 DEF links
<1>14. free = {walk[i] : i \in 0 .. n - 1}
  <2>1. \A i \in 0 .. n - 1 : i + 1 \in 1 .. n /\ walk[i] = order[i + 1]
    BY <1>6, <1>12 DEF links
  <2> HIDE DEF walk
  <2>2. \A i \in 1 .. n : i - 1 \in 0 .. n - 1 /\ walk[i - 1] = order[i]
    <3>1. \A i \in 1 .. n : i - 1 \in 0 .. n - 1
      BY <1>6
    <3> QED
      BY <3>1, <1>8, <1>12
  <2> QED
    BY <1>7, <2>1, <2>2
<1> QED
  BY <1>13, <1>14, Zenon DEF FreeListExact, n, free, walk, IsWalk

-----------------------------------------------------------------------------
(***************************************************************************)
(* What a step does to the pages, and what follows for StoreInv.           *)
(***************************************************************************)

(* The page is put in a frame by PFbufGet, and fixed only if it is used.   *)
Fetched(p, d, q, e, u, id) ==
  /\ q.hash[id] # NULL
  /\ FrameOf(q, id).fixed => FrameOf(q, id).fpage.nextfree = PAGE_USED
  /\ IF p.hash[id] # NULL
     THEN /\ q.hash[id] = p.hash[id] /\ ~FrameOf(p, id).fixed
          /\ Stored(e, u, id) = Stored(d, u, id)
          /\ FrameOf(q, id).dirty = FrameOf(p, id).dirty
          /\ FrameOf(q, id).fpage = FrameOf(p, id).fpage
     ELSE /\ ~FrameOf(q, id).dirty
          /\ FrameOf(q, id).fpage = Stored(e, u, id)
          /\ \/ Stored(e, u, id) = Stored(d, u, id)
             \/ Stored(d, u, id) = Absent

Moved(p, d, q, e, u, id) == Carried(p, d, q, e, u, id) \/ Fetched(p, d, q, e, u, id)

(* Every page has, but for those of T.                                     *)
MovesBut(T, p, d, q, e, u) ==
  /\ \A id \in OpenIds(u) \ T : Moved(p, d, q, e, u, id)
  /\ WritesDirty(p, d, e, u)

(* A step that moves every page but those of T, for which it may change    *)
(* the header of an open file.                                             *)
MovesTo(T) ==
  /\ MovesBut(T, pool, disk, pool', disk', UnixFd)
  /\ header' = header
  /\ \A fd \in Fds :
       /\ ftab'[fd].fname = ftab[fd].fname /\ ftab'[fd].mode = ftab[fd].mode
       /\ \/ ftab'[fd] = ftab[fd]
          \/ fd \in OpenFds /\ Writable(fd) /\ ftab'[fd].hdrchanged
  /\ \A id \in PageIds \ T : id \in touched' <=> id \in touched
  /\ call'.op # "exit"

(* What StoreInv says of one page, by itself.                              *)
PageKept(fd, pg) ==
  /\ IsFixed(fd, pg) => PageOf(fd, pg).nextfree = PAGE_USED
  /\ PFhashFind(pool, fd, pg) # NULL =>
       (pool.frame[PFhashFind(pool, fd, pg)].dirty => Writable(fd))
  /\ <<fd, pg>> \in touched => Writable(fd) /\ IsFixed(fd, pg)

-----------------------------------------------------------------------------
(***************************************************************************)
(* The invariants, page by page.                                           *)
(***************************************************************************)

(* The frames are those that the page table finds.                         *)
LEMMA FramesById ==
  ASSUME IInv
  PROVE  /\ \A fd \in Fds, pg \in Pages : PFhashFind(pool, fd, pg) # NULL =>
              /\ PFhashFind(pool, fd, pg) \in ToSet(pool.used)
              /\ pool.frame[PFhashFind(pool, fd, pg)].fd = fd
              /\ pool.frame[PFhashFind(pool, fd, pg)] \in BufferPage
              /\ pool.frame[PFhashFind(pool, fd, pg)].fpage \in FilePage
              /\ fd \in OpenFds
         /\ \A bp \in ToSet(pool.used) : \E fd \in Fds, pg \in Pages :
              /\ PFhashFind(pool, fd, pg) = bp /\ bp # NULL
              /\ pool.frame[bp].fd = fd
<1>1. /\ TableFinds(pool, ToSet(pool.used)) /\ pool.frame \in [Frames -> BufferPage]
      /\ ToSet(pool.used) \subseteq Frames /\ NULL \notin Frames
  BY InvFacts, FreshPageType DEF PoolOK
<1>2. ASSUME NEW fd \in Fds, NEW pg \in Pages, PFhashFind(pool, fd, pg) # NULL
      PROVE  /\ PFhashFind(pool, fd, pg) \in ToSet(pool.used)
             /\ pool.frame[PFhashFind(pool, fd, pg)].fd = fd
             /\ pool.frame[PFhashFind(pool, fd, pg)] \in BufferPage
             /\ pool.frame[PFhashFind(pool, fd, pg)].fpage \in FilePage
             /\ fd \in OpenFds
  <2>1. <<fd, pg>> \in PageIds /\ <<fd, pg>>[1] = fd
    BY DEF PageIds
  <2>2. /\ PFhashFind(pool, fd, pg) \in ToSet(pool.used)
        /\ pool.frame[PFhashFind(pool, fd, pg)].fd = fd
    BY <1>1, <1>2, <2>1 DEF TableFinds, PFhashFind
  <2>3. pool.frame[PFhashFind(pool, fd, pg)] \in BufferPage
    BY <1>1, <2>2
  <2> QED
    BY <2>2, <2>3 DEF BufferPage, IInv, FramesOfOpenFiles
<1>3. ASSUME NEW bp \in ToSet(pool.used)
      PROVE  \E fd \in Fds, pg \in Pages :
               /\ PFhashFind(pool, fd, pg) = bp /\ bp # NULL
               /\ pool.frame[bp].fd = fd
  <2>1. pool.frame[bp].fd \in Fds /\ pool.frame[bp].page \in Pages /\ bp # NULL
    BY <1>1 DEF BufferPage
  <2>2. PFhashFind(pool, pool.frame[bp].fd, pool.frame[bp].page) = bp
    BY <1>1 DEF TableFinds
  <2> QED
    BY <2>1, <2>2
<1> QED
  BY <1>2, <1>3

(* Two of the parts of StoreInv, page by page.                             *)
LEMMA StoreByPage ==
  ASSUME IInv
  PROVE  /\ FixedPagesAreUsed /\ OnlyWritersChange =>
              \A fd \in Fds, pg \in Pages : PageKept(fd, pg)
         /\ /\ \A fd \in Fds, pg \in Pages : PageKept(fd, pg)
            /\ \A fd \in OpenFds : ftab[fd].hdrchanged => Writable(fd)
            => FixedPagesAreUsed /\ OnlyWritersChange
<1>1. touched \subseteq PageIds
  BY DEF IInv, TypeOK
<1>2. ASSUME FixedPagesAreUsed, OnlyWritersChange, NEW fd \in Fds, NEW pg \in Pages
      PROVE  PageKept(fd, pg)
  <2>1. IsFixed(fd, pg) => PageOf(fd, pg).nextfree = PAGE_USED
    BY <1>2, FramesById DEF FixedPagesAreUsed, IsFixed, PageOf
  <2>2. PFhashFind(pool, fd, pg) # NULL =>
          (pool.frame[PFhashFind(pool, fd, pg)].dirty => Writable(fd))
    BY <1>2, FramesById DEF OnlyWritersChange
  <2>3. <<fd, pg>> \in touched => Writable(fd) /\ IsFixed(fd, pg)
    <3>1. <<fd, pg>>[1] = fd /\ <<fd, pg>>[2] = pg
      OBVIOUS
    <3>2. \A id \in touched : Writable(id[1]) /\ IsFixed(id[1], id[2])
      BY <1>2 DEF OnlyWritersChange
    <3> QED
      BY <3>1, <3>2
  <2> QED
    BY <2>1, <2>2, <2>3 DEF PageKept
<1>3. ASSUME \A fd \in Fds, pg \in Pages : PageKept(fd, pg),
             \A fd \in OpenFds : ftab[fd].hdrchanged => Writable(fd)
      PROVE  FixedPagesAreUsed /\ OnlyWritersChange
  <2>1. ASSUME NEW bp \in ToSet(pool.used)
        PROVE  /\ pool.frame[bp].fixed => pool.frame[bp].fpage.nextfree = PAGE_USED
               /\ pool.frame[bp].dirty => Writable(pool.frame[bp].fd)
    <3>1. PICK fd \in Fds, pg \in Pages :
            PFhashFind(pool, fd, pg) = bp /\ bp # NULL /\ pool.frame[bp].fd = fd
      BY FramesById
    <3> QED
      BY <1>3, <3>1 DEF PageKept, IsFixed, PageOf
  <2>2. ASSUME NEW id \in touched
        PROVE  Writable(id[1]) /\ IsFixed(id[1], id[2])
    <3>1. id[1] \in Fds /\ id[2] \in Pages /\ id = <<id[1], id[2]>>
      BY <1>1 DEF PageIds
    <3> QED
      BY <1>3, <3>1 DEF PageKept
  <2> QED
    BY <1>3, <2>1, <2>2 DEF FixedPagesAreUsed, OnlyWritersChange
<1> QED
  BY <1>2, <1>3

(* Frames are of open files, and a file with a dirty frame is open once.   *)
LEMMA OwnedPool ==
  ASSUME IInv, StoreInv
  PROVE  /\ Owned(pool, UnixFd)
         /\ OpenIds(UnixFd) = {id \in PageIds : id[1] \in OpenFds}
         /\ \A fd \in Fds : UnixFd[fd] = ftab[fd].fname
<1>1. \A fd \in Fds : UnixFd[fd] = ftab[fd].fname
  BY DEF UnixFd
<1>2. \A fd \in Fds : UnixFd[fd] \in Files <=> fd \in OpenFds
  BY <1>1, InvFacts, AbsentAssumption DEF OpenFds, OpenFileEntry, NoFile
<1>3. ASSUME NEW id \in PageIds, pool.hash[id] # NULL
      PROVE  /\ UnixFd[id[1]] \in Files
             /\ FrameOf(pool, id).dirty =>
                  \A fd \in Fds : UnixFd[fd] = UnixFd[id[1]] => fd = id[1]
  <2>1. id[1] \in Fds /\ id[2] \in Pages /\ id = <<id[1], id[2]>>
    BY DEF PageIds
  <2>2. PFhashFind(pool, id[1], id[2]) = pool.hash[id]
    BY <2>1 DEF PFhashFind
  <2>3. id[1] \in OpenFds /\ (FrameOf(pool, id).dirty => Writable(id[1]))
    BY <1>3, <2>1, <2>2, FramesById, StoreByPage DEF PageKept, FrameOf, StoreInv
  <2>4. ASSUME NEW fd \in Fds, UnixFd[fd] = UnixFd[id[1]], Writable(id[1])
        PROVE  fd = id[1]
    <3>1. fd \in OpenFds
      BY <1>2, <2>1, <2>3, <2>4
    <3>2. ftab[id[1]].fname = ftab[fd].fname /\ id[1] \in OpenFds
      BY <1>1, <2>1, <2>3, <2>4
    <3>3. \A one, other \in OpenFds :
            ftab[one].fname = ftab[other].fname /\ one # other => ~Writable(one)
      BY DEF StoreInv, OneWriter
    <3> QED
      BY <2>4, <3>1, <3>2, <3>3
  <2> QED
    BY <1>2, <2>1, <2>3, <2>4
<1>4. OpenIds(UnixFd) = {id \in PageIds : id[1] \in OpenFds}
  BY <1>2 DEF OpenIds, PageIds
<1> QED
  BY <1>1, <1>3, <1>4 DEF Owned

-----------------------------------------------------------------------------
(***************************************************************************)
(* A page that has moved.                                                  *)
(***************************************************************************)

(* PFhashFind, PageOf and IsFixed, in terms of the lemmas on pools.        *)
LEMMA PageTerms ==
  ASSUME NEW fd \in Fds, NEW pg \in Pages
  PROVE  /\ PFhashFind(pool, fd, pg) = pool.hash[<<fd, pg>>]
         /\ IsFixed(fd, pg) <=> /\ pool.hash[<<fd, pg>>] # NULL
                                /\ FrameOf(pool, <<fd, pg>>).fixed
         /\ PageOf(fd, pg) = IF pool.hash[<<fd, pg>>] # NULL
                             THEN FrameOf(pool, <<fd, pg>>).fpage
                             ELSE Stored(disk, UnixFd, <<fd, pg>>)
         /\ Stored(disk, UnixFd, <<fd, pg>>) = disk[ftab[fd].fname][pg]
<1>1. <<fd, pg>>[1] = fd /\ <<fd, pg>>[2] = pg
  OBVIOUS
<1> QED
  BY <1>1 DEF PFhashFind, IsFixed, PageOf, FrameOf, Stored, UnixFd

(* A fixed page that has moved was left where it was, and a page of the    *)
(* file still reads the same.                                              *)
LEMMA MovedPage ==
  ASSUME IInv, StoreInv, IInv', NEW fd \in OpenFds, NEW pg \in Pages,
         Moved(pool, disk, pool', disk', UnixFd, <<fd, pg>>),
         ftab'[fd].fname = ftab[fd].fname, ftab'[fd].mode = ftab[fd].mode,
         <<fd, pg>> \in touched' <=> <<fd, pg>> \in touched
  PROVE  /\ IsFixed(fd, pg) => /\ IsFixed(fd, pg)'
                               /\ PFhashFind(pool, fd, pg)' = PFhashFind(pool, fd, pg)
                               /\ PageOf(fd, pg)' = PageOf(fd, pg)
         /\ PageKept(fd, pg)'
         /\ Settled(fd, pg) =>
              /\ Settled(fd, pg)'
              /\ \/ PageOf(fd, pg)' = PageOf(fd, pg)
                 \/ ~AllocTouches /\ PageOf(fd, pg).nextfree = PAGE_USED
<1> DEFINE id == <<fd, pg>>
           b == FrameOf(pool, id)
           c == FrameOf(pool', id)
           stored == Stored(disk, UnixFd, id)
           now == Stored(disk', UnixFd, id)
<1>1. /\ fd \in Fds /\ Stored(disk', UnixFd', id) = now
      /\ id[1] = fd /\ id[2] = pg /\ (Writable(fd)' <=> Writable(fd))
  BY DEF OpenFds, Stored, UnixFd, Writable
<1>2. /\ PFhashFind(pool, fd, pg) = pool.hash[id]
      /\ IsFixed(fd, pg) <=> pool.hash[id] # NULL /\ b.fixed
      /\ PageOf(fd, pg) = IF pool.hash[id] # NULL THEN b.fpage ELSE stored
      /\ stored = disk[ftab[fd].fname][pg]
      /\ pool.hash[id] # NULL => b = pool.frame[PFhashFind(pool, fd, pg)]
  BY <1>1, PageTerms DEF FrameOf
<1>3. /\ PFhashFind(pool', fd, pg) = pool'.hash[id]
      /\ IsFixed(fd, pg)' <=> pool'.hash[id] # NULL /\ c.fixed
      /\ PageOf(fd, pg)' = IF pool'.hash[id] # NULL THEN c.fpage ELSE now
      /\ now = disk'[ftab'[fd].fname][pg]
      /\ pool'.hash[id] # NULL => c = pool'.frame[PFhashFind(pool', fd, pg)]
  BY <1>1 DEF FrameOf, PFhashFind, IsFixed, PageOf, Stored, UnixFd
<1>4. PageKept(fd, pg)
  BY <1>1, StoreByPage DEF StoreInv
<1>5. /\ b.fixed /\ pool.hash[id] # NULL => b.fpage.nextfree = PAGE_USED
      /\ b.dirty /\ pool.hash[id] # NULL => Writable(fd)
      /\ id \in touched => Writable(fd) /\ pool.hash[id] # NULL /\ b.fixed
  BY <1>2, <1>4 DEF PageKept
<1>6. /\ pool.hash[id] # NULL => b.fpage # Absent
      /\ pool'.hash[id] # NULL => c.fpage # Absent
  <2>1. pool.hash[id] # NULL => b.fpage \in FilePage
    BY <1>1, <1>2, FramesById
  <2>2. pool'.hash[id] # NULL => c.fpage \in FilePage
    <3>1. pool'.hash[id] # NULL =>
            pool'.frame[PFhashFind(pool', fd, pg)].fpage \in FilePage
      <4>1. /\ TableFinds(pool', ToSet(pool'.used)) /\ pool'.frame \in [Frames -> BufferPage]
            /\ ToSet(pool'.used) \subseteq Frames
        BY PoolFields DEF IInv, TypeOK, PoolConsistent
      <4> QED
        BY <1>1, <1>3, <4>1 DEF TableFinds, BufferPage, PageIds
    <3> QED
      BY <3>1, <1>3
  <2> QED
    BY <2>1, <2>2, PageNotAbsent
<1> HIDE DEF b, c, stored, now
<1> USE DEF Moved, Carried, Evicted, Fetched, Overwritten, Same
<1>7. IsFixed(fd, pg) => /\ IsFixed(fd, pg)'
                         /\ pool'.hash[id] = pool.hash[id]
                         /\ PageOf(fd, pg)' = PageOf(fd, pg)
  BY <1>2, <1>3 DEF b, c
<1>8. PageKept(fd, pg)'
  <2>1. pool'.hash[id] # NULL => /\ c.fixed => c.fpage.nextfree = PAGE_USED
                                 /\ c.dirty => Writable(fd)
    BY <1>5 DEF b, c
  <2>2. id \in touched' => Writable(fd) /\ pool'.hash[id] # NULL /\ c.fixed
    <3>1. pool.hash[id] # NULL /\ b.fixed => pool'.hash[id] # NULL /\ c.fixed
      BY <1>2, <1>3, <1>7
    <3> QED
      BY <1>5, <3>1
  <2> QED
    BY <1>1, <1>3, <2>1, <2>2 DEF PageKept
<1>9. ASSUME Settled(fd, pg)
      PROVE  /\ Settled(fd, pg)'
             /\ \/ PageOf(fd, pg)' = PageOf(fd, pg)
                \/ ~AllocTouches /\ PageOf(fd, pg).nextfree = PAGE_USED
  <2>1. IF pool.hash[id] = NULL THEN stored # Absent
        ELSE \/ b.dirty \/ id \in touched \/ b.fpage = stored
             \/ ~AllocTouches /\ stored # Absent /\ b.fpage.nextfree = PAGE_USED
    BY <1>2, <1>9 DEF Settled
  <2>2. /\ IF pool'.hash[id] = NULL THEN now # Absent
           ELSE \/ c.dirty \/ id \in touched' \/ c.fpage = now
                \/ ~AllocTouches /\ now # Absent /\ c.fpage.nextfree = PAGE_USED
        /\ \/ PageOf(fd, pg)' = PageOf(fd, pg)
           \/ ~AllocTouches /\ PageOf(fd, pg).nextfree = PAGE_USED
    <3>1. CASE Same(pool, pool', id) /\ now = stored
      BY <1>2, <1>3, <2>1, <3>1 DEF b, c
    <3>2. CASE Same(pool, pool', id) /\ Overwritten(pool, disk, disk', UnixFd, id)
      <4>1. /\ pool'.hash[id] = pool.hash[id]
            /\ pool.hash[id] # NULL => c = b
            /\ now # Absent
            /\ stored = Absent \/ (pool.hash[id] # NULL /\ b.dirty)
        BY <3>2 DEF b, c, stored, now
      <4> QED
        BY <1>2, <1>3, <1>6, <2>1, <4>1
    <3>3. CASE Evicted(pool, disk, pool', disk', UnixFd, id)
      BY <1>2, <1>3, <1>5, <1>6, <2>1, <3>3 DEF b, stored, now
    <3>4. CASE Fetched(pool, disk, pool', disk', UnixFd, id)
      BY <1>2, <1>3, <1>5, <2>1, <3>4 DEF b, c, stored, now
    <3> QED
      BY <3>1, <3>2, <3>3, <3>4 DEF stored, now
  <2>3. Settled(fd, pg)'
    BY <1>3, <2>2 DEF Settled
  <2> QED
    BY <2>2, <2>3
<1> QED
  BY <1>2, <1>3, <1>7, <1>8, <1>9

(* A page that was safely used is so after it has moved: if it was evicted *)
(* clean, then because the file has it as a used page.                     *)
LEMMA MovedSafely ==
  ASSUME IInv, StoreInv, IInv', NEW fd \in OpenFds, NEW pg \in Pages,
         Moved(pool, disk, pool', disk', UnixFd, <<fd, pg>>),
         ftab'[fd].fname = ftab[fd].fname,
         <<fd, pg>> \in touched' <=> <<fd, pg>> \in touched,
         SafelyUsed(fd, pg)
  PROVE  SafelyUsed(fd, pg)'
<1> DEFINE id == <<fd, pg>>
           b == FrameOf(pool, id)
           c == FrameOf(pool', id)
           stored == Stored(disk, UnixFd, id)
           now == Stored(disk', UnixFd, id)
<1>1. /\ fd \in Fds /\ Stored(disk', UnixFd', id) = now
      /\ id[1] = fd /\ id[2] = pg
  BY DEF OpenFds, Stored, UnixFd
<1>2. /\ PFhashFind(pool, fd, pg) = pool.hash[id]
      /\ IsFixed(fd, pg) <=> pool.hash[id] # NULL /\ b.fixed
      /\ PageOf(fd, pg) = IF pool.hash[id] # NULL THEN b.fpage ELSE stored
      /\ stored = disk[ftab[fd].fname][pg]
      /\ pool.hash[id] # NULL => b = pool.frame[PFhashFind(pool, fd, pg)]
  BY <1>1, PageTerms DEF FrameOf
<1>3. /\ PFhashFind(pool', fd, pg) = pool'.hash[id]
      /\ PageOf(fd, pg)' = IF pool'.hash[id] # NULL THEN c.fpage ELSE now
      /\ now = disk'[ftab'[fd].fname][pg]
      /\ pool'.hash[id] # NULL => c = pool'.frame[PFhashFind(pool', fd, pg)]
  BY <1>1 DEF FrameOf, PFhashFind, PageOf, Stored, UnixFd
<1>4. id \in touched => pool.hash[id] # NULL /\ b.fixed
  BY <1>1, <1>2, StoreByPage DEF StoreInv, PageKept
<1>5. /\ IsUsed(IF pool.hash[id] # NULL THEN b.fpage ELSE stored)
      /\ pool.hash[id] # NULL => b.dirty \/ id \in touched \/ IsUsed(stored)
  BY <1>2 DEF SafelyUsed
<1>6. ASSUME /\ IsUsed(IF pool'.hash[id] # NULL THEN c.fpage ELSE now)
             /\ pool'.hash[id] # NULL => c.dirty \/ id \in touched' \/ IsUsed(now)
      PROVE  SafelyUsed(fd, pg)'
  BY <1>3, <1>6 DEF SafelyUsed
<1>7. CASE Same(pool, pool', id) /\ now = stored
  BY <1>5, <1>6, <1>7 DEF Same
<1>8. CASE Same(pool, pool', id) /\ Overwritten(pool, disk, disk', UnixFd, id)
  BY <1>5, <1>6, <1>8 DEF Same, Overwritten, IsUsed
<1>9. CASE Evicted(pool, disk, pool', disk', UnixFd, id)
  BY <1>4, <1>5, <1>6, <1>9 DEF Evicted
<1>10. CASE Fetched(pool, disk, pool', disk', UnixFd, id)
  BY <1>5, <1>6, <1>10 DEF Fetched, IsUsed
<1> QED
  BY <1>7, <1>8, <1>9, <1>10 DEF Moved, Carried

-----------------------------------------------------------------------------
(***************************************************************************)
(* A step that moves every page but those of T.                            *)
(***************************************************************************)
AllKept ==
  /\ \A fd \in Fds, pg \in Pages : PageKept(fd, pg)
  /\ \A fd \in OpenFds : ftab[fd].hdrchanged => Writable(fd)

FramesFound ==
  \A fd \in Fds, pg \in Pages : PFhashFind(pool, fd, pg) # NULL =>
    /\ fd \in OpenFds
    /\ pool.frame[PFhashFind(pool, fd, pg)].fpage \in FilePage

ChainOf(fd) ==
  FreeChain(ftab[fd].hdr, [pg \in PagesOf(fd) |-> PageOf(fd, pg)])

(* The two lemmas above, after the step.                                   *)
LEMMA NextFacts ==
  /\ IInv' => FramesFound'
  /\ (IInv /\ AllKept)' => (FixedPagesAreUsed /\ OnlyWritersChange)'
<1>1. IInv => FramesFound
  BY FramesById DEF FramesFound
<1>2. IInv /\ AllKept => FixedPagesAreUsed /\ OnlyWritersChange
  BY StoreByPage DEF AllKept
<1> QED
  BY <1>1, <1>2, PTL

(* A file that nobody has open for writing is not written to.              *)
LEMMA NotWritten ==
  ASSUME IInv, StoreInv, WritesDirty(pool, disk, disk', UnixFd),
         NEW f \in Files, \A fd \in Fds : ~WrittenBy(fd, f)
  PROVE  disk'[f] = disk[f]
<1> SUFFICES ASSUME disk'[f] # disk[f] PROVE FALSE
  OBVIOUS
<1>1. PICK id \in PageIds :
        pool.hash[id] # NULL /\ FrameOf(pool, id).dirty /\ UnixFd[id[1]] = f
  BY DEF WritesDirty
<1>2. /\ id[1] \in Fds /\ id[2] \in Pages /\ id = <<id[1], id[2]>>
      /\ PFhashFind(pool, id[1], id[2]) = pool.hash[id]
  BY DEF PageIds, PFhashFind
<1>3. Writable(id[1])
  BY <1>1, <1>2, StoreByPage DEF PageKept, FrameOf, StoreInv
<1> QED
  BY <1>1, <1>2, <1>3 DEF WrittenBy, UnixFd

(* What has to be shown of a step, and what follows.                       *)
Keeps(T) ==
  /\ MovesTo(T)
  /\ \A fd \in Fds, pg \in Pages :
       <<fd, pg>> \in T => PageKept(fd, pg)' /\ Settled(fd, pg)'
  /\ \A fd \in OpenFds :
       \/ ftab'[fd].hdr = ftab[fd].hdr /\ \A id \in T : id[1] # fd
       \/ /\ ChainOf(fd)'
          /\ \A pg \in PagesOf(fd)' : pg \in PagesOf(fd) \/ <<fd, pg>> \in T

LEMMA StoreStep ==
  ASSUME IInv, StoreInv, IInv', NEW T \in SUBSET PageIds, Keeps(T)
  PROVE  StoreInv'
<1> USE DEF Keeps
<1>1. /\ OpenFds' = OpenFds
      /\ \A fd \in Fds : /\ ftab'[fd].fname = ftab[fd].fname
                         /\ ftab'[fd].mode = ftab[fd].mode
                         /\ Writable(fd)' <=> Writable(fd)
  BY DEF MovesTo, OpenFds, Writable
<1>2. \A fd \in OpenFds : ftab'[fd].hdrchanged => Writable(fd)
  BY DEF MovesTo, StoreInv, OnlyWritersChange, OpenFds
<1>3. ASSUME NEW fd \in OpenFds, NEW pg \in Pages, <<fd, pg>> \notin T
      PROVE  /\ PageKept(fd, pg)'
             /\ Settled(fd, pg) =>
                  /\ Settled(fd, pg)'
                  /\ \/ PageOf(fd, pg)' = PageOf(fd, pg)
                     \/ ~AllocTouches /\ PageOf(fd, pg).nextfree = PAGE_USED
  <2>1. fd \in Fds /\ <<fd, pg>> \in PageIds /\ <<fd, pg>>[1] = fd
    BY DEF OpenFds, PageIds
  <2>2. Moved(pool, disk, pool', disk', UnixFd, <<fd, pg>>)
    BY <1>3, <2>1, OwnedPool DEF MovesTo, MovesBut
  <2>3. <<fd, pg>> \in touched' <=> <<fd, pg>> \in touched
    BY <1>3, <2>1 DEF MovesTo
  <2> QED
    BY <1>1, <2>1, <2>2, <2>3, MovedPage
<1>4. ASSUME NEW fd \in Fds, NEW pg \in Pages
      PROVE  PageKept(fd, pg)'
  <2>1. CASE <<fd, pg>> \in T
    BY <2>1
  <2>2. CASE <<fd, pg>> \notin T /\ fd \in OpenFds
    BY <1>3, <2>2
  <2>3. CASE <<fd, pg>> \notin T /\ fd \notin OpenFds
    <3>1. PFhashFind(pool, fd, pg) = NULL /\ PFhashFind(pool, fd, pg)' = NULL
      BY <1>1, <2>3, NextFacts, FramesById DEF FramesFound
    <3>2. <<fd, pg>> \notin touched
      BY <3>1, StoreByPage DEF StoreInv, PageKept, IsFixed
    <3>3. <<fd, pg>> \notin touched'
      BY <2>3, <3>2 DEF MovesTo, PageIds
    <3> QED
      BY <3>1, <3>3 DEF PageKept, IsFixed
  <2> QED
    BY <2>1, <2>2, <2>3
<1>5. FixedPagesAreUsed' /\ OnlyWritersChange'
  <2>1. AllKept'
    BY <1>1, <1>2, <1>4 DEF AllKept, OpenFds
  <2> QED
    BY <2>1, NextFacts
<1>6. OneWriter' /\ HeadersKept' /\ NoInternalError'
  BY <1>1 DEF StoreInv, OneWriter, HeadersKept, NoInternalError, MovesTo, OpenFds
<1>7. \A fd \in OpenFds : fd \in Fds /\ PagesOf(fd) \subseteq Pages
                          /\ PagesOf(fd)' \subseteq Pages /\ ftab[fd].hdr \in Header
  <2>1. \A fd \in Fds : ftab[fd] \in OpenFileEntry /\ ftab'[fd] \in OpenFileEntry
    BY DEF IInv, TypeOK
  <2>2. MaxPages \in Nat
    BY SizesAssumption
  <2> QED
    BY <2>1, <2>2 DEF OpenFds, PagesOf, NumPages, Pages, OpenFileEntry, Header
<1>8. PagesSettled'
  <2>1. ASSUME NEW fd \in OpenFds, NEW pg \in PagesOf(fd)'
        PROVE  Settled(fd, pg)'
    <3>1. fd \in Fds /\ pg \in Pages
      BY <1>7
    <3>2. CASE <<fd, pg>> \in T
      BY <3>1, <3>2
    <3>3. CASE <<fd, pg>> \notin T
      <4>1. pg \in PagesOf(fd)
        BY <3>3 DEF PagesOf, NumPages
      <4>2. Settled(fd, pg)
        BY <4>1 DEF StoreInv, PagesSettled
      <4> QED
        BY <1>3, <3>1, <3>3, <4>2
    <3> QED
      BY <3>2, <3>3
  <2> QED
    BY <1>1, <2>1 DEF PagesSettled
<1>9. OpenChains'
  <2>1. ASSUME NEW fd \in OpenFds
        PROVE  ChainOf(fd)'
    <3>1. CASE ChainOf(fd)'
      BY <3>1
    <3>2. CASE ftab'[fd].hdr = ftab[fd].hdr /\ \A id \in T : id[1] # fd
      <4> DEFINE hdr == ftab[fd].hdr
                 old == [pg \in PagesOf(fd) |-> PageOf(fd, pg)]
                 now == [pg \in PagesOf(fd) |-> PageOf(fd, pg)']
      <4>1. FreeChain(hdr, old) /\ hdr \in Header /\ PagesOf(fd) = 0 .. hdr.numpages - 1
        BY <1>7 DEF StoreInv, OpenChains, PagesOf, NumPages
      <4>2. ASSUME NEW pg \in PagesOf(fd)
            PROVE  KeepsLink(old[pg], now[pg])
        <5>1. pg \in Pages /\ Settled(fd, pg)
          BY <1>7 DEF StoreInv, PagesSettled
        <5>2. <<fd, pg>> \notin T
          BY <3>2
        <5> QED
          BY <1>3, <5>1, <5>2 DEF KeepsLink
      <4>3. FreeChain(hdr, now)
        <5> HIDE DEF hdr, old, now
        <5> QED
          BY <4>1, <4>2, ChainKept
      <4>4. PagesOf(fd)' = PagesOf(fd)
        BY <3>2 DEF PagesOf, NumPages
      <4> QED
        BY <3>2, <4>3, <4>4 DEF ChainOf
    <3> QED
      BY <3>1, <3>2
  <2> QED
    BY <1>1, <2>1 DEF OpenChains, ChainOf
<1>10. FilesWhole'
  <2>1. ASSUME NEW f \in Files, header'[f] # NoFile, \A fd \in Fds : ~WrittenBy(fd, f)'
        PROVE  /\ \A pg \in 0 .. header'[f].numpages - 1 : disk'[f][pg] # Absent
               /\ FreeChain(header'[f], disk'[f])
    <3>1. \A fd \in Fds : ~WrittenBy(fd, f)
      BY <1>1, <2>1 DEF WrittenBy
    <3>2. disk'[f] = disk[f]
      BY <3>1, NotWritten DEF MovesTo, MovesBut
    <3>3. header' = header
      BY DEF MovesTo
    <3> QED
      BY <2>1, <3>1, <3>2, <3>3 DEF StoreInv, FilesWhole
  <2> QED
    BY <2>1 DEF FilesWhole
<1> QED
  BY <1>5, <1>6, <1>8, <1>9, <1>10 DEF StoreInv

-----------------------------------------------------------------------------
(***************************************************************************)
(* The operations that are not called for a page to be changed.            *)
(***************************************************************************)

(* A failed operation, and an iteration of PFbufReleaseFile.               *)
LEMMA CarriesMoves ==
  ASSUME NEW p, NEW d, NEW q, NEW e, NEW u, CarriesAll(p, d, q, e, u)
  PROVE  MovesBut({}, p, d, q, e, u)
BY DEF CarriesAll, MovesBut, Moved

(* A used page is fixed.                                                   *)
LEMMA GetMoves ==
  ASSUME NEW p, PoolOK(p), NEW d \in Disk, NEW u, Owned(p, u),
         NEW fd \in Fds, u[fd] \in Files, NEW pg \in Pages,
         NEW t \in PFbufGet(p, d, u, fd, pg), t.err = "OK", PageUsed(t)
  PROVE  MovesBut({}, p, d, t.pool, t.disk, u)
<1> DEFINE id == <<fd, pg>>
<1>1. GetsPage(p, d, t, u, id)
  BY GetCarries
<1>2. Places(p, d, t, u, id) /\ FrameOf(t.pool, id).fpage.nextfree = PAGE_USED
  BY <1>1 DEF GetsPage, Places, PageUsed, FrameOf
<1>3. p.hash[id] # NULL => PoolOK(p) /\ p.frame[p.hash[id]] \in BufferPage
  BY PoolFields DEF PoolOK, TableFinds, PageIds
<1>4. Fetched(p, d, t.pool, t.disk, u, id)
  <2>1. CASE p.hash[id] # NULL
    <3>1. FrameOf(p, id) \in BufferPage
      BY <1>3, <2>1 DEF FrameOf
    <3> DEFINE b == FrameOf(p, id)
    <3>2. [b EXCEPT !.fixed = TRUE].dirty = b.dirty /\ [b EXCEPT !.fixed = TRUE].fpage = b.fpage
      BY <3>1 DEF BufferPage
    <3> HIDE DEF b
    <3> QED
      BY <1>1, <1>2, <2>1, <3>2 DEF GetsPage, Places, Fetched, b
  <2>2. CASE p.hash[id] = NULL
    BY <1>1, <1>2, <2>2 DEF GetsPage, Places, Fetched
  <2> QED
    BY <2>1, <2>2
<1> QED
  BY <1>2, <1>4 DEF MovesBut, Moved, Places

(* A page is fixed and given back.                                         *)
LEMMA GetUnfixMoves ==
  ASSUME NEW p, PoolOK(p), NEW d \in Disk, NEW u, Owned(p, u),
         NEW fd \in Fds, u[fd] \in Files, NEW pg \in Pages,
         NEW t \in PFbufGet(p, d, u, fd, pg), t.err = "OK",
         NEW s, s = PFbufUnfix(t.pool, t.disk, fd, pg, FALSE)
  PROVE  s.err = "OK" /\ MovesBut({}, p, d, s.pool, s.disk, u)
<1> DEFINE id == <<fd, pg>>
           b == FrameOf(p, id)
           c == FrameOf(t.pool, id)
           e == Unfixed(c, FALSE)
<1>1. GetsPage(p, d, t, u, id) /\ Places(p, d, t, u, id) /\ id \in PageIds
  BY GetCarries DEF GetsPage, PageIds
<1>2. Kept(p, t, fd) /\ Fixes(t, fd, pg)
  BY GetOK
<1>3. /\ PoolOK(t.pool) /\ t.disk \in Disk /\ c.fixed
      /\ t.pool.hash[id] # NULL /\ c \in BufferPage
  <2>1. PoolOK(t.pool) /\ t.disk \in Disk /\ t.bp \in ToSet(t.pool.used)
    BY <1>2 DEF Kept, Fixes
  <2>2. t.bp \in Frames /\ t.pool.frame \in [Frames -> BufferPage]
    BY <2>1, PoolFields DEF PoolOK
  <2> QED
    BY <1>1, <2>1, <2>2 DEF GetsPage, Places, FrameOf
<1>4. s.err = "OK"
  <2>1. /\ PFhashFind(t.pool, fd, pg) # NULL
        /\ t.pool.frame[PFhashFind(t.pool, fd, pg)].fixed
    BY <1>3 DEF PFhashFind, FrameOf
  <2> QED
    BY <2>1 DEF PFbufUnfix, Outcome
<1>5. s.disk = t.disk /\ Changed(t.pool, s.pool, id, e)
  <2>1. \A dirty \in BOOLEAN : \A r :
          r = PFbufUnfix(t.pool, t.disk, fd, pg, dirty) /\ r.err = "OK" =>
            r.disk = t.disk /\ Changed(t.pool, r.pool, id, Unfixed(c, dirty))
    BY <1>3, UnfixChanges
  <2> QED
    BY <1>4, <2>1, Zenon
<1>6. e.dirty = c.dirty /\ e.fpage = c.fpage /\ ~e.fixed
  BY <1>3 DEF BufferPage, Unfixed
<1>7. p.hash[id] # NULL => b \in BufferPage
  BY <1>1, PoolFields DEF FrameOf, PoolOK, TableFinds
<1> HIDE DEF b, c, e
<1>8. Fetched(p, d, s.pool, s.disk, u, id)
  <2>1. s.pool.hash[id] = t.pool.hash[id] /\ FrameOf(s.pool, id) = e
    BY <1>5 DEF Changed
  <2>2. CASE p.hash[id] # NULL
    <3>1. t.disk = d /\ t.bp = p.hash[id] /\ ~b.fixed /\ c = [b EXCEPT !.fixed = TRUE]
      BY <1>1, <2>2 DEF GetsPage, b, c
    <3>2. c.dirty = b.dirty /\ c.fpage = b.fpage
      BY <1>7, <2>2, <3>1 DEF BufferPage
    <3> QED
      BY <1>1, <1>3, <1>5, <1>6, <2>1, <2>2, <3>1, <3>2 DEF Fetched, Places, b
  <2>3. CASE p.hash[id] = NULL
    <3>1. /\ ~c.dirty /\ c.fpage = Stored(t.disk, u, id)
          /\ \/ Stored(t.disk, u, id) = Stored(d, u, id)
             \/ Stored(d, u, id) = Absent
      BY <1>1, <2>3 DEF GetsPage, c
    <3> QED
      BY <1>3, <1>5, <1>6, <2>1, <2>3, <3>1 DEF Fetched
  <2> QED
    BY <2>2, <2>3
<1>9. ASSUME NEW other \in OpenIds(u) \ {id}
      PROVE  Moved(p, d, s.pool, s.disk, u, other)
  <2>1. Carried(p, d, t.pool, t.disk, u, other)
    BY <1>1 DEF Places
  <2>2. Same(t.pool, s.pool, other)
    BY <1>5 DEF Changed, OpenIds
  <2> QED
    BY <1>5, <2>1, <2>2, CarriedSame DEF Moved
<1>10. WritesDirty(p, d, s.disk, u)
  BY <1>1, <1>5 DEF Places
<1> QED
  BY <1>4, <1>8, <1>9, <1>10 DEF MovesBut, Moved

-----------------------------------------------------------------------------
(***************************************************************************)
(* The actions.                                                            *)
(***************************************************************************)

(* What the properties of steps say of the pages of T.                     *)
TargetsSafe(T) ==
  \A fd \in Fds, pg \in Pages : <<fd, pg>> \in T =>
    /\ IsFixed(fd, pg) => \/ \E v \in Vals : Modify(fd, pg, v)
                          \/ \E dirty \in BOOLEAN : PF_UnfixPage(fd, pg, dirty)
    /\ pg \in PagesOf(fd) /\ SafelyUsed(fd, pg) =>
         SafelyUsed(fd, pg)' \/ PF_DisposePage(fd, pg)

(* The pages of open files that are not in S stay fixed or unfixed.        *)
FixedIn(p, id) == p.hash[id] # NULL /\ FrameOf(p, id).fixed

FixesOnly(S, p, q) ==
  \A id \in OpenIds(UnixFd) \ S : FixedIn(q, id) <=> FixedIn(p, id)

(* Of a step without a target, a client sees at most that a page is fixed. *)
FixSeen(q) ==
  \/ FixesOnly({}, pool, q)
  \/ \E fd \in OpenFds : \E pg \in PagesOf(fd) :
       /\ FixesOnly({<<fd, pg>>}, pool, q) /\ IsUsed(PageOf(fd, pg))
       /\ ~FixedIn(pool, <<fd, pg>>) /\ FixedIn(q, <<fd, pg>>)

(* Of a step with a target, what its action is for: PF_UnfixPage, Modify,  *)
(* PF_DisposePage, and PF_AllocPage in its two cases.                      *)
UnfixSeen(fd, pg) ==
  /\ IsFixed(fd, pg) /\ ~IsFixed(fd, pg)' /\ ftab' = ftab
  /\ PageOf(fd, pg)' = PageOf(fd, pg)

ModifySeen(fd, pg) ==
  /\ IsFixed(fd, pg) /\ IsFixed(fd, pg)' /\ PagesOf(fd)' = PagesOf(fd)
  /\ IsUsed(PageOf(fd, pg))'

DisposeSeen(fd, pg) ==
  /\ ~IsFixed(fd, pg) /\ ~IsFixed(fd, pg)'
  /\ pg \in PagesOf(fd) /\ PagesOf(fd)' = PagesOf(fd)
  /\ IsUsed(PageOf(fd, pg)) /\ ~IsUsed(PageOf(fd, pg))'

AllocSeen(fd, pg) ==
  /\ ~IsFixed(fd, pg) /\ IsFixed(fd, pg)' /\ IsUsed(PageOf(fd, pg))'
  /\ \/ /\ pg \in PagesOf(fd) /\ PagesOf(fd)' = PagesOf(fd)
        /\ ~IsUsed(PageOf(fd, pg))
     \/ /\ pg = NumPages(fd) /\ FirstFree(fd) = PAGE_LIST_END
        /\ PagesOf(fd)' = 0 .. pg

Seen(T) ==
  \/ T = {} /\ ftab' = ftab /\ FixSeen(pool')
  \/ \E fd \in OpenFds, pg \in Pages :
       /\ T = {<<fd, pg>>} /\ FixesOnly(T, pool, pool')
       /\ \A other \in OpenFds \ {fd} : ftab'[other] = ftab[other]
       /\ \/ UnfixSeen(fd, pg)
          \/ /\ Writable(fd)
             /\ ModifySeen(fd, pg) \/ DisposeSeen(fd, pg) \/ AllocSeen(fd, pg)

Orderly == \E T \in SUBSET PageIds : Keeps(T) /\ TargetsSafe(T) /\ Seen(T)

(* Pages that were carried are fixed if they were.                         *)
LEMMA CarriesFixes ==
  ASSUME NEW S, NEW p, NEW d, NEW q, NEW e,
         \A id \in OpenIds(UnixFd) \ S : Carried(p, d, q, e, UnixFd, id)
  PROVE  FixesOnly(S, p, q)
BY DEF FixesOnly, FixedIn, Carried, Same, Evicted

(* Only the frame of one page has changed.                                 *)
LEMMA ChangedFixes ==
  ASSUME NEW p, NEW q, NEW id, NEW b, Changed(p, q, id, b)
  PROVE  FixesOnly({id}, p, q)
BY DEF FixesOnly, FixedIn, Changed, Same, OpenIds

(* Another page was fixed and its frame changed.                           *)
LEMMA PlacesFixes ==
  ASSUME NEW p, NEW d, NEW t, NEW id, Places(p, d, t, UnixFd, id),
         NEW q, NEW b, Changed(t.pool, q, id, b)
  PROVE  FixesOnly({id}, p, q)
<1>1. FixesOnly({id}, p, t.pool)
  BY CarriesFixes DEF Places
<1>2. FixesOnly({id}, t.pool, q)
  BY ChangedFixes
<1> QED
  BY <1>1, <1>2 DEF FixesOnly

-----------------------------------------------------------------------------
(***************************************************************************)
(* Steps without a target.                                                 *)
(***************************************************************************)

(* Every page moves, and nothing else changes but the call.                *)
LEMMA MoveStep ==
  ASSUME MovesBut({}, pool, disk, pool', disk', UnixFd),
         UNCHANGED <<header, ftab, touched>>, call'.op # "exit", FixSeen(pool')
  PROVE  Orderly
<1>1. {} \in SUBSET PageIds
  OBVIOUS
<1>2. Keeps({})
  BY DEF Keeps, MovesTo
<1>3. TargetsSafe({}) /\ Seen({})
  BY DEF TargetsSafe, Seen
<1> QED
  BY <1>1, <1>2, <1>3 DEF Orderly

(* The step only begins or ends a call.                                    *)
LEMMA StillStep ==
  ASSUME UNCHANGED <<pool, disk, header, ftab, touched>>, call'.op # "exit"
  PROVE  Orderly
<1>1. CarriesAll(pool, disk, pool', disk', UnixFd)
  BY CarriesStill
<1>2. MovesBut({}, pool, disk, pool', disk', UnixFd)
  BY <1>1, CarriesMoves
<1>3. FixSeen(pool')
  BY DEF FixSeen, FixesOnly
<1> QED
  BY <1>2, <1>3, MoveStep

LEMMA CallOrderly ==
  ASSUME StoreInv,
         \/ \E fd \in Fds : PF_CloseFile(fd)
         \/ \E fd \in Fds, from \in {-1} \cup Pages : PF_GetNextPage(fd, from)
         \/ CloseHeaderFails \/ NextPageEOF \/ UNCHANGED vars
  PROVE  Orderly
<1>1. UNCHANGED <<pool, disk, header, ftab, touched>>
  BY DEF PF_CloseFile, PF_GetNextPage, CloseHeaderFails, NextPageEOF, vars
<1>2. call'.op # "exit"
  BY DEF PF_CloseFile, PF_GetNextPage, CloseHeaderFails, NextPageEOF, vars,
         Idle, StoreInv, NoInternalError
<1> QED
  BY <1>1, <1>2, StillStep

(* An iteration of the walk of PF_CloseFile.                               *)
LEMMA CloseReleaseOrderly ==
  ASSUME IInv, StoreInv, CloseRelease
  PROVE  Orderly
<1>1. /\ call.op = "close" /\ call.fd \in OpenFds /\ call.at \in ToSet(pool.used)
      /\ call \in Calls /\ call.fd \in Fds
  BY DEF IInv, TypeOK, WalkOK, CloseRelease, OpenFds
<1>2. PICK t \in ReleaseFrame(pool, disk, UnixFd, call.fd, call.at) :
        /\ Becomes(t)
        /\ call' = IF t.err \in {"OK", "SKIP"}
                   THEN [call EXCEPT !.at = NextUsed(pool.used, call.at)]
                   ELSE IF t.err = "EXIT" THEN Exited ELSE Idle
  BY DEF CloseRelease
<1>3. PoolOK(pool) /\ disk \in Disk /\ Owned(pool, UnixFd)
  BY InvFacts, OwnedPool
<1>4. t.err # "EXIT"
  BY <1>1, <1>2, <1>3, ReleaseOK
<1>5. CarriesAll(pool, disk, t.pool, t.disk, UnixFd)
  BY <1>1, <1>2, <1>3, ReleaseCarries
<1>6. MovesBut({}, pool, disk, pool', disk', UnixFd)
  BY <1>2, <1>5, CarriesMoves DEF Becomes
<1>7. call'.op # "exit"
  BY <1>1, <1>2, <1>4 DEF Idle, Calls
<1>8. FixSeen(pool')
  BY <1>2, <1>5, CarriesFixes DEF CarriesAll, FixSeen, Becomes
<1> QED
  BY <1>6, <1>7, <1>8, MoveStep DEF CloseRelease

-----------------------------------------------------------------------------
(***************************************************************************)
(* PFbufGet, as the actions use it.                                        *)
(***************************************************************************)

(* The target is fixed: it was not before, the frame holds the page as the *)
(* clients of the file saw it, and if the frame is clean the page is in    *)
(* the file.                                                               *)
LEMMA GetTarget ==
  ASSUME IInv, StoreInv, NEW fd \in OpenFds, NEW pg \in Pages,
         NEW t \in PFbufGet(pool, disk, UnixFd, fd, pg), t.err = "OK",
         NEW id, id = <<fd, pg>>
  PROVE  /\ Places(pool, disk, t, UnixFd, id) /\ PoolOK(t.pool) /\ t.disk \in Disk
         /\ t.bp = t.pool.hash[id] /\ t.bp # NULL
         /\ FrameOf(t.pool, id) \in BufferPage /\ FrameOf(t.pool, id).fixed
         /\ FrameOf(t.pool, id).dirty => Writable(fd)
         /\ ~IsFixed(fd, pg) /\ id \notin touched
         /\ Settled(fd, pg) =>
              /\ FrameOf(t.pool, id).fpage = PageOf(fd, pg)
              /\ \/ FrameOf(t.pool, id).dirty
                 \/ Stored(t.disk, UnixFd, id) # Absent
<1> DEFINE b == FrameOf(pool, id)
           c == FrameOf(t.pool, id)
           stored == Stored(disk, UnixFd, id)
           now == Stored(t.disk, UnixFd, id)
<1>1. /\ PoolOK(pool) /\ disk \in Disk /\ Owned(pool, UnixFd)
      /\ fd \in Fds /\ UnixFd[fd] \in Files /\ id \in PageIds
  BY InvFacts, OwnedPool DEF PageIds
<1>2. GetsPage(pool, disk, t, UnixFd, id)
  BY <1>1, GetCarries
<1>3. Kept(pool, t, fd) /\ Fixes(t, fd, pg)
  BY <1>1, GetOK
<1>4. /\ PoolOK(t.pool) /\ t.disk \in Disk /\ t.bp = t.pool.hash[id] /\ t.bp # NULL
      /\ c \in BufferPage /\ c.fixed /\ c.fpage \in FilePage
      /\ Places(pool, disk, t, UnixFd, id)
  <2>1. PoolOK(t.pool) /\ t.disk \in Disk /\ t.bp \in ToSet(t.pool.used)
    BY <1>3 DEF Kept, Fixes
  <2>2. t.bp \in Frames /\ t.pool.frame \in [Frames -> BufferPage]
    BY <2>1, PoolFields DEF PoolOK
  <2>3. Places(pool, disk, t, UnixFd, id) /\ c.fixed /\ t.bp = t.pool.hash[id] /\ t.bp # NULL
    BY <1>2 DEF GetsPage, Places
  <2>4. c \in BufferPage
    BY <2>2, <2>3 DEF FrameOf
  <2> QED
    BY <2>1, <2>3, <2>4 DEF BufferPage
<1>5. /\ PFhashFind(pool, fd, pg) = pool.hash[id]
      /\ IsFixed(fd, pg) <=> pool.hash[id] # NULL /\ b.fixed
      /\ PageOf(fd, pg) = IF pool.hash[id] # NULL THEN b.fpage ELSE stored
      /\ stored = disk[ftab[fd].fname][pg]
      /\ pool.hash[id] # NULL => b = pool.frame[PFhashFind(pool, fd, pg)]
  BY <1>1, PageTerms DEF FrameOf
<1>6. PageKept(fd, pg)
  BY <1>1, StoreByPage DEF StoreInv
<1>7. pool.hash[id] # NULL =>
        /\ ~b.fixed /\ now = stored /\ c.dirty = b.dirty /\ c.fpage = b.fpage
        /\ b.fpage # Absent /\ (b.dirty => Writable(fd))
  <2>1. SUFFICES ASSUME pool.hash[id] # NULL
                 PROVE  /\ ~b.fixed /\ now = stored /\ c.dirty = b.dirty
                        /\ c.fpage = b.fpage /\ b.fpage # Absent
                        /\ b.dirty => Writable(fd)
    OBVIOUS
  <2>2. b \in BufferPage
    BY <1>1, <1>5, <2>1, FramesById
  <2>3. t.disk = disk /\ ~b.fixed /\ c = [b EXCEPT !.fixed = TRUE]
    BY <1>2, <2>1 DEF GetsPage
  <2> HIDE DEF b, c
  <2>4. c.dirty = b.dirty /\ c.fpage = b.fpage /\ b.fpage \in FilePage
    BY <2>2, <2>3 DEF BufferPage
  <2>5. b.dirty => Writable(fd)
    BY <1>5, <1>6, <2>1 DEF PageKept
  <2> QED
    BY <2>3, <2>4, <2>5, PageNotAbsent
<1>8. pool.hash[id] = NULL =>
        ~c.dirty /\ c.fpage = now /\ (now = stored \/ stored = Absent) /\ now # Absent
  BY <1>2, <1>4, PageNotAbsent DEF GetsPage
<1>9. ~IsFixed(fd, pg) /\ id \notin touched
  BY <1>5, <1>6, <1>7 DEF PageKept
<1>10. c.dirty => Writable(fd)
  BY <1>7, <1>8
<1>11. ASSUME Settled(fd, pg)
       PROVE  c.fpage = PageOf(fd, pg) /\ (c.dirty \/ now # Absent)
  <2>1. IF pool.hash[id] = NULL THEN stored # Absent
        ELSE \/ b.dirty \/ id \in touched \/ b.fpage = stored
             \/ ~AllocTouches /\ stored # Absent /\ b.fpage.nextfree = PAGE_USED
    BY <1>5, <1>11 DEF Settled
  <2> HIDE DEF b, c, stored, now
  <2> QED
    BY <1>5, <1>7, <1>8, <1>9, <2>1
<1> HIDE DEF b, c, stored, now
<1>12. /\ c \in BufferPage /\ c.fixed /\ (c.dirty => Writable(fd))
       /\ Settled(fd, pg) => c.fpage = PageOf(fd, pg) /\ (c.dirty \/ now # Absent)
  BY <1>4, <1>10, <1>11
<1> QED
  BY <1>4, <1>9, <1>12 DEF c, now

(* The failed calls, and those that fix a used page.                       *)
LEMMA GetStep ==
  ASSUME IInv, StoreInv, NEW fd \in OpenFds, NEW pg \in Pages, pg \in PagesOf(fd),
         NEW t \in PFbufGet(pool, disk, UnixFd, fd, pg), t.err # "OK" \/ PageUsed(t)
  PROVE  MovesBut({}, pool, disk, t.pool, t.disk, UnixFd) /\ FixSeen(t.pool)
<1>1. /\ PoolOK(pool) /\ disk \in Disk /\ Owned(pool, UnixFd)
      /\ fd \in Fds /\ UnixFd[fd] \in Files
  BY InvFacts, OwnedPool
<1>2. CASE t.err # "OK"
  <2>1. CarriesAll(pool, disk, t.pool, t.disk, UnixFd)
    BY <1>1, <1>2, GetCarries
  <2>2. FixSeen(t.pool)
    BY <2>1, CarriesFixes DEF CarriesAll, FixSeen
  <2> QED
    BY <2>1, <2>2, CarriesMoves
<1>3. CASE t.err = "OK" /\ PageUsed(t)
  <2> DEFINE id == <<fd, pg>>
  <2>1. MovesBut({}, pool, disk, t.pool, t.disk, UnixFd)
    BY <1>1, <1>3, GetMoves
  <2>2. Settled(fd, pg)
    BY DEF StoreInv, PagesSettled
  <2>3. /\ Places(pool, disk, t, UnixFd, id) /\ t.bp = t.pool.hash[id] /\ t.bp # NULL
        /\ FrameOf(t.pool, id) \in BufferPage /\ FrameOf(t.pool, id).fixed
        /\ ~IsFixed(fd, pg) /\ FrameOf(t.pool, id).fpage = PageOf(fd, pg)
    BY <1>3, <2>2, GetTarget
  <2>4. FixesOnly({id}, pool, t.pool)
    BY <2>3, CarriesFixes DEF Places
  <2>5. IsUsed(PageOf(fd, pg))
    <3>1. PageOf(fd, pg) \in FilePage /\ PageOf(fd, pg).nextfree = PAGE_USED
      BY <1>3, <2>3 DEF BufferPage, PageUsed, FrameOf
    <3> QED
      BY <3>1, PageNotAbsent DEF IsUsed
  <2>6. ~FixedIn(pool, id) /\ FixedIn(t.pool, id)
    BY <1>1, <2>3, PageTerms DEF FixedIn
  <2> QED
    BY <2>1, <2>4, <2>5, <2>6 DEF FixSeen
<1> QED
  BY <1>2, <1>3

(* Those that give the page back.                                          *)
LEMMA GetUnfixStep ==
  ASSUME IInv, StoreInv, NEW fd \in OpenFds, NEW pg \in Pages,
         NEW t \in PFbufGet(pool, disk, UnixFd, fd, pg), t.err = "OK",
         NEW s, s = PFbufUnfix(t.pool, t.disk, fd, pg, FALSE)
  PROVE  /\ s.err = "OK" /\ MovesBut({}, pool, disk, s.pool, s.disk, UnixFd)
         /\ FixSeen(s.pool)
<1> DEFINE id == <<fd, pg>>
           c == FrameOf(t.pool, id)
<1>1. /\ PoolOK(pool) /\ disk \in Disk /\ Owned(pool, UnixFd)
      /\ fd \in Fds /\ UnixFd[fd] \in Files
  BY InvFacts, OwnedPool
<1>2. s.err = "OK" /\ MovesBut({}, pool, disk, s.pool, s.disk, UnixFd)
  BY <1>1, GetUnfixMoves, Zenon
<1>3. /\ Places(pool, disk, t, UnixFd, id) /\ ~IsFixed(fd, pg)
      /\ PoolOK(t.pool) /\ t.disk \in Disk /\ c \in BufferPage
  BY GetTarget
<1>4. \E b \in BufferPage : Changed(t.pool, s.pool, id, b) /\ ~b.fixed
  <2>1. \A dirty \in BOOLEAN : Unfixed(c, dirty) \in BufferPage /\ ~Unfixed(c, dirty).fixed
    <3> HIDE DEF c
    <3> QED
      BY <1>3 DEF Unfixed, BufferPage
  <2>2. \A dirty \in BOOLEAN : \A r :
          r = PFbufUnfix(t.pool, t.disk, fd, pg, dirty) /\ r.err = "OK" =>
            Changed(t.pool, r.pool, id, Unfixed(c, dirty))
    BY <1>1, <1>3, UnfixChanges
  <2> QED
    BY <1>2, <2>1, <2>2, Zenon
<1>5. PICK b \in BufferPage : Changed(t.pool, s.pool, id, b) /\ ~b.fixed
  BY <1>4
<1>6. FixesOnly({id}, pool, s.pool)
  BY <1>3, <1>5, PlacesFixes
<1>7. ~FixedIn(pool, id) /\ ~FixedIn(s.pool, id)
  BY <1>1, <1>3, <1>5, PageTerms DEF FixedIn, Changed
<1> QED
  BY <1>2, <1>6, <1>7 DEF FixSeen, FixesOnly

LEMMA NextPageScanOrderly ==
  ASSUME IInv, StoreInv, NextPageScan
  PROVE  Orderly
<1> DEFINE fd == call.fd
           pg == call.at
<1>1. /\ fd \in OpenFds /\ pg \in Pages /\ call \in Calls /\ call.op = "next"
      /\ UNCHANGED <<header, ftab, touched>> /\ pg \in PagesOf(fd)
  <2>1. fd \in OpenFds /\ call \in Calls /\ fd \in Fds
    BY DEF IInv, TypeOK, ScanOK, NextPageScan, OpenFds
  <2>2. pg < NumPages(fd) /\ NumPages(fd) \in 0 .. MaxPages /\ pg \in Nat
    BY <2>1, InvFacts DEF NextPageScan, Calls
  <2> QED
    BY <2>1, <2>2, InvFacts DEF NextPageScan, Pages, PagesOf
<1>2. PICK t \in PFbufGet(pool, disk, UnixFd, fd, pg) :
        IF t.err # "OK" \/ PageUsed(t)
        THEN Becomes(t) /\ call' = Idle
        ELSE LET s == PFbufUnfix(t.pool, t.disk, fd, pg, FALSE)
             IN /\ Becomes(s)
                /\ call' = IF s.err = "OK" THEN [call EXCEPT !.at = call.at + 1]
                           ELSE Idle
  BY DEF NextPageScan
<1> HIDE DEF fd, pg
<1>3. CASE t.err # "OK" \/ PageUsed(t)
  <2>1. MovesBut({}, pool, disk, t.pool, t.disk, UnixFd) /\ FixSeen(t.pool)
    BY <1>1, <1>2, <1>3, GetStep
  <2>2. Becomes(t) /\ call' = Idle
    BY <1>2, <1>3, Zenon
  <2> QED
    BY <1>1, <2>1, <2>2, MoveStep DEF Becomes, Idle
<1>4. CASE ~(t.err # "OK" \/ PageUsed(t))
  <2> DEFINE s == PFbufUnfix(t.pool, t.disk, fd, pg, FALSE)
  <2>1. /\ s.err = "OK" /\ MovesBut({}, pool, disk, s.pool, s.disk, UnixFd)
        /\ FixSeen(s.pool)
    <3>1. fd \in OpenFds /\ pg \in Pages /\ t.err = "OK"
      BY <1>1, <1>4
    <3> QED
      BY <3>1, GetUnfixStep, Zenon
  <2>2. Becomes(s) /\ call' = [call EXCEPT !.at = call.at + 1]
    BY <1>2, <1>4, <2>1
  <2> HIDE DEF s
  <2> QED
    BY <1>1, <2>1, <2>2, MoveStep DEF Becomes, Calls
<1> QED
  BY <1>3, <1>4

(* UnfixOrExit does not exit.                                              *)
LEMMA UnfixOrExitOrderly ==
  ASSUME IInv, StoreInv, NEW fd \in OpenFds, NEW pg \in Pages,
         NEW t \in PFbufGet(pool, disk, UnixFd, fd, pg), t.err = "OK",
         UnfixOrExit(t, fd, pg), UNCHANGED <<header, ftab, touched>>
  PROVE  Orderly
<1> DEFINE s == PFbufUnfix(t.pool, t.disk, fd, pg, FALSE)
<1>1. /\ s.err = "OK" /\ MovesBut({}, pool, disk, s.pool, s.disk, UnixFd)
      /\ FixSeen(s.pool)
  BY GetUnfixStep, Zenon
<1>2. Becomes(s) /\ call' = call
  BY <1>1 DEF UnfixOrExit
<1> HIDE DEF s
<1> QED
  BY <1>1, <1>2, MoveStep DEF Becomes, StoreInv, NoInternalError

LEMMA GetThisPageOrderly ==
  ASSUME IInv, StoreInv, NEW fd \in Fds, NEW pg \in Pages, PF_GetThisPage(fd, pg)
  PROVE  Orderly
<1>1. fd \in OpenFds /\ UNCHANGED <<header, ftab, touched>> /\ pg \in PagesOf(fd)
  <2>1. fd \in OpenFds /\ UNCHANGED <<header, ftab, touched>>
    BY DEF PF_GetThisPage, PFinvalidFd
  <2> QED
    BY <2>1, InvFacts DEF PF_GetThisPage, PFinvalidPagenum, PagesOf, Pages
<1>2. PICK t \in PFbufGet(pool, disk, UnixFd, fd, pg) :
        IF t.err # "OK" \/ PageUsed(t) THEN Becomes(t) /\ UNCHANGED call
        ELSE UnfixOrExit(t, fd, pg)
  BY DEF PF_GetThisPage
<1>3. CASE t.err # "OK" \/ PageUsed(t)
  <2>1. MovesBut({}, pool, disk, t.pool, t.disk, UnixFd) /\ FixSeen(t.pool)
    BY <1>1, <1>2, <1>3, GetStep
  <2> QED
    BY <1>1, <1>2, <1>3, <2>1, MoveStep DEF Becomes, StoreInv, NoInternalError
<1>4. CASE ~(t.err # "OK" \/ PageUsed(t))
  BY <1>1, <1>2, <1>4, UnfixOrExitOrderly
<1> QED
  BY <1>3, <1>4

-----------------------------------------------------------------------------
(***************************************************************************)
(* Steps with a target.                                                    *)
(***************************************************************************)

(* Its link is set.                                                        *)
WithLink(b, x) == [b EXCEPT !.fpage.nextfree = x]

LEMMA LinkFields ==
  ASSUME NEW b \in BufferPage, NEW x \in Links
  PROVE  /\ WithLink(b, x) \in BufferPage /\ WithLink(b, x).fpage \in FilePage
         /\ WithLink(b, x).fd = b.fd /\ WithLink(b, x).page = b.page
         /\ WithLink(b, x).fixed = b.fixed /\ WithLink(b, x).dirty = b.dirty
         /\ WithLink(b, x).fpage.nextfree = x
         /\ WithLink(b, x).fpage.pagebuf = b.fpage.pagebuf
<1>1. b.fpage \in FilePage
  BY DEF BufferPage
<1> QED
  BY <1>1 DEF WithLink, BufferPage, FilePage

LEMMA LinkChanges ==
  ASSUME NEW p, PoolOK(p), NEW id \in PageIds, NEW bp, bp = p.hash[id], bp # NULL,
         NEW x \in Links, NEW q, q = [p EXCEPT !.frame[bp].fpage.nextfree = x]
  PROVE  Changed(p, q, id, WithLink(FrameOf(p, id), x)) /\ PoolOK(q)
<1> DEFINE b == p.frame[bp]
           c == WithLink(b, x)
<1>1. bp \in ToSet(p.used) /\ bp \in Frames /\ b \in BufferPage
  BY PoolFields DEF PoolOK, TableFinds
<1>2. c \in BufferPage /\ c.fd = b.fd /\ c.page = b.page
  BY <1>1, LinkFields
<1>3. q = WithFrame(p, bp, c)
  BY DEF WithFrame, WithLink
<1> HIDE DEF c
<1>4. Changed(p, q, id, c)
  BY <1>2, <1>3, SetChanges
<1>5. PoolOK(q)
  <2>1. FrameSet(p, WithFrame(p, bp, c), bp, c)
    BY <1>1, <1>2, SetFrame
  <2> QED
    BY <1>3, <2>1 DEF FrameSet
<1> QED
  BY <1>4, <1>5 DEF c, FrameOf

(* A page is fixed, and then its frame changes.                            *)
LEMMA PlacesChanged ==
  ASSUME NEW p, NEW d, NEW t, NEW u, NEW id, Places(p, d, t, u, id),
         NEW q, NEW b, Changed(t.pool, q, id, b)
  PROVE  MovesBut({id}, p, d, q, t.disk, u)
<1>1. ASSUME NEW other \in OpenIds(u) \ {id}
      PROVE  Moved(p, d, q, t.disk, u, other)
  <2>1. Carried(p, d, t.pool, t.disk, u, other)
    BY DEF Places
  <2>2. Same(t.pool, q, other)
    BY DEF Changed, OpenIds
  <2> QED
    BY <2>1, <2>2, CarriedSame DEF Moved
<1> QED
  BY <1>1 DEF MovesBut, Places

(* Two changes of one frame.                                               *)
LEMMA ChangedTwice ==
  ASSUME NEW p, NEW q, NEW r, NEW id, NEW b, NEW c,
         Changed(p, q, id, b), Changed(q, r, id, c)
  PROVE  Changed(p, r, id, c)
BY DEF Changed, Same, FrameOf

(* The target after the step, and the links of the other pages.            *)
LEMMA TargetPages ==
  ASSUME IInv, StoreInv, IInv', NEW fd \in OpenFds, NEW pg \in Pages,
         NEW id, id = <<fd, pg>>, MovesTo({id}), pool'.hash[id] # NULL
  PROVE  /\ PageOf(fd, pg)' = FrameOf(pool', id).fpage
         /\ IsFixed(fd, pg)' <=> FrameOf(pool', id).fixed
         /\ \A other \in PagesOf(fd) : other # pg =>
              KeepsLink(PageOf(fd, other), PageOf(fd, other)')
<1>1. /\ PageOf(fd, pg)' = FrameOf(pool', id).fpage
      /\ IsFixed(fd, pg)' <=> FrameOf(pool', id).fixed
  BY DEF PageOf, IsFixed, PFhashFind, FrameOf
<1>2. fd \in Fds /\ ftab[fd] \in OpenFileEntry /\ NumPages(fd) \in 0 .. MaxPages
  BY InvFacts DEF OpenFds
<1>3. ASSUME NEW other \in PagesOf(fd), other # pg
      PROVE  KeepsLink(PageOf(fd, other), PageOf(fd, other)')
  <2>1. other \in Pages
    BY <1>2, SizesAssumption DEF PagesOf, Pages
  <2>2. Settled(fd, other)
    BY <1>3 DEF StoreInv, PagesSettled
  <2>3. <<fd, other>> \in OpenIds(UnixFd) \ {id} /\ <<fd, other>> \in PageIds \ {id}
    BY <1>2, <1>3, <2>1, OwnedPool DEF PageIds
  <2>4. /\ Moved(pool, disk, pool', disk', UnixFd, <<fd, other>>)
        /\ ftab'[fd].fname = ftab[fd].fname /\ ftab'[fd].mode = ftab[fd].mode
        /\ <<fd, other>> \in touched' <=> <<fd, other>> \in touched
    BY <1>2, <2>3 DEF MovesTo, MovesBut
  <2> QED
    BY <2>1, <2>2, <2>4, MovedPage DEF KeepsLink
<1> QED
  BY <1>1, <1>3

(* What has to be shown of the target.                                     *)
LEMMA TargetKeeps ==
  ASSUME IInv, StoreInv, IInv', NEW fd \in OpenFds, NEW pg \in Pages,
         NEW id, id = <<fd, pg>>, MovesTo({id}),
         NEW b, pool'.hash[id] # NULL, FrameOf(pool', id) = b,
         b.fixed => b.fpage.nextfree = PAGE_USED,
         b.dirty => Writable(fd),
         id \in touched' => Writable(fd) /\ b.fixed,
         \/ b.dirty \/ id \in touched' \/ b.fpage = Stored(disk', UnixFd, id)
         \/ /\ ~AllocTouches /\ Stored(disk', UnixFd, id) # Absent
            /\ b.fpage.nextfree = PAGE_USED,
         \A other \in OpenFds \ {fd} : ftab'[other] = ftab[other],
         ChainOf(fd)',
         \A q \in PagesOf(fd)' : q \in PagesOf(fd) \/ q = pg
  PROVE  Keeps({id})
<1>1. fd \in Fds /\ ftab'[fd].fname = ftab[fd].fname /\ (Writable(fd)' <=> Writable(fd))
  BY DEF OpenFds, MovesTo, Writable
<1>2. /\ PFhashFind(pool', fd, pg) = pool'.hash[id]
      /\ IsFixed(fd, pg)' <=> b.fixed
      /\ PageOf(fd, pg)' = b.fpage
      /\ Stored(disk', UnixFd, id) = disk'[ftab'[fd].fname][pg]
      /\ b = pool'.frame[PFhashFind(pool', fd, pg)]
  BY <1>1 DEF FrameOf, PFhashFind, IsFixed, PageOf, Stored, UnixFd
<1>3. PageKept(fd, pg)'
  BY <1>1, <1>2 DEF PageKept
<1>4. Settled(fd, pg)'
  BY <1>2 DEF Settled
<1>5. \A other \in Fds, q \in Pages : <<other, q>> \in {id} => other = fd /\ q = pg
  OBVIOUS
<1>6. ASSUME NEW other \in OpenFds
      PROVE  \/ ftab'[other].hdr = ftab[other].hdr /\ \A e \in {id} : e[1] # other
             \/ /\ ChainOf(other)'
                /\ \A q \in PagesOf(other)' : q \in PagesOf(other) \/ <<other, q>> \in {id}
  <2>1. CASE other = fd
    <3>1. \A q \in PagesOf(fd)' : q \in PagesOf(fd) \/ <<fd, q>> \in {id}
      OBVIOUS
    <3> QED
      BY <2>1, <3>1
  <2>2. CASE other # fd
    BY <2>2
  <2> QED
    BY <2>1, <2>2
<1>7. \A other \in Fds, q \in Pages :
        <<other, q>> \in {id} => PageKept(other, q)' /\ Settled(other, q)'
  BY <1>3, <1>4, <1>5
<1> QED
  BY <1>6, <1>7 DEF Keeps

(* The frame of the target changes.                                        *)
LEMMA ChangedMoves ==
  ASSUME NEW p, NEW d, NEW u, NEW id, NEW q, NEW b, Changed(p, q, id, b)
  PROVE  MovesBut({id}, p, d, q, d, u)
BY DEF Changed, MovesBut, Moved, Carried, OpenIds, WritesDirty

(* The list of a file whose pages keep their links.                        *)
LEMMA ChainStays ==
  ASSUME IInv, StoreInv, NEW fd \in OpenFds, ftab'[fd].hdr = ftab[fd].hdr,
         \A pg \in PagesOf(fd) : KeepsLink(PageOf(fd, pg), PageOf(fd, pg)')
  PROVE  ChainOf(fd)' /\ PagesOf(fd)' = PagesOf(fd)
<1> DEFINE hdr == ftab[fd].hdr
           old == [pg \in PagesOf(fd) |-> PageOf(fd, pg)]
           now == [pg \in PagesOf(fd) |-> PageOf(fd, pg)']
<1>1. FreeChain(hdr, old) /\ hdr \in Header /\ PagesOf(fd) = 0 .. hdr.numpages - 1
  BY InvFacts DEF StoreInv, OpenChains, PagesOf, NumPages, OpenFileEntry
<1>2. \A pg \in PagesOf(fd) : KeepsLink(old[pg], now[pg])
  BY DEF KeepsLink
<1>3. FreeChain(hdr, now)
  <2> HIDE DEF hdr, old, now
  <2> QED
    BY <1>1, <1>2, ChainKept
<1>4. PagesOf(fd)' = PagesOf(fd)
  BY DEF PagesOf, NumPages
<1> QED
  BY <1>3, <1>4 DEF ChainOf

(* The flags of the page change.                                           *)
LEMMA UnfixPageOrderly ==
  ASSUME IInv, StoreInv, IInv', NEW fd \in Fds, NEW pg \in Pages,
         NEW dirty \in BOOLEAN, PF_UnfixPage(fd, pg, dirty)
  PROVE  Orderly
<1> DEFINE id == <<fd, pg>>
           t == PFbufUnfix(pool, disk, fd, pg, dirty)
           b == FrameOf(pool, id)
           c == Unfixed(b, dirty)
<1>1. /\ fd \in OpenFds /\ UNCHANGED <<header, ftab, call>> /\ id \in PageIds
      /\ touched' = touched \ {id} /\ (id \in touched => dirty)
      /\ (dirty => Writable(fd))
  BY DEF PF_UnfixPage, PFinvalidFd, Forget, PageIds
<1>2. pg \in PagesOf(fd)
  BY <1>1, InvFacts DEF PF_UnfixPage, PFinvalidPagenum, PagesOf, Pages
<1>3. t.err = "OK" /\ pool' = t.pool /\ disk' = t.disk
  BY DEF PF_UnfixPage, Becomes
<1>4. disk' = disk /\ Changed(pool, pool', id, c)
  <2>1. PoolOK(pool) /\ disk \in Disk
    BY InvFacts
  <2> QED
    BY <1>3, <2>1, UnfixChanges
<1> HIDE DEF t
<1>5. pool.hash[id] # NULL /\ pool'.hash[id] # NULL /\ FrameOf(pool', id) = c
  BY <1>4 DEF Changed
<1>6. /\ PFhashFind(pool, fd, pg) = pool.hash[id]
      /\ PageOf(fd, pg) = b.fpage
      /\ Stored(disk, UnixFd, id) = disk[ftab[fd].fname][pg]
      /\ b = pool.frame[PFhashFind(pool, fd, pg)]
  BY <1>5, PageTerms DEF FrameOf
<1>7. b \in BufferPage
  BY <1>5, <1>6, FramesById
<1> HIDE DEF b
<1>8. c.dirty = (b.dirty \/ dirty) /\ c.fpage = b.fpage /\ ~c.fixed
  BY <1>7 DEF BufferPage, Unfixed
<1>9. PageKept(fd, pg) /\ Settled(fd, pg)
  BY <1>1, <1>2, StoreByPage DEF StoreInv, PagesSettled
<1> HIDE DEF c
<1>10. MovesTo({id})
  <2>1. MovesBut({id}, pool, disk, pool', disk', UnixFd)
    BY <1>4, ChangedMoves
  <2>2. \A other \in PageIds \ {id} : other \in touched' <=> other \in touched
    BY <1>1
  <2> QED
    BY <1>1, <2>1, <2>2 DEF MovesTo, StoreInv, NoInternalError
<1>11. PageOf(fd, pg)' = PageOf(fd, pg)
  BY <1>1, <1>5, <1>6, <1>8, <1>10, TargetPages
<1>12. ChainOf(fd)' /\ PagesOf(fd)' = PagesOf(fd)
  <2>1. \A other \in PagesOf(fd) : KeepsLink(PageOf(fd, other), PageOf(fd, other)')
    BY <1>1, <1>5, <1>10, <1>11, TargetPages DEF KeepsLink
  <2> QED
    BY <1>1, <2>1, ChainStays
<1>13. Keeps({id})
  <2>1. c.dirty => Writable(fd)
    BY <1>1, <1>5, <1>6, <1>8, <1>9 DEF PageKept
  <2>2. \/ c.dirty \/ id \in touched' \/ c.fpage = Stored(disk', UnixFd, id)
        \/ /\ ~AllocTouches /\ Stored(disk', UnixFd, id) # Absent
           /\ c.fpage.nextfree = PAGE_USED
    BY <1>1, <1>4, <1>5, <1>6, <1>8, <1>9 DEF Settled
  <2> HIDE DEF id
  <2> QED
    BY <1>1, <1>5, <1>8, <1>10, <1>12, <2>1, <2>2, TargetKeeps DEF id
<1>14. TargetsSafe({id})
  <2>1. /\ PFhashFind(pool', fd, pg) = pool'.hash[id]
        /\ c = pool'.frame[PFhashFind(pool', fd, pg)]
    BY <1>5 DEF PFhashFind, FrameOf
  <2>2. ASSUME SafelyUsed(fd, pg) PROVE SafelyUsed(fd, pg)'
    <3>1. IsUsed(PageOf(fd, pg)) /\ IsUsed(PageOf(fd, pg))'
      BY <1>11, <2>2 DEF SafelyUsed
    <3>2. b.dirty \/ id \in touched \/ IsUsed(disk[ftab[fd].fname][pg])
      BY <1>5, <1>6, <2>2 DEF SafelyUsed
    <3>3. c.dirty \/ IsUsed(disk'[ftab'[fd].fname][pg])
      BY <1>1, <1>4, <1>8, <3>2
    <3> QED
      BY <2>1, <3>1, <3>3 DEF SafelyUsed
  <2> QED
    BY <2>2 DEF TargetsSafe
<1>15. Seen({id})
  <2>1. FixesOnly({id}, pool, pool')
    BY <1>4, ChangedFixes
  <2>2. IsFixed(fd, pg) /\ ~IsFixed(fd, pg)'
    <3>1. IsFixed(fd, pg)
      BY <1>3 DEF t, PFbufUnfix, Outcome, IsFixed
    <3> QED
      BY <1>1, <1>5, <1>8, <1>10, <3>1, TargetPages
  <2>3. UnfixSeen(fd, pg)
    BY <1>1, <1>11, <2>2 DEF UnfixSeen
  <2> QED
    BY <1>1, <2>1, <2>3 DEF Seen
<1> QED
  BY <1>1, <1>13, <1>14, <1>15 DEF Orderly

(* The data of the page changes.                                           *)
LEMMA ModifyOrderly ==
  ASSUME IInv, StoreInv, IInv', NEW fd \in Fds, NEW pg \in Pages, NEW v \in Vals,
         Modify(fd, pg, v)
  PROVE  Orderly
<1> DEFINE id == <<fd, pg>>
           b == FrameOf(pool, id)
           c == [b EXCEPT !.fpage.pagebuf = v]
<1>1. /\ fd \in OpenFds /\ UNCHANGED <<disk, header, ftab, call>> /\ id \in PageIds
      /\ touched' = touched \cup {id} /\ Writable(fd) /\ IsFixed(fd, pg)
      /\ pool' = [pool EXCEPT !.frame[PFhashFind(pool, fd, pg)].fpage.pagebuf = v]
  BY DEF Modify, PFinvalidFd, PageIds
<1>2. /\ pool.hash[id] # NULL /\ b.fixed /\ PFhashFind(pool, fd, pg) = pool.hash[id]
      /\ PageOf(fd, pg) = b.fpage /\ b = pool.frame[PFhashFind(pool, fd, pg)]
  BY <1>1, PageTerms DEF FrameOf
<1>3. b \in BufferPage /\ b.fpage \in FilePage /\ b.fpage.nextfree = PAGE_USED
  BY <1>1, <1>2, FramesById, StoreByPage DEF PageKept, StoreInv
<1>4. /\ c \in BufferPage /\ c.fixed /\ c.dirty = b.dirty
      /\ c.fpage.nextfree = PAGE_USED
  <2> HIDE DEF b
  <2>1. /\ c.fpage = [b.fpage EXCEPT !.pagebuf = v]
        /\ c.fd = b.fd /\ c.page = b.page /\ c.dirty = b.dirty /\ c.fixed = b.fixed
    BY <1>3 DEF BufferPage
  <2>2. c.fpage \in FilePage /\ c.fpage.nextfree = b.fpage.nextfree
    BY <1>3, <2>1 DEF FilePage, Data
  <2>3. c = [b EXCEPT !.fpage = c.fpage]
    BY <1>3, <2>1 DEF BufferPage
  <2> HIDE DEF c
  <2>4. c \in BufferPage
    BY <1>3, <2>2, <2>3 DEF BufferPage
  <2> QED
    BY <1>2, <1>3, <2>1, <2>2, <2>4
<1>5. Changed(pool, pool', id, c)
  <2>1. pool' = WithFrame(pool, pool.hash[id], c)
    BY <1>1, <1>2 DEF WithFrame
  <2> HIDE DEF c
  <2> QED
    BY <1>1, <1>2, <1>4, <2>1, InvFacts, SetChanges
<1> HIDE DEF b, c
<1>6. pool'.hash[id] # NULL /\ FrameOf(pool', id) = c
  BY <1>5 DEF Changed
<1>7. MovesTo({id})
  <2>1. MovesBut({id}, pool, disk, pool', disk', UnixFd)
    BY <1>1, <1>5, ChangedMoves
  <2>2. \A other \in PageIds \ {id} : other \in touched' <=> other \in touched
    BY <1>1
  <2> QED
    BY <1>1, <2>1, <2>2 DEF MovesTo, StoreInv, NoInternalError
<1>8. PageOf(fd, pg)' = c.fpage
  BY <1>1, <1>6, <1>7, TargetPages
<1>9. ChainOf(fd)' /\ PagesOf(fd)' = PagesOf(fd)
  <2>1. KeepsLink(PageOf(fd, pg), PageOf(fd, pg)')
    BY <1>2, <1>3, <1>4, <1>8 DEF KeepsLink
  <2>2. \A other \in PagesOf(fd) :
          other # pg => KeepsLink(PageOf(fd, other), PageOf(fd, other)')
    BY <1>1, <1>6, <1>7, TargetPages
  <2>3. \A other \in PagesOf(fd) : KeepsLink(PageOf(fd, other), PageOf(fd, other)')
    BY <2>1, <2>2
  <2> QED
    BY <1>1, <2>3, ChainStays
<1>10. Keeps({id})
  <2>1. id \in touched'
    BY <1>1
  <2> HIDE DEF id
  <2> QED
    BY <1>1, <1>4, <1>6, <1>7, <1>9, <2>1, TargetKeeps DEF id
<1>11. IsUsed(PageOf(fd, pg))'
  <2>1. c.fpage # Absent
    BY <1>4, PageNotAbsent DEF BufferPage
  <2> QED
    BY <1>4, <1>8, <2>1 DEF IsUsed
<1>12. TargetsSafe({id})
  BY <1>1, <1>11 DEF TargetsSafe, SafelyUsed
<1>13. Seen({id})
  <2>1. FixesOnly({id}, pool, pool')
    BY <1>5, ChangedFixes
  <2>2. IsFixed(fd, pg)'
    BY <1>1, <1>4, <1>6, <1>7, TargetPages
  <2>3. ModifySeen(fd, pg)
    BY <1>1, <1>9, <1>11, <2>2 DEF ModifySeen
  <2> QED
    BY <1>1, <2>1, <2>3 DEF Seen
<1> QED
  BY <1>1, <1>10, <1>12, <1>13 DEF Orderly

(* The header of an open file changes in memory.                           *)
LEMMA SetHeader ==
  ASSUME IInv, NEW fd \in OpenFds, NEW hdr,
         \/ \E x : /\ hdr = [ftab[fd].hdr EXCEPT !.firstfree = x]
                   /\ ftab' = [ftab EXCEPT ![fd].hdr.firstfree = x,
                                           ![fd].hdrchanged = TRUE]
         \/ \E x : /\ hdr = [ftab[fd].hdr EXCEPT !.numpages = x]
                   /\ ftab' = [ftab EXCEPT ![fd].hdr.numpages = x,
                                           ![fd].hdrchanged = TRUE]
  PROVE  /\ fd \in Fds /\ ftab'[fd].hdr = hdr /\ ftab'[fd].hdrchanged = TRUE
         /\ \A other \in OpenFds \ {fd} : ftab'[other] = ftab[other]
         /\ \A other \in Fds \ {fd} : ftab'[other] = ftab[other]
         /\ \A other \in Fds : /\ ftab'[other].fname = ftab[other].fname
                               /\ ftab'[other].mode = ftab[other].mode
<1>1. fd \in Fds /\ ftab \in [Fds -> OpenFileEntry] /\ OpenFds \subseteq Fds
  BY DEF IInv, TypeOK, OpenFds
<1> DEFINE e == ftab[fd]
           n == [e EXCEPT !.hdr = hdr, !.hdrchanged = TRUE]
<1>2. e \in OpenFileEntry
  BY <1>1
<1>3. ftab' = [ftab EXCEPT ![fd] = n]
  <2>1. CASE \E x : /\ hdr = [ftab[fd].hdr EXCEPT !.firstfree = x]
                    /\ ftab' = [ftab EXCEPT ![fd].hdr.firstfree = x,
                                            ![fd].hdrchanged = TRUE]
    BY <1>1, <1>2, <2>1 DEF OpenFileEntry
  <2>2. CASE \E x : /\ hdr = [ftab[fd].hdr EXCEPT !.numpages = x]
                    /\ ftab' = [ftab EXCEPT ![fd].hdr.numpages = x,
                                            ![fd].hdrchanged = TRUE]
    BY <1>1, <1>2, <2>2 DEF OpenFileEntry
  <2> QED
    BY <2>1, <2>2
<1>4. /\ n.hdr = hdr /\ n.hdrchanged = TRUE /\ n.fname = e.fname /\ n.mode = e.mode
  BY <1>2 DEF OpenFileEntry
<1> HIDE DEF n
<1>5. ftab'[fd] = n /\ \A other \in Fds \ {fd} : ftab'[other] = ftab[other]
  BY <1>1, <1>3
<1> QED
  BY <1>1, <1>4, <1>5

(* The head of the free list is a free page of the file.                   *)
LEMMA FreeHead ==
  ASSUME IInv, StoreInv, NEW fd \in OpenFds, FirstFree(fd) # PAGE_LIST_END
  PROVE  /\ FirstFree(fd) \in PagesOf(fd) /\ FirstFree(fd) \in Pages
         /\ PageOf(fd, FirstFree(fd)).nextfree # PAGE_USED
<1> DEFINE hdr == ftab[fd].hdr
           old == [pg \in PagesOf(fd) |-> PageOf(fd, pg)]
           now == [pg \in {hdr.firstfree} \cup PagesOf(fd) |->
                     IF pg = hdr.firstfree THEN [nextfree |-> PAGE_USED] ELSE old[pg]]
           next == [hdr EXCEPT !.firstfree = old[hdr.firstfree].nextfree]
<1>1. /\ FreeChain(hdr, old) /\ hdr \in Header /\ PagesOf(fd) = 0 .. hdr.numpages - 1
      /\ hdr.numpages \in 0 .. MaxPages
  BY InvFacts DEF StoreInv, OpenChains, PagesOf, NumPages, OpenFileEntry
<1>2. /\ now[hdr.firstfree].nextfree = PAGE_USED
      /\ \A pg \in PagesOf(fd) : pg # hdr.firstfree => KeepsLink(old[pg], now[pg])
  BY DEF KeepsLink
<1> HIDE DEF old, now
<1>3. hdr.firstfree \in 0 .. hdr.numpages - 1 /\ old[hdr.firstfree].nextfree # PAGE_USED
  BY <1>1, <1>2, ChainTaken DEF FirstFree
<1>4. hdr.firstfree \in Pages
  BY <1>1, <1>3, SizesAssumption DEF Pages
<1> QED
  BY <1>1, <1>3, <1>4 DEF FirstFree, old

LEMMA DisposePageOrderly ==
  ASSUME IInv, StoreInv, IInv', NEW fd \in Fds, NEW pg \in Pages,
         PF_DisposePage(fd, pg)
  PROVE  Orderly
<1> DEFINE id == <<fd, pg>>
           hdr == ftab[fd].hdr
<1>1. /\ fd \in OpenFds /\ UNCHANGED <<header, touched>> /\ id \in PageIds
      /\ Writable(fd)
  BY DEF PF_DisposePage, PFinvalidFd, PageIds
<1>2. pg \in PagesOf(fd) /\ FirstFree(fd) \in Links
  BY <1>1, InvFacts DEF PF_DisposePage, PFinvalidPagenum, PagesOf, Pages
<1>3. PICK t \in PFbufGet(pool, disk, UnixFd, fd, pg) :
        IF t.err # "OK" THEN Becomes(t) /\ UNCHANGED <<ftab, call>>
        ELSE IF ~PageUsed(t) THEN UnfixOrExit(t, fd, pg) /\ UNCHANGED ftab
        ELSE LET freed == [t.pool EXCEPT
                             !.frame[t.bp].fpage.nextfree = FirstFree(fd)]
             IN /\ Becomes(PFbufUnfix(freed, t.disk, fd, pg, TRUE))
                /\ ftab' = [ftab EXCEPT ![fd].hdr.firstfree = pg,
                                        ![fd].hdrchanged = TRUE]
                /\ UNCHANGED call
  BY DEF PF_DisposePage
<1>4. CASE t.err # "OK"
  <2>1. Becomes(t) /\ UNCHANGED <<ftab, call>>
    BY <1>3, <1>4, Zenon
  <2>2. MovesBut({}, pool, disk, t.pool, t.disk, UnixFd) /\ FixSeen(t.pool)
    BY <1>1, <1>2, <1>4, GetStep
  <2> QED
    BY <1>1, <2>1, <2>2, MoveStep DEF Becomes, StoreInv, NoInternalError
<1>5. CASE t.err = "OK" /\ ~PageUsed(t)
  BY <1>1, <1>3, <1>5, UnfixOrExitOrderly
<1>6. CASE t.err = "OK" /\ PageUsed(t)
  <2> DEFINE c == FrameOf(t.pool, id)
             x == FirstFree(fd)
             l == WithLink(c, x)
             q == [t.pool EXCEPT !.frame[t.bp].fpage.nextfree = x]
             s == PFbufUnfix(q, t.disk, fd, pg, TRUE)
             b == Unfixed(l, TRUE)
  <2>1. /\ Becomes(s) /\ UNCHANGED call
        /\ ftab' = [ftab EXCEPT ![fd].hdr.firstfree = pg, ![fd].hdrchanged = TRUE]
    BY <1>3, <1>6
  <2>2. Settled(fd, pg)
    BY <1>1, <1>2 DEF StoreInv, PagesSettled
  <2>3. /\ Places(pool, disk, t, UnixFd, id) /\ PoolOK(t.pool) /\ t.disk \in Disk
        /\ t.bp = t.pool.hash[id] /\ t.bp # NULL /\ c \in BufferPage /\ c.fixed
        /\ ~IsFixed(fd, pg) /\ id \notin touched /\ c.fpage = PageOf(fd, pg)
    BY <1>1, <1>6, <2>2, GetTarget
  <2>4. Changed(t.pool, q, id, l) /\ PoolOK(q)
    <3> HIDE DEF x
    <3> QED
      BY <1>1, <1>2, <2>3, LinkChanges DEF x
  <2>5. /\ l \in BufferPage /\ l.fixed /\ l.fpage.nextfree = x
    BY <1>2, <2>3, LinkFields
  <2> HIDE DEF q, l
  <2>6. FrameOf(q, id) = l /\ q.hash[id] # NULL
    BY <2>3, <2>4 DEF Changed
  <2>7. s.err = "OK"
    <3>1. PFhashFind(q, fd, pg) # NULL /\ q.frame[PFhashFind(q, fd, pg)].fixed
      BY <2>5, <2>6 DEF PFhashFind, FrameOf
    <3> QED
      BY <3>1 DEF PFbufUnfix, Outcome
  <2>8. s.disk = t.disk /\ Changed(q, s.pool, id, b)
    <3>1. \A dirty \in BOOLEAN : \A r :
            r = PFbufUnfix(q, t.disk, fd, pg, dirty) /\ r.err = "OK" =>
              r.disk = t.disk /\ Changed(q, r.pool, id, Unfixed(FrameOf(q, id), dirty))
      BY <2>3, <2>4, UnfixChanges
    <3> QED
      BY <2>6, <2>7, <3>1, Zenon
  <2>9. b.dirty /\ ~b.fixed /\ b.fpage.nextfree = x
    BY <2>5 DEF BufferPage, Unfixed
  <2> HIDE DEF s, b, c
  <2>10. pool' = s.pool /\ disk' = t.disk /\ Changed(t.pool, s.pool, id, b)
    BY <2>1, <2>4, <2>8, ChangedTwice DEF Becomes
  <2>11. /\ ftab'[fd].hdr = [hdr EXCEPT !.firstfree = pg] /\ ftab'[fd].hdrchanged
         /\ \A other \in OpenFds \ {fd} : ftab'[other] = ftab[other]
         /\ \A other \in Fds \ {fd} : ftab'[other] = ftab[other]
         /\ \A other \in Fds : /\ ftab'[other].fname = ftab[other].fname
                               /\ ftab'[other].mode = ftab[other].mode
    BY <1>1, <2>1, SetHeader
  <2>12. MovesTo({id})
    <3>1. MovesBut({id}, pool, disk, pool', disk', UnixFd)
      BY <2>3, <2>10, PlacesChanged
    <3>2. \A other \in PageIds \ {id} : other \in touched' <=> other \in touched
      BY <1>1
    <3> QED
      BY <1>1, <2>1, <2>11, <3>1, <3>2 DEF MovesTo, StoreInv, NoInternalError
  <2>13. pool'.hash[id] # NULL /\ FrameOf(pool', id) = b
    BY <2>3, <2>10 DEF Changed
  <2>14. /\ PageOf(fd, pg)' = b.fpage
         /\ \A other \in PagesOf(fd) :
              other # pg => KeepsLink(PageOf(fd, other), PageOf(fd, other)')
    BY <1>1, <2>12, <2>13, TargetPages
  <2>15. hdr \in Header /\ PagesOf(fd) = 0 .. hdr.numpages - 1
    BY <1>1, InvFacts DEF PagesOf, NumPages, OpenFileEntry
  <2>16. PagesOf(fd)' = PagesOf(fd)
    BY <2>11, <2>15 DEF PagesOf, NumPages, Header
  <2>17. ChainOf(fd)'
    <3> DEFINE old == [p \in PagesOf(fd) |-> PageOf(fd, p)]
               now == [p \in PagesOf(fd) |-> PageOf(fd, p)']
               next == [hdr EXCEPT !.firstfree = pg]
    <3>1. FreeChain(hdr, old)
      BY <1>1 DEF StoreInv, OpenChains
    <3>2. old[pg].nextfree = PAGE_USED
      BY <1>2, <1>6, <2>3 DEF PageUsed, FrameOf, c
    <3>3. now[pg].nextfree = hdr.firstfree
      BY <1>2, <2>9, <2>14 DEF FirstFree
    <3>4. \A other \in PagesOf(fd) : other # pg => KeepsLink(old[other], now[other])
      BY <2>14
    <3> HIDE DEF old, now
    <3>5. FreeChain(next, now)
      BY <1>2, <2>15, <3>1, <3>2, <3>3, <3>4, ChainPut
    <3> QED
      BY <2>11, <2>16, <3>5 DEF ChainOf, now
  <2>18. Keeps({id})
    <3>1. id \notin touched'
      BY <1>1, <2>3
    <3> HIDE DEF id
    <3> QED
      BY <1>1, <2>9, <2>11, <2>12, <2>13, <2>16, <2>17, <3>1, TargetKeeps DEF id
  <2>19. TargetsSafe({id})
    BY <2>3 DEF TargetsSafe
  <2>20. Seen({id})
    <3>1. FixesOnly({id}, pool, pool')
      BY <2>3, <2>10, PlacesFixes
    <3>2. ~IsFixed(fd, pg)'
      BY <1>1, <2>9, <2>12, <2>13, TargetPages
    <3>3. IsUsed(PageOf(fd, pg))
      <4>1. PageOf(fd, pg) \in FilePage /\ PageOf(fd, pg).nextfree = PAGE_USED
        BY <1>6, <2>3 DEF BufferPage, PageUsed, FrameOf, c
      <4> QED
        BY <4>1, PageNotAbsent DEF IsUsed
    <3>4. ~IsUsed(PageOf(fd, pg))'
      <4>1. x # PAGE_USED
        BY <1>1, FreeHead, SizesAssumption DEF Pages, PAGE_USED, PAGE_LIST_END
      <4> QED
        BY <2>9, <2>14, <4>1 DEF IsUsed
    <3>5. DisposeSeen(fd, pg)
      BY <1>2, <2>3, <2>16, <3>2, <3>3, <3>4 DEF DisposeSeen
    <3> QED
      BY <1>1, <2>11, <3>1, <3>5 DEF Seen
  <2> QED
    BY <1>1, <2>18, <2>19, <2>20 DEF Orderly
<1> QED
  BY <1>4, <1>5, <1>6

LEMMA AllocFreeOrderly ==
  ASSUME IInv, StoreInv, IInv', NEW fd \in OpenFds, Writable(fd), AllocFree(fd),
         header' = header
  PROVE  Orderly
<1>0. PICK pg \in Pages : pg = FirstFree(fd)
  BY FreeHead DEF AllocFree
<1> DEFINE id == <<fd, pg>>
           hdr == ftab[fd].hdr
<1>1. /\ fd \in Fds /\ pg \in PagesOf(fd) /\ id \in PageIds
      /\ PageOf(fd, pg).nextfree # PAGE_USED
  BY <1>0, FreeHead DEF OpenFds, PageIds, AllocFree
<1>2. PICK t \in PFbufGet(pool, disk, UnixFd, fd, pg) :
        /\ disk' = t.disk
        /\ UNCHANGED call
        /\ IF t.err # "OK" THEN pool' = t.pool /\ UNCHANGED <<ftab, touched>>
           ELSE /\ pool' = MarkUsed(t.pool, t.bp)
                /\ ftab' = [ftab EXCEPT
                     ![fd].hdr.firstfree = t.pool.frame[t.bp].fpage.nextfree,
                     ![fd].hdrchanged = TRUE]
                /\ touched' = IF AllocTouches THEN touched \cup {<<fd, pg>>}
                              ELSE touched
  BY <1>0 DEF AllocFree
<1>3. CASE t.err # "OK"
  <2>1. pool' = t.pool /\ disk' = t.disk /\ UNCHANGED <<ftab, touched, call>>
    BY <1>2, <1>3
  <2>2. MovesBut({}, pool, disk, t.pool, t.disk, UnixFd) /\ FixSeen(t.pool)
    BY <1>1, <1>3, GetStep
  <2> QED
    BY <2>1, <2>2, MoveStep DEF StoreInv, NoInternalError
<1>4. CASE t.err = "OK"
  <2> DEFINE c == FrameOf(t.pool, id)
             b == WithLink(c, PAGE_USED)
             x == PageOf(fd, pg).nextfree
  <2>1. Settled(fd, pg)
    BY <1>1 DEF StoreInv, PagesSettled
  <2>2. /\ Places(pool, disk, t, UnixFd, id) /\ PoolOK(t.pool) /\ t.disk \in Disk
        /\ t.bp = t.pool.hash[id] /\ t.bp # NULL /\ c \in BufferPage /\ c.fixed
        /\ ~IsFixed(fd, pg) /\ c.fpage = PageOf(fd, pg)
        /\ c.dirty \/ Stored(t.disk, UnixFd, id) # Absent
        /\ c.dirty => Writable(fd)
    BY <1>1, <1>4, <2>1, GetTarget, SMTT(30)
  <2>3. PAGE_USED \in Links
    BY DEF Links
  <2>4. Changed(t.pool, pool', id, b)
    <3>1. pool' = [t.pool EXCEPT !.frame[t.bp].fpage.nextfree = PAGE_USED]
      BY <1>2, <1>4 DEF MarkUsed
    <3> QED
      BY <1>1, <2>2, <2>3, <3>1, LinkChanges
  <2>5. /\ b.fixed /\ b.fpage.nextfree = PAGE_USED /\ b.dirty = c.dirty
        /\ b.fpage \in FilePage
    BY <2>2, <2>3, LinkFields
  <2>6. /\ disk' = t.disk /\ UNCHANGED call
        /\ ftab' = [ftab EXCEPT ![fd].hdr.firstfree = x, ![fd].hdrchanged = TRUE]
        /\ touched' = IF AllocTouches THEN touched \cup {id} ELSE touched
    BY <1>2, <1>4, <2>2 DEF FrameOf
  <2> HIDE DEF b, c
  <2>7. /\ ftab'[fd].hdr = [hdr EXCEPT !.firstfree = x] /\ ftab'[fd].hdrchanged
        /\ \A other \in OpenFds \ {fd} : ftab'[other] = ftab[other]
        /\ \A other \in Fds \ {fd} : ftab'[other] = ftab[other]
        /\ \A other \in Fds : /\ ftab'[other].fname = ftab[other].fname
                              /\ ftab'[other].mode = ftab[other].mode
    <3> HIDE DEF x
    <3> QED
      BY <2>6, SetHeader
  <2>8. MovesTo({id})
    <3>1. MovesBut({id}, pool, disk, pool', disk', UnixFd)
      BY <2>2, <2>4, <2>6, PlacesChanged
    <3>2. \A other \in PageIds \ {id} : other \in touched' <=> other \in touched
      BY <2>6
    <3> QED
      BY <2>6, <2>7, <3>1, <3>2 DEF MovesTo, StoreInv, NoInternalError
  <2>9. pool'.hash[id] # NULL /\ FrameOf(pool', id) = b
    BY <2>2, <2>4 DEF Changed
  <2>10. /\ PageOf(fd, pg)' = b.fpage
         /\ \A other \in PagesOf(fd) :
              other # pg => KeepsLink(PageOf(fd, other), PageOf(fd, other)')
    BY <2>8, <2>9, TargetPages
  <2>11. hdr \in Header /\ PagesOf(fd) = 0 .. hdr.numpages - 1
    BY <1>1, InvFacts DEF PagesOf, NumPages, OpenFileEntry
  <2>12. PagesOf(fd)' = PagesOf(fd)
    BY <2>7, <2>11 DEF PagesOf, NumPages, Header
  <2>13. ChainOf(fd)'
    <3> DEFINE old == [p \in PagesOf(fd) |-> PageOf(fd, p)]
               now == [p \in PagesOf(fd) |-> PageOf(fd, p)']
               next == [hdr EXCEPT !.firstfree = x]
    <3>1. FreeChain(hdr, old) /\ hdr.firstfree = pg /\ hdr.firstfree # PAGE_LIST_END
      BY <1>0 DEF StoreInv, OpenChains, AllocFree, FirstFree
    <3>2. next = [hdr EXCEPT !.firstfree = old[hdr.firstfree].nextfree]
      BY <1>1, <3>1
    <3>3. now[hdr.firstfree].nextfree = PAGE_USED
      BY <1>1, <2>5, <2>10, <3>1
    <3>4. \A other \in PagesOf(fd) : other # pg => KeepsLink(old[other], now[other])
      BY <2>10
    <3> HIDE DEF old, now, next
    <3>5. FreeChain(next, now)
      BY <2>11, <3>1, <3>2, <3>3, <3>4, ChainTaken
    <3> QED
      BY <2>7, <2>12, <3>5 DEF ChainOf, now, next
  <2>14. Keeps({id})
    <3>1. \/ b.dirty \/ id \in touched' \/ b.fpage = Stored(disk', UnixFd, id)
          \/ /\ ~AllocTouches /\ Stored(disk', UnixFd, id) # Absent
             /\ b.fpage.nextfree = PAGE_USED
      BY <2>2, <2>5, <2>6
    <3> HIDE DEF id
    <3> QED
      BY <2>2, <2>5, <2>7, <2>8, <2>9, <2>12, <2>13, <3>1, TargetKeeps DEF id
  <2>15. TargetsSafe({id})
    BY <1>1, <2>2 DEF TargetsSafe, SafelyUsed, IsUsed
  <2>16. Seen({id})
    <3>1. FixesOnly({id}, pool, pool')
      BY <2>2, <2>4, PlacesFixes
    <3>2. IsFixed(fd, pg)'
      BY <2>5, <2>8, <2>9, TargetPages
    <3>3. IsUsed(PageOf(fd, pg))' /\ ~IsUsed(PageOf(fd, pg))
      BY <1>1, <2>5, <2>10, PageNotAbsent DEF IsUsed
    <3>4. AllocSeen(fd, pg)
      BY <1>1, <2>2, <2>12, <3>2, <3>3 DEF AllocSeen
    <3> QED
      BY <2>7, <3>1, <3>4 DEF Seen
  <2> QED
    BY <1>1, <2>14, <2>15, <2>16 DEF Orderly
<1> QED
  BY <1>3, <1>4

LEMMA AllocExtendOrderly ==
  ASSUME IInv, StoreInv, IInv', NEW fd \in OpenFds, Writable(fd), AllocExtend(fd),
         header' = header
  PROVE  Orderly
<1>0. PICK pg \in Pages : pg = NumPages(fd)
  BY InvFacts DEF AllocExtend, Pages
<1> DEFINE id == <<fd, pg>>
           hdr == ftab[fd].hdr
<1>1. /\ fd \in Fds /\ id \in PageIds /\ UNCHANGED touched /\ pg \in Nat
      /\ FirstFree(fd) = PAGE_LIST_END /\ pg \notin PagesOf(fd)
  BY <1>0 DEF OpenFds, PageIds, Pages, AllocExtend, PagesOf
<1>2. PICK t \in PFbufAlloc(pool, disk, UnixFd, fd, pg) :
        IF t.err # "OK" THEN Becomes(t) /\ UNCHANGED <<ftab, call>>
        ELSE LET s == PFbufUsed(t.pool, t.disk, fd, pg) IN
             /\ disk' = s.disk
             /\ pool' = MarkUsed(s.pool, t.bp)
             /\ ftab' = [ftab EXCEPT ![fd].hdr.numpages = pg + 1,
                                     ![fd].hdrchanged = TRUE]
             /\ call' = IF s.err = "OK" THEN call ELSE Exited
  BY <1>0 DEF AllocExtend
<1>3. PoolOK(pool) /\ disk \in Disk /\ Owned(pool, UnixFd)
  BY InvFacts, OwnedPool
<1>4. CASE t.err # "OK"
  <2>1. Becomes(t) /\ UNCHANGED <<ftab, call>>
    BY <1>2, <1>4, Zenon
  <2>2. CarriesAll(pool, disk, t.pool, t.disk, UnixFd)
    BY <1>1, <1>3, <1>4, AllocCarries
  <2>3. MovesBut({}, pool, disk, t.pool, t.disk, UnixFd) /\ FixSeen(t.pool)
    BY <2>2, CarriesMoves, CarriesFixes DEF CarriesAll, FixSeen
  <2> QED
    BY <1>1, <2>1, <2>3, MoveStep DEF Becomes, StoreInv, NoInternalError
<1>5. CASE t.err = "OK"
  <2> DEFINE s == PFbufUsed(t.pool, t.disk, fd, pg)
             a == FrameOf(t.pool, id)
             c == Dirtied(a)
             b == WithLink(c, PAGE_USED)
  <2>1. /\ disk' = s.disk /\ pool' = MarkUsed(s.pool, t.bp)
        /\ ftab' = [ftab EXCEPT ![fd].hdr.numpages = pg + 1,
                                ![fd].hdrchanged = TRUE]
        /\ call' = IF s.err = "OK" THEN call ELSE Exited
    BY <1>2, <1>5
  <2>2. /\ Places(pool, disk, t, UnixFd, id) /\ pool.hash[id] = NULL
        /\ a = NewPage(fd, pg)
    BY <1>1, <1>3, <1>5, AllocCarries
  <2>3. /\ t.pool.hash[id] = t.bp /\ t.bp # NULL /\ a \in BufferPage /\ a.fixed
    <3>1. NewPage(fd, pg) \in BufferPage /\ NewPage(fd, pg).fixed
      BY <1>1, FreshPageType DEF NewPage, BufferPage, FreshPage
    <3>2. t.pool.hash[id] = t.bp /\ t.bp # NULL
      BY <2>2 DEF Places
    <3> HIDE DEF a
    <3> QED
      BY <2>2, <3>1, <3>2
  <2>4. PoolOK(t.pool) /\ t.disk \in Disk
    BY <1>1, <1>3, <1>5, AllocOK DEF Kept
  <2>5. s.err = "OK"
    <3>1. /\ PFhashFind(t.pool, fd, pg) # NULL
          /\ t.pool.frame[PFhashFind(t.pool, fd, pg)].fixed
      BY <2>3 DEF PFhashFind, FrameOf
    <3> QED
      BY <1>1, <2>4, <3>1, UsedOK
  <2>6. s.disk = t.disk /\ Changed(t.pool, s.pool, id, c) /\ PoolOK(s.pool)
    BY <1>1, <2>4, <2>5, UsedChanges, UsedOK DEF Kept
  <2>7. c \in BufferPage /\ c.fixed /\ c.dirty
    <3> HIDE DEF a
    <3> QED
      BY <2>3 DEF BufferPage, Dirtied
  <2>8. PAGE_USED \in Links
    BY DEF Links
  <2> HIDE DEF s, c
  <2>9. t.bp = s.pool.hash[id] /\ FrameOf(s.pool, id) = c
    BY <2>3, <2>6 DEF Changed
  <2>10. Changed(s.pool, pool', id, b)
    <3>1. pool' = [s.pool EXCEPT !.frame[t.bp].fpage.nextfree = PAGE_USED]
      BY <2>1 DEF MarkUsed
    <3> QED
      BY <1>1, <2>3, <2>6, <2>8, <2>9, <3>1, LinkChanges
  <2>11. b.fixed /\ b.dirty /\ b.fpage.nextfree = PAGE_USED /\ b.fpage \in FilePage
    BY <2>7, <2>8, LinkFields
  <2> HIDE DEF b
  <2>12. Changed(t.pool, pool', id, b) /\ disk' = t.disk /\ call' = call
    BY <2>1, <2>5, <2>6, <2>10, ChangedTwice
  <2>13. /\ ftab'[fd].hdr = [hdr EXCEPT !.numpages = pg + 1] /\ ftab'[fd].hdrchanged
         /\ \A other \in OpenFds \ {fd} : ftab'[other] = ftab[other]
         /\ \A other \in Fds \ {fd} : ftab'[other] = ftab[other]
         /\ \A other \in Fds : /\ ftab'[other].fname = ftab[other].fname
                               /\ ftab'[other].mode = ftab[other].mode
    BY <2>1, SetHeader
  <2>14. MovesTo({id})
    <3>1. MovesBut({id}, pool, disk, pool', disk', UnixFd)
      BY <2>2, <2>12, PlacesChanged
    <3>2. \A other \in PageIds \ {id} : other \in touched' <=> other \in touched
      BY <1>1
    <3> QED
      BY <2>12, <2>13, <3>1, <3>2 DEF MovesTo, StoreInv, NoInternalError
  <2>15. pool'.hash[id] # NULL /\ FrameOf(pool', id) = b
    BY <2>3, <2>12 DEF Changed
  <2>16. /\ PageOf(fd, pg)' = b.fpage
         /\ \A other \in PagesOf(fd) : KeepsLink(PageOf(fd, other), PageOf(fd, other)')
    BY <1>1, <2>14, <2>15, TargetPages
  <2>17. /\ hdr \in Header /\ PagesOf(fd) = 0 .. hdr.numpages - 1
         /\ hdr.numpages = pg /\ hdr.firstfree = PAGE_LIST_END
    BY <1>0, <1>1, InvFacts DEF PagesOf, NumPages, FirstFree, OpenFileEntry
  <2>18. PagesOf(fd)' = 0 .. pg
    BY <1>1, <2>13, <2>17 DEF PagesOf, NumPages, Header
  <2>19. ChainOf(fd)'
    <3> DEFINE old == [p \in PagesOf(fd) |-> PageOf(fd, p)]
               now == [p \in 0 .. pg |-> PageOf(fd, p)']
               next == [hdr EXCEPT !.numpages = hdr.numpages + 1]
    <3>1. FreeChain(hdr, old)
      BY DEF StoreInv, OpenChains
    <3>2. now[hdr.numpages].nextfree = PAGE_USED
      BY <1>1, <2>11, <2>16, <2>17
    <3>3. \A other \in PagesOf(fd) : KeepsLink(old[other], now[other])
      BY <1>1, <2>16, <2>17
    <3>4. ftab'[fd].hdr = next
      BY <2>13, <2>17
    <3> HIDE DEF old, now, next
    <3>5. FreeChain(next, now)
      BY <2>17, <3>1, <3>2, <3>3, ChainExtended DEF next
    <3> QED
      BY <2>18, <3>4, <3>5 DEF ChainOf, now
  <2>20. Keeps({id})
    <3>1. id \notin touched'
      BY <1>1, <2>2, StoreByPage DEF StoreInv, PageKept, IsFixed, PFhashFind
    <3>2. \A q \in PagesOf(fd)' : q \in PagesOf(fd) \/ q = pg
      BY <1>1, <2>17, <2>18
    <3> HIDE DEF id
    <3> QED
      BY <2>11, <2>13, <2>14, <2>15, <2>19, <3>1, <3>2, TargetKeeps DEF id
  <2>21. ~IsFixed(fd, pg)
    BY <2>2 DEF IsFixed, PFhashFind
  <2>22. TargetsSafe({id})
    BY <1>1, <2>21 DEF TargetsSafe
  <2>23. Seen({id})
    <3>1. FixesOnly({id}, pool, pool')
      BY <2>2, <2>12, PlacesFixes
    <3>2. IsFixed(fd, pg)'
      BY <2>11, <2>14, <2>15, TargetPages
    <3>3. IsUsed(PageOf(fd, pg))'
      BY <2>11, <2>16, PageNotAbsent DEF IsUsed
    <3>4. AllocSeen(fd, pg)
      BY <1>0, <1>1, <2>18, <2>21, <3>2, <3>3 DEF AllocSeen
    <3> QED
      BY <2>13, <3>1, <3>4 DEF Seen
  <2> QED
    BY <1>1, <2>20, <2>22, <2>23 DEF Orderly
<1> QED
  BY <1>4, <1>5

(* PF_AllocPage, by its two cases.                                         *)
LEMMA AllocPageOrderly ==
  ASSUME IInv, StoreInv, IInv', NEW fd \in Fds, PF_AllocPage(fd)
  PROVE  Orderly
BY AllocFreeOrderly, AllocExtendOrderly DEF PF_AllocPage, PFinvalidFd

-----------------------------------------------------------------------------
(***************************************************************************)
(* The steps on whole files.                                               *)
(***************************************************************************)

(* A descriptor the step leaves alone, and one it opens.                   *)
StaysOpen(fd) ==
  /\ fd \in OpenFds /\ ftab'[fd] = ftab[fd]
  /\ disk'[ftab[fd].fname] = disk[ftab[fd].fname]

NewlyOpen(fd) ==
  /\ fd \notin OpenFds /\ ~ftab'[fd].hdrchanged
  /\ \A pg \in PagesOf(fd)' : disk'[ftab'[fd].fname][pg] # Absent
  /\ FreeChain(ftab'[fd].hdr, disk'[ftab'[fd].fname])

(* What the properties of steps say of such a step.                        *)
FilesApart ==
  /\ OpenFds # {} => pool' = pool /\ touched' = touched
  /\ \A fd \in OpenFds : fd \in OpenFds' => StaysOpen(fd)
  /\ ReadersStep

LEMMA WholeFileStep ==
  ASSUME IInv, StoreInv, IInv', UNCHANGED <<pool, touched>>, call'.op # "exit",
         \A fd \in OpenFds' : StaysOpen(fd) \/ NewlyOpen(fd),
         OneWriter', HeadersKept', FilesWhole'
  PROVE  StoreInv'
<1>1. FixedPagesAreUsed' /\ NoInternalError'
  BY DEF StoreInv, FixedPagesAreUsed, NoInternalError
<1>2. /\ OpenFds' \subseteq Fds
      /\ \A fd \in Fds : ftab'[fd] \in OpenFileEntry
      /\ \A fd \in OpenFds' : PagesOf(fd)' = 0 .. ftab'[fd].hdr.numpages - 1
      /\ \A fd \in OpenFds' : PagesOf(fd)' \subseteq Pages
  <2>1. \A fd \in Fds : ftab'[fd] \in OpenFileEntry /\ ftab'[fd].hdr.numpages \in 0 .. MaxPages
    BY DEF IInv, TypeOK, OpenFileEntry, Header
  <2> QED
    BY <2>1, SizesAssumption DEF OpenFds, PagesOf, NumPages, Pages
<1>3. \A fd \in Fds, pg \in Pages : PFhashFind(pool, fd, pg) # NULL =>
        fd \in OpenFds /\ fd \in OpenFds' /\ StaysOpen(fd)
  <2>1. FramesFound'
    BY NextFacts
  <2> QED
    BY <2>1, FramesById DEF FramesFound, NewlyOpen
<1>4. OnlyWritersChange'
  <2>1. \A fd \in OpenFds' : ftab'[fd].hdrchanged => Writable(fd)'
    BY DEF StaysOpen, NewlyOpen, StoreInv, OnlyWritersChange, Writable
  <2>2. ASSUME NEW fd \in Fds, NEW pg \in Pages
        PROVE  PageKept(fd, pg)'
    <3>1. PageKept(fd, pg)
      BY StoreByPage DEF StoreInv
    <3>2. CASE PFhashFind(pool, fd, pg) = NULL
      BY <3>1, <3>2 DEF PageKept, IsFixed
    <3>3. CASE PFhashFind(pool, fd, pg) # NULL
      <4>1. Writable(fd)' <=> Writable(fd)
        BY <1>3, <3>3 DEF StaysOpen, Writable
      <4>2. PageOf(fd, pg)' = PageOf(fd, pg) /\ (IsFixed(fd, pg)' <=> IsFixed(fd, pg))
        BY <3>3 DEF PageOf, IsFixed
      <4> QED
        BY <3>1, <4>1, <4>2 DEF PageKept
    <3> QED
      BY <3>2, <3>3
  <2>3. AllKept'
    BY <2>1, <2>2 DEF AllKept
  <2> QED
    BY <2>3, NextFacts
<1>5. ASSUME NEW fd \in OpenFds'
      PROVE  ChainOf(fd)' /\ \A pg \in PagesOf(fd)' : Settled(fd, pg)'
  <2>1. CASE StaysOpen(fd)
    <3>1. PagesOf(fd)' = PagesOf(fd) /\ ftab'[fd] = ftab[fd] /\ fd \in OpenFds
      BY <2>1 DEF PagesOf, NumPages, StaysOpen
    <3>2. \A pg \in PagesOf(fd) : PageOf(fd, pg)' = PageOf(fd, pg)
      BY <2>1 DEF PageOf, StaysOpen
    <3>3. ChainOf(fd)'
      BY <3>1, <3>2 DEF ChainOf, StoreInv, OpenChains
    <3>4. \A pg \in PagesOf(fd) : Settled(fd, pg)'
      BY <2>1, <3>1 DEF Settled, StoreInv, PagesSettled, StaysOpen
    <3> QED
      BY <3>1, <3>3, <3>4
  <2>2. CASE NewlyOpen(fd)
    <3> DEFINE hdr == ftab'[fd].hdr
               old == disk'[ftab'[fd].fname]
               now == [pg \in PagesOf(fd)' |-> PageOf(fd, pg)']
    <3>1. \A pg \in PagesOf(fd)' : PFhashFind(pool, fd, pg) = NULL
      BY <1>2, <1>3, <2>2 DEF NewlyOpen
    <3>2. \A pg \in PagesOf(fd)' : Settled(fd, pg)' /\ PageOf(fd, pg)' = old[pg]
      BY <2>2, <3>1 DEF Settled, PageOf, NewlyOpen
    <3>3. /\ hdr \in Header /\ FreeChain(hdr, old)
          /\ \A pg \in 0 .. hdr.numpages - 1 : KeepsLink(old[pg], now[pg])
      BY <1>2, <2>2, <3>2 DEF NewlyOpen, OpenFileEntry, KeepsLink
    <3> HIDE DEF hdr, old, now
    <3>4. FreeChain(hdr, now)
      BY <3>3, ChainKept
    <3>5. ChainOf(fd)'
      BY <3>4 DEF ChainOf, hdr, now
    <3> QED
      BY <3>2, <3>5
  <2> QED
    BY <2>1, <2>2
<1>6. PagesSettled' /\ OpenChains'
  BY <1>5 DEF PagesSettled, OpenChains, ChainOf
<1> QED
  BY <1>1, <1>4, <1>6 DEF StoreInv

(* PF_CreateFile and PF_DestroyFile: the file is not open.                 *)
LEMMA CreateDestroyStore ==
  ASSUME IInv, StoreInv, IInv', NEW f \in Files, PF_CreateFile(f) \/ PF_DestroyFile(f)
  PROVE  StoreInv' /\ FilesApart
<1>1. /\ UNCHANGED <<pool, ftab, call, touched>>
      /\ header \in [Files -> Header \cup {NoFile}] /\ disk \in Disk
      /\ \A g \in Files \ {f} : header'[g] = header[g] /\ disk'[g] = disk[g]
      /\ \A fd \in OpenFds : ftab[fd].fname \in Files \ {f}
      /\ OpenFds' = OpenFds
  <2>1. \A fd \in OpenFds : ftab[fd].fname \in Files
    BY InvFacts DEF UnixFd, OpenFds
  <2>2. \A fd \in OpenFds : ftab[fd].fname # f
    BY DEF PF_CreateFile, PF_DestroyFile, StoreInv, HeadersKept, OpenFds
  <2>3. /\ header \in [Files -> Header \cup {NoFile}] /\ disk \in Disk
        /\ UNCHANGED <<pool, ftab, call, touched>>
    BY DEF PF_CreateFile, PF_DestroyFile, IInv, TypeOK
  <2>4. \A g \in Files \ {f} : header'[g] = header[g] /\ disk'[g] = disk[g]
    BY <2>3 DEF PF_CreateFile, PF_DestroyFile, Disk
  <2> QED
    BY <2>1, <2>2, <2>3, <2>4 DEF OpenFds
<1>2. \A fd \in OpenFds' : StaysOpen(fd)
  BY <1>1 DEF StaysOpen
<1>3. OneWriter' /\ HeadersKept'
  BY <1>1 DEF StoreInv, OneWriter, HeadersKept, Writable
<1>4. FilesWhole'
  <2>1. ASSUME NEW g \in Files, header'[g] # NoFile, \A fd \in Fds : ~WrittenBy(fd, g)'
        PROVE  /\ \A pg \in 0 .. header'[g].numpages - 1 : disk'[g][pg] # Absent
               /\ FreeChain(header'[g], disk'[g])
    <3>1. \A fd \in Fds : ~WrittenBy(fd, g)
      BY <1>1, <2>1 DEF WrittenBy, Writable
    <3>2. CASE g # f
      BY <1>1, <2>1, <3>1, <3>2 DEF StoreInv, FilesWhole
    <3>3. CASE g = f
      <4>1. header'[f] = EmptyHeader
        BY <1>1, <2>1, <3>3 DEF PF_CreateFile, PF_DestroyFile
      <4> QED
        BY <3>3, <4>1, ChainEmpty DEF EmptyHeader
    <3> QED
      BY <3>2, <3>3
  <2> QED
    BY <2>1 DEF FilesWhole
<1>5. FilesApart
  BY <1>1, <1>2 DEF FilesApart, ReadersStep
<1> QED
  BY <1>1, <1>2, <1>3, <1>4, <1>5, WholeFileStep DEF StoreInv, NoInternalError

(* PF_OpenFile: a file that no one writes is whole on disk.                *)
LEMMA OpenStore ==
  ASSUME IInv, StoreInv, IInv', NEW f \in Files, NEW mode \in Modes,
         PF_OpenFile(f, mode)
  PROVE  StoreInv' /\ FilesApart
<1>1. PICK fd \in Fds \ OpenFds : ftab' = [ftab EXCEPT ![fd] =
        [fname |-> f, hdr |-> header[f], hdrchanged |-> FALSE, mode |-> mode]]
  BY DEF PF_OpenFile
<1>2. /\ UNCHANGED <<pool, disk, header, call, touched>> /\ header[f] # NoFile
      /\ \A other \in Fds :
           ftab[other].fname = f => mode = "r" /\ ftab[other].mode = "r"
  BY DEF PF_OpenFile
<1>3. /\ ftab'[fd] = [fname |-> f, hdr |-> header[f], hdrchanged |-> FALSE, mode |-> mode]
      /\ \A other \in Fds \ {fd} : ftab'[other] = ftab[other]
      /\ OpenFds' \subseteq OpenFds \cup {fd} /\ OpenFds \subseteq Fds
      /\ fd \notin OpenFds /\ ftab[fd].fname = NoFile
  BY <1>1 DEF IInv, TypeOK, OpenFds
<1>4. f # NoFile
  BY AbsentAssumption DEF NoFile
<1>5. \A other \in Fds : ~WrittenBy(other, f)
  BY <1>2 DEF WrittenBy, Writable
<1>6. NewlyOpen(fd)
  <2>1. /\ \A pg \in 0 .. header[f].numpages - 1 : disk[f][pg] # Absent
        /\ FreeChain(header[f], disk[f])
    BY <1>2, <1>5 DEF StoreInv, FilesWhole
  <2>2. PagesOf(fd)' = 0 .. header[f].numpages - 1
    BY <1>3 DEF PagesOf, NumPages
  <2>3. ftab'[fd].hdr = header[f] /\ ftab'[fd].fname = f /\ ~ftab'[fd].hdrchanged
    BY <1>3
  <2>4. disk' = disk
    BY <1>2
  <2> QED
    BY <1>3, <2>1, <2>2, <2>3, <2>4 DEF NewlyOpen
<1>7. \A other \in OpenFds' : StaysOpen(other) \/ NewlyOpen(other)
  <2>1. ASSUME NEW other \in OpenFds', other # fd PROVE StaysOpen(other)
    BY <1>2, <1>3, <2>1 DEF StaysOpen
  <2> QED
    BY <1>6, <2>1
<1>8. OneWriter'
  <2>1. ASSUME NEW one \in OpenFds', NEW other \in OpenFds',
               ftab'[one].fname = ftab'[other].fname, one # other
        PROVE  ftab'[one].mode # "w"
    <3>1. one \in Fds /\ other \in Fds
      BY <1>3
    <3>2. CASE one = fd
      <4>1. ftab[other].fname = f
        BY <1>3, <2>1, <3>1, <3>2
      <4> QED
        BY <1>2, <1>3, <3>1, <3>2, <4>1
    <3>3. CASE other = fd
      <4>1. ftab[one].fname = f /\ ftab'[one] = ftab[one]
        BY <1>3, <2>1, <3>1, <3>3
      <4> QED
        BY <1>2, <3>1, <4>1
    <3>4. CASE one # fd /\ other # fd
      <4>1. one \in OpenFds /\ other \in OpenFds
        BY <1>3, <3>4
      <4>2. ftab'[one] = ftab[one] /\ ftab'[other] = ftab[other]
        BY <1>3, <3>1, <3>4
      <4> QED
        BY <2>1, <4>1, <4>2 DEF StoreInv, OneWriter, Writable
    <3> QED
      BY <3>2, <3>3, <3>4
  <2> QED
    BY <2>1 DEF OneWriter, Writable
<1>9. HeadersKept'
  <2>1. ASSUME NEW other \in OpenFds'
        PROVE  /\ header'[ftab'[other].fname] # NoFile
               /\ ~ftab'[other].hdrchanged => ftab'[other].hdr = header'[ftab'[other].fname]
    <3>1. CASE other = fd
      BY <1>2, <1>3, <3>1
    <3>2. CASE other # fd
      <4>1. other \in OpenFds /\ ftab'[other] = ftab[other]
        BY <1>3, <3>2
      <4> QED
        BY <1>2, <4>1 DEF StoreInv, HeadersKept
    <3> QED
      BY <3>1, <3>2
  <2> QED
    BY <2>1 DEF HeadersKept
<1>10. FilesWhole'
  <2>1. ASSUME NEW g \in Files, \A other \in Fds : ~WrittenBy(other, g)'
        PROVE  \A other \in Fds : ~WrittenBy(other, g)
    <3>1. ~WrittenBy(fd, g)
      BY <1>3, AbsentAssumption DEF WrittenBy, NoFile
    <3>2. \A other \in Fds \ {fd} : ~WrittenBy(other, g)
      BY <1>3, <2>1 DEF WrittenBy, Writable
    <3> QED
      BY <3>1, <3>2
  <2> QED
    BY <1>2, <2>1 DEF StoreInv, FilesWhole
<1>11. FilesApart
  BY <1>2, <1>7 DEF FilesApart, ReadersStep, NewlyOpen
<1> QED
  BY <1>2, <1>7, <1>8, <1>9, <1>10, <1>11, WholeFileStep DEF StoreInv, NoInternalError

(* The end of PF_CloseFile: with every frame gone, the file on disk is the *)
(* file as its client saw it.                                              *)
LEMMA CloseHeaderStore ==
  ASSUME IInv, StoreInv, IInv', CloseHeader
  PROVE  StoreInv' /\ FilesApart
<1> DEFINE fd == call.fd
           f == ftab[fd].fname
           hdr == ftab[fd].hdr
<1>1. /\ fd \in OpenFds /\ fd \in Fds /\ f \in Files /\ hdr \in Header
      /\ UNCHANGED <<pool, disk, touched>> /\ call' = Idle
      /\ ftab' = [ftab EXCEPT ![fd] = UnusedEntry]
  <2>1. call.op = "close" /\ call.fd \in OpenFds /\ call.fd \in Fds
    BY DEF IInv, WalkOK, CloseHeader, OpenFds
  <2> QED
    BY <2>1, InvFacts DEF CloseHeader, UnixFd, OpenFileEntry
<1>2. /\ ftab'[fd] = UnusedEntry
      /\ \A other \in Fds \ {fd} : ftab'[other] = ftab[other]
      /\ OpenFds' = OpenFds \ {fd} /\ OpenFds \subseteq Fds
  <2>1. ftab'[fd] = UnusedEntry /\ \A other \in Fds \ {fd} : ftab'[other] = ftab[other]
    BY <1>1 DEF IInv, TypeOK
  <2> QED
    BY <2>1 DEF OpenFds, UnusedEntry
<1>3. /\ header'[f] = hdr
      /\ \A g \in Files \ {f} : header'[g] = header[g]
      /\ header' = header \/ Writable(fd)
  <2>1. header \in [Files -> Header \cup {NoFile}]
    BY DEF IInv, TypeOK
  <2>2. CASE ftab[fd].hdrchanged
    <3>1. header' = [header EXCEPT ![f] = hdr]
      BY <2>2 DEF CloseHeader
    <3>2. Writable(fd)
      BY <1>1, <2>2 DEF StoreInv, OnlyWritersChange
    <3> QED
      BY <1>1, <2>1, <3>1, <3>2
  <2>3. CASE ~ftab[fd].hdrchanged
    <3>1. header' = header
      BY <2>3 DEF CloseHeader
    <3>2. hdr = header[f]
      BY <1>1, <2>3 DEF StoreInv, HeadersKept
    <3> QED
      BY <3>1, <3>2
  <2> QED
    BY <2>2, <2>3
<1>4. /\ \A pg \in 0 .. hdr.numpages - 1 : disk[f][pg] # Absent
      /\ FreeChain(hdr, disk[f])
  <2> DEFINE old == [pg \in PagesOf(fd) |-> PageOf(fd, pg)]
  <2>1. PagesOf(fd) = 0 .. hdr.numpages - 1 /\ PagesOf(fd) \subseteq Pages
    BY <1>1, SizesAssumption DEF PagesOf, NumPages, Pages, Header
  <2>2. \A pg \in Pages : PFhashFind(pool, fd, pg) = NULL
    <3>1. \A bp \in ToSet(pool.used) : pool.frame[bp].fd # fd
      BY <1>1 DEF IInv, WalkOK, ToSet, CloseHeader
    <3> QED
      BY <1>1, <3>1, FramesById
  <2>3. \A pg \in PagesOf(fd) : disk[f][pg] # Absent /\ PageOf(fd, pg) = disk[f][pg]
    BY <1>1, <2>1, <2>2 DEF StoreInv, PagesSettled, Settled, PageOf
  <2>4. FreeChain(hdr, old) /\ \A pg \in PagesOf(fd) : KeepsLink(old[pg], disk[f][pg])
    BY <1>1, <2>3 DEF StoreInv, OpenChains, KeepsLink
  <2> HIDE DEF old, hdr
  <2>5. FreeChain(hdr, disk[f])
    BY <1>1, <2>1, <2>4, ChainKept
  <2> QED
    BY <2>1, <2>3, <2>5
<1> HIDE DEF fd, f, hdr
<1>5. \A other \in OpenFds' : StaysOpen(other)
  BY <1>1, <1>2 DEF StaysOpen
<1>6. OneWriter'
  BY <1>2 DEF StoreInv, OneWriter, Writable
<1>7. HeadersKept'
  <2>1. ASSUME NEW other \in OpenFds \ {fd}
        PROVE  /\ header'[ftab'[other].fname] # NoFile
               /\ ~ftab'[other].hdrchanged => ftab'[other].hdr = header'[ftab'[other].fname]
    <3>1. /\ ftab'[other] = ftab[other] /\ ftab[other].fname \in Files
          /\ header[ftab[other].fname] # NoFile
          /\ ~ftab[other].hdrchanged => ftab[other].hdr = header[ftab[other].fname]
      BY <1>2, InvFacts DEF StoreInv, HeadersKept, UnixFd
    <3>2. CASE ftab[other].fname = f
      <4>1. ~Writable(fd)
        BY <1>1, <3>2 DEF StoreInv, OneWriter, f
      <4> QED
        BY <1>3, <3>1, <4>1
    <3>3. CASE ftab[other].fname # f
      BY <1>3, <3>1, <3>3
    <3> QED
      BY <3>2, <3>3
  <2> QED
    BY <1>2, <2>1 DEF HeadersKept
<1>8. FilesWhole'
  <2>1. ASSUME NEW g \in Files, header'[g] # NoFile, \A other \in Fds : ~WrittenBy(other, g)'
        PROVE  /\ \A pg \in 0 .. header'[g].numpages - 1 : disk'[g][pg] # Absent
               /\ FreeChain(header'[g], disk'[g])
    <3>1. CASE g = f
      BY <1>1, <1>3, <1>4, <3>1
    <3>2. CASE g # f
      <4>1. \A other \in Fds : ~WrittenBy(other, g)
        <5>1. ~WrittenBy(fd, g)
          BY <3>2 DEF WrittenBy, f
        <5>2. \A other \in Fds \ {fd} : ~WrittenBy(other, g)
          BY <1>2, <2>1 DEF WrittenBy, Writable
        <5> QED
          BY <5>1, <5>2
      <4> QED
        BY <1>1, <1>3, <2>1, <3>2, <4>1 DEF StoreInv, FilesWhole
    <3> QED
      BY <3>1, <3>2
  <2> QED
    BY <2>1 DEF FilesWhole
<1>9. FilesApart
  <2>1. ASSUME NEW g \in Files, \A other \in Fds : ~WrittenBy(other, g)
        PROVE  header'[g] = header[g]
    <3>1. g = f => ~Writable(fd)
      BY <1>1, <2>1 DEF WrittenBy, f
    <3> QED
      BY <1>3, <3>1
  <2> QED
    BY <1>1, <1>5, <2>1 DEF FilesApart, ReadersStep
<1> QED
  BY <1>1, <1>5, <1>6, <1>7, <1>8, <1>9, WholeFileStep DEF Idle

(* PF_Init: no file is open, and so no page is in a frame.                 *)
LEMMA PF_InitStore ==
  ASSUME IInv, StoreInv, IInv', NEW arg \in InitArgs, PF_Init(arg[1], arg[2])
  PROVE  StoreInv' /\ FilesApart
<1>1. OpenFds = {} /\ UNCHANGED <<disk, header, call, touched>>
  BY DEF PF_Init
<1>2. ToSet(pool.used) = {} /\ pool'.used = pool.used
  <2>1. ToSet(pool.used) = {}
    BY <1>1 DEF IInv, FramesOfOpenFiles
  <2> QED
    BY <2>1 DEF PF_Init, IInv, TypeOK, Pool
<1>3. touched = {}
  <2>1. \A fd \in Fds, pg \in Pages : <<fd, pg>> \notin touched
    BY <1>1, FramesById, StoreByPage DEF StoreInv, PageKept, IsFixed
  <2> QED
    BY <2>1 DEF IInv, TypeOK, PageIds
<1>4. OpenFds' = {} /\ \A fd \in Fds, f \in Files : ~WrittenBy(fd, f)
  <2>1. OpenFds' = {}
    BY DEF PF_Init, OpenFds, UnusedEntry
  <2>2. \A fd \in Fds : ftab[fd].fname = NoFile
    BY <1>1 DEF OpenFds
  <2> QED
    BY <2>1, <2>2, AbsentAssumption DEF WrittenBy, NoFile
<1>5. FilesWhole'
  BY <1>1, <1>4 DEF StoreInv, FilesWhole
<1>6. FixedPagesAreUsed' /\ OnlyWritersChange'
  BY <1>1, <1>2, <1>3, <1>4 DEF FixedPagesAreUsed, OnlyWritersChange
<1>7. OneWriter' /\ HeadersKept' /\ PagesSettled' /\ OpenChains'
  BY <1>4 DEF OneWriter, HeadersKept, PagesSettled, OpenChains
<1>8. FilesApart
  BY <1>1 DEF FilesApart, ReadersStep
<1> QED
  BY <1>1, <1>5, <1>6, <1>7, <1>8 DEF StoreInv, NoInternalError

-----------------------------------------------------------------------------
(***************************************************************************)
(* Every step.                                                             *)
(***************************************************************************)
LEMMA NextKinds ==
  ASSUME IInv, StoreInv, IInv', [Next]_vars
  PROVE  \/ Orderly
         \/ \E arg \in InitArgs : PF_Init(arg[1], arg[2])
         \/ \E f \in Files : PF_CreateFile(f) \/ PF_DestroyFile(f)
         \/ \E f \in Files, mode \in Modes : PF_OpenFile(f, mode)
         \/ CloseHeader
<1>1. CASE \E fd \in Fds : PF_CloseFile(fd) \/ PF_AllocPage(fd)
  BY <1>1, CallOrderly, AllocPageOrderly
<1>2. CASE \E fd \in Fds, from \in {-1} \cup Pages : PF_GetNextPage(fd, from)
  BY <1>2, CallOrderly
<1>3. CASE \E fd \in Fds, pg \in Pages : PF_GetThisPage(fd, pg) \/ PF_DisposePage(fd, pg)
  BY <1>3, GetThisPageOrderly, DisposePageOrderly
<1>4. CASE \E fd \in Fds, pg \in Pages, dirty \in BOOLEAN : PF_UnfixPage(fd, pg, dirty)
  BY <1>4, UnfixPageOrderly
<1>5. CASE \E fd \in Fds, pg \in Pages, v \in Vals : Modify(fd, pg, v)
  BY <1>5, ModifyOrderly
<1>6. CASE CallStep
  BY <1>6, CloseReleaseOrderly, NextPageScanOrderly, CallOrderly DEF CallStep
<1>7. CASE UNCHANGED vars
  BY <1>7, CallOrderly
<1> QED
  BY <1>1, <1>2, <1>3, <1>4, <1>5, <1>6, <1>7 DEF Next

LEMMA NextCases ==
  ASSUME IInv, StoreInv, IInv', [Next]_vars
  PROVE  Orderly \/ (StoreInv' /\ FilesApart)
<1>1. CASE \E arg \in InitArgs : PF_Init(arg[1], arg[2])
  BY <1>1, PF_InitStore
<1>2. CASE \E f \in Files : PF_CreateFile(f) \/ PF_DestroyFile(f)
  BY <1>2, CreateDestroyStore
<1>3. CASE \E f \in Files, mode \in Modes : PF_OpenFile(f, mode)
  BY <1>3, OpenStore
<1>4. CASE CloseHeader
  BY <1>4, CloseHeaderStore
<1> QED
  BY <1>1, <1>2, <1>3, <1>4, NextKinds

(* No file exists yet, and none is open.                                   *)
LEMMA InitStore == Init => StoreInv
<1> SUFFICES ASSUME Init PROVE StoreInv
  OBVIOUS
<1>1. OpenFds = {} /\ touched = {} /\ ToSet(pool.used) = {} /\ call.op # "exit"
  BY DEF Init, OpenFds, UnusedEntry, ToSet, Idle
<1>2. \A f \in Files : header[f] = NoFile
  BY DEF Init
<1> QED
  BY <1>1, <1>2 DEF StoreInv, NoInternalError, FixedPagesAreUsed, OneWriter,
     OnlyWritersChange, HeadersKept, PagesSettled, OpenChains, FilesWhole

LEMMA NextStore == IInv /\ StoreInv /\ [Next]_vars => StoreInv'
<1> SUFFICES ASSUME IInv, StoreInv, [Next]_vars PROVE StoreInv'
  OBVIOUS
<1>1. IInv'
  BY NextInv
<1>2. CASE Orderly
  BY <1>1, <1>2, StoreStep DEF Orderly
<1> QED
  BY <1>1, <1>2, NextCases

(* Whatever fails and whatever is evicted, the pages, the lists of free    *)
(* pages and the files on disk stay as the clients left them.              *)
THEOREM StoreInvIsInvariant == Spec => [](IInv /\ StoreInv)
<1>1. Init => IInv /\ StoreInv
  BY InitInv, InitStore
<1>2. IInv /\ StoreInv /\ [Next]_vars => (IInv /\ StoreInv)'
  BY NextInv, NextStore
<1> QED
  BY <1>1, <1>2, PTL DEF Spec

(* pf.c:430, 476, 517 and pfbuf.c:343: exit(1) is never called.            *)
THEOREM NoExit == Spec => []NoInternalError
<1>1. StoreInv => NoInternalError
  BY DEF StoreInv
<1> QED
  BY <1>1, StoreInvIsInvariant, PTL

(* pf.c: a page that is fixed is a used page, whatever the client does     *)
(* with other descriptors of the file.                                     *)
THEOREM NoFreePageFixed == Spec => []FixedPagesAreUsed
<1>1. StoreInv => FixedPagesAreUsed
  BY DEF StoreInv
<1> QED
  BY <1>1, StoreInvIsInvariant, PTL

-----------------------------------------------------------------------------
(***************************************************************************)
(* What no step does.                                                      *)
(***************************************************************************)

(* A page that a client has fixed stays where its pointer leads.           *)
LEMMA FixedStepHolds == IInv /\ StoreInv /\ [Next]_vars => FixedStep
<1> SUFFICES ASSUME IInv, StoreInv, [Next]_vars PROVE FixedStep
  OBVIOUS
<1>1. IInv'
  BY NextInv
<1>2. CASE Orderly
  <2>1. PICK T \in SUBSET PageIds : Keeps(T) /\ TargetsSafe(T)
    BY <1>2 DEF Orderly
  <2>2. ASSUME NEW fd \in Fds, NEW pg \in Pages, IsFixed(fd, pg), <<fd, pg>> \notin T
        PROVE  /\ IsFixed(fd, pg)'
               /\ PFhashFind(pool, fd, pg)' = PFhashFind(pool, fd, pg)
               /\ PageOf(fd, pg)' = PageOf(fd, pg)
    <3>1. fd \in OpenFds /\ <<fd, pg>> \in PageIds \ T /\ <<fd, pg>>[1] = fd
      BY <2>2, FramesById DEF IsFixed, PageIds
    <3>2. /\ Moved(pool, disk, pool', disk', UnixFd, <<fd, pg>>)
          /\ ftab'[fd].fname = ftab[fd].fname /\ ftab'[fd].mode = ftab[fd].mode
          /\ <<fd, pg>> \in touched' <=> <<fd, pg>> \in touched
      BY <2>1, <3>1, OwnedPool DEF Keeps, MovesTo, MovesBut
    <3> QED
      BY <1>1, <2>2, <3>1, <3>2, MovedPage
  <2> QED
    BY <2>1, <2>2 DEF FixedStep, TargetsSafe
<1>3. CASE FilesApart
  <2>1. \A fd \in Fds, pg \in Pages : IsFixed(fd, pg) => fd \in OpenFds
    BY FramesById DEF IsFixed
  <2> QED
    BY <1>3, <2>1 DEF FilesApart, FixedStep, IsFixed, PageOf
<1> QED
  BY <1>1, <1>2, <1>3, NextCases

(* A safely used page is one until it is disposed of.                      *)
LEMMA UsedStepHolds == IInv /\ StoreInv /\ [Next]_vars => UsedStep
<1> SUFFICES ASSUME IInv, StoreInv, [Next]_vars PROVE UsedStep
  OBVIOUS
<1>1. IInv'
  BY NextInv
<1>2. \A fd \in OpenFds : fd \in Fds /\ PagesOf(fd) \subseteq Pages
  BY InvFacts, SizesAssumption DEF PagesOf, Pages
<1>3. CASE Orderly
  <2>1. PICK T \in SUBSET PageIds : Keeps(T) /\ TargetsSafe(T)
    BY <1>3 DEF Orderly
  <2>2. ASSUME NEW fd \in OpenFds, NEW pg \in PagesOf(fd), <<fd, pg>> \notin T,
               SafelyUsed(fd, pg)
        PROVE  SafelyUsed(fd, pg)'
    <3>1. <<fd, pg>> \in PageIds \ T /\ <<fd, pg>>[1] = fd /\ pg \in Pages
      BY <1>2, <2>2 DEF PageIds
    <3>2. /\ Moved(pool, disk, pool', disk', UnixFd, <<fd, pg>>)
          /\ ftab'[fd].fname = ftab[fd].fname
          /\ <<fd, pg>> \in touched' <=> <<fd, pg>> \in touched
      BY <1>2, <2>1, <3>1, OwnedPool DEF Keeps, MovesTo, MovesBut
    <3> QED
      BY <1>1, <2>2, <3>1, <3>2, MovedSafely
  <2>3. ASSUME NEW fd \in OpenFds, NEW pg \in PagesOf(fd), <<fd, pg>> \in T,
               SafelyUsed(fd, pg)
        PROVE  SafelyUsed(fd, pg)' \/ PF_DisposePage(fd, pg)
    BY <1>2, <2>1, <2>3 DEF TargetsSafe
  <2> QED
    BY <2>2, <2>3 DEF UsedStep
<1>4. CASE StoreInv' /\ FilesApart
  <2>1. ASSUME NEW fd \in OpenFds, NEW pg \in PagesOf(fd), fd \in OpenFds',
               SafelyUsed(fd, pg)
        PROVE  SafelyUsed(fd, pg)'
    <3>1. pool' = pool /\ ftab'[fd] = ftab[fd]
          /\ disk'[ftab[fd].fname] = disk[ftab[fd].fname]
      BY <1>4, <2>1 DEF FilesApart, StaysOpen
    <3>2. <<fd, pg>> \in touched => <<fd, pg>> \in touched'
      BY <1>4, <2>1 DEF FilesApart
    <3> QED
      BY <2>1, <3>1, <3>2 DEF SafelyUsed, PageOf
  <2> QED
    BY <2>1 DEF UsedStep
<1> QED
  BY <1>1, <1>3, <1>4, NextCases

(* A file that is open, and that no one has open for writing, stays as it  *)
(* is on disk.                                                             *)
LEMMA ReadersStepHolds == IInv /\ StoreInv /\ [Next]_vars => ReadersStep
<1> SUFFICES ASSUME IInv, StoreInv, [Next]_vars PROVE ReadersStep
  OBVIOUS
<1>1. CASE Orderly
  <2>1. WritesDirty(pool, disk, disk', UnixFd) /\ header' = header
    BY <1>1 DEF Orderly, Keeps, MovesTo, MovesBut
  <2> QED
    BY <2>1, NotWritten DEF ReadersStep
<1>2. CASE FilesApart
  BY <1>2 DEF FilesApart
<1> QED
  BY <1>1, <1>2, NextInv, NextCases

-----------------------------------------------------------------------------
(***************************************************************************)
(* The properties of PFFileProps.                                          *)
(***************************************************************************)

(* The client keeps a pointer into the frame of a page it has fixed:       *)
(* whatever is evicted, closed or opened, the page stays in that frame and *)
(* keeps its contents until the client itself changes or unfixes it.       *)
THEOREM FixedPagesStayPut == Spec => FixedPageStaysPut
<1>1. IInv /\ StoreInv /\ [Next]_vars => [FixedStep]_vars
  BY FixedStepHolds
<1> QED
  BY <1>1, StoreInvIsInvariant, PTL DEF Spec, FixedPageStaysPut

(* IMP.DOC:109: "opening a file more than once for reading is OK": nothing *)
(* that is done with a file that no one writes changes it on disk.         *)
THEOREM ReadersAreHarmless == Spec => ReadersChangeNothing
<1>1. IInv /\ StoreInv /\ [Next]_vars => [ReadersStep]_vars
  BY ReadersStepHolds
<1> QED
  BY <1>1, StoreInvIsInvariant, PTL DEF Spec, ReadersChangeNothing

(* PF_AllocPage, PF_DisposePage: a page that is used, in the file or in a  *)
(* frame that will be written, stays so until its client disposes of it,   *)
(* for clients that leave pages they allocate clean as for any other.      *)
THEOREM AllocatedPagesStayUsed == Spec => UsedUntilDisposed
<1>1. IInv /\ StoreInv /\ [Next]_vars => [UsedStep]_vars
  BY UsedStepHolds
<1> QED
  BY <1>1, StoreInvIsInvariant, PTL DEF Spec, UsedUntilDisposed

(* The rest holds of clients that unfix as dirty what they allocate.       *)

(* PFbufInternalAlloc: no eviction loses a change.                         *)
THEOREM NoChangeLost ==
  ASSUME AllocTouches
  PROVE  Spec => []Coherent
<1>1. StoreInv => Coherent
  BY DEF StoreInv, PagesSettled, Settled, Coherent
<1> QED
  BY <1>1, StoreInvIsInvariant, PTL

(* PF_AllocPage and PF_DisposePage: the list of free pages of an open file *)
(* leads through all its free pages, some in frames and some on disk.      *)
THEOREM FreeListsExact ==
  ASSUME AllocTouches
  PROVE  Spec => []OpenFreeListExact
<1>1. IInv /\ StoreInv => OpenFreeListExact
  <2>1. ASSUME IInv, StoreInv, NEW fd \in OpenFds
        PROVE  FreeListExact(ftab[fd].hdr, [pg \in PagesOf(fd) |-> PageOf(fd, pg)])
    <3> DEFINE hdr == ftab[fd].hdr
               page == [pg \in PagesOf(fd) |-> PageOf(fd, pg)]
    <3>1. hdr \in Header /\ FreeChain(hdr, page)
      BY <2>1, InvFacts DEF StoreInv, OpenChains, OpenFileEntry
    <3> HIDE DEF hdr, page
    <3>2. FreeListExact(hdr, page)
      BY <3>1, ChainExact
    <3> QED
      BY <3>2 DEF hdr, page
  <2> QED
    BY <2>1 DEF OpenFreeListExact
<1> QED
  BY <1>1, StoreInvIsInvariant, PTL

(* PF_CloseFile: the file it leaves is whole, with its pages, its header   *)
(* and its list of free pages on disk.                                     *)
THEOREM ClosedFilesIntact ==
  ASSUME AllocTouches
  PROVE  Spec => []ClosedFileIntact
<1>1. IInv /\ StoreInv => ClosedFileIntact
  <2>1. ASSUME IInv, StoreInv, NEW f \in Files, header[f] # NoFile,
               \A fd \in Fds : ~WrittenBy(fd, f)
        PROVE  /\ \A pg \in 0 .. header[f].numpages - 1 : disk[f][pg] # Absent
               /\ FreeListExact(header[f], disk[f])
    <3>1. /\ \A pg \in 0 .. header[f].numpages - 1 : disk[f][pg] # Absent
          /\ FreeChain(header[f], disk[f]) /\ header[f] \in Header
      BY <2>1 DEF StoreInv, FilesWhole, IInv, TypeOK
    <3> QED
      BY <3>1, ChainExact
  <2> QED
    BY <2>1 DEF ClosedFileIntact
<1> QED
  BY <1>1, StoreInvIsInvariant, PTL

-----------------------------------------------------------------------------
(***************************************************************************)
(* The Paged File layer implements the page store of PageStore: every step *)
(* of a PF_ call, with its evictions, its writes and its failures, is one  *)
(* step of the store or is not seen by the clients at all.                 *)
(*                                                                         *)
(* The clients are those that take a page they allocate to be modified     *)
(* (AllocTouches): a page that is allocated and left clean may be free     *)
(* again, which no store that keeps its pages allows.                      *)
(***************************************************************************)

(* The state of the store.                                                 *)
FileMap == [f \in Files |-> FileContents(f)]
FixedIds == {id \in PageIds : IsFixed(id[1], id[2])}

(* The pages of a file, as one descriptor shows them.                      *)
View(fd) == [pg \in PagesOf(fd) |-> StoredPage(PageOf(fd, pg))]

AllViews ==
  \A fd \in OpenFds, f \in Files : ftab[fd].fname = f => FileContents(f) = View(fd)

-----------------------------------------------------------------------------
(***************************************************************************)
(* The state.                                                              *)
(***************************************************************************)

(* Whoever has a file open sees its contents, in frames and on disk.       *)
LEMMA EveryoneSees ==
  ASSUME AllocTouches, IInv, StoreInv
  PROVE  AllViews
<1> SUFFICES ASSUME NEW fd \in OpenFds, NEW f \in Files, ftab[fd].fname = f
             PROVE  FileContents(f) = View(fd)
  BY DEF AllViews
<1>1. /\ fd \in Fds /\ header[f] # NoFile /\ f # NoFile
      /\ ~ftab[fd].hdrchanged => ftab[fd].hdr = header[f]
      /\ ftab[fd].hdrchanged => Writable(fd)
  BY AbsentAssumption DEF OpenFds, StoreInv, HeadersKept, OnlyWritersChange, NoFile
<1>2. CASE \E w \in Fds : WrittenBy(w, f)
  <2> DEFINE w == CHOOSE other \in Fds : WrittenBy(other, f)
  <2>1. w \in Fds /\ WrittenBy(w, f)
    BY <1>2
  <2>2. FileContents(f) = [pg \in PagesOf(w) |-> StoredPage(PageOf(w, pg))]
    BY <1>1, <1>2 DEF FileContents
  <2> HIDE DEF w
  <2>3. w = fd
    BY <1>1, <2>1 DEF StoreInv, OneWriter, WrittenBy, OpenFds
  <2> QED
    BY <2>2, <2>3 DEF View
<1>3. CASE ~ \E w \in Fds : WrittenBy(w, f)
  <2>1. FileContents(f) = [pg \in 0 .. header[f].numpages - 1 |-> StoredPage(disk[f][pg])]
    BY <1>1, <1>3 DEF FileContents
  <2>2. ~Writable(fd) /\ PagesOf(fd) = 0 .. header[f].numpages - 1
    BY <1>1, <1>3 DEF WrittenBy, PagesOf, NumPages
  <2>3. ASSUME NEW pg \in PagesOf(fd)
        PROVE  PageOf(fd, pg) = disk[f][pg]
    <3>1. pg \in Pages
      BY InvFacts, SizesAssumption DEF PagesOf, Pages
    <3>2. PageKept(fd, pg) /\ Settled(fd, pg)
      BY <1>1, <3>1, StoreByPage DEF StoreInv, PagesSettled
    <3> QED
      BY <2>2, <3>2 DEF PageKept, Settled, PageOf
  <2> QED
    BY <2>1, <2>2, <2>3 DEF View
<1> QED
  BY <1>2, <1>3

(* Before and after a step.                                                *)
LEMMA ViewFacts ==
  ASSUME AllocTouches
  PROVE  /\ IInv /\ StoreInv => AllViews
         /\ (IInv /\ StoreInv)' => AllViews'
<1>1. IInv /\ StoreInv => AllViews
  BY EveryoneSees
<1> QED
  BY <1>1, PTL

(* Used pages show their data.                                             *)
LEMMA StoredPages ==
  ASSUME NEW page \in FilePage \cup {Absent}
  PROVE  /\ StoredPage(page) \in Data \cup {"free"}
         /\ IsUsed(page) => StoredPage(page) \in Data /\ StoredPage(page) = page.pagebuf
         /\ StoredPage(page) = "free" <=> ~IsUsed(page)
BY StoreAssumption DEF StoredPage, IsUsed, FilePage

LEMMA PageTypes ==
  ASSUME IInv, NEW fd \in OpenFds, NEW pg \in Pages
  PROVE  /\ PageOf(fd, pg) \in FilePage \cup {Absent}
         /\ fd \in Fds /\ <<fd, pg>> \in PageIds /\ ftab[fd].fname \in Files
         /\ PagesOf(fd) \subseteq Pages
<1>1. disk \in Disk /\ fd \in Fds /\ ftab[fd].fname \in Files /\ PagesOf(fd) \subseteq Pages
  BY InvFacts, SizesAssumption DEF PagesOf, Pages, UnixFd, OpenFds
<1>2. PageOf(fd, pg) \in FilePage \cup {Absent}
  BY <1>1, FramesById DEF PageOf, Disk
<1> QED
  BY <1>1, <1>2 DEF PageIds

(* A file that nobody is writing is what the disk holds.                   *)
LEMMA ClosedFile ==
  ASSUME IInv, NEW f \in Files, \A fd \in Fds : ~WrittenBy(fd, f)
  PROVE  /\ header[f] = NoFile => FileContents(f) = NoFile
         /\ header[f] # NoFile =>
              /\ FileContents(f) = [pg \in 0 .. header[f].numpages - 1 |->
                                      StoredPage(disk[f][pg])]
              /\ FileContents(f) # NoFile
<1>1. disk \in Disk /\ header \in [Files -> Header \cup {NoFile}]
  BY DEF IInv, TypeOK
<1>2. header[f] = NoFile => FileContents(f) = NoFile
  BY DEF FileContents
<1>3. ASSUME header[f] # NoFile
      PROVE  FileContents(f) = [pg \in 0 .. header[f].numpages - 1 |->
                                  StoredPage(disk[f][pg])]
  BY <1>3 DEF FileContents
<1>4. ASSUME header[f] # NoFile
      PROVE  FileContents(f) # NoFile
  <2> DEFINE n == header[f].numpages
             page == [pg \in 0 .. n - 1 |-> StoredPage(disk[f][pg])]
  <2>1. n \in 0 .. MaxPages
    BY <1>1, <1>4 DEF Header
  <2>2. \A pg \in 0 .. n - 1 : disk[f][pg] \in FilePage \cup {Absent}
    BY <1>1, <2>1, SizesAssumption DEF Disk, Pages
  <2>3. \A pg \in 0 .. n - 1 : StoredPage(disk[f][pg]) \in Data \cup {"free"}
    BY <2>2, StoredPages
  <2>4. page \in [0 .. n - 1 -> Data \cup {"free"}]
    BY <2>3
  <2> HIDE DEF n, page
  <2>5. page \in Store!Contents
    BY <2>1, <2>4 DEF Store!Contents
  <2> QED
    BY <1>3, <1>4, <2>5, StoreAssumption DEF n, page
<1> QED
  BY <1>2, <1>3, <1>4

-----------------------------------------------------------------------------
(***************************************************************************)
(* The steps on the pages of open files.                                   *)
(***************************************************************************)

(* The pages but the target read the same to everyone.                     *)
LEMMA OrderlyView ==
  ASSUME AllocTouches, IInv, StoreInv, IInv', NEW T \in SUBSET PageIds, Keeps(T)
  PROVE  /\ OpenFds' = OpenFds /\ UnixFd' = UnixFd
         /\ \A fd \in OpenFds : \A pg \in PagesOf(fd) :
              <<fd, pg>> \notin T => PageOf(fd, pg)' = PageOf(fd, pg)
         /\ \A f \in Files :
              (\A fd \in Fds : ~WrittenBy(fd, f)) => FileContents(f)' = FileContents(f)
         /\ \A fd \in OpenFds, f \in Files : ftab[fd].fname = f =>
              FileContents(f) = View(fd) /\ FileContents(f)' = View(fd)'
<1>1. /\ WritesDirty(pool, disk, disk', UnixFd) /\ header' = header
      /\ \A id \in OpenIds(UnixFd) \ T : Moved(pool, disk, pool', disk', UnixFd, id)
      /\ \A fd \in Fds : /\ ftab'[fd].fname = ftab[fd].fname
                         /\ ftab'[fd].mode = ftab[fd].mode
      /\ \A id \in PageIds \ T : id \in touched' <=> id \in touched
  BY DEF Keeps, MovesTo, MovesBut
<1>2. OpenFds' = OpenFds /\ UnixFd' = UnixFd
  BY <1>1 DEF OpenFds, UnixFd
<1>3. ASSUME NEW fd \in OpenFds, NEW pg \in PagesOf(fd), <<fd, pg>> \notin T
      PROVE  PageOf(fd, pg)' = PageOf(fd, pg)
  <2>1. fd \in Fds /\ PagesOf(fd) \subseteq Pages
    BY InvFacts, SizesAssumption DEF PagesOf, Pages, OpenFds
  <2>2. <<fd, pg>> \in PageIds \ T /\ <<fd, pg>>[1] = fd /\ pg \in Pages
    BY <1>3, <2>1 DEF PageIds
  <2>3. <<fd, pg>> \in OpenIds(UnixFd) \ T
    BY <2>2, OwnedPool
  <2>4. Settled(fd, pg)
    BY DEF StoreInv, PagesSettled
  <2> QED
    BY <1>1, <2>1, <2>2, <2>3, <2>4, MovedPage
<1>4. ASSUME NEW f \in Files, \A fd \in Fds : ~WrittenBy(fd, f)
      PROVE  FileContents(f)' = FileContents(f)
  <2>1. disk'[f] = disk[f]
    BY <1>1, <1>4, NotWritten
  <2>2. \A fd \in Fds : ~WrittenBy(fd, f)'
    BY <1>1, <1>4 DEF WrittenBy, Writable
  <2> QED
    BY <1>1, <1>4, <2>1, <2>2 DEF FileContents
<1>5. AllViews /\ AllViews'
  BY ViewFacts, StoreStep
<1>6. ASSUME NEW fd \in OpenFds, NEW f \in Files, ftab[fd].fname = f
      PROVE  FileContents(f) = View(fd) /\ FileContents(f)' = View(fd)'
  <2>1. fd \in OpenFds' /\ ftab'[fd].fname = f
    BY <1>1, <1>2, <1>6 DEF OpenFds
  <2> QED
    BY <1>5, <1>6, <2>1 DEF AllViews
<1> QED
  BY <1>2, <1>3, <1>4, <1>6

(* No page reads differently, or only pages of a file someone else writes. *)
LEMMA SameFiles ==
  ASSUME AllocTouches, IInv, StoreInv, IInv', NEW T \in SUBSET PageIds, Keeps(T),
         ftab' = ftab,
         \A fd \in Fds, pg \in Pages :
           <<fd, pg>> \in T => PageOf(fd, pg)' = PageOf(fd, pg)
  PROVE  FileMap' = FileMap
<1>1. ASSUME NEW f \in Files
      PROVE  FileContents(f)' = FileContents(f)
  <2>1. CASE \A fd \in Fds : ~WrittenBy(fd, f)
    BY <2>1, OrderlyView
  <2>2. CASE \E fd \in Fds : WrittenBy(fd, f)
    <3>1. PICK fd \in Fds : WrittenBy(fd, f)
      BY <2>2
    <3>2. fd \in OpenFds /\ ftab[fd].fname = f
      BY <3>1, AbsentAssumption DEF WrittenBy, OpenFds, NoFile
    <3>3. FileContents(f) = View(fd) /\ FileContents(f)' = View(fd)'
      BY <3>2, OrderlyView
    <3>4. PagesOf(fd)' = PagesOf(fd) /\ PagesOf(fd) \subseteq Pages
      BY <3>2, InvFacts, SizesAssumption DEF PagesOf, NumPages, Pages
    <3>5. \A pg \in PagesOf(fd) : PageOf(fd, pg)' = PageOf(fd, pg)
      BY <3>1, <3>2, <3>4, OrderlyView
    <3> QED
      BY <3>3, <3>4, <3>5 DEF View, StoredPage, IsUsed
  <2> QED
    BY <2>1, <2>2
<1> QED
  BY <1>1 DEF FileMap

(* The target is a page of a file this descriptor writes.                  *)
LEMMA TargetFile ==
  ASSUME AllocTouches, IInv, StoreInv, IInv', NEW fd \in OpenFds, NEW pg \in Pages,
         NEW T, T = {<<fd, pg>>}, Keeps(T), Writable(fd),
         NEW f, f = ftab[fd].fname,
         \A other \in OpenFds \ {fd} : ftab'[other] = ftab[other]
  PROVE  /\ f \in Files /\ FileMap[f] = View(fd)
         /\ FileMap' = [FileMap EXCEPT ![f] = View(fd)']
         /\ \A q \in PagesOf(fd) \ {pg} : PageOf(fd, q)' = PageOf(fd, q)
<1>1. f \in Files /\ fd \in Fds /\ T \in SUBSET PageIds
  BY PageTypes
<1>2. FileContents(f) = View(fd) /\ FileContents(f)' = View(fd)'
  BY <1>1, OrderlyView
<1>3. \A q \in PagesOf(fd) \ {pg} : PageOf(fd, q)' = PageOf(fd, q)
  BY <1>1, OrderlyView
<1>4. ASSUME NEW g \in Files, g # f
      PROVE  FileContents(g)' = FileContents(g)
  <2>1. CASE \A w \in Fds : ~WrittenBy(w, g)
    BY <1>1, <2>1, OrderlyView
  <2>2. CASE \E w \in Fds : WrittenBy(w, g)
    <3>1. PICK w \in Fds : WrittenBy(w, g)
      BY <2>2
    <3>2. w \in OpenFds /\ ftab[w].fname = g /\ w # fd
      BY <1>4, <3>1, AbsentAssumption DEF WrittenBy, OpenFds, NoFile
    <3>3. FileContents(g) = View(w) /\ FileContents(g)' = View(w)'
      BY <1>1, <3>2, OrderlyView
    <3>4. \A q \in PagesOf(w) : PageOf(w, q)' = PageOf(w, q)
      BY <1>1, <3>2, OrderlyView
    <3>5. PagesOf(w)' = PagesOf(w)
      BY <3>2 DEF PagesOf, NumPages
    <3> QED
      BY <3>3, <3>4, <3>5 DEF View, StoredPage, IsUsed
  <2> QED
    BY <2>1, <2>2
<1> QED
  BY <1>1, <1>2, <1>3, <1>4 DEF FileMap

-----------------------------------------------------------------------------
(***************************************************************************)
(* The steps of the store they are.                                        *)
(***************************************************************************)

(* The pages that are fixed, but for one.                                  *)
LEMMA FixedPages ==
  ASSUME IInv, IInv', OpenFds' = OpenFds, NEW S, FixesOnly(S, pool, pool')
  PROVE  \A fd \in Fds, pg \in Pages :
           <<fd, pg>> \notin S => (IsFixed(fd, pg)' <=> IsFixed(fd, pg))
<1> SUFFICES ASSUME NEW fd \in Fds, NEW pg \in Pages, <<fd, pg>> \notin S
             PROVE  IsFixed(fd, pg)' <=> IsFixed(fd, pg)
  OBVIOUS
<1>1. CASE fd \in OpenFds
  <2>1. <<fd, pg>> \in PageIds /\ <<fd, pg>>[1] = fd
    BY DEF PageIds
  <2>2. <<fd, pg>> \in OpenIds(UnixFd) \ S
    BY <1>1, <2>1, InvFacts DEF OpenIds
  <2>3. FixedIn(pool', <<fd, pg>>) <=> FixedIn(pool, <<fd, pg>>)
    BY <2>2 DEF FixesOnly
  <2> QED
    BY <2>3 DEF FixedIn, FrameOf, IsFixed, PFhashFind
<1>2. CASE fd \notin OpenFds
  <2>1. FramesFound'
    BY NextFacts
  <2> QED
    BY <1>2, <2>1, FramesById DEF FramesFound, IsFixed
<1> QED
  BY <1>1, <1>2

LEMMA FixedIdsStep ==
  ASSUME IInv, IInv', OpenFds' = OpenFds
  PROVE  /\ FixesOnly({}, pool, pool') => FixedIds' = FixedIds
         /\ \A fd \in Fds, pg \in Pages : FixesOnly({<<fd, pg>>}, pool, pool') =>
              /\ IsFixed(fd, pg)' => FixedIds' = FixedIds \cup {<<fd, pg>>}
              /\ ~IsFixed(fd, pg)' => FixedIds' = FixedIds \ {<<fd, pg>>}
<1>1. ASSUME FixesOnly({}, pool, pool')
      PROVE  FixedIds' = FixedIds
  <2>1. \A id \in PageIds : IsFixed(id[1], id[2])' <=> IsFixed(id[1], id[2])
    BY <1>1, FixedPages DEF PageIds
  <2> QED
    BY <2>1 DEF FixedIds
<1>2. ASSUME NEW fd \in Fds, NEW pg \in Pages, FixesOnly({<<fd, pg>>}, pool, pool')
      PROVE  /\ IsFixed(fd, pg)' => FixedIds' = FixedIds \cup {<<fd, pg>>}
             /\ ~IsFixed(fd, pg)' => FixedIds' = FixedIds \ {<<fd, pg>>}
  <2>1. \A id \in PageIds \ {<<fd, pg>>} :
          IsFixed(id[1], id[2])' <=> IsFixed(id[1], id[2])
    BY <1>2, FixedPages DEF PageIds
  <2>2. <<fd, pg>> \in PageIds /\ <<fd, pg>>[1] = fd /\ <<fd, pg>>[2] = pg
    BY DEF PageIds
  <2>3. FixedIds' = {id \in PageIds : IsFixed(id[1], id[2])'}
    BY DEF FixedIds
  <2>4. \A id \in {<<fd, pg>>} : IsFixed(id[1], id[2])' <=> IsFixed(fd, pg)'
    BY <2>2
  <2> QED
    BY <2>1, <2>2, <2>3, <2>4 DEF FixedIds
<1> QED
  BY <1>1, <1>2

(* A used page of an open file.                                            *)
LEMMA UsedPage ==
  ASSUME AllocTouches, IInv, StoreInv,
         NEW fd \in OpenFds, NEW pg \in PagesOf(fd), IsUsed(PageOf(fd, pg))
  PROVE  Store!IsPage(fd, pg)
<1>1. pg \in Pages /\ fd \in Fds /\ ftab[fd].fname \in Files
  <2>1. fd \in Fds /\ UnixFd[fd] \in Files /\ NumPages(fd) \in 0 .. MaxPages
    BY InvFacts
  <2> QED
    BY <2>1, SizesAssumption DEF PagesOf, Pages, UnixFd
<1>2. FileMap[ftab[fd].fname] = View(fd)
  BY <1>1, EveryoneSees DEF AllViews, FileMap
<1>3. View(fd)[pg] # "free"
  BY <1>1, PageTypes, StoredPages DEF View
<1>4. UnixFd[fd] = ftab[fd].fname /\ UnixFd[fd] # NoFile
  BY <1>1, AbsentAssumption DEF UnixFd, NoFile
<1> QED
  BY <1>2, <1>3, <1>4 DEF Store!IsPage, FileMap, View

(* All pages of a file are used when its list is empty.                    *)
LEMMA NoFreePages ==
  ASSUME AllocTouches, IInv, StoreInv, NEW fd \in OpenFds,
         FirstFree(fd) = PAGE_LIST_END, NEW pg \in PagesOf(fd)
  PROVE  IsUsed(PageOf(fd, pg))
<1> DEFINE hdr == ftab[fd].hdr
           page == [q \in PagesOf(fd) |-> PageOf(fd, q)]
<1>1. /\ FreeChain(hdr, page) /\ hdr.numpages \in Nat
      /\ PagesOf(fd) = 0 .. hdr.numpages - 1 /\ hdr.firstfree = PAGE_LIST_END
  <2>1. FreeChain(hdr, page)
    BY DEF StoreInv, OpenChains
  <2> QED
    BY <2>1, InvFacts DEF PagesOf, NumPages, FirstFree
<1>2. page[pg] = PageOf(fd, pg)
  OBVIOUS
<1> HIDE DEF hdr, page
<1>3. PICK n \in 0 .. hdr.numpages :
        \E order \in [1 .. n -> 0 .. hdr.numpages - 1] : FreeOrder(hdr, page, n, order)
  BY <1>1 DEF FreeChain
<1>4. PICK order \in [1 .. n -> 0 .. hdr.numpages - 1] : FreeOrder(hdr, page, n, order)
  BY <1>3
<1>5. n = 0
  <2>1. SUFFICES ASSUME n # 0 PROVE FALSE
    OBVIOUS
  <2>2. n \in Nat /\ 1 \in 1 .. n
    BY <1>1, <2>1
  <2>3. hdr.firstfree = order[1] /\ order[1] \in 0 .. hdr.numpages - 1
    BY <1>4, <2>1, <2>2 DEF FreeOrder
  <2> QED
    BY <1>1, <2>3 DEF PAGE_LIST_END
<1>6. page[pg].nextfree = PAGE_USED
  BY <1>1, <1>4, <1>5 DEF FreeOrder
<1>7. PageOf(fd, pg) # Absent
  <2>1. Settled(fd, pg) /\ pg \in Pages
    BY PageTypes, InvFacts, SizesAssumption DEF StoreInv, PagesSettled, PagesOf, Pages
  <2> QED
    BY <2>1, PageTypes, FramesById, PageNotAbsent DEF Settled, PageOf
<1> QED
  BY <1>2, <1>6, <1>7 DEF IsUsed

(* A step without a target fixes a page, or is not seen.                   *)
LEMMA FixImplements ==
  ASSUME AllocTouches, IInv, StoreInv, IInv', Keeps({}), ftab' = ftab, FixSeen(pool')
  PROVE  [Store!Next]_(Store!vars)
<1>1. OpenFds' = OpenFds /\ UnixFd' = UnixFd /\ FileMap' = FileMap
  BY OrderlyView, SameFiles
<1>2. CASE FixesOnly({}, pool, pool')
  <2>1. FixedIds' = FixedIds
    BY <1>1, <1>2, FixedIdsStep
  <2> QED
    BY <1>1, <2>1 DEF Store!vars, FileMap, FixedIds
<1>3. CASE \E fd \in OpenFds : \E pg \in PagesOf(fd) :
             /\ FixesOnly({<<fd, pg>>}, pool, pool') /\ IsUsed(PageOf(fd, pg))
             /\ ~FixedIn(pool, <<fd, pg>>) /\ FixedIn(pool', <<fd, pg>>)
  <2>1. PICK fd \in OpenFds : \E pg \in PagesOf(fd) :
             /\ FixesOnly({<<fd, pg>>}, pool, pool') /\ IsUsed(PageOf(fd, pg))
             /\ ~FixedIn(pool, <<fd, pg>>) /\ FixedIn(pool', <<fd, pg>>)
    BY <1>3
  <2>2. PagesOf(fd) \subseteq Pages /\ fd \in Fds
    BY InvFacts, SizesAssumption DEF PagesOf, Pages, OpenFds
  <2>3. PICK pg \in Pages :
             /\ pg \in PagesOf(fd)
             /\ FixesOnly({<<fd, pg>>}, pool, pool') /\ IsUsed(PageOf(fd, pg))
             /\ ~FixedIn(pool, <<fd, pg>>) /\ FixedIn(pool', <<fd, pg>>)
    BY <2>1, <2>2
  <2>4. ~IsFixed(fd, pg) /\ IsFixed(fd, pg)'
    BY <2>3 DEF FixedIn, FrameOf, IsFixed, PFhashFind
  <2>5. FixedIds' = FixedIds \cup {<<fd, pg>>}
    BY <1>1, <2>2, <2>3, <2>4, FixedIdsStep
  <2>6. <<fd, pg>> \notin FixedIds
    BY <2>4 DEF FixedIds
  <2>7. Store!Fix(fd, pg)
    BY <1>1, <2>3, <2>5, <2>6, UsedPage DEF Store!Fix, FileMap, FixedIds
  <2> QED
    BY <2>2, <2>3, <2>7 DEF Store!Next, Pages
<1> QED
  BY <1>2, <1>3 DEF FixSeen

(* What the steps with a target have in common.                            *)
LEMMA TargetStep ==
  ASSUME AllocTouches, IInv, StoreInv, IInv', NEW fd \in OpenFds, NEW pg \in Pages,
         NEW T, T = {<<fd, pg>>}, Keeps(T), FixesOnly(T, pool, pool'),
         \A other \in OpenFds \ {fd} : ftab'[other] = ftab[other]
  PROVE  /\ UnixFd' = UnixFd /\ fd \in Fds /\ <<fd, pg>> \in PageIds
         /\ UnixFd[fd] \in Files /\ UnixFd[fd] # NoFile
         /\ <<fd, pg>> \in FixedIds <=> IsFixed(fd, pg)
         /\ IsFixed(fd, pg)' => FixedIds' = FixedIds \cup {<<fd, pg>>}
         /\ ~IsFixed(fd, pg)' => FixedIds' = FixedIds \ {<<fd, pg>>}
         /\ Writable(fd) =>
              /\ FileMap[UnixFd[fd]] = View(fd)
              /\ FileMap' = [FileMap EXCEPT ![UnixFd[fd]] = View(fd)']
              /\ \A q \in PagesOf(fd) \ {pg} : PageOf(fd, q)' = PageOf(fd, q)
<1>1. fd \in Fds /\ <<fd, pg>> \in PageIds /\ UnixFd[fd] = ftab[fd].fname
  BY PageTypes DEF UnixFd
<1>2. UnixFd[fd] \in Files /\ UnixFd[fd] # NoFile
  BY InvFacts, AbsentAssumption DEF NoFile
<1>3. T \in SUBSET PageIds
  BY <1>1
<1>4. OpenFds' = OpenFds /\ UnixFd' = UnixFd
  BY <1>3, OrderlyView
<1>5. /\ IsFixed(fd, pg)' => FixedIds' = FixedIds \cup {<<fd, pg>>}
      /\ ~IsFixed(fd, pg)' => FixedIds' = FixedIds \ {<<fd, pg>>}
  BY <1>1, <1>4, FixedIdsStep
<1>6. <<fd, pg>> \in FixedIds <=> IsFixed(fd, pg)
  BY <1>1 DEF FixedIds
<1>7. Writable(fd) =>
        /\ FileMap[UnixFd[fd]] = View(fd)
        /\ FileMap' = [FileMap EXCEPT ![UnixFd[fd]] = View(fd)']
        /\ \A q \in PagesOf(fd) \ {pg} : PageOf(fd, q)' = PageOf(fd, q)
  BY <1>1, TargetFile
<1> QED
  BY <1>1, <1>2, <1>4, <1>5, <1>6, <1>7

(* The view of a file in which one page changed or was added.              *)
LEMMA ViewStep ==
  ASSUME NEW fd \in OpenFds, NEW pg, NEW v,
         \A q \in PagesOf(fd) \ {pg} : PageOf(fd, q)' = PageOf(fd, q),
         PagesOf(fd)' \ {pg} = PagesOf(fd) \ {pg},
         v = StoredPage(PageOf(fd, pg)')
  PROVE  View(fd)' = [q \in PagesOf(fd)' |-> IF q = pg THEN v ELSE View(fd)[q]]
<1>1. View(fd)' = [q \in PagesOf(fd)' |-> StoredPage(PageOf(fd, q)')]
  BY DEF View, StoredPage, IsUsed
<1>2. \A q \in PagesOf(fd)' : q # pg =>
        q \in PagesOf(fd) /\ StoredPage(PageOf(fd, q)') = View(fd)[q]
  BY DEF View
<1> QED
  BY <1>1, <1>2

(* PF_UnfixPage.                                                           *)
LEMMA UnfixImplements ==
  ASSUME AllocTouches, IInv, StoreInv, IInv', NEW fd \in OpenFds, NEW pg \in Pages,
         NEW T, T = {<<fd, pg>>}, Keeps(T), FixesOnly(T, pool, pool'),
         UnfixSeen(fd, pg)
  PROVE  Store!Unfix(fd, pg)
<1>1. /\ IsFixed(fd, pg) /\ ~IsFixed(fd, pg)' /\ ftab' = ftab
      /\ PageOf(fd, pg)' = PageOf(fd, pg)
  BY DEF UnfixSeen
<1>2. /\ UnixFd' = UnixFd /\ <<fd, pg>> \in FixedIds
      /\ FixedIds' = FixedIds \ {<<fd, pg>>} /\ <<fd, pg>> \in PageIds
  BY <1>1, TargetStep
<1>3. FileMap' = FileMap
  BY <1>1, <1>2, SameFiles
<1> QED
  BY <1>2, <1>3 DEF Store!Unfix, FileMap, FixedIds

(* Modify.                                                                 *)
LEMMA ModifyImplements ==
  ASSUME AllocTouches, IInv, StoreInv, IInv', NEW fd \in OpenFds, NEW pg \in Pages,
         NEW T, T = {<<fd, pg>>}, Keeps(T), FixesOnly(T, pool, pool'),
         \A other \in OpenFds \ {fd} : ftab'[other] = ftab[other],
         Writable(fd), ModifySeen(fd, pg),
         NEW v, v = StoredPage(PageOf(fd, pg)')
  PROVE  Store!Modify(fd, pg, v)
<1>1. IsFixed(fd, pg) /\ IsFixed(fd, pg)' /\ PagesOf(fd)' = PagesOf(fd)
  BY DEF ModifySeen
<1>2. /\ UnixFd' = UnixFd /\ <<fd, pg>> \in FixedIds /\ UnixFd[fd] \in Files
      /\ FixedIds' = FixedIds \cup {<<fd, pg>>}
      /\ FileMap[UnixFd[fd]] = View(fd)
      /\ FileMap' = [FileMap EXCEPT ![UnixFd[fd]] = View(fd)']
      /\ \A q \in PagesOf(fd) \ {pg} : PageOf(fd, q)' = PageOf(fd, q)
  BY <1>1, TargetStep
<1>3. View(fd)' = [View(fd) EXCEPT ![pg] = v]
  <2>1. View(fd)' = [q \in PagesOf(fd) |-> IF q = pg THEN v ELSE View(fd)[q]]
    BY <1>1, <1>2, ViewStep
  <2> QED
    BY <2>1 DEF View
<1>4. FileMap' = [FileMap EXCEPT ![UnixFd[fd]][pg] = v]
  BY <1>2, <1>3
<1>5. FixedIds' = FixedIds
  BY <1>2
<1> QED
  BY <1>2, <1>4, <1>5 DEF Store!Modify, FileMap, FixedIds

(* PF_DisposePage.                                                         *)
LEMMA DisposeImplements ==
  ASSUME AllocTouches, IInv, StoreInv, IInv', NEW fd \in OpenFds, NEW pg \in Pages,
         NEW T, T = {<<fd, pg>>}, Keeps(T), FixesOnly(T, pool, pool'),
         \A other \in OpenFds \ {fd} : ftab'[other] = ftab[other],
         Writable(fd), DisposeSeen(fd, pg)
  PROVE  Store!Dispose(fd, pg)
<1>1. /\ ~IsFixed(fd, pg) /\ ~IsFixed(fd, pg)' /\ pg \in PagesOf(fd)
      /\ PagesOf(fd)' = PagesOf(fd)
      /\ IsUsed(PageOf(fd, pg)) /\ ~IsUsed(PageOf(fd, pg))'
  BY DEF DisposeSeen
<1>2. /\ UnixFd' = UnixFd /\ <<fd, pg>> \notin FixedIds /\ UnixFd[fd] \in Files
      /\ FixedIds' = FixedIds \ {<<fd, pg>>}
      /\ FileMap[UnixFd[fd]] = View(fd)
      /\ FileMap' = [FileMap EXCEPT ![UnixFd[fd]] = View(fd)']
      /\ \A q \in PagesOf(fd) \ {pg} : PageOf(fd, q)' = PageOf(fd, q)
  BY <1>1, TargetStep
<1>3. View(fd)' = [View(fd) EXCEPT ![pg] = "free"]
  <2>1. StoredPage(PageOf(fd, pg)') = "free"
    BY <1>1 DEF StoredPage, IsUsed
  <2>2. View(fd)' = [q \in PagesOf(fd) |-> IF q = pg THEN "free" ELSE View(fd)[q]]
    BY <1>1, <1>2, <2>1, ViewStep
  <2> QED
    BY <2>2 DEF View
<1>4. FileMap' = [FileMap EXCEPT ![UnixFd[fd]][pg] = "free"]
  BY <1>2, <1>3
<1>5. FixedIds' = FixedIds
  BY <1>2
<1>6. Store!IsPage(fd, pg)
  BY <1>1, UsedPage
<1> QED
  BY <1>2, <1>4, <1>5, <1>6 DEF Store!Dispose, FileMap, FixedIds

(* PF_AllocPage: the page comes from the list of free pages, or is added   *)
(* to a file that has none.                                                *)
LEMMA AllocImplements ==
  ASSUME AllocTouches, IInv, StoreInv, IInv', NEW fd \in OpenFds, NEW pg \in Pages,
         NEW T, T = {<<fd, pg>>}, Keeps(T), FixesOnly(T, pool, pool'),
         \A other \in OpenFds \ {fd} : ftab'[other] = ftab[other],
         Writable(fd), AllocSeen(fd, pg),
         NEW v \in Data, v = StoredPage(PageOf(fd, pg)')
  PROVE  Store!Alloc(fd, pg)
<1> DEFINE old == View(fd)
           next == [q \in DOMAIN old \cup {pg} |-> IF q = pg THEN v ELSE old[q]]
<1>1. ~IsFixed(fd, pg) /\ IsFixed(fd, pg)' /\ DOMAIN old = PagesOf(fd)
  BY DEF AllocSeen, View
<1>2. /\ UnixFd' = UnixFd /\ <<fd, pg>> \notin FixedIds /\ UnixFd[fd] \in Files
      /\ UnixFd[fd] # NoFile
      /\ FixedIds' = FixedIds \cup {<<fd, pg>>}
      /\ FileMap[UnixFd[fd]] = View(fd)
      /\ FileMap' = [FileMap EXCEPT ![UnixFd[fd]] = View(fd)']
      /\ \A q \in PagesOf(fd) \ {pg} : PageOf(fd, q)' = PageOf(fd, q)
  BY <1>1, TargetStep
<1>3. /\ PagesOf(fd)' = PagesOf(fd) \cup {pg}
      /\ IF pg \in DOMAIN old THEN old[pg] = "free"
         ELSE DOMAIN old = 0 .. pg - 1 /\ \A q \in DOMAIN old : old[q] # "free"
  <2>1. CASE /\ pg \in PagesOf(fd) /\ PagesOf(fd)' = PagesOf(fd)
             /\ ~IsUsed(PageOf(fd, pg))
    BY <1>1, <2>1 DEF View, StoredPage
  <2>2. CASE /\ pg = NumPages(fd) /\ FirstFree(fd) = PAGE_LIST_END
             /\ PagesOf(fd)' = 0 .. pg
    <3>1. /\ PagesOf(fd) = 0 .. pg - 1 /\ pg \in Nat /\ pg \notin PagesOf(fd)
          /\ PagesOf(fd)' = PagesOf(fd) \cup {pg}
      <4>1. pg \in Nat
        BY SizesAssumption DEF Pages
      <4>2. PagesOf(fd) = 0 .. pg - 1
        BY <2>2 DEF PagesOf
      <4>3. 0 .. pg = (0 .. pg - 1) \cup {pg}
        BY <4>1
      <4> QED
        BY <2>2, <4>1, <4>2, <4>3
    <3>2. PagesOf(fd) \subseteq Pages
      BY PageTypes
    <3>3. \A q \in PagesOf(fd) : IsUsed(PageOf(fd, q))
      BY <2>2, NoFreePages
    <3>4. \A q \in PagesOf(fd) : StoredPage(PageOf(fd, q)) # "free"
      BY <3>2, <3>3, PageTypes, StoredPages
    <3> QED
      BY <1>1, <3>1, <3>4 DEF View
  <2> QED
    BY <2>1, <2>2 DEF AllocSeen
<1>4. View(fd)' = next
  <2>1. PagesOf(fd)' \ {pg} = PagesOf(fd) \ {pg}
    BY <1>3
  <2>2. View(fd)' = [q \in PagesOf(fd)' |-> IF q = pg THEN v ELSE View(fd)[q]]
    BY <1>2, <2>1, ViewStep
  <2> QED
    BY <1>1, <1>3, <2>2
<1>5. FileMap' = [FileMap EXCEPT ![UnixFd[fd]] = next]
  BY <1>2, <1>4
<1> HIDE DEF old
<1>6. old = FileMap[UnixFd[fd]]
  BY <1>2 DEF old
<1> QED
  BY <1>2, <1>3, <1>5, <1>6 DEF Store!Alloc, FileMap, FixedIds

(* The pages of open files, before and after a step.                       *)
PagesTyped ==
  \A fd \in OpenFds, pg \in Pages : PageOf(fd, pg) \in FilePage \cup {Absent}

LEMMA PagesTypedFacts == (IInv => PagesTyped) /\ (IInv' => PagesTyped')
<1>1. IInv => PagesTyped
  BY PageTypes DEF PagesTyped
<1> QED
  BY <1>1, PTL

(* Every orderly step.                                                     *)
LEMMA OrderlyImplements ==
  ASSUME AllocTouches, IInv, StoreInv, IInv', Orderly
  PROVE  [Store!Next]_(Store!vars)
<1>1. PICK T \in SUBSET PageIds : Keeps(T) /\ Seen(T)
  BY DEF Orderly
<1>2. CASE T = {} /\ ftab' = ftab /\ FixSeen(pool')
  BY <1>1, <1>2, FixImplements
<1>3. CASE \E fd \in OpenFds, pg \in Pages :
             /\ T = {<<fd, pg>>} /\ FixesOnly(T, pool, pool')
             /\ \A other \in OpenFds \ {fd} : ftab'[other] = ftab[other]
             /\ \/ UnfixSeen(fd, pg)
                \/ /\ Writable(fd)
                   /\ ModifySeen(fd, pg) \/ DisposeSeen(fd, pg) \/ AllocSeen(fd, pg)
  <2>1. PICK fd \in OpenFds, pg \in Pages :
             /\ T = {<<fd, pg>>} /\ FixesOnly(T, pool, pool')
             /\ \A other \in OpenFds \ {fd} : ftab'[other] = ftab[other]
             /\ \/ UnfixSeen(fd, pg)
                \/ /\ Writable(fd)
                   /\ ModifySeen(fd, pg) \/ DisposeSeen(fd, pg) \/ AllocSeen(fd, pg)
    BY <1>3
  <2>2. fd \in Fds /\ pg \in 0 .. MaxPages - 1
    BY DEF OpenFds, Pages
  <2>3. IsUsed(PageOf(fd, pg))' => StoredPage(PageOf(fd, pg)') \in Data
    <3>1. OpenFds' = OpenFds
      BY <1>1, OrderlyView
    <3>2. PageOf(fd, pg)' \in FilePage \cup {Absent}
      BY <3>1, PagesTypedFacts DEF PagesTyped
    <3>3. IsUsed(PageOf(fd, pg))' <=> IsUsed(PageOf(fd, pg)')
      BY DEF IsUsed
    <3> QED
      BY <3>2, <3>3, StoredPages
  <2>4. CASE UnfixSeen(fd, pg)
    <3>1. Store!Unfix(fd, pg)
      BY <1>1, <2>1, <2>4, UnfixImplements
    <3> QED
      BY <2>2, <3>1 DEF Store!Next
  <2>5. CASE Writable(fd) /\ ModifySeen(fd, pg)
    <3>1. PICK v \in Data : v = StoredPage(PageOf(fd, pg)')
      BY <2>3, <2>5 DEF ModifySeen
    <3>2. Store!Modify(fd, pg, v)
      BY <1>1, <2>1, <2>5, <3>1, ModifyImplements
    <3> QED
      BY <2>2, <3>2 DEF Store!Next
  <2>6. CASE Writable(fd) /\ DisposeSeen(fd, pg)
    <3>1. Store!Dispose(fd, pg)
      BY <1>1, <2>1, <2>6, DisposeImplements
    <3> QED
      BY <2>2, <3>1 DEF Store!Next
  <2>7. CASE Writable(fd) /\ AllocSeen(fd, pg)
    <3>1. PICK v \in Data : v = StoredPage(PageOf(fd, pg)')
      BY <2>3, <2>7 DEF AllocSeen
    <3>2. Store!Alloc(fd, pg)
      BY <1>1, <2>1, <2>7, <3>1, AllocImplements
    <3> QED
      BY <2>2, <3>2 DEF Store!Next
  <2> QED
    BY <2>1, <2>4, <2>5, <2>6, <2>7
<1> QED
  BY <1>1, <1>2, <1>3 DEF Seen

-----------------------------------------------------------------------------
(***************************************************************************)
(* The steps on whole files.                                               *)
(***************************************************************************)

(* A file that the step leaves alone.                                      *)
LEMMA OtherFile ==
  ASSUME AllocTouches, IInv, StoreInv, IInv', StoreInv', NEW f \in Files,
         header'[f] = header[f], disk'[f] = disk[f], pool' = pool,
         \A fd \in Fds : (ftab[fd].fname = f \/ ftab'[fd].fname = f) =>
           ftab'[fd] = ftab[fd]
  PROVE  FileContents(f)' = FileContents(f)
<1>1. \A fd \in Fds : WrittenBy(fd, f)' <=> WrittenBy(fd, f)
  BY DEF WrittenBy, Writable
<1>2. CASE \A fd \in Fds : ~WrittenBy(fd, f)
  BY <1>1, <1>2 DEF FileContents
<1>3. CASE \E fd \in Fds : WrittenBy(fd, f)
  <2>1. PICK fd \in Fds : WrittenBy(fd, f)
    BY <1>3
  <2>2. /\ ftab[fd].fname = f /\ ftab'[fd] = ftab[fd]
        /\ fd \in OpenFds /\ fd \in OpenFds'
    BY <2>1, AbsentAssumption DEF WrittenBy, OpenFds, NoFile
  <2>3. FileContents(f) = View(fd) /\ FileContents(f)' = View(fd)'
    BY <2>2, ViewFacts DEF AllViews
  <2>4. PagesOf(fd)' = PagesOf(fd)
    BY <2>2 DEF PagesOf, NumPages
  <2>5. \A pg \in PagesOf(fd) : PageOf(fd, pg)' = PageOf(fd, pg)
    BY <2>2 DEF PageOf
  <2> QED
    BY <2>3, <2>4, <2>5 DEF View, StoredPage, IsUsed
<1> QED
  BY <1>2, <1>3

(* PF_CreateFile and PF_DestroyFile.                                       *)
LEMMA CreateImplements ==
  ASSUME AllocTouches, IInv, StoreInv, IInv', StoreInv', NEW f \in Files,
         PF_CreateFile(f)
  PROVE  Store!Create(f)
<1>1. /\ UNCHANGED <<pool, disk, ftab>> /\ header[f] = NoFile
      /\ header' = [header EXCEPT ![f] = EmptyHeader]
      /\ header \in [Files -> Header \cup {NoFile}]
  BY DEF PF_CreateFile, IInv, TypeOK
<1>2. \A fd \in Fds : ftab[fd].fname # f
  BY <1>1, AbsentAssumption DEF StoreInv, HeadersKept, OpenFds, NoFile
<1>3. \A g \in Files \ {f} : FileContents(g)' = FileContents(g)
  BY <1>1, OtherFile
<1>4. FileContents(f) = NoFile
  BY <1>1 DEF FileContents
<1>5. FileContents(f)' = <<>>
  <2>1. header'[f] # NoFile /\ header'[f].numpages = 0
    <3>1. EmptyHeader # Absent /\ EmptyHeader.numpages = 0
      BY AbsentAssumption DEF EmptyHeader, PAGE_LIST_END
    <3> QED
      BY <1>1, <3>1 DEF NoFile
  <2>2. FileContents(f)' = [pg \in 0 .. 0 - 1 |-> StoredPage(disk[f][pg])']
    BY <1>1, <1>2, <2>1 DEF FileContents, WrittenBy
  <2>3. 0 .. 0 - 1 = {}
    OBVIOUS
  <2> QED
    BY <2>2, <2>3
<1>6. FileMap' = [FileMap EXCEPT ![f] = <<>>] /\ FileMap[f] = NoFile
  BY <1>3, <1>4, <1>5 DEF FileMap
<1>7. UnixFd' = UnixFd /\ FixedIds' = FixedIds
  BY <1>1 DEF UnixFd, FixedIds, IsFixed
<1> QED
  BY <1>6, <1>7 DEF Store!Create, FileMap, FixedIds

LEMMA DestroyImplements ==
  ASSUME AllocTouches, IInv, StoreInv, IInv', StoreInv', NEW f \in Files,
         PF_DestroyFile(f)
  PROVE  Store!Destroy(f)
<1>1. /\ UNCHANGED <<pool, ftab>> /\ header[f] # NoFile
      /\ header' = [header EXCEPT ![f] = NoFile]
      /\ disk' = [disk EXCEPT ![f] = [pg \in Pages |-> Absent]]
      /\ header \in [Files -> Header \cup {NoFile}] /\ disk \in Disk
      /\ \A fd \in Fds : ftab[fd].fname # f
  BY DEF PF_DestroyFile, IInv, TypeOK
<1>2. \A g \in Files \ {f} : FileContents(g)' = FileContents(g)
  <2>1. \A g \in Files \ {f} : header'[g] = header[g] /\ disk'[g] = disk[g]
    BY <1>1 DEF Disk
  <2> QED
    BY <1>1, <2>1, OtherFile
<1>3. FileContents(f) # NoFile
  BY <1>1, ClosedFile DEF WrittenBy
<1>4. FileContents(f)' = NoFile
  BY <1>1 DEF FileContents
<1>5. FileMap' = [FileMap EXCEPT ![f] = NoFile] /\ FileMap[f] # NoFile
  <2>1. FileMap' = [g \in Files |-> IF g = f THEN NoFile ELSE FileContents(g)]
    BY <1>2, <1>4 DEF FileMap
  <2> QED
    BY <1>3, <2>1 DEF FileMap
<1>6. UnixFd' = UnixFd /\ FixedIds' = FixedIds
  BY <1>1 DEF UnixFd, FixedIds, IsFixed
<1>7. \A fd \in Fds : UnixFd[fd] # f
  BY <1>1 DEF UnixFd
<1> QED
  BY <1>5, <1>6, <1>7 DEF Store!Destroy, FileMap, FixedIds

(* PF_OpenFile: the new descriptor shows what is on disk.                  *)
LEMMA OpenImplements ==
  ASSUME AllocTouches, IInv, StoreInv, IInv', StoreInv',
         NEW f \in Files, NEW mode \in Modes, PF_OpenFile(f, mode)
  PROVE  \E fd \in Fds : Store!Open(fd, f)
<1>1. PICK fd \in Fds \ OpenFds : ftab' = [ftab EXCEPT ![fd] =
        [fname |-> f, hdr |-> header[f], hdrchanged |-> FALSE, mode |-> mode]]
  BY DEF PF_OpenFile
<1>2. /\ UNCHANGED <<pool, disk, header>> /\ header[f] # NoFile
      /\ \A other \in Fds :
           ftab[other].fname = f => mode = "r" /\ ftab[other].mode = "r"
  BY DEF PF_OpenFile
<1>3. /\ ftab'[fd] = [fname |-> f, hdr |-> header[f], hdrchanged |-> FALSE, mode |-> mode]
      /\ \A other \in Fds \ {fd} : ftab'[other] = ftab[other]
      /\ ftab[fd].fname = NoFile
  BY <1>1 DEF IInv, TypeOK, OpenFds
<1>4. f # NoFile
  BY AbsentAssumption DEF NoFile
<1>5. ASSUME NEW g \in Files \ {f}
      PROVE  FileContents(g)' = FileContents(g)
  <2>1. \A other \in Fds : (ftab[other].fname = g \/ ftab'[other].fname = g) =>
          ftab'[other] = ftab[other]
    BY <1>3, AbsentAssumption DEF NoFile
  <2> QED
    BY <1>2, <2>1, OtherFile
<1>6. FileContents(f) # NoFile /\ FileContents(f)' = FileContents(f)
  <2>1. \A other \in Fds : ~WrittenBy(other, f)
    BY <1>2 DEF WrittenBy, Writable
  <2>2. /\ FileContents(f) # NoFile
        /\ FileContents(f) = [pg \in 0 .. header[f].numpages - 1 |->
                                StoredPage(disk[f][pg])]
    BY <1>2, <2>1, ClosedFile
  <2>3. fd \in OpenFds' /\ ftab'[fd].fname = f
    BY <1>3, <1>4 DEF OpenFds
  <2>4. FileContents(f)' = View(fd)'
    BY <2>3, ViewFacts DEF AllViews
  <2>5. PagesOf(fd)' = 0 .. header[f].numpages - 1
    BY <1>3 DEF PagesOf, NumPages
  <2>6. \A pg \in PagesOf(fd)' : PageOf(fd, pg)' = disk[f][pg]
    <3>1. PagesOf(fd)' \subseteq Pages
      <4>1. header[f] \in Header
        BY <1>2 DEF IInv, TypeOK
      <4> QED
        BY <2>5, <4>1, SizesAssumption DEF Header, Pages
    <3>2. \A pg \in Pages : PFhashFind(pool, fd, pg) = NULL
      BY FramesById
    <3> QED
      BY <1>2, <2>3, <3>1, <3>2 DEF PageOf
  <2> QED
    BY <2>2, <2>4, <2>5, <2>6 DEF View, StoredPage, IsUsed
<1>7. FileMap' = FileMap /\ FileMap[f] # NoFile
  BY <1>5, <1>6 DEF FileMap
<1>8. UnixFd' = [UnixFd EXCEPT ![fd] = f] /\ UnixFd[fd] = NoFile
  <2>1. ftab'[fd].fname = f /\ ftab[fd].fname = NoFile
    BY <1>3
  <2>2. \A other \in Fds \ {fd} : ftab'[other].fname = ftab[other].fname
    BY <1>3
  <2>3. UnixFd' = [other \in Fds |-> ftab'[other].fname]
    BY DEF UnixFd
  <2>4. UnixFd = [other \in Fds |-> ftab[other].fname]
    BY DEF UnixFd
  <2> QED
    BY <2>1, <2>2, <2>3, <2>4
<1>9. FixedIds' = FixedIds
  BY <1>2 DEF FixedIds, IsFixed
<1>10. Store!Open(fd, f)
  BY <1>7, <1>8, <1>9 DEF Store!Open, FileMap, FixedIds
<1> QED
  BY <1>10

(* The end of PF_CloseFile: the disk has what the descriptor showed.       *)
LEMMA CloseImplements ==
  ASSUME AllocTouches, IInv, StoreInv, IInv', StoreInv', CloseHeader
  PROVE  \E fd \in Fds : Store!Close(fd)
<1>1. PICK fd \in Fds : fd = call.fd
  BY DEF IInv, WalkOK, CloseHeader, OpenFds
<1>2. PICK f \in Files : f = ftab[fd].fname
  BY <1>1, InvFacts DEF IInv, WalkOK, CloseHeader, UnixFd
<1> DEFINE hdr == ftab[fd].hdr
<1>3. /\ fd \in OpenFds /\ UNCHANGED <<pool, disk, touched>>
      /\ ftab' = [ftab EXCEPT ![fd] = UnusedEntry]
      /\ header' = IF ftab[fd].hdrchanged THEN [header EXCEPT ![f] = hdr] ELSE header
      /\ header \in [Files -> Header \cup {NoFile}]
      /\ hdr \in Header
  <2>1. call.op = "close" /\ call.fd \in OpenFds
    BY DEF IInv, WalkOK, CloseHeader
  <2>2. header \in [Files -> Header \cup {NoFile}] /\ hdr \in Header
    BY InvFacts DEF IInv, TypeOK, OpenFileEntry
  <2> QED
    BY <1>1, <1>2, <2>1, <2>2 DEF CloseHeader
<1>4. /\ ftab'[fd] = UnusedEntry
      /\ \A other \in Fds \ {fd} : ftab'[other] = ftab[other]
  BY <1>3 DEF IInv, TypeOK
<1>5. header'[f] = hdr /\ hdr # NoFile /\ \A g \in Files \ {f} : header'[g] = header[g]
  <2>1. ~ftab[fd].hdrchanged => hdr = header[f]
    BY <1>2, <1>3 DEF StoreInv, HeadersKept
  <2>2. hdr # NoFile
    BY <1>3, AbsentAssumption DEF Header, NoFile, Links, Pages, PAGE_USED, PAGE_LIST_END
  <2> QED
    BY <1>3, <2>1, <2>2
<1>6. \A pg \in Pages : PFhashFind(pool, fd, pg) = NULL
  <2>1. \A bp \in ToSet(pool.used) : pool.frame[bp].fd # fd
    BY <1>1 DEF IInv, WalkOK, ToSet, CloseHeader
  <2> QED
    BY <2>1, FramesById
<1>7. ASSUME NEW g \in Files \ {f}
      PROVE  FileContents(g)' = FileContents(g)
  <2>1. \A other \in Fds : (ftab[other].fname = g \/ ftab'[other].fname = g) =>
          ftab'[other] = ftab[other]
    BY <1>2, <1>4, AbsentAssumption DEF UnusedEntry, NoFile
  <2> QED
    BY <1>3, <1>5, <2>1, OtherFile
<1>8. FileContents(f)' = FileContents(f)
  <2>1. \A other \in Fds : ~WrittenBy(other, f)'
    <3>1. ~WrittenBy(fd, f)'
      BY <1>4, AbsentAssumption DEF WrittenBy, UnusedEntry, NoFile
    <3>2. \A other \in Fds \ {fd} : ~WrittenBy(other, f)
      BY <1>2, <1>3, AbsentAssumption DEF StoreInv, OneWriter, WrittenBy, OpenFds, NoFile
    <3> QED
      BY <1>4, <3>1, <3>2 DEF WrittenBy, Writable
  <2>2. FileContents(f)' = [pg \in 0 .. hdr.numpages - 1 |-> StoredPage(disk[f][pg])]
    <3> HIDE DEF hdr
    <3> QED
      BY <1>3, <1>5, <2>1 DEF FileContents, StoredPage, IsUsed
  <2>3. FileContents(f) = View(fd)
    BY <1>2, <1>3, EveryoneSees DEF AllViews
  <2>4. PagesOf(fd) = 0 .. hdr.numpages - 1 /\ PagesOf(fd) \subseteq Pages
    BY <1>3, SizesAssumption DEF PagesOf, NumPages, Pages, Header
  <2>5. \A pg \in PagesOf(fd) : PageOf(fd, pg) = disk[f][pg]
    BY <1>2, <1>6, <2>4 DEF PageOf
  <2> QED
    BY <2>2, <2>3, <2>4, <2>5 DEF View
<1>9. FileMap' = FileMap
  BY <1>7, <1>8 DEF FileMap
<1>10. UnixFd' = [UnixFd EXCEPT ![fd] = NoFile] /\ UnixFd[fd] # NoFile
  <2>1. ftab'[fd].fname = NoFile /\ ftab[fd].fname # NoFile
    BY <1>3, <1>4 DEF UnusedEntry, OpenFds
  <2>2. \A other \in Fds \ {fd} : ftab'[other].fname = ftab[other].fname
    BY <1>4
  <2>3. UnixFd' = [other \in Fds |-> ftab'[other].fname]
    BY DEF UnixFd
  <2>4. UnixFd = [other \in Fds |-> ftab[other].fname]
    BY DEF UnixFd
  <2> QED
    BY <2>1, <2>2, <2>3, <2>4
<1>11. FixedIds' = FixedIds /\ \A id \in FixedIds : id[1] # fd
  BY <1>3, <1>6 DEF FixedIds, IsFixed, PageIds
<1>12. Store!Close(fd)
  BY <1>9, <1>10, <1>11 DEF Store!Close, FileMap, FixedIds
<1> QED
  BY <1>12

(* PF_Init: no file is open, and the files stay as they are.               *)
LEMMA PF_InitImplements ==
  ASSUME AllocTouches, IInv, StoreInv, IInv', NEW arg \in InitArgs,
         PF_Init(arg[1], arg[2])
  PROVE  UNCHANGED Store!vars
<1>1. /\ OpenFds = {} /\ UNCHANGED <<disk, header>>
      /\ ftab' = [fd \in Fds |-> UnusedEntry]
  BY DEF PF_Init
<1>2. \A fd \in Fds : ftab[fd].fname = NoFile /\ ftab'[fd].fname = NoFile
  BY <1>1 DEF OpenFds, UnusedEntry
<1>3. UnixFd' = UnixFd /\ OpenFds' = {}
  BY <1>2 DEF UnixFd, OpenFds
<1>4. \A fd \in Fds, f \in Files : ~WrittenBy(fd, f) /\ ~WrittenBy(fd, f)'
  BY <1>2, AbsentAssumption DEF WrittenBy, NoFile
<1>5. FileMap' = FileMap
  <2>1. \A f \in Files : FileContents(f)' = FileContents(f)
    BY <1>1, <1>4 DEF FileContents
  <2> QED
    BY <2>1 DEF FileMap
<1>6. FixedIds = {} /\ FixedIds' = {}
  <2>1. FramesFound'
    BY NextFacts
  <2> QED
    BY <1>1, <1>3, <2>1, FramesById DEF FixedIds, IsFixed, FramesFound, PageIds
<1> QED
  BY <1>3, <1>5, <1>6 DEF Store!vars, FileMap, FixedIds

-----------------------------------------------------------------------------
(***************************************************************************)
(* The refinement.                                                         *)
(***************************************************************************)
LEMMA InitImplements == Init => Store!Init
<1> SUFFICES ASSUME Init PROVE Store!Init
  OBVIOUS
<1>1. \A f \in Files : FileContents(f) = NoFile
  BY DEF Init, FileContents
<1>2. UnixFd = [fd \in Fds |-> NoFile]
  BY DEF Init, UnixFd, UnusedEntry
<1>3. FixedIds = {}
  BY DEF Init, FixedIds, IsFixed, PFhashFind, PageIds
<1> QED
  BY <1>1, <1>2, <1>3 DEF Store!Init, FixedIds

LEMMA StepImplements ==
  ASSUME AllocTouches
  PROVE  IInv /\ StoreInv /\ [Next]_vars => [Store!Next]_(Store!vars)
<1> SUFFICES ASSUME IInv, StoreInv, [Next]_vars
             PROVE  [Store!Next]_(Store!vars)
  OBVIOUS
<1>1. IInv' /\ StoreInv'
  BY NextInv, NextStore
<1>2. CASE Orderly
  BY <1>1, <1>2, OrderlyImplements
<1>3. CASE \E arg \in InitArgs : PF_Init(arg[1], arg[2])
  BY <1>1, <1>3, PF_InitImplements
<1>4. CASE \E f \in Files : PF_CreateFile(f) \/ PF_DestroyFile(f)
  <2>1. \E f \in Files : Store!Create(f) \/ Store!Destroy(f)
    BY <1>1, <1>4, CreateImplements, DestroyImplements
  <2> QED
    BY <2>1 DEF Store!Next
<1>5. CASE \E f \in Files, mode \in Modes : PF_OpenFile(f, mode)
  <2>1. \E f \in Files : \E fd \in Fds : Store!Open(fd, f)
    BY <1>1, <1>5, OpenImplements
  <2> QED
    BY <2>1 DEF Store!Next
<1>6. CASE CloseHeader
  <2>1. \E fd \in Fds : Store!Close(fd)
    BY <1>1, <1>6, CloseImplements
  <2> QED
    BY <2>1 DEF Store!Next
<1> QED
  BY <1>1, <1>2, <1>3, <1>4, <1>5, <1>6, NextKinds

(* The Paged File layer is the page store its documentation promises.      *)
THEOREM PagesAreStored ==
  ASSUME AllocTouches
  PROVE  Spec => ImplementsPageStore
<1>1. Init => Store!Init
  BY InitImplements
<1>2. IInv /\ StoreInv /\ [Next]_vars => [Store!Next]_(Store!vars)
  BY StepImplements
<1> QED
  BY <1>1, <1>2, StoreInvIsInvariant, PTL DEF Spec, ImplementsPageStore, Store!Spec

=============================================================================
